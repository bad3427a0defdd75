# Orrery Telemetry: formal models

TLA+ models of the concurrent core of this repository, the TLC runs that check
them on small instances, and TLAPS proofs that hold for every value of the
constants. Everything is translated from the code under `src/`; the tests and
docs were used to find out what the code is meant to promise.

`PROJECT.json` lists the runs, the source lines behind each definition (`map`),
the hazards the properties are aimed at, and the mutants that show that each
property can fail.

## 1. Inventory of the system

Coding agents (Codex, Claude Code, ChatGPT and others) work on one machine or
repository and talk through *Agent Mail*, a FastMCP server. Bridges turn mail
into turns of the agents' sessions; a dashboard shows who works and who waits.

| Component | State it keeps | Operations | Hard behaviour |
|---|---|---|---|
| Codex App bridge: delivery and cold wake (`delivery.py`, `wake.py`) | SQLite table of delivery rows; attempts in flight, wake history (memory) | `observe`, `reconcile_absent`, `ready_ids`, `acquire`, `mark_delivered`, `mark_failed`, `requeue`; `WakeCoordinator.tick` | leases against processes that outlive them, crash between two steps, retries, rate limit |
| ... runtime snapshot (`snapshot.py`) | one JSON file: state and wake status of each session | `upsert`, `update_delivery`, `mark_waiting_dormant_older_than` | written by wake and event path, read by the dashboard |
| ... daemon event path (`daemon.py`, `hook_entry.py`) | event queue (memory), hook spool, retry file | socket listener, worker loop, drains | lost acks, duplicates, crash while draining |
| ... identity store (`identity_store.py`) | binding and owner-token files | register, rebind | two files, one crash |
| ... MCP server and client (`mcp_server.py`, `agent_mail_client.py`) | none | request translation | - |
| Agent Mail: file reservations (`app.py`) | reservation rows, their records in the Git archive | reserve, renew, release, force-release, sweep | decisions on stale status, rows committed before their records |
| Agent Mail: messaging (`app.py`) | messages, recipients, read and ack times | send, reply, fetch, read, acknowledge | row, archive and signal in three steps |
| Agent Mail: notification signals (`storage.py`) | signal files per agent and message | emit, clear | written in place, cleared in bulk |
| Agent Mail: registration, contacts (`app.py`, `enrollment.py`) | agents, links, enrolment tokens | register, retire, approve | compare-and-set by hand |
| Agent Mail: archive (`storage.py`) | lock files and their owner records, commit queue | `AsyncFileLock`, `heal_archive_locks`, `_CommitQueue` | stale-lock takeover, batching, cancellation, shutdown |
| ... namespaces, migration, restore | databases, plans and digests | one-shot offline tools | partial failure |
| ... consumer switch (`consumer.py`) | settings files of the consumers, a bundle with journal, staged images, receipts | `prepare`, `apply`, `rollback` | crash or power loss in the middle of many files, foreign edits |
| ... global server (`global_server.py`, `global_s2b.py`, `global_signals.py`) | messages, delivery facts, dirty pairs, signal files, receipts | publish, mark, reconcile, retire | file and transaction fail apart |
| ... commit guard (`guard.py`) | none | a Git hook that reads reservations | - |
| ChatGPT MCP (`messaging.py`, `tools.py`, `pairing.py`) | durable ledger of idempotency keys, approvals, previews in memory | preview, commit, status | lost answers, several gateways |
| Global client (`runtime_delivery.py`, `runtime_client.py`, `runtime_target.py`) | an intent per message, one launch intent, one pending mutation, live sessions | prepare, hand over, report, launch, execute, end, resolve | processes that die alone, answers lost between durable writes |
| Hooks and child agents (`spawn_child.sh`, `child_resume.py`, `watch_agent_mail_signals.sh`, `cleanup-child-agent.sh`) | state file, owner token, tombstones, undo record; leases and results of notices | register, launch, resume, tools change, purge, recovery; watch, notify | several processes on the same files, reboot |
| Dashboard (`server.py`) | caches; starts resumes, tools changes and the maintenance of children | views, quotas, relay | crash inside a tools change |
| hermes, dsh, install, doctor, release scripts | configuration files | one-shot | - |

**How they interact.** `send_message` commits rows, writes the archive and drops a
signal file for each recipient. The bridge daemon polls these files; a message
whose signal is present becomes a delivery row, a message whose signal has gone
counts as read. When the session of the agent is idle, the bridge leases its open
rows to a fresh owner and starts `codex exec resume` with a notice; the resumed
turn calls `fetch_inbox`, which clears signals. Hooks inside the session report
turn starts and ends to the daemon's socket, or to a spool when it is down; these
events move the session state that decides whether the next wake is allowed.

Where there is no bridge, `watch_agent_mail_signals.sh` reads the same signal files and
pastes a notice into the agent's tmux session. Agents of a *global* server have a client
of their own instead, which hands each message over with an intent on disk and reports
to the server what became of it; the same client launches their providers and reports
the end of a child to its parent. The dashboard resumes stopped children with their kept
registration, also with other tools.

**What makes each component correct.** Bridge: a message is not written off
unread, is not in the hands of two processes without reason, is retried a
bounded number of times and at last settled; the dashboard is told the truth;
the hourly limit holds. Event path: no accepted event is lost, and replays are
harmless. Reservations: no two agents hold conflicting exclusive leases unless
the code says so, the archive records agree with the rows in the end. Archive:
one writer at a time, every commit answered, and a confirmed one in Git. Switch: all
files old or all new whenever a phase says so. ChatGPT sends: at most once, and what the
ledger says is so. Children: token and state of one registration, a selection of tools
all old or all new. Notices: not after a success, and not none. Global client: a repeat is flagged, a
fact at the server is a fact, a live session is not declared over.

## 2. Plan

Done:

1. `DeliveryLease`, `DeliveryContract`, `ColdWake` and their proofs, with the one that
   the bridge implements the contract.
2. `Reservations`, with its sweep, renewals and archive records, and the
   proof of its main invariant.
3. `BridgeEvents`: hook, socket, spool, queue, retry file and identity files with crash
   points.
4. `ArchiveLock` and `CommitQueue`: the archive's two mechanisms.
5. `MailSignals`: a send to rows, archive and signal, the watcher, and the fetch.
6. `ConsumerSwitch`, `MessageLedger`, and `SendContract`, which the latter implements.
7. `ToolsChange`, `ChildResume`: what is kept of a child, and who changes it.
8. `GlobalDelivery`, `GlobalLaunch`: the global client with its server.
9. Proofs of the safety properties of each of these: of every invariant and every
   action property the runs check.
10. `SubsystemsProof`: each component of `Subsystems` keeps its own specification there,
    so that what is proved of it alone holds of them together.

Left:

* Registration, contacts and enrolment as compare-and-set by hand (`app.py`,
  `enrollment.py`); today only what others see of them is modelled.
* The guard's own reading of the records, and an abstract lease table that the
  reservation rows implement except where the findings show they do not.
* An abstract hand-over (at most once without a flag) implemented by `GlobalDelivery`
  and by `MailSignals`.

## 3. Modules

| Module | Models |
|---|---|
| `DeliveryLease` | The rows of one agent and each method of `DeliveryManager` as an operator from rows to rows, each one being one SQLite transaction |
| `DeliveryContract` | What the table promises: the transitions the trigger `codex_app_delivery_status_transition` allows and who may make them |
| `ColdWake` | `WakeCoordinator.tick` in the daemon's single worker thread, resume processes, session events and their retries, signals, crashes |
| `MCColdWake` | Instances for TLC |
| `DeliveryLeaseProof` | Lemmas about the row operators |
| `ColdWakeProof` | Type correctness, ownership of leased rows, and the other safety properties of `ColdWake`, which implements `DeliveryContract` |
| `Reservations` | The reservation rows of one project, the calls that change them one transaction at a time, the archive lock, and the records the guard reads |
| `MCReservations` | Instances for TLC |
| `ReservationsProof` | Type correctness, the absence of unexplained conflicts, rows against records, the sweep |
| `BridgeEvents` | The way of a lifecycle event from the hook to the snapshot: hooks, main thread and worker, crashes anywhere |
| `ArchiveLock` | `AsyncFileLock`: the asyncio lock of the process, the `O_EXCL` file, its metadata, stale locks, cancellation, the healing at start |
| `CommitQueue` | `_CommitQueue`: batches, merged requests, the direct fallback, cancelled callers, shutdown |
| `ConsumerSwitch` | `apply` and `rollback` of the settings files, with journal, staged images and receipts |
| `MessageLedger` | Sends from ChatGPT: previews, approvals, the durable ledger, two gateways, lost answers |
| `SendContract` | What ChatGPT is promised of a send: one key for a message, one departure, true outcomes, final refusals |
| `ToolsChange` | A change of a stopped child's tools over four files, and the resume it starts |
| `ChildResume` | State file and owner token of a child through registration, launch, resume, purge, cleanup and reboot |
| `MailSignals` | Rows, signal, watcher, worker, lease and result of a notice; the fetch, which may leave messages out and clears the signals of all |
| `GlobalDelivery` | Intents, leases and reports of the global client; facts, dirty pairs and hint files of the server |
| `GlobalLaunch` | Launch, runner, shim, provider, session, report to the parent, retirement and close |
| `Subsystems`, `MCSubsystems` | These ten, one per behaviour; the instances for TLC |
| `ArchiveProof` | Safety of `ArchiveLock` and `CommitQueue` |
| `MessagingProof` | Safety of `MessageLedger` and `MailSignals`; `MessageLedger` implements `SendContract` |
| `ConsumerProof` | Safety of `ConsumerSwitch`, `GlobalDelivery` and `GlobalLaunch` |
| `AgentsProof` | Safety of `ToolsChange`, `ChildResume` and `BridgeEvents` |
| `SubsystemsProof` | Each component keeps its specification in `Subsystems`, and so its properties hold there |

### State and code: the bridge

| Variable | Code |
|---|---|
| `rows` | table `codex_app_delivery_state` |
| `signals`, `emitted` | signal files in the mail server's signal directory; those ever written |
| `snap` | `state` and `delivery.wake_state` of an agent in the runtime snapshot |
| `procs` | children of `ExecResumeAdapter`: how far their turn is, what they were given, their age |
| `inflight` | `WakeCoordinator._inflight`; `touched` says that `last_seen_at` moved since the wake began |
| `hist` | `_wake_history`: the deque of wakes, as their ages in seconds, oldest first |
| `stage`, `batch`, `claim`, `verdict` | where the worker stands in `tick`, and its local variables |
| `queue`, `spool` | `BridgeDaemon._queue`, the hook's spool file |
| `retry` | the retry file: events whose registration Agent Mail refused |
| `daemon` | up, restarted but `queue_spool` not yet run, or down |
| `turn` | the user's own turn in the session |
| `kind` | root session, subagent, or a session whose owner token is missing |
| `consumed`, `served` | history: messages whose signal a fetch took; messages of a process that exited well |

`FinishMark` and `FinishRecord` are the two halves of `_finish_attempts` (the
transaction on the rows, then snapshot and memory). `Scan` is
`read_signal_messages`, `observe` and `reconcile_absent`. The `Hold...` actions are
the early `continue`s of `tick` in the order of the code; `HoldDegraded` is the one of a
session whose last registration was refused or whose owner token is missing, as the
session state `degraded` says. `ProcessEvent` and `ReplayRetry` are
`_process_normalized_event`, from the queue and from the retry file: `Accepted`, `Refused`
and `LacksToken` are its three ends, of which a refusal may leave a row to retry. `HoldNotReady` and
`TakeReady` are `ready_ids`; `AcquireLease`, `Launch`, `LaunchFails`, `Record` the
rest of the loop. `Working` forces the order of the single thread, and lets
everything outside interleave between any two steps. `observe` and
`reconcile_absent` are two transactions, of which `Scan` makes one step: the clock
stands still inside a tick, a requeue between the two has the effect of one before
both (`observe` leaves existing rows alone), and what happens to the signal files
after they were read has the effect of happening after the scan.

### State and code: reservations

| Variable | Code |
|---|---|
| `rows` | table `file_reservations`: agent, path, exclusive, ticks to `expires_ts`, `released_ts` set or not |
| `records` | the JSON records under `file_reservations/` of the archive, by row id: ticks until the guard ignores one (`expires_ts`; a released row's is clamped to `released_ts`) |
| `inactive` | agents whose `last_active_ts` is past the inactivity limit |
| `lock` | `AsyncFileLock` of the project's archive |
| `stage`, `call`, `seen`, `draft` | where the call of an agent stands, what is left of its arguments, the rows it has read, the records it has to write |
| `unsure`, `revived`, `forced` | history: rows a failed call left without their record; rows extended after expiry; rows released by force |

`Reserve` to `Record` is the sweep: `_expire_stale_file_reservations` selects the
expired rows (`SelectExpired`), updates those still expired (`UpdateExpired`),
judges the rest (`Collect`), releases those whose holder is still inactive
(`ReleaseStale`) and writes the records under the lock. `LockAndRead`, then
`Extend`, `Deny` or `Create` for each path, and `WriteGrants` are the locked part of
`file_reservation_paths`. `Release`, `Renew` and `ForceUpdate` write rows without the
lock; their records follow in a step of their own. `View` is the sweep of the
reservations resource. It covers that of `send_message` too, which holds the lock from
the start and so interleaves less.

### State and code: the other components

Each variable is described where it is declared; this is how they correspond to the code.

`BridgeEvents`. `hook` is the process of `hook_entry.py`: `FireHook` to `WriteSpool` its
socket, its timeout and its spool; `backlog` what it sent and the main thread has not
accepted. `spool` is the inode that now has the spool's name, `drains` those renamed
aside, so that a late write goes to a file already read. `main` starts (`StartBridge`,
`QueueSpool`, the drain line by line) and serves; `worker` replays retries, reconciles
bindings, and takes events through `CreateBinding`, `StoreToken`, the registration and
`ShowState`. A crash (`BridgeCrash`) may come between any two steps.

`ArchiveLock`. `asyncLock`, `locked`, `waiters` and `table` are the `asyncio.Lock`s of
`_PROCESS_LOCKS`; `lockFile` is who created the file, `owner` who wrote its metadata.
`at` goes through `AsyncFileLock.__aenter__` and `__aexit__` one file operation at a time;
the actions of `heal_archive_locks` are `HealLook`, `HealRemove`, `HealMetadata`.

`CommitQueue`. `version` is the write of a path that a request commits, `head` the one in
Git; `uncommitted` are the places of the batch that `_process_batch` still has to commit,
in the order of `Precedes`; `joined` is what `Queue.join` waits for.

`ConsumerSwitch`. `image` is what a settings file holds, `durable` what a power loss may
bring back, until its directory is synced; `journal` and `receipts` are the bundle's.

`MessageLedger`. `ledger` is `message-ledger.json`, `previews` the memory of the gateways,
`gate` and `profile` the two locks, `wire` what was sent and may still arrive. `call`
goes through `commit`, `_dispatch` and `_observe`. `SendContract` sees of it the message of
each key, the state in its record, and where each message is (`Place`): ahead until its call
sends it, on its way, there, or gone for good.

`ToolsChange`. `record`, `child.profile` and `made` are the selection, `change` the journal
in a fourth file, `aside` the originals set aside; `request` is the process in
`begin_tools_change`, `_jump_with_tools` or `finish_tools_change`, `shell` the session
it launched. `begin_resume` compares the MCP profile of the child's record, of which
there are two, and not the selection: `McpProfile` gives the profile of each selection, and
a shell may resume on another selection with the same profile.

`ChildResume`. `state`, `credential`, `tombs` and `pending` are the files; `launcher`,
`session`, `purge` and `recovery` the processes that change them, each at its step.
`registrar` is `agentstack-preregister-child`, which after `Register` (the row in Agent Mail
and the handoff) replaces the token and then the state (`PersistToken`, `PersistState`)
without the child's lock and without an undo record. `crossed` is history: a registration
was cut off between the two, or one of them fell into another's locked section or pending
launch. A locked step that reads and writes the same file is one step for it too.

`MailSignals`. `sending` and `fetch` are calls of the server: `fetch.left` are the messages
its filters (`limit`, `urgent_only`, `since_ts`, `topic`) keep out of the answer, and
`FetchClear` removes every signal past the grace, listed or not. `watcher` the main loop of
the script, `deliverer` its background workers, `lease` and `notified` the files
`notify-locks` and `notify-state.json`.

`GlobalDelivery`. `mailbox`, `delivered`, `dirtyPair` and `hints` are the server's; `note`
is `intent.json` of a message; `carrier` a watcher or hook between its preparation and its
report; `wants` whether its importance threshold admits the message. A message is handed
over under its lock, so `PrepareHands` is one step; the handover and the report are
others.

`GlobalLaunch`. `launchRow` is `launch_intent.json` (`phase`, `exec` the outcome of the
execution, `term` the phase of the termination, `resolved` the operator's word; `report`
repeats the verdict on the report, which `term` forgets). `runner` is the process in
`execute`, `native` its child: the shim of `provider-exec`, the provider it becomes, or a
descendant it left. `closing` is the process inside `end_launch`, which holds the
operation mutex, and `slot` the pending mutation. The server looks at the owner first,
then for a receipt of the request (`SendReport`).

### Abstractions

Bridge:

* A timestamp is a countdown or an age that saturates where the code can no longer
  tell values apart. `TimePasses` moves all of them and needs the worker between two
  ticks (or a crashed daemon): a tick takes far less than a second.
* `last_seen_at` is a string with microseconds, so two events never carry the same
  one: the flag `touched` is enough.
* A message is a model value. `SystemMail` are those the bridge ignores (from the
  agent itself or a system sender).
* A uuid is a value of `Owner` that no row, process or attempt refers to (`Fresh`).
  If all are in use the worker waits; the crash run has three, enough for the
  wakes it can have at once.
* Left out: prompt and log texts, diagnostics, the snapshot's file format, and
  events for sessions that are not registered yet.

Reservations:

* A path or glob is a model value; `Matches` says which pathspec matches which text.
  Holes of the pathspec library are thus left to the instance.
* What the probes of mail, files and Git find is free: `Collect` may judge any row of
  an inactive holder stale, or none.
* Leases count down in ticks. `GoInactive` needs its agent between two calls and no
  sweep under way: the limit (half an hour by default) is far longer than a call, and
  a sweep measures inactivity from its own start.
* The paths of a request are taken in any order. Ids are never reused.
* A call that fails while it writes its records may have written some of them: the
  model writes none and puts all of them into `unsure`, about which nothing is
  promised.
* Left out: the project lookup, reports of holders, broad-path warnings, and the
  artifact's fields the guard does not read.

The other components:

* A file operation is one step where another process may see its effect; a section under
  a lock that all users take is one step where no crash inside matters.
* Ages and waits are flags or short counters (`aged`, `due`, `old`, `waits`), set by an
  action of their own.
* Whatever a remote answer, a probe or a user decides is a free choice; one that is a
  failure takes a fault from the bound of its module.
* `MailSignals` has one agent, as files, leases and results are named by agent and
  message. `Grace` is the grace in steps of the clock, also 0, as the setting allows (10 s
  unless set otherwise). It assumes that a lease
  outlasts its worker unless the machine sleeps (`outlived`); the second watcher is the one a
  takeover of the watcher's lock lets in.
* `GlobalDelivery`: a rotated credential is seen by client and server at once; the
  admission reasons and attempt limits of the App bridge and `notify_after_ts` are left
  out. What a hook reports as handed over is what it printed.
* `GlobalLaunch`: the launch of a child. A standalone identity has no report and
  releases its reservations where a child is retired. The two writes of the operator's
  discard of a retired child's report are one step.
* `ToolsChange`, `ChildResume`: the contents of homes, profiles and prompts are numbers
  of the selection or of the registration they belong to.

## 4. Runs

| Run | Instance | Checks |
|---|---|---|
| `coldwake_safety` | 1 session of each kind, 2 messages, 2 attempts, no crash, 1 refused registration | `DeliveredMeansTaken`, `DashboardTruthful`, `HourlyLimit`, `ImplementsContract` |
| `coldwake_crash` | 1 message, 3 owners, 1 crash, 1 requeue, processes that survive `terminate()`, die in mid-turn or outlive the daemon | `InflightOwnsRows`, `AttemptBound`, `SecondWakeOnlyAfterLease` |
| `coldwake_live` | 1 message, 1 user turn, deaths in mid-turn, `FairSpec` | `EventuallySettled` |
| `coldwake_orphan` | 1 crash, `FairSpec` | `OrphanLeaseRecovered`: **violated** |
| `reservations_safety` | 2 agents, a file and a glob over it, 2 rows, leases of 1 tick | `ConflictOnlyByRevival`, `RecordsCover` |
| `reservations_faults` | 2 agents, a file and a virtual name, 1 row, leases of up to 2 ticks, 1 forced release, 2 failures | `ReleaseIsRecorded`, `SweepSparesTheLiving` |
| `reservations_symmetric` | as `reservations_safety` | `SymmetricConflict`: **violated** |
| `reservations_renewal` | 2 agents, 1 file, 1 row | `RenewalIsRecorded`: **violated** |
| `reservations_force` | the same, 1 forced release | `ForceSparesTheLiving`: **violated** |
| `subsystems_safety` | the ten components, one per behaviour | `SubsystemsTypeOK`, the invariants and action properties below |
| `subsystems_live` | eight of them (not the ledger, nor the launch), `SubsystemsFairSpec` | the liveness properties below |
| `mail_filtered` | the mail component of `subsystems_safety` alone | `LeftOutKeepsSignal`: **violated** |

* `DeliveredMeansTaken`: a delivered row was read, or a process that was given the
  message exited well.
* `DashboardTruthful`: between two ticks "waking" is a wake under way, "idle" leaves
  nothing open.
* `HourlyLimit`: at most `WakesPerHour` wakes in any hour of the daemon's life.
* `InflightOwnsRows`: the rows of an attempt stay leased to it until its result is
  marked, whatever recovery, consumption or an operator do.
* `AttemptBound`: attempts exceed `max_attempts` by at most one for each crash.
* `SecondWakeOnlyAfterLease`: a second process gets a message while the first runs
  only after the first outlived its lease or survived its timeout.
* `ImplementsContract`: the detailed table refines the contract.
* `EventuallySettled`: an open row is delivered or dead-lettered some time, if the
  session is idle again and again.
* `ConflictOnlyByRevival`: two agents hold active reservations that conflict, the
  older pattern matching the younger path, only if the older one had expired and was
  extended.
* `RecordsCover`: an active row of an agent between two calls has a record at least
  as long, so the guard protects it, failures and revivals apart.
* `ReleaseIsRecorded`: a released row whose records are all written holds off nobody's
  commit any more.
* `SweepSparesTheLiving`: an unexpired row of an active holder is ended by the
  holder alone, or by force.

The components of `Subsystems` share no state. `focus`, chosen at the start, says
which one runs in a behaviour while the others rest, so one run checks ten state spaces
one beside the other: their number of states is a sum. `TypeOK` of the bridge
and of reservations is proved, and no run repeats it.

| Component | Property | What it says |
|---|---|---|
| Events | `NoEventVanishes` | an event whose hook is done is in memory or on disk, processed or dropped by a rule, or was in memory only at a crash, or written to a spool file already read |
| | `RegisteredTokenKept` | Agent Mail knows no owner token that the identity store does not hold |
| | `OlderStateOnlyByDetour` | the snapshot goes back to an older event only for one from the spool or the retry file |
| | `EventsAreSettled` | an accepted event is settled some time, unless a crash takes it from memory or an unreadable binding stops the worker |
| Lock | `OverlapNeedsForeignRemoval` | two tasks are inside at once only after a holder's file was removed by another |
| | `ExitSparesSameLock` | the unlinks at the exit never take the file of one who shares the `asyncio.Lock` |
| | `EveryEntryEnds` | every call of the lock ends |
| Commits | `CommittedMeansInHead` | who is told that its commit is done finds its writes, or later ones, in Git |
| | `EveryCallerAnswered` | a waiting caller is answered, unless a caller was cancelled (the exception ends its batch) or the queue was stopped |
| Switch | `NoMixedVectorMarked` | a terminal phase stands for files all of one image, also after a power loss |
| | `OneRollbackRestores` | an undisturbed rollback restores whatever an interrupted operation left |
| Ledger | `SentOnce` | a preview reaches Mail at most once and under one key |
| | `ImplementsSendContract` | the same from the outside and over time: a message leaves only while nothing is recorded of its outcome, what is written of it is true (the invariant `OutcomeTruthful` follows), and what is written over what |
| Tools | `SelectionWhole` | with no change pending the selection is all old or all new |
| | `RunningKeepsSelection` | nothing touches the selection of a running child |
| | `EveryChangeResolves` | a pending change is resolved, unless a refused session discarded a restored original |
| Child | `OnePair` | state and token that are both there are of one registration, unless a registration was cut off or fell among others' steps |
| | `CutOffChildReturns` | a child a reboot cut off becomes resumable, unless it is launched, purged, registered anew or rolled back by an operator meanwhile |
| Mail | `NoNoticeAfterSuccess` | no notice is handed over that is recorded as delivered, unless the machine slept through the lease |
| | `OneWorkerPerNotice` | never two workers at once between start and result for one notice, with the same exception |
| | `EverySignalSettles` | a signal that may interrupt leads to a notice or a fetch, unless the session is muted |
| Notify | `SignalTellsTruth` | for a clean pair the hint file exists exactly when the message awaits a notification |
| | `RepeatIsFlagged` | at most one handover that arrives is without the flag of a possible repeat |
| | `ConsumedMeansHanded` | a delivery fact stands for a handover that arrived, or for an operator's word |
| | `EveryHintSettles` | a message awaiting notification is settled, unless its pair or intent is blocked or no session runs |
| Launch | `LiveSessionIsOurs` | while a recorded session's provider lives, its launch is the one of the file, not closed, and nobody has begun to end it |
| | `ReportTruthful` | the verdict on the report is what the parent's inbox says, and no launch is closed before it |

Some of these have an exception the code makes necessary:

* `OnePair`: a registration replaces token and state under no lock
  (`agentstack-preregister-child:266`). One that is cut off between the two, or that
  writes while a launch, a rollback or a purge is under way, may leave a mix, which the
  script's own comment leaves to the readers to reject; the property is about all others
  (`crossed`).
* `RepeatIsFlagged` allows one unflagged handover, not "only the first is unflagged": a
  carrier that stalled may hand over its unflagged attempt after another's
  flagged one. And the sweep unlinks an intent that policy blocked and whose hint has
  gone, with the memory of its attempt (`dropped`).
* `LiveSessionIsOurs`: the second section of `start` (`runtime_delivery.py:976`) gates
  whatever launch it finds, so one that was retried, run or cancelled in the meantime may
  run again; and `confirmed-ended` is accepted while a spawned process has yet to
  record its session, which may then write its outcome to a later launch (`excused`).
* `ReportTruthful`: after an operator threw the record of an attempt away, a later
  refusal says nothing of that attempt (`discarded`).
* A crash between the recorded refusal of a report and `clear_mutation`, or between the
  saved retirement and its call, leaves a planned slot: every later end stops with
  `MUTATION_PENDING_CONFLICT` until an operator discards it. No property forbids this,
  and no liveness is claimed of launches.

**Why the bounds are enough.** Sessions share nothing but the worker thread, and
`TickOthers` in `ColdWakeProof` proves that a step for one session leaves the
others alone, so one session is checked. Two messages are needed for batches that
are partly open; the rows do not interact otherwise. `Hour`, lease, backoff and
timeout of one or two seconds let each expire before, with and after the others; in
`coldwake_crash`, which asks nothing of the hour, `Hour` is one second.
`MaxAttempts` of 2 reaches failed, retried and dead rows; 1 with a crash reaches
the bound that `AttemptBound` allows. `MaxCrashes`, `MaxTurns`, `MaxRefusals` and `MaxRequeues`
bound what the environment does; clocks need no bound, as they saturate.
Symmetry is used over messages (safety) and owners (crash), never in a run with
liveness.

For reservations, a conflict, a stale verdict or a lost renewal is about one row and
its holder against one other agent, so two agents are enough; both can be in any
stage at once. A file and a glob in either order of creation give the asymmetric
match. Two rows give a conflict, one row with a longer lease gives records that are
too short. `MaxRow` also bounds how often a reservation can be made, so a row is
created at most twice in a run; but a row that is there can expire, be extended
and be swept without limit. Symmetry over agents; no liveness is checked.

For the ten components: events of one session are processed in order by one worker, and
sessions meet only in the shared files, so one session with two events (a start and an
update) gives a repeat and a detour; three file ids give two drains beside the spool. Two
tasks of one process and one of another give both kinds of contention for the lock. Four
requests give a merge, an overlap, another repository and a caller that does not
wait, with a batch of 3 smaller than the whole. Three settings files, one of which
does not change, give a prefix, a suffix and a gap. One preview with two keys, two
callers and two gateways gives each race for a send. Two changes of tools give a change
after an unresolved one, two registrations of a child an old and a new one, and two launches a
late cleanup of the first. One message with two
watchers and two workers gives the race for a lease, as messages do not share any; one
message with a tmux watcher and a hook does for the global client. Two runners, one in
tmux, and two launches give a stale runner beside a new launch. Faults (crashes, lost
answers, failed steps, operators) are bounded by 1 to 3 per behaviour: the bound of the
switch and the tools allows a crash inside the recovery from a crash. The
live run has smaller bounds (one fault in most modules, one launch of a child, one
watcher, a headless agent), and no run of these components uses symmetry.

**Fairness** (`FairSpec`): the worker loops, so a tick starts and goes on (weak
fairness of `TickStart` and of each session's part of a tick); `queue.get` returns at
once when an event is there, and there is `poll_seconds` between two ticks, so
`ProcessEvent` and `TimePasses` are strongly fair: other steps disable them again
and again, never for good. launchd restarts the daemon (`KeepAlive`), `queue_spool`
runs after that, and a user's turn ends. Nothing is assumed of resume processes,
signals or the operator. `EventuallySettled` assumes in its statement that the
session is idle infinitely often.

`SubsystemsFairSpec` gives each component the fairness of its own threads: the main thread
and the worker of the bridge go on (a backoff ends although other steps disable it
again and again); a task of the archive that can go on is scheduled; the queue's task and a direct
commit go on; a running switch goes on; a tools request, the launched shell, the operator's
recovery and the clearing of a cut-off resume go on; launcher, session, purge and
recovery of a child go on; the watcher loops, its workers go on, a cooldown and an
unused lease run out; the global server's reconcile task and the carriers' steps go on, and
the wait of an intent nobody works on ends. Nothing is assumed of users, senders,
faults, nor of anybody who starts an operation.

## 5. Findings

* `ready_ids` (`delivery.py:149`) returns before it recovers expired leases when no
  signal is present, although its docstring says "after recovering leases and due
  retries". After a crash, a message whose mail was fetched by the orphaned process
  stays leased for ever, and the dashboard counts it as pending
  (`coldwake_orphan`).
* `file_reservation_paths` rules candidates out with the union of the patterns in the
  way (`app.py:9780`), which matches one way only, before it compares both ways. A
  glob asked for while a file under it is held is granted, although the docstring
  promises "Glob matching is symmetric" (`reservations_symmetric`). The same test also
  passes over a held virtual name as soon as a foreign row of the file system is active;
  no run shows this.
* The sweep selects the expired rows and updates them in another transaction
  (`app.py:4258`). A row renewed in between is not released, but its record is
  written as released, from the row as it was read. If that happens after the
  renewal wrote its own, the guard no longer protects it (`reservations_renewal`).
* `force_release_file_reservation` judges the row, and then releases it with an
  update that only asks that it is not released (`app.py:10113`). A holder that came
  back in the meantime loses it, although the docstring asks for inactivity; the
  sweep does check again (`reservations_force`).
* `fetch_inbox` lists with filters (`app.py:8254`), then clears the signals of all the
  agent's messages that are past the grace (`app.py:8257`). The signal of one that was left
  out of the answer, and that no watcher has handed over yet, is gone with the others
  (`mail_filtered`); the docstring of the clearing takes the fetch for an acknowledgement,
  and the guide says that it clears the legacy signal only.

Two more things seen while modelling, which no run shows:

* `read_signal_messages` swallows the error of a read (`wake.py:812`) and goes on with the
  other files. A signal that was read well in an earlier poll and cannot be read in this
  one (no file descriptor left, an I/O error) is missing from its list, and
  `reconcile_absent` takes the message for consumed. A poll in the middle of the server's
  write does no harm: the file of a message is written once, before there is a row to be
  marked. The runs set `SignalUnreadable = FALSE`, and the theorem has it as a hypothesis.
* An event whose registration was refused is replayed from the retry file
  (`daemon.py:557`) as if it came now. A replayed `SessionStart` shows the session as
  waiting while the turn that opened with it runs, and the next tick may resume it.

## 6. Proofs

Each invariant and each action property of the passing runs is proved for every value
of the constants. The argument is the same everywhere: a property is seldom inductive, so
the proof states an invariant that is, as named conjuncts, and shows that the initial states
meet it and that each action keeps it. TLC checked each of these invariants on an instance
before it was proved.

### Assumptions

Each module names its own. They say that a value standing for "nobody" is nobody
(`NoOwner`, `NoAgent`, `NoWriter`, `NoCaller`, `NoRunner`, ...), that bounds and limits
are naturals, and positive where zero makes no sense, and that tables of constants
have their types. More is assumed in these places only:

* the settings files are numbered and finitely many (`ConsumerSwitchAssumption`): the
  code goes through a fixed tuple;
* there is a gateway, none has a name that stands for a preview's other states, and the
  keys are finitely many (`MessageLedgerAssumption`);
* `DeliveredMeansTakenTheorem` has the hypothesis `~SignalUnreadable`: a signal that is
  there can be read. Section 5 says what happens otherwise.

Nothing is assumed of how many sessions, messages, owners, agents, paths, tasks,
requests, callers, carriers or runners there are, nor of how many faults occur.

### Bridge (`ColdWakeProof`)

* `TypeCorrect`. `TypeOK` includes the table's CHECK constraint (a lease owner exactly
  while leased), so it is more than types: each method has a lemma in
  `DeliveryLeaseProof` that it keeps a row good. `Parts` splits it by variable, so that
  each action proves only the parts it touches.
* `InflightOwnsItsRows`. A lease is taken before the attempt is remembered, and
  `ready_ids` would recover the leases of a wake in flight if the worker got there.
  `Ownership` adds both: from `AcquireLease` to `Record` the worker's `claim` owns the
  rows of its `batch`, and a session in the stages after the gate has nothing in flight.
  `LeasesKept` shows that polling, requeue and the clock give up no lease.
* `DeliveredMeansTakenTheorem`. `AllTaken`: a row exists only for a signal once written,
  and a signal once written that is not there was consumed, so `reconcile_absent` is right.
* `DashboardTruthfulTheorem`. `AllShown`: until a crash "waking" is an attempt in
  flight at every stage, not only between ticks; and a session without a token never
  gets as far as a wake, so that `HoldTokenless` hides none.
* `HourlyLimitTheorem`. The limit is tested before the lease, and the wake counted after
  the launch; `AllLimited` carries "one more has room" through these stages.
* `AttemptBoundTheorem`. `AllSpent`: a row that may be leased again has an attempt left;
  that includes a leased row no wake carries (`Carried`), as recovery will reopen it.
  Only a crash leaves such a row behind, and a crash adds one to what is allowed.
* `SecondWakeOnlyAfterLeaseTheorem`. `AllGuarded`: a running process either outlived its
  lease or its timeout, or holds every row it was given, with at least the rest of
  its lease to run. Clock and lease go on together, so a lapsed lease is an old process.
* `BridgeImplementsContract`. The mapping shows the status and the owner of each row.
  Row lemmas say what each method does to these two columns; `MoveIntro`, `FailIntro`
  and `SyncIntro` turn facts about rows into steps of the contract; each action that
  writes rows has a lemma, the others stutter. That `Deliver` and `Fail` are made by an
  owner uses `Ownership`.

### Reservations (`ReservationsProof`)

* `TypeCorrect`, again by parts.
* `NoConflictWithoutRevival`. The property says nothing of the lock, nor of rows that
  expired and may be renewed. `Safe` adds that only the lock's holder is in the stage
  `grant` (`LockHeld`); that this agent has seen every active row that was not revived, as
  only it can create rows (`SeenActive`); that ids in use come before free ones, so a new
  row is the younger one (`Dense`); and it states the absence of conflicts for pairs of
  which the younger need only be held (`NoClash`), since `Renew` may make an expired
  younger row active again without reviving the older one. `Create` is the one action
  that can break it: the prefilter lets every matching older row through, so it would
  have been denied.
* `RecordsCoverTheorem`, `ReleaseIsRecordedTheorem`. Rows are committed before their
  records, so `RecInv` speaks of what calls are still to write: a lease only by its
  own holder and never longer than the row's (`OwnLeases`), nothing by a call that is over
  (`NothingDue`), a release by somebody as long as the record does not say so
  (`ReleasedRecorded`). The attempt to prove it showed that the model's history of failed
  calls had forgotten a row when another of its calls went well before the failed one;
  that was corrected, and the run now allows two failures.
* `SweepSparesTheLivingTheorem`, an action property: only four actions release rows,
  and the two of the sweep look again at what it had read.

### Archive (`ArchiveProof`)

* `OverlapNeedsForeignRemovalTheorem`. A task inside owns the lock file, unless somebody
  removed a held one (`HoldersFile`). That needs two tasks of one process apart, as they
  share the `asyncio.Lock`: one holder for each (`OneHolder`), and no such lock of two
  processes (`WithinProcess`, `TableOwn`).
* `ExitSparesSameLockTheorem`, an action property, from the same conjuncts.
* `CommittedMeansInHeadTheorem`. A commit takes the files as they are then, not as they
  were when asked for; `HeadOnDisk` and `VersionsOnDisk` say that this is never older.
* `LockTypeCorrect`, `QueueTypeCorrect`. The latter needs that `Queue.join` waits for
  exactly what the queue and the batch hold (`BatchesOK`): `task_done` is called once for
  each request, however the batch ended, so that `joined` is never negative.

### ChatGPT sends and notices (`MessagingProof`)

* `SentOnceTheorem`, `OutcomeTruthfulTheorem`, both from `LedgerInv`. A preview with a
  record can get no other, because it is consumed, gone, or about to be consumed by the
  call that reserved it (`UsedUp`), and a call about to reserve does so under the lock of
  the one gateway that holds the preview (`LockHeld`, `NoneYet`); so each message has one
  key (`OneKey`) and one call on its way (`OneSender`), and what left, left once
  (`LeftOnce`). `Truthful` says the same of what a call is about to write.
* `LedgerImplementsSendContract`. `Unsaid` adds that until a call writes its outcome, only
  a reconciliation wrote one. The proof shows the limit of the promise: the late
  `unknown` of a call may replace an `accepted` that a reconciliation had found
  (`Doubt`), since `update` does not look at the state; nothing replaces a `rejected`.
  A gateway that stops gives up all messages its calls had yet to send, in one step.
* `NoNoticeAfterSuccessTheorem`, an action property, and `OneWorkerPerNoticeTheorem`, an
  invariant, from `SignalsInv`. A watcher looks at the result a second time after it took
  the lease, and a worker is handed this lease, so that two of one notice would both hold
  it (`OneOwner`, `WatchersHold`, `WorkersHold`).

### Switch and global client (`ConsumerProof`)

* `NoMixedVectorMarkedTheorem`. Before the terminal phase is written, every file has
  arrived and its directory is synced (`ArrivedForGood`); no publication goes on under a
  terminal phase (`Publishing`).
* `SignalTellsTruthTheorem`, `RepeatIsFlaggedTheorem`, `ConsumedMeansHandedTheorem`, from
  `DeliveryInv`. A letter that could still be handed over without a flag is in nobody's
  hands and never was (`FreshUntouched`), and one such handover is under way at most
  (`OneUnflagged`); what is to be reported as confirmed did arrive (`ReportsReached`,
  `NotesReached`).
* `ReportTruthfulTheorem`, from the first half of `LaunchInv`: a report that may have
  arrived keeps the pending slot until its verdict (`SlotRemembers`), so nobody sends
  the first one twice (`FirstSending`) and a refusal means it did not arrive
  (`ClosingReport`).
* `LiveSessionIsOursTheorem`, from the second: a process of the launch was spawned by the
  runner the file names (`OneProcess`), and none is left to record a session once the
  launch is over (`EndedForGood`).
* `SwitchTypeCorrect`, `LaunchTypeCorrect`, and `DeliveryTypeCorrect`, which says that no
  more handovers of a message reach a session than attempts were prepared. `AttemptsInv`
  counts: each handing under way has an attempt number no other carrier has (`OneAttempt`),
  so what arrived and what is on its way (`OnTheWay`) are at most the attempts
  (`TimesWithin`).

### Children and events (`AgentsProof`)

* `SelectionWholeTheorem`, `RunningKeepsSelectionTheorem`, from `ToolsInv`. The selection
  is in pieces while a change is pending; `Staging`, `ReadyWhole`, `Finishing` and
  `Finished` say which pieces are there at each step of `begin` and `finish`, and
  `JournalKnows` that the originals are those of the journal, wherever a crash cut off.
* `OnePairTheorem`, from `ChildInv`: the undo record holds a pair itself (`PendingPair`),
  is there while the launcher changes registrations (`LauncherHolds`), and goes when
  state and token are one pair again (`Settled`). A purge removes the undo record last, with
  token and state gone (`PurgeHolds`). A registration writes past all of these; each part
  that speaks of pairs has the way out of the property (`Exempt`), and the writes outside
  of other sections keep it.
* `NoEventVanishesTheorem`, `RegisteredTokenKeptTheorem`, from `BridgeInv`. In a file that
  is being read, what lies before the line is safe already (`MainRead`, `WorkerRead`,
  `RowsRead`), so that its removal at the end loses nothing; the token is stored before
  the registration (`TokenFirst`).
* `OlderStateTheorem`, an action property, from `OrderInv`: events that made no detour
  come in the order of their hooks through connections, queue and worker (`Ordered`),
  because a hook that goes on after a time-out has spooled its event (`Unanswered`).

The types of the ledger, the signals, the tools, the children and the events are theorems
too (`LedgerTypeCorrect`, `MailSignalsTypeCorrect`, `ToolsTypeCorrect`, `ChildTypeCorrect`,
`BridgeTypeCorrect`).

### The components together (`SubsystemsProof`)

* `ComponentsImplemented`. Each step of `Subsystems` is a step of one component or of none,
  and leaves the variables of the others alone (`EachSteps`). So a behaviour of all is one
  of each, whatever `focus` was chosen.
* `SubsystemsTypeCorrect`, `SubsystemsSafe`, `SubsystemsStepsSafe` follow with the theorems
  above: they are the type invariant, the invariants and the step properties that the run
  `subsystems_safety` checks, and `OutcomeTruthful`, for every value of the constants of
  all ten modules at once.

### Only model-checked

* Everything under fairness (`EventuallySettled` and the liveness properties of
  `Subsystems`), which is out of the prover's reach.
* `OneRollbackRestores`, a leads-to property under fairness.
* The properties of the runs that are violated, which are the findings of section 5.

## 7. Not modelled

The components marked `not_modelled` in `PROJECT.json` carry their reason; those marked
`partly` say what is missing. In short:

* Offline tools (migration, namespaces, restore and its acceptance, install, doctor,
  release): one-shot transformations of large data, guarded by digests. They are a large
  part of the repository's lines, as are the dashboard's read-only views, HTTP wiring,
  rendering and configuration, which keep no state of their own: the share of lines the
  models cover is small for this reason.
* Of Agent Mail: threads, search, read and acknowledge (single updates), contacts and
  enrolment; the legacy single signal file and the debounce of signals; a commit queue
  started anew after its shutdown; locks of project slugs.
* Of the bridge: its fresh and global start-up variants; headings and titles; renaming and
  retirement through the MCP server.
* Of the ChatGPT server: the tools that spawn agents. The limit of sends per hour is in the
  model (`MayReserve`), but no property is about it.
* Of the global client: the Gemini stream, daemon bots, standalone sessions and window
  binding in launches; the App bridge's admission of notifications.

Hazards that no property covers are in `PROJECT.json` with the reason.
