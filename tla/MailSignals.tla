----------------------------- MODULE MailSignals -----------------------------
(* The way of a message's notice into the recipient's session: app.py commits *)
(* the rows of the inbox and drops a signal file, watch_agent_mail_signals.sh *)
(* reads it and has a worker paste a notice into the session of the agent's   *)
(* name, and fetch_inbox clears the signals of an agent that reads its mail.  *)
(*                                                                            *)
(* The state here is that of one agent: files, leases and results are named   *)
(* by agent and message.  Senders, a reader, one or two watchers (a takeover  *)
(* of a stale watcher lock may let a second one in) and their background      *)
(* workers run at once; a worker outlives its watcher.                        *)
EXTENDS Integers

CONSTANTS
    Messages,
    Watchers,
    Deliverers,     \* bound: workers and lease owners at once
    NoDeliverer,
    Grace,          \* clear_grace_seconds, in ticks of the signals' age; 0 is no grace
    MaxMailFaults   \* bound: failures, kills, changes of session, sleeps

ASSUME MailSignalsAssumption ==
    /\ NoDeliverer \notin Deliverers
    /\ Grace \in Nat /\ MaxMailFaults \in Nat

VARIABLES
    sending,     \* where the send of each message is
    inbox,       \* messages whose rows are committed
    signal,      \* the signal file of each message
    signalAge,   \* ticks since it was written
    fetch,       \* fetch_inbox: between its list and its clear, what the list left out
    watcher,     \* where each watcher's main loop is
    deliverer,   \* the background workers
    lease,       \* notify-locks: owner of each message's lease, and if too old
    notified,    \* notify-state.json: last result, and if the cooldown is over
    pane,        \* the tmux session of the agent's name
    quiet,       \* messages below the importance that may interrupt
    headless,    \* the agent is a persistent profile without session
    outlived,    \* history: messages whose lease ran out under its worker
    mailFaults   \* faults so far

mailSignalVars == <<sending, inbox, signal, signalAge, fetch, watcher, deliverer,
                    lease, notified, pane, quiet, headless, outlived, mailFaults>>
serverVars == <<sending, inbox, fetch>>
fileSignalVars == <<signal, signalAge>>
agentVars == <<pane, quiet, headless>>

NoLease == [owner |-> NoDeliverer, old |-> FALSE]
NeverNotified == [result |-> "none", due |-> TRUE]
WatcherIdle == [at |-> "idle", msg |-> {}, owner |-> NoDeliverer]
Off == [at |-> "off", msg |-> {}, result |-> "none"]

MailFault == mailFaults < MaxMailFaults /\ mailFaults' = mailFaults + 1
NoMailFault == UNCHANGED mailFaults

-----------------------------------------------------------------------------
(* The mail server                                                            *)

(* _deliver_message: the rows in one transaction, the archive's files, then   *)
(* the signal, opened and written in place.                                   *)
CommitRows(m) ==
    /\ sending[m] = "new"
    /\ inbox' = inbox \cup {m}
    /\ sending' = [sending EXCEPT ![m] = "committed"]
    /\ UNCHANGED <<fileSignalVars, fetch, watcher, deliverer, lease, notified,
                   agentVars, outlived, mailFaults>>

OpenSignal(m) ==
    /\ sending[m] = "committed"
    /\ signal' = [signal EXCEPT ![m] = "partial"]
    /\ signalAge' = [signalAge EXCEPT ![m] = 0]
    /\ sending' = [sending EXCEPT ![m] = "emitting"]
    /\ UNCHANGED <<inbox, fetch, watcher, deliverer, lease, notified, agentVars,
                   outlived, mailFaults>>

(* Without a grace, a clear may have unlinked the open file.                  *)
WriteSignal(m) ==
    /\ sending[m] = "emitting"
    /\ signal' = [signal EXCEPT ![m] = IF @ = "partial" THEN "whole" ELSE @]
    /\ sending' = [sending EXCEPT ![m] = "sent"]
    /\ UNCHANGED <<inbox, signalAge, fetch, watcher, deliverer, lease, notified,
                   agentVars, outlived, mailFaults>>

(* The archive's files or the signal's content could not be written.          *)
SendFails(m) ==
    /\ sending[m] \in {"committed", "emitting"} /\ MailFault
    /\ sending' = [sending EXCEPT ![m] =
                      IF @ = "committed" THEN "failed" ELSE "sent"]
    /\ UNCHANGED <<inbox, fileSignalVars, fetch, watcher, deliverer, lease,
                   notified, agentVars, outlived>>

(* fetch_inbox lists the inbox: its limit, urgent_only, since_ts and topic     *)
(* leave some of the messages out.                                            *)
FetchList ==
    /\ fetch.at = "idle"
    /\ \E left \in SUBSET inbox : fetch' = [at |-> "listed", left |-> left]
    /\ UNCHANGED <<sending, inbox, fileSignalVars, watcher, deliverer, lease,
                   notified, agentVars, outlived, mailFaults>>

(* Then clear_notification_signal removes every signal of the agent that is   *)
(* past the grace, whatever was listed.                                       *)
FetchClear ==
    /\ fetch.at = "listed"
    /\ signal' = [m \in Messages |->
                     IF signalAge[m] >= Grace THEN "none" ELSE signal[m]]
    /\ fetch' = [at |-> "idle", left |-> {}]
    /\ UNCHANGED <<sending, inbox, signalAge, watcher, deliverer, lease, notified,
                   agentVars, outlived, mailFaults>>

(* A write takes no time worth a tick.                                        *)
SignalsAge ==
    /\ \A m \in Messages : sending[m] # "emitting"
    /\ \E m \in Messages : signal[m] # "none" /\ signalAge[m] < Grace
    /\ signalAge' = [m \in Messages |-> IF signal[m] # "none" /\ signalAge[m] < Grace
                                        THEN signalAge[m] + 1 ELSE signalAge[m]]
    /\ UNCHANGED <<serverVars, signal, watcher, deliverer, lease, notified,
                   agentVars, outlived, mailFaults>>

-----------------------------------------------------------------------------
(* The watcher's main loop: handle_signal_file                                *)

watcherOnly == <<serverVars, deliverer, agentVars, outlived, mailFaults>>

(* state_should_attempt: not after a success or a session known absent, and   *)
(* after a failure not before its cooldown.                                   *)
ShouldAttempt(m) ==
    \/ notified[m].result = "none"
    \/ notified[m].result \in {"failed", "quiet"} /\ notified[m].due

(* Every scan reads every file; one that is half written is left for the next *)
(* scan.  A quiet message is recorded, and its file left to fetch_inbox.      *)
ReadSignal(w, m) ==
    /\ watcher[w].at = "idle" /\ signal[m] = "whole" /\ ShouldAttempt(m)
    /\ IF m \in quiet
       THEN /\ notified' = [notified EXCEPT ![m] = [result |-> "quiet", due |-> FALSE]]
            /\ UNCHANGED watcher
       ELSE /\ watcher' = [watcher EXCEPT ![w] = [at |-> "slot", msg |-> {m},
                                                  owner |-> @.owner]]
            /\ UNCHANGED notified
    /\ UNCHANGED <<watcherOnly, fileSignalVars, lease>>

Fresh == {d \in Deliverers : /\ deliverer[d].at = "off"
                             /\ \A m \in Messages : lease[m].owner # d
                             /\ \A w \in Watchers : watcher[w].owner # d}

(* A worker slot came free: another path may have delivered meanwhile.        *)
AwaitSlot(w) ==
    /\ watcher[w].at = "slot" /\ Fresh # {}
    /\ \E m \in watcher[w].msg :
          watcher' = [watcher EXCEPT ![w] =
             IF ShouldAttempt(m) THEN [@ EXCEPT !.at = "lease"] ELSE WatcherIdle]
    /\ UNCHANGED <<watcherOnly, fileSignalVars, lease, notified>>

\* mutant: a lease left behind is never taken over
AcquireFreeLease(w) ==
    /\ watcher[w].at = "lease"
    /\ \E m \in watcher[w].msg :
          IF lease[m] = NoLease
          THEN \E d \in Fresh :
                  /\ lease' = [lease EXCEPT ![m] = [owner |-> d, old |-> FALSE]]
                  /\ watcher' = [watcher EXCEPT ![w].at = "recheck", ![w].owner = d]
          ELSE /\ watcher' = [watcher EXCEPT ![w] = WatcherIdle]
               /\ UNCHANGED lease
    /\ UNCHANGED <<watcherOnly, fileSignalVars, notified>>

\* mutant: a lease is taken over without a look at its age
AcquireAnyLease(w) ==
    /\ watcher[w].at = "lease" /\ Fresh # {}
    /\ \E m \in watcher[w].msg, d \in Fresh :
          /\ lease' = [lease EXCEPT ![m] = [owner |-> d, old |-> FALSE]]
          /\ watcher' = [watcher EXCEPT ![w] = [at |-> "recheck", msg |-> @.msg,
                                                owner |-> d]]
    /\ UNCHANGED <<watcherOnly, fileSignalVars, notified>>

(* acquire_delivery_lease takes a lease nobody holds, or one past its TTL.    *)
AcquireLease(w) ==
    /\ watcher[w].at = "lease"
    /\ \E m \in watcher[w].msg :
          IF lease[m] = NoLease \/ lease[m].old
          THEN \E d \in Fresh :
                  /\ lease' = [lease EXCEPT ![m] = [owner |-> d, old |-> FALSE]]
                  /\ watcher' = [watcher EXCEPT ![w] = [at |-> "recheck",
                                                        msg |-> @.msg, owner |-> d]]
          ELSE /\ watcher' = [watcher EXCEPT ![w] = WatcherIdle]
               /\ UNCHANGED lease
    /\ UNCHANGED <<watcherOnly, fileSignalVars, notified>>

(* release_delivery_lease: the lease of another owner stays.                  *)
LeaseWithout(d, m) ==
    IF lease[m].owner = d THEN [lease EXCEPT ![m] = NoLease] ELSE lease

\* mutant: no second look at the result once the lease is held
SpawnAtOnce(w) ==
    /\ watcher[w].at = "recheck"
    /\ deliverer' = [deliverer EXCEPT ![watcher[w].owner] =
           [at |-> "start", msg |-> watcher[w].msg, result |-> "none"]]
    /\ watcher' = [watcher EXCEPT ![w] = WatcherIdle]
    /\ UNCHANGED <<serverVars, fileSignalVars, lease, notified, agentVars,
                   outlived, mailFaults>>

(* The worker of the last lease may have succeeded since the last look.       *)
RecheckAndSpawn(w) ==
    LET d == watcher[w].owner IN
    /\ watcher[w].at = "recheck"
    /\ \E m \in watcher[w].msg :
          IF ShouldAttempt(m)
          THEN /\ deliverer' = [deliverer EXCEPT ![d] =
                     [at |-> "start", msg |-> {m}, result |-> "none"]]
               /\ UNCHANGED lease
          ELSE lease' = LeaseWithout(d, m) /\ UNCHANGED deliverer
    /\ watcher' = [watcher EXCEPT ![w] = WatcherIdle]
    /\ UNCHANGED <<serverVars, fileSignalVars, notified, agentVars, outlived,
                   mailFaults>>

-----------------------------------------------------------------------------
(* A worker: deliver_worker                                                   *)

workerRest == <<serverVars, watcher, agentVars, outlived>>

(* It goes on to a step, or to record a result.                               *)
Goes(d, step) == deliverer' = [deliverer EXCEPT ![d].at = step]
Results(d, result) ==
    deliverer' = [deliverer EXCEPT ![d] = [at |-> "mark", msg |-> @.msg, result |-> result]]

(* The persistent agent's bridge confirms the hand-over by its reply.         *)
HeadlessReply(d) ==
    /\ deliverer[d].at = "start" /\ headless
    /\ Results(d, "success")
    /\ UNCHANGED <<workerRest, fileSignalVars, lease, notified, mailFaults>>

(* Conversation-only sessions have mail disabled, and get no result; a look   *)
(* at the session that runs out of time finds nothing disabled.               *)
LookUpSession(d) ==
    /\ deliverer[d].at = "start" /\ ~headless
    /\ \/ NoMailFault /\ Goes(d, CASE pane = "muted" -> "release"
                                   [] pane = "gone" -> "discard"
                                   [] pane = "open" -> "capture")
       \/ MailFault /\ pane = "muted" /\ Goes(d, "capture")
    /\ UNCHANGED <<workerRest, fileSignalVars, lease, notified>>

DiscardSignal(d) ==
    /\ deliverer[d].at = "discard"
    /\ signal' = [m \in Messages |->
                     IF m \in deliverer[d].msg THEN "none" ELSE signal[m]]
    /\ Results(d, "absent")
    /\ UNCHANGED <<workerRest, signalAge, lease, notified, mailFaults>>

(* The pane shows no bare shell, and mail is not disabled since.              *)
CapturePane(d) ==
    /\ deliverer[d].at = "capture" /\ pane # "gone"
    /\ \/ NoMailFault /\ Goes(d, IF pane = "muted" THEN "release" ELSE "paste")
       \/ MailFault /\ pane = "muted" /\ Goes(d, "paste")
    /\ UNCHANGED <<workerRest, fileSignalVars, lease, notified>>

PasteNotice(d) ==
    /\ deliverer[d].at = "paste" /\ pane # "gone"
    /\ Goes(d, "submit")
    /\ UNCHANGED <<workerRest, fileSignalVars, lease, notified, mailFaults>>

SubmitNotice(d) ==
    /\ deliverer[d].at = "submit" /\ pane # "gone"
    /\ Results(d, "success")
    /\ UNCHANGED <<workerRest, fileSignalVars, lease, notified, mailFaults>>

(* Any of these steps fails: no reply, a lookup or a capture out of time, a   *)
(* bare shell, a session gone before the paste or the submit.                 *)
DeliveryFails(d) ==
    /\ deliverer[d].at \in {"start", "capture", "paste", "submit"}
    /\ \/ MailFault
       \/ deliverer[d].at \in {"capture", "paste", "submit"} /\ pane = "gone" /\ NoMailFault
    /\ Results(d, "failed")
    /\ UNCHANGED <<workerRest, fileSignalVars, lease, notified>>

MarkResult(d) ==
    /\ deliverer[d].at = "mark"
    /\ notified' = [m \in Messages |->
                       IF m \in deliverer[d].msg
                       THEN [result |-> deliverer[d].result, due |-> FALSE]
                       ELSE notified[m]]
    /\ Goes(d, "release")
    /\ UNCHANGED <<workerRest, fileSignalVars, lease, mailFaults>>

ReleaseLease(d) ==
    /\ deliverer[d].at = "release"
    /\ \E m \in deliverer[d].msg : lease' = LeaseWithout(d, m)
    /\ deliverer' = [deliverer EXCEPT ![d] =
           IF @.result = "success" THEN [@ EXCEPT !.at = "unlink"] ELSE Off]
    /\ UNCHANGED <<workerRest, fileSignalVars, notified, mailFaults>>

UnlinkSignal(d) ==
    /\ deliverer[d].at = "unlink"
    /\ signal' = [m \in Messages |->
                     IF m \in deliverer[d].msg THEN "none" ELSE signal[m]]
    /\ deliverer' = [deliverer EXCEPT ![d] = Off]
    /\ UNCHANGED <<workerRest, signalAge, lease, notified, mailFaults>>

-----------------------------------------------------------------------------
(* The environment                                                            *)

CooldownPasses(m) ==
    /\ notified[m].result \in {"failed", "quiet"} /\ ~notified[m].due
    /\ notified' = [notified EXCEPT ![m].due = TRUE]
    /\ UNCHANGED <<serverVars, fileSignalVars, watcher, deliverer, lease, agentVars,
                   outlived, mailFaults>>

Lives(d) == \/ deliverer[d].at # "off"
            \/ \E w \in Watchers : watcher[w].owner = d

(* LEASE_TTL is longer than any worker runs, unless the machine slept.        *)
LeaseRunsOut(m) ==
    /\ lease[m] # NoLease /\ ~lease[m].old
    /\ lease' = [lease EXCEPT ![m].old = TRUE]
    /\ IF Lives(lease[m].owner)
       THEN MailFault /\ outlived' = outlived \cup {m}
       ELSE NoMailFault /\ UNCHANGED outlived
    /\ UNCHANGED <<serverVars, fileSignalVars, watcher, deliverer, notified, agentVars>>

WatcherDies(w) ==
    /\ watcher[w].at # "down" /\ MailFault
    /\ watcher' = [watcher EXCEPT ![w] = [WatcherIdle EXCEPT !.at = "down"]]
    /\ UNCHANGED <<serverVars, fileSignalVars, deliverer, lease, notified, agentVars,
                   outlived>>

WatcherStarts(w) ==
    /\ watcher[w].at = "down"
    /\ watcher' = [watcher EXCEPT ![w] = WatcherIdle]
    /\ UNCHANGED <<serverVars, fileSignalVars, deliverer, lease, notified, agentVars,
                   outlived, mailFaults>>

DelivererDies(d) ==
    /\ deliverer[d].at # "off" /\ MailFault
    /\ deliverer' = [deliverer EXCEPT ![d] = Off]
    /\ UNCHANGED <<serverVars, fileSignalVars, watcher, lease, notified, agentVars,
                   outlived>>

(* The session ends, starts, or gives way to one without mail.                *)
PaneChanges ==
    /\ MailFault
    /\ pane' \in {"open", "muted", "gone"} \ {pane}
    /\ UNCHANGED <<serverVars, fileSignalVars, watcher, deliverer, lease, notified,
                   quiet, headless, outlived>>

-----------------------------------------------------------------------------
MailSignalsInit ==
    /\ sending = [m \in Messages |-> "new"] /\ inbox = {}
    /\ signal = [m \in Messages |-> "none"]
    /\ signalAge = [m \in Messages |-> 0]
    /\ fetch = [at |-> "idle", left |-> {}]
    /\ watcher = [w \in Watchers |-> WatcherIdle]
    /\ deliverer = [d \in Deliverers |-> Off]
    /\ lease = [m \in Messages |-> NoLease]
    /\ notified = [m \in Messages |-> NeverNotified]
    /\ pane = "open" /\ quiet \in SUBSET Messages /\ headless \in BOOLEAN
    /\ outlived = {} /\ mailFaults = 0

WatcherStep(w) ==
    \/ \E m \in Messages : ReadSignal(w, m)
    \/ AwaitSlot(w) \/ AcquireLease(w) \/ RecheckAndSpawn(w) \/ WatcherStarts(w)

DelivererStep(d) ==
    \/ HeadlessReply(d) \/ LookUpSession(d) \/ DiscardSignal(d) \/ CapturePane(d)
    \/ PasteNotice(d) \/ SubmitNotice(d) \/ DeliveryFails(d) \/ MarkResult(d)
    \/ ReleaseLease(d) \/ UnlinkSignal(d)

MailSignalsNext ==
    \/ \E m \in Messages : \/ CommitRows(m) \/ OpenSignal(m) \/ WriteSignal(m)
                           \/ SendFails(m) \/ CooldownPasses(m) \/ LeaseRunsOut(m)
    \/ FetchList \/ FetchClear \/ SignalsAge \/ PaneChanges
    \/ \E w \in Watchers : WatcherStep(w) \/ WatcherDies(w)
    \/ \E d \in Deliverers : DelivererStep(d) \/ DelivererDies(d)

MailSignalsSpec == MailSignalsInit /\ [][MailSignalsNext]_mailSignalVars

(* The loops go on, a started worker too, times run out.                      *)
MailSignalsFairSpec ==
    /\ MailSignalsSpec
    /\ \A w \in Watchers : WF_mailSignalVars(WatcherStep(w))
    /\ \A d \in Deliverers : WF_mailSignalVars(DelivererStep(d))
    /\ \A m \in Messages : /\ WF_mailSignalVars(CooldownPasses(m))
                           /\ WF_mailSignalVars(LeaseRunsOut(m) /\ NoMailFault)

-----------------------------------------------------------------------------
MailSignalsTypeOK ==
    /\ sending \in [Messages -> {"new", "committed", "emitting", "sent", "failed"}]
    /\ {inbox, quiet, outlived, fetch.left} \subseteq SUBSET Messages
    /\ signal \in [Messages -> {"none", "partial", "whole"}]
    /\ signalAge \in [Messages -> 0..Grace]
    /\ fetch.at \in {"idle", "listed"}
    /\ watcher \in [Watchers -> [at : {"down", "idle", "slot", "lease", "recheck"},
                                 msg : SUBSET Messages,
                                 owner : Deliverers \cup {NoDeliverer}]]
    /\ deliverer \in [Deliverers ->
                        [at : {"off", "start", "discard", "capture", "paste", "submit",
                               "mark", "release", "unlink"},
                         msg : SUBSET Messages,
                         result : {"none", "failed", "absent", "success"}]]
    /\ lease \in [Messages -> [owner : Deliverers \cup {NoDeliverer}, old : BOOLEAN]]
    /\ notified \in [Messages ->
                       [result : {"none", "failed", "quiet", "absent", "success"},
                        due : BOOLEAN]]
    /\ pane \in {"open", "muted", "gone"} /\ headless \in BOOLEAN

(* No worker hands over a notice that is recorded as delivered, whichever     *)
(* watcher, scan or retry started it, unless the machine slept through a      *)
(* lease ("the lease must never expire first", watch_agent_mail_signals.sh).  *)
HandsOver(d) ==
    \/ deliverer[d].at = "paste" /\ deliverer'[d].at = "submit"
    \/ deliverer[d].at = "start" /\ deliverer'[d].result = "success"
NoNoticeAfterSuccess ==
    [][\A d \in Deliverers : HandsOver(d) =>
          \A m \in deliverer[d].msg :
              notified[m].result = "success" => m \in outlived]_mailSignalVars

(* Never two workers at once between their start and their result for one     *)
(* notice: both would paste it into the session.  Two watchers, a scan that   *)
(* comes back to the file and leases left behind all try; only a machine that *)
(* slept through a lease lets a second one in (acquire_delivery_lease).       *)
BeforeResult(d) ==
    deliverer[d].at \in {"start", "discard", "capture", "paste", "submit", "mark"}
OneWorkerPerNotice ==
    \A d, e \in Deliverers : d # e /\ BeforeResult(d) /\ BeforeResult(e) =>
        deliverer[d].msg \cap deliverer[e].msg \subseteq outlived

(* A fetch that leaves a message out of its answer leaves the message's       *)
(* signal: removing it "indicate[s] the agent has acknowledged notifications" *)
(* (clear_notification_signal), and the answer did not tell of this one.      *)
LeftOutKeepsSignal ==
    [][fetch.at = "listed" /\ fetch'.at = "idle" =>
          \A m \in fetch.left : signal[m] = "whole" => signal'[m] = "whole"]_mailSignalVars

(* A signal that may interrupt leads to a notice, a fetch or a session known  *)
(* to be absent, through retries, deaths and leases left behind, as long as   *)
(* the session does not have mail disabled.                                   *)
EverySignalSettles ==
    \A m \in Messages :
        signal[m] = "whole" /\ m \notin quiet
            ~> \/ signal[m] # "whole" \/ pane = "muted"
               \/ notified[m].result = "success"
=============================================================================
