--------------------------- MODULE GlobalDelivery ---------------------------
(* Notifications of the global client: bin/lib/runtime_delivery.py, prepare,  *)
(* callback, completion, reconcile_confirmed and the watcher's routes, with   *)
(* the server's side, global_signals.py and global_s2b.py.                    *)
(*                                                                            *)
(* The server keeps the fact whether a message was delivered, and a file, the *)
(* hint, for every one it would have delivered; a table of dirty pairs says   *)
(* which files may be wrong.  The client keeps an intent per message while it *)
(* hands it over, under the message's lock; the watcher and the hooks of the  *)
(* session are its carriers.  Its launch and its credential may change        *)
(* between an attempt and the report of it.                                   *)
EXTENDS Integers, FiniteSets

CONSTANTS
    Letters,             \* messages to one agent
    Carriers,            \* processes that hand messages over
    ChannelOf,           \* "tmux", "persistent" or "hook"
    MaxLaunchIds,        \* bound: launches
    MaxDeliveryFaults    \* bound: failures, crashes, late processes, operators

ASSUME GlobalDeliveryAssumption ==
    /\ ChannelOf \in [Carriers -> {"tmux", "persistent", "hook"}]
    /\ MaxLaunchIds \in Nat \ {0} /\ MaxDeliveryFaults \in Nat

VARIABLES
    (* The server. *)
    mailbox,      \* each message: not sent, unread, read or purged
    delivered,    \* messages with a notification fact
    retiredOwner, \* the agent's retired_at
    dirtyPair,    \* global_signal_dirty
    hints,        \* messages with a signal file
    (* The client. *)
    note,         \* each message's intent.json
    launch,       \* launch_intent.json: its number and its phase
    generation,   \* credential_generation
    carrier,      \* where each carrier stands
    wants,        \* carriers whose importance threshold admits the messages
    (* History. *)
    attempts,     \* handovers prepared for each message
    reached,      \* how many got to a session, and how many without the flag
    dropped,      \* messages with an unlinked intent that knew of an attempt
    said,         \* messages an operator confirmed
    deliveryFaults

factVars == <<mailbox, delivered, retiredOwner, dirtyPair, hints>>
ownerVars == <<launch, generation>>
historyVars == <<attempts, reached, dropped, said>>
deliveryVars == <<factVars, note, ownerVars, carrier, wants, historyVars,
                  deliveryFaults>>

(* No intent.json.                                                            *)
NoIntent ==
    [phase |-> "none", error |-> "none", attempt |-> 0, launch |-> 0,
     generation |-> 0, tried |-> FALSE, flagged |-> FALSE, waits |-> "no"]

AtRest == [at |-> "idle", held |-> {}, outcome |-> "none"]

DeliveryFault ==
    deliveryFaults < MaxDeliveryFaults /\ deliveryFaults' = deliveryFaults + 1
NoDeliveryFault == UNCHANGED deliveryFaults

DeliveryInit ==
    /\ mailbox = [m \in Letters |-> "unsent"]
    /\ delivered = {} /\ retiredOwner = FALSE /\ hints = {}
    /\ dirtyPair = [m \in Letters |-> "clean"]
    /\ note = [m \in Letters |-> NoIntent]
    /\ launch = [id |-> 1, phase |-> "running"] /\ generation = 1
    /\ carrier = [d \in Carriers |-> AtRest]
    /\ wants \in SUBSET Carriers
    /\ attempts = [m \in Letters |-> 0]
    /\ reached = [m \in Letters |-> [times |-> 0, unflagged |-> 0]]
    /\ dropped = {} /\ said = {} /\ deliveryFaults = 0

-----------------------------------------------------------------------------
(* The server.  Whatever changes a fact marks the pair dirty in the same      *)
(* transaction.                                                               *)
Unconsumed(m) == mailbox[m] = "unread" /\ m \notin delivered
Awaits(m) == Unconsumed(m) /\ ~retiredOwner

Dirty(M) == dirtyPair' = [m \in Letters |-> IF m \in M THEN "pending"
                                             ELSE dirtyPair[m]]

Publish(m) ==
    /\ mailbox[m] = "unsent" /\ ~retiredOwner
    /\ mailbox' = [mailbox EXCEPT ![m] = "unread"]
    /\ Dirty({m})
    /\ UNCHANGED <<delivered, retiredOwner, hints, note, ownerVars, carrier, wants,
                   historyVars, deliveryFaults>>

MarkRead(m) ==
    /\ mailbox[m] \in {"unread", "read"} /\ ~retiredOwner
    /\ mailbox' = [mailbox EXCEPT ![m] = "read"]
    /\ Dirty({m})
    /\ UNCHANGED <<delivered, retiredOwner, hints, note, ownerVars, carrier, wants,
                   historyVars, deliveryFaults>>

PurgeMessage(m) ==
    /\ mailbox[m] \in {"unread", "read"}
    /\ mailbox' = [mailbox EXCEPT ![m] = "purged"]
    /\ Dirty({m})
    /\ UNCHANGED <<delivered, retiredOwner, hints, note, ownerVars, carrier, wants,
                   historyVars, deliveryFaults>>

\* mutant: after_lifecycle is not overridden
ChangeRetirementSilently ==
    /\ IF retiredOwner THEN NoDeliveryFault ELSE DeliveryFault
    /\ retiredOwner' = ~retiredOwner
    /\ UNCHANGED <<mailbox, delivered, dirtyPair, hints, note, ownerVars, carrier,
                   wants, historyVars>>

(* retire_agent and unretire_agent, with after_lifecycle.                     *)
ChangeRetirement ==
    /\ IF retiredOwner THEN NoDeliveryFault ELSE DeliveryFault
    /\ retiredOwner' = ~retiredOwner
    /\ Dirty({m \in Letters : Unconsumed(m)})
    /\ UNCHANGED <<mailbox, delivered, hints, note, ownerVars, carrier, wants,
                   historyVars>>

(* reconcile: the file is written or unlinked while the transaction that      *)
(* takes the pair off the table is open.  A crash before its commit leaves    *)
(* the pair; an error, before or after the file changed, blocks it.           *)
Materialized(m) == IF Awaits(m) THEN hints \cup {m} ELSE hints \ {m}

ReconcileSignal(m) ==
    /\ dirtyPair[m] = "pending"
    /\ \/ /\ hints' = Materialized(m) /\ NoDeliveryFault
          /\ dirtyPair' = [dirtyPair EXCEPT ![m] = "clean"]
       \/ hints' = Materialized(m) /\ DeliveryFault /\ UNCHANGED dirtyPair
       \/ /\ hints' \in {hints, Materialized(m)} /\ DeliveryFault
          /\ dirtyPair' = [dirtyPair EXCEPT ![m] = "blocked"]
    /\ UNCHANGED <<mailbox, delivered, retiredOwner, note, ownerVars, carrier, wants,
                   historyVars>>

(* The operator's reconcile_outputs takes blocked pairs up again.             *)
ReconcileOutputs(m) ==
    /\ dirtyPair[m] = "blocked" /\ ~retiredOwner
    /\ Dirty({m})
    /\ UNCHANGED <<mailbox, delivered, retiredOwner, hints, note, ownerVars, carrier,
                   wants, historyVars, deliveryFaults>>

-----------------------------------------------------------------------------
(* The launch and the credential of the client.                               *)
BeginSession ==
    /\ launch.phase = "planned" /\ launch' = [launch EXCEPT !.phase = "running"]
    /\ UNCHANGED <<factVars, note, generation, carrier, wants, historyVars,
                   deliveryFaults>>

LaunchEnds ==
    /\ launch.phase # "ended" /\ launch' = [launch EXCEPT !.phase = "ended"]
    /\ UNCHANGED <<factVars, note, generation, carrier, wants, historyVars,
                   deliveryFaults>>

LaunchAgain ==
    /\ launch.phase = "ended" /\ launch.id < MaxLaunchIds
    /\ launch' = [id |-> launch.id + 1, phase |-> "planned"]
    /\ UNCHANGED <<factVars, note, generation, carrier, wants, historyVars,
                   deliveryFaults>>

RotateCredential ==
    /\ DeliveryFault
    /\ generation' = generation + 1
    /\ UNCHANGED <<factVars, note, launch, carrier, wants, historyVars>>

-----------------------------------------------------------------------------
(* An intent names the attempt, the launch and the credential it is for.  Its *)
(* two times come to one: the carrier's lease, or the pause after an attempt  *)
(* that is known to have failed.                                              *)
OwnerMatches(n) == n.generation = generation
Matches(n) == OwnerMatches(n) /\ n.launch = launch.id

Blocked(n, why) == [n EXCEPT !.phase = "blocked", !.error = why, !.waits = "no"]
PolicyBlocked(n) == n.phase = "blocked" /\ n.error = "importance"
Confirmed(n) == n.phase \in {"confirmed", "callback"}

NewNote == [NoIntent EXCEPT !.phase = "planned", !.launch = launch.id,
                            !.generation = generation]

(* prepare, for an intent of an earlier launch: possibly delivered, and to be *)
(* handed over again.                                                         *)
Replanned(n) ==
    IF Matches(n) THEN n
    ELSE [n EXCEPT !.phase = "planned", !.error = "none", !.waits = "no",
                   !.flagged = TRUE, !.launch = launch.id]

SetNote(m, n) == note' = [note EXCEPT ![m] = n]

(* completion: the phase is saved, the server records the fact, the intent is *)
(* unlinked.  The server may not be reached, or its answer be lost.           *)
RecordFact(m) ==
    /\ delivered' = IF mailbox[m] = "purged" THEN delivered ELSE delivered \cup {m}
    /\ Dirty({m})

Completion(m, n) ==
    /\ \/ RecordFact(m) /\ SetNote(m, NoIntent) /\ NoDeliveryFault
       \/ /\ \/ RecordFact(m)
             \/ UNCHANGED <<delivered, dirtyPair>>
          /\ SetNote(m, [n EXCEPT !.phase = "callback"]) /\ DeliveryFault
    /\ UNCHANGED <<mailbox, retiredOwner, hints>>

UnlinkIntent(m) ==
    /\ SetNote(m, NoIntent)
    /\ dropped' = IF note[m].tried \/ note[m].flagged THEN dropped \cup {m} ELSE dropped

-----------------------------------------------------------------------------
(* A carrier sweeps the intents and prepares the hints it lists, again and    *)
(* again.  The watcher hands over and reports message by message; a hook runs *)
(* in the session, prints what it prepared with one write, then reports.      *)
Hook(d) == ChannelOf[d] = "hook"

(* A carrier dies.                                                            *)
CarrierDies(d) ==
    /\ carrier[d] # AtRest /\ DeliveryFault
    /\ carrier' = [carrier EXCEPT ![d] = AtRest]
    /\ UNCHANGED <<factVars, note, ownerVars, wants, historyVars>>

(* reconcile_confirmed, for one intent.                                       *)
SweepIntent(d, m) ==
    /\ carrier[d].at = "idle"
    /\ \/ /\ PolicyBlocked(note[m]) /\ m \notin hints
          /\ UnlinkIntent(m)
          /\ UNCHANGED <<factVars, deliveryFaults>>
       \/ /\ Confirmed(note[m])
          /\ \/ OwnerMatches(note[m]) /\ Completion(m, note[m])
             \/ /\ ~OwnerMatches(note[m]) /\ SetNote(m, Blocked(note[m], "route"))
                /\ UNCHANGED <<factVars, deliveryFaults>>
          /\ UNCHANGED dropped
    /\ UNCHANGED <<ownerVars, carrier, wants, attempts, reached, said>>

-----------------------------------------------------------------------------
(* prepare, under the message's lock, in the order of the code.  The hint may *)
(* be gone by now, or the operator asks for the message.                      *)
Prepares(d, m) ==
    /\ mailbox[m] # "unsent"
    /\ \/ carrier[d].at = "idle"
       \/ /\ Hook(d) /\ carrier[d].at = "handing"
          /\ \A h \in carrier[d].held : h.letter # m

Stands(m) == note[m].phase = "blocked" /\ ~PolicyBlocked(note[m])

PrepareSettled(d, m) ==
    /\ Prepares(d, m)
    /\ \/ /\ note[m] # NoIntent /\ ~Stands(m) /\ ~OwnerMatches(note[m])
          /\ SetNote(m, Blocked(note[m], "route"))
          /\ UNCHANGED <<factVars, deliveryFaults>>
       \/ /\ OwnerMatches(note[m]) /\ Confirmed(note[m])
          /\ Completion(m, note[m])
    /\ UNCHANGED <<ownerVars, carrier, wants, historyVars>>

(* The intent to go on with, saved when it was for an earlier launch.         *)
Handleable(m) ==
    \/ note[m] = NoIntent
    \/ ~Stands(m) /\ OwnerMatches(note[m]) /\ ~Confirmed(note[m])
Kept(m) == IF note[m] = NoIntent THEN NoIntent ELSE Replanned(note[m])
Base(m) == IF note[m] = NoIntent THEN NewNote ELSE Replanned(note[m])

MayAsk(d, m) ==
    /\ PolicyBlocked(Base(m)) => d \in wants
    /\ Base(m).waits = "no"
    /\ launch.phase = "running" \/ Hook(d)

(* It waits: for another threshold, for a time, for a session, for the server.*)
PrepareWaits(d, m) ==
    /\ Prepares(d, m) /\ Handleable(m)
    /\ SetNote(m, Kept(m))
    /\ \/ /\ \/ ~MayAsk(d, m)
             \/ retiredOwner
             \/ Awaits(m) /\ d \in wants /\ launch.phase # "running"
          /\ NoDeliveryFault
       \/ MayAsk(d, m) /\ DeliveryFault
    /\ UNCHANGED <<factVars, ownerVars, carrier, wants, historyVars>>

PrepareGone(d, m) ==
    /\ Prepares(d, m) /\ Handleable(m) /\ MayAsk(d, m)
    /\ ~retiredOwner /\ ~Awaits(m)
    /\ UnlinkIntent(m)
    /\ UNCHANGED <<factVars, ownerVars, carrier, wants, attempts, reached, said,
                   deliveryFaults>>

PrepareRefused(d, m) ==
    /\ Prepares(d, m) /\ Handleable(m) /\ MayAsk(d, m)
    /\ Awaits(m) /\ d \notin wants
    /\ SetNote(m, Blocked(Base(m), "importance"))
    /\ UNCHANGED <<factVars, ownerVars, carrier, wants, historyVars, deliveryFaults>>

\* mutant: the flag is copied, and an earlier attempt does not set it
FlagCopied(n) == n.flagged

Flag(n) == n.flagged \/ n.tried

Attempted(m) ==
    [NewNote EXCEPT !.phase = "unknown", !.attempt = attempts[m] + 1, !.tried = TRUE,
                    !.flagged = Flag(Base(m)), !.waits = "lease"]

Handover(m, n) == [letter |-> m, attempt |-> n.attempt, flagged |-> n.flagged,
                   launch |-> n.launch]

PrepareHands(d, m) ==
    /\ Prepares(d, m) /\ Handleable(m) /\ MayAsk(d, m)
    /\ Awaits(m) /\ d \in wants /\ launch.phase = "running"
    /\ SetNote(m, Attempted(m))
    /\ attempts' = [attempts EXCEPT ![m] = @ + 1]
    /\ carrier' = [carrier EXCEPT
           ![d].at = "handing", ![d].held = @ \cup {Handover(m, Attempted(m))}]
    /\ UNCHANGED <<factVars, ownerVars, wants, reached, dropped, said,
                   deliveryFaults>>

-----------------------------------------------------------------------------
(* The handover, with no lock held.                                           *)
Conclude(d, outcome) ==
    carrier' = [carrier EXCEPT ![d].at = "reporting", ![d].outcome = outcome]

Reach(H) ==
    reached' = [m \in Letters |->
        LET mine == {h \in H : h.letter = m} IN
        [times |-> reached[m].times + Cardinality(mine),
         unflagged |-> reached[m].unflagged + Cardinality({h \in mine : ~h.flagged})]]

(* The hook's print.                                                          *)
HandOverPrinted(d) ==
    /\ carrier[d].at = "handing" /\ Hook(d)
    /\ Reach(carrier[d].held) /\ Conclude(d, "confirmed")
    /\ UNCHANGED <<factVars, note, ownerVars, wants, attempts, dropped, said,
                   deliveryFaults>>

(* The buffer is submitted, or the wake socket answers.                       *)
SameTarget(d, h) ==
    /\ launch.phase = "running"
    /\ ChannelOf[d] = "tmux" => h.launch = launch.id

Deliverable(d, h) ==
    /\ SameTarget(d, h)
    /\ ChannelOf[d] = "persistent" => Awaits(h.letter)

HandOverTaken(d, h) ==
    /\ carrier[d].at = "handing" /\ ~Hook(d) /\ h \in carrier[d].held
    /\ Deliverable(d, h) /\ Reach({h})
    /\ \/ Conclude(d, "confirmed") /\ NoDeliveryFault
       \/ Conclude(d, "unknown") /\ DeliveryFault
    /\ UNCHANGED <<factVars, note, ownerVars, wants, attempts, dropped, said>>

\* mutant: the exit status of the submit is not looked at
HandOverFailedConfirmed(d, h) ==
    /\ carrier[d].at = "handing" /\ ~Hook(d) /\ h \in carrier[d].held
    /\ Conclude(d, "confirmed") /\ DeliveryFault
    /\ UNCHANGED <<factVars, note, ownerVars, wants, historyVars>>

(* Not handed over: the message is gone or the buffer not loaded, which is    *)
(* known; the target is another or does not answer, which is not.             *)
HandOverFailed(d, h) ==
    /\ carrier[d].at = "handing" /\ ~Hook(d) /\ h \in carrier[d].held
    /\ \/ /\ ChannelOf[d] = "persistent" /\ ~retiredOwner /\ ~Awaits(h.letter)
          /\ Conclude(d, "known") /\ NoDeliveryFault
       \/ ChannelOf[d] = "tmux" /\ Conclude(d, "known") /\ DeliveryFault
       \/ ~SameTarget(d, h) /\ Conclude(d, "unknown") /\ NoDeliveryFault
       \/ SameTarget(d, h) /\ Conclude(d, "unknown") /\ DeliveryFault
    /\ UNCHANGED <<factVars, note, ownerVars, wants, historyVars>>

(* The server refuses the second look at the message: nothing is reported.    *)
HandOverRefused(d, h) ==
    /\ carrier[d].at = "handing" /\ ChannelOf[d] = "persistent" /\ retiredOwner
    /\ h \in carrier[d].held
    /\ carrier' = [carrier EXCEPT ![d] = AtRest]
    /\ UNCHANGED <<factVars, note, ownerVars, wants, historyVars, deliveryFaults>>

(* callback: refused unless the intent is still this attempt's, and the       *)
(* launch and the credential the ones it names.                               *)
Accepts(h) ==
    note[h.letter].attempt = h.attempt /\ Matches(note[h.letter])

Report(d, h) ==
    LET m == h.letter
        n == note[m]
        out == carrier[d].outcome
        left == carrier[d].held \ {h}
    IN
    /\ carrier[d].at = "reporting" /\ h \in carrier[d].held
    /\ carrier' = [carrier EXCEPT
           ![d] = IF left = {} THEN AtRest ELSE [@ EXCEPT !.held = left]]
    /\ \/ ~Accepts(h) /\ UNCHANGED <<factVars, note, deliveryFaults>>
       \/ Accepts(h) /\ out = "confirmed" /\ Completion(m, n)
       \/ /\ Accepts(h) /\ out = "unknown"
          /\ SetNote(m, [n EXCEPT !.flagged = TRUE])
          /\ UNCHANGED <<factVars, deliveryFaults>>
       \/ /\ Accepts(h) /\ out = "known"
          /\ SetNote(m, [n EXCEPT !.waits = IF @ = "lease" THEN "backoff" ELSE @])
          /\ UNCHANGED <<factVars, deliveryFaults>>
    /\ UNCHANGED <<ownerVars, wants, historyVars>>

(* A time passes; the lease while its carrier is still at work only if that   *)
(* takes longer than the lease lasts.                                         *)
AtWork(m) ==
    \E d \in Carriers, h \in UNION {carrier[x].held : x \in Carriers} :
        h \in carrier[d].held /\ h.letter = m /\ h.attempt = note[m].attempt

\* mutant: only the pause after a known failure ends
BackoffEnds(m) ==
    /\ note[m].waits = "backoff"
    /\ NoDeliveryFault
    /\ SetNote(m, [note[m] EXCEPT !.waits = "no"])
    /\ UNCHANGED <<factVars, ownerVars, carrier, wants, historyVars>>

IntentWaitEnds(m) ==
    /\ note[m].waits # "no"
    /\ IF AtWork(m) THEN DeliveryFault ELSE NoDeliveryFault
    /\ SetNote(m, [note[m] EXCEPT !.waits = "no"])
    /\ UNCHANGED <<factVars, ownerVars, carrier, wants, historyVars>>

-----------------------------------------------------------------------------
(* resolve_delivery, by the operator, for the state it was shown.             *)
ResolveRetry(m) ==
    /\ note[m] # NoIntent /\ DeliveryFault
    /\ SetNote(m, [NewNote EXCEPT !.attempt = note[m].attempt, !.flagged = TRUE])
    /\ UNCHANGED <<factVars, ownerVars, carrier, wants, historyVars>>

ResolveConfirm(m) ==
    /\ note[m] # NoIntent /\ OwnerMatches(note[m]) /\ DeliveryFault
    /\ SetNote(m, [note[m] EXCEPT !.phase = "confirmed"])
    /\ said' = said \cup {m}
    /\ UNCHANGED <<factVars, ownerVars, carrier, wants, attempts, reached, dropped>>

ResolveAbandon(m) ==
    /\ note[m] # NoIntent /\ DeliveryFault
    /\ SetNote(m, Blocked(note[m], "abandoned"))
    /\ UNCHANGED <<factVars, ownerVars, carrier, wants, historyVars>>

-----------------------------------------------------------------------------
PrepareStep(d, m) ==
    \/ PrepareSettled(d, m) \/ PrepareWaits(d, m) \/ PrepareGone(d, m)
    \/ PrepareRefused(d, m) \/ PrepareHands(d, m)

HandOverStep(d) ==
    \/ HandOverPrinted(d)
    \/ \E h \in carrier[d].held :
          \/ HandOverTaken(d, h) \/ HandOverFailed(d, h) \/ HandOverRefused(d, h)
          \/ Report(d, h)

ServerTask == \E m \in Letters : ReconcileSignal(m)

DeliveryNext ==
    \/ \E d \in Carriers :
          \/ HandOverStep(d) \/ CarrierDies(d)
          \/ \E m \in Letters : SweepIntent(d, m) \/ PrepareStep(d, m)
    \/ ServerTask
    \/ \E m \in Letters :
          \/ Publish(m) \/ MarkRead(m) \/ PurgeMessage(m) \/ ReconcileOutputs(m)
          \/ IntentWaitEnds(m)
          \/ ResolveRetry(m) \/ ResolveConfirm(m) \/ ResolveAbandon(m)
    \/ ChangeRetirement
    \/ BeginSession \/ LaunchEnds \/ LaunchAgain \/ RotateCredential

DeliverySpec == DeliveryInit /\ [][DeliveryNext]_deliveryVars

-----------------------------------------------------------------------------
DeliveryTypeOK ==
    /\ mailbox \in [Letters -> {"unsent", "unread", "read", "purged"}]
    /\ delivered \subseteq Letters /\ hints \subseteq Letters
    /\ dirtyPair \in [Letters -> {"clean", "pending", "blocked"}]
    /\ \A m \in Letters : note[m] = NoIntent
          \/ /\ note[m].phase \in {"planned", "unknown", "confirmed", "callback",
                                   "blocked"}
             /\ note[m].attempt \in 0..attempts[m]
             /\ note[m].launch \in 1..launch.id
    /\ launch \in [id : 1..MaxLaunchIds, phase : {"planned", "running", "ended"}]
    /\ \A d \in Carriers : \A h \in carrier[d].held :
          h.letter \in Letters /\ h.attempt \in 1..attempts[h.letter]
    /\ \A m \in Letters : reached[m].times <= attempts[m]
    /\ deliveryFaults \in 0..MaxDeliveryFaults

(* The signal files follow the facts: for a pair that is not on the dirty     *)
(* table the file exists exactly when the message is to be notified, whatever *)
(* marked it read, recorded its delivery, purged it, retired its recipient or *)
(* brought it back, and whatever failed in between.                           *)
SignalTellsTruth ==
    \A m \in Letters : dirtyPair[m] = "clean" => (m \in hints <=> Awaits(m))

(* At most one handover that reaches a session is without the flag that it    *)
(* may be a repeat: the attempt is on disk before the handover, and survives  *)
(* a crash, a change of launch and the operator's retry; an intent unlinked   *)
(* on the way is the exception, and with it the memory of the attempt.        *)
RepeatIsFlagged == \A m \in Letters \ dropped : reached[m].unflagged <= 1

(* A delivery is a fact at the server only for a message that reached a       *)
(* session, or that the operator says did.                                    *)
ConsumedMeansHanded ==
    \A m \in delivered : reached[m].times > 0 \/ m \in said

(* A message to be notified stays so only while its pair or its intent is     *)
(* blocked, which the operator sees, or no session runs.                      *)
EveryHintSettles ==
    \A m \in Letters :
        Awaits(m) ~> \/ ~Awaits(m) \/ launch.phase # "running"
                     \/ dirtyPair[m] = "blocked"
                     \/ note[m].phase = "blocked"
=============================================================================
