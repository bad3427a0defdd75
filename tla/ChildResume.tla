---------------------------- MODULE ChildResume ----------------------------
(* The private resume material of one child agent, its state file and its     *)
(* owner token (child_resume.py), and who changes it: the parent that         *)
(* registers the name (agentstack-preregister-child), the launcher that       *)
(* stages a registration (spawn_child.sh), the session with its bootstrap and *)
(* its cleanup (agentstack-codex-bootstrap, cleanup-child-agent.sh), purge,   *)
(* and the recovery after a reboot (server.py maintenance thread).            *)
(*                                                                            *)
(* A registration is its number: the agent id and the token of that id.       *)
(* Every helper call holds the child's lock; the registration's own writes    *)
(* and the removal at the end of the cleanup do not.  A crash frees the lock  *)
(* between any two file writes.                                               *)
EXTENDS Integers

CONSTANTS
    MaxIds,         \* bound: registrations of this name
    MaxLaunches,    \* bound: launches staged
    MaxChildFaults  \* bound: failed steps, crashes, reboots

ASSUME ChildResumeAssumption ==
    MaxIds \in Nat \ {0} /\ MaxLaunches \in Nat /\ MaxChildFaults \in Nat

VARIABLES
    state,      \* the state file
    credential,      \* the owner token's registration, 0 when there is none
    tombs,      \* registrations with a purge tombstone
    pending,    \* the undo record of a staged registration
    lock,       \* holder of the child's lock
    launcher,   \* the launcher: step, generation, registration
    session,    \* the child's tmux session: step, registration
    purge,      \* step of purge_one
    recovery,   \* step of recover_after_reboot
    ids,        \* registrations made
    handoff,    \* the token handoff of the last registration is there
    launches,   \* launches staged
    registrar,  \* what the last registration has yet to write
    crossed,    \* history: its writes were cut off, or fell among others' steps
    childFaults \* faults so far

childVars == <<state, credential, tombs, pending, lock, launcher, session, purge,
               recovery, ids, handoff, launches, registrar, crossed, childFaults>>
material == <<state, credential, tombs, pending>>
registration == <<ids, handoff, registrar, crossed>>
bounds == <<registration, launches>>

Ids == 1..MaxIds
NoState == [id |-> 0, shaped |-> FALSE, retired |-> FALSE, going |-> FALSE,
            old |-> FALSE]
NoPending == [gen |-> 0, id |-> 0, state |-> NoState, token |-> 0, tomb |-> FALSE]
NoLauncher == [at |-> "idle", gen |-> 0, id |-> 0, fresh |-> FALSE, started |-> FALSE]
NoSession == [at |-> "none", id |-> 0]

ChildFault == childFaults < MaxChildFaults /\ childFaults' = childFaults + 1
Launch(step) == launcher' = [launcher EXCEPT !.at = step]

(* The state file and the token are of one registration.                      *)
Joined == credential # 0 /\ state.id = credential
Written(s) == [s EXCEPT !.old = FALSE]

-----------------------------------------------------------------------------
(* stage_registration: no change pending; the undo record, then the token,    *)
(* then the state.  A relaunch uses the child's own state, whose token, if it *)
(* is there, must agree; a handoff brings a registration of its own.          *)
OwnState == state.id # 0 /\ credential \in {0, state.id}

Stage(fresh) ==
    /\ launcher = NoLauncher /\ lock = "free" /\ launches < MaxLaunches
    /\ pending = NoPending /\ IF fresh THEN handoff ELSE OwnState
    /\ launches' = launches + 1
    /\ LET id == IF fresh THEN ids ELSE state.id
       IN  /\ pending' = [gen |-> launches', id |-> id, state |-> state,
                          token |-> credential, tomb |-> id \in tombs]
           /\ launcher' = [at |-> "token", gen |-> launches', id |-> id,
                           fresh |-> fresh, started |-> FALSE]
    /\ lock' = "launcher"
    /\ UNCHANGED <<state, credential, tombs, session, purge, recovery, registration,
                   childFaults>>

StageToken ==
    /\ launcher.at = "token"
    /\ credential' = launcher.id /\ Launch("state")
    /\ UNCHANGED <<state, tombs, pending, lock, session, purge, recovery, bounds,
                   childFaults>>

StageState ==
    /\ launcher.at = "state"
    /\ state' = IF launcher.fresh THEN [NoState EXCEPT !.id = launcher.id]
                ELSE Written(state)
    /\ lock' = "free" /\ Launch("staged")
    /\ UNCHANGED <<credential, tombs, pending, session, purge, recovery,
                   bounds, childFaults>>

(* prepare_active_state: this launch's undo record, one registration; the     *)
(* state becomes active, then the tombstone goes.                             *)
MayPrepare == pending.gen = launcher.gen /\ Joined

Prepare ==
    /\ launcher.at = "staged" /\ lock = "free"
    /\ IF MayPrepare
       THEN /\ state' = [id |-> state.id, shaped |-> TRUE, retired |-> FALSE,
                         going |-> FALSE, old |-> FALSE]
            /\ lock' = "launcher" /\ Launch("untomb")
       ELSE UNCHANGED <<state, lock>> /\ Launch("undo")
    /\ UNCHANGED <<credential, tombs, pending, session, purge, recovery,
                   bounds, childFaults>>

Untomb ==
    /\ launcher.at = "untomb"
    /\ tombs' = tombs \ {state.id}
    /\ lock' = "free" /\ Launch("prepared")
    /\ UNCHANGED <<state, credential, pending, session, purge, recovery,
                   bounds, childFaults>>

(* tmux new-session: refused when a session of this name is there.            *)
StartSession ==
    /\ launcher.at = "prepared"
    /\ IF session = NoSession
       THEN /\ session' = [at |-> "running", id |-> launcher.id]
            /\ launcher' = [launcher EXCEPT !.at = "started", !.started = TRUE]
       ELSE UNCHANGED session /\ Launch("undo")
    /\ UNCHANGED <<material, lock, purge, recovery, bounds, childFaults>>

(* finish_registration: the launch succeeded and its handoff is used up; a    *)
(* record that is gone or of another launch is left alone.                    *)
FinishLaunch ==
    /\ launcher.at = "started" /\ lock = "free"
    /\ pending' = IF pending.gen = launcher.gen THEN NoPending ELSE pending
    /\ handoff' = IF pending.gen = launcher.gen /\ launcher.fresh /\ launcher.id = ids
                  THEN FALSE ELSE handoff
    /\ launcher' = NoLauncher
    /\ UNCHANGED <<state, credential, tombs, lock, session, purge, recovery,
                   ids, registrar, crossed, launches, childFaults>>

(* Anything before that fails: the exit trap rolls back.                      *)
LaunchStops ==
    /\ launcher.at \in {"staged", "prepared", "started"}
    /\ ChildFault /\ Launch("undo")
    /\ UNCHANGED <<material, lock, session, purge, recovery, bounds>>

(* A write of stage_registration fails: rolled back under the same lock.      *)
StageFails ==
    /\ launcher.at \in {"token", "state"}
    /\ ChildFault /\ Launch("undoToken")
    /\ UNCHANGED <<material, lock, session, purge, recovery, bounds>>

(* finish_registration --rollback: token, state and tombstone as they were,   *)
(* then the record goes; a session this launch started is killed.             *)
BeginUndo ==
    /\ launcher.at = "undo" /\ lock = "free"
    /\ IF pending.gen = launcher.gen
       THEN lock' = "launcher" /\ Launch("undoToken")
       ELSE UNCHANGED lock /\ launcher' = NoLauncher
    /\ UNCHANGED <<material, session, purge, recovery, bounds, childFaults>>

UndoToken ==
    /\ launcher.at = "undoToken"
    /\ credential' = pending.token /\ Launch("undoState")
    /\ UNCHANGED <<state, tombs, pending, lock, session, purge, recovery, bounds,
                   childFaults>>

\* mutant: the rollback restores the token, not the state
UndoStateKeeps ==
    /\ launcher.at = "undoState" /\ Launch("undoTomb")
    /\ UNCHANGED <<state, credential, tombs, pending, lock, session, purge, recovery,
                   bounds, childFaults>>

UndoState ==
    /\ launcher.at = "undoState"
    /\ state' = Written(pending.state) /\ Launch("undoTomb")
    /\ UNCHANGED <<credential, tombs, pending, lock, session, purge, recovery, bounds,
                   childFaults>>

UndoTomb ==
    /\ launcher.at = "undoTomb"
    /\ tombs' = IF pending.tomb THEN tombs \cup {pending.id} ELSE tombs \ {pending.id}
    /\ Launch("undone")
    /\ UNCHANGED <<state, credential, pending, lock, session, purge, recovery, bounds,
                   childFaults>>

Undone ==
    /\ launcher.at = "undone"
    /\ pending' = NoPending /\ lock' = "free"
    /\ session' = IF launcher.started THEN NoSession ELSE session
    /\ launcher' = NoLauncher
    /\ UNCHANGED <<state, credential, tombs, purge, recovery, bounds, childFaults>>

(* The launcher is killed: nothing rolls back until the operator does, with   *)
(* the generation of the record (docs/launchers.md).                          *)
LauncherDies ==
    /\ launcher # NoLauncher /\ ChildFault
    /\ launcher' = NoLauncher
    /\ lock' = IF lock = "launcher" THEN "free" ELSE lock
    /\ UNCHANGED <<material, session, purge, recovery, bounds>>

OperatorUndoes ==
    /\ launcher = NoLauncher /\ pending # NoPending
    /\ launcher' = [NoLauncher EXCEPT !.at = "undo", !.gen = pending.gen]
    /\ UNCHANGED <<material, lock, session, purge, recovery, bounds, childFaults>>

-----------------------------------------------------------------------------
(* A parent registers this name anew, say in another project: a row of its    *)
(* own in Agent Mail and the handoff, then, without the child's lock and      *)
(* without an undo record, the token and the state are replaced.              *)
Register ==
    /\ registrar = "idle" /\ ids < MaxIds /\ ids' = ids + 1 /\ handoff' = TRUE
    /\ registrar' = "token"
    /\ UNCHANGED <<material, lock, launcher, session, purge, recovery, launches,
                   crossed, childFaults>>

NobodyAtWork == lock = "free" /\ pending = NoPending

PersistToken ==
    /\ registrar = "token"
    /\ credential' = ids /\ registrar' = "state"
    /\ crossed' = (crossed \/ ~NobodyAtWork)
    /\ UNCHANGED <<state, tombs, pending, lock, launcher, session, purge, recovery,
                   ids, handoff, launches, childFaults>>

PersistState ==
    /\ registrar = "state"
    /\ state' = [NoState EXCEPT !.id = ids] /\ registrar' = "idle"
    /\ crossed' = (crossed \/ ~NobodyAtWork \/ credential # ids)
    /\ UNCHANGED <<credential, tombs, pending, lock, launcher, session, purge, recovery,
                   ids, handoff, launches, childFaults>>

(* The registration fails or is killed before its pair is written.            *)
RegistrarDies ==
    /\ registrar # "idle" /\ ChildFault
    /\ registrar' = "idle" /\ crossed' = (crossed \/ registrar = "state")
    /\ UNCHANGED <<material, lock, launcher, session, purge, recovery, ids, handoff,
                   launches>>

(* The dashboard opens a session for a retained child.                        *)
Retained == state.shaped /\ state.retired /\ ~state.going /\ Joined

OpenResume ==
    /\ session = NoSession /\ lock = "free" /\ Retained /\ pending = NoPending
    /\ session' = [at |-> "bootstrap", id |-> state.id]
    /\ UNCHANGED <<material, lock, launcher, purge, recovery, bounds, childFaults>>

(* begin_resume, in the session: no undo record, retained, not yet resuming.  *)
MayResumeChild == pending = NoPending /\ Retained /\ state.id = session.id

ResumeChild ==
    /\ session.at = "bootstrap" /\ lock = "free"
    /\ IF MayResumeChild
       THEN /\ state' = Written([state EXCEPT !.going = TRUE])
            /\ session' = [session EXCEPT !.at = "resuming"]
       ELSE UNCHANGED state /\ session' = NoSession
    /\ UNCHANGED <<credential, tombs, pending, lock, launcher, purge, recovery,
                   bounds, childFaults>>

(* Agent Mail makes the identity active again, or refuses: cancel_resume.     *)
Unretire ==
    /\ session.at = "resuming"
    /\ session' = [session EXCEPT !.at = "running"]
    /\ UNCHANGED <<material, lock, launcher, purge, recovery, bounds, childFaults>>

CancelResume ==
    /\ session.at = "resuming" /\ lock = "free" /\ ChildFault
    /\ state' = IF state.id = session.id THEN Written([state EXCEPT !.going = FALSE])
                ELSE state
    /\ session' = NoSession
    /\ UNCHANGED <<credential, tombs, pending, lock, launcher, purge, recovery,
                   bounds>>

(* The child ends: its cleanup retires it in Agent Mail, then mark_retired;   *)
(* material that is not a whole retained pair is deleted.                     *)
Exit ==
    /\ session.at = "running"
    /\ session' = [session EXCEPT !.at = "cleanup"]
    /\ UNCHANGED <<material, lock, launcher, purge, recovery, bounds, childFaults>>

MarkRetired ==
    /\ session.at = "cleanup" /\ lock = "free"
    /\ IF state.shaped /\ Joined
       THEN /\ state' = [state EXCEPT !.retired = TRUE, !.going = FALSE, !.old = FALSE]
            /\ session' = NoSession
       ELSE UNCHANGED state /\ session' = [session EXCEPT !.at = "rmState"]
    /\ UNCHANGED <<credential, tombs, pending, lock, launcher, purge, recovery,
                   bounds, childFaults>>

RemoveState ==
    /\ session.at = "rmState"
    /\ state' = NoState /\ session' = [session EXCEPT !.at = "rmToken"]
    /\ UNCHANGED <<credential, tombs, pending, lock, launcher, purge, recovery,
                   bounds, childFaults>>

RemoveToken ==
    /\ session.at = "rmToken"
    /\ credential' = 0 /\ session' = NoSession
    /\ UNCHANGED <<state, tombs, pending, lock, launcher, purge, recovery, bounds,
                   childFaults>>

(* The session is killed, or its cleanup fails before mark_retired.           *)
SessionDies ==
    /\ session # NoSession /\ ChildFault /\ session' = NoSession
    /\ UNCHANGED <<material, lock, launcher, purge, recovery, bounds>>

-----------------------------------------------------------------------------
(* purge_one: a child of this program that is not resuming.  The tombstone,   *)
(* the token, the state, the undo record.                                     *)
Purge ==
    /\ purge = "idle" /\ lock = "free" /\ state.shaped /\ ~state.going
    /\ tombs' = tombs \cup {state.id}
    /\ lock' = "purge" /\ purge' = "token"
    /\ UNCHANGED <<state, credential, pending, launcher, session, recovery, bounds,
                   childFaults>>

PurgeToken ==
    /\ purge = "token"
    /\ credential' = 0 /\ purge' = "state"
    /\ UNCHANGED <<state, tombs, pending, lock, launcher, session, recovery, bounds,
                   childFaults>>

PurgeState ==
    /\ purge = "state"
    /\ state' = NoState /\ purge' = "pending"
    /\ UNCHANGED <<credential, tombs, pending, lock, launcher, session,
                   recovery, bounds, childFaults>>

PurgePending ==
    /\ purge = "pending"
    /\ pending' = NoPending /\ lock' = "free" /\ purge' = "idle"
    /\ UNCHANGED <<state, credential, tombs, launcher, session, recovery,
                   bounds, childFaults>>

PurgeDies ==
    /\ purge # "idle" /\ ChildFault
    /\ purge' = "idle" /\ lock' = "free"
    /\ UNCHANGED <<material, launcher, session, recovery, bounds>>

-----------------------------------------------------------------------------
(* A reboot ends every process; what was written before is older than boot.   *)
Reboot ==
    /\ ChildFault
    /\ registrar' = "idle" /\ crossed' = (crossed \/ registrar = "state")
    /\ state' = [state EXCEPT !.old = state.id # 0]
    /\ launcher' = NoLauncher /\ session' = NoSession
    /\ purge' = "idle" /\ recovery' = "idle" /\ lock' = "free"
    /\ UNCHANGED <<credential, tombs, pending, ids, handoff, launches>>

\* mutant: a resume that was cut off is not looked for
CandidateRunning == state.old /\ state.shaped /\ ~state.retired /\ ~state.going

(* recover_after_reboot: a child left running or in the middle of a resume by *)
(* a boot since; looked at again under the lock, and its session once more    *)
(* before the write.                                                          *)
Candidate == state.old /\ state.shaped /\ state.retired = state.going

Recover ==
    /\ recovery = "idle" /\ Candidate /\ session = NoSession
    /\ recovery' = "look"
    /\ UNCHANGED <<material, lock, launcher, session, purge, bounds, childFaults>>

RecoverLook ==
    /\ recovery = "look" /\ lock = "free"
    /\ IF Candidate /\ pending = NoPending /\ Joined
       THEN lock' = "recovery" /\ recovery' = "write"
       ELSE UNCHANGED lock /\ recovery' = "idle"
    /\ UNCHANGED <<material, launcher, session, purge, bounds, childFaults>>

RecoverWrite ==
    /\ recovery = "write"
    /\ state' = IF session = NoSession
                THEN [state EXCEPT !.retired = TRUE, !.going = FALSE, !.old = FALSE]
                ELSE state
    /\ recovery' = "idle" /\ lock' = "free"
    /\ UNCHANGED <<credential, tombs, pending, launcher, session, purge,
                   bounds, childFaults>>

-----------------------------------------------------------------------------
ChildInit ==
    /\ state = NoState /\ credential = 0 /\ tombs = {} /\ pending = NoPending
    /\ lock = "free" /\ launcher = NoLauncher /\ session = NoSession
    /\ purge = "idle" /\ recovery = "idle"
    /\ ids = 1 /\ handoff = TRUE /\ registrar = "token" /\ crossed = FALSE
    /\ launches = 0 /\ childFaults = 0

LauncherStep ==
    \/ StageToken \/ StageState \/ Prepare \/ Untomb \/ StartSession \/ FinishLaunch
    \/ BeginUndo \/ UndoToken \/ UndoState \/ UndoTomb \/ Undone

SessionStep == ResumeChild \/ Unretire \/ MarkRetired \/ RemoveState \/ RemoveToken
PurgeStep == PurgeToken \/ PurgeState \/ PurgePending
RecoveryStep == Recover \/ RecoverLook \/ RecoverWrite

ChildNext ==
    \/ (\E fresh \in BOOLEAN : Stage(fresh)) \/ LauncherStep
    \/ LaunchStops \/ StageFails \/ LauncherDies \/ OperatorUndoes
    \/ Register \/ PersistToken \/ PersistState \/ RegistrarDies
    \/ OpenResume \/ SessionStep \/ CancelResume \/ Exit \/ SessionDies
    \/ Purge \/ PurgeStep \/ PurgeDies \/ Reboot \/ RecoveryStep

ChildSpec == ChildInit /\ [][ChildNext]_childVars

(* A process that runs goes on; the dashboard's maintenance pass comes back   *)
(* every hour.                                                                *)
ChildFairSpec ==
    /\ ChildSpec
    /\ WF_childVars(LauncherStep) /\ WF_childVars(SessionStep)
    /\ WF_childVars(PurgeStep) /\ WF_childVars(RecoveryStep)

-----------------------------------------------------------------------------
States == [id : 0..MaxIds, shaped : BOOLEAN, retired : BOOLEAN, going : BOOLEAN,
           old : BOOLEAN]

ChildTypeOK ==
    /\ state \in States /\ credential \in 0..MaxIds /\ tombs \subseteq Ids
    /\ pending \in [gen : 0..MaxLaunches, id : 0..MaxIds, state : States,
                    token : 0..MaxIds, tomb : BOOLEAN]
    /\ lock \in {"free", "launcher", "purge", "recovery"}
    /\ launcher \in [at : {"idle", "token", "state", "staged", "untomb", "prepared",
                           "started", "undo", "undoToken", "undoState", "undoTomb",
                           "undone"},
                     gen : 0..MaxLaunches, id : 0..MaxIds, fresh : BOOLEAN,
                     started : BOOLEAN]
    /\ session \in [at : {"none", "bootstrap", "resuming", "running", "cleanup",
                          "rmState", "rmToken"}, id : 0..MaxIds]
    /\ purge \in {"idle", "token", "state", "pending"}
    /\ recovery \in {"idle", "look", "write"}
    /\ ids \in Ids /\ handoff \in BOOLEAN /\ launches \in 0..MaxLaunches
    /\ registrar \in {"idle", "token", "state"} /\ crossed \in BOOLEAN
    /\ childFaults \in 0..MaxChildFaults

(* With no undo record and nobody at work on them, a state file and a token   *)
(* that are both there are of one registration, after any sequence of         *)
(* registrations, launches, rollbacks, purges, late cleanups and crashes ("a  *)
(* crash or same-name re-registration that leaves one old and one new",       *)
(* spawn_child.sh).  Only a registration that is cut off between its two      *)
(* replaces ("leaves a mismatch that is rejected",                            *)
(* agentstack-preregister-child), or that writes among the steps of a launch, *)
(* a rollback or a purge, leaves two.                                         *)
OnePair ==
    pending = NoPending /\ lock = "free" /\ registrar # "state" /\ ~crossed
    /\ state.id # 0 => credential \in {0, state.id}

(* A child a reboot stopped while it ran, or while it was resuming, becomes   *)
(* resumable, unless it is launched, purged or registered anew meanwhile.     *)
CutOff(id) ==
    /\ state.id = id /\ state.shaped /\ state.old /\ state.retired = state.going
    /\ Joined /\ pending = NoPending

CutOffChildReturns ==
    \A id \in Ids : CutOff(id) ~> \/ Retained
                                  \/ session # NoSession
                                  \/ state.id # id \/ credential # id
                                  \/ pending # NoPending
=============================================================================
