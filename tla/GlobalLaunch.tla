---------------------------- MODULE GlobalLaunch ----------------------------
(* The launch of a provider by the global client, and its end: bin/lib/       *)
(* runtime_delivery.py, prepare_launch to end_launch, with the mutation slot  *)
(* of runtime_client.py.                                                      *)
(*                                                                            *)
(* One file, launch_intent.json, holds the launch of an identity.  A runner   *)
(* starts the provider as its child and waits for it; a hook of the provider  *)
(* records its session; who sees the end of it reports to the parent, retires *)
(* the identity and closes the launch.  The runner, the child and the program *)
(* the child becomes or forks may each die alone, and every step on disk or   *)
(* over the wire may be the last.                                             *)
EXTENDS Integers, FiniteSets

CONSTANTS
    Runners,           \* processes that execute a launch, each of them once
    Detached,          \* those in a tmux session of the identity's name
    NoRunner,
    MaxLaunchRows,     \* bound: launches
    MaxLaunchFaults    \* bound: crashes, lost answers, operators at the server

ASSUME GlobalLaunchAssumption ==
    /\ Detached \subseteq Runners /\ NoRunner \notin Runners
    /\ MaxLaunchRows \in Nat \ {0} /\ MaxLaunchFaults \in Nat

VARIABLES
    launchRow,     \* launch_intent.json
    starting,      \* the start between its two sections: "no" or its kind
    runner,        \* each runner: where it stands and the launch it was given
    native,        \* its child: the shim, or the provider it has become
    liveRow,       \* live-sessions/*.json, by the runner of its provider
    closing,       \* the process inside end_launch
    slot,          \* pending mutation of the identity
    ownerRetired,  \* the identity's retired_at at the server
    letters,       \* launches whose report is in the parent's inbox
    (* History. *)
    excused,       \* launches gated again, or upset by a mistaken operator
    discarded,     \* launches whose pending report an operator threw away
    launchFaults

launchProcesses == <<runner, native, liveRow>>
reportVars == <<slot, ownerRetired, letters>>
excuseVars == <<excused, discarded>>
launchVars == <<launchRow, starting, launchProcesses, closing, reportVars,
                excuseVars, launchFaults>>

NoLaunchRow ==
    [id |-> 0, phase |-> "none", exec |-> "none", runner |-> NoRunner,
     term |-> "none", report |-> "open", resolved |-> "none"]
NotClosing == [at |-> "no", by |-> NoRunner, resumed |-> FALSE]

LaunchFault ==
    launchFaults < MaxLaunchFaults /\ launchFaults' = launchFaults + 1
NoLaunchFault == UNCHANGED launchFaults

LaunchInit ==
    /\ launchRow = NoLaunchRow /\ starting = "no" /\ closing = NotClosing
    /\ runner = [r \in Runners |-> [at |-> "none", id |-> 0]]
    /\ native = [r \in Runners |-> "none"]
    /\ liveRow = [r \in Runners |-> "none"]
    /\ slot = "none" /\ ownerRetired = FALSE /\ letters = {}
    /\ excused = {} /\ discarded = {} /\ launchFaults = 0

(* The operation mutex is held by whoever closes; every other section is one  *)
(* action.                                                                    *)
OperationFree == closing.at = "no"

Alive(r) == runner[r].at \notin {"none", "done"}
ProviderLives(r) == native[r] \in {"up", "left"}

(* runner_provider: the provider descends from the recorded, living runner.   *)
Proved(r) == r = launchRow.runner /\ Alive(r) /\ native[r] = "up"

LiveRows(id) == {r \in Runners : liveRow[r] = "live" /\ runner[r].id = id}

(* ending_incomplete                                                          *)
EndingIncomplete ==
    /\ launchRow.phase = "ended"
    /\ \/ launchRow.exec # "none" /\ launchRow.term # "ended"
       \/ launchRow.resolved = "ended" /\ LiveRows(launchRow.id) # {}

-----------------------------------------------------------------------------
(* start: the launch is saved, the window bound, the launch set to gated; the *)
(* second section does not look at the launch it finds.  Then this process is *)
(* the runner, or a wrapper in a new tmux session, whose name must be free.   *)
PrepareLaunch ==
    /\ OperationFree /\ starting = "no" /\ ~ownerRetired
    /\ launchRow.id < MaxLaunchRows
    /\ launchRow.id = 0 \/ launchRow.phase \in {"ended", "cancelled"}
    /\ ~EndingIncomplete
    /\ launchRow' = [NoLaunchRow EXCEPT !.id = launchRow.id + 1, !.phase = "planned"]
    /\ starting' \in {"attached", "detached"}
    /\ UNCHANGED <<launchProcesses, closing, reportVars, excuseVars, launchFaults>>

StartDies ==
    /\ starting # "no"
    /\ IF ownerRetired THEN NoLaunchFault ELSE LaunchFault
    /\ starting' = "no"
    /\ UNCHANGED <<launchRow, launchProcesses, closing, reportVars, excuseVars>>

Unstarted(r) == runner[r].at = "none"
NameTaken == \E r \in Detached : Alive(r)
Execute(r) == runner' = [runner EXCEPT ![r] = [at |-> "exec", id |-> launchRow.id]]

(* new-session may fail, and its answer be lost.                              *)
NewSession == \E r \in Detached : Unstarted(r) /\ ~NameTaken /\ Execute(r)

CreateWrapper ==
    \/ NewSession /\ NoLaunchFault
    \/ UNCHANGED runner /\ LaunchFault

GateLaunch ==
    /\ OperationFree /\ starting # "no" /\ ~ownerRetired
    /\ launchRow' = [launchRow EXCEPT !.phase = "gated"]
    /\ excused' = IF launchRow.exec = "none" THEN excused
                  ELSE excused \cup {launchRow.id}
    /\ \/ starting = "detached" /\ CreateWrapper
       \/ starting = "detached" /\ NameTaken /\ UNCHANGED runner /\ NoLaunchFault
       \/ /\ starting = "attached" /\ NoLaunchFault
          /\ \E r \in Runners \ Detached : Unstarted(r) /\ Execute(r)
    /\ starting' = "no"
    /\ UNCHANGED <<native, liveRow, closing, reportVars, discarded>>

(* launch-retry, also while a start is between its sections, and              *)
(* launch-cancel.                                                             *)
RetryLaunch ==
    /\ OperationFree /\ ~ownerRetired
    /\ launchRow.phase \in {"planned", "gated"} /\ launchRow.exec = "none"
    /\ ~NameTaken
    /\ launchRow' = [launchRow EXCEPT !.phase = "gated"]
    /\ \/ starting = "no" /\ CreateWrapper
       \/ starting # "no" /\ NewSession /\ LaunchFault
    /\ UNCHANGED <<starting, native, liveRow, closing, reportVars, excuseVars>>

CancelLaunch ==
    /\ OperationFree /\ launchRow.phase \in {"planned", "gated"} /\ LaunchFault
    /\ launchRow' = [launchRow EXCEPT !.phase = "cancelled"]
    /\ UNCHANGED <<starting, launchProcesses, closing, reportVars, excuseVars>>

-----------------------------------------------------------------------------
(* execute and exec_provider.  A runner whose launch is not the gated one     *)
(* gives up.                                                                  *)
ExecuteLaunch(r) ==
    /\ OperationFree /\ runner[r].at = "exec"
    /\ IF runner[r].id = launchRow.id /\ launchRow.phase = "gated" /\ ~ownerRetired
       THEN /\ launchRow' = [launchRow EXCEPT !.phase = "exec-unknown",
                                              !.exec = "pending", !.runner = r]
            /\ runner' = [runner EXCEPT ![r].at = "spawn"]
       ELSE /\ runner' = [runner EXCEPT ![r].at = "done"]
            /\ UNCHANGED launchRow
    /\ UNCHANGED <<starting, native, liveRow, closing, reportVars, excuseVars,
                   launchFaults>>

SpawnShim(r) ==
    /\ runner[r].at = "spawn"
    /\ runner' = [runner EXCEPT ![r].at = "wait"]
    /\ native' = [native EXCEPT ![r] = "shim"]
    /\ UNCHANGED <<launchRow, starting, liveRow, closing, reportVars, excuseVars,
                   launchFaults>>

(* The outcome goes to whatever launch is there.                              *)
SpawnFails(r) ==
    /\ OperationFree /\ runner[r].at = "spawn" /\ LaunchFault
    /\ launchRow' = [launchRow EXCEPT
           !.exec = IF @ = "none" THEN @ ELSE "not-started"]
    /\ runner' = [runner EXCEPT
           ![r].at = IF launchRow.exec = "none" THEN "done" ELSE "aborting"]
    /\ excused' = IF runner[r].id = launchRow.id THEN excused
                  ELSE excused \cup {launchRow.id}
    /\ UNCHANGED <<starting, native, liveRow, closing, reportVars, discarded>>

ExecProvider(r) ==
    /\ OperationFree /\ native[r] = "shim"
    /\ native' = [native EXCEPT ![r] =
           IF /\ runner[r].id = launchRow.id /\ launchRow.phase = "exec-unknown"
              /\ launchRow.exec = "pending" /\ launchRow.runner = r /\ Alive(r)
           THEN "up" ELSE "none"]
    /\ UNCHANGED <<launchRow, starting, runner, liveRow, closing, reportVars,
                   excuseVars, launchFaults>>

(* session_start: the live row, then the phase.                               *)
RecordSession(r) ==
    /\ OperationFree /\ runner[r].id = launchRow.id /\ ~ownerRetired
    /\ launchRow.phase \in {"exec-unknown", "running"} /\ Proved(r)
    /\ liveRow' = [liveRow EXCEPT ![r] = "live"]
    /\ \/ launchRow' = [launchRow EXCEPT !.phase = "running"] /\ NoLaunchFault
       \/ UNCHANGED launchRow /\ LaunchFault
    /\ UNCHANGED <<starting, runner, native, closing, reportVars, excuseVars>>

(* The process the runner waits for ends; a program it forked may live on.    *)
ChildExits(r) ==
    /\ native[r] \in {"shim", "up"}
    /\ native' = [native EXCEPT ![r] = "none"]
    /\ UNCHANGED <<launchRow, starting, runner, liveRow, closing, reportVars,
                   excuseVars, launchFaults>>

ShimExits(r) ==
    /\ native[r] = "up"
    /\ native' = [native EXCEPT ![r] = "left"]
    /\ UNCHANGED <<launchRow, starting, runner, liveRow, closing, reportVars,
                   excuseVars, launchFaults>>

SurvivorExits(r) ==
    /\ native[r] = "left"
    /\ native' = [native EXCEPT ![r] = "none"]
    /\ UNCHANGED <<launchRow, starting, runner, liveRow, closing, reportVars,
                   excuseVars, launchFaults>>

RunnerDies(r) ==
    /\ Alive(r) /\ LaunchFault
    /\ runner' = [runner EXCEPT ![r].at = "done"]
    /\ closing' = IF closing.by = r THEN NotClosing ELSE closing
    /\ UNCHANGED <<launchRow, starting, native, liveRow, reportVars, excuseVars>>

\* mutant: the end of the child is taken for the end of the provider
ChildOutcome(r) == "exited"

(* The runner's wait is over: what it saw is the end of its child only, so a  *)
(* recorded session that lives makes the outcome unknown.                     *)
Outcome(r) ==
    IF \E s \in LiveRows(runner[r].id) : ProviderLives(s) THEN "unknown" ELSE "exited"

RecordExit(r) ==
    /\ OperationFree /\ runner[r].at = "wait" /\ native[r] \in {"left", "none"}
    /\ IF runner[r].id = launchRow.id
       THEN /\ launchRow' = [launchRow EXCEPT
                   !.exec = IF @ = "exited" THEN @ ELSE Outcome(r)]
            /\ runner' = [runner EXCEPT ![r].at = "ending"]
       ELSE /\ runner' = [runner EXCEPT ![r].at = "done"]
            /\ UNCHANGED launchRow
    /\ UNCHANGED <<starting, native, liveRow, closing, reportVars, excuseVars,
                   launchFaults>>

-----------------------------------------------------------------------------
(* launch-resolve, by the operator.                                           *)
Resolvable ==
    \/ launchRow.phase \in {"exec-unknown", "abandoned", "ended"}
    \/ /\ launchRow.phase = "running" /\ launchRow.exec # "none"
       /\ ~\E r \in LiveRows(launchRow.id) : Proved(r)

ResolveAbandoned ==
    /\ OperationFree /\ Resolvable /\ LaunchFault
    /\ launchRow' = [launchRow EXCEPT !.phase = "abandoned", !.resolved = "abandoned"]
    /\ UNCHANGED <<starting, launchProcesses, closing, reportVars, excuseVars>>

ResolveRunning ==
    /\ OperationFree /\ Resolvable /\ launchRow.exec = "pending"
    /\ \E r \in LiveRows(launchRow.id) : Proved(r)
    /\ launchRow' = [launchRow EXCEPT !.phase = "running", !.resolved = "running"]
    /\ UNCHANGED <<starting, launchProcesses, closing, reportVars, excuseVars,
                   launchFaults>>

(* The live rows are marked after the launch, one by one.  The operator errs  *)
(* if a process of the launch has yet to become a recorded session.           *)
Mistaken ==
    \E r \in Runners :
        /\ runner[r].id = launchRow.id
        /\ runner[r].at = "spawn" \/ native[r] # "none"

ResolveEnded ==
    /\ OperationFree /\ Resolvable
    /\ ~\E r \in LiveRows(launchRow.id) : ProviderLives(r)
    /\ launchRow' = [launchRow EXCEPT !.phase = "ended", !.resolved = "ended"]
    /\ excused' = IF Mistaken THEN excused \cup {launchRow.id} ELSE excused
    /\ \/ /\ liveRow' = [r \in Runners |-> IF r \in LiveRows(launchRow.id)
                                           THEN "ended" ELSE liveRow[r]]
          /\ IF Mistaken THEN LaunchFault ELSE NoLaunchFault
       \/ UNCHANGED liveRow /\ LaunchFault
    /\ UNCHANGED <<starting, runner, native, closing, reportVars, discarded>>

-----------------------------------------------------------------------------
(* end_launch, by the runner or the operator's replay-end, naming a session   *)
(* of the launch if there is one.  Any other session keeps the launch open    *)
(* while its process, or its runner's pane, is there.  The hook that sees the *)
(* provider end comes while the outcome is pending, and changes nothing.      *)
Named == IF LiveRows(launchRow.id) = {} THEN {NoRunner} ELSE LiveRows(launchRow.id)

Present(r) ==
    \/ ProviderLives(r)
    \/ r \in Detached /\ Alive(r)

MayEnd(named) ==
    /\ launchRow.id # 0 /\ launchRow.term # "ended" /\ launchRow.exec # "none"
    /\ launchRow.exec \in {"exited", "not-started"} \/ launchRow.resolved = "ended"
    /\ \A r \in Runners \ {named} : liveRow[r] = "live" => ~Present(r)

(* Who closes stops: the runner ends, the operator may come back.             *)
Stop ==
    /\ closing' = NotClosing
    /\ runner' = IF closing.by = NoRunner THEN runner
                 ELSE [runner EXCEPT ![closing.by].at = "done"]
Go(step) == closing' = [closing EXCEPT !.at = step] /\ UNCHANGED runner

Begins(by, named) ==
    /\ OperationFree /\ MayEnd(named)
    /\ launchRow' \in
          IF launchRow.term # "none" THEN {launchRow}
          ELSE {[launchRow EXCEPT !.term = "required"],
                [launchRow EXCEPT !.term = "unneeded", !.report = "unneeded"]}
    /\ closing' = [at |-> IF launchRow'.term \in {"required", "pending"} THEN "report"
                          ELSE "settle", by |-> by, resumed |-> FALSE]
    /\ UNCHANGED <<starting, launchProcesses, reportVars, excuseVars, launchFaults>>

RunnerEnds(r) ==
    /\ OperationFree /\ runner[r].at \in {"ending", "aborting"}
    /\ LET named == IF runner[r].at = "ending" THEN Named ELSE {NoRunner} IN
       \/ \E n \in named : Begins(r, n)
       \/ /\ \E n \in named : ~MayEnd(n)
          /\ runner' = [runner EXCEPT ![r].at = "done"]
          /\ UNCHANGED <<launchRow, starting, native, liveRow, closing, reportVars,
                         excuseVars, launchFaults>>

ReplayEnd ==
    /\ ~(ownerRetired /\ slot # "none" /\ launchRow.term \in {"required", "pending"})
    /\ \A r \in Runners : liveRow[r] = "live" =>
          /\ runner[r].id = launchRow.id
          /\ launchRow.exec = "pending" /\ launchRow.term # "cleanup" =>
                ~ProviderLives(r)
    /\ \E named \in Named : Begins(NoRunner, named)

CloserDies ==
    /\ closing.at # "no" /\ closing.by = NoRunner /\ LaunchFault
    /\ closing' = NotClosing
    /\ UNCHANGED <<launchRow, starting, launchProcesses, reportVars, excuseVars>>

(* The report.  It has a request id of the launch's own.                      *)
StartReport ==
    /\ closing.at = "report"
    /\ IF ownerRetired
       THEN Stop /\ UNCHANGED launchRow
       ELSE launchRow' = [launchRow EXCEPT !.term = "pending"] /\ Go("save")
    /\ UNCHANGED <<starting, native, liveRow, reportVars, excuseVars, launchFaults>>

SaveReport ==
    /\ closing.at = "save"
    /\ \/ /\ slot \in {"none", "report", "reported"}
          /\ slot' = IF slot = "none" THEN "report" ELSE slot
          /\ closing' = [closing EXCEPT !.at = "send", !.resumed = slot # "none"]
          /\ UNCHANGED runner
       \/ slot \notin {"none", "report", "reported"} /\ Stop /\ UNCHANGED slot
    /\ UNCHANGED <<launchRow, starting, native, liveRow, ownerRetired, letters,
                   excuseVars, launchFaults>>

\* mutant: a refusal is taken for the outcome of an earlier attempt too
DefinitiveAlways == TRUE

(* definitive_rejection, of a refusal before the look at the receipts.        *)
Definitive == ~closing.resumed

(* The server looks at the owner, then for a receipt of the request, then at  *)
(* the message.  Its answer, or the request, may be lost.                     *)
SendReport ==
    /\ closing.at = "send"
    /\ \/ ~ownerRetired /\ letters' = letters \cup {launchRow.id}
          /\ Go("answered") /\ NoLaunchFault
       \/ /\ ~ownerRetired /\ launchRow.id \notin letters
          /\ Go("refused") /\ LaunchFault /\ UNCHANGED letters
       \/ /\ ownerRetired /\ UNCHANGED letters /\ NoLaunchFault
          /\ IF Definitive THEN Go("refused") ELSE Stop
       \/ /\ letters' \in {letters, IF ownerRetired THEN letters
                                    ELSE letters \cup {launchRow.id}}
          /\ Stop /\ LaunchFault
    /\ UNCHANGED <<launchRow, starting, native, liveRow, slot, ownerRetired,
                   excuseVars>>

CommitReport ==
    /\ closing.at = "answered"
    /\ slot' = "reported" /\ Go("commit")
    /\ UNCHANGED <<launchRow, starting, native, liveRow, ownerRetired, letters,
                   excuseVars, launchFaults>>

ConfirmReport ==
    /\ closing.at = "commit"
    /\ launchRow' = [launchRow EXCEPT !.term = "confirmed", !.report = "confirmed"]
    /\ Go("clear")
    /\ UNCHANGED <<starting, native, liveRow, reportVars, excuseVars, launchFaults>>

RejectReport ==
    /\ closing.at = "refused"
    /\ launchRow' = [launchRow EXCEPT !.term = "rejected", !.report = "rejected"]
    /\ Go("clear")
    /\ UNCHANGED <<starting, native, liveRow, reportVars, excuseVars, launchFaults>>

ClearSlot ==
    /\ closing.at = "clear"
    /\ slot' = "none" /\ Go("settle")
    /\ UNCHANGED <<launchRow, starting, native, liveRow, ownerRetired, letters,
                   excuseVars, launchFaults>>

(* What an interrupted end left in the slot goes if it is known to be done.   *)
(* Then the identity is retired, which only a parent or an operator finds     *)
(* done already.                                                              *)
SlotDone ==
    \/ slot \in {"none", "reported"}
    \/ slot = "retire" /\ ownerRetired

SettleSlot ==
    /\ closing.at = "settle"
    /\ IF SlotDone THEN slot' = "none" /\ Go("cleanup")
                   ELSE UNCHANGED slot /\ Stop
    /\ UNCHANGED <<launchRow, starting, native, liveRow, ownerRetired, letters,
                   excuseVars, launchFaults>>

StartCleanup ==
    /\ closing.at = "cleanup"
    /\ IF ownerRetired /\ closing.by # NoRunner
       THEN Stop /\ UNCHANGED launchRow
       ELSE launchRow' = [launchRow EXCEPT !.term = "cleanup"] /\ Go("retire")
    /\ UNCHANGED <<starting, native, liveRow, reportVars, excuseVars, launchFaults>>

SaveRetirement ==
    /\ closing.at = "retire"
    /\ \/ ownerRetired /\ UNCHANGED slot /\ Go("rows")
       \/ /\ ~ownerRetired
          /\ IF slot = "none" THEN slot' = "retire" /\ Go("retiring")
                              ELSE UNCHANGED slot /\ Stop
    /\ UNCHANGED <<launchRow, starting, native, liveRow, ownerRetired, letters,
                   excuseVars, launchFaults>>

RetireByEnd ==
    /\ closing.at = "retiring"
    /\ \/ ownerRetired' = TRUE /\ Go("retired") /\ NoLaunchFault
       \/ ownerRetired' \in {ownerRetired, TRUE} /\ Stop /\ LaunchFault
    /\ UNCHANGED <<launchRow, starting, native, liveRow, slot, letters, excuseVars>>

ClearRetirement ==
    /\ closing.at = "retired"
    /\ slot' = "none" /\ Go("rows")
    /\ UNCHANGED <<launchRow, starting, native, liveRow, ownerRetired, letters,
                   excuseVars, launchFaults>>

EndSessionRows ==
    /\ closing.at = "rows"
    /\ liveRow' = [r \in Runners |-> IF r \in LiveRows(launchRow.id) THEN "ended"
                                     ELSE liveRow[r]]
    /\ Go("finish")
    /\ UNCHANGED <<launchRow, starting, native, reportVars, excuseVars, launchFaults>>

EndLaunchRow ==
    /\ closing.at = "finish"
    /\ launchRow' = [launchRow EXCEPT !.phase = "ended", !.term = "ended"]
    /\ Stop
    /\ UNCHANGED <<starting, native, liveRow, reportVars, excuseVars, launchFaults>>

-----------------------------------------------------------------------------
(* The provider is cut off in a mutation of its own.                          *)
MutationLeft ==
    /\ slot = "none" /\ LaunchFault
    /\ \E r \in Runners : native[r] = "up"
    /\ slot' = "other"
    /\ UNCHANGED <<launchRow, starting, launchProcesses, closing, ownerRetired,
                   letters, excuseVars>>

(* resolve_mutation: the operator throws the slot away; for a retired         *)
(* identity only its report, which the launch then does not require.          *)
DiscardMutation ==
    /\ OperationFree /\ slot # "none"
    /\ \/ ~ownerRetired /\ slot' = "none" /\ UNCHANGED launchRow
       \/ /\ ownerRetired /\ slot \in {"report", "reported"} /\ slot' = "none"
          /\ launchRow.term \in {"required", "pending"}
          /\ launchRow' = [launchRow EXCEPT !.term = "unneeded",
                              !.report = "unneeded", !.resolved = "mutation"]
    /\ discarded' = IF slot \notin {"report", "reported"} THEN discarded
                    ELSE discarded \cup {launchRow.id}
    /\ UNCHANGED <<starting, launchProcesses, closing, ownerRetired, letters, excused,
                   launchFaults>>

(* At the server: an operator retires the identity, as long as its launch is  *)
(* open (a bound), or takes it back, as a resume of the child does after.     *)
RetireOwner ==
    /\ ~ownerRetired /\ launchRow.phase # "ended" /\ ownerRetired' = TRUE
    /\ UNCHANGED <<launchRow, starting, launchProcesses, closing, slot, letters,
                   excuseVars, launchFaults>>

UnretireOwner ==
    /\ ownerRetired /\ ownerRetired' = FALSE
    /\ IF launchRow.phase = "ended" THEN NoLaunchFault ELSE LaunchFault
    /\ UNCHANGED <<launchRow, starting, launchProcesses, closing, slot, letters,
                   excuseVars>>

-----------------------------------------------------------------------------
CloserStep ==
    \/ StartReport \/ SaveReport \/ SendReport \/ CommitReport \/ ConfirmReport
    \/ RejectReport \/ ClearSlot \/ SettleSlot \/ StartCleanup \/ SaveRetirement
    \/ RetireByEnd \/ ClearRetirement \/ EndSessionRows \/ EndLaunchRow

LaunchNext ==
    \/ PrepareLaunch \/ StartDies \/ GateLaunch \/ RetryLaunch \/ CancelLaunch
    \/ \E r \in Runners :
          \/ ExecuteLaunch(r) \/ SpawnShim(r) \/ SpawnFails(r) \/ ExecProvider(r)
          \/ RecordSession(r) \/ ChildExits(r) \/ ShimExits(r) \/ SurvivorExits(r)
          \/ RunnerDies(r) \/ RecordExit(r) \/ RunnerEnds(r)
    \/ ResolveAbandoned \/ ResolveRunning \/ ResolveEnded
    \/ ReplayEnd \/ CloserDies \/ CloserStep
    \/ MutationLeft \/ DiscardMutation \/ RetireOwner \/ UnretireOwner

LaunchSpec == LaunchInit /\ [][LaunchNext]_launchVars

-----------------------------------------------------------------------------
LaunchTypeOK ==
    /\ launchRow.id \in 0..MaxLaunchRows
    /\ starting \in {"no", "attached", "detached"}
    /\ \A r \in Runners : runner[r].id \in 0..launchRow.id
    /\ closing.by \in Runners \cup {NoRunner}
    /\ slot \in {"none", "report", "reported", "retire", "other"}
    /\ launchFaults \in 0..MaxLaunchFaults

(* A provider whose session was recorded and that still runs belongs to the   *)
(* launch of the file, and nobody has begun to close that launch: no report   *)
(* of its end, no retirement and no next launch, whatever became of the       *)
(* runner, the shim and the hooks.  Exempt is a launch gated again after it   *)
(* was executed, one an operator ended under a process, and the one such a    *)
(* process then writes to.                                                    *)
LiveSessionIsOurs ==
    \A r \in Runners :
        liveRow[r] # "none" /\ ProviderLives(r) /\ runner[r].id \notin excused =>
            /\ runner[r].id = launchRow.id
            /\ launchRow.term = "none"
            /\ launchRow.phase \notin {"ended", "cancelled"}

(* The verdict on the report is true: confirmed only with the report in the   *)
(* parent's inbox, rejected only without, unless an operator threw away the   *)
(* record of an earlier attempt; and no launch is closed before it.           *)
ReportTruthful ==
    /\ launchRow.report = "confirmed" => launchRow.id \in letters
    /\ launchRow.report = "rejected" /\ launchRow.id \notin discarded =>
           launchRow.id \notin letters
    /\ launchRow.term \in {"cleanup", "ended"} => launchRow.report # "open"
=============================================================================
