---------------------------- MODULE ToolsChange ----------------------------
(* Changing the tools of a stopped Codex child and resuming it:               *)
(* begin_tools_change and finish_tools_change (child_resume.py), the request  *)
(* around them (_jump_with_tools, server.py) and the resume it starts.        *)
(*                                                                            *)
(* A selection is three files: the tools record, the profile in the child's   *)
(* state and the generated settings.  A journal in a fourth file owns the     *)
(* change.  One request at a time holds the tools lock; the steps of begin,   *)
(* and those of finish, hold the child's lock.  A crash ends the process that *)
(* holds the locks between any two file operations.                           *)
EXTENDS Integers

CONSTANTS
    Generated,      \* the generated settings: the home and the MCP config
    MaxChanges,     \* bound: tools changes begun
    McpProfile,     \* codex_mcp_profile of each selection; selections may share one
    MaxToolFaults   \* bound: crashes, failed steps, unconfirmed launches

ASSUME ToolsChangeAssumption ==
    /\ Generated # {} /\ MaxChanges \in Nat /\ MaxToolFaults \in Nat
    /\ McpProfile \in [0..MaxChanges -> {"inherit", "orrery-only"}]

VARIABLES
    record,     \* selection in the tools record; change g selects g, 0 is the first
    child,      \* the child's state: the selection its profile is of, change marker,
                \* resume in progress
    change,    \* the change's journal
    made,       \* selection each generated file was built from
    aside,      \* generated files set aside by the change
    request,    \* the process that works on the change
    shell,      \* the tmux session of the child
    changes,    \* changes begun
    toolFaults  \* faults so far

toolsVars == <<record, child, change, made, aside, request, shell, changes, toolFaults>>
childFiles == <<record, child, change, made, aside>>

Selections == 0..MaxChanges
Absent == -1
NoJournal == [gen |-> 0, phase |-> "none", old |-> 0, oldProfile |-> 0,
              had |-> [p \in Generated |-> Absent]]
NoRequest == [at |-> "idle", gen |-> 0, verdict |-> "rollback"]
NoShell == [at |-> "none", gen |-> 0, profile |-> 0]

(* The child's lock is held by begin and by finish.                           *)
InBegin == request.at \in {"mark", "aside", "choose", "ready"}
InFinish == request.at \in {"restore", "drop", "unmark", "unlink"}
Unlocked == ~InBegin /\ ~InFinish

ToolFault == toolFaults < MaxToolFaults /\ toolFaults' = toolFaults + 1
At(step) == request' = [request EXCEPT !.at = step]

-----------------------------------------------------------------------------
(* begin_tools_change: the journal is written first, for a child that is      *)
(* stopped and has no change pending.                                         *)
Begin ==
    /\ request = NoRequest /\ shell = NoShell /\ changes < MaxChanges
    /\ change = NoJournal /\ child.marker = 0 /\ ~child.going
    /\ changes' = changes + 1
    /\ change' = [gen |-> changes', phase |-> "prepared", old |-> record,
                   oldProfile |-> child.profile, had |-> made]
    /\ request' = [NoRequest EXCEPT !.at = "mark", !.gen = changes']
    /\ UNCHANGED <<record, child, made, aside, shell, toolFaults>>

Mark ==
    /\ request.at = "mark"
    /\ child' = [child EXCEPT !.marker = request.gen, !.profile = request.gen]
    /\ At("aside")
    /\ UNCHANGED <<record, change, made, aside, shell, changes, toolFaults>>

(* Every generated file that exists is renamed aside, one after the other.    *)
ToMove == {p \in Generated : made[p] # Absent}

SetAside(p) ==
    /\ request.at = "aside" /\ p \in ToMove
    /\ made' = [made EXCEPT ![p] = Absent]
    /\ aside' = [aside EXCEPT ![p] = made[p]]
    /\ UNCHANGED <<record, child, change, request, shell, changes, toolFaults>>

Choose ==
    /\ request.at = "aside" /\ ToMove = {}
    /\ record' = request.gen /\ At("ready")
    /\ UNCHANGED <<child, change, made, aside, shell, changes, toolFaults>>

Ready ==
    /\ request.at = "ready"
    /\ change' = [change EXCEPT !.phase = "ready"] /\ At("jump")
    /\ UNCHANGED <<record, child, made, aside, shell, changes, toolFaults>>

(* An exception while staging or before the launch: the request rolls back.   *)
StagingFails ==
    /\ InBegin \/ request.at \in {"jump", "launch"}
    /\ ToolFault /\ At("finish")
    /\ UNCHANGED <<childFiles, shell, changes>>

-----------------------------------------------------------------------------
(* _do_jump under the change's generation: the home is generated from the     *)
(* current selection, then tmux is asked to start the resume.                 *)
BuildHome ==
    /\ request.at = "jump"
    /\ made' = [p \in Generated |-> record] /\ At("launch")
    /\ UNCHANGED <<record, child, change, aside, shell, changes, toolFaults>>

LaunchAccepted ==
    /\ request.at = "launch"
    /\ shell' = [at |-> "starting", gen |-> request.gen, profile |-> child.profile]
    /\ request' = [request EXCEPT !.at = "finish", !.verdict = "commit"]
    /\ UNCHANGED <<childFiles, changes, toolFaults>>

(* tmux refuses, or does not answer in time with the session started.         *)
LaunchFails ==
    /\ request.at = "launch" /\ ToolFault /\ At("finish")
    /\ shell' \in {shell, [at |-> "starting", gen |-> request.gen,
                           profile |-> child.profile]}
    /\ UNCHANGED <<childFiles, changes>>

(* A resume that changes no tools.                                            *)
PlainResume ==
    /\ request = NoRequest /\ shell = NoShell /\ ~child.going
    /\ change = NoJournal /\ child.marker = 0
    /\ made' = [p \in Generated |-> record]
    /\ shell' = [at |-> "starting", gen |-> 0, profile |-> child.profile]
    /\ UNCHANGED <<record, child, change, aside, request, changes, toolFaults>>

(* begin_resume in the session, after the launch: a pending change of another *)
(* generation or another profile refuses it.  Selections of one profile pass  *)
(* for each other.                                                            *)
Pending == IF change # NoJournal THEN change.gen ELSE child.marker

MayResume ==
    /\ Pending \in {0, shell.gen}
    /\ ~child.going /\ McpProfile[child.profile] = McpProfile[shell.profile]

BeginResume ==
    /\ shell.at = "starting" /\ Unlocked /\ MayResume
    /\ child' = [child EXCEPT !.going = TRUE]
    /\ shell' = [shell EXCEPT !.at = "running"]
    /\ UNCHANGED <<record, change, made, aside, request, changes, toolFaults>>

(* The bootstrap fails; discard_generated removes what was generated.         *)
BootstrapFails ==
    /\ shell.at = "starting" /\ Unlocked
    /\ (MayResume => ToolFault) /\ (~MayResume => UNCHANGED toolFaults)
    /\ made' = [p \in Generated |-> Absent] /\ shell' = NoShell
    /\ UNCHANGED <<record, child, change, aside, request, changes>>

(* The child ends: its cleanup removes the generated files and retires it.    *)
ChildEnds ==
    /\ shell.at = "running" /\ Unlocked
    /\ child' = [child EXCEPT !.going = FALSE]
    /\ made' = [p \in Generated |-> Absent] /\ shell' = NoShell
    /\ UNCHANGED <<record, change, aside, request, changes, toolFaults>>

-----------------------------------------------------------------------------
(* finish_tools_change, first under the lock: the journal must be this        *)
(* change's, the record the candidate or not yet replaced; a decision already *)
(* in the journal stands; a rollback is refused while a resume is running.    *)
Decision == IF change.phase \in {"rollback", "commit"} THEN change.phase
            ELSE request.verdict

\* mutant: a record not yet replaced is taken for another change's
OursReplaced ==
    /\ change.gen = request.gen /\ child.marker \in {0, request.gen}
    /\ record = request.gen

Ours ==
    /\ change.gen = request.gen /\ child.marker \in {0, request.gen}
    /\ \/ record = request.gen
       \/ change.phase \in {"prepared", "rollback"} /\ record = change.old

(* Every original is where the change left it, under its own name or aside.   *)
OriginalsThere ==
    \A p \in Generated : change.had[p] # Absent =>
        (IF aside[p] # Absent THEN aside[p] ELSE made[p]) = change.had[p]

\* mutant: a rollback does not look for a running resume
MayDecideRunning ==
    /\ Ours
    /\ Decision = "commit" => change.phase \in {"ready", "commit"}

MayDecide ==
    /\ Ours
    /\ Decision = "commit" => change.phase \in {"ready", "commit"}
    /\ Decision = "rollback" => ~child.going

Decide ==
    /\ request.at = "finish"
    /\ IF MayDecide
       THEN /\ change' = [change EXCEPT !.phase = Decision]
            /\ request' = IF Decision = "commit"
                          THEN [request EXCEPT !.at = "drop", !.verdict = "commit"]
                          ELSE IF OriginalsThere
                               THEN [request EXCEPT !.at = "restore"] ELSE NoRequest
       ELSE request' = NoRequest /\ UNCHANGED change
    /\ UNCHANGED <<record, child, made, aside, shell, changes, toolFaults>>

RestoreRecord ==
    /\ request.at = "restore"
    /\ record' = change.old /\ At("drop")
    /\ UNCHANGED <<child, change, made, aside, shell, changes, toolFaults>>

(* Roll back: an original set aside replaces what was generated, and a file   *)
(* that did not exist is removed.  Commit: the originals are removed.         *)
Undo == request.verdict = "rollback"

Left == {p \in Generated : \/ aside[p] # Absent
                           \/ Undo /\ change.had[p] = Absent /\ made[p] # Absent}

Drop(p) ==
    /\ request.at = "drop" /\ p \in Left
    /\ made' = IF Undo THEN [made EXCEPT ![p] = aside[p]] ELSE made
    /\ aside' = [aside EXCEPT ![p] = Absent]
    /\ UNCHANGED <<record, child, change, request, shell, changes, toolFaults>>

\* mutant: a rollback leaves the new profile in the state
UnmarkKeepsProfile ==
    /\ request.at = "drop" /\ Left = {}
    /\ child' = [child EXCEPT !.marker = 0] /\ At("unlink")
    /\ UNCHANGED <<record, change, made, aside, shell, changes, toolFaults>>

Unmark ==
    /\ request.at = "drop" /\ Left = {}
    /\ child' = [child EXCEPT !.marker = 0,
                    !.profile = IF Undo THEN change.oldProfile ELSE @]
    /\ At("unlink")
    /\ UNCHANGED <<record, change, made, aside, shell, changes, toolFaults>>

Unlink ==
    /\ request.at = "unlink"
    /\ change' = NoJournal /\ request' = NoRequest
    /\ UNCHANGED <<record, child, made, aside, shell, changes, toolFaults>>

-----------------------------------------------------------------------------
(* The process of the request or of the recovery ends; its locks are free.    *)
RequestCrashes ==
    /\ request # NoRequest /\ ToolFault
    /\ request' = NoRequest
    /\ UNCHANGED <<childFiles, shell, changes>>

(* The tmux session is killed with no cleanup.                                *)
ShellKilled ==
    /\ shell # NoShell /\ ToolFault /\ shell' = NoShell
    /\ UNCHANGED <<childFiles, request, changes>>

(* rollback-tools-change, run by the operator once no session is left.        *)
OperatorRecovers ==
    /\ request = NoRequest /\ change # NoJournal /\ shell = NoShell
    /\ request' = [NoRequest EXCEPT !.at = "finish", !.gen = change.gen]
    /\ UNCHANGED <<childFiles, shell, changes, toolFaults>>

(* recover_after_reboot clears a resume that was cut off.                     *)
ClearCutOff ==
    /\ shell = NoShell /\ child.going /\ Unlocked
    /\ child' = [child EXCEPT !.going = FALSE]
    /\ UNCHANGED <<record, change, made, aside, request, shell, changes, toolFaults>>

-----------------------------------------------------------------------------
ToolsInit ==
    /\ record = 0 /\ child = [profile |-> 0, marker |-> 0, going |-> FALSE]
    /\ change = NoJournal /\ made \in [Generated -> {Absent, 0}]
    /\ aside = [p \in Generated |-> Absent]
    /\ request = NoRequest /\ shell = NoShell /\ changes = 0 /\ toolFaults = 0

RequestStep ==
    \/ Mark \/ (\E p \in Generated : SetAside(p)) \/ Choose \/ Ready
    \/ BuildHome \/ LaunchAccepted
    \/ Decide \/ RestoreRecord \/ (\E p \in Generated : Drop(p)) \/ Unmark \/ Unlink

ShellStep == BeginResume \/ BootstrapFails \/ ChildEnds

ToolsNext ==
    \/ Begin \/ RequestStep \/ ShellStep \/ PlainResume
    \/ StagingFails \/ LaunchFails \/ RequestCrashes \/ ShellKilled
    \/ OperatorRecovers \/ ClearCutOff

ToolsSpec == ToolsInit /\ [][ToolsNext]_toolsVars

(* A process that is running goes on, sessions end, the reboot's recovery and *)
(* the operator come in the end.                                              *)
ToolsFairSpec ==
    /\ ToolsSpec
    /\ WF_toolsVars(RequestStep) /\ WF_toolsVars(ShellStep)
    /\ WF_toolsVars(OperatorRecovers) /\ WF_toolsVars(ClearCutOff)

-----------------------------------------------------------------------------
Contents == {Absent} \cup Selections

ToolsTypeOK ==
    /\ record \in Selections
    /\ child \in [profile : Selections, marker : Selections, going : BOOLEAN]
    /\ change \in [gen : Selections, old : Selections, oldProfile : Selections,
                    phase : {"none", "prepared", "ready", "rollback", "commit"},
                    had : [Generated -> Contents]]
    /\ made \in [Generated -> Contents] /\ aside \in [Generated -> Contents]
    /\ request \in [at : {"idle", "mark", "aside", "ready", "jump", "launch",
                          "finish", "restore", "drop", "unmark", "unlink"},
                    gen : Selections, verdict : {"rollback", "commit"}]
    /\ shell \in [at : {"none", "starting", "running"}, gen : Selections,
                  profile : Selections]
    /\ changes \in Selections /\ toolFaults \in 0..MaxToolFaults

(* With no change pending the three files are one selection, all old or all   *)
(* new, and nothing is left set aside: whatever step a crash, a failure or a  *)
(* recovery came between ("idempotent recovery of that decision").            *)
SelectionWhole ==
    change = NoJournal =>
        /\ child.marker = 0 /\ child.profile = record
        /\ \A p \in Generated : aside[p] = Absent /\ made[p] \in {Absent, record}

(* The selection of a running child stays as it is: no rollback, late answer  *)
(* or recovery touches its record, profile or generated settings ("Do not     *)
(* undo a selection used by a running child", server.py _jump_with_tools).    *)
RunningKeepsSelection ==
    [][shell.at = "running" /\ shell'.at = "running" =>
        /\ UNCHANGED <<record, made>>
        /\ child'.profile = child.profile]_toolsVars

(* A change that a crash left pending is resolved in the end, unless a        *)
(* generated file it must restore was removed meanwhile: the refused session  *)
(* of an unconfirmed launch discards what it finds, restored originals too.   *)
EveryChangeResolves ==
    change # NoJournal ~> change = NoJournal \/ ~OriginalsThere
=============================================================================
