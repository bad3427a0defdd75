---------------------------- MODULE AgentsProof -----------------------------
(* Proofs about the agents and the events of their sessions, for every value  *)
(* of the constants: the change of a child's tools (ToolsChange), the kept     *)
(* registration of a child (ChildResume), and the path of a hook's event to    *)
(* the bridge's worker (BridgeEvents).                                         *)
EXTENDS ToolsChange, ChildResume, BridgeEvents, TLAPS, WellFoundedInduction

-----------------------------------------------------------------------------
(* ToolsChange.                                                               *)
(* ToolsTypeOK, part by part.                                                 *)
RecordOK == record \in Selections /\ changes \in Selections
ChildOK == child \in [profile : Selections, marker : Selections, going : BOOLEAN]
ChangeOK == change \in [gen : Selections, old : Selections, oldProfile : Selections,
                        phase : {"none", "prepared", "ready", "rollback", "commit"},
                        had : [Generated -> Contents]]
FilesOK == made \in [Generated -> Contents] /\ aside \in [Generated -> Contents]
RequestOK == request \in [at : {"idle", "mark", "aside", "ready", "jump", "launch",
                                "finish", "restore", "drop", "unmark", "unlink"},
                          gen : Selections, verdict : {"rollback", "commit"}]
ShellOK == shell \in [at : {"none", "starting", "running"}, gen : Selections,
                      profile : Selections]
ToolFaultsOK == toolFaults \in 0..MaxToolFaults

(* A request works on the change of the journal.                              *)
RequestOwns ==
    /\ request.at = "idle" => request = NoRequest
    /\ request.at # "idle" => change.gen # 0 /\ request.gen = change.gen

(* What the journal remembers is the selection before its change, and what it *)
(* finds is of that selection or of its own.                                  *)
JournalKnows ==
    /\ change.gen = 0 => change = NoJournal
    /\ change.gen # 0 =>
          /\ change.phase # "none" /\ change.oldProfile = change.old
          /\ \A p \in Generated : change.had[p] \in {Absent, change.old}
          /\ \A p \in Generated : aside[p] \in {Absent, change.had[p]}

(* The steps of begin, in front of which nothing of the child runs.           *)
InStaging == request.at \in {"mark", "aside", "ready", "jump", "launch"}
Staging ==
    /\ InStaging => shell = NoShell
    /\ request.at \in {"mark", "aside", "ready"} => change.phase = "prepared"
    /\ request.at \in {"mark", "aside"} =>
          \A p \in Generated : \/ made[p] = change.had[p] /\ aside[p] = Absent
                               \/ made[p] = Absent /\ aside[p] = change.had[p]
    /\ request.at \in {"aside", "ready"} => child.profile = change.gen
    /\ request.at = "ready" => record = change.gen /\ \A p \in Generated : made[p] = Absent
    /\ request.at \in {"jump", "launch"} => change.phase = "ready"

(* A change that is ready or decided for is whole.                            *)
ReadyWhole ==
    change.phase \in {"ready", "commit"} =>
        /\ record = change.gen /\ child.profile = change.gen
        /\ \A p \in Generated : made[p] \in {Absent, change.gen}

(* The steps of finish, in either direction.                                  *)
Finishing ==
    /\ request.verdict = "commit" => /\ request.at \in {"finish", "drop", "unlink"}
                                     /\ change.phase \in {"ready", "commit"}
    /\ request.at \in {"restore", "drop", "unlink"} =>
          IF Undo
          THEN /\ change.phase = "rollback" /\ shell.at # "running"
               /\ OriginalsThere
               /\ request.at # "restore" => record = change.old
          ELSE change.phase = "commit"

(* The last step of finish comes after all the others.                        *)
Finished ==
    request.at = "unlink" =>
        /\ child.marker = 0 /\ \A p \in Generated : aside[p] = Absent
        /\ Undo => /\ child.profile = change.old
                   /\ \A p \in Generated : made[p] \in {Absent, change.old}

(* What runs was started by a bootstrap that counts.                          *)
RunningIsGoing == shell.at = "running" => child.going

ToolsInv ==
    /\ RecordOK /\ ChildOK /\ ChangeOK /\ FilesOK /\ RequestOK /\ ShellOK /\ ToolFaultsOK
    /\ RequestOwns /\ JournalKnows /\ Staging /\ ReadyWhole /\ Finishing /\ Finished
    /\ RunningIsGoing /\ SelectionWhole

-----------------------------------------------------------------------------
decideRest == <<record, child, made, aside, shell, changes, toolFaults>>

(* The ends of Decide: refused, for the commit, for the rollback, and for a   *)
(* rollback that does not find the originals.                                 *)
DecidesNothing == request.at = "finish" /\ request' = NoRequest /\ UNCHANGED change
                  /\ UNCHANGED decideRest

DecidesCommit ==
    /\ request.at = "finish" /\ change.phase \in {"ready", "commit"}
    /\ change' = [change EXCEPT !.phase = "commit"]
    /\ request' = [at |-> "drop", gen |-> request.gen, verdict |-> "commit"]
    /\ UNCHANGED decideRest

DecidesRollback ==
    /\ request.at = "finish" /\ request.verdict = "rollback" /\ ~child.going
    /\ OriginalsThere
    /\ change' = [change EXCEPT !.phase = "rollback"]
    /\ request' = [request EXCEPT !.at = "restore"]
    /\ UNCHANGED decideRest

DecidesStuck ==
    /\ request.at = "finish" /\ ~child.going
    /\ change' = [change EXCEPT !.phase = "rollback"]
    /\ request' = NoRequest
    /\ UNCHANGED decideRest

\* Decide has one of four ends.
LEMMA DecideCases ==
    ASSUME ToolsInv, Decide
    PROVE  DecidesNothing \/ DecidesCommit \/ DecidesRollback \/ DecidesStuck
<1>1. CASE ~MayDecide
  BY <1>1 DEF Decide, DecidesNothing, decideRest
<1>2. CASE MayDecide /\ Decision = "commit"
  <2>1. /\ change.phase \in {"ready", "commit"} /\ request.at = "finish"
        /\ change' = [change EXCEPT !.phase = "commit"]
        /\ request' = [request EXCEPT !.at = "drop", !.verdict = "commit"]
        /\ UNCHANGED decideRest
    BY <1>2 DEF Decide, MayDecide, decideRest
  <2>2. request' = [at |-> "drop", gen |-> request.gen, verdict |-> "commit"]
    BY <2>1 DEF ToolsInv, RequestOK
  <2>3. QED  BY <2>1, <2>2 DEF DecidesCommit
<1>3. CASE MayDecide /\ Decision # "commit"
  <2>1. Decision = "rollback" /\ request.verdict = "rollback"
    BY <1>3 DEF Decision, ToolsInv, Finishing, RequestOK
  <2>2. CASE OriginalsThere
    BY <1>3, <2>1, <2>2 DEF Decide, MayDecide, DecidesRollback, decideRest
  <2>3. CASE ~OriginalsThere
    BY <1>3, <2>1, <2>3 DEF Decide, MayDecide, DecidesStuck, decideRest
  <2>4. QED  BY <2>2, <2>3
<1>4. QED  BY <1>1, <1>2, <1>3

\* A change starts at the mark of its journal.
LEMMA BeginRequestOK ==
    ASSUME ToolsInv, Begin
    PROVE  RequestOK'
<1>1. /\ request' = [NoRequest EXCEPT !.at = "mark", !.gen = changes']
      /\ changes' = changes + 1 /\ changes < MaxChanges
  BY DEF Begin
<1>2. request' = [at |-> "mark", gen |-> changes', verdict |-> "rollback"]
  BY <1>1 DEF NoRequest
<1>3. changes' \in Selections
  BY <1>1, ToolsChangeAssumption DEF ToolsInv, RecordOK, Selections
<1>4. QED  BY <1>2, <1>3 DEF RequestOK

\* The profile goes back to the journal's, or stays.
LEMMA UnmarkChildOK ==
    ASSUME ToolsInv, Unmark
    PROVE  ChildOK'
<1> DEFINE new == IF Undo THEN change.oldProfile ELSE child.profile
<1>1. child' = [child EXCEPT !.marker = 0, !.profile = new]
  BY DEF Unmark
<1>2. child' = [profile |-> new, marker |-> 0, going |-> child.going]
  BY <1>1 DEF ToolsInv, ChildOK
<1>3. new \in Selections /\ child.going \in BOOLEAN /\ 0 \in Selections
  BY ToolsChangeAssumption DEF ToolsInv, ChildOK, ChangeOK, Selections
<1>4. QED  BY <1>2, <1>3, Zenon DEF ChildOK

\* The journal of a change has what there was before it.
LEMMA BeginJournalKnows ==
    ASSUME ToolsInv, Begin
    PROVE  JournalKnows'
<1>1. /\ change' = [gen |-> changes', phase |-> "prepared", old |-> record,
                    oldProfile |-> child.profile, had |-> made]
      /\ changes' = changes + 1 /\ UNCHANGED <<made, aside>>
      /\ change = NoJournal /\ request = NoRequest
  BY DEF Begin
<1>2. /\ change'.gen = changes' /\ change'.phase = "prepared" /\ change'.old = record
      /\ change'.oldProfile = child.profile /\ change'.had = made
  BY <1>1
<1>3. changes' # 0
  BY <1>1, ToolsChangeAssumption DEF ToolsInv, RecordOK, Selections
<1>4. change.gen = 0
  BY <1>1 DEF NoJournal
<1>5. /\ child.profile = record /\ \A p \in Generated : made[p] \in {Absent, record}
      /\ \A p \in Generated : aside[p] = Absent
  BY <1>1, <1>4 DEF ToolsInv, SelectionWhole, NoRequest
<1>6. QED
  BY <1>1, <1>2, <1>3, <1>5 DEF JournalKnows

\* The mark names the change, and so does the profile.
LEMMA MarkChildOK ==
    ASSUME ToolsInv, Mark
    PROVE  ChildOK'
<1>1. /\ child \in [profile : Selections, marker : Selections, going : BOOLEAN]
      /\ request.gen \in Selections
  BY DEF ToolsInv, ChildOK, RequestOK
<1>2. child' = [child EXCEPT !.marker = request.gen, !.profile = request.gen]
  BY DEF Mark
<1>3. child' \in [profile : Selections, marker : Selections, going : BOOLEAN]
  BY <1>1, <1>2
<1>4. QED
  BY <1>3 DEF ChildOK

-----------------------------------------------------------------------------
\* The journal is written before anything is changed.
LEMMA BeginKeeps ==
    ASSUME ToolsInv, Begin
    PROVE  ToolsInv'
<1>1. ChildOK' /\ FilesOK' /\ ShellOK' /\ ToolFaultsOK' /\ RunningIsGoing'
  BY DEF ToolsInv, ChildOK, FilesOK, ShellOK, ToolFaultsOK, RunningIsGoing,
     Begin
<1>2. RecordOK'
  BY ToolsChangeAssumption DEF ToolsInv, RecordOK, Begin, Selections
<1>3. ChangeOK'
  BY ToolsChangeAssumption DEF ToolsInv, RecordOK, ChangeOK, FilesOK,
     SelectionWhole, Begin, Selections
<1>4. RequestOK'
  BY BeginRequestOK
<1>5. RequestOwns'
  BY DEF ToolsInv, RecordOK, RequestOwns, Begin, Selections
<1>6. JournalKnows'
  BY BeginJournalKnows
<1>7. Staging'
  BY DEF ToolsInv, Staging, SelectionWhole, Begin
<1>8. ReadyWhole'
  BY DEF ToolsInv, ReadyWhole, Begin
<1>9. Finishing'
  BY ToolsChangeAssumption DEF ToolsInv, Finishing, Begin, NoRequest,
     NoShell, NoJournal, Absent
<1>10. Finished'
  BY DEF ToolsInv, Finished, Begin
<1>11. SelectionWhole'
  BY DEF ToolsInv, SelectionWhole, Begin
<1>12. QED  BY <1>1, <1>2, <1>3, <1>4, <1>5, <1>6, <1>7, <1>8, <1>9,
     <1>10, <1>11 DEF ToolsInv

\* The mark and the child's new profile, in one write.
LEMMA MarkKeeps ==
    ASSUME ToolsInv, Mark
    PROVE  ToolsInv'
<1>1. /\ RecordOK' /\ ChangeOK' /\ FilesOK' /\ ShellOK' /\ ToolFaultsOK'
      /\ JournalKnows'
  BY DEF ToolsInv, RecordOK, ChangeOK, FilesOK, ShellOK, ToolFaultsOK,
     JournalKnows, Mark
<1>2. ChildOK'
  BY MarkChildOK
<1>3. RequestOK'
  BY DEF ToolsInv, RequestOK, Mark, At
<1>4. RequestOwns'
  BY DEF ToolsInv, RequestOwns, Mark, At
<1>5. Staging'
  BY DEF ToolsInv, RequestOwns, Staging, Mark, At, InStaging
<1>6. ReadyWhole'
  BY DEF ToolsInv, Staging, ReadyWhole, Mark
<1>7. Finishing'
  BY DEF ToolsInv, Finishing, Mark, At
<1>8. Finished'
  BY DEF ToolsInv, Finished, Mark, At
<1>9. RunningIsGoing'
  BY DEF ToolsInv, RunningIsGoing, Mark
<1>10. SelectionWhole'
  BY DEF ToolsInv, RecordOK, ChildOK, ChangeOK, FilesOK, RequestOK, ShellOK,
     ToolFaultsOK, RequestOwns, JournalKnows, SelectionWhole, Mark, NoJournal
<1>11. QED  BY <1>1, <1>2, <1>3, <1>4, <1>5, <1>6, <1>7, <1>8,
     <1>9, <1>10 DEF ToolsInv

\* The record is written when every generated file is aside.
LEMMA ChooseKeeps ==
    ASSUME ToolsInv, Choose
    PROVE  ToolsInv'
<1>1. /\ ChildOK' /\ ChangeOK' /\ FilesOK' /\ ShellOK' /\ ToolFaultsOK'
      /\ JournalKnows' /\ RunningIsGoing'
  BY DEF ToolsInv, ChildOK, ChangeOK, FilesOK, ShellOK, ToolFaultsOK,
     JournalKnows, RunningIsGoing, Choose
<1>2. RecordOK'
  BY DEF ToolsInv, RecordOK, RequestOK, Choose
<1>3. RequestOK'
  BY DEF ToolsInv, RequestOK, Choose, At
<1>4. RequestOwns'
  BY DEF ToolsInv, RequestOwns, Choose, At
<1>5. Staging'
  BY DEF ToolsInv, RequestOwns, Staging, Choose, ToMove, At, InStaging
<1>6. ReadyWhole'
  BY DEF ToolsInv, Staging, ReadyWhole, Choose
<1>7. Finishing'
  BY DEF ToolsInv, Finishing, Choose, At
<1>8. Finished'
  BY DEF ToolsInv, Finished, Choose, At
<1>9. SelectionWhole'
  BY DEF ToolsInv, Staging, SelectionWhole, Choose, NoJournal
<1>10. QED  BY <1>1, <1>2, <1>3, <1>4, <1>5, <1>6, <1>7,
     <1>8, <1>9 DEF ToolsInv

\* The new selection is whole from here on.
LEMMA ReadyKeeps ==
    ASSUME ToolsInv, Ready
    PROVE  ToolsInv'
<1>1. /\ RecordOK' /\ ChildOK' /\ FilesOK' /\ ShellOK' /\ ToolFaultsOK'
      /\ RunningIsGoing'
  BY DEF ToolsInv, RecordOK, ChildOK, FilesOK, ShellOK, ToolFaultsOK,
     RunningIsGoing, Ready
<1>2. ChangeOK'
  BY DEF ToolsInv, ChangeOK, Ready
<1>3. RequestOK'
  BY DEF ToolsInv, RequestOK, Ready, At
<1>4. RequestOwns'
  BY DEF ToolsInv, RequestOwns, Ready, At
<1>5. JournalKnows'
  BY DEF ToolsInv, JournalKnows, Staging, Ready, NoJournal
<1>6. Staging'
  BY DEF ToolsInv, Staging, Ready, At, InStaging
<1>7. ReadyWhole'
  BY DEF ToolsInv, Staging, ReadyWhole, Ready
<1>8. Finishing'
  BY DEF ToolsInv, Finishing, Ready, At
<1>9. Finished'
  BY DEF ToolsInv, Finished, Ready, At
<1>10. SelectionWhole'
  BY DEF ToolsInv, SelectionWhole, Ready, NoJournal
<1>11. QED  BY <1>1, <1>2, <1>3, <1>4, <1>5, <1>6, <1>7, <1>8,
     <1>9, <1>10 DEF ToolsInv

\* A failure in between leaves the journal, which decides.
LEMMA StagingFailsKeeps ==
    ASSUME ToolsInv, StagingFails
    PROVE  ToolsInv'
<1>1. /\ RecordOK' /\ ChildOK' /\ ChangeOK' /\ FilesOK' /\ ShellOK'
      /\ JournalKnows' /\ ReadyWhole' /\ RunningIsGoing'
      /\ SelectionWhole'
  BY DEF ToolsInv, RecordOK, ChildOK, ChangeOK, FilesOK, ShellOK,
     JournalKnows, ReadyWhole, RunningIsGoing, SelectionWhole, StagingFails,
     childFiles
<1>2. RequestOK'
  BY DEF ToolsInv, RequestOK, StagingFails, At
<1>3. ToolFaultsOK'
  BY ToolsChangeAssumption DEF ToolsInv, ToolFaultsOK, StagingFails,
     ToolFault
<1>4. RequestOwns'
  BY DEF ToolsInv, RequestOwns, StagingFails, InBegin, At, childFiles
<1>5. Staging'
  BY DEF ToolsInv, Staging, StagingFails, At, InStaging, NoShell, Absent
<1>6. Finishing'
  BY DEF ToolsInv, Finishing, StagingFails, At, childFiles
<1>7. Finished'
  BY DEF ToolsInv, Finished, StagingFails, At
<1>8. QED  BY <1>1, <1>2, <1>3, <1>4, <1>5, <1>6, <1>7 DEF ToolsInv

\* The files built are of the new selection.
LEMMA BuildHomeKeeps ==
    ASSUME ToolsInv, BuildHome
    PROVE  ToolsInv'
<1>1. /\ RecordOK' /\ ChildOK' /\ ChangeOK' /\ ShellOK' /\ ToolFaultsOK'
      /\ JournalKnows' /\ RunningIsGoing'
  BY DEF ToolsInv, RecordOK, ChildOK, ChangeOK, ShellOK, ToolFaultsOK,
     JournalKnows, RunningIsGoing, BuildHome, At, Selections, Contents
<1>2. FilesOK'
  BY DEF ToolsInv, RecordOK, ChildOK, ChangeOK, FilesOK, BuildHome, Contents
<1>3. RequestOK'
  BY DEF ToolsInv, RequestOK, BuildHome, At
<1>4. RequestOwns'
  BY DEF ToolsInv, RequestOwns, BuildHome, At
<1>5. Staging'
  BY DEF ToolsInv, Staging, BuildHome, At, InStaging
<1>6. ReadyWhole'
  BY DEF ToolsInv, ReadyWhole, BuildHome
<1>7. Finishing'
  BY DEF ToolsInv, Finishing, BuildHome, At
<1>8. Finished'
  BY DEF ToolsInv, Finished, BuildHome, At
<1>9. SelectionWhole'
  BY DEF ToolsInv, SelectionWhole, BuildHome
<1>10. QED  BY <1>1, <1>2, <1>3, <1>4, <1>5, <1>6, <1>7,
     <1>8, <1>9 DEF ToolsInv

\* The launcher starts the child with the new profile.
LEMMA LaunchAcceptedKeeps ==
    ASSUME ToolsInv, LaunchAccepted
    PROVE  ToolsInv'
<1>1. /\ RecordOK' /\ ChildOK' /\ ChangeOK' /\ FilesOK' /\ ToolFaultsOK'
      /\ JournalKnows' /\ ReadyWhole' /\ SelectionWhole'
  BY DEF ToolsInv, RecordOK, ChildOK, ChangeOK, FilesOK, ToolFaultsOK,
     JournalKnows, ReadyWhole, SelectionWhole, LaunchAccepted, childFiles
<1>2. RequestOK'
  BY ToolsChangeAssumption DEF ToolsInv, RequestOK, Finishing,
     LaunchAccepted, childFiles, Selections, Undo, OriginalsThere, Absent
<1>3. ShellOK'
  BY DEF ToolsInv, RequestOK, ShellOK, RequestOwns, JournalKnows, Staging,
     ReadyWhole, Finishing, Finished, LaunchAccepted
<1>4. RequestOwns'
  BY DEF ToolsInv, RequestOwns, LaunchAccepted, childFiles
<1>5. Staging'
  BY DEF ToolsInv, Staging, LaunchAccepted, InStaging
<1>6. Finishing'
  BY DEF ToolsInv, Staging, Finishing, LaunchAccepted, childFiles
<1>7. Finished'
  BY DEF ToolsInv, Finished, LaunchAccepted
<1>8. RunningIsGoing'
  BY DEF ToolsInv, RunningIsGoing, LaunchAccepted
<1>9. QED  BY <1>1, <1>2, <1>3, <1>4, <1>5, <1>6, <1>7, <1>8 DEF ToolsInv

\* The answer is a failure, whatever was started.
LEMMA LaunchFailsKeeps ==
    ASSUME ToolsInv, LaunchFails
    PROVE  ToolsInv'
<1>1. /\ RecordOK' /\ ChildOK' /\ ChangeOK' /\ FilesOK' /\ JournalKnows'
      /\ ReadyWhole' /\ SelectionWhole'
  BY DEF ToolsInv, RecordOK, ChildOK, ChangeOK, FilesOK, JournalKnows,
     ReadyWhole, SelectionWhole, LaunchFails, childFiles
<1>2. RequestOK'
  BY DEF ToolsInv, RequestOK, LaunchFails, At
<1>3. ShellOK'
  BY DEF ToolsInv, RequestOK, ShellOK, RequestOwns, Staging, ReadyWhole,
     Finishing, Finished, RunningIsGoing, SelectionWhole, LaunchFails
<1>4. ToolFaultsOK'
  BY ToolsChangeAssumption DEF ToolsInv, ToolFaultsOK, LaunchFails,
     ToolFault
<1>5. RequestOwns'
  BY DEF ToolsInv, RequestOwns, LaunchFails, At, childFiles
<1>6. Staging'
  BY DEF ToolsInv, Staging, LaunchFails, At, InStaging
<1>7. Finishing'
  BY DEF ToolsInv, Finishing, LaunchFails, At
<1>8. Finished'
  BY DEF ToolsInv, Finished, LaunchFails, At
<1>9. RunningIsGoing'
  BY DEF ToolsInv, RunningIsGoing, LaunchFails, childFiles
<1>10. QED  BY <1>1, <1>2, <1>3, <1>4, <1>5, <1>6, <1>7,
     <1>8, <1>9 DEF ToolsInv

\* A resume with no change pending.
LEMMA PlainResumeKeeps ==
    ASSUME ToolsInv, PlainResume
    PROVE  ToolsInv'
<1>1. /\ RecordOK' /\ ChildOK' /\ ChangeOK' /\ RequestOK'
      /\ ToolFaultsOK' /\ RequestOwns' /\ JournalKnows'
  BY DEF ToolsInv, RecordOK, ChildOK, ChangeOK, RequestOK, ToolFaultsOK,
     RequestOwns, JournalKnows, PlainResume
<1>2. FilesOK'
  BY DEF ToolsInv, ChildOK, FilesOK, RunningIsGoing, SelectionWhole,
     PlainResume, Contents
<1>3. ShellOK'
  BY DEF ToolsInv, ChildOK, ShellOK, PlainResume
<1>4. Staging'
  BY DEF ToolsInv, Staging, PlainResume, NoJournal, InStaging
<1>5. ReadyWhole'
  BY DEF ToolsInv, ReadyWhole, PlainResume
<1>6. Finishing'
  BY DEF ToolsInv, Finishing, PlainResume, NoJournal
<1>7. Finished'
  BY DEF ToolsInv, Finished, PlainResume, NoRequest
<1>8. RunningIsGoing'
  BY DEF ToolsInv, RunningIsGoing, PlainResume
<1>9. SelectionWhole'
  BY DEF ToolsInv, SelectionWhole, PlainResume
<1>10. QED  BY <1>1, <1>2, <1>3, <1>4, <1>5, <1>6, <1>7,
     <1>8, <1>9 DEF ToolsInv

\* The child goes on in the session.
LEMMA BeginResumeKeeps ==
    ASSUME ToolsInv, BeginResume
    PROVE  ToolsInv'
<1>1. /\ RecordOK' /\ ChangeOK' /\ FilesOK' /\ RequestOK'
      /\ ToolFaultsOK' /\ RequestOwns' /\ JournalKnows'
  BY DEF ToolsInv, RecordOK, ChangeOK, FilesOK, RequestOK, ToolFaultsOK,
     RequestOwns, JournalKnows, BeginResume
<1>2. ChildOK'
  BY ToolsChangeAssumption DEF ToolsInv, RecordOK, ChildOK, ChangeOK,
     FilesOK, RequestOK, ShellOK, ToolFaultsOK, RequestOwns, BeginResume,
     Unlocked, InBegin, InFinish, MayResume
<1>3. ShellOK'
  BY DEF ToolsInv, ShellOK, BeginResume
<1>4. Staging'
  BY DEF ToolsInv, Staging, BeginResume, InStaging, NoShell
<1>5. ReadyWhole'
  BY DEF ToolsInv, ReadyWhole, BeginResume
<1>6. Finishing'
  BY DEF ToolsInv, Finishing, BeginResume, Unlocked, InFinish, MayResume,
     Pending
<1>7. Finished'
  BY DEF ToolsInv, Finished, BeginResume, Undo
<1>8. RunningIsGoing'
  BY DEF ToolsInv, RunningIsGoing, BeginResume
<1>9. SelectionWhole'
  BY DEF ToolsInv, SelectionWhole, BeginResume
<1>10. QED  BY <1>1, <1>2, <1>3, <1>4, <1>5, <1>6, <1>7,
     <1>8, <1>9 DEF ToolsInv

\* The refused session discards its generated files.
LEMMA BootstrapFailsKeeps ==
    ASSUME ToolsInv, BootstrapFails
    PROVE  ToolsInv'
<1>1. /\ RecordOK' /\ ChildOK' /\ ChangeOK' /\ RequestOK'
      /\ RequestOwns' /\ JournalKnows'
  BY DEF ToolsInv, RecordOK, ChildOK, ChangeOK, RequestOK, RequestOwns,
     JournalKnows, BootstrapFails
<1>2. FilesOK'
  BY DEF ToolsInv, FilesOK, BootstrapFails, Contents, Selections
<1>3. ShellOK'
  BY ToolsChangeAssumption DEF ToolsInv, ShellOK, BootstrapFails, NoShell,
     Selections
<1>4. ToolFaultsOK'
  BY ToolsChangeAssumption DEF ToolsInv, ToolFaultsOK, BootstrapFails,
     ToolFault
<1>5. Staging'
  BY DEF ToolsInv, Staging, BootstrapFails, NoShell, InStaging
<1>6. ReadyWhole'
  BY DEF ToolsInv, ReadyWhole, BootstrapFails
<1>7. Finishing'
  BY DEF ToolsInv, Finishing, BootstrapFails, Unlocked, InFinish, MayResume,
     Pending, NoJournal
<1>8. Finished'
  BY DEF ToolsInv, Finished, BootstrapFails, NoShell, Undo
<1>9. RunningIsGoing'
  BY DEF ToolsInv, RunningIsGoing, BootstrapFails, NoShell
<1>10. SelectionWhole'
  BY DEF ToolsInv, SelectionWhole, BootstrapFails
<1>11. QED  BY <1>1, <1>2, <1>3, <1>4, <1>5, <1>6, <1>7, <1>8,
     <1>9, <1>10 DEF ToolsInv

\* The child's end leaves the selection as it is.
LEMMA ChildEndsKeeps ==
    ASSUME ToolsInv, ChildEnds
    PROVE  ToolsInv'
<1>1. /\ RecordOK' /\ ChangeOK' /\ RequestOK' /\ ToolFaultsOK'
      /\ RequestOwns' /\ JournalKnows'
  BY DEF ToolsInv, RecordOK, ChangeOK, RequestOK, ToolFaultsOK, RequestOwns,
     JournalKnows, ChildEnds
<1>2. ChildOK'
  BY ToolsChangeAssumption DEF ToolsInv, RecordOK, ChildOK, ChangeOK,
     FilesOK, ChildEnds, Unlocked, InBegin
<1>3. FilesOK'
  BY DEF ToolsInv, FilesOK, ChildEnds, Contents, Selections
<1>4. ShellOK'
  BY ToolsChangeAssumption DEF ToolsInv, ShellOK, ChildEnds, NoShell,
     Selections
<1>5. Staging'
  BY DEF ToolsInv, Staging, ChildEnds, NoShell, InStaging
<1>6. ReadyWhole'
  BY DEF ToolsInv, ReadyWhole, ChildEnds
<1>7. Finishing'
  BY DEF ToolsInv, Finishing, ChildEnds, Undo
<1>8. Finished'
  BY DEF ToolsInv, Finished, ChildEnds, Undo
<1>9. RunningIsGoing'
  BY DEF ToolsInv, RunningIsGoing, ChildEnds, NoShell
<1>10. SelectionWhole'
  BY DEF ToolsInv, SelectionWhole, ChildEnds
<1>11. QED  BY <1>1, <1>2, <1>3, <1>4, <1>5, <1>6, <1>7, <1>8,
     <1>9, <1>10 DEF ToolsInv

\* Nothing may be decided: the journal stays.
LEMMA DecidesNothingKeeps ==
    ASSUME ToolsInv, DecidesNothing
    PROVE  ToolsInv'
<1>1. /\ RecordOK' /\ ChildOK' /\ FilesOK' /\ ShellOK' /\ ToolFaultsOK'
      /\ RunningIsGoing'
  BY DEF ToolsInv, RecordOK, ChildOK, FilesOK, ShellOK, ToolFaultsOK,
     RunningIsGoing, DecidesNothing, decideRest
<1>2. ChangeOK'
  BY DEF ToolsInv, ChangeOK, DecidesNothing
<1>3. RequestOK'
  BY ToolsChangeAssumption DEF ToolsInv, RequestOK, DecidesNothing,
     NoRequest, Selections
<1>4. RequestOwns'
  BY DEF ToolsInv, RequestOwns, DecidesNothing, NoRequest
<1>5. JournalKnows'
  BY DEF ToolsInv, JournalKnows, DecidesNothing, decideRest
<1>6. Staging'
  BY DEF ToolsInv, Staging, DecidesNothing, NoRequest, InStaging
<1>7. ReadyWhole'
  BY DEF ToolsInv, ReadyWhole, DecidesNothing, decideRest
<1>8. Finishing'
  BY DEF ToolsInv, Finishing, DecidesNothing, NoRequest, Absent
<1>9. Finished'
  BY DEF ToolsInv, Finished, DecidesNothing, NoRequest
<1>10. SelectionWhole'
  BY DEF ToolsInv, SelectionWhole, DecidesNothing, decideRest
<1>11. QED  BY <1>1, <1>2, <1>3, <1>4, <1>5, <1>6, <1>7, <1>8,
     <1>9, <1>10 DEF ToolsInv

\* Only a change that is ready is committed.
LEMMA DecidesCommitKeeps ==
    ASSUME ToolsInv, DecidesCommit
    PROVE  ToolsInv'
<1>1. /\ RecordOK' /\ ChildOK' /\ FilesOK' /\ ShellOK' /\ ToolFaultsOK'
      /\ RunningIsGoing'
  BY DEF ToolsInv, RecordOK, ChildOK, FilesOK, ShellOK, ToolFaultsOK,
     RunningIsGoing, DecidesCommit, decideRest
<1>2. ChangeOK'
  BY DEF ToolsInv, ChangeOK, DecidesCommit
<1>3. RequestOK'
  BY DEF ToolsInv, RequestOK, DecidesCommit
<1>4. RequestOwns'
  BY DEF ToolsInv, RequestOwns, DecidesCommit
<1>5. JournalKnows'
  BY DEF ToolsInv, JournalKnows, DecidesCommit, decideRest, NoJournal
<1>6. Staging'
  BY DEF ToolsInv, Staging, DecidesCommit, InStaging
<1>7. ReadyWhole'
  BY DEF ToolsInv, ReadyWhole, DecidesCommit, decideRest
<1>8. Finishing'
  BY DEF ToolsInv, Finishing, DecidesCommit, Undo
<1>9. Finished'
  BY DEF ToolsInv, Finished, DecidesCommit
<1>10. SelectionWhole'
  BY DEF ToolsInv, SelectionWhole, DecidesCommit, NoJournal
<1>11. QED  BY <1>1, <1>2, <1>3, <1>4, <1>5, <1>6, <1>7, <1>8,
     <1>9, <1>10 DEF ToolsInv

\* Only the change of a child that does not go is rolled back.
LEMMA DecidesRollbackKeeps ==
    ASSUME ToolsInv, DecidesRollback
    PROVE  ToolsInv'
<1>1. /\ RecordOK' /\ ChildOK' /\ FilesOK' /\ ShellOK' /\ ToolFaultsOK'
      /\ RunningIsGoing'
  BY DEF ToolsInv, RecordOK, ChildOK, FilesOK, ShellOK, ToolFaultsOK,
     RunningIsGoing, DecidesRollback, decideRest
<1>2. ChangeOK'
  BY DEF ToolsInv, ChangeOK, DecidesRollback
<1>3. RequestOK'
  BY ToolsChangeAssumption DEF ToolsInv, RequestOK, DecidesRollback,
     OriginalsThere, Absent, decideRest, Selections
<1>4. RequestOwns'
  BY DEF ToolsInv, RequestOwns, DecidesRollback
<1>5. JournalKnows'
  BY DEF ToolsInv, RequestOwns, JournalKnows, DecidesRollback, decideRest
<1>6. Staging'
  BY DEF ToolsInv, Staging, DecidesRollback, InStaging
<1>7. ReadyWhole'
  BY DEF ToolsInv, ReadyWhole, DecidesRollback
<1>8. Finishing'
  BY DEF ToolsInv, Finishing, RunningIsGoing, DecidesRollback,
     OriginalsThere, decideRest, Undo
<1>9. Finished'
  BY DEF ToolsInv, Finished, DecidesRollback
<1>10. SelectionWhole'
  BY DEF ToolsInv, SelectionWhole, DecidesRollback, NoJournal
<1>11. QED  BY <1>1, <1>2, <1>3, <1>4, <1>5, <1>6, <1>7, <1>8,
     <1>9, <1>10 DEF ToolsInv

\* Without the originals the decision stays in the journal.
LEMMA DecidesStuckKeeps ==
    ASSUME ToolsInv, DecidesStuck
    PROVE  ToolsInv'
<1>1. /\ RecordOK' /\ ChildOK' /\ FilesOK' /\ ShellOK' /\ ToolFaultsOK'
      /\ RunningIsGoing'
  BY DEF ToolsInv, RecordOK, ChildOK, FilesOK, ShellOK, ToolFaultsOK,
     RunningIsGoing, DecidesStuck, decideRest
<1>2. ChangeOK'
  BY DEF ToolsInv, ChangeOK, DecidesStuck
<1>3. RequestOK'
  BY ToolsChangeAssumption DEF ToolsInv, RequestOK, DecidesStuck, NoRequest,
     Selections
<1>4. RequestOwns'
  BY DEF ToolsInv, RequestOwns, DecidesStuck, NoRequest
<1>5. JournalKnows'
  BY DEF ToolsInv, RecordOK, ChildOK, ChangeOK, FilesOK, RequestOK, ShellOK,
     ToolFaultsOK, RequestOwns, JournalKnows, DecidesStuck, decideRest
<1>6. Staging'
  BY DEF ToolsInv, Staging, DecidesStuck, NoRequest, InStaging
<1>7. ReadyWhole'
  BY DEF ToolsInv, ReadyWhole, DecidesStuck
<1>8. Finishing'
  BY DEF ToolsInv, Finishing, DecidesStuck, NoRequest
<1>9. Finished'
  BY DEF ToolsInv, Finished, DecidesStuck, NoRequest
<1>10. SelectionWhole'
  BY DEF ToolsInv, SelectionWhole, DecidesStuck, NoJournal
<1>11. QED  BY <1>1, <1>2, <1>3, <1>4, <1>5, <1>6, <1>7, <1>8,
     <1>9, <1>10 DEF ToolsInv

\* The record is the journal's again.
LEMMA RestoreRecordKeeps ==
    ASSUME ToolsInv, RestoreRecord
    PROVE  ToolsInv'
<1>1. /\ ChildOK' /\ ChangeOK' /\ FilesOK' /\ ShellOK' /\ ToolFaultsOK'
      /\ JournalKnows' /\ RunningIsGoing'
  BY DEF ToolsInv, ChildOK, ChangeOK, FilesOK, ShellOK, ToolFaultsOK,
     JournalKnows, RunningIsGoing, RestoreRecord
<1>2. RecordOK'
  BY DEF ToolsInv, RecordOK, ChangeOK, RestoreRecord
<1>3. RequestOK'
  BY DEF ToolsInv, RequestOK, RestoreRecord, At
<1>4. RequestOwns'
  BY DEF ToolsInv, RequestOwns, RestoreRecord, At
<1>5. Staging'
  BY DEF ToolsInv, Staging, RestoreRecord, At, InStaging
<1>6. ReadyWhole'
  BY DEF ToolsInv, RequestOK, ReadyWhole, Finishing, RestoreRecord, Undo
<1>7. Finishing'
  BY DEF ToolsInv, Finishing, RestoreRecord, At, Undo, OriginalsThere
<1>8. Finished'
  BY DEF ToolsInv, Finished, RestoreRecord, At
<1>9. SelectionWhole'
  BY DEF ToolsInv, Finishing, SelectionWhole, RestoreRecord, NoJournal
<1>10. QED  BY <1>1, <1>2, <1>3, <1>4, <1>5, <1>6, <1>7,
     <1>8, <1>9 DEF ToolsInv

\* The mark goes, in a rollback with the old profile.
LEMMA UnmarkKeeps ==
    ASSUME ToolsInv, Unmark
    PROVE  ToolsInv'
<1>1. /\ RecordOK' /\ ChangeOK' /\ FilesOK' /\ ShellOK' /\ ToolFaultsOK'
      /\ JournalKnows'
  BY DEF ToolsInv, RecordOK, ChangeOK, FilesOK, ShellOK, ToolFaultsOK,
     JournalKnows, Unmark
<1>2. ChildOK'
  BY UnmarkChildOK
<1>3. RequestOK'
  BY DEF ToolsInv, RequestOK, Unmark, At
<1>4. RequestOwns'
  BY ToolsChangeAssumption DEF ToolsInv, RequestOwns, Unmark, Left, Absent,
     At
<1>5. Staging'
  BY DEF ToolsInv, Staging, Unmark, At, InStaging
<1>6. ReadyWhole'
  BY DEF ToolsInv, ReadyWhole, Finishing, Unmark
<1>7. Finishing'
  BY DEF ToolsInv, Finishing, Unmark, Undo, At, OriginalsThere
<1>8. Finished'
  BY DEF ToolsInv, JournalKnows, Finishing, Finished, Unmark, Left, Undo,
     At, NoJournal, OriginalsThere
<1>9. RunningIsGoing'
  BY DEF ToolsInv, RunningIsGoing, Unmark
<1>10. SelectionWhole'
  BY DEF ToolsInv, Finishing, SelectionWhole, Unmark, NoJournal
<1>11. QED  BY <1>1, <1>2, <1>3, <1>4, <1>5, <1>6, <1>7, <1>8,
     <1>9, <1>10 DEF ToolsInv

\* With the journal gone the selection is whole.
LEMMA UnlinkKeeps ==
    ASSUME ToolsInv, Unlink
    PROVE  ToolsInv'
<1>1. /\ RecordOK' /\ ChildOK' /\ FilesOK' /\ ShellOK' /\ ToolFaultsOK'
      /\ RunningIsGoing'
  BY DEF ToolsInv, RecordOK, ChildOK, FilesOK, ShellOK, ToolFaultsOK,
     RunningIsGoing, Unlink
<1>2. ChangeOK'
  BY ToolsChangeAssumption DEF ToolsInv, ChangeOK, Unlink, NoJournal,
     Selections, Contents
<1>3. RequestOK'
  BY ToolsChangeAssumption DEF ToolsInv, RequestOK, Unlink, NoRequest,
     Selections
<1>4. RequestOwns'
  BY DEF ToolsInv, RequestOwns, Unlink, NoRequest
<1>5. JournalKnows'
  BY DEF ToolsInv, JournalKnows, Unlink, NoJournal
<1>6. Staging'
  BY DEF ToolsInv, Staging, Unlink, NoRequest, InStaging
<1>7. ReadyWhole'
  BY DEF ToolsInv, ReadyWhole, Unlink, NoJournal
<1>8. Finishing'
  BY DEF ToolsInv, Finishing, Unlink, NoRequest
<1>9. Finished'
  BY DEF ToolsInv, Finished, Unlink, NoRequest
<1>10. SelectionWhole'
  BY DEF ToolsInv, ReadyWhole, Finishing, Finished, SelectionWhole, Unlink
<1>11. QED  BY <1>1, <1>2, <1>3, <1>4, <1>5, <1>6, <1>7, <1>8,
     <1>9, <1>10 DEF ToolsInv

\* The journal is all that is left of the request.
LEMMA RequestCrashesKeeps ==
    ASSUME ToolsInv, RequestCrashes
    PROVE  ToolsInv'
<1>1. /\ RecordOK' /\ ChildOK' /\ ChangeOK' /\ FilesOK' /\ ShellOK'
      /\ JournalKnows' /\ ReadyWhole' /\ RunningIsGoing'
      /\ SelectionWhole'
  BY DEF ToolsInv, RecordOK, ChildOK, ChangeOK, FilesOK, ShellOK,
     JournalKnows, ReadyWhole, RunningIsGoing, SelectionWhole, RequestCrashes,
     childFiles
<1>2. RequestOK'
  BY ToolsChangeAssumption DEF ToolsInv, RequestOK, RequestCrashes,
     NoRequest, Selections
<1>3. ToolFaultsOK'
  BY ToolsChangeAssumption DEF ToolsInv, ToolFaultsOK, RequestCrashes,
     ToolFault
<1>4. RequestOwns'
  BY DEF ToolsInv, RequestOwns, RequestCrashes, NoRequest
<1>5. Staging'
  BY DEF ToolsInv, Staging, RequestCrashes, NoRequest, InStaging
<1>6. Finishing'
  BY DEF ToolsInv, Finishing, RequestCrashes, NoRequest
<1>7. Finished'
  BY DEF ToolsInv, Finished, RequestCrashes, NoRequest
<1>8. QED  BY <1>1, <1>2, <1>3, <1>4, <1>5, <1>6, <1>7 DEF ToolsInv

\* A killed session leaves the files.
LEMMA ShellKilledKeeps ==
    ASSUME ToolsInv, ShellKilled
    PROVE  ToolsInv'
<1>1. /\ RecordOK' /\ ChildOK' /\ ChangeOK' /\ FilesOK' /\ RequestOK'
      /\ RequestOwns' /\ JournalKnows' /\ ReadyWhole' /\ Finished'
      /\ SelectionWhole'
  BY DEF ToolsInv, RecordOK, ChildOK, ChangeOK, FilesOK, RequestOK,
     RequestOwns, JournalKnows, ReadyWhole, Finished, SelectionWhole,
     ShellKilled, childFiles, Undo
<1>2. ShellOK'
  BY ToolsChangeAssumption DEF ToolsInv, ShellOK, ShellKilled, NoShell,
     Selections
<1>3. ToolFaultsOK'
  BY ToolsChangeAssumption DEF ToolsInv, ToolFaultsOK, ShellKilled,
     ToolFault
<1>4. Staging'
  BY DEF ToolsInv, Staging, ShellKilled, InStaging
<1>5. Finishing'
  BY DEF ToolsInv, Finishing, ShellKilled, NoShell, childFiles, Undo,
     OriginalsThere
<1>6. RunningIsGoing'
  BY DEF ToolsInv, RunningIsGoing, ShellKilled, NoShell
<1>7. QED  BY <1>1, <1>2, <1>3, <1>4, <1>5, <1>6 DEF ToolsInv

\* The operator's recovery decides anew.
LEMMA OperatorRecoversKeeps ==
    ASSUME ToolsInv, OperatorRecovers
    PROVE  ToolsInv'
<1>1. /\ RecordOK' /\ ChildOK' /\ ChangeOK' /\ FilesOK' /\ ShellOK'
      /\ ToolFaultsOK' /\ JournalKnows' /\ ReadyWhole'
      /\ RunningIsGoing' /\ SelectionWhole'
  BY DEF ToolsInv, RecordOK, ChildOK, ChangeOK, FilesOK, ShellOK,
     ToolFaultsOK, JournalKnows, ReadyWhole, RunningIsGoing, SelectionWhole,
     OperatorRecovers, childFiles
<1>2. RequestOK'
  BY DEF ToolsInv, ChangeOK, RequestOK, OperatorRecovers
<1>3. RequestOwns'
  BY DEF ToolsInv, RequestOwns, JournalKnows, OperatorRecovers, childFiles
<1>4. Staging'
  BY DEF ToolsInv, Staging, OperatorRecovers
<1>5. Finishing'
  BY DEF ToolsInv, Finishing, OperatorRecovers, childFiles
<1>6. Finished'
  BY DEF ToolsInv, Finished, OperatorRecovers
<1>7. QED  BY <1>1, <1>2, <1>3, <1>4, <1>5, <1>6 DEF ToolsInv

\* A child that a reboot cut off does not go any more.
LEMMA ClearCutOffKeeps ==
    ASSUME ToolsInv, ClearCutOff
    PROVE  ToolsInv'
<1>1. /\ RecordOK' /\ ChangeOK' /\ FilesOK' /\ RequestOK' /\ ShellOK'
      /\ ToolFaultsOK' /\ RequestOwns' /\ JournalKnows' /\ Finishing'
  BY DEF ToolsInv, RecordOK, ChangeOK, FilesOK, RequestOK, ShellOK,
     ToolFaultsOK, RequestOwns, JournalKnows, Finishing, ClearCutOff, Undo,
     OriginalsThere
<1>2. ChildOK'
  BY ToolsChangeAssumption DEF ToolsInv, RecordOK, ChildOK, ChangeOK,
     FilesOK, RequestOK, ShellOK, ToolFaultsOK, ClearCutOff, NoShell, Unlocked,
     InBegin
<1>3. Staging'
  BY DEF ToolsInv, Staging, ClearCutOff
<1>4. ReadyWhole'
  BY DEF ToolsInv, ReadyWhole, ClearCutOff
<1>5. Finished'
  BY DEF ToolsInv, Finished, ClearCutOff, Undo
<1>6. RunningIsGoing'
  BY DEF ToolsInv, RunningIsGoing, ClearCutOff, NoShell
<1>7. SelectionWhole'
  BY DEF ToolsInv, SelectionWhole, ClearCutOff
<1>8. QED  BY <1>1, <1>2, <1>3, <1>4, <1>5, <1>6, <1>7 DEF ToolsInv

\* One generated file after the other is renamed.
LEMMA SetAsideKeeps ==
    ASSUME ToolsInv, NEW p \in Generated, SetAside(p)
    PROVE  ToolsInv'
<1>1. /\ RecordOK' /\ ChildOK' /\ ChangeOK' /\ ShellOK' /\ ToolFaultsOK'
      /\ RequestOwns' /\ RunningIsGoing'
  BY DEF ToolsInv, RecordOK, ChildOK, ChangeOK, ShellOK, ToolFaultsOK,
     RequestOwns, RunningIsGoing, SetAside
<1>2. FilesOK'
  BY DEF ToolsInv, FilesOK, SetAside, Contents
<1>3. RequestOK'
  BY DEF ToolsInv, RequestOK, SetAside
<1>4. JournalKnows'
  BY DEF ToolsInv, JournalKnows, Staging, SetAside
<1>5. Staging'
  BY DEF ToolsInv, FilesOK, Staging, SetAside, ToMove, InStaging
<1>6. ReadyWhole'
  BY DEF ToolsInv, ReadyWhole, SetAside
<1>7. Finishing'
  BY DEF ToolsInv, Finishing, SetAside
<1>8. Finished'
  BY DEF ToolsInv, Finished, SetAside
<1>9. SelectionWhole'
  BY DEF ToolsInv, Staging, SelectionWhole, SetAside, NoJournal
<1>10. QED  BY <1>1, <1>2, <1>3, <1>4, <1>5, <1>6, <1>7,
     <1>8, <1>9 DEF ToolsInv

\* One generated file after the other goes, or comes back.
LEMMA DropKeeps ==
    ASSUME ToolsInv, NEW p \in Generated, Drop(p)
    PROVE  ToolsInv'
<1>1. /\ RecordOK' /\ ChildOK' /\ ChangeOK' /\ ShellOK' /\ ToolFaultsOK'
      /\ RequestOwns' /\ RunningIsGoing'
  BY DEF ToolsInv, RecordOK, ChildOK, ChangeOK, ShellOK, ToolFaultsOK,
     RequestOwns, RunningIsGoing, Drop
<1>2. FilesOK'
  BY DEF ToolsInv, FilesOK, Drop, Contents, Selections
<1>3. RequestOK'
  BY DEF ToolsInv, RequestOK, Drop
<1>4. JournalKnows'
  BY DEF ToolsInv, JournalKnows, Drop
<1>5. Staging'
  BY DEF ToolsInv, Staging, Drop, InStaging
<1>6. ReadyWhole'
  BY DEF ToolsInv, ReadyWhole, Finishing, Drop
<1>7. Finishing'
  BY DEF ToolsInv, RecordOK, ChildOK, ChangeOK, FilesOK, RequestOK, ShellOK,
     Finishing, Drop, Left, Undo, OriginalsThere
<1>8. Finished'
  BY DEF ToolsInv, Finished, Drop
<1>9. SelectionWhole'
  BY DEF ToolsInv, SelectionWhole, Drop
<1>10. QED  BY <1>1, <1>2, <1>3, <1>4, <1>5, <1>6, <1>7,
     <1>8, <1>9 DEF ToolsInv

\* At the start no change is under way.
LEMMA ToolsInvStart == ToolsInit => ToolsInv
BY ToolsChangeAssumption DEF ToolsInit, ToolsInv, RecordOK, ChildOK, ChangeOK,
   FilesOK, RequestOK, ShellOK,
   ToolFaultsOK, RequestOwns, JournalKnows, Staging, InStaging, ReadyWhole,
   Finishing,
   Finished, RunningIsGoing, SelectionWhole,
   Selections, Contents, NoJournal, NoRequest, NoShell

\* Every step of a change, of its recovery and of the launch keeps it.
LEMMA ToolsInvStep == ToolsInv /\ [ToolsNext]_toolsVars => ToolsInv'
<1> SUFFICES ASSUME ToolsInv, [ToolsNext]_toolsVars  PROVE ToolsInv'
  OBVIOUS
<1>1. CASE Begin
  BY <1>1, BeginKeeps
<1>2. CASE RequestStep
  <2>1. CASE Mark \/ Choose \/ Ready \/ BuildHome \/ LaunchAccepted
    BY <2>1, MarkKeeps, ChooseKeeps, ReadyKeeps, BuildHomeKeeps,
       LaunchAcceptedKeeps
  <2>2. CASE Decide
    BY <2>2, DecideCases, DecidesNothingKeeps, DecidesCommitKeeps,
       DecidesRollbackKeeps,
       DecidesStuckKeeps
  <2>3. CASE RestoreRecord \/ Unmark \/ Unlink
    BY <2>3, RestoreRecordKeeps, UnmarkKeeps, UnlinkKeeps
  <2>4. ASSUME NEW p \in Generated, SetAside(p) \/ Drop(p)  PROVE ToolsInv'
    BY <2>4, SetAsideKeeps, DropKeeps
  <2>5. QED
    BY <1>2, <2>1, <2>2, <2>3, <2>4 DEF RequestStep
<1>3. CASE ShellStep \/ PlainResume
  BY <1>3, BeginResumeKeeps, BootstrapFailsKeeps, ChildEndsKeeps,
     PlainResumeKeeps
  DEF ShellStep
<1>4. CASE StagingFails \/ LaunchFails \/ RequestCrashes \/ ShellKilled
  BY <1>4, StagingFailsKeeps, LaunchFailsKeeps, RequestCrashesKeeps,
     ShellKilledKeeps
<1>5. CASE OperatorRecovers \/ ClearCutOff
  BY <1>5, OperatorRecoversKeeps, ClearCutOffKeeps
<1>6. CASE UNCHANGED toolsVars
  BY <1>6 DEF toolsVars, ToolsInv, RecordOK, ChildOK, ChangeOK, FilesOK,
     RequestOK, ShellOK,
     ToolFaultsOK, RequestOwns, JournalKnows, Staging, InStaging, ReadyWhole,
     Finishing,
     Finished, RunningIsGoing, SelectionWhole, Undo, OriginalsThere
<1>7. QED
  BY <1>1, <1>2, <1>3, <1>4, <1>5, <1>6 DEF ToolsNext

\* The inductive invariant of a change of tools.
LEMMA ToolsInvariant == ToolsSpec => []ToolsInv
BY ToolsInvStart, ToolsInvStep, PTL DEF ToolsSpec

\* Every reachable state of a tools change is well-typed.
THEOREM ToolsTypeCorrect == ToolsSpec => []ToolsTypeOK
<1>1. ToolsInv => ToolsTypeOK
  BY DEF ToolsInv, RecordOK, ChildOK, ChangeOK, FilesOK, RequestOK, ShellOK,
     ToolFaultsOK, ToolsTypeOK
<1>2. QED
  BY <1>1, ToolsInvariant, PTL

\* With no change pending the child's record, its profile and its generated
\* files are one selection and nothing is left aside, after any crash, failure
\* and recovery (begin and finish of tool_change.py).
THEOREM SelectionWholeTheorem == ToolsSpec => []SelectionWhole
<1>1. ToolsInv => SelectionWhole
  BY DEF ToolsInv
<1>2. QED
  BY <1>1, ToolsInvariant, PTL

\* No step changes the selection of a child that runs: nothing is staged while
\* a session is there, and a rollback is not decided while it goes.
THEOREM RunningKeepsSelectionTheorem == ToolsSpec => RunningKeepsSelection
<1> DEFINE Kept == /\ UNCHANGED <<record, made>>
                   /\ child'.profile = child.profile
<1>1. ASSUME ToolsInv, ToolsNext, shell.at = "running", shell'.at = "running"
      PROVE  Kept
  <2>1. CASE Begin \/ StagingFails \/ LaunchFails \/ RequestCrashes \/ OperatorRecovers
    BY <2>1 DEF Begin, StagingFails, LaunchFails, RequestCrashes,
       OperatorRecovers, childFiles
  <2>2. CASE Mark \/ Choose \/ Ready \/ BuildHome \/ LaunchAccepted
    BY <1>1, <2>2 DEF ToolsInv, Staging, InStaging, NoShell, Mark, Choose,
       Ready, BuildHome,
       LaunchAccepted
  <2>3. ASSUME NEW p \in Generated, SetAside(p)  PROVE Kept
    BY <1>1, <2>3 DEF ToolsInv, Staging, InStaging, NoShell, SetAside
  <2>4. CASE PlainResume \/ BeginResume \/ BootstrapFails \/ ChildEnds
    <3>1. CASE PlainResume \/ BootstrapFails \/ ChildEnds
      BY <1>1, <3>1 DEF PlainResume, BootstrapFails, ChildEnds, NoShell
    <3>2. CASE BeginResume
      BY <1>1, <3>2 DEF BeginResume, ToolsInv, ChildOK
    <3>3. QED
      BY <2>4, <3>1, <3>2
  <2>5. CASE Decide
    BY <2>5 DEF Decide
  <2>6. CASE RestoreRecord \/ Unmark
    BY <1>1, <2>6 DEF ToolsInv, Finishing, Finished, Undo, ChildOK, RequestOK,
       RestoreRecord,
       Unmark
  <2>7. ASSUME NEW p \in Generated, Drop(p)  PROVE Kept
    BY <1>1, <2>7 DEF ToolsInv, Finishing, Undo, Drop
  <2>8. CASE Unlink \/ ShellKilled
    BY <2>8 DEF Unlink, ShellKilled, childFiles
  <2>9. CASE ClearCutOff
    BY <1>1, <2>9 DEF ClearCutOff, NoShell
  <2>10. QED
    BY <1>1, <2>1, <2>2, <2>3, <2>4, <2>5, <2>6, <2>7, <2>8, <2>9
    DEF ToolsNext, RequestStep, ShellStep
<1>2. ToolsInv /\ [ToolsNext]_toolsVars =>
        [shell.at = "running" /\ shell'.at = "running" => Kept]_toolsVars
  BY <1>1
<1>3. QED
  BY <1>2, ToolsInvariant, PTL DEF ToolsSpec, RunningKeepsSelection

-----------------------------------------------------------------------------
(* ChildResume.                                                               *)
(* ChildTypeOK, part by part.                                                 *)
StateOK == state \in States /\ credential \in 0..MaxIds /\ tombs \subseteq Ids
UndoOK == pending \in [gen : 0..MaxLaunches, id : 0..MaxIds, state : States,
                       token : 0..MaxIds, tomb : BOOLEAN]
LauncherOK ==
    /\ lock \in {"free", "launcher", "purge", "recovery"}
    /\ launcher \in [at : {"idle", "token", "state", "staged", "untomb", "prepared",
                           "started", "undo", "undoToken", "undoState", "undoTomb",
                           "undone"},
                     gen : 0..MaxLaunches, id : 0..MaxIds, fresh : BOOLEAN,
                     started : BOOLEAN]
OthersOK ==
    /\ session \in [at : {"none", "bootstrap", "resuming", "running", "cleanup",
                          "rmState", "rmToken"}, id : 0..MaxIds]
    /\ purge \in {"idle", "token", "state", "pending"}
    /\ recovery \in {"idle", "look", "write"}
BoundsOK == /\ ids \in Ids /\ handoff \in BOOLEAN /\ launches \in 0..MaxLaunches
            /\ registrar \in {"idle", "token", "state"} /\ crossed \in BOOLEAN
            /\ childFaults \in 0..MaxChildFaults

\* The parts are the type invariant.
LEMMA PartsOfChildTypeOK ==
    ChildTypeOK <=> StateOK /\ UndoOK /\ LauncherOK /\ OthersOK /\ BoundsOK
BY DEF ChildTypeOK, StateOK, UndoOK, LauncherOK, OthersOK, BoundsOK

(* A registration is in the middle of its pair, or got among others' steps.   *)
Exempt == crossed \/ registrar = "state"

Consistent == Exempt \/ (state.id # 0 => credential \in {0, state.id})

(* A state with content is of a registration, also the one in the undo        *)
(* record, which has a pair too: a rollback writes it back.                   *)
Shaped == state.shaped => state.id # 0

PendingPair == /\ \/ Exempt
                  \/ pending.state.id # 0 => pending.token \in {0, pending.state.id}
               /\ pending # NoPending => pending.gen # 0 /\ pending.id # 0
               /\ pending.state.shaped => pending.state.id # 0

(* The launcher changes registrations only while its undo record is there.    *)
LauncherHolds ==
    /\ launcher.at # "idle" => launcher.gen # 0
    /\ launcher.at \in {"token", "state", "untomb", "undoToken", "undoState", "undoTomb",
                        "undone"} => lock = "launcher"
    /\ launcher.at \in {"token", "state", "undoToken", "undoState", "undoTomb", "undone"}
          => pending # NoPending

(* A purge has removed the state by the time it removes the undo record.      *)
PurgeHolds == /\ purge # "idle" => lock = "purge"
              /\ Exempt \/ (purge = "pending" => state.id = 0)

RecoveryHolds == recovery = "write" => lock = "recovery"

(* What is one pair by the time the undo record goes.                         *)
Settled ==
    /\ launcher.at \in {"untomb", "prepared", "started"} /\ pending.gen = launcher.gen
          => Consistent
    /\ Exempt \/ (launcher.at = "undoState" => credential \in {0, pending.token})
    /\ launcher.at \in {"undoTomb", "undone"} => Consistent

(* OnePair, whoever has the lock.                                             *)
PairKept == pending = NoPending => Consistent

ChildInv ==
    /\ StateOK /\ UndoOK /\ LauncherOK /\ OthersOK /\ BoundsOK /\ Shaped /\ PendingPair
    /\ LauncherHolds /\ PurgeHolds /\ RecoveryHolds /\ Settled /\ PairKept

-----------------------------------------------------------------------------
\* What prepare_active_state, mark_retired and begin_resume write.
LEMMA WrittenStates ==
    ASSUME StateOK
    PROVE  /\ [id |-> state.id, shaped |-> TRUE, retired |-> FALSE, going |-> FALSE,
               old |-> FALSE] \in States
           /\ [state EXCEPT !.retired = TRUE, !.going = FALSE, !.old = FALSE] \in States
           /\ Written([state EXCEPT !.going = TRUE]) \in States
<1>1. state \in States
  BY DEF StateOK
<1>2. [id |-> state.id, shaped |-> TRUE, retired |-> FALSE, going |-> FALSE,
               old |-> FALSE] \in States
  BY <1>1 DEF States
<1>3. [state EXCEPT !.retired = TRUE, !.going = FALSE, !.old = FALSE] \in States
  BY <1>1 DEF States
<1>4. [state EXCEPT !.going = TRUE] \in States
  BY <1>1 DEF States
<1>5. [[state EXCEPT !.going = TRUE] EXCEPT !.old = FALSE] \in States
  BY <1>4 DEF States
<1>6. QED
  BY <1>2, <1>3, <1>5 DEF Written

\* The state becomes active.
LEMMA PrepareStateOK ==
    ASSUME ChildInv, Prepare
    PROVE  StateOK'
<1>1. state' = state \/ state' = [id |-> state.id, shaped |-> TRUE, retired |-> FALSE, going |-> FALSE,
               old |-> FALSE]
  BY DEF Prepare
<1>2. UNCHANGED <<credential, tombs>>
  BY DEF Prepare
<1>3. QED  BY <1>1, <1>2, WrittenStates DEF ChildInv, StateOK

\* The state becomes retained.
LEMMA MarkRetiredStateOK ==
    ASSUME ChildInv, MarkRetired
    PROVE  StateOK'
<1>1. state' = state \/ state' = [state EXCEPT !.retired = TRUE, !.going = FALSE, !.old = FALSE]
  BY DEF MarkRetired
<1>2. UNCHANGED <<credential, tombs>>
  BY DEF MarkRetired
<1>3. QED  BY <1>1, <1>2, WrittenStates DEF ChildInv, StateOK

\* The state is in the middle of a resume.
LEMMA ResumeChildStateOK ==
    ASSUME ChildInv, ResumeChild
    PROVE  StateOK'
<1>1. state' = state \/ state' = Written([state EXCEPT !.going = TRUE])
  BY DEF ResumeChild
<1>2. UNCHANGED <<credential, tombs>>
  BY DEF ResumeChild
<1>3. QED  BY <1>1, <1>2, WrittenStates DEF ChildInv, StateOK

\* The tombstone is of the state's registration.
LEMMA PurgeStateOK ==
    ASSUME ChildInv, Purge
    PROVE  StateOK'
<1>1. state.id \in Ids
  BY ChildResumeAssumption DEF ChildInv, StateOK, States, Shaped, Purge, Ids
<1>2. tombs' = tombs \cup {state.id} /\ UNCHANGED <<state, credential>>
  BY DEF Purge
<1>3. QED  BY <1>1, <1>2 DEF ChildInv, StateOK

\* The launcher rolls back, or is done.
LEMMA BeginUndoLauncherOK ==
    ASSUME ChildInv, BeginUndo
    PROVE  LauncherOK'
<1>1. CASE pending.gen = launcher.gen
  BY <1>1 DEF BeginUndo, Launch, ChildInv, LauncherOK
<1>2. CASE pending.gen # launcher.gen
  <2>1. launcher' = NoLauncher /\ lock' = lock
    BY <1>2 DEF BeginUndo
  <2>2. NoLauncher \in [at : {"idle", "token", "state", "staged", "untomb", "prepared",
                           "started", "undo", "undoToken", "undoState", "undoTomb",
                           "undone"},
                     gen : 0..MaxLaunches, id : 0..MaxIds, fresh : BOOLEAN,
                     started : BOOLEAN]
    BY ChildResumeAssumption DEF NoLauncher
  <2>3. QED  BY <2>1, <2>2 DEF ChildInv, LauncherOK
<1>3. QED BY <1>1, <1>2

-----------------------------------------------------------------------------
\* The undo record is written first, with the pair as it is.
LEMMA StageKeeps ==
    ASSUME ChildInv, NEW fresh \in BOOLEAN, Stage(fresh)
    PROVE  ChildInv'
<1>1. StateOK' /\ Shaped'
  BY DEF ChildInv, StateOK, Shaped, Stage
<1>2. UndoOK'
  BY ChildResumeAssumption DEF ChildInv, StateOK, UndoOK, BoundsOK, Stage,
     States, Ids, bounds, registration
<1>3. LauncherOK'
  BY ChildResumeAssumption DEF ChildInv, StateOK, LauncherOK, BoundsOK, Stage,
     States, Ids, bounds, registration
<1>4. OthersOK'
  BY DEF ChildInv, OthersOK, Stage
<1>5. BoundsOK'
  BY ChildResumeAssumption DEF ChildInv, BoundsOK, Stage, bounds, registration
<1>6. PendingPair'
  BY DEF ChildInv, BoundsOK, Shaped, PendingPair, PairKept, Stage, OwnState,
     Ids, Consistent, Exempt, bounds, registration
<1>7. LauncherHolds'
  BY DEF ChildInv, BoundsOK, LauncherHolds, Stage, NoPending, bounds,
     registration
<1>8. PurgeHolds'
  BY DEF ChildInv, PurgeHolds, Stage, Exempt, bounds, registration
<1>9. RecoveryHolds'
  BY DEF ChildInv, RecoveryHolds, Stage
<1>10. Settled'
  BY DEF ChildInv, Settled, Stage, Exempt, bounds, registration
<1>11. PairKept'
  BY DEF ChildInv, PairKept, Stage, Consistent, Exempt, bounds, registration
<1>12. QED  BY <1>1, <1>2, <1>3, <1>4, <1>5, <1>6, <1>7, <1>8, <1>9,
     <1>10, <1>11 DEF ChildInv

\* A token of another registration than the state's, but the undo record is there.
LEMMA StageTokenKeeps ==
    ASSUME ChildInv, StageToken
    PROVE  ChildInv'
<1>1. /\ UndoOK' /\ OthersOK' /\ BoundsOK' /\ Shaped' /\ PendingPair'
      /\ PurgeHolds' /\ RecoveryHolds'
  BY DEF ChildInv, UndoOK, OthersOK, BoundsOK, Shaped, PendingPair,
     PurgeHolds, RecoveryHolds, StageToken, bounds, Exempt, registration
<1>2. StateOK'
  BY DEF ChildInv, StateOK, LauncherOK, StageToken
<1>3. LauncherOK'
  BY DEF ChildInv, LauncherOK, StageToken, Launch
<1>4. LauncherHolds'
  BY DEF ChildInv, LauncherHolds, StageToken, Launch
<1>5. Settled'
  BY DEF ChildInv, Settled, StageToken, Launch, Exempt, bounds, registration
<1>6. PairKept'
  BY DEF ChildInv, LauncherHolds, PairKept, StageToken
<1>7. QED  BY <1>1, <1>2, <1>3, <1>4, <1>5, <1>6 DEF ChildInv

\* The pair is the new registration's.
LEMMA StageStateKeeps ==
    ASSUME ChildInv, StageState
    PROVE  ChildInv'
<1>1. BoundsOK'
  BY DEF ChildInv, BoundsOK, StageState, bounds, registration
<1>2. StateOK'
  BY DEF ChildInv, StateOK, LauncherOK, StageState, NoState, Written, States
<1>3. UndoOK'
  BY DEF ChildInv, UndoOK, StageState
<1>4. LauncherOK'
  BY DEF ChildInv, LauncherOK, StageState, Launch
<1>5. OthersOK'
  BY DEF ChildInv, OthersOK, StageState
<1>6. Shaped'
  BY DEF ChildInv, Shaped, StageState, NoState, Written
<1>7. PendingPair'
  BY DEF ChildInv, PendingPair, StageState, Exempt, bounds, registration
<1>8. LauncherHolds'
  BY DEF ChildInv, LauncherHolds, StageState, Launch
<1>9. PurgeHolds'
  BY DEF ChildInv, LauncherHolds, PurgeHolds, StageState, Exempt, bounds,
     registration
<1>10. RecoveryHolds'
  BY DEF ChildInv, LauncherHolds, RecoveryHolds, StageState
<1>11. Settled'
  BY DEF ChildInv, Settled, StageState, Launch, Exempt, bounds, registration
<1>12. PairKept'
  BY DEF ChildInv, LauncherHolds, PairKept, StageState
<1>13. QED  BY <1>1, <1>2, <1>3, <1>4, <1>5, <1>6, <1>7, <1>8, <1>9, <1>10,
     <1>11, <1>12 DEF ChildInv

\* Only a pair of one registration becomes active.
LEMMA PrepareKeeps ==
    ASSUME ChildInv, Prepare
    PROVE  ChildInv'
<1>1. BoundsOK'
  BY DEF ChildInv, BoundsOK, Prepare, bounds, registration
<1>2. StateOK'
  BY PrepareStateOK
<1>3. UndoOK'
  BY DEF ChildInv, UndoOK, Prepare
<1>4. LauncherOK'
  BY DEF ChildInv, LauncherOK, Prepare, Launch
<1>5. OthersOK'
  BY DEF ChildInv, OthersOK, Prepare
<1>6. Shaped'
  BY DEF ChildInv, Shaped, Prepare, MayPrepare, Joined
<1>7. PendingPair'
  BY DEF ChildInv, PendingPair, Prepare, Exempt, bounds, registration
<1>8. LauncherHolds'
  BY DEF ChildInv, LauncherOK, LauncherHolds, Prepare, Launch
<1>9. PurgeHolds'
  BY DEF ChildInv, PurgeHolds, Prepare, Exempt, bounds, registration
<1>10. RecoveryHolds'
  BY DEF ChildInv, RecoveryHolds, Prepare
<1>11. Settled'
  BY DEF ChildInv, LauncherOK, Settled, Prepare, MayPrepare, Joined, Launch,
     Consistent, Exempt, bounds, registration
<1>12. PairKept'
  BY DEF ChildInv, PairKept, Prepare, Consistent, Exempt, bounds, registration
<1>13. QED  BY <1>1, <1>2, <1>3, <1>4, <1>5, <1>6, <1>7, <1>8, <1>9, <1>10,
     <1>11, <1>12 DEF ChildInv

\* The tombstone is none of the pair.
LEMMA UntombKeeps ==
    ASSUME ChildInv, Untomb
    PROVE  ChildInv'
<1>1. /\ UndoOK' /\ OthersOK' /\ BoundsOK' /\ Shaped' /\ PendingPair'
      /\ PairKept'
  BY DEF ChildInv, UndoOK, OthersOK, BoundsOK, Shaped, PendingPair, PairKept,
     Untomb, bounds, Consistent, Exempt, registration
<1>2. StateOK'
  BY DEF ChildInv, StateOK, Untomb, Launch
<1>3. LauncherOK'
  BY DEF ChildInv, LauncherOK, Untomb, Launch
<1>4. LauncherHolds'
  BY DEF ChildInv, LauncherHolds, Untomb, Launch
<1>5. PurgeHolds'
  BY DEF ChildInv, LauncherHolds, PurgeHolds, Untomb, Exempt, bounds,
     registration
<1>6. RecoveryHolds'
  BY DEF ChildInv, LauncherHolds, RecoveryHolds, Untomb
<1>7. Settled'
  BY DEF ChildInv, Settled, Untomb, Launch, Consistent, Exempt, bounds,
     registration
<1>8. QED  BY <1>1, <1>2, <1>3, <1>4, <1>5, <1>6, <1>7 DEF ChildInv

\* A session changes no files.
LEMMA StartSessionKeeps ==
    ASSUME ChildInv, StartSession
    PROVE  ChildInv'
<1>1. /\ StateOK' /\ UndoOK' /\ BoundsOK' /\ Shaped' /\ PendingPair'
      /\ PurgeHolds' /\ RecoveryHolds' /\ PairKept'
  BY DEF ChildInv, StateOK, UndoOK, BoundsOK, Shaped, PendingPair, PurgeHolds,
     RecoveryHolds, PairKept, StartSession, material, bounds, Consistent,
     Exempt, registration
<1>2. LauncherOK'
  BY DEF ChildInv, StateOK, LauncherOK, StartSession, Launch, States
<1>3. OthersOK'
  BY DEF ChildInv, LauncherOK, OthersOK, StartSession
<1>4. LauncherHolds'
  BY DEF ChildInv, LauncherOK, LauncherHolds, StartSession, Launch
<1>5. Settled'
  BY ChildResumeAssumption DEF ChildInv, UndoOK, LauncherOK, Settled,
     StartSession, NoSession, Launch, material, bounds, Consistent, Exempt,
     registration
<1>6. QED  BY <1>1, <1>2, <1>3, <1>4, <1>5 DEF ChildInv

\* The undo record of a pair that is one registration's goes.
LEMMA FinishLaunchKeeps ==
    ASSUME ChildInv, FinishLaunch
    PROVE  ChildInv'
<1>1. StateOK' /\ Shaped' /\ RecoveryHolds'
  BY DEF ChildInv, StateOK, Shaped, RecoveryHolds, FinishLaunch
<1>2. UndoOK'
  BY ChildResumeAssumption DEF ChildInv, UndoOK, FinishLaunch, NoPending,
     NoState, States
<1>3. LauncherOK'
  BY ChildResumeAssumption DEF ChildInv, LauncherOK, FinishLaunch,
     NoLauncher
<1>4. OthersOK'
  BY DEF ChildInv, OthersOK, FinishLaunch
<1>5. BoundsOK'
  BY DEF ChildInv, BoundsOK, FinishLaunch, bounds, registration
<1>6. PendingPair'
  BY DEF ChildInv, PendingPair, FinishLaunch, NoPending, NoState, Exempt,
     bounds, registration
<1>7. LauncherHolds'
  BY DEF ChildInv, LauncherHolds, FinishLaunch, NoLauncher
<1>8. PurgeHolds'
  BY DEF ChildInv, PurgeHolds, FinishLaunch, Exempt, bounds, registration
<1>9. Settled'
  BY DEF ChildInv, Settled, FinishLaunch, NoLauncher, Exempt, bounds,
     registration
<1>10. PairKept'
  BY DEF ChildInv, Settled, PairKept, FinishLaunch, Consistent, Exempt,
     bounds, registration
<1>11. QED  BY <1>1, <1>2, <1>3, <1>4, <1>5, <1>6, <1>7, <1>8,
     <1>9, <1>10 DEF ChildInv

\* The undo record stays for the rollback.
LEMMA LaunchStopsKeeps ==
    ASSUME ChildInv, LaunchStops
    PROVE  ChildInv'
<1>1. /\ StateOK' /\ UndoOK' /\ OthersOK' /\ Shaped' /\ PendingPair'
      /\ PurgeHolds' /\ RecoveryHolds' /\ PairKept'
  BY DEF ChildInv, StateOK, UndoOK, OthersOK, Shaped, PendingPair, PurgeHolds,
     RecoveryHolds, PairKept, LaunchStops, material, Consistent, Exempt,
     bounds, registration
<1>2. LauncherOK'
  BY DEF ChildInv, LauncherOK, LaunchStops, Launch
<1>3. BoundsOK'
  BY ChildResumeAssumption DEF ChildInv, BoundsOK, LaunchStops, ChildFault,
     bounds, registration
<1>4. LauncherHolds'
  BY DEF ChildInv, LauncherHolds, LaunchStops, Launch
<1>5. Settled'
  BY DEF ChildInv, Settled, LaunchStops, Launch, Exempt, bounds, registration
<1>6. QED  BY <1>1, <1>2, <1>3, <1>4, <1>5 DEF ChildInv

\* The rollback starts under the same lock.
LEMMA StageFailsKeeps ==
    ASSUME ChildInv, StageFails
    PROVE  ChildInv'
<1>1. /\ StateOK' /\ UndoOK' /\ OthersOK' /\ Shaped' /\ PendingPair'
      /\ PurgeHolds' /\ RecoveryHolds' /\ PairKept'
  BY DEF ChildInv, StateOK, UndoOK, OthersOK, Shaped, PendingPair, PurgeHolds,
     RecoveryHolds, PairKept, StageFails, material, Consistent, Exempt,
     bounds, registration
<1>2. LauncherOK'
  BY DEF ChildInv, LauncherOK, StageFails, Launch
<1>3. BoundsOK'
  BY ChildResumeAssumption DEF ChildInv, BoundsOK, StageFails, ChildFault,
     bounds, registration
<1>4. LauncherHolds'
  BY DEF ChildInv, LauncherHolds, StageFails, Launch, material
<1>5. Settled'
  BY DEF ChildInv, Settled, StageFails, Launch, Exempt, bounds, registration
<1>6. QED  BY <1>1, <1>2, <1>3, <1>4, <1>5 DEF ChildInv

\* The rollback takes the lock, or leaves a record of another launch.
LEMMA BeginUndoKeeps ==
    ASSUME ChildInv, BeginUndo
    PROVE  ChildInv'
<1>1. /\ StateOK' /\ UndoOK' /\ OthersOK' /\ BoundsOK' /\ Shaped'
      /\ PendingPair' /\ PairKept'
  BY DEF ChildInv, StateOK, UndoOK, OthersOK, BoundsOK, Shaped, PendingPair,
     PairKept, BeginUndo, material, bounds, Consistent, Exempt, registration
<1>2. LauncherOK'
  BY BeginUndoLauncherOK
<1>3. LauncherHolds'
  BY DEF ChildInv, LauncherOK, LauncherHolds, BeginUndo, Launch, NoLauncher,
     material, NoPending
<1>4. PurgeHolds'
  BY DEF ChildInv, PurgeHolds, BeginUndo, Exempt, bounds, registration
<1>5. RecoveryHolds'
  BY DEF ChildInv, RecoveryHolds, BeginUndo
<1>6. Settled'
  BY DEF ChildInv, LauncherOK, Settled, BeginUndo, Launch, NoLauncher, Exempt,
     bounds, registration
<1>7. QED  BY <1>1, <1>2, <1>3, <1>4, <1>5, <1>6 DEF ChildInv

\* The token is the undo record's again.
LEMMA UndoTokenKeeps ==
    ASSUME ChildInv, UndoToken
    PROVE  ChildInv'
<1>1. /\ UndoOK' /\ OthersOK' /\ BoundsOK' /\ Shaped' /\ PendingPair'
      /\ PurgeHolds' /\ RecoveryHolds'
  BY DEF ChildInv, UndoOK, OthersOK, BoundsOK, Shaped, PendingPair,
     PurgeHolds, RecoveryHolds, UndoToken, bounds, Exempt, registration
<1>2. StateOK'
  BY DEF ChildInv, StateOK, UndoOK, UndoToken
<1>3. LauncherOK'
  BY DEF ChildInv, LauncherOK, UndoToken, Launch
<1>4. LauncherHolds'
  BY DEF ChildInv, LauncherHolds, UndoToken, Launch
<1>5. Settled'
  BY DEF ChildInv, Settled, UndoToken, Launch, Exempt, bounds, registration
<1>6. PairKept'
  BY DEF ChildInv, PairKept, UndoToken, NoPending, Consistent, Exempt, bounds,
     registration
<1>7. QED  BY <1>1, <1>2, <1>3, <1>4, <1>5, <1>6 DEF ChildInv

\* So is the state, and they were a pair.
LEMMA UndoStateKeepsInv ==
    ASSUME ChildInv, UndoState
    PROVE  ChildInv'
<1>1. BoundsOK' /\ RecoveryHolds'
  BY DEF ChildInv, BoundsOK, RecoveryHolds, UndoState, bounds, registration
<1>2. StateOK'
  BY DEF ChildInv, StateOK, UndoOK, UndoState, Written, States
<1>3. UndoOK'
  BY DEF ChildInv, UndoOK, UndoState
<1>4. LauncherOK'
  BY DEF ChildInv, LauncherOK, UndoState, Launch
<1>5. OthersOK'
  BY DEF ChildInv, OthersOK, UndoState
<1>6. Shaped'
  BY DEF ChildInv, Shaped, PendingPair, UndoState, Written, Exempt, bounds,
     registration
<1>7. PendingPair'
  BY DEF ChildInv, PendingPair, UndoState, Exempt, bounds, registration
<1>8. LauncherHolds'
  BY DEF ChildInv, LauncherHolds, UndoState, Launch
<1>9. PurgeHolds'
  BY DEF ChildInv, LauncherHolds, PurgeHolds, UndoState, Exempt, bounds,
     registration
<1>10. Settled'
  BY DEF ChildInv, PendingPair, Settled, UndoState, Written, Consistent,
     Exempt, bounds, registration
<1>11. PairKept'
  BY DEF ChildInv, PairKept, UndoState, Written, NoPending, NoState,
     Consistent, Exempt, bounds, registration
<1>12. QED  BY <1>1, <1>2, <1>3, <1>4, <1>5, <1>6, <1>7, <1>8, <1>9,
     <1>10, <1>11 DEF ChildInv

\* And the tombstone.
LEMMA UndoTombKeeps ==
    ASSUME ChildInv, UndoTomb
    PROVE  ChildInv'
<1>1. /\ UndoOK' /\ OthersOK' /\ BoundsOK' /\ Shaped' /\ PendingPair'
      /\ PurgeHolds' /\ RecoveryHolds' /\ PairKept'
  BY DEF ChildInv, UndoOK, OthersOK, BoundsOK, Shaped, PendingPair,
     PurgeHolds, RecoveryHolds, PairKept, UndoTomb, bounds, Consistent,
     Exempt, registration
<1>2. StateOK'
  BY DEF ChildInv, StateOK, UndoOK, PendingPair, UndoTomb, Launch, Ids,
     NoPending, Exempt, bounds, registration
<1>3. LauncherOK'
  BY DEF ChildInv, LauncherOK, UndoTomb, Launch
<1>4. LauncherHolds'
  BY DEF ChildInv, LauncherHolds, UndoTomb, Launch
<1>5. Settled'
  BY DEF ChildInv, Settled, UndoTomb, Launch, Consistent, Exempt, bounds,
     registration
<1>6. QED  BY <1>1, <1>2, <1>3, <1>4, <1>5 DEF ChildInv

\* The undo record goes when all is as it was.
LEMMA UndoneKeeps ==
    ASSUME ChildInv, Undone
    PROVE  ChildInv'
<1>1. StateOK' /\ BoundsOK' /\ Shaped'
  BY DEF ChildInv, StateOK, BoundsOK, Shaped, Undone, bounds, registration
<1>2. UndoOK'
  BY ChildResumeAssumption DEF ChildInv, UndoOK, Undone, NoPending, NoState,
     States
<1>3. LauncherOK'
  BY ChildResumeAssumption DEF ChildInv, LauncherOK, Undone, NoLauncher
<1>4. OthersOK'
  BY ChildResumeAssumption DEF ChildInv, OthersOK, Undone, NoSession
<1>5. PendingPair'
  BY DEF ChildInv, PendingPair, Undone, NoPending, NoState, Exempt, bounds,
     registration
<1>6. LauncherHolds'
  BY DEF ChildInv, LauncherHolds, Undone, NoLauncher
<1>7. PurgeHolds'
  BY DEF ChildInv, LauncherHolds, PurgeHolds, Undone, Exempt, bounds,
     registration
<1>8. RecoveryHolds'
  BY DEF ChildInv, LauncherHolds, RecoveryHolds, Undone
<1>9. Settled'
  BY DEF ChildInv, Settled, Undone, NoLauncher, Exempt, bounds, registration
<1>10. PairKept'
  BY DEF ChildInv, Settled, PairKept, Undone, Consistent, Exempt, bounds,
     registration
<1>11. QED  BY <1>1, <1>2, <1>3, <1>4, <1>5, <1>6, <1>7, <1>8,
     <1>9, <1>10 DEF ChildInv

\* The undo record stays for the operator.
LEMMA LauncherDiesKeeps ==
    ASSUME ChildInv, LauncherDies
    PROVE  ChildInv'
<1>1. /\ StateOK' /\ UndoOK' /\ OthersOK' /\ Shaped' /\ PendingPair'
      /\ PairKept'
  BY DEF ChildInv, StateOK, UndoOK, OthersOK, Shaped, PendingPair, PairKept,
     LauncherDies, material, Consistent, Exempt, bounds, registration
<1>2. LauncherOK'
  BY ChildResumeAssumption DEF ChildInv, LauncherOK, LauncherDies,
     NoLauncher
<1>3. BoundsOK'
  BY ChildResumeAssumption DEF ChildInv, BoundsOK, LauncherDies, ChildFault,
     bounds, registration
<1>4. LauncherHolds'
  BY DEF ChildInv, LauncherHolds, LauncherDies, NoLauncher
<1>5. PurgeHolds'
  BY DEF ChildInv, PurgeHolds, LauncherDies, material, Exempt, bounds,
     registration
<1>6. RecoveryHolds'
  BY DEF ChildInv, RecoveryHolds, LauncherDies
<1>7. Settled'
  BY DEF ChildInv, Settled, LauncherDies, NoLauncher, Exempt, bounds,
     registration
<1>8. QED  BY <1>1, <1>2, <1>3, <1>4, <1>5, <1>6, <1>7 DEF ChildInv

\* The operator rolls back with the generation of the record.
LEMMA OperatorUndoesKeeps ==
    ASSUME ChildInv, OperatorUndoes
    PROVE  ChildInv'
<1>1. /\ StateOK' /\ UndoOK' /\ OthersOK' /\ BoundsOK' /\ Shaped'
      /\ PendingPair' /\ PurgeHolds' /\ RecoveryHolds' /\ PairKept'
  BY DEF ChildInv, StateOK, UndoOK, OthersOK, BoundsOK, Shaped, PendingPair,
     PurgeHolds, RecoveryHolds, PairKept, OperatorUndoes, material, bounds,
     Exempt, registration
<1>2. LauncherOK'
  BY DEF ChildInv, UndoOK, LauncherOK, OperatorUndoes
<1>3. LauncherHolds'
  BY DEF ChildInv, PendingPair, LauncherHolds, OperatorUndoes, Exempt, bounds,
     registration
<1>4. Settled'
  BY DEF ChildInv, Settled, OperatorUndoes, Exempt, bounds, registration
<1>5. QED  BY <1>1, <1>2, <1>3, <1>4 DEF ChildInv

\* A new registration touches nothing of the old one yet.
LEMMA RegisterKeeps ==
    ASSUME ChildInv, Register
    PROVE  ChildInv'
<1>1. /\ StateOK' /\ UndoOK' /\ LauncherOK' /\ OthersOK' /\ Shaped'
      /\ LauncherHolds' /\ RecoveryHolds'
  BY DEF ChildInv, StateOK, UndoOK, LauncherOK, OthersOK, Shaped,
     LauncherHolds, RecoveryHolds, Register, material
<1>2. BoundsOK'
  BY ChildResumeAssumption DEF ChildInv, BoundsOK, Register, Ids
<1>3. PendingPair' /\ PurgeHolds' /\ Settled' /\ PairKept'
  BY DEF ChildInv, PendingPair, PurgeHolds, Settled, PairKept, Register, material,
     Consistent, Exempt
<1>4. QED  BY <1>1, <1>2, <1>3 DEF ChildInv

\* With the new token the pair is open until its state is written.
LEMMA PersistTokenKeeps ==
    ASSUME ChildInv, PersistToken
    PROVE  ChildInv'
<1>1. /\ UndoOK' /\ LauncherOK' /\ OthersOK' /\ BoundsOK' /\ Shaped'
      /\ LauncherHolds' /\ RecoveryHolds'
  BY DEF ChildInv, UndoOK, LauncherOK, OthersOK, BoundsOK, Shaped,
     LauncherHolds, RecoveryHolds, PersistToken
<1>2. StateOK'
  BY ChildResumeAssumption DEF ChildInv, StateOK, BoundsOK, PersistToken, Ids
<1>3. Exempt'
  BY DEF PersistToken, Exempt
<1>4. PendingPair' /\ PurgeHolds' /\ Settled' /\ PairKept'
  BY <1>3 DEF ChildInv, PendingPair, PurgeHolds, Settled, PairKept, PersistToken,
     Consistent
<1>5. QED  BY <1>1, <1>2, <1>3, <1>4 DEF ChildInv

\* NobodyAtWork, with its own token still there, the state makes the pair.
LEMMA PersistStateKeeps ==
    ASSUME ChildInv, PersistState
    PROVE  ChildInv'
<1>1. /\ UndoOK' /\ LauncherOK' /\ OthersOK' /\ BoundsOK'
      /\ LauncherHolds' /\ RecoveryHolds'
  BY DEF ChildInv, UndoOK, LauncherOK, OthersOK, BoundsOK, LauncherHolds,
     RecoveryHolds, PersistState
<1>2. StateOK' /\ Shaped'
  <2>1. state' = [id |-> ids, shaped |-> FALSE, retired |-> FALSE, going |-> FALSE,
                  old |-> FALSE]
    BY DEF PersistState, NoState
  <2>2. UNCHANGED <<credential, tombs>>
    BY DEF PersistState
  <2>3. ids \in 0..MaxIds
    BY ChildResumeAssumption DEF ChildInv, BoundsOK, Ids
  <2>4. QED
    BY <2>1, <2>2, <2>3 DEF ChildInv, StateOK, Shaped, States
<1>3. crossed' \/ (lock = "free" /\ pending = NoPending /\ credential' = state'.id)
  BY DEF PersistState, NoState, NobodyAtWork
<1>4. Consistent'
  BY <1>3 DEF Consistent, Exempt
<1>5. PendingPair'
  BY <1>3 DEF ChildInv, PendingPair, PersistState, Exempt, NoPending, NoState
<1>6. PurgeHolds'
  BY <1>3 DEF ChildInv, PurgeHolds, PersistState, Exempt
<1>7. Settled' /\ PairKept'
  BY <1>3, <1>4 DEF ChildInv, LauncherHolds, Settled, PairKept, PersistState, Exempt
<1>8. QED  BY <1>1, <1>2, <1>5, <1>6, <1>7 DEF ChildInv

\* A registration that was cut off in its pair is remembered.
LEMMA RegistrarDiesKeeps ==
    ASSUME ChildInv, RegistrarDies
    PROVE  ChildInv'
<1>1. /\ StateOK' /\ UndoOK' /\ LauncherOK' /\ OthersOK' /\ Shaped'
      /\ LauncherHolds' /\ RecoveryHolds'
  BY DEF ChildInv, StateOK, UndoOK, LauncherOK, OthersOK, Shaped,
     LauncherHolds, RecoveryHolds, RegistrarDies, material
<1>2. BoundsOK'
  BY ChildResumeAssumption DEF ChildInv, BoundsOK, RegistrarDies, ChildFault
<1>3. PendingPair' /\ PurgeHolds' /\ Settled' /\ PairKept'
  BY DEF ChildInv, PendingPair, PurgeHolds, Settled, PairKept, RegistrarDies,
     material, Consistent, Exempt
<1>4. QED  BY <1>1, <1>2, <1>3 DEF ChildInv

\* A session changes no files.
LEMMA OpenResumeKeeps ==
    ASSUME ChildInv, OpenResume
    PROVE  ChildInv'
<1>1. /\ StateOK' /\ UndoOK' /\ LauncherOK' /\ BoundsOK' /\ Shaped'
      /\ PendingPair' /\ LauncherHolds' /\ PurgeHolds' /\ RecoveryHolds'
      /\ Settled' /\ PairKept'
  BY DEF ChildInv, StateOK, UndoOK, LauncherOK, BoundsOK, Shaped, PendingPair,
     LauncherHolds, PurgeHolds, RecoveryHolds, Settled, PairKept, OpenResume,
     material, bounds, Consistent, Exempt, registration
<1>2. OthersOK'
  BY DEF ChildInv, StateOK, OthersOK, OpenResume, States
<1>3. QED  BY <1>1, <1>2 DEF ChildInv

\* The state stays that of the registration.
LEMMA ResumeChildKeeps ==
    ASSUME ChildInv, ResumeChild
    PROVE  ChildInv'
<1>1. BoundsOK' /\ RecoveryHolds'
  BY DEF ChildInv, BoundsOK, RecoveryHolds, ResumeChild, bounds, registration
<1>2. StateOK'
  BY ResumeChildStateOK
<1>3. UndoOK'
  BY DEF ChildInv, UndoOK, ResumeChild
<1>4. LauncherOK'
  BY DEF ChildInv, LauncherOK, ResumeChild
<1>5. OthersOK'
  BY ChildResumeAssumption DEF ChildInv, OthersOK, ResumeChild, NoSession
<1>6. Shaped'
  BY DEF ChildInv, StateOK, Shaped, ResumeChild, Written, States
<1>7. PendingPair'
  BY DEF ChildInv, PendingPair, ResumeChild, Exempt, bounds, registration
<1>8. LauncherHolds'
  BY DEF ChildInv, LauncherHolds, ResumeChild
<1>9. PurgeHolds'
  BY DEF ChildInv, PurgeHolds, ResumeChild, Exempt, bounds, registration
<1>10. Settled'
  BY DEF ChildInv, LauncherHolds, Settled, ResumeChild, MayResumeChild,
     NoPending, Consistent, Exempt, bounds, registration
<1>11. PairKept'
  BY DEF ChildInv, StateOK, PairKept, ResumeChild, Written, Consistent,
     States, Exempt, bounds, registration
<1>12. QED  BY <1>1, <1>2, <1>3, <1>4, <1>5, <1>6, <1>7, <1>8, <1>9,
     <1>10, <1>11 DEF ChildInv

\* The session goes on.
LEMMA UnretireKeeps ==
    ASSUME ChildInv, Unretire
    PROVE  ChildInv'
<1>1. /\ StateOK' /\ UndoOK' /\ LauncherOK' /\ BoundsOK' /\ Shaped'
      /\ PendingPair' /\ LauncherHolds' /\ PurgeHolds' /\ RecoveryHolds'
      /\ Settled' /\ PairKept'
  BY DEF ChildInv, StateOK, UndoOK, LauncherOK, BoundsOK, Shaped, PendingPair,
     LauncherHolds, PurgeHolds, RecoveryHolds, Settled, PairKept, Unretire,
     material, bounds, Consistent, Exempt, registration
<1>2. OthersOK'
  BY DEF ChildInv, OthersOK, Unretire
<1>3. QED  BY <1>1, <1>2 DEF ChildInv

\* The state stays that of the registration.
LEMMA CancelResumeKeeps ==
    ASSUME ChildInv, CancelResume
    PROVE  ChildInv'
<1>1. RecoveryHolds'
  BY DEF ChildInv, RecoveryHolds, CancelResume
<1>2. StateOK'
  BY DEF ChildInv, StateOK, CancelResume, Written, States
<1>3. UndoOK'
  BY DEF ChildInv, UndoOK, CancelResume
<1>4. LauncherOK'
  BY DEF ChildInv, LauncherOK, CancelResume
<1>5. OthersOK'
  BY ChildResumeAssumption DEF ChildInv, OthersOK, CancelResume, NoSession
<1>6. BoundsOK'
  BY ChildResumeAssumption DEF ChildInv, BoundsOK, CancelResume, ChildFault,
     bounds, registration
<1>7. Shaped'
  BY DEF ChildInv, Shaped, CancelResume, Written
<1>8. PendingPair'
  BY DEF ChildInv, PendingPair, CancelResume, Exempt, bounds, registration
<1>9. LauncherHolds'
  BY DEF ChildInv, LauncherHolds, CancelResume
<1>10. PurgeHolds'
  BY DEF ChildInv, PurgeHolds, CancelResume, Exempt, bounds, registration
<1>11. Settled'
  BY DEF ChildInv, Settled, CancelResume, Written, Consistent, Exempt, bounds,
     registration
<1>12. PairKept'
  BY DEF ChildInv, PairKept, CancelResume, Written, Consistent, Exempt,
     bounds, registration
<1>13. QED  BY <1>1, <1>2, <1>3, <1>4, <1>5, <1>6, <1>7, <1>8, <1>9, <1>10,
     <1>11, <1>12 DEF ChildInv

\* The cleanup starts.
LEMMA ExitKeeps ==
    ASSUME ChildInv, Exit
    PROVE  ChildInv'
<1>1. /\ StateOK' /\ UndoOK' /\ LauncherOK' /\ BoundsOK' /\ Shaped'
      /\ PendingPair' /\ LauncherHolds' /\ PurgeHolds' /\ RecoveryHolds'
      /\ Settled' /\ PairKept'
  BY DEF ChildInv, StateOK, UndoOK, LauncherOK, BoundsOK, Shaped, PendingPair,
     LauncherHolds, PurgeHolds, RecoveryHolds, Settled, PairKept, Exit,
     material, bounds, Consistent, Exempt, registration
<1>2. OthersOK'
  BY DEF ChildInv, OthersOK, Exit
<1>3. QED  BY <1>1, <1>2 DEF ChildInv

\* The state stays that of the registration.
LEMMA MarkRetiredKeeps ==
    ASSUME ChildInv, MarkRetired
    PROVE  ChildInv'
<1>1. BoundsOK' /\ RecoveryHolds'
  BY DEF ChildInv, BoundsOK, RecoveryHolds, MarkRetired, bounds, registration
<1>2. StateOK'
  BY MarkRetiredStateOK
<1>3. UndoOK'
  BY DEF ChildInv, UndoOK, MarkRetired
<1>4. LauncherOK'
  BY DEF ChildInv, LauncherOK, MarkRetired
<1>5. OthersOK'
  BY ChildResumeAssumption DEF ChildInv, OthersOK, MarkRetired, NoSession
<1>6. Shaped'
  BY DEF ChildInv, StateOK, Shaped, MarkRetired, States
<1>7. PendingPair'
  BY DEF ChildInv, PendingPair, MarkRetired, Exempt, bounds, registration
<1>8. LauncherHolds'
  BY DEF ChildInv, LauncherHolds, MarkRetired
<1>9. PurgeHolds'
  BY DEF ChildInv, PurgeHolds, MarkRetired, Exempt, bounds, registration
<1>10. Settled'
  BY DEF ChildInv, StateOK, Settled, MarkRetired, Consistent, States, Exempt,
     bounds, registration
<1>11. PairKept'
  BY DEF ChildInv, StateOK, PairKept, MarkRetired, Consistent, States, Exempt,
     bounds, registration
<1>12. QED  BY <1>1, <1>2, <1>3, <1>4, <1>5, <1>6, <1>7, <1>8, <1>9,
     <1>10, <1>11 DEF ChildInv

\* Without a state there is no pair to be wrong.
LEMMA RemoveStateKeeps ==
    ASSUME ChildInv, RemoveState
    PROVE  ChildInv'
<1>1. BoundsOK' /\ RecoveryHolds'
  BY DEF ChildInv, BoundsOK, RecoveryHolds, RemoveState, bounds, registration
<1>2. StateOK'
  BY ChildResumeAssumption DEF ChildInv, StateOK, RemoveState, NoState,
     States
<1>3. UndoOK'
  BY DEF ChildInv, UndoOK, RemoveState
<1>4. LauncherOK'
  BY DEF ChildInv, LauncherOK, RemoveState
<1>5. OthersOK'
  BY DEF ChildInv, OthersOK, RemoveState
<1>6. Shaped'
  BY DEF ChildInv, Shaped, RemoveState, NoState
<1>7. PendingPair'
  BY DEF ChildInv, PendingPair, RemoveState, Exempt, bounds, registration
<1>8. LauncherHolds'
  BY DEF ChildInv, LauncherHolds, RemoveState
<1>9. PurgeHolds'
  BY DEF ChildInv, PurgeHolds, RemoveState, NoState, Exempt, bounds,
     registration
<1>10. Settled'
  BY DEF ChildInv, Settled, RemoveState, NoState, Consistent, Exempt, bounds,
     registration
<1>11. PairKept'
  BY DEF ChildInv, PairKept, RemoveState, NoState, Consistent, Exempt, bounds,
     registration
<1>12. QED  BY <1>1, <1>2, <1>3, <1>4, <1>5, <1>6, <1>7, <1>8, <1>9,
     <1>10, <1>11 DEF ChildInv

\* Without a token neither.
LEMMA RemoveTokenKeeps ==
    ASSUME ChildInv, RemoveToken
    PROVE  ChildInv'
<1>1. /\ UndoOK' /\ LauncherOK' /\ BoundsOK' /\ Shaped' /\ PendingPair'
      /\ LauncherHolds' /\ PurgeHolds' /\ RecoveryHolds'
  BY DEF ChildInv, UndoOK, LauncherOK, BoundsOK, Shaped, PendingPair,
     LauncherHolds, PurgeHolds, RecoveryHolds, RemoveToken, bounds, Exempt,
     registration
<1>2. StateOK'
  BY ChildResumeAssumption DEF ChildInv, StateOK, RemoveToken
<1>3. OthersOK'
  BY ChildResumeAssumption DEF ChildInv, OthersOK, RemoveToken, NoSession
<1>4. Settled'
  BY DEF ChildInv, Settled, RemoveToken, Consistent, Exempt, bounds,
     registration
<1>5. PairKept'
  BY DEF ChildInv, PairKept, RemoveToken, Consistent, Exempt, bounds,
     registration
<1>6. QED  BY <1>1, <1>2, <1>3, <1>4, <1>5 DEF ChildInv

\* What the cleanup did not remove stays.
LEMMA SessionDiesKeeps ==
    ASSUME ChildInv, SessionDies
    PROVE  ChildInv'
<1>1. /\ StateOK' /\ UndoOK' /\ LauncherOK' /\ Shaped' /\ PendingPair'
      /\ LauncherHolds' /\ PurgeHolds' /\ RecoveryHolds' /\ Settled'
      /\ PairKept'
  BY DEF ChildInv, StateOK, UndoOK, LauncherOK, Shaped, PendingPair,
     LauncherHolds, PurgeHolds, RecoveryHolds, Settled, PairKept, SessionDies,
     material, Consistent, Exempt, bounds, registration
<1>2. OthersOK'
  BY ChildResumeAssumption DEF ChildInv, OthersOK, SessionDies, NoSession
<1>3. BoundsOK'
  BY ChildResumeAssumption DEF ChildInv, BoundsOK, SessionDies, ChildFault,
     bounds, registration
<1>4. QED  BY <1>1, <1>2, <1>3 DEF ChildInv

\* The purge takes the lock of a child that is not resuming.
LEMMA PurgeKeeps ==
    ASSUME ChildInv, Purge
    PROVE  ChildInv'
<1>1. /\ UndoOK' /\ BoundsOK' /\ Shaped' /\ PendingPair' /\ Settled'
      /\ PairKept'
  BY DEF ChildInv, UndoOK, BoundsOK, Shaped, PendingPair, Settled, PairKept,
     Purge, bounds, Consistent, Exempt, registration
<1>2. StateOK'
  BY PurgeStateOK
<1>3. LauncherOK'
  BY DEF ChildInv, LauncherOK, Purge
<1>4. OthersOK'
  BY DEF ChildInv, OthersOK, Purge
<1>5. LauncherHolds'
  BY DEF ChildInv, LauncherHolds, Purge
<1>6. PurgeHolds'
  BY DEF ChildInv, PurgeHolds, Purge, Exempt, bounds, registration
<1>7. RecoveryHolds'
  BY DEF ChildInv, RecoveryHolds, Purge
<1>8. QED  BY <1>1, <1>2, <1>3, <1>4, <1>5, <1>6, <1>7 DEF ChildInv

\* Without a token there is no pair to be wrong.
LEMMA PurgeTokenKeeps ==
    ASSUME ChildInv, PurgeToken
    PROVE  ChildInv'
<1>1. /\ UndoOK' /\ BoundsOK' /\ Shaped' /\ PendingPair'
      /\ LauncherHolds' /\ RecoveryHolds'
  BY DEF ChildInv, UndoOK, BoundsOK, Shaped, PendingPair, LauncherHolds,
     RecoveryHolds, PurgeToken, bounds, Exempt, registration
<1>2. StateOK'
  BY ChildResumeAssumption DEF ChildInv, StateOK, PurgeToken
<1>3. LauncherOK'
  BY DEF ChildInv, LauncherOK, PurgeToken
<1>4. OthersOK'
  BY DEF ChildInv, OthersOK, PurgeToken
<1>5. PurgeHolds'
  BY DEF ChildInv, PurgeHolds, PurgeToken, Exempt, bounds, registration
<1>6. Settled'
  BY DEF ChildInv, Settled, PurgeToken, Consistent, Exempt, bounds,
     registration
<1>7. PairKept'
  BY DEF ChildInv, PairKept, PurgeToken, Consistent, Exempt, bounds,
     registration
<1>8. QED  BY <1>1, <1>2, <1>3, <1>4, <1>5, <1>6, <1>7 DEF ChildInv

\* Without a state neither.
LEMMA PurgeStateKeeps ==
    ASSUME ChildInv, PurgeState
    PROVE  ChildInv'
<1>1. BoundsOK' /\ RecoveryHolds'
  BY DEF ChildInv, BoundsOK, RecoveryHolds, PurgeState, bounds, registration
<1>2. StateOK'
  BY ChildResumeAssumption DEF ChildInv, StateOK, PurgeState, NoState,
     States
<1>3. UndoOK'
  BY DEF ChildInv, UndoOK, PurgeState
<1>4. LauncherOK'
  BY DEF ChildInv, LauncherOK, PurgeState
<1>5. OthersOK'
  BY DEF ChildInv, OthersOK, PurgeState
<1>6. Shaped'
  BY DEF ChildInv, Shaped, PurgeState, NoState
<1>7. PendingPair'
  BY DEF ChildInv, PendingPair, PurgeState, Exempt, bounds, registration
<1>8. LauncherHolds'
  BY DEF ChildInv, LauncherHolds, PurgeState
<1>9. PurgeHolds'
  BY DEF ChildInv, PurgeHolds, PurgeState, NoState, Exempt, bounds,
     registration
<1>10. Settled'
  BY DEF ChildInv, Settled, PurgeState, NoState, Consistent, Exempt, bounds,
     registration
<1>11. PairKept'
  BY DEF ChildInv, PairKept, PurgeState, NoState, Consistent, Exempt, bounds,
     registration
<1>12. QED  BY <1>1, <1>2, <1>3, <1>4, <1>5, <1>6, <1>7, <1>8, <1>9,
     <1>10, <1>11 DEF ChildInv

\* The undo record goes last.
LEMMA PurgePendingKeeps ==
    ASSUME ChildInv, PurgePending
    PROVE  ChildInv'
<1>1. StateOK' /\ BoundsOK' /\ Shaped'
  BY DEF ChildInv, StateOK, BoundsOK, Shaped, PurgePending, bounds,
     registration
<1>2. UndoOK'
  BY ChildResumeAssumption DEF ChildInv, UndoOK, PurgePending, NoPending,
     NoState, States
<1>3. LauncherOK'
  BY DEF ChildInv, LauncherOK, PurgePending
<1>4. OthersOK'
  BY DEF ChildInv, OthersOK, PurgePending
<1>5. PendingPair'
  BY DEF ChildInv, PendingPair, PurgePending, NoPending, NoState, Exempt,
     bounds, registration
<1>6. LauncherHolds'
  BY DEF ChildInv, LauncherHolds, PurgeHolds, PurgePending, Exempt, bounds,
     registration
<1>7. PurgeHolds'
  BY DEF ChildInv, PurgeHolds, PurgePending, Exempt, bounds, registration
<1>8. RecoveryHolds'
  BY DEF ChildInv, PurgeHolds, RecoveryHolds, PurgePending, Exempt, bounds,
     registration
<1>9. Settled'
  BY DEF ChildInv, LauncherHolds, PurgeHolds, Settled, PurgePending,
     Consistent, Exempt, bounds, registration
<1>10. PairKept'
  BY DEF ChildInv, PurgeHolds, PairKept, PurgePending, Consistent, Exempt,
     bounds, registration
<1>11. QED  BY <1>1, <1>2, <1>3, <1>4, <1>5, <1>6, <1>7, <1>8,
     <1>9, <1>10 DEF ChildInv

\* What the purge did not remove stays.
LEMMA PurgeDiesKeeps ==
    ASSUME ChildInv, PurgeDies
    PROVE  ChildInv'
<1>1. /\ StateOK' /\ UndoOK' /\ Shaped' /\ PendingPair' /\ Settled'
      /\ PairKept'
  BY DEF ChildInv, StateOK, UndoOK, Shaped, PendingPair, Settled, PairKept,
     PurgeDies, material, Consistent, Exempt, bounds, registration
<1>2. LauncherOK'
  BY DEF ChildInv, LauncherOK, PurgeDies
<1>3. OthersOK'
  BY DEF ChildInv, OthersOK, PurgeDies
<1>4. BoundsOK'
  BY ChildResumeAssumption DEF ChildInv, BoundsOK, PurgeDies, ChildFault,
     bounds, registration
<1>5. LauncherHolds'
  BY DEF ChildInv, LauncherHolds, PurgeHolds, PurgeDies, Exempt, bounds,
     registration
<1>6. PurgeHolds'
  BY DEF ChildInv, PurgeHolds, PurgeDies, Exempt, bounds, registration
<1>7. RecoveryHolds'
  BY DEF ChildInv, PurgeHolds, RecoveryHolds, PurgeDies, Exempt, bounds,
     registration
<1>8. QED  BY <1>1, <1>2, <1>3, <1>4, <1>5, <1>6, <1>7 DEF ChildInv

\* A reboot changes no registration.
LEMMA RebootKeeps ==
    ASSUME ChildInv, Reboot
    PROVE  ChildInv'
<1>1. StateOK'
  BY DEF ChildInv, StateOK, Reboot, States
<1>2. UndoOK'
  BY DEF ChildInv, UndoOK, Reboot
<1>3. LauncherOK'
  BY ChildResumeAssumption DEF ChildInv, LauncherOK, Reboot, NoLauncher
<1>4. OthersOK'
  BY ChildResumeAssumption DEF ChildInv, OthersOK, Reboot, NoSession
<1>5. BoundsOK'
  BY ChildResumeAssumption DEF ChildInv, BoundsOK, Reboot, ChildFault, bounds,
     registration
<1>6. Shaped'
  BY DEF ChildInv, Shaped, Reboot
<1>7. PendingPair'
  BY DEF ChildInv, PendingPair, Reboot, Exempt, bounds, registration
<1>8. LauncherHolds'
  BY DEF ChildInv, LauncherHolds, Reboot, NoLauncher
<1>9. PurgeHolds'
  BY DEF ChildInv, PurgeHolds, Reboot, Exempt, bounds, registration
<1>10. RecoveryHolds'
  BY DEF ChildInv, RecoveryHolds, Reboot
<1>11. Settled'
  BY DEF Settled, Reboot, NoLauncher
<1>12. PairKept'
  <2>1. state'.id = state.id /\ credential' = credential /\ pending' = pending
    BY DEF ChildInv, StateOK, States, Reboot
  <2>2. Exempt => Exempt'
    BY DEF Exempt, Reboot
  <2>3. pending = NoPending => Consistent
    BY DEF ChildInv, PairKept
  <2>4. Consistent => Consistent'
    BY <2>1, <2>2 DEF Consistent
  <2>5. QED  BY <2>1, <2>3, <2>4 DEF PairKept
<1>13. QED  BY <1>1, <1>2, <1>3, <1>4, <1>5, <1>6, <1>7, <1>8, <1>9, <1>10,
     <1>11, <1>12 DEF ChildInv

\* The recovery looks for a child that was cut off.
LEMMA RecoverKeeps ==
    ASSUME ChildInv, Recover
    PROVE  ChildInv'
<1>1. /\ StateOK' /\ UndoOK' /\ BoundsOK' /\ Shaped' /\ PendingPair'
      /\ LauncherHolds' /\ PurgeHolds' /\ Settled' /\ PairKept'
  BY DEF ChildInv, StateOK, UndoOK, BoundsOK, Shaped, PendingPair,
     LauncherHolds, PurgeHolds, Settled, PairKept, Recover, material, bounds,
     Consistent, Exempt, registration
<1>2. LauncherOK'
  BY DEF ChildInv, LauncherOK, Recover
<1>3. OthersOK'
  BY DEF ChildInv, OthersOK, Recover
<1>4. RecoveryHolds'
  BY DEF ChildInv, RecoveryHolds, Recover
<1>5. QED  BY <1>1, <1>2, <1>3, <1>4 DEF ChildInv

\* It looks again under the lock.
LEMMA RecoverLookKeeps ==
    ASSUME ChildInv, RecoverLook
    PROVE  ChildInv'
<1>1. /\ StateOK' /\ UndoOK' /\ BoundsOK' /\ Shaped' /\ PendingPair'
      /\ Settled' /\ PairKept'
  BY DEF ChildInv, StateOK, UndoOK, BoundsOK, Shaped, PendingPair, Settled,
     PairKept, RecoverLook, material, bounds, Consistent, Exempt, registration
<1>2. LauncherOK'
  BY DEF ChildInv, LauncherOK, RecoverLook
<1>3. OthersOK'
  BY DEF ChildInv, OthersOK, RecoverLook
<1>4. LauncherHolds'
  BY DEF ChildInv, LauncherHolds, RecoverLook
<1>5. PurgeHolds'
  BY DEF ChildInv, PurgeHolds, RecoverLook, Exempt, bounds, registration
<1>6. RecoveryHolds'
  BY DEF ChildInv, RecoveryHolds, RecoverLook
<1>7. QED  BY <1>1, <1>2, <1>3, <1>4, <1>5, <1>6 DEF ChildInv

\* The state stays that of the registration.
LEMMA RecoverWriteKeeps ==
    ASSUME ChildInv, RecoverWrite
    PROVE  ChildInv'
<1>1. BoundsOK'
  BY DEF ChildInv, BoundsOK, RecoverWrite, bounds, registration
<1>2. StateOK'
  BY DEF ChildInv, StateOK, RecoverWrite, States
<1>3. UndoOK'
  BY DEF ChildInv, UndoOK, RecoverWrite
<1>4. LauncherOK'
  BY DEF ChildInv, LauncherOK, RecoverWrite
<1>5. OthersOK'
  BY DEF ChildInv, OthersOK, RecoverWrite
<1>6. Shaped'
  BY DEF ChildInv, Shaped, RecoverWrite
<1>7. PendingPair'
  BY DEF ChildInv, PendingPair, RecoverWrite, Exempt, bounds, registration
<1>8. LauncherHolds'
  BY DEF ChildInv, LauncherHolds, RecoveryHolds, RecoverWrite
<1>9. PurgeHolds'
  BY DEF ChildInv, PurgeHolds, RecoveryHolds, RecoverWrite, Exempt, bounds,
     registration
<1>10. RecoveryHolds'
  BY DEF ChildInv, RecoveryHolds, RecoverWrite
<1>11. Settled'
  BY DEF ChildInv, Settled, RecoverWrite, Consistent, Exempt, bounds,
     registration
<1>12. PairKept'
  BY DEF ChildInv, PairKept, RecoverWrite, Consistent, Exempt, bounds,
     registration
<1>13. QED  BY <1>1, <1>2, <1>3, <1>4, <1>5, <1>6, <1>7, <1>8, <1>9, <1>10,
     <1>11, <1>12 DEF ChildInv

\* At the start no child is registered, and nothing is under way.
LEMMA ChildInvStart == ChildInit => ChildInv
<1> SUFFICES ASSUME ChildInit  PROVE ChildInv
  OBVIOUS
<1>1. StateOK /\ Shaped
  BY ChildResumeAssumption DEF ChildInit, StateOK, Shaped, NoState, States
<1>2. UndoOK
  BY ChildResumeAssumption DEF ChildInit, UndoOK, NoState, NoPending, States
<1>3. LauncherOK /\ OthersOK
  BY ChildResumeAssumption DEF ChildInit, LauncherOK, OthersOK, NoLauncher, NoSession
<1>4. BoundsOK
  <2>1. ids \in Ids /\ launches \in 0..MaxLaunches /\ childFaults \in 0..MaxChildFaults
    BY ChildResumeAssumption DEF ChildInit, Ids
  <2>2. handoff \in BOOLEAN /\ crossed \in BOOLEAN /\ registrar \in {"idle", "token", "state"}
    BY DEF ChildInit
  <2>3. QED  BY <2>1, <2>2 DEF BoundsOK
<1>5. PendingPair
  BY DEF ChildInit, PendingPair, NoPending, NoState
<1>6. LauncherHolds /\ Settled
  BY DEF ChildInit, LauncherHolds, Settled, NoLauncher
<1>7. PurgeHolds /\ RecoveryHolds
  BY DEF ChildInit, PurgeHolds, RecoveryHolds
<1>8. PairKept
  BY DEF ChildInit, PairKept, Consistent, NoState
<1>9. QED
  BY <1>1, <1>2, <1>3, <1>4, <1>5, <1>6, <1>7, <1>8 DEF ChildInv

\* Every step of a launch, a resume, a purge, the recovery or a reboot keeps it.
LEMMA ChildInvStep == ChildInv /\ [ChildNext]_childVars => ChildInv'
<1> SUFFICES ASSUME ChildInv, [ChildNext]_childVars  PROVE ChildInv'
  OBVIOUS
<1>1. ASSUME NEW fresh \in BOOLEAN, Stage(fresh)  PROVE ChildInv'
  BY <1>1, StageKeeps
<1>2. CASE LauncherStep
  BY <1>2, StageTokenKeeps, StageStateKeeps, PrepareKeeps, UntombKeeps,
     StartSessionKeeps,
     FinishLaunchKeeps, BeginUndoKeeps, UndoTokenKeeps, UndoStateKeepsInv,
     UndoTombKeeps,
     UndoneKeeps DEF LauncherStep
<1>3. CASE \/ LaunchStops \/ StageFails \/ LauncherDies \/ OperatorUndoes
           \/ Register \/ PersistToken \/ PersistState \/ RegistrarDies
  BY <1>3, LaunchStopsKeeps, StageFailsKeeps, LauncherDiesKeeps,
     OperatorUndoesKeeps,
     RegisterKeeps, PersistTokenKeeps, PersistStateKeeps, RegistrarDiesKeeps
<1>4. CASE OpenResume \/ SessionStep \/ CancelResume \/ Exit \/ SessionDies
  BY <1>4, OpenResumeKeeps, ResumeChildKeeps, UnretireKeeps, MarkRetiredKeeps,
     RemoveStateKeeps, RemoveTokenKeeps, CancelResumeKeeps, ExitKeeps,
     SessionDiesKeeps
  DEF SessionStep
<1>5. CASE Purge \/ PurgeStep \/ PurgeDies \/ Reboot
  BY <1>5, PurgeKeeps, PurgeTokenKeeps, PurgeStateKeeps, PurgePendingKeeps,
     PurgeDiesKeeps,
     RebootKeeps DEF PurgeStep
<1>6. CASE RecoveryStep
  BY <1>6, RecoverKeeps, RecoverLookKeeps, RecoverWriteKeeps DEF RecoveryStep
<1>7. CASE UNCHANGED childVars
  BY <1>7 DEF childVars, ChildInv, StateOK, UndoOK, LauncherOK, OthersOK,
     BoundsOK, Shaped, PendingPair, LauncherHolds, PurgeHolds, RecoveryHolds,
     Settled, PairKept, Consistent, Exempt, bounds, registration
<1>8. QED
  BY <1>1, <1>2, <1>3, <1>4, <1>5, <1>6, <1>7 DEF ChildNext

\* The inductive invariant of the kept registration.
LEMMA ChildInvariant == ChildSpec => []ChildInv
BY ChildInvStart, ChildInvStep, PTL DEF ChildSpec

\* Every variable of the resume material and its users keeps its type.
THEOREM ChildTypeCorrect == ChildSpec => []ChildTypeOK
<1>1. ChildInv => ChildTypeOK
  BY PartsOfChildTypeOK DEF ChildInv
<1>2. QED
  BY <1>1, ChildInvariant, PTL

\* With no undo record a state file and a token that are both there are of one
\* registration: no launch, rollback, purge, late cleanup, crash or reboot mixes
\* two (child_resume.py, cleanup-child-agent.sh), unless a registration was cut off
\* between its two unlocked replaces or fell among the steps of one of these
\* (agentstack-preregister-child).
THEOREM OnePairTheorem == ChildSpec => []OnePair
<1>1. ChildInv => OnePair
  BY DEF ChildInv, PairKept, Consistent, OnePair, Exempt, bounds, registration
<1>2. QED
  BY <1>1, ChildInvariant, PTL

-----------------------------------------------------------------------------
(* BridgeEvents.                                                              *)
\* The elements of a sequence: they stand at its positions.
LEMMA ToSetIn ==
    ASSUME NEW S, NEW s \in Seq(S)
    PROVE  /\ ToSet(s) \subseteq S
           /\ \A x : x \in ToSet(s) <=> \E i \in 1..Len(s) : s[i] = x
BY DEF ToSet

\* An element more.
LEMMA ToSetAppend ==
    ASSUME NEW S, NEW s \in Seq(S), NEW e \in S
    PROVE  /\ Append(s, e) \in Seq(S)
           /\ ToSet(Append(s, e)) = ToSet(s) \cup {e}
<1>1. Append(s, e) \in Seq(S)
  OBVIOUS
<1>2. ASSUME NEW x  PROVE x \in ToSet(Append(s, e)) <=> x \in ToSet(s) \/ x = e
  <2>1. /\ Len(Append(s, e)) = Len(s) + 1
        /\ \A i \in 1..(Len(s) + 1) : Append(s, e)[i] = IF i <= Len(s) THEN s[i] ELSE e
        /\ Len(s) \in Nat
    OBVIOUS
  <2>2. x \in ToSet(Append(s, e)) <=> \E i \in 1..(Len(s) + 1) : Append(s, e)[i] = x
    BY <1>1, <2>1, ToSetIn
  <2>3. x \in ToSet(s) <=> \E i \in 1..Len(s) : s[i] = x
    BY ToSetIn
  <2>4. QED  BY <2>1, <2>2, <2>3
<1>3. QED  BY <1>1, <1>2

\* The first element, and the rest.
LEMMA ToSetTail ==
    ASSUME NEW S, NEW s \in Seq(S), s # <<>>
    PROVE  /\ Tail(s) \in Seq(S) /\ Head(s) \in S
           /\ ToSet(s) = {Head(s)} \cup ToSet(Tail(s))
<1>1. Tail(s) \in Seq(S) /\ Head(s) \in S
  OBVIOUS
<1>2. ASSUME NEW x  PROVE x \in ToSet(s) <=> x = Head(s) \/ x \in ToSet(Tail(s))
  <2>1. /\ Len(Tail(s)) = Len(s) - 1 /\ Len(s) \in Nat \ {0}
        /\ \A i \in 1..(Len(s) - 1) : Tail(s)[i] = s[i + 1]
        /\ Head(s) = s[1]
    OBVIOUS
  <2>2. x \in ToSet(Tail(s)) <=> \E i \in 1..(Len(s) - 1) : Tail(s)[i] = x
    <3>1. x \in ToSet(Tail(s)) <=> \E i \in 1..Len(Tail(s)) : Tail(s)[i] = x
      BY <1>1, ToSetIn
    <3>2. QED  BY <2>1, <3>1
  <2>3. x \in ToSet(s) <=> \E i \in 1..Len(s) : s[i] = x
    BY ToSetIn
  <2>4. ASSUME NEW i \in 1..Len(s), s[i] = x  PROVE x = Head(s) \/ x \in ToSet(Tail(s))
    <3>1. CASE i = 1
      BY <2>1, <2>4, <3>1
    <3>2. CASE i # 1
      <4>1. i - 1 \in 1..(Len(s) - 1) /\ Tail(s)[i - 1] = s[(i - 1) + 1]
        BY <2>1, <3>2
      <4>2. QED  BY <2>2, <2>4, <4>1
    <3>3. QED  BY <3>1, <3>2
  <2>5. ASSUME NEW i \in 1..(Len(s) - 1), Tail(s)[i] = x  PROVE x \in ToSet(s)
    <3>1. i + 1 \in 1..Len(s) /\ s[i + 1] = x
      BY <2>1, <2>5
    <3>2. QED  BY <2>3, <3>1
  <2>6. x = Head(s) => x \in ToSet(s)
    BY <2>1, <2>3
  <2>7. QED  BY <2>2, <2>3, <2>4, <2>5, <2>6
<1>3. QED  BY <1>1, <1>2

\* Two sequences, one behind the other.
LEMMA ToSetConcat ==
    ASSUME NEW S, NEW s \in Seq(S), NEW t \in Seq(S)
    PROVE  /\ s \o t \in Seq(S)
           /\ ToSet(s \o t) = ToSet(s) \cup ToSet(t)
<1>1. s \o t \in Seq(S)
  OBVIOUS
<1>2. ASSUME NEW x  PROVE x \in ToSet(s \o t) <=> x \in ToSet(s) \/ x \in ToSet(t)
  <2>1. /\ Len(s \o t) = Len(s) + Len(t) /\ Len(s) \in Nat /\ Len(t) \in Nat
        /\ \A i \in 1..(Len(s) + Len(t)) :
              (s \o t)[i] = IF i <= Len(s) THEN s[i] ELSE t[i - Len(s)]
    OBVIOUS
  <2>2. x \in ToSet(s \o t) <=> \E i \in 1..(Len(s) + Len(t)) : (s \o t)[i] = x
    BY <1>1, <2>1, ToSetIn
  <2>3. /\ x \in ToSet(s) <=> \E i \in 1..Len(s) : s[i] = x
        /\ x \in ToSet(t) <=> \E i \in 1..Len(t) : t[i] = x
    BY ToSetIn
  <2>4. ASSUME NEW i \in 1..(Len(s) + Len(t)), (s \o t)[i] = x
        PROVE  x \in ToSet(s) \/ x \in ToSet(t)
    <3>1. CASE i <= Len(s)
      BY <2>1, <2>3, <2>4, <3>1
    <3>2. CASE ~(i <= Len(s))
      <4>1. i - Len(s) \in 1..Len(t) /\ t[i - Len(s)] = x
        BY <2>1, <2>4, <3>2
      <4>2. QED  BY <2>3, <4>1
    <3>3. QED  BY <3>1, <3>2
  <2>5. ASSUME NEW i \in 1..Len(s), s[i] = x  PROVE x \in ToSet(s \o t)
    BY <2>1, <2>2, <2>5
  <2>6. ASSUME NEW i \in 1..Len(t), t[i] = x  PROVE x \in ToSet(s \o t)
    <3>1. i + Len(s) \in 1..(Len(s) + Len(t)) /\ (s \o t)[i + Len(s)] = t[(i + Len(s)) - Len(s)]
      BY <2>1
    <3>2. (i + Len(s)) - Len(s) = i
      BY <2>1
    <3>3. QED  BY <2>2, <2>6, <3>1, <3>2
  <2>7. QED  BY <2>2, <2>3, <2>4, <2>5, <2>6
<1>3. QED  BY <1>1, <1>2

\* The rest from a position on.
LEMMA ToSetRest ==
    ASSUME NEW S, NEW s \in Seq(S), NEW i \in Nat \ {0}, i <= Len(s)
    PROVE  /\ SubSeq(s, i, Len(s)) \in Seq(S)
           /\ \A j \in i..Len(s) : s[j] \in ToSet(SubSeq(s, i, Len(s)))
<1> DEFINE t == SubSeq(s, i, Len(s))
<1>1. Len(s) \in Nat
  OBVIOUS
<1>2. t \in Seq(S) /\ Len(t) = Len(s) - i + 1
  BY <1>1
<1>3. \A k \in 1..(Len(s) - i + 1) : t[k] = s[i + k - 1]
  BY <1>1
<1>4. ASSUME NEW j \in i..Len(s)  PROVE s[j] \in ToSet(t)
  <2>1. j - i + 1 \in 1..(Len(s) - i + 1) /\ i + (j - i + 1) - 1 = j
    BY <1>1
  <2>2. t[j - i + 1] = s[j]
    BY <1>3, <2>1
  <2>3. QED
    BY <1>2, <2>1, <2>2, ToSetIn
<1>5. QED  BY <1>2, <1>4

(* A set of numbers that is not empty has a least element.                    *)
LEMMA LeastFile ==
    ASSUME NEW S, S \subseteq Nat, S # {}
    PROVE  \E x \in S : \A y \in S : x <= y
<1> DEFINE Less == OpToRel(<, Nat)
<1>1. IsWellFoundedOn(Less, Nat)
  BY NatLessThanWellFounded, Zenon DEF OpToRel
<1>2. PICK x \in S : \A y \in S : ~(<<y, x>> \in Less)
  <2> HIDE DEF Less
  <2> QED  BY <1>1, WFMin
<1>3. \A y \in S : ~(y < x)
  BY <1>2 DEF OpToRel
<1>4. QED  BY <1>3

EventsOf(q) == {r.event : r \in ToSet(q)}

(* The events of a file of rows, when it changes.                             *)
LEMMA EventsOfAppend ==
    ASSUME NEW q \in Seq(Row), NEW r \in Row
    PROVE  Append(q, r) \in Seq(Row) /\ EventsOf(Append(q, r)) = EventsOf(q) \cup {r.event}
<1>1. Append(q, r) \in Seq(Row) /\ ToSet(Append(q, r)) = ToSet(q) \cup {r}
  BY ToSetAppend
<1>2. QED  BY <1>1 DEF EventsOf

\* A backoff that passes changes no event.
LEMMA EventsOfDue ==
    ASSUME NEW q \in Seq(Row), NEW i \in DOMAIN q
    PROVE  /\ [q EXCEPT ![i].due = TRUE] \in Seq(Row)
           /\ EventsOf([q EXCEPT ![i].due = TRUE]) = EventsOf(q)
<1> DEFINE t == [q EXCEPT ![i].due = TRUE]
<1>1. Len(q) \in Nat /\ DOMAIN q = 1..Len(q) /\ \A j \in 1..Len(q) : q[j] \in Row
  OBVIOUS
<1>2. [q[i] EXCEPT !.due = TRUE] \in Row
  BY <1>1 DEF Row
<1>3. t = [q EXCEPT ![i] = [q[i] EXCEPT !.due = TRUE]]
  <2>1. q \in [1..Len(q) -> Row]
    OBVIOUS
  <2>2. QED  BY <2>1
<1>4. t \in Seq(Row) /\ Len(t) = Len(q)
  BY <1>1, <1>2, <1>3
<1>5. \A j \in 1..Len(q) : t[j].event = q[j].event
  BY <1>1, <1>3 DEF Row
<1> HIDE DEF t
<1>6. /\ \A x : x \in ToSet(q) <=> \E j \in 1..Len(q) : q[j] = x
      /\ \A x : x \in ToSet(t) <=> \E j \in 1..Len(q) : t[j] = x
  <2>1. \A x : x \in ToSet(t) <=> \E j \in 1..Len(t) : t[j] = x
    BY <1>4, ToSetIn
  <2>2. QED  BY <1>4, <2>1, ToSetIn
<1>7. EventsOf(t) = EventsOf(q)
  BY <1>5, <1>6 DEF EventsOf
<1>8. QED  BY <1>4, <1>7 DEF t

\* No event is a pair, NoEvent is none.
LEMMA EventIsOne == ASSUME NEW e \in Event PROVE e # NoEvent
<1>1. PICK s \in Sessions, n \in 1..MaxEvents : e = <<s, n>>
  BY DEF Event
<1>2. Len(<<s, n>>) = 2 /\ Len(<<>>) = 0
  OBVIOUS
<1>3. QED  BY <1>1, <1>2 DEF NoEvent

-----------------------------------------------------------------------------
(* BridgeTypeOK, part by part.                                                *)
Hooks == [at : {"idle", "waiting", "unheard", "writing"},
          n : 0..MaxEvents, file : Files \cup {0}]
Mains == [at : {"down", "starting", "bound", "draining", "serving"},
          file : Files \cup {0}, line : Nat \ {0}]
Stages == {"off", "started", "replaying", "recovering", "idle",
           "resolve", "token", "register", "show", "dead"}
Workers == [at : Stages, todo : SUBSET Files, file : Files \cup {0},
            line : Nat \ {0}, job : Event \cup {NoEvent},
            attempt : 0..MaxRegistrations, recovering : BOOLEAN]

HooksOK == hook \in [Sessions -> Hooks]
QueuesOK == backlog \in Seq(Event) /\ events \in Seq(Event)
SpoolOK == /\ spool \in Files \cup {0} /\ drains \subseteq Files
           /\ text \in [Files -> Seq(Event)]
MainOK == main \in Mains
WorkerOK == worker \in Workers
RetryOK == retry \in Seq(Row) /\ retryDrains \in Seq(Seq(Row))
IdentityOK == /\ binding \in [Sessions -> {"none", "saved", "unreadable"}]
              /\ token \subseteq Sessions
ShownOK == shown \in [Sessions -> [n : 0..MaxEvents, degraded : BOOLEAN]]
FatesOK == settled \cup forgotten \cup missed \cup detoured \subseteq Event

(* What a file is needed no more for.                                         *)
RetryEvents == EventsOf(retry) \cup UNION {EventsOf(d) : d \in ToSet(retryDrains)}
SpoolEvents == UNION {ToSet(text[f]) : f \in drains \cup ({spool} \ {0})}
Safe == InMemory \cup RetryEvents \cup settled \cup forgotten \cup missed

Processing == {"resolve", "token", "register", "show"}
HasJob ==
    /\ worker.at \in Processing => worker.job \in Event
    /\ worker.at \notin Processing => worker.job = NoEvent /\ worker.attempt = 0
    /\ worker.attempt > 0 => HasRow /\ ReplayedRow.event = worker.job
    /\ main.at = "down" => worker.at = "off"
    /\ worker.at = "started" => worker.line = 1

(* Of a file that is read, what comes before the line is safe.                *)
MainRead ==
    /\ main.at = "draining" => main.file # 0
    /\ main.file # 0 =>
          /\ main.line <= Len(text[main.file]) + 1
          /\ \A i \in 1..(main.line - 1) : text[main.file][i] \in Safe
WorkerRead ==
    /\ worker.file # 0 => worker.at = "recovering"
    /\ worker.file # 0 =>
          /\ worker.line <= Len(text[worker.file]) + 1
          /\ \A i \in 1..(worker.line - 1) : text[worker.file][i] \in Safe
RowsRead ==
    worker.at = "replaying" \/ worker.attempt > 0 =>
        \A i \in 1..(worker.line - 1) :
            retryDrains # <<>> /\ i <= Len(retryDrains[1])
            => retryDrains[1][i].event \in EventsOf(retry) \cup settled

(* A hook at work has an event, one that writes a file, and one that has      *)
(* finished left its event where it is safe or in a file still to be read.    *)
HasFile == \A s \in Sessions :
              /\ hook[s].at = "writing" => hook[s].file # 0
              /\ hook[s].at # "idle" => hook[s].n > 0
HookDone(s, n) == n < hook[s].n \/ (n = hook[s].n /\ hook[s].at = "idle")
NoneLost == \A s \in Sessions : \A n \in 1..MaxEvents :
                HookDone(s, n) => <<s, n>> \in Safe \cup SpoolEvents

(* The token comes before the registration.                                   *)
TokenFirst == /\ worker.at = "register" => Session \in token
              /\ registered \subseteq token

BridgeInv ==
    /\ HooksOK /\ QueuesOK /\ SpoolOK /\ MainOK /\ WorkerOK /\ RetryOK
    /\ IdentityOK /\ ShownOK /\ FatesOK
    /\ HasJob /\ MainRead /\ WorkerRead /\ RowsRead /\ HasFile /\ TokenFirst

-----------------------------------------------------------------------------
(* The worker's record, field by field.                                       *)
WorkerIs(w, a, t, f, l, j, k, r) ==
    /\ w \in Workers
    /\ w.at = a /\ w.todo = t /\ w.file = f /\ w.line = l
    /\ w.job = j /\ w.attempt = k /\ w.recovering = r

(* What the steps make of it.                                                 *)
LEMMA WorkerBecomes ==
    ASSUME NEW w \in Workers, NEW a \in Stages, NEW t \in SUBSET Files,
           NEW f \in Files \cup {0}, NEW l \in Nat \ {0}, NEW j \in Event \cup {NoEvent},
           NEW k \in 0..MaxRegistrations
    PROVE  /\ WorkerIs([w EXCEPT !.at = a],
                 a, w.todo, w.file, w.line, w.job, w.attempt, w.recovering)
           /\ WorkerIs([w EXCEPT !.line = l],
                 w.at, w.todo, w.file, l, w.job, w.attempt, w.recovering)
           /\ WorkerIs([w EXCEPT !.todo = t, !.line = l, !.file = f],
                 w.at, t, f, l, w.job, w.attempt, w.recovering)
           /\ WorkerIs([w EXCEPT !.file = f, !.line = l],
                 w.at, w.todo, f, l, w.job, w.attempt, w.recovering)
           /\ WorkerIs([w EXCEPT !.at = a, !.job = j, !.attempt = k],
                 a, w.todo, w.file, w.line, j, k, w.recovering)
           /\ WorkerIs([w EXCEPT !.line = l, !.at = a],
                 a, w.todo, w.file, l, w.job, w.attempt, w.recovering)
           /\ WorkerIs([w EXCEPT !.at = a, !.line = l],
                 a, w.todo, w.file, l, w.job, w.attempt, w.recovering)
           /\ WorkerIs([w EXCEPT !.job = j, !.attempt = k, !.at = a, !.line = l],
                 a, w.todo, w.file, l, j, k, w.recovering)
<1>1. WorkerIs([w EXCEPT !.at = a],
         a, w.todo, w.file, w.line, w.job, w.attempt, w.recovering)
  BY DEF WorkerIs, Workers
<1>2. WorkerIs([w EXCEPT !.line = l],
         w.at, w.todo, w.file, l, w.job, w.attempt, w.recovering)
  BY DEF WorkerIs, Workers
<1>3. WorkerIs([w EXCEPT !.todo = t, !.line = l, !.file = f],
         w.at, t, f, l, w.job, w.attempt, w.recovering)
  BY DEF WorkerIs, Workers
<1>4. WorkerIs([w EXCEPT !.file = f, !.line = l],
         w.at, w.todo, f, l, w.job, w.attempt, w.recovering)
  BY DEF WorkerIs, Workers
<1>5. WorkerIs([w EXCEPT !.at = a, !.job = j, !.attempt = k],
         a, w.todo, w.file, w.line, j, k, w.recovering)
  BY DEF WorkerIs, Workers
<1>6. WorkerIs([w EXCEPT !.line = l, !.at = a],
         a, w.todo, w.file, l, w.job, w.attempt, w.recovering)
  BY DEF WorkerIs, Workers
<1>7. WorkerIs([w EXCEPT !.at = a, !.line = l],
         a, w.todo, w.file, l, w.job, w.attempt, w.recovering)
  BY DEF WorkerIs, Workers
<1>8. WorkerIs([w EXCEPT !.job = j, !.attempt = k, !.at = a, !.line = l],
         a, w.todo, w.file, l, j, k, w.recovering)
  BY DEF WorkerIs, Workers
<1>9. QED  BY <1>1, <1>2, <1>3, <1>4, <1>5, <1>6, <1>7, <1>8

(* A worker that starts, or recovers anew, or is dead.                        *)
LEMMA WorkerAnew ==
    ASSUME NEW a \in Stages, BridgeAssumption
    PROVE  /\ WorkerIs(WorkerOff, "off", {}, 0, 1, NoEvent, 0, FALSE)
           /\ WorkerIs([WorkerOff EXCEPT !.at = a], a, {}, 0, 1, NoEvent, 0, FALSE)
           /\ WorkerIs([WorkerOff EXCEPT !.at = a, !.recovering = TRUE],
                 a, {}, 0, 1, NoEvent, 0, TRUE)
<1>1. WorkerIs(WorkerOff, "off", {}, 0, 1, NoEvent, 0, FALSE)
  <2>1. 0 \in 0..MaxRegistrations /\ 1 \in Nat \ {0}
    BY BridgeAssumption
  <2>2. QED  BY <2>1 DEF WorkerOff, WorkerIs, Workers, Stages
<1>2. WorkerOff \in Workers
  BY <1>1 DEF WorkerIs
<1>3. WorkerIs([WorkerOff EXCEPT !.at = a], a, {}, 0, 1, NoEvent, 0, FALSE)
  BY <1>1, <1>2 DEF WorkerIs, Workers
<1>4. WorkerIs([WorkerOff EXCEPT !.at = a, !.recovering = TRUE],
         a, {}, 0, 1, NoEvent, 0, TRUE)
  BY <1>1, <1>2 DEF WorkerIs, Workers
<1>5. QED  BY <1>1, <1>3, <1>4

\* A hook that is somewhere else.
LEMMA HookAs ==
    ASSUME NEW h \in Hooks, NEW a \in {"idle", "waiting", "unheard", "writing"},
           NEW n \in 0..MaxEvents
    PROVE  /\ [h EXCEPT !.at = a] \in Hooks /\ [h EXCEPT !.at = a].at = a
           /\ [h EXCEPT !.at = a].n = h.n /\ [h EXCEPT !.at = a].file = h.file
           /\ [h EXCEPT !.n = n, !.at = a] \in Hooks
           /\ [h EXCEPT !.n = n, !.at = a].at = a /\ [h EXCEPT !.n = n, !.at = a].n = n
BY DEF Hooks

-----------------------------------------------------------------------------
(* What is safe stays safe, but for a crash.                                  *)
LEMMA SafeSame ==
    ASSUME UNCHANGED <<events, retry, retryDrains, settled, forgotten>>,
           worker'.job = worker.job, missed \subseteq missed'
    PROVE  Safe \subseteq Safe'
BY DEF Safe, InMemory, RetryEvents, EventsOf

\* What is safe stays so while the queue grows.
LEMMA SafeMore ==
    ASSUME ToSet(events) \subseteq ToSet(events'), worker'.job = worker.job,
           UNCHANGED <<retry, retryDrains, settled, forgotten, missed>>
    PROVE  Safe \subseteq Safe'
BY DEF Safe, InMemory, RetryEvents, EventsOf

(* The job is done with: it is settled, or has its row.                       *)
LEMMA SafeJob ==
    ASSUME UNCHANGED <<events, retryDrains, forgotten, missed>>,
           EventsOf(retry) \subseteq EventsOf(retry'), settled \subseteq settled',
           worker.job # NoEvent => worker.job \in settled' \cup RetryEvents'
    PROVE  Safe \subseteq Safe'
BY DEF Safe, InMemory, RetryEvents

\* A hook takes no event from where it is safe.
LEMMA HookSafe ==
    ASSUME NEW s \in Sessions, HookStep(s) \/ BindingRots(s)
    PROVE  Safe \subseteq Safe'
<1> USE DEF fates
<1>1. CASE FireHook(s) \/ HookTimeout(s)
  BY <1>1, SafeSame DEF FireHook, HookTimeout
<1>2. CASE OpenSpool(s)
  BY <1>2, SafeSame DEF OpenSpool
<1>3. CASE WriteSpool(s)
  BY <1>3, SafeSame DEF WriteSpool
<1>4. CASE BindingRots(s)
  BY <1>4, SafeSame DEF BindingRots
<1>5. QED  BY <1>1, <1>2, <1>3, <1>4 DEF HookStep

\* Nor does the main thread.
LEMMA MainSafe ==
    ASSUME BridgeInv, MainStep
    PROVE  Safe \subseteq Safe'
<1> USE DEF fates
<1>1. CASE StartBridge
  <2>1. worker.job = NoEvent /\ worker'.job = NoEvent
    BY <1>1 DEF StartBridge, WorkerOff, BridgeInv, HasJob, Processing
  <2>2. QED  BY <1>1, <2>1, SafeSame DEF StartBridge
<1>2. CASE BindAndPublish \/ QueueSpool \/ MainEndsDrain
  BY <1>2, SafeSame DEF BindAndPublish, QueueSpool, MainEndsDrain
<1>3. CASE MainReadsDrain
  <2>1. text[main.file] \in Seq(Event) /\ main.line \in Nat \ {0}
    BY <1>3 DEF BridgeInv, SpoolOK, MainOK, Mains, MainRead, MainReadsDrain
  <2>2. LinesFrom(main.file, main.line) \in Seq(Event)
    BY <1>3, <2>1, ToSetRest DEF MainReadsDrain, LinesFrom
  <2>3. ToSet(events) \subseteq ToSet(events')
    BY <1>3, <2>2, ToSetConcat DEF MainReadsDrain, BridgeInv, QueuesOK
  <2>4. QED  BY <1>3, <2>3, SafeMore DEF MainReadsDrain
<1>4. CASE HandleConnection
  <2>1. Head(backlog) \in Event
    BY <1>4 DEF HandleConnection, BridgeInv, QueuesOK
  <2>2. events' = Append(events, Head(backlog))
    BY <1>4 DEF HandleConnection
  <2>3. ToSet(events) \subseteq ToSet(events')
    BY <2>1, <2>2, ToSetAppend DEF BridgeInv, QueuesOK
  <2>4. QED  BY <1>4, <2>3, SafeMore DEF HandleConnection
<1>5. QED  BY <1>1, <1>2, <1>3, <1>4 DEF MainStep

\* Nor does the worker with the spool, the queue or the clock,
LEMMA QueueSafe ==
    ASSUME BridgeInv,
           \/ ListDrains \/ OpenDrain \/ WorkerReadsDrain \/ WorkerEndsDrain
           \/ ReconcileBindings \/ TakeEvent \/ BackoffPasses
    PROVE  Safe \subseteq Safe'
<1> USE DEF fates
<1>1. CASE ListDrains
  BY <1>1, SafeSame DEF ListDrains, BridgeInv, WorkerOK, Workers, Stages
<1>2. CASE OpenDrain
  <2>1. worker'.job = worker.job
    BY <1>2 DEF OpenDrain, BridgeInv, WorkerOK, Workers, Stages
  <2>2. QED  BY <1>2, <2>1, SafeSame DEF OpenDrain
<1>3. CASE WorkerEndsDrain \/ ReconcileBindings
  <2>1. worker'.job = worker.job
    BY <1>3 DEF WorkerEndsDrain, ReconcileBindings, BridgeInv, WorkerOK,
       Workers, Stages
  <2>2. QED  BY <1>3, <2>1, SafeSame DEF WorkerEndsDrain, ReconcileBindings
<1>4. CASE WorkerReadsDrain
  <2>1. text[worker.file] \in Seq(Event) /\ worker.line \in Nat \ {0}
    BY <1>4 DEF BridgeInv, SpoolOK, WorkerOK, Workers, Stages, WorkerReadsDrain
  <2>2. LinesFrom(worker.file, worker.line) \in Seq(Event)
    BY <1>4, <2>1, ToSetRest DEF WorkerReadsDrain, LinesFrom
  <2>3. ToSet(events) \subseteq ToSet(events')
    BY <1>4, <2>2, ToSetConcat DEF WorkerReadsDrain, BridgeInv, QueuesOK
  <2>4. worker'.job = worker.job
    BY <1>4 DEF WorkerReadsDrain, BridgeInv, WorkerOK, Workers, Stages
  <2>5. QED  BY <1>4, <2>3, <2>4, SafeMore DEF WorkerReadsDrain
<1>5. CASE TakeEvent
  <2>1. worker.job = NoEvent
    BY <1>5 DEF TakeEvent, BridgeInv, HasJob, Processing
  <2>2. worker'.job = Head(events) /\ events' = Tail(events)
    BY <1>5 DEF TakeEvent, BridgeInv, WorkerOK, Workers, Stages
  <2>3. Head(events) \in Event /\ ToSet(events) = {Head(events)} \cup ToSet(Tail(events))
    BY <1>5, ToSetTail DEF TakeEvent, BridgeInv, QueuesOK
  <2>4. Head(events) # NoEvent
    BY <2>3, EventIsOne
  <2>5. InMemory \subseteq InMemory'
    BY <2>1, <2>2, <2>3, <2>4 DEF InMemory
  <2>6. QED  BY <1>5, <2>5 DEF TakeEvent, Safe, RetryEvents, EventsOf
<1>6. CASE BackoffPasses
  <2>1. EventsOf(retry') = EventsOf(retry)
    BY <1>6, EventsOfDue DEF BackoffPasses, BridgeInv, RetryOK
  <2>2. QED  BY <1>6, <2>1 DEF BackoffPasses, Safe, InMemory, RetryEvents
<1>7. QED  BY <1>1, <1>2, <1>3, <1>4, <1>5, <1>6

\* The row of a replay is in the retry drain that is read.
LEMMA RowHeld ==
    ASSUME BridgeInv, HasRow
    PROVE  /\ retryDrains[1] \in Seq(Row) /\ retryDrains[1] \in ToSet(retryDrains)
           /\ worker.line \in 1..Len(retryDrains[1])
           /\ ReplayedRow \in Row /\ ReplayedRow.event \in Event
           /\ ReplayedRow.event \in RetryEvents
<1>1. retryDrains # <<>> /\ worker.line <= Len(retryDrains[1]) /\ worker.line \in Nat \ {0}
  BY DEF HasRow, BridgeInv, WorkerOK, Workers, Stages
<1>2. retryDrains \in Seq(Seq(Row)) /\ 1 \in 1..Len(retryDrains)
  BY <1>1 DEF BridgeInv, RetryOK
<1>3. retryDrains[1] \in Seq(Row) /\ retryDrains[1] \in ToSet(retryDrains)
  BY <1>2, ToSetIn
<1>4. worker.line \in 1..Len(retryDrains[1])
  BY <1>1, <1>3
<1>5. retryDrains[1][worker.line] \in ToSet(retryDrains[1])
  BY <1>3, <1>4, ToSetIn
<1>6. retryDrains[1][worker.line] \in Row
  BY <1>3, <1>4
<1>7. retryDrains[1][worker.line].event \in Event
  BY <1>6 DEF Row
<1>8. retryDrains[1][worker.line].event \in EventsOf(retryDrains[1])
  BY <1>5 DEF EventsOf
<1>9. retryDrains[1][worker.line].event \in RetryEvents
  BY <1>3, <1>8 DEF RetryEvents
<1>10. QED  BY <1>3, <1>4, <1>6, <1>7, <1>9 DEF ReplayedRow

(* The worker after each of its steps.                                        *)
LEMMA WorkerMoves ==
    ASSUME BridgeInv
    PROVE  /\ StartBridge => WorkerIs(worker', "started", {}, 0, 1, NoEvent, 0, FALSE)
           /\ OpenDrain => \E f \in worker.todo :
                 WorkerIs(worker', worker.at, worker.todo \ {f}, IF f \in drains THEN f ELSE 0,
                    1, worker.job, worker.attempt, worker.recovering)
           /\ WorkerReadsDrain =>
                 WorkerIs(worker', worker.at, worker.todo, worker.file,
                    Len(text[worker.file]) + 1, worker.job, worker.attempt,
                    worker.recovering)
           /\ WorkerEndsDrain =>
                 WorkerIs(worker', worker.at, worker.todo, 0, 1, worker.job, worker.attempt,
                    worker.recovering)
           /\ TakeEvent =>
                 WorkerIs(worker', "resolve", worker.todo, worker.file, worker.line,
                    Head(events), 0, worker.recovering)
           /\ StartReplay =>
                 WorkerIs(worker', "replaying", worker.todo, worker.file, 1, worker.job,
                    worker.attempt, worker.recovering)
           /\ PutOffRow \/ DropRow =>
                 WorkerIs(worker', worker.at, worker.todo, worker.file, worker.line + 1,
                    worker.job, worker.attempt, worker.recovering)
           /\ ReplayRow =>
                 WorkerIs(worker', "resolve", worker.todo, worker.file, worker.line,
                    ReplayedRow.event, ReplayedRow.attempt, worker.recovering)
<1>1. worker \in Workers
  BY DEF BridgeInv, WorkerOK
<1>2. /\ worker.todo \subseteq Files /\ worker.line \in Nat \ {0}
      /\ worker.file \in Files \cup {0} /\ worker.at \in Stages
      /\ worker.job \in Event \cup {NoEvent} /\ worker.attempt \in 0..MaxRegistrations
  BY <1>1 DEF Workers
<1>3. StartBridge => WorkerIs(worker', "started", {}, 0, 1, NoEvent, 0, FALSE)
  <2>1. "started" \in Stages
    BY DEF Stages
  <2>2. QED  BY <2>1, WorkerAnew, BridgeAssumption DEF StartBridge
<1>4. ASSUME OpenDrain
      PROVE  \E f \in worker.todo :
                 WorkerIs(worker', worker.at, worker.todo \ {f}, IF f \in drains THEN f ELSE 0,
                    1, worker.job, worker.attempt, worker.recovering)
  <2>1. PICK f \in worker.todo :
            worker' = [worker EXCEPT !.todo = worker.todo \ {f}, !.line = 1,
                                     !.file = IF f \in drains THEN f ELSE 0]
    BY <1>4 DEF OpenDrain
  <2>2. /\ worker.todo \ {f} \in SUBSET Files /\ 1 \in Nat \ {0}
        /\ (IF f \in drains THEN f ELSE 0) \in Files \cup {0}
    BY <1>2
  <2>3. QED  BY <1>1, <1>2, <2>1, <2>2, WorkerBecomes
<1>5. ASSUME WorkerReadsDrain
      PROVE  WorkerIs(worker', worker.at, worker.todo, worker.file,
                Len(text[worker.file]) + 1, worker.job, worker.attempt, worker.recovering)
  <2>1. Len(text[worker.file]) + 1 \in Nat \ {0}
    BY <1>2, <1>5 DEF WorkerReadsDrain, BridgeInv, SpoolOK
  <2> DEFINE l == Len(text[worker.file]) + 1
  <2>2. l \in Nat \ {0} /\ worker' = [worker EXCEPT !.line = l]
    BY <1>5, <2>1 DEF WorkerReadsDrain
  <2> HIDE DEF l
  <2>3. WorkerIs(worker', worker.at, worker.todo, worker.file, l, worker.job, worker.attempt,
           worker.recovering)
    BY <1>1, <1>2, <2>2, WorkerBecomes
  <2>4. QED  BY <2>3 DEF l
<1>6. ASSUME WorkerEndsDrain
      PROVE  WorkerIs(worker', worker.at, worker.todo, 0, 1, worker.job, worker.attempt,
                worker.recovering)
  <2>1. 1 \in Nat \ {0} /\ 0 \in Files \cup {0}
    OBVIOUS
  <2>2. worker' = [worker EXCEPT !.file = 0, !.line = 1]
    BY <1>6 DEF WorkerEndsDrain
  <2>3. QED  BY <1>1, <1>2, <2>1, <2>2, WorkerBecomes
<1>7. ASSUME TakeEvent
      PROVE  WorkerIs(worker', "resolve", worker.todo, worker.file, worker.line,
                Head(events), 0, worker.recovering)
  <2>1. Head(events) \in Event /\ "resolve" \in Stages /\ 0 \in 0..MaxRegistrations
    BY <1>7, BridgeAssumption DEF TakeEvent, BridgeInv, QueuesOK, Stages
  <2>2. worker' = [worker EXCEPT !.at = "resolve", !.job = Head(events), !.attempt = 0]
    BY <1>7 DEF TakeEvent
  <2> DEFINE e == Head(events)
  <2>3. e \in Event \cup {NoEvent} /\ worker' = [worker EXCEPT !.at = "resolve",
                                                            !.job = e, !.attempt = 0]
    BY <2>1, <2>2
  <2> HIDE DEF e
  <2>4. WorkerIs(worker', "resolve", worker.todo, worker.file, worker.line, e, 0,
           worker.recovering)
    BY <1>1, <1>2, <2>1, <2>3, WorkerBecomes
  <2>5. QED  BY <2>4 DEF e
<1>8. ASSUME StartReplay
      PROVE  WorkerIs(worker', "replaying", worker.todo, worker.file, 1, worker.job,
                worker.attempt, worker.recovering)
  <2>1. 1 \in Nat \ {0} /\ "replaying" \in Stages
    BY DEF Stages
  <2>2. worker' = [worker EXCEPT !.at = "replaying", !.line = 1]
    BY <1>8 DEF StartReplay
  <2>3. QED  BY <1>1, <1>2, <2>1, <2>2, WorkerBecomes
<1>9. ASSUME PutOffRow \/ DropRow
      PROVE  WorkerIs(worker', worker.at, worker.todo, worker.file, worker.line + 1,
                worker.job, worker.attempt, worker.recovering)
  <2>1. worker.line + 1 \in Nat \ {0}
    BY <1>2
  <2>2. worker' = [worker EXCEPT !.line = worker.line + 1]
    BY <1>9 DEF PutOffRow, DropRow
  <2>3. QED  BY <1>1, <1>2, <2>1, <2>2, WorkerBecomes
<1>10. ASSUME ReplayRow
       PROVE  WorkerIs(worker', "resolve", worker.todo, worker.file, worker.line,
                 ReplayedRow.event, ReplayedRow.attempt, worker.recovering)
  <2>1. /\ ReplayedRow.event \in Event /\ "resolve" \in Stages
        /\ ReplayedRow.attempt \in 0..MaxRegistrations
    BY <1>10, RowHeld, BridgeAssumption DEF ReplayRow, Row, Stages
  <2>2. worker' = [worker EXCEPT !.at = "resolve", !.job = ReplayedRow.event,
                                 !.attempt = ReplayedRow.attempt]
    BY <1>10 DEF ReplayRow
  <2>3. QED
    <3> DEFINE e == ReplayedRow.event
               n == ReplayedRow.attempt
    <3>1. e \in Event \cup {NoEvent} /\ n \in 0..MaxRegistrations
      BY <2>1
    <3>2. worker' = [worker EXCEPT !.at = "resolve", !.job = e, !.attempt = n]
      BY <2>2
    <3> HIDE DEF e, n
    <3>3. WorkerIs(worker', "resolve", worker.todo, worker.file, worker.line, e, n,
             worker.recovering)
      BY <1>1, <1>2, <2>1, <3>1, <3>2, WorkerBecomes
    <3>4. QED  BY <3>3 DEF e, n
<1>11. QED  BY <1>3, <1>4, <1>5, <1>6, <1>7, <1>8, <1>9, <1>10

(* The worker after an event, which it has done with.                         *)
LEMMA EventDone ==
    ASSUME BridgeInv
    PROVE  /\ Replaying => WorkerIs(AfterEvent, "replaying", worker.todo, worker.file,
                              worker.line + 1, NoEvent, 0, worker.recovering)
           /\ ~Replaying => WorkerIs(AfterEvent, "idle", worker.todo, worker.file,
                               worker.line, NoEvent, 0, worker.recovering)
<1>1. /\ worker \in Workers /\ worker.line \in Nat \ {0}
      /\ "replaying" \in Stages /\ "idle" \in Stages
      /\ 0 \in 0..MaxRegistrations /\ worker.line + 1 \in Nat \ {0}
      /\ NoEvent \in Event \cup {NoEvent}
  BY BridgeAssumption DEF BridgeInv, WorkerOK, Workers, Stages
<1>2. CASE Replaying
  <2>1. AfterEvent = [worker EXCEPT !.job = NoEvent, !.attempt = 0,
                                    !.at = "replaying", !.line = worker.line + 1]
    BY <1>2 DEF AfterEvent
  <2>2. QED  BY <1>1, <1>2, <2>1, WorkerBecomes
<1>3. CASE ~Replaying
  <2>1. AfterEvent = [worker EXCEPT !.job = NoEvent, !.attempt = 0,
                                    !.at = "idle", !.line = worker.line]
    BY <1>3 DEF AfterEvent
  <2>2. QED  BY <1>1, <1>3, <2>1, WorkerBecomes
<1>4. QED  BY <1>2, <1>3

(* The worker at the end of a retry drain.                                    *)
LEMMA ReplayDone ==
    ASSUME BridgeInv, EndReplay
    PROVE  \E a \in {"idle", "replaying", "recovering"} :
               WorkerIs(worker', a, worker.todo, worker.file, 1, worker.job,
                  worker.attempt, worker.recovering)
<1> DEFINE a == IF ~worker.recovering THEN "idle"
                ELSE IF Len(retryDrains) > 1 THEN "replaying" ELSE "recovering"
<1>1. worker' = [worker EXCEPT !.line = 1, !.at = a]
  BY DEF EndReplay
<1>2. a \in {"idle", "replaying", "recovering"}
  OBVIOUS
<1>3. a \in Stages /\ 1 \in Nat \ {0} /\ worker \in Workers
  BY DEF Stages, BridgeInv, WorkerOK
<1>  /\ worker.todo \in SUBSET Files /\ worker.file \in Files \cup {0}
     /\ worker.job \in Event \cup {NoEvent} /\ worker.attempt \in 0..MaxRegistrations
  BY <1>3 DEF Workers
<1> HIDE DEF a
<1>4. WorkerIs(worker', a, worker.todo, worker.file, 1, worker.job, worker.attempt,
         worker.recovering)
  BY <1>1, <1>3, WorkerBecomes
<1>5. QED  BY <1>2, <1>4

(* A row that is passed is settled, or has a row again.                       *)
LEMMA RowPassed ==
    ASSUME BridgeInv, worker.at = "replaying" \/ worker.attempt > 0, HasRow,
           retryDrains' = retryDrains, worker'.line = worker.line + 1,
           EventsOf(retry) \subseteq EventsOf(retry'), settled \subseteq settled',
           ReplayedRow.event \in EventsOf(retry') \cup settled'
    PROVE  RowsRead'
<1>1. worker.line \in Nat \ {0}
  BY DEF BridgeInv, WorkerOK, Workers
<1>2. ASSUME NEW i \in 1..(worker'.line - 1), retryDrains # <<>>, i <= Len(retryDrains[1])
      PROVE  retryDrains[1][i].event \in EventsOf(retry') \cup settled'
  <2>1. CASE i = worker.line
    BY <2>1 DEF ReplayedRow
  <2>2. CASE i # worker.line
    <3>1. i \in 1..(worker.line - 1)
      BY <1>1, <2>2
    <3>2. QED  BY <1>2, <3>1 DEF BridgeInv, RowsRead
  <2>3. QED  BY <2>1, <2>2
<1>3. QED  BY <1>2 DEF RowsRead

(* What a drain still has, read to its end, is in the queue.                  *)
LEMMA LinesQueued ==
    ASSUME BridgeInv, NEW f \in Files, NEW i \in Nat \ {0}, i <= Len(text[f]),
           events' = events \o LinesFrom(f, i)
    PROVE  /\ events' \in Seq(Event)
           /\ \A j \in i..Len(text[f]) : text[f][j] \in ToSet(events')
<1>1. text[f] \in Seq(Event) /\ events \in Seq(Event)
  BY DEF BridgeInv, SpoolOK, QueuesOK
<1>2. /\ LinesFrom(f, i) \in Seq(Event)
      /\ \A j \in i..Len(text[f]) : text[f][j] \in ToSet(LinesFrom(f, i))
  BY <1>1, ToSetRest DEF LinesFrom
<1>3. events' \in Seq(Event) /\ ToSet(events') = ToSet(events) \cup ToSet(LinesFrom(f, i))
  BY <1>1, <1>2, ToSetConcat
<1>4. QED  BY <1>2, <1>3

(* A registration that fails leaves the event settled or with a row.          *)
LEMMA RegistrationRefused ==
    ASSUME BridgeInv, RegistrationFails
    PROVE  /\ retry' \in Seq(Row) /\ EventsOf(retry) \subseteq EventsOf(retry')
           /\ settled \subseteq settled'
           /\ worker.job \in EventsOf(retry') \cup settled'
<1>1. CASE worker.attempt + 1 >= MaxRegistrations
  BY <1>1 DEF RegistrationFails, BridgeInv, RetryOK, EventsOf
<1>2. CASE ~(worker.attempt + 1 >= MaxRegistrations)
  <2> DEFINE r == [event |-> worker.job, due |-> FALSE, attempt |-> worker.attempt + 1]
  <2>1. retry' = Append(retry, r) /\ settled' = settled
    BY <1>2 DEF RegistrationFails
  <2>2. worker.attempt + 1 \in 1..MaxRegistrations /\ worker.job \in Event
    BY <1>2, BridgeAssumption
    DEF RegistrationFails, BridgeInv, WorkerOK, Workers, HasJob, Processing
  <2>3. r \in Row /\ r.event = worker.job
    BY <2>2 DEF Row
  <2>4. EventsOf(retry') = EventsOf(retry) \cup {worker.job} /\ retry' \in Seq(Row)
    BY <2>1, <2>3, EventsOfAppend DEF BridgeInv, RetryOK
  <2>5. QED  BY <2>1, <2>4
<1>3. QED  BY <1>1, <1>2

(* An event that is done with leaves the replay one row further.              *)
LEMMA JobPassed ==
    ASSUME BridgeInv, worker.at \in Processing, worker' = AfterEvent,
           retryDrains' = retryDrains, EventsOf(retry) \subseteq EventsOf(retry'),
           settled \subseteq settled', worker.job \in EventsOf(retry') \cup settled'
    PROVE  WorkerOK' /\ RowsRead'
<1>1. CASE Replaying
  <2>1. WorkerIs(worker', "replaying", worker.todo, worker.file, worker.line + 1, NoEvent, 0,
           worker.recovering)
    BY <1>1, EventDone
  <2>2. HasRow /\ ReplayedRow.event = worker.job
    BY <1>1 DEF Replaying, BridgeInv, HasJob
  <2>3. RowsRead'
    BY <1>1, <2>1, <2>2, RowPassed DEF WorkerIs, Replaying
  <2>4. QED  BY <2>1, <2>3 DEF WorkerIs, WorkerOK
<1>2. CASE ~Replaying
  <2>1. WorkerIs(worker', "idle", worker.todo, worker.file, worker.line, NoEvent, 0,
           worker.recovering)
    BY <1>2, EventDone
  <2>2. QED  BY <2>1 DEF WorkerIs, WorkerOK, RowsRead
<1>3. QED  BY <1>1, <1>2

(* The worker after an unreadable binding.                                    *)
LEMMA BindingLost ==
    ASSUME BridgeInv, BindingUnreadable
    PROVE  /\ WorkerOK'
           /\ worker'.at \in {"idle", "recovering", "dead"} /\ worker'.file = 0
           /\ worker'.job = NoEvent /\ worker'.attempt = 0
<1>1. worker.file = 0
  BY DEF BindingUnreadable, BridgeInv, WorkerRead
<1>2. CASE ~Replaying
  <2>1. WorkerIs(worker', "idle", worker.todo, worker.file, worker.line, NoEvent, 0,
           worker.recovering)
    BY <1>2, EventDone DEF BindingUnreadable
  <2>2. QED  BY <1>1, <2>1 DEF WorkerIs, WorkerOK
<1>3. CASE Replaying /\ worker.recovering
  <2>1. "recovering" \in Stages
    BY DEF Stages
  <2>2. WorkerIs(worker', "recovering", {}, 0, 1, NoEvent, 0, TRUE)
    BY <1>3, <2>1, WorkerAnew, BridgeAssumption DEF BindingUnreadable
  <2>3. QED  BY <2>2 DEF WorkerIs, WorkerOK
<1>4. CASE Replaying /\ ~worker.recovering
  <2>1. "dead" \in Stages
    BY DEF Stages
  <2>2. WorkerIs(worker', "dead", {}, 0, 1, NoEvent, 0, FALSE)
    BY <1>4, <2>1, WorkerAnew, BridgeAssumption DEF BindingUnreadable
  <2>3. QED  BY <2>2 DEF WorkerIs, WorkerOK
<1>5. QED  BY <1>2, <1>3, <1>4

\* A new spool gets a free file.
LEMMA NextFile ==
    ASSUME FreeFiles # {}
    PROVE  (CHOOSE f \in FreeFiles : \A g \in FreeFiles : f <= g) \in FreeFiles
<1>1. FreeFiles \subseteq Nat
  BY BridgeAssumption DEF FreeFiles
<1>2. \E f \in FreeFiles : \A g \in FreeFiles : f <= g
  BY <1>1, LeastFile
<1>3. QED  BY <1>2

(* A hook that fires, and one that opens the spool: the file is of the spool  *)
(* and only then emptied when nobody reads it.                                *)
LEMMA HookFires ==
    ASSUME BridgeInv, NEW s \in Sessions, FireHook(s)
    PROVE  /\ <<s, hook[s].n + 1>> \in Event
           /\ \E a \in {"waiting", "unheard"} :
                 \E h \in Hooks : /\ hook' = [hook EXCEPT ![s] = h]
                                  /\ h.at = a /\ h.n > 0
<1> DEFINE a == IF Listening THEN "waiting" ELSE "unheard"
           h == [hook[s] EXCEPT !.n = hook[s].n + 1, !.at = a]
<1>1. hook \in [Sessions -> Hooks] /\ hook[s] \in Hooks
  BY DEF BridgeInv, HooksOK
<1>2. hook[s].n + 1 \in 1..MaxEvents
  BY <1>1, BridgeAssumption DEF FireHook, Hooks
<1>3. hook' = [hook EXCEPT ![s] = h]
  BY <1>1 DEF FireHook
<1>4. a \in {"waiting", "unheard"}
  OBVIOUS
<1>5. h \in Hooks /\ h.at = a /\ h.n = hook[s].n + 1
  <2> DEFINE n == hook[s].n + 1
             g == hook[s]
  <2>1. n \in 0..MaxEvents /\ g \in Hooks
    BY <1>1, <1>2, BridgeAssumption
  <2>2. h = [g EXCEPT !.n = n, !.at = a]
    OBVIOUS
  <2> HIDE DEF a, n, g
  <2>3. a \in {"idle", "waiting", "unheard", "writing"}
    BY <1>4
  <2>4. /\ [g EXCEPT !.n = n, !.at = a] \in Hooks
        /\ [g EXCEPT !.n = n, !.at = a].at = a
        /\ [g EXCEPT !.n = n, !.at = a].n = n
    BY <2>1, <2>3 DEF Hooks
  <2> HIDE DEF h
  <2>5. QED  BY <2>2, <2>4 DEF n
<1>6. h.n > 0
  <2> HIDE DEF h
  <2> QED  BY <1>2, <1>5
<1> HIDE DEF a, h
<1>7. QED  BY <1>2, <1>3, <1>4, <1>5, <1>6 DEF Event

\* The spool that a hook opens is a file that nobody reads.
LEMMA HookOpens ==
    ASSUME BridgeInv, NEW s \in Sessions, OpenSpool(s)
    PROVE  /\ spool' \in Files \ {0}
           /\ text' \in [Files -> Seq(Event)]
           /\ \A f \in Files :
                 f \in drains \cup {main.file, worker.file} => text'[f] = text[f]
           /\ \E h \in Hooks : /\ hook' = [hook EXCEPT ![s] = h]
                               /\ h.at = "writing" /\ h.file = spool' /\ h.n = hook[s].n
<1>1. /\ hook \in [Sessions -> Hooks] /\ hook[s] \in Hooks
      /\ text \in [Files -> Seq(Event)] /\ spool \in Files \cup {0}
  BY DEF BridgeInv, HooksOK, SpoolOK
<1> DEFINE Opened == /\ spool' \in Files \ {0} /\ text' \in [Files -> Seq(Event)]
                      /\ \A f \in Files : f \in drains \cup {main.file, worker.file}
                                          => text'[f] = text[f]
<1>2. ASSUME spool # 0  PROVE Opened
  BY <1>1, <1>2 DEF OpenSpool
<1>3. ASSUME spool = 0  PROVE Opened
  <2>1. spool' \in FreeFiles /\ text' = [text EXCEPT ![spool'] = <<>>]
    BY <1>3, NextFile DEF OpenSpool
  <2>2. /\ spool' \in Files /\ spool' \notin drains
        /\ spool' # main.file /\ spool' # worker.file
    BY <2>1 DEF FreeFiles
  <2>3. 0 \notin Files
    BY BridgeAssumption
  <2>4. <<>> \in Seq(Event)
    OBVIOUS
  <2>5. spool' \in Files \ {0} /\ text' \in [Files -> Seq(Event)]
    BY <1>1, <2>1, <2>2, <2>3, <2>4
  <2>6. \A f \in Files : f # spool' => text'[f] = text[f]
    BY <1>1, <2>1, <2>2
  <2>7. QED  BY <2>2, <2>5, <2>6
<1>4. spool' \in Files \ {0}
  BY <1>2, <1>3
<1>5. \E h \in Hooks : /\ hook' = [hook EXCEPT ![s] = h]
                       /\ h.at = "writing" /\ h.file = spool' /\ h.n = hook[s].n
  <2> DEFINE f == spool'
             h == [hook[s] EXCEPT !.at = "writing", !.file = f]
  <2>1. hook' = [hook EXCEPT ![s] = h]
    BY <1>1 DEF OpenSpool
  <2>2. f \in Files \cup {0}
    BY <1>4
  <2> HIDE DEF f
  <2>3. h \in Hooks /\ h.at = "writing" /\ h.file = f /\ h.n = hook[s].n
    BY <1>1, <2>2 DEF Hooks
  <2> HIDE DEF h
  <2>4. QED  BY <2>1, <2>3 DEF f
<1>6. QED  BY <1>2, <1>3, <1>4, <1>5

\* nor with the retry file: a drain goes when its rows are settled or put back,
LEMMA ReplaySafe ==
    ASSUME BridgeInv, StartReplay \/ PutOffRow \/ DropRow \/ ReplayRow \/ EndReplay
    PROVE  Safe \subseteq Safe'
<1> USE DEF fates
<1>1. CASE StartReplay
  <2>1. /\ retryDrains' = <<retry>> \o retryDrains /\ worker'.job = worker.job
        /\ UNCHANGED <<events, settled, forgotten, missed>>
    BY <1>1 DEF StartReplay, BridgeInv, WorkerOK, Workers, Stages
  <2>2. <<retry>> \in Seq(Seq(Row)) /\ retryDrains \in Seq(Seq(Row))
    BY DEF BridgeInv, RetryOK
  <2>3. Len(<<retry>>) = 1 /\ <<retry>>[1] = retry
    OBVIOUS
  <2>4. retry \in ToSet(<<retry>>)
    <3>1. \A x : x \in ToSet(<<retry>>) <=> \E i \in 1..Len(<<retry>>) : <<retry>>[i] = x
      BY <2>2, ToSetIn
    <3>2. QED  BY <2>3, <3>1
  <2>5. ToSet(retryDrains') = ToSet(<<retry>>) \cup ToSet(retryDrains)
    BY <2>1, <2>2, ToSetConcat
  <2>6. RetryEvents \subseteq RetryEvents'
    BY <2>4, <2>5 DEF RetryEvents, EventsOf
  <2>7. QED  BY <2>1, <2>6 DEF Safe, InMemory
<1>2. CASE PutOffRow
  <2>1. EventsOf(retry) \subseteq EventsOf(retry')
    BY <1>2, RowHeld, EventsOfAppend DEF PutOffRow, BridgeInv, RetryOK
  <2>2. worker'.job = worker.job
    BY <1>2 DEF PutOffRow, BridgeInv, WorkerOK, Workers, Stages
  <2>3. QED  BY <1>2, <2>1, <2>2 DEF PutOffRow, Safe, InMemory, RetryEvents,
                EventsOf
<1>3. CASE DropRow
  <2>1. worker'.job = worker.job
    BY <1>3 DEF DropRow, BridgeInv, WorkerOK, Workers, Stages
  <2>2. QED  BY <1>3, <2>1 DEF DropRow, Safe, InMemory, RetryEvents, EventsOf
<1>4. CASE ReplayRow
  <2>1. worker.job = NoEvent
    BY <1>4 DEF ReplayRow, BridgeInv, HasJob, Processing
  <2>2. QED  BY <1>4, <2>1 DEF ReplayRow, Safe, InMemory, RetryEvents, EventsOf
<1>5. CASE EndReplay
  <2>1. worker'.job = worker.job /\ UNCHANGED <<events, retry, settled, forgotten, missed>>
    BY <1>5 DEF EndReplay, BridgeInv, WorkerOK, Workers, Stages
  <2>2. CASE retryDrains = <<>>
    BY <1>5, <2>1, <2>2 DEF EndReplay, Safe, InMemory, RetryEvents, EventsOf
  <2>3. CASE retryDrains # <<>>
    <3>1. /\ retryDrains \in Seq(Seq(Row)) /\ Head(retryDrains) = retryDrains[1]
          /\ retryDrains' = Tail(retryDrains)
      BY <1>5, <2>3 DEF EndReplay, BridgeInv, RetryOK
    <3>2. ToSet(retryDrains) = {retryDrains[1]} \cup ToSet(retryDrains')
      BY <2>3, <3>1, ToSetTail
    <3>3. retryDrains[1] \in Seq(Row) /\ worker.line \in Nat \ {0}
      BY <2>3, <3>1 DEF BridgeInv, WorkerOK, Workers, Stages
    <3>4. worker.line > Len(retryDrains[1])
      BY <1>5, <2>3, <3>3 DEF EndReplay, HasRow
    <3>5. \A i \in 1..Len(retryDrains[1]) :
              retryDrains[1][i].event \in EventsOf(retry) \cup settled
      BY <1>5, <2>3, <3>3, <3>4 DEF EndReplay, BridgeInv, RowsRead
    <3>6. EventsOf(retryDrains[1]) \subseteq EventsOf(retry) \cup settled
      BY <3>3, <3>5, ToSetIn DEF EventsOf
    <3>7. RetryEvents \subseteq RetryEvents' \cup settled
      BY <2>1, <3>2, <3>6 DEF RetryEvents, EventsOf
    <3>8. QED  BY <2>1, <3>7 DEF Safe, InMemory
  <2>4. QED  BY <2>2, <2>3
<1>6. QED  BY <1>1, <1>2, <1>3, <1>4, <1>5

\* nor with an event: at its end it is settled or has a row.
LEMMA ProcessSafe ==
    ASSUME BridgeInv, ProcessStep
    PROVE  Safe \subseteq Safe'
<1> USE DEF fates
<1>1. CASE CreateBinding \/ StoreToken \/ TouchBinding \/ Registered
  <2>1. worker'.job = worker.job
    BY <1>1 DEF CreateBinding, StoreToken, TouchBinding, Registered,
       BridgeInv, WorkerOK, Workers, Stages
  <2>2. QED
    BY <1>1, <2>1, SafeSame DEF CreateBinding, StoreToken, TouchBinding,
       Registered
<1>2. CASE TokenMissing \/ ShowState
  BY <1>2, SafeJob DEF TokenMissing, ShowState
<1>3. CASE BindingUnreadable
  <2>1. CASE ~Replaying
    BY <1>3, <2>1, SafeJob DEF BindingUnreadable
  <2>2. CASE Replaying
    <3>1. worker.job \in RetryEvents
      BY <2>2, RowHeld DEF Replaying, BridgeInv, HasJob, WorkerOK, Workers,
         Stages
    <3>2. RetryEvents' = RetryEvents
      BY <1>3 DEF BindingUnreadable, RetryEvents, EventsOf
    <3>3. QED  BY <1>3, <2>2, <3>1, <3>2, SafeJob DEF BindingUnreadable
  <2>3. QED  BY <2>1, <2>2
<1>4. CASE RegistrationFails
  <2>1. CASE worker.attempt + 1 >= MaxRegistrations
    BY <1>4, <2>1, SafeJob DEF RegistrationFails
  <2>2. CASE ~(worker.attempt + 1 >= MaxRegistrations)
    <3>1. retry' = Append(retry, [event |-> worker.job, due |-> FALSE,
                                  attempt |-> worker.attempt + 1])
      BY <1>4, <2>2 DEF RegistrationFails
    <3>2. worker.attempt + 1 \in 1..MaxRegistrations /\ worker.job \in Event
      BY <1>4, <2>2, BridgeAssumption
      DEF RegistrationFails, BridgeInv, WorkerOK, Workers, Stages, HasJob,
      Processing
    <3>3. [event |-> worker.job, due |-> FALSE, attempt |-> worker.attempt + 1] \in Row
      BY <3>2 DEF Row
    <3>4. EventsOf(retry') = EventsOf(retry) \cup {worker.job}
      BY <3>1, <3>3, EventsOfAppend DEF BridgeInv, RetryOK
    <3>5. worker.job \in RetryEvents'
      BY <3>4 DEF RetryEvents, EventsOf
    <3>6. QED  BY <1>4, <2>2, <3>4, <3>5, SafeJob DEF RegistrationFails
  <2>3. QED  BY <2>1, <2>2
<1>5. QED  BY <1>1, <1>2, <1>3, <1>4 DEF ProcessStep

(* No event of a finished hook gets lost.                                     *)
Everywhere == Safe \cup SpoolEvents

\* A step after which no event is nowhere that was somewhere.
LEMMA NoneLostFrom ==
    ASSUME NoneLost, Everywhere \subseteq Everywhere',
           \A s \in Sessions : \A n \in 1..MaxEvents : HookDone(s, n)' => HookDone(s, n)
    PROVE  NoneLost'
BY DEF NoneLost, Everywhere

(* A file that goes has been read to its end.                                 *)
LEMMA FileRead ==
    ASSUME BridgeInv, NEW f \in Files, NEW line \in Nat \ {0},
           line > Len(text[f]), \A i \in 1..(line - 1) : text[f][i] \in Safe
    PROVE  ToSet(text[f]) \subseteq Safe
<1>1. text[f] \in Seq(Event)
  BY DEF BridgeInv, SpoolOK
<1>2. \A x : x \in ToSet(text[f]) <=> \E i \in 1..Len(text[f]) : text[f][i] = x
  BY <1>1, ToSetIn
<1>3. Len(text[f]) \in Nat
  BY <1>1
<1>4. QED  BY <1>2, <1>3

\* The event of a hook that ends is in a file of the spool, or missed.
LEMMA HookLosesNone ==
    ASSUME BridgeInv, NoneLost, NEW s \in Sessions, HookStep(s) \/ BindingRots(s)
    PROVE  NoneLost'
<1> USE DEF fates
<1>1. Safe \subseteq Safe'
  BY HookSafe
<1>2. hook \in [Sessions -> [at : {"idle", "waiting", "unheard", "writing"},
                             n : 0..MaxEvents, file : Files \cup {0}]]
  BY DEF BridgeInv, HooksOK, Hooks
<1>3. CASE FireHook(s)
  <2>1. \A r \in Sessions : \A n \in 1..MaxEvents : HookDone(r, n)' => HookDone(r, n)
    BY <1>2, <1>3 DEF FireHook, HookDone
  <2>2. SpoolEvents' = SpoolEvents
    BY <1>3 DEF FireHook, fileVars, SpoolEvents
  <2>3. QED  BY <1>1, <2>1, <2>2, NoneLostFrom DEF Everywhere
<1>4. CASE HookTimeout(s)
  <2>1. \A r \in Sessions : \A n \in 1..MaxEvents : HookDone(r, n)' => HookDone(r, n)
    BY <1>2, <1>4 DEF HookTimeout, HookDone
  <2>2. SpoolEvents' = SpoolEvents
    BY <1>4 DEF HookTimeout, fileVars, SpoolEvents
  <2>3. QED  BY <1>1, <2>1, <2>2, NoneLostFrom DEF Everywhere
<1>5. CASE OpenSpool(s)
  <2>1. \A r \in Sessions : \A n \in 1..MaxEvents : HookDone(r, n)' => HookDone(r, n)
    BY <1>2, <1>5 DEF OpenSpool, HookDone
  <2>2. CASE spool # 0
    BY <1>1, <1>5, <2>1, <2>2, NoneLostFrom DEF OpenSpool, SpoolEvents,
       Everywhere
  <2>3. CASE spool = 0
    <3>1. spool' \in FreeFiles /\ text' = [text EXCEPT ![spool'] = <<>>] /\ drains' = drains
      BY <1>5, <2>3, NextFile DEF OpenSpool
    <3>2. spool' \notin drains
      BY <3>1 DEF FreeFiles
    <3>3. \A f \in drains : text'[f] = text[f]
      BY <3>1, <3>2 DEF BridgeInv, SpoolOK
    <3>4. SpoolEvents \subseteq SpoolEvents'
      BY <2>3, <3>1, <3>3 DEF SpoolEvents
    <3>5. QED  BY <1>1, <2>1, <3>4, NoneLostFrom DEF Everywhere
  <2>4. QED  BY <2>2, <2>3
<1>6. CASE WriteSpool(s)
  <2> DEFINE f == hook[s].file
             e == HookEvent(s)
  <2>1. f \in Files /\ e \in Event
    BY <1>2, <1>6, BridgeAssumption
    DEF WriteSpool, BridgeInv, HasFile, HookEvent, Event
  <2>2. text \in [Files -> Seq(Event)] /\ text' = [text EXCEPT ![f] = Append(text[f], e)]
    BY <1>6 DEF WriteSpool, BridgeInv, SpoolOK
  <2>3. ToSet(text'[f]) = ToSet(text[f]) \cup {e}
    BY <2>1, <2>2, ToSetAppend
  <2>4. \A g \in Files : ToSet(text[g]) \subseteq ToSet(text'[g])
    <3>1. ASSUME NEW g \in Files, g # f  PROVE text'[g] = text[g]
      BY <2>1, <2>2, <3>1
    <3>2. QED  BY <2>3, <3>1
  <2>5. drains' = drains /\ spool' = spool /\ drains \subseteq Files /\ spool \in Files \cup {0}
    BY <1>6 DEF WriteSpool, BridgeInv, SpoolOK
  <2>6. SpoolEvents \subseteq SpoolEvents'
    BY <2>4, <2>5 DEF SpoolEvents
  <2>7. e \in Safe' \cup SpoolEvents'
    <3>1. CASE f = spool \/ f \in drains
      <4>1. 0 \notin Files
        BY BridgeAssumption
      <4>2. f \in drains' \cup ({spool'} \ {0})
        BY <2>1, <2>5, <3>1, <4>1
      <4>3. QED  BY <2>3, <4>2 DEF SpoolEvents
    <3>2. CASE ~(f = spool \/ f \in drains)
      BY <1>6, <3>2 DEF WriteSpool, Safe
    <3>3. QED  BY <3>1, <3>2
  <2>8. ASSUME NEW r \in Sessions, NEW n \in 1..MaxEvents, HookDone(r, n)'
        PROVE  HookDone(r, n) \/ <<r, n>> = e
    BY <1>2, <1>6, <2>8 DEF WriteSpool, HookDone, HookEvent
  <2>9. QED  BY <1>1, <2>6, <2>7, <2>8 DEF NoneLost
<1>7. CASE BindingRots(s)
  <2>1. \A r \in Sessions : \A n \in 1..MaxEvents : HookDone(r, n)' => HookDone(r, n)
    BY <1>7 DEF BindingRots, workerOnly, HookDone
  <2>2. SpoolEvents' = SpoolEvents
    BY <1>7 DEF BindingRots, fileVars, SpoolEvents
  <2>3. QED  BY <1>1, <2>1, <2>2, NoneLostFrom DEF Everywhere
<1>8. QED  BY <1>3, <1>4, <1>5, <1>6, <1>7 DEF HookStep

\* The main thread unlinks what it has read, and answers what it has queued.
LEMMA MainLosesNone ==
    ASSUME BridgeInv, NoneLost, MainStep
    PROVE  NoneLost'
<1> USE DEF fates
<1>1. Safe \subseteq Safe'
  BY MainSafe
<1>2. hook \in [Sessions -> [at : {"idle", "waiting", "unheard", "writing"},
                             n : 0..MaxEvents, file : Files \cup {0}]]
  BY DEF BridgeInv, HooksOK, Hooks
<1>3. CASE StartBridge \/ BindAndPublish \/ MainReadsDrain
  <2>1. SpoolEvents' = SpoolEvents /\ hook' = hook
    BY <1>3 DEF StartBridge, BindAndPublish, MainReadsDrain, fileVars,
       SpoolEvents
  <2>2. QED  BY <1>1, <2>1, NoneLostFrom DEF Everywhere, HookDone
<1>4. CASE QueueSpool
  <2>1. SpoolEvents' = SpoolEvents /\ hook' = hook
    BY <1>4 DEF QueueSpool, SpoolEvents
  <2>2. QED  BY <1>1, <2>1, NoneLostFrom DEF Everywhere, HookDone
<1>5. CASE MainEndsDrain
  <2>1. main.file \in Files /\ main.line \in Nat \ {0} /\ main.file # 0
    BY <1>5 DEF MainEndsDrain, BridgeInv, MainOK, Mains, MainRead
  <2>2. ToSet(text[main.file]) \subseteq Safe
    BY <1>5, <2>1, FileRead DEF MainEndsDrain, BridgeInv, MainRead
  <2>3. SpoolEvents \subseteq SpoolEvents' \cup ToSet(text[main.file]) /\ hook' = hook
    BY <1>5 DEF MainEndsDrain, SpoolEvents
  <2>4. QED  BY <1>1, <2>2, <2>3, NoneLostFrom DEF Everywhere, HookDone
<1>6. CASE HandleConnection
  <2> DEFINE e == Head(backlog)
  <2>1. e \in Event /\ events' = Append(events, e)
    BY <1>6 DEF HandleConnection, BridgeInv, QueuesOK
  <2>2. e \in Safe'
    BY <2>1, ToSetAppend DEF BridgeInv, QueuesOK, Safe, InMemory
  <2>3. SpoolEvents' = SpoolEvents
    BY <1>6 DEF HandleConnection, fileVars, SpoolEvents
  <2>4. ASSUME NEW r \in Sessions, NEW n \in 1..MaxEvents, HookDone(r, n)'
        PROVE  HookDone(r, n) \/ <<r, n>> = e
    BY <1>2, <1>6, <2>4 DEF HandleConnection, HookDone, HookEvent
  <2>5. QED  BY <1>1, <2>2, <2>3, <2>4 DEF NoneLost
<1>7. QED  BY <1>3, <1>4, <1>5, <1>6 DEF MainStep

\* The worker unlinks what it has read.
LEMMA OthersLoseNone ==
    ASSUME BridgeInv, NoneLost, WorkerStep \/ BackoffPasses
    PROVE  NoneLost'
<1> USE DEF fates
<1>1. Safe \subseteq Safe'
  BY QueueSafe, ReplaySafe, ProcessSafe DEF WorkerStep
<1>2. hook' = hook
  BY DEF WorkerStep, ListDrains, OpenDrain, WorkerReadsDrain, WorkerEndsDrain,
     ReconcileBindings, TakeEvent, StartReplay, PutOffRow, DropRow, ReplayRow,
     EndReplay,
     ProcessStep, CreateBinding, StoreToken, TouchBinding, TokenMissing,
     BindingUnreadable,
     Registered, RegistrationFails, ShowState, BackoffPasses, workerOnly
<1>3. CASE WorkerEndsDrain
  <2>1. worker.file \in Files /\ worker.line \in Nat \ {0}
    BY <1>3 DEF WorkerEndsDrain, BridgeInv, WorkerOK, Workers, Stages
  <2>2. ToSet(text[worker.file]) \subseteq Safe
    BY <1>3, <2>1, FileRead DEF WorkerEndsDrain, BridgeInv, WorkerRead
  <2>3. SpoolEvents \subseteq SpoolEvents' \cup ToSet(text[worker.file])
    BY <1>3 DEF WorkerEndsDrain, SpoolEvents
  <2>4. QED  BY <1>1, <1>2, <2>2, <2>3, NoneLostFrom DEF Everywhere, HookDone
<1>4. CASE ~WorkerEndsDrain
  <2>1. UNCHANGED fileVars
    BY <1>4 DEF WorkerStep, ListDrains, OpenDrain, WorkerReadsDrain,
       ReconcileBindings, TakeEvent, StartReplay, PutOffRow, DropRow,
       ReplayRow, EndReplay,
       ProcessStep, CreateBinding, StoreToken, TouchBinding, TokenMissing,
       BindingUnreadable, Registered, RegistrationFails, ShowState,
       BackoffPasses
  <2>2. SpoolEvents' = SpoolEvents
    BY <2>1 DEF fileVars, SpoolEvents
  <2>3. QED  BY <1>1, <1>2, <2>2, NoneLostFrom DEF Everywhere, HookDone
<1>5. QED  BY <1>3, <1>4

\* What is on disk: the files of the spool, and the retry files.
LEMMA DiskEvents == OnDisk = RetryEvents \cup SpoolEvents
<1> DEFINE A == UNION {ToSet(text[f]) : f \in drains \cup ({spool} \ {0})}
           B == {r.event : r \in ToSet(retry)}
           C == UNION {{r.event : r \in ToSet(d)} : d \in ToSet(retryDrains)}
<1>1. OnDisk = A \cup B \cup C
  BY DEF OnDisk
<1>2. RetryEvents = B \cup C /\ SpoolEvents = A
  BY Zenon DEF RetryEvents, EventsOf, SpoolEvents
<1>3. QED
  <2> HIDE DEF A, B, C
  <2> QED  BY <1>1, <1>2

\* What was in memory only is forgotten in a crash, which the history records.
LEMMA CrashLosesNone ==
    ASSUME BridgeInv, NoneLost, BridgeCrash
    PROVE  NoneLost'
<1>1. hook \in [Sessions -> [at : {"idle", "waiting", "unheard", "writing"},
                             n : 0..MaxEvents, file : Files \cup {0}]]
  BY DEF BridgeInv, HooksOK, Hooks
<1>2. RetryEvents' = RetryEvents /\ SpoolEvents' = SpoolEvents
  BY DEF BridgeCrash, fileVars, RetryEvents, SpoolEvents, EventsOf
<1>3. OnDisk = RetryEvents \cup SpoolEvents
  BY DiskEvents
<1>4. Everywhere \subseteq Everywhere'
  BY <1>2, <1>3 DEF BridgeCrash, Everywhere, Safe
<1>5. \A s \in Sessions : \A n \in 1..MaxEvents : HookDone(s, n)' => HookDone(s, n)
  BY <1>1 DEF BridgeCrash, HookDone
<1>6. QED  BY <1>4, <1>5, NoneLostFrom

-----------------------------------------------------------------------------
\* A hook fires with the next number.
LEMMA FireHookKeeps ==
    ASSUME BridgeInv, NEW s \in Sessions, Safe \subseteq Safe', FireHook(s)
    PROVE  BridgeInv'
<1>1. HooksOK'
  BY DEF BridgeInv, HooksOK, FireHook, Hooks
<1>2. QueuesOK'
  <2>1. <<s, hook[s].n + 1>> \in Event
    BY HookFires
  <2>2. QED  BY <2>1 DEF FireHook, BridgeInv, QueuesOK
<1>3. SpoolOK'
  BY DEF BridgeInv, SpoolOK, FireHook, fileVars
<1>4. MainOK'
  BY DEF BridgeInv, MainOK, FireHook
<1>5. WorkerOK'
  BY DEF BridgeInv, WorkerOK, FireHook
<1>6. RetryOK'
  BY DEF BridgeInv, RetryOK, FireHook
<1>7. IdentityOK'
  BY DEF BridgeInv, IdentityOK, FireHook, identityVars
<1>8. ShownOK'
  BY DEF BridgeInv, ShownOK, FireHook
<1>9. FatesOK'
  BY DEF BridgeInv, FatesOK, FireHook, fates
<1>10. HasJob'
  BY DEF BridgeInv, HasJob, FireHook, HasRow, ReplayedRow
<1>11. MainRead'
  BY DEF BridgeInv, MainRead, FireHook, fileVars
<1>12. WorkerRead'
  BY DEF BridgeInv, WorkerRead, FireHook, fileVars
<1>13. RowsRead'
  BY DEF BridgeInv, RowsRead, FireHook, fates
<1>14. HasFile'
  <2>1. PICK a \in {"waiting", "unheard"}, h \in Hooks :
            hook' = [hook EXCEPT ![s] = h] /\ h.at = a /\ h.n > 0
    BY HookFires
  <2>2. hook \in [Sessions -> Hooks]
    BY DEF BridgeInv, HooksOK
  <2>3. \A r \in Sessions : hook'[r] = IF r = s THEN h ELSE hook[r]
    BY <2>1, <2>2
  <2>4. QED  BY <2>1, <2>3 DEF BridgeInv, HasFile
<1>15. TokenFirst'
  BY DEF BridgeInv, TokenFirst, FireHook, identityVars, Session
<1>16. QED  BY <1>1, <1>2, <1>3, <1>4, <1>5, <1>6, <1>7, <1>8, <1>9, <1>10,
     <1>11, <1>12, <1>13, <1>14, <1>15 DEF BridgeInv

\* A hook that gives up waiting goes to the spool.
LEMMA HookTimeoutKeeps ==
    ASSUME BridgeInv, NEW s \in Sessions, Safe \subseteq Safe', HookTimeout(s)
    PROVE  BridgeInv'
<1>1. HooksOK'
  BY DEF BridgeInv, HooksOK, HookTimeout, Hooks
<1>2. QueuesOK'
  BY DEF BridgeInv, QueuesOK, HookTimeout
<1>3. SpoolOK'
  BY DEF BridgeInv, SpoolOK, HookTimeout, fileVars
<1>4. MainOK'
  BY DEF BridgeInv, MainOK, HookTimeout
<1>5. WorkerOK'
  BY DEF BridgeInv, WorkerOK, HookTimeout
<1>6. RetryOK'
  BY DEF BridgeInv, RetryOK, HookTimeout
<1>7. IdentityOK'
  BY DEF BridgeInv, IdentityOK, HookTimeout, identityVars
<1>8. ShownOK'
  BY DEF BridgeInv, ShownOK, HookTimeout
<1>9. FatesOK'
  BY DEF BridgeInv, FatesOK, HookTimeout
<1>10. HasJob'
  BY DEF BridgeInv, HasJob, HookTimeout, HasRow, ReplayedRow
<1>11. MainRead'
  BY DEF BridgeInv, MainRead, HookTimeout, fileVars
<1>12. WorkerRead'
  BY DEF BridgeInv, WorkerRead, HookTimeout, fileVars
<1>13. RowsRead'
  BY DEF BridgeInv, RowsRead, HookTimeout
<1>14. HasFile'
  BY DEF BridgeInv, HasFile, HookTimeout
<1>15. TokenFirst'
  BY DEF BridgeInv, TokenFirst, HookTimeout, identityVars, Session
<1>16. QED  BY <1>1, <1>2, <1>3, <1>4, <1>5, <1>6, <1>7, <1>8, <1>9, <1>10,
     <1>11, <1>12, <1>13, <1>14, <1>15 DEF BridgeInv

\* A new spool is empty and nobody reads it.
LEMMA OpenSpoolKeeps ==
    ASSUME BridgeInv, NEW s \in Sessions, Safe \subseteq Safe', OpenSpool(s)
    PROVE  BridgeInv'
<1>1. /\ QueuesOK' /\ MainOK' /\ WorkerOK' /\ RetryOK' /\ IdentityOK'
      /\ ShownOK' /\ FatesOK' /\ HasJob' /\ RowsRead' /\ TokenFirst'
  BY DEF BridgeInv, QueuesOK, MainOK, WorkerOK, RetryOK, IdentityOK,
     ShownOK, FatesOK, HasJob, RowsRead, TokenFirst, OpenSpool, identityVars,
     fates, HasRow, ReplayedRow, Session
<1>2. HooksOK'
  <2>1. PICK h \in Hooks : /\ hook' = [hook EXCEPT ![s] = h]
                          /\ h.at = "writing" /\ h.file = spool' /\ h.n = hook[s].n
    BY HookOpens
  <2>2. QED  BY <2>1 DEF BridgeInv, HooksOK
<1>3. SpoolOK'
  BY HookOpens DEF OpenSpool, BridgeInv, SpoolOK
<1>4. MainRead'
  <2>1. main' = main /\ main.file \in Files \cup {0}
    BY DEF OpenSpool, BridgeInv, MainOK, Mains
  <2>2. main.file # 0 => text'[main.file] = text[main.file]
    BY <2>1, HookOpens
  <2>3. QED  BY <2>1, <2>2 DEF BridgeInv, MainRead
<1>5. WorkerRead'
  <2>1. worker' = worker /\ worker.file \in Files \cup {0}
    BY DEF OpenSpool, BridgeInv, WorkerOK, Workers
  <2>2. worker.file # 0 => text'[worker.file] = text[worker.file]
    BY <2>1, HookOpens
  <2>3. QED  BY <2>1, <2>2 DEF BridgeInv, WorkerRead
<1>6. HasFile'
  <2>1. PICK h \in Hooks : /\ hook' = [hook EXCEPT ![s] = h]
                          /\ h.at = "writing" /\ h.file = spool' /\ h.n = hook[s].n
    BY HookOpens
  <2>2. hook \in [Sessions -> Hooks] /\ spool' \in Files \ {0}
    BY HookOpens DEF BridgeInv, HooksOK
  <2>3. \A r \in Sessions : hook'[r] = IF r = s THEN h ELSE hook[r]
    BY <2>1, <2>2
  <2>4. hook[s].at = "unheard"
    BY DEF OpenSpool
  <2>5. QED  BY <2>1, <2>2, <2>3, <2>4 DEF BridgeInv, HasFile
<1>7. QED  BY <1>1, <1>2, <1>3, <1>4, <1>5, <1>6 DEF BridgeInv

\* A line more in a file: what was read of it stays read.
LEMMA WriteSpoolKeeps ==
    ASSUME BridgeInv, NEW s \in Sessions, Safe \subseteq Safe', WriteSpool(s)
    PROVE  BridgeInv'
<1>1. /\ QueuesOK' /\ MainOK' /\ WorkerOK' /\ RetryOK' /\ IdentityOK'
      /\ ShownOK' /\ HasJob' /\ RowsRead' /\ TokenFirst'
  BY DEF BridgeInv, QueuesOK, MainOK, WorkerOK, RetryOK, IdentityOK,
     ShownOK, HasJob, MainRead, RowsRead, TokenFirst, WriteSpool, HookEvent,
     identityVars, HasRow, ReplayedRow, Session
<1>2. HooksOK'
  BY DEF BridgeInv, HooksOK, HasFile, WriteSpool, Hooks
<1>3. SpoolOK'
  BY DEF BridgeInv, HooksOK, SpoolOK, HasFile, WriteSpool, Hooks
<1>4. FatesOK'
  BY DEF BridgeInv, HooksOK, FatesOK, HasFile, WriteSpool, Hooks
<1>5. MainRead'
  BY DEF BridgeInv, HooksOK, MainRead, WriteSpool, Hooks
<1>6. WorkerRead'
  BY DEF BridgeInv, HooksOK, WorkerRead, WriteSpool, Hooks
<1>7. HasFile'
  BY DEF BridgeInv, HooksOK, HasFile, WriteSpool
<1>8. QED  BY <1>1, <1>2, <1>3, <1>4, <1>5, <1>6, <1>7 DEF BridgeInv

\* A binding is no event.
LEMMA BindingRotsKeeps ==
    ASSUME BridgeInv, NEW s \in Sessions, Safe \subseteq Safe', BindingRots(s)
    PROVE  BridgeInv'
<1>1. HooksOK'
  BY DEF BridgeInv, HooksOK, BindingRots, workerOnly
<1>2. QueuesOK'
  BY DEF BridgeInv, QueuesOK, BindingRots, workerOnly
<1>3. SpoolOK'
  BY DEF BridgeInv, SpoolOK, BindingRots, fileVars
<1>4. MainOK'
  BY DEF BridgeInv, MainOK, BindingRots, workerOnly
<1>5. WorkerOK'
  BY DEF BridgeInv, WorkerOK, BindingRots
<1>6. RetryOK'
  BY DEF BridgeInv, RetryOK, BindingRots
<1>7. IdentityOK'
  BY DEF BridgeInv, IdentityOK, BindingRots
<1>8. ShownOK'
  BY DEF BridgeInv, ShownOK, BindingRots
<1>9. FatesOK'
  BY DEF BridgeInv, FatesOK, BindingRots
<1>10. HasJob'
  BY DEF BridgeInv, HasJob, BindingRots, workerOnly, HasRow, ReplayedRow
<1>11. MainRead'
  BY DEF BridgeInv, MainRead, BindingRots, workerOnly, fileVars
<1>12. WorkerRead'
  BY DEF BridgeInv, WorkerRead, BindingRots, fileVars
<1>13. RowsRead'
  BY DEF BridgeInv, RowsRead, BindingRots
<1>14. HasFile'
  BY DEF BridgeInv, HasFile, BindingRots, workerOnly
<1>15. TokenFirst'
  BY DEF BridgeInv, TokenFirst, BindingRots, Session
<1>16. QED  BY <1>1, <1>2, <1>3, <1>4, <1>5, <1>6, <1>7, <1>8, <1>9, <1>10,
     <1>11, <1>12, <1>13, <1>14, <1>15 DEF BridgeInv

\* A daemon starts with nothing in memory.
LEMMA StartBridgeKeeps ==
    ASSUME BridgeInv, Safe \subseteq Safe', StartBridge
    PROVE  BridgeInv'
<1>1. /\ HooksOK' /\ QueuesOK' /\ SpoolOK' /\ RetryOK' /\ IdentityOK'
      /\ ShownOK' /\ FatesOK' /\ HasFile'
  BY DEF BridgeInv, HooksOK, QueuesOK, SpoolOK, RetryOK, IdentityOK,
     ShownOK, FatesOK, HasFile, StartBridge, fileVars, identityVars, fates
<1>2. MainOK'
  BY DEF BridgeInv, MainOK, StartBridge, Mains
<1>3. WorkerOK'
  BY WorkerMoves DEF WorkerIs, WorkerOK
<1>4. HasJob'
  BY DEF BridgeInv, HasJob, StartBridge, WorkerOff, Processing
<1>5. MainRead'
  BY DEF BridgeInv, MainRead, StartBridge, fileVars
<1>6. WorkerRead'
  BY DEF BridgeInv, WorkerRead, StartBridge, WorkerOff
<1>7. RowsRead'
  BY DEF BridgeInv, RowsRead, StartBridge, WorkerOff
<1>8. TokenFirst'
  BY DEF BridgeInv, TokenFirst, StartBridge, identityVars
<1>9. QED  BY <1>1, <1>2, <1>3, <1>4, <1>5, <1>6, <1>7, <1>8 DEF BridgeInv

\* Nothing is read yet.
LEMMA BindAndPublishKeeps ==
    ASSUME BridgeInv, Safe \subseteq Safe', BindAndPublish
    PROVE  BridgeInv'
<1>1. /\ HooksOK' /\ QueuesOK' /\ SpoolOK' /\ WorkerOK' /\ RetryOK'
      /\ IdentityOK' /\ ShownOK' /\ FatesOK' /\ WorkerRead' /\ RowsRead'
      /\ HasFile' /\ TokenFirst'
  BY DEF BridgeInv, HooksOK, QueuesOK, SpoolOK, WorkerOK, RetryOK,
     IdentityOK, ShownOK, FatesOK, WorkerRead, RowsRead, HasFile, TokenFirst,
     BindAndPublish, fileVars, identityVars, fates, Session
<1>2. MainOK'
  BY DEF BridgeInv, MainOK, BindAndPublish, Mains
<1>3. HasJob'
  BY DEF BridgeInv, HasJob, BindAndPublish, HasRow, ReplayedRow
<1>4. MainRead'
  BY DEF BridgeInv, MainRead, BindAndPublish, fileVars
<1>5. QED  BY <1>1, <1>2, <1>3, <1>4 DEF BridgeInv

\* The main thread has read nothing of the drain.
LEMMA QueueSpoolKeeps ==
    ASSUME BridgeInv, Safe \subseteq Safe', QueueSpool
    PROVE  BridgeInv'
<1>1. /\ HooksOK' /\ QueuesOK' /\ WorkerOK' /\ RetryOK' /\ IdentityOK'
      /\ ShownOK' /\ FatesOK' /\ WorkerRead' /\ RowsRead' /\ HasFile'
      /\ TokenFirst'
  BY DEF BridgeInv, HooksOK, QueuesOK, WorkerOK, RetryOK, IdentityOK,
     ShownOK, FatesOK, WorkerRead, RowsRead, HasFile, TokenFirst, QueueSpool,
     identityVars, fates, Session
<1>2. SpoolOK'
  BY DEF BridgeInv, SpoolOK, QueueSpool
<1>3. MainOK'
  <2>1. main \in Mains /\ spool \in Files \cup {0} /\ 1 \in Nat \ {0}
    BY DEF BridgeInv, MainOK, SpoolOK
  <2>2. \/ main' = [main EXCEPT !.at = "serving"]
        \/ main' = [main EXCEPT !.at = "draining", !.file = spool, !.line = 1]
    BY DEF QueueSpool
  <2>3. [main EXCEPT !.at = "serving"] \in Mains
    BY <2>1 DEF Mains
  <2>4. [main EXCEPT !.at = "draining", !.file = spool, !.line = 1] \in Mains
    BY <2>1 DEF Mains
  <2>5. QED  BY <2>2, <2>3, <2>4 DEF MainOK
<1>4. HasJob'
  BY DEF BridgeInv, HasJob, QueueSpool, HasRow, ReplayedRow
<1>5. MainRead'
  BY DEF BridgeInv, MainRead, QueueSpool
<1>6. QED  BY <1>1, <1>2, <1>3, <1>4, <1>5 DEF BridgeInv

\* What was read is in the queue.
LEMMA MainReadsDrainKeeps ==
    ASSUME BridgeInv, Safe \subseteq Safe', MainReadsDrain
    PROVE  BridgeInv'
<1>1. /\ HooksOK' /\ SpoolOK' /\ WorkerOK' /\ RetryOK' /\ IdentityOK'
      /\ ShownOK' /\ FatesOK' /\ RowsRead' /\ HasFile' /\ TokenFirst'
  BY DEF BridgeInv, HooksOK, SpoolOK, WorkerOK, RetryOK, IdentityOK,
     ShownOK, FatesOK, RowsRead, HasFile, TokenFirst, MainReadsDrain, fileVars,
     identityVars, fates, Session
<1>2. QueuesOK'
  <2>1. main.file \in Files /\ main.line \in Nat \ {0} /\ main.line <= Len(text[main.file])
    BY DEF MainReadsDrain, BridgeInv, MainOK, Mains, MainRead
  <2>2. events' = events \o LinesFrom(main.file, main.line)
    BY DEF MainReadsDrain
  <2>3. /\ events' \in Seq(Event)
        /\ \A j \in main.line..Len(text[main.file]) : text[main.file][j] \in ToSet(events')
    BY <2>1, <2>2, LinesQueued
  <2>4. QED  BY <2>3 DEF MainReadsDrain, BridgeInv, QueuesOK
<1>3. MainOK'
  <2> DEFINE l == Len(text[main.file]) + 1
  <2>1. main.file \in Files
    BY DEF MainReadsDrain, BridgeInv, MainOK, Mains, MainRead
  <2>2. text[main.file] \in Seq(Event)
    BY <2>1 DEF BridgeInv, SpoolOK
  <2>3. l \in Nat \ {0} /\ main \in Mains /\ main' = [main EXCEPT !.line = l]
    BY <2>2 DEF MainReadsDrain, BridgeInv, MainOK
  <2> HIDE DEF l
  <2>4. QED  BY <2>3 DEF MainOK, Mains
<1>4. HasJob'
  BY DEF BridgeInv, HasJob, MainReadsDrain, HasRow, ReplayedRow
<1>5. MainRead'
  <2>1. main.file \in Files /\ main.line \in Nat \ {0} /\ main.line <= Len(text[main.file])
    BY DEF MainReadsDrain, BridgeInv, MainOK, Mains, MainRead
  <2>2. events' = events \o LinesFrom(main.file, main.line)
    BY DEF MainReadsDrain
  <2>3. /\ events' \in Seq(Event)
        /\ \A j \in main.line..Len(text[main.file]) : text[main.file][j] \in ToSet(events')
    BY <2>1, <2>2, LinesQueued
  <2>4. text[main.file] \in Seq(Event) /\ Len(text[main.file]) \in Nat
    BY <2>1 DEF BridgeInv, SpoolOK
  <2>5. \A j \in 1..Len(text[main.file]) : text[main.file][j] \in Safe'
    <3> SUFFICES ASSUME NEW j \in 1..Len(text[main.file])  PROVE text[main.file][j] \in Safe'
      OBVIOUS
    <3>1. CASE j < main.line
      <4>1. j \in 1..(main.line - 1)
        BY <2>1, <3>1
      <4>2. main.file # 0
        BY DEF MainReadsDrain, BridgeInv, MainRead
      <4>3. QED  BY <4>1, <4>2 DEF BridgeInv, MainRead
    <3>2. CASE ~(j < main.line)
      <4>1. j \in main.line..Len(text[main.file])
        BY <2>1, <2>4, <3>2
      <4>2. QED  BY <2>3, <4>1 DEF Safe, InMemory
    <3>3. QED  BY <3>1, <3>2
  <2>6. main'.at = main.at /\ main'.file = main.file /\ main'.line = Len(text[main.file]) + 1
    BY DEF MainReadsDrain, BridgeInv, MainOK, Mains
  <2>7. main'.line - 1 = Len(text[main.file]) /\ text' = text
    BY <2>4, <2>6 DEF MainReadsDrain, fileVars
  <2>8. QED  BY <2>4, <2>5, <2>6, <2>7 DEF MainRead, MainReadsDrain, BridgeInv
<1>6. WorkerRead'
  BY DEF BridgeInv, WorkerRead, MainReadsDrain, fileVars
<1>7. QED  BY <1>1, <1>2, <1>3, <1>4, <1>5, <1>6 DEF BridgeInv

\* A drain that is read goes.
LEMMA MainEndsDrainKeeps ==
    ASSUME BridgeInv, Safe \subseteq Safe', MainEndsDrain
    PROVE  BridgeInv'
<1>1. /\ HooksOK' /\ QueuesOK' /\ WorkerOK' /\ RetryOK' /\ IdentityOK'
      /\ ShownOK' /\ FatesOK' /\ WorkerRead' /\ RowsRead' /\ HasFile'
      /\ TokenFirst'
  BY DEF BridgeInv, HooksOK, QueuesOK, WorkerOK, RetryOK, IdentityOK,
     ShownOK, FatesOK, WorkerRead, RowsRead, HasFile, TokenFirst,
     MainEndsDrain, identityVars, fates, Session
<1>2. SpoolOK'
  BY DEF BridgeInv, SpoolOK, MainEndsDrain
<1>3. MainOK'
  BY DEF BridgeInv, MainOK, MainEndsDrain, Mains
<1>4. HasJob'
  BY DEF BridgeInv, HasJob, MainEndsDrain, HasRow, ReplayedRow
<1>5. MainRead'
  BY DEF BridgeInv, MainRead, MainEndsDrain
<1>6. QED  BY <1>1, <1>2, <1>3, <1>4, <1>5 DEF BridgeInv

\* The hook that is answered rests.
LEMMA HandleConnectionKeeps ==
    ASSUME BridgeInv, Safe \subseteq Safe', HandleConnection
    PROVE  BridgeInv'
<1>1. /\ SpoolOK' /\ MainOK' /\ WorkerOK' /\ RetryOK' /\ IdentityOK'
      /\ ShownOK' /\ FatesOK' /\ HasJob' /\ RowsRead' /\ TokenFirst'
  BY DEF BridgeInv, SpoolOK, MainOK, WorkerOK, RetryOK, IdentityOK, ShownOK,
     FatesOK, HasJob, RowsRead, TokenFirst, HandleConnection, fileVars,
     identityVars, fates, HasRow, ReplayedRow, Session
<1>2. HooksOK'
  <2>1. hook \in [Sessions -> Hooks]
    BY DEF BridgeInv, HooksOK
  <2>2. ASSUME NEW s \in Sessions  PROVE hook'[s] \in Hooks
    <3>1. \E a \in {"idle", "unheard"} : hook'[s] \in {hook[s], [hook[s] EXCEPT !.at = a]}
      BY DEF HandleConnection
    <3>2. hook[s] \in Hooks
      BY <2>1
    <3>3. \A a \in {"idle", "unheard"} : [hook[s] EXCEPT !.at = a] \in Hooks
      BY <3>2 DEF Hooks
    <3>4. QED  BY <3>1, <3>2, <3>3
  <2>3. QED  BY <2>2 DEF HandleConnection, HooksOK
<1>3. QueuesOK'
  BY DEF BridgeInv, QueuesOK, HandleConnection
<1>4. MainRead'
  BY DEF BridgeInv, MainRead, HandleConnection, fileVars
<1>5. WorkerRead'
  BY DEF BridgeInv, WorkerRead, HandleConnection, fileVars
<1>6. HasFile'
  BY DEF BridgeInv, HasFile, HandleConnection
<1>7. QED  BY <1>1, <1>2, <1>3, <1>4, <1>5, <1>6 DEF BridgeInv

\* The worker starts with the retry drains.
LEMMA ListDrainsKeeps ==
    ASSUME BridgeInv, Safe \subseteq Safe', ListDrains
    PROVE  BridgeInv'
<1>1. /\ HooksOK' /\ QueuesOK' /\ SpoolOK' /\ MainOK' /\ RetryOK'
      /\ IdentityOK' /\ ShownOK' /\ FatesOK' /\ HasFile'
  BY DEF BridgeInv, HooksOK, QueuesOK, SpoolOK, MainOK, RetryOK, IdentityOK,
     ShownOK, FatesOK, HasFile, TokenFirst, ListDrains, workerOnly, fileVars,
     identityVars, fates
<1>2. WorkerOK'
  BY DEF BridgeInv, SpoolOK, WorkerOK, ListDrains, Workers, Stages
<1>3. HasJob'
  BY DEF BridgeInv, HasJob, ListDrains, workerOnly, Processing
<1>4. MainRead'
  BY DEF BridgeInv, MainRead, ListDrains, workerOnly, fileVars
<1>5. WorkerRead'
  BY DEF BridgeInv, WorkerRead, ListDrains
<1>6. RowsRead'
  BY DEF BridgeInv, HasJob, RowsRead, ListDrains
<1>7. TokenFirst'
  BY DEF BridgeInv, TokenFirst, ListDrains, identityVars
<1>8. QED  BY <1>1, <1>2, <1>3, <1>4, <1>5, <1>6, <1>7 DEF BridgeInv

\* The worker has read nothing of the drain.
LEMMA OpenDrainKeeps ==
    ASSUME BridgeInv, Safe \subseteq Safe', OpenDrain
    PROVE  BridgeInv'
<1>1. /\ HooksOK' /\ QueuesOK' /\ SpoolOK' /\ MainOK' /\ RetryOK'
      /\ IdentityOK' /\ ShownOK' /\ FatesOK' /\ HasFile'
  BY DEF BridgeInv, HooksOK, QueuesOK, SpoolOK, MainOK, RetryOK, IdentityOK,
     ShownOK, FatesOK, HasFile, OpenDrain, workerOnly, fileVars, identityVars,
     fates
<1>2. WorkerOK'
  BY WorkerMoves DEF WorkerIs, WorkerOK
<1>3. HasJob'
  BY DEF BridgeInv, HasJob, OpenDrain, workerOnly, Processing
<1>4. MainRead'
  BY DEF BridgeInv, MainRead, OpenDrain, workerOnly, fileVars
<1>5. WorkerRead'
  BY DEF BridgeInv, WorkerRead, OpenDrain
<1>6. RowsRead'
  BY DEF BridgeInv, RowsRead, OpenDrain
<1>7. TokenFirst'
  BY DEF BridgeInv, TokenFirst, OpenDrain, identityVars
<1>8. QED  BY <1>1, <1>2, <1>3, <1>4, <1>5, <1>6, <1>7 DEF BridgeInv

\* What was read is in the queue.
LEMMA WorkerReadsDrainKeeps ==
    ASSUME BridgeInv, Safe \subseteq Safe', WorkerReadsDrain
    PROVE  BridgeInv'
<1>1. /\ HooksOK' /\ SpoolOK' /\ MainOK' /\ RetryOK' /\ IdentityOK'
      /\ ShownOK' /\ FatesOK' /\ HasFile'
  BY DEF BridgeInv, HooksOK, SpoolOK, MainOK, RetryOK, IdentityOK, ShownOK,
     FatesOK, HasFile, WorkerReadsDrain, workerOnly, fileVars, identityVars,
     fates
<1>2. QueuesOK'
  <2>1. worker.file \in Files /\ worker.line \in Nat \ {0} /\ worker.line <= Len(text[worker.file])
    BY DEF WorkerReadsDrain, BridgeInv, WorkerOK, Workers
  <2>2. events' = events \o LinesFrom(worker.file, worker.line)
    BY DEF WorkerReadsDrain
  <2>3. /\ events' \in Seq(Event)
        /\ \A j \in worker.line..Len(text[worker.file]) : text[worker.file][j] \in ToSet(events')
    BY <2>1, <2>2, LinesQueued
  <2>4. QED  BY <2>3 DEF WorkerReadsDrain, workerOnly, BridgeInv, QueuesOK
<1>3. WorkerOK'
  BY WorkerMoves DEF WorkerIs, WorkerOK
<1>4. HasJob'
  <2>1. worker.at = "recovering" /\ main.at # "down" /\ main' = main
    BY DEF WorkerReadsDrain, workerOnly, BridgeInv, WorkerRead, HasJob
  <2>2. worker'.at = worker.at /\ worker'.job = worker.job /\ worker'.attempt = worker.attempt
    BY WorkerMoves DEF WorkerIs
  <2>3. QED  BY <2>1, <2>2 DEF BridgeInv, HasJob, Processing
<1>5. MainRead'
  BY DEF BridgeInv, MainRead, WorkerReadsDrain, workerOnly, fileVars
<1>6. WorkerRead'
  <2>1. worker.file \in Files /\ worker.line \in Nat \ {0} /\ worker.line <= Len(text[worker.file])
    BY DEF WorkerReadsDrain, BridgeInv, WorkerOK, Workers
  <2>2. events' = events \o LinesFrom(worker.file, worker.line)
    BY DEF WorkerReadsDrain
  <2>3. /\ events' \in Seq(Event)
        /\ \A j \in worker.line..Len(text[worker.file]) : text[worker.file][j] \in ToSet(events')
    BY <2>1, <2>2, LinesQueued
  <2>4. text[worker.file] \in Seq(Event) /\ Len(text[worker.file]) \in Nat
    BY <2>1 DEF BridgeInv, SpoolOK
  <2>5. \A j \in 1..Len(text[worker.file]) : text[worker.file][j] \in Safe'
    <3> SUFFICES ASSUME NEW j \in 1..Len(text[worker.file])  PROVE text[worker.file][j] \in Safe'
      OBVIOUS
    <3>1. CASE j < worker.line
      <4>1. j \in 1..(worker.line - 1)
        BY <2>1, <3>1
      <4>2. worker.file # 0
        BY DEF WorkerReadsDrain, BridgeInv, MainRead
      <4>3. QED  BY <4>1, <4>2 DEF BridgeInv, WorkerRead
    <3>2. CASE ~(j < worker.line)
      <4>1. j \in worker.line..Len(text[worker.file])
        BY <2>1, <2>4, <3>2
      <4>2. QED  BY <2>3, <4>1 DEF Safe, InMemory
    <3>3. QED  BY <3>1, <3>2
  <2>6. /\ worker'.at = worker.at /\ worker'.file = worker.file
        /\ worker'.line = Len(text[worker.file]) + 1 /\ text' = text
    BY WorkerMoves DEF WorkerIs, WorkerReadsDrain, fileVars
  <2>7. worker'.line - 1 = Len(text[worker.file]) /\ worker.at = "recovering"
    BY <2>4, <2>6 DEF WorkerReadsDrain, BridgeInv, WorkerRead
  <2>8. QED  BY <2>4, <2>5, <2>6, <2>7 DEF WorkerRead
<1>7. RowsRead'
  <2>1. worker.at = "recovering" /\ worker.attempt = 0
    BY DEF WorkerReadsDrain, BridgeInv, WorkerRead, HasJob, Processing
  <2>2. worker'.at = worker.at /\ worker'.attempt = worker.attempt
    BY WorkerMoves DEF WorkerIs
  <2>3. QED  BY <2>1, <2>2 DEF RowsRead
<1>8. TokenFirst'
  BY DEF BridgeInv, TokenFirst, WorkerReadsDrain, identityVars, Session
<1>9. QED  BY <1>1, <1>2, <1>3, <1>4, <1>5, <1>6, <1>7, <1>8 DEF BridgeInv

\* A drain that is read goes.
LEMMA WorkerEndsDrainKeeps ==
    ASSUME BridgeInv, Safe \subseteq Safe', WorkerEndsDrain
    PROVE  BridgeInv'
<1>1. /\ HooksOK' /\ QueuesOK' /\ MainOK' /\ RetryOK' /\ IdentityOK'
      /\ ShownOK' /\ FatesOK' /\ HasFile'
  BY DEF BridgeInv, HooksOK, QueuesOK, MainOK, RetryOK, IdentityOK, ShownOK,
     FatesOK, HasFile, WorkerEndsDrain, workerOnly, identityVars, fates
<1>2. SpoolOK'
  BY DEF BridgeInv, SpoolOK, WorkerEndsDrain
<1>3. WorkerOK'
  BY WorkerMoves DEF WorkerIs, WorkerOK
<1>4. HasJob'
  <2>1. worker.at = "recovering" /\ main.at # "down" /\ main' = main
    BY DEF WorkerEndsDrain, workerOnly, BridgeInv, WorkerRead, HasJob
  <2>2. worker'.at = worker.at /\ worker'.job = worker.job /\ worker'.attempt = worker.attempt
    BY WorkerMoves DEF WorkerIs
  <2>3. QED  BY <2>1, <2>2 DEF BridgeInv, HasJob, Processing
<1>5. MainRead'
  BY DEF BridgeInv, MainRead, WorkerEndsDrain, workerOnly
<1>6. WorkerRead'
  BY DEF BridgeInv, WorkerRead, WorkerEndsDrain
<1>7. RowsRead'
  BY DEF BridgeInv, RowsRead, WorkerEndsDrain
<1>8. TokenFirst'
  BY DEF BridgeInv, TokenFirst, WorkerEndsDrain, identityVars, Session
<1>9. QED  BY <1>1, <1>2, <1>3, <1>4, <1>5, <1>6, <1>7, <1>8 DEF BridgeInv

\* Only a session with its token is registered.
LEMMA ReconcileBindingsKeeps ==
    ASSUME BridgeInv, Safe \subseteq Safe', ReconcileBindings
    PROVE  BridgeInv'
<1>1. /\ HooksOK' /\ QueuesOK' /\ SpoolOK' /\ MainOK' /\ RetryOK'
      /\ IdentityOK' /\ ShownOK' /\ FatesOK' /\ HasFile'
  BY DEF BridgeInv, HooksOK, QueuesOK, SpoolOK, MainOK, RetryOK, IdentityOK,
     ShownOK, FatesOK, HasFile, ReconcileBindings, workerOnly, fileVars, fates
<1>2. WorkerOK'
  BY DEF BridgeInv, WorkerOK, ReconcileBindings, Workers, Stages
<1>3. HasJob'
  BY DEF BridgeInv, HasJob, ReconcileBindings, workerOnly, Processing
<1>4. MainRead'
  BY DEF BridgeInv, MainRead, ReconcileBindings, workerOnly, fileVars
<1>5. WorkerRead'
  BY DEF BridgeInv, WorkerRead, ReconcileBindings
<1>6. RowsRead'
  BY DEF BridgeInv, RowsRead, ReconcileBindings, fates
<1>7. TokenFirst'
  BY DEF BridgeInv, TokenFirst, ReconcileBindings
<1>8. QED  BY <1>1, <1>2, <1>3, <1>4, <1>5, <1>6, <1>7 DEF BridgeInv

\* The job is an event.
LEMMA TakeEventKeeps ==
    ASSUME BridgeInv, Safe \subseteq Safe', TakeEvent
    PROVE  BridgeInv'
<1>1. /\ HooksOK' /\ SpoolOK' /\ MainOK' /\ RetryOK' /\ IdentityOK'
      /\ ShownOK' /\ FatesOK' /\ HasFile'
  BY DEF BridgeInv, HooksOK, SpoolOK, MainOK, RetryOK, IdentityOK, ShownOK,
     FatesOK, HasFile, TakeEvent, workerOnly, fileVars, identityVars, fates
<1>2. QueuesOK'
  BY DEF BridgeInv, QueuesOK, TakeEvent, workerOnly
<1>3. WorkerOK'
  BY WorkerMoves DEF WorkerIs, WorkerOK
<1>4. HasJob'
  <2>1. worker'.at = "resolve" /\ worker'.job = Head(events) /\ worker'.attempt = 0
    BY WorkerMoves DEF WorkerIs
  <2>2. Head(events) \in Event /\ main.at # "down" /\ main' = main
    BY DEF TakeEvent, workerOnly, BridgeInv, HasJob, QueuesOK
  <2>3. QED  BY <2>1, <2>2 DEF HasJob, Processing
<1>5. MainRead'
  BY DEF BridgeInv, MainRead, TakeEvent, workerOnly, fileVars
<1>6. WorkerRead'
  BY DEF BridgeInv, WorkerRead, TakeEvent
<1>7. RowsRead'
  BY DEF BridgeInv, RowsRead, TakeEvent
<1>8. TokenFirst'
  BY DEF BridgeInv, TokenFirst, TakeEvent, identityVars
<1>9. QED  BY <1>1, <1>2, <1>3, <1>4, <1>5, <1>6, <1>7, <1>8 DEF BridgeInv

\* No row of the retry drain is read.
LEMMA StartReplayKeeps ==
    ASSUME BridgeInv, Safe \subseteq Safe', StartReplay
    PROVE  BridgeInv'
<1>1. /\ HooksOK' /\ QueuesOK' /\ SpoolOK' /\ MainOK' /\ IdentityOK'
      /\ ShownOK' /\ FatesOK' /\ HasFile'
  BY DEF BridgeInv, HooksOK, QueuesOK, SpoolOK, MainOK, IdentityOK, ShownOK,
     FatesOK, HasFile, StartReplay, workerOnly, fileVars, identityVars, fates
<1>2. WorkerOK'
  BY WorkerMoves DEF WorkerIs, WorkerOK
<1>3. RetryOK'
  BY DEF BridgeInv, RetryOK, StartReplay
<1>4. HasJob'
  BY DEF BridgeInv, HasJob, StartReplay, workerOnly, Processing
<1>5. MainRead'
  BY DEF BridgeInv, MainRead, StartReplay, workerOnly, fileVars
<1>6. WorkerRead'
  BY DEF BridgeInv, WorkerRead, StartReplay
<1>7. RowsRead'
  BY DEF BridgeInv, RowsRead, StartReplay
<1>8. TokenFirst'
  BY DEF BridgeInv, TokenFirst, StartReplay, identityVars
<1>9. QED  BY <1>1, <1>2, <1>3, <1>4, <1>5, <1>6, <1>7, <1>8 DEF BridgeInv

\* The row that is passed is in the retry file again.
LEMMA PutOffRowKeeps ==
    ASSUME BridgeInv, Safe \subseteq Safe', PutOffRow
    PROVE  BridgeInv'
<1>1. /\ HooksOK' /\ QueuesOK' /\ SpoolOK' /\ MainOK' /\ IdentityOK'
      /\ ShownOK' /\ FatesOK' /\ HasFile'
  BY DEF BridgeInv, HooksOK, QueuesOK, SpoolOK, MainOK, IdentityOK, ShownOK,
     FatesOK, HasFile, PutOffRow, workerOnly, fileVars, identityVars, fates
<1>2. WorkerOK'
  BY WorkerMoves DEF WorkerIs, WorkerOK
<1>3. RetryOK'
  BY RowHeld, EventsOfAppend DEF PutOffRow, BridgeInv, RetryOK
<1>4. HasJob'
  BY DEF BridgeInv, HasJob, PutOffRow, workerOnly, Processing
<1>5. MainRead'
  BY DEF BridgeInv, MainRead, PutOffRow, workerOnly, fileVars
<1>6. WorkerRead'
  BY DEF BridgeInv, WorkerRead, PutOffRow
<1>7. RowsRead'
  <2>1. /\ HasRow /\ retryDrains' = retryDrains /\ settled' = settled
        /\ retry' = Append(retry, ReplayedRow) /\ worker.at = "replaying"
    BY DEF PutOffRow, fates
  <2>2. worker'.line = worker.line + 1
    BY WorkerMoves DEF WorkerIs
  <2>3. EventsOf(retry') = EventsOf(retry) \cup {ReplayedRow.event}
    BY <2>1, RowHeld, EventsOfAppend DEF BridgeInv, RetryOK
  <2>4. QED  BY <2>1, <2>2, <2>3, RowPassed
<1>8. TokenFirst'
  BY DEF BridgeInv, TokenFirst, PutOffRow, identityVars
<1>9. QED  BY <1>1, <1>2, <1>3, <1>4, <1>5, <1>6, <1>7, <1>8 DEF BridgeInv

\* The row that is passed is settled.
LEMMA DropRowKeeps ==
    ASSUME BridgeInv, Safe \subseteq Safe', DropRow
    PROVE  BridgeInv'
<1>1. /\ HooksOK' /\ QueuesOK' /\ SpoolOK' /\ MainOK' /\ RetryOK'
      /\ IdentityOK' /\ ShownOK' /\ HasFile'
  BY DEF BridgeInv, HooksOK, QueuesOK, SpoolOK, MainOK, RetryOK, IdentityOK,
     ShownOK, HasFile, DropRow, workerOnly, fileVars, identityVars
<1>2. WorkerOK'
  BY WorkerMoves DEF WorkerIs, WorkerOK
<1>3. FatesOK'
  BY RowHeld DEF BridgeInv, FatesOK, DropRow
<1>4. HasJob'
  BY DEF BridgeInv, HasJob, DropRow, workerOnly, Processing
<1>5. MainRead'
  BY DEF BridgeInv, MainRead, DropRow, workerOnly, fileVars
<1>6. WorkerRead'
  BY DEF BridgeInv, WorkerRead, DropRow
<1>7. RowsRead'
  <2>1. /\ HasRow /\ retryDrains' = retryDrains /\ retry' = retry
        /\ settled' = settled \cup {ReplayedRow.event} /\ worker.at = "replaying"
    BY DEF DropRow
  <2>2. worker'.line = worker.line + 1
    BY WorkerMoves DEF WorkerIs
  <2>3. QED  BY <2>1, <2>2, RowPassed DEF EventsOf
<1>8. TokenFirst'
  BY DEF BridgeInv, TokenFirst, DropRow, identityVars
<1>9. QED  BY <1>1, <1>2, <1>3, <1>4, <1>5, <1>6, <1>7, <1>8 DEF BridgeInv

\* The job is the row's event.
LEMMA ReplayRowKeeps ==
    ASSUME BridgeInv, Safe \subseteq Safe', ReplayRow
    PROVE  BridgeInv'
<1>1. /\ HooksOK' /\ QueuesOK' /\ SpoolOK' /\ MainOK' /\ RetryOK'
      /\ IdentityOK' /\ ShownOK' /\ FatesOK' /\ HasFile'
  BY DEF BridgeInv, HooksOK, QueuesOK, SpoolOK, MainOK, RetryOK, IdentityOK,
     ShownOK, FatesOK, HasFile, ReplayRow, workerOnly, fileVars, identityVars,
     fates
<1>2. WorkerOK'
  BY WorkerMoves DEF WorkerIs, WorkerOK
<1>3. HasJob'
  <2>1. /\ worker'.at = "resolve" /\ worker'.job = ReplayedRow.event
        /\ worker'.line = worker.line
    BY WorkerMoves DEF WorkerIs
  <2>2. /\ HasRow /\ ReplayedRow.event \in Event /\ retryDrains' = retryDrains
        /\ main.at # "down" /\ main' = main
    BY RowHeld DEF ReplayRow, workerOnly, BridgeInv, HasJob
  <2>3. HasRow' /\ ReplayedRow' = ReplayedRow
    BY <2>1, <2>2 DEF HasRow, ReplayedRow
  <2>4. QED  BY <2>1, <2>2, <2>3 DEF HasJob, Processing
<1>4. MainRead'
  BY DEF BridgeInv, MainRead, ReplayRow, workerOnly, fileVars
<1>5. WorkerRead'
  BY DEF BridgeInv, WorkerRead, ReplayRow
<1>6. RowsRead'
  BY DEF BridgeInv, RowsRead, ReplayRow, fates
<1>7. TokenFirst'
  BY DEF BridgeInv, TokenFirst, ReplayRow, identityVars
<1>8. QED  BY <1>1, <1>2, <1>3, <1>4, <1>5, <1>6, <1>7 DEF BridgeInv

\* The next retry drain is read from its start.
LEMMA EndReplayKeeps ==
    ASSUME BridgeInv, Safe \subseteq Safe', EndReplay
    PROVE  BridgeInv'
<1>1. /\ HooksOK' /\ QueuesOK' /\ SpoolOK' /\ MainOK' /\ IdentityOK'
      /\ ShownOK' /\ FatesOK' /\ HasFile'
  BY DEF BridgeInv, HooksOK, QueuesOK, SpoolOK, MainOK, IdentityOK, ShownOK,
     FatesOK, HasFile, EndReplay, workerOnly, fileVars, identityVars, fates
<1>2. WorkerOK'
  BY ReplayDone DEF WorkerIs, WorkerOK
<1>3. RetryOK'
  BY DEF BridgeInv, RetryOK, EndReplay
<1>4. HasJob'
  BY DEF BridgeInv, HasJob, EndReplay, workerOnly, Processing
<1>5. MainRead'
  BY DEF BridgeInv, MainRead, EndReplay, workerOnly, fileVars
<1>6. WorkerRead'
  BY DEF BridgeInv, WorkerRead, EndReplay
<1>7. RowsRead'
  BY DEF BridgeInv, RowsRead, EndReplay
<1>8. TokenFirst'
  BY DEF BridgeInv, TokenFirst, EndReplay, identityVars
<1>9. QED  BY <1>1, <1>2, <1>3, <1>4, <1>5, <1>6, <1>7, <1>8 DEF BridgeInv

\* The token comes next.
LEMMA CreateBindingKeeps ==
    ASSUME BridgeInv, Safe \subseteq Safe', CreateBinding
    PROVE  BridgeInv'
<1>1. /\ HooksOK' /\ QueuesOK' /\ SpoolOK' /\ MainOK' /\ RetryOK'
      /\ ShownOK' /\ FatesOK' /\ HasFile'
  BY DEF BridgeInv, HooksOK, QueuesOK, SpoolOK, MainOK, RetryOK, ShownOK,
     FatesOK, HasFile, CreateBinding, workerOnly, fileVars, fates, Hooks
<1>2. WorkerOK'
  BY DEF BridgeInv, WorkerOK, CreateBinding, Workers, Stages
<1>3. IdentityOK'
  BY DEF BridgeInv, IdentityOK, HasJob, CreateBinding, Session, Processing,
     Event
<1>4. HasJob'
  BY DEF BridgeInv, HasJob, CreateBinding, workerOnly, Processing, HasRow,
     ReplayedRow
<1>5. MainRead'
  BY DEF BridgeInv, MainRead, CreateBinding, workerOnly, fileVars
<1>6. WorkerRead'
  BY DEF BridgeInv, WorkerRead, CreateBinding
<1>7. RowsRead'
  BY DEF BridgeInv, RowsRead, CreateBinding, fates
<1>8. TokenFirst'
  BY DEF BridgeInv, TokenFirst, CreateBinding
<1>9. QED  BY <1>1, <1>2, <1>3, <1>4, <1>5, <1>6, <1>7, <1>8 DEF BridgeInv

\* The token is there before the registration.
LEMMA StoreTokenKeeps ==
    ASSUME BridgeInv, Safe \subseteq Safe', StoreToken
    PROVE  BridgeInv'
<1>1. /\ HooksOK' /\ QueuesOK' /\ SpoolOK' /\ MainOK' /\ RetryOK'
      /\ ShownOK' /\ FatesOK' /\ HasFile'
  BY DEF BridgeInv, HooksOK, QueuesOK, SpoolOK, MainOK, RetryOK, ShownOK,
     FatesOK, HasFile, StoreToken, workerOnly, fileVars, fates
<1>2. WorkerOK'
  BY DEF BridgeInv, WorkerOK, StoreToken, Workers, Stages
<1>3. IdentityOK'
  BY DEF BridgeInv, IdentityOK, HasJob, StoreToken, Session, Processing,
     Event
<1>4. HasJob'
  BY DEF BridgeInv, HasJob, StoreToken, workerOnly, Processing, HasRow,
     ReplayedRow
<1>5. MainRead'
  BY DEF BridgeInv, MainRead, StoreToken, workerOnly, fileVars
<1>6. WorkerRead'
  BY DEF BridgeInv, WorkerRead, StoreToken
<1>7. RowsRead'
  BY DEF BridgeInv, RowsRead, StoreToken, fates
<1>8. TokenFirst'
  BY DEF BridgeInv, TokenFirst, StoreToken, Session
<1>9. QED  BY <1>1, <1>2, <1>3, <1>4, <1>5, <1>6, <1>7, <1>8 DEF BridgeInv

\* A session with its token is registered again.
LEMMA TouchBindingKeeps ==
    ASSUME BridgeInv, Safe \subseteq Safe', TouchBinding
    PROVE  BridgeInv'
<1>1. /\ HooksOK' /\ QueuesOK' /\ SpoolOK' /\ MainOK' /\ RetryOK'
      /\ IdentityOK' /\ ShownOK' /\ FatesOK' /\ HasFile'
  BY DEF BridgeInv, HooksOK, QueuesOK, SpoolOK, MainOK, WorkerOK, RetryOK,
     IdentityOK, ShownOK, FatesOK, HasJob, MainRead, WorkerRead, RowsRead,
     HasFile, TouchBinding, Session, workerOnly, fileVars, identityVars, fates,
     Hooks
<1>2. WorkerOK'
  BY DEF BridgeInv, WorkerOK, TouchBinding, Workers, Stages
<1>3. HasJob'
  BY DEF BridgeInv, HasJob, TouchBinding, workerOnly, Processing, HasRow,
     ReplayedRow
<1>4. MainRead'
  BY DEF BridgeInv, MainRead, TouchBinding, workerOnly, fileVars
<1>5. WorkerRead'
  BY DEF BridgeInv, WorkerRead, TouchBinding
<1>6. RowsRead'
  BY DEF BridgeInv, RowsRead, TouchBinding, fates
<1>7. TokenFirst'
  BY DEF BridgeInv, TokenFirst, TouchBinding, Session, identityVars
<1>8. QED  BY <1>1, <1>2, <1>3, <1>4, <1>5, <1>6, <1>7 DEF BridgeInv

\* The event is settled.
LEMMA TokenMissingKeeps ==
    ASSUME BridgeInv, Safe \subseteq Safe', TokenMissing
    PROVE  BridgeInv'
<1>1. /\ HooksOK' /\ QueuesOK' /\ SpoolOK' /\ MainOK' /\ RetryOK'
      /\ IdentityOK' /\ HasFile'
  BY DEF BridgeInv, HooksOK, QueuesOK, SpoolOK, MainOK, RetryOK, IdentityOK,
     HasFile, TokenMissing, workerOnly, fileVars, identityVars
<1>2. WorkerOK'
  <2>1. worker.at \in Processing /\ worker' = AfterEvent /\ worker.job \in settled'
        /\ settled \subseteq settled' /\ UNCHANGED <<retry, retryDrains>>
    BY DEF TokenMissing, Processing
  <2>2. QED  BY <2>1, JobPassed DEF EventsOf
<1>3. ShownOK'
  BY DEF BridgeInv, ShownOK, HasJob, TokenMissing, Session, Processing,
     Event
<1>4. FatesOK'
  BY DEF BridgeInv, FatesOK, HasJob, TokenMissing, Processing
<1>5. HasJob'
  BY DEF BridgeInv, HasJob, TokenMissing, AfterEvent, workerOnly, Processing
<1>6. MainRead'
  BY DEF BridgeInv, MainRead, TokenMissing, workerOnly, fileVars
<1>7. WorkerRead'
  BY DEF BridgeInv, WorkerRead, TokenMissing, AfterEvent
<1>8. RowsRead'
  <2>1. worker.at \in Processing /\ worker' = AfterEvent /\ worker.job \in settled'
        /\ settled \subseteq settled' /\ UNCHANGED <<retry, retryDrains>>
    BY DEF TokenMissing, Processing
  <2>2. QED  BY <2>1, JobPassed DEF EventsOf
<1>9. TokenFirst'
  BY DEF BridgeInv, TokenFirst, TokenMissing, AfterEvent, identityVars
<1>10. QED  BY <1>1, <1>2, <1>3, <1>4, <1>5, <1>6, <1>7,
     <1>8, <1>9 DEF BridgeInv

\* The event is settled, or its row stays where it is.
LEMMA BindingUnreadableKeeps ==
    ASSUME BridgeInv, Safe \subseteq Safe', BindingUnreadable
    PROVE  BridgeInv'
<1>1. /\ HooksOK' /\ QueuesOK' /\ SpoolOK' /\ MainOK' /\ RetryOK'
      /\ IdentityOK' /\ ShownOK' /\ HasFile'
  BY DEF BridgeInv, HooksOK, QueuesOK, SpoolOK, MainOK, RetryOK, IdentityOK,
     ShownOK, HasFile, BindingUnreadable, Session, WorkerOff, workerOnly,
     fileVars, identityVars
<1>2. WorkerOK'
  BY BindingLost
<1>3. FatesOK'
  <2>1. worker.job \in Event
    BY DEF BindingUnreadable, BridgeInv, HasJob, Processing
  <2>2. settled' \subseteq settled \cup {worker.job}
    BY DEF BindingUnreadable
  <2>3. QED  BY <2>1, <2>2 DEF BindingUnreadable, BridgeInv, FatesOK
<1>4. HasJob'
  <2>1. main.at # "down" /\ main' = main
    BY DEF BindingUnreadable, workerOnly, BridgeInv, HasJob
  <2>2. QED  BY <2>1, BindingLost DEF HasJob, Processing
<1>5. MainRead'
  BY DEF BridgeInv, MainRead, BindingUnreadable, workerOnly, fileVars
<1>6. WorkerRead'
  BY BindingLost DEF WorkerRead
<1>7. RowsRead'
  BY BindingLost DEF RowsRead
<1>8. TokenFirst'
  BY BindingLost DEF BindingUnreadable, identityVars, BridgeInv, TokenFirst
<1>9. QED  BY <1>1, <1>2, <1>3, <1>4, <1>5, <1>6, <1>7, <1>8 DEF BridgeInv

\* The session has its token.
LEMMA RegisteredKeeps ==
    ASSUME BridgeInv, Safe \subseteq Safe', Registered
    PROVE  BridgeInv'
<1>1. /\ HooksOK' /\ QueuesOK' /\ SpoolOK' /\ MainOK' /\ RetryOK'
      /\ IdentityOK' /\ ShownOK' /\ FatesOK' /\ HasFile'
  BY DEF BridgeInv, HooksOK, QueuesOK, SpoolOK, MainOK, RetryOK, IdentityOK,
     ShownOK, FatesOK, HasFile, Registered, workerOnly, fileVars, fates
<1>2. WorkerOK'
  BY DEF BridgeInv, WorkerOK, Registered, Workers, Stages
<1>3. HasJob'
  BY DEF BridgeInv, HasJob, Registered, workerOnly, Processing, HasRow,
     ReplayedRow
<1>4. MainRead'
  BY DEF BridgeInv, MainRead, Registered, workerOnly, fileVars
<1>5. WorkerRead'
  BY DEF BridgeInv, WorkerRead, Registered
<1>6. RowsRead'
  BY DEF BridgeInv, RowsRead, Registered, fates
<1>7. TokenFirst'
  BY DEF BridgeInv, TokenFirst, Registered
<1>8. QED  BY <1>1, <1>2, <1>3, <1>4, <1>5, <1>6, <1>7 DEF BridgeInv

\* The event is settled or has a row; the session has its token.
LEMMA RegistrationFailsKeeps ==
    ASSUME BridgeInv, Safe \subseteq Safe', RegistrationFails
    PROVE  BridgeInv'
<1>1. /\ HooksOK' /\ QueuesOK' /\ SpoolOK' /\ MainOK' /\ IdentityOK'
      /\ HasFile'
  BY DEF BridgeInv, HooksOK, QueuesOK, SpoolOK, MainOK, IdentityOK, HasFile,
     RegistrationFails, workerOnly, fileVars
<1>2. WorkerOK'
  <2>1. worker.at \in Processing /\ worker' = AfterEvent /\ retryDrains' = retryDrains
    BY DEF RegistrationFails, Processing
  <2>2. QED  BY <2>1, RegistrationRefused, JobPassed
<1>3. RetryOK'
  BY RegistrationRefused DEF RegistrationFails, BridgeInv, RetryOK
<1>4. ShownOK'
  BY DEF BridgeInv, ShownOK, HasJob, RegistrationFails, Session, Processing,
     Event
<1>5. FatesOK'
  BY DEF BridgeInv, FatesOK, HasJob, RegistrationFails, Processing
<1>6. HasJob'
  BY DEF BridgeInv, HasJob, RegistrationFails, AfterEvent, workerOnly,
     Processing
<1>7. MainRead'
  BY DEF BridgeInv, MainRead, RegistrationFails, workerOnly, fileVars
<1>8. WorkerRead'
  BY DEF BridgeInv, WorkerRead, RegistrationFails, AfterEvent
<1>9. RowsRead'
  <2>1. worker.at \in Processing /\ worker' = AfterEvent /\ retryDrains' = retryDrains
    BY DEF RegistrationFails, Processing
  <2>2. QED  BY <2>1, RegistrationRefused, JobPassed
<1>10. TokenFirst'
  BY DEF BridgeInv, TokenFirst, RegistrationFails, AfterEvent
<1>11. QED  BY <1>1, <1>2, <1>3, <1>4, <1>5, <1>6, <1>7, <1>8,
     <1>9, <1>10 DEF BridgeInv

\* The event is settled.
LEMMA ShowStateKeeps ==
    ASSUME BridgeInv, Safe \subseteq Safe', ShowState
    PROVE  BridgeInv'
<1>1. /\ HooksOK' /\ QueuesOK' /\ SpoolOK' /\ MainOK' /\ RetryOK'
      /\ IdentityOK' /\ HasFile'
  BY DEF BridgeInv, HooksOK, QueuesOK, SpoolOK, MainOK, RetryOK, IdentityOK,
     HasFile, ShowState, workerOnly, fileVars, identityVars
<1>2. WorkerOK'
  <2>1. worker.at \in Processing /\ worker' = AfterEvent /\ worker.job \in settled'
        /\ settled \subseteq settled' /\ UNCHANGED <<retry, retryDrains>>
    BY DEF ShowState, Processing
  <2>2. QED  BY <2>1, JobPassed DEF EventsOf
<1>3. ShownOK'
  BY DEF BridgeInv, ShownOK, HasJob, ShowState, Session, Processing, Event
<1>4. FatesOK'
  BY DEF BridgeInv, FatesOK, HasJob, ShowState, Processing
<1>5. HasJob'
  BY DEF BridgeInv, HasJob, ShowState, AfterEvent, workerOnly, Processing
<1>6. MainRead'
  BY DEF BridgeInv, MainRead, ShowState, workerOnly, fileVars
<1>7. WorkerRead'
  BY DEF BridgeInv, WorkerRead, ShowState, AfterEvent
<1>8. RowsRead'
  <2>1. worker.at \in Processing /\ worker' = AfterEvent /\ worker.job \in settled'
        /\ settled \subseteq settled' /\ UNCHANGED <<retry, retryDrains>>
    BY DEF ShowState, Processing
  <2>2. QED  BY <2>1, JobPassed DEF EventsOf
<1>9. TokenFirst'
  BY DEF BridgeInv, TokenFirst, ShowState, AfterEvent, identityVars
<1>10. QED  BY <1>1, <1>2, <1>3, <1>4, <1>5, <1>6, <1>7,
     <1>8, <1>9 DEF BridgeInv

\* A row comes due.
LEMMA BackoffPassesKeeps ==
    ASSUME BridgeInv, Safe \subseteq Safe', BackoffPasses
    PROVE  BridgeInv'
<1>1. HooksOK'
  BY DEF BridgeInv, HooksOK, BackoffPasses, workerOnly
<1>2. QueuesOK'
  BY DEF BridgeInv, QueuesOK, BackoffPasses, workerOnly
<1>3. SpoolOK'
  BY DEF BridgeInv, SpoolOK, BackoffPasses, fileVars
<1>4. MainOK'
  BY DEF BridgeInv, MainOK, BackoffPasses, workerOnly
<1>5. WorkerOK'
  BY DEF BridgeInv, WorkerOK, BackoffPasses
<1>6. RetryOK'
  BY EventsOfDue DEF BackoffPasses, BridgeInv, RetryOK
<1>7. IdentityOK'
  BY DEF BridgeInv, IdentityOK, BackoffPasses, identityVars
<1>8. ShownOK'
  BY DEF BridgeInv, ShownOK, BackoffPasses
<1>9. FatesOK'
  BY DEF BridgeInv, FatesOK, BackoffPasses, fates
<1>10. HasJob'
  BY DEF BridgeInv, HasJob, BackoffPasses, workerOnly, HasRow, ReplayedRow
<1>11. MainRead'
  BY DEF BridgeInv, MainRead, BackoffPasses, workerOnly, fileVars
<1>12. WorkerRead'
  BY DEF BridgeInv, WorkerRead, BackoffPasses, fileVars
<1>13. RowsRead'
  <2>1. EventsOf(retry') = EventsOf(retry)
    BY EventsOfDue DEF BackoffPasses, BridgeInv, RetryOK
  <2>2. UNCHANGED <<worker, retryDrains, settled>>
    BY DEF BackoffPasses, fates
  <2>3. QED  BY <2>1, <2>2 DEF BridgeInv, RowsRead
<1>14. HasFile'
  BY DEF BridgeInv, HasFile, BackoffPasses, workerOnly
<1>15. TokenFirst'
  BY DEF BridgeInv, TokenFirst, BackoffPasses, identityVars, Session
<1>16. QED  BY <1>1, <1>2, <1>3, <1>4, <1>5, <1>6, <1>7, <1>8, <1>9, <1>10,
     <1>11, <1>12, <1>13, <1>14, <1>15 DEF BridgeInv

\* Files and tokens survive.
LEMMA BridgeCrashKeeps ==
    ASSUME BridgeInv, BridgeCrash
    PROVE  BridgeInv'
<1>1. HooksOK'
  <2>1. hook \in [Sessions -> Hooks]
    BY DEF BridgeInv, HooksOK
  <2>2. ASSUME NEW s \in Sessions  PROVE hook'[s] \in Hooks
    <3>1. \E a \in {"idle", "unheard"} : hook'[s] \in {hook[s], [hook[s] EXCEPT !.at = a]}
      BY DEF BridgeCrash
    <3>2. hook[s] \in Hooks
      BY <2>1
    <3>3. \A a \in {"idle", "unheard"} : [hook[s] EXCEPT !.at = a] \in Hooks
      BY <3>2 DEF Hooks
    <3>4. QED  BY <3>1, <3>2, <3>3
  <2>3. QED  BY <2>2 DEF BridgeCrash, HooksOK
<1>2. QueuesOK'
  BY DEF BridgeInv, QueuesOK, BridgeCrash
<1>3. SpoolOK'
  BY DEF BridgeInv, SpoolOK, BridgeCrash, fileVars
<1>4. MainOK'
  BY DEF BridgeInv, MainOK, BridgeCrash, MainDown, Mains
<1>5. WorkerOK'
  BY BridgeAssumption DEF BridgeInv, WorkerOK, BridgeCrash, WorkerOff,
     Workers, Stages
<1>6. RetryOK'
  BY DEF BridgeInv, RetryOK, BridgeCrash
<1>7. IdentityOK'
  BY DEF BridgeInv, IdentityOK, BridgeCrash, identityVars
<1>8. ShownOK'
  BY DEF BridgeInv, ShownOK, BridgeCrash
<1>9. FatesOK'
  <2>1. ToSet(events) \subseteq Event
    BY ToSetIn DEF BridgeInv, QueuesOK
  <2>2. InMemory \subseteq Event
    BY <2>1 DEF InMemory, BridgeInv, WorkerOK, Workers
  <2>3. QED  BY <2>2 DEF BridgeCrash, BridgeInv, FatesOK
<1>10. HasJob'
  BY DEF BridgeInv, HasJob, BridgeCrash, WorkerOff, Processing
<1>11. MainRead'
  BY DEF BridgeInv, MainRead, BridgeCrash, MainDown
<1>12. WorkerRead'
  BY DEF BridgeInv, WorkerRead, BridgeCrash, WorkerOff
<1>13. RowsRead'
  BY DEF BridgeInv, RowsRead, BridgeCrash, WorkerOff
<1>14. HasFile'
  BY DEF BridgeInv, HasFile, BridgeCrash
<1>15. TokenFirst'
  BY DEF BridgeInv, TokenFirst, BridgeCrash, WorkerOff, identityVars
<1>16. QED  BY <1>1, <1>2, <1>3, <1>4, <1>5, <1>6, <1>7, <1>8, <1>9, <1>10,
     <1>11, <1>12, <1>13, <1>14, <1>15 DEF BridgeInv

\* The Bridge starts with the invariant,
LEMMA BridgeInvStart == BridgeInit => BridgeInv
<1>1. BridgeInit => HooksOK /\ MainOK /\ WorkerOK
  <2>1. Resting \in Hooks
    BY BridgeAssumption DEF Resting, Hooks
  <2>2. MainDown \in Mains
    BY DEF MainDown, Mains
  <2>3. WorkerOff \in Workers
    BY WorkerAnew, BridgeAssumption DEF WorkerIs, Stages
  <2>4. QED  BY <2>1, <2>2, <2>3 DEF BridgeInit, HooksOK, MainOK, WorkerOK
<1>2. BridgeInit => /\ QueuesOK /\ SpoolOK /\ RetryOK
                    /\ IdentityOK /\ ShownOK /\ FatesOK
  BY BridgeAssumption DEF BridgeInit, QueuesOK, SpoolOK, RetryOK, IdentityOK,
     ShownOK,
     FatesOK
<1>3. BridgeInit => HasJob /\ MainRead /\ WorkerRead /\ RowsRead /\ HasFile /\ TokenFirst
  BY DEF BridgeInit, HasJob, MainRead, WorkerRead, RowsRead, HasFile,
     TokenFirst, Resting,
     MainDown, WorkerOff, Processing
<1>4. QED  BY <1>1, <1>2, <1>3 DEF BridgeInv

\* and every step keeps it.
LEMMA BridgeInvStep == BridgeInv /\ [BridgeNext]_bridgeVars => BridgeInv'
<1> SUFFICES ASSUME BridgeInv, [BridgeNext]_bridgeVars  PROVE BridgeInv'
  OBVIOUS
<1>1. ASSUME NEW s \in Sessions, HookStep(s) \/ BindingRots(s)  PROVE BridgeInv'
  <2>1. Safe \subseteq Safe'
    BY <1>1, HookSafe
  <2>2. QED
    BY <1>1, <2>1, FireHookKeeps, HookTimeoutKeeps, OpenSpoolKeeps,
       WriteSpoolKeeps,
       BindingRotsKeeps DEF HookStep
<1>2. CASE MainStep
  <2>1. Safe \subseteq Safe'
    BY <1>2, MainSafe
  <2>2. QED
    BY <1>2, <2>1, StartBridgeKeeps, BindAndPublishKeeps, QueueSpoolKeeps,
       MainReadsDrainKeeps, MainEndsDrainKeeps, HandleConnectionKeeps
       DEF MainStep
<1>3. CASE \/ ListDrains \/ OpenDrain \/ WorkerReadsDrain \/ WorkerEndsDrain
           \/ ReconcileBindings \/ TakeEvent \/ BackoffPasses
  <2>1. Safe \subseteq Safe'
    BY <1>3, QueueSafe
  <2>2. QED
    BY <1>3, <2>1, ListDrainsKeeps, OpenDrainKeeps, WorkerReadsDrainKeeps,
       WorkerEndsDrainKeeps, ReconcileBindingsKeeps, TakeEventKeeps,
       BackoffPassesKeeps
<1>4. CASE StartReplay \/ PutOffRow \/ DropRow \/ ReplayRow \/ EndReplay
  <2>1. Safe \subseteq Safe'
    BY <1>4, ReplaySafe
  <2>2. QED
    BY <1>4, <2>1, StartReplayKeeps, PutOffRowKeeps, DropRowKeeps,
       ReplayRowKeeps,
       EndReplayKeeps
<1>5. CASE ProcessStep
  <2>1. Safe \subseteq Safe'
    BY <1>5, ProcessSafe
  <2>2. QED
    BY <1>5, <2>1, CreateBindingKeeps, StoreTokenKeeps, TouchBindingKeeps,
       TokenMissingKeeps, BindingUnreadableKeeps, RegisteredKeeps,
       RegistrationFailsKeeps, ShowStateKeeps DEF ProcessStep
<1>6. CASE UNCHANGED bridgeVars
  <2>1. UNCHANGED <<hook, backlog, spool, drains, text, main, worker, events, retry,
                    retryDrains, binding, token, registered, shown, settled,
                    forgotten,
                    missed, detoured>>
    BY <1>6 DEF bridgeVars
  <2>2. Safe' = Safe /\ EventsOf(retry)' = EventsOf(retry)
    BY <2>1 DEF Safe, InMemory, RetryEvents, EventsOf
  <2>3. (HooksOK /\ QueuesOK /\ SpoolOK /\ MainOK /\ WorkerOK /\ RetryOK)'
    BY <2>1 DEF BridgeInv, HooksOK, QueuesOK, SpoolOK, MainOK, WorkerOK,
       RetryOK
  <2>4. (IdentityOK /\ ShownOK /\ FatesOK /\ HasFile /\ TokenFirst)'
    BY <2>1 DEF BridgeInv, IdentityOK, ShownOK, FatesOK, HasFile, TokenFirst,
       Session
  <2>5. HasJob'
    BY <2>1 DEF BridgeInv, HasJob, HasRow, ReplayedRow
  <2>6. (MainRead /\ WorkerRead /\ RowsRead)'
    BY <2>1, <2>2 DEF BridgeInv, MainRead, WorkerRead, RowsRead
  <2>7. QED  BY <2>3, <2>4, <2>5, <2>6 DEF BridgeInv
<1>7. QED
  BY <1>1, <1>2, <1>3, <1>4, <1>5, <1>6, BridgeCrashKeeps
  DEF BridgeNext, WorkerStep

\* The inductive invariant of the event path.
LEMMA BridgeInvariant == BridgeSpec => []BridgeInv
BY BridgeInvStart, BridgeInvStep, PTL DEF BridgeSpec

\* Every variable of the event path keeps its type.
THEOREM BridgeTypeCorrect == BridgeSpec => []BridgeTypeOK
<1>1. BridgeInv => BridgeTypeOK
  <2> SUFFICES ASSUME BridgeInv  PROVE BridgeTypeOK
    OBVIOUS
  <2>1. \A q \in {retry} \cup ToSet(retryDrains) : q \in Seq(Row)
    BY ToSetIn DEF BridgeInv, RetryOK
  <2>2. token \cup registered \subseteq Sessions
    BY DEF BridgeInv, IdentityOK, TokenFirst
  <2>3. \A q \in {backlog, events} : q \in Seq(Event)
    BY DEF BridgeInv, QueuesOK
  <2>4. QED
    BY <2>1, <2>2, <2>3 DEF BridgeTypeOK, BridgeInv, HooksOK, SpoolOK, MainOK,
       WorkerOK,
       IdentityOK, ShownOK, FatesOK, Hooks, Mains, Workers, Stages
<1>2. QED
  BY <1>1, BridgeInvariant, PTL

\* An event whose hook has finished is in memory, on disk, settled, or lost in one
\* of the two ways the history names: reads of renamed files, unlinks after them,
\* replays, registrations that fail and crashes in between lose no other (hook.py
\* and daemon.py of the Codex App integration).
THEOREM NoEventVanishesTheorem == BridgeSpec => []NoEventVanishes
<1>1. BridgeInit => NoneLost
  BY DEF BridgeInit, NoneLost, HookDone, Resting
<1>2. BridgeInv /\ NoneLost /\ [BridgeNext]_bridgeVars => NoneLost'
  <2> SUFFICES ASSUME BridgeInv, NoneLost, [BridgeNext]_bridgeVars  PROVE NoneLost'
    OBVIOUS
  <2>1. ASSUME NEW s \in Sessions, HookStep(s) \/ BindingRots(s)  PROVE NoneLost'
    BY <2>1, HookLosesNone
  <2>2. CASE UNCHANGED bridgeVars
    <3>1. Everywhere' = Everywhere /\ UNCHANGED hook
      BY <2>2 DEF bridgeVars, Everywhere, Safe, InMemory, RetryEvents,
         EventsOf, SpoolEvents
    <3>2. QED  BY <3>1, NoneLostFrom DEF HookDone
  <2>3. QED
    BY <2>1, <2>2, MainLosesNone, OthersLoseNone, CrashLosesNone DEF BridgeNext
<1>3. NoneLost => NoEventVanishes
  BY DiskEvents DEF NoneLost, NoEventVanishes, HookDone, Safe
<1>4. QED
  BY <1>1, <1>2, <1>3, BridgeInvariant, PTL DEF BridgeSpec

\* Agent Mail has recorded an owner token only if the identity store holds it: it
\* is stored before the registration, also after a crash between the two.
THEOREM RegisteredTokenKeptTheorem == BridgeSpec => []RegisteredTokenKept
<1>1. BridgeInv => RegisteredTokenKept
  BY DEF BridgeInv, TokenFirst, RegisteredTokenKept
<1>2. QED
  BY <1>1, BridgeInvariant, PTL


-----------------------------------------------------------------------------
(* The order of a session's events, as far as they came on the straight way.  *)
Job == {worker.job} \ {NoEvent}
Spooled == UNION {ToSet(text[f]) : f \in Files}
Known == ToSet(backlog) \cup ToSet(events) \cup Job \cup Spooled \cup RetryEvents
After(x, y) == x[1] = y[1] => x[2] <= y[2]

(* No event is later than the last its hook has fired.                        *)
Numbered == /\ \A e \in Known : e[2] <= hook[e[1]].n
            /\ \A s \in Sessions : shown[s].n <= hook[s].n
Detours == Spooled \cup RetryEvents \subseteq detoured

(* An event on a connection is its hook's last, unless it was spooled too.    *)
Unanswered ==
    \A i \in 1..Len(backlog) :
        /\ \A j \in 1..Len(backlog) : backlog[j] = backlog[i] => j = i
        /\ backlog[i] \notin detoured =>
              hook[backlog[i][1]].n = backlog[i][2] /\ hook[backlog[i][1]].at # "idle"

(* An event in the queue that made no detour is not older than what comes     *)
(* before it, what is retried and what is shown.                              *)
InOrder(j) ==
    events[j] \notin detoured =>
        /\ \A i \in 1..(j - 1) : After(events[i], events[j])
        /\ \A e \in Job \cup RetryEvents : After(e, events[j])
        /\ shown[events[j][1]].n <= events[j][2]
JobInOrder == \A e \in Job : e \notin detoured => shown[e[1]].n <= e[2]
Ordered == JobInOrder /\ \A j \in 1..Len(events) : InOrder(j)

OrderInv == Numbered /\ Detours /\ Unanswered /\ Ordered

-----------------------------------------------------------------------------
\* What is known are events, each of a session and with a number.
LEMMA KnownTypes ==
    ASSUME BridgeInv
    PROVE  /\ Known \subseteq Event
           /\ RetryEvents \subseteq Event /\ Spooled \subseteq Event /\ Job \subseteq Event
           /\ \A e \in Event : e[1] \in Sessions /\ e[2] \in 1..MaxEvents
           /\ \A s \in Sessions : hook[s].n \in 0..MaxEvents /\ shown[s].n \in 0..MaxEvents
<1>1. \A e \in Event : e[1] \in Sessions /\ e[2] \in 1..MaxEvents
  BY DEF Event
<1>2. \A s \in Sessions : hook[s].n \in 0..MaxEvents /\ shown[s].n \in 0..MaxEvents
  BY DEF BridgeInv, HooksOK, Hooks, ShownOK
<1>3. ToSet(backlog) \subseteq Event /\ ToSet(events) \subseteq Event
  BY ToSetIn DEF BridgeInv, QueuesOK
<1>4. Job \subseteq Event
  BY DEF BridgeInv, WorkerOK, Workers, Stages, Job
<1>5. Spooled \subseteq Event
  <2>1. \A f \in Files : ToSet(text[f]) \subseteq Event
    BY ToSetIn DEF BridgeInv, SpoolOK
  <2>2. QED  BY <2>1 DEF Spooled
<1>6. RetryEvents \subseteq Event
  <2>1. ASSUME NEW q \in Seq(Row)  PROVE EventsOf(q) \subseteq Event
    <3>1. ToSet(q) \subseteq Row
      BY ToSetIn
    <3>2. QED  BY <3>1 DEF EventsOf, Row
  <2>2. ToSet(retryDrains) \subseteq Seq(Row) /\ retry \in Seq(Row)
    BY ToSetIn DEF BridgeInv, RetryOK
  <2>3. QED  BY <2>1, <2>2 DEF RetryEvents
<1>7. QED  BY <1>1, <1>2, <1>3, <1>4, <1>5, <1>6 DEF Known

(* What is known after a step was known before it, but for an event fired.    *)
LEMMA NumberedKept ==
    ASSUME BridgeInv, Numbered, Known' \subseteq Known, UNCHANGED shown,
           \A s \in Sessions : hook'[s].n = hook[s].n
    PROVE  Numbered'
BY KnownTypes DEF Numbered

\* Connections and hooks are as they were.
LEMMA UnansweredKept ==
    ASSUME BridgeInv, Unanswered, UNCHANGED <<backlog, hook>>, detoured \subseteq detoured'
    PROVE  Unanswered'
BY DEF Unanswered

\* The queue is as it was, the job came from it or from a row, and what is shown
\* is as it was, or the job that is done with.
LEMMA OrderedKept ==
    ASSUME BridgeInv, Ordered, Detours, UNCHANGED events, detoured \subseteq detoured',
           Job' \subseteq Job \cup RetryEvents, RetryEvents' \subseteq Job \cup RetryEvents,
           \/ UNCHANGED shown
           \/ /\ Job' = {} /\ Job = {worker.job}
              /\ \A s \in Sessions : \/ shown'[s].n = shown[s].n
                                     \/ s = worker.job[1] /\ shown'[s].n = worker.job[2]
    PROVE  Ordered'
<1>1. JobInOrder'
  <2>1. CASE UNCHANGED shown
    BY <2>1 DEF Ordered, JobInOrder, Detours
  <2>2. CASE Job' = {}
    BY <2>2 DEF JobInOrder
  <2>3. QED  BY <2>1, <2>2
<1>2. ASSUME NEW j \in 1..Len(events), events[j] \notin detoured'
      PROVE  InOrder(j)'
  <2>1. /\ \A i \in 1..(j - 1) : After(events[i], events[j])
        /\ \A e \in Job \cup RetryEvents : After(e, events[j])
        /\ shown[events[j][1]].n <= events[j][2]
    BY <1>2 DEF Ordered, InOrder
  <2>2. events[j] \in Event
    BY DEF BridgeInv, QueuesOK
  <2>3. shown'[events[j][1]].n <= events[j][2]
    <3>1. CASE UNCHANGED shown
      BY <2>1, <3>1
    <3>2. CASE /\ Job' = {} /\ Job = {worker.job}
               /\ \A s \in Sessions : \/ shown'[s].n = shown[s].n
                                      \/ s = worker.job[1] /\ shown'[s].n = worker.job[2]
      BY <2>1, <2>2, <3>2, KnownTypes DEF After
    <3>3. QED  BY <3>1, <3>2
  <2>4. \A e \in Job' \cup RetryEvents' : After(e, events[j])
    BY <2>1
  <2>5. QED  BY <2>1, <2>3, <2>4 DEF InOrder, After
<1>3. ASSUME NEW j \in 1..Len(events)  PROVE InOrder(j)'
  <2>1. CASE events[j] \in detoured'
    BY <2>1 DEF InOrder
  <2>2. QED  BY <1>2, <2>1
<1>4. QED  BY <1>1, <1>3 DEF Ordered

(* A step that touches neither the queues nor the job nor what is shown.      *)
LEMMA SameOrder ==
    ASSUME BridgeInv, OrderInv, Job' = Job, Spooled' \subseteq Spooled,
           UNCHANGED <<backlog, events, retry, retryDrains, shown, hook, detoured>>
    PROVE  OrderInv'
<1>1. RetryEvents' = RetryEvents
  BY DEF RetryEvents, EventsOf
<1>2. Known' \subseteq Known
  BY <1>1 DEF Known
<1>3. Numbered'
  BY <1>2, NumberedKept DEF OrderInv
<1>4. Detours'
  BY <1>1 DEF OrderInv, Detours
<1>5. Unanswered' /\ Ordered'
  BY <1>1, UnansweredKept, OrderedKept DEF OrderInv
<1>6. QED  BY <1>3, <1>4, <1>5 DEF OrderInv

\* The steps that move no event.
LEMMA OthersSame ==
    ASSUME BridgeInv, OrderInv,
           \/ StartBridge \/ BindAndPublish \/ QueueSpool \/ MainEndsDrain
           \/ ListDrains \/ OpenDrain \/ WorkerEndsDrain \/ ReconcileBindings
           \/ CreateBinding \/ StoreToken \/ TouchBinding \/ Registered
           \/ \E s \in Sessions : BindingRots(s)
    PROVE  OrderInv'
<1> USE DEF fates, fileVars, workerOnly
<1>1. Spooled' \subseteq Spooled
  BY DEF StartBridge, BindAndPublish, QueueSpool, MainEndsDrain, ListDrains,
     OpenDrain,
     WorkerEndsDrain, ReconcileBindings, CreateBinding, StoreToken,
     TouchBinding,
     Registered, BindingRots, Spooled
<1>2. UNCHANGED <<backlog, events, retry, retryDrains, shown, hook, detoured>>
  BY DEF StartBridge, BindAndPublish, QueueSpool, MainEndsDrain, ListDrains,
     OpenDrain,
     WorkerEndsDrain, ReconcileBindings, CreateBinding, StoreToken,
     TouchBinding,
     Registered, BindingRots
<1>3. worker'.job = worker.job
  <2>1. CASE StartBridge
    BY <2>1 DEF StartBridge, WorkerOff, BridgeInv, HasJob, Processing
  <2>2. CASE OpenDrain
    BY <2>2 DEF OpenDrain, BridgeInv, WorkerOK, Workers, Stages
  <2>3. CASE \/ BindAndPublish \/ QueueSpool \/ MainEndsDrain \/ \E s \in Sessions : BindingRots(s)
    BY <2>3 DEF BindAndPublish, QueueSpool, MainEndsDrain, BindingRots
  <2>4. CASE \/ ListDrains \/ WorkerEndsDrain \/ ReconcileBindings
             \/ CreateBinding \/ StoreToken \/ TouchBinding \/ Registered
    BY <2>4 DEF ListDrains, WorkerEndsDrain, ReconcileBindings, CreateBinding,
       StoreToken,
       TouchBinding, Registered, BridgeInv, WorkerOK, Workers, Stages
  <2>5. QED  BY <2>1, <2>2, <2>3, <2>4
<1>4. QED  BY <1>1, <1>2, <1>3, SameOrder DEF Job

(* A hook that fires, and one that writes.                                    *)
LEMMA HookAdvances ==
    ASSUME HooksOK, NEW s \in Sessions, NEW at, NEW n,
           hook' = [hook EXCEPT ![s].n = n, ![s].at = at]
    PROVE  /\ hook'[s].at = at /\ hook'[s].n = n
           /\ \A r \in Sessions \ {s} : hook'[r] = hook[r]
<1>1. hook \in [Sessions -> Hooks]
  BY DEF HooksOK
<1> DEFINE g == [hook[s] EXCEPT !.n = n, !.at = at]
<1>2. hook' = [hook EXCEPT ![s] = g]
  BY <1>1
<1>3. g.at = at /\ g.n = n
  <2>1. hook[s] \in Hooks
    BY <1>1
  <2>2. QED  BY <2>1 DEF Hooks
<1> HIDE DEF g
<1>4. QED  BY <1>1, <1>2, <1>3

\* A hook that opens the spool or is done with it.
LEMMA HookWrites ==
    ASSUME HooksOK, NEW s \in Sessions, NEW at, NEW file,
           hook' = [hook EXCEPT ![s].at = at, ![s].file = file]
    PROVE  /\ hook'[s].at = at /\ hook'[s].n = hook[s].n
           /\ \A r \in Sessions \ {s} : hook'[r] = hook[r]
<1>1. hook \in [Sessions -> [at : {"idle", "waiting", "unheard", "writing"},
                             n : 0..MaxEvents, file : Files \cup {0}]]
  BY DEF HooksOK, Hooks
<1>2. hook' = [hook EXCEPT ![s] = [hook[s] EXCEPT !.at = at, !.file = file]]
  BY <1>1
<1>3. QED  BY <1>1, <1>2

(* An event that is fired is later than all of its session that are known.    *)
LEMMA FireOrder ==
    ASSUME BridgeInv, OrderInv, NEW s \in Sessions, FireHook(s)
    PROVE  OrderInv'
<1> DEFINE new == <<s, hook[s].n + 1>>
<1>1. /\ hook \in [Sessions -> [at : {"idle", "waiting", "unheard", "writing"},
                                n : 0..MaxEvents, file : Files \cup {0}]]
      /\ backlog \in Seq(Event)
  BY DEF BridgeInv, HooksOK, Hooks, QueuesOK
<1>2. /\ UNCHANGED <<events, text, retry, retryDrains, shown, detoured, worker>>
      /\ hook[s].at = "idle" /\ hook[s].n < MaxEvents
      /\ backlog' = Append(backlog, new) \/ backlog' = backlog
  BY DEF FireHook, fileVars, fates
<1>3. /\ hook'[s].n = hook[s].n + 1
      /\ hook'[s].at # "idle"
      /\ \A r \in Sessions \ {s} : hook'[r] = hook[r]
  <2> DEFINE at == IF Listening THEN "waiting" ELSE "unheard"
             n == hook[s].n + 1
  <2>1. hook' = [hook EXCEPT ![s].n = n, ![s].at = at]
    BY DEF FireHook
  <2>2. at # "idle"
    BY DEF Listening
  <2>3. n = hook[s].n + 1
    OBVIOUS
  <2> HIDE DEF at, n
  <2>4. hook'[s].at = at /\ hook'[s].n = n /\ \A r \in Sessions \ {s} : hook'[r] = hook[r]
    BY <2>1, HookAdvances DEF BridgeInv
  <2>5. QED  BY <2>2, <2>3, <2>4
<1>4. new \in Event
  BY <1>1, <1>2, BridgeAssumption DEF Event
<1>5. ToSet(backlog') \subseteq ToSet(backlog) \cup {new}
  <2> HIDE DEF new
  <2>1. ToSet(Append(backlog, new)) = ToSet(backlog) \cup {new}
    BY <1>1, <1>4, ToSetAppend
  <2>2. QED  BY <1>2, <2>1
<1>6. Job' = Job /\ Spooled' = Spooled /\ RetryEvents' = RetryEvents
  BY <1>2 DEF Job, Spooled, RetryEvents, EventsOf
<1>7. Known' \subseteq Known \cup {new}
  BY <1>2, <1>5, <1>6 DEF Known
<1>8. new[1] = s /\ new[2] = hook[s].n + 1
  OBVIOUS
<1> HIDE DEF new
<1>9. Numbered'
  <2>1. ASSUME NEW e \in Known'  PROVE e[2] <= hook'[e[1]].n
    <3>1. CASE e = new
      BY <1>1, <1>3, <1>8, <3>1
    <3>2. CASE e \in Known
      <4>1. e[1] \in Sessions /\ e[2] \in Nat /\ e[2] <= hook[e[1]].n
        BY <3>2, KnownTypes DEF OrderInv, Numbered
      <4>2. CASE e[1] = s
        BY <1>1, <1>3, <4>1, <4>2
      <4>3. CASE e[1] # s
        BY <1>3, <4>1, <4>3
      <4>4. QED  BY <4>2, <4>3
    <3>3. QED  BY <1>7, <2>1, <3>1, <3>2
  <2>2. ASSUME NEW r \in Sessions  PROVE shown'[r].n <= hook'[r].n
    <3>1. shown[r].n <= hook[r].n /\ shown[r].n \in Nat /\ hook[r].n \in Nat
      BY KnownTypes DEF OrderInv, Numbered
    <3>2. hook'[r].n = hook[r].n \/ hook'[r].n = hook[r].n + 1
      BY <1>3
    <3>3. QED  BY <1>2, <3>1, <3>2
  <2>3. QED  BY <2>1, <2>2 DEF Numbered
<1>10. Detours'
  BY <1>2, <1>6 DEF OrderInv, Detours
<1>11. Unanswered'
  <2>1. ASSUME NEW i \in 1..Len(backlog)
        PROVE  /\ backlog[i] # new
               /\ backlog[i] \notin detoured =>
                     /\ hook'[backlog[i][1]].n = backlog[i][2]
                     /\ hook'[backlog[i][1]].at # "idle"
    <3>1. backlog[i] \in Known /\ backlog[i] \in Event
      BY <1>1, ToSetIn DEF Known
    <3>2. backlog[i][2] <= hook[backlog[i][1]].n /\ backlog[i][2] \in Nat
          /\ backlog[i][1] \in Sessions
      BY <3>1, KnownTypes DEF OrderInv, Numbered
    <3>3. backlog[i] # new
      BY <1>1, <1>8, <3>2
    <3>4. backlog[i] \notin detoured =>
             hook[backlog[i][1]].n = backlog[i][2] /\ hook[backlog[i][1]].at # "idle"
      BY DEF OrderInv, Unanswered
    <3>5. QED  BY <1>2, <1>3, <3>2, <3>3, <3>4
  <2>2. CASE backlog' = backlog
    BY <1>2, <2>1, <2>2 DEF OrderInv, Unanswered
  <2>3. CASE backlog' = Append(backlog, new)
    <3>1. /\ Len(backlog') = Len(backlog) + 1 /\ Len(backlog) \in Nat
          /\ backlog'[Len(backlog) + 1] = new
          /\ \A i \in 1..Len(backlog) : backlog'[i] = backlog[i]
      BY <1>1, <1>4, <2>3
    <3>2. new \notin detoured => hook'[new[1]].n = new[2] /\ hook'[new[1]].at # "idle"
      BY <1>3, <1>8
    <3>3. ASSUME NEW i \in 1..Len(backlog'), NEW j \in 1..Len(backlog'),
                 backlog'[j] = backlog'[i]
          PROVE  j = i
      <4>1. CASE i = Len(backlog) + 1 \/ j = Len(backlog) + 1
        BY <2>1, <3>1, <3>3, <4>1
      <4>2. CASE i \in 1..Len(backlog) /\ j \in 1..Len(backlog)
        BY <3>1, <3>3, <4>2 DEF OrderInv, Unanswered
      <4>3. QED  BY <3>1, <4>1, <4>2
    <3>4. ASSUME NEW i \in 1..Len(backlog'), backlog'[i] \notin detoured
          PROVE  hook'[backlog'[i][1]].n = backlog'[i][2] /\ hook'[backlog'[i][1]].at # "idle"
      BY <2>1, <3>1, <3>2, <3>4
    <3>5. QED  BY <1>2, <3>3, <3>4 DEF Unanswered
  <2>4. QED  BY <1>2, <2>2, <2>3
<1>12. Ordered'
  BY <1>2, <1>6, OrderedKept DEF OrderInv
<1>13. QED  BY <1>9, <1>10, <1>11, <1>12 DEF OrderInv

\* An event that goes to the spool has made a detour.
LEMMA SpoolOrder ==
    ASSUME BridgeInv, OrderInv, NEW s \in Sessions,
           HookTimeout(s) \/ OpenSpool(s) \/ WriteSpool(s)
    PROVE  OrderInv'
<1> USE DEF fileVars, fates
<1>1. hook \in [Sessions -> [at : {"idle", "waiting", "unheard", "writing"},
                             n : 0..MaxEvents, file : Files \cup {0}]]
  BY DEF BridgeInv, HooksOK, Hooks
<1>2. /\ UNCHANGED <<backlog, events, retry, retryDrains, shown, worker>>
      /\ detoured \subseteq detoured'
      /\ \A r \in Sessions : hook'[r].n = hook[r].n
      /\ \A r \in Sessions : r # s => hook'[r] = hook[r]
      /\ hook'[s].at # "idle" \/ WriteSpool(s)
  <2>1. /\ UNCHANGED <<backlog, events, retry, retryDrains, shown, worker>>
        /\ detoured \subseteq detoured'
    BY DEF HookTimeout, OpenSpool, WriteSpool
  <2>2. CASE HookTimeout(s)
    BY <1>1, <2>1, <2>2 DEF HookTimeout
  <2>3. CASE OpenSpool(s)
    <3>1. hook' = [hook EXCEPT ![s].at = "writing", ![s].file = spool']
      BY <2>3 DEF OpenSpool
    <3>2. hook'[s].at = "writing" /\ hook'[s].n = hook[s].n
          /\ \A r \in Sessions \ {s} : hook'[r] = hook[r]
      BY <3>1, HookWrites DEF BridgeInv
    <3>3. QED  BY <2>1, <3>2
  <2>4. CASE WriteSpool(s)
    <3>1. hook' = [hook EXCEPT ![s].at = "idle", ![s].file = 0]
      BY <2>4 DEF WriteSpool
    <3>2. hook'[s].n = hook[s].n /\ \A r \in Sessions \ {s} : hook'[r] = hook[r]
      BY <3>1, HookWrites DEF BridgeInv
    <3>3. QED  BY <2>1, <2>4, <3>2
  <2>5. QED  BY <2>2, <2>3, <2>4
<1>3. RetryEvents' = RetryEvents /\ Job' = Job
  BY <1>2 DEF RetryEvents, EventsOf, Job
<1>4. WriteSpool(s) => HookEvent(s) \in detoured' /\ HookEvent(s) \in Event
  BY <1>1, BridgeAssumption DEF WriteSpool, BridgeInv, HasFile, HookEvent,
     Event
<1>5. Spooled' \subseteq Spooled \cup (IF WriteSpool(s) THEN {HookEvent(s)} ELSE {})
  <2>1. text \in [Files -> Seq(Event)]
    BY DEF BridgeInv, SpoolOK
  <2>2. CASE HookTimeout(s)
    BY <2>2 DEF HookTimeout, Spooled
  <2>3. CASE OpenSpool(s)
    <3>1. text' = text \/ text' = [text EXCEPT ![spool'] = <<>>]
      BY <2>3 DEF OpenSpool
    <3>2. ToSet(<<>>) = {}
      BY DEF ToSet
    <3>3. \A f \in Files : ToSet(text'[f]) \subseteq ToSet(text[f])
      BY <2>1, <3>1, <3>2
    <3>4. QED  BY <3>3 DEF Spooled
  <2>4. CASE WriteSpool(s)
    <3>1. text' = [text EXCEPT ![hook[s].file] = Append(text[hook[s].file], HookEvent(s))]
      BY <2>4 DEF WriteSpool
    <3>2. \A f \in Files : ToSet(text'[f]) \subseteq ToSet(text[f]) \cup {HookEvent(s)}
      BY <1>4, <2>1, <2>4, <3>1, ToSetAppend
    <3>3. QED  BY <2>4, <3>2 DEF Spooled
  <2>5. QED  BY <2>2, <2>3, <2>4
<1>6. Numbered'
  <2>1. ASSUME NEW e \in Known'  PROVE e[2] <= hook'[e[1]].n
    <3>1. CASE e \in Known
      BY <1>2, <3>1, KnownTypes DEF OrderInv, Numbered
    <3>2. CASE WriteSpool(s) /\ e = HookEvent(s)
      BY <1>1, <1>2, <3>2 DEF HookEvent
    <3>3. QED  BY <1>2, <1>3, <1>5, <3>1, <3>2 DEF Known
  <2>2. QED  BY <1>2, <2>1 DEF OrderInv, Numbered
<1>7. Detours'
  BY <1>2, <1>3, <1>4, <1>5 DEF OrderInv, Detours
<1>8. Unanswered'
  <2>1. ASSUME NEW i \in 1..Len(backlog), backlog[i] \notin detoured'
        PROVE  hook'[backlog[i][1]].n = backlog[i][2] /\ hook'[backlog[i][1]].at # "idle"
    <3>1. hook[backlog[i][1]].n = backlog[i][2] /\ hook[backlog[i][1]].at # "idle"
          /\ backlog[i] \in Event
      BY <1>2, <2>1 DEF OrderInv, Unanswered, BridgeInv, QueuesOK
    <3>2. CASE backlog[i][1] # s
      BY <1>2, <3>1, <3>2, KnownTypes
    <3>3. CASE backlog[i][1] = s /\ WriteSpool(s)
      <4>1. backlog[i] = <<backlog[i][1], backlog[i][2]>>
        BY <3>1 DEF Event
      <4>2. backlog[i] = HookEvent(s)
        BY <3>1, <3>3, <4>1 DEF HookEvent
      <4>3. QED  BY <1>4, <2>1, <3>3, <4>2
    <3>4. CASE backlog[i][1] = s /\ ~WriteSpool(s)
      BY <1>2, <3>1, <3>4
    <3>5. QED  BY <3>2, <3>3, <3>4
  <2>2. QED  BY <1>2, <2>1 DEF OrderInv, Unanswered
<1>9. Ordered'
  BY <1>2, <1>3, OrderedKept DEF OrderInv
<1>10. QED  BY <1>6, <1>7, <1>8, <1>9 DEF OrderInv

(* Events that are queued behind the others.                                  *)
LEMMA QueuedOrder ==
    ASSUME BridgeInv, Ordered, worker'.job = worker.job,
           UNCHANGED <<retry, retryDrains, shown, detoured>>,
           events' \in Seq(Event), Len(events') >= Len(events),
           \A i \in 1..Len(events) : events'[i] = events[i],
           \A j \in (Len(events) + 1)..Len(events') : InOrder(j)'
    PROVE  Ordered'
<1>1. Job' = Job /\ RetryEvents' = RetryEvents /\ Len(events) \in Nat /\ Len(events') \in Nat
  BY DEF Job, RetryEvents, EventsOf, BridgeInv, QueuesOK
<1>2. JobInOrder'
  BY <1>1 DEF Ordered, JobInOrder
<1>3. ASSUME NEW j \in 1..Len(events)  PROVE InOrder(j)'
  <2>1. events'[j] = events[j] /\ \A i \in 1..(j - 1) : events'[i] = events[i]
    BY <1>1
  <2>2. InOrder(j)
    BY DEF Ordered
  <2>3. QED  BY <1>1, <2>1, <2>2 DEF InOrder, After
<1>4. \A j \in 1..Len(events') : j \in 1..Len(events) \/ j \in (Len(events) + 1)..Len(events')
  BY <1>1
<1>5. QED  BY <1>2, <1>3, <1>4 DEF Ordered

(* What a file gives has been through the spool.                              *)
LEMMA ReadOrder ==
    ASSUME BridgeInv, OrderInv, MainReadsDrain \/ WorkerReadsDrain
    PROVE  OrderInv'
<1> USE DEF fileVars, workerOnly, fates
<1>1. PICK f \in Files, i \in Nat \ {0} :
          /\ i <= Len(text[f]) /\ events' = events \o LinesFrom(f, i)
  <2>1. CASE MainReadsDrain
    BY <2>1 DEF MainReadsDrain, BridgeInv, MainOK, Mains, MainRead
  <2>2. CASE WorkerReadsDrain
    BY <2>2 DEF WorkerReadsDrain, BridgeInv, WorkerOK, Workers, Stages
  <2>3. QED  BY <2>1, <2>2
<1>2. /\ UNCHANGED <<backlog, text, retry, retryDrains, shown, hook, detoured>>
      /\ worker'.job = worker.job
  BY DEF MainReadsDrain, WorkerReadsDrain, BridgeInv, WorkerOK, Workers, Stages
<1> DEFINE lines == LinesFrom(f, i)
<1>3. text[f] \in Seq(Event) /\ events \in Seq(Event)
  BY DEF BridgeInv, SpoolOK, QueuesOK
<1>4. lines \in Seq(Event) /\ ToSet(lines) \subseteq ToSet(text[f])
  <2>1. lines \in Seq(Event)
    BY <1>1, <1>3, ToSetRest DEF LinesFrom
  <2>2. /\ Len(text[f]) \in Nat /\ Len(lines) = Len(text[f]) - i + 1
        /\ \A k \in 1..(Len(text[f]) - i + 1) : lines[k] = text[f][i + k - 1]
    BY <1>1, <1>3 DEF LinesFrom
  <2>3. \A k \in 1..(Len(text[f]) - i + 1) : i + k - 1 \in 1..Len(text[f])
    BY <1>1, <2>2
  <2> HIDE DEF lines
  <2>4. \A x \in ToSet(lines) : \E k \in 1..Len(lines) : lines[k] = x
    BY <2>1, ToSetIn
  <2>5. \A k \in 1..Len(text[f]) : text[f][k] \in ToSet(text[f])
    BY <1>3, ToSetIn
  <2>6. QED  BY <2>1, <2>2, <2>3, <2>4, <2>5
<1> HIDE DEF lines
<1>5. events' = events \o lines
  BY <1>1 DEF lines
<1>6. /\ events' \in Seq(Event) /\ Len(events') = Len(events) + Len(lines)
      /\ Len(events) \in Nat /\ Len(lines) \in Nat
      /\ \A k \in 1..Len(events) : events'[k] = events[k]
      /\ \A k \in (Len(events) + 1)..Len(events') :
            k - Len(events) \in 1..Len(lines) /\ events'[k] = lines[k - Len(events)]
  BY <1>3, <1>4, <1>5
<1>7. ToSet(lines) \subseteq Spooled
  BY <1>4 DEF Spooled
<1>8. \A k \in 1..Len(lines) : lines[k] \in ToSet(lines)
  BY <1>4, ToSetIn
<1>9. \A k \in (Len(events) + 1)..Len(events') : events'[k] \in detoured
  BY <1>6, <1>7, <1>8 DEF OrderInv, Detours
<1>10. Ordered'
  <2>1. \A k \in (Len(events) + 1)..Len(events') : InOrder(k)'
    BY <1>2, <1>9 DEF InOrder
  <2>2. Len(events') >= Len(events)
    BY <1>6
  <2>3. QED  BY <1>2, <1>6, <2>1, <2>2, QueuedOrder DEF OrderInv
<1>11. Job' = Job /\ RetryEvents' = RetryEvents /\ Spooled' = Spooled
  BY <1>2 DEF Job, RetryEvents, EventsOf, Spooled
<1>12. Known' \subseteq Known
  <2>1. ToSet(events') = ToSet(events) \cup ToSet(lines)
    BY <1>3, <1>4, <1>5, ToSetConcat
  <2>2. QED  BY <1>2, <1>7, <1>11, <2>1 DEF Known
<1>13. Numbered' /\ Detours' /\ Unanswered'
  BY <1>2, <1>11, <1>12, NumberedKept, UnansweredKept DEF OrderInv, Detours
<1>14. QED  BY <1>10, <1>13 DEF OrderInv

(* What is taken from a connection is its session's last, or was spooled.     *)
LEMMA ConnectionOrder ==
    ASSUME BridgeInv, OrderInv, HandleConnection
    PROVE  OrderInv'
<1> USE DEF fileVars, fates
<1> DEFINE e == Head(backlog)
<1>1. /\ UNCHANGED <<text, worker, retry, retryDrains, shown, detoured>>
      /\ backlog # <<>> /\ backlog' = Tail(backlog) /\ events' = Append(events, e)
      /\ hook' = [s \in Sessions |->
                    IF hook[s].at = "waiting" /\ e = HookEvent(s)
                    THEN [hook[s] EXCEPT !.at = "idle"] ELSE hook[s]]
  BY DEF HandleConnection
<1>2. /\ hook \in [Sessions -> [at : {"idle", "waiting", "unheard", "writing"},
                                n : 0..MaxEvents, file : Files \cup {0}]]
      /\ backlog \in Seq(Event) /\ events \in Seq(Event)
  BY DEF BridgeInv, HooksOK, Hooks, QueuesOK
<1>3. \A s \in Sessions : hook'[s].n = hook[s].n
                         /\ (hook'[s] = hook[s] \/ e = <<s, hook[s].n>>)
  BY <1>1, <1>2 DEF HookEvent
<1>4. /\ e \in Event /\ e = backlog[1] /\ Len(backlog) \in Nat \ {0}
      /\ Len(backlog') = Len(backlog) - 1
      /\ \A i \in 1..(Len(backlog) - 1) : backlog'[i] = backlog[i + 1]
  BY <1>1, <1>2
<1>5. ToSet(backlog) = {e} \cup ToSet(backlog')
  BY <1>1, <1>2, ToSetTail
<1> HIDE DEF e
<1>6. /\ events' \in Seq(Event) /\ Len(events') = Len(events) + 1 /\ Len(events) \in Nat
      /\ events'[Len(events) + 1] = e
      /\ \A i \in 1..Len(events) : events'[i] = events[i]
  BY <1>1, <1>2, <1>4
<1>7. ToSet(events') = ToSet(events) \cup {e}
  BY <1>1, <1>2, <1>4, ToSetAppend
<1>8. Job' = Job /\ RetryEvents' = RetryEvents /\ Spooled' = Spooled
  BY <1>1 DEF Job, RetryEvents, EventsOf, Spooled
<1>9. Known' \subseteq Known
  BY <1>5, <1>7, <1>8 DEF Known
<1>10. Numbered' /\ Detours'
  BY <1>1, <1>3, <1>8, <1>9, NumberedKept DEF OrderInv, Detours
<1>11. Unanswered'
  <2>1. ASSUME NEW i \in 1..Len(backlog')
        PROVE  /\ backlog'[i] = backlog[i + 1] /\ i + 1 \in 1..Len(backlog)
               /\ backlog'[i] # e /\ backlog'[i] \in Event
    <3>1. i + 1 \in 1..Len(backlog) /\ 1 \in 1..Len(backlog) /\ i + 1 # 1
          /\ backlog'[i] = backlog[i + 1]
      BY <1>4
    <3>2. backlog[i + 1] # backlog[1]
      BY <3>1 DEF OrderInv, Unanswered
    <3>3. QED  BY <1>2, <1>4, <3>1, <3>2
  <2>2. ASSUME NEW i \in 1..Len(backlog'), NEW j \in 1..Len(backlog'),
               backlog'[j] = backlog'[i]
        PROVE  j = i
    <3>1. j + 1 = i + 1
      BY <2>1, <2>2 DEF OrderInv, Unanswered
    <3>2. QED  BY <1>4, <3>1
  <2>3. ASSUME NEW i \in 1..Len(backlog'), backlog'[i] \notin detoured
        PROVE  hook'[backlog'[i][1]].n = backlog'[i][2] /\ hook'[backlog'[i][1]].at # "idle"
    <3> DEFINE b == backlog'[i]
    <3>1. hook[b[1]].n = b[2] /\ hook[b[1]].at # "idle"
      BY <2>1, <2>3 DEF OrderInv, Unanswered
    <3>2. b[1] \in Sessions /\ b = <<b[1], b[2]>>
      BY <2>1 DEF Event
    <3>3. hook'[b[1]] = hook[b[1]]
      BY <1>3, <2>1, <3>1, <3>2
    <3>4. QED  BY <3>1, <3>3
  <2>4. QED  BY <1>1, <2>2, <2>3 DEF Unanswered
<1>12. ASSUME NEW j \in (Len(events) + 1)..Len(events')  PROVE InOrder(j)'
  <2>0. j = Len(events) + 1
    BY <1>6
  <2>1. SUFFICES ASSUME e \notin detoured
                 PROVE  /\ \A i \in 1..Len(events) : After(events[i], e)
                        /\ \A x \in Job \cup RetryEvents : After(x, e)
                        /\ shown[e[1]].n <= e[2]
    <3>1. events'[j] = e /\ \A i \in 1..(j - 1) : i \in 1..Len(events)
      BY <1>6, <2>0
    <3>2. QED  BY <1>1, <1>6, <1>8, <3>1 DEF InOrder, After
  <2>2. hook[e[1]].n = e[2] /\ e[1] \in Sessions
    BY <1>4, <2>1, KnownTypes DEF OrderInv, Unanswered
  <2>3. \A x \in Known : After(x, e)
    BY <2>2 DEF OrderInv, Numbered, After
  <2>4. \A i \in 1..Len(events) : events[i] \in Known
    BY <1>2, ToSetIn DEF Known
  <2>5. shown[e[1]].n <= e[2]
    BY <2>2 DEF OrderInv, Numbered
  <2>6. QED  BY <2>3, <2>4, <2>5 DEF Known
<1>13. Ordered'
  <2>1. Len(events') >= Len(events)
    BY <1>6
  <2>2. QED  BY <1>1, <1>6, <1>12, <2>1, QueuedOrder DEF OrderInv
<1>14. QED  BY <1>10, <1>11, <1>13 DEF OrderInv

(* The oldest of the queue becomes the job.                                   *)
LEMMA TakeOrder ==
    ASSUME BridgeInv, OrderInv, TakeEvent
    PROVE  OrderInv'
<1> USE DEF fileVars, workerOnly, fates
<1> DEFINE e == Head(events)
<1>1. /\ UNCHANGED <<backlog, text, retry, retryDrains, shown, hook, detoured>>
      /\ events # <<>> /\ events' = Tail(events)
      /\ worker.job = NoEvent /\ worker'.job = e
  BY DEF TakeEvent, BridgeInv, WorkerOK, Workers, Stages, HasJob, Processing
<1>2. events \in Seq(Event)
  BY DEF BridgeInv, QueuesOK
<1>3. /\ e \in Event /\ e = events[1] /\ Len(events) \in Nat \ {0}
      /\ Len(events') = Len(events) - 1
      /\ \A i \in 1..(Len(events) - 1) : events'[i] = events[i + 1]
  BY <1>1, <1>2
<1>4. ToSet(events) = {e} \cup ToSet(events')
  BY <1>1, <1>2, ToSetTail
<1> HIDE DEF e
<1>5. Job = {} /\ Job' = {e}
  BY <1>1, <1>3, EventIsOne DEF Job
<1>6. RetryEvents' = RetryEvents /\ Spooled' = Spooled
  BY <1>1 DEF RetryEvents, EventsOf, Spooled
<1>7. Known' \subseteq Known
  BY <1>1, <1>4, <1>5, <1>6 DEF Known
<1>8. Numbered' /\ Detours' /\ Unanswered'
  BY <1>1, <1>6, <1>7, NumberedKept, UnansweredKept DEF OrderInv, Detours
<1>9. \A j \in 1..Len(events) : InOrder(j)
  BY DEF OrderInv, Ordered
<1>10. JobInOrder'
  <2>1. InOrder(1)
    BY <1>3, <1>9
  <2>2. e \notin detoured => shown[e[1]].n <= e[2]
    BY <1>3, <2>1 DEF InOrder
  <2>3. QED  BY <1>1, <1>5, <2>2 DEF JobInOrder
<1>11. ASSUME NEW j \in 1..Len(events')  PROVE InOrder(j)'
  <2>1. /\ j + 1 \in 1..Len(events) /\ events'[j] = events[j + 1]
        /\ \A i \in 1..(j - 1) : i + 1 \in 1..((j + 1) - 1) /\ events'[i] = events[i + 1]
        /\ 1 \in 1..((j + 1) - 1)
    BY <1>3
  <2>2. SUFFICES ASSUME events[j + 1] \notin detoured
                 PROVE  /\ \A i \in 1..(j - 1) : After(events'[i], events[j + 1])
                        /\ \A x \in {e} \cup RetryEvents : After(x, events[j + 1])
                        /\ shown[events[j + 1][1]].n <= events[j + 1][2]
    BY <1>1, <1>5, <1>6, <2>1 DEF InOrder, After
  <2>3. /\ \A i \in 1..((j + 1) - 1) : After(events[i], events[j + 1])
        /\ \A x \in RetryEvents : After(x, events[j + 1])
        /\ shown[events[j + 1][1]].n <= events[j + 1][2]
    BY <1>9, <2>1, <2>2 DEF InOrder
  <2>4. After(e, events[j + 1])
    BY <1>3, <2>1, <2>3
  <2>5. QED  BY <2>1, <2>3, <2>4
<1>12. QED  BY <1>8, <1>10, <1>11 DEF OrderInv, Ordered

(* A step of a replay knows the events of the retry files.                    *)
LEMMA ReplayOrder ==
    ASSUME BridgeInv, OrderInv,
           StartReplay \/ PutOffRow \/ DropRow \/ ReplayRow \/ EndReplay \/ BackoffPasses
    PROVE  OrderInv'
<1> USE DEF fileVars, workerOnly, fates
<1>1. UNCHANGED <<backlog, text, events, shown, hook, detoured>>
  BY DEF StartReplay, PutOffRow, DropRow, ReplayRow, EndReplay, BackoffPasses
<1>2. retry \in Seq(Row) /\ retryDrains \in Seq(Seq(Row))
  BY DEF BridgeInv, RetryOK
<1>3. Job' \subseteq Job \cup RetryEvents
  <2>1. CASE ReplayRow
    BY <2>1, RowHeld DEF ReplayRow, BridgeInv, WorkerOK, Workers, Stages, Job
  <2>2. CASE StartReplay \/ PutOffRow \/ DropRow \/ EndReplay
    BY <2>2 DEF StartReplay, PutOffRow, DropRow, EndReplay, BridgeInv,
       WorkerOK, Workers, Stages, Job
  <2>3. CASE BackoffPasses
    BY <2>3 DEF BackoffPasses, Job
  <2>4. QED  BY <2>1, <2>2, <2>3
<1>4. RetryEvents' \subseteq RetryEvents
  <2>1. CASE StartReplay
    <3>1. <<retry>> \in Seq(Seq(Row)) /\ Len(<<retry>>) = 1 /\ <<retry>>[1] = retry
      BY <1>2
    <3>2. \A x : x \in ToSet(<<retry>>) <=> \E i \in 1..Len(<<retry>>) : <<retry>>[i] = x
      BY <3>1, ToSetIn
    <3>3. ToSet(<<retry>>) = {retry}
      BY <3>1, <3>2
    <3>4. ToSet(retryDrains') = ToSet(<<retry>>) \cup ToSet(retryDrains)
      <4>1. retryDrains' = <<retry>> \o retryDrains
        BY <2>1 DEF StartReplay
      <4>2. QED  BY <1>2, <3>1, <4>1, ToSetConcat
    <3>5. EventsOf(retry') = {}
      BY <2>1 DEF StartReplay, EventsOf, ToSet
    <3>6. QED  BY <3>3, <3>4, <3>5 DEF RetryEvents, EventsOf
  <2>2. CASE PutOffRow
    <3>1. EventsOf(retry') = EventsOf(retry) \cup {ReplayedRow.event}
      BY <1>2, <2>2, RowHeld, EventsOfAppend DEF PutOffRow
    <3>2. ReplayedRow.event \in RetryEvents /\ retryDrains' = retryDrains
      BY <2>2, RowHeld DEF PutOffRow
    <3>3. QED  BY <3>1, <3>2 DEF RetryEvents, EventsOf
  <2>3. CASE DropRow \/ ReplayRow
    BY <2>3 DEF DropRow, ReplayRow, RetryEvents, EventsOf
  <2>4. CASE EndReplay
    <3>1. CASE retryDrains = <<>>
      BY <2>4, <3>1 DEF EndReplay, RetryEvents, EventsOf
    <3>2. CASE retryDrains # <<>>
      <4>1. ToSet(retryDrains') \subseteq ToSet(retryDrains) /\ retry' = retry
        BY <1>2, <2>4, <3>2, ToSetTail DEF EndReplay
      <4>2. QED  BY <4>1 DEF RetryEvents, EventsOf
    <3>3. QED  BY <3>1, <3>2
  <2>5. CASE BackoffPasses
    <3>1. EventsOf(retry') = EventsOf(retry) /\ retryDrains' = retryDrains
      BY <1>2, <2>5, EventsOfDue DEF BackoffPasses
    <3>2. QED  BY <3>1 DEF RetryEvents, EventsOf
  <2>6. QED  BY <2>1, <2>2, <2>3, <2>4, <2>5
<1>5. Spooled' = Spooled
  BY <1>1 DEF Spooled
<1>6. Known' \subseteq Known
  BY <1>1, <1>3, <1>4, <1>5 DEF Known
<1>7. Numbered' /\ Detours' /\ Unanswered'
  BY <1>1, <1>4, <1>5, <1>6, NumberedKept, UnansweredKept DEF OrderInv, Detours
<1>8. Ordered'
  BY <1>1, <1>3, <1>4, OrderedKept DEF OrderInv
<1>9. QED  BY <1>7, <1>8 DEF OrderInv

(* The job is done with: it is shown, or not, and goes to the retry file or   *)
(* not.                                                                       *)
LEMMA FinishOrder ==
    ASSUME BridgeInv, OrderInv,
           TokenMissing \/ BindingUnreadable \/ RegistrationFails \/ ShowState
    PROVE  /\ OrderInv'
           /\ \A s \in Sessions : \/ shown'[s].n = shown[s].n
                                  \/ Job = {worker.job} /\ s = worker.job[1]
                                     /\ shown'[s].n = worker.job[2]
<1> USE DEF fileVars, workerOnly, fates
<1>1. /\ UNCHANGED <<backlog, text, events, retryDrains, hook>> /\ detoured \subseteq detoured'
      /\ worker.job \in Event /\ Job = {worker.job}
  <2>1. worker.at \in Processing
    BY DEF TokenMissing, BindingUnreadable, RegistrationFails, ShowState,
       Processing
  <2>2. worker.job \in Event /\ Job = {worker.job}
    BY <2>1, EventIsOne DEF BridgeInv, HasJob, Job
  <2>3. QED
    BY <2>2 DEF TokenMissing, BindingUnreadable, RegistrationFails, ShowState
<1>2. Job' = {}
  <2>1. worker'.job = NoEvent
    BY DEF TokenMissing, BindingUnreadable, RegistrationFails, ShowState,
       AfterEvent,
       WorkerOff, BridgeInv, WorkerOK, Workers, Stages
  <2>2. QED  BY <2>1 DEF Job
<1>3. \A s \in Sessions : \/ shown'[s].n = shown[s].n
                          \/ s = worker.job[1] /\ shown'[s].n = worker.job[2]
  BY DEF TokenMissing, BindingUnreadable, RegistrationFails, ShowState,
     Session,
     BridgeInv, ShownOK
<1>4. \/ UNCHANGED retry
      \/ EventsOf(retry') = EventsOf(retry) \cup {worker.job} /\ worker.job \in detoured'
  <2>1. CASE RegistrationFails /\ ~(worker.attempt + 1 >= MaxRegistrations)
    <3>1. retry' = Append(retry, [event |-> worker.job, due |-> FALSE,
                                  attempt |-> worker.attempt + 1])
      BY <2>1 DEF RegistrationFails
    <3>2. worker.attempt + 1 \in 1..MaxRegistrations
      BY <2>1, BridgeAssumption DEF BridgeInv, WorkerOK, Workers, Stages
    <3>3. [event |-> worker.job, due |-> FALSE, attempt |-> worker.attempt + 1] \in Row
      BY <1>1, <3>2 DEF Row
    <3>4. EventsOf(retry') = EventsOf(retry) \cup {worker.job}
      BY <3>1, <3>3, EventsOfAppend DEF BridgeInv, RetryOK
    <3>5. QED  BY <2>1, <3>4 DEF RegistrationFails
  <2>2. CASE ~(RegistrationFails /\ ~(worker.attempt + 1 >= MaxRegistrations))
    BY <2>2 DEF TokenMissing, BindingUnreadable, RegistrationFails, ShowState
  <2>3. QED  BY <2>1, <2>2
<1>5. \/ RetryEvents' = RetryEvents
      \/ RetryEvents' = RetryEvents \cup Job /\ worker.job \in detoured'
  BY <1>1, <1>4 DEF RetryEvents, EventsOf
<1>6. Spooled' = Spooled
  BY <1>1 DEF Spooled
<1>7. Known' \subseteq Known
  BY <1>1, <1>2, <1>5, <1>6 DEF Known
<1>8. Numbered'
  <2>1. \A x \in Known : x[2] <= hook[x[1]].n
    BY DEF OrderInv, Numbered
  <2>2. worker.job \in Known
    BY <1>1 DEF Known
  <2>3. QED  BY <1>1, <1>3, <1>7, <2>1, <2>2 DEF OrderInv, Numbered
<1>9. Detours' /\ Unanswered'
  BY <1>1, <1>5, <1>6, UnansweredKept DEF OrderInv, Detours
<1>10. Ordered'
  <2>1. /\ Ordered /\ Detours
        /\ Job' \subseteq Job \cup RetryEvents /\ RetryEvents' \subseteq Job \cup RetryEvents
    BY <1>2, <1>5 DEF OrderInv
  <2>2. \/ UNCHANGED shown
        \/ /\ Job' = {} /\ Job = {worker.job}
           /\ \A s \in Sessions : \/ shown'[s].n = shown[s].n
                                  \/ s = worker.job[1] /\ shown'[s].n = worker.job[2]
    BY <1>1, <1>2, <1>3
  <2>3. UNCHANGED events /\ detoured \subseteq detoured'
    BY <1>1
  <2>4. QED  BY <2>1, <2>2, <2>3, OrderedKept
<1>11. QED  BY <1>1, <1>3, <1>8, <1>9, <1>10 DEF OrderInv

\* After a crash there is no queue to be out of order.
LEMMA CrashOrder ==
    ASSUME BridgeInv, OrderInv, BridgeCrash
    PROVE  OrderInv'
<1>1. /\ UNCHANGED <<text, retry, retryDrains, shown, detoured>>
      /\ events' = <<>> /\ backlog' = <<>> /\ Job' = {}
      /\ \A s \in Sessions : hook'[s].n = hook[s].n
  BY DEF BridgeCrash, fileVars, WorkerOff, Job, BridgeInv, HooksOK, Hooks
<1>2. RetryEvents' = RetryEvents /\ Spooled' = Spooled
  BY <1>1 DEF RetryEvents, EventsOf, Spooled
<1>3. ToSet(<<>>) = {} /\ Len(<<>>) = 0
  BY DEF ToSet
<1>4. Known' \subseteq Known
  BY <1>1, <1>2, <1>3 DEF Known
<1>5. Numbered' /\ Detours'
  BY <1>1, <1>2, <1>4, NumberedKept DEF OrderInv, Detours
<1>6. Unanswered' /\ Ordered'
  BY <1>1, <1>3 DEF Unanswered, Ordered, JobInOrder
<1>7. QED  BY <1>5, <1>6 DEF OrderInv

\* At the start nothing is known.
LEMMA OrderInvStart == BridgeInit => OrderInv
<1> SUFFICES ASSUME BridgeInit  PROVE OrderInv
  OBVIOUS
<1>1. ToSet(<<>>) = {} /\ Len(<<>>) = 0
  BY DEF ToSet
<1>2. ToSet(backlog) = {} /\ ToSet(events) = {} /\ Job = {}
  BY <1>1 DEF BridgeInit, WorkerOff, Job
<1>3. Spooled = {} /\ RetryEvents = {}
  BY <1>1 DEF BridgeInit, Spooled, RetryEvents, EventsOf
<1>4. Known = {}
  BY <1>2, <1>3 DEF Known
<1>5. Numbered
  BY <1>4 DEF BridgeInit, Resting, Numbered
<1>6. Detours /\ Unanswered /\ Ordered
  BY <1>1, <1>2, <1>3 DEF BridgeInit, Detours, Unanswered, Ordered, JobInOrder
<1>7. QED  BY <1>5, <1>6 DEF OrderInv

\* Every step keeps the order.
LEMMA OrderInvStep == BridgeInv /\ OrderInv /\ [BridgeNext]_bridgeVars => OrderInv'
<1> SUFFICES ASSUME BridgeInv, OrderInv, [BridgeNext]_bridgeVars  PROVE OrderInv'
  OBVIOUS
<1>1. ASSUME NEW s \in Sessions, HookStep(s) \/ BindingRots(s)  PROVE OrderInv'
  BY <1>1, FireOrder, SpoolOrder, OthersSame DEF HookStep
<1>2. CASE MainStep
  BY <1>2, OthersSame, ReadOrder, ConnectionOrder DEF MainStep
<1>3. CASE WorkerStep \/ BackoffPasses
  BY <1>3, OthersSame, ReadOrder, TakeOrder, ReplayOrder, FinishOrder
  DEF WorkerStep, ProcessStep
<1>4. CASE UNCHANGED bridgeVars
  <2>1. UNCHANGED <<backlog, events, retry, retryDrains, shown, hook, detoured, text, worker>>
    BY <1>4 DEF bridgeVars
  <2>2. Job' = Job /\ Spooled' = Spooled
    BY <2>1 DEF Job, Spooled
  <2>3. QED  BY <2>1, <2>2, SameOrder
<1>5. QED  BY <1>1, <1>2, <1>3, <1>4, CrashOrder DEF BridgeNext

(* Only an event that is done with is shown.                                  *)
LEMMA ShownStep ==
    ASSUME BridgeInv, OrderInv, [BridgeNext]_bridgeVars, NEW s \in Sessions,
           shown'[s].n < shown[s].n
    PROVE  <<s, shown'[s].n>> \in detoured
<1>1. shown[s].n \in Nat
  BY KnownTypes
<1>2. TokenMissing \/ BindingUnreadable \/ RegistrationFails \/ ShowState
  <2>1. shown' # shown
    BY <1>1
  <2>2. ~(\E r \in Sessions : HookStep(r) \/ BindingRots(r))
    BY <2>1 DEF HookStep, FireHook, HookTimeout, OpenSpool, WriteSpool,
       BindingRots
  <2>3. ~MainStep
    BY <2>1 DEF MainStep, StartBridge, BindAndPublish, QueueSpool,
       MainReadsDrain,
       MainEndsDrain, HandleConnection
  <2>4. ~(BackoffPasses \/ BridgeCrash \/ UNCHANGED bridgeVars)
    BY <2>1 DEF BackoffPasses, BridgeCrash, bridgeVars
  <2>5. WorkerStep => ProcessStep
    <3>1. ~(ListDrains \/ OpenDrain \/ WorkerReadsDrain \/ WorkerEndsDrain)
      BY <2>1 DEF ListDrains, OpenDrain, WorkerReadsDrain, WorkerEndsDrain
    <3>2. ~(ReconcileBindings \/ TakeEvent \/ StartReplay \/ EndReplay)
      BY <2>1 DEF ReconcileBindings, TakeEvent, StartReplay, EndReplay
    <3>3. ~(PutOffRow \/ DropRow \/ ReplayRow)
      BY <2>1 DEF PutOffRow, DropRow, ReplayRow
    <3>4. QED  BY <3>1, <3>2, <3>3 DEF WorkerStep
  <2>6. ~(CreateBinding \/ StoreToken \/ TouchBinding \/ Registered)
    BY <2>1 DEF CreateBinding, StoreToken, TouchBinding, Registered
  <2>7. QED
    BY <2>2, <2>3, <2>4, <2>5, <2>6 DEF BridgeNext, ProcessStep
<1>3. Job = {worker.job} /\ s = worker.job[1] /\ shown'[s].n = worker.job[2]
  BY <1>1, <1>2, FinishOrder
<1>4. worker.job \in Event /\ worker.job[2] \in Nat
  BY <1>3, KnownTypes
<1>5. worker.job \in detoured
  BY <1>1, <1>3, <1>4 DEF OrderInv, Ordered, JobInOrder
<1>6. worker.job = <<worker.job[1], worker.job[2]>>
  BY <1>4 DEF Event
<1>7. QED  BY <1>3, <1>5, <1>6

\* The state that is shown of a session goes back only to an event that went
\* through the spool or the retry file: the straight way, connection, queue and
\* worker, keeps the order of the hooks.
THEOREM OlderStateTheorem == BridgeSpec => OlderStateOnlyByDetour
<1>1. BridgeInv /\ OrderInv /\ [BridgeNext]_bridgeVars =>
        [\A s \in Sessions : shown'[s].n < shown[s].n
                             => <<s, shown'[s].n>> \in detoured]_bridgeVars
  BY ShownStep
<1>2. BridgeSpec => [](BridgeInv /\ OrderInv)
  BY BridgeInvariant, OrderInvStart, OrderInvStep, PTL DEF BridgeSpec
<1>3. QED
  BY <1>1, <1>2, PTL DEF BridgeSpec, OlderStateOnlyByDetour
=============================================================================
