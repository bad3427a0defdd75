-------------------------- MODULE SubsystemsProof ---------------------------
(* Proofs about the components together, for every value of the constants:    *)
(* whichever of them takes its turn in Subsystems, each goes through what its *)
(* own specification allows, so that what is proved of it there holds here.   *)
EXTENDS Subsystems, ArchiveProof, MessagingProof, ConsumerProof, AgentsProof

(* A step of each component, or none.                                         *)
EachSteps ==
    /\ [BridgeNext]_bridgeVars /\ [LockNext]_lockVars /\ [QueueNext]_commitVars
    /\ [SwitchNext]_switchVars /\ [LedgerNext]_ledgerVars /\ [ToolsNext]_toolsVars
    /\ [ChildNext]_childVars /\ [MailSignalsNext]_mailSignalVars
    /\ [DeliveryNext]_deliveryVars /\ [LaunchNext]_launchVars

\* One component takes a step, and the others stay as they are.
LEMMA EachStepsAlone == [SubsystemsNext]_subsystemVars => EachSteps
<1> SUFFICES ASSUME [SubsystemsNext]_subsystemVars  PROVE EachSteps
  OBVIOUS
<1>1. CASE UNCHANGED subsystemVars
  BY <1>1 DEF subsystemVars, bridgeSide, childSide, EachSteps
<1>2. ASSUME UNCHANGED childSide,
             \/ BridgeNext /\ UNCHANGED <<lockVars, commitVars, switchVars>>
             \/ LockNext /\ UNCHANGED <<bridgeVars, commitVars, switchVars>>
             \/ QueueNext /\ UNCHANGED <<bridgeVars, lockVars, switchVars>>
             \/ SwitchNext /\ UNCHANGED <<bridgeVars, lockVars, commitVars>>
      PROVE  EachSteps
  BY <1>2 DEF childSide, EachSteps
<1>3. ASSUME UNCHANGED bridgeSide,
             \/ /\ LedgerNext
                /\ UNCHANGED <<toolsVars, childVars, mailSignalVars, deliveryVars, launchVars>>
             \/ /\ ToolsNext
                /\ UNCHANGED <<ledgerVars, childVars, mailSignalVars, deliveryVars, launchVars>>
             \/ /\ ChildNext
                /\ UNCHANGED <<ledgerVars, toolsVars, mailSignalVars, deliveryVars, launchVars>>
             \/ /\ MailSignalsNext
                /\ UNCHANGED <<ledgerVars, toolsVars, childVars, deliveryVars, launchVars>>
             \/ /\ DeliveryNext
                /\ UNCHANGED <<ledgerVars, toolsVars, childVars, mailSignalVars, launchVars>>
             \/ /\ LaunchNext
                /\ UNCHANGED <<ledgerVars, toolsVars, childVars, mailSignalVars, deliveryVars>>
      PROVE  EachSteps
  BY <1>3 DEF bridgeSide, EachSteps
<1>4. QED
  BY <1>1, <1>2, <1>3 DEF SubsystemsNext

\* Every behaviour of Subsystems is one of each component.
THEOREM ComponentsImplemented ==
    SubsystemsSpec =>
        /\ BridgeSpec /\ LockSpec /\ QueueSpec /\ SwitchSpec /\ LedgerSpec
        /\ ToolsSpec /\ ChildSpec /\ MailSignalsSpec /\ DeliverySpec /\ LaunchSpec
<1>1. SubsystemsInit =>
        /\ BridgeInit /\ LockInit /\ QueueInit /\ SwitchInit /\ LedgerInit
        /\ ToolsInit /\ ChildInit /\ MailSignalsInit /\ DeliveryInit /\ LaunchInit
  BY DEF SubsystemsInit
<1>2. [SubsystemsNext]_subsystemVars =>
        /\ [BridgeNext]_bridgeVars /\ [LockNext]_lockVars /\ [QueueNext]_commitVars
        /\ [SwitchNext]_switchVars /\ [LedgerNext]_ledgerVars /\ [ToolsNext]_toolsVars
        /\ [ChildNext]_childVars /\ [MailSignalsNext]_mailSignalVars
        /\ [DeliveryNext]_deliveryVars /\ [LaunchNext]_launchVars
  BY EachStepsAlone DEF EachSteps
<1>3. QED
  BY <1>1, <1>2, PTL DEF SubsystemsSpec, BridgeSpec, LockSpec, QueueSpec, SwitchSpec, LedgerSpec,
     ToolsSpec, ChildSpec, MailSignalsSpec, DeliverySpec, LaunchSpec

(* The focus, once drawn, is one of those of the instance.                    *)
FocusOK == focus \in Focuses

\* Every reachable state of the components together is well-typed.
THEOREM SubsystemsTypeCorrect == SubsystemsSpec => []SubsystemsTypeOK
<1>1. SubsystemsInit => FocusOK
  BY DEF SubsystemsInit, FocusOK
<1>2. FocusOK /\ [SubsystemsNext]_subsystemVars => FocusOK'
  BY DEF SubsystemsNext, subsystemVars, FocusOK
<1>3. FocusOK /\ BridgeTypeOK /\ LockTypeOK /\ QueueTypeOK /\ SwitchTypeOK
        /\ LedgerTypeOK /\ ToolsTypeOK /\ ChildTypeOK /\ MailSignalsTypeOK
        /\ DeliveryTypeOK /\ LaunchTypeOK
      => SubsystemsTypeOK
  BY DEF SubsystemsTypeOK, FocusOK
<1>4. SubsystemsSpec => []FocusOK
  BY <1>1, <1>2, PTL DEF SubsystemsSpec
<1>5. QED
  BY <1>3, <1>4, ComponentsImplemented, BridgeTypeCorrect, LockTypeCorrect, QueueTypeCorrect,
     SwitchTypeCorrect, LedgerTypeCorrect, ToolsTypeCorrect, ChildTypeCorrect,
     MailSignalsTypeCorrect, DeliveryTypeCorrect, LaunchTypeCorrect, PTL

\* What is proved of the states of each component holds of the components together:
\* no event of a session is lost and no registered one without its token, the turns
\* of the archive lock overlap only after a foreign removal, what was answered as
\* committed is in HEAD, no mixed selection is marked, a message is sent at most
\* once and reported as it went, the tools never run a part of a selection, a
\* child has one pair of identities, signals and receipts tell what was handed
\* over, a notice has one worker at a time, and a live session is the launcher's
\* own.
THEOREM SubsystemsSafe ==
    SubsystemsSpec =>
        /\ []NoEventVanishes /\ []RegisteredTokenKept /\ []OverlapNeedsForeignRemoval
        /\ []CommittedMeansInHead /\ []NoMixedVectorMarked
        /\ []SentOnce /\ []OutcomeTruthful /\ []SelectionWhole /\ []OnePair
        /\ []SignalTellsTruth /\ []RepeatIsFlagged /\ []ConsumedMeansHanded
        /\ []LiveSessionIsOurs /\ []ReportTruthful /\ []OneWorkerPerNotice
BY ComponentsImplemented, NoEventVanishesTheorem, RegisteredTokenKeptTheorem,
   OverlapNeedsForeignRemovalTheorem, CommittedMeansInHeadTheorem,
   NoMixedVectorMarkedTheorem, SentOnceTheorem, OutcomeTruthfulTheorem,
   SelectionWholeTheorem, OnePairTheorem, SignalTellsTruthTheorem,
   RepeatIsFlaggedTheorem, ConsumedMeansHandedTheorem, LiveSessionIsOursTheorem,
   ReportTruthfulTheorem, OneWorkerPerNoticeTheorem, PTL

\* So do the properties of their steps, and the sending of messages keeps its
\* contract whatever the other components do.
THEOREM SubsystemsStepsSafe ==
    SubsystemsSpec =>
        /\ OlderStateOnlyByDetour /\ ExitSparesSameLock /\ RunningKeepsSelection
        /\ NoNoticeAfterSuccess /\ ImplementsSendContract
BY ComponentsImplemented, OlderStateTheorem, ExitSparesSameLockTheorem,
   RunningKeepsSelectionTheorem, NoNoticeAfterSuccessTheorem,
   LedgerImplementsSendContract, PTL
=============================================================================
