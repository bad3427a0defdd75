----------------------------- MODULE Subsystems -----------------------------
(* The components that are checked together: each behaviour runs one of them, *)
(* chosen at the start, while the others stay at their initial state.  They   *)
(* share no state, so the checks of one run are those of ten, and the number  *)
(* of states is a sum.                                                        *)
EXTENDS BridgeEvents, ArchiveLock, CommitQueue, ConsumerSwitch, MessageLedger,
        ToolsChange, ChildResume, MailSignals, GlobalDelivery, GlobalLaunch

CONSTANT Focuses   \* the components that take a turn

VARIABLE focus

bridgeSide == <<bridgeVars, lockVars, commitVars, switchVars>>
childSide == <<ledgerVars, toolsVars, childVars, mailSignalVars, deliveryVars,
               launchVars>>

subsystemVars == <<focus, bridgeSide, childSide>>

SubsystemsInit ==
    /\ focus \in Focuses
    /\ BridgeInit /\ LockInit /\ QueueInit /\ SwitchInit /\ LedgerInit
    /\ ToolsInit /\ ChildInit /\ MailSignalsInit
    /\ DeliveryInit /\ LaunchInit
    /\ focus # "mail" => quiet = {} /\ ~headless
    /\ focus # "notify" => wants = {}
    /\ focus # "tools" => made = [p \in Generated |-> Absent]

SubsystemsNext ==
    /\ UNCHANGED focus
    /\ \/ /\ focus = "bridge" /\ BridgeNext
          /\ UNCHANGED <<lockVars, commitVars, switchVars, childSide>>
       \/ /\ focus = "lock" /\ LockNext
          /\ UNCHANGED <<bridgeVars, commitVars, switchVars, childSide>>
       \/ /\ focus = "commit" /\ QueueNext
          /\ UNCHANGED <<bridgeVars, lockVars, switchVars, childSide>>
       \/ /\ focus = "switch" /\ SwitchNext
          /\ UNCHANGED <<bridgeVars, lockVars, commitVars, childSide>>
       \/ /\ focus = "ledger" /\ LedgerNext
          /\ UNCHANGED <<bridgeSide, toolsVars, childVars, mailSignalVars, deliveryVars,
                         launchVars>>
       \/ /\ focus = "tools" /\ ToolsNext
          /\ UNCHANGED <<bridgeSide, ledgerVars, childVars, mailSignalVars, deliveryVars,
                         launchVars>>
       \/ /\ focus = "child" /\ ChildNext
          /\ UNCHANGED <<bridgeSide, ledgerVars, toolsVars, mailSignalVars, deliveryVars,
                         launchVars>>
       \/ /\ focus = "mail" /\ MailSignalsNext
          /\ UNCHANGED <<bridgeSide, ledgerVars, toolsVars, childVars, deliveryVars,
                         launchVars>>
       \/ /\ focus = "notify" /\ DeliveryNext
          /\ UNCHANGED <<bridgeSide, ledgerVars, toolsVars, childVars, mailSignalVars,
                         launchVars>>
       \/ /\ focus = "launch" /\ LaunchNext
          /\ UNCHANGED <<bridgeSide, ledgerVars, toolsVars, childVars, mailSignalVars,
                         deliveryVars>>

SubsystemsSpec == SubsystemsInit /\ [][SubsystemsNext]_subsystemVars

(* The fairness of each component, for the one that runs.                     *)
SubsystemsFairSpec ==
    /\ SubsystemsSpec
    /\ WF_bridgeVars(focus = "bridge" /\ MainStep)
    /\ WF_bridgeVars(focus = "bridge" /\ WorkerStep)
    /\ SF_bridgeVars(focus = "bridge" /\ BackoffPasses)
    /\ \A t \in Writers : WF_lockVars(focus = "lock" /\ WriterStep(t))
    /\ WF_commitVars(focus = "commit" /\ QueueTask)
    /\ \A r \in Requests : WF_commitVars(focus = "commit" /\ CommitDirect(r))
    /\ WF_switchVars(focus = "switch" /\ SwitchStep)
    /\ WF_toolsVars(focus = "tools" /\ RequestStep)
    /\ WF_toolsVars(focus = "tools" /\ ShellStep)
    /\ WF_toolsVars(focus = "tools" /\ OperatorRecovers)
    /\ WF_toolsVars(focus = "tools" /\ ClearCutOff)
    /\ WF_childVars(focus = "child" /\ LauncherStep)
    /\ WF_childVars(focus = "child" /\ SessionStep)
    /\ WF_childVars(focus = "child" /\ PurgeStep)
    /\ WF_childVars(focus = "child" /\ RecoveryStep)
    /\ \A w \in Watchers : WF_mailSignalVars(focus = "mail" /\ WatcherStep(w))
    /\ \A d \in Deliverers : WF_mailSignalVars(focus = "mail" /\ DelivererStep(d))
    /\ \A m \in Messages :
          /\ WF_mailSignalVars(focus = "mail" /\ CooldownPasses(m))
          /\ WF_mailSignalVars(focus = "mail" /\ LeaseRunsOut(m) /\ NoMailFault)
    /\ WF_deliveryVars(focus = "notify" /\ ServerTask)
    /\ \A d \in Carriers : WF_deliveryVars(focus = "notify" /\ HandOverStep(d))
    /\ \A m \in Letters :
          /\ WF_deliveryVars(focus = "notify" /\ IntentWaitEnds(m) /\ ~AtWork(m))
          /\ \A d \in Carriers :
                /\ WF_deliveryVars(focus = "notify" /\ SweepIntent(d, m))
                /\ WF_deliveryVars(focus = "notify" /\ PrepareStep(d, m)
                                                    /\ m \in hints)

-----------------------------------------------------------------------------
SubsystemsTypeOK ==
    /\ focus \in Focuses
    /\ BridgeTypeOK /\ LockTypeOK /\ QueueTypeOK /\ SwitchTypeOK
    /\ LedgerTypeOK /\ ToolsTypeOK /\ ChildTypeOK /\ MailSignalsTypeOK
    /\ DeliveryTypeOK /\ LaunchTypeOK
=============================================================================
