--------------------------- MODULE ConsumerSwitch ---------------------------
(* The journaled switch of consumer settings files: consumer.py, apply,       *)
(* rollback and what they call (_publish, _stage, _write_journal,             *)
(* _finish_operation, _write_receipt), after prepare.                         *)
(*                                                                            *)
(* One operation at a time holds the bundle's lock and those of the target    *)
(* directories; the programs that own the settings files write them under no  *)
(* lock.  A process crash leaves every file as it is, a power loss takes back *)
(* any replacement whose directory was not synced.                            *)
EXTENDS Integers, FiniteSets

CONSTANTS
    Consumers,       \* the entries of the manifest, in order: 1..n
    Unchanged,       \* entries whose before and after images are the same
    MaxSwitchFaults  \* bound: crashes, power losses, refusals, foreign edits

ASSUME ConsumerSwitchAssumption ==
    /\ IsFiniteSet(Consumers) /\ Consumers = 1..Cardinality(Consumers)
    /\ Unchanged \subseteq Consumers /\ MaxSwitchFaults \in Nat

VARIABLES
    image,        \* what each settings file holds
    durable,      \* what it holds after a power loss, at the least recent
    journal,      \* phase in the bundle's journal
    receipts,     \* terminal receipts in the bundle
    ready,        \* staged images left beside the settings files
    op,           \* the running operation: direction, step, images to publish
    switchFaults  \* faults so far

switchVars == <<image, durable, journal, receipts, ready, op, switchFaults>>
bundleVars == <<journal, receipts>>

Image == {"before", "after", "third"}
Ops == {"apply", "rollback"}
NoOp == [dir |-> "none", at |-> "idle", todo |-> {}, staged |-> {}, next |-> 0]

Source == IF op.dir = "apply" THEN "before" ELSE "after"
Destination == IF op.dir = "apply" THEN "after" ELSE "before"
Terminal == IF op.dir = "apply" THEN "COMMITTED" ELSE "ROLLED_BACK"

(* _classify: a file whose images are the same counts for either.             *)
Is(c, i) == image[c] = i \/ (c \in Unchanged /\ image[c] # "third")
Diverged == \E c \in Consumers : image[c] = "third"
Arrived == \A c \in Consumers : Is(c, Destination)

SwitchFault == switchFaults < MaxSwitchFaults /\ switchFaults' = switchFaults + 1

-----------------------------------------------------------------------------
(* apply, rollback: the locks are taken, rollback has its authority checked,  *)
(* and nothing is staged for a vector with a foreign image.                   *)
StartSwitch(dir) ==
    /\ op.at = "idle"
    /\ op' = [NoOp EXCEPT !.dir = dir, !.at = "classify"]
    /\ UNCHANGED <<image, durable, bundleVars, ready, switchFaults>>

(* An exception: the images this operation staged are removed.                *)
Abandon ==
    /\ op' = NoOp
    /\ ready' = ready \ (op.staged \X {Destination})

Classify ==
    /\ op.at = "classify"
    /\ IF Diverged THEN Abandon
       ELSE /\ op' = [op EXCEPT !.at = "stage",
                           !.todo = {c \in Consumers : ~Is(c, Destination)}]
            /\ UNCHANGED ready
    /\ UNCHANGED <<image, durable, bundleVars, switchFaults>>

First(S) == CHOOSE c \in S : \A d \in S : c <= d

\* mutant: an image left staged by a crash refuses the operation
StageNextRefuses ==
    /\ op.at = "stage" /\ op.todo # {}
    /\ IF <<First(op.todo), Destination>> \in ready THEN Abandon
       ELSE /\ ready' = ready \cup {<<First(op.todo), Destination>>}
            /\ op' = [op EXCEPT !.todo = @ \ {First(op.todo)},
                                !.staged = @ \cup {First(op.todo)}]
    /\ UNCHANGED <<image, durable, bundleVars, switchFaults>>

(* An image staged by an operation that crashed is verified and used again.   *)
StageNext ==
    /\ op.at = "stage" /\ op.todo # {}
    /\ ready' = ready \cup {<<First(op.todo), Destination>>}
    /\ op' = [op EXCEPT !.todo = @ \ {First(op.todo)},
                        !.staged = @ \cup {First(op.todo)}]
    /\ UNCHANGED <<image, durable, bundleVars, switchFaults>>

(* The vector is classified once more before the journal says what begins.    *)
JournalStart ==
    /\ op.at = "stage" /\ op.todo = {}
    /\ IF Diverged THEN Abandon /\ UNCHANGED journal
       ELSE /\ journal' = IF op.dir = "apply" THEN "PUBLISHING" ELSE "ROLLING_BACK"
            /\ op' = [op EXCEPT !.at = "check"]
            /\ UNCHANGED ready
    /\ UNCHANGED <<image, durable, receipts, switchFaults>>

(* Compare, then replace: two steps, with foreign writes in between.          *)
CheckNext ==
    /\ op.at = "check" /\ op.staged # {}
    /\ IF image[First(op.staged)] = Source
       THEN /\ op' = [op EXCEPT !.at = "replace", !.next = First(op.staged)]
            /\ UNCHANGED ready
       ELSE Abandon
    /\ UNCHANGED <<image, durable, bundleVars, switchFaults>>

Replace ==
    /\ op.at = "replace"
    /\ image' = [image EXCEPT ![op.next] = Destination]
    /\ ready' = ready \ {<<op.next, Destination>>}
    /\ op' = [op EXCEPT !.at = "sync", !.staged = @ \ {op.next}]
    /\ UNCHANGED <<durable, bundleVars, switchFaults>>

SyncParent ==
    /\ op.at = "sync"
    /\ durable' = [durable EXCEPT ![op.next] = image[op.next]]
    /\ IF Is(op.next, Destination)
       THEN op' = [op EXCEPT !.at = "check"] /\ UNCHANGED ready
       ELSE Abandon
    /\ UNCHANGED <<image, bundleVars, switchFaults>>

\* mutant: the directories are not synced once more
ConvergeUnsynced ==
    /\ op.at = "check" /\ op.staged = {}
    /\ IF Arrived THEN ready' = {} /\ op' = [op EXCEPT !.at = "finish"]
                  ELSE Abandon
    /\ UNCHANGED <<image, durable, bundleVars, switchFaults>>

(* The whole vector has arrived: stages of either direction are removed and   *)
(* every directory synced.                                                    *)
Converge ==
    /\ op.at = "check" /\ op.staged = {}
    /\ IF Arrived
       THEN /\ ready' = {}
            /\ durable' = image
            /\ op' = [op EXCEPT !.at = "finish"]
       ELSE Abandon /\ UNCHANGED durable
    /\ UNCHANGED <<image, bundleVars, switchFaults>>

(* _finish_operation: the terminal phase goes to the journal, the vector is   *)
(* looked at again, and only then the receipt is published.                   *)
JournalTerminal ==
    /\ op.at = "finish"
    /\ journal' = Terminal
    /\ op' = [op EXCEPT !.at = "recheck"]
    /\ UNCHANGED <<image, durable, receipts, ready, switchFaults>>

TerminalRecheck ==
    /\ op.at = "recheck"
    /\ IF Arrived /\ journal = Terminal
       THEN op' = [op EXCEPT !.at = "receipt"] /\ UNCHANGED ready
       ELSE Abandon
    /\ UNCHANGED <<image, durable, bundleVars, switchFaults>>

WriteReceipt ==
    /\ op.at = "receipt"
    /\ receipts' = receipts \cup {Terminal}
    /\ op' = NoOp
    /\ UNCHANGED <<image, durable, journal, ready, switchFaults>>

SwitchStep ==
    \/ Classify \/ StageNext \/ JournalStart \/ CheckNext \/ Replace
    \/ SyncParent \/ Converge \/ JournalTerminal \/ TerminalRecheck
    \/ WriteReceipt

-----------------------------------------------------------------------------
(* The authority of a rollback is refused, at its start or before it begins   *)
(* to publish.                                                                *)
AuthorityRefused ==
    /\ op.dir = "rollback" /\ op.at \in {"classify", "stage"} /\ SwitchFault
    /\ Abandon
    /\ UNCHANGED <<image, durable, bundleVars>>

CrashSwitch ==
    /\ op.at # "idle" /\ SwitchFault
    /\ op' = NoOp
    /\ UNCHANGED <<image, durable, bundleVars, ready>>

LosePower ==
    /\ SwitchFault
    /\ image' \in {i \in [Consumers -> Image] :
                      \A c \in Consumers : i[c] \in {image[c], durable[c]}}
    /\ durable' = image'
    /\ op' = NoOp
    /\ UNCHANGED <<bundleVars, ready>>

(* The program that owns a settings file writes it.                           *)
ForeignEdit(c) ==
    /\ SwitchFault
    /\ image' = [image EXCEPT ![c] = "third"]
    /\ UNCHANGED <<durable, bundleVars, ready, op>>

-----------------------------------------------------------------------------
SwitchInit ==
    /\ image = [c \in Consumers |-> "before"] /\ durable = image
    /\ journal = "PREPARED" /\ receipts = {} /\ ready = {}
    /\ op = NoOp /\ switchFaults = 0

SwitchNext ==
    \/ \E dir \in Ops : StartSwitch(dir)
    \/ SwitchStep
    \/ AuthorityRefused \/ CrashSwitch \/ LosePower
    \/ \E c \in Consumers : ForeignEdit(c)

SwitchSpec == SwitchInit /\ [][SwitchNext]_switchVars
SwitchFairSpec == SwitchSpec /\ WF_switchVars(SwitchStep)

-----------------------------------------------------------------------------
SwitchTypeOK ==
    /\ {image, durable} \subseteq [Consumers -> Image]
    /\ journal \in {"PREPARED", "PUBLISHING", "COMMITTED", "ROLLING_BACK",
                    "ROLLED_BACK"}
    /\ receipts \subseteq {"COMMITTED", "ROLLED_BACK"}
    /\ ready \subseteq Consumers \X {"before", "after"}
    /\ op.dir \in Ops \cup {"none"} /\ op.todo \cup op.staged \subseteq Consumers
    /\ op.next \in Consumers \cup {0}
    /\ op.at \in {"idle", "classify", "stage", "check", "replace", "sync",
                  "finish", "recheck", "receipt"}

(* A mixed vector is never marked COMMITTED, nor ROLLED_BACK, whatever crash  *)
(* or power loss interrupted the publication: under a terminal phase no file  *)
(* holds, or can come back to, the image switched away from.                  *)
Marked(phase, i) ==
    journal = phase => \A c \in Consumers : Is(c, i) \/ image[c] = "third"
MarkedForGood(phase, i) ==
    journal = phase => \A c \in Consumers \ Unchanged : durable[c] \in {i, "third"}
NoMixedVectorMarked ==
    /\ Marked("COMMITTED", "after") /\ Marked("ROLLED_BACK", "before")
    /\ MarkedForGood("COMMITTED", "after") /\ MarkedForGood("ROLLED_BACK", "before")

(* One rollback brings every vector an interrupted operation left back to the *)
(* exact before images and says so, when nothing disturbs it and no foreign   *)
(* image makes it refuse.                                                     *)
RollbackStarts == op.dir = "rollback" /\ op.at = "classify"
Undisturbed == switchFaults = MaxSwitchFaults
OneRollbackRestores ==
    RollbackStarts /\ Undisturbed /\ ~Diverged
        ~> /\ \A c \in Consumers : Is(c, "before")
           /\ journal = "ROLLED_BACK" /\ "ROLLED_BACK" \in receipts
=============================================================================
