--------------------------- MODULE ConsumerProof ----------------------------
(* Proofs about the global consumer, for every value of the constants: the     *)
(* switch from one project to another (ConsumerSwitch), the delivery of mail   *)
(* to a session (GlobalDelivery), and its launches (GlobalLaunch).             *)
EXTENDS ConsumerSwitch, GlobalDelivery, GlobalLaunch,
        TLAPS, FiniteSetTheorems, WellFoundedInduction

-----------------------------------------------------------------------------
(* ConsumerSwitch.                                                            *)
(* SwitchTypeOK, as far as it is needed.                                      *)
ImagesOK == /\ image \in [Consumers -> Image] /\ durable \in [Consumers -> Image]

OpOK == op \in [dir : Ops \cup {"none"},
                at : {"idle", "classify", "stage", "check", "replace", "sync",
                      "finish", "recheck", "receipt"},
                todo : SUBSET Consumers, staged : SUBSET Consumers,
                next : Consumers \cup {0}]

(* A switch that is under way has a direction.                                *)
Running == op.at # "idle" => op.dir \in Ops

(* Publication goes on under a phase that is not terminal, until the whole    *)
(* vector has arrived and cannot go back.                                     *)
Publishing ==
    op.at \in {"check", "replace", "sync", "finish"} =>
        journal \in {"PUBLISHING", "ROLLING_BACK"}

ArrivedForGood ==
    op.at = "finish" => \A c \in Consumers \ Unchanged :
        {image[c], durable[c]} \subseteq {Destination, "third"}

(* A terminal phase: no file holds, or can come back to, the other image.     *)
MarkedArrived ==
    \A c \in Consumers \ Unchanged :
        /\ journal = "COMMITTED" => {image[c], durable[c]} \subseteq {"after", "third"}
        /\ journal = "ROLLED_BACK" => {image[c], durable[c]} \subseteq {"before", "third"}

SwitchInv == ImagesOK /\ OpOK /\ Running /\ Publishing /\ ArrivedForGood /\ MarkedArrived

\* A set of numbers that is not empty has a least element.
LEMMA SmallestExists ==
    ASSUME NEW S, S \subseteq Nat, S # {}
    PROVE  \E x \in S : \A y \in S : x <= y
<1> DEFINE Less == OpToRel(<, Nat)
<1>1. IsWellFoundedOn(Less, Nat)
  BY NatLessThanWellFounded, Zenon DEF OpToRel
<1>2. PICK x \in S : \A y \in S : ~(<<y, x>> \in Less)
  <2> HIDE DEF Less
  <2> QED  BY <1>1, WFMin
<1>3. \A y \in S : ~(y < x)
  BY <1>2 DEF OpToRel
<1>4. QED  BY <1>3

\* The consumers are numbers, in the order of the bundle.
LEMMA ConsumersNat == Consumers \subseteq Nat
<1>1. Cardinality(Consumers) \in Nat
  BY FS_CardinalityType, ConsumerSwitchAssumption
<1>2. QED BY <1>1, ConsumerSwitchAssumption

\* The next file is one of those that are left.
LEMMA FirstIn ==
    ASSUME NEW S \in SUBSET Consumers, S # {}
    PROVE  First(S) \in S
BY SmallestExists, ConsumersNat DEF First

(* The ends of Classify and CheckNext.                                        *)
Abandons == op' = NoOp /\ UNCHANGED <<image, durable, journal>>

Classified ==
    /\ op.at = "classify"
    /\ op' = [op EXCEPT !.at = "stage", !.todo = {c \in Consumers : ~Is(c, Destination)}]
    /\ UNCHANGED <<image, durable, journal>>

\* An unreadable vector makes it give up; otherwise it knows what is left to do.
LEMMA ClassifyCases == Classify => Abandons \/ Classified
BY DEF Classify, Abandon, Abandons, Classified, bundleVars

Checked ==
    /\ op.at = "check" /\ op.staged # {}
    /\ op' = [op EXCEPT !.at = "replace", !.next = First(op.staged)]
    /\ UNCHANGED <<image, durable, journal>>

\* So does a file that changed since; otherwise the next one is replaced.
LEMMA CheckCases == CheckNext => Abandons \/ Checked
BY DEF CheckNext, Abandon, Abandons, Checked, bundleVars

\* A switch starts from whatever the files are.
LEMMA StartSwitchKeeps ==
    ASSUME SwitchInv, NEW dir \in Ops, StartSwitch(dir)
    PROVE  SwitchInv'
<1>1. ImagesOK' /\ MarkedArrived'
  BY DEF SwitchInv, ImagesOK, MarkedArrived, StartSwitch, bundleVars
<1>2. OpOK'
  BY DEF SwitchInv, OpOK, StartSwitch, NoOp
<1>3. Running'
  BY DEF SwitchInv, Running, StartSwitch
<1>4. Publishing'
  BY DEF SwitchInv, Publishing, StartSwitch
<1>5. ArrivedForGood'
  BY DEF SwitchInv, ArrivedForGood, StartSwitch
<1>6. QED  BY <1>1, <1>2, <1>3, <1>4, <1>5 DEF SwitchInv

\* Giving up leaves files and journal as they are.
LEMMA AbandonsKeeps ==
    ASSUME SwitchInv, Abandons
    PROVE  SwitchInv'
<1>1. ImagesOK' /\ MarkedArrived'
  BY DEF SwitchInv, ImagesOK, MarkedArrived, Abandons
<1>2. OpOK'
  BY DEF SwitchInv, OpOK, Abandons, NoOp
<1>3. Running'
  BY DEF SwitchInv, Running, Abandons, NoOp
<1>4. Publishing'
  BY DEF SwitchInv, Publishing, Abandons, NoOp
<1>5. ArrivedForGood'
  BY DEF SwitchInv, ArrivedForGood, Abandons, NoOp
<1>6. QED  BY <1>1, <1>2, <1>3, <1>4, <1>5 DEF SwitchInv

\* The files to replace are those that do not hold the destination.
LEMMA ClassifiedKeeps ==
    ASSUME SwitchInv, Classified
    PROVE  SwitchInv'
<1>1. ImagesOK' /\ MarkedArrived'
  BY DEF SwitchInv, ImagesOK, MarkedArrived, Classified
<1>2. OpOK'
  BY DEF SwitchInv, OpOK, Classified
<1>3. Running'
  BY DEF SwitchInv, Running, Classified
<1>4. Publishing'
  BY DEF SwitchInv, Publishing, Classified
<1>5. ArrivedForGood'
  BY DEF SwitchInv, ArrivedForGood, Classified
<1>6. QED  BY <1>1, <1>2, <1>3, <1>4, <1>5 DEF SwitchInv

\* Staging touches no file of a consumer.
LEMMA StageNextKeeps ==
    ASSUME SwitchInv, StageNext
    PROVE  SwitchInv'
<1>1. ImagesOK' /\ MarkedArrived'
  BY DEF SwitchInv, ImagesOK, MarkedArrived, StageNext, bundleVars
<1>2. OpOK'
  BY FirstIn DEF SwitchInv, OpOK, StageNext
<1>3. Running'
  BY DEF SwitchInv, Running, StageNext
<1>4. Publishing'
  BY DEF SwitchInv, Publishing, StageNext
<1>5. ArrivedForGood'
  BY DEF SwitchInv, ArrivedForGood, StageNext
<1>6. QED  BY <1>1, <1>2, <1>3, <1>4, <1>5 DEF SwitchInv

\* From here on the phase is not terminal.
LEMMA JournalStartKeeps ==
    ASSUME SwitchInv, JournalStart
    PROVE  SwitchInv'
<1>1. ImagesOK'
  BY DEF SwitchInv, ImagesOK, JournalStart
<1>2. OpOK'
  BY DEF SwitchInv, OpOK, JournalStart, Abandon, NoOp
<1>3. Running'
  BY DEF SwitchInv, OpOK, Running, JournalStart, Abandon, NoOp
<1>4. Publishing'
  BY DEF SwitchInv, Publishing, JournalStart, Abandon, NoOp
<1>5. ArrivedForGood'
  BY DEF SwitchInv, OpOK, ArrivedForGood, JournalStart, Abandon, NoOp
<1>6. MarkedArrived'
  BY DEF SwitchInv, MarkedArrived, JournalStart
<1>7. QED  BY <1>1, <1>2, <1>3, <1>4, <1>5, <1>6 DEF SwitchInv

\* Looking at the next file changes nothing.
LEMMA CheckedKeeps ==
    ASSUME SwitchInv, Checked
    PROVE  SwitchInv'
<1>1. ImagesOK' /\ MarkedArrived'
  BY DEF SwitchInv, ImagesOK, MarkedArrived, Checked
<1>2. OpOK'
  BY FirstIn DEF SwitchInv, OpOK, Checked
<1>3. Running'
  BY DEF SwitchInv, Running, Checked
<1>4. Publishing'
  BY DEF SwitchInv, Publishing, Checked
<1>5. ArrivedForGood'
  BY DEF SwitchInv, ArrivedForGood, Checked
<1>6. QED  BY <1>1, <1>2, <1>3, <1>4, <1>5 DEF SwitchInv

\* A rename makes a file the destination, durable or not yet.
LEMMA ReplaceKeeps ==
    ASSUME SwitchInv, Replace
    PROVE  SwitchInv'
<1>1. ImagesOK'
  BY DEF SwitchInv, ImagesOK, Replace, Destination, Image
<1>2. OpOK'
  BY DEF SwitchInv, OpOK, Replace
<1>3. Running'
  BY DEF SwitchInv, Running, Replace
<1>4. Publishing'
  BY DEF SwitchInv, Publishing, Replace, bundleVars
<1>5. ArrivedForGood'
  BY DEF SwitchInv, ArrivedForGood, Replace
<1>6. MarkedArrived'
  BY DEF SwitchInv, Publishing, MarkedArrived, Replace, bundleVars
<1>7. QED  BY <1>1, <1>2, <1>3, <1>4, <1>5, <1>6 DEF SwitchInv

\* What a file is now, it stays.
LEMMA SyncParentKeeps ==
    ASSUME SwitchInv, SyncParent
    PROVE  SwitchInv'
<1>1. ImagesOK'
  BY DEF SwitchInv, ImagesOK, SyncParent
<1>2. OpOK'
  BY DEF SwitchInv, OpOK, SyncParent, Abandon, NoOp
<1>3. Running'
  BY DEF SwitchInv, OpOK, Running, SyncParent, Abandon, NoOp
<1>4. Publishing'
  BY DEF SwitchInv, Publishing, SyncParent, bundleVars
<1>5. ArrivedForGood'
  BY DEF SwitchInv, OpOK, ArrivedForGood, SyncParent, Abandon, NoOp
<1>6. MarkedArrived'
  BY DEF SwitchInv, MarkedArrived, SyncParent, bundleVars
<1>7. QED  BY <1>1, <1>2, <1>3, <1>4, <1>5, <1>6 DEF SwitchInv

\* The phase is ended only when every file has arrived, for good.
LEMMA ConvergeKeeps ==
    ASSUME SwitchInv, Converge
    PROVE  SwitchInv'
<1>1. ImagesOK'
  BY DEF SwitchInv, ImagesOK, Converge
<1>2. OpOK'
  BY DEF SwitchInv, OpOK, Converge, Abandon, NoOp
<1>3. Running'
  BY DEF SwitchInv, OpOK, Running, Converge, Abandon, NoOp
<1>4. Publishing'
  BY DEF SwitchInv, Publishing, Converge, bundleVars
<1>5. ArrivedForGood'
  BY DEF SwitchInv, OpOK, ArrivedForGood, Converge, Arrived, Is,
     Destination, Abandon, NoOp
<1>6. MarkedArrived'
  BY DEF SwitchInv, MarkedArrived, Converge, bundleVars
<1>7. QED  BY <1>1, <1>2, <1>3, <1>4, <1>5, <1>6 DEF SwitchInv

\* The terminal phase of a vector that has arrived for good.
LEMMA JournalTerminalKeeps ==
    ASSUME SwitchInv, JournalTerminal
    PROVE  SwitchInv'
<1>1. ImagesOK'
  BY DEF SwitchInv, ImagesOK, JournalTerminal
<1>2. OpOK'
  BY DEF SwitchInv, OpOK, JournalTerminal
<1>3. Running'
  BY DEF SwitchInv, Running, JournalTerminal
<1>4. Publishing'
  BY DEF SwitchInv, Publishing, JournalTerminal
<1>5. ArrivedForGood'
  BY DEF SwitchInv, ArrivedForGood, JournalTerminal
<1>6. MarkedArrived'
  BY DEF SwitchInv, ArrivedForGood, MarkedArrived, JournalTerminal,
     Terminal, Destination
<1>7. QED  BY <1>1, <1>2, <1>3, <1>4, <1>5, <1>6 DEF SwitchInv

\* A look after the terminal phase.
LEMMA TerminalRecheckKeeps ==
    ASSUME SwitchInv, TerminalRecheck
    PROVE  SwitchInv'
<1>1. ImagesOK' /\ MarkedArrived'
  BY DEF SwitchInv, ImagesOK, MarkedArrived, TerminalRecheck, bundleVars
<1>2. OpOK'
  BY DEF SwitchInv, OpOK, TerminalRecheck, Abandon, NoOp
<1>3. Running'
  BY DEF SwitchInv, OpOK, Running, TerminalRecheck, Abandon, NoOp
<1>4. Publishing'
  BY DEF SwitchInv, OpOK, Publishing, TerminalRecheck, Abandon, NoOp
<1>5. ArrivedForGood'
  BY DEF SwitchInv, OpOK, ArrivedForGood, TerminalRecheck, Abandon, NoOp
<1>6. QED  BY <1>1, <1>2, <1>3, <1>4, <1>5 DEF SwitchInv

\* The receipt is no file of a consumer.
LEMMA WriteReceiptKeeps ==
    ASSUME SwitchInv, WriteReceipt
    PROVE  SwitchInv'
<1>1. ImagesOK' /\ MarkedArrived'
  BY DEF SwitchInv, ImagesOK, MarkedArrived, WriteReceipt
<1>2. OpOK'
  BY DEF SwitchInv, OpOK, WriteReceipt, NoOp
<1>3. Running'
  BY DEF SwitchInv, Running, WriteReceipt, NoOp
<1>4. Publishing'
  BY DEF SwitchInv, Publishing, WriteReceipt, NoOp
<1>5. ArrivedForGood'
  BY DEF SwitchInv, ArrivedForGood, WriteReceipt, NoOp
<1>6. QED  BY <1>1, <1>2, <1>3, <1>4, <1>5 DEF SwitchInv

\* A refused switch changes nothing.
LEMMA AuthorityRefusedKeeps ==
    ASSUME SwitchInv, AuthorityRefused
    PROVE  SwitchInv'
<1>1. ImagesOK' /\ MarkedArrived'
  BY DEF SwitchInv, ImagesOK, MarkedArrived, AuthorityRefused, bundleVars
<1>2. OpOK'
  BY DEF SwitchInv, OpOK, AuthorityRefused, Abandon, NoOp
<1>3. Running'
  BY DEF SwitchInv, Running, AuthorityRefused, Abandon, NoOp
<1>4. Publishing'
  BY DEF SwitchInv, Publishing, AuthorityRefused, Abandon, NoOp
<1>5. ArrivedForGood'
  BY DEF SwitchInv, ArrivedForGood, AuthorityRefused, Abandon, NoOp
<1>6. QED  BY <1>1, <1>2, <1>3, <1>4, <1>5 DEF SwitchInv

\* A crash leaves the files as they are.
LEMMA CrashSwitchKeeps ==
    ASSUME SwitchInv, CrashSwitch
    PROVE  SwitchInv'
<1>1. ImagesOK' /\ MarkedArrived'
  BY DEF SwitchInv, ImagesOK, MarkedArrived, CrashSwitch, bundleVars
<1>2. OpOK'
  BY DEF SwitchInv, OpOK, CrashSwitch, NoOp
<1>3. Running'
  BY DEF SwitchInv, Running, CrashSwitch, NoOp
<1>4. Publishing'
  BY DEF SwitchInv, Publishing, CrashSwitch, NoOp
<1>5. ArrivedForGood'
  BY DEF SwitchInv, ArrivedForGood, CrashSwitch, NoOp
<1>6. QED  BY <1>1, <1>2, <1>3, <1>4, <1>5 DEF SwitchInv

\* A file that is not durable may come back.
LEMMA LosePowerKeeps ==
    ASSUME SwitchInv, LosePower
    PROVE  SwitchInv'
<1>1. ImagesOK'
  BY DEF SwitchInv, ImagesOK, LosePower
<1>2. OpOK'
  BY DEF SwitchInv, OpOK, LosePower, NoOp
<1>3. Running'
  BY DEF SwitchInv, Running, LosePower, NoOp
<1>4. Publishing'
  BY DEF SwitchInv, Publishing, LosePower, NoOp
<1>5. ArrivedForGood'
  BY DEF SwitchInv, ArrivedForGood, LosePower, NoOp
<1>6. MarkedArrived'
  BY DEF SwitchInv, MarkedArrived, LosePower, bundleVars
<1>7. QED  BY <1>1, <1>2, <1>3, <1>4, <1>5, <1>6 DEF SwitchInv

\* Somebody else's edit is neither image.
LEMMA ForeignEditKeeps ==
    ASSUME SwitchInv, NEW c \in Consumers, ForeignEdit(c)
    PROVE  SwitchInv'
<1>1. OpOK' /\ Running' /\ Publishing'
  BY DEF SwitchInv, OpOK, Running, Publishing, ForeignEdit, bundleVars
<1>2. ImagesOK'
  BY DEF SwitchInv, ImagesOK, ForeignEdit, Image
<1>3. ArrivedForGood'
  BY DEF SwitchInv, ArrivedForGood, ForeignEdit, Destination
<1>4. MarkedArrived'
  BY DEF SwitchInv, MarkedArrived, ForeignEdit, bundleVars
<1>5. QED  BY <1>1, <1>2, <1>3, <1>4 DEF SwitchInv

\* At the start nothing is published.
LEMMA SwitchInvStart == SwitchInit => SwitchInv
BY DEF SwitchInit, SwitchInv, ImagesOK, OpOK, Running, Publishing, ArrivedForGood,
   MarkedArrived, NoOp, Image

\* Every step of a publication, a crash and a power loss keep it.
LEMMA SwitchInvStep == SwitchInv /\ [SwitchNext]_switchVars => SwitchInv'
<1> SUFFICES ASSUME SwitchInv, [SwitchNext]_switchVars  PROVE SwitchInv'
  OBVIOUS
<1>1. ASSUME NEW dir \in Ops, StartSwitch(dir)  PROVE SwitchInv'
  BY <1>1, StartSwitchKeeps
<1>2. CASE SwitchStep
  BY <1>2, ClassifyCases, CheckCases, AbandonsKeeps, ClassifiedKeeps, StageNextKeeps,
     JournalStartKeeps, CheckedKeeps, ReplaceKeeps, SyncParentKeeps, ConvergeKeeps,
     JournalTerminalKeeps, TerminalRecheckKeeps, WriteReceiptKeeps DEF SwitchStep
<1>3. CASE AuthorityRefused \/ CrashSwitch \/ LosePower
  BY <1>3, AuthorityRefusedKeeps, CrashSwitchKeeps, LosePowerKeeps
<1>4. ASSUME NEW c \in Consumers, ForeignEdit(c)  PROVE SwitchInv'
  BY <1>4, ForeignEditKeeps
<1>5. CASE UNCHANGED switchVars
  BY <1>5 DEF switchVars, bundleVars, SwitchInv, ImagesOK, OpOK, Running, Publishing,
     ArrivedForGood, MarkedArrived, Destination
<1>6. QED
  BY <1>1, <1>2, <1>3, <1>4, <1>5 DEF SwitchNext

\* The inductive invariant of the switch.
LEMMA SwitchInvariant == SwitchSpec => []SwitchInv
BY SwitchInvStart, SwitchInvStep, PTL DEF SwitchSpec

\* A bundle is never marked COMMITTED, nor ROLLED_BACK, with a file that holds,
\* or after a power loss comes back to, the image switched away from: not by a
\* crash between two renames, nor by a second attempt (bundle switch of
\* global_consumer.py).
THEOREM NoMixedVectorMarkedTheorem == SwitchSpec => []NoMixedVectorMarked
<1>1. SwitchInv => NoMixedVectorMarked
  BY DEF SwitchInv, ImagesOK, MarkedArrived, NoMixedVectorMarked, Marked, MarkedForGood,
     Is, Image
<1>2. QED
  BY <1>1, SwitchInvariant, PTL

(* The rest of SwitchTypeOK.                                                  *)
BundleOK == /\ journal \in {"PREPARED", "PUBLISHING", "COMMITTED", "ROLLING_BACK",
                            "ROLLED_BACK"}
            /\ receipts \subseteq {"COMMITTED", "ROLLED_BACK"}
            /\ ready \subseteq Consumers \X {"before", "after"}

\* Only images of the consumers are staged, and only ends are receipted.
LEMMA BundleStep == SwitchInv /\ BundleOK /\ [SwitchNext]_switchVars => BundleOK'
<1> SUFFICES ASSUME SwitchInv, BundleOK, [SwitchNext]_switchVars  PROVE BundleOK'
  OBVIOUS
<1>1. ASSUME NEW R \in SUBSET ready, ready' = R, UNCHANGED bundleVars  PROVE BundleOK'
  BY <1>1 DEF BundleOK, bundleVars
<1>2. Terminal \in {"COMMITTED", "ROLLED_BACK"} /\ Destination \in {"before", "after"}
  BY DEF Terminal, Destination
<1>3. ASSUME Abandon, UNCHANGED bundleVars  PROVE BundleOK'
  BY <1>1, <1>3 DEF Abandon
<1>4. CASE StageNext
  <2>1. First(op.todo) \in Consumers
    BY <1>4, FirstIn DEF StageNext, SwitchInv, OpOK
  <2>2. QED
    BY <1>2, <1>4, <2>1 DEF StageNext, BundleOK, bundleVars
<1>5. CASE Classify \/ CheckNext \/ Replace \/ SyncParent \/ Converge \/ TerminalRecheck
  BY <1>1, <1>3, <1>5 DEF Classify, CheckNext, Replace, SyncParent, Converge, TerminalRecheck
<1>6. CASE JournalStart \/ JournalTerminal \/ WriteReceipt
  BY <1>2, <1>6 DEF JournalStart, JournalTerminal, WriteReceipt, BundleOK, Abandon
<1>7. CASE AuthorityRefused \/ CrashSwitch \/ LosePower
  BY <1>1, <1>3, <1>7 DEF AuthorityRefused, CrashSwitch, LosePower
<1>8. ASSUME \/ \E dir \in Ops : StartSwitch(dir)
             \/ \E c \in Consumers : ForeignEdit(c)
             \/ UNCHANGED switchVars
      PROVE  BundleOK'
  BY <1>1, <1>8 DEF StartSwitch, ForeignEdit, switchVars, bundleVars
<1>9. QED
  BY <1>4, <1>5, <1>6, <1>7, <1>8 DEF SwitchNext, SwitchStep

\* Every reachable state of the settings files and of a switch is well-typed.
THEOREM SwitchTypeCorrect == SwitchSpec => []SwitchTypeOK
<1>1. SwitchInit => BundleOK
  BY DEF SwitchInit, BundleOK
<1>2. SwitchSpec => []BundleOK
  BY <1>1, BundleStep, SwitchInvariant, PTL DEF SwitchSpec
<1>3. SwitchInv /\ BundleOK => SwitchTypeOK
  BY DEF SwitchInv, ImagesOK, OpOK, BundleOK, SwitchTypeOK
<1>4. QED
  BY <1>2, <1>3, SwitchInvariant, PTL

-----------------------------------------------------------------------------
(* GlobalDelivery.                                                            *)
Notes == [phase : {"none", "planned", "unknown", "confirmed", "callback", "blocked"},
          error : {"none", "importance", "route", "abandoned"}, attempt : Nat,
          launch : Nat, generation : Nat, tried : BOOLEAN, flagged : BOOLEAN,
          waits : {"no", "lease", "backoff"}]
Handings == [letter : Letters, attempt : Nat, flagged : BOOLEAN, launch : Nat]

FactsOK == /\ mailbox \in [Letters -> {"unsent", "unread", "read", "purged"}]
           /\ delivered \subseteq Letters /\ hints \subseteq Letters
           /\ retiredOwner \in BOOLEAN
           /\ dirtyPair \in [Letters -> {"clean", "pending", "blocked"}]
NotesOK == note \in [Letters -> Notes]
HandingOutcomes == {"none", "confirmed", "unknown", "known"}
Carryings == [at : {"idle", "handing", "reporting"}, held : SUBSET Handings,
              outcome : HandingOutcomes]
Tallies == [times : Nat, unflagged : Nat]
CarriersOK == carrier \in [Carriers -> Carryings]
CountsOK == /\ attempts \in [Letters -> Nat]
            /\ reached \in [Letters -> Tallies]
OwnersOK == /\ launch \in [id : Nat, phase : {"planned", "running", "ended"}]
            /\ generation \in Nat

(* A carrier at rest holds nothing; one that is no hook hands over one letter *)
(* at a time.                                                                 *)
HeldOK ==
    \A d \in Carriers :
        /\ IsFiniteSet(carrier[d].held)
        /\ carrier[d].at = "idle" => carrier[d].held = {}
        /\ ~Hook(d) => \A h, k \in carrier[d].held : h = k

(* What a carrier is about to report as confirmed got to a session, and so    *)
(* did what a note has as confirmed, if not by the operator's word.           *)
ReportsReached ==
    \A d \in Carriers : carrier[d].at = "reporting" /\ carrier[d].outcome = "confirmed"
        => \A h \in carrier[d].held : reached[h.letter].times > 0

NotesReached ==
    \A m \in Letters : Confirmed(note[m]) => reached[m].times > 0 \/ m \in said

(* A handover without the flag that is still under way.                       *)
Unflagged(d, h, m) ==
    /\ carrier[d].at = "handing" /\ h \in carrier[d].held
    /\ h.letter = m /\ ~h.flagged
NoneUnflagged(m) == \A d \in Carriers : \A h \in carrier[d].held : ~Unflagged(d, h, m)

(* A letter that may still be handed over without the flag was not, and is    *)
(* not being; there is one such handover in all.                              *)
Untried(n) == ~n.tried /\ ~n.flagged
Unattempted(m) == Untried(note[m])
FreshUntouched ==
    \A m \in Letters \ dropped :
        Unattempted(m) /\ mailbox[m] \in {"unsent", "unread"} /\ m \notin delivered
            => NoneUnflagged(m) /\ reached[m].unflagged = 0

OneUnflagged ==
    \A m \in Letters \ dropped :
        /\ reached[m].unflagged > 0 => NoneUnflagged(m)
        /\ \A d, e \in Carriers : \A h \in carrier[d].held, k \in carrier[e].held :
              Unflagged(d, h, m) /\ Unflagged(e, k, m) => d = e /\ h = k

DeliveryInv ==
    /\ FactsOK /\ NotesOK /\ CarriersOK /\ CountsOK /\ OwnersOK /\ HeldOK
    /\ SignalTellsTruth /\ ReportsReached /\ NotesReached /\ ConsumedMeansHanded
    /\ FreshUntouched /\ OneUnflagged /\ RepeatIsFlagged

-----------------------------------------------------------------------------
(* What the steps do to a note, a carrier and the tallies, by the fields the  *)
(* invariant speaks of.                                                       *)
SetCarrier(d, c) == carrier' = [carrier EXCEPT ![d] = c]

(* A note is written anew; it is confirmed only if it was or an operator says *)
(* so, and it is not made fresh.                                              *)
Renewal(m, n) ==
    /\ SetNote(m, n)
    /\ Confirmed(n) => Confirmed(note[m]) \/ m \in said'
    /\ Untried(n) => Unattempted(m)
    /\ said' \in {said, said \cup {m}}
    /\ UNCHANGED <<factVars, dropped>>

Renotes(m, n) ==
    /\ Renewal(m, n)
    /\ UNCHANGED <<ownerVars, carrier, wants, attempts, reached>>

(* A note is unlinked.                                                        *)
Forgets(m) ==
    /\ SetNote(m, NoIntent)
    /\ dropped' = IF Unattempted(m) THEN dropped ELSE dropped \cup {m}
    /\ UNCHANGED <<factVars, ownerVars, carrier, wants, attempts, reached, said>>

(* A delivery that is known to the client is completed, or nearly.            *)
Fulfilment(m, n) ==
    /\ SetNote(m, n)
    /\ \/ RecordFact(m)
       \/ /\ n.tried = note[m].tried /\ n.flagged = note[m].flagged
          /\ UNCHANGED <<delivered, dirtyPair>>
    /\ UNCHANGED <<mailbox, retiredOwner, hints, dropped, said>>

Completes(m, n) ==
    /\ Confirmed(note[m]) /\ Fulfilment(m, n)
    /\ UNCHANGED <<ownerVars, carrier, wants, attempts, reached>>

(* A letter is handed to a carrier that has none of it.                       *)
HandsOn(d, m, n, k, c) ==
    /\ carrier[d].at = "idle" \/ (Hook(d) /\ carrier[d].at = "handing")
    /\ m \notin delivered /\ mailbox[m] = "unread"
    /\ SetNote(m, n) /\ ~Confirmed(n) /\ n.tried
    /\ k.letter = m /\ (~k.flagged => Unattempted(m))
    /\ SetCarrier(d, c) /\ c.at = "handing" /\ c.held = carrier[d].held \cup {k}
    /\ attempts' = [attempts EXCEPT ![m] = @ + 1]
    /\ UNCHANGED <<factVars, ownerVars, wants, reached, dropped, said>>

(* The handings H get to the session.                                         *)
Reaches(H) ==
    /\ reached' \in [Letters -> Tallies]
    /\ \A m \in Letters : reached'[m].times >= reached[m].times
    /\ \A h \in H : reached'[h.letter].times > 0
    /\ \A m \in Letters : (\A h \in H : h.letter = m => h.flagged)
                              => reached'[m].unflagged = reached[m].unflagged
    /\ \A m \in Letters : \A h \in H :
          (\A k \in H : ~k.flagged /\ k.letter = m => k = h)
              => reached'[m].unflagged <= reached[m].unflagged + 1

Turned(d, c) ==
    SetCarrier(d, c) /\ c.at = "reporting" /\ c.held = carrier[d].held

GetsThere(d, c) ==
    /\ carrier[d].at = "handing" /\ Reaches(carrier[d].held) /\ Turned(d, c)
    /\ UNCHANGED <<factVars, note, ownerVars, wants, attempts, dropped, said>>

GetsNowhere(d, c) ==
    /\ carrier[d].at = "handing" /\ Turned(d, c) /\ c.outcome # "confirmed"
    /\ UNCHANGED <<factVars, note, ownerVars, wants, historyVars>>

LaysDown(d) ==
    /\ SetCarrier(d, AtRest)
    /\ UNCHANGED <<factVars, note, ownerVars, wants, historyVars>>

(* A handing is reported: the carrier goes on with the others.                *)
GoesOn(d, h, c) ==
    /\ carrier[d].at = "reporting" /\ h \in carrier[d].held
    /\ SetCarrier(d, c)
    /\ c.at # "handing" /\ c.held = carrier[d].held \ {h}
    /\ c.at = "idle" => c.held = {}
    /\ c.outcome = carrier[d].outcome \/ c.held = {}

Replies(d, h, c, n) ==
    /\ GoesOn(d, h, c) /\ Renewal(h.letter, n)
    /\ UNCHANGED <<ownerVars, wants, attempts, reached>>

Confirms(d, h, c, n) ==
    /\ GoesOn(d, h, c) /\ carrier[d].outcome = "confirmed"
    /\ Fulfilment(h.letter, n)
    /\ UNCHANGED <<ownerVars, wants, attempts, reached>>

-----------------------------------------------------------------------------
\* The types of the client's records.
LEMMA NotesAndCarriers ==
    ASSUME DeliveryInv
    PROVE  /\ note \in [Letters -> Notes] /\ carrier \in [Carriers -> Carryings]
           /\ attempts \in [Letters -> Nat] /\ reached \in [Letters -> Tallies]
           /\ launch.id \in Nat /\ generation \in Nat
BY DEF DeliveryInv, NotesOK, CarriersOK, CountsOK, OwnersOK

\* What the notes of a letter are: none, a new one, a blocked one, one that is
\* replanned.
LEMMA NoIntentNote ==
    /\ NoIntent \in Notes /\ Untried(NoIntent) /\ ~Confirmed(NoIntent)
    /\ NoIntent.attempt = 0
BY DEF NoIntent, Notes, Untried, Confirmed

\* A new note was never tried.
LEMMA NewNoteNote ==
    ASSUME DeliveryInv
    PROVE  /\ NewNote \in Notes /\ Untried(NewNote) /\ ~Confirmed(NewNote)
           /\ NewNote.tried = FALSE /\ NewNote.flagged = FALSE
<1> DEFINE id == launch.id
<1>1. id \in Nat /\ generation \in Nat
  BY NotesAndCarriers
<1>2. NoIntent \in Notes /\ NoIntent.tried = FALSE /\ NoIntent.flagged = FALSE
  BY DEF NoIntent, Notes
<1>3. NewNote = [NoIntent EXCEPT !.phase = "planned", !.launch = id,
                                 !.generation = generation]
  BY DEF NewNote
<1> HIDE DEF id
<1>4. /\ NewNote \in Notes /\ NewNote.phase = "planned"
      /\ NewNote.tried = FALSE /\ NewNote.flagged = FALSE
  BY <1>1, <1>2, <1>3 DEF Notes
<1>5. QED
  BY <1>4 DEF Untried, Confirmed

\* A blocked note keeps what it knows of attempts.
LEMMA BlockedNote ==
    ASSUME NEW n \in Notes, NEW why \in {"importance", "route", "abandoned"}
    PROVE  /\ Blocked(n, why) \in Notes /\ ~Confirmed(Blocked(n, why))
           /\ Blocked(n, why).tried = n.tried /\ Blocked(n, why).flagged = n.flagged
BY DEF Blocked, Notes, Confirmed

\* A replanned note keeps it, or is flagged.
LEMMA ReplannedNote ==
    ASSUME DeliveryInv, NEW n \in Notes
    PROVE  /\ Replanned(n) \in Notes
           /\ Confirmed(Replanned(n)) => Confirmed(n)
           /\ \/ Replanned(n).tried = n.tried /\ Replanned(n).flagged = n.flagged
              \/ Replanned(n).flagged
<1>1. CASE Matches(n)
  BY <1>1 DEF Replanned
<1>2. CASE ~Matches(n)
  <2> DEFINE new == [n EXCEPT !.phase = "planned", !.error = "none", !.waits = "no",
                              !.flagged = TRUE, !.launch = launch.id]
  <2>1. new \in Notes /\ new.flagged = TRUE /\ new.phase = "planned"
    BY NotesAndCarriers DEF Notes
  <2>2. Replanned(n) = new
    BY <1>2 DEF Replanned
  <2>3. QED
    BY <2>1, <2>2 DEF Confirmed
<1>3. QED
  BY <1>1, <1>2

\* The note to go on with is of the letter's own history.
LEMMA BaseNote ==
    ASSUME DeliveryInv, NEW m \in Letters
    PROVE  /\ Base(m) \in Notes /\ Kept(m) \in Notes
           /\ Confirmed(Base(m)) => Confirmed(note[m])
           /\ Confirmed(Kept(m)) => Confirmed(note[m])
           /\ Untried(Base(m)) => Unattempted(m)
           /\ Untried(Kept(m)) => Unattempted(m)
<1>1. note[m] \in Notes
  BY NotesAndCarriers
<1>2. CASE note[m] = NoIntent
  BY <1>2, NoIntentNote, NewNoteNote DEF Base, Kept, Unattempted
<1>3. CASE note[m] # NoIntent
  BY <1>1, <1>3, ReplannedNote DEF Base, Kept, Unattempted, Untried
<1>4. QED
  BY <1>2, <1>3

\* A completion leaves no note, or the note in the phase "callback".
LEMMA CompletionFulfils ==
    ASSUME DeliveryInv, NEW m \in Letters, Completion(m, note[m]),
           UNCHANGED <<dropped, said>>
    PROVE  \E n \in Notes : Fulfilment(m, n)
<1>1. note[m] \in Notes
  BY NotesAndCarriers
<1>2. CASE RecordFact(m) /\ SetNote(m, NoIntent)
  BY <1>2, NoIntentNote DEF Completion, Fulfilment
<1>3. CASE ~(RecordFact(m) /\ SetNote(m, NoIntent))
  <2> DEFINE new == [note[m] EXCEPT !.phase = "callback"]
  <2>1. new \in Notes /\ new.tried = note[m].tried /\ new.flagged = note[m].flagged
    BY <1>1 DEF Notes
  <2>2. SetNote(m, new) /\ (RecordFact(m) \/ UNCHANGED <<delivered, dirtyPair>>)
        /\ UNCHANGED <<mailbox, retiredOwner, hints>>
    BY <1>3 DEF Completion
  <2>3. Fulfilment(m, new)
    BY <2>1, <2>2 DEF Fulfilment
  <2>4. QED
    BY <2>1, <2>3
<1>4. QED
  BY <1>2, <1>3

\* A note that is blocked is renewed.
LEMMA BlockedRenews ==
    ASSUME DeliveryInv, NEW m \in Letters,
           NEW why \in {"importance", "route", "abandoned"}, SetNote(m, Blocked(note[m], why)),
           UNCHANGED <<factVars, dropped, said>>
    PROVE  \E n \in Notes : Renewal(m, n)
<1>1. note[m] \in Notes
  BY NotesAndCarriers
<1>2. /\ Blocked(note[m], why) \in Notes /\ ~Confirmed(Blocked(note[m], why))
      /\ Untried(Blocked(note[m], why)) => Unattempted(m)
  BY <1>1, BlockedNote DEF Untried, Unattempted
<1>3. QED
  BY <1>2 DEF Renewal

\* The sweep forgets a note, blocks it, or completes its delivery.
LEMMA SweepCases ==
    ASSUME DeliveryInv, NEW d \in Carriers, NEW m \in Letters, SweepIntent(d, m)
    PROVE  Forgets(m) \/ \E n \in Notes : Renotes(m, n) \/ Completes(m, n)
<1>1. CASE UnlinkIntent(m) /\ UNCHANGED factVars
  BY <1>1, NotesAndCarriers DEF SweepIntent, UnlinkIntent, Forgets, Unattempted, Untried
<1>2. CASE UNCHANGED dropped /\ Completion(m, note[m]) /\ Confirmed(note[m])
  <2>1. \E n \in Notes : Fulfilment(m, n)
    BY <1>2, CompletionFulfils DEF SweepIntent
  <2>2. QED
    BY <1>2, <2>1 DEF SweepIntent, Completes
<1>3. CASE UNCHANGED <<dropped, factVars>> /\ SetNote(m, Blocked(note[m], "route"))
  <2>1. \E n \in Notes : Renewal(m, n)
    BY <1>3, BlockedRenews DEF SweepIntent
  <2>2. QED
    BY <1>3, <2>1 DEF SweepIntent, Renotes
<1>4. QED
  BY <1>1, <1>2, <1>3 DEF SweepIntent

\* prepare blocks a note of another credential, or completes its delivery.
LEMMA SettledCases ==
    ASSUME DeliveryInv, NEW d \in Carriers, NEW m \in Letters, PrepareSettled(d, m)
    PROVE  \E n \in Notes : Renotes(m, n) \/ Completes(m, n)
<1>1. CASE Completion(m, note[m]) /\ Confirmed(note[m])
  <2>1. \E n \in Notes : Fulfilment(m, n)
    BY <1>1, CompletionFulfils DEF PrepareSettled, historyVars
  <2>2. QED
    BY <1>1, <2>1 DEF PrepareSettled, Completes, historyVars
<1>2. CASE UNCHANGED factVars /\ SetNote(m, Blocked(note[m], "route"))
  <2>1. \E n \in Notes : Renewal(m, n)
    BY <1>2, BlockedRenews DEF PrepareSettled, historyVars
  <2>2. QED
    BY <1>2, <2>1 DEF PrepareSettled, Renotes, historyVars
<1>3. QED
  BY <1>1, <1>2 DEF PrepareSettled

\* What waits was replanned at most.
LEMMA WaitsCases ==
    ASSUME DeliveryInv, NEW d \in Carriers, NEW m \in Letters, PrepareWaits(d, m)
    PROVE  \E n \in Notes : Renotes(m, n)
<1>1. Kept(m) \in Notes /\ Renewal(m, Kept(m))
  BY BaseNote DEF PrepareWaits, Renewal, historyVars
<1>2. QED
  BY <1>1 DEF PrepareWaits, Renotes, historyVars

\* What nobody awaits is forgotten.
LEMMA GoneCases ==
    ASSUME DeliveryInv, NEW d \in Carriers, NEW m \in Letters, PrepareGone(d, m)
    PROVE  Forgets(m)
BY NotesAndCarriers DEF PrepareGone, UnlinkIntent, Forgets, Unattempted, Untried

\* What the threshold keeps back is blocked.
LEMMA RefusedCases ==
    ASSUME DeliveryInv, NEW d \in Carriers, NEW m \in Letters, PrepareRefused(d, m)
    PROVE  \E n \in Notes : Renotes(m, n)
<1> DEFINE new == Blocked(Base(m), "importance")
<1>1. new \in Notes /\ ~Confirmed(new) /\ (Untried(new) => Unattempted(m))
  BY BaseNote, BlockedNote DEF Untried
<1>2. Renotes(m, new)
  BY <1>1 DEF PrepareRefused, Renotes, Renewal, historyVars
<1>3. QED
  BY <1>1, <1>2

\* A known failure, a lapsed time, a doubt: fields no part looks at, or the flag.
LEMMA WaitSet ==
    ASSUME NEW n \in Notes, NEW wait \in {"no", "lease", "backoff"}
    PROVE  /\ [n EXCEPT !.waits = wait] \in Notes
           /\ Confirmed([n EXCEPT !.waits = wait]) => Confirmed(n)
           /\ Untried([n EXCEPT !.waits = wait]) => Untried(n)
<1> DEFINE new == [n EXCEPT !.waits = wait]
<1>1. /\ new \in Notes /\ new.phase = n.phase /\ new.tried = n.tried
      /\ new.flagged = n.flagged
  BY DEF Notes
<1>2. QED
  BY <1>1 DEF Confirmed, Untried

\* A time passes.
LEMMA WaitEndsCases ==
    ASSUME DeliveryInv, NEW m \in Letters, IntentWaitEnds(m)
    PROVE  \E n \in Notes : Renotes(m, n)
<1> DEFINE new == [note[m] EXCEPT !.waits = "no"]
<1>1. new \in Notes /\ (Confirmed(new) => Confirmed(note[m])) /\ (Untried(new) => Unattempted(m))
  BY NotesAndCarriers, WaitSet DEF Unattempted
<1>2. Renotes(m, new)
  BY <1>1 DEF IntentWaitEnds, Renotes, Renewal, historyVars
<1>3. QED
  BY <1>1, <1>2

\* The operator's three answers.
LEMMA ResolveCases ==
    ASSUME DeliveryInv, NEW m \in Letters,
           ResolveRetry(m) \/ ResolveConfirm(m) \/ ResolveAbandon(m)
    PROVE  \E n \in Notes : Renotes(m, n)
<1>1. note[m] \in Notes
  BY NotesAndCarriers
<1>2. CASE ResolveRetry(m)
  <2> DEFINE attempt == note[m].attempt
             new == [NewNote EXCEPT !.attempt = attempt, !.flagged = TRUE]
  <2>1. attempt \in Nat /\ NewNote \in Notes /\ ~Confirmed(NewNote)
    BY <1>1, NewNoteNote DEF Notes
  <2> HIDE DEF attempt
  <2>2. new \in Notes /\ new.flagged = TRUE /\ new.phase = NewNote.phase
    BY <2>1 DEF Notes
  <2>3. ~Untried(new) /\ ~Confirmed(new)
    BY <2>1, <2>2 DEF Untried, Confirmed
  <2>4. SetNote(m, new) /\ UNCHANGED <<factVars, ownerVars, carrier, wants, historyVars>>
    BY <1>2 DEF ResolveRetry, attempt
  <2>5. QED
    BY <2>2, <2>3, <2>4 DEF Renotes, Renewal, historyVars
<1>3. CASE ResolveConfirm(m)
  <2> DEFINE new == [note[m] EXCEPT !.phase = "confirmed"]
  <2>1. new \in Notes /\ new.tried = note[m].tried /\ new.flagged = note[m].flagged
    BY <1>1 DEF Notes
  <2>2. Untried(new) => Unattempted(m)
    BY <2>1 DEF Untried, Unattempted
  <2>3. /\ SetNote(m, new) /\ said' = said \cup {m}
        /\ UNCHANGED <<factVars, ownerVars, carrier, wants, attempts, reached, dropped>>
    BY <1>3 DEF ResolveConfirm
  <2>4. QED
    BY <2>1, <2>2, <2>3 DEF Renotes, Renewal
<1>4. CASE ResolveAbandon(m)
  <2>1. \E n \in Notes : Renewal(m, n)
    BY <1>4, BlockedRenews DEF ResolveAbandon, historyVars
  <2>2. QED
    BY <1>4, <2>1 DEF ResolveAbandon, Renotes, historyVars
<1>5. QED
  BY <1>2, <1>3, <1>4

\* A letter handed on without the flag is fresh.
LEMMA HandsCases ==
    ASSUME DeliveryInv, NEW d \in Carriers, NEW m \in Letters, PrepareHands(d, m)
    PROVE  \E n \in Notes, k \in Handings, c \in Carryings : HandsOn(d, m, n, k, c)
<1> DEFINE attempt == attempts[m] + 1
           flag == Flag(Base(m))
           new == [NewNote EXCEPT !.phase = "unknown", !.attempt = attempt,
                                  !.tried = TRUE, !.flagged = flag, !.waits = "lease"]
           k == Handover(m, new)
<1>1. /\ attempt \in Nat /\ flag \in BOOLEAN /\ NewNote \in Notes
      /\ ~flag => Unattempted(m)
  BY NotesAndCarriers, NewNoteNote, BaseNote DEF Flag, Notes, Untried
<1> HIDE DEF attempt, flag
<1>2. /\ new \in Notes /\ new.phase = "unknown" /\ new.tried = TRUE /\ new.flagged = flag
  BY <1>1 DEF Notes
<1>3. new = Attempted(m)
  BY DEF Attempted, attempt, flag
<1> HIDE DEF new
<1>4. k \in Handings /\ k.letter = m /\ k.flagged = flag
  BY <1>2 DEF Handover, Handings, Notes
<1>5. /\ carrier[d].at = "idle" \/ (Hook(d) /\ carrier[d].at = "handing")
      /\ m \notin delivered /\ mailbox[m] = "unread" /\ SetNote(m, new)
      /\ attempts' = [attempts EXCEPT ![m] = @ + 1]
      /\ carrier' = [carrier EXCEPT ![d].at = "handing", ![d].held = @ \cup {k}]
      /\ UNCHANGED <<factVars, ownerVars, wants, reached, dropped, said>>
  BY <1>3 DEF PrepareHands, Prepares, Awaits, Unconsumed
<1> HIDE DEF k
<1> DEFINE held == carrier[d].held \cup {k}
           c == [carrier[d] EXCEPT !.at = "handing", !.held = held]
<1>6. SetCarrier(d, c)
  BY <1>5, NotesAndCarriers DEF SetCarrier
<1>7. held \in SUBSET Handings
  BY <1>4, NotesAndCarriers DEF Carryings
<1> HIDE DEF held
<1>8. c \in Carryings /\ c.at = "handing" /\ c.held = held
  BY <1>7, NotesAndCarriers DEF Carryings
<1>9. HandsOn(d, m, new, k, c)
  BY <1>1, <1>2, <1>4, <1>5, <1>6, <1>8 DEF HandsOn, Confirmed, held
<1>10. QED
  BY <1>2, <1>4, <1>8, <1>9

\* The tallies follow what a finite set of handings is.
LEMMA ReachReaches ==
    ASSUME DeliveryInv, NEW H \in SUBSET Handings, IsFiniteSet(H), Reach(H)
    PROVE  Reaches(H)
<1> DEFINE mine(m) == {h \in H : h.letter = m}
           bare(m) == {h \in mine(m) : ~h.flagged}
<1>1. ASSUME NEW m \in Letters
      PROVE  /\ IsFiniteSet(mine(m)) /\ Cardinality(mine(m)) \in Nat
             /\ IsFiniteSet(bare(m)) /\ Cardinality(bare(m)) \in Nat
  BY FS_Subset, FS_CardinalityType
<1>2. ASSUME NEW m \in Letters
      PROVE  reached[m] \in Tallies /\ reached[m].times \in Nat
             /\ reached[m].unflagged \in Nat
  BY NotesAndCarriers DEF Tallies
<1>3. ASSUME NEW m \in Letters
      PROVE  /\ reached'[m] \in Tallies
             /\ reached'[m].times = reached[m].times + Cardinality(mine(m))
             /\ reached'[m].unflagged = reached[m].unflagged + Cardinality(bare(m))
  <2> DEFINE times == reached[m].times + Cardinality(mine(m))
             unflagged == reached[m].unflagged + Cardinality(bare(m))
  <2> HIDE DEF mine, bare
  <2>1. times \in Nat /\ unflagged \in Nat
    BY <1>1, <1>2
  <2> USE DEF mine, bare
  <2>2. reached'[m] = [times |-> times, unflagged |-> unflagged]
    BY DEF Reach
  <2> HIDE DEF times, unflagged
  <2>3. /\ reached'[m] \in Tallies /\ reached'[m].times = times
        /\ reached'[m].unflagged = unflagged
    BY <2>1, <2>2 DEF Tallies
  <2>4. QED
    BY <2>3 DEF times, unflagged
<1>4. reached' \in [Letters -> Tallies]
  <2>1. \A m \in Letters : reached'[m] \in Tallies
    BY <1>3
  <2>2. reached' = [m \in Letters |-> reached'[m]]
    BY DEF Reach
  <2>3. QED
    BY <2>1, <2>2
<1>5. ASSUME NEW m \in Letters  PROVE reached'[m].times >= reached[m].times
  <2> HIDE DEF mine, bare
  <2>1. QED
    BY <1>1, <1>2, <1>3
<1>6. ASSUME NEW h \in H  PROVE reached'[h.letter].times > 0
  <2>1. h.letter \in Letters /\ mine(h.letter) # {}
    BY DEF Handings
  <2>2. Cardinality(mine(h.letter)) # 0
    BY <1>1, <2>1, FS_EmptySet
  <2> HIDE DEF mine, bare
  <2>3. QED
    BY <1>1, <1>2, <1>3, <2>1, <2>2
<1>7. ASSUME NEW m \in Letters, \A h \in H : h.letter = m => h.flagged
      PROVE  reached'[m].unflagged = reached[m].unflagged
  <2>1. bare(m) = {}
    BY <1>7
  <2>2. Cardinality(bare(m)) = 0
    BY <2>1, FS_EmptySet
  <2> HIDE DEF mine, bare
  <2>3. QED
    BY <1>2, <1>3, <2>2
<1>8. ASSUME NEW m \in Letters, NEW h \in H,
             \A k \in H : ~k.flagged /\ k.letter = m => k = h
      PROVE  reached'[m].unflagged <= reached[m].unflagged + 1
  <2>1. bare(m) = {} \/ bare(m) = {h}
    BY <1>8
  <2>2. Cardinality(bare(m)) = 0 \/ Cardinality(bare(m)) = 1
    BY <2>1, FS_EmptySet, FS_Singleton
  <2> HIDE DEF mine, bare
  <2>3. QED
    BY <1>2, <1>3, <2>2
<1>9. QED
  BY <1>4, <1>5, <1>6, <1>7, <1>8 DEF Reaches

\* The carrier turns to its report.
LEMMA ConcludeTurns ==
    ASSUME DeliveryInv, NEW d \in Carriers, NEW outcome \in HandingOutcomes, Conclude(d,
           outcome)
    PROVE  \E c \in Carryings : Turned(d, c) /\ c.outcome = outcome
<1> DEFINE c == [carrier[d] EXCEPT !.at = "reporting", !.outcome = outcome]
<1>1. /\ c \in Carryings /\ c.at = "reporting" /\ c.held = carrier[d].held
      /\ c.outcome = outcome
  BY NotesAndCarriers DEF Carryings
<1>2. SetCarrier(d, c)
  BY NotesAndCarriers DEF Conclude, SetCarrier
<1>3. QED
  BY <1>1, <1>2 DEF Turned

\* The hook prints all it holds.
LEMMA HandOverCases ==
    ASSUME DeliveryInv, NEW d \in Carriers, HandOverPrinted(d)
    PROVE  \E c \in Carryings : GetsThere(d, c)
<1>1. carrier[d].held \in SUBSET Handings /\ IsFiniteSet(carrier[d].held)
  BY NotesAndCarriers DEF Carryings, DeliveryInv, HeldOK
<1>2. \E c \in Carryings : Turned(d, c)
  BY ConcludeTurns DEF HandOverPrinted, HandingOutcomes
<1>3. QED
  BY <1>1, <1>2, ReachReaches DEF HandOverPrinted, GetsThere

\* The watcher hands over the one letter it holds, or does not.
LEMMA HandCases ==
    ASSUME DeliveryInv, NEW d \in Carriers, NEW h \in carrier[d].held,
           HandOverTaken(d, h) \/ HandOverFailed(d, h) \/ HandOverRefused(d, h)
    PROVE  \/ \E c \in Carryings : GetsThere(d, c) \/ GetsNowhere(d, c)
           \/ LaysDown(d)
<1>1. carrier[d].held \in SUBSET Handings /\ IsFiniteSet(carrier[d].held)
  BY NotesAndCarriers DEF Carryings, DeliveryInv, HeldOK
<1>2. CASE HandOverTaken(d, h)
  <2>1. carrier[d].held = {h}
    BY <1>2 DEF HandOverTaken, DeliveryInv, HeldOK
  <2>2. Reaches(carrier[d].held)
    BY <1>1, <1>2, <2>1, ReachReaches DEF HandOverTaken
  <2>3. \E c \in Carryings : Turned(d, c)
    BY <1>2, ConcludeTurns DEF HandOverTaken, HandingOutcomes
  <2>4. QED
    BY <1>2, <2>2, <2>3 DEF HandOverTaken, GetsThere
<1>3. CASE HandOverFailed(d, h)
  <2>1. Conclude(d, "known") \/ Conclude(d, "unknown")
    BY <1>3 DEF HandOverFailed
  <2>2. \E c \in Carryings : Turned(d, c) /\ c.outcome # "confirmed"
    BY <2>1, ConcludeTurns DEF HandingOutcomes
  <2>3. QED
    BY <1>3, <2>2 DEF HandOverFailed, GetsNowhere
<1>4. CASE HandOverRefused(d, h)
  BY <1>4 DEF HandOverRefused, LaysDown, SetCarrier
<1>5. QED
  BY <1>2, <1>3, <1>4

\* A report is taken, refused, or completes the delivery.
LEMMA ReportedCases ==
    ASSUME DeliveryInv, NEW d \in Carriers, NEW h \in carrier[d].held, Report(d, h)
    PROVE  \E c \in Carryings, n \in Notes : Replies(d, h, c, n) \/ Confirms(d, h, c, n)
<1> DEFINE m == h.letter
           left == carrier[d].held \ {h}
           less == [carrier[d] EXCEPT !.held = left]
           c == IF left = {} THEN AtRest ELSE less
<1>1. /\ carrier[d] \in Carryings /\ carrier[d].held \in SUBSET Handings
      /\ m \in Letters /\ note[m] \in Notes /\ left \in SUBSET Handings
  BY NotesAndCarriers DEF Carryings, Handings
<1>2. GoesOn(d, h, c) /\ c \in Carryings
  <2>1. carrier[d].at = "reporting" /\ SetCarrier(d, c)
    BY DEF Report, SetCarrier
  <2>2. /\ AtRest \in Carryings /\ AtRest.at = "idle" /\ AtRest.held = {}
    BY DEF AtRest, Carryings, HandingOutcomes
  <2> HIDE DEF left
  <2>3. /\ less \in Carryings /\ less.at = carrier[d].at /\ less.held = left
        /\ less.outcome = carrier[d].outcome
    BY <1>1 DEF Carryings
  <2>4. QED
    BY <2>1, <2>2, <2>3 DEF GoesOn, left
<1> HIDE DEF c
<1>3. UNCHANGED <<ownerVars, wants, attempts, reached, dropped, said>>
  BY DEF Report, historyVars
<1>4. CASE UNCHANGED <<factVars, note>>
  <2>1. Renewal(m, note[m])
    BY <1>1, <1>3, <1>4, NotesAndCarriers DEF Renewal, SetNote, Unattempted
  <2>2. QED
    BY <1>1, <1>2, <1>3, <2>1 DEF Replies
<1>5. CASE carrier[d].outcome = "confirmed" /\ Completion(m, note[m])
  <2>1. PICK n \in Notes : Fulfilment(m, n)
    BY <1>1, <1>3, <1>5, CompletionFulfils
  <2>2. QED
    BY <1>2, <1>3, <1>5, <2>1 DEF Confirms
<1>6. CASE UNCHANGED factVars /\ SetNote(m, [note[m] EXCEPT !.flagged = TRUE])
  <2> DEFINE n == [note[m] EXCEPT !.flagged = TRUE]
  <2>1. n \in Notes /\ n.flagged = TRUE /\ n.phase = note[m].phase
    BY <1>1 DEF Notes
  <2>2. Renewal(m, n)
    BY <1>3, <1>6, <2>1 DEF Renewal, Confirmed, Untried
  <2>3. QED
    BY <1>2, <1>3, <2>1, <2>2 DEF Replies
<1>7. CASE /\ UNCHANGED factVars
           /\ SetNote(m, [note[m] EXCEPT !.waits = IF @ = "lease" THEN "backoff" ELSE @])
  <2> DEFINE wait == IF note[m].waits = "lease" THEN "backoff" ELSE note[m].waits
             n == [note[m] EXCEPT !.waits = wait]
  <2>1. wait \in {"no", "lease", "backoff"}
    BY <1>1 DEF Notes
  <2>2. n \in Notes /\ (Confirmed(n) => Confirmed(note[m])) /\ (Untried(n) => Unattempted(m))
    BY <1>1, <2>1, WaitSet DEF Unattempted
  <2>3. Renewal(m, n)
    BY <1>3, <1>7, <2>2 DEF Renewal
  <2>4. QED
    BY <1>2, <1>3, <2>2, <2>3 DEF Replies
<1>8. QED
  BY <1>4, <1>5, <1>6, <1>7 DEF Report

\* A carrier that dies holds nothing.
LEMMA CarrierDiesCases ==
    ASSUME DeliveryInv, NEW d \in Carriers, CarrierDies(d)  PROVE LaysDown(d)
BY DEF CarrierDies, LaysDown, SetCarrier

-----------------------------------------------------------------------------
\* A new message has no file and a dirty pair.
LEMMA PublishKeeps ==
    ASSUME DeliveryInv, NEW m \in Letters, Publish(m)
    PROVE  DeliveryInv'
<1>1. /\ NotesOK' /\ CarriersOK' /\ CountsOK' /\ OwnersOK' /\ HeldOK'
      /\ ReportsReached' /\ NotesReached' /\ ConsumedMeansHanded'
      /\ OneUnflagged' /\ RepeatIsFlagged'
  BY DEF DeliveryInv, NotesOK, CarriersOK, CountsOK, OwnersOK, HeldOK,
     ReportsReached, NotesReached, ConsumedMeansHanded, OneUnflagged,
     RepeatIsFlagged, Publish, ownerVars, historyVars, NoneUnflagged, Unflagged
<1>2. FactsOK'
  BY DEF DeliveryInv, FactsOK, Publish, Dirty
<1>3. SignalTellsTruth'
  BY DEF DeliveryInv, SignalTellsTruth, Publish, Dirty, Awaits, Unconsumed
<1>4. FreshUntouched'
  BY DEF DeliveryInv, FreshUntouched, Publish, historyVars, Unattempted,
     NoneUnflagged, Unflagged
<1>5. QED  BY <1>1, <1>2, <1>3, <1>4 DEF DeliveryInv

\* A message that is read has a dirty pair.
LEMMA MarkReadKeeps ==
    ASSUME DeliveryInv, NEW m \in Letters, MarkRead(m)
    PROVE  DeliveryInv'
<1>1. /\ NotesOK' /\ CarriersOK' /\ CountsOK' /\ OwnersOK' /\ HeldOK'
      /\ ReportsReached' /\ NotesReached' /\ ConsumedMeansHanded'
      /\ OneUnflagged' /\ RepeatIsFlagged'
  BY DEF DeliveryInv, NotesOK, CarriersOK, CountsOK, OwnersOK, HeldOK,
     ReportsReached, NotesReached, ConsumedMeansHanded, OneUnflagged,
     RepeatIsFlagged, MarkRead, ownerVars, historyVars, NoneUnflagged,
     Unflagged
<1>2. FactsOK'
  BY DEF DeliveryInv, FactsOK, MarkRead, Dirty
<1>3. SignalTellsTruth'
  BY DEF DeliveryInv, SignalTellsTruth, MarkRead, Dirty, Awaits, Unconsumed
<1>4. FreshUntouched'
  BY DEF DeliveryInv, FreshUntouched, MarkRead, historyVars, Unattempted,
     NoneUnflagged, Unflagged
<1>5. QED  BY <1>1, <1>2, <1>3, <1>4 DEF DeliveryInv

\* A purged message has a dirty pair.
LEMMA PurgeMessageKeeps ==
    ASSUME DeliveryInv, NEW m \in Letters, PurgeMessage(m)
    PROVE  DeliveryInv'
<1>1. /\ NotesOK' /\ CarriersOK' /\ CountsOK' /\ OwnersOK' /\ HeldOK'
      /\ ReportsReached' /\ NotesReached' /\ ConsumedMeansHanded'
      /\ OneUnflagged' /\ RepeatIsFlagged'
  BY DEF DeliveryInv, NotesOK, CarriersOK, CountsOK, OwnersOK, HeldOK,
     ReportsReached, NotesReached, ConsumedMeansHanded, OneUnflagged,
     RepeatIsFlagged, PurgeMessage, ownerVars, historyVars, NoneUnflagged,
     Unflagged
<1>2. FactsOK'
  BY DEF DeliveryInv, FactsOK, PurgeMessage, Dirty
<1>3. SignalTellsTruth'
  BY DEF DeliveryInv, SignalTellsTruth, PurgeMessage, Dirty, Awaits,
     Unconsumed
<1>4. FreshUntouched'
  BY DEF DeliveryInv, FreshUntouched, PurgeMessage, historyVars, Unattempted,
     NoneUnflagged, Unflagged
<1>5. QED  BY <1>1, <1>2, <1>3, <1>4 DEF DeliveryInv

\* A pair is clean only with the file as it is to be.
LEMMA ReconcileSignalKeeps ==
    ASSUME DeliveryInv, NEW m \in Letters, ReconcileSignal(m)
    PROVE  DeliveryInv'
<1>1. /\ NotesOK' /\ CarriersOK' /\ CountsOK' /\ OwnersOK' /\ HeldOK'
      /\ ReportsReached' /\ NotesReached' /\ ConsumedMeansHanded'
      /\ FreshUntouched' /\ OneUnflagged' /\ RepeatIsFlagged'
  BY DEF DeliveryInv, NotesOK, CarriersOK, CountsOK, OwnersOK, HeldOK,
     ReportsReached, NotesReached, ConsumedMeansHanded, FreshUntouched,
     OneUnflagged, RepeatIsFlagged, ReconcileSignal, ownerVars, historyVars,
     Unattempted, NoneUnflagged, Unflagged
<1>2. FactsOK'
  BY DEF DeliveryInv, FactsOK, ReconcileSignal, Materialized
<1>3. SignalTellsTruth'
  BY DEF DeliveryInv, FactsOK, SignalTellsTruth, ReconcileSignal,
     Materialized, Awaits, Unconsumed
<1>4. QED  BY <1>1, <1>2, <1>3 DEF DeliveryInv

\* A blocked pair is dirty again.
LEMMA ReconcileOutputsKeeps ==
    ASSUME DeliveryInv, NEW m \in Letters, ReconcileOutputs(m)
    PROVE  DeliveryInv'
<1>1. /\ NotesOK' /\ CarriersOK' /\ CountsOK' /\ OwnersOK' /\ HeldOK'
      /\ ReportsReached' /\ NotesReached' /\ ConsumedMeansHanded'
      /\ FreshUntouched' /\ OneUnflagged' /\ RepeatIsFlagged'
  BY DEF DeliveryInv, NotesOK, CarriersOK, CountsOK, OwnersOK, HeldOK,
     ReportsReached, NotesReached, ConsumedMeansHanded, FreshUntouched,
     OneUnflagged, RepeatIsFlagged, ReconcileOutputs, ownerVars, historyVars,
     Unattempted, NoneUnflagged, Unflagged
<1>2. FactsOK'
  BY DEF DeliveryInv, FactsOK, ReconcileOutputs, Dirty
<1>3. SignalTellsTruth'
  BY DEF DeliveryInv, SignalTellsTruth, ReconcileOutputs, Dirty, Awaits,
     Unconsumed
<1>4. QED  BY <1>1, <1>2, <1>3 DEF DeliveryInv

\* What a note knew of attempts is lost with it, which dropped records.
LEMMA ForgetsKeeps ==
    ASSUME DeliveryInv, NEW m \in Letters, Forgets(m)
    PROVE  DeliveryInv'
<1>1. /\ FactsOK' /\ CarriersOK' /\ CountsOK' /\ OwnersOK' /\ HeldOK'
      /\ SignalTellsTruth' /\ ReportsReached' /\ ConsumedMeansHanded'
  BY DEF DeliveryInv, FactsOK, CarriersOK, CountsOK, OwnersOK, HeldOK,
     SignalTellsTruth, ReportsReached, ConsumedMeansHanded, Forgets, factVars,
     ownerVars, Awaits, Unconsumed
<1>2. NotesOK'
  BY DEF DeliveryInv, NotesOK, Forgets, SetNote, NoIntent, Notes
<1>3. NotesReached'
  BY DEF DeliveryInv, NotesReached, Forgets, SetNote, NoIntent, Confirmed
<1>4. FreshUntouched'
  BY DEF DeliveryInv, FreshUntouched, Forgets, SetNote, Unattempted, factVars,
     NoneUnflagged, Unflagged
<1>5. OneUnflagged'
  BY DEF DeliveryInv, OneUnflagged, Forgets, NoneUnflagged, Unflagged
<1>6. RepeatIsFlagged'
  BY DEF DeliveryInv, RepeatIsFlagged, Forgets
<1>7. QED  BY <1>1, <1>2, <1>3, <1>4, <1>5, <1>6 DEF DeliveryInv

\* Every message that would be notified has a dirty pair.
LEMMA ChangeRetirementKeeps ==
    ASSUME DeliveryInv, ChangeRetirement
    PROVE  DeliveryInv'
<1>1. /\ NotesOK' /\ CarriersOK' /\ CountsOK' /\ OwnersOK' /\ HeldOK'
      /\ ReportsReached' /\ NotesReached' /\ ConsumedMeansHanded'
      /\ FreshUntouched' /\ OneUnflagged' /\ RepeatIsFlagged'
  BY DEF DeliveryInv, NotesOK, CarriersOK, CountsOK, OwnersOK, HeldOK,
     ReportsReached, NotesReached, ConsumedMeansHanded, FreshUntouched,
     OneUnflagged, RepeatIsFlagged, ChangeRetirement, ownerVars, historyVars,
     Unattempted, NoneUnflagged, Unflagged
<1>2. FactsOK'
  BY DEF DeliveryInv, FactsOK, ChangeRetirement, Dirty
<1>3. SignalTellsTruth'
  BY DEF DeliveryInv, SignalTellsTruth, ChangeRetirement, Dirty, Unconsumed,
     Awaits
<1>4. QED  BY <1>1, <1>2, <1>3 DEF DeliveryInv

\* A phase is none of the invariant's.
LEMMA BeginSessionKeeps ==
    ASSUME DeliveryInv, BeginSession
    PROVE  DeliveryInv'
<1>1. /\ FactsOK' /\ CountsOK' /\ HeldOK' /\ SignalTellsTruth'
      /\ ReportsReached' /\ NotesReached' /\ ConsumedMeansHanded'
      /\ FreshUntouched' /\ OneUnflagged' /\ RepeatIsFlagged'
  BY DEF DeliveryInv, FactsOK, CountsOK, HeldOK, SignalTellsTruth,
     ReportsReached, NotesReached, ConsumedMeansHanded, FreshUntouched,
     OneUnflagged, RepeatIsFlagged, BeginSession, factVars, historyVars,
     Awaits, Unconsumed, Unattempted, NoneUnflagged, Unflagged
<1>2. NotesOK'
  BY DEF DeliveryInv, NotesOK, BeginSession
<1>3. CarriersOK'
  BY DEF DeliveryInv, CarriersOK, BeginSession
<1>4. OwnersOK'
  BY DEF DeliveryInv, OwnersOK, BeginSession
<1>5. QED  BY <1>1, <1>2, <1>3, <1>4 DEF DeliveryInv

\* A phase is none of the invariant's.
LEMMA LaunchEndsKeeps ==
    ASSUME DeliveryInv, LaunchEnds
    PROVE  DeliveryInv'
<1>1. /\ FactsOK' /\ CountsOK' /\ HeldOK' /\ SignalTellsTruth'
      /\ ReportsReached' /\ NotesReached' /\ ConsumedMeansHanded'
      /\ FreshUntouched' /\ OneUnflagged' /\ RepeatIsFlagged'
  BY DEF DeliveryInv, FactsOK, CountsOK, HeldOK, SignalTellsTruth,
     ReportsReached, NotesReached, ConsumedMeansHanded, FreshUntouched,
     OneUnflagged, RepeatIsFlagged, LaunchEnds, factVars, historyVars, Awaits,
     Unconsumed, Unattempted, NoneUnflagged, Unflagged
<1>2. NotesOK'
  BY DEF DeliveryInv, NotesOK, LaunchEnds
<1>3. CarriersOK'
  BY DEF DeliveryInv, CarriersOK, LaunchEnds
<1>4. OwnersOK'
  BY DEF DeliveryInv, OwnersOK, LaunchEnds
<1>5. QED  BY <1>1, <1>2, <1>3, <1>4 DEF DeliveryInv

\* The notes keep the launch they are for.
LEMMA LaunchAgainKeeps ==
    ASSUME DeliveryInv, LaunchAgain
    PROVE  DeliveryInv'
<1>1. /\ FactsOK' /\ CountsOK' /\ HeldOK' /\ SignalTellsTruth'
      /\ ReportsReached' /\ NotesReached' /\ ConsumedMeansHanded'
      /\ FreshUntouched' /\ OneUnflagged' /\ RepeatIsFlagged'
  BY DEF DeliveryInv, FactsOK, CountsOK, HeldOK, SignalTellsTruth,
     ReportsReached, NotesReached, ConsumedMeansHanded, FreshUntouched,
     OneUnflagged, RepeatIsFlagged, LaunchAgain, factVars, historyVars, Awaits,
     Unconsumed, Unattempted, NoneUnflagged, Unflagged
<1>2. NotesOK'
  BY DEF DeliveryInv, NotesOK, LaunchAgain
<1>3. CarriersOK'
  BY DEF DeliveryInv, CarriersOK, LaunchAgain
<1>4. OwnersOK'
  BY DEF DeliveryInv, OwnersOK, LaunchAgain
<1>5. QED  BY <1>1, <1>2, <1>3, <1>4 DEF DeliveryInv

\* The notes keep the credential they are for.
LEMMA RotateCredentialKeeps ==
    ASSUME DeliveryInv, RotateCredential
    PROVE  DeliveryInv'
<1>1. /\ FactsOK' /\ CarriersOK' /\ CountsOK' /\ HeldOK'
      /\ SignalTellsTruth' /\ ReportsReached' /\ NotesReached'
      /\ ConsumedMeansHanded' /\ FreshUntouched' /\ OneUnflagged'
      /\ RepeatIsFlagged'
  BY DEF DeliveryInv, FactsOK, CarriersOK, CountsOK, HeldOK,
     SignalTellsTruth, ReportsReached, NotesReached, ConsumedMeansHanded,
     FreshUntouched, OneUnflagged, RepeatIsFlagged, RotateCredential, factVars,
     historyVars, Awaits, Unconsumed, Unattempted, NoneUnflagged, Unflagged
<1>2. NotesOK'
  BY DEF DeliveryInv, NotesOK, RotateCredential
<1>3. OwnersOK'
  BY DEF DeliveryInv, OwnersOK, RotateCredential
<1>4. QED  BY <1>1, <1>2, <1>3 DEF DeliveryInv

\* A note written anew is confirmed only if it was, or by the operator.
LEMMA RenotesKeeps ==
    ASSUME DeliveryInv, NEW m \in Letters, NEW n \in Notes, Renotes(m, n)
    PROVE  DeliveryInv'
<1>1. CarriersOK' /\ CountsOK' /\ OwnersOK' /\ HeldOK' /\ ReportsReached'
  BY DEF DeliveryInv, CarriersOK, CountsOK, OwnersOK, HeldOK,
     ReportsReached, Renotes, ownerVars
<1>2. FactsOK'
  BY DEF DeliveryInv, FactsOK, Renotes, Renewal, factVars
<1>3. NotesOK'
  BY DEF DeliveryInv, NotesOK, Renotes, Renewal, SetNote
<1>4. SignalTellsTruth'
  BY DEF DeliveryInv, SignalTellsTruth, Renotes, Renewal, factVars, Awaits,
     Unconsumed
<1>5. NotesReached'
  BY DEF DeliveryInv, NotesReached, Renotes, Renewal, SetNote
<1>6. ConsumedMeansHanded'
  BY DEF DeliveryInv, ConsumedMeansHanded, Renotes, Renewal, factVars
<1>7. FreshUntouched'
  BY DEF DeliveryInv, FreshUntouched, Renotes, Renewal, SetNote, Unattempted,
     factVars, NoneUnflagged, Unflagged
<1>8. OneUnflagged'
  BY DEF DeliveryInv, OneUnflagged, Renotes, Renewal, NoneUnflagged,
     Unflagged
<1>9. RepeatIsFlagged'
  BY DEF DeliveryInv, RepeatIsFlagged, Renotes, Renewal
<1>10. QED  BY <1>1, <1>2, <1>3, <1>4, <1>5, <1>6, <1>7,
     <1>8, <1>9 DEF DeliveryInv

\* A fact is recorded of what was handed over.
LEMMA CompletesKeeps ==
    ASSUME DeliveryInv, NEW m \in Letters, NEW n \in Notes, Completes(m, n)
    PROVE  DeliveryInv'
<1>1. CarriersOK' /\ CountsOK' /\ OwnersOK' /\ HeldOK' /\ ReportsReached'
  BY DEF DeliveryInv, CarriersOK, CountsOK, OwnersOK, HeldOK,
     ReportsReached, Completes, ownerVars
<1>2. FactsOK'
  BY DEF DeliveryInv, FactsOK, Completes, Fulfilment, RecordFact, Dirty
<1>3. NotesOK'
  BY DEF DeliveryInv, NotesOK, Completes, Fulfilment, SetNote
<1>4. SignalTellsTruth'
  BY DEF DeliveryInv, SignalTellsTruth, Completes, Fulfilment, RecordFact,
     Dirty, Awaits, Unconsumed
<1>5. NotesReached'
  BY DEF DeliveryInv, NotesReached, Completes, Fulfilment, SetNote
<1>6. ConsumedMeansHanded'
  BY DEF DeliveryInv, NotesReached, ConsumedMeansHanded, Completes,
     Fulfilment, RecordFact
<1>7. FreshUntouched'
  BY DEF DeliveryInv, FreshUntouched, Completes, Fulfilment, SetNote,
     RecordFact, Unattempted, Untried, NoneUnflagged, Unflagged
<1>8. OneUnflagged'
  BY DEF DeliveryInv, OneUnflagged, Completes, Fulfilment, NoneUnflagged,
     Unflagged
<1>9. RepeatIsFlagged'
  BY DEF DeliveryInv, RepeatIsFlagged, Completes, Fulfilment
<1>10. QED  BY <1>1, <1>2, <1>3, <1>4, <1>5, <1>6, <1>7,
     <1>8, <1>9 DEF DeliveryInv

\* Without the flag only a letter that was never handed on.
LEMMA HandsOnKeeps ==
    ASSUME DeliveryInv, NEW d \in Carriers, NEW m \in Letters, NEW n \in Notes,
           NEW k \in Handings, NEW c \in Carryings, HandsOn(d, m, n, k, c)
    PROVE  DeliveryInv'
<1>1. /\ FactsOK' /\ OwnersOK' /\ SignalTellsTruth'
      /\ ConsumedMeansHanded' /\ RepeatIsFlagged'
  BY DEF DeliveryInv, FactsOK, OwnersOK, SignalTellsTruth,
     ConsumedMeansHanded, RepeatIsFlagged, HandsOn, factVars, ownerVars,
     Awaits, Unconsumed
<1>2. NotesOK'
  BY DEF DeliveryInv, NotesOK, HandsOn, SetNote
<1>3. CarriersOK'
  BY DEF DeliveryInv, CarriersOK, HandsOn, SetCarrier
<1>4. CountsOK'
  BY DEF DeliveryInv, CountsOK, HandsOn
<1>5. HeldOK'
  BY GlobalDeliveryAssumption, FS_Singleton, FS_AddElement, FS_Subset
     DEF DeliveryInv, HeldOK, HandsOn, Unattempted, Untried, SetCarrier
<1>6. ReportsReached'
  BY DEF DeliveryInv, ReportsReached, HandsOn, SetCarrier
<1>7. NotesReached'
  BY DEF DeliveryInv, NotesReached, HandsOn, SetNote
<1>8. FreshUntouched'
  BY DEF DeliveryInv, NotesOK, HeldOK, FreshUntouched, HandsOn, SetNote,
     Unattempted, Untried, SetCarrier, factVars, NoneUnflagged, Unflagged
<1>9. OneUnflagged'
  BY DEF DeliveryInv, HeldOK, FreshUntouched, OneUnflagged, HandsOn,
     SetCarrier, NoneUnflagged, Unflagged
<1>10. QED  BY <1>1, <1>2, <1>3, <1>4, <1>5, <1>6, <1>7,
     <1>8, <1>9 DEF DeliveryInv

\* At most one handing without the flag is among them.
LEMMA GetsThereKeeps ==
    ASSUME DeliveryInv, NEW d \in Carriers, NEW c \in Carryings, GetsThere(d, c)
    PROVE  DeliveryInv'
<1>1. FactsOK' /\ NotesOK' /\ OwnersOK' /\ SignalTellsTruth'
  BY DEF DeliveryInv, FactsOK, NotesOK, OwnersOK, SignalTellsTruth,
     GetsThere, factVars, ownerVars, Awaits, Unconsumed
<1>2. CarriersOK'
  BY DEF DeliveryInv, CarriersOK, GetsThere, Turned, SetCarrier
<1>3. CountsOK'
  BY DEF DeliveryInv, CountsOK, GetsThere, Reaches
<1>4. HeldOK'
  BY DEF DeliveryInv, HeldOK, GetsThere, Turned, SetCarrier
<1>5. ReportsReached'
  BY DEF DeliveryInv, CarriersOK, CountsOK, ReportsReached, GetsThere,
     Reaches, Tallies, Turned, SetCarrier, Carryings, Handings
<1>6. NotesReached'
  BY DEF DeliveryInv, CountsOK, NotesReached, GetsThere, Reaches, Tallies
<1>7. ConsumedMeansHanded'
  BY DEF DeliveryInv, FactsOK, CountsOK, ConsumedMeansHanded, GetsThere,
     Reaches, Tallies, factVars
<1>8. FreshUntouched'
  BY DEF DeliveryInv, FreshUntouched, GetsThere, Reaches, Turned,
     SetCarrier, factVars, Unattempted, NoneUnflagged, Unflagged
<1>9. OneUnflagged'
  BY GlobalDeliveryAssumption DEF DeliveryInv, FactsOK, NotesOK, CarriersOK,
     CountsOK, ReportsReached, NotesReached, ConsumedMeansHanded,
     FreshUntouched, OneUnflagged, RepeatIsFlagged, GetsThere, Reaches, Turned,
     SetCarrier, factVars, ownerVars, NoneUnflagged, Unflagged, Unattempted, Untried
<1>10. RepeatIsFlagged'
  <2>1. ASSUME NEW m \in Letters \ dropped  PROVE reached'[m].unflagged <= 1
    <3> DEFINE H == carrier[d].held
    <3>1. /\ reached[m].unflagged \in Nat /\ reached[m].unflagged <= 1
          /\ reached' \in [Letters -> Tallies] /\ reached'[m].unflagged \in Nat
      BY DEF DeliveryInv, CountsOK, Tallies, RepeatIsFlagged, GetsThere, Reaches
    <3>2. CASE \A h \in H : h.letter = m => h.flagged
      <4>1. reached'[m].unflagged = reached[m].unflagged
        BY <3>2 DEF GetsThere, Reaches
      <4>2. QED  BY <3>1, <4>1
    <3>3. ASSUME NEW h \in H, h.letter = m, ~h.flagged
          PROVE  reached'[m].unflagged <= 1
      <4>1. Unflagged(d, h, m)
        BY <3>3 DEF GetsThere, Unflagged
      <4>2. reached[m].unflagged = 0
        BY <3>1, <4>1 DEF DeliveryInv, OneUnflagged, NoneUnflagged
      <4>3. \A k \in H : ~k.flagged /\ k.letter = m => k = h
        BY <4>1 DEF DeliveryInv, OneUnflagged, Unflagged
      <4>4. reached'[m].unflagged <= reached[m].unflagged + 1
        BY <4>3 DEF GetsThere, Reaches
      <4>5. QED  BY <3>1, <4>2, <4>4
    <3>4. QED  BY <3>2, <3>3
  <2>2. QED  BY <2>1 DEF RepeatIsFlagged, GetsThere
<1>11. QED  BY <1>1, <1>2, <1>3, <1>4, <1>5, <1>6, <1>7, <1>8,
     <1>9, <1>10 DEF DeliveryInv

\* What got nowhere is not reported as confirmed.
LEMMA GetsNowhereKeeps ==
    ASSUME DeliveryInv, NEW d \in Carriers, NEW c \in Carryings, GetsNowhere(d, c)
    PROVE  DeliveryInv'
<1>1. /\ FactsOK' /\ NotesOK' /\ CountsOK' /\ OwnersOK'
      /\ SignalTellsTruth' /\ NotesReached' /\ ConsumedMeansHanded'
      /\ RepeatIsFlagged'
  BY DEF DeliveryInv, FactsOK, NotesOK, CountsOK, OwnersOK,
     SignalTellsTruth, NotesReached, ConsumedMeansHanded, RepeatIsFlagged,
     GetsNowhere, factVars, ownerVars, historyVars, Awaits, Unconsumed
<1>2. CarriersOK'
  BY DEF DeliveryInv, CarriersOK, GetsNowhere, Turned, SetCarrier
<1>3. HeldOK'
  BY DEF DeliveryInv, HeldOK, GetsNowhere, Turned, SetCarrier
<1>4. ReportsReached'
  BY DEF DeliveryInv, ReportsReached, GetsNowhere, Turned, SetCarrier,
     historyVars
<1>5. FreshUntouched'
  BY DEF DeliveryInv, FreshUntouched, GetsNowhere, Turned, SetCarrier,
     factVars, historyVars, Unattempted, NoneUnflagged, Unflagged
<1>6. OneUnflagged'
  BY DEF DeliveryInv, OneUnflagged, GetsNowhere, Turned, SetCarrier,
     historyVars, NoneUnflagged, Unflagged
<1>7. QED  BY <1>1, <1>2, <1>3, <1>4, <1>5, <1>6 DEF DeliveryInv

\* A carrier at rest holds nothing.
LEMMA LaysDownKeeps ==
    ASSUME DeliveryInv, NEW d \in Carriers, LaysDown(d)
    PROVE  DeliveryInv'
<1>1. /\ FactsOK' /\ NotesOK' /\ CountsOK' /\ OwnersOK'
      /\ SignalTellsTruth' /\ NotesReached' /\ ConsumedMeansHanded'
      /\ RepeatIsFlagged'
  BY DEF DeliveryInv, FactsOK, NotesOK, CountsOK, OwnersOK,
     SignalTellsTruth, NotesReached, ConsumedMeansHanded, RepeatIsFlagged,
     LaysDown, factVars, ownerVars, historyVars, Awaits, Unconsumed
<1>2. CarriersOK'
  BY DEF DeliveryInv, CarriersOK, LaysDown, SetCarrier, AtRest, Carryings,
     HandingOutcomes
<1>3. HeldOK'
  BY FS_Subset DEF DeliveryInv, HeldOK, LaysDown, SetCarrier, AtRest
<1>4. ReportsReached'
  BY DEF DeliveryInv, ReportsReached, LaysDown, SetCarrier, AtRest,
     historyVars
<1>5. FreshUntouched'
  BY DEF DeliveryInv, FreshUntouched, LaysDown, SetCarrier, AtRest,
     factVars, historyVars, Unattempted, NoneUnflagged, Unflagged
<1>6. OneUnflagged'
  BY DEF DeliveryInv, OneUnflagged, LaysDown, SetCarrier, AtRest,
     historyVars, NoneUnflagged, Unflagged
<1>7. QED  BY <1>1, <1>2, <1>3, <1>4, <1>5, <1>6 DEF DeliveryInv

\* A report that confirms nothing.
LEMMA RepliesKeeps ==
    ASSUME DeliveryInv, NEW d \in Carriers, NEW h \in carrier[d].held, NEW c \in Carryings,
           NEW n \in Notes, Replies(d, h, c, n)
    PROVE  DeliveryInv'
<1>1. CountsOK' /\ OwnersOK'
  BY DEF DeliveryInv, CountsOK, OwnersOK, Replies, ownerVars
<1>2. FactsOK'
  BY DEF DeliveryInv, FactsOK, Replies, Renewal, factVars
<1>3. NotesOK'
  BY DEF DeliveryInv, NotesOK, CarriersOK, Replies, Renewal, SetNote,
     Carryings, Handings
<1>4. CarriersOK'
  BY DEF DeliveryInv, CarriersOK, Replies, GoesOn, SetCarrier
<1>5. HeldOK'
  BY FS_Subset DEF DeliveryInv, HeldOK, Replies, GoesOn, SetCarrier
<1>6. SignalTellsTruth'
  BY DEF DeliveryInv, SignalTellsTruth, Replies, Renewal, factVars, Awaits,
     Unconsumed
<1>7. ReportsReached'
  BY DEF DeliveryInv, ReportsReached, Replies, GoesOn, SetCarrier
<1>8. NotesReached'
  BY DEF DeliveryInv, NotesReached, Replies, Renewal, SetNote
<1>9. ConsumedMeansHanded'
  BY DEF DeliveryInv, ConsumedMeansHanded, Replies, Renewal, factVars
<1>10. FreshUntouched'
  BY DEF DeliveryInv, FreshUntouched, Replies, GoesOn, SetCarrier, Renewal,
     SetNote, Unattempted, factVars, NoneUnflagged, Unflagged
<1>11. OneUnflagged'
  BY DEF DeliveryInv, OneUnflagged, Replies, GoesOn, SetCarrier, Renewal,
     NoneUnflagged, Unflagged
<1>12. RepeatIsFlagged'
  BY DEF DeliveryInv, RepeatIsFlagged, Replies, Renewal
<1>13. QED  BY <1>1, <1>2, <1>3, <1>4, <1>5, <1>6, <1>7, <1>8, <1>9, <1>10,
     <1>11, <1>12 DEF DeliveryInv

\* A report of what got to the session.
LEMMA ConfirmsKeeps ==
    ASSUME DeliveryInv, NEW d \in Carriers, NEW h \in carrier[d].held, NEW c \in Carryings,
           NEW n \in Notes, Confirms(d, h, c, n)
    PROVE  DeliveryInv'
<1>1. CountsOK' /\ OwnersOK'
  BY DEF DeliveryInv, CountsOK, OwnersOK, Confirms, ownerVars
<1>2. FactsOK'
  BY DEF DeliveryInv, FactsOK, CarriersOK, Confirms, Fulfilment, RecordFact,
     Dirty, Carryings, Handings
<1>3. NotesOK'
  BY DEF DeliveryInv, NotesOK, CarriersOK, Confirms, Fulfilment, SetNote,
     Carryings, Handings
<1>4. CarriersOK'
  BY DEF DeliveryInv, CarriersOK, Confirms, GoesOn, SetCarrier
<1>5. HeldOK'
  BY FS_Subset DEF DeliveryInv, HeldOK, Confirms, GoesOn, SetCarrier
<1>6. SignalTellsTruth'
  BY DEF DeliveryInv, SignalTellsTruth, Confirms, Fulfilment, RecordFact,
     Dirty, Awaits, Unconsumed
<1>7. ReportsReached'
  BY DEF DeliveryInv, ReportsReached, Confirms, GoesOn, SetCarrier
<1>8. NotesReached'
  BY DEF DeliveryInv, ReportsReached, NotesReached, Confirms, GoesOn,
     Fulfilment, SetNote
<1>9. ConsumedMeansHanded'
  BY DEF DeliveryInv, ReportsReached, ConsumedMeansHanded, Confirms, GoesOn,
     Fulfilment, RecordFact
<1>10. FreshUntouched'
  BY DEF DeliveryInv, FreshUntouched, Confirms, GoesOn, SetCarrier,
     Fulfilment, SetNote, RecordFact, Unattempted, Untried, NoneUnflagged, Unflagged
<1>11. OneUnflagged'
  BY DEF DeliveryInv, OneUnflagged, Confirms, GoesOn, SetCarrier,
     Fulfilment, NoneUnflagged, Unflagged
<1>12. RepeatIsFlagged'
  BY DEF DeliveryInv, RepeatIsFlagged, Confirms, Fulfilment
<1>13. QED  BY <1>1, <1>2, <1>3, <1>4, <1>5, <1>6, <1>7, <1>8, <1>9, <1>10,
     <1>11, <1>12 DEF DeliveryInv

\* At the start nothing was sent.
LEMMA DeliveryInvStart == DeliveryInit => DeliveryInv
<1> SUFFICES ASSUME DeliveryInit  PROVE DeliveryInv
  OBVIOUS
<1>1. FactsOK /\ OwnersOK
  BY DEF DeliveryInit, FactsOK, OwnersOK
<1>2. NotesOK
  BY NoIntentNote DEF DeliveryInit, NotesOK
<1>3. AtRest \in Carryings /\ AtRest.at = "idle" /\ AtRest.held = {}
  BY DEF AtRest, Carryings, HandingOutcomes
<1>4. CarriersOK /\ HeldOK
  BY <1>3, FS_EmptySet DEF DeliveryInit, CarriersOK, HeldOK
<1>5. CountsOK
  BY DEF DeliveryInit, CountsOK, Tallies
<1>6. SignalTellsTruth /\ ConsumedMeansHanded /\ RepeatIsFlagged
  BY DEF DeliveryInit, SignalTellsTruth, Awaits, Unconsumed, ConsumedMeansHanded,
     RepeatIsFlagged
<1>7. ReportsReached /\ NotesReached
  BY <1>3, NoIntentNote DEF DeliveryInit, ReportsReached, NotesReached
<1>8. FreshUntouched /\ OneUnflagged
  BY <1>3 DEF DeliveryInit, FreshUntouched, OneUnflagged, NoneUnflagged, Unflagged
<1>9. QED
  BY <1>1, <1>2, <1>4, <1>5, <1>6, <1>7, <1>8 DEF DeliveryInv

\* Every step keeps the invariant.
LEMMA DeliveryInvStep == DeliveryInv /\ [DeliveryNext]_deliveryVars => DeliveryInv'
<1> SUFFICES ASSUME DeliveryInv, [DeliveryNext]_deliveryVars  PROVE DeliveryInv'
  OBVIOUS
<1>1. ASSUME NEW d \in Carriers, HandOverStep(d)  PROVE DeliveryInv'
  <2>1. CASE HandOverPrinted(d)
    BY <1>1, <2>1, HandOverCases, GetsThereKeeps
  <2>2. ASSUME NEW h \in carrier[d].held,
               HandOverTaken(d, h) \/ HandOverFailed(d, h) \/ HandOverRefused(d, h)
        PROVE  DeliveryInv'
    BY <1>1, <2>2, HandCases, GetsThereKeeps, GetsNowhereKeeps, LaysDownKeeps
  <2>3. ASSUME NEW h \in carrier[d].held, Report(d, h)  PROVE DeliveryInv'
    BY <1>1, <2>3, ReportedCases, RepliesKeeps, ConfirmsKeeps
  <2>4. QED
    BY <1>1, <2>1, <2>2, <2>3 DEF HandOverStep
<1>2. ASSUME NEW d \in Carriers, CarrierDies(d)  PROVE DeliveryInv'
  BY <1>2, CarrierDiesCases, LaysDownKeeps
<1>3. ASSUME NEW d \in Carriers, NEW m \in Letters, SweepIntent(d, m)  PROVE DeliveryInv'
  BY <1>3, SweepCases, ForgetsKeeps, RenotesKeeps, CompletesKeeps
<1>4. ASSUME NEW d \in Carriers, NEW m \in Letters, PrepareStep(d, m)  PROVE DeliveryInv'
  <2>1. CASE PrepareSettled(d, m) \/ PrepareWaits(d, m) \/ PrepareRefused(d, m)
    BY <1>4, <2>1, SettledCases, WaitsCases, RefusedCases, RenotesKeeps, CompletesKeeps
  <2>2. CASE PrepareGone(d, m)
    BY <1>4, <2>2, GoneCases, ForgetsKeeps
  <2>3. CASE PrepareHands(d, m)
    BY <1>4, <2>3, HandsCases, HandsOnKeeps
  <2>4. QED
    BY <1>4, <2>1, <2>2, <2>3 DEF PrepareStep
<1>5. ASSUME NEW m \in Letters, \/ ReconcileSignal(m) \/ Publish(m) \/ MarkRead(m)
                                \/ PurgeMessage(m) \/ ReconcileOutputs(m)
      PROVE  DeliveryInv'
  BY <1>5, ReconcileSignalKeeps, PublishKeeps, MarkReadKeeps, PurgeMessageKeeps,
     ReconcileOutputsKeeps
<1>6. ASSUME NEW m \in Letters, \/ IntentWaitEnds(m) \/ ResolveRetry(m)
                                \/ ResolveConfirm(m) \/ ResolveAbandon(m)
      PROVE  DeliveryInv'
  BY <1>6, WaitEndsCases, ResolveCases, RenotesKeeps
<1>7. CASE \/ ChangeRetirement \/ BeginSession \/ LaunchEnds \/ LaunchAgain
           \/ RotateCredential
  BY <1>7, ChangeRetirementKeeps, BeginSessionKeeps, LaunchEndsKeeps, LaunchAgainKeeps,
     RotateCredentialKeeps
<1>8. CASE UNCHANGED deliveryVars
  <2>1. UNCHANGED <<mailbox, delivered, retiredOwner, dirtyPair, hints, note, launch,
                    generation, carrier, attempts, reached, dropped, said>>
    BY <1>8 DEF deliveryVars, factVars, ownerVars, historyVars
  <2>2. QED
    BY <2>1 DEF DeliveryInv, FactsOK, NotesOK, CarriersOK, CountsOK, OwnersOK, HeldOK,
     SignalTellsTruth, ReportsReached, NotesReached, ConsumedMeansHanded, FreshUntouched,
     OneUnflagged, RepeatIsFlagged,
       Awaits, Unconsumed, Confirmed, Unattempted, NoneUnflagged, Unflagged
<1>9. QED
  BY <1>1, <1>2, <1>3, <1>4, <1>5, <1>6, <1>7, <1>8 DEF DeliveryNext, ServerTask

\* The invariant of the notifications.
LEMMA DeliveryInvariant == DeliverySpec => []DeliveryInv
BY DeliveryInvStart, DeliveryInvStep, PTL DEF DeliverySpec

\* For a pair that is not dirty the signal file is there exactly when the message
\* is to be notified (reconcile of global_signals.py, and whatever marks dirty).
THEOREM SignalTellsTruthTheorem == DeliverySpec => []SignalTellsTruth
<1>1. DeliveryInv => SignalTellsTruth
  BY DEF DeliveryInv
<1>2. QED
  BY <1>1, DeliveryInvariant, PTL

\* A message gets to a session at most once without the flag that it may be a
\* repeat, by whatever carriers, crashes, launches and retries (prepare and
\* callback of runtime_delivery.py).
THEOREM RepeatIsFlaggedTheorem == DeliverySpec => []RepeatIsFlagged
<1>1. DeliveryInv => RepeatIsFlagged
  BY DEF DeliveryInv
<1>2. QED
  BY <1>1, DeliveryInvariant, PTL

\* The server's fact that a message was delivered is of one that got to a
\* session, or of one the operator said did (completion of runtime_delivery.py).
THEOREM ConsumedMeansHandedTheorem == DeliverySpec => []ConsumedMeansHanded
<1>1. DeliveryInv => ConsumedMeansHanded
  BY DEF DeliveryInv
<1>2. QED
  BY <1>1, DeliveryInvariant, PTL

-----------------------------------------------------------------------------
(* The rest of DeliveryTypeOK.  An intent names an attempt and a launch that  *)
(* there were.                                                                *)
Within(n, most, latest) ==
    /\ n.phase \in {"planned", "unknown", "confirmed", "callback", "blocked"}
    /\ n.attempt \in 0..most /\ n.launch \in 1..latest
NotesWithin ==
    /\ launch.id \in 1..MaxLaunchIds
    /\ \A m \in Letters : note[m] = NoIntent \/ Within(note[m], attempts[m], launch.id)

(* Every handing is an attempt of its own, and a carrier holds one of each    *)
(* letter at most.                                                            *)
HeldWithin ==
    \A d \in Carriers : \A h \in carrier[d].held : h.attempt \in 1..attempts[h.letter]
OneAttempt ==
    \A d, e \in Carriers : \A h \in carrier[d].held, k \in carrier[e].held :
        h.letter = k.letter /\ (h.attempt = k.attempt \/ d = e) => d = e /\ h = k

(* What got to a session and what is on its way there are attempts.           *)
OnTheWay(m) ==
    {a \in 1..attempts[m] : \E d \in Carriers : \E h \in carrier[d].held :
         carrier[d].at = "handing" /\ h.letter = m /\ h.attempt = a}
TimesWithin ==
    \A m \in Letters : reached[m].times + Cardinality(OnTheWay(m)) <= attempts[m]

AttemptsInv == NotesWithin /\ HeldWithin /\ OneAttempt /\ TimesWithin

\* The attempts on their way are finitely many.
LEMMA OnTheWayFinite ==
    ASSUME DeliveryInv, NEW m \in Letters
    PROVE  /\ IsFiniteSet(OnTheWay(m)) /\ Cardinality(OnTheWay(m)) \in Nat
           /\ attempts[m] \in Nat /\ reached[m].times \in Nat
<1>1. attempts[m] \in Nat /\ reached[m].times \in Nat
  BY NotesAndCarriers DEF Tallies
<1>2. IsFiniteSet(1..attempts[m])
  BY <1>1, FS_Interval
<1>3. OnTheWay(m) \subseteq 1..attempts[m]
  BY DEF OnTheWay
<1>4. IsFiniteSet(OnTheWay(m))
  BY <1>2, <1>3, FS_Subset
<1>5. QED
  BY <1>1, <1>4, FS_CardinalityType

-----------------------------------------------------------------------------
(* Steps by which no carrier takes up a letter and none gets to a session.    *)
Lessens ==
    /\ UNCHANGED <<attempts, reached>>
    /\ \A d \in Carriers : \A h \in carrier'[d].held :
          /\ h \in carrier[d].held
          /\ carrier'[d].at = "handing" => carrier[d].at = "handing"

\* With less on the way the counts hold all the more.
LEMMA LessensKeeps ==
    ASSUME DeliveryInv, HeldWithin, OneAttempt, TimesWithin, Lessens
    PROVE  HeldWithin' /\ OneAttempt' /\ TimesWithin'
<1>1. HeldWithin' /\ OneAttempt'
  BY DEF Lessens, HeldWithin, OneAttempt
<1>2. ASSUME NEW m \in Letters
      PROVE  reached'[m].times + Cardinality(OnTheWay(m)') <= attempts'[m]
  <2>1. OnTheWay(m)' \subseteq OnTheWay(m)
    BY DEF Lessens, OnTheWay
  <2>2. /\ IsFiniteSet(OnTheWay(m)) /\ Cardinality(OnTheWay(m)) \in Nat
        /\ attempts[m] \in Nat /\ reached[m].times \in Nat
    BY OnTheWayFinite
  <2>3. IsFiniteSet(OnTheWay(m)') /\ Cardinality(OnTheWay(m)') <= Cardinality(OnTheWay(m))
    BY <2>1, <2>2, FS_Subset
  <2>4. Cardinality(OnTheWay(m)') \in Nat
    BY <2>3, FS_CardinalityType
  <2>5. reached[m].times + Cardinality(OnTheWay(m)) <= attempts[m]
    BY DEF TimesWithin
  <2>6. QED
    BY <2>2, <2>3, <2>4, <2>5 DEF Lessens
<1>3. QED
  BY <1>1, <1>2 DEF TimesWithin

\* A carrier that fails, dies or reports has the less to hand over.
LEMMA CarriersLessen ==
    ASSUME DeliveryInv, NEW d \in Carriers,
           \/ CarrierDies(d)
           \/ \E h \in carrier[d].held :
                 HandOverFailed(d, h) \/ HandOverRefused(d, h) \/ Report(d, h)
    PROVE  Lessens
<1>1. AtRest.held = {}
  BY DEF AtRest
<1>2. ASSUME NEW c \in Carryings, SetCarrier(d, c), c.at # "handing" \/ c.held = {},
             c.held \subseteq carrier[d].held, UNCHANGED <<attempts, reached>>
      PROVE  Lessens
  BY <1>2, NotesAndCarriers DEF SetCarrier, Lessens
<1>3. AtRest \in Carryings
  BY DEF AtRest, Carryings, HandingOutcomes
<1>4. CASE CarrierDies(d)
  BY <1>1, <1>2, <1>3, <1>4, CarrierDiesCases DEF LaysDown, historyVars
<1>5. ASSUME NEW h \in carrier[d].held, HandOverFailed(d, h) \/ HandOverRefused(d, h)
      PROVE  Lessens
  <2>1. CASE HandOverRefused(d, h)
    BY <1>1, <1>2, <1>3, <2>1 DEF HandOverRefused, SetCarrier, historyVars
  <2>2. CASE HandOverFailed(d, h)
    <3>1. PICK outcome \in {"known", "unknown"} : Conclude(d, outcome)
      BY <2>2 DEF HandOverFailed
    <3>2. PICK c \in Carryings : Turned(d, c)
      BY <3>1, ConcludeTurns DEF HandingOutcomes
    <3>3. QED
      BY <1>2, <2>2, <3>2 DEF HandOverFailed, Turned, historyVars
  <2>3. QED
    BY <1>5, <2>1, <2>2
<1>6. ASSUME NEW h \in carrier[d].held, Report(d, h)  PROVE Lessens
  <2>1. PICK c \in Carryings : GoesOn(d, h, c)
    BY <1>6, ReportedCases DEF Replies, Confirms
  <2>2. UNCHANGED <<attempts, reached>>
    BY <1>6 DEF Report, historyVars
  <2>3. QED
    BY <1>2, <2>1, <2>2 DEF GoesOn
<1>7. QED
  BY <1>4, <1>5, <1>6

\* A letter is handed to a carrier as the next attempt.
LEMMA HandsCounts ==
    ASSUME DeliveryInv, HeldWithin, OneAttempt, TimesWithin, NEW d \in Carriers,
           NEW m \in Letters, PrepareHands(d, m)
    PROVE  HeldWithin' /\ OneAttempt' /\ TimesWithin'
<1> DEFINE next == attempts[m] + 1
<1>0. /\ \A l \in Letters : attempts[l] \in Nat
      /\ attempts' = [attempts EXCEPT ![m] = next] /\ attempts \in [Letters -> Nat]
      /\ UNCHANGED reached
  BY NotesAndCarriers DEF PrepareHands
<1>1. PICK k : /\ k.letter = m /\ k.attempt = next
               /\ carrier' = [carrier EXCEPT ![d].at = "handing", ![d].held = @ \cup {k}]
  <2> DEFINE flag == Flag(Base(m))
             new == [NewNote EXCEPT !.phase = "unknown", !.attempt = next, !.tried = TRUE,
                                    !.flagged = flag, !.waits = "lease"]
  <2>1. next \in Nat /\ flag \in BOOLEAN /\ NewNote \in Notes
    BY <1>0, NewNoteNote, BaseNote DEF Flag, Notes
  <2> HIDE DEF next, flag
  <2>2. new.attempt = next
    BY <2>1 DEF Notes
  <2>3. new = Attempted(m)
    BY DEF Attempted, next, flag
  <2> HIDE DEF new
  <2>4. Handover(m, new).letter = m /\ Handover(m, new).attempt = next
    BY <2>2 DEF Handover
  <2>5. QED
    BY <2>3, <2>4 DEF PrepareHands
<1>2. /\ \A e \in Carriers : e # d => carrier'[e] = carrier[e]
      /\ carrier'[d].held = carrier[d].held \cup {k} /\ carrier'[d].at = "handing"
  BY <1>1, NotesAndCarriers DEF Carryings
<1>3. /\ \A h \in carrier[d].held : h.letter # m
      /\ carrier[d].at # "handing" => carrier[d].held = {}
  BY DEF PrepareHands, Prepares, DeliveryInv, HeldOK
<1>4. ASSUME NEW e \in Carriers, NEW h \in carrier[e].held
      PROVE  h.letter \in Letters /\ (h.letter = m => h.attempt # next)
             /\ h.attempt \in 1..attempts'[h.letter]
  <2>1. h.letter \in Letters
    BY NotesAndCarriers DEF Carryings, Handings
  <2>2. h.attempt \in 1..attempts[h.letter]
    BY DEF HeldWithin
  <2>3. QED
    BY <1>0, <2>1, <2>2
<1> HIDE DEF next
<1>5. ASSUME NEW e \in Carriers, NEW h \in carrier'[e].held
      PROVE  h \in carrier[e].held \/ (e = d /\ h = k)
  BY <1>2, <1>5
<1>6. next \in 1..attempts'[m] /\ next = attempts[m] + 1 /\ attempts'[m] = next
  BY <1>0 DEF next
<1>7. HeldWithin'
  BY <1>1, <1>4, <1>5, <1>6 DEF HeldWithin
<1>8. OneAttempt'
  <2> SUFFICES ASSUME NEW e \in Carriers, NEW f \in Carriers,
                      NEW h \in carrier'[e].held, NEW l \in carrier'[f].held,
                      h.letter = l.letter, h.attempt = l.attempt \/ e = f
               PROVE  e = f /\ h = l
    BY DEF OneAttempt
  <2>1. CASE h \in carrier[e].held /\ l \in carrier[f].held
    BY <2>1 DEF OneAttempt
  <2>2. CASE e = d /\ h = k /\ ~(f = d /\ l = k)
    <3>1. l \in carrier[f].held
      BY <1>5, <2>2
    <3>2. QED
      BY <1>1, <1>3, <1>4, <2>2, <3>1
  <2>3. CASE f = d /\ l = k /\ ~(e = d /\ h = k)
    <3>1. h \in carrier[e].held
      BY <1>5, <2>3
    <3>2. QED
      BY <1>1, <1>3, <1>4, <2>3, <3>1
  <2>4. QED
    BY <1>5, <2>1, <2>2, <2>3
<1>9. ASSUME NEW l \in Letters
      PROVE  reached'[l].times + Cardinality(OnTheWay(l)') <= attempts'[l]
  <2>1. /\ IsFiniteSet(OnTheWay(l)) /\ Cardinality(OnTheWay(l)) \in Nat
        /\ attempts[l] \in Nat /\ reached[l].times \in Nat
    BY OnTheWayFinite
  <2>2. reached[l].times + Cardinality(OnTheWay(l)) <= attempts[l]
    BY DEF TimesWithin
  <2>3. CASE l = m
    <3>1. OnTheWay(m)' \subseteq OnTheWay(m) \cup {next}
      <4> SUFFICES ASSUME NEW a \in OnTheWay(m)', a # next  PROVE a \in OnTheWay(m)
        OBVIOUS
      <4>1. PICK e \in Carriers : \E h \in carrier'[e].held :
               carrier'[e].at = "handing" /\ h.letter = m /\ h.attempt = a
        BY DEF OnTheWay
      <4>2. PICK h \in carrier'[e].held :
               carrier'[e].at = "handing" /\ h.letter = m /\ h.attempt = a
        BY <4>1
      <4>3. h \in carrier[e].held
        BY <1>1, <1>5, <4>2
      <4>4. carrier[e].at = "handing"
        BY <1>2, <1>3, <4>2, <4>3
      <4>5. a \in 1..attempts[m]
        BY <4>2, <4>3 DEF HeldWithin
      <4>6. QED
        BY <4>2, <4>3, <4>4, <4>5 DEF OnTheWay
    <3>2. /\ IsFiniteSet(OnTheWay(m) \cup {next})
          /\ \/ Cardinality(OnTheWay(m) \cup {next}) = Cardinality(OnTheWay(m))
             \/ Cardinality(OnTheWay(m) \cup {next}) = Cardinality(OnTheWay(m)) + 1
      BY <2>1, <2>3, FS_AddElement
    <3>3. /\ IsFiniteSet(OnTheWay(m)')
          /\ Cardinality(OnTheWay(m)') <= Cardinality(OnTheWay(m) \cup {next})
      BY <3>1, <3>2, FS_Subset
    <3>4. Cardinality(OnTheWay(m)') \in Nat
      BY <3>3, FS_CardinalityType
    <3>5. attempts'[m] = attempts[m] + 1 /\ reached'[m].times = reached[m].times
      BY <1>0, <1>6
    <3>6. QED
      BY <2>1, <2>2, <2>3, <3>2, <3>3, <3>4, <3>5
  <2>4. CASE l # m
    <3>1. attempts'[l] = attempts[l] /\ reached'[l].times = reached[l].times
      BY <1>0, <2>4
    <3>2. OnTheWay(l)' \subseteq OnTheWay(l)
      <4> SUFFICES ASSUME NEW a \in OnTheWay(l)'  PROVE a \in OnTheWay(l)
        OBVIOUS
      <4>1. PICK e \in Carriers : \E h \in carrier'[e].held :
               carrier'[e].at = "handing" /\ h.letter = l /\ h.attempt = a
        BY DEF OnTheWay
      <4>2. PICK h \in carrier'[e].held :
               carrier'[e].at = "handing" /\ h.letter = l /\ h.attempt = a
        BY <4>1
      <4>3. h \in carrier[e].held
        BY <1>1, <1>5, <2>4, <4>2
      <4>4. carrier[e].at = "handing"
        BY <1>2, <1>3, <4>2, <4>3
      <4>5. a \in 1..attempts[l]
        BY <4>2, <4>3 DEF HeldWithin
      <4>6. QED
        BY <4>2, <4>3, <4>4, <4>5 DEF OnTheWay
    <3>3. /\ IsFiniteSet(OnTheWay(l)')
          /\ Cardinality(OnTheWay(l)') <= Cardinality(OnTheWay(l))
      BY <2>1, <3>2, FS_Subset
    <3>4. Cardinality(OnTheWay(l)') \in Nat
      BY <3>3, FS_CardinalityType
    <3>5. QED
      BY <2>1, <2>2, <3>1, <3>3, <3>4
  <2>5. QED
    BY <2>3, <2>4
<1>10. QED
  BY <1>7, <1>8, <1>9 DEF TimesWithin

\* What a carrier hands over is no longer on its way.
LEMMA ReachCounts ==
    ASSUME DeliveryInv, HeldWithin, OneAttempt, TimesWithin, NEW d \in Carriers,
           carrier[d].at = "handing", Reach(carrier[d].held),
           NEW c \in Carryings, Turned(d, c), UNCHANGED attempts
    PROVE  HeldWithin' /\ OneAttempt' /\ TimesWithin'
<1>1. /\ carrier'[d].at = "reporting" /\ carrier'[d].held = carrier[d].held
      /\ \A e \in Carriers : e # d => carrier'[e] = carrier[e]
  BY NotesAndCarriers DEF Turned, SetCarrier
<1>2. \A e \in Carriers : carrier'[e].held = carrier[e].held
  BY <1>1
<1>3. HeldWithin' /\ OneAttempt'
  BY <1>2 DEF HeldWithin, OneAttempt
<1>4. ASSUME NEW m \in Letters
      PROVE  reached'[m].times + Cardinality(OnTheWay(m)') <= attempts'[m]
  <2> DEFINE mine == {h \in carrier[d].held : h.letter = m}
  <2>1. /\ IsFiniteSet(OnTheWay(m)) /\ Cardinality(OnTheWay(m)) \in Nat
        /\ attempts[m] \in Nat /\ reached[m].times \in Nat
    BY OnTheWayFinite
  <2>2. reached[m].times + Cardinality(OnTheWay(m)) <= attempts[m]
    BY DEF TimesWithin
  <2>3. reached'[m].times = reached[m].times + Cardinality(mine)
    BY DEF Reach
  <2>4. OnTheWay(m)' \subseteq OnTheWay(m)
    BY <1>1, <1>2 DEF OnTheWay
  <2>5. CASE mine = {}
    <3>0. Cardinality(mine) = 0
      BY <2>5, FS_EmptySet
    <3> HIDE DEF mine
    <3>1. reached'[m].times = reached[m].times
      BY <2>1, <2>3, <3>0
    <3>2. /\ IsFiniteSet(OnTheWay(m)')
          /\ Cardinality(OnTheWay(m)') <= Cardinality(OnTheWay(m))
      BY <2>1, <2>4, FS_Subset
    <3>3. Cardinality(OnTheWay(m)') \in Nat
      BY <3>2, FS_CardinalityType
    <3>4. QED
      BY <2>1, <2>2, <3>1, <3>2, <3>3
  <2>6. CASE mine # {}
    <3>1. PICK h \in carrier[d].held : h.letter = m
      BY <2>6
    <3>2. mine = {h}
      BY <3>1 DEF OneAttempt
    <3>3. PICK a : a = h.attempt
      OBVIOUS
    <3>4. a \in OnTheWay(m)
      BY <3>1, <3>3 DEF OnTheWay, HeldWithin
    <3>5. a \notin OnTheWay(m)'
      <4> SUFFICES ASSUME NEW e \in Carriers, NEW k \in carrier[e].held,
                          carrier'[e].at = "handing", k.letter = m, k.attempt = a
                   PROVE  FALSE
        BY <1>2 DEF OnTheWay
      <4>1. e = d
        BY <3>1, <3>3 DEF OneAttempt
      <4>2. QED
        BY <1>1, <4>1
    <3>6. OnTheWay(m)' \subseteq OnTheWay(m) \ {a}
      BY <2>4, <3>5
    <3>7. /\ IsFiniteSet(OnTheWay(m) \ {a})
          /\ Cardinality(OnTheWay(m) \ {a}) = Cardinality(OnTheWay(m)) - 1
      BY <2>1, <3>4, FS_RemoveElement
    <3>8. /\ IsFiniteSet(OnTheWay(m)')
          /\ Cardinality(OnTheWay(m)') <= Cardinality(OnTheWay(m) \ {a})
      BY <3>6, <3>7, FS_Subset
    <3>9. Cardinality(OnTheWay(m)') \in Nat
      BY <3>8, FS_CardinalityType
    <3>10. reached'[m].times = reached[m].times + 1
      BY <2>3, <3>2, FS_Singleton
    <3>11. QED
      BY <2>1, <2>2, <3>7, <3>8, <3>9, <3>10
  <2>7. QED
    BY <2>5, <2>6
<1>5. QED
  BY <1>3, <1>4 DEF TimesWithin

\* All steps keep the counts.
LEMMA CountsStep ==
    ASSUME DeliveryInv, HeldWithin, OneAttempt, TimesWithin, DeliveryNext
    PROVE  HeldWithin' /\ OneAttempt' /\ TimesWithin'
<1>1. ASSUME UNCHANGED <<carrier, attempts, reached>>
      PROVE  HeldWithin' /\ OneAttempt' /\ TimesWithin'
  BY <1>1, LessensKeeps DEF Lessens
<1>2. ASSUME NEW d \in Carriers, HandOverPrinted(d)
      PROVE  HeldWithin' /\ OneAttempt' /\ TimesWithin'
  <2>1. PICK c \in Carryings : Turned(d, c)
    BY <1>2, HandOverCases DEF GetsThere
  <2>2. QED
    BY <1>2, <2>1, ReachCounts DEF HandOverPrinted
<1>3. ASSUME NEW d \in Carriers, NEW h \in carrier[d].held, HandOverTaken(d, h)
      PROVE  HeldWithin' /\ OneAttempt' /\ TimesWithin'
  <2>1. carrier[d].held = {h}
    BY <1>3 DEF HandOverTaken, DeliveryInv, HeldOK
  <2>2. PICK outcome \in {"confirmed", "unknown"} : Conclude(d, outcome)
    BY <1>3 DEF HandOverTaken
  <2>3. PICK c \in Carryings : Turned(d, c)
    BY <2>2, ConcludeTurns DEF HandingOutcomes
  <2>4. QED
    BY <1>3, <2>1, <2>3, ReachCounts DEF HandOverTaken
<1>4. ASSUME NEW d \in Carriers,
             \/ CarrierDies(d)
             \/ \E h \in carrier[d].held :
                   HandOverFailed(d, h) \/ HandOverRefused(d, h) \/ Report(d, h)
      PROVE  HeldWithin' /\ OneAttempt' /\ TimesWithin'
  BY <1>4, CarriersLessen, LessensKeeps
<1>5. ASSUME NEW d \in Carriers, HandOverStep(d)
      PROVE  HeldWithin' /\ OneAttempt' /\ TimesWithin'
  BY <1>2, <1>3, <1>4, <1>5 DEF HandOverStep
<1>6. ASSUME NEW d \in Carriers, NEW m \in Letters, SweepIntent(d, m) \/ PrepareStep(d, m)
      PROVE  HeldWithin' /\ OneAttempt' /\ TimesWithin'
  BY <1>1, <1>6, HandsCounts DEF SweepIntent, PrepareStep, PrepareSettled, PrepareWaits,
     PrepareGone, PrepareRefused, historyVars
<1>7. ASSUME NEW m \in Letters, \/ ReconcileSignal(m) \/ Publish(m) \/ MarkRead(m)
                                \/ PurgeMessage(m) \/ ReconcileOutputs(m)
                                \/ IntentWaitEnds(m) \/ ResolveRetry(m)
                                \/ ResolveConfirm(m) \/ ResolveAbandon(m)
      PROVE  HeldWithin' /\ OneAttempt' /\ TimesWithin'
  BY <1>1, <1>7 DEF ReconcileSignal, Publish, MarkRead, PurgeMessage, ReconcileOutputs,
     IntentWaitEnds, ResolveRetry, ResolveConfirm, ResolveAbandon, historyVars
<1>8. CASE \/ ChangeRetirement \/ BeginSession \/ LaunchEnds \/ LaunchAgain
           \/ RotateCredential
  BY <1>1, <1>8 DEF ChangeRetirement, BeginSession, LaunchEnds, LaunchAgain, RotateCredential,
     historyVars
<1>9. QED
  BY <1>4, <1>5, <1>6, <1>7, <1>8 DEF DeliveryNext, ServerTask

-----------------------------------------------------------------------------
\* A note that is written is none, or within what there was.
LEMMA NoteWritten ==
    ASSUME DeliveryInv, NotesWithin, NEW m \in Letters, NEW n, SetNote(m, n),
           n = NoIntent \/ Within(n, attempts[m], launch.id), UNCHANGED <<attempts, launch>>
    PROVE  NotesWithin'
<1>1. note \in [Letters -> Notes]
  BY NotesAndCarriers
<1>2. \A l \in Letters : note'[l] = IF l = m THEN n ELSE note[l]
  BY <1>1 DEF SetNote
<1>3. QED
  BY <1>2 DEF NotesWithin

\* Notes stay within more attempts and later launches.
LEMMA NotesStay ==
    ASSUME DeliveryInv, NotesWithin, NEW M \in SUBSET Letters, NEW latest \in Nat,
           launch'.id = latest, latest >= launch.id, latest <= MaxLaunchIds,
           \A l \in Letters : attempts'[l] \in Nat /\ attempts'[l] >= attempts[l],
           \A l \in Letters \ M : note'[l] = note[l],
           \A l \in M : Within(note'[l], attempts'[l], latest)
    PROVE  NotesWithin'
<1>1. note \in [Letters -> Notes] /\ launch.id \in Nat
      /\ \A l \in Letters : attempts[l] \in Nat
  BY NotesAndCarriers
<1>2. latest \in 1..MaxLaunchIds
  BY <1>1 DEF NotesWithin
<1>3. ASSUME NEW l \in Letters \ M, note[l] # NoIntent
      PROVE  Within(note'[l], attempts'[l], latest)
  <2>1. Within(note[l], attempts[l], launch.id)
    BY <1>3 DEF NotesWithin
  <2>2. attempts[l] \in Nat /\ attempts'[l] \in Nat /\ attempts'[l] >= attempts[l]
    BY <1>1
  <2>3. QED
    BY <1>1, <2>1, <2>2 DEF Within
<1>4. QED
  BY <1>2, <1>3 DEF NotesWithin

\* What a step makes of a note that is there: its attempt stays, its launch is
\* the one it was or the latest.
LEMMA NoteChanges ==
    ASSUME DeliveryInv, NotesWithin, NEW m \in Letters, note[m] # NoIntent
    PROVE  /\ Within(note[m], attempts[m], launch.id)
           /\ \A why : Within(Blocked(note[m], why), attempts[m], launch.id)
           /\ Within(Replanned(note[m]), attempts[m], launch.id)
           /\ \A phase \in {"confirmed", "callback"} :
                 Within([note[m] EXCEPT !.phase = phase], attempts[m], launch.id)
           /\ \A waits : Within([note[m] EXCEPT !.waits = waits], attempts[m], launch.id)
           /\ Within([note[m] EXCEPT !.flagged = TRUE], attempts[m], launch.id)
           /\ Within([NewNote EXCEPT !.attempt = note[m].attempt, !.flagged = TRUE],
                     attempts[m], launch.id)
<1>1. PICK n \in Notes, most \in Nat, latest \in Nat \ {0} :
        /\ n = note[m] /\ most = attempts[m] /\ latest = launch.id
  BY NotesAndCarriers DEF NotesWithin
<1>2. Within(n, most, latest)
  BY <1>1 DEF NotesWithin
<1>3. \A why : Within(Blocked(n, why), most, latest)
  BY <1>2 DEF Within, Blocked, Notes
<1>4. \A phase \in {"confirmed", "callback"} : Within([n EXCEPT !.phase = phase], most, latest)
  BY <1>2 DEF Within, Notes
<1>5. \A waits : Within([n EXCEPT !.waits = waits], most, latest)
  BY <1>2 DEF Within, Notes
<1>6. Within([n EXCEPT !.flagged = TRUE], most, latest)
  BY <1>2 DEF Within, Notes
<1>7. Within(Replanned(n), most, latest)
  <2>1. CASE Matches(n)
    BY <1>2, <2>1 DEF Replanned
  <2>2. CASE ~Matches(n)
    <3>1. Replanned(n) = [n EXCEPT !.phase = "planned", !.error = "none", !.waits = "no",
                                   !.flagged = TRUE, !.launch = latest]
      BY <1>1, <2>2 DEF Replanned
    <3>2. QED
      BY <1>2, <3>1 DEF Within, Notes
  <2>3. QED
    BY <2>1, <2>2
<1>8. Within([NewNote EXCEPT !.attempt = n.attempt, !.flagged = TRUE], most, latest)
  <2>1. PICK g \in Nat : g = generation
    BY NotesAndCarriers
  <2>2. NewNote = [NoIntent EXCEPT !.phase = "planned", !.launch = latest, !.generation = g]
    BY <1>1, <2>1 DEF NewNote
  <2>3. NoIntent \in Notes
    BY NoIntentNote
  <2>4. NewNote \in Notes /\ NewNote.phase = "planned" /\ NewNote.launch = latest
    BY <2>1, <2>2, <2>3 DEF Notes
  <2>5. QED
    BY <1>2, <2>4 DEF Within, Notes
<1>9. QED
  BY <1>1, <1>2, <1>3, <1>4, <1>5, <1>6, <1>7, <1>8

\* A new note is for the launch there is.
LEMMA NewNoteWithin ==
    ASSUME DeliveryInv, NotesWithin, NEW m \in Letters
    PROVE  /\ Within(NewNote, attempts[m], launch.id)
           /\ \A why : Within(Blocked(NewNote, why), attempts[m], launch.id)
           /\ \A why : note[m] # NoIntent
                 => Within(Blocked(Replanned(note[m]), why), attempts[m], launch.id)
           /\ \A next \in Nat, flag \in BOOLEAN :
                 Within([NewNote EXCEPT !.phase = "unknown", !.attempt = next, !.tried = TRUE,
                                        !.flagged = flag, !.waits = "lease"], next, launch.id)
<1>1. PICK most \in Nat, latest \in Nat \ {0}, g \in Nat :
        most = attempts[m] /\ latest = launch.id /\ g = generation
  BY NotesAndCarriers DEF NotesWithin
<1>2. NewNote = [NoIntent EXCEPT !.phase = "planned", !.launch = latest, !.generation = g]
  BY <1>1 DEF NewNote
<1>3. NoIntent \in Notes /\ NoIntent.attempt = 0
  BY NoIntentNote
<1>4. /\ NewNote \in Notes /\ NewNote.phase = "planned" /\ NewNote.launch = latest
      /\ NewNote.attempt = 0
  BY <1>1, <1>2, <1>3 DEF Notes
<1>5. Within(NewNote, most, latest)
  BY <1>1, <1>4 DEF Within
<1>6. ASSUME NEW n \in Notes, Within(n, most, latest), NEW why
      PROVE  Within(Blocked(n, why), most, latest)
  BY <1>6 DEF Within, Blocked, Notes
<1>7. note[m] # NoIntent => Replanned(note[m]) \in Notes /\ Within(Replanned(note[m]), most, latest)
  BY <1>1, NoteChanges, NotesAndCarriers, ReplannedNote
<1>8. ASSUME NEW next \in Nat, NEW flag \in BOOLEAN
      PROVE  Within([NewNote EXCEPT !.phase = "unknown", !.attempt = next, !.tried = TRUE,
                                    !.flagged = flag, !.waits = "lease"], next, latest)
  BY <1>4 DEF Within, Notes
<1>9. QED
  BY <1>1, <1>4, <1>5, <1>6, <1>7, <1>8

\* Every step writes notes of attempts and launches that there were.
LEMMA NotesStep ==
    ASSUME DeliveryInv, AttemptsInv, DeliveryNext
    PROVE  NotesWithin'
<1> USE DEF AttemptsInv
<1>1. ASSUME UNCHANGED <<note, attempts, launch>>  PROVE NotesWithin'
  BY <1>1 DEF NotesWithin
<1>2. ASSUME NEW m \in Letters, SetNote(m, NoIntent), UNCHANGED <<attempts, launch>>
      PROVE  NotesWithin'
  BY <1>2, NoteWritten
<1>3. ASSUME NEW m \in Letters, Completion(m, note[m]), Confirmed(note[m]),
             UNCHANGED <<attempts, launch>>
      PROVE  NotesWithin'
  <2>1. note[m] # NoIntent
    BY <1>3, NoIntentNote
  <2>2. SetNote(m, NoIntent) \/ SetNote(m, [note[m] EXCEPT !.phase = "callback"])
    BY <1>3 DEF Completion
  <2>3. QED
    BY <1>3, <2>1, <2>2, NoteWritten, NoteChanges
<1>4. ASSUME NEW m \in Letters, NEW why, note[m] # NoIntent, SetNote(m, Blocked(note[m], why)),
             UNCHANGED <<attempts, launch>>
      PROVE  NotesWithin'
  BY <1>4, NoteWritten, NoteChanges
<1>5. ASSUME NEW d \in Carriers, NEW m \in Letters, SweepIntent(d, m)  PROVE NotesWithin'
  <2>1. UNCHANGED <<attempts, launch>>
    BY <1>5 DEF SweepIntent, ownerVars
  <2>2. Confirmed(note[m]) => note[m] # NoIntent
    BY NoIntentNote
  <2>3. \/ SetNote(m, NoIntent)
        \/ Confirmed(note[m]) /\ Completion(m, note[m])
        \/ Confirmed(note[m]) /\ SetNote(m, Blocked(note[m], "route"))
    BY <1>5 DEF SweepIntent, UnlinkIntent
  <2>4. QED
    BY <1>2, <1>3, <1>4, <2>1, <2>2, <2>3
<1>6. ASSUME NEW d \in Carriers, NEW m \in Letters,
             PrepareSettled(d, m) \/ PrepareWaits(d, m) \/ PrepareGone(d, m) \/ PrepareRefused(d, m)
      PROVE  NotesWithin'
  <2>1. UNCHANGED <<attempts, launch>>
    BY <1>6 DEF PrepareSettled, PrepareWaits, PrepareGone, PrepareRefused, ownerVars,
       historyVars
  <2>2. CASE PrepareSettled(d, m)
    BY <1>3, <1>4, <2>1, <2>2 DEF PrepareSettled
  <2>3. CASE PrepareWaits(d, m)
    <3>1. SetNote(m, Kept(m))
      BY <2>3 DEF PrepareWaits
    <3>2. CASE note[m] = NoIntent
      BY <1>2, <2>1, <3>1, <3>2 DEF Kept
    <3>3. CASE note[m] # NoIntent
      BY <2>1, <3>1, <3>3, NoteWritten, NoteChanges DEF Kept
    <3>4. QED
      BY <3>2, <3>3
  <2>4. CASE PrepareGone(d, m)
    BY <1>2, <2>1, <2>4 DEF PrepareGone, UnlinkIntent
  <2>5. CASE PrepareRefused(d, m)
    <3>1. SetNote(m, Blocked(Base(m), "importance"))
      BY <2>5 DEF PrepareRefused
    <3>2. Within(Blocked(Base(m), "importance"), attempts[m], launch.id)
      BY NewNoteWithin DEF Base
    <3>3. QED
      BY <2>1, <3>1, <3>2, NoteWritten
  <2>6. QED
    BY <1>6, <2>2, <2>3, <2>4, <2>5
<1>7. ASSUME NEW d \in Carriers, NEW m \in Letters, PrepareHands(d, m)  PROVE NotesWithin'
  <2>1. /\ launch' = launch /\ attempts' = [attempts EXCEPT ![m] = @ + 1]
        /\ note' = [note EXCEPT ![m] = Attempted(m)]
    BY <1>7 DEF PrepareHands, ownerVars, SetNote
  <2>2. /\ attempts \in [Letters -> Nat] /\ note \in [Letters -> Notes]
        /\ launch.id \in Nat /\ launch.id <= MaxLaunchIds
    BY NotesAndCarriers DEF NotesWithin
  <2>3. Within(Attempted(m), attempts[m] + 1, launch.id)
    <3>1. attempts[m] + 1 \in Nat /\ Flag(Base(m)) \in BOOLEAN
      BY <2>2, BaseNote DEF Flag, Notes
    <3>2. QED
      BY <3>1, NewNoteWithin DEF Attempted
  <2>4. \A l \in Letters \ {m} : note'[l] = note[l] /\ attempts'[l] = attempts[l]
    BY <2>1, <2>2
  <2>5. note'[m] = Attempted(m) /\ attempts'[m] = attempts[m] + 1
    BY <2>1, <2>2
  <2>6. \A l \in Letters : attempts'[l] \in Nat /\ attempts'[l] >= attempts[l]
    BY <2>2, <2>4, <2>5
  <2>7. Within(note'[m], attempts'[m], launch.id)
    BY <2>3, <2>5
  <2>8. PICK latest \in Nat : latest = launch.id
    BY <2>2
  <2>9. launch'.id = latest /\ latest >= launch.id /\ latest <= MaxLaunchIds
    BY <2>1, <2>2, <2>8
  <2>10. \A l \in {m} : Within(note'[l], attempts'[l], latest)
    BY <2>7, <2>8
  <2>11. {m} \in SUBSET Letters /\ \A l \in Letters \ {m} : note'[l] = note[l]
    BY <2>4
  <2>12. NotesWithin
    OBVIOUS
  <2> HIDE DEF AttemptsInv
  <2>13. QED
    BY <2>6, <2>9, <2>10, <2>11, <2>12, NotesStay
<1>8. ASSUME NEW d \in Carriers, HandOverStep(d)  PROVE NotesWithin'
  <2>1. CASE HandOverPrinted(d)
    BY <1>1, <2>1 DEF HandOverPrinted, ownerVars
  <2>2. ASSUME NEW h \in carrier[d].held,
               HandOverTaken(d, h) \/ HandOverFailed(d, h) \/ HandOverRefused(d, h)
        PROVE  NotesWithin'
    BY <1>1, <2>2 DEF HandOverTaken, HandOverFailed, HandOverRefused, ownerVars, historyVars
  <2>3. ASSUME NEW h \in carrier[d].held, Report(d, h)  PROVE NotesWithin'
    <3>1. UNCHANGED <<attempts, launch>>
      BY <2>3 DEF Report, ownerVars, historyVars
    <3>2. PICK m \in Letters : m = h.letter
      BY NotesAndCarriers DEF Carryings, Handings
    <3>3. Accepts(h) => note[m] # NoIntent
      <4>1. h.attempt \in 1..attempts[m] /\ attempts[m] \in Nat
        BY <3>2, NotesAndCarriers DEF HeldWithin
      <4>2. QED
        BY <3>2, <4>1, NoIntentNote DEF Accepts
    <3>4. CASE ~Accepts(h) /\ UNCHANGED note
      BY <1>1, <3>1, <3>4
    <3>5. CASE Accepts(h) /\ Completion(m, note[m])
      <4>1. SetNote(m, NoIntent) \/ SetNote(m, [note[m] EXCEPT !.phase = "callback"])
        BY <3>5 DEF Completion
      <4>2. QED
        BY <3>1, <3>3, <3>5, <4>1, NoteWritten, NoteChanges
    <3>6. CASE Accepts(h) /\ SetNote(m, [note[m] EXCEPT !.flagged = TRUE])
      BY <3>1, <3>3, <3>6, NoteWritten, NoteChanges
    <3>7. CASE Accepts(h) /\ \E waits : SetNote(m, [note[m] EXCEPT !.waits = waits])
      BY <3>1, <3>3, <3>7, NoteWritten, NoteChanges
    <3>8. QED
      BY <2>3, <3>2, <3>4, <3>5, <3>6, <3>7 DEF Report
  <2>4. QED
    BY <1>8, <2>1, <2>2, <2>3 DEF HandOverStep
<1>9. ASSUME NEW m \in Letters, IntentWaitEnds(m) \/ ResolveRetry(m) \/ ResolveConfirm(m)
                                \/ ResolveAbandon(m)
      PROVE  NotesWithin'
  <2>1. UNCHANGED <<attempts, launch>>
    BY <1>9 DEF IntentWaitEnds, ResolveRetry, ResolveConfirm, ResolveAbandon, ownerVars,
       historyVars
  <2>2. note[m] # NoIntent
    BY <1>9 DEF IntentWaitEnds, ResolveRetry, ResolveConfirm, ResolveAbandon, NoIntent
  <2>3. \/ SetNote(m, [note[m] EXCEPT !.waits = "no"])
        \/ SetNote(m, [NewNote EXCEPT !.attempt = note[m].attempt, !.flagged = TRUE])
        \/ SetNote(m, [note[m] EXCEPT !.phase = "confirmed"])
        \/ SetNote(m, Blocked(note[m], "abandoned"))
    BY <1>9 DEF IntentWaitEnds, ResolveRetry, ResolveConfirm, ResolveAbandon
  <2>4. QED
    BY <2>1, <2>2, <2>3, NoteWritten, NoteChanges
<1>10. ASSUME NEW m \in Letters, \/ ReconcileSignal(m) \/ Publish(m) \/ MarkRead(m)
                                 \/ PurgeMessage(m) \/ ReconcileOutputs(m)
       PROVE  NotesWithin'
  BY <1>1, <1>10 DEF ReconcileSignal, Publish, MarkRead, PurgeMessage, ReconcileOutputs,
     ownerVars, historyVars
<1>11. CASE BeginSession \/ LaunchEnds \/ LaunchAgain
  <2>1. /\ UNCHANGED note /\ UNCHANGED attempts
    BY <1>11 DEF BeginSession, LaunchEnds, LaunchAgain, historyVars
  <2>2. /\ \A l \in Letters : attempts'[l] \in Nat /\ attempts'[l] >= attempts[l]
        /\ launch.id \in Nat /\ launch.id <= MaxLaunchIds
    BY <2>1, NotesAndCarriers DEF NotesWithin
  <2>3. launch'.id = launch.id \/ (launch'.id = launch.id + 1 /\ launch.id < MaxLaunchIds)
    BY <1>11 DEF BeginSession, LaunchEnds, LaunchAgain, DeliveryInv, OwnersOK
  <2>4. launch'.id \in Nat /\ launch'.id >= launch.id /\ launch'.id <= MaxLaunchIds
    BY <2>2, <2>3, GlobalDeliveryAssumption
  <2>5. PICK latest \in Nat : latest = launch'.id
    BY <2>4
  <2>6. launch'.id = latest /\ latest >= launch.id /\ latest <= MaxLaunchIds
    BY <2>4, <2>5
  <2>7. /\ {} \in SUBSET Letters /\ \A l \in Letters \ {} : note'[l] = note[l]
        /\ \A l \in {} : Within(note'[l], attempts'[l], latest)
    BY <2>1
  <2>8. NotesWithin
    OBVIOUS
  <2> HIDE DEF AttemptsInv
  <2>9. QED
    BY <2>2, <2>6, <2>7, <2>8, NotesStay
<1>12. CASE ChangeRetirement \/ RotateCredential \/ \E d \in Carriers : CarrierDies(d)
  BY <1>1, <1>12 DEF ChangeRetirement, RotateCredential, CarrierDies, ownerVars, historyVars
<1>13. QED
  BY <1>5, <1>6, <1>7, <1>8, <1>9, <1>10, <1>11, <1>12 DEF DeliveryNext, ServerTask, PrepareStep

\* Each step has at most one failure.
LEMMA OneDeliveryFault ==
    ASSUME DeliveryNext
    PROVE  UNCHANGED deliveryFaults \/ DeliveryFault
<1> USE DEF NoDeliveryFault
<1>1. ASSUME NEW m, NEW n, Completion(m, n)  PROVE UNCHANGED deliveryFaults \/ DeliveryFault
  BY <1>1 DEF Completion
<1>2. ASSUME NEW d \in Carriers, HandOverStep(d) \/ CarrierDies(d)
      PROVE  UNCHANGED deliveryFaults \/ DeliveryFault
  BY <1>1, <1>2 DEF HandOverStep, CarrierDies, HandOverPrinted, HandOverTaken, HandOverFailed,
     HandOverRefused, Report
<1>3. ASSUME NEW d \in Carriers, NEW m \in Letters, SweepIntent(d, m) \/ PrepareStep(d, m)
      PROVE  UNCHANGED deliveryFaults \/ DeliveryFault
  BY <1>1, <1>3 DEF SweepIntent, PrepareStep, PrepareSettled, PrepareWaits, PrepareGone,
     PrepareRefused, PrepareHands
<1>4. ASSUME NEW m \in Letters, \/ ReconcileSignal(m) \/ Publish(m) \/ MarkRead(m)
                                \/ PurgeMessage(m) \/ ReconcileOutputs(m)
                                \/ IntentWaitEnds(m) \/ ResolveRetry(m)
                                \/ ResolveConfirm(m) \/ ResolveAbandon(m)
      PROVE  UNCHANGED deliveryFaults \/ DeliveryFault
  BY <1>4 DEF ReconcileSignal, Publish, MarkRead, PurgeMessage, ReconcileOutputs,
     IntentWaitEnds, ResolveRetry, ResolveConfirm, ResolveAbandon
<1>5. CASE \/ ChangeRetirement \/ BeginSession \/ LaunchEnds \/ LaunchAgain
           \/ RotateCredential
  BY <1>5 DEF ChangeRetirement, BeginSession, LaunchEnds, LaunchAgain, RotateCredential
<1>6. QED
  BY <1>2, <1>3, <1>4, <1>5 DEF DeliveryNext, ServerTask

\* The attempts that are counted, kept and under way agree.
LEMMA AttemptsInvariant == DeliverySpec => [](AttemptsInv /\ deliveryFaults \in 0..MaxDeliveryFaults)
<1>1. DeliveryInit => AttemptsInv /\ deliveryFaults \in 0..MaxDeliveryFaults
  <2> SUFFICES ASSUME DeliveryInit  PROVE AttemptsInv /\ deliveryFaults \in 0..MaxDeliveryFaults
    OBVIOUS
  <2>1. NotesWithin /\ deliveryFaults \in 0..MaxDeliveryFaults
    BY GlobalDeliveryAssumption DEF DeliveryInit, NotesWithin
  <2>2. \A d \in Carriers : carrier[d].held = {}
    BY DEF DeliveryInit, AtRest
  <2>3. HeldWithin /\ OneAttempt
    BY <2>2 DEF HeldWithin, OneAttempt
  <2>4. \A m \in Letters : OnTheWay(m) = {} /\ reached[m].times = 0 /\ attempts[m] = 0
    BY <2>2 DEF OnTheWay, DeliveryInit
  <2>5. TimesWithin
    <3> SUFFICES ASSUME NEW m \in Letters
                 PROVE  reached[m].times + Cardinality(OnTheWay(m)) <= attempts[m]
      BY DEF TimesWithin
    <3>1. Cardinality(OnTheWay(m)) = 0
      BY <2>4, FS_EmptySet
    <3>2. QED
      BY <2>4, <3>1
  <2>6. QED
    BY <2>1, <2>3, <2>5 DEF AttemptsInv
<1>2. DeliveryInv /\ AttemptsInv /\ deliveryFaults \in 0..MaxDeliveryFaults
        /\ [DeliveryNext]_deliveryVars
      => (AttemptsInv /\ deliveryFaults \in 0..MaxDeliveryFaults)'
  <2> SUFFICES ASSUME DeliveryInv, AttemptsInv, deliveryFaults \in 0..MaxDeliveryFaults,
                      [DeliveryNext]_deliveryVars
               PROVE  (AttemptsInv /\ deliveryFaults \in 0..MaxDeliveryFaults)'
    OBVIOUS
  <2>1. CASE UNCHANGED deliveryVars
    BY <2>1 DEF deliveryVars, ownerVars, historyVars, AttemptsInv, NotesWithin, HeldWithin,
       OneAttempt, TimesWithin, OnTheWay
  <2>2. CASE DeliveryNext
    <3>1. AttemptsInv'
      BY <2>2, CountsStep, NotesStep DEF AttemptsInv
    <3>2. deliveryFaults' \in 0..MaxDeliveryFaults
      BY <2>2, OneDeliveryFault, GlobalDeliveryAssumption DEF DeliveryFault
    <3>3. QED
      BY <3>1, <3>2
  <2>3. QED
    BY <2>1, <2>2
<1>3. QED
  BY <1>1, <1>2, DeliveryInvariant, PTL DEF DeliverySpec

\* Every reachable state of the notifications is well-typed: an intent names an
\* attempt and a launch that there were, a carrier holds attempts that were made,
\* and no more handovers reach a session than were prepared.
THEOREM DeliveryTypeCorrect == DeliverySpec => []DeliveryTypeOK
<1>1. DeliveryInv /\ AttemptsInv /\ deliveryFaults \in 0..MaxDeliveryFaults => DeliveryTypeOK
  <2> SUFFICES ASSUME DeliveryInv, AttemptsInv, deliveryFaults \in 0..MaxDeliveryFaults
               PROVE  DeliveryTypeOK
    OBVIOUS
  <2>1. \A m \in Letters : reached[m].times <= attempts[m]
    <3> SUFFICES ASSUME NEW m \in Letters  PROVE reached[m].times <= attempts[m]
      OBVIOUS
    <3>1. reached[m].times + Cardinality(OnTheWay(m)) <= attempts[m]
      BY DEF AttemptsInv, TimesWithin
    <3>2. QED
      BY <3>1, OnTheWayFinite
  <2>2. launch \in [id : 1..MaxLaunchIds, phase : {"planned", "running", "ended"}]
    BY DEF DeliveryInv, OwnersOK, AttemptsInv, NotesWithin
  <2>3. \A d \in Carriers : \A h \in carrier[d].held :
           h.letter \in Letters /\ h.attempt \in 1..attempts[h.letter]
    BY NotesAndCarriers DEF Carryings, Handings, AttemptsInv, HeldWithin
  <2>4. QED
    BY <2>1, <2>2, <2>3 DEF DeliveryInv, FactsOK, AttemptsInv, NotesWithin, Within,
       DeliveryTypeOK
<1>2. QED
  BY <1>1, AttemptsInvariant, DeliveryInvariant, PTL

-----------------------------------------------------------------------------
(* GlobalLaunch.                                                              *)
LaunchRows == [id : Nat,
               phase : {"none", "planned", "gated", "exec-unknown", "running",
                        "abandoned", "ended", "cancelled"},
               exec : {"none", "pending", "not-started", "exited", "unknown"},
               runner : Runners \cup {NoRunner},
               term : {"none", "required", "unneeded", "pending", "confirmed",
                       "rejected", "cleanup", "ended"},
               report : {"open", "unneeded", "confirmed", "rejected"},
               resolved : {"none", "abandoned", "running", "ended", "mutation"}]
Standings == [at : {"none", "exec", "spawn", "wait", "ending", "aborting", "done"},
              id : Nat]
Settling == {"clear", "settle", "cleanup", "retire", "retiring", "retired", "rows",
             "finish"}
Closings == [at : {"no", "report", "save", "send", "answered", "commit", "refused"}
                  \cup Settling,
             by : Runners \cup {NoRunner}, resumed : BOOLEAN]

LaunchRowOK == launchRow \in LaunchRows
ProcessesOK ==
    /\ runner \in [Runners -> Standings]
    /\ native \in [Runners -> {"none", "shim", "up", "left"}]
    /\ liveRow \in [Runners -> {"none", "live", "ended"}]
ClosingOK == closing \in Closings
SlotOK == /\ slot \in {"none", "report", "reported", "retire", "other"}
          /\ ownerRetired \in BOOLEAN
ReportsOK == letters \subseteq 0..launchRow.id

(* ---- the report *)
OpenReport == launchRow.report = "open" <=> launchRow.term \in {"none", "required", "pending"}

ClosingReport ==
    /\ closing.at = "report" => launchRow.term \in {"required", "pending"}
    /\ closing.at \in {"save", "send", "answered", "commit", "refused"} =>
          launchRow.term = "pending"
    /\ closing.at \in {"answered", "commit"} => launchRow.id \in letters
    /\ closing.at = "refused" => launchRow.id \notin letters \/ launchRow.id \in discarded
    /\ closing.at \in {"send", "answered", "commit", "refused"} =>
          slot \in {"report", "reported"}
    /\ closing.at \in Settling => launchRow.report # "open"

SlotRemembers ==
    launchRow.id \in letters /\ launchRow.id \notin discarded /\ launchRow.report = "open" =>
        slot \in {"report", "reported"}

FirstSending ==
    closing.at = "send" /\ ~closing.resumed /\ launchRow.id \notin discarded =>
        launchRow.id \notin letters

(* What is under way is of a launch, and a runner that closes has begun.      *)
Begun ==
    /\ launchRow.phase # "none" \/ starting # "no" \/ closing.at # "no" => launchRow.id # 0
    /\ closing.by \in Runners => runner[closing.by].at # "none"

(* ---- the processes *)
ProcessesBegin ==
    \A r \in Runners :
        /\ runner[r].at \in {"none", "exec", "spawn"} =>
              native[r] = "none" /\ liveRow[r] = "none"
        /\ native[r] = "shim" => liveRow[r] = "none"
        /\ runner[r].at # "none" => runner[r].id # 0
        /\ runner[r].id <= launchRow.id

Of(r) == runner[r].id = launchRow.id /\ launchRow.id \notin excused

OneProcess ==
    \A r \in Runners : Of(r) /\ (runner[r].at \in {"spawn", "wait"} \/ native[r] # "none") =>
        launchRow.runner = r /\ launchRow.exec # "none"

Unexecuted == {"none", "planned", "gated", "cancelled"}

PhaseOfExec ==
    launchRow.id \notin excused =>
        /\ launchRow.exec = "none" => /\ launchRow.phase \in Unexecuted
                                      /\ launchRow.term = "none"
                                      /\ launchRow.resolved = "none"
        /\ launchRow.exec # "none" => launchRow.phase \notin Unexecuted

Over == \/ launchRow.exec \in {"exited", "not-started"}
        \/ launchRow.resolved = "ended" \/ launchRow.term # "none"

EndedForGood ==
    Over => \A r \in Runners : Of(r) =>
        /\ runner[r].at # "spawn" /\ native[r] \notin {"shim", "up"}
        /\ native[r] = "left" => liveRow[r] = "none"

EndedRows ==
    \A r \in Runners :
        liveRow[r] = "ended" /\ runner[r].id \notin excused => ~ProviderLives(r)

LaunchInv ==
    /\ LaunchRowOK /\ ProcessesOK /\ ClosingOK /\ SlotOK /\ ReportsOK
    /\ Begun /\ OpenReport /\ ClosingReport /\ SlotRemembers /\ FirstSending
    /\ ReportTruthful
    /\ ProcessesBegin /\ OneProcess /\ PhaseOfExec /\ EndedForGood /\ EndedRows
    /\ LiveSessionIsOurs

-----------------------------------------------------------------------------
(* What the steps do to the row, the runners and the closing, field by field. *)
RowBecomes(phase, exec, by, term, report, resolved) ==
    /\ launchRow' \in LaunchRows /\ launchRow'.id = launchRow.id
    /\ launchRow'.phase = phase /\ launchRow'.exec = exec /\ launchRow'.runner = by
    /\ launchRow'.term = term /\ launchRow'.report = report
    /\ launchRow'.resolved = resolved
Phased(phase) == RowBecomes(phase, launchRow.exec, launchRow.runner, launchRow.term,
                     launchRow.report, launchRow.resolved)
Termed(term, report) == RowBecomes(launchRow.phase, launchRow.exec, launchRow.runner, term,
                            report, launchRow.resolved)

(* Runners go on as they are, or are done.                                    *)
Standing ==
    /\ runner' \in [Runners -> Standings]
    /\ \A r \in Runners :
          /\ runner'[r].id = runner[r].id
          /\ \/ runner'[r].at = runner[r].at
             \/ runner[r].at # "none" /\ runner'[r].at = "done"
Commenced ==
    /\ runner' \in [Runners -> Standings]
    /\ \A r \in Runners :
          \/ runner'[r] = runner[r]
          \/ /\ runner[r].at = "none" /\ runner'[r].at = "exec"
             /\ runner'[r].id = launchRow.id

Advances(step) ==
    /\ closing' \in Closings
    /\ closing'.at = step /\ closing'.by = closing.by
    /\ closing'.resumed = closing.resumed
Halted == closing' \in Closings /\ closing'.at = "no" /\ closing'.by = NoRunner

Gates ==
    /\ OperationFree /\ starting # "no" /\ Phased("gated") /\ Commenced
    /\ excused' = IF launchRow.exec = "none" THEN excused
                  ELSE excused \cup {launchRow.id}
    /\ starting' = "no"
    /\ UNCHANGED <<native, liveRow, closing, reportVars, discarded>>

Retries ==
    /\ OperationFree /\ launchRow.phase \in {"planned", "gated"}
    /\ launchRow.exec = "none" /\ Phased("gated") /\ Commenced
    /\ UNCHANGED <<starting, native, liveRow, closing, reportVars, excuseVars>>

Executes(r) ==
    /\ OperationFree /\ runner[r].at = "exec" /\ runner[r].id = launchRow.id
    /\ launchRow.phase = "gated"
    /\ RowBecomes("exec-unknown", "pending", r, launchRow.term, launchRow.report,
           launchRow.resolved)
    /\ runner' = [runner EXCEPT ![r] = [at |-> "spawn", id |-> runner[r].id]]
    /\ UNCHANGED <<starting, native, liveRow, closing, reportVars, excuseVars>>

(* Somebody stops, and nothing else changes.                                  *)
Halts ==
    /\ Standing /\ (Halted \/ UNCHANGED closing)
    /\ UNCHANGED <<launchRow, starting, native, liveRow, reportVars, excuseVars>>

BeginsToEnd(by) ==
    /\ OperationFree /\ launchRow.id # 0 /\ launchRow.exec # "none"
    /\ launchRow.exec \in {"exited", "not-started"} \/ launchRow.resolved = "ended"
    /\ by \in Runners => runner[by].at # "none"
    /\ \/ launchRow.term # "none" /\ UNCHANGED launchRow
       \/ launchRow.term = "none" /\ Termed("required", launchRow.report)
       \/ launchRow.term = "none" /\ Termed("unneeded", "unneeded")
    /\ closing' \in Closings /\ closing'.by = by
    /\ closing'.at = IF launchRow'.term \in {"required", "pending"} THEN "report"
                     ELSE "settle"
    /\ UNCHANGED <<starting, launchProcesses, reportVars, excuseVars>>

StartsReport ==
    /\ closing.at = "report" /\ Termed("pending", launchRow.report) /\ Advances("save")
    /\ UNCHANGED <<starting, launchProcesses, reportVars, excuseVars>>

SavesReport ==
    /\ closing.at = "save" /\ slot \in {"none", "report", "reported"}
    /\ slot' = IF slot = "none" THEN "report" ELSE slot
    /\ closing' \in Closings /\ closing'.at = "send" /\ closing'.by = closing.by
    /\ closing'.resumed = (slot # "none")
    /\ UNCHANGED <<launchRow, starting, launchProcesses, ownerRetired, letters,
                   excuseVars>>

Answered ==
    /\ closing.at = "send" /\ letters' = letters \cup {launchRow.id} /\ Advances("answered")
    /\ UNCHANGED <<launchRow, starting, launchProcesses, slot, ownerRetired, excuseVars>>

AnswerLost ==
    /\ closing.at = "send" /\ letters' \in {letters, letters \cup {launchRow.id}}
    /\ Halted /\ Standing
    /\ UNCHANGED <<launchRow, starting, native, liveRow, slot, ownerRetired, excuseVars>>

TurnedDown ==
    /\ closing.at = "send" /\ (launchRow.id \notin letters \/ Definitive)
    /\ Advances("refused")
    /\ UNCHANGED <<launchRow, starting, launchProcesses, reportVars, excuseVars>>

CommitsReport ==
    /\ closing.at = "answered" /\ slot' = "reported" /\ Advances("commit")
    /\ UNCHANGED <<launchRow, starting, launchProcesses, ownerRetired, letters,
                   excuseVars>>

Judges(step, verdict) ==
    /\ <<step, verdict>> \in {<<"commit", "confirmed">>, <<"refused", "rejected">>}
    /\ closing.at = step /\ Termed(verdict, verdict) /\ Advances("clear")
    /\ UNCHANGED <<starting, launchProcesses, reportVars, excuseVars>>

(* After the report the slot and the owner concern no part of the invariant.  *)
Proceeds ==
    /\ closing.at \in Settling /\ SlotOK'
    /\ Standing /\ (Halted \/ \E step \in Settling : Advances(step))
    /\ UNCHANGED <<launchRow, starting, native, liveRow, letters, excuseVars>>

Cleans ==
    /\ closing.at = "cleanup" /\ Termed("cleanup", launchRow.report) /\ Advances("retire")
    /\ UNCHANGED <<starting, launchProcesses, reportVars, excuseVars>>

EndsSessions ==
    /\ closing.at = "rows" /\ Advances("finish")
    /\ liveRow' = [r \in Runners |-> IF r \in LiveRows(launchRow.id) THEN "ended"
                                     ELSE liveRow[r]]
    /\ UNCHANGED <<launchRow, starting, runner, native, reportVars, excuseVars>>

Closes ==
    /\ closing.at = "finish" /\ Halted /\ Standing
    /\ RowBecomes("ended", launchRow.exec, launchRow.runner, "ended", launchRow.report,
           launchRow.resolved)
    /\ UNCHANGED <<starting, native, liveRow, reportVars, excuseVars>>

DiscardsSlot ==
    /\ OperationFree /\ slot' = "none"
    /\ discarded' = IF slot \notin {"report", "reported"} THEN discarded
                    ELSE discarded \cup {launchRow.id}
    /\ UNCHANGED <<launchRow, starting, launchProcesses, closing, ownerRetired, letters,
                   excused>>

DiscardsReport ==
    /\ OperationFree /\ slot' = "none" /\ launchRow.term \in {"required", "pending"}
    /\ RowBecomes(launchRow.phase, launchRow.exec, launchRow.runner, "unneeded", "unneeded",
           "mutation")
    /\ discarded' = discarded \cup {launchRow.id}
    /\ UNCHANGED <<starting, launchProcesses, closing, ownerRetired, letters, excused>>

-----------------------------------------------------------------------------
\* Who stops ends as a runner and leaves the closing.
LEMMA StopHalts == ASSUME LaunchInv, Stop PROVE Halted /\ Standing
<1>1. Halted
  BY DEF Stop, Halted, NotClosing, Closings
<1>2. CASE closing.by = NoRunner
  BY <1>1, <1>2 DEF Stop, Standing, LaunchInv, ProcessesOK
<1>3. CASE closing.by # NoRunner
  <2> DEFINE r == closing.by
  <2>1. r \in Runners /\ runner[r].at # "none"
    BY <1>3 DEF LaunchInv, ClosingOK, Closings, Begun
  <2> DEFINE ends == [runner[r] EXCEPT !.at = "done"]
  <2>2. runner \in [Runners -> Standings]
    BY DEF LaunchInv, ProcessesOK
  <2>3. runner' = [runner EXCEPT ![r] = ends]
    BY <1>3 DEF Stop
  <2>4. ends \in Standings /\ ends.at = "done" /\ ends.id = runner[r].id
    BY <2>1, <2>2 DEF Standings
  <2>5. runner' \in [Runners -> Standings]
    BY <2>1, <2>2, <2>3, <2>4
  <2>6. ASSUME NEW q \in Runners
        PROVE  /\ runner'[q].id = runner[q].id
               /\ \/ runner'[q].at = runner[q].at
                  \/ runner[q].at # "none" /\ runner'[q].at = "done"
    BY <2>1, <2>2, <2>3, <2>4, <2>6
  <2>7. QED
    BY <1>1, <2>5, <2>6 DEF Standing
<1>4. QED
  BY <1>1, <1>2, <1>3

\* Who goes on does nothing else.
LEMMA GoGoes ==
    ASSUME LaunchInv, NEW step \in {"save", "answered", "commit", "refused"} \cup Settling,
           Go(step)
    PROVE  Advances(step) /\ UNCHANGED runner /\ Standing
<1>1. closing \in Closings /\ runner \in [Runners -> Standings]
  BY DEF LaunchInv, ClosingOK, ProcessesOK
<1>2. closing' = [closing EXCEPT !.at = step] /\ UNCHANGED runner
  BY DEF Go
<1>3. closing' \in Closings /\ closing'.at = step /\ closing'.by = closing.by
      /\ closing'.resumed = closing.resumed
  BY <1>1, <1>2 DEF Closings
<1>4. QED
  BY <1>1, <1>2, <1>3 DEF Advances, Standing

\* A runner that gives up is done.
LEMMA DoneStands ==
    ASSUME LaunchInv, NEW r \in Runners, runner[r].at # "none",
           runner' = [runner EXCEPT ![r].at = "done"]
    PROVE  Standing
<1> DEFINE ends == [runner[r] EXCEPT !.at = "done"]
<1>1. runner \in [Runners -> Standings]
  BY DEF LaunchInv, ProcessesOK
<1>2. ends \in Standings /\ ends.at = "done" /\ ends.id = runner[r].id
  BY <1>1 DEF Standings
<1>3. runner' = [runner EXCEPT ![r] = ends]
  OBVIOUS
<1>4. runner' \in [Runners -> Standings]
  BY <1>1, <1>2, <1>3
<1>5. ASSUME NEW q \in Runners
      PROVE  /\ runner'[q].id = runner[q].id
             /\ \/ runner'[q].at = runner[q].at
                \/ runner[q].at # "none" /\ runner'[q].at = "done"
  BY <1>1, <1>2, <1>3
<1>6. QED
  BY <1>4, <1>5 DEF Standing

\* A runner that starts is given the launch of the row.
LEMMA ExecuteCommences ==
    ASSUME LaunchInv, NEW r \in Runners, Unstarted(r), Execute(r)  PROVE Commenced
<1>1. runner \in [Runners -> Standings] /\ launchRow.id \in Nat
  BY DEF LaunchInv, ProcessesOK, LaunchRowOK, LaunchRows
<1>2. [at |-> "exec", id |-> launchRow.id] \in Standings
  BY <1>1 DEF Standings
<1>3. QED
  BY <1>1, <1>2 DEF Execute, Unstarted, Commenced

\* The phase alone is set.
LEMMA PhaseSet ==
    ASSUME LaunchInv, NEW phase \in {"gated", "cancelled"},
           launchRow' = [launchRow EXCEPT !.phase = phase]
    PROVE  Phased(phase)
<1>1. launchRow \in LaunchRows
  BY DEF LaunchInv, LaunchRowOK
<1>2. QED
  BY <1>1 DEF Phased, RowBecomes, LaunchRows

\* The term alone is set, or the term and the report.
LEMMA TermSet ==
    ASSUME LaunchInv,
           NEW term \in {"required", "pending", "cleanup"},
           launchRow' = [launchRow EXCEPT !.term = term]
    PROVE  Termed(term, launchRow.report)
<1>1. launchRow \in LaunchRows
  BY DEF LaunchInv, LaunchRowOK
<1>2. QED
  BY <1>1 DEF Termed, RowBecomes, LaunchRows

\* The verdict is written to the row in one piece.
LEMMA VerdictSet ==
    ASSUME LaunchInv, NEW verdict \in {"unneeded", "confirmed", "rejected"},
           launchRow' = [launchRow EXCEPT !.term = verdict, !.report = verdict]
    PROVE  Termed(verdict, verdict)
<1>1. launchRow \in LaunchRows
  BY DEF LaunchInv, LaunchRowOK
<1>2. QED
  BY <1>1 DEF Termed, RowBecomes, LaunchRows

\* The gated launch: its row, and the runner or the wrapper that starts.
LEMMA GateCases == ASSUME LaunchInv, GateLaunch PROVE Gates
<1>1. Phased("gated")
  BY PhaseSet DEF GateLaunch
<1>2. Commenced
  <2>1. UNCHANGED runner \/ \E r \in Runners : Unstarted(r) /\ Execute(r)
    BY GlobalLaunchAssumption DEF GateLaunch, CreateWrapper, NewSession
  <2>2. UNCHANGED runner => Commenced
    BY DEF Commenced, LaunchInv, ProcessesOK
  <2>3. QED
    BY <2>1, <2>2, ExecuteCommences
<1>3. QED
  BY <1>1, <1>2 DEF GateLaunch, Gates

\* So it is for a launch gated again.
LEMMA RetryCases == ASSUME LaunchInv, RetryLaunch PROVE Retries
<1>1. Phased("gated")
  BY PhaseSet DEF RetryLaunch
<1>2. Commenced
  <2>1. UNCHANGED runner \/ \E r \in Runners : Unstarted(r) /\ Execute(r)
    BY GlobalLaunchAssumption DEF RetryLaunch, CreateWrapper, NewSession
  <2>2. UNCHANGED runner => Commenced
    BY DEF Commenced, LaunchInv, ProcessesOK
  <2>3. QED
    BY <2>1, <2>2, ExecuteCommences
<1>3. QED
  BY <1>1, <1>2 DEF RetryLaunch, Retries

\* The gated launch is executed, or the runner gives up.
LEMMA ExecuteCases ==
    ASSUME LaunchInv, NEW r \in Runners, ExecuteLaunch(r)  PROVE Executes(r) \/ Halts
<1> DEFINE mine == runner[r].id = launchRow.id /\ launchRow.phase = "gated" /\ ~ownerRetired
<1>1. CASE mine
  <2>1. launchRow \in LaunchRows /\ runner \in [Runners -> Standings]
    BY DEF LaunchInv, LaunchRowOK, ProcessesOK
  <2>2. launchRow' = [launchRow EXCEPT !.phase = "exec-unknown", !.exec = "pending",
                                       !.runner = r]
    BY <1>1 DEF ExecuteLaunch
  <2>3. RowBecomes("exec-unknown", "pending", r, launchRow.term, launchRow.report,
            launchRow.resolved)
    BY <2>1, <2>2 DEF RowBecomes, LaunchRows
  <2>4. runner' = [runner EXCEPT ![r].at = "spawn"]
    BY <1>1 DEF ExecuteLaunch
  <2>5. [runner[r] EXCEPT !.at = "spawn"] = [at |-> "spawn", id |-> runner[r].id]
    BY <2>1 DEF Standings
  <2>6. QED
    BY <1>1, <2>1, <2>3, <2>4, <2>5 DEF ExecuteLaunch, Executes
<1>2. CASE ~mine
  <2>1. Standing
    BY <1>2, DoneStands DEF ExecuteLaunch
  <2>2. QED
    BY <1>2, <2>1 DEF ExecuteLaunch, Halts
<1>3. QED
  BY <1>1, <1>2

\* Who dies inside end_launch leaves it.
LEMMA DiesCases ==
    ASSUME LaunchInv, CloserDies \/ \E r \in Runners : RunnerDies(r)  PROVE Halts
<1>1. NotClosing \in Closings
  BY DEF NotClosing, Closings
<1>2. CASE CloserDies
  BY <1>1, <1>2 DEF CloserDies, Halts, Halted, NotClosing, Standing, LaunchInv, ProcessesOK,
     launchProcesses
<1>3. ASSUME NEW r \in Runners, RunnerDies(r)  PROVE Halts
  <2>1. Standing
    BY <1>3, DoneStands DEF RunnerDies, Alive
  <2>2. Halted \/ UNCHANGED closing
    BY <1>1, <1>3 DEF RunnerDies, Halted, NotClosing
  <2>3. QED
    BY <1>3, <2>1, <2>2 DEF RunnerDies, Halts
<1>4. QED
  BY <1>2, <1>3

\* end_launch begins for a launch that is over.
LEMMA BeginsCases ==
    ASSUME LaunchInv, NEW by \in Runners \cup {NoRunner}, NEW named, Begins(by, named),
           by \in Runners => runner[by].at # "none"
    PROVE  BeginsToEnd(by)
<1>1. \/ launchRow.term # "none" /\ UNCHANGED launchRow
      \/ launchRow.term = "none" /\ Termed("required", launchRow.report)
      \/ launchRow.term = "none" /\ Termed("unneeded", "unneeded")
  BY TermSet, VerdictSet DEF Begins
<1>2. /\ closing' \in Closings /\ closing'.by = by
      /\ closing'.at = IF launchRow'.term \in {"required", "pending"} THEN "report"
                       ELSE "settle"
  BY DEF Begins, Closings, Settling
<1>3. /\ OperationFree /\ launchRow.id # 0 /\ launchRow.exec # "none"
      /\ launchRow.exec \in {"exited", "not-started"} \/ launchRow.resolved = "ended"
      /\ UNCHANGED <<starting, launchProcesses, reportVars, excuseVars>>
  BY DEF Begins, MayEnd
<1>4. QED
  BY <1>1, <1>2, <1>3 DEF BeginsToEnd

\* A runner begins to end its launch, or finds it may not.
LEMMA EndsCases ==
    ASSUME LaunchInv, NEW r \in Runners, RunnerEnds(r)  PROVE BeginsToEnd(r) \/ Halts
<1>1. runner[r].at # "none" /\ r \in Runners \cup {NoRunner}
  BY DEF RunnerEnds
<1>2. CASE \E named : Begins(r, named)
  BY <1>1, <1>2, BeginsCases
<1>3. CASE ~\E named : Begins(r, named)
  <2>1. Standing
    BY <1>1, <1>3, DoneStands DEF RunnerEnds
  <2>2. UNCHANGED <<launchRow, starting, native, liveRow, closing, reportVars, excuseVars>>
    BY <1>3 DEF RunnerEnds
  <2>3. QED
    BY <2>1, <2>2 DEF Halts
<1>4. QED
  BY <1>2, <1>3

\* The operator has no runner.
LEMMA ReplayCases == ASSUME LaunchInv, ReplayEnd PROVE BeginsToEnd(NoRunner)
<1>1. NoRunner \notin Runners /\ NoRunner \in Runners \cup {NoRunner}
  BY GlobalLaunchAssumption
<1>2. QED
  BY <1>1, BeginsCases DEF ReplayEnd

\* The report is made ready, or the slot or the server forbids it.
LEMMA ReportCases ==
    ASSUME LaunchInv, StartReport \/ SaveReport
    PROVE  StartsReport \/ SavesReport \/ Halts
<1>1. CASE StartReport
  <2>1. CASE ownerRetired
    BY <1>1, <2>1, StopHalts DEF StartReport, Halts
  <2>2. CASE ~ownerRetired
    BY <1>1, <2>2, GoGoes, TermSet DEF StartReport, StartsReport, launchProcesses
  <2>3. QED
    BY <2>1, <2>2
<1>2. CASE SaveReport
  <2>1. CASE Stop /\ UNCHANGED slot
    BY <1>2, <2>1, StopHalts DEF SaveReport, Halts, reportVars
  <2>2. CASE ~(Stop /\ UNCHANGED slot)
    <3>1. closing \in Closings
      BY DEF LaunchInv, ClosingOK
    <3>2. /\ closing' = [closing EXCEPT !.at = "send", !.resumed = slot # "none"]
          /\ UNCHANGED runner /\ slot \in {"none", "report", "reported"}
          /\ slot' = IF slot = "none" THEN "report" ELSE slot
      BY <1>2, <2>2 DEF SaveReport
    <3>3. /\ closing' \in Closings /\ closing'.at = "send" /\ closing'.by = closing.by
          /\ closing'.resumed = (slot # "none")
      BY <3>1, <3>2 DEF Closings
    <3>4. QED
      BY <1>2, <3>2, <3>3 DEF SaveReport, SavesReport, launchProcesses
  <2>3. QED
    BY <2>1, <2>2
<1>3. QED
  BY <1>1, <1>2

\* The report has its answer, is refused, or its answer is lost.
LEMMA SendCases ==
    ASSUME LaunchInv, SendReport  PROVE Answered \/ TurnedDown \/ AnswerLost \/ Halts
<1>1. CASE letters' = letters \cup {launchRow.id} /\ Go("answered")
  BY <1>1, GoGoes DEF SendReport, Answered, launchProcesses
<1>2. CASE UNCHANGED letters /\ (launchRow.id \notin letters \/ Definitive) /\ Go("refused")
  BY <1>2, GoGoes DEF SendReport, TurnedDown, launchProcesses, reportVars
<1>3. CASE letters' \in {letters, letters \cup {launchRow.id}} /\ Stop
  BY <1>3, StopHalts DEF SendReport, AnswerLost
<1>4. QED
  BY <1>1, <1>2, <1>3 DEF SendReport

\* The verdict is written into the slot, then into the row.
LEMMA VerdictCases ==
    ASSUME LaunchInv, CommitReport \/ ConfirmReport \/ RejectReport
    PROVE  CommitsReport \/ Judges("commit", "confirmed") \/ Judges("refused", "rejected")
<1>1. CASE CommitReport
  BY <1>1, GoGoes DEF CommitReport, CommitsReport, launchProcesses
<1>2. CASE ConfirmReport
  <2>1. Termed("confirmed", "confirmed") /\ Advances("clear") /\ UNCHANGED runner
    BY <1>2, GoGoes, VerdictSet DEF ConfirmReport, Settling
  <2>2. QED
    BY <1>2, <2>1 DEF ConfirmReport, Judges, launchProcesses
<1>3. CASE RejectReport
  <2>1. Termed("rejected", "rejected") /\ Advances("clear") /\ UNCHANGED runner
    BY <1>3, GoGoes, VerdictSet DEF RejectReport, Settling
  <2>2. QED
    BY <1>3, <2>1 DEF RejectReport, Judges, launchProcesses
<1>4. QED
  BY <1>1, <1>2, <1>3

\* Halted or on its way, with the slot and the owner as they may be.
LEMMA Onward ==
    ASSUME LaunchInv, closing.at \in Settling, SlotOK',
           Stop \/ \E step \in Settling : Go(step),
           UNCHANGED <<launchRow, starting, native, liveRow, letters, excuseVars>>
    PROVE  Proceeds
<1>1. Standing /\ (Halted \/ \E step \in Settling : Advances(step))
  BY StopHalts, GoGoes
<1>2. QED
  BY <1>1 DEF Proceeds

\* What comes after the report changes the slot, the owner and the place only.
LEMMA SettleCases ==
    ASSUME LaunchInv,
           ClearSlot \/ SettleSlot \/ SaveRetirement \/ RetireByEnd \/ ClearRetirement
    PROVE  Proceeds
<1>1. SlotOK
  BY DEF LaunchInv
<1>2. closing.at \in Settling
  BY DEF ClearSlot, SettleSlot, SaveRetirement, RetireByEnd, ClearRetirement, Settling
<1>3. Stop \/ \E step \in Settling : Go(step)
  BY DEF ClearSlot, SettleSlot, SaveRetirement, RetireByEnd, ClearRetirement, Settling
<1>4. SlotOK'
  BY <1>1 DEF ClearSlot, SettleSlot, SaveRetirement, RetireByEnd, ClearRetirement, SlotOK
<1>5. UNCHANGED <<launchRow, starting, native, liveRow, letters, excuseVars>>
  BY DEF ClearSlot, SettleSlot, SaveRetirement, RetireByEnd, ClearRetirement
<1>6. QED
  BY <1>2, <1>3, <1>4, <1>5, Onward

\* The cleanup begins, or the runner finds the owner retired.
LEMMA CleanupCases == ASSUME LaunchInv, StartCleanup PROVE Cleans \/ Proceeds
<1>1. CASE Stop /\ UNCHANGED launchRow
  <2>1. SlotOK' /\ closing.at \in Settling
    BY DEF LaunchInv, SlotOK, StartCleanup, reportVars, Settling
  <2>2. QED
    BY <1>1, <2>1, Onward DEF StartCleanup, reportVars
<1>2. CASE ~(Stop /\ UNCHANGED launchRow)
  <2>1. Termed("cleanup", launchRow.report) /\ Advances("retire") /\ UNCHANGED runner
    BY <1>2, GoGoes, TermSet DEF StartCleanup, Settling
  <2>2. QED
    BY <2>1 DEF StartCleanup, Cleans, launchProcesses
<1>3. QED
  BY <1>1, <1>2

\* The session rows end, then the launch.
LEMMA CloseCases ==
    ASSUME LaunchInv, EndSessionRows \/ EndLaunchRow  PROVE EndsSessions \/ Closes
<1>1. CASE EndSessionRows
  <2>1. Advances("finish") /\ UNCHANGED runner
    BY <1>1, GoGoes DEF EndSessionRows, Settling
  <2>2. QED
    BY <1>1, <2>1 DEF EndSessionRows, EndsSessions
<1>2. CASE EndLaunchRow
  <2>1. launchRow \in LaunchRows
    BY DEF LaunchInv, LaunchRowOK
  <2>2. launchRow' = [launchRow EXCEPT !.phase = "ended", !.term = "ended"]
    BY <1>2 DEF EndLaunchRow
  <2>3. RowBecomes("ended", launchRow.exec, launchRow.runner, "ended", launchRow.report,
            launchRow.resolved)
    BY <2>1, <2>2 DEF RowBecomes, LaunchRows
  <2>4. QED
    BY <1>2, <2>3, StopHalts DEF EndLaunchRow, Closes
<1>3. QED
  BY <1>1, <1>2

\* The slot is thrown away, or with it the report.
LEMMA DiscardCases ==
    ASSUME LaunchInv, DiscardMutation  PROVE DiscardsSlot \/ DiscardsReport
<1>1. CASE UNCHANGED launchRow
  BY <1>1 DEF DiscardMutation, DiscardsSlot
<1>2. CASE launchRow' # launchRow
  <2>1. launchRow \in LaunchRows
    BY DEF LaunchInv, LaunchRowOK
  <2>2. launchRow' = [launchRow EXCEPT !.term = "unneeded", !.report = "unneeded",
                                       !.resolved = "mutation"]
    BY <1>2 DEF DiscardMutation
  <2>3. RowBecomes(launchRow.phase, launchRow.exec, launchRow.runner, "unneeded", "unneeded",
            "mutation")
    BY <2>1, <2>2 DEF RowBecomes, LaunchRows
  <2>4. QED
    BY <1>2, <2>3 DEF DiscardMutation, DiscardsReport
<1>3. QED
  BY <1>1, <1>2

\* The next launch has a row of its own.
LEMMA PrepareLaunchRowOK == ASSUME LaunchInv, PrepareLaunch PROVE LaunchRowOK'
<1> DEFINE next == launchRow.id + 1
<1>1. next \in Nat
  BY DEF LaunchInv, LaunchRowOK, LaunchRows
<1>2. launchRow' = [NoLaunchRow EXCEPT !.id = next, !.phase = "planned"]
  BY DEF PrepareLaunch
<1>3. NoLaunchRow \in LaunchRows
  BY DEF NoLaunchRow, LaunchRows
<1> HIDE DEF next
<1>4. [NoLaunchRow EXCEPT !.id = next, !.phase = "planned"] \in LaunchRows
  BY <1>1, <1>3 DEF LaunchRows
<1>5. QED
  BY <1>2, <1>4 DEF LaunchRowOK

-----------------------------------------------------------------------------
\* A new launch has a new id: no runner, no letter and no row is of it.
LEMMA PrepareLaunchKeeps ==
    ASSUME LaunchInv, PrepareLaunch
    PROVE  LaunchInv'
<1>1. ProcessesOK' /\ ClosingOK' /\ SlotOK' /\ EndedRows'
  BY DEF LaunchInv, ProcessesOK, ClosingOK, SlotOK, EndedRows,
     PrepareLaunch, launchProcesses, reportVars, excuseVars, ProviderLives
<1>2. LaunchRowOK'
  BY PrepareLaunchRowOK
<1>3. ReportsOK'
  BY DEF LaunchInv, LaunchRowOK, ReportsOK, PrepareLaunch, reportVars,
     LaunchRows
<1>4. Begun'
  BY DEF LaunchInv, LaunchRowOK, Begun, PrepareLaunch, launchProcesses,
     LaunchRows
<1>5. OpenReport'
  BY DEF LaunchInv, OpenReport, PrepareLaunch, NoLaunchRow
<1>6. ClosingReport'
  BY DEF LaunchInv, ClosingReport, PrepareLaunch, OperationFree, Settling
<1>7. SlotRemembers'
  BY DEF LaunchInv, LaunchRowOK, ReportsOK, SlotRemembers, PrepareLaunch,
     reportVars, LaunchRows
<1>8. FirstSending'
  BY DEF LaunchInv, FirstSending, PrepareLaunch, OperationFree
<1>9. ReportTruthful'
  BY DEF LaunchInv, ReportTruthful, PrepareLaunch, NoLaunchRow
<1>10. ProcessesBegin'
  BY DEF LaunchInv, LaunchRowOK, ProcessesOK, ProcessesBegin, PrepareLaunch,
     launchProcesses, LaunchRows, Standings
<1>11. OneProcess'
  BY DEF LaunchInv, LaunchRowOK, ProcessesBegin, OneProcess, PrepareLaunch,
     launchProcesses, Of, LaunchRows
<1>12. PhaseOfExec'
  BY DEF LaunchInv, PhaseOfExec, PrepareLaunch, NoLaunchRow, Unexecuted
<1>13. EndedForGood'
  BY DEF LaunchInv, EndedForGood, PrepareLaunch, NoLaunchRow, Over
<1>14. LiveSessionIsOurs'
  BY DEF LaunchInv, ProcessesBegin, LiveSessionIsOurs, PrepareLaunch,
     launchProcesses, excuseVars, ProviderLives
<1>15. QED  BY <1>1, <1>2, <1>3, <1>4, <1>5, <1>6, <1>7, <1>8, <1>9, <1>10,
     <1>11, <1>12, <1>13, <1>14 DEF LaunchInv

\* What is on disk stays.
LEMMA StartDiesKeeps ==
    ASSUME LaunchInv, StartDies
    PROVE  LaunchInv'
<1>1. /\ LaunchRowOK' /\ ProcessesOK' /\ ClosingOK' /\ SlotOK'
      /\ ReportsOK' /\ OpenReport' /\ ClosingReport' /\ SlotRemembers'
      /\ FirstSending' /\ ReportTruthful' /\ ProcessesBegin'
      /\ OneProcess' /\ PhaseOfExec' /\ EndedForGood' /\ EndedRows'
      /\ LiveSessionIsOurs'
  BY DEF LaunchInv, LaunchRowOK, ProcessesOK, ClosingOK, SlotOK, ReportsOK,
     OpenReport, ClosingReport, SlotRemembers, FirstSending, ReportTruthful,
     ProcessesBegin, OneProcess, PhaseOfExec, EndedForGood, EndedRows,
     LiveSessionIsOurs, StartDies, launchProcesses, reportVars, excuseVars, Of,
     Over, ProviderLives
<1>2. Begun'
  BY DEF LaunchInv, Begun, StartDies, launchProcesses
<1>3. QED  BY <1>1, <1>2 DEF LaunchInv

\* Gating an executed launch again is excused; any other has no process yet.
LEMMA GatesKeeps ==
    ASSUME LaunchInv, Gates
    PROVE  LaunchInv'
<1>1. ClosingOK' /\ SlotOK'
  BY DEF LaunchInv, ClosingOK, SlotOK, Gates, reportVars
<1>2. LaunchRowOK'
  BY DEF LaunchInv, LaunchRowOK, Gates, Phased, RowBecomes
<1>3. ProcessesOK'
  BY DEF LaunchInv, ProcessesOK, Gates, Commenced
<1>4. ReportsOK'
  BY DEF LaunchInv, ReportsOK, Gates, Phased, RowBecomes, reportVars
<1>5. Begun'
  BY DEF LaunchInv, Begun, Gates, Phased, RowBecomes, Commenced
<1>6. OpenReport'
  BY DEF LaunchInv, OpenReport, Gates, Phased, RowBecomes
<1>7. ClosingReport'
  BY DEF LaunchInv, ClosingReport, Gates, Phased, RowBecomes, reportVars
<1>8. SlotRemembers'
  BY DEF LaunchInv, SlotRemembers, Gates, Phased, RowBecomes, reportVars
<1>9. FirstSending'
  BY DEF LaunchInv, FirstSending, Gates, Phased, RowBecomes, reportVars
<1>10. ReportTruthful'
  BY DEF LaunchInv, ReportTruthful, Gates, Phased, RowBecomes, reportVars
<1>11. ProcessesBegin'
  BY DEF LaunchInv, Begun, ProcessesBegin, Gates, Phased, RowBecomes, Commenced,
     Standings
<1>12. OneProcess'
  BY DEF LaunchInv, ProcessesBegin, OneProcess, Gates, Phased, RowBecomes,
     Commenced, Of
<1>13. PhaseOfExec'
  BY DEF LaunchInv, PhaseOfExec, Gates, Phased, RowBecomes, Unexecuted
<1>14. EndedForGood'
  BY DEF LaunchInv, PhaseOfExec, EndedForGood, Gates, Phased, RowBecomes, Over, Of
<1>15. EndedRows'
  BY DEF LaunchInv, ProcessesBegin, EndedRows, Gates, Commenced,
     ProviderLives
<1>16. LiveSessionIsOurs'
  BY DEF LaunchInv, PhaseOfExec, LiveSessionIsOurs, Gates, Phased, RowBecomes,
     Commenced, ProviderLives
<1>17. QED  BY <1>1, <1>2, <1>3, <1>4, <1>5, <1>6, <1>7, <1>8, <1>9, <1>10,
     <1>11, <1>12, <1>13, <1>14, <1>15, <1>16 DEF LaunchInv

\* A launch gated again was never executed.
LEMMA RetriesKeeps ==
    ASSUME LaunchInv, Retries
    PROVE  LaunchInv'
<1>1. ClosingOK' /\ SlotOK'
  BY DEF LaunchInv, ClosingOK, SlotOK, Retries, reportVars
<1>2. LaunchRowOK'
  BY DEF LaunchInv, LaunchRowOK, Retries, Phased, RowBecomes
<1>3. ProcessesOK'
  BY DEF LaunchInv, ProcessesOK, Retries, Commenced
<1>4. ReportsOK'
  BY DEF LaunchInv, ReportsOK, Retries, Phased, RowBecomes, reportVars
<1>5. Begun'
  BY DEF LaunchInv, Begun, Retries, Phased, RowBecomes, Commenced
<1>6. OpenReport'
  BY DEF LaunchInv, OpenReport, Retries, Phased, RowBecomes
<1>7. ClosingReport'
  BY DEF LaunchInv, ClosingReport, Retries, Phased, RowBecomes, reportVars,
     excuseVars
<1>8. SlotRemembers'
  BY DEF LaunchInv, SlotRemembers, Retries, Phased, RowBecomes, reportVars,
     excuseVars
<1>9. FirstSending'
  BY DEF LaunchInv, FirstSending, Retries, Phased, RowBecomes, reportVars,
     excuseVars
<1>10. ReportTruthful'
  BY DEF LaunchInv, ReportTruthful, Retries, Phased, RowBecomes, reportVars,
     excuseVars
<1>11. ProcessesBegin'
  BY DEF LaunchInv, Begun, ProcessesBegin, Retries, Phased, RowBecomes, Commenced,
     Standings
<1>12. OneProcess'
  BY DEF LaunchInv, ProcessesBegin, OneProcess, Retries, Phased, RowBecomes,
     Commenced, excuseVars, Of
<1>13. PhaseOfExec'
  BY DEF LaunchInv, PhaseOfExec, Retries, Phased, RowBecomes, excuseVars,
     Unexecuted
<1>14. EndedForGood'
  BY DEF LaunchInv, PhaseOfExec, EndedForGood, Retries, Phased, RowBecomes,
     excuseVars, Over, Of
<1>15. EndedRows'
  BY DEF LaunchInv, ProcessesBegin, EndedRows, Retries, Commenced,
     excuseVars, ProviderLives
<1>16. LiveSessionIsOurs'
  BY DEF LaunchInv, PhaseOfExec, LiveSessionIsOurs, Retries, Phased, RowBecomes,
     Commenced, excuseVars, ProviderLives
<1>17. QED  BY <1>1, <1>2, <1>3, <1>4, <1>5, <1>6, <1>7, <1>8, <1>9, <1>10,
     <1>11, <1>12, <1>13, <1>14, <1>15, <1>16 DEF LaunchInv

\* A launch that was not executed has no process.
LEMMA CancelLaunchKeeps ==
    ASSUME LaunchInv, CancelLaunch
    PROVE  LaunchInv'
<1>1. ProcessesOK' /\ ClosingOK' /\ SlotOK' /\ EndedRows'
  BY DEF LaunchInv, ProcessesOK, ClosingOK, SlotOK, EndedRows, CancelLaunch,
     launchProcesses, reportVars, excuseVars, ProviderLives
<1>2. LaunchRowOK'
  BY DEF LaunchInv, LaunchRowOK, CancelLaunch, LaunchRows
<1>3. ReportsOK'
  BY DEF LaunchInv, ReportsOK, CancelLaunch, reportVars
<1>4. Begun'
  BY DEF LaunchInv, Begun, CancelLaunch, launchProcesses
<1>5. OpenReport'
  BY DEF LaunchInv, OpenReport, CancelLaunch
<1>6. ClosingReport'
  BY DEF LaunchInv, ClosingReport, CancelLaunch, reportVars, excuseVars
<1>7. SlotRemembers'
  BY DEF LaunchInv, SlotRemembers, CancelLaunch, reportVars, excuseVars
<1>8. FirstSending'
  BY DEF LaunchInv, FirstSending, CancelLaunch, reportVars, excuseVars
<1>9. ReportTruthful'
  BY DEF LaunchInv, ReportTruthful, CancelLaunch, reportVars, excuseVars
<1>10. ProcessesBegin'
  BY DEF LaunchInv, ProcessesBegin, CancelLaunch, launchProcesses
<1>11. OneProcess'
  BY DEF LaunchInv, OneProcess, CancelLaunch, launchProcesses, excuseVars,
     Of
<1>12. PhaseOfExec'
  BY DEF LaunchInv, PhaseOfExec, CancelLaunch, excuseVars, Unexecuted
<1>13. EndedForGood'
  BY DEF LaunchInv, EndedForGood, CancelLaunch, launchProcesses, excuseVars,
     Over, Of
<1>14. LiveSessionIsOurs'
  BY DEF LaunchInv, OneProcess, PhaseOfExec, LiveSessionIsOurs,
     CancelLaunch, launchProcesses, excuseVars, ProviderLives, Of, Unexecuted
<1>15. QED  BY <1>1, <1>2, <1>3, <1>4, <1>5, <1>6, <1>7, <1>8, <1>9, <1>10,
     <1>11, <1>12, <1>13, <1>14 DEF LaunchInv

\* The one runner whose launch is gated makes it its own.
LEMMA ExecutesKeeps ==
    ASSUME LaunchInv, NEW r \in Runners, Executes(r)
    PROVE  LaunchInv'
<1>1. ClosingOK' /\ SlotOK'
  BY DEF LaunchInv, ClosingOK, SlotOK, Executes, reportVars
<1>2. LaunchRowOK'
  BY DEF LaunchInv, LaunchRowOK, Executes, RowBecomes
<1>3. ProcessesOK'
  BY DEF LaunchInv, ProcessesOK, Executes, Standings
<1>4. ReportsOK'
  BY DEF LaunchInv, ReportsOK, Executes, RowBecomes, reportVars
<1>5. Begun'
  BY DEF LaunchInv, Begun, Executes, RowBecomes
<1>6. OpenReport'
  BY DEF LaunchInv, OpenReport, Executes, RowBecomes
<1>7. ClosingReport'
  BY DEF LaunchInv, ClosingReport, Executes, RowBecomes, reportVars, excuseVars
<1>8. SlotRemembers'
  BY DEF LaunchInv, SlotRemembers, Executes, RowBecomes, reportVars, excuseVars
<1>9. FirstSending'
  BY DEF LaunchInv, FirstSending, Executes, RowBecomes, reportVars, excuseVars
<1>10. ReportTruthful'
  BY DEF LaunchInv, ReportTruthful, Executes, RowBecomes, reportVars, excuseVars
<1>11. ProcessesBegin'
  BY DEF LaunchInv, ProcessesBegin, Executes, RowBecomes
<1>12. OneProcess'
  BY DEF LaunchInv, OneProcess, PhaseOfExec, Executes, RowBecomes, excuseVars, Of,
     Unexecuted
<1>13. PhaseOfExec'
  BY DEF LaunchInv, PhaseOfExec, Executes, RowBecomes, Unexecuted
<1>14. EndedForGood'
  BY DEF LaunchInv, PhaseOfExec, EndedForGood, Executes, RowBecomes, excuseVars,
     Over, Of, Unexecuted
<1>15. EndedRows'
  BY DEF LaunchInv, EndedRows, Executes, excuseVars, ProviderLives
<1>16. LiveSessionIsOurs'
  BY DEF LaunchInv, LiveSessionIsOurs, Executes, RowBecomes, excuseVars,
     ProviderLives
<1>17. QED  BY <1>1, <1>2, <1>3, <1>4, <1>5, <1>6, <1>7, <1>8, <1>9, <1>10,
     <1>11, <1>12, <1>13, <1>14, <1>15, <1>16 DEF LaunchInv

\* The runner's child is of the launch the runner executes.
LEMMA SpawnShimKeeps ==
    ASSUME LaunchInv, NEW r \in Runners, SpawnShim(r)
    PROVE  LaunchInv'
<1>1. /\ ClosingOK' /\ SlotOK' /\ ReportsOK' /\ OpenReport'
      /\ ClosingReport' /\ SlotRemembers' /\ FirstSending'
      /\ ReportTruthful' /\ PhaseOfExec'
  BY DEF LaunchInv, ClosingOK, SlotOK, ReportsOK, OpenReport, ClosingReport,
     SlotRemembers, FirstSending, ReportTruthful, PhaseOfExec, SpawnShim,
     reportVars, excuseVars
<1>2. LaunchRowOK'
  BY DEF LaunchInv, LaunchRowOK, SpawnShim
<1>3. ProcessesOK'
  BY DEF LaunchInv, ProcessesOK, SpawnShim, Standings
<1>4. Begun'
  BY DEF LaunchInv, Begun, SpawnShim
<1>5. ProcessesBegin'
  BY DEF LaunchInv, ProcessesOK, ProcessesBegin, SpawnShim
<1>6. OneProcess'
  BY DEF LaunchInv, OneProcess, SpawnShim, excuseVars, Of
<1>7. EndedForGood'
  BY DEF LaunchInv, EndedForGood, SpawnShim, excuseVars, Over, Of
<1>8. EndedRows'
  BY DEF LaunchInv, EndedRows, SpawnShim, excuseVars, ProviderLives
<1>9. LiveSessionIsOurs'
  BY DEF LaunchInv, LiveSessionIsOurs, SpawnShim, excuseVars, ProviderLives
<1>10. QED  BY <1>1, <1>2, <1>3, <1>4, <1>5, <1>6, <1>7,
     <1>8, <1>9 DEF LaunchInv

\* Without a child there is no provider.
LEMMA SpawnFailsKeeps ==
    ASSUME LaunchInv, NEW r \in Runners, SpawnFails(r)
    PROVE  LaunchInv'
<1>1. ClosingOK' /\ SlotOK'
  BY DEF LaunchInv, ClosingOK, SlotOK, SpawnFails, reportVars
<1>2. LaunchRowOK'
  BY DEF LaunchInv, LaunchRowOK, SpawnFails, LaunchRows
<1>3. ProcessesOK'
  BY DEF LaunchInv, ProcessesOK, SpawnFails, Standings
<1>4. ReportsOK'
  BY DEF LaunchInv, ReportsOK, SpawnFails, reportVars
<1>5. Begun'
  BY DEF LaunchInv, Begun, SpawnFails
<1>6. OpenReport'
  BY DEF LaunchInv, OpenReport, SpawnFails
<1>7. ClosingReport'
  BY DEF LaunchInv, ClosingReport, SpawnFails, reportVars
<1>8. SlotRemembers'
  BY DEF LaunchInv, SlotRemembers, SpawnFails, reportVars
<1>9. FirstSending'
  BY DEF LaunchInv, FirstSending, SpawnFails, reportVars
<1>10. ReportTruthful'
  BY DEF LaunchInv, ReportTruthful, SpawnFails, reportVars
<1>11. ProcessesBegin'
  BY DEF LaunchInv, ProcessesBegin, SpawnFails
<1>12. OneProcess'
  BY DEF LaunchInv, OneProcess, SpawnFails, Of
<1>13. PhaseOfExec'
  BY DEF LaunchInv, PhaseOfExec, SpawnFails
<1>14. EndedForGood'
  BY DEF LaunchInv, ProcessesOK, ProcessesBegin, OneProcess, EndedForGood,
     SpawnFails, Of
<1>15. EndedRows'
  BY DEF LaunchInv, EndedRows, SpawnFails, ProviderLives
<1>16. LiveSessionIsOurs'
  BY DEF LaunchInv, LiveSessionIsOurs, SpawnFails, ProviderLives
<1>17. QED  BY <1>1, <1>2, <1>3, <1>4, <1>5, <1>6, <1>7, <1>8, <1>9, <1>10,
     <1>11, <1>12, <1>13, <1>14, <1>15, <1>16 DEF LaunchInv

\* The child becomes the provider only while its launch is pending.
LEMMA ExecProviderKeeps ==
    ASSUME LaunchInv, NEW r \in Runners, ExecProvider(r)
    PROVE  LaunchInv'
<1>1. /\ LaunchRowOK' /\ ClosingOK' /\ SlotOK' /\ ReportsOK' /\ Begun'
      /\ OpenReport' /\ ClosingReport' /\ SlotRemembers'
      /\ FirstSending' /\ ReportTruthful' /\ PhaseOfExec'
  BY DEF LaunchInv, LaunchRowOK, ClosingOK, SlotOK, ReportsOK, Begun,
     OpenReport, ClosingReport, SlotRemembers, FirstSending, ReportTruthful,
     PhaseOfExec, ExecProvider, reportVars, excuseVars
<1>2. ProcessesOK'
  BY DEF LaunchInv, ProcessesOK, ExecProvider
<1>3. ProcessesBegin'
  BY DEF LaunchInv, ProcessesBegin, ExecProvider
<1>4. OneProcess'
  BY DEF LaunchInv, OneProcess, ExecProvider, excuseVars, Of
<1>5. EndedForGood'
  BY DEF LaunchInv, EndedForGood, ExecProvider, excuseVars, Over, Of
<1>6. EndedRows'
  BY DEF LaunchInv, ProcessesBegin, EndedRows, ExecProvider, excuseVars,
     ProviderLives
<1>7. LiveSessionIsOurs'
  BY DEF LaunchInv, EndedForGood, LiveSessionIsOurs, ExecProvider,
     excuseVars, ProviderLives, Over, Of
<1>8. QED  BY <1>1, <1>2, <1>3, <1>4, <1>5, <1>6, <1>7 DEF LaunchInv

\* A session is recorded for a provider that descends from the runner.
LEMMA RecordSessionKeeps ==
    ASSUME LaunchInv, NEW r \in Runners, RecordSession(r)
    PROVE  LaunchInv'
<1>1. ClosingOK' /\ SlotOK'
  BY DEF LaunchInv, ClosingOK, SlotOK, RecordSession, reportVars
<1>2. LaunchRowOK'
  BY DEF LaunchInv, LaunchRowOK, RecordSession, LaunchRows
<1>3. ProcessesOK'
  BY DEF LaunchInv, ProcessesOK, RecordSession
<1>4. ReportsOK'
  BY DEF LaunchInv, LaunchRowOK, ReportsOK, RecordSession, reportVars,
     LaunchRows
<1>5. Begun'
  BY DEF LaunchInv, LaunchRowOK, Begun, RecordSession, LaunchRows
<1>6. OpenReport'
  BY DEF LaunchInv, LaunchRowOK, OpenReport, RecordSession, LaunchRows
<1>7. ClosingReport'
  BY DEF LaunchInv, ClosingReport, RecordSession, OperationFree, Settling
<1>8. SlotRemembers'
  BY DEF LaunchInv, LaunchRowOK, SlotRemembers, RecordSession, reportVars,
     excuseVars, LaunchRows
<1>9. FirstSending'
  BY DEF LaunchInv, FirstSending, RecordSession, OperationFree
<1>10. ReportTruthful'
  BY DEF LaunchInv, LaunchRowOK, ReportTruthful, RecordSession, reportVars,
     excuseVars, LaunchRows
<1>11. ProcessesBegin'
  BY DEF LaunchInv, LaunchRowOK, ProcessesBegin, RecordSession, Proved,
     LaunchRows
<1>12. OneProcess'
  BY DEF LaunchInv, LaunchRowOK, OneProcess, RecordSession, excuseVars, Of,
     LaunchRows
<1>13. PhaseOfExec'
  BY DEF LaunchInv, LaunchRowOK, PhaseOfExec, RecordSession, excuseVars,
     Unexecuted, LaunchRows
<1>14. EndedForGood'
  BY DEF LaunchInv, LaunchRowOK, EndedForGood, RecordSession, Proved,
     excuseVars, Over, Of, LaunchRows
<1>15. EndedRows'
  BY DEF LaunchInv, EndedRows, RecordSession, excuseVars, ProviderLives
<1>16. LiveSessionIsOurs'
  BY DEF LaunchInv, LaunchRowOK, EndedForGood, LiveSessionIsOurs,
     RecordSession, Proved, excuseVars, ProviderLives, LaunchRows, Over, Of
<1>17. QED  BY <1>1, <1>2, <1>3, <1>4, <1>5, <1>6, <1>7, <1>8, <1>9, <1>10,
     <1>11, <1>12, <1>13, <1>14, <1>15, <1>16 DEF LaunchInv

\* One process less.
LEMMA ChildExitsKeeps ==
    ASSUME LaunchInv, NEW r \in Runners, ChildExits(r)
    PROVE  LaunchInv'
<1>1. /\ LaunchRowOK' /\ ClosingOK' /\ SlotOK' /\ ReportsOK' /\ Begun'
      /\ OpenReport' /\ ClosingReport' /\ SlotRemembers'
      /\ FirstSending' /\ ReportTruthful' /\ PhaseOfExec'
  BY DEF LaunchInv, LaunchRowOK, ClosingOK, SlotOK, ReportsOK, Begun,
     OpenReport, ClosingReport, SlotRemembers, FirstSending, ReportTruthful,
     PhaseOfExec, ChildExits, reportVars, excuseVars
<1>2. ProcessesOK'
  BY DEF LaunchInv, ProcessesOK, ChildExits
<1>3. ProcessesBegin'
  BY DEF LaunchInv, ProcessesBegin, ChildExits
<1>4. OneProcess'
  BY DEF LaunchInv, OneProcess, ChildExits, excuseVars, Of
<1>5. EndedForGood'
  BY DEF LaunchInv, EndedForGood, ChildExits, excuseVars, Over, Of
<1>6. EndedRows'
  BY DEF LaunchInv, EndedRows, ChildExits, excuseVars, ProviderLives
<1>7. LiveSessionIsOurs'
  BY DEF LaunchInv, LiveSessionIsOurs, ChildExits, excuseVars, ProviderLives
<1>8. QED  BY <1>1, <1>2, <1>3, <1>4, <1>5, <1>6, <1>7 DEF LaunchInv

\* What the child forked lives on.
LEMMA ShimExitsKeeps ==
    ASSUME LaunchInv, NEW r \in Runners, ShimExits(r)
    PROVE  LaunchInv'
<1>1. /\ LaunchRowOK' /\ ClosingOK' /\ SlotOK' /\ ReportsOK' /\ Begun'
      /\ OpenReport' /\ ClosingReport' /\ SlotRemembers'
      /\ FirstSending' /\ ReportTruthful' /\ PhaseOfExec'
  BY DEF LaunchInv, LaunchRowOK, ClosingOK, SlotOK, ReportsOK, Begun,
     OpenReport, ClosingReport, SlotRemembers, FirstSending, ReportTruthful,
     PhaseOfExec, ShimExits, reportVars, excuseVars
<1>2. ProcessesOK'
  BY DEF LaunchInv, ProcessesOK, ShimExits
<1>3. ProcessesBegin'
  BY DEF LaunchInv, ProcessesBegin, ShimExits
<1>4. OneProcess'
  BY DEF LaunchInv, OneProcess, ShimExits, excuseVars, Of
<1>5. EndedForGood'
  BY DEF LaunchInv, EndedForGood, ShimExits, excuseVars, Over, Of
<1>6. EndedRows'
  BY DEF LaunchInv, EndedRows, ShimExits, excuseVars, ProviderLives
<1>7. LiveSessionIsOurs'
  BY DEF LaunchInv, LiveSessionIsOurs, ShimExits, excuseVars, ProviderLives
<1>8. QED  BY <1>1, <1>2, <1>3, <1>4, <1>5, <1>6, <1>7 DEF LaunchInv

\* One process less.
LEMMA SurvivorExitsKeeps ==
    ASSUME LaunchInv, NEW r \in Runners, SurvivorExits(r)
    PROVE  LaunchInv'
<1>1. /\ LaunchRowOK' /\ ClosingOK' /\ SlotOK' /\ ReportsOK' /\ Begun'
      /\ OpenReport' /\ ClosingReport' /\ SlotRemembers'
      /\ FirstSending' /\ ReportTruthful' /\ PhaseOfExec'
  BY DEF LaunchInv, LaunchRowOK, ClosingOK, SlotOK, ReportsOK, Begun,
     OpenReport, ClosingReport, SlotRemembers, FirstSending, ReportTruthful,
     PhaseOfExec, SurvivorExits, reportVars, excuseVars
<1>2. ProcessesOK'
  BY DEF LaunchInv, ProcessesOK, SurvivorExits
<1>3. ProcessesBegin'
  BY DEF LaunchInv, ProcessesBegin, SurvivorExits
<1>4. OneProcess'
  BY DEF LaunchInv, OneProcess, SurvivorExits, excuseVars, Of
<1>5. EndedForGood'
  BY DEF LaunchInv, EndedForGood, SurvivorExits, excuseVars, Over, Of
<1>6. EndedRows'
  BY DEF LaunchInv, EndedRows, SurvivorExits, excuseVars, ProviderLives
<1>7. LiveSessionIsOurs'
  BY DEF LaunchInv, LiveSessionIsOurs, SurvivorExits, excuseVars,
     ProviderLives
<1>8. QED  BY <1>1, <1>2, <1>3, <1>4, <1>5, <1>6, <1>7 DEF LaunchInv

\* A recorded session that lives makes the outcome unknown.
LEMMA RecordExitKeeps ==
    ASSUME LaunchInv, NEW r \in Runners, RecordExit(r)
    PROVE  LaunchInv'
<1>1. ClosingOK' /\ SlotOK'
  BY DEF LaunchInv, ClosingOK, SlotOK, RecordExit, reportVars
<1>2. LaunchRowOK'
  BY DEF LaunchInv, LaunchRowOK, RecordExit, Outcome, LaunchRows
<1>3. ProcessesOK'
  BY DEF LaunchInv, ProcessesOK, RecordExit, Standings
<1>4. ReportsOK'
  BY DEF LaunchInv, LaunchRowOK, ReportsOK, RecordExit, reportVars,
     LaunchRows
<1>5. Begun'
  BY DEF LaunchInv, LaunchRowOK, ProcessesOK, Begun, RecordExit, LaunchRows,
     Standings
<1>6. OpenReport'
  BY DEF LaunchInv, LaunchRowOK, OpenReport, RecordExit, LaunchRows
<1>7. ClosingReport'
  BY DEF LaunchInv, ClosingReport, RecordExit, OperationFree, Settling
<1>8. SlotRemembers'
  BY DEF LaunchInv, LaunchRowOK, SlotRemembers, RecordExit, reportVars,
     excuseVars, LaunchRows
<1>9. FirstSending'
  BY DEF LaunchInv, FirstSending, RecordExit, OperationFree
<1>10. ReportTruthful'
  BY DEF LaunchInv, LaunchRowOK, ReportTruthful, RecordExit, reportVars,
     excuseVars, LaunchRows
<1>11. ProcessesBegin'
  BY DEF LaunchInv, LaunchRowOK, ProcessesOK, ClosingOK, ProcessesBegin,
     RecordExit, excuseVars, LaunchRows, Standings
<1>12. OneProcess'
  BY DEF LaunchInv, LaunchRowOK, ProcessesOK, OpenReport, OneProcess,
     RecordExit, Outcome, excuseVars, Of, LaunchRows, Standings
<1>13. PhaseOfExec'
  BY DEF LaunchInv, LaunchRowOK, OneProcess, PhaseOfExec, RecordExit,
     Outcome, excuseVars, LaunchRows, Of
<1>14. EndedForGood'
  BY GlobalLaunchAssumption DEF LaunchInv, LaunchRowOK, ProcessesOK,
     OneProcess, EndedForGood, EndedRows, RecordExit, Outcome, LiveRows,
     ProviderLives, excuseVars, Over, Of, LaunchRows, Standings
<1>15. EndedRows'
  BY DEF LaunchInv, ProcessesOK, EndedRows, RecordExit, ProviderLives,
     excuseVars, Standings
<1>16. LiveSessionIsOurs'
  BY GlobalLaunchAssumption DEF LaunchInv, LaunchRowOK, ProcessesOK,
     EndedRows, LiveSessionIsOurs, RecordExit, OperationFree, Outcome,
     ProviderLives, excuseVars, LaunchRows, Standings
<1>17. QED  BY <1>1, <1>2, <1>3, <1>4, <1>5, <1>6, <1>7, <1>8, <1>9, <1>10,
     <1>11, <1>12, <1>13, <1>14, <1>15, <1>16 DEF LaunchInv

\* The operator gives the launch up, which ends nothing.
LEMMA ResolveAbandonedKeeps ==
    ASSUME LaunchInv, ResolveAbandoned
    PROVE  LaunchInv'
<1>1. ProcessesOK' /\ ClosingOK' /\ SlotOK' /\ EndedRows'
  BY DEF LaunchInv, ProcessesOK, ClosingOK, SlotOK, EndedRows,
     ResolveAbandoned, launchProcesses, reportVars, excuseVars, ProviderLives
<1>2. LaunchRowOK'
  BY DEF LaunchInv, LaunchRowOK, ResolveAbandoned, OperationFree,
     Resolvable, reportVars, LaunchRows
<1>3. ReportsOK'
  BY DEF LaunchInv, ReportsOK, ResolveAbandoned, reportVars
<1>4. Begun'
  BY DEF LaunchInv, Begun, ResolveAbandoned, Resolvable, launchProcesses
<1>5. OpenReport'
  BY DEF LaunchInv, OpenReport, ResolveAbandoned
<1>6. ClosingReport'
  BY DEF LaunchInv, ClosingReport, ResolveAbandoned, reportVars, excuseVars
<1>7. SlotRemembers'
  BY DEF LaunchInv, SlotRemembers, ResolveAbandoned, reportVars, excuseVars
<1>8. FirstSending'
  BY DEF LaunchInv, FirstSending, ResolveAbandoned, reportVars, excuseVars
<1>9. ReportTruthful'
  BY DEF LaunchInv, ReportTruthful, ResolveAbandoned, reportVars, excuseVars
<1>10. ProcessesBegin'
  BY DEF LaunchInv, ProcessesBegin, ResolveAbandoned, launchProcesses
<1>11. OneProcess'
  BY DEF LaunchInv, OneProcess, ResolveAbandoned, launchProcesses,
     excuseVars, Of
<1>12. PhaseOfExec'
  BY DEF LaunchInv, PhaseOfExec, ResolveAbandoned, Resolvable, excuseVars,
     Unexecuted
<1>13. EndedForGood'
  BY DEF LaunchInv, EndedForGood, ResolveAbandoned, launchProcesses,
     excuseVars, Over, Of
<1>14. LiveSessionIsOurs'
  BY DEF LaunchInv, LiveSessionIsOurs, ResolveAbandoned, launchProcesses,
     excuseVars, ProviderLives
<1>15. QED  BY <1>1, <1>2, <1>3, <1>4, <1>5, <1>6, <1>7, <1>8, <1>9, <1>10,
     <1>11, <1>12, <1>13, <1>14 DEF LaunchInv

\* The operator finds the provider.
LEMMA ResolveRunningKeeps ==
    ASSUME LaunchInv, ResolveRunning
    PROVE  LaunchInv'
<1>1. ProcessesOK' /\ ClosingOK' /\ SlotOK' /\ EndedRows'
  BY DEF LaunchInv, ProcessesOK, ClosingOK, SlotOK, EndedRows,
     ResolveRunning, launchProcesses, reportVars, excuseVars, ProviderLives
<1>2. LaunchRowOK'
  BY DEF LaunchInv, LaunchRowOK, ResolveRunning, LaunchRows
<1>3. ReportsOK'
  BY DEF LaunchInv, ReportsOK, ResolveRunning, reportVars
<1>4. Begun'
  BY DEF LaunchInv, Begun, ResolveRunning, Resolvable, launchProcesses
<1>5. OpenReport'
  BY DEF LaunchInv, OpenReport, ResolveRunning
<1>6. ClosingReport'
  BY DEF LaunchInv, ClosingReport, ResolveRunning, reportVars, excuseVars
<1>7. SlotRemembers'
  BY DEF LaunchInv, SlotRemembers, ResolveRunning, reportVars, excuseVars
<1>8. FirstSending'
  BY DEF LaunchInv, FirstSending, ResolveRunning, reportVars, excuseVars
<1>9. ReportTruthful'
  BY DEF LaunchInv, ReportTruthful, ResolveRunning, reportVars, excuseVars
<1>10. ProcessesBegin'
  BY DEF LaunchInv, ProcessesBegin, ResolveRunning, launchProcesses
<1>11. OneProcess'
  BY DEF LaunchInv, OneProcess, ResolveRunning, launchProcesses, excuseVars,
     Of
<1>12. PhaseOfExec'
  BY DEF LaunchInv, PhaseOfExec, ResolveRunning, Unexecuted
<1>13. EndedForGood'
  BY DEF LaunchInv, EndedForGood, ResolveRunning, launchProcesses,
     excuseVars, Over, Of
<1>14. LiveSessionIsOurs'
  BY DEF LaunchInv, LiveSessionIsOurs, ResolveRunning, launchProcesses,
     excuseVars, ProviderLives
<1>15. QED  BY <1>1, <1>2, <1>3, <1>4, <1>5, <1>6, <1>7, <1>8, <1>9, <1>10,
     <1>11, <1>12, <1>13, <1>14 DEF LaunchInv

\* An operator who ends a launch under its process is mistaken, and excused.
LEMMA ResolveEndedKeeps ==
    ASSUME LaunchInv, ResolveEnded
    PROVE  LaunchInv'
<1>1. ClosingOK' /\ SlotOK'
  BY DEF LaunchInv, ClosingOK, SlotOK, ResolveEnded, reportVars
<1>2. LaunchRowOK'
  BY DEF LaunchInv, LaunchRowOK, ResolveEnded, Resolvable, LaunchRows
<1>3. ProcessesOK'
  BY DEF LaunchInv, ProcessesOK, ResolveEnded
<1>4. ReportsOK'
  BY DEF LaunchInv, ReportsOK, ResolveEnded, reportVars
<1>5. Begun'
  BY DEF LaunchInv, Begun, ResolveEnded, Resolvable
<1>6. OpenReport'
  BY DEF LaunchInv, OpenReport, ResolveEnded
<1>7. ClosingReport'
  BY DEF LaunchInv, ClosingReport, ResolveEnded, reportVars
<1>8. SlotRemembers'
  BY DEF LaunchInv, SlotRemembers, ResolveEnded, reportVars
<1>9. FirstSending'
  BY DEF LaunchInv, FirstSending, ResolveEnded, reportVars
<1>10. ReportTruthful'
  BY DEF LaunchInv, ReportTruthful, ResolveEnded, reportVars
<1>11. ProcessesBegin'
  BY DEF LaunchInv, ProcessesBegin, ResolveEnded, LiveRows
<1>12. OneProcess'
  BY DEF LaunchInv, OneProcess, ResolveEnded, Of
<1>13. PhaseOfExec'
  BY DEF LaunchInv, PhaseOfExec, ResolveEnded, Resolvable, Unexecuted
<1>14. EndedForGood'
  BY DEF LaunchInv, EndedForGood, ResolveEnded, Mistaken, Of
<1>15. EndedRows'
  BY DEF LaunchInv, EndedRows, ResolveEnded, ProviderLives
<1>16. LiveSessionIsOurs'
  BY DEF LaunchInv, LiveSessionIsOurs, ResolveEnded, ProviderLives, Mistaken
<1>17. QED  BY <1>1, <1>2, <1>3, <1>4, <1>5, <1>6, <1>7, <1>8, <1>9, <1>10,
     <1>11, <1>12, <1>13, <1>14, <1>15, <1>16 DEF LaunchInv

\* Nothing but the place of a process changes.
LEMMA HaltsKeeps ==
    ASSUME LaunchInv, Halts
    PROVE  LaunchInv'
<1>1. /\ SlotOK' /\ ReportsOK' /\ OpenReport' /\ SlotRemembers'
      /\ ReportTruthful' /\ PhaseOfExec'
  BY DEF LaunchInv, SlotOK, ReportsOK, OpenReport, SlotRemembers,
     ReportTruthful, PhaseOfExec, Halts, reportVars, excuseVars
<1>2. LaunchRowOK'
  BY DEF LaunchInv, LaunchRowOK, Halts
<1>3. ProcessesOK'
  BY DEF LaunchInv, ProcessesOK, Halts, Standing
<1>4. ClosingOK'
  BY DEF LaunchInv, ClosingOK, Halts, Halted
<1>5. Begun'
  BY GlobalLaunchAssumption DEF LaunchInv, Begun, Halts, Standing, Halted
<1>6. ClosingReport'
  BY DEF LaunchInv, ClosingReport, Halts, Halted, Settling, reportVars,
     excuseVars
<1>7. FirstSending'
  BY DEF LaunchInv, FirstSending, Halts, Halted, reportVars, excuseVars
<1>8. ProcessesBegin'
  BY DEF LaunchInv, ProcessesBegin, Halts, Standing
<1>9. OneProcess'
  BY DEF LaunchInv, OneProcess, Halts, Standing, excuseVars, Of
<1>10. EndedForGood'
  BY DEF LaunchInv, EndedForGood, Halts, Standing, excuseVars, Over, Of
<1>11. EndedRows'
  BY DEF LaunchInv, EndedRows, Halts, Standing, excuseVars, ProviderLives
<1>12. LiveSessionIsOurs'
  BY DEF LaunchInv, LiveSessionIsOurs, Halts, Standing, excuseVars,
     ProviderLives
<1>13. QED  BY <1>1, <1>2, <1>3, <1>4, <1>5, <1>6, <1>7, <1>8, <1>9, <1>10,
     <1>11, <1>12 DEF LaunchInv

\* A launch that is over has no living session.
LEMMA BeginsToEndKeeps ==
    ASSUME LaunchInv, NEW by \in Runners \cup {NoRunner}, BeginsToEnd(by)
    PROVE  LaunchInv'
<1>1. ProcessesOK' /\ SlotOK' /\ EndedRows'
  BY DEF LaunchInv, ProcessesOK, SlotOK, EndedRows, BeginsToEnd,
     launchProcesses, reportVars, excuseVars, ProviderLives
<1>2. LaunchRowOK'
  BY DEF LaunchInv, LaunchRowOK, BeginsToEnd, Termed, RowBecomes
<1>3. ClosingOK'
  BY DEF LaunchInv, ClosingOK, BeginsToEnd
<1>4. ReportsOK'
  BY DEF LaunchInv, ReportsOK, BeginsToEnd, Termed, RowBecomes, reportVars
<1>5. Begun'
  BY DEF LaunchInv, Begun, BeginsToEnd, Termed, RowBecomes, launchProcesses
<1>6. OpenReport'
  BY DEF LaunchInv, OpenReport, BeginsToEnd, Termed, RowBecomes
<1>7. ClosingReport'
  BY DEF LaunchInv, OpenReport, ClosingReport, BeginsToEnd, Termed, RowBecomes,
     Settling
<1>8. SlotRemembers'
  BY DEF LaunchInv, SlotRemembers, BeginsToEnd, Termed, RowBecomes, reportVars,
     excuseVars
<1>9. FirstSending'
  BY DEF LaunchInv, FirstSending, BeginsToEnd
<1>10. ReportTruthful'
  BY DEF LaunchInv, ReportTruthful, BeginsToEnd, Termed, RowBecomes, reportVars,
     excuseVars
<1>11. ProcessesBegin'
  BY DEF LaunchInv, ProcessesBegin, BeginsToEnd, Termed, RowBecomes,
     launchProcesses
<1>12. OneProcess'
  BY DEF LaunchInv, OneProcess, BeginsToEnd, Termed, RowBecomes, launchProcesses,
     excuseVars, Of
<1>13. PhaseOfExec'
  BY DEF LaunchInv, PhaseOfExec, BeginsToEnd, Termed, RowBecomes, excuseVars
<1>14. EndedForGood'
  BY DEF LaunchInv, EndedForGood, BeginsToEnd, Termed, RowBecomes, launchProcesses,
     excuseVars, Over, Of
<1>15. LiveSessionIsOurs'
  BY DEF LaunchInv, EndedForGood, LiveSessionIsOurs, BeginsToEnd,
     launchProcesses, excuseVars, ProviderLives, Over, Of
<1>16. QED  BY <1>1, <1>2, <1>3, <1>4, <1>5, <1>6, <1>7, <1>8, <1>9, <1>10,
     <1>11, <1>12, <1>13, <1>14, <1>15 DEF LaunchInv

\* The report is pending before it is sent.
LEMMA StartsReportKeeps ==
    ASSUME LaunchInv, StartsReport
    PROVE  LaunchInv'
<1>1. ProcessesOK' /\ SlotOK' /\ EndedRows'
  BY DEF LaunchInv, ProcessesOK, SlotOK, EndedRows, StartsReport,
     launchProcesses, reportVars, excuseVars, ProviderLives
<1>2. LaunchRowOK'
  BY DEF LaunchInv, LaunchRowOK, StartsReport, Termed, RowBecomes
<1>3. ClosingOK'
  BY DEF LaunchInv, ClosingOK, StartsReport, Advances
<1>4. ReportsOK'
  BY DEF LaunchInv, ReportsOK, StartsReport, Termed, RowBecomes, reportVars
<1>5. Begun'
  BY DEF LaunchInv, Begun, StartsReport, Termed, RowBecomes, Advances, launchProcesses
<1>6. OpenReport'
  BY DEF LaunchInv, OpenReport, ClosingReport, StartsReport, Termed, RowBecomes
<1>7. ClosingReport'
  BY DEF LaunchInv, ClosingReport, StartsReport, Termed, RowBecomes, Advances, Settling
<1>8. SlotRemembers'
  BY DEF LaunchInv, SlotRemembers, StartsReport, Termed, RowBecomes, reportVars,
     excuseVars
<1>9. FirstSending'
  BY DEF LaunchInv, FirstSending, StartsReport, Advances
<1>10. ReportTruthful'
  BY DEF LaunchInv, ReportTruthful, StartsReport, Termed, RowBecomes, reportVars,
     excuseVars
<1>11. ProcessesBegin'
  BY DEF LaunchInv, ProcessesBegin, StartsReport, Termed, RowBecomes,
     launchProcesses
<1>12. OneProcess'
  BY DEF LaunchInv, OneProcess, StartsReport, Termed, RowBecomes, launchProcesses,
     excuseVars, Of
<1>13. PhaseOfExec'
  BY DEF LaunchInv, ClosingReport, PhaseOfExec, StartsReport, Termed, RowBecomes,
     excuseVars
<1>14. EndedForGood'
  BY DEF LaunchInv, ClosingReport, EndedForGood, StartsReport, Termed, RowBecomes,
     launchProcesses, excuseVars, Over, Of
<1>15. LiveSessionIsOurs'
  BY DEF LaunchInv, ClosingReport, LiveSessionIsOurs, StartsReport,
     launchProcesses, excuseVars, ProviderLives
<1>16. QED  BY <1>1, <1>2, <1>3, <1>4, <1>5, <1>6, <1>7, <1>8, <1>9, <1>10,
     <1>11, <1>12, <1>13, <1>14, <1>15 DEF LaunchInv

\* The slot tells a report that may have been sent from one that was not.
LEMMA SavesReportKeeps ==
    ASSUME LaunchInv, SavesReport
    PROVE  LaunchInv'
<1>1. /\ LaunchRowOK' /\ ProcessesOK' /\ ReportsOK' /\ OpenReport'
      /\ ReportTruthful' /\ ProcessesBegin' /\ OneProcess'
      /\ PhaseOfExec' /\ EndedForGood' /\ EndedRows'
      /\ LiveSessionIsOurs'
  BY DEF LaunchInv, LaunchRowOK, ProcessesOK, ReportsOK, OpenReport,
     ReportTruthful, ProcessesBegin, OneProcess, PhaseOfExec, EndedForGood,
     EndedRows, LiveSessionIsOurs, SavesReport, launchProcesses, excuseVars,
     Of, Over, ProviderLives
<1>2. ClosingOK'
  BY DEF LaunchInv, ClosingOK, SavesReport
<1>3. SlotOK'
  BY DEF LaunchInv, SlotOK, SavesReport
<1>4. Begun'
  BY DEF LaunchInv, Begun, SavesReport, launchProcesses
<1>5. ClosingReport'
  BY DEF LaunchInv, ClosingReport, SavesReport, Settling
<1>6. SlotRemembers'
  BY DEF LaunchInv, SlotRemembers, SavesReport
<1>7. FirstSending'
  BY DEF LaunchInv, OpenReport, ClosingReport, SlotRemembers, FirstSending,
     SavesReport, Closings, excuseVars
<1>8. QED  BY <1>1, <1>2, <1>3, <1>4, <1>5, <1>6, <1>7 DEF LaunchInv

\* Mail has the report.
LEMMA AnsweredKeeps ==
    ASSUME LaunchInv, Answered
    PROVE  LaunchInv'
<1>1. /\ LaunchRowOK' /\ ProcessesOK' /\ SlotOK' /\ OpenReport'
      /\ ProcessesBegin' /\ OneProcess' /\ PhaseOfExec' /\ EndedForGood'
      /\ EndedRows' /\ LiveSessionIsOurs'
  BY DEF LaunchInv, LaunchRowOK, ProcessesOK, SlotOK, OpenReport,
     ProcessesBegin, OneProcess, PhaseOfExec, EndedForGood, EndedRows,
     LiveSessionIsOurs, Answered, launchProcesses, excuseVars, Of, Over,
     ProviderLives
<1>2. ClosingOK'
  BY DEF LaunchInv, ClosingOK, Answered, Advances
<1>3. ReportsOK'
  <2>1. launchRow.id \in Nat /\ letters \subseteq 0..launchRow.id
    BY DEF LaunchInv, LaunchRowOK, LaunchRows, ReportsOK
  <2>2. launchRow.id \in 0..launchRow.id
    BY <2>1
  <2>3. QED  BY <2>1, <2>2 DEF Answered, ReportsOK
<1>4. Begun'
  BY DEF LaunchInv, Begun, Answered, Advances, launchProcesses
<1>5. ClosingReport'
  BY DEF LaunchInv, ClosingReport, Answered, Advances, Settling
<1>6. SlotRemembers'
  BY DEF LaunchInv, ClosingReport, SlotRemembers, Answered
<1>7. FirstSending'
  BY DEF LaunchInv, FirstSending, Answered, Advances
<1>8. ReportTruthful'
  BY DEF LaunchInv, OpenReport, ClosingReport, ReportTruthful, Answered
<1>9. QED  BY <1>1, <1>2, <1>3, <1>4, <1>5, <1>6, <1>7, <1>8 DEF LaunchInv

\* The slot remembers a report that may have arrived.
LEMMA AnswerLostKeeps ==
    ASSUME LaunchInv, AnswerLost
    PROVE  LaunchInv'
<1>1. SlotOK' /\ OpenReport' /\ PhaseOfExec'
  BY DEF LaunchInv, SlotOK, OpenReport, PhaseOfExec, AnswerLost, excuseVars
<1>2. LaunchRowOK'
  BY DEF LaunchInv, LaunchRowOK, AnswerLost
<1>3. ProcessesOK'
  BY DEF LaunchInv, ProcessesOK, AnswerLost, Standing
<1>4. ClosingOK'
  BY DEF LaunchInv, ClosingOK, AnswerLost, Halted
<1>5. ReportsOK'
  BY DEF LaunchInv, LaunchRowOK, ReportsOK, AnswerLost, LaunchRows
<1>6. Begun'
  BY GlobalLaunchAssumption DEF LaunchInv, Begun, AnswerLost, Halted
<1>7. ClosingReport'
  BY DEF LaunchInv, ClosingReport, AnswerLost, Halted, Settling
<1>8. SlotRemembers'
  BY DEF LaunchInv, ClosingReport, SlotRemembers, AnswerLost
<1>9. FirstSending'
  BY DEF LaunchInv, FirstSending, AnswerLost, Halted
<1>10. ReportTruthful'
  BY DEF LaunchInv, OpenReport, ClosingReport, ReportTruthful, AnswerLost
<1>11. ProcessesBegin'
  BY DEF LaunchInv, ProcessesBegin, AnswerLost, Standing
<1>12. OneProcess'
  BY DEF LaunchInv, OneProcess, AnswerLost, Standing, excuseVars, Of
<1>13. EndedForGood'
  BY DEF LaunchInv, EndedForGood, AnswerLost, Standing, excuseVars, Over, Of
<1>14. EndedRows'
  BY DEF LaunchInv, EndedRows, AnswerLost, Standing, excuseVars,
     ProviderLives
<1>15. LiveSessionIsOurs'
  BY DEF LaunchInv, LiveSessionIsOurs, AnswerLost, Standing, excuseVars,
     ProviderLives
<1>16. QED  BY <1>1, <1>2, <1>3, <1>4, <1>5, <1>6, <1>7, <1>8, <1>9, <1>10,
     <1>11, <1>12, <1>13, <1>14, <1>15 DEF LaunchInv

\* A refusal counts only of a report that was never sent before.
LEMMA TurnedDownKeeps ==
    ASSUME LaunchInv, TurnedDown
    PROVE  LaunchInv'
<1>1. /\ LaunchRowOK' /\ ProcessesOK' /\ SlotOK' /\ ReportsOK'
      /\ OpenReport' /\ SlotRemembers' /\ ReportTruthful'
      /\ ProcessesBegin' /\ OneProcess' /\ PhaseOfExec' /\ EndedForGood'
      /\ EndedRows' /\ LiveSessionIsOurs'
  BY DEF LaunchInv, LaunchRowOK, ProcessesOK, SlotOK, ReportsOK, OpenReport,
     SlotRemembers, ReportTruthful, ProcessesBegin, OneProcess, PhaseOfExec,
     EndedForGood, EndedRows, LiveSessionIsOurs, TurnedDown, launchProcesses,
     reportVars, excuseVars, Of, Over, ProviderLives
<1>2. ClosingOK'
  BY DEF LaunchInv, ClosingOK, TurnedDown, Advances
<1>3. Begun'
  BY DEF LaunchInv, Begun, TurnedDown, Advances, launchProcesses
<1>4. ClosingReport'
  BY DEF LaunchInv, ClosingReport, FirstSending, TurnedDown, Definitive,
     Advances, Settling, reportVars, excuseVars
<1>5. FirstSending'
  BY DEF LaunchInv, FirstSending, TurnedDown, Advances
<1>6. QED  BY <1>1, <1>2, <1>3, <1>4, <1>5 DEF LaunchInv

\* The receipt is in the slot.
LEMMA CommitsReportKeeps ==
    ASSUME LaunchInv, CommitsReport
    PROVE  LaunchInv'
<1>1. /\ LaunchRowOK' /\ ProcessesOK' /\ ReportsOK' /\ OpenReport'
      /\ ReportTruthful' /\ ProcessesBegin' /\ OneProcess'
      /\ PhaseOfExec' /\ EndedForGood' /\ EndedRows'
      /\ LiveSessionIsOurs'
  BY DEF LaunchInv, LaunchRowOK, ProcessesOK, ReportsOK, OpenReport,
     ReportTruthful, ProcessesBegin, OneProcess, PhaseOfExec, EndedForGood,
     EndedRows, LiveSessionIsOurs, CommitsReport, launchProcesses, excuseVars,
     Of, Over, ProviderLives
<1>2. ClosingOK'
  BY DEF LaunchInv, ClosingOK, CommitsReport, Advances
<1>3. SlotOK'
  BY DEF LaunchInv, SlotOK, CommitsReport
<1>4. Begun'
  BY DEF LaunchInv, Begun, CommitsReport, Advances, launchProcesses
<1>5. ClosingReport'
  BY DEF LaunchInv, ClosingReport, CommitsReport, Advances, Settling
<1>6. SlotRemembers'
  BY DEF LaunchInv, SlotRemembers, CommitsReport
<1>7. FirstSending'
  BY DEF LaunchInv, FirstSending, CommitsReport, Advances
<1>8. QED  BY <1>1, <1>2, <1>3, <1>4, <1>5, <1>6, <1>7 DEF LaunchInv

\* The verdict follows what Mail has.
LEMMA JudgesKeeps ==
    ASSUME LaunchInv, NEW step, NEW verdict, Judges(step, verdict)
    PROVE  LaunchInv'
<1>1. ProcessesOK' /\ SlotOK' /\ EndedRows'
  BY DEF LaunchInv, ProcessesOK, SlotOK, EndedRows, Judges, launchProcesses,
     reportVars, excuseVars, ProviderLives
<1>2. LaunchRowOK'
  BY DEF LaunchInv, LaunchRowOK, Judges, Termed, RowBecomes
<1>3. ClosingOK'
  BY DEF LaunchInv, ClosingOK, Judges, Advances
<1>4. ReportsOK'
  BY DEF LaunchInv, ReportsOK, Judges, Termed, RowBecomes, reportVars
<1>5. Begun'
  BY DEF LaunchInv, Begun, Judges, Termed, RowBecomes, Advances, launchProcesses
<1>6. OpenReport'
  BY DEF LaunchInv, OpenReport, Judges, Termed, RowBecomes
<1>7. ClosingReport'
  BY DEF LaunchInv, ClosingReport, Judges, Termed, RowBecomes, Advances
<1>8. SlotRemembers'
  BY DEF LaunchInv, SlotRemembers, Judges, Termed, RowBecomes
<1>9. FirstSending'
  BY DEF LaunchInv, FirstSending, Judges, Advances
<1>10. ReportTruthful'
  BY DEF LaunchInv, ClosingReport, ReportTruthful, Judges, Termed, RowBecomes,
     reportVars, excuseVars
<1>11. ProcessesBegin'
  BY DEF LaunchInv, ProcessesBegin, Judges, Termed, RowBecomes, launchProcesses
<1>12. OneProcess'
  BY DEF LaunchInv, OneProcess, Judges, Termed, RowBecomes, launchProcesses,
     excuseVars, Of
<1>13. PhaseOfExec'
  BY DEF LaunchInv, ClosingReport, PhaseOfExec, Judges, Termed, RowBecomes,
     excuseVars
<1>14. EndedForGood'
  BY DEF LaunchInv, ClosingReport, EndedForGood, Judges, Termed, RowBecomes,
     launchProcesses, excuseVars, Over, Of
<1>15. LiveSessionIsOurs'
  BY DEF LaunchInv, ClosingReport, LiveSessionIsOurs, Judges,
     launchProcesses, excuseVars, ProviderLives
<1>16. QED  BY <1>1, <1>2, <1>3, <1>4, <1>5, <1>6, <1>7, <1>8, <1>9, <1>10,
     <1>11, <1>12, <1>13, <1>14, <1>15 DEF LaunchInv

\* The report has its verdict by now.
LEMMA ProceedsKeeps ==
    ASSUME LaunchInv, Proceeds
    PROVE  LaunchInv'
<1>1. ReportsOK' /\ OpenReport' /\ ReportTruthful' /\ PhaseOfExec'
  BY DEF LaunchInv, SlotOK, ReportsOK, OpenReport, ReportTruthful,
     PhaseOfExec, Proceeds, excuseVars
<1>2. LaunchRowOK'
  BY DEF LaunchInv, LaunchRowOK, SlotOK, Proceeds
<1>3. ProcessesOK'
  BY DEF LaunchInv, ProcessesOK, SlotOK, Proceeds, Standing
<1>4. ClosingOK'
  BY DEF LaunchInv, ClosingOK, SlotOK, Proceeds, Halted, Advances
<1>5. SlotOK'
  BY DEF LaunchInv, SlotOK, Proceeds
<1>6. Begun'
  BY GlobalLaunchAssumption DEF LaunchInv, SlotOK, Begun, Proceeds,
     Settling, Standing, Halted, Advances
<1>7. ClosingReport'
  BY DEF LaunchInv, SlotOK, ClosingReport, Proceeds, Settling, Halted, Advances
<1>8. SlotRemembers'
  BY DEF LaunchInv, SlotOK, ClosingReport, SlotRemembers, Proceeds
<1>9. FirstSending'
  BY DEF LaunchInv, SlotOK, FirstSending, Proceeds, Settling, Halted, Advances
<1>10. ProcessesBegin'
  BY DEF LaunchInv, SlotOK, ProcessesBegin, Proceeds, Standing
<1>11. OneProcess'
  BY DEF LaunchInv, SlotOK, OneProcess, Proceeds, Standing, excuseVars, Of
<1>12. EndedForGood'
  BY DEF LaunchInv, SlotOK, EndedForGood, Proceeds, Standing, excuseVars,
     Over, Of
<1>13. EndedRows'
  BY DEF LaunchInv, SlotOK, EndedRows, Proceeds, Standing, excuseVars,
     ProviderLives
<1>14. LiveSessionIsOurs'
  BY DEF LaunchInv, SlotOK, LiveSessionIsOurs, Proceeds, Standing,
     excuseVars, ProviderLives
<1>15. QED  BY <1>1, <1>2, <1>3, <1>4, <1>5, <1>6, <1>7, <1>8, <1>9, <1>10,
     <1>11, <1>12, <1>13, <1>14 DEF LaunchInv

\* No launch is cleaned up before its report has a verdict.
LEMMA CleansKeeps ==
    ASSUME LaunchInv, Cleans
    PROVE  LaunchInv'
<1>1. ProcessesOK' /\ SlotOK' /\ EndedRows'
  BY DEF LaunchInv, ProcessesOK, SlotOK, EndedRows, Cleans, launchProcesses,
     reportVars, excuseVars, ProviderLives
<1>2. LaunchRowOK'
  BY DEF LaunchInv, LaunchRowOK, Cleans, Termed, RowBecomes
<1>3. ClosingOK'
  BY DEF LaunchInv, ClosingOK, Cleans, Advances
<1>4. ReportsOK'
  BY DEF LaunchInv, ReportsOK, Cleans, Termed, RowBecomes, reportVars
<1>5. Begun'
  BY DEF LaunchInv, Begun, Cleans, Termed, RowBecomes, Advances, launchProcesses
<1>6. OpenReport'
  BY DEF LaunchInv, OpenReport, ClosingReport, Cleans, Termed, RowBecomes, Settling
<1>7. ClosingReport'
  BY DEF LaunchInv, ClosingReport, Cleans, Termed, RowBecomes, Advances, Settling
<1>8. SlotRemembers'
  BY DEF LaunchInv, SlotRemembers, Cleans, Termed, RowBecomes, reportVars,
     excuseVars
<1>9. FirstSending'
  BY DEF LaunchInv, FirstSending, Cleans, Advances
<1>10. ReportTruthful'
  BY DEF LaunchInv, ClosingReport, ReportTruthful, Cleans, Termed, RowBecomes,
     Settling, reportVars, excuseVars
<1>11. ProcessesBegin'
  BY DEF LaunchInv, ProcessesBegin, Cleans, Termed, RowBecomes, launchProcesses
<1>12. OneProcess'
  BY DEF LaunchInv, OneProcess, Cleans, Termed, RowBecomes, launchProcesses,
     excuseVars, Of
<1>13. PhaseOfExec'
  BY DEF LaunchInv, OpenReport, ClosingReport, PhaseOfExec, Cleans, Termed,
     RowBecomes, Settling, excuseVars
<1>14. EndedForGood'
  BY DEF LaunchInv, OpenReport, ClosingReport, EndedForGood, Cleans, Termed,
     RowBecomes, Settling, launchProcesses, excuseVars, Over, Of
<1>15. LiveSessionIsOurs'
  BY DEF LaunchInv, OpenReport, ClosingReport, LiveSessionIsOurs, Cleans,
     Settling, launchProcesses, excuseVars, ProviderLives
<1>16. QED  BY <1>1, <1>2, <1>3, <1>4, <1>5, <1>6, <1>7, <1>8, <1>9, <1>10,
     <1>11, <1>12, <1>13, <1>14, <1>15 DEF LaunchInv

\* The sessions of a launch that is over end.
LEMMA EndsSessionsKeeps ==
    ASSUME LaunchInv, EndsSessions
    PROVE  LaunchInv'
<1>1. /\ LaunchRowOK' /\ SlotOK' /\ ReportsOK' /\ OpenReport'
      /\ SlotRemembers' /\ ReportTruthful' /\ OneProcess'
      /\ PhaseOfExec'
  BY DEF LaunchInv, LaunchRowOK, SlotOK, ReportsOK, OpenReport,
     SlotRemembers, ReportTruthful, OneProcess, PhaseOfExec, EndsSessions,
     reportVars, excuseVars, Of
<1>2. ProcessesOK'
  BY DEF LaunchInv, ProcessesOK, EndsSessions
<1>3. ClosingOK'
  BY DEF LaunchInv, ClosingOK, EndsSessions, Advances
<1>4. Begun'
  BY DEF LaunchInv, Begun, EndsSessions, Advances
<1>5. ClosingReport'
  BY DEF LaunchInv, ClosingReport, EndsSessions, Advances, Settling
<1>6. FirstSending'
  BY DEF LaunchInv, FirstSending, EndsSessions, Advances
<1>7. ProcessesBegin'
  BY DEF LaunchInv, ProcessesBegin, EndsSessions, LiveRows
<1>8. EndedForGood'
  BY DEF LaunchInv, EndedForGood, EndsSessions, LiveRows, excuseVars, Over,
     Of
<1>9. EndedRows'
  BY DEF LaunchInv, OpenReport, ClosingReport, EndedRows, LiveSessionIsOurs,
     EndsSessions, Settling, LiveRows, excuseVars, ProviderLives
<1>10. LiveSessionIsOurs'
  BY DEF LaunchInv, LiveSessionIsOurs, EndsSessions, LiveRows, excuseVars,
     ProviderLives
<1>11. QED  BY <1>1, <1>2, <1>3, <1>4, <1>5, <1>6, <1>7, <1>8,
     <1>9, <1>10 DEF LaunchInv

\* The launch is closed at the very last.
LEMMA ClosesKeeps ==
    ASSUME LaunchInv, Closes
    PROVE  LaunchInv'
<1>1. SlotOK'
  BY DEF LaunchInv, SlotOK, Closes, reportVars
<1>2. LaunchRowOK'
  BY DEF LaunchInv, LaunchRowOK, Closes, RowBecomes
<1>3. ProcessesOK'
  BY DEF LaunchInv, ProcessesOK, Closes, Standing
<1>4. ClosingOK'
  BY DEF LaunchInv, ClosingOK, Closes, Halted
<1>5. ReportsOK'
  BY DEF LaunchInv, ReportsOK, Closes, RowBecomes, reportVars
<1>6. Begun'
  BY GlobalLaunchAssumption DEF LaunchInv, Begun, Closes, Halted, RowBecomes
<1>7. OpenReport'
  BY DEF LaunchInv, OpenReport, ClosingReport, Closes, Settling, RowBecomes
<1>8. ClosingReport'
  BY DEF LaunchInv, ClosingReport, Closes, Halted, Settling
<1>9. SlotRemembers'
  BY DEF LaunchInv, SlotRemembers, Closes, RowBecomes, reportVars, excuseVars
<1>10. FirstSending'
  BY DEF LaunchInv, FirstSending, Closes, Halted
<1>11. ReportTruthful'
  BY DEF LaunchInv, ClosingReport, ReportTruthful, Closes, Settling, RowBecomes,
     reportVars, excuseVars
<1>12. ProcessesBegin'
  BY DEF LaunchInv, ProcessesBegin, Closes, Standing, RowBecomes
<1>13. OneProcess'
  BY DEF LaunchInv, OneProcess, Closes, Standing, RowBecomes, excuseVars, Of
<1>14. PhaseOfExec'
  BY DEF LaunchInv, OpenReport, ClosingReport, PhaseOfExec, Closes,
     Settling, RowBecomes, excuseVars, Unexecuted
<1>15. EndedForGood'
  BY DEF LaunchInv, OpenReport, ClosingReport, EndedForGood, Closes,
     Settling, Standing, RowBecomes, excuseVars, Over, Of
<1>16. EndedRows'
  BY DEF LaunchInv, EndedRows, Closes, Standing, excuseVars, ProviderLives
<1>17. LiveSessionIsOurs'
  BY DEF LaunchInv, OpenReport, ClosingReport, LiveSessionIsOurs, Closes,
     Settling, Standing, excuseVars, ProviderLives
<1>18. QED  BY <1>1, <1>2, <1>3, <1>4, <1>5, <1>6, <1>7, <1>8, <1>9, <1>10,
     <1>11, <1>12, <1>13, <1>14, <1>15, <1>16, <1>17 DEF LaunchInv

\* With the slot goes the memory of the report.
LEMMA DiscardsSlotKeeps ==
    ASSUME LaunchInv, DiscardsSlot
    PROVE  LaunchInv'
<1>1. /\ LaunchRowOK' /\ ProcessesOK' /\ ClosingOK' /\ ReportsOK'
      /\ Begun' /\ OpenReport' /\ ProcessesBegin' /\ OneProcess'
      /\ PhaseOfExec' /\ EndedForGood' /\ EndedRows'
      /\ LiveSessionIsOurs'
  BY DEF LaunchInv, LaunchRowOK, ProcessesOK, ClosingOK, ReportsOK, Begun,
     OpenReport, ProcessesBegin, OneProcess, PhaseOfExec, EndedForGood,
     EndedRows, LiveSessionIsOurs, DiscardsSlot, launchProcesses, Of, Over,
     ProviderLives
<1>2. SlotOK'
  BY DEF LaunchInv, SlotOK, DiscardsSlot
<1>3. ClosingReport'
  BY DEF LaunchInv, ClosingReport, DiscardsSlot, OperationFree
<1>4. SlotRemembers'
  BY DEF LaunchInv, SlotRemembers, DiscardsSlot
<1>5. FirstSending'
  BY DEF LaunchInv, FirstSending, DiscardsSlot
<1>6. ReportTruthful'
  BY DEF LaunchInv, ReportTruthful, DiscardsSlot
<1>7. QED  BY <1>1, <1>2, <1>3, <1>4, <1>5, <1>6 DEF LaunchInv

\* The report is not required any more.
LEMMA DiscardsReportKeeps ==
    ASSUME LaunchInv, DiscardsReport
    PROVE  LaunchInv'
<1>1. ProcessesOK' /\ ClosingOK' /\ EndedRows'
  BY DEF LaunchInv, ProcessesOK, ClosingOK, EndedRows, DiscardsReport,
     launchProcesses, ProviderLives
<1>2. LaunchRowOK'
  BY DEF LaunchInv, LaunchRowOK, DiscardsReport, RowBecomes
<1>3. SlotOK'
  BY DEF LaunchInv, SlotOK, DiscardsReport
<1>4. ReportsOK'
  BY DEF LaunchInv, ReportsOK, DiscardsReport, RowBecomes
<1>5. Begun'
  BY DEF LaunchInv, Begun, DiscardsReport, RowBecomes, launchProcesses
<1>6. OpenReport'
  BY DEF LaunchInv, OpenReport, DiscardsReport, RowBecomes
<1>7. ClosingReport'
  BY DEF LaunchInv, ClosingReport, DiscardsReport, OperationFree, Settling
<1>8. SlotRemembers'
  BY DEF LaunchInv, SlotRemembers, DiscardsReport, RowBecomes
<1>9. FirstSending'
  BY DEF LaunchInv, FirstSending, DiscardsReport, RowBecomes
<1>10. ReportTruthful'
  BY DEF LaunchInv, ReportTruthful, DiscardsReport, RowBecomes
<1>11. ProcessesBegin'
  BY DEF LaunchInv, ProcessesBegin, DiscardsReport, RowBecomes, launchProcesses
<1>12. OneProcess'
  BY DEF LaunchInv, OneProcess, DiscardsReport, RowBecomes, launchProcesses, Of
<1>13. PhaseOfExec'
  BY DEF LaunchInv, PhaseOfExec, DiscardsReport, RowBecomes
<1>14. EndedForGood'
  BY DEF LaunchInv, EndedForGood, DiscardsReport, RowBecomes, launchProcesses,
     Over, Of
<1>15. LiveSessionIsOurs'
  BY DEF LaunchInv, LiveSessionIsOurs, DiscardsReport, launchProcesses,
     ProviderLives
<1>16. QED  BY <1>1, <1>2, <1>3, <1>4, <1>5, <1>6, <1>7, <1>8, <1>9, <1>10,
     <1>11, <1>12, <1>13, <1>14, <1>15 DEF LaunchInv

\* A free slot holds no report.
LEMMA MutationLeftKeeps ==
    ASSUME LaunchInv, MutationLeft
    PROVE  LaunchInv'
<1>1. /\ LaunchRowOK' /\ ProcessesOK' /\ ClosingOK' /\ ReportsOK'
      /\ Begun' /\ OpenReport' /\ FirstSending' /\ ReportTruthful'
      /\ ProcessesBegin' /\ OneProcess' /\ PhaseOfExec' /\ EndedForGood'
      /\ EndedRows' /\ LiveSessionIsOurs'
  BY DEF LaunchInv, LaunchRowOK, ProcessesOK, ClosingOK, ReportsOK, Begun,
     OpenReport, FirstSending, ReportTruthful, ProcessesBegin, OneProcess,
     PhaseOfExec, EndedForGood, EndedRows, LiveSessionIsOurs, MutationLeft,
     launchProcesses, excuseVars, Of, Over, ProviderLives
<1>2. SlotOK'
  BY DEF LaunchInv, SlotOK, MutationLeft
<1>3. ClosingReport'
  BY DEF LaunchInv, ClosingReport, MutationLeft
<1>4. SlotRemembers'
  BY DEF LaunchInv, SlotRemembers, MutationLeft, excuseVars
<1>5. QED  BY <1>1, <1>2, <1>3, <1>4 DEF LaunchInv

\* The owner is none of the invariant's.
LEMMA RetireOwnerKeeps ==
    ASSUME LaunchInv, RetireOwner
    PROVE  LaunchInv'
<1>1. /\ LaunchRowOK' /\ ProcessesOK' /\ ClosingOK' /\ ReportsOK'
      /\ Begun' /\ OpenReport' /\ ClosingReport' /\ SlotRemembers'
      /\ FirstSending' /\ ReportTruthful' /\ ProcessesBegin'
      /\ OneProcess' /\ PhaseOfExec' /\ EndedForGood' /\ EndedRows'
      /\ LiveSessionIsOurs'
  BY DEF LaunchInv, LaunchRowOK, ProcessesOK, ClosingOK, ReportsOK, Begun,
     OpenReport, ClosingReport, SlotRemembers, FirstSending, ReportTruthful,
     ProcessesBegin, OneProcess, PhaseOfExec, EndedForGood, EndedRows,
     LiveSessionIsOurs, RetireOwner, launchProcesses, excuseVars, Of, Over,
     ProviderLives
<1>2. SlotOK'
  BY DEF LaunchInv, SlotOK, RetireOwner
<1>3. QED  BY <1>1, <1>2 DEF LaunchInv

\* The owner is none of the invariant's.
LEMMA UnretireOwnerKeeps ==
    ASSUME LaunchInv, UnretireOwner
    PROVE  LaunchInv'
<1>1. /\ LaunchRowOK' /\ ProcessesOK' /\ ClosingOK' /\ ReportsOK'
      /\ Begun' /\ OpenReport' /\ ClosingReport' /\ SlotRemembers'
      /\ FirstSending' /\ ReportTruthful' /\ ProcessesBegin'
      /\ OneProcess' /\ PhaseOfExec' /\ EndedForGood' /\ EndedRows'
      /\ LiveSessionIsOurs'
  BY DEF LaunchInv, LaunchRowOK, ProcessesOK, ClosingOK, ReportsOK, Begun,
     OpenReport, ClosingReport, SlotRemembers, FirstSending, ReportTruthful,
     ProcessesBegin, OneProcess, PhaseOfExec, EndedForGood, EndedRows,
     LiveSessionIsOurs, UnretireOwner, launchProcesses, excuseVars, Of, Over,
     ProviderLives
<1>2. SlotOK'
  BY DEF LaunchInv, SlotOK, UnretireOwner
<1>3. QED  BY <1>1, <1>2 DEF LaunchInv

\* At the start there is no launch.
LEMMA LaunchInvStart == LaunchInit => LaunchInv
<1>1. LaunchInit => LaunchRowOK /\ ClosingOK
  BY DEF LaunchInit, LaunchRowOK, LaunchRows, NoLaunchRow, ClosingOK, Closings, NotClosing
<1>2. LaunchInit => ProcessesOK /\ SlotOK /\ ReportsOK
  <2>1. [at |-> "none", id |-> 0] \in Standings
    BY DEF Standings
  <2>2. LaunchInit => ProcessesOK
    BY <2>1 DEF LaunchInit, ProcessesOK
  <2>3. LaunchInit => SlotOK /\ ReportsOK
    BY DEF LaunchInit, SlotOK, ReportsOK
  <2>4. QED  BY <2>2, <2>3
<1>3. LaunchInit => /\ Begun /\ OpenReport /\ ClosingReport /\ SlotRemembers /\ FirstSending
                    /\ ReportTruthful
  BY GlobalLaunchAssumption DEF LaunchInit, NoLaunchRow, NotClosing, Begun, OpenReport,
     ClosingReport, Settling, SlotRemembers, FirstSending, ReportTruthful
<1>4. LaunchInit => /\ ProcessesBegin /\ OneProcess /\ PhaseOfExec /\ EndedForGood
                    /\ EndedRows /\ LiveSessionIsOurs
  BY DEF LaunchInit, NoLaunchRow, ProcessesBegin, OneProcess, PhaseOfExec, Unexecuted,
     EndedForGood, Over, EndedRows, LiveSessionIsOurs, ProviderLives
<1>5. QED
  BY <1>1, <1>2, <1>3, <1>4 DEF LaunchInv

\* Every step keeps the invariant.
LEMMA LaunchInvStep == LaunchInv /\ [LaunchNext]_launchVars => LaunchInv'
<1> SUFFICES ASSUME LaunchInv, [LaunchNext]_launchVars  PROVE LaunchInv'
  OBVIOUS
<1>1. CASE PrepareLaunch \/ StartDies \/ GateLaunch \/ RetryLaunch \/ CancelLaunch
  BY <1>1, PrepareLaunchKeeps, StartDiesKeeps, GateCases, GatesKeeps, RetryCases,
     RetriesKeeps, CancelLaunchKeeps
<1>2. ASSUME NEW r \in Runners, ExecuteLaunch(r) \/ SpawnShim(r) \/ SpawnFails(r)
      PROVE  LaunchInv'
  BY <1>2, ExecuteCases, ExecutesKeeps, HaltsKeeps, SpawnShimKeeps, SpawnFailsKeeps
<1>3. ASSUME NEW r \in Runners, \/ ExecProvider(r) \/ RecordSession(r) \/ ChildExits(r)
                                \/ ShimExits(r) \/ SurvivorExits(r)
      PROVE  LaunchInv'
  BY <1>3, ExecProviderKeeps, RecordSessionKeeps, ChildExitsKeeps, ShimExitsKeeps,
     SurvivorExitsKeeps
<1>4. ASSUME NEW r \in Runners, RunnerDies(r) \/ RecordExit(r) \/ RunnerEnds(r)
      PROVE  LaunchInv'
  BY <1>4, DiesCases, HaltsKeeps, RecordExitKeeps, EndsCases, BeginsToEndKeeps
<1>5. CASE ResolveAbandoned \/ ResolveRunning \/ ResolveEnded \/ ReplayEnd \/ CloserDies
  BY <1>5, ResolveAbandonedKeeps, ResolveRunningKeeps, ResolveEndedKeeps, ReplayCases,
     BeginsToEndKeeps, DiesCases, HaltsKeeps
<1>6. CASE CloserStep
  <2>1. CASE StartReport \/ SaveReport \/ SendReport
    BY <2>1, ReportCases, SendCases, StartsReportKeeps, SavesReportKeeps, HaltsKeeps,
       AnsweredKeeps, TurnedDownKeeps, AnswerLostKeeps
  <2>2. CASE CommitReport \/ ConfirmReport \/ RejectReport
    BY <2>2, VerdictCases, CommitsReportKeeps, JudgesKeeps
  <2>3. CASE ClearSlot \/ SettleSlot \/ SaveRetirement \/ RetireByEnd \/ ClearRetirement
    BY <2>3, SettleCases, ProceedsKeeps
  <2>4. CASE StartCleanup \/ EndSessionRows \/ EndLaunchRow
    BY <2>4, CleanupCases, CleansKeeps, ProceedsKeeps, CloseCases, EndsSessionsKeeps,
       ClosesKeeps
  <2>5. QED
    BY <1>6, <2>1, <2>2, <2>3, <2>4 DEF CloserStep
<1>7. CASE MutationLeft \/ DiscardMutation \/ RetireOwner \/ UnretireOwner
  BY <1>7, MutationLeftKeeps, DiscardCases, DiscardsSlotKeeps, DiscardsReportKeeps,
     RetireOwnerKeeps, UnretireOwnerKeeps
<1>8. CASE UNCHANGED launchVars
  <2>1. UNCHANGED <<launchRow, starting, runner, native, liveRow, closing, slot,
                    ownerRetired, letters, excused, discarded>>
    BY <1>8 DEF launchVars, launchProcesses, reportVars, excuseVars
  <2>2. QED
    BY <2>1 DEF LaunchInv, LaunchRowOK, ProcessesOK, ClosingOK, SlotOK, ReportsOK, Begun,
       OpenReport,
     ClosingReport, SlotRemembers, FirstSending, ReportTruthful, ProcessesBegin,
     OneProcess, PhaseOfExec, EndedForGood, EndedRows, LiveSessionIsOurs,
     Of, Over, ProviderLives
<1>9. QED
  BY <1>1, <1>2, <1>3, <1>4, <1>5, <1>6, <1>7, <1>8 DEF LaunchNext

\* The invariant of the launch.
LEMMA LaunchInvariant == LaunchSpec => []LaunchInv
BY LaunchInvStart, LaunchInvStep, PTL DEF LaunchSpec

\* A provider whose session was recorded and that still runs is the one of the
\* launch on disk, and that launch is not over: the next launch, the report of
\* the end and the retirement wait for it, however runner, shim and hook came to
\* their ends (prepare_launch to end_launch of runtime_delivery.py).
THEOREM LiveSessionIsOursTheorem == LaunchSpec => []LiveSessionIsOurs
<1>1. LaunchInv => LiveSessionIsOurs
  BY DEF LaunchInv
<1>2. QED
  BY <1>1, LaunchInvariant, PTL

\* The verdict on the report of a launch is what the parent's inbox says, and no
\* launch is closed before it has one, whatever answers were lost on the way
\* (_end_report and definitive_rejection of runtime_delivery.py).
THEOREM ReportTruthfulTheorem == LaunchSpec => []ReportTruthful
<1>1. LaunchInv => ReportTruthful
  BY DEF LaunchInv
<1>2. QED
  BY <1>1, LaunchInvariant, PTL

(* The rest of LaunchTypeOK.                                                  *)
StartsOK == /\ starting \in {"no", "attached", "detached"}
            /\ launchRow.id <= MaxLaunchRows
            /\ launchFaults \in 0..MaxLaunchFaults

\* Each step but a start keeps the number of the launch.
LEMMA IdKept ==
    ASSUME LaunchRowOK, LaunchNext, ~PrepareLaunch
    PROVE  launchRow'.id = launchRow.id
<1> USE DEF LaunchRowOK, LaunchRows
<1>1. CASE StartDies \/ GateLaunch \/ RetryLaunch \/ CancelLaunch
  BY <1>1 DEF StartDies, GateLaunch, RetryLaunch, CancelLaunch
<1>2. ASSUME NEW r \in Runners,
             \/ ExecuteLaunch(r) \/ SpawnShim(r) \/ SpawnFails(r) \/ ExecProvider(r)
             \/ RecordSession(r) \/ ChildExits(r) \/ ShimExits(r) \/ SurvivorExits(r)
             \/ RunnerDies(r) \/ RecordExit(r)
      PROVE  launchRow'.id = launchRow.id
  BY <1>2 DEF ExecuteLaunch, SpawnShim, SpawnFails, ExecProvider, RecordSession, ChildExits,
     ShimExits, SurvivorExits, RunnerDies, RecordExit
<1>3. ASSUME NEW by, NEW named, Begins(by, named)  PROVE launchRow'.id = launchRow.id
  BY <1>3 DEF Begins
<1>4. ASSUME NEW r \in Runners, RunnerEnds(r)  PROVE launchRow'.id = launchRow.id
  BY <1>3, <1>4 DEF RunnerEnds
<1>5. CASE ReplayEnd
  BY <1>3, <1>5 DEF ReplayEnd
<1>6. CASE ResolveAbandoned \/ ResolveRunning \/ ResolveEnded \/ CloserDies
  BY <1>6 DEF ResolveAbandoned, ResolveRunning, ResolveEnded, CloserDies
<1>7. CASE CloserStep
  BY <1>7 DEF CloserStep, StartReport, SaveReport, SendReport, CommitReport, ConfirmReport,
     RejectReport, ClearSlot, SettleSlot, StartCleanup, SaveRetirement, RetireByEnd,
     ClearRetirement, EndSessionRows, EndLaunchRow
<1>8. CASE MutationLeft \/ DiscardMutation \/ RetireOwner \/ UnretireOwner
  BY <1>8 DEF MutationLeft, DiscardMutation, RetireOwner, UnretireOwner
<1>9. QED
  BY <1>1, <1>2, <1>4, <1>5, <1>6, <1>7, <1>8 DEF LaunchNext

\* Each step has at most one failure, and a start has a kind.
LEMMA StartsKept ==
    ASSUME LaunchNext
    PROVE  /\ launchFaults' = launchFaults \/ LaunchFault
           /\ starting' \in {starting, "no", "attached", "detached"}
<1> DEFINE Upheld == /\ launchFaults' = launchFaults \/ LaunchFault
                     /\ starting' \in {starting, "no", "attached", "detached"}
<1> USE DEF NoLaunchFault
<1>1. CASE PrepareLaunch \/ StartDies \/ GateLaunch \/ RetryLaunch \/ CancelLaunch
  BY <1>1 DEF PrepareLaunch, StartDies, GateLaunch, RetryLaunch, CreateWrapper, CancelLaunch
<1>2. ASSUME NEW r \in Runners,
             \/ ExecuteLaunch(r) \/ SpawnShim(r) \/ SpawnFails(r) \/ ExecProvider(r)
             \/ RecordSession(r) \/ ChildExits(r) \/ ShimExits(r) \/ SurvivorExits(r)
             \/ RunnerDies(r) \/ RecordExit(r)
      PROVE  Upheld
  BY <1>2 DEF ExecuteLaunch, SpawnShim, SpawnFails, ExecProvider, RecordSession, ChildExits,
     ShimExits, SurvivorExits, RunnerDies, RecordExit
<1>3. ASSUME NEW by, NEW named, Begins(by, named)  PROVE Upheld
  BY <1>3 DEF Begins
<1>4. ASSUME NEW r \in Runners, RunnerEnds(r)  PROVE Upheld
  BY <1>3, <1>4 DEF RunnerEnds
<1>5. CASE ReplayEnd
  BY <1>3, <1>5 DEF ReplayEnd
<1>6. CASE ResolveAbandoned \/ ResolveRunning \/ ResolveEnded \/ CloserDies
  BY <1>6 DEF ResolveAbandoned, ResolveRunning, ResolveEnded, CloserDies
<1>7. CASE CloserStep
  BY <1>7 DEF CloserStep, StartReport, SaveReport, SendReport, CommitReport, ConfirmReport,
     RejectReport, ClearSlot, SettleSlot, StartCleanup, SaveRetirement, RetireByEnd,
     ClearRetirement, EndSessionRows, EndLaunchRow
<1>8. CASE MutationLeft \/ DiscardMutation \/ RetireOwner \/ UnretireOwner
  BY <1>8 DEF MutationLeft, DiscardMutation, RetireOwner, UnretireOwner
<1>9. QED
  BY <1>1, <1>2, <1>4, <1>5, <1>6, <1>7, <1>8 DEF LaunchNext

\* Launches and failures stay within their bounds.
LEMMA StartsStep == LaunchInv /\ StartsOK /\ [LaunchNext]_launchVars => StartsOK'
<1> SUFFICES ASSUME LaunchInv, StartsOK, [LaunchNext]_launchVars  PROVE StartsOK'
  OBVIOUS
<1>1. CASE LaunchNext
  <2>1. launchRow'.id <= MaxLaunchRows
    <3>1. CASE PrepareLaunch
      <4>1. launchRow'.id = launchRow.id + 1 /\ launchRow.id < MaxLaunchRows
        BY <3>1 DEF PrepareLaunch, NoLaunchRow
      <4>2. launchRow.id \in Nat
        BY DEF LaunchInv, LaunchRowOK, LaunchRows
      <4>3. QED
        BY <4>1, <4>2, GlobalLaunchAssumption
    <3>2. CASE ~PrepareLaunch
      BY <1>1, <3>2, IdKept DEF LaunchInv, StartsOK
    <3>3. QED
      BY <3>1, <3>2
  <2>2. launchFaults' \in 0..MaxLaunchFaults
    BY <1>1, StartsKept, GlobalLaunchAssumption DEF StartsOK, LaunchFault
  <2>3. starting' \in {"no", "attached", "detached"}
    BY <1>1, StartsKept DEF StartsOK
  <2>4. QED
    BY <2>1, <2>2, <2>3 DEF StartsOK
<1>2. CASE UNCHANGED launchVars
  BY <1>2 DEF launchVars, StartsOK
<1>3. QED
  BY <1>1, <1>2

\* Every reachable state of a launch and its runners is well-typed.
THEOREM LaunchTypeCorrect == LaunchSpec => []LaunchTypeOK
<1>1. LaunchInit => StartsOK
  BY GlobalLaunchAssumption DEF LaunchInit, NoLaunchRow, StartsOK
<1>2. LaunchSpec => []StartsOK
  BY <1>1, StartsStep, LaunchInvariant, PTL DEF LaunchSpec
<1>3. LaunchInv /\ StartsOK => LaunchTypeOK
  <2> SUFFICES ASSUME LaunchInv, StartsOK  PROVE LaunchTypeOK
    OBVIOUS
  <2>1. launchRow.id \in 0..MaxLaunchRows
    BY GlobalLaunchAssumption DEF LaunchInv, LaunchRowOK, LaunchRows, StartsOK
  <2>2. ASSUME NEW r \in Runners  PROVE runner[r].id \in 0..launchRow.id
    <3>1. runner[r].id \in Nat /\ runner[r].id <= launchRow.id
      BY DEF LaunchInv, ProcessesOK, ProcessesBegin, Standings
    <3>2. QED
      BY <2>1, <3>1
  <2>3. closing.by \in Runners \cup {NoRunner}
    BY DEF LaunchInv, ClosingOK, Closings
  <2>4. QED
    BY <2>1, <2>2, <2>3 DEF LaunchInv, SlotOK, StartsOK, LaunchTypeOK
<1>4. QED
  BY <1>2, <1>3, LaunchInvariant, PTL
=============================================================================
