---------------------------- MODULE ArchiveProof ----------------------------
(* Proofs about the two ways in which the mail server serialises its writes   *)
(* to the archive, for every value of the constants: the lock of a project's  *)
(* archive (ArchiveLock) and the queue of commits (CommitQueue).              *)
EXTENDS ArchiveLock, CommitQueue, TLAPS, WellFoundedInduction

-----------------------------------------------------------------------------
(* ArchiveLock.                                                               *)
Entered(t) == at[t] \notin {"idle", "queued"}

(* LockTypeOK, as far as it is needed.                                        *)
LockPlacesOK == at \in [Writers -> {"idle", "queued", "trying", "created", "inside",
                                    "removing", "removed", "released", "unlinking",
                                    "unlinked"}]
LockObjectsOK == /\ asyncLock \in [Writers -> AsyncLocks \cup {0}]
                 /\ table \in [Processes -> AsyncLocks \cup {0}]
LockFileOK == lockFile \in Writers \cup {NoWriter}

(* A task inside has the lock file, unless somebody removed a holder's.       *)
HoldersFile == \A t \in Writers : Holder(t) => lockFile = t \/ broken

(* A task that got its asyncio.Lock keeps it locked, and is the only one.     *)
LocksHeld == \A t \in Writers : Entered(t) => asyncLock[t] \in locked

OneHolder ==
    \A t, u \in Writers : Entered(t) /\ Entered(u) /\ asyncLock[t] = asyncLock[u] => t = u

(* An asyncio.Lock is of one process, and so is the table that names it.      *)
WithinProcess ==
    \A t, u \in Writers : asyncLock[t] # 0 /\ asyncLock[t] = asyncLock[u]
                            => ProcessOf[t] = ProcessOf[u]

TableOwn ==
    \A p \in Processes : table[p] # 0 =>
        /\ \A t \in Writers : asyncLock[t] = table[p] => ProcessOf[t] = p
        /\ \A q \in Processes : table[q] = table[p] => q = p

(* Only a task outside has none.                                              *)
EnteredLock == \A t \in Writers : asyncLock[t] = 0 => at[t] = "idle"

LockInv ==
    /\ LockPlacesOK /\ LockObjectsOK /\ LockFileOK /\ HoldersFile
    /\ LocksHeld /\ OneHolder /\ WithinProcess /\ TableOwn /\ EnteredLock

(* The two ways of entering. *)
EnterWith(t, o) ==
    /\ at[t] = "idle"
    /\ \/ table[ProcessOf[t]] = o /\ o # 0
       \/ /\ table[ProcessOf[t]] = 0
          /\ o \in AsyncLocks \ ({table[q] : q \in Processes}
                                 \cup {asyncLock[u] : u \in Writers})
    /\ table' = [table EXCEPT ![ProcessOf[t]] = o]
    /\ asyncLock' = [asyncLock EXCEPT ![t] = o]
    /\ \/ UNCHANGED locked /\ at' = [at EXCEPT ![t] = "queued"]
       \/ /\ o \notin locked /\ locked' = locked \cup {o}
          /\ at' = [at EXCEPT ![t] = "trying"]
    /\ UNCHANGED <<processVars, diskVars, broken>>

\* A set of numbers that is not empty has a least element.
LEMMA LeastExists ==
    ASSUME NEW S, S \subseteq Nat, S # {}
    PROVE  \E x \in S : \A y \in S : x <= y
<1> DEFINE Less == OpToRel(<, Nat)
<1>1. IsWellFoundedOn(Less, Nat)
  BY NatLessThanWellFounded, Zenon DEF OpToRel
<1>2. PICK x \in S : \A y \in S : ~(<<y, x>> \in Less)
  <2> HIDE DEF Less
  <2> QED  BY <1>1, WFMin
<1>3. \A y \in S : ~(y < x)
  BY <1>2 DEF OpToRel
<1>4. QED  BY <1>3

\* The unused asyncio.Lock that is taken is one of those.
LEMMA LeastLock ==
    ASSUME NEW S, S \subseteq Nat, S # {}
    PROVE  Minimum(S) \in S
BY LeastExists DEF Minimum

\* A task that enters does so with some asyncio.Lock.
LEMMA EnterCases ==
    ASSUME LockInv, NEW t \in Writers, EnterArchive(t)
    PROVE  \E o \in AsyncLocks : EnterWith(t, o)
<1> DEFINE p == ProcessOf[t]
           unused == AsyncLocks \ ({table[q] : q \in Processes}
                                   \cup {asyncLock[u] : u \in Writers})
           o == IF table[p] # 0 THEN table[p] ELSE Minimum(unused)
<1>1. p \in Processes  BY ArchiveLockAssumption
<1>2. o \in AsyncLocks /\ (table[p] = 0 => o \in unused)
  <2>1. CASE table[p] # 0  BY <1>1, <2>1 DEF LockInv, LockObjectsOK
  <2>2. CASE table[p] = 0
    <3>1. unused \subseteq Nat /\ unused # {}  BY <2>2, ArchiveLockAssumption DEF EnterArchive
    <3>2. Minimum(unused) \in unused  BY <3>1, LeastLock
    <3>3. QED  BY <2>2, <3>2
  <2>3. QED  BY <2>1, <2>2
<1>3. EnterWith(t, o)
  <2>1. /\ at[t] = "idle"
        /\ table' = [table EXCEPT ![p] = o] /\ asyncLock' = [asyncLock EXCEPT ![t] = o]
        /\ UNCHANGED <<processVars, diskVars, broken>>
    BY DEF EnterArchive
  <2>2. \/ UNCHANGED locked /\ at' = [at EXCEPT ![t] = "queued"]
        \/ o \notin locked /\ locked' = locked \cup {o} /\ at' = [at EXCEPT ![t] = "trying"]
    BY DEF EnterArchive
  <2>3. \/ table[p] = o /\ o # 0
        \/ table[p] = 0 /\ o \in unused
    BY <1>2
  <2> QED  BY <2>1, <2>2, <2>3 DEF EnterWith
<1>4. QED  BY <1>2, <1>3

\* A task that enters takes the lock of the table or an unused one.
LEMMA EnterWithKeeps ==
    ASSUME LockInv, NEW t \in Writers, NEW o \in AsyncLocks, EnterWith(t, o)
    PROVE  LockInv'
<1>1. LockFileOK'
  BY DEF LockInv, LockFileOK, EnterWith, diskVars
<1>2. LockPlacesOK'
  BY DEF LockInv, LockPlacesOK, EnterWith
<1>3. LockObjectsOK'
  BY DEF LockInv, LockObjectsOK, EnterWith
<1>4. HoldersFile'
  BY DEF LockInv, LockPlacesOK, HoldersFile, EnterWith, diskVars, Holder
<1>5. LocksHeld'
  BY DEF LockInv, LockPlacesOK, LockObjectsOK, LocksHeld, EnterWith, Entered
<1>6. OneHolder'
  BY DEF LockInv, LockPlacesOK, LockObjectsOK, LocksHeld, OneHolder,
     EnterWith, Entered
<1>7. WithinProcess'
  BY ArchiveLockAssumption DEF LockInv, WithinProcess, TableOwn, EnterWith
<1>8. TableOwn'
  BY ArchiveLockAssumption DEF LockInv, TableOwn, EnterWith
<1>9. EnteredLock'
  BY ArchiveLockAssumption DEF LockInv, LockPlacesOK, LockObjectsOK,
     EnteredLock, EnterWith
<1>10. QED  BY <1>1, <1>2, <1>3, <1>4, <1>5, <1>6, <1>7, <1>8, <1>9 DEF
     LockInv

\* A waiter goes on only when nobody has the lock it waits for.
LEMMA GetAsyncLockKeeps ==
    ASSUME LockInv, NEW t \in Writers, GetAsyncLock(t)
    PROVE  LockInv'
<1>1. LockObjectsOK' /\ LockFileOK' /\ WithinProcess' /\ TableOwn'
  BY DEF LockInv, LockObjectsOK, LockFileOK, WithinProcess, TableOwn,
     GetAsyncLock, diskVars
<1>2. LockPlacesOK'
  BY DEF LockInv, LockPlacesOK, GetAsyncLock
<1>3. HoldersFile'
  BY DEF LockInv, HoldersFile, GetAsyncLock, diskVars, Holder
<1>4. LocksHeld'
  BY DEF LockInv, LocksHeld, GetAsyncLock, Entered
<1>5. OneHolder'
  BY DEF LockInv, LocksHeld, OneHolder, GetAsyncLock, Entered
<1>6. EnteredLock'
  BY DEF LockInv, EnteredLock, GetAsyncLock
<1>7. QED  BY <1>1, <1>2, <1>3, <1>4, <1>5, <1>6 DEF LockInv

\* O_EXCL: the lock file is created only where there is none.
LEMMA CreateLockFileKeeps ==
    ASSUME LockInv, NEW t \in Writers, CreateLockFile(t)
    PROVE  LockInv'
<1>1. LockObjectsOK' /\ WithinProcess' /\ TableOwn'
  BY DEF LockInv, LockObjectsOK, WithinProcess, TableOwn, CreateLockFile,
     objectVars
<1>2. LockPlacesOK'
  BY DEF LockInv, LockPlacesOK, CreateLockFile
<1>3. LockFileOK'
  BY DEF LockInv, LockFileOK, CreateLockFile
<1>4. HoldersFile'
  BY ArchiveLockAssumption DEF LockInv, HoldersFile, CreateLockFile, Holder
<1>5. LocksHeld'
  BY DEF LockInv, LocksHeld, CreateLockFile, objectVars, Entered
<1>6. OneHolder'
  BY DEF LockInv, OneHolder, CreateLockFile, objectVars, Entered
<1>7. EnteredLock'
  BY DEF LockInv, EnteredLock, CreateLockFile, objectVars
<1>8. QED  BY <1>1, <1>2, <1>3, <1>4, <1>5, <1>6, <1>7 DEF LockInv

\* The metadata does not touch the lock file.
LEMMA WriteMetadataKeeps ==
    ASSUME LockInv, NEW t \in Writers, WriteMetadata(t)
    PROVE  LockInv'
<1>1. LockObjectsOK' /\ LockFileOK' /\ WithinProcess' /\ TableOwn'
  BY DEF LockInv, LockObjectsOK, LockFileOK, WithinProcess, TableOwn,
     WriteMetadata, objectVars
<1>2. LockPlacesOK'
  BY DEF LockInv, LockPlacesOK, WriteMetadata
<1>3. HoldersFile'
  BY DEF LockInv, HoldersFile, WriteMetadata, Holder
<1>4. LocksHeld'
  BY DEF LockInv, LocksHeld, WriteMetadata, objectVars, Entered
<1>5. OneHolder'
  BY DEF LockInv, OneHolder, WriteMetadata, objectVars, Entered
<1>6. EnteredLock'
  BY DEF LockInv, EnteredLock, WriteMetadata, objectVars
<1>7. QED  BY <1>1, <1>2, <1>3, <1>4, <1>5, <1>6 DEF LockInv

\* A task that found a stale lock file still holds its asyncio.Lock.
LEMMA FindStaleKeeps ==
    ASSUME LockInv, NEW t \in Writers, FindStale(t)
    PROVE  LockInv'
<1>1. LockObjectsOK' /\ LockFileOK' /\ WithinProcess' /\ TableOwn'
  BY DEF LockInv, LockObjectsOK, LockFileOK, WithinProcess, TableOwn,
     FindStale, objectVars, diskVars
<1>2. LockPlacesOK'
  BY DEF LockInv, LockPlacesOK, FindStale
<1>3. HoldersFile'
  BY DEF LockInv, HoldersFile, FindStale, diskVars, Holder
<1>4. LocksHeld'
  BY DEF LockInv, LocksHeld, FindStale, objectVars, Entered
<1>5. OneHolder'
  BY DEF LockInv, OneHolder, FindStale, objectVars, Entered
<1>6. EnteredLock'
  BY DEF LockInv, EnteredLock, FindStale, objectVars
<1>7. QED  BY <1>1, <1>2, <1>3, <1>4, <1>5, <1>6 DEF LockInv

\* Removing the lock file of a task that holds it is recorded in broken.
LEMMA RemoveStaleLockKeeps ==
    ASSUME LockInv, NEW t \in Writers, RemoveStaleLock(t)
    PROVE  LockInv'
<1>1. LockObjectsOK' /\ WithinProcess' /\ TableOwn'
  BY DEF LockInv, LockObjectsOK, WithinProcess, TableOwn, RemoveStaleLock,
     objectVars
<1>2. LockPlacesOK'
  BY DEF LockInv, LockPlacesOK, RemoveStaleLock
<1>3. LockFileOK'
  BY DEF LockInv, LockFileOK, RemoveStaleLock
<1>4. HoldersFile'
  BY DEF LockInv, LockPlacesOK, HoldersFile, RemoveStaleLock, RemovesOthers,
     Holder
<1>5. LocksHeld'
  BY DEF LockInv, LocksHeld, RemoveStaleLock, objectVars, Entered
<1>6. OneHolder'
  BY DEF LockInv, OneHolder, RemoveStaleLock, objectVars, Entered
<1>7. EnteredLock'
  BY DEF LockInv, EnteredLock, RemoveStaleLock, objectVars
<1>8. QED  BY <1>1, <1>2, <1>3, <1>4, <1>5, <1>6, <1>7 DEF LockInv

\* The stale metadata goes; the file lock is as it was.
LEMMA RemoveStaleMetadataKeeps ==
    ASSUME LockInv, NEW t \in Writers, RemoveStaleMetadata(t)
    PROVE  LockInv'
<1>1. LockObjectsOK' /\ LockFileOK' /\ WithinProcess' /\ TableOwn'
  BY DEF LockInv, LockObjectsOK, LockFileOK, WithinProcess, TableOwn,
     RemoveStaleMetadata, objectVars
<1>2. LockPlacesOK'
  BY DEF LockInv, LockPlacesOK, RemoveStaleMetadata
<1>3. HoldersFile'
  BY DEF LockInv, HoldersFile, RemoveStaleMetadata, Holder
<1>4. LocksHeld'
  BY DEF LockInv, LocksHeld, RemoveStaleMetadata, objectVars, Entered
<1>5. OneHolder'
  BY DEF LockInv, OneHolder, RemoveStaleMetadata, objectVars, Entered
<1>6. EnteredLock'
  BY DEF LockInv, EnteredLock, RemoveStaleMetadata, objectVars
<1>7. QED  BY <1>1, <1>2, <1>3, <1>4, <1>5, <1>6 DEF LockInv

\* A timeout releases the asyncio.Lock of a task that is no holder.
LEMMA GiveUpLockKeeps ==
    ASSUME LockInv, NEW t \in Writers, GiveUpLock(t)
    PROVE  LockInv'
<1>1. LockFileOK'
  BY DEF LockInv, LockFileOK, GiveUpLock, diskVars
<1>2. LockPlacesOK'
  BY DEF LockInv, LockPlacesOK, GiveUpLock
<1>3. LockObjectsOK'
  BY DEF LockInv, LockObjectsOK, GiveUpLock, ReleaseAsyncLock
<1>4. HoldersFile'
  BY DEF LockInv, HoldersFile, GiveUpLock, diskVars, Holder
<1>5. LocksHeld'
  BY DEF LockInv, LockPlacesOK, LocksHeld, OneHolder, GiveUpLock,
     ReleaseAsyncLock, Entered
<1>6. OneHolder'
  BY DEF LockInv, OneHolder, EnteredLock, GiveUpLock, ReleaseAsyncLock,
     Entered
<1>7. WithinProcess'
  BY DEF LockInv, WithinProcess, GiveUpLock, ReleaseAsyncLock
<1>8. TableOwn'
  BY DEF LockInv, TableOwn, GiveUpLock, ReleaseAsyncLock
<1>9. EnteredLock'
  BY DEF LockInv, LockPlacesOK, EnteredLock, GiveUpLock, ReleaseAsyncLock
<1>10. QED  BY <1>1, <1>2, <1>3, <1>4, <1>5, <1>6, <1>7, <1>8, <1>9 DEF
     LockInv

\* The file a cancelled task leaves is created only where there is none.
LEMMA CancelEnterKeeps ==
    ASSUME LockInv, NEW t \in Writers, CancelEnter(t)
    PROVE  LockInv'
<1>1. LockPlacesOK'
  BY DEF LockInv, LockPlacesOK, CancelEnter
<1>2. LockObjectsOK'
  BY DEF LockInv, LockObjectsOK, CancelEnter, ReleaseAsyncLock
<1>3. LockFileOK'
  BY DEF LockInv, LockFileOK, CancelEnter
<1>4. HoldersFile'
  BY ArchiveLockAssumption DEF LockInv, HoldersFile, CancelEnter, Holder
<1>5. LocksHeld'
  BY DEF LockInv, LockPlacesOK, LocksHeld, OneHolder, CancelEnter,
     ReleaseAsyncLock, Entered
<1>6. OneHolder'
  BY DEF LockInv, OneHolder, EnteredLock, CancelEnter, ReleaseAsyncLock,
     Entered
<1>7. WithinProcess'
  BY DEF LockInv, WithinProcess, CancelEnter, ReleaseAsyncLock
<1>8. TableOwn'
  BY DEF LockInv, TableOwn, CancelEnter, ReleaseAsyncLock
<1>9. EnteredLock'
  BY DEF LockInv, LockPlacesOK, EnteredLock, CancelEnter, ReleaseAsyncLock
<1>10. QED  BY <1>1, <1>2, <1>3, <1>4, <1>5, <1>6, <1>7, <1>8, <1>9 DEF
     LockInv

\* A cancelled waiter had nothing to release.
LEMMA CancelWaitingKeeps ==
    ASSUME LockInv, NEW t \in Writers, CancelWaiting(t)
    PROVE  LockInv'
<1>1. LockFileOK'
  BY DEF LockInv, LockFileOK, CancelWaiting, diskVars
<1>2. LockPlacesOK'
  BY DEF LockInv, LockPlacesOK, CancelWaiting
<1>3. LockObjectsOK'
  BY DEF LockInv, LockObjectsOK, CancelWaiting
<1>4. HoldersFile'
  BY DEF LockInv, HoldersFile, CancelWaiting, diskVars, Holder
<1>5. LocksHeld'
  BY DEF LockInv, LocksHeld, CancelWaiting, Entered
<1>6. OneHolder'
  BY DEF LockInv, OneHolder, CancelWaiting, Entered
<1>7. WithinProcess'
  BY DEF LockInv, WithinProcess, CancelWaiting
<1>8. TableOwn'
  BY DEF LockInv, TableOwn, CancelWaiting
<1>9. EnteredLock'
  BY DEF LockInv, LockPlacesOK, EnteredLock, CancelWaiting
<1>10. QED  BY <1>1, <1>2, <1>3, <1>4, <1>5, <1>6, <1>7, <1>8, <1>9 DEF
     LockInv

\* A task cancelled at its metadata unlinks like one that exits.
LEMMA CancelCreatedKeeps ==
    ASSUME LockInv, NEW t \in Writers, CancelCreated(t)
    PROVE  LockInv'
<1>1. LockObjectsOK' /\ WithinProcess' /\ TableOwn'
  BY DEF LockInv, LockObjectsOK, WithinProcess, TableOwn, CancelCreated,
     objectVars
<1>2. LockPlacesOK'
  BY DEF LockInv, LockPlacesOK, CancelCreated
<1>3. LockFileOK'
  BY DEF LockInv, LockFileOK, CancelCreated
<1>4. HoldersFile'
  BY DEF LockInv, LockPlacesOK, HoldersFile, CancelCreated, Holder
<1>5. LocksHeld'
  BY DEF LockInv, LocksHeld, CancelCreated, objectVars, Entered
<1>6. OneHolder'
  BY DEF LockInv, OneHolder, CancelCreated, objectVars, Entered
<1>7. EnteredLock'
  BY DEF LockInv, EnteredLock, CancelCreated, objectVars
<1>8. QED  BY <1>1, <1>2, <1>3, <1>4, <1>5, <1>6, <1>7 DEF LockInv

\* The first unlink of the exit, while the asyncio.Lock is held.
LEMMA LeaveArchiveKeeps ==
    ASSUME LockInv, NEW t \in Writers, LeaveArchive(t)
    PROVE  LockInv'
<1>1. LockObjectsOK' /\ WithinProcess' /\ TableOwn'
  BY DEF LockInv, LockObjectsOK, WithinProcess, TableOwn, LeaveArchive,
     objectVars
<1>2. LockPlacesOK'
  BY DEF LockInv, LockPlacesOK, LeaveArchive
<1>3. LockFileOK'
  BY DEF LockInv, LockFileOK, LeaveArchive
<1>4. HoldersFile'
  BY DEF LockInv, LockPlacesOK, HoldersFile, LeaveArchive, Holder
<1>5. LocksHeld'
  BY DEF LockInv, LocksHeld, LeaveArchive, objectVars, Entered
<1>6. OneHolder'
  BY DEF LockInv, OneHolder, LeaveArchive, objectVars, Entered
<1>7. EnteredLock'
  BY DEF LockInv, EnteredLock, LeaveArchive, objectVars
<1>8. QED  BY <1>1, <1>2, <1>3, <1>4, <1>5, <1>6, <1>7 DEF LockInv

\* The metadata is unlinked while the asyncio.Lock is held.
LEMMA UnlinkMetadataKeeps ==
    ASSUME LockInv, NEW t \in Writers, UnlinkMetadata(t)
    PROVE  LockInv'
<1>1. LockObjectsOK' /\ LockFileOK' /\ WithinProcess' /\ TableOwn'
  BY DEF LockInv, LockObjectsOK, LockFileOK, WithinProcess, TableOwn,
     UnlinkMetadata, objectVars
<1>2. LockPlacesOK'
  BY DEF LockInv, LockPlacesOK, UnlinkMetadata
<1>3. HoldersFile'
  BY DEF LockInv, HoldersFile, UnlinkMetadata, Holder
<1>4. LocksHeld'
  BY DEF LockInv, LocksHeld, UnlinkMetadata, objectVars, Entered
<1>5. OneHolder'
  BY DEF LockInv, OneHolder, UnlinkMetadata, objectVars, Entered
<1>6. EnteredLock'
  BY DEF LockInv, EnteredLock, UnlinkMetadata, objectVars
<1>7. QED  BY <1>1, <1>2, <1>3, <1>4, <1>5, <1>6 DEF LockInv

\* The last unlink of the exit, while the asyncio.Lock is held.
LEMMA UnlinkAgainKeeps ==
    ASSUME LockInv, NEW t \in Writers, UnlinkAgain(t)
    PROVE  LockInv'
<1>1. LockObjectsOK' /\ WithinProcess' /\ TableOwn'
  BY DEF LockInv, LockObjectsOK, WithinProcess, TableOwn, UnlinkAgain,
     objectVars
<1>2. LockPlacesOK'
  BY DEF LockInv, LockPlacesOK, UnlinkAgain
<1>3. LockFileOK'
  BY DEF LockInv, LockFileOK, UnlinkAgain
<1>4. HoldersFile'
  BY DEF LockInv, LockPlacesOK, HoldersFile, UnlinkAgain, RemovesOthers,
     Holder
<1>5. LocksHeld'
  BY DEF LockInv, LocksHeld, UnlinkAgain, objectVars, Entered
<1>6. OneHolder'
  BY DEF LockInv, OneHolder, UnlinkAgain, objectVars, Entered
<1>7. EnteredLock'
  BY DEF LockInv, EnteredLock, UnlinkAgain, objectVars
<1>8. QED  BY <1>1, <1>2, <1>3, <1>4, <1>5, <1>6, <1>7 DEF LockInv

\* The asyncio.Lock is released by the one task that holds it.
LEMMA EndExitKeeps ==
    ASSUME LockInv, NEW t \in Writers, EndExit(t)
    PROVE  LockInv'
<1>1. LockFileOK'
  BY DEF LockInv, LockFileOK, EndExit, diskVars
<1>2. LockPlacesOK'
  BY DEF LockInv, LockPlacesOK, EndExit
<1>3. LockObjectsOK'
  BY DEF LockInv, LockObjectsOK, EndExit, ReleaseAsyncLock
<1>4. HoldersFile'
  BY DEF LockInv, HoldersFile, EndExit, diskVars, Holder
<1>5. LocksHeld'
  BY DEF LockInv, LockPlacesOK, LocksHeld, OneHolder, EndExit,
     ReleaseAsyncLock, Entered
<1>6. OneHolder'
  BY DEF LockInv, OneHolder, EnteredLock, EndExit, ReleaseAsyncLock, Entered
<1>7. WithinProcess'
  BY DEF LockInv, WithinProcess, EndExit, ReleaseAsyncLock
<1>8. TableOwn'
  BY DEF LockInv, TableOwn, EndExit, ReleaseAsyncLock
<1>9. EnteredLock'
  BY DEF LockInv, LockPlacesOK, EnteredLock, EndExit, ReleaseAsyncLock
<1>10. QED  BY <1>1, <1>2, <1>3, <1>4, <1>5, <1>6, <1>7, <1>8, <1>9 DEF
     LockInv

\* With a process all its tasks and its asyncio.Locks are gone.
LEMMA KillProcessKeeps ==
    ASSUME LockInv, NEW p \in Processes, KillProcess(p)
    PROVE  LockInv'
<1>1. LockFileOK'
  BY DEF LockInv, LockFileOK, KillProcess
<1>2. LockPlacesOK'
  BY DEF LockInv, LockPlacesOK, KillProcess
<1>3. LockObjectsOK'
  BY DEF LockInv, LockObjectsOK, KillProcess
<1>4. HoldersFile'
  BY DEF LockInv, HoldersFile, KillProcess, Holder
<1>5. LocksHeld'
  BY DEF LockInv, LocksHeld, WithinProcess, EnteredLock, KillProcess,
     Entered
<1>6. OneHolder'
  BY DEF LockInv, OneHolder, KillProcess, Entered
<1>7. WithinProcess'
  BY DEF LockInv, WithinProcess, KillProcess
<1>8. TableOwn'
  BY DEF LockInv, TableOwn, KillProcess
<1>9. EnteredLock'
  BY DEF LockInv, EnteredLock, KillProcess
<1>10. QED  BY <1>1, <1>2, <1>3, <1>4, <1>5, <1>6, <1>7, <1>8, <1>9 DEF
     LockInv

\* A new process has no tasks yet.
LEMMA RestartProcessKeeps ==
    ASSUME LockInv, NEW p \in Processes, RestartProcess(p)
    PROVE  LockInv'
<1>1. /\ LockPlacesOK' /\ LockObjectsOK' /\ LockFileOK' /\ HoldersFile'
      /\ LocksHeld' /\ OneHolder' /\ WithinProcess' /\ TableOwn'
      /\ EnteredLock'
  BY DEF LockInv, LockPlacesOK, LockObjectsOK, LockFileOK, HoldersFile,
     LocksHeld, OneHolder, WithinProcess, TableOwn, EnteredLock,
     RestartProcess, objectVars, diskVars, Holder, Entered
<1>2. QED  BY <1>1 DEF LockInv

\* The look of the repair changes nothing of the locks.
LEMMA HealLookKeeps ==
    ASSUME LockInv, NEW p \in Processes, HealLook(p)
    PROVE  LockInv'
<1>1. /\ LockPlacesOK' /\ LockObjectsOK' /\ LockFileOK' /\ HoldersFile'
      /\ LocksHeld' /\ OneHolder' /\ WithinProcess' /\ TableOwn'
      /\ EnteredLock'
  BY DEF LockInv, LockPlacesOK, LockObjectsOK, LockFileOK, HoldersFile,
     LocksHeld, OneHolder, WithinProcess, TableOwn, EnteredLock, HealLook,
     objectVars, diskVars, Holder, Entered
<1>2. QED  BY <1>1 DEF LockInv

\* The repair may remove the file of a holder, which broken records.
LEMMA HealRemoveKeeps ==
    ASSUME LockInv, NEW p \in Processes, HealRemove(p)
    PROVE  LockInv'
<1>1. /\ LockPlacesOK' /\ LockObjectsOK' /\ LocksHeld' /\ OneHolder'
      /\ WithinProcess' /\ TableOwn' /\ EnteredLock'
  BY DEF LockInv, LockPlacesOK, LockObjectsOK, LocksHeld, OneHolder,
     WithinProcess, TableOwn, EnteredLock, HealRemove, objectVars, Entered
<1>2. LockFileOK'
  BY DEF LockInv, LockFileOK, HealRemove
<1>3. HoldersFile'
  BY DEF LockInv, HoldersFile, HealRemove, RemovesOthers, Holder
<1>4. QED  BY <1>1, <1>2, <1>3 DEF LockInv

\* Metadata without a lock file goes.
LEMMA HealMetadataKeeps ==
    ASSUME LockInv, NEW p \in Processes, HealMetadata(p)
    PROVE  LockInv'
<1>1. /\ LockPlacesOK' /\ LockObjectsOK' /\ LockFileOK' /\ HoldersFile'
      /\ LocksHeld' /\ OneHolder' /\ WithinProcess' /\ TableOwn'
      /\ EnteredLock'
  BY DEF LockInv, LockPlacesOK, LockObjectsOK, LockFileOK, HoldersFile,
     LocksHeld, OneHolder, WithinProcess, TableOwn, EnteredLock, HealMetadata,
     objectVars, Holder, Entered
<1>2. QED  BY <1>1 DEF LockInv

\* A lock file that comes of age is still there.
LEMMA LockAgesKeeps ==
    ASSUME LockInv, LockAges
    PROVE  LockInv'
<1>1. /\ LockPlacesOK' /\ LockObjectsOK' /\ LockFileOK' /\ HoldersFile'
      /\ LocksHeld' /\ OneHolder' /\ WithinProcess' /\ TableOwn'
      /\ EnteredLock'
  BY DEF LockInv, LockPlacesOK, LockObjectsOK, LockFileOK, HoldersFile,
     LocksHeld, OneHolder, WithinProcess, TableOwn, EnteredLock, LockAges,
     objectVars, Holder, Entered
<1>2. QED  BY <1>1 DEF LockInv

\* At the start everybody is outside.
LEMMA LockInvStart == LockInit => LockInv
BY ArchiveLockAssumption DEF LockInit, LockInv, LockPlacesOK, LockObjectsOK,
   LockFileOK, HoldersFile, LocksHeld, OneHolder, WithinProcess, TableOwn,
   EnteredLock, Holder, Entered

\* Every step of a writer, and every death and repair, keeps it.
LEMMA LockInvStep == LockInv /\ [LockNext]_lockVars => LockInv'
<1> SUFFICES ASSUME LockInv, [LockNext]_lockVars  PROVE LockInv'
  OBVIOUS
<1>1. ASSUME NEW t \in Writers, EnterArchive(t)  PROVE LockInv'
  BY <1>1, EnterCases, EnterWithKeeps
<1>2. ASSUME NEW t \in Writers, WriterStep(t)  PROVE LockInv'
  BY <1>2, GetAsyncLockKeeps, CreateLockFileKeeps, WriteMetadataKeeps,
     FindStaleKeeps, RemoveStaleLockKeeps, RemoveStaleMetadataKeeps,
     GiveUpLockKeeps, LeaveArchiveKeeps, UnlinkMetadataKeeps, UnlinkAgainKeeps,
     EndExitKeeps DEF WriterStep
<1>3. ASSUME NEW t \in Writers, CancelWaiting(t) \/ CancelEnter(t) \/ CancelCreated(t)
      PROVE  LockInv'
  BY <1>3, CancelWaitingKeeps, CancelEnterKeeps, CancelCreatedKeeps
<1>4. ASSUME NEW p \in Processes, KillProcess(p) \/ RestartProcess(p) \/ HealStep(p)
      PROVE  LockInv'
  BY <1>4, KillProcessKeeps, RestartProcessKeeps, HealLookKeeps, HealRemoveKeeps,
     HealMetadataKeeps DEF HealStep
<1>5. CASE UNCHANGED lockVars
  BY <1>5 DEF lockVars, LockInv, LockPlacesOK, LockObjectsOK, LockFileOK,
     HoldersFile, LocksHeld, OneHolder, WithinProcess, TableOwn, EnteredLock,
     Holder, Entered
<1>6. QED
  BY <1>1, <1>2, <1>3, <1>4, <1>5, LockAgesKeeps DEF LockNext

\* The inductive invariant of the archive lock.
LEMMA LockInvariant == LockSpec => []LockInv
BY LockInvStart, LockInvStep, PTL DEF LockSpec

\* Two tasks, of one process or of two, are inside the archive at once only
\* after somebody removed the lock file of a task that held it: stale cleanup,
\* the repair at a start or an exit (AsyncFileLock in storage.py).
THEOREM OverlapNeedsForeignRemovalTheorem == LockSpec => []OverlapNeedsForeignRemoval
<1>1. LockInv => OverlapNeedsForeignRemoval
  BY DEF LockInv, HoldersFile, Holder, OverlapNeedsForeignRemoval
<1>2. QED
  BY <1>1, LockInvariant, PTL

\* The last unlink of an exit (AsyncFileLock.__aexit__) meets the lock file of
\* another holder only if that one has another asyncio.Lock: of one lock there
\* is one holder until the exit has ended.
THEOREM ExitSparesSameLockTheorem == LockSpec => ExitSparesSameLock
<1>1. LockInv /\ [LockNext]_lockVars =>
        [\A t \in Writers :
           at[t] = "unlinking" /\ at'[t] = "unlinked" /\ RemovesOthers(t)
           => asyncLock[t] # asyncLock[lockFile]]_lockVars
  BY DEF LockInv, LockFileOK, OneHolder, Entered, RemovesOthers, Holder
<1>2. QED
  BY <1>1, LockInvariant, PTL DEF LockSpec, ExitSparesSameLock

(* The rest of LockTypeOK.                                                    *)
WaitersOK == /\ waiters \in [AsyncLocks -> Seq(Writers)]
             /\ locked \subseteq AsyncLocks
ServersOK == /\ alive \subseteq Processes
             /\ healing \in [Processes -> {"none", "looking", "removing", "metadata", "done"}]
MetadataOK == /\ owner \in Writers \cup {NoWriter}
              /\ aged \in BOOLEAN /\ broken \in BOOLEAN
LockTypes == WaitersOK /\ ServersOK /\ MetadataOK

\* What leaves a queue was in it.
LEMMA QueueShrinks ==
    ASSUME NEW S, NEW q \in Seq(S), NEW i \in DOMAIN q
    PROVE  RemoveAt(q, i) \in Seq(S) /\ Tail(q) \in Seq(S)
<1>1. i \in 1..Len(q) /\ Len(q) \in Nat
  OBVIOUS
<1>2. /\ SubSeq(q, 1, i - 1) \in Seq(S)
      /\ SubSeq(q, i + 1, Len(q)) \in Seq(S)
  BY <1>1
<1>3. RemoveAt(q, i) \in Seq(S)
  BY <1>2 DEF RemoveAt
<1>4. QED
  BY <1>1, <1>3

\* The places of an asyncio.Lock are as those of a task that uses it.
LEMMA WaitersStep ==
    ASSUME LockInv, LockTypes, LockNext
    PROVE  WaitersOK'
<1> USE DEF LockTypes
<1>1. ASSUME UNCHANGED <<waiters, locked>>  PROVE WaitersOK'
  BY <1>1 DEF WaitersOK
<1>2. ASSUME NEW t \in Writers, ReleaseAsyncLock(t)  PROVE WaitersOK'
  BY <1>2 DEF ReleaseAsyncLock, WaitersOK
<1>3. ASSUME NEW t \in Writers, EnterArchive(t)  PROVE WaitersOK'
  <2>1. PICK o \in AsyncLocks : asyncLock' = [asyncLock EXCEPT ![t] = o]
    BY <1>3, EnterCases DEF EnterWith
  <2>2. asyncLock'[t] = o
    BY <2>1 DEF LockInv, LockObjectsOK
  <2>3. \/ waiters' = [waiters EXCEPT ![o] = Append(@, t)] /\ UNCHANGED locked
        \/ locked' = locked \cup {o} /\ UNCHANGED waiters
    <3> DEFINE e == IF table[ProcessOf[t]] # 0 THEN table[ProcessOf[t]]
                    ELSE Minimum(AsyncLocks \ ({table[q] : q \in Processes}
                                               \cup {asyncLock[u] : u \in Writers}))
    <3>1. asyncLock' = [asyncLock EXCEPT ![t] = e]
      BY <1>3 DEF EnterArchive
    <3>2. e = o
      BY <2>2, <3>1 DEF LockInv, LockObjectsOK
    <3>3. \/ waiters' = [waiters EXCEPT ![e] = Append(@, t)] /\ UNCHANGED locked
          \/ locked' = locked \cup {e} /\ UNCHANGED waiters
      BY <1>3 DEF EnterArchive
    <3>4. QED
      BY <3>2, <3>3
  <2>4. Append(waiters[o], t) \in Seq(Writers)
    BY DEF WaitersOK
  <2>5. QED
    BY <2>3, <2>4 DEF WaitersOK
<1>4. ASSUME NEW t \in Writers, GetAsyncLock(t)  PROVE WaitersOK'
  <2>1. asyncLock[t] \in AsyncLocks
    BY <1>4 DEF GetAsyncLock, LockInv, LockObjectsOK, EnteredLock
  <2>2. PICK o \in AsyncLocks : o = asyncLock[t]
    BY <2>1
  <2>3. /\ locked' = locked \cup {o}
        /\ waiters' = [waiters EXCEPT ![o] = Tail(@)]
        /\ waiters[o] # <<>>
    BY <1>4, <2>2 DEF GetAsyncLock
  <2>4. waiters[o] \in Seq(Writers)
    BY DEF WaitersOK
  <2>5. Tail(waiters[o]) \in Seq(Writers)
    BY <2>3, <2>4
  <2>6. QED
    BY <2>3, <2>5 DEF WaitersOK
<1>5. ASSUME NEW t \in Writers, CancelWaiting(t)  PROVE WaitersOK'
  <2>1. asyncLock[t] \in AsyncLocks
    BY <1>5 DEF CancelWaiting, LockInv, LockObjectsOK, EnteredLock
  <2>2. PICK o \in AsyncLocks : o = asyncLock[t]
    BY <2>1
  <2>3. UNCHANGED locked /\ \E i \in DOMAIN waiters[o] :
                               waiters' = [waiters EXCEPT ![o] = RemoveAt(@, i)]
    BY <1>5, <2>2 DEF CancelWaiting
  <2>4. PICK i \in DOMAIN waiters[o] : waiters' = [waiters EXCEPT ![o] = RemoveAt(@, i)]
    BY <2>3
  <2>5. waiters[o] \in Seq(Writers)
    BY DEF WaitersOK
  <2>6. RemoveAt(waiters[o], i) \in Seq(Writers)
    BY <2>5, QueueShrinks
  <2>7. QED
    BY <2>3, <2>4, <2>6 DEF WaitersOK
<1>6. ASSUME NEW p \in Processes, KillProcess(p)  PROVE WaitersOK'
  <2>1. /\ locked' \subseteq locked
        /\ DOMAIN waiters' = AsyncLocks
        /\ \A o \in AsyncLocks : waiters'[o] = <<>> \/ waiters'[o] = waiters[o]
        /\ waiters' = [o \in AsyncLocks |-> waiters'[o]]
    BY <1>6 DEF KillProcess
  <2>2. \A o \in AsyncLocks : waiters'[o] \in Seq(Writers)
    <3>1. <<>> \in Seq(Writers)
      OBVIOUS
    <3>2. \A o \in AsyncLocks : waiters[o] \in Seq(Writers)
      BY DEF WaitersOK
    <3>3. QED
      BY <2>1, <3>1, <3>2
  <2>3. QED
    BY <2>1, <2>2 DEF WaitersOK
<1>7. QED
  BY <1>1, <1>2, <1>3, <1>4, <1>5, <1>6
  DEF LockNext, WriterStep, HealStep, CreateLockFile, WriteMetadata, FindStale, RemoveStaleLock,
      RemoveStaleMetadata, GiveUpLock, LeaveArchive, UnlinkMetadata, UnlinkAgain, EndExit,
      CancelEnter, CancelCreated, RestartProcess, HealLook, HealRemove, HealMetadata, LockAges,
      objectVars

\* A task writes its own name into the metadata, and a process its own repair.
LEMMA MetadataStep ==
    ASSUME LockInv, LockTypes, LockNext
    PROVE  ServersOK' /\ MetadataOK'
<1> USE DEF LockTypes, ServersOK, MetadataOK
<1>1. ASSUME NEW t \in Writers, EnterArchive(t) \/ WriterStep(t)  PROVE ServersOK' /\ MetadataOK'
  BY <1>1 DEF WriterStep, EnterArchive, GetAsyncLock, CreateLockFile, WriteMetadata, FindStale,
      RemoveStaleLock, RemoveStaleMetadata, GiveUpLock, LeaveArchive, UnlinkMetadata,
      UnlinkAgain, EndExit, RemovesOthers, Holder, processVars, diskVars
<1>2. ASSUME NEW t \in Writers, CancelWaiting(t) \/ CancelEnter(t) \/ CancelCreated(t)
      PROVE  ServersOK' /\ MetadataOK'
  BY <1>2 DEF CancelWaiting, CancelEnter, CancelCreated, RemovesOthers, Holder, processVars,
      diskVars
<1>3. ASSUME NEW p \in Processes, KillProcess(p)  PROVE ServersOK' /\ MetadataOK'
  BY <1>3 DEF KillProcess
<1>4. ASSUME NEW p \in Processes, RestartProcess(p) \/ HealStep(p)
      PROVE  ServersOK' /\ MetadataOK'
  BY <1>4 DEF RestartProcess, HealStep, HealLook, HealRemove, HealMetadata, RemovesOthers,
      Holder, diskVars
<1>5. CASE LockAges
  BY <1>5 DEF LockAges, processVars
<1>6. QED
  BY <1>1, <1>2, <1>3, <1>4, <1>5 DEF LockNext

\* Every reachable state of the archive lock is well-typed.
THEOREM LockTypeCorrect == LockSpec => []LockTypeOK
<1>1. LockInit => LockTypes
  <2>1. <<>> \in Seq(Writers)
    OBVIOUS
  <2>2. LockInit => WaitersOK
    BY <2>1 DEF LockInit, WaitersOK
  <2>3. LockInit => ServersOK /\ MetadataOK
    BY DEF LockInit, ServersOK, MetadataOK
  <2>4. QED
    BY <2>2, <2>3 DEF LockTypes
<1>2. LockInv /\ LockTypes /\ [LockNext]_lockVars => LockTypes'
  <2>1. CASE UNCHANGED lockVars
    BY <2>1 DEF lockVars, LockTypes, WaitersOK, ServersOK, MetadataOK
  <2>2. QED
    BY <2>1, WaitersStep, MetadataStep DEF LockTypes
<1>3. LockSpec => []LockTypes
  BY <1>1, <1>2, LockInvariant, PTL DEF LockSpec
<1>4. LockInv /\ LockTypes => LockTypeOK
  BY DEF LockInv, LockPlacesOK, LockObjectsOK, LockFileOK, LockTypes, WaitersOK, ServersOK,
     MetadataOK, LockTypeOK
<1>5. QED
  BY <1>3, <1>4, LockInvariant, PTL

-----------------------------------------------------------------------------
(* CommitQueue.                                                               *)
CallersOK == caller \in [Requests -> {"new", "waiting", "left", "direct", "background",
                                      "committed", "failed", "cancelled"}]
WritesOK == /\ disk \in [Paths -> Nat] /\ head \in [Paths -> Nat]
            /\ \A r \in Requests : version[r] \in [PathsOf[r] -> Nat]
            /\ DOMAIN version = Requests

HeadOnDisk == \A p \in Paths : head[p] <= disk[p]

VersionsOnDisk == \A r \in Requests : \A p \in PathsOf[r] : version[r][p] <= disk[p]

QueueInv == /\ CallersOK /\ WritesOK /\ HeadOnDisk /\ VersionsOnDisk
            /\ CommittedMeansInHead

(* What a commit of a set of requests does to head, and what its answer does. *)
CommitsSome(R) ==
    /\ CommitPaths(R)
    /\ caller' \in [Requests -> {"new", "waiting", "left", "direct", "background",
                                      "committed", "failed", "cancelled"}]
    /\ \A r \in Requests : caller'[r] = "committed" => caller[r] = "committed" \/ r \in R
    /\ UNCHANGED writeVars

FailsSome ==
    /\ caller' \in [Requests -> {"new", "waiting", "left", "direct", "background",
                                      "committed", "failed", "cancelled"}]
    /\ \A r \in Requests : caller'[r] = "committed" => caller[r] = "committed"
    /\ UNCHANGED <<head, writeVars>>

\* A commit of the requests at some places of the batch has one of two ends.
LEMMA CommitNextCases ==
    ASSUME QueueInv, CommitNext
    PROVE  (\E R : CommitsSome(R)) \/ FailsSome
<1>1. PICK i \in uncommitted :
        /\ \/ /\ CommitPaths({batch[j] : j \in CommittedWith(i)})
              /\ Answer(CommittedWith(i), "committed")
           \/ UNCHANGED head /\ Answer(CommittedWith(i), "failed")
        /\ UNCHANGED writeVars
  BY DEF CommitNext
<1>2. ASSUME CommitPaths({batch[j] : j \in CommittedWith(i)}),
             Answer(CommittedWith(i), "committed")
      PROVE  CommitsSome({batch[j] : j \in CommittedWith(i)})
  BY <1>1, <1>2 DEF Answer, CommitsSome, QueueInv, CallersOK
<1>3. ASSUME UNCHANGED head, Answer(CommittedWith(i), "failed")
      PROVE  FailsSome
  BY <1>1, <1>3 DEF Answer, FailsSome, QueueInv, CallersOK
<1>4. QED
  BY <1>1, <1>2, <1>3

\* So has a commit that does not go through the queue.
LEMMA CommitDirectCases ==
    ASSUME QueueInv, NEW r \in Requests, CommitDirect(r)
    PROVE  CommitsSome({r}) \/ FailsSome
BY DEF CommitDirect, CommitsSome, FailsSome, QueueInv, CallersOK

\* A commit brings head up to what is on disk, for the paths of its requests
\* at least: their versions are in head, and nobody else's leave it.
LEMMA CommitsKeeps ==
    ASSUME QueueInv, NEW R, CommitsSome(R)
    PROVE  QueueInv'
<1>0. /\ caller' \in [Requests -> {"new", "waiting", "left", "direct", "background",
                                      "committed", "failed", "cancelled"}]
      /\ UNCHANGED writeVars
      /\ \A r \in Requests : caller'[r] = "committed" => caller[r] = "committed" \/ r \in R
  BY DEF CommitsSome
<1>1. CallersOK'
  BY <1>0 DEF CallersOK
<1>2. head' \in [Paths -> Nat] /\ \A p \in Paths : head'[p] \in {head[p], disk[p]}
  BY DEF CommitsSome, CommitPaths, QueueInv, WritesOK
<1>3. \A r \in R \cap Requests : \A p \in PathsOf[r] : head'[p] = disk[p]
  BY CommitQueueAssumption DEF CommitsSome, CommitPaths
<1>4. WritesOK' /\ HeadOnDisk' /\ VersionsOnDisk'
  BY <1>0, <1>2 DEF QueueInv, WritesOK, HeadOnDisk, VersionsOnDisk, writeVars
<1>5. CommittedMeansInHead'
  <2> SUFFICES ASSUME NEW r \in Requests, caller'[r] = "committed", NEW p \in PathsOf[r]
               PROVE  head'[p] >= version[r][p]
    BY <1>0 DEF CommittedMeansInHead, writeVars
  <2>1. p \in Paths  BY CommitQueueAssumption
  <2>2. version[r][p] \in Nat /\ head[p] \in Nat /\ disk[p] \in Nat
    BY <2>1 DEF QueueInv, WritesOK
  <2>3. CASE r \in R
    BY <1>3, <2>2, <2>3 DEF QueueInv, VersionsOnDisk
  <2>4. CASE caller[r] = "committed"
    <3>1. head'[p] >= head[p]  BY <1>2, <2>1, <2>2 DEF QueueInv, HeadOnDisk
    <3>2. head[p] >= version[r][p]  BY <2>4 DEF QueueInv, CommittedMeansInHead
    <3>3. head'[p] \in Nat  BY <1>2, <2>1
    <3>4. QED  BY <3>1, <3>2, <3>3, <2>2
  <2>5. QED  BY <1>0, <2>3, <2>4
<1>6. QED  BY <1>1, <1>4, <1>5 DEF QueueInv

\* A failed commit tells nobody that it committed.
LEMMA FailsKeeps ==
    ASSUME QueueInv, FailsSome
    PROVE  QueueInv'
<1>1. CallersOK'  BY DEF FailsSome, CallersOK
<1>2. QED  BY <1>1 DEF QueueInv, FailsSome, WritesOK, HeadOnDisk, VersionsOnDisk,
                      CommittedMeansInHead, writeVars

\* Only a new request gets a version, and no path is written back.
LEMMA EnqueueKeeps ==
    ASSUME QueueInv, NEW r \in Requests, Enqueue(r)
    PROVE  QueueInv'
<1>1. /\ disk' \in [Paths -> Nat]
      /\ \A p \in Paths : disk'[p] >= disk[p]
      /\ \A p \in PathsOf[r] : version'[r][p] = disk'[p]
      /\ version'[r] \in [PathsOf[r] -> Nat] /\ DOMAIN version' = Requests
      /\ \A q \in Requests : q # r => version'[q] = version[q]
      /\ UNCHANGED head
  <2>1. disk' = [p \in Paths |-> disk[p] + IF p \in PathsOf[r] THEN 1 ELSE 0]
        /\ version' = [version EXCEPT ![r] = [p \in PathsOf[r] |-> disk'[p]]]
        /\ UNCHANGED head
    BY DEF Enqueue
  <2>2. PathsOf[r] \subseteq Paths  BY CommitQueueAssumption
  <2>3. disk' \in [Paths -> Nat] /\ \A p \in Paths : disk'[p] >= disk[p]
    BY <2>1 DEF QueueInv, WritesOK
  <2>4. QED  BY <2>1, <2>2, <2>3 DEF QueueInv, WritesOK
<1>2. /\ CallersOK' /\ caller[r] = "new" /\ caller'[r] # "committed"
      /\ \A q \in Requests : q # r => caller'[q] = caller[q]
  BY DEF Enqueue, QueueInv, CallersOK
<1>3. WritesOK'  BY <1>1 DEF QueueInv, WritesOK
<1>4. HeadOnDisk'  BY <1>1 DEF QueueInv, HeadOnDisk, WritesOK
<1>5. VersionsOnDisk'
  <2> SUFFICES ASSUME NEW q \in Requests, NEW p \in PathsOf[q]
               PROVE  version'[q][p] <= disk'[p]
    BY DEF VersionsOnDisk
  <2>1. p \in Paths  BY CommitQueueAssumption
  <2>2. CASE q = r  BY <1>1, <2>1, <2>2
  <2>3. CASE q # r
    BY <1>1, <2>1, <2>3 DEF QueueInv, VersionsOnDisk, WritesOK
  <2>4. QED  BY <2>2, <2>3
<1>6. CommittedMeansInHead'
  BY <1>1, <1>2 DEF QueueInv, CommittedMeansInHead
<1>7. QED  BY <1>2, <1>3, <1>4, <1>5, <1>6 DEF QueueInv

\* What neither writes nor commits keeps the invariant.
LEMMA OthersKeep ==
    ASSUME QueueInv, \/ \E r \in Requests : CancelCaller(r)
                     \/ TakeBatch \/ EndBatch \/ ShutDownQueue \/ CancelQueueTask
                     \/ UNCHANGED commitVars
    PROVE  QueueInv'
<1>1. UNCHANGED <<writeVars, head>>
  BY DEF CancelCaller, TakeBatch, EndBatch, ShutDownQueue, CancelQueueTask, commitVars, writeVars
<1>2. CallersOK' /\ \A r \in Requests : caller'[r] = "committed" => caller[r] = "committed"
  BY DEF CancelCaller, TakeBatch, EndBatch, ShutDownQueue, CancelQueueTask, commitVars, QueueInv,
         CallersOK
<1>3. QED  BY <1>1, <1>2 DEF QueueInv, WritesOK, HeadOnDisk, VersionsOnDisk,
                            CommittedMeansInHead, writeVars

\* The inductive invariant of the commit queue.
LEMMA QueueInvariant == QueueSpec => []QueueInv
<1>1. QueueInit => QueueInv
  BY CommitQueueAssumption DEF QueueInit, QueueInv, CallersOK, WritesOK, HeadOnDisk, VersionsOnDisk,
         CommittedMeansInHead
<1>2. QueueInv /\ [QueueNext]_commitVars => QueueInv'
  <2> SUFFICES ASSUME QueueInv, [QueueNext]_commitVars  PROVE QueueInv'
    OBVIOUS
  <2>1. ASSUME CommitNext  PROVE QueueInv'
    BY <2>1, CommitNextCases, CommitsKeeps, FailsKeeps
  <2>2. ASSUME NEW r \in Requests, CommitDirect(r)  PROVE QueueInv'
    BY <2>2, CommitDirectCases, CommitsKeeps, FailsKeeps
  <2>3. ASSUME NEW r \in Requests, Enqueue(r)  PROVE QueueInv'
    BY <2>3, EnqueueKeeps
  <2>4. QED
    BY <2>1, <2>2, <2>3, OthersKeep DEF QueueNext, QueueTask
<1>3. QED  BY <1>1, <1>2, PTL DEF QueueSpec

\* Whoever is told that its files are committed finds them in head in the version
\* it wrote or a later one, with other requests, merged batches, direct commits,
\* failures and cancellations in between (CommitQueue in storage.py).
THEOREM CommittedMeansInHeadTheorem == QueueSpec => []CommittedMeansInHead
<1>1. QueueInv => CommittedMeansInHead
  BY DEF QueueInv
<1>2. QED  BY <1>1, QueueInvariant, PTL

(* The rest of QueueTypeOK: what Queue.join waits for are the requests in the *)
(* queue and those of the batch.                                              *)
BatchesOK ==
    /\ commitQueue \in Seq(Requests) /\ batch \in Seq(Requests)
    /\ uncommitted \subseteq DOMAIN batch
    /\ joined = Len(commitQueue) + Len(batch)
    /\ stopping \in {"no", "draining", "stopped"}

\* A batch is taken off the queue, and counted until it has ended.
LEMMA BatchesStep == BatchesOK /\ [QueueNext]_commitVars => BatchesOK'
<1> SUFFICES ASSUME BatchesOK, [QueueNext]_commitVars  PROVE BatchesOK'
  OBVIOUS
<1>0. /\ commitQueue \in Seq(Requests) /\ batch \in Seq(Requests)
      /\ Len(commitQueue) \in Nat /\ Len(batch) \in Nat
      /\ joined = Len(commitQueue) + Len(batch)
  BY DEF BatchesOK
<1>1. ASSUME NEW r \in Requests, Enqueue(r)  PROVE BatchesOK'
  <2>1. /\ \/ commitQueue' = Append(commitQueue, r) /\ joined' = joined + 1
           \/ UNCHANGED <<commitQueue, joined>>
        /\ UNCHANGED <<batch, uncommitted, stopping>>
    BY <1>1 DEF Enqueue
  <2>2. Append(commitQueue, r) \in Seq(Requests)
        /\ Len(Append(commitQueue, r)) = Len(commitQueue) + 1
    BY <1>0
  <2>3. joined' = Len(commitQueue') + Len(batch')
    <3>1. CASE commitQueue' = Append(commitQueue, r) /\ joined' = joined + 1
      <4>1. Len(commitQueue') = Len(commitQueue) + 1 /\ Len(batch') = Len(batch)
        BY <2>1, <2>2, <3>1
      <4>2. QED
        BY <1>0, <3>1, <4>1
    <3>2. QED
      BY <1>0, <2>1, <3>1
  <2>4. commitQueue' \in Seq(Requests) /\ UNCHANGED <<batch, uncommitted, stopping>>
    BY <1>0, <2>1, <2>2
  <2>5. QED
    BY <2>3, <2>4 DEF BatchesOK
<1>2. CASE TakeBatch
  <2>1. PICK n \in 0..Len(commitQueue) :
          /\ batch = <<>>
          /\ commitQueue' = SubSeq(commitQueue, n + 1, Len(commitQueue))
          /\ batch' = SubSeq(commitQueue, 1, n)
          /\ uncommitted' = DOMAIN batch'
          /\ UNCHANGED <<joined, stopping>>
    <3> DEFINE k == IF Len(commitQueue) < MaxBatch THEN Len(commitQueue) ELSE MaxBatch
    <3>1. k \in 0..Len(commitQueue)
      BY <1>0, CommitQueueAssumption
    <3>2. QED
      BY <1>2, <3>1 DEF TakeBatch
  <2>2. /\ commitQueue' \in Seq(Requests) /\ batch' \in Seq(Requests)
        /\ Len(commitQueue') = Len(commitQueue) - n /\ Len(batch') = n
    BY <1>0, <2>1
  <2>3. joined' = Len(commitQueue') + Len(batch')
    <3>1. Len(batch) = 0 /\ joined' = joined
      BY <2>1
    <3>2. QED
      BY <1>0, <2>2, <3>1
  <2>4. UNCHANGED stopping /\ uncommitted' = DOMAIN batch'
    BY <2>1
  <2>5. QED
    BY <2>2, <2>3, <2>4 DEF BatchesOK
<1>3. CASE CommitNext
  <2>1. /\ uncommitted' \subseteq uncommitted
        /\ UNCHANGED <<commitQueue, batch, joined, stopping>>
    BY <1>3 DEF CommitNext, Answer
  <2>2. QED
    BY <2>1 DEF BatchesOK
<1>4. CASE EndBatch
  <2>1. /\ joined' = joined - Len(batch) /\ batch' = <<>> /\ uncommitted = {}
        /\ UNCHANGED <<commitQueue, uncommitted, stopping>>
    BY <1>4 DEF EndBatch
  <2>2. batch' \in Seq(Requests) /\ Len(batch') = 0
    BY <2>1
  <2>3. QED
    BY <1>0, <2>1, <2>2 DEF BatchesOK
<1>5. ASSUME \/ \E r \in Requests : CommitDirect(r) \/ CancelCaller(r)
             \/ ShutDownQueue \/ CancelQueueTask \/ UNCHANGED commitVars
      PROVE  BatchesOK'
  BY <1>5 DEF CommitDirect, CancelCaller, ShutDownQueue, CancelQueueTask, commitVars, queueVars,
     BatchesOK
<1>6. QED
  BY <1>1, <1>2, <1>3, <1>4, <1>5 DEF QueueNext, QueueTask

\* Every reachable state of the commit queue is well-typed.
THEOREM QueueTypeCorrect == QueueSpec => []QueueTypeOK
<1>1. QueueInit => BatchesOK
  <2>1. <<>> \in Seq(Requests) /\ Len(<<>>) = 0
    OBVIOUS
  <2>2. QED
    BY <2>1 DEF QueueInit, BatchesOK
<1>2. QueueSpec => []BatchesOK
  BY <1>1, BatchesStep, PTL DEF QueueSpec
<1>3. QueueInv /\ BatchesOK => QueueTypeOK
  BY DEF QueueInv, CallersOK, WritesOK, BatchesOK, QueueTypeOK
<1>4. QED
  BY <1>2, <1>3, QueueInvariant, PTL
=============================================================================
