---------------------------- MODULE ArchiveLock -----------------------------
(* The write lock of a project archive: storage.py, AsyncFileLock,            *)
(* archive_write_lock and the start of heal_archive_locks.                    *)
(*                                                                            *)
(* A task takes an asyncio.Lock of its process, found in a table by the path  *)
(* of the lock, then creates the lock file, which fails while it exists, then *)
(* writes the metadata that names its process.  Who fails to create the file  *)
(* looks whether it is stale and removes it if so; reading and removing are   *)
(* separate steps, and so are the three unlinks at the exit, all of them by   *)
(* path and whoever created the file.                                         *)
EXTENDS Integers, Sequences, FiniteSets, SequencesExt

CONSTANTS
    Writers,         \* tasks that use the archive
    Processes,       \* the server and other programs on the same storage
    ProcessOf,       \* the process a task runs in
    AsyncLocks,      \* bound: asyncio.Lock objects alive at once
    NoWriter,
    MaxEntries,      \* bound: entries of all tasks
    MaxLockFaults    \* bound: kills, cancellations and locks that grow old

ASSUME ArchiveLockAssumption ==
    /\ ProcessOf \in [Writers -> Processes] /\ NoWriter \notin Writers
    /\ AsyncLocks \subseteq Nat \ {0}
    /\ MaxEntries \in Nat /\ MaxLockFaults \in Nat

VARIABLES
    at,          \* where each task stands
    asyncLock,   \* the asyncio.Lock each task waits for or holds, 0 if none
    locked,      \* the asyncio.Locks that are locked
    waiters,     \* tasks waiting for each asyncio.Lock, in order
    table,       \* _PROCESS_LOCKS: the asyncio.Lock found by path, 0 if none
    alive,       \* processes that run
    healing,     \* where the start-up repair of each process stands
    lockFile,    \* who created the lock file, NoWriter if there is none
    owner,       \* metadata file: its writer, NoWriter if there is none
    aged,        \* the metadata is older than stale_timeout_seconds
    broken,      \* history: a holder's lock file was removed by another
    entries,     \* entries so far
    lockFaults   \* faults so far

lockVars == <<at, asyncLock, locked, waiters, table, alive, healing, lockFile, owner,
              aged, broken, entries, lockFaults>>
objectVars == <<asyncLock, locked, waiters, table>>
diskVars == <<lockFile, owner, aged>>
processVars == <<alive, healing>>
boundVars == <<entries, lockFaults>>

Minimum(S) == CHOOSE x \in S : \A y \in S : x <= y
LockFault == lockFaults < MaxLockFaults /\ lockFaults' = lockFaults + 1

(* A task whose lock file must not be removed by others.                      *)
Holder(t) == at[t] \in {"created", "inside"}

-----------------------------------------------------------------------------
(* __aenter__                                                                 *)

(* The asyncio.Lock in the table, or a new one put there; a task that finds   *)
(* it locked, or others waiting, waits behind them.                           *)
EnterArchive(t) ==
    LET p == ProcessOf[t]
        unused == AsyncLocks \ ({table[q] : q \in Processes}
                                \cup {asyncLock[u] : u \in Writers})
        o == IF table[p] # 0 THEN table[p] ELSE Minimum(unused)
        waits == o \in locked \/ waiters[o] # <<>>
    IN
    /\ at[t] = "idle" /\ p \in alive /\ healing[p] = "done"
    /\ entries < MaxEntries
    /\ table[p] # 0 \/ unused # {}
    /\ table' = [table EXCEPT ![p] = o]
    /\ asyncLock' = [asyncLock EXCEPT ![t] = o]
    /\ IF waits
       THEN waiters' = [waiters EXCEPT ![o] = Append(@, t)] /\ UNCHANGED locked
       ELSE locked' = locked \cup {o} /\ UNCHANGED waiters
    /\ at' = [at EXCEPT ![t] = IF waits THEN "queued" ELSE "trying"]
    /\ entries' = entries + 1
    /\ UNCHANGED <<processVars, diskVars, broken, lockFaults>>

(* The first waiter runs some time after the release that woke it.            *)
GetAsyncLock(t) ==
    LET o == asyncLock[t] IN
    /\ at[t] = "queued" /\ waiters[o] # <<>> /\ Head(waiters[o]) = t /\ o \notin locked
    /\ locked' = locked \cup {o}
    /\ waiters' = [waiters EXCEPT ![o] = Tail(@)]
    /\ at' = [at EXCEPT ![t] = "trying"]
    /\ UNCHANGED <<asyncLock, table, processVars, diskVars, broken, boundVars>>

\* mutant: without O_EXCL
CreateLockFileShared(t) ==
    /\ at[t] = "trying"
    /\ lockFile' = t
    /\ at' = [at EXCEPT ![t] = "created"]
    /\ UNCHANGED <<objectVars, processVars, owner, aged, broken, boundVars>>

(* SoftFileLock: O_CREAT with O_EXCL.                                         *)
CreateLockFile(t) ==
    /\ at[t] = "trying" /\ lockFile = NoWriter
    /\ lockFile' = t
    /\ at' = [at EXCEPT ![t] = "created"]
    /\ UNCHANGED <<objectVars, processVars, owner, aged, broken, boundVars>>

WriteMetadata(t) ==
    /\ at[t] = "created"
    /\ owner' = t /\ aged' = FALSE
    /\ at' = [at EXCEPT ![t] = "inside"]
    /\ UNCHANGED <<objectVars, processVars, lockFile, broken, boundVars>>

(* _cleanup_if_stale: a lock is stale without metadata, when its process is   *)
(* dead, or at its age.                                                       *)
OwnerAlive == owner # NoWriter /\ ProcessOf[owner] \in alive
Stale == lockFile # NoWriter /\ (~OwnerAlive \/ aged)

(* The file stays there for the timeout of an attempt; what the task then     *)
(* reads decides whether it removes the file, and tries again in either case. *)
FindStale(t) ==
    /\ at[t] = "trying" /\ Stale
    /\ at' = [at EXCEPT ![t] = "removing"]
    /\ UNCHANGED <<objectVars, processVars, diskVars, broken, boundVars>>

RemovesOthers(t) == lockFile \notin {NoWriter, t} /\ Holder(lockFile)

RemoveStaleLock(t) ==
    /\ at[t] = "removing"
    /\ broken' = (broken \/ RemovesOthers(t))
    /\ lockFile' = NoWriter
    /\ at' = [at EXCEPT ![t] = "removed"]
    /\ UNCHANGED <<objectVars, processVars, owner, aged, boundVars>>

RemoveStaleMetadata(t) ==
    /\ at[t] = "removed"
    /\ owner' = NoWriter /\ aged' = FALSE
    /\ at' = [at EXCEPT ![t] = "trying"]
    /\ UNCHANGED <<objectVars, processVars, lockFile, broken, boundVars>>

(* Process-level lock released, and its entry in the table dropped: locked() is   *)
(* false then even when release has just woken a waiter.                      *)
ReleaseAsyncLock(t) ==
    /\ asyncLock' = [asyncLock EXCEPT ![t] = 0]
    /\ locked' = locked \ {asyncLock[t]}
    /\ table' = [table EXCEPT ![ProcessOf[t]] = 0]
    /\ UNCHANGED waiters

\* mutant: the timeout does not release the asyncio.Lock
GiveUpLocked(t) ==
    /\ at[t] = "trying" /\ lockFile # NoWriter /\ ~Stale
    /\ at' = [at EXCEPT ![t] = "idle"]
    /\ asyncLock' = [asyncLock EXCEPT ![t] = 0]
    /\ UNCHANGED <<locked, waiters, table, processVars, diskVars, broken, boundVars>>

(* TimeoutError after the last attempt.                                       *)
GiveUpLock(t) ==
    /\ at[t] = "trying" /\ lockFile # NoWriter /\ ~Stale
    /\ at' = [at EXCEPT ![t] = "idle"]
    /\ ReleaseAsyncLock(t)
    /\ UNCHANGED <<processVars, diskVars, broken, boundVars>>

(* Cancelled while a thread tries to create the file: _held is still false,   *)
(* so nobody removes the file that thread then creates.                       *)
CancelEnter(t) ==
    /\ at[t] = "trying" /\ LockFault
    /\ at' = [at EXCEPT ![t] = "idle"]
    /\ lockFile' = IF lockFile = NoWriter THEN t ELSE lockFile
    /\ ReleaseAsyncLock(t)
    /\ UNCHANGED <<processVars, owner, aged, broken, entries>>

(* Cancelled while it waits for the asyncio.Lock, before the try block.       *)
CancelWaiting(t) ==
    /\ at[t] = "queued" /\ LockFault
    /\ \E i \in DOMAIN waiters[asyncLock[t]] :
          /\ waiters[asyncLock[t]][i] = t
          /\ waiters' = [waiters EXCEPT ![asyncLock[t]] = RemoveAt(@, i)]
    /\ asyncLock' = [asyncLock EXCEPT ![t] = 0]
    /\ at' = [at EXCEPT ![t] = "idle"]
    /\ UNCHANGED <<locked, table, processVars, diskVars, broken, entries>>

(* Cancelled while the metadata is written, which the thread may still do:    *)
(* the task leaves by the steps of the exit.                                  *)
CancelCreated(t) ==
    /\ at[t] = "created" /\ LockFault
    /\ owner' \in {owner, t} /\ aged' = (aged /\ owner' = owner)
    /\ broken' = (broken \/ RemovesOthers(t))
    /\ lockFile' = NoWriter
    /\ at' = [at EXCEPT ![t] = "released"]
    /\ UNCHANGED <<objectVars, processVars, entries>>

-----------------------------------------------------------------------------
(* __aexit__: SoftFileLock.release unlinks the file, then the metadata is     *)
(* unlinked, then the file once more, then the process-level lock released.   *)

LeaveArchive(t) ==
    /\ at[t] = "inside"
    /\ broken' = (broken \/ RemovesOthers(t))
    /\ lockFile' = NoWriter
    /\ at' = [at EXCEPT ![t] = "released"]
    /\ UNCHANGED <<objectVars, processVars, owner, aged, boundVars>>

\* mutant: the asyncio.Lock is released before the last unlink
UnlinkMetadataUnlocked(t) ==
    /\ at[t] = "released"
    /\ owner' = NoWriter /\ aged' = FALSE
    /\ locked' = locked \ {asyncLock[t]}
    /\ at' = [at EXCEPT ![t] = "unlinking"]
    /\ UNCHANGED <<asyncLock, waiters, table, processVars, lockFile, broken, boundVars>>

UnlinkMetadata(t) ==
    /\ at[t] = "released"
    /\ owner' = NoWriter /\ aged' = FALSE
    /\ at' = [at EXCEPT ![t] = "unlinking"]
    /\ UNCHANGED <<objectVars, processVars, lockFile, broken, boundVars>>

UnlinkAgain(t) ==
    /\ at[t] = "unlinking"
    /\ broken' = (broken \/ RemovesOthers(t))
    /\ lockFile' = NoWriter
    /\ at' = [at EXCEPT ![t] = "unlinked"]
    /\ UNCHANGED <<objectVars, processVars, owner, aged, boundVars>>

EndExit(t) ==
    /\ at[t] = "unlinked"
    /\ at' = [at EXCEPT ![t] = "idle"]
    /\ ReleaseAsyncLock(t)
    /\ UNCHANGED <<processVars, diskVars, broken, boundVars>>

-----------------------------------------------------------------------------
(* Processes: death, and the repair at the start before any task runs         *)

(* Metadata that names a dead process counts for as little as none.           *)
KillProcess(p) ==
    LET gone == {t \in Writers : ProcessOf[t] = p} IN
    /\ p \in alive /\ LockFault
    /\ alive' = alive \ {p}
    /\ healing' = [healing EXCEPT ![p] = "none"]
    /\ at' = [t \in Writers |-> IF t \in gone THEN "idle" ELSE at[t]]
    /\ asyncLock' = [t \in Writers |-> IF t \in gone THEN 0 ELSE asyncLock[t]]
    /\ waiters' = [o \in AsyncLocks |->
                     IF waiters[o] # <<>> /\ Head(waiters[o]) \in gone
                     THEN <<>> ELSE waiters[o]]
    /\ locked' = locked \ {asyncLock[t] : t \in gone}
    /\ table' = [table EXCEPT ![p] = 0]
    /\ owner' = IF owner \in gone THEN NoWriter ELSE owner
    /\ UNCHANGED <<lockFile, aged, broken, entries>>

RestartProcess(p) ==
    /\ p \notin alive
    /\ alive' = alive \cup {p}
    /\ healing' = [healing EXCEPT ![p] = "looking"]
    /\ UNCHANGED <<at, objectVars, diskVars, broken, boundVars>>

(* heal_archive_locks judges a lock by its owner only, not by its age, and    *)
(* then removes metadata left without a lock.                                 *)
HealLook(p) ==
    /\ healing[p] = "looking"
    /\ healing' = [healing EXCEPT ![p] =
                     IF lockFile # NoWriter /\ ~OwnerAlive
                     THEN "removing" ELSE "metadata"]
    /\ UNCHANGED <<at, objectVars, alive, diskVars, broken, boundVars>>

HealRemove(p) ==
    /\ healing[p] = "removing"
    /\ broken' = (broken \/ RemovesOthers(NoWriter))
    /\ lockFile' = NoWriter /\ owner' = NoWriter /\ aged' = FALSE
    /\ healing' = [healing EXCEPT ![p] = "metadata"]
    /\ UNCHANGED <<at, objectVars, alive, boundVars>>

HealMetadata(p) ==
    /\ healing[p] = "metadata"
    /\ IF lockFile = NoWriter THEN owner' = NoWriter /\ aged' = FALSE
                              ELSE UNCHANGED <<owner, aged>>
    /\ healing' = [healing EXCEPT ![p] = "done"]
    /\ UNCHANGED <<at, objectVars, alive, lockFile, broken, boundVars>>

(* A holder keeps the lock longer than stale_timeout_seconds.                 *)
LockAges ==
    /\ owner # NoWriter /\ ~aged /\ LockFault
    /\ aged' = TRUE
    /\ UNCHANGED <<at, objectVars, processVars, lockFile, owner, broken, entries>>

-----------------------------------------------------------------------------
LockInit ==
    /\ at = [t \in Writers |-> "idle"]
    /\ asyncLock = [t \in Writers |-> 0]
    /\ locked = {} /\ waiters = [o \in AsyncLocks |-> <<>>]
    /\ table = [p \in Processes |-> 0]
    /\ alive = Processes /\ healing = [p \in Processes |-> "done"]
    /\ lockFile = NoWriter /\ owner = NoWriter /\ aged = FALSE
    /\ broken = FALSE
    /\ entries = 0 /\ lockFaults = 0

WriterStep(t) ==
    \/ GetAsyncLock(t) \/ CreateLockFile(t) \/ WriteMetadata(t)
    \/ FindStale(t) \/ RemoveStaleLock(t) \/ RemoveStaleMetadata(t)
    \/ GiveUpLock(t)
    \/ LeaveArchive(t) \/ UnlinkMetadata(t) \/ UnlinkAgain(t) \/ EndExit(t)
HealStep(p) == HealLook(p) \/ HealRemove(p) \/ HealMetadata(p)

LockNext ==
    \/ \E t \in Writers : 
          \/ EnterArchive(t) \/ WriterStep(t)
          \/ CancelWaiting(t) \/ CancelEnter(t) \/ CancelCreated(t)
    \/ \E p \in Processes : KillProcess(p) \/ RestartProcess(p) \/ HealStep(p)
    \/ LockAges

LockSpec == LockInit /\ [][LockNext]_lockVars

(* The tasks of a running process go on.                                      *)
LockFairSpec == LockSpec /\ \A t \in Writers : WF_lockVars(WriterStep(t))

-----------------------------------------------------------------------------
LockTypeOK ==
    /\ at \in [Writers -> {"idle", "queued", "trying", "created", "inside",
                           "removing", "removed", "released", "unlinking",
                           "unlinked"}]
    /\ asyncLock \in [Writers -> AsyncLocks \cup {0}]
    /\ locked \subseteq AsyncLocks
    /\ \A o \in AsyncLocks : waiters[o] \in Seq(Writers)
    /\ table \in [Processes -> AsyncLocks \cup {0}]
    /\ alive \subseteq Processes
    /\ healing \in [Processes -> {"none", "looking", "removing", "metadata", "done"}]
    /\ {lockFile, owner} \subseteq Writers \cup {NoWriter}
    /\ aged \in BOOLEAN /\ broken \in BOOLEAN

(* Two tasks change the archive at once only after the lock file of a task    *)
(* that held it was removed by another: the O_EXCL file is the only mutual    *)
(* exclusion between processes, and within one when its table of locks was    *)
(* emptied under a waiter.                                                    *)
OverlapNeedsForeignRemoval ==
    \A t, u \in Writers : (at[t] = "inside" /\ at[u] = "inside")
                            => t = u \/ broken

(* The unlinks at the exit remove the lock file of another holder only when   *)
(* the two do not share an asyncio.Lock: within one process that lock is held *)
(* until the last unlink.                                                     *)
ExitSparesSameLock ==
    [][\A t \in Writers :
         at[t] = "unlinking" /\ at'[t] = "unlinked" /\ RemovesOthers(t)
         => asyncLock[t] # asyncLock[lockFile]]_lockVars

(* Every call ends: no task waits for ever for a lock of its process, whoever *)
(* times out, is cancelled or finds stale files before it.                    *)
EveryEntryEnds == \A t \in Writers : at[t] # "idle" ~> at[t] = "idle"
=============================================================================
