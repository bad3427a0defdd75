---------------------------- MODULE CommitQueue -----------------------------
(* The git commits of the archive: storage.py, _CommitQueue, _commit,         *)
(* _commit_direct and shutdown_commit_queue.                                  *)
(*                                                                            *)
(* A request has its files on disk before it is enqueued.  One task takes the *)
(* queue's requests in batches, commits a repository's requests together when *)
(* their paths do not overlap, and resolves the future each caller waits for. *)
(* A caller that is cancelled leaves its future cancelled, and a cancelled    *)
(* future refuses a result: the exception ends the batch where it stands.     *)
EXTENDS Integers, Sequences, FiniteSets, SequencesExt

CONSTANTS
    Requests,
    Paths,
    PathsOf,           \* the paths of a request
    RepoOf,            \* its repository
    Awaited,           \* requests whose caller waits (commit_async is off)
    MaxBatch,          \* max_batch_size
    MergeLimit,        \* requests committed together at most
    QueueSize,         \* max_queue_size
    MaxCommitFaults    \* bound: failed commits, cancelled callers, slow stops

ASSUME CommitQueueAssumption ==
    /\ PathsOf \in [Requests -> (SUBSET Paths) \ {{}}]
    /\ Awaited \subseteq Requests
    /\ {MaxBatch, MergeLimit, QueueSize} \subseteq Nat \ {0}
    /\ MaxCommitFaults \in Nat

VARIABLES
    caller,       \* what each request's caller has come to
    disk,         \* how often each path was written
    version,      \* the write of each of its paths a request is about
    head,         \* the write of each path that the last commit holds
    commitQueue,  \* asyncio.Queue of requests
    batch,        \* requests taken and not yet reported by task_done
    uncommitted,  \* places of the batch not yet committed
    joined,       \* Queue's count of unfinished requests
    stopping,     \* where shutdown_commit_queue stands
    commitFaults  \* faults so far

commitVars == <<caller, disk, version, head, commitQueue, batch, uncommitted,
                joined, stopping, commitFaults>>
writeVars == <<disk, version>>
queueVars == <<commitQueue, batch, uncommitted, joined>>

CommitFault == commitFaults < MaxCommitFaults /\ commitFaults' = commitFaults + 1
NoCommitFault == UNCHANGED commitFaults

-----------------------------------------------------------------------------
(* The caller's files are written and committed by a request; a full queue    *)
(* makes the caller commit itself, or leave it to a background task.          *)
Enqueue(r) ==
    /\ caller[r] = "new" /\ stopping = "no"
    /\ disk' = [p \in Paths |-> disk[p] + IF p \in PathsOf[r] THEN 1 ELSE 0]
    /\ version' = [version EXCEPT ![r] = [p \in PathsOf[r] |-> disk'[p]]]
    /\ IF Len(commitQueue) < QueueSize
       THEN /\ commitQueue' = Append(commitQueue, r)
            /\ joined' = joined + 1
            /\ caller' = [caller EXCEPT ![r] =
                             IF r \in Awaited THEN "waiting" ELSE "left"]
       ELSE /\ caller' = [caller EXCEPT ![r] =
                             IF r \in Awaited THEN "direct" ELSE "background"]
            /\ UNCHANGED <<commitQueue, joined>>
    /\ UNCHANGED <<head, batch, uncommitted, stopping, commitFaults>>

\* mutant: a merged commit adds the paths of one request only
CommitOnePathSet(R) ==
    LET ps == PathsOf[CHOOSE r \in R : TRUE] IN
    head' = [p \in Paths |-> IF p \in ps THEN disk[p] ELSE head[p]]

(* git adds the paths as they are on disk now.                                *)
CommitPaths(R) ==
    LET ps == UNION {PathsOf[r] : r \in R} IN
    head' = [p \in Paths |-> IF p \in ps THEN disk[p] ELSE head[p]]

CommitDirect(r) ==
    /\ caller[r] \in {"direct", "background"}
    /\ \/ /\ CommitPaths({r}) /\ NoCommitFault
          /\ caller' = [caller EXCEPT ![r] = "committed"]
       \/ /\ UNCHANGED head /\ CommitFault
          /\ caller' = [caller EXCEPT ![r] = "failed"]
    /\ UNCHANGED <<writeVars, queueVars, stopping>>

(* The caller's request ends while it waits; its entry stays in the queue.    *)
CancelCaller(r) ==
    /\ caller[r] = "waiting" /\ CommitFault
    /\ caller' = [caller EXCEPT ![r] = "cancelled"]
    /\ UNCHANGED <<writeVars, head, queueVars, stopping>>

-----------------------------------------------------------------------------
(* _process_batch: by repository in the order of their first requests; those  *)
(* of one repository as one commit, or one after another when paths overlap   *)
(* or they are too many.  Requests are named by their places in the batch.    *)
SameRepo(i) == {j \in DOMAIN batch : RepoOf[batch[j]] = RepoOf[batch[i]]}

Overlapping(g) ==
    \E i, j \in g : i # j /\ PathsOf[batch[i]] \cap PathsOf[batch[j]] # {}

CommittedWith(i) ==
    IF Overlapping(SameRepo(i)) \/ Cardinality(SameRepo(i)) > MergeLimit
    THEN {i} ELSE SameRepo(i)

Precedes(i, j) == \/ Min(SameRepo(i)) < Min(SameRepo(j))
                  \/ SameRepo(i) = SameRepo(j) /\ i <= j

(* _process_loop takes what the queue holds, up to a batch.                   *)
TakeBatch ==
    LET n == IF Len(commitQueue) < MaxBatch THEN Len(commitQueue) ELSE MaxBatch
        b == SubSeq(commitQueue, 1, n)
    IN
    /\ stopping # "stopped" /\ batch = <<>> /\ commitQueue # <<>>
    /\ commitQueue' = SubSeq(commitQueue, n + 1, Len(commitQueue))
    /\ batch' = b /\ uncommitted' = DOMAIN b
    /\ UNCHANGED <<caller, writeVars, head, joined, stopping, commitFaults>>

\* mutant: only the first request of a merged commit is answered
AnswerFirst(g, verdict) ==
    /\ caller' = [caller EXCEPT ![batch[Min(g)]] = IF @ = "cancelled" THEN @ ELSE verdict]
    /\ uncommitted' = uncommitted \ g

(* The verdict of a commit goes to its futures in order.  A cancelled one     *)
(* raises InvalidStateError; the handler then meets one that is done already  *)
(* and raises again: no later request of the batch is committed or answered.  *)
Answer(g, verdict) ==
    LET refused == {i \in g : caller[batch[i]] = "cancelled"}
        reached == {batch[i] : i \in {j \in g : \A k \in refused : j < k}}
    IN /\ caller' = [r \in Requests |-> IF r \in reached THEN verdict ELSE caller[r]]
       /\ uncommitted' = IF refused = {} THEN uncommitted \ g ELSE {}

CommitNext ==
    /\ stopping # "stopped"
    /\ \E i \in uncommitted :
          /\ \A j \in uncommitted : Precedes(i, j)
          /\ \/ /\ CommitPaths({batch[j] : j \in CommittedWith(i)}) /\ NoCommitFault
                /\ Answer(CommittedWith(i), "committed")
             \/ /\ UNCHANGED head /\ CommitFault
                /\ Answer(CommittedWith(i), "failed")
    /\ UNCHANGED <<writeVars, commitQueue, batch, joined, stopping>>

\* mutant: task_done once more after the batch
EndBatchTwice ==
    /\ batch # <<>> /\ uncommitted = {} /\ stopping # "stopped"
    /\ joined' = joined - Len(batch) - 1
    /\ batch' = <<>>
    /\ UNCHANGED <<caller, writeVars, head, commitQueue, uncommitted, stopping,
                   commitFaults>>

(* task_done for every request of the batch, however it ended.                *)
EndBatch ==
    /\ batch # <<>> /\ uncommitted = {} /\ stopping # "stopped"
    /\ joined' = joined - Len(batch)
    /\ batch' = <<>>
    /\ UNCHANGED <<caller, writeVars, head, commitQueue, uncommitted, stopping,
                   commitFaults>>

-----------------------------------------------------------------------------
(* shutdown_commit_queue: the queue is taken out of use and drained; when it  *)
(* is empty, or after a timeout, the task that processes it is cancelled.     *)
ShutDownQueue ==
    /\ stopping = "no"
    /\ stopping' = "draining"
    /\ UNCHANGED <<caller, writeVars, head, queueVars, commitFaults>>

CancelQueueTask ==
    /\ stopping = "draining"
    /\ \/ joined = 0 /\ NoCommitFault
       \/ joined > 0 /\ CommitFault
    /\ stopping' = "stopped"
    /\ UNCHANGED <<caller, writeVars, head, queueVars>>

-----------------------------------------------------------------------------
QueueInit ==
    /\ caller = [r \in Requests |-> "new"]
    /\ disk = [p \in Paths |-> 0] /\ head = disk
    /\ version = [r \in Requests |-> [p \in PathsOf[r] |-> 0]]
    /\ commitQueue = <<>> /\ batch = <<>> /\ uncommitted = {} /\ joined = 0
    /\ stopping = "no" /\ commitFaults = 0

QueueTask == TakeBatch \/ CommitNext \/ EndBatch

QueueNext ==
    \/ \E r \in Requests : Enqueue(r) \/ CommitDirect(r) \/ CancelCaller(r)
    \/ QueueTask \/ ShutDownQueue \/ CancelQueueTask

QueueSpec == QueueInit /\ [][QueueNext]_commitVars
QueueFairSpec == QueueSpec /\ WF_commitVars(QueueTask)
                           /\ \A r \in Requests : WF_commitVars(CommitDirect(r))

-----------------------------------------------------------------------------
QueueTypeOK ==
    /\ caller \in [Requests -> {"new", "waiting", "left", "direct", "background",
                                "committed", "failed", "cancelled"}]
    /\ {disk, head} \subseteq [Paths -> Nat]
    /\ {commitQueue, batch} \subseteq Seq(Requests) /\ uncommitted \subseteq DOMAIN batch
    /\ joined \in Nat /\ stopping \in {"no", "draining", "stopped"}

(* A caller told that its commit is done finds its writes in git, or later    *)
(* ones of the same paths, merged with whichever requests.                    *)
CommittedMeansInHead ==
    \A r \in Requests : caller[r] = "committed" =>
        \A p \in PathsOf[r] : head[p] >= version[r][p]

(* A waiting caller is answered, unless some caller was cancelled (its batch  *)
(* may have held this request) or the stop timed out.                         *)
EveryCallerAnswered ==
    \A r \in Requests :
        caller[r] = "waiting" ~>
            \/ caller[r] # "waiting" \/ stopping = "stopped"
            \/ \E c \in Requests : caller[c] = "cancelled"
=============================================================================
