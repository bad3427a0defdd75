---------------------------- MODULE Reservations ----------------------------
(***************************************************************************)
(* File reservations of Agent Mail (app.py of packages/agentstack_mail):   *)
(* leases of one project on paths and globs, kept as database rows, and as *)
(* records in the Git archive that the commit guard reads (guard.py).      *)
(*                                                                         *)
(* A step is one database transaction, or one write of records under the   *)
(* archive lock.  An agent makes one call at a time; any number of agents  *)
(* call at once.  A reservation call first sweeps: it releases the rows    *)
(* that expired and those whose holder looks gone, then takes the archive  *)
(* lock and decides path by path.  Renew, release and force release write  *)
(* their rows without that lock.                                           *)
(*                                                                         *)
(* Time left on a lease is counted down in ticks.  What the probes of the  *)
(* file system, of Git and of mail find is free; only the age of the       *)
(* holder's own last activity is state.                                    *)
(***************************************************************************)
EXTENDS Integers, FiniteSets

CONSTANTS
    Agent,       \* the agents of the project
    NoAgent,     \* nobody
    Path,        \* normalized paths and globs that can be reserved
    Matches,     \* <<p, q>>: the pathspec compiled from p matches the text q
    Glob,        \* the paths with wildcards
    Virtual,     \* the paths in a virtual namespace (tool://, ...)
    MaxRow,      \* bound: rows ever created, one id each
    MaxLeft,     \* bound: ticks a lease can have left
    MaxForced,   \* bound: forced releases
    MaxFailures  \* bound: calls that fail midway, activity writes that fail

ASSUME PathAssumption ==
    /\ NoAgent \notin Agent
    /\ Path # {}
    /\ Glob \subseteq Path /\ Virtual \subseteq Path
    /\ Matches \subseteq Path \X Path
ASSUME LimitAssumption ==
    /\ MaxRow \in Nat /\ MaxForced \in Nat /\ MaxFailures \in Nat
    /\ MaxLeft \in Nat \ {0}

VARIABLES
    rows,      \* table file_reservations, by id
    records,   \* archive: ticks left by the record of a row, 0 also if none
    inactive,  \* agents whose last_active_ts is past the inactivity limit
    lock,      \* holder of the project's archive write lock
    stage,     \* where the call of an agent stands
    call,      \* what is left to reserve in the call of an agent
    seen,      \* ids of the rows the call has read and will act on
    draft,     \* the records the call has yet to write, by id
    unsure,    \* history: ids a failed call left with a record unwritten
    revived,   \* history: ids extended after they had expired
    forced,    \* history: ids released by force
    failures   \* failures so far

vars == <<rows, records, inactive, lock, stage, call, seen, draft, unsure,
          revived, forced, failures>>

-----------------------------------------------------------------------------
(* Types *)

Id == 1..MaxRow
Stage == {"idle", "select", "expire", "collect", "stale", "record", "lock",
          "grant", "force", "forced"}
Row == [agent : Agent \cup {NoAgent}, path : Path, exclusive : BOOLEAN,
        left : 0..MaxLeft, status : {"free", "held", "released"}]
Call == [paths : SUBSET Path, exclusive : BOOLEAN, ttl : 1..MaxLeft]

NoRow == [agent |-> NoAgent, path |-> CHOOSE p \in Path : TRUE,
          exclusive |-> FALSE, left |-> 0, status |-> "free"]
Unwritten == -1   \* no record of this row is due
Nothing == [i \in Id |-> Unwritten]
Sweep == [paths |-> {}, exclusive |-> FALSE, ttl |-> 1]

TypeOK ==
    /\ rows \in [Id -> Row]
    /\ records \in [Id -> 0..MaxLeft]
    /\ inactive \subseteq Agent
    /\ lock \in Agent \cup {NoAgent}
    /\ stage \in [Agent -> Stage]
    /\ call \in [Agent -> Call]
    /\ seen \in [Agent -> SUBSET Id]
    /\ draft \in [Agent -> [Id -> Unwritten..MaxLeft]]
    /\ unsure \subseteq Id
    /\ revived \subseteq Id
    /\ forced \subseteq Id
    /\ failures \in 0..MaxFailures

Init ==
    /\ rows = [i \in Id |-> NoRow]
    /\ records = [i \in Id |-> 0]
    /\ inactive = {}
    /\ lock = NoAgent
    /\ stage = [a \in Agent |-> "idle"]
    /\ call = [a \in Agent |-> Sweep]
    /\ seen = [a \in Agent |-> {}]
    /\ draft = [a \in Agent |-> Nothing]
    /\ unsure = {}
    /\ revived = {}
    /\ forced = {}
    /\ failures = 0

-----------------------------------------------------------------------------
(* Rows, records and paths *)

Held == {i \in Id : rows[i].status = "held"}
Active == {i \in Held : rows[i].left > 0}
Expired == {i \in Held : rows[i].left = 0}
OwnedBy(a) == {i \in Held : rows[i].agent = a}
Free == {i \in Id : rows[i].status = "free"}
Due(a) == {i \in Id : draft[a][i] # Unwritten}

Wanted == {w \in Agent \X Path : w[2] \in call[w[1]].paths}

Released(S) ==
    [i \in Id |-> IF i \in S THEN [rows[i] EXCEPT !.status = "released"]
                  ELSE rows[i]]

\* Mutant: the record keeps the row's own expiry.
EndedUnclamped(a, S) ==
    [draft EXCEPT ![a] =
       [i \in Id |-> IF i \in S THEN rows[i].left ELSE draft[a][i]]]

\* A record is made from the row as it was read or written: a released row
\* has expires_ts clamped to released_ts.
Ended(a, S) == [draft EXCEPT ![a] =
                  [i \in Id |-> IF i \in S THEN 0 ELSE draft[a][i]]]

At(a, s) == stage' = [stage EXCEPT ![a] = s]
Read(a, S) == seen' = [seen EXCEPT ![a] = S]

\* write_file_reservation_records, all that the call has to write.  A lease
\* written for a row that was released meanwhile makes up for no failed write.
WriteRecords(a) ==
    /\ records' = [i \in Id |-> IF i \in Due(a) THEN draft[a][i]
                                ELSE records[i]]
    /\ unsure' = unsure \ {i \in Due(a) : i \in Held \/ draft[a][i] = 0}
    /\ draft' = [draft EXCEPT ![a] = Nothing]

\* A held pattern p and a path q asked for: virtual names are compared as they
\* are, patterns are matched both ways if one of them has wildcards.
Overlap(p, q) ==
    IF {p, q} \cap Virtual # {} THEN p = q
    ELSE \/ <<p, q>> \in Matches
         \/ {p, q} \cap Glob # {} /\ <<q, p>> \in Matches

Foreign(a, i, exclusive) ==
    rows[i].agent # a /\ (rows[i].exclusive \/ exclusive)

\* The union of the patterns in the way, virtual ones left out, is matched
\* against the candidate first; without any such pattern nothing is ruled out.
Suspicious(a, p, exclusive) ==
    LET union == {i \in seen[a] : /\ Foreign(a, i, exclusive)
                                  /\ rows[i].path \notin Virtual}
    IN  union = {} \/ \E i \in union : <<rows[i].path, p>> \in Matches

Conflict(a, p, exclusive) ==
    /\ Suspicious(a, p, exclusive)
    /\ \E i \in seen[a] : /\ Foreign(a, i, exclusive)
                          /\ Overlap(rows[i].path, p)

-----------------------------------------------------------------------------
(* The sweep, part of a reservation call or made for the list of            *)
(* reservations alone.                                                      *)

\* file_reservation_paths begins: the call itself is proof of life, unless
\* that write fails, which is logged and ignored.  Bound: a row for each path.
Reserve(a, paths, exclusive, ttl) ==
    /\ stage[a] = "idle"
    /\ paths # {}
    /\ Cardinality(Wanted) + Cardinality(paths) <= Cardinality(Free)
    /\ \/ inactive' = inactive \ {a} /\ UNCHANGED failures
       \/ /\ a \in inactive /\ UNCHANGED inactive
          /\ failures < MaxFailures /\ failures' = failures + 1
    /\ call' = [call EXCEPT ![a] = [paths |-> paths, exclusive |-> exclusive,
                                    ttl |-> ttl]]
    /\ At(a, "select")
    /\ UNCHANGED <<rows, records, lock, seen, draft, unsure, revived, forced>>

\* The file_reservations resource: a sweep and nothing else.
View(a) ==
    /\ stage[a] = "idle"
    /\ At(a, "select")
    /\ UNCHANGED <<rows, records, inactive, lock, call, seen, draft, unsure,
                   revived, forced, failures>>

\* The driver opens no transaction for a SELECT: the rows found expired are
\* read here and updated in a later step.
SelectExpired(a) ==
    /\ stage[a] = "select"
    /\ Read(a, Expired)
    /\ At(a, IF Expired = {} THEN "collect" ELSE "expire")
    /\ UNCHANGED <<rows, records, inactive, lock, call, draft, unsure,
                   revived, forced, failures>>

\* Only what is still expired is released; every row that was read gets a
\* record that says released.
UpdateExpired(a) ==
    /\ stage[a] = "expire"
    /\ rows' = Released(seen[a] \cap Expired)
    /\ draft' = Ended(a, seen[a])
    /\ Read(a, {})
    /\ At(a, "collect")
    /\ UNCHANGED <<records, inactive, lock, call, unsure, revived, forced,
                   failures>>

\* _collect_file_reservation_statuses: the rows it judges stale.
Collect(a) ==
    /\ stage[a] = "collect"
    /\ \E S \in SUBSET {i \in Held : rows[i].agent \in inactive} :
          /\ Read(a, S)
          /\ At(a, IF S = {} THEN "record" ELSE "stale")
    /\ UNCHANGED <<rows, records, inactive, lock, call, draft, unsure,
                   revived, forced, failures>>

\* Mutant: the verdict of the snapshot is carried out as it is.
AnyHolder(i) == TRUE

StillInactive(i) == rows[i].agent \in inactive

\* Mutant: rows that were spared get a record as well.
ReleaseStaleRecordsAll(a) ==
    /\ stage[a] = "stale"
    /\ rows' = Released({i \in seen[a] \cap Held : StillInactive(i)})
    /\ draft' = Ended(a, seen[a])
    /\ Read(a, {})
    /\ At(a, "record")
    /\ UNCHANGED <<records, inactive, lock, call, unsure, revived, forced,
                   failures>>

\* The update checks the holder's activity again; rows that survive it keep
\* their record.
ReleaseStale(a) ==
    LET gone == {i \in seen[a] \cap Held : StillInactive(i)}
    IN  /\ stage[a] = "stale"
        /\ rows' = Released(gone)
        /\ draft' = Ended(a, seen[a] \ (Held \ gone))
        /\ Read(a, {})
        /\ At(a, "record")
        /\ UNCHANGED <<records, inactive, lock, call, unsure, revived, forced,
                       failures>>

\* The records of a sweep, a release or a renewal; the lock is taken for them
\* alone, and only if there are any.
Record(a) ==
    /\ stage[a] = "record"
    /\ Due(a) = {} \/ lock = NoAgent
    /\ WriteRecords(a)
    /\ At(a, IF call[a].paths = {} THEN "idle" ELSE "lock")
    /\ UNCHANGED <<rows, inactive, lock, call, seen, revived, forced,
                   failures>>

-----------------------------------------------------------------------------
(* The reservation itself, under the archive lock. *)

\* Mutant: the lock is not waited for.
LockAndReadAtOnce(a) ==
    /\ stage[a] = "lock"
    /\ lock' = a
    /\ Read(a, Active)
    /\ At(a, "grant")
    /\ UNCHANGED <<rows, records, inactive, call, draft, unsure, revived,
                   forced, failures>>

LockAndRead(a) ==
    /\ stage[a] = "lock"
    /\ lock = NoAgent
    /\ lock' = a
    /\ Read(a, Active)
    /\ At(a, "grant")
    /\ UNCHANGED <<rows, records, inactive, call, draft, unsure, revived,
                   forced, failures>>

\* The agent's own rows on exactly this path, as they were read.
Reusable(a, p) == {i \in seen[a] : /\ rows[i].agent = a
                                   /\ rows[i].path = p
                                   /\ rows[i].exclusive = call[a].exclusive}

Answered(a, p) == call' = [call EXCEPT ![a].paths = @ \ {p}]

\* _ensure_file_reservation_min_ttl.  It does not look at released_ts: a row
\* swept since it was read is extended, and granted, all the same.
Extend(a, p) ==
    /\ stage[a] = "grant" /\ p \in call[a].paths
    /\ \E i \in Reusable(a, p) :
          LET left == IF rows[i].left < call[a].ttl THEN call[a].ttl
                      ELSE rows[i].left
          IN  /\ rows' = [rows EXCEPT ![i].left = left]
              /\ draft' = [draft EXCEPT ![a][i] =
                             IF i \in Held THEN left ELSE 0]
              /\ revived' = revived \cup (Expired \cap {i})
    /\ Answered(a, p)
    /\ UNCHANGED <<records, inactive, lock, stage, seen, unsure, forced,
                   failures>>

\* Refused, the holders are reported.
Deny(a, p) ==
    /\ stage[a] = "grant" /\ p \in call[a].paths
    /\ Reusable(a, p) = {}
    /\ Conflict(a, p, call[a].exclusive)
    /\ Answered(a, p)
    /\ UNCHANGED <<rows, records, inactive, lock, stage, seen, draft, unsure,
                   revived, forced, failures>>

NextId == CHOOSE i \in Free : \A j \in Free : i <= j

\* _create_file_reservation; the new row joins those the call goes by.
Create(a, p) ==
    /\ stage[a] = "grant" /\ p \in call[a].paths
    /\ Reusable(a, p) = {}
    /\ ~Conflict(a, p, call[a].exclusive)
    /\ Free # {}
    /\ rows' = [rows EXCEPT ![NextId] =
                  [agent |-> a, path |-> p, exclusive |-> call[a].exclusive,
                   left |-> call[a].ttl, status |-> "held"]]
    /\ draft' = [draft EXCEPT ![a][NextId] = call[a].ttl]
    /\ Read(a, seen[a] \cup {NextId})
    /\ Answered(a, p)
    /\ UNCHANGED <<records, inactive, lock, stage, unsure, revived, forced,
                   failures>>

\* Every path is answered: the records are written, then the lock is freed.
WriteGrants(a) ==
    /\ stage[a] = "grant" /\ call[a].paths = {}
    /\ WriteRecords(a)
    /\ lock' = NoAgent
    /\ call' = [call EXCEPT ![a] = Sweep]
    /\ Read(a, {})
    /\ At(a, "idle")
    /\ UNCHANGED <<rows, inactive, revived, forced, failures>>

-----------------------------------------------------------------------------
(* Release, renewal and forced release. *)

\* Some of the agent's rows (all, or those of given ids or paths), and its
\* activity in the same transaction.
Release(a) ==
    /\ stage[a] = "idle"
    /\ \E S \in SUBSET OwnedBy(a) \ {{}} :
          /\ rows' = Released(S)
          /\ draft' = Ended(a, S)
    /\ inactive' = inactive \ {a}
    /\ At(a, "record")
    /\ UNCHANGED <<records, lock, call, seen, unsure, revived, forced,
                   failures>>

\* Every row of the agent that is not released, expired or not, is extended
\* from now or from its expiry.  Bound: no lease longer than MaxLeft.
Renew(a, bump) ==
    /\ stage[a] = "idle"
    /\ \E S \in SUBSET {i \in OwnedBy(a) : rows[i].left + bump <= MaxLeft}
                \ {{}} :
          /\ rows' = [i \in Id |-> IF i \in S
                                   THEN [rows[i] EXCEPT !.left = @ + bump]
                                   ELSE rows[i]]
          /\ draft' = [draft EXCEPT ![a] =
                         [i \in Id |-> IF i \in S THEN rows[i].left + bump
                                       ELSE draft[a][i]]]
          /\ revived' = revived \cup (S \cap Expired)
    /\ inactive' = inactive \ {a}
    /\ At(a, "record")
    /\ UNCHANGED <<records, lock, call, seen, unsure, forced, failures>>

\* force_release_file_reservation, up to the verdict that the row is stale.
ForceCheck(a, i) ==
    /\ stage[a] = "idle"
    /\ Cardinality(forced) < MaxForced
    /\ i \in Held /\ rows[i].agent \in inactive
    /\ Read(a, {i})
    /\ At(a, "force")
    /\ UNCHANGED <<rows, records, inactive, lock, call, draft, unsure,
                   revived, forced, failures>>

\* The update asks only that the row is not released yet.
ForceUpdate(a) ==
    /\ stage[a] = "force"
    /\ rows' = Released(seen[a] \cap Held)
    /\ draft' = Ended(a, seen[a])
    /\ forced' = forced \cup (seen[a] \cap Held)
    /\ Read(a, {})
    /\ At(a, "forced")
    /\ UNCHANGED <<records, inactive, lock, call, unsure, revived, failures>>

\* The record, then the mail to the holder, which is activity of the sender.
RecordForced(a) ==
    /\ stage[a] = "forced"
    /\ lock = NoAgent
    /\ WriteRecords(a)
    /\ inactive' \in {inactive, inactive \ {a}}
    /\ At(a, "idle")
    /\ UNCHANGED <<rows, lock, call, seen, revived, forced, failures>>

-----------------------------------------------------------------------------
(* The rest of the world. *)

\* A call is cancelled, times out on the lock, or dies with the server.
Fail(a) ==
    /\ stage[a] # "idle"
    /\ failures < MaxFailures
    /\ failures' = failures + 1
    /\ unsure' = unsure \cup Due(a)
    /\ draft' = [draft EXCEPT ![a] = Nothing]
    /\ lock' = IF lock = a THEN NoAgent ELSE lock
    /\ call' = [call EXCEPT ![a] = Sweep]
    /\ Read(a, {})
    /\ At(a, "idle")
    /\ UNCHANGED <<rows, records, inactive, revived, forced>>

\* Sending mail or registering again is activity.
MailActivity(a) ==
    /\ a \in inactive
    /\ inactive' = inactive \ {a}
    /\ UNCHANGED <<rows, records, lock, stage, call, seen, draft, unsure,
                   revived, forced, failures>>

\* The inactivity limit passes.  It is far longer than a call, and a sweep
\* counts back from its own start.
GoInactive(a) ==
    /\ stage[a] = "idle"
    /\ \A b \in Agent : stage[b] \notin {"select", "expire", "collect", "stale"}
    /\ inactive' = inactive \cup {a}
    /\ UNCHANGED <<rows, records, lock, stage, call, seen, draft, unsure,
                   revived, forced, failures>>

Older(n) == IF n > 0 THEN n - 1 ELSE n

TimePasses ==
    /\ \E i \in Id : rows[i].left > 0
    /\ rows' = [i \in Id |-> [rows[i] EXCEPT !.left = Older(@)]]
    /\ records' = [i \in Id |-> Older(records[i])]
    /\ draft' = [a \in Agent |-> [i \in Id |-> Older(draft[a][i])]]
    /\ UNCHANGED <<inactive, lock, stage, call, seen, unsure, revived, forced,
                   failures>>

Next ==
    \/ \E a \in Agent :
          \/ \E paths \in SUBSET Path, exclusive \in BOOLEAN,
                ttl \in 1..MaxLeft : Reserve(a, paths, exclusive, ttl)
          \/ View(a)
          \/ SelectExpired(a)
          \/ UpdateExpired(a)
          \/ Collect(a)
          \/ ReleaseStale(a)
          \/ Record(a)
          \/ LockAndRead(a)
          \/ \E p \in Path : Extend(a, p) \/ Deny(a, p) \/ Create(a, p)
          \/ WriteGrants(a)
          \/ Release(a)
          \/ \E bump \in 1..MaxLeft : Renew(a, bump)
          \/ \E i \in Id : ForceCheck(a, i)
          \/ ForceUpdate(a)
          \/ RecordForced(a)
          \/ Fail(a)
          \/ MailActivity(a)
          \/ GoInactive(a)
    \/ TimePasses

Spec == Init /\ [][Next]_vars

-----------------------------------------------------------------------------
(* Properties *)

\* Two agents never hold active reservations of which one is exclusive and the
\* older one's pattern matches the younger one's path, unless the older one
\* had expired and its holder extended it: the lock makes reading the active
\* rows and creating the new one a single step (file_reservation_paths), and
\* renewal, which takes no lock, is the only way around it.
ConflictOnlyByRevival ==
    \A i, j \in Active :
        /\ i < j
        /\ rows[i].agent # rows[j].agent
        /\ rows[i].exclusive \/ rows[j].exclusive
        /\ {rows[i].path, rows[j].path} \cap Virtual = {}
        /\ <<rows[i].path, rows[j].path>> \in Matches
        => i \in revived

\* The same with the symmetric overlap of patterns that the documentation of
\* file_reservation_paths promises.
SymmetricConflict ==
    \A i, j \in Active :
        /\ i < j
        /\ rows[i].agent # rows[j].agent
        /\ rows[i].exclusive \/ rows[j].exclusive
        /\ Overlap(rows[i].path, rows[j].path)
        => i \in revived

\* Nobody but its holder ends an unexpired reservation whose holder is active:
\* the verdict of a sweep is re-checked when it is carried out
\* (_expire_stale_file_reservations).
ReleasedNow(i) == rows[i].status = "held" /\ rows'[i].status = "released"
SweepSparesTheLiving ==
    [][\A i \in Id :
          ReleasedNow(i) /\ rows[i].left > 0 /\ rows[i].agent \notin inactive
          => \/ stage[rows[i].agent] = "idle" /\ stage'[rows[i].agent] = "record"
             \/ i \in forced']_vars

\* A forced release takes only what is abandoned at that moment
\* (force_release_file_reservation).
ForceSparesTheLiving ==
    [][\A i \in forced' \ forced : rows[i].agent \in inactive]_vars

\* While its holder is not in a call, an active row has a record in the archive
\* at least as long as the row, so that the guard protects it, unless a call
\* failed before it wrote the record or the row was extended after it expired.
RecordsCover ==
    \A i \in Active \ (unsure \cup revived) :
        stage[rows[i].agent] = "idle" => records[i] >= rows[i].left

\* The same for renewed rows: "Update Git artifacts for the renewed
\* file_reservations".
RenewalIsRecorded ==
    \A i \in Active \ unsure :
        stage[rows[i].agent] = "idle" => records[i] >= rows[i].left

\* Once nobody has a record of it to write, a released row has none that still
\* holds off other agents' commits, unless a call failed or it was forced.
ReleaseIsRecorded ==
    \A i \in Id \ (unsure \cup forced) :
        /\ rows[i].status = "released"
        /\ \A a \in Agent : draft[a][i] = Unwritten
        => records[i] = 0
=============================================================================
