-------------------------- MODULE ReservationsProof --------------------------
(***************************************************************************)
(* Proofs about Reservations for every value of its constants: the types,  *)
(* that conflicting leases only come from extending an expired one, that   *)
(* the records of the archive agree with the rows, and that a living       *)
(* agent's lease is only ended by itself or by force.                      *)
(***************************************************************************)
EXTENDS Reservations, TLAPS, WellFoundedInduction

-----------------------------------------------------------------------------
(* TypeOK, part by part: an action disturbs few of the parts. *)

RowsOK == rows \in [Id -> Row]
RecordsOK == records \in [Id -> 0..MaxLeft]
StageOK == stage \in [Agent -> Stage]
CallOK == call \in [Agent -> Call]
SeenOK == seen \in [Agent -> SUBSET Id]
DraftOK == draft \in [Agent -> [Id -> Unwritten..MaxLeft]]
RestOK == /\ inactive \subseteq Agent
          /\ lock \in Agent \cup {NoAgent}
          /\ unsure \subseteq Id
          /\ revived \subseteq Id
          /\ forced \subseteq Id
          /\ failures \in 0..MaxFailures

Parts == /\ RowsOK /\ RecordsOK /\ StageOK /\ CallOK /\ SeenOK /\ DraftOK
         /\ RestOK

\* The parts are TypeOK.
LEMMA PartsOfTypeOK == TypeOK <=> Parts
BY DEF TypeOK, Parts, RowsOK, RecordsOK, StageOK, CallOK, SeenOK, DraftOK,
       RestOK

\* A part whose variables an action leaves alone stays well-typed.
LEMMA Kept ==
    /\ RowsOK /\ UNCHANGED rows => RowsOK'
    /\ RecordsOK /\ UNCHANGED records => RecordsOK'
    /\ StageOK /\ UNCHANGED stage => StageOK'
    /\ CallOK /\ UNCHANGED call => CallOK'
    /\ SeenOK /\ UNCHANGED seen => SeenOK'
    /\ DraftOK /\ UNCHANGED draft => DraftOK'
    /\ RestOK /\ UNCHANGED <<inactive, lock, unsure, revived, forced, failures>>
       => RestOK'
BY DEF RowsOK, RecordsOK, StageOK, CallOK, SeenOK, DraftOK, RestOK

-----------------------------------------------------------------------------
(* Lemmas about the operators. *)

\* Ticks: nothing due lies below every number of ticks left.
LEMMA Ticks ==
    /\ 0..MaxLeft \subseteq Unwritten..MaxLeft
    /\ 1..MaxLeft \subseteq 0..MaxLeft
    /\ Unwritten \in Unwritten..MaxLeft
    /\ 0 \in 0..MaxLeft /\ 1 \in 1..MaxLeft
    /\ \A n \in Unwritten..MaxLeft : n # Unwritten => n \in 0..MaxLeft
BY LimitAssumption DEF Unwritten

\* A row whose status or time left is changed is a row.
LEMMA RowUpdate ==
    ASSUME NEW x \in Row
    PROVE  /\ [x EXCEPT !.status = "released"] \in Row
           /\ \A n \in 0..MaxLeft : [x EXCEPT !.left = n] \in Row
BY DEF Row

\* Older counts down within its range.
LEMMA OlderType ==
    /\ \A n \in 0..MaxLeft : Older(n) \in 0..MaxLeft
    /\ \A n \in Unwritten..MaxLeft : Older(n) \in Unwritten..MaxLeft
BY LimitAssumption DEF Older, Unwritten

\* Releasing a set of rows keeps their types.
LEMMA ReleasedType ==
    ASSUME RowsOK, NEW S
    PROVE  Released(S) \in [Id -> Row]
BY RowUpdate DEF RowsOK, Released

\* The records of ended rows are in range.
LEMMA EndedType ==
    ASSUME DraftOK, NEW a \in Agent, NEW S
    PROVE  Ended(a, S) \in [Agent -> [Id -> Unwritten..MaxLeft]]
<1>1. [i \in Id |-> IF i \in S THEN 0 ELSE draft[a][i]]
         \in [Id -> Unwritten..MaxLeft]
  BY Ticks DEF DraftOK
<1>2. QED
  BY <1>1 DEF DraftOK, Ended

\* A call with nothing to write.
LEMMA NothingType == Nothing \in [Id -> Unwritten..MaxLeft]
BY Ticks DEF Nothing

\* A sweep is a call.
LEMMA SweepType == Sweep \in Call
BY Ticks DEF Sweep, Call

\* One entry of the records that a call has to write.
LEMMA DraftUpdate ==
    ASSUME DraftOK, NEW a \in Agent, NEW i, NEW n,
           i \in Id => n \in Unwritten..MaxLeft,
           draft' = [draft EXCEPT ![a][i] = n]
    PROVE  DraftOK'
<1>1. [draft[a] EXCEPT ![i] = n] \in [Id -> Unwritten..MaxLeft]
  BY DEF DraftOK
<1>2. draft' = [draft EXCEPT ![a] = [draft[a] EXCEPT ![i] = n]]
  BY DEF DraftOK
<1>3. QED
  BY <1>1, <1>2 DEF DraftOK

\* The stage of one call.
LEMMA AtType ==
    ASSUME StageOK, NEW a \in Agent, NEW s \in Stage, At(a, s)
    PROVE  StageOK'
BY DEF StageOK, At

\* What one call has read.
LEMMA ReadType ==
    ASSUME SeenOK, NEW a \in Agent, NEW S \in SUBSET Id, Read(a, S)
    PROVE  SeenOK'
BY DEF SeenOK, Read

\* A pattern taken off a call.
LEMMA AnsweredType ==
    ASSUME CallOK, NEW a \in Agent, NEW p, Answered(a, p)
    PROVE  CallOK'
<1>1. ASSUME NEW c \in Call, NEW P \in SUBSET Path
      PROVE  [c EXCEPT !.paths = P] \in Call
  BY DEF Call
<1>2. call[a] \in Call /\ call[a].paths \ {p} \in SUBSET Path
  BY DEF CallOK, Call
<1>3. [call[a] EXCEPT !.paths = call[a].paths \ {p}] \in Call
  BY <1>1, <1>2
<1>4. call' = [call EXCEPT ![a] = [call[a] EXCEPT !.paths = call[a].paths \ {p}]]
  BY DEF Answered, CallOK
<1>5. QED
  BY <1>3, <1>4 DEF CallOK

\* Writing records keeps them, what is left to write, and the history typed.
LEMMA WriteType ==
    ASSUME RecordsOK, DraftOK, RestOK, NEW a \in Agent, WriteRecords(a)
    PROVE  RecordsOK' /\ DraftOK' /\ unsure' \subseteq Id
<1>1. RecordsOK'
  <2>1. \A i \in Id : draft[a][i] \in Unwritten..MaxLeft
    BY DEF DraftOK
  <2>2. \A i \in Due(a) : draft[a][i] \in 0..MaxLeft
    BY <2>1, Ticks DEF Due
  <2>3. QED
    BY <2>2 DEF RecordsOK, WriteRecords
<1>2. DraftOK'
  BY NothingType DEF DraftOK, WriteRecords
<1>3. unsure' \subseteq Id
  BY DEF WriteRecords, RestOK
<1>4. QED
  BY <1>1, <1>2, <1>3

\* The sets of rows are sets of ids.
LEMMA RowSets ==
    /\ Held \subseteq Id /\ Active \subseteq Id /\ Expired \subseteq Id
    /\ Free \subseteq Id
    /\ \A a : OwnedBy(a) \subseteq Id
BY DEF Held, Active, Expired, Free, OwnedBy

\* The next id is the least free one.
LEMMA NextIdLeast ==
    ASSUME Free # {}
    PROVE  NextId \in Free /\ \A j \in Free : NextId <= j
<1> DEFINE Less == {s \in Nat \X Nat : s[1] < s[2]}
<1>1. Free \subseteq Nat
  BY LimitAssumption DEF Free, Id
<1>2. IsWellFoundedOn(Less, Nat)
  BY NatLessThanWellFounded, Zenon DEF OpToRel
<1>3. PICK i \in Free : \A j \in Free : ~(<<j, i>> \in Less)
  <2> HIDE DEF Less
  <2> QED
    BY <1>1, <1>2, WFMin
<1>4. \A j \in Free : ~(j < i)
  BY <1>1, <1>3
<1>5. \A j \in Free : i <= j
  BY <1>1, <1>4
<1>6. QED
  BY <1>5 DEF NextId

-----------------------------------------------------------------------------
(* Type correctness: each action keeps the parts it touches. *)

\* The stages by name.
LEMMA Stages ==
    {"idle", "select", "expire", "collect", "stale", "record", "lock",
     "grant", "force", "forced"} = Stage
BY DEF Stage

\* A reservation begins.
LEMMA ReserveType ==
    ASSUME Parts, NEW a \in Agent, NEW paths \in SUBSET Path,
           NEW exclusive \in BOOLEAN, NEW ttl \in 1..MaxLeft,
           Reserve(a, paths, exclusive, ttl)
    PROVE  Parts'
<1>1. CallOK'
  <2>1. [paths |-> paths, exclusive |-> exclusive, ttl |-> ttl] \in Call
    BY DEF Call
  <2>2. QED
    BY <2>1 DEF Parts, CallOK, Reserve
<1>2. StageOK'
  BY AtType, Stages DEF Parts, Reserve
<1>3. RestOK'
  <2>1. failures' \in 0..MaxFailures
    BY LimitAssumption DEF Parts, RestOK, Reserve
  <2>2. QED
    BY <2>1 DEF Parts, RestOK, Reserve
<1>4. QED
  BY <1>1, <1>2, <1>3, Kept DEF Parts, Reserve

\* The steps of a sweep.
LEMMA SweepStepsType ==
    ASSUME Parts, NEW a \in Agent,
           \/ View(a) \/ SelectExpired(a) \/ UpdateExpired(a) \/ Collect(a)
           \/ ReleaseStale(a)
    PROVE  Parts'
<1>1. CASE View(a)
  BY <1>1, AtType, Stages, Kept DEF Parts, View
<1>2. CASE SelectExpired(a)
  <2>1. StageOK'
    BY <1>2, AtType, Stages DEF Parts, SelectExpired
  <2>2. SeenOK'
    BY <1>2, ReadType, RowSets DEF Parts, SelectExpired
  <2>3. QED
    BY <1>2, <2>1, <2>2, Kept DEF Parts, SelectExpired
<1>3. CASE UpdateExpired(a)
  <2>1. RowsOK'
    BY <1>3, ReleasedType DEF Parts, UpdateExpired, RowsOK
  <2>2. DraftOK'
    BY <1>3, EndedType DEF Parts, UpdateExpired, DraftOK
  <2>3. SeenOK' /\ StageOK'
    BY <1>3, ReadType, AtType, Stages DEF Parts, UpdateExpired
  <2>4. QED
    BY <1>3, <2>1, <2>2, <2>3, Kept DEF Parts, UpdateExpired
<1>4. CASE Collect(a)
  <2>1. PICK S \in SUBSET {i \in Held : rows[i].agent \in inactive} :
          Read(a, S) /\ At(a, IF S = {} THEN "record" ELSE "stale")
    BY <1>4 DEF Collect
  <2>2. S \in SUBSET Id
    BY RowSets
  <2>3. SeenOK' /\ StageOK'
    BY <2>1, <2>2, ReadType, AtType, Stages DEF Parts
  <2>4. QED
    BY <1>4, <2>3, Kept DEF Parts, Collect
<1>5. CASE ReleaseStale(a)
  <2>1. RowsOK'
    BY <1>5, ReleasedType DEF Parts, ReleaseStale, RowsOK
  <2>2. DraftOK'
    BY <1>5, EndedType DEF Parts, ReleaseStale, DraftOK
  <2>3. SeenOK' /\ StageOK'
    BY <1>5, ReadType, AtType, Stages DEF Parts, ReleaseStale
  <2>4. QED
    BY <1>5, <2>1, <2>2, <2>3, Kept DEF Parts, ReleaseStale
<1>6. QED
  BY <1>1, <1>2, <1>3, <1>4, <1>5

\* The steps that write records, or fail to.
LEMMA RecordStepsType ==
    ASSUME Parts, NEW a \in Agent,
           \/ Record(a) \/ WriteGrants(a) \/ RecordForced(a) \/ Fail(a)
    PROVE  Parts'
<1>1. CASE Record(a)
  <2>1. RecordsOK' /\ DraftOK' /\ unsure' \subseteq Id
    BY <1>1, WriteType DEF Parts, Record
  <2>2. StageOK'
    BY <1>1, AtType, Stages DEF Parts, Record
  <2>3. RestOK'
    BY <1>1, <2>1 DEF Parts, Record, RestOK
  <2>4. QED
    BY <1>1, <2>1, <2>2, <2>3, Kept DEF Parts, Record
<1>2. CASE WriteGrants(a)
  <2>1. RecordsOK' /\ DraftOK' /\ unsure' \subseteq Id
    BY <1>2, WriteType DEF Parts, WriteGrants
  <2>2. StageOK' /\ SeenOK'
    BY <1>2, AtType, ReadType, Stages DEF Parts, WriteGrants
  <2>3. CallOK'
    BY <1>2, SweepType DEF Parts, CallOK, WriteGrants
  <2>4. RestOK'
    BY <1>2, <2>1 DEF Parts, WriteGrants, RestOK
  <2>5. QED
    BY <1>2, <2>1, <2>2, <2>3, <2>4, Kept DEF Parts, WriteGrants
<1>3. CASE RecordForced(a)
  <2>1. RecordsOK' /\ DraftOK' /\ unsure' \subseteq Id
    BY <1>3, WriteType DEF Parts, RecordForced
  <2>2. StageOK'
    BY <1>3, AtType, Stages DEF Parts, RecordForced
  <2>3. RestOK'
    BY <1>3, <2>1 DEF Parts, RecordForced, RestOK
  <2>4. QED
    BY <1>3, <2>1, <2>2, <2>3, Kept DEF Parts, RecordForced
<1>4. CASE Fail(a)
  <2>1. DraftOK'
    BY <1>4, NothingType DEF Parts, DraftOK, Fail
  <2>2. StageOK' /\ SeenOK'
    BY <1>4, AtType, ReadType, Stages DEF Parts, Fail
  <2>3. CallOK'
    BY <1>4, SweepType DEF Parts, CallOK, Fail
  <2>4. RestOK'
    <3>1. failures' \in 0..MaxFailures
      BY <1>4, LimitAssumption DEF Parts, Fail, RestOK
    <3>2. QED
      BY <1>4, <3>1 DEF Parts, Fail, RestOK, Due
  <2>5. QED
    BY <1>4, <2>1, <2>2, <2>3, <2>4, Kept DEF Parts, Fail
<1>5. QED
  BY <1>1, <1>2, <1>3, <1>4

\* The time left on one row is changed.
LEMMA LeftUpdate ==
    ASSUME RowsOK, NEW i \in Id, NEW n \in 0..MaxLeft,
           rows' = [rows EXCEPT ![i].left = n]
    PROVE  RowsOK'
<1>1. [rows[i] EXCEPT !.left = n] \in Row
  BY RowUpdate DEF RowsOK
<1>2. rows' = [rows EXCEPT ![i] = [rows[i] EXCEPT !.left = n]]
  BY DEF RowsOK
<1>3. QED
  BY <1>1, <1>2 DEF RowsOK

\* An own row is extended.
LEMMA ExtendType ==
    ASSUME Parts, NEW a \in Agent, NEW p \in Path, Extend(a, p)
    PROVE  Parts'
<1>1. PICK i \in Reusable(a, p) :
        LET left == IF rows[i].left < call[a].ttl THEN call[a].ttl
                    ELSE rows[i].left
        IN  /\ rows' = [rows EXCEPT ![i].left = left]
            /\ draft' = [draft EXCEPT ![a][i] = IF i \in Held THEN left ELSE 0]
            /\ revived' = revived \cup (Expired \cap {i})
  BY DEF Extend
<1> DEFINE left == IF rows[i].left < call[a].ttl THEN call[a].ttl
                   ELSE rows[i].left
<1>2. i \in Id
  BY DEF Reusable, Parts, SeenOK
<1>3. left \in 0..MaxLeft
  <2>1. rows[i] \in Row /\ call[a] \in Call
    BY <1>2 DEF Parts, RowsOK, CallOK
  <2>2. rows[i].left \in 0..MaxLeft /\ call[a].ttl \in 1..MaxLeft
    BY <2>1 DEF Row, Call
  <2>3. QED
    BY <2>2, Ticks
<1>4. /\ rows' = [rows EXCEPT ![i].left = left]
      /\ draft' = [draft EXCEPT ![a][i] = IF i \in Held THEN left ELSE 0]
  BY <1>1
<1> HIDE DEF left
<1>5. RowsOK'
  BY <1>2, <1>3, <1>4, LeftUpdate DEF Parts
<1>6. DraftOK'
  <2>1. (IF i \in Held THEN left ELSE 0) \in Unwritten..MaxLeft
    BY <1>3, Ticks
  <2>2. QED
    BY <2>1, <1>4, DraftUpdate DEF Parts
<1>7. CallOK'
  BY AnsweredType DEF Parts, Extend
<1>8. RestOK'
  BY <1>1, RowSets DEF Parts, RestOK, Extend
<1>9. QED
  BY <1>5, <1>6, <1>7, <1>8, Kept DEF Parts, Extend

\* A row is created.
LEMMA CreateType ==
    ASSUME Parts, NEW a \in Agent, NEW p \in Path, Create(a, p)
    PROVE  Parts'
<1>1. NextId \in Id
  BY NextIdLeast, RowSets DEF Create
<1>2. call[a] \in Call /\ call[a].exclusive \in BOOLEAN /\ call[a].ttl \in 1..MaxLeft
  BY DEF Parts, CallOK, Call
<1>3. [agent |-> a, path |-> p, exclusive |-> call[a].exclusive,
       left |-> call[a].ttl, status |-> "held"] \in Row
  BY <1>2, Ticks DEF Row
<1>4. RowsOK'
  BY <1>1, <1>3 DEF Parts, RowsOK, Create
<1>5. DraftOK'
  <2>1. call[a].ttl \in Unwritten..MaxLeft
    BY <1>2, Ticks
  <2>2. QED
    BY <2>1, DraftUpdate DEF Parts, Create
<1>6. SeenOK'
  <2>1. seen[a] \cup {NextId} \in SUBSET Id
    BY <1>1 DEF Parts, SeenOK
  <2>2. QED
    BY <2>1, ReadType DEF Parts, Create
<1>7. CallOK'
  BY AnsweredType DEF Parts, Create
<1>8. QED
  BY <1>4, <1>5, <1>6, <1>7, Kept DEF Parts, Create

\* The archive lock is taken and the active rows are read.
LEMMA LockAndReadType ==
    ASSUME Parts, NEW a \in Agent, LockAndRead(a)
    PROVE  Parts'
<1>1. StageOK' /\ SeenOK'
  BY AtType, ReadType, RowSets, Stages DEF Parts, LockAndRead
<1>2. RestOK'
  BY DEF Parts, RestOK, LockAndRead
<1>3. QED
  BY <1>1, <1>2, Kept DEF Parts, LockAndRead

\* Own rows are released.
LEMMA ReleaseType ==
    ASSUME Parts, NEW a \in Agent, Release(a)
    PROVE  Parts'
<1>1. PICK S : rows' = Released(S) /\ draft' = Ended(a, S)
  BY DEF Release
<1>2. RowsOK' /\ DraftOK'
  BY <1>1, ReleasedType, EndedType DEF Parts, RowsOK, DraftOK
<1>3. StageOK'
  BY AtType, Stages DEF Parts, Release
<1>4. RestOK'
  BY DEF Parts, RestOK, Release
<1>5. QED
  BY <1>2, <1>3, <1>4, Kept DEF Parts, Release

\* Own rows are renewed.
LEMMA RenewType ==
    ASSUME Parts, NEW a \in Agent, NEW bump \in 1..MaxLeft, Renew(a, bump)
    PROVE  Parts'
<1>1. PICK S \in SUBSET {i \in OwnedBy(a) : rows[i].left + bump <= MaxLeft} :
        /\ rows' = [i \in Id |-> IF i \in S
                                 THEN [rows[i] EXCEPT !.left = @ + bump]
                                 ELSE rows[i]]
        /\ draft' = [draft EXCEPT ![a] =
                       [i \in Id |-> IF i \in S THEN rows[i].left + bump
                                     ELSE draft[a][i]]]
        /\ revived' = revived \cup (S \cap Expired)
  BY DEF Renew
<1>2. ASSUME NEW i \in S PROVE rows[i] \in Row /\ rows[i].left + bump \in 0..MaxLeft
  <2>1. i \in Id /\ rows[i].left + bump <= MaxLeft
    BY <1>2, RowSets
  <2>2. rows[i] \in Row /\ rows[i].left \in 0..MaxLeft
    BY <2>1 DEF Parts, RowsOK, Row
  <2>3. QED
    BY <2>1, <2>2, LimitAssumption
<1>3. RowsOK'
  <2>1. \A i \in S : [rows[i] EXCEPT !.left = @ + bump] \in Row
    BY <1>2, RowUpdate
  <2>2. QED
    BY <1>1, <2>1 DEF Parts, RowsOK
<1>4. DraftOK'
  <2>1. [i \in Id |-> IF i \in S THEN rows[i].left + bump ELSE draft[a][i]]
          \in [Id -> Unwritten..MaxLeft]
    BY <1>2, Ticks DEF Parts, DraftOK
  <2>2. QED
    BY <1>1, <2>1 DEF Parts, DraftOK
<1>5. StageOK'
  BY AtType, Stages DEF Parts, Renew
<1>6. RestOK'
  BY <1>1, RowSets DEF Parts, RestOK, Renew
<1>7. QED
  BY <1>3, <1>4, <1>5, <1>6, Kept DEF Parts, Renew

\* The steps of a forced release.
LEMMA ForceStepsType ==
    ASSUME Parts, NEW a \in Agent,
           (\E i \in Id : ForceCheck(a, i)) \/ ForceUpdate(a)
    PROVE  Parts'
<1>1. ASSUME NEW i \in Id, ForceCheck(a, i) PROVE Parts'
  <2>1. StageOK' /\ SeenOK'
    BY <1>1, AtType, ReadType, Stages DEF Parts, ForceCheck
  <2>2. QED
    BY <1>1, <2>1, Kept DEF Parts, ForceCheck
<1>2. CASE ForceUpdate(a)
  <2>1. RowsOK' /\ DraftOK'
    BY <1>2, ReleasedType, EndedType DEF Parts, RowsOK, DraftOK, ForceUpdate
  <2>2. StageOK' /\ SeenOK'
    BY <1>2, AtType, ReadType, Stages DEF Parts, ForceUpdate
  <2>3. RestOK'
    BY <1>2, RowSets DEF Parts, RestOK, ForceUpdate
  <2>4. QED
    BY <1>2, <2>1, <2>2, <2>3, Kept DEF Parts, ForceUpdate
<1>3. QED
  BY <1>1, <1>2

\* The countdowns go down.
LEMMA TimePassesType ==
    ASSUME Parts, TimePasses
    PROVE  Parts'
<1>1. RowsOK'
  <2>1. ASSUME NEW i \in Id
        PROVE  [rows[i] EXCEPT !.left = Older(@)] \in Row
    <3>1. rows[i] \in Row /\ rows[i].left \in 0..MaxLeft
      BY DEF Parts, RowsOK, Row
    <3>2. Older(rows[i].left) \in 0..MaxLeft
      BY <3>1, OlderType
    <3>3. QED
      BY <3>1, <3>2, RowUpdate
  <2>2. QED
    BY <2>1 DEF RowsOK, TimePasses
<1>2. RecordsOK'
  BY OlderType DEF Parts, RecordsOK, TimePasses
<1>3. DraftOK'
  <2>1. ASSUME NEW a \in Agent
        PROVE  [i \in Id |-> Older(draft[a][i])] \in [Id -> Unwritten..MaxLeft]
    BY OlderType DEF Parts, DraftOK
  <2>2. QED
    BY <2>1 DEF DraftOK, TimePasses
<1>4. QED
  BY <1>1, <1>2, <1>3, Kept DEF Parts, TimePasses

\* The initial state is well-typed.
LEMMA InitType == Init => Parts
<1> SUFFICES ASSUME Init PROVE Parts
  OBVIOUS
<1>1. NoRow \in Row
  BY PathAssumption, Ticks DEF NoRow, Row
<1>2. RowsOK
  BY <1>1 DEF Init, RowsOK
<1>3. CallOK /\ DraftOK
  BY SweepType, NothingType DEF Init, CallOK, DraftOK
<1>4. RecordsOK /\ StageOK /\ SeenOK
  BY Ticks DEF Init, RecordsOK, StageOK, SeenOK, Stage
<1>5. RestOK
  BY LimitAssumption DEF Init, RestOK
<1>6. QED
  BY <1>2, <1>3, <1>4, <1>5 DEF Parts

\* Every step keeps the types.
LEMMA NextType == Parts /\ [Next]_vars => Parts'
<1> SUFFICES ASSUME Parts, [Next]_vars PROVE Parts'
  OBVIOUS
<1>1. ASSUME NEW a \in Agent, NEW paths \in SUBSET Path,
             NEW exclusive \in BOOLEAN, NEW ttl \in 1..MaxLeft,
             Reserve(a, paths, exclusive, ttl)
      PROVE  Parts'
  BY <1>1, ReserveType
<1>2. ASSUME NEW a \in Agent,
             \/ View(a) \/ SelectExpired(a) \/ UpdateExpired(a) \/ Collect(a)
             \/ ReleaseStale(a)
      PROVE  Parts'
  BY <1>2, SweepStepsType
<1>3. ASSUME NEW a \in Agent,
             \/ Record(a) \/ WriteGrants(a) \/ RecordForced(a) \/ Fail(a)
      PROVE  Parts'
  BY <1>3, RecordStepsType
<1>4. ASSUME NEW a \in Agent, NEW p \in Path,
             Extend(a, p) \/ Deny(a, p) \/ Create(a, p)
      PROVE  Parts'
  <2>1. CASE Deny(a, p)
    BY <2>1, AnsweredType, Kept DEF Parts, Deny
  <2>2. QED
    BY <1>4, <2>1, ExtendType, CreateType
<1>5. ASSUME NEW a \in Agent,
             \/ LockAndRead(a) \/ Release(a)
             \/ \E bump \in 1..MaxLeft : Renew(a, bump)
             \/ \E i \in Id : ForceCheck(a, i)
             \/ ForceUpdate(a)
      PROVE  Parts'
  BY <1>5, LockAndReadType, ReleaseType, RenewType, ForceStepsType
<1>6. ASSUME NEW a \in Agent, MailActivity(a) \/ GoInactive(a) PROVE Parts'
  <2>1. RestOK'
    BY <1>6 DEF Parts, RestOK, MailActivity, GoInactive
  <2>2. QED
    BY <1>6, <2>1, Kept DEF Parts, MailActivity, GoInactive
<1>7. CASE TimePasses
  BY <1>7, TimePassesType
<1>8. CASE UNCHANGED vars
  BY <1>8, Kept DEF Parts, vars
<1>9. QED
  BY <1>1, <1>2, <1>3, <1>4, <1>5, <1>6, <1>7, <1>8 DEF Next

\* Every reachable state is well-typed: no lease, record or record still to be
\* written leaves the range of its countdown, and every call stands at a known
\* stage (all handlers of app.py that touch file_reservations).
THEOREM TypeCorrect == Spec => []TypeOK
<1>1. Init => TypeOK
  BY InitType, PartsOfTypeOK
<1>2. TypeOK /\ [Next]_vars => TypeOK'
  <2>1. Parts' => TypeOK'
    BY DEF TypeOK, Parts, RowsOK, RecordsOK, StageOK, CallOK, SeenOK, DraftOK,
           RestOK
  <2>2. QED
    BY <2>1, NextType, PartsOfTypeOK
<1>3. QED
  BY <1>1, <1>2, PTL DEF Spec

-----------------------------------------------------------------------------
(* Conflicts.  The invariant speaks of the younger row as long as it is     *)
(* held, expired or not, because renewal may make it active again; it needs *)
(* that whoever has the lock has seen all that is active, and that the next *)
(* id is above all rows in use.                                             *)

\* The older row i stands in the way of the younger row j.
Clash(i, j) ==
    /\ i < j
    /\ rows[i].agent # rows[j].agent
    /\ rows[i].exclusive \/ rows[j].exclusive
    /\ {rows[i].path, rows[j].path} \cap Virtual = {}
    /\ <<rows[i].path, rows[j].path>> \in Matches

LockHeld == \A a \in Agent : stage[a] = "grant" <=> lock = a
SeenActive == \A a \in Agent : lock = a => Active \ revived \subseteq seen[a]
Dense == \A i, j \in Id : i < j /\ i \in Free => j \in Free
NoClash == \A i \in Active, j \in Held : Clash(i, j) => i \in revived

Safe == Parts /\ LockHeld /\ SeenActive /\ Dense /\ NoClash

\* What every action but Create does to the rows: nothing becomes held, and
\* only what is revived becomes active.
Fade ==
    /\ revived \subseteq revived'
    /\ \A i \in Id :
          /\ rows'[i].agent = rows[i].agent
          /\ rows'[i].path = rows[i].path
          /\ rows'[i].exclusive = rows[i].exclusive
          /\ rows'[i].status = "held" => rows[i].status = "held"
          /\ rows'[i].status = "free" <=> rows[i].status = "free"
          /\ rows'[i].status = "held" /\ rows'[i].left > 0
             => rows[i].left > 0 \/ i \in revived'

\* Rows that only fade clash no more than before.
LEMMA FadeKeepsRows ==
    ASSUME Dense, NoClash, Fade
    PROVE  Dense' /\ NoClash' /\ Active' \ revived' \subseteq Active \ revived
<1>1. Dense'
  BY DEF Dense, Fade, Free
<1>2. Active' \ revived' \subseteq Active \ revived
  BY DEF Fade, Active, Held
<1>3. NoClash'
  <2>1. SUFFICES ASSUME NEW i \in Active', NEW j \in Held', Clash(i, j)',
                        i \notin revived'
                 PROVE  FALSE
    BY DEF NoClash
  <2>2. i \in Active /\ i \notin revived /\ j \in Held /\ i \in Id /\ j \in Id
    BY <1>2, <2>1 DEF Fade, Held, Active
  <2>3. Clash(i, j)
    BY <2>1, <2>2 DEF Fade, Clash
  <2>4. QED
    BY <2>2, <2>3 DEF NoClash
<1>4. QED
  BY <1>1, <1>2, <1>3

\* Nobody gets the lock, and who has it keeps what it has seen.
LEMMA FadeKeepsSafe ==
    ASSUME Safe, Parts', Fade,
           \A b \in Agent : stage'[b] = "grant" <=> lock' = b,
           \A b \in Agent : lock' = b => lock = b /\ seen'[b] = seen[b]
    PROVE  Safe'
<1>1. LockHeld'
  BY DEF LockHeld
<1>2. Dense' /\ NoClash' /\ Active' \ revived' \subseteq Active \ revived
  BY FadeKeepsRows DEF Safe
<1>3. SeenActive'
  <2>1. SUFFICES ASSUME NEW b \in Agent, lock' = b
                 PROVE  Active' \ revived' \subseteq seen'[b]
    BY DEF SeenActive
  <2>2. Active \ revived \subseteq seen[b]
    BY <2>1 DEF Safe, SeenActive
  <2>3. QED
    BY <1>2, <2>1, <2>2
<1>4. QED
  BY <1>1, <1>2, <1>3 DEF Safe

\* A call that is not granting moves on, and the lock stays where it is.
LEMMA BystanderSafe ==
    ASSUME Safe, Parts', Fade, NEW a \in Agent, NEW s, s # "grant",
           stage[a] # "grant", At(a, s), lock' = lock,
           seen' = seen \/ \E S : Read(a, S)
    PROVE  Safe'
<1>1. ASSUME NEW b \in Agent PROVE stage'[b] = "grant" <=> lock' = b
  BY DEF Safe, Parts, StageOK, LockHeld, At
<1>2. ASSUME NEW b \in Agent, lock' = b PROVE lock = b /\ seen'[b] = seen[b]
  <2>1. b # a
    BY <1>2 DEF Safe, LockHeld
  <2>2. QED
    BY <1>2, <2>1 DEF Safe, Parts, SeenOK, Read
<1>3. QED
  BY <1>1, <1>2, FadeKeepsSafe

\* Rows left alone fade.
LEMMA SameRowsFade ==
    ASSUME UNCHANGED <<rows, revived>>
    PROVE  Fade
BY DEF Fade

\* Releasing rows is fading.
LEMMA ReleasedFade ==
    ASSUME RowsOK, NEW S \in SUBSET Held, rows' = Released(S),
           revived' = revived
    PROVE  Fade
<1>1. ASSUME NEW i \in Id
      PROVE  rows'[i] = IF i \in S THEN [rows[i] EXCEPT !.status = "released"]
                        ELSE rows[i]
  BY DEF Released
<1>2. ASSUME NEW i \in S PROVE rows[i].status = "held"
  BY DEF Held
<1>3. QED
  BY <1>1, <1>2 DEF Fade, RowsOK, Row

\* So is renewing them, the expired ones being counted as revived,
LEMMA RenewFade ==
    ASSUME Parts, NEW a \in Agent, NEW bump \in 1..MaxLeft, Renew(a, bump)
    PROVE  Fade
<1>1. PICK S \in SUBSET OwnedBy(a) :
        /\ rows' = [i \in Id |-> IF i \in S
                                 THEN [rows[i] EXCEPT !.left = @ + bump]
                                 ELSE rows[i]]
        /\ revived' = revived \cup (S \cap Expired)
  BY DEF Renew
<1>2. ASSUME NEW i \in S
      PROVE  rows[i].left > 0 \/ i \in revived'
  <2>1. rows[i].left \in 0..MaxLeft /\ i \in Held
    BY <1>2 DEF OwnedBy, Held, Parts, RowsOK, Row
  <2>2. CASE rows[i].left = 0
    BY <1>1, <2>1, <2>2 DEF Expired
  <2>3. CASE rows[i].left # 0
    BY <2>1, <2>3, LimitAssumption
  <2>4. QED
    BY <2>2, <2>3
<1>3. ASSUME NEW i \in Id
      PROVE  /\ rows'[i].agent = rows[i].agent
             /\ rows'[i].path = rows[i].path
             /\ rows'[i].exclusive = rows[i].exclusive
             /\ rows'[i].status = rows[i].status
             /\ i \notin S => rows'[i] = rows[i]
  BY <1>1 DEF Parts, RowsOK, Row
<1>4. QED
  BY <1>1, <1>2, <1>3 DEF Fade

\* and extending one, counted in the same way,
LEMMA ExtendFade ==
    ASSUME Parts, NEW a \in Agent, NEW p \in Path, Extend(a, p)
    PROVE  Fade
<1>1. PICK i, n :
        /\ i \in Reusable(a, p)
        /\ rows' = [rows EXCEPT ![i].left = n]
        /\ revived' = revived \cup (Expired \cap {i})
  BY DEF Extend
<1>2. i \in Id
  BY <1>1 DEF Reusable, Parts, SeenOK
<1>3. ASSUME rows[i].status = "held" PROVE rows[i].left > 0 \/ i \in revived'
  <2>1. rows[i].left \in 0..MaxLeft
    BY <1>2 DEF Parts, RowsOK, Row
  <2>2. CASE rows[i].left = 0
    BY <1>1, <1>2, <1>3, <2>2 DEF Expired, Held
  <2>3. CASE rows[i].left # 0
    BY <2>1, <2>3, LimitAssumption
  <2>4. QED
    BY <2>2, <2>3
<1>4. ASSUME NEW j \in Id
      PROVE  /\ rows'[j].agent = rows[j].agent
             /\ rows'[j].path = rows[j].path
             /\ rows'[j].exclusive = rows[j].exclusive
             /\ rows'[j].status = rows[j].status
             /\ j # i => rows'[j] = rows[j]
  BY <1>1, <1>2 DEF Parts, RowsOK, Row
<1>5. QED
  BY <1>1, <1>3, <1>4 DEF Fade

\* and the passing of time.
LEMMA TimePassesFade ==
    ASSUME Parts, TimePasses
    PROVE  Fade
<1>1. ASSUME NEW i \in Id
      PROVE  /\ rows'[i].agent = rows[i].agent
             /\ rows'[i].path = rows[i].path
             /\ rows'[i].exclusive = rows[i].exclusive
             /\ rows'[i].status = rows[i].status
             /\ rows'[i].left = Older(rows[i].left)
  BY DEF TimePasses, Parts, RowsOK, Row
<1>2. ASSUME NEW i \in Id, Older(rows[i].left) > 0 PROVE rows[i].left > 0
  BY <1>2 DEF Older
<1>3. QED
  BY <1>1, <1>2 DEF Fade, TimePasses

\* The one step that makes a row: everything active that could stand in its
\* way has been seen, so the conflict would have been found.
LEMMA CreateSafe ==
    ASSUME Safe, Parts', NEW a \in Agent, NEW p \in Path, Create(a, p)
    PROVE  Safe'
<1> DEFINE n == NextId
           row == [agent |-> a, path |-> p, exclusive |-> call[a].exclusive,
                   left |-> call[a].ttl, status |-> "held"]
<1>1. n \in Free /\ n \in Id /\ \A j \in Free : n <= j
  BY NextIdLeast, RowSets DEF Create
<1>2. rows' = [rows EXCEPT ![n] = row]
  BY DEF Create
<1>3. rows'[n] = row /\ \A i \in Id \ {n} : rows'[i] = rows[i]
  BY <1>1, <1>2 DEF Safe, Parts, RowsOK
<1>4. row.agent = a /\ row.path = p /\ row.exclusive = call[a].exclusive
      /\ row.status = "held"
  OBVIOUS
<1>5. lock = a /\ lock' = lock /\ stage' = stage /\ revived' = revived
      /\ seen' = [seen EXCEPT ![a] = @ \cup {n}]
  BY DEF Create, Read, Safe, LockHeld
<1> HIDE DEF n, row
<1>6. LockHeld'
  BY <1>5 DEF Safe, LockHeld
<1>7. Active' \subseteq Active \cup {n} /\ Held' = Held \cup {n}
  BY <1>1, <1>3, <1>4 DEF Active, Held
<1>8. SeenActive'
  <2>1. Active \ revived \subseteq seen[a]
    BY <1>5 DEF Safe, SeenActive
  <2>2. seen'[a] = seen[a] \cup {n}
    BY <1>5 DEF Safe, Parts, SeenOK
  <2>3. \A b \in Agent : lock' = b => b = a
    BY <1>5
  <2>4. QED
    BY <1>5, <1>7, <2>1, <2>2, <2>3 DEF SeenActive
<1>9. Dense'
  <2>1. Free' = Free \ {n}
    BY <1>1, <1>3, <1>4 DEF Free
  <2>2. \A i, j \in Id : i < j /\ i \in Free \ {n} => j \in Free \ {n}
    BY <1>1, LimitAssumption DEF Safe, Dense, Id
  <2>3. QED
    BY <2>1, <2>2 DEF Dense
<1>10. NoClash'
  <2>1. SUFFICES ASSUME NEW i \in Active', NEW j \in Held', Clash(i, j)',
                        i \notin revived'
                 PROVE  FALSE
    BY DEF NoClash
  <2>2. i \in Id /\ j \in Id /\ i < j
    BY <2>1 DEF Active, Held, Clash
  <2>3. i # n
    <3>1. SUFFICES ASSUME i = n PROVE FALSE
      OBVIOUS
    <3>2. j \in Held /\ j # n
      BY <1>7, <2>2, <3>1, LimitAssumption DEF Id
    <3>3. j \in Free
      BY <1>1, <2>2, <3>1 DEF Safe, Dense
    <3>4. QED
      BY <3>2, <3>3 DEF Held, Free
  <2>4. i \in Active /\ i \notin revived /\ rows'[i] = rows[i]
    BY <1>3, <1>5, <1>7, <2>1, <2>2, <2>3
  <2>5. CASE j # n
    <3>1. j \in Held /\ rows'[j] = rows[j]
      BY <1>3, <1>7, <2>2, <2>5
    <3>2. Clash(i, j)
      BY <2>1, <2>4, <3>1 DEF Clash
    <3>3. QED
      BY <2>4, <3>1, <3>2 DEF Safe, NoClash
  <2>6. CASE j = n
    <3>1. i \in seen[a]
      BY <1>5, <2>4 DEF Safe, SeenActive
    <3>2. /\ rows[i].agent # a
          /\ rows[i].exclusive \/ call[a].exclusive
          /\ {rows[i].path, p} \cap Virtual = {}
          /\ <<rows[i].path, p>> \in Matches
      BY <1>3, <1>4, <2>1, <2>4, <2>6 DEF Clash
    <3>3. Suspicious(a, p, call[a].exclusive)
      BY <3>1, <3>2 DEF Suspicious, Foreign
    <3>4. Conflict(a, p, call[a].exclusive)
      BY <3>1, <3>2, <3>3 DEF Conflict, Foreign, Overlap
    <3>5. QED
      BY <3>4 DEF Create
  <2>7. QED
    BY <2>5, <2>6
<1>11. QED
  BY <1>6, <1>8, <1>9, <1>10 DEF Safe

\* The lock is taken, given back, or freed by a call that fails.
LEMMA LockSafe ==
    ASSUME Safe, Parts', NEW a \in Agent,
           LockAndRead(a) \/ WriteGrants(a) \/ Fail(a)
    PROVE  Safe'
<1>1. CASE LockAndRead(a)
  <2>1. Fade
    BY <1>1, SameRowsFade DEF LockAndRead
  <2>2. Dense' /\ NoClash' /\ Active' \ revived' \subseteq Active \ revived
    BY <2>1, FadeKeepsRows DEF Safe
  <2>3. LockHeld'
    BY <1>1, PathAssumption DEF Safe, Parts, StageOK, LockHeld, LockAndRead, At
  <2>4. seen'[a] = Active /\ \A b \in Agent : lock' = b => b = a
    BY <1>1 DEF Safe, Parts, SeenOK, LockAndRead, Read
  <2>5. SeenActive'
    BY <2>2, <2>4 DEF SeenActive
  <2>6. QED
    BY <2>2, <2>3, <2>5 DEF Safe
<1>2. CASE WriteGrants(a)
  <2>1. Fade
    BY <1>2, SameRowsFade DEF WriteGrants
  <2>2. lock = a /\ lock' = NoAgent /\ At(a, "idle")
    BY <1>2 DEF Safe, LockHeld, WriteGrants
  <2>3. \A b \in Agent : stage'[b] = "grant" <=> lock' = b
    BY <2>2, PathAssumption DEF Safe, Parts, StageOK, LockHeld, At
  <2>4. \A b \in Agent : lock' # b
    BY <2>2, PathAssumption
  <2>5. QED
    BY <2>1, <2>3, <2>4, FadeKeepsSafe
<1>3. CASE Fail(a)
  <2>1. Fade
    BY <1>3, SameRowsFade DEF Fail
  <2>2. lock' = (IF lock = a THEN NoAgent ELSE lock) /\ At(a, "idle") /\ Read(a, {})
    BY <1>3 DEF Fail
  <2>3. \A b \in Agent : stage'[b] = "grant" <=> lock' = b
    BY <2>2, PathAssumption DEF Safe, Parts, StageOK, LockHeld, At
  <2>4. ASSUME NEW b \in Agent, lock' = b PROVE lock = b /\ seen'[b] = seen[b]
    <3>1. b # a /\ lock = b
      BY <2>2, <2>4, PathAssumption
    <3>2. QED
      BY <2>2, <3>1 DEF Safe, Parts, SeenOK, Read
  <2>5. QED
    BY <2>1, <2>3, <2>4, FadeKeepsSafe
<1>4. QED
  BY <1>1, <1>2, <1>3

\* Calls that are not granting and leave the rows alone.
LEMMA ReadersSafe ==
    ASSUME Safe, Parts', NEW a \in Agent,
           \/ View(a) \/ SelectExpired(a) \/ Collect(a) \/ Record(a)
           \/ (\E i \in Id : ForceCheck(a, i)) \/ RecordForced(a)
           \/ \E paths \in SUBSET Path, exclusive \in BOOLEAN,
                 ttl \in 1..MaxLeft : Reserve(a, paths, exclusive, ttl)
    PROVE  Safe'
<1>1. Fade /\ lock' = lock /\ stage[a] # "grant"
  BY SameRowsFade DEF View, SelectExpired, Collect, Record, ForceCheck,
     RecordForced, Reserve
<1>2. \E s : s # "grant" /\ At(a, s)
  BY DEF View, SelectExpired, Collect, Record, ForceCheck, RecordForced, Reserve
<1>3. seen' = seen \/ \E S : Read(a, S)
  BY DEF View, SelectExpired, Collect, Record, ForceCheck, RecordForced, Reserve
<1>4. QED
  BY <1>1, <1>2, <1>3, BystanderSafe

\* Calls that release rows or extend them without the lock.
LEMMA WritersSafe ==
    ASSUME Safe, Parts', NEW a \in Agent,
           \/ UpdateExpired(a) \/ ReleaseStale(a) \/ Release(a)
           \/ ForceUpdate(a) \/ \E bump \in 1..MaxLeft : Renew(a, bump)
    PROVE  Safe'
<1>1. ASSUME UpdateExpired(a) \/ ReleaseStale(a) \/ Release(a) \/ ForceUpdate(a)
      PROVE  Fade
  <2>1. PICK S \in SUBSET Held : rows' = Released(S)
    <3>1. CASE UpdateExpired(a)
      BY <3>1 DEF UpdateExpired, Expired
    <3>2. CASE ReleaseStale(a)
      BY <3>2 DEF ReleaseStale
    <3>3. CASE Release(a)
      BY <3>3 DEF Release, OwnedBy
    <3>4. CASE ForceUpdate(a)
      BY <3>4 DEF ForceUpdate
    <3>5. QED
      BY <1>1, <3>1, <3>2, <3>3, <3>4
  <2>2. revived' = revived
    BY <1>1 DEF UpdateExpired, ReleaseStale, Release, ForceUpdate
  <2>3. QED
    BY <2>1, <2>2, ReleasedFade DEF Safe, Parts
<1>2. Fade
  BY <1>1, RenewFade DEF Safe
<1>3. /\ lock' = lock
      /\ stage[a] # "grant"
      /\ \E s : s # "grant" /\ At(a, s)
      /\ seen' = seen \/ \E S : Read(a, S)
  BY DEF UpdateExpired, ReleaseStale, Release, ForceUpdate, Renew
<1>4. QED
  BY <1>2, <1>3, BystanderSafe

\* Steps that leave stages, lock and what was read as they are.
LEMMA OthersSafe ==
    ASSUME Safe, Parts',
           \/ \E a \in Agent : \/ MailActivity(a) \/ GoInactive(a)
                              \/ \E p \in Path : Extend(a, p) \/ Deny(a, p)
           \/ TimePasses
           \/ UNCHANGED vars
    PROVE  Safe'
<1>1. UNCHANGED <<stage, lock, seen>>
  BY DEF MailActivity, GoInactive, Extend, Deny, TimePasses, vars
<1>2. Fade
  <2>1. ASSUME \/ \E a \in Agent : \/ MailActivity(a) \/ GoInactive(a)
                                  \/ \E p \in Path : Deny(a, p)
               \/ UNCHANGED vars
        PROVE  Fade
    BY <2>1, SameRowsFade DEF MailActivity, GoInactive, Deny, vars
  <2>2. QED
    BY <2>1, ExtendFade, TimePassesFade DEF Safe
<1>3. QED
  BY <1>1, <1>2, FadeKeepsSafe DEF Safe, LockHeld

\* The inductive invariant of the granting.
LEMMA SafeInvariant == Spec => []Safe
<1>1. Init => Safe
  <2> SUFFICES ASSUME Init PROVE Safe
    OBVIOUS
  <2>1. Parts
    BY InitType
  <2>2. \A i \in Id : rows[i].status = "free"
    BY DEF Init, NoRow
  <2>3. Active = {} /\ Held = {}
    BY <2>2 DEF Active, Held
  <2>4. Dense /\ NoClash /\ SeenActive
    BY <2>2, <2>3 DEF Dense, NoClash, SeenActive, Free
  <2>5. LockHeld
    BY PathAssumption DEF Init, LockHeld
  <2>6. QED
    BY <2>1, <2>4, <2>5 DEF Safe
<1>2. Safe /\ [Next]_vars => Safe'
  <2> SUFFICES ASSUME Safe, [Next]_vars PROVE Safe'
    OBVIOUS
  <2>1. Parts'
    BY NextType DEF Safe
  <2>2. ASSUME NEW a \in Agent,
               \/ View(a) \/ SelectExpired(a) \/ Collect(a) \/ Record(a)
               \/ (\E i \in Id : ForceCheck(a, i)) \/ RecordForced(a)
               \/ \E paths \in SUBSET Path, exclusive \in BOOLEAN,
                     ttl \in 1..MaxLeft : Reserve(a, paths, exclusive, ttl)
        PROVE  Safe'
    BY <2>1, <2>2, ReadersSafe
  <2>3. ASSUME NEW a \in Agent,
               \/ UpdateExpired(a) \/ ReleaseStale(a) \/ Release(a)
               \/ ForceUpdate(a) \/ \E bump \in 1..MaxLeft : Renew(a, bump)
        PROVE  Safe'
    BY <2>1, <2>3, WritersSafe
  <2>4. ASSUME NEW a \in Agent, LockAndRead(a) \/ WriteGrants(a) \/ Fail(a)
        PROVE  Safe'
    BY <2>1, <2>4, LockSafe
  <2>5. ASSUME NEW a \in Agent, NEW p \in Path, Create(a, p)
        PROVE  Safe'
    BY <2>1, <2>5, CreateSafe
  <2>6. ASSUME \/ \E a \in Agent : \/ MailActivity(a) \/ GoInactive(a)
                                  \/ \E p \in Path : Extend(a, p) \/ Deny(a, p)
               \/ TimePasses
               \/ UNCHANGED vars
        PROVE  Safe'
    BY <2>1, <2>6, OthersSafe
  <2>7. QED
    BY <2>2, <2>3, <2>4, <2>5, <2>6 DEF Next
<1>3. QED
  BY <1>1, <1>2, PTL DEF Spec

\* However many agents reserve, renew, sweep and fail at once, conflicting
\* active reservations (in the direction the quick check looks) come only from
\* extending one that had expired (file_reservation_paths, renew).
THEOREM NoConflictWithoutRevival == Spec => []ConflictOnlyByRevival
<1>1. Safe => ConflictOnlyByRevival
  BY DEF Safe, NoClash, Clash, ConflictOnlyByRevival, Active
<1>2. QED
  BY <1>1, SafeInvariant, PTL

-----------------------------------------------------------------------------
(* Records: what is still to be written of a row, who is to write it, and     *)
(* what the archive says.                                                     *)

(* A call that is over, or waits for the lock, has nothing left to write.     *)
NothingDue ==
    \A b \in Agent, i \in Id :
        stage[b] \in {"idle", "lock"} => draft[b][i] = Unwritten

(* A lease is left to write by the row's own holder only, who is granting or  *)
(* renews, which is activity; no other call makes it longer than the row.     *)
OwnLeases ==
    \A b \in Agent, i \in Id : draft[b][i] > 0 =>
        /\ rows[i].agent = b /\ draft[b][i] <= rows[i].left
        /\ stage[b] = "grant" \/ (stage[b] = "record" /\ b \notin inactive)

(* Released before its lease is written, a row is one that is being granted.  *)
Overtaken ==
    \A b \in Agent, i \in Id :
        rows[i].status = "released" /\ i \notin forced /\ draft[b][i] > 0
        => stage[b] = "grant"

(* What is left to write of a held row is what the row says.                  *)
DraftAgrees ==
    \A b \in Agent, i \in Id :
        rows[i].status = "held" /\ i \notin revived /\ draft[b][i] # Unwritten
        => draft[b][i] = rows[i].left

(* An id not in use is in nobody's call, and a row has its holder.            *)
FreeUntouched ==
    /\ \A b \in Agent, i \in Id :
          rows[i].status = "free" => draft[b][i] = Unwritten /\ i \notin seen[b]
    /\ \A i \in Id : rows[i].status # "free" => rows[i].agent \in Agent

(* A row found expired is expired still, or was revived.                      *)
SeenExpired ==
    \A b \in Agent, i \in Id :
        /\ stage[b] = "expire" /\ i \in seen[b]
        /\ rows[i].status = "held" /\ i \notin revived
        => rows[i].left = 0

(* A held row's record says what the row does, or its holder is to write it.  *)
HeldRecorded ==
    \A i \in Id :
        rows[i].status = "held" /\ i \notin unsure \cup revived
        => records[i] = rows[i].left \/ draft[rows[i].agent][i] # Unwritten

(* A released row's record says so, or a call is to write that it is released. *)
ReleasedRecorded ==
    \A i \in Id :
        rows[i].status = "released" /\ i \notin unsure \cup forced
        => \/ \E b \in Agent : draft[b][i] = 0
           \/ records[i] = 0 /\ \A b \in Agent : draft[b][i] = Unwritten

RecInv == /\ NothingDue /\ OwnLeases /\ Overtaken /\ DraftAgrees
          /\ FreeUntouched /\ SeenExpired /\ HeldRecorded /\ ReleasedRecorded

\* Ticks left are numbers.
LEMMA Numbers ==
    ASSUME Parts, NEW i \in Id
    PROVE  /\ rows[i].left \in Nat /\ records[i] \in Nat
           /\ rows[i].status \in {"free", "held", "released"}
           /\ \A b \in Agent : draft[b][i] = Unwritten \/ draft[b][i] \in Nat
BY LimitAssumption DEF Parts, RowsOK, RecordsOK, DraftOK, Row, Unwritten

\* What a step does to the stage and to what a call has read, row by row.
LEMMA AtEffect ==
    ASSUME StageOK, NEW a \in Agent, NEW s, At(a, s)
    PROVE  \A b \in Agent : stage'[b] = IF b = a THEN s ELSE stage[b]
BY DEF StageOK, At

\* Only the reader has read.
LEMMA ReadEffect ==
    ASSUME SeenOK, NEW a \in Agent, NEW S, Read(a, S)
    PROVE  \A b \in Agent : seen'[b] = IF b = a THEN S ELSE seen[b]
BY DEF SeenOK, Read

\* The rows of a set are released, and nothing else changes in them,
LEMMA ReleasedEffect ==
    ASSUME RowsOK, NEW S, rows' = Released(S)
    PROVE  \A i \in Id : /\ rows'[i].agent = rows[i].agent
                         /\ rows'[i].left = rows[i].left
                         /\ rows'[i].status = IF i \in S THEN "released"
                                              ELSE rows[i].status
BY DEF RowsOK, Row, Released

\* and a call is to write that they are.
LEMMA EndedEffect ==
    ASSUME DraftOK, NEW a \in Agent, NEW S, draft' = Ended(a, S)
    PROVE  \A b \in Agent, i \in Id :
             draft'[b][i] = IF b = a /\ i \in S THEN 0 ELSE draft[b][i]
BY DEF DraftOK, Ended

\* A call that is over has nothing left to write.
LEMMA NothingEffect ==
    ASSUME DraftOK, NEW a \in Agent, draft' = [draft EXCEPT ![a] = Nothing]
    PROVE  \A b \in Agent, i \in Id :
             draft'[b][i] = IF b = a THEN Unwritten ELSE draft[b][i]
BY DEF DraftOK, Nothing

\* What a call writes, and what is left unsure.
LEMMA WriteEffect ==
    ASSUME Parts, NEW a \in Agent, WriteRecords(a)
    PROVE  /\ \A b \in Agent, i \in Id :
                draft'[b][i] = IF b = a THEN Unwritten ELSE draft[b][i]
           /\ \A i \in Id : records'[i] = IF draft[a][i] # Unwritten THEN draft[a][i]
                                          ELSE records[i]
           /\ \A i \in Id : i \in unsure' <=>
                /\ i \in unsure
                /\ draft[a][i] = Unwritten
                   \/ (rows[i].status # "held" /\ draft[a][i] # 0)
<1>1. \A b \in Agent, i \in Id :
        draft'[b][i] = IF b = a THEN Unwritten ELSE draft[b][i]
  BY NothingEffect DEF Parts, WriteRecords
<1>2. QED
  BY <1>1 DEF WriteRecords, Due, Held, Parts, RestOK

\* One entry of the records that are left to write.
LEMMA DraftEffect ==
    ASSUME DraftOK, NEW a \in Agent, NEW i \in Id, NEW n \in Nat,
           draft' = [draft EXCEPT ![a][i] = n]
    PROVE  \A b \in Agent, j \in Id :
             draft'[b][j] = IF b = a /\ j = i THEN n ELSE draft[b][j]
BY DEF DraftOK

\* The time left on one row.
LEMMA LeftEffect ==
    ASSUME RowsOK, NEW i \in Id, NEW n \in Nat, rows' = [rows EXCEPT ![i].left = n]
    PROVE  \A j \in Id : /\ rows'[j].agent = rows[j].agent
                         /\ rows'[j].status = rows[j].status
                         /\ rows'[j].left = IF j = i THEN n ELSE rows[j].left
BY DEF RowsOK, Row

\* An own row that expired is among the revived, and no longer one that is not.
LEMMA ExtendEffect ==
    ASSUME Parts, NEW a \in Agent, NEW p \in Path, Extend(a, p)
    PROVE  \E i \in Id, n \in Nat :
             /\ rows[i].agent = a /\ i \in seen[a]
             /\ rows[i].left <= n
             /\ \A j \in Id : /\ rows'[j].agent = rows[j].agent
                              /\ rows'[j].status = rows[j].status
                              /\ rows'[j].left = IF j = i THEN n ELSE rows[j].left
             /\ \A b \in Agent, j \in Id :
                  draft'[b][j] = IF b = a /\ j = i
                                 THEN IF rows[i].status = "held" THEN n ELSE 0
                                 ELSE draft[b][j]
             /\ \A j \in Id : j \in revived' <=>
                  \/ j \in revived
                  \/ j = i /\ rows[i].status = "held" /\ rows[i].left = 0
<1>1. PICK i \in Reusable(a, p) :
        LET left == IF rows[i].left < call[a].ttl THEN call[a].ttl
                    ELSE rows[i].left
        IN  /\ rows' = [rows EXCEPT ![i].left = left]
            /\ draft' = [draft EXCEPT ![a][i] = IF i \in Held THEN left ELSE 0]
            /\ revived' = revived \cup (Expired \cap {i})
  BY DEF Extend
<1> DEFINE left == IF rows[i].left < call[a].ttl THEN call[a].ttl
                   ELSE rows[i].left
<1>2. i \in Id /\ rows[i].agent = a /\ i \in seen[a]
  BY DEF Reusable, Parts, SeenOK
<1>3. left \in Nat /\ rows[i].left <= left
  <2>1. rows[i].left \in 0..MaxLeft /\ call[a].ttl \in 1..MaxLeft
    BY <1>2 DEF Parts, RowsOK, Row, CallOK, Call
  <2>2. QED
    BY <2>1, LimitAssumption
<1>4. /\ rows' = [rows EXCEPT ![i].left = left]
      /\ draft' = [draft EXCEPT ![a][i] = IF i \in Held THEN left ELSE 0]
      /\ revived' = revived \cup (Expired \cap {i})
  BY <1>1
<1> HIDE DEF left
<1>5. \A j \in Id : /\ rows'[j].agent = rows[j].agent
                    /\ rows'[j].status = rows[j].status
                    /\ rows'[j].left = IF j = i THEN left ELSE rows[j].left
  BY <1>2, <1>3, <1>4, LeftEffect DEF Parts
<1>6. \A b \in Agent, j \in Id :
        draft'[b][j] = IF b = a /\ j = i
                       THEN IF rows[i].status = "held" THEN left ELSE 0
                       ELSE draft[b][j]
  <2>1. CASE i \in Held
    <3>1. draft' = [draft EXCEPT ![a][i] = left]
      BY <1>4, <2>1
    <3>2. \A b \in Agent, j \in Id :
            draft'[b][j] = IF b = a /\ j = i THEN left ELSE draft[b][j]
      BY <1>2, <1>3, <3>1, DraftEffect DEF Parts
    <3>3. QED
      BY <1>2, <2>1, <3>2 DEF Held
  <2>2. CASE i \notin Held
    <3>1. draft' = [draft EXCEPT ![a][i] = 0]
      BY <1>4, <2>2
    <3>2. draft' = [draft EXCEPT ![a] = [draft[a] EXCEPT ![i] = 0]]
      BY <1>2, <3>1 DEF Parts, DraftOK
    <3>3. QED
      BY <1>2, <2>2, <3>2 DEF Parts, DraftOK, Held
  <2>3. QED
    BY <2>1, <2>2
<1>7. \A j \in Id : j \in revived' <=>
        j \in revived \/ (j = i /\ rows[i].status = "held" /\ rows[i].left = 0)
  BY <1>2, <1>4 DEF Held, Expired
<1>8. QED
  BY <1>2, <1>3, <1>5, <1>6, <1>7

\* A free row becomes the row of the caller, who is to write its record.
LEMMA CreateEffect ==
    ASSUME Parts, NEW a \in Agent, NEW p \in Path, Create(a, p)
    PROVE  \E i \in Id, n \in Nat :
             /\ n > 0
             /\ rows[i].status = "free"
             /\ rows'[i].agent = a /\ rows'[i].left = n /\ rows'[i].status = "held"
             /\ \A j \in Id \ {i} : rows'[j] = rows[j]
             /\ \A b \in Agent, j \in Id :
                  draft'[b][j] = IF b = a /\ j = i THEN n ELSE draft[b][j]
             /\ \A b \in Agent : seen'[b] = IF b = a THEN seen[a] \cup {i}
                                            ELSE seen[b]
<1>1. NextId \in Free /\ NextId \in Id
  BY NextIdLeast, RowSets DEF Create
<1>2. call[a].ttl \in Nat /\ call[a].ttl > 0
  BY LimitAssumption DEF Parts, CallOK, Call
<1>3. \A b \in Agent, j \in Id :
        draft'[b][j] = IF b = a /\ j = NextId THEN call[a].ttl ELSE draft[b][j]
  <2>1. draft' = [draft EXCEPT ![a][NextId] = call[a].ttl]
    BY DEF Create
  <2>2. QED
    BY <1>1, <1>2, <2>1, DraftEffect DEF Parts
<1>4. \A b \in Agent : seen'[b] = IF b = a THEN seen[a] \cup {NextId} ELSE seen[b]
  BY ReadEffect DEF Parts, Create
<1>5. /\ rows'[NextId].agent = a /\ rows'[NextId].left = call[a].ttl
      /\ rows'[NextId].status = "held"
      /\ \A j \in Id \ {NextId} : rows'[j] = rows[j]
  BY <1>1 DEF Parts, RowsOK, Create
<1>6. rows[NextId].status = "free"
  BY <1>1 DEF Free
<1>7. QED
  BY <1>1, <1>2, <1>3, <1>4, <1>5, <1>6

\* A renewal extends own rows by some time.
Renewed(a, S, bump) ==
    /\ \A i \in S : rows[i].agent = a /\ rows[i].status = "held"
    /\ \A j \in Id : /\ rows'[j].agent = rows[j].agent
                     /\ rows'[j].status = rows[j].status
                     /\ rows'[j].left = IF j \in S THEN rows[j].left + bump
                                        ELSE rows[j].left
    /\ \A b \in Agent, j \in Id :
         draft'[b][j] = IF b = a /\ j \in S THEN rows[j].left + bump
                        ELSE draft[b][j]
    /\ \A j \in Id : j \in revived' <=>
         j \in revived \/ (j \in S /\ rows[j].left = 0)

\* What a renewal changes, of some set of rows.
LEMMA RenewEffect ==
    ASSUME Parts, NEW a \in Agent, NEW bump \in 1..MaxLeft, Renew(a, bump)
    PROVE  \E S \in SUBSET Id : Renewed(a, S, bump)
<1>1. PICK S \in SUBSET OwnedBy(a) :
        /\ rows' = [i \in Id |-> IF i \in S
                                 THEN [rows[i] EXCEPT !.left = @ + bump]
                                 ELSE rows[i]]
        /\ draft' = [draft EXCEPT ![a] =
                       [i \in Id |-> IF i \in S THEN rows[i].left + bump
                                     ELSE draft[a][i]]]
        /\ revived' = revived \cup (S \cap Expired)
  BY DEF Renew
<1>2. \A i \in S : i \in Id /\ rows[i].agent = a /\ rows[i].status = "held"
  BY DEF OwnedBy, Held
<1>3. \A j \in Id : /\ rows'[j].agent = rows[j].agent
                    /\ rows'[j].status = rows[j].status
                    /\ rows'[j].left = IF j \in S THEN rows[j].left + bump
                                       ELSE rows[j].left
  BY <1>1 DEF Parts, RowsOK, Row
<1>4. \A b \in Agent, j \in Id :
        draft'[b][j] = IF b = a /\ j \in S THEN rows[j].left + bump
                       ELSE draft[b][j]
  BY <1>1 DEF Parts, DraftOK
<1>5. \A j \in Id : j \in revived' <=> j \in revived \/ (j \in S /\ rows[j].left = 0)
  BY <1>1, <1>2 DEF Expired, Held
<1>6. QED
  BY <1>2, <1>3, <1>4, <1>5 DEF Renewed

\* Time passes on rows, on their records and on what is to be written.
LEMMA TimeEffect ==
    ASSUME Parts, TimePasses
    PROVE  /\ \A i \in Id : /\ rows'[i].agent = rows[i].agent
                            /\ rows'[i].status = rows[i].status
                            /\ rows'[i].left = Older(rows[i].left)
                            /\ records'[i] = Older(records[i])
           /\ \A b \in Agent, i \in Id : draft'[b][i] = Older(draft[b][i])
<1>1. \A i \in Id : /\ rows'[i].agent = rows[i].agent
                    /\ rows'[i].status = rows[i].status
                    /\ rows'[i].left = Older(rows[i].left)
  BY DEF Parts, RowsOK, Row, TimePasses
<1>2. \A i \in Id : records'[i] = Older(records[i])
  BY DEF TimePasses
<1>3. \A b \in Agent, i \in Id : draft'[b][i] = Older(draft[b][i])
  BY DEF TimePasses
<1>4. QED
  BY <1>1, <1>2, <1>3

-----------------------------------------------------------------------------
(* RecInv: steps of one kind together. *)

\* Steps that write nothing: a call begins, reads, waits or is denied, an
\* agent's activity comes or fades.
LEMMA QuietRecords ==
    ASSUME Parts, RecInv, NEW a \in Agent,
           UNCHANGED <<rows, records, draft, unsure, revived, forced>>,
           \A b \in Agent \ {a} : stage'[b] = stage[b] /\ seen'[b] = seen[b],
           \/ stage'[a] = stage[a] /\ seen'[a] = seen[a]
           \/ /\ stage[a] \notin {"grant", "record"}
              /\ stage'[a] \notin {"idle", "lock"}
              /\ stage'[a] = "expire" => seen'[a] \subseteq Expired,
           \A i \in Id : i \in seen'[a] => rows[i].status # "free",
           \/ inactive' \subseteq inactive
           \/ stage[a] = "idle" /\ inactive' = inactive \cup {a}
    PROVE  RecInv'
<1>1. NothingDue'
  BY DEF RecInv, NothingDue
<1>2. OwnLeases'
  BY DEF RecInv, OwnLeases
<1>3. Overtaken'
  BY DEF RecInv, Overtaken
<1>4. DraftAgrees'
  BY DEF RecInv, DraftAgrees
<1>5. FreeUntouched'
  BY DEF RecInv, FreeUntouched
<1>6. SeenExpired'
  BY DEF RecInv, SeenExpired, Expired
<1>7. HeldRecorded'
  BY DEF RecInv, HeldRecorded
<1>8. ReleasedRecorded'
  BY DEF RecInv, ReleasedRecorded
<1>9. QED
  BY <1>1, <1>2, <1>3, <1>4, <1>5, <1>6, <1>7, <1>8 DEF RecInv

\* Steps that release rows: what is released had expired, was the caller's own,
\* an inactive agent's, or is released by force.
LEMMA EndRecords ==
    ASSUME Parts, RecInv, NEW a \in Agent, NEW S, NEW T,
           S \subseteq T,
           rows' = Released(S), draft' = Ended(a, T),
           UNCHANGED <<records, unsure, revived>>,
           forced \subseteq forced', inactive' \subseteq inactive,
           stage[a] \notin {"grant", "record"},
           stage'[a] \notin {"idle", "lock", "grant", "expire"},
           \A b \in Agent \ {a} : stage'[b] = stage[b] /\ seen'[b] = seen[b],
           seen'[a] \subseteq seen[a],
           \A i \in T : i \in Id /\ rows[i].status # "free",
           \A i \in T \ S : rows[i].status = "held" => i \in revived,
           \A i \in S : \/ rows[i].left = 0
                        \/ rows[i].agent = a /\ stage[a] = "idle"
                        \/ rows[i].agent \in inactive
                        \/ i \in forced'
    PROVE  RecInv'
<1>1. \A i \in Id : /\ rows'[i].agent = rows[i].agent
                    /\ rows'[i].left = rows[i].left
                    /\ rows'[i].status = IF i \in S THEN "released"
                                         ELSE rows[i].status
  BY ReleasedEffect DEF Parts
<1>2. \A b \in Agent, i \in Id :
        draft'[b][i] = IF b = a /\ i \in T THEN 0 ELSE draft[b][i]
  BY EndedEffect DEF Parts
<1>3. NothingDue'
  BY <1>2 DEF RecInv, NothingDue
<1>4. OwnLeases'
  BY <1>1, <1>2 DEF RecInv, OwnLeases
<1>5. Overtaken'
  BY <1>1, <1>2, Numbers DEF RecInv, OwnLeases, Overtaken, Unwritten
<1>6. DraftAgrees'
  BY <1>1, <1>2 DEF RecInv, DraftAgrees
<1>7. FreeUntouched'
  BY <1>1, <1>2 DEF RecInv, FreeUntouched
<1>8. SeenExpired'
  BY <1>1 DEF RecInv, SeenExpired
<1>9. HeldRecorded'
  BY <1>1, <1>2 DEF RecInv, FreeUntouched, HeldRecorded
<1>10. ReleasedRecorded'
  BY <1>1, <1>2 DEF RecInv, ReleasedRecorded
<1>11. QED
  BY <1>3, <1>4, <1>5, <1>6, <1>7, <1>8, <1>9, <1>10 DEF RecInv

\* A call writes what it has to write.
LEMMA WriteRecordsRecords ==
    ASSUME Parts, LockHeld, RecInv, NEW a \in Agent, WriteRecords(a),
           UNCHANGED <<rows, revived, forced>>,
           inactive' \subseteq inactive,
           stage[a] = "grant" \/ (\A b \in Agent : stage[b] # "grant") \/ Due(a) = {},
           stage[a] \in {"grant", "record", "forced"},
           stage'[a] \in {"idle", "lock"},
           \A b \in Agent \ {a} : stage'[b] = stage[b] /\ seen'[b] = seen[b],
           seen'[a] \subseteq seen[a]
    PROVE  RecInv'
<1>1. /\ \A b \in Agent, i \in Id :
           draft'[b][i] = IF b = a THEN Unwritten ELSE draft[b][i]
      /\ \A i \in Id : records'[i] = IF draft[a][i] # Unwritten THEN draft[a][i]
                                     ELSE records[i]
      /\ \A i \in Id : i \in unsure' <=>
           /\ i \in unsure
           /\ draft[a][i] = Unwritten
              \/ (rows[i].status # "held" /\ draft[a][i] # 0)
  BY WriteEffect
<1>2. \/ \A b \in Agent : b # a => stage[b] # "grant"
      \/ \A i \in Id : draft[a][i] = Unwritten
  BY PathAssumption DEF LockHeld, Due
<1>3. NothingDue'
  BY <1>1 DEF RecInv, NothingDue
<1>4. OwnLeases'
  BY <1>1 DEF RecInv, OwnLeases, Unwritten
<1>5. Overtaken'
  BY <1>1 DEF RecInv, Overtaken, Unwritten
<1>6. DraftAgrees'
  BY <1>1 DEF RecInv, DraftAgrees
<1>7. FreeUntouched'
  BY <1>1 DEF RecInv, FreeUntouched
<1>8. SeenExpired'
  BY DEF RecInv, SeenExpired
<1>9. HeldRecorded'
  BY <1>1 DEF RecInv, DraftAgrees, FreeUntouched, HeldRecorded
<1>10. ReleasedRecorded'
  BY <1>1, <1>2, Numbers DEF RecInv, Overtaken, ReleasedRecorded
<1>11. QED
  BY <1>3, <1>4, <1>5, <1>6, <1>7, <1>8, <1>9, <1>10 DEF RecInv

\* A call that fails has doubts about what it did not write.
LEMMA FailRecords ==
    ASSUME Parts, RecInv, NEW a \in Agent, Fail(a)
    PROVE  RecInv'
<1>1. \A b \in Agent, i \in Id :
        draft'[b][i] = IF b = a THEN Unwritten ELSE draft[b][i]
  BY NothingEffect DEF Parts, Fail
<1>2. \A b \in Agent : /\ stage'[b] = IF b = a THEN "idle" ELSE stage[b]
                       /\ seen'[b] = IF b = a THEN {} ELSE seen[b]
  BY AtEffect, ReadEffect DEF Parts, Fail
<1>3. /\ UNCHANGED <<rows, records, inactive, revived, forced>>
      /\ \A i \in Id : i \in unsure' <=> i \in unsure \/ draft[a][i] # Unwritten
  BY DEF Fail, Due
<1>4. NothingDue'
  BY <1>1, <1>2 DEF RecInv, NothingDue
<1>5. OwnLeases'
  BY <1>1, <1>2, <1>3 DEF RecInv, OwnLeases, Unwritten
<1>6. Overtaken'
  BY <1>1, <1>2, <1>3 DEF RecInv, Overtaken, Unwritten
<1>7. DraftAgrees'
  BY <1>1, <1>3 DEF RecInv, DraftAgrees
<1>8. FreeUntouched'
  BY <1>1, <1>2, <1>3 DEF RecInv, FreeUntouched
<1>9. SeenExpired'
  BY <1>2, <1>3 DEF RecInv, SeenExpired
<1>10. HeldRecorded'
  BY <1>1, <1>3 DEF RecInv, FreeUntouched, HeldRecorded
<1>11. ReleasedRecorded'
  BY <1>1, <1>3 DEF RecInv, ReleasedRecorded
<1>12. QED
  BY <1>4, <1>5, <1>6, <1>7, <1>8, <1>9, <1>10, <1>11 DEF RecInv

\* An own row is extended, under the lock
LEMMA ExtendRecords ==
    ASSUME Parts, RecInv, NEW a \in Agent, NEW p \in Path, Extend(a, p)
    PROVE  RecInv'
<1>1. PICK i \in Id, n \in Nat :
        /\ rows[i].agent = a /\ i \in seen[a]
        /\ rows[i].left <= n
        /\ \A j \in Id : /\ rows'[j].agent = rows[j].agent
                         /\ rows'[j].status = rows[j].status
                         /\ rows'[j].left = IF j = i THEN n ELSE rows[j].left
        /\ \A b \in Agent, j \in Id :
             draft'[b][j] = IF b = a /\ j = i
                            THEN IF rows[i].status = "held" THEN n ELSE 0
                            ELSE draft[b][j]
        /\ \A j \in Id : j \in revived' <=>
             j \in revived \/ (j = i /\ rows[i].status = "held" /\ rows[i].left = 0)
  BY ExtendEffect
<1>2. UNCHANGED <<stage, seen, records, unsure, forced, inactive>> /\ stage[a] = "grant"
  BY DEF Extend
<1>3. NothingDue'
  BY <1>1, <1>2 DEF RecInv, NothingDue
<1>4. OwnLeases'
  BY <1>1, <1>2 DEF RecInv, OwnLeases
<1>5. Overtaken'
  BY <1>1, <1>2 DEF RecInv, Overtaken
<1>6. DraftAgrees'
  BY <1>1, Numbers DEF RecInv, OwnLeases, DraftAgrees
<1>7. FreeUntouched'
  BY <1>1, <1>2 DEF RecInv, FreeUntouched
<1>8. SeenExpired'
  BY <1>1, <1>2 DEF RecInv, SeenExpired
<1>9. HeldRecorded'
  BY <1>1, <1>2 DEF RecInv, FreeUntouched, HeldRecorded, Unwritten
<1>10. ReleasedRecorded'
  BY <1>1, <1>2 DEF RecInv, ReleasedRecorded
<1>11. QED
  BY <1>3, <1>4, <1>5, <1>6, <1>7, <1>8, <1>9, <1>10 DEF RecInv

\* or made, under the lock,
LEMMA CreateRecords ==
    ASSUME Parts, RecInv, NEW a \in Agent, NEW p \in Path, Create(a, p)
    PROVE  RecInv'
<1>1. PICK i \in Id, n \in Nat :
        /\ n > 0
        /\ rows[i].status = "free"
        /\ rows'[i].agent = a /\ rows'[i].left = n /\ rows'[i].status = "held"
        /\ \A j \in Id \ {i} : rows'[j] = rows[j]
        /\ \A b \in Agent, j \in Id :
             draft'[b][j] = IF b = a /\ j = i THEN n ELSE draft[b][j]
        /\ \A b \in Agent : seen'[b] = IF b = a THEN seen[a] \cup {i} ELSE seen[b]
  BY CreateEffect
<1>2. /\ UNCHANGED <<stage, records, unsure, revived, forced, inactive>>
      /\ stage[a] = "grant"
  BY DEF Create
<1>3. NothingDue'
  BY <1>1, <1>2 DEF RecInv, NothingDue
<1>4. OwnLeases'
  BY <1>1, <1>2 DEF RecInv, OwnLeases, FreeUntouched
<1>5. Overtaken'
  BY <1>1, <1>2 DEF RecInv, Overtaken
<1>6. DraftAgrees'
  BY <1>1, <1>2 DEF RecInv, DraftAgrees, FreeUntouched
<1>7. FreeUntouched'
  BY <1>1 DEF RecInv, FreeUntouched
<1>8. SeenExpired'
  BY <1>1, <1>2 DEF RecInv, FreeUntouched, SeenExpired
<1>9. HeldRecorded'
  BY <1>1, <1>2 DEF RecInv, FreeUntouched, HeldRecorded, Unwritten
<1>10. ReleasedRecorded'
  BY <1>1, <1>2 DEF RecInv, ReleasedRecorded
<1>11. QED
  BY <1>3, <1>4, <1>5, <1>6, <1>7, <1>8, <1>9, <1>10 DEF RecInv

\* or renewed without it.
LEMMA RenewRecords ==
    ASSUME Parts, RecInv, NEW a \in Agent, NEW bump \in 1..MaxLeft, Renew(a, bump)
    PROVE  RecInv'
<1>1. PICK S \in SUBSET Id : Renewed(a, S, bump)
  BY RenewEffect
<1>2. /\ stage[a] = "idle"
      /\ UNCHANGED <<seen, records, unsure, forced>>
      /\ inactive' = inactive \ {a}
  BY DEF Renew
<1>3. \A b \in Agent : stage'[b] = IF b = a THEN "record" ELSE stage[b]
  <2>1. At(a, "record")
    BY DEF Renew
  <2>2. QED
    BY <2>1, AtEffect DEF Parts
<1>4. bump \in Nat /\ bump > 0
  BY LimitAssumption
<1>5. NothingDue'
  BY <1>1, <1>3 DEF RecInv, NothingDue, Renewed
<1>6. OwnLeases'
  BY <1>1, <1>2, <1>3, Numbers DEF RecInv, OwnLeases, Renewed
<1>7. Overtaken'
  BY <1>1, <1>2, <1>3 DEF RecInv, Overtaken, Renewed
<1>8. DraftAgrees'
  BY <1>1, Numbers DEF RecInv, OwnLeases, DraftAgrees, Renewed
<1>9. FreeUntouched'
  BY <1>1, <1>2 DEF RecInv, FreeUntouched, Renewed
<1>10. SeenExpired'
  BY <1>1, <1>2, <1>3 DEF RecInv, SeenExpired, Renewed
<1>11. HeldRecorded'
  BY <1>1, <1>2, Numbers DEF RecInv, FreeUntouched, HeldRecorded, Unwritten,
     Renewed
<1>12. ReleasedRecorded'
  BY <1>1, <1>2 DEF RecInv, ReleasedRecorded, Renewed
<1>13. QED
  BY <1>5, <1>6, <1>7, <1>8, <1>9, <1>10, <1>11, <1>12 DEF RecInv

\* Rows, records and drafts count down together.
LEMMA TimeRecords ==
    ASSUME Parts, RecInv, TimePasses
    PROVE  RecInv'
<1>1. \A i \in Id : /\ rows'[i].agent = rows[i].agent
                    /\ rows'[i].status = rows[i].status
                    /\ rows'[i].left = Older(rows[i].left)
                    /\ records'[i] = Older(records[i])
  BY TimeEffect
<1>2. \A b \in Agent, i \in Id : draft'[b][i] = Older(draft[b][i])
  BY TimeEffect
<1>3. UNCHANGED <<inactive, stage, seen, unsure, revived, forced>>
  BY DEF TimePasses
<1>4. NothingDue'
  BY <1>2, <1>3 DEF RecInv, NothingDue, Older, Unwritten
<1>5. OwnLeases'
  BY <1>1, <1>2, <1>3, Numbers DEF RecInv, OwnLeases, Older, Unwritten
<1>6. Overtaken'
  BY <1>1, <1>2, <1>3 DEF RecInv, Overtaken, Older
<1>7. DraftAgrees'
  BY <1>1, <1>2, <1>3 DEF RecInv, DraftAgrees, Older, Unwritten
<1>8. FreeUntouched'
  BY <1>1, <1>2, <1>3 DEF RecInv, FreeUntouched, Older, Unwritten
<1>9. SeenExpired'
  BY <1>1, <1>3 DEF RecInv, SeenExpired, Older
<1>10. HeldRecorded'
  BY <1>1, <1>2, <1>3, Numbers DEF RecInv, FreeUntouched, HeldRecorded,
     Older, Unwritten
<1>11. ReleasedRecorded'
  BY <1>1, <1>2, <1>3 DEF RecInv, ReleasedRecorded, Older, Unwritten
<1>12. QED
  BY <1>4, <1>5, <1>6, <1>7, <1>8, <1>9, <1>10, <1>11 DEF RecInv

-----------------------------------------------------------------------------
(* RecInv: every step. *)

\* The stage and what was read, of the caller and of the others.
LEMMA MovesOn ==
    ASSUME Parts, NEW a \in Agent, NEW s, NEW S, At(a, s), Read(a, S)
    PROVE  /\ stage'[a] = s /\ seen'[a] = S
           /\ \A b \in Agent \ {a} : stage'[b] = stage[b] /\ seen'[b] = seen[b]
BY AtEffect, ReadEffect DEF Parts

\* Only the stage of the caller moves.
LEMMA StageMoves ==
    ASSUME Parts, NEW a \in Agent, NEW s, At(a, s), seen' = seen
    PROVE  /\ stage'[a] = s /\ seen'[a] = seen[a]
           /\ \A b \in Agent \ {a} : stage'[b] = stage[b] /\ seen'[b] = seen[b]
BY AtEffect DEF Parts

\* The calls that read.
LEMMA ReadersRecords ==
    ASSUME Parts, RecInv, NEW a \in Agent,
           \/ SelectExpired(a) \/ Collect(a) \/ LockAndRead(a)
           \/ \E i \in Id : ForceCheck(a, i)
    PROVE  RecInv'
<1>1. CASE SelectExpired(a)
  <2>1. /\ stage'[a] \in {"collect", "expire"} /\ seen'[a] = Expired
        /\ \A b \in Agent \ {a} : stage'[b] = stage[b] /\ seen'[b] = seen[b]
    BY <1>1, MovesOn DEF SelectExpired
  <2>2. QED
    BY <1>1, <2>1, QuietRecords DEF SelectExpired, Expired, Held
<1>2. CASE Collect(a)
  <2>1. PICK S \in SUBSET Held :
          Read(a, S) /\ At(a, IF S = {} THEN "record" ELSE "stale")
    BY <1>2 DEF Collect
  <2>2. /\ stage'[a] \in {"record", "stale"} /\ seen'[a] = S
        /\ \A b \in Agent \ {a} : stage'[b] = stage[b] /\ seen'[b] = seen[b]
    BY <2>1, MovesOn
  <2>3. QED
    BY <1>2, <2>2, QuietRecords DEF Collect, Held
<1>3. CASE LockAndRead(a)
  <2>1. /\ stage'[a] = "grant" /\ seen'[a] = Active
        /\ \A b \in Agent \ {a} : stage'[b] = stage[b] /\ seen'[b] = seen[b]
    BY <1>3, MovesOn DEF LockAndRead
  <2>2. QED
    BY <1>3, <2>1, QuietRecords DEF LockAndRead, Active, Held
<1>4. ASSUME NEW i \in Id, ForceCheck(a, i)  PROVE RecInv'
  <2>1. /\ stage'[a] = "force" /\ seen'[a] = {i}
        /\ \A b \in Agent \ {a} : stage'[b] = stage[b] /\ seen'[b] = seen[b]
    BY <1>4, MovesOn DEF ForceCheck
  <2>2. QED
    BY <1>4, <2>1, QuietRecords DEF ForceCheck, Held
<1>5. QED
  BY <1>1, <1>2, <1>3, <1>4

\* Calls that begin, a path that is denied, and activity.
LEMMA OthersRecords ==
    ASSUME Parts, RecInv, NEW a \in Agent,
           \/ \E paths \in SUBSET Path, exclusive \in BOOLEAN,
                 ttl \in 1..MaxLeft : Reserve(a, paths, exclusive, ttl)
           \/ View(a) \/ MailActivity(a) \/ GoInactive(a)
           \/ \E p \in Path : Deny(a, p)
    PROVE  RecInv'
<1>1. \A i \in Id : i \in seen[a] => rows[i].status # "free"
  BY DEF RecInv, FreeUntouched
<1>2. CASE View(a) \/ \E paths \in SUBSET Path, exclusive \in BOOLEAN,
                        ttl \in 1..MaxLeft : Reserve(a, paths, exclusive, ttl)
  <2>1. /\ stage[a] = "idle" /\ At(a, "select") /\ seen' = seen
        /\ UNCHANGED <<rows, records, draft, unsure, revived, forced>>
        /\ inactive' \subseteq inactive
    BY <1>2 DEF View, Reserve
  <2>2. /\ stage'[a] = "select" /\ seen'[a] = seen[a]
        /\ \A b \in Agent \ {a} : stage'[b] = stage[b] /\ seen'[b] = seen[b]
    BY <2>1, StageMoves
  <2>3. QED
    BY <1>1, <2>1, <2>2, QuietRecords
<1>3. CASE MailActivity(a) \/ GoInactive(a) \/ \E p \in Path : Deny(a, p)
  <2>1. /\ UNCHANGED <<rows, records, draft, unsure, revived, forced, stage, seen>>
        /\ \/ inactive' \subseteq inactive
           \/ stage[a] = "idle" /\ inactive' = inactive \cup {a}
    BY <1>3 DEF MailActivity, GoInactive, Deny
  <2>2. QED
    BY <1>1, <2>1, QuietRecords
<1>4. QED
  BY <1>2, <1>3

\* The calls that release.
LEMMA EndersRecords ==
    ASSUME Parts, RecInv, NEW a \in Agent,
           UpdateExpired(a) \/ ReleaseStale(a) \/ Release(a) \/ ForceUpdate(a)
    PROVE  RecInv'
<1>1. seen[a] \subseteq Id /\ \A i \in seen[a] : rows[i].status # "free"
  BY DEF Parts, SeenOK, RecInv, FreeUntouched
<1>2. CASE UpdateExpired(a)
  <2>1. /\ stage'[a] = "collect" /\ seen'[a] = {}
        /\ \A b \in Agent \ {a} : stage'[b] = stage[b] /\ seen'[b] = seen[b]
    BY <1>2, MovesOn DEF UpdateExpired
  <2>2. \A i \in seen[a] \ (seen[a] \cap Expired) :
          rows[i].status = "held" => i \in revived
    BY <1>1, <1>2 DEF UpdateExpired, RecInv, SeenExpired, Expired, Held
  <2>3. \A i \in seen[a] \cap Expired : rows[i].left = 0
    BY DEF Expired
  <2>4. QED
    BY <1>1, <1>2, <2>1, <2>2, <2>3, EndRecords DEF UpdateExpired
<1>3. CASE ReleaseStale(a)
  <2> DEFINE gone == {i \in seen[a] \cap Held : StillInactive(i)}
             ended == seen[a] \ (Held \ gone)
  <2>1. /\ stage'[a] = "record" /\ seen'[a] = {}
        /\ \A b \in Agent \ {a} : stage'[b] = stage[b] /\ seen'[b] = seen[b]
    BY <1>3, MovesOn DEF ReleaseStale
  <2>2. rows' = Released(gone) /\ draft' = Ended(a, ended)
    BY <1>3 DEF ReleaseStale
  <2>3. gone \subseteq ended /\ ended \subseteq seen[a]
    OBVIOUS
  <2>4. \A i \in gone : rows[i].agent \in inactive
    BY DEF StillInactive
  <2>5. \A i \in ended \ gone : rows[i].status # "held"
    BY <1>1 DEF Held
  <2>6. /\ UNCHANGED <<records, unsure, revived, forced, inactive>>
        /\ stage[a] = "stale"
    BY <1>3 DEF ReleaseStale
  <2> HIDE DEF gone, ended
  <2>7. QED
    BY <1>1, <2>1, <2>2, <2>3, <2>4, <2>5, <2>6, EndRecords
<1>4. CASE Release(a)
  <2>1. PICK S \in SUBSET OwnedBy(a) : rows' = Released(S) /\ draft' = Ended(a, S)
    BY <1>4 DEF Release
  <2>2. /\ stage'[a] = "record" /\ seen'[a] = seen[a]
        /\ \A b \in Agent \ {a} : stage'[b] = stage[b] /\ seen'[b] = seen[b]
    BY <1>4, StageMoves DEF Release
  <2>3. \A i \in S : i \in Id /\ rows[i].agent = a /\ rows[i].status # "free"
    BY DEF OwnedBy, Held
  <2>4. QED
    BY <1>4, <2>1, <2>2, <2>3, EndRecords DEF Release
<1>5. CASE ForceUpdate(a)
  <2>1. /\ stage'[a] = "forced" /\ seen'[a] = {}
        /\ \A b \in Agent \ {a} : stage'[b] = stage[b] /\ seen'[b] = seen[b]
    BY <1>5, MovesOn DEF ForceUpdate
  <2>2. \A i \in seen[a] \ (seen[a] \cap Held) : rows[i].status # "held"
    BY <1>1 DEF Held
  <2>3. QED
    BY <1>1, <1>5, <2>1, <2>2, EndRecords DEF ForceUpdate
<1>6. QED
  BY <1>2, <1>3, <1>4, <1>5

\* The calls that write records.
LEMMA WritersRecords ==
    ASSUME Parts, LockHeld, RecInv, NEW a \in Agent,
           Record(a) \/ WriteGrants(a) \/ RecordForced(a)
    PROVE  RecInv'
<1>1. lock = NoAgent => \A b \in Agent : stage[b] # "grant"
  BY PathAssumption DEF LockHeld
<1>2. CASE Record(a)
  <2>1. /\ stage'[a] \in {"idle", "lock"} /\ seen'[a] = seen[a]
        /\ \A b \in Agent \ {a} : stage'[b] = stage[b] /\ seen'[b] = seen[b]
    BY <1>2, StageMoves DEF Record
  <2>2. QED
    BY <1>1, <1>2, <2>1, WriteRecordsRecords DEF Record
<1>3. CASE WriteGrants(a)
  <2>1. /\ stage'[a] = "idle" /\ seen'[a] = {}
        /\ \A b \in Agent \ {a} : stage'[b] = stage[b] /\ seen'[b] = seen[b]
    BY <1>3, MovesOn DEF WriteGrants
  <2>2. QED
    BY <1>3, <2>1, WriteRecordsRecords DEF WriteGrants
<1>4. CASE RecordForced(a)
  <2>1. /\ stage'[a] = "idle" /\ seen'[a] = seen[a]
        /\ \A b \in Agent \ {a} : stage'[b] = stage[b] /\ seen'[b] = seen[b]
    BY <1>4, StageMoves DEF RecordForced
  <2>2. inactive' \subseteq inactive
    BY <1>4 DEF RecordForced
  <2>3. QED
    BY <1>1, <1>4, <2>1, <2>2, WriteRecordsRecords DEF RecordForced
<1>5. QED
  BY <1>2, <1>3, <1>4

\* At the start there is no row and no record.
LEMMA RecInvStart == Init => RecInv
<1> SUFFICES ASSUME Init  PROVE RecInv
  OBVIOUS
<1>1. \A i \in Id : rows[i].status = "free"
  BY DEF Init, NoRow
<1>2. \A b \in Agent, i \in Id :
        /\ draft[b][i] = Unwritten /\ i \notin seen[b]
        /\ stage[b] = "idle"
  BY DEF Init, Nothing
<1>3. QED
  BY <1>1, <1>2 DEF RecInv, NothingDue, OwnLeases, Overtaken, DraftAgrees,
     FreeUntouched, SeenExpired, HeldRecorded, ReleasedRecorded, Unwritten

\* Every step keeps rows, drafts and records in agreement.
LEMMA RecInvStep == Safe /\ RecInv /\ [Next]_vars => RecInv'
<1> SUFFICES ASSUME Parts, LockHeld, RecInv, [Next]_vars  PROVE RecInv'
  BY DEF Safe
<1>1. ASSUME NEW a \in Agent,
             \/ SelectExpired(a) \/ Collect(a) \/ LockAndRead(a)
             \/ \E i \in Id : ForceCheck(a, i)
      PROVE  RecInv'
  BY <1>1, ReadersRecords
<1>2. ASSUME NEW a \in Agent,
             \/ \E paths \in SUBSET Path, exclusive \in BOOLEAN,
                   ttl \in 1..MaxLeft : Reserve(a, paths, exclusive, ttl)
             \/ View(a) \/ MailActivity(a) \/ GoInactive(a)
             \/ \E p \in Path : Deny(a, p)
      PROVE  RecInv'
  BY <1>2, OthersRecords
<1>3. ASSUME NEW a \in Agent,
             UpdateExpired(a) \/ ReleaseStale(a) \/ Release(a) \/ ForceUpdate(a)
      PROVE  RecInv'
  BY <1>3, EndersRecords
<1>4. ASSUME NEW a \in Agent, Record(a) \/ WriteGrants(a) \/ RecordForced(a)
      PROVE  RecInv'
  BY <1>4, WritersRecords
<1>5. ASSUME NEW a \in Agent, NEW p \in Path, Extend(a, p) \/ Create(a, p)
      PROVE  RecInv'
  BY <1>5, ExtendRecords, CreateRecords
<1>6. ASSUME NEW a \in Agent, NEW bump \in 1..MaxLeft, Renew(a, bump)
      PROVE  RecInv'
  BY <1>6, RenewRecords
<1>7. ASSUME NEW a \in Agent, Fail(a)  PROVE RecInv'
  BY <1>7, FailRecords
<1>8. CASE TimePasses
  BY <1>8, TimeRecords
<1>9. CASE UNCHANGED vars
  BY <1>9 DEF vars, RecInv, NothingDue, OwnLeases, Overtaken, DraftAgrees,
     FreeUntouched, SeenExpired, HeldRecorded, ReleasedRecorded
<1>10. QED
  BY <1>1, <1>2, <1>3, <1>4, <1>5, <1>6, <1>7, <1>8, <1>9 DEF Next

\* The inductive invariant of the records, with that of the granting.
LEMMA RecInvariant == Spec => [](Safe /\ RecInv)
BY SafeInvariant, RecInvStart, RecInvStep, PTL DEF Spec

\* While its holder is not in a call, an active row is covered by a record of
\* the archive, unless a call failed before it wrote one or the row had expired:
\* whatever reservations, sweeps and releases of others run meanwhile
\* (_write_file_reservation_records and its callers).
THEOREM RecordsCoverTheorem == Spec => []RecordsCover
<1>1. Safe /\ RecInv => RecordsCover
  <2> SUFFICES ASSUME Parts, RecInv, NEW i \in Active \ (unsure \cup revived),
                      stage[rows[i].agent] = "idle"
               PROVE  records[i] >= rows[i].left
    BY DEF Safe, RecordsCover
  <2>1. i \in Id /\ rows[i].status = "held" /\ rows[i].agent \in Agent
    BY DEF Active, Held, RecInv, FreeUntouched
  <2>2. draft[rows[i].agent][i] = Unwritten
    BY <2>1 DEF RecInv, NothingDue
  <2>3. QED
    BY <2>1, <2>2, Numbers DEF RecInv, HeldRecorded
<1>2. QED
  BY <1>1, RecInvariant, PTL

\* Once nobody is to write a record of it, a released row's record says that it
\* is released, unless a call failed or it was released by force.
THEOREM ReleaseIsRecordedTheorem == Spec => []ReleaseIsRecorded
<1>1. Safe /\ RecInv => ReleaseIsRecorded
  BY DEF Safe, RecInv, ReleasedRecorded, ReleaseIsRecorded, Unwritten
<1>2. QED
  BY <1>1, RecInvariant, PTL

\* Whoever sweeps, reserves or releases: an unexpired reservation of an active
\* agent ends by its holder's own call or by a forced release
\* (_expire_stale_file_reservations re-checks the holder in its update).
THEOREM SweepSparesTheLivingTheorem == Spec => SweepSparesTheLiving
<1> DEFINE Spared ==
      \A i \in Id :
        ReleasedNow(i) /\ rows[i].left > 0 /\ rows[i].agent \notin inactive
        => \/ stage[rows[i].agent] = "idle" /\ stage'[rows[i].agent] = "record"
           \/ i \in forced'
<1>1. ASSUME Parts, NEW S, rows' = Released(S),
             \A i \in Id \cap S : \/ rows[i].left = 0
                                  \/ rows[i].agent \in inactive
                                  \/ i \in forced'
                                  \/ /\ stage[rows[i].agent] = "idle"
                                     /\ stage'[rows[i].agent] = "record"
      PROVE  Spared
  BY <1>1, ReleasedEffect DEF Parts, ReleasedNow
<1>2. ASSUME \A i \in Id : rows'[i].status = "released" => rows[i].status = "released"
      PROVE  Spared
  BY <1>2 DEF ReleasedNow
<1> HIDE DEF Spared
<1>3. ASSUME Parts, Next  PROVE Spared
  <2>1. ASSUME NEW a \in Agent, UpdateExpired(a)  PROVE Spared
    BY <1>1, <1>3, <2>1 DEF UpdateExpired, Expired
  <2>2. ASSUME NEW a \in Agent, ReleaseStale(a)  PROVE Spared
    BY <1>1, <1>3, <2>2 DEF ReleaseStale, StillInactive
  <2>3. ASSUME NEW a \in Agent, Release(a)  PROVE Spared
    <3>1. PICK S \in SUBSET OwnedBy(a) : rows' = Released(S)
      BY <2>3 DEF Release
    <3>2. stage[a] = "idle" /\ stage'[a] = "record"
      BY <1>3, <2>3, StageMoves DEF Release
    <3>3. QED
      BY <1>1, <1>3, <3>1, <3>2 DEF OwnedBy
  <2>4. ASSUME NEW a \in Agent, ForceUpdate(a)  PROVE Spared
    BY <1>1, <1>3, <2>4 DEF ForceUpdate
  <2>5. ASSUME NEW a \in Agent, NEW p \in Path, Create(a, p)  PROVE Spared
    BY <1>2, <1>3, <2>5, CreateEffect
  <2>6. ASSUME NEW a \in Agent, NEW p \in Path, Extend(a, p)  PROVE Spared
    BY <1>2, <1>3, <2>6, ExtendEffect
  <2>7. ASSUME NEW a \in Agent, NEW bump \in 1..MaxLeft, Renew(a, bump)
        PROVE  Spared
    BY <1>2, <1>3, <2>7, RenewEffect DEF Renewed
  <2>8. CASE TimePasses
    BY <1>2, <1>3, <2>8, TimeEffect
  <2>9. CASE UNCHANGED rows
    BY <1>2, <2>9
  <2>10. QED
    BY <1>3, <2>1, <2>2, <2>3, <2>4, <2>5, <2>6, <2>7, <2>8, <2>9
    DEF Next, Reserve, View, SelectExpired, Collect, Record, LockAndRead, Deny,
        WriteGrants, ForceCheck, RecordForced, Fail, MailActivity, GoInactive
<1>4. Safe /\ [Next]_vars => [Spared]_vars
  BY <1>3 DEF Safe
<1>5. QED
  BY <1>4, SafeInvariant, PTL DEF Spec, SweepSparesTheLiving, Spared
=============================================================================
