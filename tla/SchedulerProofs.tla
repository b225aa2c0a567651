--------------------------- MODULE SchedulerProofs ---------------------------
(***************************************************************************)
(* For any tasks, workers, claims and limits: what workers that share a    *)
(* file, a crowd of workers and a worker ahead of its dependencies need,   *)
(* and what a loop of dependencies needs.                                  *)
(***************************************************************************)
EXTENDS Scheduler, TaskDependencies, FiniteSetTheorems, WellFoundedInduction, TLAPS

WorkerRecords ==
  [status: Statuses, task: Tasks \cup {NoTask}, claims: SUBSET Claim,
   requeued: BOOLEAN, unlisted: SUBSET Worker, unplanned: SUBSET Worker,
   planned: BOOLEAN]

CallRecords ==
  [at: {"free", "inserting", "planning", "dispatching"}, limit: Nat,
   task: Tasks \cup {NoTask}, claims: SUBSET Claim, listed: SUBSET Worker,
   queued: SUBSET Worker, chosen: SUBSET Worker, todo: SUBSET Worker]

Types ==
  /\ task \in [Tasks -> {"open", "completed", "cancelled"}]
  /\ worker \in [Worker -> WorkerRecords]

CallTypes == call \in [Calls -> CallRecords]

Made == {w \in Worker : worker[w].status # "absent"}

\* workers are made in order, and their records say what they work on
MadeInOrder ==
  /\ \A w \in Made : \A v \in Worker : v < w => v \in Made
  /\ \A w \in Made : worker[w].task \in Tasks

Apart(v, w) == ~ConflictBetween(worker[v].claims, worker[w].claims)

\* What a call read still holds of the workers that are there.
CallHolds(c) ==
  LET now == call[c] IN
  /\ now.listed \cup now.queued \cup now.chosen \cup now.todo \subseteq Made
  /\ now.todo \subseteq now.chosen
  /\ now.at = "inserting" =>
       /\ now.task \in Tasks
       /\ \A v \in now.listed : ~ConflictBetween(now.claims, worker[v].claims)
  /\ now.at = "dispatching" =>
       /\ \A w \in now.chosen :
            /\ \A v \in now.listed \cup now.chosen : v # w => Apart(w, v)
            /\ \A d \in Needs[worker[w].task] : task[d] = "completed"
       /\ Cardinality(now.listed) + Cardinality(now.chosen) <= now.limit

CallsHold == \A c \in Calls : CallHolds(c)

\* Two live workers of which neither came back by requeue.
ListedAreApart ==
  \A v, w \in LiveWorkers :
    v < w => \/ worker[v].requeued \/ worker[w].requeued
             \/ v \in worker[w].unlisted \/ Apart(w, v)

KnownAreApart ==
  \A v, w \in Holders :
    v # w => v \in worker[w].unplanned \/ w \in worker[v].unplanned \/ Apart(v, w)

WorkersKeep ==
  /\ Types /\ MadeInOrder
  /\ ListedAreApart /\ KnownAreApart /\ PlannedWorkHasItsDependencies

IInv == WorkersKeep /\ CallTypes /\ CallsHold

\* What a step leaves of what calls have read.
RowsPersist ==
  /\ \A w \in Made : /\ w \in Made'
                     /\ worker'[w].claims = worker[w].claims
                     /\ worker'[w].task = worker[w].task
  /\ \A t \in Tasks : task[t] = "completed" => task'[t] = "completed"

-----------------------------------------------------------------------------
(* Claims.                                                                 *)

LEMMA PrefixesMeet ==
  ASSUME NEW a \in Path, NEW b \in Path, NEW f \in Path, IsPrefix(a, f), IsPrefix(b, f)
  PROVE  IsPrefix(a, b) \/ IsPrefix(b, a)
<1>1. Len(a) \in Nat /\ Len(b) \in Nat
  BY DEF Path
<1>2. CASE Len(a) <= Len(b)
  BY <1>2 DEF IsPrefix, Path
<1>3. CASE Len(b) <= Len(a)
  BY <1>3 DEF IsPrefix, Path
<1>4. QED BY <1>1, <1>2, <1>3

LEMMA ConflictIsSymmetric ==
  ASSUME NEW mine \in SUBSET Claim, NEW theirs \in SUBSET Claim
  PROVE  ConflictBetween(mine, theirs) <=> ConflictBetween(theirs, mine)
<1>1. \A a, b \in Claim : ClaimsConflict(a, b) <=> ClaimsConflict(b, a)
  BY DEF Claim, ClaimsConflict
<1>2. QED BY <1>1 DEF ConflictBetween

\* claims that cover a file in common conflict
LEMMA SharedFileConflicts ==
  ASSUME NEW mine \in SUBSET Claim, NEW theirs \in SUBSET Claim,
         Covers(mine) \cap Covers(theirs) # {}
  PROVE  ConflictBetween(mine, theirs)
<1>1. PICK f \in Files : f \in Covers(mine) /\ f \in Covers(theirs)
  BY DEF Covers
<1>2. PICK a \in mine : IF a.kind = "file" THEN f = a.path ELSE IsPrefix(a.path, f)
  BY <1>1 DEF Covers
<1>3. PICK b \in theirs : IF b.kind = "file" THEN f = b.path ELSE IsPrefix(b.path, f)
  BY <1>1 DEF Covers
<1>4. /\ f \in Path /\ a.path \in Path /\ b.path \in Path
      /\ a.kind \in {"file", "directory"} /\ b.kind \in {"file", "directory"}
  BY SchedulerConstants DEF Claim
<1>5. a.kind = "directory" /\ b.kind = "directory" =>
        IsPrefix(a.path, b.path) \/ IsPrefix(b.path, a.path)
  BY <1>2, <1>3, <1>4, PrefixesMeet
<1>6. ClaimsConflict(a, b)
  BY <1>2, <1>3, <1>4, <1>5 DEF ClaimsConflict, PathWithin
<1>7. QED BY <1>6 DEF ConflictBetween

LEMMA ApartShareNothing ==
  ASSUME Types, NEW v \in Worker, NEW w \in Worker, Apart(v, w)
  PROVE  ~Overlap(v, w) /\ ~Overlap(w, v)
<1>1. worker[v].claims \in SUBSET Claim /\ worker[w].claims \in SUBSET Claim
  BY DEF Types, WorkerRecords
<1>2. QED BY <1>1, SharedFileConflicts, ConflictIsSymmetric DEF Apart, Overlap

LEMMA ApartIsSymmetric ==
  ASSUME Types, NEW v \in Worker, NEW w \in Worker
  PROVE  Apart(v, w) <=> Apart(w, v)
<1>1. worker[v].claims \in SUBSET Claim /\ worker[w].claims \in SUBSET Claim
  BY DEF Types, WorkerRecords
<1>2. QED BY <1>1, ConflictIsSymmetric DEF Apart

-----------------------------------------------------------------------------
(* Sets of workers.                                                        *)

LEMMA WorkersAreFinite ==
  ASSUME NEW W \in SUBSET Worker
  PROVE  IsFiniteSet(W) /\ Cardinality(W) \in Nat
<1>1. MaxWorkers \in Nat
  BY SchedulerConstants
<1>2. IsFiniteSet(Worker)
  BY <1>1, FS_Interval DEF Worker
<1>3. IsFiniteSet(W)
  BY <1>2, FS_Subset
<1>4. QED BY <1>3, FS_CardinalityType

\* a set of workers has one that was created last
LEMMA LastOf ==
  ASSUME NEW W \in SUBSET Worker, W # {}
  PROVE  \E w \in W : \A v \in W : v <= w
<1> DEFINE R == OpToRel(<, Nat)
           T == {MaxWorkers - w : w \in W}
<1>1. MaxWorkers \in Nat /\ W \subseteq 1 .. MaxWorkers
  BY SchedulerConstants DEF Worker
<1>2. T \in SUBSET Nat /\ T # {}
  <2>1. \A w \in W : MaxWorkers - w \in Nat
    BY <1>1
  <2>2. QED BY <2>1
<1>3. PICK x \in T : \A y \in T : ~(<<y, x>> \in R)
  BY <1>2, NatLessThanWellFounded, WFMin
<1>4. \A y \in T : ~(y < x)
  BY <1>2, <1>3 DEF OpToRel
<1>5. PICK w \in W : x = MaxWorkers - w
  OBVIOUS
<1>6. ASSUME NEW v \in W PROVE v <= w
  <2>1. ~(MaxWorkers - v < MaxWorkers - w)
    BY <1>4, <1>5
  <2>2. MaxWorkers \in Nat /\ v \in Nat /\ w \in Nat
    BY <1>1
  <2>3. QED BY <2>1, <2>2
<1>7. QED BY <1>6

LEMMA MadeIsAnInterval ==
  ASSUME Types, MadeInOrder
  PROVE  LET n == Cardinality(InStatus(Statuses \ {"absent"}))
         IN  n \in Nat /\ \A w \in Worker : w \in Made <=> w <= n
<1>1. InStatus(Statuses \ {"absent"}) = Made
  BY DEF InStatus, Made, Types, WorkerRecords
<1>2. MaxWorkers \in Nat /\ Made \in SUBSET Worker /\ Worker = 1 .. MaxWorkers
  BY SchedulerConstants DEF Made, Worker
<1> DEFINE n == Cardinality(Made)
<1>3. n \in Nat /\ \A w \in Worker : w \in Made <=> w <= n
  <2>1. CASE Made = {}
    <3>1. n = 0
      BY <2>1, FS_EmptySet
    <3>2. QED BY <1>2, <2>1, <3>1
  <2>2. CASE Made # {}
    <3>1. PICK m \in Made : \A v \in Made : v <= m
      BY <1>2, <2>2, LastOf
    <3>2. m \in Worker /\ m \in Nat /\ m >= 1 /\ m <= MaxWorkers
      BY <1>2, <3>1
    <3>3. \A v \in Worker : v \in Made <=> v <= m
      BY <1>2, <3>1, <3>2 DEF MadeInOrder
    <3>4. Made = 1 .. m
      <4>1. Made \subseteq 1 .. m
        BY <1>2, <3>2, <3>3
      <4>2. 1 .. m \subseteq Worker
        BY <1>2, <3>2
      <4>3. 1 .. m \subseteq Made
        BY <3>2, <3>3, <4>2
      <4>4. QED BY <4>1, <4>3
    <3>5. n = m
      BY <3>2, <3>4, FS_Interval
    <3>6. QED BY <3>2, <3>3, <3>5
  <2>3. QED BY <2>1, <2>2
<1>4. QED BY <1>1, <1>3

-----------------------------------------------------------------------------
(* What happens to a worker.                                               *)

LEMMA StartedKeeps ==
  ASSUME WorkersKeep, NEW w \in Worker, worker[w].status = "queued",
         NEW planned \in BOOLEAN, NEW known \in SUBSET Worker,
         worker' = Started(w, planned, known), UNCHANGED task,
         \A v \in known : v # w => Apart(w, v),
         planned => \A d \in Needs[worker[w].task] : task[d] = "completed"
  PROVE  WorkersKeep' /\ RowsPersist
<1> USE DEF WorkersKeep
<1> DEFINE next == [worker[w] EXCEPT !.status = "holding", !.planned = planned,
                                     !.unplanned = Holders \ known]
<1>1. worker' = [worker EXCEPT ![w] = next]
  BY DEF Started, Types
<1>2. worker[w] \in WorkerRecords /\ Holders \in SUBSET Worker
  BY DEF Types, Holders, InStatus
<1>3. /\ next \in WorkerRecords /\ next.status = "holding"
      /\ next.task = worker[w].task /\ next.claims = worker[w].claims
      /\ next.requeued = worker[w].requeued /\ next.unlisted = worker[w].unlisted
      /\ next.planned = planned /\ next.unplanned = Holders \ known
  BY <1>2 DEF WorkerRecords, Statuses
<1> HIDE DEF next
<1>4. worker' \in [Worker -> WorkerRecords]
      /\ \A v \in Worker : worker'[v] = IF v = w THEN next ELSE worker[v]
  BY <1>1, <1>3 DEF Types
<1>5. Types' /\ Made' = Made
  BY <1>3, <1>4 DEF Types, Made
<1>6. /\ LiveWorkers' = LiveWorkers /\ Holders' = Holders \cup {w}
      /\ w \notin Holders /\ LiveWorkers \subseteq Worker
  BY <1>3, <1>4 DEF LiveWorkers, Holders, InStatus
<1>7. \A v \in Worker : /\ worker'[v].claims = worker[v].claims
                         /\ worker'[v].task = worker[v].task
                         /\ worker'[v].requeued = worker[v].requeued
                         /\ worker'[v].unlisted = worker[v].unlisted
  BY <1>3, <1>4
<1>8. \A u, v \in Worker : Apart(u, v)' <=> Apart(u, v)
  BY <1>7 DEF Apart
<1>9. MadeInOrder' /\ RowsPersist
  BY <1>5, <1>7 DEF MadeInOrder, RowsPersist, Made
<1>10. ListedAreApart'
  BY <1>6, <1>7, <1>8 DEF ListedAreApart
<1>11. KnownAreApart'
  <2> SUFFICES ASSUME NEW u \in Holders', NEW v \in Holders', u # v
               PROVE  \/ u \in worker'[v].unplanned \/ v \in worker'[u].unplanned
                      \/ Apart(u, v)
    BY <1>8 DEF KnownAreApart, Holders, InStatus
  <2>1. u \in Worker /\ v \in Worker
    BY DEF Holders, InStatus
  <2>2. CASE u = w
    BY <1>3, <1>4, <1>6, <2>1, <2>2
  <2>3. CASE v = w
    BY <1>3, <1>4, <1>6, <2>1, <2>3, ApartIsSymmetric
  <2>4. CASE u # w /\ v # w
    BY <1>4, <1>6, <2>1, <2>4 DEF KnownAreApart
  <2>5. QED BY <2>2, <2>3, <2>4
<1>12. PlannedWorkHasItsDependencies'
  BY <1>3, <1>4, <1>6 DEF PlannedWorkHasItsDependencies, Holders, InStatus
<1>13. QED BY <1>5, <1>9, <1>10, <1>11, <1>12

LEMMA EndedKeeps ==
  ASSUME WorkersKeep, NEW w \in Worker, worker[w].status # "absent",
         NEW status \in {"idle", "over"}, worker' = Ended(w, status),
         task' \in [Tasks -> {"open", "completed", "cancelled"}],
         \A t \in Tasks : task[t] = "completed" => task'[t] = "completed"
  PROVE  WorkersKeep' /\ RowsPersist
<1> USE DEF WorkersKeep
<1> DEFINE mine == [worker[w] EXCEPT !.status = status, !.unlisted = {}, !.unplanned = {},
                      !.planned = FALSE, !.requeued = @ /\ status = "idle"]
           theirs(v) == [worker[v] EXCEPT !.unlisted = @ \ {w}, !.unplanned = @ \ {w}]
<1>1. worker' = [v \in Worker |-> IF v = w THEN mine ELSE theirs(v)]
  BY DEF Ended
<1>2. /\ mine \in WorkerRecords /\ mine.status = status
      /\ mine.task = worker[w].task /\ mine.claims = worker[w].claims
  <2> DEFINE r == worker[w]
             still == r.requeued /\ status = "idle"
             next == [r EXCEPT !.status = status, !.unlisted = {}, !.unplanned = {},
                               !.planned = FALSE, !.requeued = still]
  <2>1. r \in WorkerRecords /\ still \in BOOLEAN
    BY DEF Types
  <2>2. mine = next
    OBVIOUS
  <2> HIDE DEF r, still
  <2>3. /\ next \in WorkerRecords /\ next.status = status
        /\ next.task = r.task /\ next.claims = r.claims
    BY <2>1 DEF WorkerRecords, Statuses
  <2>4. QED BY <2>2, <2>3 DEF r
<1>3. ASSUME NEW v \in Worker
      PROVE  /\ theirs(v) \in WorkerRecords /\ theirs(v).status = worker[v].status
             /\ theirs(v).task = worker[v].task /\ theirs(v).claims = worker[v].claims
             /\ theirs(v).requeued = worker[v].requeued
             /\ theirs(v).planned = worker[v].planned
             /\ theirs(v).unlisted = worker[v].unlisted \ {w}
             /\ theirs(v).unplanned = worker[v].unplanned \ {w}
  <2> DEFINE r == worker[v]
  <2>1. r \in WorkerRecords
    BY DEF Types
  <2> HIDE DEF r
  <2>2. QED BY <2>1 DEF WorkerRecords, r
<1> HIDE DEF mine, theirs
<1>4. /\ worker' \in [Worker -> WorkerRecords] /\ worker'[w] = mine
      /\ \A v \in Worker : v # w => worker'[v] = theirs(v)
  BY <1>1, <1>2, <1>3
<1>5. Types'
  BY <1>4 DEF Types
<1>6. \A v \in Worker : /\ worker'[v].claims = worker[v].claims
                         /\ worker'[v].task = worker[v].task
  BY <1>2, <1>3, <1>4
<1>7. \A u, v \in Worker : Apart(u, v)' <=> Apart(u, v)
  BY <1>6 DEF Apart
<1>8. Made' = Made /\ Holders' = Holders \ {w} /\ LiveWorkers' = LiveWorkers \ {w}
      /\ Holders \subseteq Worker /\ LiveWorkers \subseteq Worker
  BY <1>2, <1>3, <1>4 DEF Made, Holders, LiveWorkers, InStatus
<1>9. MadeInOrder' /\ RowsPersist
  BY <1>6, <1>8 DEF MadeInOrder, RowsPersist, Made
<1>10. ListedAreApart'
  BY <1>3, <1>4, <1>7, <1>8 DEF ListedAreApart
<1>11. KnownAreApart'
  BY <1>3, <1>4, <1>7, <1>8 DEF KnownAreApart
<1>12. PlannedWorkHasItsDependencies'
  <2> SUFFICES ASSUME NEW v \in Holders', worker'[v].planned
               PROVE  \A d \in Needs[worker'[v].task] : task'[d] = "completed"
    BY DEF PlannedWorkHasItsDependencies
  <2>1. /\ v \in Holders /\ worker[v].planned /\ worker'[v].task = worker[v].task
        /\ v \in Made
    BY <1>3, <1>4, <1>6, <1>8 DEF Made, Holders, InStatus
  <2>2. worker[v].task \in Tasks
    BY <2>1 DEF MadeInOrder
  <2>3. Needs[worker[v].task] \subseteq Tasks
    BY <2>2, SchedulerConstants
  <2>4. QED BY <2>1, <2>3 DEF PlannedWorkHasItsDependencies
<1>13. QED BY <1>5, <1>9, <1>10, <1>11, <1>12

LEMMA RequeuedKeeps ==
  ASSUME WorkersKeep, NEW w \in Worker, Requeue(w)
  PROVE  WorkersKeep' /\ RowsPersist
<1> USE DEF WorkersKeep
<1> DEFINE next == [worker[w] EXCEPT !.status = "queued", !.requeued = TRUE]
<1>1. /\ worker' = [worker EXCEPT ![w] = next] /\ UNCHANGED task
      /\ worker[w].status = "idle"
  BY DEF Requeue, Types
<1>2. worker[w] \in WorkerRecords
  BY DEF Types
<1>3. /\ next \in WorkerRecords /\ next.status = "queued" /\ next.requeued = TRUE
      /\ next.task = worker[w].task /\ next.claims = worker[w].claims
  BY <1>2 DEF WorkerRecords, Statuses
<1> HIDE DEF next
<1>4. /\ worker' \in [Worker -> WorkerRecords]
      /\ \A v \in Worker : worker'[v] = IF v = w THEN next ELSE worker[v]
  BY <1>1, <1>3 DEF Types
<1>5. Types' /\ Made' = Made
  BY <1>1, <1>3, <1>4 DEF Types, Made
<1>6. /\ LiveWorkers' = LiveWorkers \cup {w} /\ Holders' = Holders
      /\ Holders \subseteq Worker \ {w} /\ LiveWorkers \subseteq Worker
  BY <1>1, <1>3, <1>4 DEF LiveWorkers, Holders, InStatus
<1>7. \A v \in Worker : /\ worker'[v].claims = worker[v].claims
                         /\ worker'[v].task = worker[v].task
  BY <1>3, <1>4
<1>8. \A u, v \in Worker : Apart(u, v)' <=> Apart(u, v)
  BY <1>7 DEF Apart
<1>9. MadeInOrder' /\ RowsPersist
  BY <1>1, <1>5, <1>7 DEF MadeInOrder, RowsPersist, Made
<1>10. ListedAreApart'
  BY <1>3, <1>4, <1>6, <1>8 DEF ListedAreApart
<1>11. KnownAreApart'
  BY <1>4, <1>6, <1>8 DEF KnownAreApart
<1>12. PlannedWorkHasItsDependencies'
  BY <1>1, <1>4, <1>6 DEF PlannedWorkHasItsDependencies
<1>13. QED BY <1>5, <1>9, <1>10, <1>11, <1>12

\* the new worker is the last, and its claims were compared with those listed
LEMMA InsertedKeeps ==
  ASSUME IInv, NEW c \in Calls, Insert(c), worker' # worker
  PROVE  WorkersKeep' /\ RowsPersist
<1> USE DEF IInv, WorkersKeep
<1> DEFINE t == call[c].task
           new == Cardinality(InStatus(Statuses \ {"absent"})) + 1
           row == [Absent EXCEPT !.status = "queued", !.task = t,
                     !.claims = call[c].claims, !.unlisted = LiveWorkers \ call[c].listed]
<1>1. /\ new \in Worker /\ worker' = [worker EXCEPT ![new] = row]
      /\ UNCHANGED task /\ call[c].at = "inserting"
  BY DEF Insert
<1>2. /\ new \notin Made /\ \A w \in Worker : w < new => w \in Made
      /\ \A w \in Made : w < new
  <2> DEFINE n == Cardinality(InStatus(Statuses \ {"absent"}))
  <2>1. n \in Nat /\ \A w \in Worker : w \in Made <=> w <= n
    BY MadeIsAnInterval
  <2>2. Worker \subseteq Nat /\ Made \subseteq Worker
    BY SchedulerConstants DEF Worker, Made
  <2> HIDE DEF n
  <2>3. new = n + 1
    BY DEF n
  <2> HIDE DEF new
  <2>4. QED BY <1>1, <2>1, <2>2, <2>3
<1>3. /\ t \in Tasks /\ call[c] \in CallRecords
      /\ \A v \in call[c].listed : ~ConflictBetween(call[c].claims, worker[v].claims)
  BY <1>1 DEF CallTypes, CallsHold, CallHolds
<1>4. LiveWorkers \in SUBSET Worker /\ LiveWorkers \subseteq Made
  BY DEF LiveWorkers, InStatus, Made
<1>5. /\ row \in WorkerRecords /\ row.status = "queued" /\ row.task = t
      /\ row.claims = call[c].claims /\ row.unlisted = LiveWorkers \ call[c].listed
  <2>1. Absent \in WorkerRecords
    BY DEF Absent, WorkerRecords, Statuses
  <2>2. call[c].claims \in SUBSET Claim
    BY <1>3 DEF CallRecords
  <2>3. QED BY <1>3, <1>4, <2>1, <2>2 DEF WorkerRecords, Statuses
<1> HIDE DEF new, row
<1>6. /\ worker' \in [Worker -> WorkerRecords]
      /\ \A v \in Worker : worker'[v] = IF v = new THEN row ELSE worker[v]
  BY <1>1, <1>5 DEF Types
<1>7. Types' /\ Made' = Made \cup {new} /\ Made \subseteq Worker
  BY <1>1, <1>5, <1>6 DEF Types, Made
<1>8. /\ LiveWorkers' = LiveWorkers \cup {new} /\ Holders' = Holders
      /\ Holders \subseteq Worker \ {new}
  BY <1>1, <1>2, <1>5, <1>6 DEF LiveWorkers, Holders, InStatus, Made
<1>9. MadeInOrder'
  <2>1. ASSUME NEW w \in Made' PROVE worker'[w].task \in Tasks
    <3>1. CASE w = new
      BY <1>1, <1>3, <1>5, <1>6, <3>1
    <3>2. CASE w # new
      <4>1. w \in Made /\ worker'[w] = worker[w]
        BY <1>6, <1>7, <3>2
      <4>2. QED BY <4>1 DEF MadeInOrder
    <3>3. QED BY <3>1, <3>2
  <2>2. \A w \in Made' : \A v \in Worker : v < w => v \in Made'
    BY <1>2, <1>7 DEF MadeInOrder
  <2>3. QED BY <2>1, <2>2 DEF MadeInOrder
<1>10. RowsPersist
  BY <1>1, <1>2, <1>6, <1>7 DEF RowsPersist
<1>11. \A u, v \in Worker \ {new} : Apart(u, v)' <=> Apart(u, v)
  BY <1>6 DEF Apart
<1>12. ListedAreApart'
  <2> SUFFICES ASSUME NEW v \in LiveWorkers', NEW w \in LiveWorkers', v < w
               PROVE  \/ worker'[v].requeued \/ worker'[w].requeued
                      \/ v \in worker'[w].unlisted \/ Apart(w, v)'
    BY DEF ListedAreApart
  <2>1. CASE v = new
    <3>1. w \in LiveWorkers
      BY <1>1, <1>8, <2>1 DEF Worker
    <3>2. w < new
      BY <1>2, <1>4, <3>1
    <3>3. new \in Nat /\ w \in Nat /\ new < w
      BY <1>1, <1>4, <2>1, <3>1, SchedulerConstants DEF Worker
    <3>4. QED BY <3>2, <3>3
  <2>2. CASE w = new /\ v # new
    <3>1. v \in LiveWorkers /\ v \in Worker
      BY <1>4, <1>8, <2>2
    <3>2. CASE v \in call[c].listed
      BY <1>1, <1>3, <1>5, <1>6, <2>2, <3>1, <3>2 DEF Apart
    <3>3. CASE v \notin call[c].listed
      BY <1>5, <1>6, <1>1, <2>2, <3>1, <3>3
    <3>4. QED BY <3>2, <3>3
  <2>3. CASE v # new /\ w # new
    BY <1>4, <1>6, <1>8, <1>11, <2>3 DEF ListedAreApart
  <2>4. QED BY <2>1, <2>2, <2>3
<1>13. KnownAreApart'
  BY <1>6, <1>8, <1>11 DEF KnownAreApart
<1>14. PlannedWorkHasItsDependencies'
  BY <1>1, <1>6, <1>8 DEF PlannedWorkHasItsDependencies
<1>15. QED BY <1>7, <1>9, <1>10, <1>12, <1>13, <1>14

LEMMA WorkersRest ==
  ASSUME WorkersKeep, UNCHANGED worker,
         task' \in [Tasks -> {"open", "completed", "cancelled"}],
         \A t \in Tasks : task[t] = "completed" => task'[t] = "completed"
  PROVE  WorkersKeep' /\ RowsPersist
<1> USE DEF WorkersKeep
<1>1. Types' /\ MadeInOrder' /\ RowsPersist
  BY DEF Types, MadeInOrder, Made, RowsPersist
<1>2. ListedAreApart' /\ KnownAreApart'
  BY DEF ListedAreApart, KnownAreApart, LiveWorkers, Holders, InStatus, Apart
<1>3. PlannedWorkHasItsDependencies'
  <2> SUFFICES ASSUME NEW w \in Holders, worker[w].planned, NEW d \in Needs[worker[w].task]
               PROVE  task'[d] = "completed"
    BY DEF PlannedWorkHasItsDependencies, Holders, InStatus
  <2>1. worker[w].task \in Tasks
    BY DEF MadeInOrder, Made, Holders, InStatus
  <2>2. d \in Tasks
    BY <2>1, SchedulerConstants
  <2>3. QED BY <2>2 DEF PlannedWorkHasItsDependencies
<1>4. QED BY <1>1, <1>2, <1>3

-----------------------------------------------------------------------------
(* What calls hold.                                                        *)

\* A call that goes on with what it read.
GoesOn(d) ==
  LET now == call[d]
      next == call'[d]
  IN /\ next.at = now.at /\ next.limit = now.limit /\ next.task = now.task
     /\ next.claims = now.claims /\ next.listed = now.listed
     /\ next.queued = now.queued /\ next.chosen = now.chosen
     /\ next.todo \subseteq now.todo

LEMMA CallKeepsHolding ==
  ASSUME Types, MadeInOrder, RowsPersist, NEW d \in Calls, CallHolds(d), GoesOn(d)
  PROVE  CallHolds(d)'
<1> DEFINE now == call[d]
<1>1. /\ now.listed \cup now.queued \cup now.chosen \cup now.todo \subseteq Made'
      /\ now.todo \subseteq now.chosen
  BY DEF CallHolds, RowsPersist
<1>2. \A v \in Made : worker'[v].claims = worker[v].claims /\ worker'[v].task = worker[v].task
  BY DEF RowsPersist
<1>3. now.at = "inserting" =>
        /\ now.task \in Tasks
        /\ \A v \in now.listed : ~ConflictBetween(now.claims, worker'[v].claims)
  BY <1>2 DEF CallHolds
<1>4. ASSUME now.at = "dispatching"
      PROVE  /\ \A w \in now.chosen :
                  /\ \A v \in now.listed \cup now.chosen : v # w => Apart(w, v)'
                  /\ \A e \in Needs[worker'[w].task] : task'[e] = "completed"
             /\ Cardinality(now.listed) + Cardinality(now.chosen) <= now.limit
  <2>1. \A w \in now.chosen : w \in Made /\ worker[w].task \in Tasks
    BY DEF CallHolds, MadeInOrder
  <2>2. \A w \in now.chosen : Needs[worker[w].task] \subseteq Tasks
    BY <2>1, SchedulerConstants
  <2>3. \A w \in now.chosen : \A e \in Needs[worker'[w].task] : task'[e] = "completed"
    BY <1>2, <1>4, <2>1, <2>2 DEF CallHolds, RowsPersist
  <2>4. \A w \in now.chosen : \A v \in now.listed \cup now.chosen : v # w => Apart(w, v)'
    BY <1>2, <1>4 DEF CallHolds, Apart
  <2>5. QED BY <1>4, <2>3, <2>4 DEF CallHolds
<1> DEFINE next == call'[d]
<1>5. /\ next.listed \cup next.queued \cup next.chosen \cup next.todo \subseteq Made'
      /\ next.todo \subseteq next.chosen
  BY <1>1 DEF GoesOn
<1>6. QED BY <1>3, <1>4, <1>5 DEF CallHolds, GoesOn

LEMMA CallsStay ==
  ASSUME IInv, WorkersKeep', RowsPersist, UNCHANGED call
  PROVE  IInv'
BY CallKeepsHolding DEF IInv, WorkersKeep, CallTypes, CallsHold, GoesOn

LEMMA CallMoves ==
  ASSUME IInv, WorkersKeep', RowsPersist, NEW c \in Calls, NEW next \in CallRecords,
         call' = [call EXCEPT ![c] = next], CallHolds(c)'
  PROVE  IInv'
<1>1. /\ call' \in [Calls -> CallRecords]
      /\ \A d \in Calls : d # c => call'[d] = call[d]
  BY DEF IInv, CallTypes
<1>2. QED BY <1>1, CallKeepsHolding DEF IInv, WorkersKeep, CallTypes, CallsHold, GoesOn

LEMMA FreeCall == Free \in CallRecords
BY SchedulerConstants DEF Free, CallRecords

LEMMA CallEnds ==
  ASSUME IInv, WorkersKeep', RowsPersist, NEW c \in Calls, call' = [call EXCEPT ![c] = Free]
  PROVE  IInv'
<1>1. call'[c] = Free
  BY DEF IInv, CallTypes
<1>2. CallHolds(c)'
  BY <1>1 DEF CallHolds, Free
<1>3. QED BY <1>2, FreeCall, CallMoves

-----------------------------------------------------------------------------
(* Every step.                                                             *)

LEMMA TasksStay ==
  ASSUME IInv, UNCHANGED <<task, worker>>
  PROVE  WorkersKeep' /\ RowsPersist
BY WorkersRest DEF IInv, WorkersKeep, Types

LEMMA DelegateKeeps ==
  ASSUME IInv, NEW c \in Calls, NEW t \in Tasks, NEW claims \in ClaimSets[t],
         Delegate(c, t, claims)
  PROVE  IInv'
<1> DEFINE next == [Free EXCEPT !.at = "inserting", !.task = t, !.claims = claims,
                                !.listed = LiveWorkers]
<1>1. /\ call' = [call EXCEPT ![c] = next] /\ UNCHANGED <<task, worker>>
      /\ \A v \in LiveWorkers : ~ConflictBetween(claims, worker[v].claims)
  BY DEF Delegate
<1>2. /\ claims \in SUBSET Claim
      /\ LiveWorkers \in SUBSET Worker /\ LiveWorkers \subseteq Made
  BY SchedulerConstants DEF LiveWorkers, InStatus, Made
<1>3. /\ next \in CallRecords /\ next.at = "inserting" /\ next.task = t
      /\ next.claims = claims /\ next.listed = LiveWorkers
      /\ next.queued = {} /\ next.chosen = {} /\ next.todo = {}
  <2>1. Free.queued = {} /\ Free.chosen = {} /\ Free.todo = {}
    BY DEF Free
  <2>2. QED BY <1>2, <2>1, FreeCall DEF CallRecords
<1> HIDE DEF next
<1>4. call'[c] = next
  BY <1>1 DEF IInv, CallTypes
<1>5. WorkersKeep' /\ RowsPersist
  BY <1>1, TasksStay
<1>6. CallHolds(c)'
  BY <1>1, <1>2, <1>3, <1>4 DEF CallHolds, Made
<1>7. QED BY <1>1, <1>3, <1>5, <1>6, CallMoves

LEMMA InsertKeeps ==
  ASSUME IInv, NEW c \in Calls, Insert(c) PROVE IInv'
<1>1. call' = [call EXCEPT ![c] = Free] /\ UNCHANGED task
  BY DEF Insert
<1>2. WorkersKeep' /\ RowsPersist
  BY <1>1, InsertedKeeps, TasksStay
<1>3. QED BY <1>1, <1>2, CallEnds

LEMMA ReadWorkersKeeps ==
  ASSUME IInv, NEW c \in Calls, NEW limit \in Limits, ReadWorkers(c, limit)
  PROVE  IInv'
<1> DEFINE next == [Free EXCEPT !.at = "planning", !.limit = limit,
                      !.listed = Holders, !.queued = InStatus({"queued"})]
<1>1. call' = [call EXCEPT ![c] = next] /\ UNCHANGED <<task, worker>>
  BY DEF ReadWorkers
<1>2. /\ Holders \in SUBSET Worker /\ Holders \subseteq Made /\ limit \in Nat
      /\ InStatus({"queued"}) \in SUBSET Worker /\ InStatus({"queued"}) \subseteq Made
  BY SchedulerConstants DEF Holders, InStatus, Made
<1>3. /\ next \in CallRecords /\ next.at = "planning"
      /\ next.listed = Holders /\ next.queued = InStatus({"queued"})
      /\ next.chosen = {} /\ next.todo = {}
  <2>1. Free.chosen = {} /\ Free.todo = {}
    BY DEF Free
  <2>2. QED BY <1>2, <2>1, FreeCall DEF CallRecords
<1> HIDE DEF next
<1>4. call'[c] = next
  BY <1>1 DEF IInv, CallTypes
<1>5. WorkersKeep' /\ RowsPersist
  BY <1>1, TasksStay
<1>6. CallHolds(c)'
  BY <1>1, <1>2, <1>3, <1>4 DEF CallHolds, Made
<1>7. QED BY <1>1, <1>3, <1>5, <1>6, CallMoves

\* what a plan chose is within its limit and apart from all it counted on
LEMMA ChosenAreApart ==
  ASSUME IInv, NEW c \in Calls, NEW resting, NEW chosen, Selected(c, resting, chosen)
  PROVE  /\ \A w \in chosen :
              /\ \A v \in call[c].listed \cup chosen : v # w => Apart(w, v)
              /\ \A d \in Needs[worker[w].task] : task[d] = "completed"
         /\ chosen # {} =>
              Cardinality(call[c].listed) + Cardinality(chosen) <= call[c].limit
<1> DEFINE now == call[c]
<1>1. /\ now \in CallRecords /\ now.listed \in SUBSET Worker /\ now.queued \in SUBSET Worker
      /\ now.limit \in Nat /\ chosen \in SUBSET Worker
      /\ \A w \in chosen : May(c, w, {v \in chosen : v < w}, resting)
  BY DEF IInv, CallTypes, CallRecords, Selected
<1>2. Worker \subseteq Nat
  BY DEF Worker
<1>3. ASSUME NEW w \in chosen, NEW v \in now.listed \cup chosen, v # w
      PROVE  Apart(w, v)
  <2>1. CASE v \in now.listed \/ v < w
    BY <1>1, <1>3, <2>1 DEF May, Apart
  <2>2. CASE v \in chosen /\ w < v
    <3>1. Apart(v, w)
      BY <1>1, <2>2 DEF May, Apart
    <3>2. v \in Worker /\ w \in Worker
      BY <1>1, <2>2
    <3>3. QED BY <3>1, <3>2, ApartIsSymmetric DEF IInv, WorkersKeep
  <2>3. v \in chosen => v < w \/ w < v
    BY <1>1, <1>2, <1>3
  <2>4. QED BY <1>3, <2>1, <2>2, <2>3
<1>4. \A w \in chosen : \A d \in Needs[worker[w].task] : task[d] = "completed"
  BY <1>1 DEF May
<1>5. ASSUME chosen # {}
      PROVE  Cardinality(now.listed) + Cardinality(chosen) <= now.limit
  <2>1. PICK last \in chosen : \A v \in chosen : v <= last
    BY <1>1, <1>5, LastOf
  <2> DEFINE before == {v \in chosen : v < last}
  <2>2. Cardinality(now.listed) + Cardinality(before) < now.limit
    BY <1>1, <2>1 DEF May
  <2>3. before = chosen \ {last}
    <3>1. \A v \in chosen : v \in Nat
      BY <1>1, <1>2
    <3>2. \A v \in chosen : v < last <=> v # last
      BY <2>1, <3>1
    <3>3. QED BY <3>2
  <2>4. IsFiniteSet(chosen) /\ Cardinality(chosen) \in Nat /\ Cardinality(now.listed) \in Nat
    BY <1>1, WorkersAreFinite
  <2>5. Cardinality(before) = Cardinality(chosen) - 1
    BY <2>1, <2>3, <2>4, FS_RemoveElement
  <2> HIDE DEF before
  <2>6. QED BY <1>1, <2>2, <2>4, <2>5
<1>6. QED BY <1>3, <1>4, <1>5

LEMMA PlanKeeps ==
  ASSUME IInv, NEW c \in Calls, Plan(c) PROVE IInv'
<1>1. PICK resting, chosen :
        /\ Selected(c, resting, chosen)
        /\ call' = [call EXCEPT ![c] = IF chosen = {} THEN Free ELSE
                      [@ EXCEPT !.at = "dispatching", !.chosen = chosen, !.todo = chosen]]
  BY DEF Plan
<1>2. UNCHANGED <<task, worker>>
  BY DEF Plan
<1>3. WorkersKeep' /\ RowsPersist
  BY <1>2, TasksStay
<1>4. CASE chosen = {}
  BY <1>1, <1>3, <1>4, CallEnds
<1>5. CASE chosen # {}
  <2> DEFINE now == call[c]
             next == [now EXCEPT !.at = "dispatching", !.chosen = chosen, !.todo = chosen]
  <2>1. now \in CallRecords /\ CallHolds(c) /\ chosen \subseteq now.queued
    BY <1>1 DEF IInv, CallTypes, CallsHold, Selected
  <2>2. call' = [call EXCEPT ![c] = next]
    BY <1>1, <1>5
  <2>3. now.queued \in SUBSET Worker /\ now.listed \cup now.queued \subseteq Made
    BY <2>1 DEF CallRecords, CallHolds
  <2>4. /\ \A w \in chosen :
             /\ \A v \in now.listed \cup chosen : v # w => Apart(w, v)
             /\ \A d \in Needs[worker[w].task] : task[d] = "completed"
        /\ Cardinality(now.listed) + Cardinality(chosen) <= now.limit
    BY <1>1, <1>5, ChosenAreApart
  <2> HIDE DEF now
  <2>5. /\ next \in CallRecords /\ next.at = "dispatching"
        /\ next.listed = now.listed /\ next.queued = now.queued
        /\ next.chosen = chosen /\ next.todo = chosen /\ next.limit = now.limit
    BY <2>1, <2>3 DEF CallRecords
  <2> HIDE DEF next
  <2>6. call'[c] = next
    BY <2>2 DEF IInv, CallTypes
  <2>7. CallHolds(c)'
    BY <1>2, <2>1, <2>3, <2>4, <2>5, <2>6 DEF CallHolds, Made, Apart
  <2>8. QED BY <1>3, <2>2, <2>5, <2>7, CallMoves
<1>6. QED BY <1>4, <1>5

LEMMA DispatchKeeps ==
  ASSUME IInv, NEW c \in Calls, NEW w \in Worker, Dispatch(c, w) PROVE IInv'
<1> DEFINE now == call[c]
           known == now.listed \cup now.chosen
           next == [now EXCEPT !.todo = now.todo \ {w}]
<1>1. /\ now \in CallRecords /\ CallHolds(c) /\ now.at = "dispatching"
      /\ w \in now.todo /\ UNCHANGED task
  BY DEF IInv, CallTypes, CallsHold, Dispatch
<1>2. /\ w \in now.chosen
      /\ \A v \in known : v # w => Apart(w, v)
      /\ \A d \in Needs[worker[w].task] : task[d] = "completed"
  BY <1>1 DEF CallHolds
<1>3. WorkersKeep' /\ RowsPersist
  <2>1. CASE worker[w].status = "queued"
    <3>1. worker' = Started(w, TRUE, known) /\ known \in SUBSET Worker
      BY <1>1, <2>1 DEF Dispatch, CallRecords
    <3> HIDE DEF known
    <3>2. QED BY <1>1, <1>2, <2>1, <3>1, StartedKeeps DEF IInv
  <2>2. CASE worker[w].status # "queued"
    BY <1>1, <2>2, TasksStay DEF Dispatch
  <2>3. QED BY <2>1, <2>2
<1>4. CASE now.todo = {w}
  BY <1>3, <1>4, CallEnds DEF Dispatch
<1>5. CASE now.todo # {w}
  <2>1. call' = [call EXCEPT ![c] = next]
    BY <1>5 DEF Dispatch, IInv, CallTypes
  <2> HIDE DEF now
  <2>2. /\ next \in CallRecords
        /\ next.at = now.at /\ next.limit = now.limit /\ next.task = now.task
        /\ next.claims = now.claims /\ next.listed = now.listed
        /\ next.queued = now.queued /\ next.chosen = now.chosen
        /\ next.todo = now.todo \ {w}
    BY <1>1 DEF CallRecords
  <2> HIDE DEF next
  <2>3. call'[c] = next
    BY <2>1 DEF IInv, CallTypes
  <2>4. CallHolds(c)'
    BY <1>1, <1>3, <2>2, <2>3, CallKeepsHolding DEF GoesOn, IInv, WorkersKeep, now
  <2>5. QED BY <1>3, <2>1, <2>2, <2>4, CallMoves
<1>6. QED BY <1>4, <1>5

LEMMA WorkerStepKeeps ==
  ASSUME IInv, NEW w \in Worker,
         StartDirectly(w) \/ Fail(w) \/ Complete(w) \/ CancelWorker(w) \/ Requeue(w)
  PROVE  IInv'
<1>1. UNCHANGED call
  BY DEF StartDirectly, Fail, Complete, CancelWorker, Requeue
<1>2. task \in [Tasks -> {"open", "completed", "cancelled"}]
  BY DEF IInv, WorkersKeep, Types
<1>3. CASE StartDirectly(w)
  <2>1. worker' = Started(w, FALSE, {}) /\ worker[w].status = "queued" /\ UNCHANGED task
    BY <1>3 DEF StartDirectly
  <2> DEFINE known == {}
             planned == FALSE
  <2>2. worker' = Started(w, planned, known) /\ planned \in BOOLEAN /\ known \in SUBSET Worker
    BY <2>1
  <2>3. (\A v \in known : v # w => Apart(w, v)) /\ ~planned
    OBVIOUS
  <2> HIDE DEF known, planned
  <2>4. WorkersKeep
    BY DEF IInv
  <2>5. WorkersKeep' /\ RowsPersist
    BY <2>1, <2>2, <2>3, <2>4, StartedKeeps
  <2>6. QED BY <1>1, <2>5, CallsStay
<1>4. CASE Fail(w)
  <2>1. worker' = Ended(w, "idle") /\ worker[w].status # "absent" /\ UNCHANGED task
    BY <1>4 DEF Fail
  <2>2. WorkersKeep' /\ RowsPersist
    BY <1>2, <2>1, EndedKeeps DEF IInv
  <2>3. QED BY <1>1, <2>2, CallsStay
<1>5. CASE Complete(w)
  <2>1. /\ worker' = Ended(w, "over") /\ worker[w].status # "absent"
        /\ task' = [task EXCEPT ![worker[w].task] = "completed"]
    BY <1>5 DEF Complete
  <2>2. WorkersKeep' /\ RowsPersist
    BY <1>2, <2>1, EndedKeeps DEF IInv
  <2>3. QED BY <1>1, <2>2, CallsStay
<1>6. CASE CancelWorker(w)
  <2>1. /\ worker' = Ended(w, "over") /\ worker[w].status # "absent"
        /\ task' = [task EXCEPT ![worker[w].task] = IF @ = "open" THEN "cancelled" ELSE @]
    BY <1>6 DEF CancelWorker
  <2>2. /\ task' \in [Tasks -> {"open", "completed", "cancelled"}]
        /\ \A t \in Tasks : task[t] = "completed" => task'[t] = "completed"
    BY <1>2, <2>1
  <2>3. WorkersKeep' /\ RowsPersist
    BY <2>1, <2>2, EndedKeeps DEF IInv
  <2>4. QED BY <1>1, <2>3, CallsStay
<1>7. CASE Requeue(w)
  BY <1>1, <1>7, RequeuedKeeps, CallsStay DEF IInv
<1>8. QED BY <1>3, <1>4, <1>5, <1>6, <1>7

LEMMA CancelTaskKeeps ==
  ASSUME IInv, NEW t \in Tasks, CancelTask(t) PROVE IInv'
<1>1. /\ UNCHANGED <<worker, call>> /\ task[t] = "open"
      /\ task' = [task EXCEPT ![t] = "cancelled"]
  BY DEF CancelTask
<1>2. task \in [Tasks -> {"open", "completed", "cancelled"}]
  BY DEF IInv, WorkersKeep, Types
<1>3. WorkersKeep' /\ RowsPersist
  BY <1>1, <1>2, WorkersRest DEF IInv
<1>4. QED BY <1>1, <1>3, CallsStay

LEMMA InitInvariant == Init => IInv
<1> SUFFICES ASSUME Init PROVE IInv
  OBVIOUS
<1>1. Absent \in WorkerRecords /\ Absent.status = "absent"
  BY DEF Absent, WorkerRecords, Statuses
<1>2. Types /\ Made = {} /\ Holders = {} /\ LiveWorkers = {}
  BY <1>1 DEF Init, Types, Made, Holders, LiveWorkers, InStatus
<1>3. WorkersKeep
  BY <1>2 DEF WorkersKeep, MadeInOrder, ListedAreApart, KnownAreApart,
             PlannedWorkHasItsDependencies
<1>4. CallTypes
  BY FreeCall DEF Init, CallTypes
<1>5. CallsHold
  BY DEF Init, CallsHold, CallHolds, Free
<1>6. QED BY <1>3, <1>4, <1>5 DEF IInv

LEMMA StepInvariant == IInv /\ [Next]_vars => IInv'
<1> SUFFICES ASSUME IInv, [Next]_vars PROVE IInv'
  OBVIOUS
<1>1. ASSUME NEW c \in Calls, NEW t \in Tasks, NEW claims \in ClaimSets[t],
             Delegate(c, t, claims)
      PROVE  IInv'
  BY <1>1, DelegateKeeps
<1>2. ASSUME NEW c \in Calls, Insert(c) \/ Plan(c)
      PROVE  IInv'
  BY <1>2, InsertKeeps, PlanKeeps
<1>3. ASSUME NEW c \in Calls, NEW limit \in Limits, ReadWorkers(c, limit)
      PROVE  IInv'
  BY <1>3, ReadWorkersKeeps
<1>4. ASSUME NEW c \in Calls, NEW w \in Worker, Dispatch(c, w)
      PROVE  IInv'
  BY <1>4, DispatchKeeps
<1>5. ASSUME NEW w \in Worker,
             StartDirectly(w) \/ Fail(w) \/ Complete(w) \/ CancelWorker(w) \/ Requeue(w)
      PROVE  IInv'
  BY <1>5, WorkerStepKeeps
<1>6. ASSUME NEW t \in Tasks, CancelTask(t)
      PROVE  IInv'
  BY <1>6, CancelTaskKeeps
<1>7. CASE UNCHANGED vars
  <2>1. UNCHANGED <<task, worker, call>>
    BY <1>7 DEF vars
  <2>2. WorkersKeep' /\ RowsPersist
    BY <2>1, TasksStay
  <2>3. QED BY <2>1, <2>2, CallsStay
<1>8. QED BY <1>1, <1>2, <1>3, <1>4, <1>5, <1>6, <1>7 DEF Next

(* Two workers that may write the same file hold their claims at once only *)
(* if one was started past the plan, or by a plan made before the other    *)
(* one held: for any claims, and whatever fails, comes back or is          *)
(* delegated meanwhile.                                                    *)
THEOREM HoldersAreApart == Spec => []SharedFilesNeedAStalePlan
<1>1. IInv => SharedFilesNeedAStalePlan
  <2> SUFFICES ASSUME IInv, NEW v \in Holders, NEW w \in Holders, v # w, Overlap(v, w)
               PROVE  v \in worker[w].unplanned \/ w \in worker[v].unplanned
    BY DEF SharedFilesNeedAStalePlan
  <2>1. v \in Worker /\ w \in Worker
    BY DEF Holders, InStatus
  <2>2. ~Apart(v, w)
    BY <2>1, ApartShareNothing DEF IInv, WorkersKeep
  <2>3. QED BY <2>2 DEF IInv, WorkersKeep, KnownAreApart
<1>2. QED BY <1>1, InitInvariant, StepInvariant, PTL DEF Spec

(* Two live workers claim the same file only if the later one was inserted *)
(* on a list that lacked the earlier one, or if one was requeued.          *)
THEOREM DelegationsAreApart == Spec => []SharedClaimsNeedARace
<1>1. IInv => SharedClaimsNeedARace
  <2> SUFFICES ASSUME IInv, NEW v \in LiveWorkers, NEW w \in LiveWorkers, v < w, Overlap(v, w)
               PROVE  v \in worker[w].unlisted \/ worker[v].requeued \/ worker[w].requeued
    BY DEF SharedClaimsNeedARace
  <2>1. v \in Worker /\ w \in Worker
    BY DEF LiveWorkers, InStatus
  <2>2. ~Apart(w, v)
    BY <2>1, ApartShareNothing DEF IInv, WorkersKeep
  <2>3. QED BY <2>2 DEF IInv, WorkersKeep, ListedAreApart
<1>2. QED BY <1>1, InitInvariant, StepInvariant, PTL DEF Spec

(* A worker that a plan started works on a task whose dependencies are     *)
(* completed, however old the plan was.                                    *)
THEOREM DependenciesComeFirst == Spec => []PlannedWorkHasItsDependencies
<1>1. IInv => PlannedWorkHasItsDependencies
  BY DEF IInv, WorkersKeep
<1>2. QED BY <1>1, InitInvariant, StepInvariant, PTL DEF Spec

(* A dispatch leaves no more holders than its limit, unless one came in    *)
(* that its plan did not know of.                                          *)
THEOREM LimitHolds == Spec => CrowdNeedsAStalePlan
<1> DEFINE Crowd == \A c \in Calls : \A w \in call[c].todo :
             /\ call'[c] # call[c]
             /\ worker[w].status = "queued" /\ worker'[w].status = "holding"
             /\ worker'[w].unplanned = {}
             => Cardinality(Holders') <= call[c].limit
<1>1. IInv /\ IInv' /\ Next => Crowd
  <2> SUFFICES ASSUME IInv, IInv', Next, NEW c \in Calls, NEW w \in call[c].todo,
                      call'[c] # call[c], worker[w].status = "queued",
                      worker'[w].status = "holding", worker'[w].unplanned = {}
               PROVE  Cardinality(Holders') <= call[c].limit
    OBVIOUS
  <2>1. /\ call[c] \in CallRecords /\ CallHolds(c)
        /\ w \in Worker /\ worker \in [Worker -> WorkerRecords]
    BY DEF IInv, CallTypes, CallsHold, CallRecords, WorkersKeep, Types
  <2>2. Dispatch(c, w)
    <3>1. ASSUME NEW d \in Calls, NEW v \in Worker, Dispatch(d, v)
          PROVE  Dispatch(c, w)
      <4>1. d = c
        BY <3>1 DEF Dispatch, IInv, CallTypes
      <4>2. v = w
        BY <2>1, <3>1 DEF Dispatch, Started
      <4>3. QED BY <3>1, <4>1, <4>2
    <3>2. ASSUME NEW d \in Calls, NEW t \in Tasks, NEW claims \in ClaimSets[t],
                 Delegate(d, t, claims)
          PROVE  FALSE
      BY <3>2 DEF Delegate
    <3>3. ASSUME NEW d \in Calls, Insert(d) PROVE FALSE
      <4>1. PICK new, row : /\ row.status # "holding"
                            /\ \/ worker' = [worker EXCEPT ![new] = row]
                               \/ worker' = worker
        <5> DEFINE t == call[d].task
                   new == Cardinality(InStatus(Statuses \ {"absent"})) + 1
                   row == [Absent EXCEPT !.status = "queued", !.task = t,
                             !.claims = call[d].claims,
                             !.unlisted = LiveWorkers \ call[d].listed]
        <5>1. row.status = "queued"
          BY DEF Absent
        <5>2. worker' = [worker EXCEPT ![new] = row] \/ worker' = worker
          BY <3>3 DEF Insert
        <5> HIDE DEF row, new
        <5>3. QED BY <5>1, <5>2
      <4>2. QED BY <2>1, <4>1
    <3>4. ASSUME NEW d \in Calls, Plan(d) PROVE FALSE
      BY <3>4 DEF Plan
    <3>5. ASSUME NEW d \in Calls, NEW limit \in Limits, ReadWorkers(d, limit) PROVE FALSE
      BY <3>5 DEF ReadWorkers
    <3>6. ASSUME NEW v \in Worker,
                 StartDirectly(v) \/ Fail(v) \/ Complete(v) \/ CancelWorker(v) \/ Requeue(v)
          PROVE  FALSE
      BY <3>6 DEF StartDirectly, Fail, Complete, CancelWorker, Requeue
    <3>7. ASSUME NEW t \in Tasks, CancelTask(t) PROVE FALSE
      BY <3>7 DEF CancelTask
    <3>8. QED BY <3>1, <3>2, <3>3, <3>4, <3>5, <3>6, <3>7 DEF Next
  <2> DEFINE known == call[c].listed \cup call[c].chosen
  <2>3. /\ worker' = Started(w, TRUE, known) /\ known \in SUBSET Worker
        /\ w \in known /\ call[c].at = "dispatching"
    BY <2>1, <2>2 DEF Dispatch, CallHolds, CallRecords
  <2>4. Cardinality(known) <= call[c].limit
    <3>1. call[c].listed \in SUBSET Worker /\ call[c].chosen \in SUBSET Worker
          /\ call[c].limit \in Nat
      BY <2>1 DEF CallRecords
    <3>2. Cardinality(call[c].listed) + Cardinality(call[c].chosen) <= call[c].limit
      BY <2>1, <2>3 DEF CallHolds
    <3>3. Cardinality(known) <= Cardinality(call[c].listed) + Cardinality(call[c].chosen)
      <4>1. /\ IsFiniteSet(call[c].listed) /\ Cardinality(call[c].listed) \in Nat
            /\ IsFiniteSet(call[c].chosen) /\ Cardinality(call[c].chosen) \in Nat
        BY <3>1, WorkersAreFinite
      <4>2. Cardinality(known) = Cardinality(call[c].listed) + Cardinality(call[c].chosen)
                                 - Cardinality(call[c].listed \cap call[c].chosen)
        BY <4>1, FS_Union
      <4>3. Cardinality(call[c].listed \cap call[c].chosen) \in Nat
        BY <3>1, WorkersAreFinite
      <4>4. QED BY <4>1, <4>2, <4>3
    <3>4. Cardinality(known) \in Nat
      BY <2>3, WorkersAreFinite
    <3>5. /\ Cardinality(call[c].listed) \in Nat
          /\ Cardinality(call[c].chosen) \in Nat
      BY <3>1, WorkersAreFinite
    <3> HIDE DEF known
    <3>6. QED BY <3>1, <3>2, <3>3, <3>4, <3>5
  <2> HIDE DEF known
  <2>5. Holders' \subseteq known
    <3>1. Holders \subseteq known
      BY <2>1, <2>3 DEF Started, WorkerRecords
    <3>2. \A v \in Worker : v # w => worker'[v] = worker[v]
      BY <2>1, <2>3 DEF Started
    <3>3. QED BY <2>3, <3>1, <3>2 DEF Holders, InStatus
  <2>6. Cardinality(Holders') <= Cardinality(known)
    BY <2>3, <2>5, WorkersAreFinite, FS_Subset
  <2>7. /\ Cardinality(known) \in Nat /\ Cardinality(Holders') \in Nat
        /\ call[c].limit \in Nat
    BY <2>1, <2>3, <2>5, WorkersAreFinite DEF CallRecords
  <2>8. QED BY <2>4, <2>6, <2>7
<1>2. IInv /\ IInv' /\ [Next]_vars => [Crowd]_vars
  BY <1>1
<1>3. QED BY <1>2, InitInvariant, StepInvariant, PTL DEF Spec, CrowdNeedsAStalePlan

----------------------------------------------------------------------------
(***************************************************************************)
(* Dependencies: TaskDependencies for any tasks and call slots.  That no   *)
(* walk misses an edge is WalksAreClosed: the tasks visited and to be      *)
(* visited are closed under the edges of those visited.  Only an addition  *)
(* on another task could add an edge to them.                              *)
(***************************************************************************)

\* Every nonempty set of tasks has one without an edge into the set.
NoLoop(D) == \A S \in (SUBSET Task) \ {{}} : \E w \in S : D[w] \cap S = {}

LEMMA AcyclicIsNoLoop == Acyclic <=> NoLoop(deps)
BY DEF Acyclic, NoLoop

(***************************************************************************)
(* An edge t -> u closes no loop if u reaches, by the edges there are, only *)
(* tasks of a set closed under them without t.                             *)
(***************************************************************************)
LEMMA ClosedSetsGuardEdges ==
  ASSUME NEW D \in [Task -> SUBSET Task], NEW t \in Task, NEW u \in Task,
         NEW V \in SUBSET Task, u \in V, t \notin V, \A v \in V : D[v] \subseteq V,
         NoLoop(D),
         NEW E, E = [D EXCEPT ![t] = @ \cup {u}]
  PROVE  NoLoop(E)
<1> USE DEF NoLoop
<1> SUFFICES ASSUME NEW S \in SUBSET Task, S # {}
             PROVE  \E w \in S : E[w] \cap S = {}
  OBVIOUS
<1>1. CASE S \cap V # {}
  <2>1. PICK w \in S \cap V : D[w] \cap (S \cap V) = {}
    BY <1>1
  <2>2. w # t /\ D[w] \cap S = {}
    BY <2>1
  <2> QED
    BY <2>1, <2>2
<1>2. CASE S \cap V = {}
  <2>1. PICK w \in S : D[w] \cap S = {}
    OBVIOUS
  <2>2. u \notin S
    BY <1>2
  <2> QED
    BY <2>1, <2>2
<1> QED
  BY <1>1, <1>2

\* Fewer edges close no loop.
LEMMA FewerEdges ==
  ASSUME NEW D \in [Task -> SUBSET Task], NEW E \in [Task -> SUBSET Task],
         \A w \in Task : E[w] \subseteq D[w],
         NoLoop(D)
  PROVE  NoLoop(E)
BY DEF NoLoop

LEMMA LinksInit == LinkInit => LoopInv
<1> SUFFICES ASSUME LinkInit PROVE LoopInv
  OBVIOUS
<1> USE DEF LinkInit, NoEdit, InFlight
<1>1. TypeOK
  BY DEF TypeOK, EditRecord
<1>2. OnlyCreatedAreLinked /\ CallsAreOnCreated
  BY DEF OnlyCreatedAreLinked, CallsAreOnCreated
<1>3. OneTaskAtATime /\ NothingVisitedYet /\ WalksAreClosed
  BY DEF OneTaskAtATime, NothingVisitedYet, WalksAreClosed, Adds
<1>4. \A S \in (SUBSET Task) \ {{}} : \E t \in S : deps[t] \cap S = {}
  OBVIOUS
<1>5. LoopNeedsTwoTasks
  BY <1>4 DEF LoopNeedsTwoTasks, Acyclic
<1> QED
  BY <1>1, <1>2, <1>3, <1>5 DEF LoopInv

\* A task that is new waits for tasks there were, and nothing waits for it.
LEMMA NewTasksCloseNoLoop ==
  ASSUME NEW D \in [Task -> SUBSET Task], NEW made \in SUBSET Task,
         \A t \in Task : D[t] \subseteq made,
         NoLoop(D),
         NEW t \in Task, t \notin made, NEW on \in SUBSET made,
         NEW E, E = [D EXCEPT ![t] = on]
  PROVE  NoLoop(E)
<1> USE DEF NoLoop
<1> SUFFICES ASSUME NEW S \in SUBSET Task, S # {}
             PROVE  \E w \in S : E[w] \cap S = {}
  OBVIOUS
<1>1. CASE S = {t}
  BY <1>1
<1>2. CASE S # {t}
  <2>0. S \ {t} \in (SUBSET Task) \ {{}}
    BY <1>2
  <2>1. PICK w \in S \ {t} : D[w] \cap (S \ {t}) = {}
    BY <2>0
  <2>2. t \notin D[w]
    BY <2>1
  <2> QED
    BY <2>1, <2>2
<1> QED
  BY <1>1, <1>2

LEMMA CreationKeepsLoopInv ==
  ASSUME LoopInv, NEW t \in Task, NEW on \in SUBSET Task, CreateTask(t, on)
  PROVE  LoopInv'
<1> USE DEF LoopInv, CreateTask
<1>1. TypeOK'
  BY DEF TypeOK
<1>2. OnlyCreatedAreLinked'
  BY DEF OnlyCreatedAreLinked, TypeOK
<1>3. CallsAreOnCreated'
  BY DEF CallsAreOnCreated, InFlight
<1>4. OneTaskAtATime' /\ NothingVisitedYet'
  BY DEF OneTaskAtATime, NothingVisitedYet, Adds, InFlight
<1>5. WalksAreClosed'
  <2> SUFFICES ASSUME NEW c \in Edit, edit[c].stage = "walk"
               PROVE  /\ edit[c].op = "add"
                      /\ edit[c].visited \cup edit[c].todo \subseteq created'
                      /\ edit[c].on \in edit[c].visited \cup edit[c].todo
                      /\ edit[c].task \notin edit[c].visited
                      /\ overlap' \/ \A u \in edit[c].visited :
                           deps'[u] \subseteq edit[c].visited \cup edit[c].todo
    BY DEF WalksAreClosed
  <2>1. /\ edit[c].op = "add"
        /\ edit[c].visited \cup edit[c].todo \subseteq created
        /\ edit[c].on \in edit[c].visited \cup edit[c].todo
        /\ edit[c].task \notin edit[c].visited
        /\ overlap \/ \A u \in edit[c].visited :
             deps[u] \subseteq edit[c].visited \cup edit[c].todo
    BY DEF WalksAreClosed
  <2>2. \A u \in edit[c].visited : deps'[u] = deps[u]
    BY <2>1 DEF TypeOK
  <2> QED
    BY <2>1, <2>2
<1>6. LoopNeedsTwoTasks'
  <2> SUFFICES ASSUME ~overlap PROVE NoLoop(deps')
    BY DEF LoopNeedsTwoTasks, Acyclic, NoLoop
  <2>1. /\ deps \in [Task -> SUBSET Task] /\ created \in SUBSET Task
        /\ deps' = [deps EXCEPT ![t] = on] /\ on \in SUBSET created /\ t \notin created
    BY DEF TypeOK
  <2>2. \A u \in Task : deps[u] \subseteq created
    BY DEF OnlyCreatedAreLinked
  <2>3. NoLoop(deps)
    BY AcyclicIsNoLoop DEF LoopNeedsTwoTasks
  <2> QED
    BY <2>1, <2>2, <2>3, NewTasksCloseNoLoop
<1> QED
  BY <1>1, <1>2, <1>3, <1>4, <1>5, <1>6 DEF LoopInv

(***************************************************************************)
(* A step that leaves the edges alone and changes one call at most: what is *)
(* left to show is about that call.                                        *)
(***************************************************************************)
LEMMA CallsKeepLoopInv ==
  ASSUME LoopInv, NEW c \in Edit, NEW k \in EditRecord,
         UNCHANGED <<created, deps>>, seq' \in [Task -> Nat],
         edit' = [edit EXCEPT ![c] = k],
         overlap' \in BOOLEAN, overlap => overlap',
         k.stage # "free" => k.task \in created /\ k.on \in created,
         k.stage # "free" /\ k.op = "add" =>
           \/ overlap'
           \/ Adds(c) /\ k.task = edit[c].task
           \/ \A d \in Edit : Adds(d) => edit[d].task = k.task,
         k.stage # "walk" => k.visited = {},
         k.stage = "walk" =>
           /\ k.op = "add"
           /\ k.visited \cup k.todo \subseteq created
           /\ k.on \in k.visited \cup k.todo
           /\ k.task \notin k.visited
           /\ overlap \/ \A u \in k.visited : deps[u] \subseteq k.visited \cup k.todo
  PROVE  LoopInv'
<1> USE DEF LoopInv
<1>0. /\ edit \in [Edit -> EditRecord]
      /\ edit'[c] = k
      /\ \A d \in Edit : d # c => edit'[d] = edit[d]
  BY DEF TypeOK
<1>1. TypeOK'
  BY <1>0 DEF TypeOK
<1>2. OnlyCreatedAreLinked'
  BY DEF OnlyCreatedAreLinked
<1>3. CallsAreOnCreated'
  BY <1>0 DEF CallsAreOnCreated, InFlight
<1>4. OneTaskAtATime'
  <2> SUFFICES ASSUME ~overlap', NEW d \in Edit, NEW e \in Edit,
                      Adds(d)', Adds(e)'
               PROVE  edit'[d].task = edit'[e].task
    BY DEF OneTaskAtATime
  <2>1. \A x, y \in Edit : Adds(x) /\ Adds(y) => edit[x].task = edit[y].task
    BY DEF OneTaskAtATime
  <2>2. \A x \in Edit : x # c /\ Adds(x)' => Adds(x) /\ edit'[x] = edit[x]
    BY <1>0 DEF Adds, InFlight
  <2>3. Adds(c)' => k.stage # "free" /\ k.op = "add"
    BY <1>0 DEF Adds, InFlight
  <2>4. \A x \in Edit : x # c /\ Adds(x)' /\ Adds(c)' => edit'[x].task = k.task
    BY <2>1, <2>2, <2>3
  <2> QED
    BY <1>0, <2>1, <2>2, <2>4
<1>5. NothingVisitedYet' /\ WalksAreClosed'
  BY <1>0 DEF NothingVisitedYet, WalksAreClosed
<1>6. LoopNeedsTwoTasks'
  BY DEF LoopNeedsTwoTasks, Acyclic
<1> QED
  BY <1>1, <1>2, <1>3, <1>4, <1>5, <1>6

LEMMA ReturnKeepsLoopInv ==
  ASSUME LoopInv, NEW c \in Edit, Return(c)
  PROVE  LoopInv'
<1>1. /\ NoEdit \in EditRecord
      /\ NoEdit.stage = "free" /\ NoEdit.visited = {}
  BY DEF NoEdit, EditRecord
<1> QED
  BY <1>1, CallsKeepLoopInv DEF Return, LoopInv, TypeOK

LEMMA RequireTaskKeepsLoopInv ==
  ASSUME LoopInv, NEW c \in Edit, NEW op \in {"add", "remove"},
         NEW t \in Task, NEW on \in Task, RequireTask(c, op, t, on)
  PROVE  LoopInv'
<1> DEFINE k == [NoEdit EXCEPT !.stage = "dependencies", !.op = op,
                                   !.task = t, !.on = on, !.deps = deps[t]]
<1>1. /\ k \in EditRecord /\ k.stage = "dependencies"
      /\ k.op = op /\ k.task = t /\ k.on = on /\ k.visited = {}
  BY DEF NoEdit, EditRecord, LoopInv, TypeOK
<1>2. op = "add" => overlap' \/ \A d \in Edit : Adds(d) => edit[d].task = t
  BY DEF RequireTask, Overlaps, Adds
<1>3. /\ UNCHANGED <<created, deps>> /\ seq' \in [Task -> Nat]
      /\ edit' = [edit EXCEPT ![c] = k]
      /\ overlap' \in BOOLEAN /\ (overlap => overlap')
      /\ t \in created /\ on \in created
  BY DEF RequireTask, LoopInv, TypeOK, Overlaps
<1> HIDE DEF k
<1> QED
  BY <1>1, <1>2, <1>3, CallsKeepLoopInv

LEMMA ReadEventSeqKeepsLoopInv ==
  ASSUME LoopInv, NEW c \in Edit, ReadEventSeq(c)
  PROVE  LoopInv'
<1> DEFINE k == [edit[c] EXCEPT !.stage = "ready", !.seq = seq[edit[c].task]]
<1>0. edit[c] \in EditRecord /\ edit[c].stage = "dependencies"
  BY DEF ReadEventSeq, LoopInv, TypeOK
<1>a. edit[c].task \in created /\ edit[c].on \in created
  BY <1>0 DEF LoopInv, CallsAreOnCreated, InFlight
<1>b. seq[edit[c].task] \in Nat
  BY <1>a DEF LoopInv, TypeOK
<1>1. /\ k \in EditRecord /\ k.stage = "ready"
      /\ k.op = edit[c].op /\ k.task = edit[c].task /\ k.on = edit[c].on
      /\ k.visited = {}
  BY <1>0, <1>b DEF EditRecord, LoopInv, NothingVisitedYet
<1>2. Adds(c) <=> edit[c].op = "add"
  BY <1>0 DEF Adds, InFlight
<1>3. /\ UNCHANGED <<created, deps>> /\ seq' \in [Task -> Nat]
      /\ edit' = [edit EXCEPT ![c] = k]
      /\ overlap' = overlap /\ overlap \in BOOLEAN
  BY DEF ReadEventSeq, LoopInv, TypeOK
<1> HIDE DEF k
<1> QED
  BY <1>a, <1>1, <1>2, <1>3, CallsKeepLoopInv

LEMMA OtherEventKeepsLoopInv ==
  ASSUME LoopInv, NEW t \in Task, OtherEvent(t)
  PROVE  LoopInv'
<1>1. TypeOK'
  BY DEF LoopInv, TypeOK, OtherEvent
<1> QED
  BY <1>1 DEF LoopInv, OtherEvent, OnlyCreatedAreLinked,
     CallsAreOnCreated, OneTaskAtATime, NothingVisitedYet,
     WalksAreClosed,
     LoopNeedsTwoTasks, Acyclic, InFlight, Adds

\* What the invariant says of a call in flight.
LEMMA InFlightFacts ==
  ASSUME LoopInv, NEW c \in Edit, edit[c].stage # "free"
  PROVE  /\ edit[c] \in EditRecord
         /\ edit[c].task \in created /\ edit[c].on \in created
         /\ created \subseteq Task
         /\ Adds(c) <=> edit[c].op = "add"
BY DEF LoopInv, TypeOK, CallsAreOnCreated, Adds, InFlight

LEMMA StartWalkKeepsLoopInv ==
  ASSUME LoopInv, NEW c \in Edit, StartWalk(c)
  PROVE  LoopInv'
<1> DEFINE k == [edit[c] EXCEPT !.stage = "walk", !.todo = {edit[c].on}]
<1>0. edit[c].stage = "ready" /\ edit[c].op = "add"
  BY DEF StartWalk
<1>1. /\ k \in EditRecord /\ k.op = "add" /\ k.task = edit[c].task
      /\ k.on = edit[c].on /\ k.todo = {edit[c].on}
      /\ k.visited = {} /\ k.stage = "walk"
  BY <1>0, InFlightFacts DEF EditRecord, LoopInv, NothingVisitedYet
<1>2. edit' = [edit EXCEPT ![c] = k]
  BY <1>0 DEF StartWalk, LoopInv, TypeOK, EditRecord
<1>3. /\ UNCHANGED <<created, deps>> /\ seq' \in [Task -> Nat]
      /\ overlap' = overlap /\ overlap \in BOOLEAN
  BY DEF StartWalk, LoopInv, TypeOK
<1>4. /\ edit[c].task \in created /\ edit[c].on \in created /\ Adds(c)
  BY <1>0, InFlightFacts
<1> HIDE DEF k
<1> QED
  BY <1>1, <1>2, <1>3, <1>4, CallsKeepLoopInv

LEMMA VisitKeepsLoopInv ==
  ASSUME LoopInv, NEW c \in Edit, NEW u \in Task, Visit(c, u)
  PROVE  LoopInv'
<1>1. CASE Return(c)
  BY <1>1, ReturnKeepsLoopInv
<1>2. CASE ~Return(c)
  <2> DEFINE k == [edit[c] EXCEPT !.visited = @ \cup {u},
                                      !.todo = (@ \ {u}) \cup deps[u]]
  <2>1. /\ edit[c].stage = "walk" /\ u \in edit[c].todo /\ u # edit[c].task
        /\ UNCHANGED <<created, deps, seq, overlap>>
        /\ edit' = [edit EXCEPT ![c].visited = @ \cup {u},
                                         ![c].todo = (@ \ {u}) \cup deps[u]]
    BY <1>2 DEF Visit, Pending
  <2>2. /\ deps[u] \in SUBSET Task /\ deps[u] \subseteq created
        /\ seq' \in [Task -> Nat] /\ overlap \in BOOLEAN
        /\ edit \in [Edit -> EditRecord]
    BY <2>1 DEF LoopInv, TypeOK, OnlyCreatedAreLinked
  <2>3. /\ k \in EditRecord /\ k.stage = "walk" /\ k.op = edit[c].op
        /\ k.task = edit[c].task /\ k.on = edit[c].on
        /\ k.visited = edit[c].visited \cup {u}
        /\ k.todo = (edit[c].todo \ {u}) \cup deps[u]
    BY <2>1, <2>2, InFlightFacts DEF EditRecord
  <2>4. edit' = [edit EXCEPT ![c] = k]
    BY <2>1, <2>2 DEF EditRecord
  <2> HIDE DEF k
  <2>5. /\ edit[c].op = "add"
        /\ edit[c].visited \cup edit[c].todo \subseteq created
        /\ edit[c].on \in edit[c].visited \cup edit[c].todo
        /\ edit[c].task \notin edit[c].visited
        /\ overlap \/ \A v \in edit[c].visited :
             deps[v] \subseteq edit[c].visited \cup edit[c].todo
    BY <2>1 DEF LoopInv, WalksAreClosed
  <2>6. edit[c].visited \cup edit[c].todo \subseteq k.visited \cup k.todo
    BY <2>3
  <2>7. /\ k.visited \cup k.todo \subseteq created /\ k.task \notin k.visited
        /\ k.on \in k.visited \cup k.todo
    BY <2>1, <2>2, <2>3, <2>5, <2>6
  <2>8. overlap \/ \A v \in k.visited : deps[v] \subseteq k.visited \cup k.todo
    BY <2>3, <2>5, <2>6
  <2>9. /\ k.task \in created /\ k.on \in created /\ Adds(c)
        /\ k.op = "add" /\ k.task = edit[c].task
        /\ UNCHANGED <<created, deps>> /\ overlap' = overlap
    BY <2>1, <2>3, <2>5, InFlightFacts
  <2>10. k \in EditRecord /\ k.stage = "walk"
    BY <2>3
  <2> QED
    BY <2>2, <2>4, <2>7, <2>8, <2>9, <2>10, CallsKeepLoopInv
<1> QED
  BY <1>1, <1>2

(***************************************************************************)
(* The transaction, on edges that there may be: none to tasks there are    *)
(* not, none closing a loop, and new ones only from the task of an         *)
(* addition, which no other walk has visited.                              *)
(***************************************************************************)
LEMMA WriteKeepsLoopInv ==
  ASSUME LoopInv, NEW c \in Edit, InFlight(c),
         NEW edges \in SUBSET created, Write(c, edges),
         Adds(c) \/ edges \subseteq deps[edit[c].task],
         overlap \/ NoLoop([deps EXCEPT ![edit[c].task] = edges])
  PROVE  LoopInv'
<1> DEFINE t == edit[c].task
<1>0. /\ t \in created /\ created \subseteq Task /\ NoEdit \in EditRecord
      /\ deps \in [Task -> SUBSET Task] /\ seq \in [Task -> Nat]
      /\ edit \in [Edit -> EditRecord]
  BY InFlightFacts DEF InFlight, LoopInv, TypeOK, NoEdit, EditRecord
<1> HIDE DEF t
<1>1. /\ UNCHANGED <<created, overlap>>
      /\ edit' = [edit EXCEPT ![c] = NoEdit]
      /\ \/ UNCHANGED <<deps, seq>>
         \/ deps' = [deps EXCEPT ![t] = edges] /\ seq' = [seq EXCEPT ![t] = @ + 1]
  BY DEF Write, t
<1>2. CASE UNCHANGED <<deps, seq>>
  <2>1. Return(c)
    BY <1>1, <1>2 DEF Return
  <2> QED
    BY <2>1, ReturnKeepsLoopInv
<1>3. CASE deps' = [deps EXCEPT ![t] = edges] /\ seq' = [seq EXCEPT ![t] = @ + 1]
  <2>1. TypeOK'
    BY <1>0, <1>1, <1>3 DEF TypeOK, LoopInv
  <2>2. OnlyCreatedAreLinked'
    BY <1>0, <1>1, <1>3 DEF OnlyCreatedAreLinked, LoopInv
  <2>3. /\ edit'[c].stage = "free"
        /\ \A d \in Edit : d # c => edit'[d] = edit[d]
    BY <1>0, <1>1 DEF NoEdit
  <2>4. CallsAreOnCreated'
    BY <1>1, <2>3 DEF CallsAreOnCreated, InFlight, LoopInv
  <2>5. OneTaskAtATime' /\ NothingVisitedYet'
    BY <1>0, <1>1, <2>3 DEF OneTaskAtATime, NothingVisitedYet, Adds,
       InFlight, LoopInv, NoEdit
  <2>6. WalksAreClosed'
    <3> SUFFICES ASSUME NEW d \in Edit, edit'[d].stage = "walk",
                        ~overlap, NEW u \in edit[d].visited
                 PROVE  deps'[u] \subseteq edit[d].visited \cup edit[d].todo
      BY <1>1, <2>3 DEF WalksAreClosed, LoopInv
    <3>1. d # c /\ edit[d].stage = "walk"
      BY <2>3
    <3>2. /\ edit[d].op = "add" /\ edit[d].task \notin edit[d].visited
          /\ deps[u] \subseteq edit[d].visited \cup edit[d].todo
          /\ u \in created
      BY <3>1 DEF WalksAreClosed, LoopInv
    <3>3. CASE Adds(c)
      <4>1. edit[d].task = t
        BY <3>1, <3>2, <3>3 DEF OneTaskAtATime, LoopInv, Adds, InFlight, t
      <4> QED
        BY <1>0, <1>3, <3>2, <4>1
    <3>4. CASE edges \subseteq deps[t]
      BY <1>0, <1>3, <3>2, <3>4
    <3> QED
      BY <3>3, <3>4 DEF t
  <2>7. LoopNeedsTwoTasks'
    BY <1>1, <1>3 DEF LoopNeedsTwoTasks, Acyclic, NoLoop, t
  <2> QED
    BY <2>1, <2>2, <2>4, <2>5, <2>6, <2>7 DEF LoopInv
<1> QED
  BY <1>1, <1>2, <1>3

LEMMA AddDependencyKeepsLoopInv ==
  ASSUME LoopInv, NEW c \in Edit, AddDependency(c)
  PROVE  LoopInv'
<1> DEFINE t == edit[c].task
           on == edit[c].on
           V == edit[c].visited
           edges == deps[t] \cup {on}
<1>1. edit[c].stage = "walk" /\ edit[c].todo \subseteq V /\ Write(c, edges)
  BY DEF AddDependency, Pending
<1>2. /\ edit[c].op = "add" /\ V \subseteq created
      /\ on \in V /\ t \notin V /\ (overlap \/ \A v \in V : deps[v] \subseteq V)
  BY <1>1 DEF LoopInv, WalksAreClosed
<1>3. t \in created /\ created \subseteq Task /\ Adds(c) /\ InFlight(c)
  BY <1>1, <1>2, InFlightFacts DEF Adds
<1>4. deps \in [Task -> SUBSET Task] /\ deps[t] \subseteq created
  BY <1>3 DEF LoopInv, TypeOK, OnlyCreatedAreLinked
<1>5. overlap \/ NoLoop([deps EXCEPT ![t] = edges])
  <2> SUFFICES ASSUME ~overlap PROVE NoLoop([deps EXCEPT ![t] = edges])
    OBVIOUS
  <2>1. NoLoop(deps)
    BY AcyclicIsNoLoop DEF LoopNeedsTwoTasks, LoopInv
  <2>2. [deps EXCEPT ![t] = edges] = [deps EXCEPT ![t] = @ \cup {on}]
    OBVIOUS
  <2>3. V \in SUBSET Task /\ t \in Task /\ on \in Task /\ (\A v \in V : deps[v] \subseteq V)
    BY <1>2, <1>3
  <2> HIDE DEF t, on, V, edges
  <2> QED
    BY <1>2, <1>4, <2>1, <2>2, <2>3, ClosedSetsGuardEdges
<1>6. edges \in SUBSET created
  BY <1>2, <1>4
<1> QED
  BY <1>1, <1>3, <1>5, <1>6, WriteKeepsLoopInv

LEMMA RemoveDependencyKeepsLoopInv ==
  ASSUME LoopInv, NEW c \in Edit, RemoveDependency(c)
  PROVE  LoopInv'
<1> DEFINE t == edit[c].task
           edges == deps[t] \ {edit[c].on}
<1>1. edit[c].stage = "ready" /\ Write(c, edges)
  BY DEF RemoveDependency
<1>2. t \in created /\ created \subseteq Task /\ InFlight(c)
  BY <1>1, InFlightFacts DEF InFlight
<1>3. deps \in [Task -> SUBSET Task] /\ deps[t] \subseteq created
  BY <1>2 DEF LoopInv, TypeOK, OnlyCreatedAreLinked
<1>4. overlap \/ NoLoop([deps EXCEPT ![t] = edges])
  <2> SUFFICES ASSUME ~overlap PROVE NoLoop([deps EXCEPT ![t] = edges])
    OBVIOUS
  <2>1. NoLoop(deps)
    BY AcyclicIsNoLoop DEF LoopNeedsTwoTasks, LoopInv
  <2>2. \A w \in Task : [deps EXCEPT ![t] = edges][w] \subseteq deps[w]
    BY <1>2, <1>3
  <2>3. [deps EXCEPT ![t] = edges] \in [Task -> SUBSET Task]
    BY <1>2, <1>3
  <2> HIDE DEF t, edges
  <2> QED
    BY <1>3, <2>1, <2>2, <2>3, FewerEdges
<1>5. edges \in SUBSET created
  BY <1>3
<1> QED
  BY <1>1, <1>2, <1>4, <1>5, WriteKeepsLoopInv

LEMMA LinksStep == LoopInv /\ [LinkNext]_(linkVars) => LoopInv'
<1> SUFFICES ASSUME LoopInv, [LinkNext]_(linkVars) PROVE LoopInv'
  OBVIOUS
<1>1. ASSUME NEW t \in Task, NEW on \in SUBSET Task, CreateTask(t, on)
      PROVE  LoopInv'
  BY <1>1, CreationKeepsLoopInv
<1>2. ASSUME NEW t \in Task, OtherEvent(t) PROVE LoopInv'
  BY <1>2, OtherEventKeepsLoopInv
<1>3. ASSUME NEW c \in Edit, NEW op \in {"add", "remove"}, NEW t \in Task, NEW on \in Task,
             RequireTask(c, op, t, on)
      PROVE  LoopInv'
  BY <1>3, RequireTaskKeepsLoopInv
<1>4. ASSUME NEW c \in Edit, ReadEventSeq(c) PROVE LoopInv'
  BY <1>4, ReadEventSeqKeepsLoopInv
<1>5. ASSUME NEW c \in Edit, NothingToDo(c) PROVE LoopInv'
  BY <1>5, ReturnKeepsLoopInv DEF NothingToDo
<1>6. ASSUME NEW c \in Edit, StartWalk(c) PROVE LoopInv'
  BY <1>6, StartWalkKeepsLoopInv
<1>7. ASSUME NEW c \in Edit, NEW u \in Task, Visit(c, u) PROVE LoopInv'
  BY <1>7, VisitKeepsLoopInv
<1>8. ASSUME NEW c \in Edit, AddDependency(c) PROVE LoopInv'
  BY <1>8, AddDependencyKeepsLoopInv
<1>9. ASSUME NEW c \in Edit, RemoveDependency(c) PROVE LoopInv'
  BY <1>9, RemoveDependencyKeepsLoopInv
<1>10. ASSUME NEW c \in Edit, Crash(c) PROVE LoopInv'
  BY <1>10, ReturnKeepsLoopInv DEF Crash
<1>11. ASSUME UNCHANGED linkVars PROVE LoopInv'
  BY <1>11 DEF linkVars, LoopInv, TypeOK, OnlyCreatedAreLinked,
     CallsAreOnCreated, OneTaskAtATime, NothingVisitedYet,
     WalksAreClosed,
     LoopNeedsTwoTasks, Acyclic, InFlight, Adds
<1> QED
  BY <1>1, <1>2, <1>3, <1>4, <1>5, <1>6, <1>7, <1>8, <1>9, <1>10, <1>11 DEF LinkNext

(***************************************************************************)
(* addDependency's walk is enough against everything but an addition on    *)
(* another task: whatever else overlaps it, the dependencies have no loop. *)
(***************************************************************************)
THEOREM LoopsNeedTwoTasks == LinkSpec => []LoopNeedsTwoTasks
<1>1. LoopInv => LoopNeedsTwoTasks
  BY DEF LoopInv
<1> QED
  BY <1>1, LinksInit, LinksStep, PTL DEF LinkSpec
=============================================================================
