------------------------- MODULE TaskManagerProofs -------------------------
(***************************************************************************)
(* Proofs about TaskManager, for any tasks, any number of call slots and   *)
(* any attempt limit.                                                      *)
(*                                                                         *)
(* The inductive invariant is Consistent.  Its core is SnapshotsAreSound:  *)
(* a save wins only against the version that was read, and then the row    *)
(* the caller decided on IS the row, so that every guard the caller        *)
(* checked on its snapshot holds of the row it overwrites.  All the saves  *)
(* share one lemma, SaveKeepsConsistent; an operation only has to show     *)
(* that the record and the history it writes are sound (SoundSave).        *)
(***************************************************************************)
EXTENDS TaskManager, TLAPS

(***************************************************************************)
(* What each operation makes of a task record, for every record: it is a   *)
(* record again, its version is the next one, and its status, review and   *)
(* counters are as named.                                                  *)
(***************************************************************************)
LEMMA CountersGrow ==
  ASSUME NEW s \in TaskRecord
  PROVE  s.version + 1 \in Nat /\ s.attempts + 1 \in Nat
BY DEF TaskRecord

LEMMA TransitionedRecord ==
  ASSUME NEW s \in TaskRecord, NEW to \in TaskStatus
  PROVE  LET r == Transitioned(s, to) IN
         /\ r \in TaskRecord /\ r.version = s.version + 1
         /\ r.status = to /\ r.review = s.review
         /\ r.attempts = s.attempts /\ r.maxAttempts = s.maxAttempts
<1>1. Transitioned(s, to) \in TaskRecord
  BY CountersGrow, Zenon DEF Transitioned, TaskRecord
<1> QED
  BY <1>1 DEF Transitioned, TaskRecord

LEMMA AssignedRecord ==
  ASSUME NEW s \in TaskRecord
  PROVE  LET r == Assigned(s) IN
         /\ r \in TaskRecord /\ r.version = s.version + 1
         /\ r.status = s.status /\ r.review = s.review
         /\ r.attempts = s.attempts /\ r.maxAttempts = s.maxAttempts
<1>1. Assigned(s) \in TaskRecord
  BY CountersGrow, Zenon DEF Assigned, TaskRecord
<1> QED
  BY <1>1 DEF Assigned, TaskRecord

LEMMA LinkedRecord ==
  ASSUME NEW s \in TaskRecord
  PROVE  LET r == Linked(s) IN
         /\ r \in TaskRecord /\ r.version = s.version + 1
         /\ r.status = s.status /\ r.review = s.review
         /\ r.attempts = s.attempts /\ r.maxAttempts = s.maxAttempts
<1>1. Linked(s) \in TaskRecord
  BY CountersGrow, Zenon DEF Linked, TaskRecord
<1> QED
  BY <1>1 DEF Linked, TaskRecord

LEMMA StartedRecord ==
  ASSUME NEW s \in TaskRecord
  PROVE  LET r == Started(s) IN
         /\ r \in TaskRecord /\ r.version = s.version + 1
         /\ r.status = "running" /\ r.review = s.review
         /\ r.attempts = s.attempts + 1 /\ r.maxAttempts = s.maxAttempts
<1>1. "running" \in TaskStatus
  BY DEF TaskStatus
<1>2. Started(s) \in TaskRecord
  BY <1>1, CountersGrow, Zenon DEF Started, TaskRecord
<1> QED
  BY <1>2 DEF Started, TaskRecord

LEMMA FinishedRecord ==
  ASSUME NEW s \in TaskRecord, NEW e \in Evidence
  PROVE  LET r == FinishedWith(s, e) IN
         /\ r \in TaskRecord /\ r.version = s.version + 1
         /\ r.status = Verdict(s, e)
         /\ r.review = IF Verdict(s, e) = "awaiting_review" THEN "pending" ELSE s.review
         /\ r.attempts = s.attempts /\ r.maxAttempts = s.maxAttempts
<1>1. Verdict(s, e) \in TaskStatus
  BY DEF Verdict, TaskStatus
<1>2. (IF Verdict(s, e) = "awaiting_review" THEN "pending" ELSE s.review) \in ReviewStatus
  BY DEF TaskRecord, ReviewStatus
<1>3. FinishedWith(s, e) \in TaskRecord
  BY <1>1, <1>2, CountersGrow, Zenon DEF FinishedWith, TaskRecord
<1> QED
  BY <1>3 DEF FinishedWith, TaskRecord

LEMMA ReviewedRecord ==
  ASSUME NEW s \in TaskRecord, NEW accepted \in BOOLEAN
  PROVE  LET r == Reviewed(s, accepted) IN
         /\ r \in TaskRecord /\ r.version = s.version + 1
         /\ r.status = IF accepted THEN "completed" ELSE "running"
         /\ r.review = IF accepted THEN "accepted" ELSE "rejected"
         /\ r.attempts = s.attempts /\ r.maxAttempts = s.maxAttempts
<1>1. (IF accepted THEN "completed" ELSE "running") \in TaskStatus
  BY DEF TaskStatus
<1>2. (IF accepted THEN "accepted" ELSE "rejected") \in ReviewStatus
  BY DEF ReviewStatus
<1>3. Reviewed(s, accepted) \in TaskRecord
  BY <1>1, <1>2, CountersGrow, Zenon DEF Reviewed, TaskRecord
<1> QED
  BY <1>3 DEF Reviewed, TaskRecord

LEMMA CancelledRecord ==
  ASSUME NEW s \in TaskRecord
  PROVE  LET r == Cancelled(s) IN
         /\ r \in TaskRecord /\ r.version = s.version + 1
         /\ r.status = "cancelled" /\ r.review = s.review
         /\ r.attempts = s.attempts /\ r.maxAttempts = s.maxAttempts
<1>1. "cancelled" \in TaskStatus
  BY DEF TaskStatus
<1>2. Cancelled(s) \in TaskRecord
  BY <1>1, CountersGrow, Zenon DEF Cancelled, TaskRecord
<1> QED
  BY <1>2 DEF Cancelled, TaskRecord

LEMMA RetriedRecord ==
  ASSUME NEW s \in TaskRecord
  PROVE  LET r == Retried(s) IN
         /\ r \in TaskRecord /\ r.version = s.version + 1
         /\ r.status = "queued" /\ r.review = "none"
         /\ r.attempts = s.attempts /\ r.maxAttempts = s.maxAttempts
<1>1. "queued" \in TaskStatus /\ "none" \in ReviewStatus
  BY DEF TaskStatus, ReviewStatus
<1>2. Retried(s) \in TaskRecord
  BY <1>1, CountersGrow, Zenon DEF Retried, TaskRecord
<1> QED
  BY <1>2 DEF Retried, TaskRecord

(***************************************************************************)
(* No operation but linkCheckpoint applies to a finished task: the guards  *)
(* of lifecycle.ts and of the operations leave no way out of completed and *)
(* cancelled.                                                              *)
(***************************************************************************)
THEOREM NothingMovesAFinishedRecord ==
  ASSUME NEW s \in TaskRecord, s.status \in Finished
  PROVE  /\ \A to \in TaskStatus : ~MayTransition(s, to)
         /\ ~MayAssign(s) /\ ~MayStart(s) /\ ~MayReview(s) /\ ~MayCancel(s) /\ ~MayRetry(s)
         /\ \A e \in Evidence : ~MayFinish(s, e)
<1>1. TASK_TRANSITIONS[s.status] = {}
  BY DEF Finished, TASK_TRANSITIONS
<1> QED
  BY <1>1 DEF Finished, MayTransition, CanTransition, MayAssign, MayStart, MayReview,
              MayCancel, MayRetry, MayFinish

\* What an operation owes when its save wins: a sound record r, a history h that
\* only grows and tells the status of r, and a call that goes on as recorded.
SoundSave(c, r, h, then) ==
  LET t == call[c].task IN
  /\ r \in TaskRecord /\ r.status # "absent"
  /\ r.version = call[c].seen.version + 1
  /\ r.attempts <= r.maxAttempts /\ r.maxAttempts <= HardMaxAttempts
  /\ h \in History
  /\ h.tells = r.status
  /\ h.started = 1 .. r.attempts
  /\ history[t].started \subseteq h.started
  /\ history[t].finished \subseteq h.finished
  /\ h.finished \subseteq h.started
  /\ then \in CallRecord /\ then.stage \in {"free", "open", "close"}
  /\ then.stage = "open"  => then.task = t /\ then.n \in h.started
  /\ then.stage = "close" => then.task = t /\ then.n \in h.finished

\* A call that saves is one that has read everything it decides on.
LEMMA FreeIsACallRecord == Free \in CallRecord
BY DEF Free, CallRecord, Stage, AbsentTask, TaskRecord, ReviewStatus, AttemptNumber

(***************************************************************************)
(* The initial state is consistent.                                        *)
(***************************************************************************)
LEMMA InitIsConsistent == Init => Consistent
<1> SUFFICES ASSUME Init PROVE Consistent
  OBVIOUS
<1> USE DEF Init
<1>1. TypeOK
  BY FreeIsACallRecord DEF TypeOK, AbsentTask, TaskRecord, ReviewStatus, History, AttemptNumber
<1>2. SnapshotsAreSound /\ PendingRowsAreRecorded
  BY DEF SnapshotsAreSound, PendingRowsAreRecorded, Free
<1>3. AbsentTasksAreBlank /\ HistoryTellsStatus /\ AttemptRowsFollowHistory
  BY DEF AbsentTasksAreBlank, HistoryTellsStatus, AttemptRowsFollowHistory, AbsentTask
<1>4. AttemptsWithinBudget
  <2>1. 1 .. 0 = {}
    OBVIOUS
  <2>2. \A t \in Task : /\ history[t].started = {}
                       /\ row[t].attempts = 0 /\ row[t].maxAttempts = 0
    BY DEF AbsentTask
  <2>3. ASSUME NEW t \in Task
        PROVE  /\ history[t].started = 1 .. row[t].attempts
               /\ row[t].attempts <= row[t].maxAttempts
               /\ row[t].maxAttempts <= HardMaxAttempts
    <3>1. history[t].started = {} /\ row[t].attempts = 0 /\ row[t].maxAttempts = 0
      BY <2>2
    <3>2. 0 <= HardMaxAttempts
      BY HardMaxAttemptsIsPositive
    <3> HIDE DEF Init
    <3> QED
      BY <2>1, <3>1, <3>2
  <2> QED
    BY <2>3 DEF AttemptsWithinBudget
<1> QED
  BY <1>1, <1>2, <1>3, <1>4 DEF Consistent

(***************************************************************************)
(* A save that owes what SoundSave says keeps the state consistent,        *)
(* whether it wins the race or loses it.                                   *)
(***************************************************************************)
LEMMA SaveKeepsConsistent ==
  ASSUME Consistent, NEW c \in Call, call[c].stage \in {"ready", "attempts"},
         NEW r, NEW h, NEW then,
         SaveWins(c) => SoundSave(c, r, h, then),
         Save(c, r, h, then)
  PROVE  Consistent'
<1> DEFINE t == call[c].task
<1> USE DEF Consistent
<1>0. t \in Task /\ call[c].seen.version <= row[t].version
  BY DEF SnapshotsAreSound
<1>1. CASE ~SaveWins(c)
  <2> SUFFICES ASSUME call' = [call EXCEPT ![c] = Free],
                      UNCHANGED <<row, history, attempt>>
               PROVE  Consistent'
    BY <1>1 DEF Save
  <2>1. TypeOK'
    BY FreeIsACallRecord DEF TypeOK
  <2>2. SnapshotsAreSound' /\ PendingRowsAreRecorded'
    BY DEF SnapshotsAreSound, PendingRowsAreRecorded, Free, TypeOK
  <2>3. AbsentTasksAreBlank' /\ HistoryTellsStatus' /\ AttemptRowsFollowHistory'
        /\ AttemptsWithinBudget'
    BY DEF AbsentTasksAreBlank, HistoryTellsStatus, AttemptRowsFollowHistory,
           AttemptsWithinBudget
  <2> QED
    BY <2>1, <2>2, <2>3
<1>2. CASE SaveWins(c)
  <2>0. /\ SoundSave(c, r, h, then)
        /\ row'     = [row EXCEPT ![t] = r]
        /\ history' = [history EXCEPT ![t] = h]
        /\ call'    = [call EXCEPT ![c] = then]
        /\ attempt' = attempt
        /\ row[t].version < r.version
    <3>1. SoundSave(c, r, h, then) /\ row[t].version = call[c].seen.version
      BY <1>2 DEF SaveWins
    <3>2. row[t].version \in Nat
      BY <1>0 DEF TypeOK, TaskRecord
    <3>3. row[t].version < r.version
      BY <3>1, <3>2 DEF SoundSave
    <3> QED
      BY <1>2, <3>1, <3>3 DEF Save
  <2>1. TypeOK'
    BY <2>0 DEF TypeOK, SoundSave
  <2>2. SnapshotsAreSound'
    <3> SUFFICES ASSUME NEW d \in Call, call'[d].stage \in {"row", "ready", "attempts"}
                 PROVE  LET u == call'[d].task IN
                        /\ u \in Task
                        /\ row'[u].status # "absent"
                        /\ call'[d].seen.version <= row'[u].version
                        /\ call'[d].seen.version = row'[u].version => call'[d].seen = row'[u]
      BY DEF SnapshotsAreSound
    <3>1. d # c /\ call'[d] = call[d]
      BY <2>0 DEF SoundSave, TypeOK
    <3>2. CASE call[d].task = t
      <4>1. call[d].seen.version <= row[t].version
        BY <3>1, <3>2 DEF SnapshotsAreSound
      <4>2. call[d].seen.version \in Nat /\ row[t].version \in Nat /\ r.version \in Nat
        BY <1>0, <2>0 DEF TypeOK, TaskRecord, CallRecord, SoundSave
      <4>3. row'[t] = r /\ r.status # "absent"
        BY <1>0, <2>0 DEF TypeOK, SoundSave
      <4> QED
        BY <1>0, <2>0, <3>1, <3>2, <4>1, <4>2, <4>3
    <3>3. CASE call[d].task # t
      BY <2>0, <3>1, <3>3 DEF SnapshotsAreSound, TypeOK
    <3> QED
      BY <3>2, <3>3
  <2>3. PendingRowsAreRecorded'
    BY <2>0, <1>0 DEF PendingRowsAreRecorded, SoundSave, TypeOK, CallRecord, SnapshotsAreSound
  <2>4. AbsentTasksAreBlank' /\ HistoryTellsStatus' /\ AttemptsWithinBudget'
    BY <2>0, <1>0 DEF AbsentTasksAreBlank, HistoryTellsStatus, AttemptsWithinBudget,
           SoundSave, TypeOK
  <2>5. AttemptRowsFollowHistory'
    BY <2>0, <1>0 DEF AttemptRowsFollowHistory, SoundSave, TypeOK
  <2> QED
    BY <2>1, <2>2, <2>3, <2>4, <2>5
<1> QED
  BY <1>1, <1>2

(***************************************************************************)
(* Optimistic concurrency: a caller whose save wins has decided on the     *)
(* very row, and on the very history, that it overwrites.                  *)
(***************************************************************************)
LEMMA SnapshotIsTheRow ==
  ASSUME Consistent, NEW c \in Call, call[c].stage \in {"ready", "attempts"}, SaveWins(c)
  PROVE  LET t == call[c].task
             s == call[c].seen
             h == history[t]
         IN  /\ t \in Task /\ s = row[t] /\ s \in TaskRecord /\ s.status # "absent"
             /\ s.attempts <= s.maxAttempts /\ s.maxAttempts <= HardMaxAttempts
             /\ h \in History /\ h.tells = s.status
             /\ h.started = 1 .. s.attempts /\ h.finished \subseteq h.started
<1>1. call[c].task \in Task /\ call[c].seen = row[call[c].task]
      /\ row[call[c].task].status # "absent"
  BY DEF Consistent, SnapshotsAreSound, SaveWins
<1> QED
  BY <1>1 DEF Consistent, TypeOK, HistoryTellsStatus, AttemptsWithinBudget,
              AttemptRowsFollowHistory

\* What an event that names its statuses makes of a history that ends in the first.
LEMMA LoggedTells ==
  ASSUME NEW h \in History, NEW k \in Nat, NEW from, h.tells = from, NEW to \in TaskStatus
  PROVE  LET l == Logged(h, k, from, to) IN
         l \in History /\ l.tells = to /\ l.started = h.started /\ l.finished = h.finished
<1>1. h.seq + k \in Nat
  BY DEF History
<1>2. (IF h.tells = from THEN to ELSE Corrupt) \in TaskStatus \cup {"absent", Corrupt}
  OBVIOUS
<1>3. Logged(h, k, from, to) \in History
  BY <1>1, <1>2, Zenon DEF History, Logged
<1> QED
  BY <1>3 DEF Logged, History

\* An event that names no status.
LEMMA NumberedTells ==
  ASSUME NEW h \in History
  PROVE  LET l == [h EXCEPT !.seq = @ + 1] IN
         /\ l \in History /\ l.tells = h.tells
         /\ l.started = h.started /\ l.finished = h.finished
BY DEF History

(***************************************************************************)
(* The saves of the operations that begin and end no attempt: r keeps the  *)
(* counters and h the attempts.                                            *)
(***************************************************************************)
LEMMA PlainSaveIsSound ==
  ASSUME Consistent, NEW c \in Call, call[c].stage \in {"ready", "attempts"}, SaveWins(c),
         NEW r \in TaskRecord, r.status # "absent",
         r.version = call[c].seen.version + 1,
         r.attempts = call[c].seen.attempts, r.maxAttempts = call[c].seen.maxAttempts,
         NEW h \in History, h.tells = r.status,
         h.started = history[call[c].task].started,
         h.finished = history[call[c].task].finished
  PROVE  SoundSave(c, r, h, Free)
<1>1. Free \in CallRecord /\ Free.stage = "free"
  BY FreeIsACallRecord DEF Free
<1>2. LET s == call[c].seen
          l == history[call[c].task]
      IN  /\ s.attempts <= s.maxAttempts /\ s.maxAttempts <= HardMaxAttempts
          /\ l.started = 1 .. s.attempts /\ l.finished \subseteq l.started
  BY SnapshotIsTheRow
<1> QED
  BY <1>1, <1>2 DEF SoundSave

\* The same for a change of status, logged by k events.
LEMMA StatusSaveIsSound ==
  ASSUME Consistent, NEW c \in Call, Ready(c), SaveWins(c),
         NEW r \in TaskRecord, r.status \in TaskStatus,
         r.version = call[c].seen.version + 1,
         r.attempts = call[c].seen.attempts, r.maxAttempts = call[c].seen.maxAttempts,
         NEW k \in Nat
  PROVE  SoundSave(c, r, Logged(Log(c), k, Seen(c).status, r.status), Free)
<1>1. call[c].stage \in {"ready", "attempts"}
  BY DEF Ready
<1>2. Log(c) \in History /\ Log(c).tells = Seen(c).status
  BY <1>1, SnapshotIsTheRow DEF Log, Seen
<1>3. r.status # "absent"
  BY DEF TaskStatus
<1>4. LET h == Logged(Log(c), k, Seen(c).status, r.status) IN
      /\ h \in History /\ h.tells = r.status
      /\ h.started = history[call[c].task].started
      /\ h.finished = history[call[c].task].finished
  BY <1>2, LoggedTells DEF Log
<1> QED
  BY <1>1, <1>3, <1>4, PlainSaveIsSound

----------------------------------------------------------------------------
(* One lemma per operation. *)

LEMMA TransitionKeepsConsistent ==
  ASSUME Consistent, NEW c \in Call, NEW to \in TaskStatus, Transition(c, to)
  PROVE  Consistent'
<1> DEFINE r == Transitioned(Seen(c), to)
           h == Logged(Log(c), 1, Seen(c).status, to)
<1>1. ASSUME SaveWins(c) PROVE SoundSave(c, r, h, Free)
  <2>1. Seen(c) \in TaskRecord
    BY <1>1, SnapshotIsTheRow DEF Transition, Ready, Seen
  <2>2. /\ r \in TaskRecord /\ r.status = to /\ r.version = call[c].seen.version + 1
        /\ r.attempts = call[c].seen.attempts /\ r.maxAttempts = call[c].seen.maxAttempts
    BY <2>1, TransitionedRecord DEF Seen
  <2> QED
    BY <1>1, <2>2, StatusSaveIsSound DEF Transition
<1> QED
  BY <1>1, SaveKeepsConsistent DEF Transition, Ready

LEMMA SetAssignmentKeepsConsistent ==
  ASSUME Consistent, NEW c \in Call, SetAssignment(c)
  PROVE  Consistent'
<1> DEFINE r == Assigned(Seen(c))
           h == [Log(c) EXCEPT !.seq = @ + 1]
<1>1. ASSUME SaveWins(c) PROVE SoundSave(c, r, h, Free)
  <2>1. /\ Seen(c) \in TaskRecord /\ Seen(c).status # "absent"
        /\ Log(c) \in History /\ Log(c).tells = Seen(c).status
    BY <1>1, SnapshotIsTheRow DEF SetAssignment, Ready, Seen, Log
  <2>2. /\ r \in TaskRecord /\ r.status = Seen(c).status
        /\ r.version = call[c].seen.version + 1
        /\ r.attempts = call[c].seen.attempts /\ r.maxAttempts = call[c].seen.maxAttempts
    BY <2>1, AssignedRecord DEF Seen
  <2>3. /\ h \in History /\ h.tells = r.status
        /\ h.started = history[call[c].task].started
        /\ h.finished = history[call[c].task].finished
    BY <2>1, <2>2, NumberedTells DEF Log
  <2> QED
    BY <1>1, <2>1, <2>2, <2>3, PlainSaveIsSound DEF SetAssignment, Ready
<1> QED
  BY <1>1, SaveKeepsConsistent DEF SetAssignment, Ready

LEMMA LinkCheckpointKeepsConsistent ==
  ASSUME Consistent, NEW c \in Call, LinkCheckpoint(c)
  PROVE  Consistent'
<1> DEFINE r == Linked(Seen(c))
           h == [Log(c) EXCEPT !.seq = @ + 1]
<1>1. ASSUME SaveWins(c) PROVE SoundSave(c, r, h, Free)
  <2>1. /\ Seen(c) \in TaskRecord /\ Seen(c).status # "absent"
        /\ Log(c) \in History /\ Log(c).tells = Seen(c).status
    BY <1>1, SnapshotIsTheRow DEF LinkCheckpoint, Ready, Seen, Log
  <2>2. /\ r \in TaskRecord /\ r.status = Seen(c).status
        /\ r.version = call[c].seen.version + 1
        /\ r.attempts = call[c].seen.attempts /\ r.maxAttempts = call[c].seen.maxAttempts
    BY <2>1, LinkedRecord DEF Seen
  <2>3. /\ h \in History /\ h.tells = r.status
        /\ h.started = history[call[c].task].started
        /\ h.finished = history[call[c].task].finished
    BY <2>1, <2>2, NumberedTells DEF Log
  <2> QED
    BY <1>1, <2>1, <2>2, <2>3, PlainSaveIsSound DEF LinkCheckpoint, Ready
<1> QED
  BY <1>1, SaveKeepsConsistent DEF LinkCheckpoint, Ready

LEMMA ReviewKeepsConsistent ==
  ASSUME Consistent, NEW c \in Call, NEW accepted \in BOOLEAN, Review(c, accepted)
  PROVE  Consistent'
<1> DEFINE r == Reviewed(Seen(c), accepted)
           h == Logged(Log(c), 2, Seen(c).status, r.status)
<1>1. ASSUME SaveWins(c) PROVE SoundSave(c, r, h, Free)
  <2>1. Seen(c) \in TaskRecord
    BY <1>1, SnapshotIsTheRow DEF Review, Ready, Seen
  <2>2. /\ r \in TaskRecord /\ r.status \in {"completed", "running"}
        /\ r.version = call[c].seen.version + 1
        /\ r.attempts = call[c].seen.attempts /\ r.maxAttempts = call[c].seen.maxAttempts
    BY <2>1, ReviewedRecord DEF Seen
  <2>3. r.status \in TaskStatus
    BY <2>2 DEF TaskStatus
  <2> QED
    BY <1>1, <2>2, <2>3, StatusSaveIsSound DEF Review
<1> QED
  BY <1>1, SaveKeepsConsistent DEF Review, Ready

LEMMA CancelKeepsConsistent ==
  ASSUME Consistent, NEW c \in Call, Cancel(c)
  PROVE  Consistent'
<1> DEFINE r == Cancelled(Seen(c))
           h == Logged(Log(c), 2, Seen(c).status, "cancelled")
<1>1. ASSUME SaveWins(c) PROVE SoundSave(c, r, h, Free)
  <2>1. Seen(c) \in TaskRecord
    BY <1>1, SnapshotIsTheRow DEF Cancel, Ready, Seen
  <2>2. /\ r \in TaskRecord /\ r.status = "cancelled"
        /\ r.version = call[c].seen.version + 1
        /\ r.attempts = call[c].seen.attempts /\ r.maxAttempts = call[c].seen.maxAttempts
    BY <2>1, CancelledRecord DEF Seen
  <2>3. r.status \in TaskStatus
    BY <2>2 DEF TaskStatus
  <2> QED
    BY <1>1, <2>2, <2>3, StatusSaveIsSound DEF Cancel
<1> QED
  BY <1>1, SaveKeepsConsistent DEF Cancel, Ready

LEMMA RetryKeepsConsistent ==
  ASSUME Consistent, NEW c \in Call, Retry(c)
  PROVE  Consistent'
<1> DEFINE r == Retried(Seen(c))
           h == Logged(Log(c), 2, Seen(c).status, "queued")
<1>1. ASSUME SaveWins(c) PROVE SoundSave(c, r, h, Free)
  <2>1. Seen(c) \in TaskRecord
    BY <1>1, SnapshotIsTheRow DEF Retry, Ready, Seen
  <2>2. /\ r \in TaskRecord /\ r.status = "queued"
        /\ r.version = call[c].seen.version + 1
        /\ r.attempts = call[c].seen.attempts /\ r.maxAttempts = call[c].seen.maxAttempts
    BY <2>1, RetriedRecord DEF Seen
  <2>3. r.status \in TaskStatus
    BY <2>2 DEF TaskStatus
  <2> QED
    BY <1>1, <2>2, <2>3, StatusSaveIsSound DEF Retry
<1> QED
  BY <1>1, SaveKeepsConsistent DEF Retry, Ready

LEMMA StartAttemptKeepsConsistent ==
  ASSUME Consistent, NEW c \in Call, StartAttempt(c)
  PROVE  Consistent'
<1> DEFINE n == Seen(c).attempts + 1
           r == Started(Seen(c))
           l == Logged(Log(c), 1, Seen(c).status, "running")
           h == [l EXCEPT !.started = @ \cup {n}]
           then == [Free EXCEPT !.stage = "open", !.task = call[c].task, !.n = n]
<1>1. ASSUME SaveWins(c) PROVE SoundSave(c, r, h, then)
  <2>1. /\ Seen(c) \in TaskRecord /\ call[c].task \in Task
        /\ Seen(c).attempts <= Seen(c).maxAttempts /\ Seen(c).maxAttempts <= HardMaxAttempts
        /\ Log(c) \in History /\ Log(c).tells = Seen(c).status
        /\ Log(c).started = 1 .. Seen(c).attempts /\ Log(c).finished \subseteq Log(c).started
    BY <1>1, SnapshotIsTheRow DEF StartAttempt, Ready, Seen, Log
  <2>2. /\ r \in TaskRecord /\ r.status = "running" /\ r.version = call[c].seen.version + 1
        /\ r.attempts = n /\ r.maxAttempts = Seen(c).maxAttempts
    BY <2>1, StartedRecord DEF Seen
  <2>3. n <= Seen(c).maxAttempts
    BY DEF StartAttempt, MayStart
  <2>4. /\ Seen(c).attempts \in Nat /\ Seen(c).maxAttempts \in Nat
        /\ HardMaxAttempts \in Nat
    BY <2>1, HardMaxAttemptsIsPositive DEF TaskRecord
  <2>5. n \in AttemptNumber /\ n \in Nat /\ 1 .. n = (1 .. Seen(c).attempts) \cup {n}
    BY <2>1, <2>3, <2>4 DEF AttemptNumber
  <2>6. "running" \in TaskStatus
    BY DEF TaskStatus
  <2>7. l \in History /\ l.tells = "running" /\ l.started = Log(c).started
        /\ l.finished = Log(c).finished
    <3>1. ASSUME NEW to \in TaskStatus
          PROVE  LET k == Logged(Log(c), 1, Seen(c).status, to) IN
                 k \in History /\ k.tells = to /\ k.started = Log(c).started
                 /\ k.finished = Log(c).finished
      BY <2>1, LoggedTells
    <3> QED
      BY <2>6, <3>1, Zenon
  <2>8. h \in History /\ h.tells = "running" /\ h.started = 1 .. n
        /\ h.finished = Log(c).finished
    BY <2>1, <2>5, <2>7 DEF History
  <2>9. then \in CallRecord /\ then.stage = "open" /\ then.task = call[c].task /\ then.n = n
    BY <2>1, <2>5, FreeIsACallRecord DEF Free, CallRecord, Stage
  <2>10. n \in 1 .. n /\ Log(c).started \subseteq 1 .. n
    BY <2>1, <2>5
  <2> QED
    BY <2>1, <2>2, <2>3, <2>8, <2>9, <2>10 DEF SoundSave, Log
<1> QED
  BY <1>1, SaveKeepsConsistent DEF StartAttempt, Ready

LEMMA FinishAttemptKeepsConsistent ==
  ASSUME Consistent, NEW c \in Call, NEW n \in AttemptNumber, NEW e \in Evidence,
         FinishAttempt(c, n, e)
  PROVE  Consistent'
<1> DEFINE r == FinishedWith(Seen(c), e)
           l == Logged(Log(c), 2, Seen(c).status, Verdict(Seen(c), e))
           h == [l EXCEPT !.finished = @ \cup {n}]
           then == [Free EXCEPT !.stage = "close", !.task = call[c].task, !.n = n]
<1>0. call[c].stage = "attempts" /\ n \in call[c].open
  BY DEF FinishAttempt
<1>1. ASSUME SaveWins(c) PROVE SoundSave(c, r, h, then)
  <2>1. /\ Seen(c) \in TaskRecord /\ call[c].task \in Task
        /\ Seen(c).attempts <= Seen(c).maxAttempts /\ Seen(c).maxAttempts <= HardMaxAttempts
        /\ Log(c) \in History /\ Log(c).tells = Seen(c).status
        /\ Log(c).started = 1 .. Seen(c).attempts /\ Log(c).finished \subseteq Log(c).started
    BY <1>0, <1>1, SnapshotIsTheRow DEF Seen, Log
  <2>2. /\ r \in TaskRecord /\ r.status = Verdict(Seen(c), e)
        /\ r.version = call[c].seen.version + 1
        /\ r.attempts = Seen(c).attempts /\ r.maxAttempts = Seen(c).maxAttempts
    BY <2>1, FinishedRecord DEF Seen
  <2>3. Verdict(Seen(c), e) \in TaskStatus /\ Verdict(Seen(c), e) # "absent"
    BY DEF Verdict, TaskStatus
  <2>4. n \in Log(c).started
    BY <1>0 DEF Consistent, PendingRowsAreRecorded, Log
  <2>5. l \in History /\ l.tells = Verdict(Seen(c), e) /\ l.started = Log(c).started
        /\ l.finished = Log(c).finished
    BY <2>1, <2>3, LoggedTells
  <2>6. h \in History /\ h.tells = l.tells /\ h.started = l.started
        /\ h.finished = l.finished \cup {n}
    BY <2>5 DEF History
  <2>7. n \in Nat
    BY HardMaxAttemptsIsPositive DEF AttemptNumber
  <2>8. then \in CallRecord /\ then.stage = "close" /\ then.task = call[c].task /\ then.n = n
    BY <2>1, <2>7, FreeIsACallRecord DEF Free, CallRecord, Stage
  <2> QED
    BY <2>1, <2>2, <2>3, <2>4, <2>5, <2>6, <2>8 DEF SoundSave, Log
<1> QED
  BY <1>0, <1>1, SaveKeepsConsistent DEF FinishAttempt

\* The steps that only read, give up, or die before a write.
LEMMA ReadingKeepsConsistent ==
  ASSUME Consistent, NEW c \in Call,
         \/ \E t \in Task : RequireTask(c, t)
         \/ ReadEventSeq(c) \/ GiveUp(c) \/ Crash(c) \/ ReadAttempts(c)
  PROVE  Consistent'
<1>0. UNCHANGED <<row, history, attempt>>
  BY DEF RequireTask, ReadEventSeq, GiveUp, Crash, ReadAttempts
<1>1. SUFFICES /\ call' \in [Call -> CallRecord]
               /\ SnapshotsAreSound' /\ PendingRowsAreRecorded'
  BY <1>0 DEF Consistent, TypeOK, AbsentTasksAreBlank, HistoryTellsStatus,
              AttemptsWithinBudget, AttemptRowsFollowHistory
<1> USE DEF Consistent, SnapshotsAreSound, PendingRowsAreRecorded
<1>2. CASE GiveUp(c) \/ Crash(c)
  <2>1. call' = [call EXCEPT ![c] = Free]
    BY <1>2 DEF GiveUp, Crash
  <2> QED
    BY <1>0, <2>1, FreeIsACallRecord DEF Free, TypeOK
<1>3. ASSUME NEW t \in Task, RequireTask(c, t)
      PROVE  call' \in [Call -> CallRecord] /\ SnapshotsAreSound' /\ PendingRowsAreRecorded'
  <2> DEFINE new == [Free EXCEPT !.stage = "row", !.task = t, !.seen = row[t]]
  <2>1. call' = [call EXCEPT ![c] = new] /\ row[t].status # "absent"
    BY <1>3 DEF RequireTask
  <2>2. row[t] \in TaskRecord /\ row[t].version \in Nat
    BY DEF TypeOK, TaskRecord
  <2>3. new.stage = "row" /\ new.task = t /\ new.seen = row[t]
    BY DEF Free
  <2>4. new \in CallRecord
    BY <2>2, FreeIsACallRecord DEF Free, CallRecord, Stage
  <2> QED
    BY <1>0, <2>1, <2>2, <2>3, <2>4 DEF TypeOK
<1>4. CASE ReadEventSeq(c)
  <2> DEFINE new == [call[c] EXCEPT !.stage = "ready", !.seq = history[call[c].task].seq]
  <2>1. call[c].stage = "row" /\ call' = [call EXCEPT ![c] = new]
    BY <1>4 DEF ReadEventSeq, TypeOK
  <2>2. history[call[c].task].seq \in Nat /\ "ready" \in Stage
    BY <2>1 DEF TypeOK, History, Stage
  <2>3. new.stage = "ready" /\ new.task = call[c].task /\ new.seen = call[c].seen
    BY DEF TypeOK, CallRecord
  <2>4. new \in CallRecord
    BY <2>2, Zenon DEF TypeOK, CallRecord
  <2> QED
    BY <1>0, <2>1, <2>3, <2>4 DEF TypeOK
<1>5. CASE ReadAttempts(c)
  <2> DEFINE rows == {n \in AttemptNumber : attempt[call[c].task][n] = "open"}
             new == [call[c] EXCEPT !.stage = "attempts", !.open = rows]
  <2>1. call[c].stage = "ready" /\ call' = [call EXCEPT ![c] = new]
    BY <1>5 DEF ReadAttempts, Ready, TypeOK
  <2>2. rows \subseteq history[call[c].task].started
    BY <2>1 DEF AttemptRowsFollowHistory
  <2>3. new.stage = "attempts" /\ new.task = call[c].task /\ new.seen = call[c].seen
        /\ new.open = rows
    BY DEF TypeOK, CallRecord
  <2>4. new \in CallRecord
    <3>1. rows \in SUBSET AttemptNumber /\ "attempts" \in Stage
      BY DEF Stage
    <3> QED
      BY <3>1, Zenon DEF TypeOK, CallRecord
  <2> QED
    BY <1>0, <2>1, <2>2, <2>3, <2>4 DEF TypeOK
<1> QED
  BY <1>2, <1>3, <1>4, <1>5

LEMMA SaveAttemptKeepsConsistent ==
  ASSUME Consistent, NEW c \in Call, SaveAttempt(c)
  PROVE  Consistent'
<1> DEFINE t == call[c].task
           n == call[c].n
           s == IF call[c].stage = "open" THEN "open" ELSE "closed"
<1> USE DEF Consistent
<1>1. /\ attempt' = [attempt EXCEPT ![t][n] = s]
      /\ call' = [call EXCEPT ![c] = Free]
      /\ row' = row /\ history' = history
      /\ call[c].stage \in {"open", "close"}
  BY DEF SaveAttempt
<1>2. t \in Task /\ n \in history[t].started
      /\ (s = "closed" => n \in history[t].finished)
  BY <1>1 DEF PendingRowsAreRecorded, AttemptRowsFollowHistory
<1>3. n \in AttemptNumber
  BY <1>2 DEF TypeOK, History
<1>4. attempt' \in [Task -> [AttemptNumber -> {"none", "open", "closed"}]]
  BY <1>1, <1>2, <1>3 DEF TypeOK
<1>5. TypeOK'
  BY <1>1, <1>4, FreeIsACallRecord DEF TypeOK
<1>6. SnapshotsAreSound' /\ PendingRowsAreRecorded'
  BY <1>1 DEF SnapshotsAreSound, PendingRowsAreRecorded, Free, TypeOK
<1>7. AbsentTasksAreBlank' /\ HistoryTellsStatus' /\ AttemptsWithinBudget'
  BY <1>1 DEF AbsentTasksAreBlank, HistoryTellsStatus, AttemptsWithinBudget
<1>8. AttemptRowsFollowHistory'
  BY <1>1, <1>2, <1>3 DEF AttemptRowsFollowHistory, TypeOK
<1> QED
  BY <1>5, <1>6, <1>7, <1>8

LEMMA RecordProgressKeepsConsistent ==
  ASSUME Consistent, NEW c \in Call, RecordProgress(c)
  PROVE  Consistent'
<1> DEFINE t == call[c].task
<1> USE DEF Consistent
<1>1. /\ row' = row /\ attempt' = attempt /\ call' = [call EXCEPT ![c] = Free]
      /\ history' = [history EXCEPT ![t].seq = @ + 1] \/ history' = history
      /\ t \in Task
  BY DEF RecordProgress, Ready, SnapshotsAreSound
<1>2. LET l == [history[t] EXCEPT !.seq = @ + 1] IN
      /\ l \in History /\ l.tells = history[t].tells
      /\ l.started = history[t].started /\ l.finished = history[t].finished
  BY <1>1, NumberedTells DEF TypeOK
<1>3. history' \in [Task -> History]
  BY <1>1, <1>2 DEF TypeOK
<1>4. \A u \in Task : /\ history'[u].tells    = history[u].tells
                     /\ history'[u].started  = history[u].started
                     /\ history'[u].finished = history[u].finished
  BY <1>1, <1>2 DEF TypeOK
<1>5. TypeOK'
  BY <1>1, <1>3, FreeIsACallRecord DEF TypeOK
<1>6. SnapshotsAreSound'
  BY <1>1 DEF SnapshotsAreSound, Free, TypeOK
<1>7. PendingRowsAreRecorded'
  BY <1>1, <1>4 DEF PendingRowsAreRecorded, Free, TypeOK, SnapshotsAreSound
<1>8. AbsentTasksAreBlank' /\ HistoryTellsStatus' /\ AttemptsWithinBudget'
  BY <1>1, <1>4 DEF AbsentTasksAreBlank, HistoryTellsStatus, AttemptsWithinBudget
<1>9. AttemptRowsFollowHistory'
  BY <1>1, <1>4 DEF AttemptRowsFollowHistory
<1> QED
  BY <1>5, <1>6, <1>7, <1>8, <1>9

LEMMA CreateTaskKeepsConsistent ==
  ASSUME Consistent, NEW t \in Task, CreateTask(t)
  PROVE  Consistent'
<1> USE DEF Consistent
<1>1. PICK max \in 1 .. HardMaxAttempts, assigned \in BOOLEAN :
        row' = [row EXCEPT ![t] = NewTask(max, assigned)]
  BY DEF CreateTask
<1> DEFINE r == NewTask(max, assigned)
           h == Logged(history[t], 1, "absent", "queued")
<1>2. /\ row[t] = AbsentTask /\ history' = [history EXCEPT ![t] = h]
      /\ attempt' = attempt /\ call' = call
  BY DEF CreateTask, AbsentTasksAreBlank
<1>3. /\ r \in TaskRecord /\ r.status = "queued" /\ r.attempts = 0
      /\ r.maxAttempts = max /\ 0 <= max /\ max <= HardMaxAttempts
  BY HardMaxAttemptsIsPositive DEF NewTask, TaskRecord, TaskStatus, ReviewStatus
<1>4. history[t] \in History /\ history[t].tells = "absent" /\ history[t].started = 1 .. 0
  BY <1>2 DEF TypeOK, HistoryTellsStatus, AttemptsWithinBudget, AbsentTask
<1>5. h \in History /\ h.tells = "queued" /\ h.started = 1 .. 0
      /\ h.finished = history[t].finished
  <2>1. "queued" \in TaskStatus
    BY DEF TaskStatus
  <2>2. ASSUME NEW to \in TaskStatus
        PROVE  LET k == Logged(history[t], 1, "absent", to) IN
               k \in History /\ k.tells = to /\ k.started = history[t].started
               /\ k.finished = history[t].finished
    BY <1>4, LoggedTells
  <2>3. /\ h \in History /\ h.tells = "queued" /\ h.started = history[t].started
        /\ h.finished = history[t].finished
    BY <2>1, <2>2, Zenon
  <2> QED
    BY <1>4, <2>3
<1>6. TypeOK'
  BY <1>1, <1>2, <1>3, <1>5 DEF TypeOK
<1>7. SnapshotsAreSound'
  <2>1. row[t].status = "absent"
    BY <1>2 DEF AbsentTask
  <2> QED
    BY <1>1, <1>2, <2>1 DEF SnapshotsAreSound, TypeOK
<1>8. PendingRowsAreRecorded'
  <2>1. \A u \in Task : history'[u].started = history[u].started
                       /\ history'[u].finished = history[u].finished
    BY <1>2, <1>4, <1>5 DEF TypeOK
  <2> QED
    BY <1>2, <2>1 DEF PendingRowsAreRecorded, SnapshotsAreSound
<1>9. AbsentTasksAreBlank' /\ HistoryTellsStatus' /\ AttemptsWithinBudget'
  BY <1>1, <1>2, <1>3, <1>5
     DEF AbsentTasksAreBlank, HistoryTellsStatus, AttemptsWithinBudget, TypeOK
<1>10. AttemptRowsFollowHistory'
  BY <1>2, <1>4, <1>5 DEF AttemptRowsFollowHistory, TypeOK
<1> QED
  BY <1>6, <1>7, <1>8, <1>9, <1>10

----------------------------------------------------------------------------
(***************************************************************************)
(* Consistent is inductive.                                                *)
(***************************************************************************)
LEMMA NextKeepsConsistent == Consistent /\ [Next]_vars => Consistent'
<1> SUFFICES ASSUME Consistent, [Next]_vars PROVE Consistent'
  OBVIOUS
<1>1. CASE UNCHANGED vars
  BY <1>1 DEF vars, Consistent, TypeOK, SnapshotsAreSound, PendingRowsAreRecorded,
              AbsentTasksAreBlank, HistoryTellsStatus, AttemptsWithinBudget,
              AttemptRowsFollowHistory
<1>2. ASSUME NEW t \in Task, CreateTask(t) PROVE Consistent'
  BY <1>2, CreateTaskKeepsConsistent
<1>3. ASSUME NEW c \in Call,
             \/ \E t \in Task : RequireTask(c, t)
             \/ ReadEventSeq(c) \/ GiveUp(c) \/ Crash(c) \/ ReadAttempts(c)
      PROVE  Consistent'
  BY <1>3, ReadingKeepsConsistent
<1>4. ASSUME NEW c \in Call,
             \/ \E to \in TaskStatus : Transition(c, to)
             \/ SetAssignment(c) \/ LinkCheckpoint(c) \/ RecordProgress(c)
             \/ \E accepted \in BOOLEAN : Review(c, accepted)
             \/ Cancel(c) \/ Retry(c)
      PROVE  Consistent'
  BY <1>4, TransitionKeepsConsistent, SetAssignmentKeepsConsistent,
     LinkCheckpointKeepsConsistent, RecordProgressKeepsConsistent,
     ReviewKeepsConsistent, CancelKeepsConsistent, RetryKeepsConsistent
<1>5. ASSUME NEW c \in Call,
             \/ StartAttempt(c) \/ SaveAttempt(c)
             \/ \E n \in AttemptNumber, e \in Evidence : FinishAttempt(c, n, e)
      PROVE  Consistent'
  BY <1>5, StartAttemptKeepsConsistent, SaveAttemptKeepsConsistent,
     FinishAttemptKeepsConsistent
<1> QED
  BY <1>1, <1>2, <1>3, <1>4, <1>5 DEF Next

(***************************************************************************)
(* Whatever calls race and wherever a process dies, every reachable state  *)
(* is consistent.                                                          *)
(***************************************************************************)
THEOREM AlwaysConsistent == Spec => []Consistent
BY InitIsConsistent, NextKeepsConsistent, PTL DEF Spec

(***************************************************************************)
(* The variables keep their types; in particular no attempt is ever        *)
(* numbered beyond the limit.                                              *)
(***************************************************************************)
THEOREM TypeCorrect == Spec => []TypeOK
<1>1. Consistent => TypeOK
  BY DEF Consistent
<1> QED
  BY <1>1, AlwaysConsistent, PTL

(***************************************************************************)
(* A task is never left in a status its history disagrees with.            *)
(***************************************************************************)
THEOREM HistoryIsFaithful == Spec => []HistoryTellsStatus
<1>1. Consistent => HistoryTellsStatus
  BY DEF Consistent
<1> QED
  BY <1>1, AlwaysConsistent, PTL

(***************************************************************************)
(* Every attempt is counted once and none is begun beyond the budget.      *)
(***************************************************************************)
THEOREM BudgetIsKept == Spec => []AttemptsWithinBudget
<1>1. Consistent => AttemptsWithinBudget
  BY DEF Consistent
<1> QED
  BY <1>1, AlwaysConsistent, PTL

(***************************************************************************)
(* Attempt rows never run ahead of the history.                            *)
(***************************************************************************)
THEOREM AttemptRowsAreBacked == Spec => []AttemptRowsFollowHistory
<1>1. Consistent => AttemptRowsFollowHistory
  BY DEF Consistent
<1> QED
  BY <1>1, AlwaysConsistent, PTL

----------------------------------------------------------------------------
(***************************************************************************)
(* Every write is one operation of TaskRecords, allowed by its guard and   *)
(* applied to the row as it is at the moment of the write: the calls, for  *)
(* all their interleaved queries, act on a task atomically.                *)
(***************************************************************************)
Creation(s, r) ==
  /\ s = AbsentTask
  /\ \E max \in 1 .. HardMaxAttempts, assigned \in BOOLEAN : r = NewTask(max, assigned)

Operation(s, r) ==
  \/ \E to \in TaskStatus : MayTransition(s, to) /\ r = Transitioned(s, to)
  \/ MayAssign(s) /\ r = Assigned(s)
  \/ r = Linked(s)
  \/ MayStart(s) /\ r = Started(s)
  \/ \E e \in Evidence : MayFinish(s, e) /\ r = FinishedWith(s, e)
  \/ \E accepted \in BOOLEAN : MayReview(s) /\ r = Reviewed(s, accepted)
  \/ MayCancel(s) /\ r = Cancelled(s)
  \/ MayRetry(s) /\ r = Retried(s)

AtomicWrite ==
  \E t \in Task : /\ row' = [row EXCEPT ![t] = row'[t]]
                 /\ row[t] \in TaskRecord
                 /\ \/ Creation(row[t], row'[t])
                    \/ row[t].status # "absent" /\ Operation(row[t], row'[t])

LEMMA SaveIsAtomic ==
  ASSUME Consistent, NEW c \in Call, call[c].stage \in {"ready", "attempts"},
         NEW r, NEW h, NEW then, Save(c, r, h, then), Operation(Seen(c), r)
  PROVE  row' = row \/ AtomicWrite
<1>1. CASE ~SaveWins(c)
  BY <1>1 DEF Save
<1>2. CASE SaveWins(c)
  <2>1. /\ call[c].task \in Task
        /\ Seen(c) = row[call[c].task] /\ Seen(c) \in TaskRecord
        /\ Seen(c).status # "absent"
    BY <1>2, SnapshotIsTheRow DEF Seen
  <2>2. row' = [row EXCEPT ![call[c].task] = r]
    BY <1>2 DEF Save
  <2>3. row'[call[c].task] = r
    BY <2>1, <2>2 DEF Consistent, TypeOK
  <2> QED
    BY <2>1, <2>2, <2>3 DEF AtomicWrite
<1> QED
  BY <1>1, <1>2

LEMMA StepsAreAtomic ==
  Consistent /\ [Next]_vars => row' = row \/ AtomicWrite
<1> SUFFICES ASSUME Consistent, [Next]_vars PROVE row' = row \/ AtomicWrite
  OBVIOUS
<1>1. CASE UNCHANGED vars
  BY <1>1 DEF vars
<1>2. ASSUME NEW t \in Task, CreateTask(t) PROVE AtomicWrite
  <2>1. row[t] = AbsentTask /\ row[t] \in TaskRecord
    BY <1>2 DEF CreateTask, Consistent, AbsentTasksAreBlank, TypeOK
  <2>2. PICK max \in 1 .. HardMaxAttempts, assigned \in BOOLEAN :
          row' = [row EXCEPT ![t] = NewTask(max, assigned)]
    BY <1>2 DEF CreateTask
  <2>3. row'[t] = NewTask(max, assigned)
    BY <2>2 DEF Consistent, TypeOK
  <2> QED
    BY <2>1, <2>2, <2>3 DEF AtomicWrite, Creation
<1>3. ASSUME NEW c \in Call,
             \/ \E t \in Task : RequireTask(c, t)
             \/ ReadEventSeq(c) \/ GiveUp(c) \/ Crash(c) \/ ReadAttempts(c)
             \/ RecordProgress(c) \/ SaveAttempt(c)
      PROVE  row' = row
  BY <1>3 DEF RequireTask, ReadEventSeq, GiveUp, Crash, ReadAttempts, RecordProgress,
              SaveAttempt
<1>4. ASSUME NEW c \in Call,
             \/ \E to \in TaskStatus : Transition(c, to)
             \/ SetAssignment(c) \/ LinkCheckpoint(c)
             \/ \E accepted \in BOOLEAN : Review(c, accepted)
             \/ Cancel(c) \/ Retry(c)
             \/ StartAttempt(c)
             \/ \E n \in AttemptNumber, e \in Evidence : FinishAttempt(c, n, e)
      PROVE  row' = row \/ AtomicWrite
  <2>1. ASSUME NEW to \in TaskStatus, Transition(c, to) PROVE row' = row \/ AtomicWrite
    BY <2>1, SaveIsAtomic DEF Transition, Ready, Operation
  <2>2. CASE SetAssignment(c)
    BY <2>2, SaveIsAtomic DEF SetAssignment, Ready, Operation
  <2>3. CASE LinkCheckpoint(c)
    BY <2>3, SaveIsAtomic DEF LinkCheckpoint, Ready, Operation
  <2>4. ASSUME NEW accepted \in BOOLEAN, Review(c, accepted) PROVE row' = row \/ AtomicWrite
    BY <2>4, SaveIsAtomic DEF Review, Ready, Operation
  <2>5. CASE Cancel(c)
    BY <2>5, SaveIsAtomic DEF Cancel, Ready, Operation
  <2>6. CASE Retry(c)
    BY <2>6, SaveIsAtomic DEF Retry, Ready, Operation
  <2>7. CASE StartAttempt(c)
    BY <2>7, SaveIsAtomic DEF StartAttempt, Ready, Operation
  <2>8. ASSUME NEW n \in AttemptNumber, NEW e \in Evidence, FinishAttempt(c, n, e)
        PROVE  row' = row \/ AtomicWrite
    BY <2>8, SaveIsAtomic DEF FinishAttempt, Operation
  <2> QED
    BY <1>4, <2>1, <2>2, <2>3, <2>4, <2>5, <2>6, <2>7, <2>8
<1> QED
  BY <1>1, <1>2, <1>3, <1>4 DEF Next

(***************************************************************************)
(* Completed and cancelled tasks are final, whatever a late call decided.  *)
(***************************************************************************)
THEOREM FinishedTasksAreFinal == Spec => FinishedStaysFinished
<1> DEFINE Stays == \A t \in Task :
                      row[t].status \in Finished =>
                        /\ row'[t].status   = row[t].status
                        /\ row'[t].review   = row[t].review
                        /\ row'[t].attempts = row[t].attempts
<1>1. Consistent /\ [Next]_vars => Stays
  <2> SUFFICES ASSUME Consistent, [Next]_vars PROVE Stays
    OBVIOUS
  <2>1. CASE row' = row
    BY <2>1
  <2>2. CASE AtomicWrite
    <3>1. PICK t \in Task : /\ row' = [row EXCEPT ![t] = row'[t]]
                           /\ row[t] \in TaskRecord
                           /\ \/ Creation(row[t], row'[t])
                              \/ Operation(row[t], row'[t])
      BY <2>2 DEF AtomicWrite
    <3>2. \A u \in Task : u # t => row'[u] = row[u]
      BY <3>1 DEF Consistent, TypeOK
    <3>3. ASSUME row[t].status \in Finished
          PROVE  row'[t] = Linked(row[t])
      <4>1. row[t] # AbsentTask
        BY <3>3 DEF AbsentTask, Finished
      <4> QED
        BY <3>1, <3>3, <4>1, NothingMovesAFinishedRecord DEF Creation, Operation
    <3>4. row[t].status \in Finished =>
            /\ row'[t].status   = row[t].status
            /\ row'[t].review   = row[t].review
            /\ row'[t].attempts = row[t].attempts
      BY <3>1, <3>3, LinkedRecord
    <3> QED
      BY <3>2, <3>4
  <2> QED
    BY <2>1, <2>2, StepsAreAtomic
<1>2. Consistent /\ [Next]_vars => [Stays]_vars
  BY <1>1
<1>3. Spec => [][Stays]_vars
  BY <1>2, AlwaysConsistent, PTL DEF Spec
<1> QED
  BY <1>3 DEF FinishedStaysFinished

----------------------------------------------------------------------------
(* TaskManager implements TaskContract. *)

LEMMA InitImplements == Init => Contract!Init
BY DEF Init, Contract!Init, AbsentTask

\* The two modules read one lifecycle table.
LEMMA SameTable ==
  /\ Contract!TASK_TRANSITIONS = TASK_TRANSITIONS
  /\ Contract!Finished = Finished
  /\ \A from, to : Contract!TransitionIsGuarded(from, to) <=> TransitionIsGuarded(from, to)
BY DEF Contract!TASK_TRANSITIONS, TASK_TRANSITIONS, Contract!Finished, Finished,
       Contract!TransitionIsGuarded, TransitionIsGuarded

\* A status with a way out is open.
LEMMA WaysOutAreOpen ==
  ASSUME NEW s \in TaskStatus, NEW to \in TASK_TRANSITIONS[s]
  PROVE  s \notin Finished
BY DEF TaskStatus, TASK_TRANSITIONS, Finished

LEMMA WritesImplement ==
  Consistent /\ AtomicWrite => Contract!Next \/ UNCHANGED Contract!vars
<1> SUFFICES ASSUME Consistent, AtomicWrite PROVE Contract!Next \/ UNCHANGED Contract!vars
  OBVIOUS
<1> DEFINE status   == [u \in Task |-> row[u].status]
           review   == [u \in Task |-> row[u].review]
           attempts == [u \in Task |-> row[u].attempts]
           budget   == [u \in Task |-> row[u].maxAttempts]
<1>1. PICK t \in Task : /\ row' = [row EXCEPT ![t] = row'[t]]
                       /\ row[t] \in TaskRecord
                       /\ \/ Creation(row[t], row'[t])
                          \/ row[t].status # "absent" /\ Operation(row[t], row'[t])
  BY DEF AtomicWrite
<1> DEFINE s == row[t]
           r == row'[t]
<1>2. /\ status'   = [status   EXCEPT ![t] = r.status]
      /\ review'   = [review   EXCEPT ![t] = r.review]
      /\ attempts' = [attempts EXCEPT ![t] = r.attempts]
      /\ budget'   = [budget   EXCEPT ![t] = r.maxAttempts]
  BY <1>1 DEF Consistent, TypeOK
<1>3. /\ status[t] = s.status /\ review[t] = s.review
      /\ attempts[t] = s.attempts /\ budget[t] = s.maxAttempts
  OBVIOUS
<1>4. /\ r.status      = s.status      => status'   = status
      /\ r.review      = s.review      => review'   = review
      /\ r.attempts    = s.attempts    => attempts' = attempts
      /\ r.maxAttempts = s.maxAttempts => budget'   = budget
  BY <1>2
<1>5. CASE Creation(s, r)
  <2>1. PICK max \in 1 .. HardMaxAttempts, assigned \in BOOLEAN : r = NewTask(max, assigned)
    BY <1>5 DEF Creation
  <2>2. /\ r.status = "queued" /\ r.review = s.review /\ r.attempts = s.attempts
        /\ r.maxAttempts = max /\ s.status = "absent"
    BY <1>5, <2>1 DEF Creation, NewTask, AbsentTask
  <2>3. Contract!Create(t)
    BY <1>2, <1>3, <1>4, <2>2 DEF Contract!Create, Contract!Become
  <2> QED
    BY <2>3 DEF Contract!Next
<1>6. CASE s.status # "absent" /\ Operation(s, r)
  <2>0. s.status \in TaskStatus
    BY <1>1, <1>6 DEF TaskRecord
  <2>1. CASE \E to \in TaskStatus : MayTransition(s, to) /\ r = Transitioned(s, to)
    <3>1. PICK to \in TaskStatus : MayTransition(s, to) /\ r = Transitioned(s, to)
      BY <2>1
    <3>2. /\ to \in TASK_TRANSITIONS[s.status] /\ ~TransitionIsGuarded(s.status, to)
          /\ s.status \notin Finished
      BY <3>1, <2>0, WaysOutAreOpen DEF MayTransition, CanTransition
    <3>3. r.status = to /\ review' = review /\ attempts' = attempts /\ budget' = budget
      BY <1>1, <1>4, <3>1, TransitionedRecord
    <3>4. Contract!Move(t)
      BY <1>2, <1>3, <1>6, <3>2, <3>3, SameTable
         DEF Contract!Move, Contract!Open, Contract!Become
    <3> QED
      BY <3>4 DEF Contract!Next
  <2>2. CASE r = Assigned(s) \/ r = Linked(s)
    BY <1>1, <1>4, <2>2, AssignedRecord, LinkedRecord DEF Contract!vars
  <2>3. CASE MayStart(s) /\ r = Started(s)
    <3>1. s.attempts < s.maxAttempts /\ s.status \notin Finished
      BY <1>1, <2>3 DEF MayStart, TaskRecord
    <3>2. /\ r.status = "running" /\ review' = review
          /\ r.attempts = s.attempts + 1 /\ budget' = budget
      BY <1>1, <1>4, <2>3, StartedRecord
    <3>3. Contract!Begin(t)
      BY <1>2, <1>3, <1>6, <3>1, <3>2, SameTable
         DEF Contract!Begin, Contract!Open, Contract!Become
    <3> QED
      BY <3>3 DEF Contract!Next
  <2>4. CASE \E e \in Evidence : MayFinish(s, e) /\ r = FinishedWith(s, e)
    <3>1. PICK e \in Evidence : MayFinish(s, e) /\ r = FinishedWith(s, e)
      BY <2>4
    <3>2. Verdict(s, e) \in TASK_TRANSITIONS[s.status] /\ s.status \notin Finished
      BY <3>1, <2>0, WaysOutAreOpen DEF MayFinish, CanTransition
    <3>3. /\ r.status = Verdict(s, e) /\ attempts' = attempts /\ budget' = budget
          /\ r.review = IF Verdict(s, e) = "awaiting_review" THEN "pending" ELSE s.review
      BY <1>1, <1>4, <3>1, FinishedRecord
    <3>4. Verdict(s, e) \in {"failed", "blocked", "awaiting_review"}
      BY DEF Verdict
    <3>5. Contract!Judge(t)
      <4>1. CASE Verdict(s, e) = "awaiting_review"
        BY <1>2, <1>3, <1>6, <3>2, <3>3, <4>1, SameTable
           DEF Contract!Judge, Contract!Open, Contract!Become
      <4>2. CASE Verdict(s, e) \in {"failed", "blocked"}
        <5>1. review' = review
          BY <1>4, <3>3, <4>2
        <5> QED
          BY <1>2, <1>3, <1>6, <3>2, <3>3, <4>2, <5>1, SameTable
             DEF Contract!Judge, Contract!Open, Contract!Become
      <4> QED
        BY <3>4, <4>1, <4>2
    <3> QED
      BY <3>5 DEF Contract!Next
  <2>5. CASE \E accepted \in BOOLEAN : MayReview(s) /\ r = Reviewed(s, accepted)
    <3>1. PICK accepted \in BOOLEAN : MayReview(s) /\ r = Reviewed(s, accepted)
      BY <2>5
    <3>2. /\ r.status = IF accepted THEN "completed" ELSE "running"
          /\ r.review = IF accepted THEN "accepted" ELSE "rejected"
          /\ attempts' = attempts /\ budget' = budget
      BY <1>1, <1>4, <3>1, ReviewedRecord
    <3>3. Contract!Decide(t)
      BY <1>2, <1>3, <3>1, <3>2 DEF MayReview, Contract!Decide, Contract!Become
    <3> QED
      BY <3>3 DEF Contract!Next
  <2>6. CASE MayCancel(s) /\ r = Cancelled(s)
    <3>1. r.status = "cancelled" /\ review' = review /\ attempts' = attempts /\ budget' = budget
      BY <1>1, <1>4, <2>6, CancelledRecord
    <3>2. Contract!Cancel(t)
      BY <1>2, <1>3, <1>6, <2>6, <3>1, SameTable
         DEF MayCancel, Contract!Cancel, Contract!Open, Contract!Become
    <3> QED
      BY <3>2 DEF Contract!Next
  <2>7. CASE MayRetry(s) /\ r = Retried(s)
    <3>1. r.status = "queued" /\ r.review = "none" /\ attempts' = attempts /\ budget' = budget
      BY <1>1, <1>4, <2>7, RetriedRecord
    <3>2. Contract!Retry(t)
      BY <1>2, <1>3, <2>7, <3>1 DEF MayRetry, Contract!Retry, Contract!Become
    <3> QED
      BY <3>2 DEF Contract!Next
  <2> QED
    BY <1>6, <2>1, <2>2, <2>3, <2>4, <2>5, <2>6, <2>7 DEF Operation
<1> QED
  BY <1>1, <1>5, <1>6

(***************************************************************************)
(* The task manager implements its contract: with any number of callers    *)
(* racing over the store, each task moves as if one caller at a time had   *)
(* moved it in a single step.                                              *)
(***************************************************************************)
THEOREM Implements == Spec => ImplementsContract
<1>1. Consistent /\ [Next]_vars => [Contract!Next]_(Contract!vars)
  <2>1. row' = row => UNCHANGED Contract!vars
    BY DEF Contract!vars
  <2> QED
    BY <2>1, StepsAreAtomic, WritesImplement
<1>2. Spec => Contract!Init /\ [][Contract!Next]_(Contract!vars)
  BY <1>1, InitImplements, AlwaysConsistent, PTL DEF Spec
<1> QED
  BY <1>2 DEF ImplementsContract, Contract!Spec
=============================================================================
