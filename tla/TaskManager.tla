---------------------------- MODULE TaskManager ----------------------------
(***************************************************************************)
(* The task manager of orchestration/core over the PostgreSQL task store,  *)
(* with any number of concurrent calls.                                    *)
(*                                                                         *)
(* Every operation of the manager reads the task (three queries: the row,  *)
(* its dependencies, the highest event number), decides on that snapshot,  *)
(* and writes the row and its events in one transaction that succeeds only *)
(* if the row's version is still the one read and no event has taken the   *)
(* event numbers chosen.  Between any two queries other calls may run.     *)
(* Attempt rows are read and written by queries of their own.              *)
(*                                                                         *)
(* Simplifications:                                                        *)
(*  - one owner; scope, text and secret checks only refuse a call, and a   *)
(*    call may be refused at any time (GiveUp);                            *)
(*  - expectedVersion also only refuses, so it is not represented;         *)
(*  - transition is always called by the primary agent (the API passes no  *)
(*    other actor), so its refusal of the worker actor is not represented; *)
(*  - dependencies are in TaskDependencies; here they are events without a *)
(*    status, as progress is;                                              *)
(*  - the append-only event list of a task is kept as what replaying it    *)
(*    tells: its length, the status it ends in, and the attempts it begins *)
(*    and ends.                                                            *)
(***************************************************************************)
EXTENDS TaskRecords, FiniteSets

CONSTANTS
  Task,        \* task ids
  Call,        \* slots for concurrent calls of the manager
  NoTask,      \* no task: the slot is free
  MaxVersion,  \* bound: no call starts on a row that has reached this version
  MaxSeq,      \* bound: no progress is recorded past this event number
  MayCrash     \* whether the process may die between two writes of a call

ASSUME TaskManagerConstants ==
  /\ NoTask \notin Task
  /\ MaxVersion \in Nat
  /\ MaxSeq \in Nat
  /\ MayCrash \in BOOLEAN

VARIABLES
  row,       \* row[t]: the row of table tasks
  history,   \* history[t]: what the rows of task_events of t tell
  attempt,   \* attempt[t][n]: the row of task_attempts, "none", "open" or "closed"
  call       \* call[c]: where the call in slot c stands and what it has read

vars == <<row, history, attempt, call>>

AttemptNumber == 1 .. HardMaxAttempts

\* What the events do not agree on: a status they did not leave the task in.
Corrupt == "corrupt"

History ==
  [ seq      : Nat,                                    \* max(seq)
    tells    : TaskStatus \cup {"absent", Corrupt},    \* the last toStatus
    started  : SUBSET AttemptNumber,
    finished : SUBSET AttemptNumber ]

Stage == {"free", "row", "ready", "attempts", "open", "close"}

CallRecord ==
  [ stage : Stage,
    task  : Task \cup {NoTask},
    seen  : TaskRecord,              \* the row as read
    seq   : Nat,                     \* the event number as read
    open  : SUBSET AttemptNumber,    \* the attempt rows read as open
    n     : Nat ]                    \* the attempt row still to be written

Free ==
  [ stage |-> "free", task |-> NoTask, seen |-> AbsentTask, seq |-> 0,
    open |-> {}, n |-> 0 ]

TypeOK ==
  /\ row     \in [Task -> TaskRecord]
  /\ history \in [Task -> History]
  /\ attempt \in [Task -> [AttemptNumber -> {"none", "open", "closed"}]]
  /\ call    \in [Call -> CallRecord]

Init ==
  /\ row     = [t \in Task |-> AbsentTask]
  /\ history = [t \in Task |-> [seq |-> 0, tells |-> "absent",
                                started |-> {}, finished |-> {}]]
  /\ attempt = [t \in Task |-> [n \in AttemptNumber |-> "none"]]
  /\ call    = [c \in Call |-> Free]

----------------------------------------------------------------------------
(* The store *)

\* k events were appended; the statuses they name lead from one to the other.
Logged(h, k, from, to) ==
  [h EXCEPT !.seq = @ + k, !.tells = IF @ = from THEN to ELSE Corrupt]

\* Mutant: only the event numbers are compared.
SaveWinsOnSeq(c) == history[call[c].task].seq = call[c].seq

\* The update finds the version that was read, and the events' keys are free.
SaveWins(c) ==
  LET t == call[c].task IN
  /\ row[t].version = call[c].seen.version
  /\ history[t].seq = call[c].seq

\* Mutant: the answer `false` of the store is not looked at.
SaveUnnoticed(c, r, h, then) ==
  LET t == call[c].task IN
  /\ call' = [call EXCEPT ![c] = then]
  /\ IF SaveWins(c)
     THEN /\ row'     = [row EXCEPT ![t] = r]
          /\ history' = [history EXCEPT ![t] = h]
     ELSE UNCHANGED <<row, history>>
  /\ UNCHANGED attempt

(***************************************************************************)
(* One transaction: the row r and the history h it leaves behind, after    *)
(* which the call is as `then` says.  A lost race or a duplicate event     *)
(* number rolls everything back and the call fails.                        *)
(***************************************************************************)
Save(c, r, h, then) ==
  LET t == call[c].task IN
  /\ IF SaveWins(c)
     THEN /\ row'     = [row EXCEPT ![t] = r]
          /\ history' = [history EXCEPT ![t] = h]
          /\ call'    = [call EXCEPT ![c] = then]
     ELSE /\ call'    = [call EXCEPT ![c] = Free]
          /\ UNCHANGED <<row, history>>
  /\ UNCHANGED attempt

----------------------------------------------------------------------------
(* Reading *)

RequireTask(c, t) ==
  /\ call[c].stage = "free"
  /\ row[t].status # "absent"
  /\ row[t].version < MaxVersion
  /\ call' = [call EXCEPT ![c] = [Free EXCEPT !.stage = "row", !.task = t, !.seen = row[t]]]
  /\ UNCHANGED <<row, history, attempt>>

ReadEventSeq(c) ==
  /\ call[c].stage = "row"
  /\ call' = [call EXCEPT ![c].stage = "ready", ![c].seq = history[call[c].task].seq]
  /\ UNCHANGED <<row, history, attempt>>

\* A refused call, a call that only read, and a process that dies before writing.
GiveUp(c) ==
  /\ call[c].stage \in {"row", "ready", "attempts"}
  /\ call' = [call EXCEPT ![c] = Free]
  /\ UNCHANGED <<row, history, attempt>>

\* The process dies after the row was saved and before the attempt row is.
Crash(c) ==
  /\ MayCrash
  /\ call[c].stage \in {"open", "close"}
  /\ call' = [call EXCEPT ![c] = Free]
  /\ UNCHANGED <<row, history, attempt>>

----------------------------------------------------------------------------
(* The operations *)

CreateTask(t) ==
  /\ row[t].status = "absent"
  /\ \E max \in 1 .. HardMaxAttempts, assigned \in BOOLEAN :
        row' = [row EXCEPT ![t] = NewTask(max, assigned)]
  /\ history' = [history EXCEPT ![t] = Logged(@, 1, "absent", "queued")]
  /\ UNCHANGED <<attempt, call>>

Ready(c) == call[c].stage = "ready"

Seen(c) == call[c].seen

\* What was logged so far, as the store holds it when the transaction runs.
Log(c) == history[call[c].task]

Transition(c, to) ==
  /\ Ready(c) /\ MayTransition(Seen(c), to)
  /\ Save(c, Transitioned(Seen(c), to), Logged(Log(c), 1, Seen(c).status, to), Free)

SetAssignment(c) ==
  /\ Ready(c) /\ MayAssign(Seen(c))
  /\ Save(c, Assigned(Seen(c)), [Log(c) EXCEPT !.seq = @ + 1], Free)

LinkCheckpoint(c) ==
  /\ Ready(c)
  /\ Save(c, Linked(Seen(c)), [Log(c) EXCEPT !.seq = @ + 1], Free)

\* appendEvents: no version is compared and none is written.
RecordProgress(c) ==
  LET t == call[c].task IN
  /\ Ready(c)
  /\ call[c].seq < MaxSeq
  /\ history' = IF history[t].seq = call[c].seq
                THEN [history EXCEPT ![t].seq = @ + 1]
                ELSE history
  /\ call' = [call EXCEPT ![c] = Free]
  /\ UNCHANGED <<row, attempt>>

StartAttempt(c) ==
  LET n == Seen(c).attempts + 1 IN
  /\ Ready(c) /\ MayStart(Seen(c))
  /\ Save(c, Started(Seen(c)),
          [Logged(Log(c), 1, Seen(c).status, "running") EXCEPT !.started = @ \cup {n}],
          [Free EXCEPT !.stage = "open", !.task = call[c].task, !.n = n])

ReadAttempts(c) ==
  /\ Ready(c)
  /\ call' = [call EXCEPT ![c].stage = "attempts",
                          ![c].open  = {n \in AttemptNumber :
                                          attempt[call[c].task][n] = "open"}]
  /\ UNCHANGED <<row, history, attempt>>

\* Any open attempt may be finished, also one that is not the latest.
FinishAttempt(c, n, e) ==
  /\ call[c].stage = "attempts"
  /\ n \in call[c].open
  /\ MayFinish(Seen(c), e)
  /\ Save(c, FinishedWith(Seen(c), e),
          [Logged(Log(c), 2, Seen(c).status, Verdict(Seen(c), e))
             EXCEPT !.finished = @ \cup {n}],
          [Free EXCEPT !.stage = "close", !.task = call[c].task, !.n = n])

\* The second write of startAttempt ("open") and of finishAttempt ("close").
SaveAttempt(c) ==
  /\ call[c].stage \in {"open", "close"}
  /\ attempt' = [attempt EXCEPT ![call[c].task][call[c].n] =
                   IF call[c].stage = "open" THEN "open" ELSE "closed"]
  /\ call' = [call EXCEPT ![c] = Free]
  /\ UNCHANGED <<row, history>>

Review(c, accepted) ==
  LET r == Reviewed(Seen(c), accepted) IN
  /\ Ready(c) /\ MayReview(Seen(c))
  /\ Save(c, r, Logged(Log(c), 2, Seen(c).status, r.status), Free)

Cancel(c) ==
  /\ Ready(c) /\ MayCancel(Seen(c))
  /\ Save(c, Cancelled(Seen(c)), Logged(Log(c), 2, Seen(c).status, "cancelled"), Free)

Retry(c) ==
  /\ Ready(c) /\ MayRetry(Seen(c))
  /\ Save(c, Retried(Seen(c)), Logged(Log(c), 2, Seen(c).status, "queued"), Free)

----------------------------------------------------------------------------
Next ==
  \/ \E t \in Task : CreateTask(t)
  \/ \E c \in Call :
       \/ \E t \in Task : RequireTask(c, t)
       \/ ReadEventSeq(c)
       \/ GiveUp(c)
       \/ Crash(c)
       \/ \E to \in TaskStatus : Transition(c, to)
       \/ SetAssignment(c)
       \/ LinkCheckpoint(c)
       \/ RecordProgress(c)
       \/ StartAttempt(c)
       \/ ReadAttempts(c)
       \/ \E n \in AttemptNumber, e \in Evidence : FinishAttempt(c, n, e)
       \/ SaveAttempt(c)
       \/ \E accepted \in BOOLEAN : Review(c, accepted)
       \/ Cancel(c)
       \/ Retry(c)

Spec == Init /\ [][Next]_vars

----------------------------------------------------------------------------
(* Properties *)

(***************************************************************************)
(* A task is never left in a status its history disagrees with: replaying  *)
(* the events of task_events ends in the status the row holds, whatever    *)
(* calls raced (the header of repositories/tasks.ts).                      *)
(***************************************************************************)
HistoryTellsStatus == \A t \in Task : history[t].tells = row[t].status

(***************************************************************************)
(* The attempt budget: every attempt number from 1 to the counter was      *)
(* begun exactly once and nothing beyond the budget was begun, although    *)
(* the counter is read, compared and written in different steps.           *)
(***************************************************************************)
AttemptsWithinBudget ==
  \A t \in Task :
    /\ history[t].started = 1 .. row[t].attempts
    /\ row[t].attempts <= row[t].maxAttempts
    /\ row[t].maxAttempts <= HardMaxAttempts

(***************************************************************************)
(* An attempt row never runs ahead of the history, even with crashes: a    *)
(* row exists only for an attempt whose start is recorded, and is closed   *)
(* only if its end is recorded.                                            *)
(***************************************************************************)
AttemptRowsFollowHistory ==
  \A t \in Task :
    /\ history[t].finished \subseteq history[t].started
    /\ \A n \in AttemptNumber :
         /\ attempt[t][n] # "none"   => n \in history[t].started
         /\ attempt[t][n] = "closed" => n \in history[t].finished

(***************************************************************************)
(* What makes the races above harmless, and the induction go through.  A   *)
(* call that still has a decision to make has seen either an older version *)
(* of the row or the row itself; an attempt row that a call read as open   *)
(* or is about to write belongs to an attempt the history knows; and a     *)
(* task that was not created yet is blank.                                 *)
(***************************************************************************)
SnapshotsAreSound ==
  \A c \in Call :
    call[c].stage \in {"row", "ready", "attempts"} =>
      LET t == call[c].task IN
      /\ t \in Task
      /\ row[t].status # "absent"
      /\ call[c].seen.version <= row[t].version
      /\ call[c].seen.version = row[t].version => call[c].seen = row[t]

PendingRowsAreRecorded ==
  \A c \in Call :
    LET t == call[c].task IN
    /\ call[c].stage = "attempts" => call[c].open \subseteq history[t].started
    /\ call[c].stage = "open"     => t \in Task /\ call[c].n \in history[t].started
    /\ call[c].stage = "close"    => t \in Task /\ call[c].n \in history[t].finished

AbsentTasksAreBlank ==
  \A t \in Task : row[t].status = "absent" => row[t] = AbsentTask

Consistent ==
  /\ TypeOK
  /\ SnapshotsAreSound
  /\ PendingRowsAreRecorded
  /\ AbsentTasksAreBlank
  /\ HistoryTellsStatus
  /\ AttemptsWithinBudget
  /\ AttemptRowsFollowHistory

(***************************************************************************)
(* `completed` and `cancelled` are terminal: no call, however old the row  *)
(* it decided on, changes the status, the review or the attempts of a      *)
(* finished task (lifecycle.ts, "history is never rewritten").             *)
(***************************************************************************)
FinishedStaysFinished ==
  [][\A t \in Task :
       row[t].status \in Finished =>
         /\ row'[t].status   = row[t].status
         /\ row'[t].review   = row[t].review
         /\ row'[t].attempts = row[t].attempts]_vars

(***************************************************************************)
(* What the callers are promised: atomic moves on the current record.      *)
(***************************************************************************)
Contract ==
  INSTANCE TaskContract WITH
    status   <- [t \in Task |-> row[t].status],
    review   <- [t \in Task |-> row[t].review],
    attempts <- [t \in Task |-> row[t].attempts],
    budget   <- [t \in Task |-> row[t].maxAttempts]

ImplementsContract == Contract!Spec

=============================================================================
