--------------------------- MODULE WorkerManager ---------------------------
(***************************************************************************)
(* The worker runner of orchestration/worker, in several server processes  *)
(* that share the PostgreSQL worker and task stores.                       *)
(*                                                                         *)
(* A call of the runner is a chain of awaits: it reads the worker, moves   *)
(* it, asks the task manager for something, moves it again.  Every stage   *)
(* between two awaits is an action, so that other calls, of this process   *)
(* or of another, run in between.  A process also keeps two maps of its    *)
(* own that no other process sees and that a crash empties: the handles of *)
(* the executions it drives and the workers a cancel has claimed.          *)
(*                                                                         *)
(* Simplifications:                                                        *)
(*  - one owner; scope, secret and review checks only refuse a call;       *)
(*  - a call of the task manager is one step here (TaskManager takes it    *)
(*    apart); it may always be refused, as when it loses a race there;     *)
(*  - resource claims and backoff times belong to the scheduler;           *)
(*  - a read and the code up to the next await are one step: the row may   *)
(*    be older by the time it is used, and is, in the steps that follow;   *)
(*  - the row update and the event insert of a save are one step;          *)
(*  - a heartbeat is old or not at anybody's choice.                       *)
(***************************************************************************)
EXTENDS TaskRecords, FiniteSets

CONSTANTS
  Task, Worker, Proc,
  Call,               \* slots for concurrent calls of the runner
  NoTask, NoWorker, NoProc,
  WorkerMaxAttempts,  \* WORKER_LIMITS.maxAttempts
  MaxVersion,         \* bound: no start and no requeue from this version on
  OwnerMoves,         \* bound: where the owner moves tasks by transition
  MayCrash            \* whether processes crash

ASSUME WorkerManagerConstants ==
  /\ NoTask \notin Task /\ NoWorker \notin Worker /\ NoProc \notin Proc
  /\ WorkerMaxAttempts \in Nat \ {0}
  /\ MaxVersion \in Nat
  /\ OwnerMoves \subseteq TaskStatus
  /\ MayCrash \in BOOLEAN

VARIABLES
  task,        \* task[t]: the task record
  open,        \* open[t]: its open attempts
  worker,      \* worker[w]: the row of table workers
  log,         \* log[w]: the highest number in its worker_events
  handles,     \* handles[p]: the keys of the map `handles` of process p
  cancelling,  \* cancelling[p]: its set `cancelling`
  call         \* call[c]: where the call in slot c stands

tasks == <<task, open>>
rows  == <<worker, log>>
local == <<handles, cancelling>>
vars  == <<task, open, worker, log, handles, cancelling, call>>

WORKER_TRANSITIONS ==
  [ queued              |-> {"assigned", "cancelled"},
    assigned            |-> {"starting", "cancelled", "failed"},
    starting            |-> {"running", "failed", "timed_out", "cancelled"},
    running             |-> {"awaiting_review", "partially_completed", "blocked",
                             "failed", "timed_out", "cancelled"},
    blocked             |-> {"starting", "running", "failed", "timed_out", "cancelled"},
    partially_completed |-> {"running", "awaiting_review", "failed", "timed_out",
                             "cancelled"},
    awaiting_review     |-> {"completed", "running", "failed", "cancelled"},
    completed           |-> {},
    failed              |-> {"queued", "cancelled"},
    cancelled           |-> {},
    timed_out           |-> {"queued", "cancelled"} ]

WorkerStatus == DOMAIN WORKER_TRANSITIONS

\* Mutant: the table forgets that runs time out.
CanWorkerTransitionInTime(from, to) == to \in WORKER_TRANSITIONS[from] \ {"timed_out"}

CanWorkerTransition(from, to) == to \in WORKER_TRANSITIONS[from]

Terminal == {s \in WorkerStatus : WORKER_TRANSITIONS[s] = {}}

\* The statuses of the index workers_one_live_per_task.
Live == {"queued", "assigned", "starting", "running", "blocked", "awaiting_review"}

\* attempts is the task attempt it last ran, version always equals event_seq.
AbsentWorker == [status |-> "absent", task |-> NoTask, attempts |-> 0, version |-> 0]

NewWorker(t) == [status |-> "queued", task |-> t, attempts |-> 0, version |-> 1]

\* A call: the row as it read it, the task attempt, the status it is about to
\* write and what it tells finishAttempt.
Free ==
  [ stage |-> "free", proc |-> NoProc, worker |-> NoWorker, seen |-> AbsentWorker,
    n |-> 0, to |-> "absent", evidence |-> "delivered" ]

Init ==
  /\ task       = [t \in Task |-> AbsentTask]
  /\ open       = [t \in Task |-> {}]
  /\ worker     = [w \in Worker |-> AbsentWorker]
  /\ log        = [w \in Worker |-> 0]
  /\ handles    = [p \in Proc |-> {}]
  /\ cancelling = [p \in Proc |-> {}]
  /\ call       = [c \in Call |-> Free]

----------------------------------------------------------------------------
(* The task manager, one step per call *)

\* Nothing here reads a task's version.
Unversioned(r) == [r EXCEPT !.version = 0]

\* The task becomes r if the manager may do it, and nothing if it refuses.
Ask(t, may, r) ==
  /\ may
  /\ task' = [task EXCEPT ![t] = Unversioned(r)]

\* All tasks get the same budget; a smaller one is another HardMaxAttempts.  A
\* task without an assignment takes blocked evidence for delivered work, which is
\* among the Results anyway: it is enough to look at assigned ones.
CreateTask(t) ==
  /\ task[t].status = "absent"
  /\ Ask(t, TRUE, NewTask(HardMaxAttempts, TRUE))
  /\ UNCHANGED <<open, rows, local, call>>

\* The owner's own calls on a task that has workers.
OwnerActs(t) ==
  /\ task[t].status # "absent"
  /\ \/ Ask(t, MayCancel(task[t]), Cancelled(task[t]))
     \/ Ask(t, MayRetry(task[t]), Retried(task[t]))
     \/ \E accepted \in BOOLEAN :
          Ask(t, MayReview(task[t]), Reviewed(task[t], accepted))
     \/ \E to \in OwnerMoves :
          Ask(t, MayTransition(task[t], to), Transitioned(task[t], to))
  /\ UNCHANGED <<open, rows, local, call>>

----------------------------------------------------------------------------
(* The worker store *)

OtherLive(w, t) ==
  \E v \in Worker \ {w} : worker[v].task = t /\ worker[v].status \in Live

(***************************************************************************)
(* save: the update finds the version that was read, or nothing happens    *)
(* and the call goes on as `lost` says.  The unique index may reject it.   *)
(* The event takes the next number; if progress has taken that number the  *)
(* insert fails after the row was updated.  Both failures end the call.    *)
(***************************************************************************)
Save(c, r, won, lost) ==
  LET w == call[c].worker
      v == call[c].seen.version
  IN
  /\ IF worker[w].version # v THEN
       call' = [call EXCEPT ![c] = lost] /\ UNCHANGED rows
     ELSE IF r.status \in Live /\ OtherLive(w, r.task) THEN
       call' = [call EXCEPT ![c] = Free] /\ UNCHANGED rows
     ELSE
       /\ worker' = [worker EXCEPT ![w] = [r EXCEPT !.version = v + 1]]
       /\ IF log[w] > v
          THEN UNCHANGED log /\ call' = [call EXCEPT ![c] = Free]
          ELSE /\ log'  = [log EXCEPT ![w] = v + 1]
               /\ call' = [call EXCEPT ![c] = won]
  /\ UNCHANGED <<tasks, local>>

Seen(c) == call[c].seen

\* The call with the row it will have read if its save wins.
After(c, stage, status) ==
  [call[c] EXCEPT !.stage = stage, !.seen.status = status, !.seen.version = @ + 1]

\* get: a new call c of process p has read w.
Begin(c, p, w, stage) ==
  /\ call[c].stage = "free"
  /\ call' = [call EXCEPT ![c] = [Free EXCEPT !.stage = stage, !.proc = p,
                                              !.worker = w, !.seen = worker[w]]]

Goto(c, stage) == call' = [call EXCEPT ![c].stage = stage]

\* The same call, with nothing left of what it has read.
Forget(c, stage) ==
  [Free EXCEPT !.stage = stage, !.proc = call[c].proc, !.worker = call[c].worker]

Return(c) == call' = [call EXCEPT ![c] = Free]

----------------------------------------------------------------------------
(* delegate *)

\* The task is open and nobody works on it, as far as the list tells.
Delegate(c, p, w, t) ==
  /\ call[c].stage = "free"
  /\ worker[w].status = "absent"
  /\ \A d \in Call : call[d].worker # w
  /\ task[t].status \notin Finished \cup {"absent"}
  /\ ~OtherLive(w, t)
  /\ call' = [call EXCEPT ![c] = [Free EXCEPT !.stage = "insert", !.proc = p,
                                              !.worker = w, !.seen = NewWorker(t)]]
  /\ UNCHANGED <<tasks, rows, local>>

Insert(c) ==
  LET w == call[c].worker IN
  /\ call[c].stage = "insert"
  /\ IF OtherLive(w, Seen(c).task)
     THEN UNCHANGED rows
     ELSE /\ worker' = [worker EXCEPT ![w] = Seen(c)]
          /\ log'    = [log EXCEPT ![w] = 1]
  /\ Return(c)
  /\ UNCHANGED <<tasks, local>>

----------------------------------------------------------------------------
(* start *)

Start(c, p, w) ==
  /\ w \notin handles[p]
  /\ worker[w].version < MaxVersion
  /\ \/ worker[w].status = "queued"   /\ Begin(c, p, w, "toAssigned")
     \/ worker[w].status = "blocked"  /\ Begin(c, p, w, "toStarting")
     \/ worker[w].status = "assigned" /\ Begin(c, p, w, "open")
  /\ UNCHANGED <<tasks, rows, local>>

Move(c) ==
  \/ /\ call[c].stage = "toAssigned"
     /\ Save(c, [Seen(c) EXCEPT !.status = "assigned"],
             After(c, "toStarting", "assigned"), Free)
  \/ /\ call[c].stage = "toStarting"
     /\ Save(c, [Seen(c) EXCEPT !.status = "starting"],
             After(c, "open", "starting"), Free)

OpenAttempt(c) ==
  LET t == Seen(c).task
      n == task[t].attempts + 1
  IN
  /\ call[c].stage = "open"
  /\ \/ /\ Ask(t, MayStart(task[t]), Started(task[t]))
        /\ open' = [open EXCEPT ![t] = @ \cup {n}]
        /\ call' = [call EXCEPT ![c].stage = "opened", ![c].n = n]
     \/ Return(c) /\ UNCHANGED tasks
  /\ UNCHANGED <<rows, local>>

\* A worker that was cancelled meanwhile gives its handle up at once.
Register(c) ==
  LET p == call[c].proc
      w == call[c].worker
  IN
  /\ call[c].stage = "opened"
  /\ IF w \in cancelling[p]
     THEN /\ handles' = [handles EXCEPT ![p] = @ \ {w}]
          /\ call' = [call EXCEPT ![c] = Forget(c, "mark")]
     ELSE handles' = [handles EXCEPT ![p] = @ \cup {w}] /\ Goto(c, "toRunning")
  /\ UNCHANGED <<tasks, rows, cancelling>>

\* A lost save ends the call and leaves its handle in the map.
BeginRun(c) ==
  LET r == [Seen(c) EXCEPT !.status = "running", !.attempts = call[c].n] IN
  /\ call[c].stage = "toRunning"
  /\ Save(c, r, [Forget(c, "executing") EXCEPT !.n = call[c].n], Free)

\* reportProgress: the next event number of the row, which stays as it is.
ReportProgress(c) ==
  LET w == call[c].worker IN
  /\ call[c].stage = "executing"
  /\ log[w] = worker[w].version
  /\ log' = [log EXCEPT ![w] = @ + 1]
  /\ UNCHANGED <<tasks, worker, local, call>>

\* What an execution may end in: its outcome, and what it tells the task.  A final
\* answer may name a reason for being blocked whatever its status.
Results ==
  {<<"awaiting_review", "delivered">>, <<"awaiting_review", "blocked">>,
   <<"blocked", "blocked">>, <<"blocked", "delivered">>, <<"failed", "failure">>}

ExecutorEnds(c) ==
  LET p == call[c].proc IN
  /\ call[c].stage = "executing"
  /\ handles' = [handles EXCEPT ![p] = @ \ {call[c].worker}]
  /\ \/ \E result \in Results :
          call' = [call EXCEPT ![c].stage = "ended", ![c].to = result[1],
                               ![c].evidence = result[2]]
     \/ \E to \in {"timed_out", "failed"} :     \* the timer, or a crash of the executor
          call' = [call EXCEPT ![c].stage = "broke", ![c].to = to,
                               ![c].evidence = "failure"]
  /\ UNCHANGED <<tasks, rows, cancelling>>

\* Mutant: the row that is read again may be finished.
AfterRunBlindly(c) ==
  LET w == call[c].worker IN
  /\ call[c].stage \in {"ended", "broke"}
  /\ call' = [call EXCEPT ![c].seen = worker[w],
                          ![c].stage = IF @ = "ended" THEN "report" ELSE "fail"]
  /\ UNCHANGED <<tasks, rows, local>>

\* The row is read again: a cancel comes first, then a finished row, then the result.
AfterRun(c) ==
  LET w == call[c].worker IN
  /\ call[c].stage \in {"ended", "broke"}
  /\ IF w \in cancelling[call[c].proc]
     THEN call' = [call EXCEPT ![c] = Forget(c, "mark")]
     ELSE IF worker[w].status \in Terminal THEN Return(c)
     ELSE call' = [call EXCEPT ![c].seen = worker[w],
                               ![c].stage = IF @ = "ended" THEN "report" ELSE "fail"]
  /\ UNCHANGED <<tasks, rows, local>>

\* finishAttempt, asked by a result and by failWorker; a refusal is swallowed.
FinishAttempt(c) ==
  LET t == Seen(c).task
      n == call[c].n
  IN
  /\ call[c].stage \in {"report", "fail"}
  /\ call' = [call EXCEPT ![c] =
       [Forget(c, IF call[c].stage = "report" THEN "result" ELSE "failSave")
          EXCEPT !.seen = Seen(c), !.to = call[c].to]]
  /\ \/ /\ n \in open[t]
        /\ Ask(t, MayFinish(task[t], call[c].evidence),
               FinishedWith(task[t], call[c].evidence))
        /\ open' = [open EXCEPT ![t] = @ \ {n}]
     \/ UNCHANGED tasks
  /\ UNCHANGED <<rows, local>>

Written(c) == [Seen(c) EXCEPT !.status = call[c].to]

\* saveTolerant: no transition is asserted and a lost save is no error.
SaveResult(c) ==
  /\ call[c].stage = "result"
  /\ Save(c, Written(c), Free, Free)

\* failWorker: the transition is asserted, after the attempt was finished.
FailWorker(c) ==
  /\ call[c].stage = "failSave"
  /\ IF CanWorkerTransition(Seen(c).status, call[c].to)
     THEN Save(c, Written(c), Free, Free)
     ELSE Return(c) /\ UNCHANGED <<tasks, rows, local>>

\* recoverStalled, for one of the workers it lists.
Recover(c, p, w) ==
  /\ call[c].stage = "free"
  /\ worker[w].status \in {"running", "starting"}
  /\ w \notin handles[p]
  /\ call' = [call EXCEPT ![c] =
       [Free EXCEPT !.stage = "fail", !.proc = p, !.worker = w, !.seen = worker[w],
                    !.n = worker[w].attempts, !.to = "timed_out", !.evidence = "failure"]]
  /\ UNCHANGED <<tasks, rows, local>>

----------------------------------------------------------------------------
(* review: the task first, then the worker *)

Review(c, p, w) ==
  /\ worker[w].status = "awaiting_review"
  /\ Begin(c, p, w, "review")
  /\ UNCHANGED <<tasks, rows, local>>

\* Mutant: a refusal of the task manager is swallowed.
ReviewTaskSwallowed(c, accepted) ==
  LET t == Seen(c).task IN
  /\ call[c].stage = "review"
  /\ \/ Ask(t, MayReview(task[t]), Reviewed(task[t], accepted))
     \/ UNCHANGED task
  /\ call' = [call EXCEPT ![c].stage = "reviewed",
                          ![c].to = IF accepted THEN "completed" ELSE "failed"]
  /\ UNCHANGED <<open, rows, local>>

ReviewTask(c, accepted) ==
  LET t == Seen(c).task IN
  /\ call[c].stage = "review"
  /\ \/ /\ Ask(t, MayReview(task[t]), Reviewed(task[t], accepted))
        /\ call' = [call EXCEPT ![c].stage = "reviewed",
                                ![c].to = IF accepted THEN "completed" ELSE "failed"]
     \/ Return(c) /\ UNCHANGED task
  /\ UNCHANGED <<open, rows, local>>

SaveReview(c) ==
  /\ call[c].stage = "reviewed"
  /\ Save(c, Written(c), Free, Free)

----------------------------------------------------------------------------
(* cancel, and markCancelled as cancel and a cancelled run call it *)

\* Mutant: the handle goes and nothing claims the worker.
CancelUnclaimed(c, p, w) ==
  /\ worker[w].status \notin Terminal \cup {"absent"}
  /\ Begin(c, p, w, "cancelTask")
  /\ handles' = [handles EXCEPT ![p] = @ \ {w}]
  /\ UNCHANGED <<tasks, rows, cancelling>>

Cancel(c, p, w) ==
  /\ worker[w].status \notin Terminal \cup {"absent"}
  /\ Begin(c, p, w, "cancelTask")
  /\ cancelling' = [cancelling EXCEPT ![p] = @ \cup {w}]
  /\ handles'    = [handles EXCEPT ![p] = @ \ {w}]
  /\ UNCHANGED <<tasks, rows>>

\* A refusal is swallowed: the worker is cancelled all the same.
CancelTask(c) ==
  LET t == Seen(c).task IN
  /\ call[c].stage = "cancelTask"
  /\ \/ Ask(t, MayCancel(task[t]), Cancelled(task[t]))
     \/ UNCHANGED task
  /\ call' = [call EXCEPT ![c] = Forget(c, "mark")]
  /\ UNCHANGED <<open, rows, local>>

ReadToMark(c) ==
  LET w == call[c].worker IN
  /\ call[c].stage = "mark"
  /\ IF worker[w].status \in Terminal
     THEN Return(c)
     ELSE call' = [call EXCEPT ![c].stage = "markSave", ![c].seen = worker[w],
                               ![c].to = "cancelled"]
  /\ UNCHANGED <<tasks, rows, local>>

MarkCancelled(c) ==
  /\ call[c].stage = "markSave"
  /\ Save(c, Written(c), Free, Free)

----------------------------------------------------------------------------
(* requeue *)

Requeue(c, p, w) ==
  /\ worker[w].status \in {"failed", "timed_out"}
  /\ worker[w].attempts < WorkerMaxAttempts
  /\ worker[w].version < MaxVersion
  /\ Begin(c, p, w, "retry")
  /\ UNCHANGED <<tasks, rows, local>>

\* A refusal is swallowed: the worker is queued all the same.
RetryTask(c) ==
  LET t == Seen(c).task IN
  /\ call[c].stage = "retry"
  /\ \/ Ask(t, MayRetry(task[t]), Retried(task[t]))
     \/ UNCHANGED task
  /\ Goto(c, "requeued")
  /\ UNCHANGED <<open, rows, local>>

\* Mutant: the attempts start again from zero.
SaveRequeueAfresh(c) ==
  /\ call[c].stage = "requeued"
  /\ Save(c, [Seen(c) EXCEPT !.status = "queued", !.attempts = 0], Free, Free)

SaveRequeue(c) ==
  /\ call[c].stage = "requeued"
  /\ Save(c, [Seen(c) EXCEPT !.status = "queued"], Free, Free)

----------------------------------------------------------------------------
\* A process dies: its maps and the calls it was in are gone.
Crash(p) ==
  /\ MayCrash
  /\ \/ handles[p] \cup cancelling[p] # {}
     \/ \E c \in Call : call[c].proc = p
  /\ handles'    = [handles EXCEPT ![p] = {}]
  /\ cancelling' = [cancelling EXCEPT ![p] = {}]
  /\ call' = [c \in Call |-> IF call[c].proc = p THEN Free ELSE call[c]]
  /\ UNCHANGED <<tasks, rows>>

\* The next step of a call that is under way.
Proceed(c) ==
  \/ Insert(c) \/ Move(c) \/ OpenAttempt(c) \/ Register(c) \/ BeginRun(c)
  \/ ExecutorEnds(c) \/ AfterRun(c) \/ FinishAttempt(c) \/ SaveResult(c) \/ FailWorker(c)
  \/ \E accepted \in BOOLEAN : ReviewTask(c, accepted)
  \/ SaveReview(c)
  \/ CancelTask(c) \/ ReadToMark(c) \/ MarkCancelled(c)
  \/ RetryTask(c) \/ SaveRequeue(c)

Next ==
  \/ \E t \in Task : CreateTask(t) \/ OwnerActs(t)
  \/ \E c \in Call, p \in Proc, w \in Worker :
       \/ \E t \in Task : Delegate(c, p, w, t)
       \/ Start(c, p, w)
       \/ Recover(c, p, w)
       \/ Review(c, p, w)
       \/ Cancel(c, p, w)
       \/ Requeue(c, p, w)
  \/ \E c \in Call : ReportProgress(c) \/ Proceed(c)
  \/ \E p \in Proc : Crash(p)

Spec == Init /\ [][Next]_vars

\* A cancel aborts the run and clears its timer: from then on only an executor
\* that heeds the signal ends it.
Aborted(c) ==
  call[c].stage = "executing" /\ call[c].worker \in cancelling[call[c].proc]

\* A call that was begun goes on: awaits settle, and the timer of start ends a
\* run whose executor does not.  Nothing is assumed of an aborted executor.
FairSpec == Spec /\ \A c \in Call : WF_vars(~Aborted(c) /\ Proceed(c))

----------------------------------------------------------------------------
(* Properties *)

(***************************************************************************)
(* A worker is completed only together with its task: the task was         *)
(* accepted by review and stays so, although the two records are written   *)
(* by two awaits of runner.review and anyone may touch either in between.  *)
(***************************************************************************)
CompletedWorkIsAccepted ==
  \A w \in Worker :
    worker[w].status = "completed" =>
      /\ task[worker[w].task].status = "completed"
      /\ task[worker[w].task].review = "accepted"

(***************************************************************************)
(* A process never loses sight of an execution: as long as an executor of  *)
(* its own runs, the worker has a handle, by which start and recoverStalled*)
(* of the process keep off, or a cancel of the process has claimed it.     *)
(***************************************************************************)
LiveRunsAreKnown ==
  \A c \in Call :
    call[c].stage = "executing" =>
      call[c].worker \in handles[call[c].proc] \cup cancelling[call[c].proc]

(***************************************************************************)
(* Completed and cancelled workers are final, whatever late results,       *)
(* timeouts, recoveries and reviews decided on an older row.               *)
(***************************************************************************)
FinishedWorkersStay ==
  [][\A w \in Worker :
       worker[w].status \in Terminal => worker'[w] = worker[w]]_vars

(***************************************************************************)
(* Every run of a worker is a fresh attempt of its task: entering running  *)
(* raises the attempt number, and nothing ever lowers it, so that the      *)
(* requeue budget cannot be refilled by a stale write.                     *)
(***************************************************************************)
RunsAreFreshAttempts ==
  [][\A w \in Worker :
       LET before == worker[w]
           after  == worker'[w]
       IN /\ after.attempts >= before.attempts
          /\ after.status = "running" /\ before.status # "running" =>
               after.attempts > before.attempts]_vars

Executes(c, w, n) ==
  call[c].stage = "executing" /\ call[c].worker = w /\ call[c].n = n

RunsAs(w, n) == worker[w].status = "running" /\ worker[w].attempts = n

(***************************************************************************)
(* As long as the process lives, a worker that is being run under attempt  *)
(* n and is not cancelled yet stops running under it, whether its executor *)
(* answers or not and whoever else moves the row meanwhile: another start, *)
(* a recovery, or a cancel that comes later.                               *)
(***************************************************************************)
RunsEnd ==
  \A w \in Worker, n \in 1 .. HardMaxAttempts :
    (\E c \in Call : Executes(c, w, n) /\ ~Aborted(c)) ~> ~RunsAs(w, n)

=============================================================================
