---------------------------- MODULE TaskRecords ----------------------------
(***************************************************************************)
(* The task record of orchestration/core and what each operation of the    *)
(* task manager makes of it: the lifecycle table, the condition under      *)
(* which an operation is refused, and the record it would write.  The      *)
(* operators are pure; who reads the record, when, and whether the write   *)
(* wins is the business of TaskManager and WorkerManager.                  *)
(*                                                                         *)
(* Of the record only the fields the operations decide on are kept.  Text, *)
(* timestamps, checkpoint and result are left out: no operation reads them *)
(* back.  "absent" stands for a task that has not been created.            *)
(***************************************************************************)
EXTENDS Integers

CONSTANT HardMaxAttempts   \* TASK_LIMITS.hardMaxAttempts

ASSUME HardMaxAttemptsIsPositive == HardMaxAttempts \in Nat \ {0}

TaskStatus ==
  {"queued", "planning", "assigned", "running", "blocked", "awaiting_review",
   "partially_completed", "completed", "failed", "cancelled"}

Finished == {"completed", "cancelled"}

TASK_TRANSITIONS ==
  [ queued              |-> {"planning", "assigned", "running", "cancelled"},
    planning            |-> {"assigned", "running", "blocked", "failed", "cancelled"},
    assigned            |-> {"running", "blocked", "failed", "cancelled"},
    running             |-> {"awaiting_review", "partially_completed", "blocked",
                             "completed", "failed", "cancelled"},
    blocked             |-> {"planning", "assigned", "running", "failed", "cancelled"},
    partially_completed |-> {"running", "awaiting_review", "completed", "failed",
                             "cancelled"},
    awaiting_review     |-> {"completed", "running", "partially_completed", "cancelled"},
    completed           |-> {},
    failed              |-> {"queued", "cancelled"},
    cancelled           |-> {} ]

CanTransition(from, to) == to \in TASK_TRANSITIONS[from]

\* The edges no client may ask for directly, whatever the table says.
TransitionIsGuarded(from, to) ==
  <<from, to>> \in {<<"failed", "queued">>, <<"awaiting_review", "completed">>}

ReviewStatus == {"none", "pending", "accepted", "rejected"}

TaskRecord ==
  [ status      : TaskStatus \cup {"absent"},
    review      : ReviewStatus,
    assigned    : BOOLEAN,       \* assignment # null
    attempts    : Nat,           \* retry.attempts
    maxAttempts : Nat,           \* retry.maxAttempts
    version     : Nat ]

AbsentTask ==
  [ status |-> "absent", review |-> "none", assigned |-> FALSE,
    attempts |-> 0, maxAttempts |-> 0, version |-> 0 ]

\* createTask: the attempt budget is clamped to 1 .. hardMaxAttempts.
NewTask(max, assigned) ==
  [ status |-> "queued", review |-> "none", assigned |-> assigned,
    attempts |-> 0, maxAttempts |-> max, version |-> 1 ]

----------------------------------------------------------------------------
(* transition *)
MayTransition(r, to) ==
  CanTransition(r.status, to) /\ ~TransitionIsGuarded(r.status, to)

Transitioned(r, to) == [r EXCEPT !.status = to, !.version = @ + 1]

(* setAssignment *)
MayAssign(r) == r.status \notin Finished

\* Mutant: the version is not bumped.
AssignedUnversioned(r) == [r EXCEPT !.assigned = TRUE]

Assigned(r) == [r EXCEPT !.assigned = TRUE, !.version = @ + 1]

(* linkCheckpoint refuses no status, not even a finished one. *)
Linked(r) == [r EXCEPT !.version = @ + 1]

(* startAttempt *)
\* Mutant: the budget is not looked at.
MayStartUnbudgeted(r) ==
  /\ r.status \notin Finished
  /\ r.status \in {"running", "assigned"} \/ CanTransition(r.status, "running")

MayStart(r) ==
  /\ r.status \notin Finished
  /\ r.status \in {"running", "assigned"} \/ CanTransition(r.status, "running")
  /\ r.attempts + 1 <= r.maxAttempts

Started(r) ==
  [r EXCEPT !.status = "running", !.attempts = @ + 1, !.version = @ + 1]

(***************************************************************************)
(* finishAttempt.  The evidence is abstracted to what the rule reads:      *)
(* "failure" when the worker reports one, "blocked" when assessCompletion  *)
(* would answer blocked (it is asked only if there is an assignment), and  *)
(* "delivered" for every other verdict.                                    *)
(***************************************************************************)
Evidence == {"failure", "blocked", "delivered"}

Verdict(r, e) ==
  CASE e = "failure"               -> "failed"
    [] e = "blocked" /\ r.assigned -> "blocked"
    [] OTHER                       -> "awaiting_review"

MayFinish(r, e) == CanTransition(r.status, Verdict(r, e))

FinishedWith(r, e) ==
  [r EXCEPT !.status  = Verdict(r, e),
            !.review  = IF Verdict(r, e) = "awaiting_review" THEN "pending" ELSE @,
            !.version = @ + 1]

(* review *)
MayReview(r) == r.status = "awaiting_review"

Reviewed(r, accepted) ==
  [r EXCEPT !.status  = IF accepted THEN "completed" ELSE "running",
            !.review  = IF accepted THEN "accepted" ELSE "rejected",
            !.version = @ + 1]

(* cancel *)
MayCancel(r) == r.status \notin Finished

Cancelled(r) == [r EXCEPT !.status = "cancelled", !.version = @ + 1]

(* retry *)
MayRetry(r) ==
  /\ r.status \in {"failed", "partially_completed"}
  /\ r.attempts < r.maxAttempts

\* Mutant: the review of the previous attempt is kept.
RetriedKeepingReview(r) == [r EXCEPT !.status = "queued", !.version = @ + 1]

Retried(r) ==
  [r EXCEPT !.status = "queued", !.review = "none", !.version = @ + 1]
=============================================================================
