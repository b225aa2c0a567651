----------------------------- MODULE Scheduler -----------------------------
(***************************************************************************)
(* Which workers run at once: delegation, planning and dispatch in         *)
(* orchestration/worker, with resource claims on paths.                    *)
(*                                                                         *)
(* delegate lists the live workers and inserts a new one later; plan lists *)
(* the workers, then the tasks; dispatch starts later what plan chose.     *)
(* Calls of several requests interleave between these awaits, and no lock  *)
(* joins what a call read to what it writes.                               *)
(*                                                                         *)
(* Simplifications:                                                        *)
(*  - a worker is queued, holding (from assigned to awaiting_review), idle *)
(*    (failed, timed_out) or over (completed, cancelled): WorkerManager    *)
(*    takes these apart;                                                   *)
(*  - a task is open, completed or cancelled, and its dependencies are     *)
(*    those it was created with: TaskDependencies has them change;         *)
(*  - a requeued worker is in backoff or not at anybody's choice;          *)
(*  - assignments are valid and name a path; lists are not cut at 300.     *)
(***************************************************************************)
EXTENDS Naturals, FiniteSets, Sequences, SequencesExt

CONSTANTS
  Tasks, Calls, NoTask,
  Needs,        \* Needs[t]: the dependencies of task t
  ClaimSets,    \* ClaimSets[t]: the sets of claims that assignments of t have
  Files,        \* paths of files, for the properties
  Limits,       \* limits that dispatches ask for
  MaxWorkers,   \* bound: workers ever created
  MaxPlans,     \* bound: dispatches
  MaxRequeues,  \* bound: requeues
  MaxDirect,    \* bound: starts that no plan chose
  MaxCancels    \* bound: cancels of workers and of tasks

\* A path is the sequence of its names, and has one: see Simplifications.
Path == Seq(STRING) \ {<<>>}
Claim == [kind: {"file", "directory"}, path: Path]

ASSUME SchedulerConstants ==
  /\ NoTask \notin Tasks
  /\ Needs \in [Tasks -> SUBSET Tasks]
  /\ \A t \in Tasks : ClaimSets[t] \subseteq SUBSET Claim
  /\ Files \subseteq Path
  /\ Limits \subseteq Nat \ {0}
  /\ {MaxWorkers, MaxPlans, MaxRequeues, MaxDirect, MaxCancels} \subseteq Nat

VARIABLES
  task,     \* task[t]: open, completed or cancelled
  worker,   \* worker[w]: the row of worker w, in the order of creation
  call,     \* call[c]: where the request in slot c stands
  used      \* how often the bounded calls were made

vars == <<task, worker, call, used>>

Worker == 1 .. MaxWorkers

-----------------------------------------------------------------------------
\* Claims

\* Mutant of PathWithin: only the path itself is within it.
PathWithinSame(child, parent) == child = parent

PathWithin(child, parent) == IsPrefix(parent, child)

ClaimsConflict(a, b) ==
  CASE a.kind = "directory" /\ b.kind = "directory" ->
         PathWithin(a.path, b.path) \/ PathWithin(b.path, a.path)
    [] a.kind = "file" /\ b.kind = "file" -> a.path = b.path
    [] a.kind = "file" /\ b.kind = "directory" -> PathWithin(a.path, b.path)
    [] a.kind = "directory" /\ b.kind = "file" -> PathWithin(b.path, a.path)

ConflictBetween(mine, theirs) == \E a \in mine, b \in theirs : ClaimsConflict(a, b)

-----------------------------------------------------------------------------
Statuses == {"absent", "queued", "holding", "idle", "over"}

Absent == [status |-> "absent", task |-> NoTask, claims |-> {}, requeued |-> FALSE,
           \* History, read by the properties only: live workers that delegate's
           \* list did not show, holders that the plan that started it did not
           \* know, whether a plan started it.
           unlisted |-> {}, unplanned |-> {}, planned |-> FALSE]

Free == [at |-> "free", limit |-> 0, task |-> NoTask, claims |-> {},
         listed |-> {},    \* workers a list showed: live ones, or holders
         queued |-> {},    \* queued workers the plan's list showed
         chosen |-> {},    \* workers the plan selected
         todo |-> {}]      \* those of them that are still to be started

Init ==
  /\ task = [t \in Tasks |-> "open"]
  /\ worker = [w \in Worker |-> Absent]
  /\ call = [c \in Calls |-> Free]
  /\ used = [plans |-> 0, requeues |-> 0, direct |-> 0, cancels |-> 0]

InStatus(statuses) == {w \in Worker : worker[w].status \in statuses}
Holders == InStatus({"holding"})
LiveWorkers == InStatus({"queued", "holding"})

Use(what, max) ==
  /\ used[what] < max
  /\ used' = [used EXCEPT ![what] = @ + 1]

-----------------------------------------------------------------------------
\* delegate

\* Mutant of Delegate: claims are not compared.
DelegateUnclaimed(c, t, claims) ==
  /\ call[c].at = "free" /\ worker[MaxWorkers].status = "absent"
  /\ task[t] = "open"
  /\ \A v \in LiveWorkers : worker[v].task # t
  /\ call' = [call EXCEPT ![c] = [Free EXCEPT !.at = "inserting", !.task = t,
                                    !.claims = claims, !.listed = LiveWorkers]]
  /\ UNCHANGED <<task, worker, used>>

\* The task is open; among the live workers nobody works on it or holds a claim.
Delegate(c, t, claims) ==
  /\ call[c].at = "free" /\ worker[MaxWorkers].status = "absent"
  /\ task[t] = "open"
  /\ \A v \in LiveWorkers :
       worker[v].task # t /\ ~ConflictBetween(claims, worker[v].claims)
  /\ call' = [call EXCEPT ![c] = [Free EXCEPT !.at = "inserting", !.task = t,
                                    !.claims = claims, !.listed = LiveWorkers]]
  /\ UNCHANGED <<task, worker, used>>

\* The unique index refuses a second live worker on the task; claims have none.
Insert(c) ==
  LET t == call[c].task
      new == Cardinality(InStatus(Statuses \ {"absent"})) + 1
  IN
  /\ call[c].at = "inserting"
  /\ call' = [call EXCEPT ![c] = Free]
  /\ IF new \in Worker /\ \A v \in LiveWorkers : worker[v].task # t
     THEN worker' = [worker EXCEPT ![new] =
            [Absent EXCEPT !.status = "queued", !.task = t, !.claims = call[c].claims,
                           !.unlisted = LiveWorkers \ call[c].listed]]
     ELSE UNCHANGED worker
  /\ UNCHANGED <<task, used>>

-----------------------------------------------------------------------------
\* plan and dispatch

\* plan lists the workers.
ReadWorkers(c, limit) ==
  /\ call[c].at = "free"
  /\ Use("plans", MaxPlans)
  /\ call' = [call EXCEPT ![c] = [Free EXCEPT !.at = "planning", !.limit = limit,
                !.listed = Holders, !.queued = InStatus({"queued"})]]
  /\ UNCHANGED <<task, worker>>

\* Mutants of May: a cancelled dependency counts as done, the workers chosen
\* before it count for nothing.
MayAfterCancelled(c, w, chosen, resting) ==
  LET t == worker[w].task IN
  /\ task[t] = "open"
  /\ \A v \in call[c].listed : worker[v].task # t
  /\ \A d \in Needs[t] : task[d] # "open"
  /\ w \notin resting
  /\ Cardinality(call[c].listed) + Cardinality(chosen) < call[c].limit
  /\ \A v \in call[c].listed \cup chosen :
       ~ConflictBetween(worker[w].claims, worker[v].claims)
MayBesideChosen(c, w, chosen, resting) ==
  LET t == worker[w].task IN
  /\ task[t] = "open"
  /\ \A v \in call[c].listed : worker[v].task # t
  /\ \A d \in Needs[t] : task[d] = "completed"
  /\ w \notin resting
  /\ Cardinality(call[c].listed) < call[c].limit
  /\ \A v \in call[c].listed \cup chosen :
       ~ConflictBetween(worker[w].claims, worker[v].claims)

\* A queued worker that the plan does not skip, beside those it chose before.
May(c, w, chosen, resting) ==
  LET t == worker[w].task IN
  /\ task[t] = "open"
  /\ \A v \in call[c].listed : worker[v].task # t
  /\ \A d \in Needs[t] : task[d] = "completed"
  /\ w \notin resting
  /\ Cardinality(call[c].listed) + Cardinality(chosen) < call[c].limit
  /\ \A v \in call[c].listed \cup chosen :
       ~ConflictBetween(worker[w].claims, worker[v].claims)

\* The queued workers that a plan selects, each looked at beside those created
\* before it that were selected.
Selected(c, resting, chosen) ==
  /\ chosen \subseteq call[c].queued
  /\ \A w \in call[c].queued :
       w \in chosen <=> May(c, w, {v \in chosen : v < w}, resting)

\* It then lists the tasks and chooses; some requeued workers are in backoff.
Plan(c) ==
  /\ call[c].at = "planning"
  /\ \E resting \in SUBSET {w \in call[c].queued : worker[w].requeued},
        chosen \in SUBSET call[c].queued :
       /\ Selected(c, resting, chosen)
       /\ call' = [call EXCEPT ![c] = IF chosen = {} THEN Free ELSE
                     [@ EXCEPT !.at = "dispatching", !.chosen = chosen, !.todo = chosen]]
  /\ UNCHANGED <<task, worker, used>>

\* start reads the worker afresh.  It holds its claims from then on, also when the
\* task refuses the attempt.
Started(w, planned, known) ==
  [worker EXCEPT ![w].status = "holding", ![w].planned = planned,
                 ![w].unplanned = Holders \ known]

\* dispatch starts what was chosen; a worker that cannot start stops no other.
Dispatch(c, w) ==
  /\ call[c].at = "dispatching" /\ w \in call[c].todo
  /\ IF worker[w].status = "queued"
     THEN worker' = Started(w, TRUE, call[c].listed \cup call[c].chosen)
     ELSE UNCHANGED worker
  /\ call' = IF call[c].todo = {w} THEN [call EXCEPT ![c] = Free]
             ELSE [call EXCEPT ![c].todo = @ \ {w}]
  /\ UNCHANGED <<task, used>>

-----------------------------------------------------------------------------
\* What else happens to workers and tasks

\* A client starts a queued worker itself: nothing of what plan asks is asked.
StartDirectly(w) ==
  /\ worker[w].status = "queued"
  /\ Use("direct", MaxDirect)
  /\ worker' = Started(w, FALSE, {})
  /\ UNCHANGED <<task, call>>

\* w is no longer live; the history of the others has no use for it.
Ended(w, status) ==
  [v \in Worker |->
     IF v = w
     THEN [worker[w] EXCEPT !.status = status, !.unlisted = {}, !.unplanned = {},
                            !.planned = FALSE, !.requeued = @ /\ status = "idle"]
     ELSE [worker[v] EXCEPT !.unlisted = @ \ {w}, !.unplanned = @ \ {w}]]

\* The run fails or times out, or its result is turned down.
Fail(w) ==
  /\ worker[w].status = "holding"
  /\ worker' = Ended(w, "idle")
  /\ UNCHANGED <<task, call, used>>

\* An accepted review completes the task and then the worker.
Complete(w) ==
  /\ worker[w].status = "holding" /\ task[worker[w].task] = "open"
  /\ task' = [task EXCEPT ![worker[w].task] = "completed"]
  /\ worker' = Ended(w, "over")
  /\ UNCHANGED <<call, used>>

\* cancel takes the task along, unless it is finished.
CancelWorker(w) ==
  /\ worker[w].status \in {"queued", "holding", "idle"}
  /\ Use("cancels", MaxCancels)
  /\ worker' = Ended(w, "over")
  /\ task' = [task EXCEPT ![worker[w].task] = IF @ = "open" THEN "cancelled" ELSE @]
  /\ UNCHANGED call

\* The owner cancels a task; its workers are not told.
CancelTask(t) ==
  /\ task[t] = "open"
  /\ Use("cancels", MaxCancels)
  /\ task' = [task EXCEPT ![t] = "cancelled"]
  /\ UNCHANGED <<worker, call>>

\* No claim is compared when a worker is queued again.
Requeue(w) ==
  /\ worker[w].status = "idle"
  /\ Use("requeues", MaxRequeues)
  /\ \A v \in LiveWorkers : worker[v].task # worker[w].task
  /\ worker' = [worker EXCEPT ![w].status = "queued", ![w].requeued = TRUE]
  /\ UNCHANGED <<task, call>>

Next ==
  \/ \E c \in Calls :
       \/ \E t \in Tasks : \E claims \in ClaimSets[t] : Delegate(c, t, claims)
       \/ Insert(c)
       \/ \E limit \in Limits : ReadWorkers(c, limit)
       \/ Plan(c)
       \/ \E w \in Worker : Dispatch(c, w)
  \/ \E w \in Worker :
       StartDirectly(w) \/ Fail(w) \/ Complete(w) \/ CancelWorker(w) \/ Requeue(w)
  \/ \E t \in Tasks : CancelTask(t)

Spec == Init /\ [][Next]_vars

-----------------------------------------------------------------------------
(* Properties *)

\* The files that claims let a worker write.
Covers(claims) ==
  {f \in Files : \E a \in claims :
     IF a.kind = "file" THEN f = a.path ELSE IsPrefix(a.path, f)}

Overlap(v, w) == Covers(worker[v].claims) \cap Covers(worker[w].claims) # {}

(***************************************************************************)
(* Two workers that may write the same file hold their claims at once only *)
(* if one of them was started by a client past the plan, or by a plan that *)
(* was made before the other one held: nothing that happens in between, no *)
(* failure, requeue or delegation, makes a plan overlook a holder.         *)
(***************************************************************************)
SharedFilesNeedAStalePlan ==
  \A v, w \in Holders :
    v # w /\ Overlap(v, w) => v \in worker[w].unplanned \/ w \in worker[v].unplanned

(***************************************************************************)
(* A dispatch that starts a worker leaves no more holders than its limit,  *)
(* unless a holder it did not know of came in since it made its plan.      *)
(***************************************************************************)
CrowdNeedsAStalePlan ==
  [][\A c \in Calls : \A w \in call[c].todo :
       /\ call'[c] # call[c]
       /\ worker[w].status = "queued" /\ worker'[w].status = "holding"
       /\ worker'[w].unplanned = {}
       => Cardinality(Holders') <= call[c].limit]_vars

(***************************************************************************)
(* A worker that a plan started works on a task whose dependencies are     *)
(* completed, however old the plan was when it was started.                *)
(***************************************************************************)
PlannedWorkHasItsDependencies ==
  \A w \in Holders :
    worker[w].planned => \A d \in Needs[worker[w].task] : task[d] = "completed"

(***************************************************************************)
(* Two live workers claim the same file only if the later one was inserted *)
(* on a list that did not show the earlier one yet, or if one came back by *)
(* requeue, which compares no claims.                                      *)
(***************************************************************************)
SharedClaimsNeedARace ==
  \A v, w \in LiveWorkers :
    v < w /\ Overlap(v, w) =>
      v \in worker[w].unlisted \/ worker[v].requeued \/ worker[w].requeued
=============================================================================
