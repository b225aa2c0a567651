---------------------------- MODULE TaskContract ----------------------------
(***************************************************************************)
(* What the task service promises its callers, without versions, events,   *)
(* snapshots or clients: every task changes one atomic step at a time, and *)
(* every step is one of the moves below, made from the task's CURRENT      *)
(* status.  TaskManager, whose callers read, wait and write, is shown to   *)
(* implement it.                                                           *)
(***************************************************************************)
EXTENDS TaskRecords

CONSTANT Task

VARIABLES
  status,      \* status[t]: the lifecycle status, "absent" before creation
  review,      \* review[t]: the last recorded review, or "none"
  attempts,    \* attempts[t]: attempts begun so far
  budget       \* budget[t]: attempts allowed

vars == <<status, review, attempts, budget>>

Init ==
  /\ status   = [t \in Task |-> "absent"]
  /\ review   = [t \in Task |-> "none"]
  /\ attempts = [t \in Task |-> 0]
  /\ budget   = [t \in Task |-> 0]

Open(t) == status[t] \notin Finished \cup {"absent"}

Become(t, s) == status' = [status EXCEPT ![t] = s]

Create(t) ==
  /\ status[t] = "absent"
  /\ Become(t, "queued")
  /\ \E max \in 1 .. HardMaxAttempts : budget' = [budget EXCEPT ![t] = max]
  /\ UNCHANGED <<review, attempts>>

\* An ordinary status change: along the table, never a guarded edge.
Move(t) ==
  /\ Open(t)
  /\ \E s \in TASK_TRANSITIONS[status[t]] :
        ~TransitionIsGuarded(status[t], s) /\ Become(t, s)
  /\ UNCHANGED <<review, attempts, budget>>

\* An attempt begins only inside the budget, and uses one unit of it.
Begin(t) ==
  /\ Open(t)
  /\ attempts[t] < budget[t]
  /\ Become(t, "running")
  /\ attempts' = [attempts EXCEPT ![t] = @ + 1]
  /\ UNCHANGED <<review, budget>>

\* A finished attempt is judged; a good result waits for review.
Judge(t) ==
  /\ Open(t)
  /\ \/ /\ "awaiting_review" \in TASK_TRANSITIONS[status[t]]
        /\ Become(t, "awaiting_review")
        /\ review' = [review EXCEPT ![t] = "pending"]
     \/ \E s \in {"failed", "blocked"} \cap TASK_TRANSITIONS[status[t]] :
           Become(t, s) /\ UNCHANGED review
  /\ UNCHANGED <<attempts, budget>>

\* The one way out of awaiting_review to completed.
Decide(t) ==
  /\ status[t] = "awaiting_review"
  /\ \/ Become(t, "completed") /\ review' = [review EXCEPT ![t] = "accepted"]
     \/ Become(t, "running")   /\ review' = [review EXCEPT ![t] = "rejected"]
  /\ UNCHANGED <<attempts, budget>>

Cancel(t) ==
  /\ Open(t)
  /\ Become(t, "cancelled")
  /\ UNCHANGED <<review, attempts, budget>>

\* Work returns to the queue only while attempts remain.
Retry(t) ==
  /\ status[t] \in {"failed", "partially_completed"}
  /\ attempts[t] < budget[t]
  /\ Become(t, "queued")
  /\ review' = [review EXCEPT ![t] = "none"]
  /\ UNCHANGED <<attempts, budget>>

Next ==
  \E t \in Task :
    Create(t) \/ Move(t) \/ Begin(t) \/ Judge(t) \/ Decide(t) \/ Cancel(t) \/ Retry(t)

Spec == Init /\ [][Next]_vars
=============================================================================
