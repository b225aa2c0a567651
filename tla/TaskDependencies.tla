-------------------------- MODULE TaskDependencies --------------------------
(***************************************************************************)
(* addDependency and removeDependency of the task manager over the         *)
(* PostgreSQL store, with concurrent calls.                                *)
(*                                                                         *)
(* addDependency looks for a loop by walking the dependency graph one read *)
(* at a time and then inserts the edge.  Neither operation compares or     *)
(* bumps the version of the row: what they have is the primary key of      *)
(* task_events, which lets one of two calls on the SAME task win.  Nothing *)
(* is shared by calls on different tasks.  A call in flight is an edit.    *)
(*                                                                         *)
(* The walk's queue and its `seen` set are kept as sets: in which order    *)
(* pending tasks are visited is left open.                                 *)
(***************************************************************************)
EXTENDS Integers, FiniteSets

CONSTANTS
  Task,                \* task ids
  Edit,                \* slots for concurrent calls
  NullTask,
  MaxDependencies,     \* TASK_LIMITS.maxDependencies
  MaxDependencyChain,  \* TASK_LIMITS.maxDependencyChain
  MaxSeq               \* bound: no call starts on a task with this many events

ASSUME TaskDependenciesConstants ==
  /\ NullTask \notin Task
  /\ {MaxDependencies, MaxDependencyChain, MaxSeq} \subseteq Nat

VARIABLES
  created,   \* the tasks that exist; none is ever deleted
  deps,      \* deps[t]: the rows of task_dependencies of t
  seq,       \* seq[t]: max(seq) of task_events of t
  edit,      \* edit[c]: where the call in slot c stands
  overlap    \* history: two additions on different tasks have been in
             \* flight together

linkVars == <<created, deps, seq, edit, overlap>>

\* A call: what it read of its task, and the queue and `seen` of assertNoCycle.
NoEdit ==
  [ stage |-> "free", op |-> "add", task |-> NullTask, on |-> NullTask,
    deps |-> {}, seq |-> 0, todo |-> {}, visited |-> {} ]

LinkInit ==
  /\ created = {}
  /\ deps = [t \in Task |-> {}]
  /\ seq = [t \in Task |-> 0]
  /\ edit = [c \in Edit |-> NoEdit]
  /\ overlap = FALSE

----------------------------------------------------------------------------
\* createTask may name dependencies: tasks that exist already.
CreateTask(t, on) ==
  /\ t \notin created
  /\ on \subseteq created
  /\ Cardinality(on) <= MaxDependencies
  /\ created' = created \cup {t}
  /\ deps' = [deps EXCEPT ![t] = on]
  /\ seq' = [seq EXCEPT ![t] = 1]
  /\ UNCHANGED <<edit, overlap>>

\* Any other operation of the manager appends to the events of a task.
OtherEvent(t) ==
  /\ t \in created
  /\ seq[t] < MaxSeq
  /\ seq' = [seq EXCEPT ![t] = @ + 1]
  /\ UNCHANGED <<created, deps, edit, overlap>>

InFlight(c) == edit[c].stage # "free"

\* An addition on t begins while one on another task is in flight.
Overlaps(op, t) ==
  op = "add" /\ \E d \in Edit : InFlight(d) /\ edit[d].op = "add" /\ edit[d].task # t

\* requireTask: the dependencies are one query, the event number the next.
RequireTask(c, op, t, on) ==
  /\ ~InFlight(c)
  /\ t \in created /\ on \in created
  /\ op = "add" => t # on
  /\ seq[t] < MaxSeq
  /\ edit' = [edit EXCEPT ![c] = [NoEdit EXCEPT !.stage = "dependencies", !.op = op,
                                                !.task = t, !.on = on, !.deps = deps[t]]]
  /\ overlap' = (overlap \/ Overlaps(op, t))
  /\ UNCHANGED <<created, deps, seq>>

ReadEventSeq(c) ==
  /\ edit[c].stage = "dependencies"
  /\ edit' = [edit EXCEPT ![c].stage = "ready", ![c].seq = seq[edit[c].task]]
  /\ UNCHANGED <<created, deps, seq, overlap>>

Return(c) ==
  /\ edit' = [edit EXCEPT ![c] = NoEdit]
  /\ UNCHANGED <<created, deps, seq, overlap>>

\* The process dies or the connection fails before anything is written.
Crash(c) == InFlight(c) /\ Return(c)

\* The edge is already as asked, or the task is full.
NothingToDo(c) ==
  /\ edit[c].stage = "ready"
  /\ IF edit[c].op = "add"
     THEN edit[c].on \in edit[c].deps \/ Cardinality(edit[c].deps) >= MaxDependencies
     ELSE edit[c].on \notin edit[c].deps
  /\ Return(c)

StartWalk(c) ==
  /\ edit[c].stage = "ready" /\ edit[c].op = "add"
  /\ edit[c].on \notin edit[c].deps
  /\ Cardinality(edit[c].deps) < MaxDependencies
  /\ edit' = [edit EXCEPT ![c].stage = "walk", ![c].todo = {edit[c].on}]
  /\ UNCHANGED <<created, deps, seq, overlap>>

\* What the walk still has to look at: `seen` tasks are skipped.
Pending(c) == edit[c].todo \ edit[c].visited

\* Mutant: the dependencies of the visited task are not queued.
VisitOneLevel(c, u) ==
  /\ edit[c].stage = "walk" /\ u \in Pending(c)
  /\ IF u = edit[c].task
     THEN Return(c)
     ELSE /\ edit' = [edit EXCEPT ![c].visited = @ \cup {u}]
          /\ UNCHANGED <<created, deps, seq, overlap>>

\* One turn of the loop of assertNoCycle: the dependencies of u are read.
Visit(c, u) ==
  /\ edit[c].stage = "walk" /\ u \in Pending(c)
  /\ IF u = edit[c].task \/ Cardinality(edit[c].visited) >= MaxDependencyChain
     THEN Return(c)
     ELSE /\ edit' = [edit EXCEPT ![c].visited = @ \cup {u},
                                  ![c].todo    = (@ \ {u}) \cup deps[u]]
          /\ UNCHANGED <<created, deps, seq, overlap>>

\* The transaction of the store; a taken event number rolls it back.
Write(c, edges) ==
  LET t == edit[c].task IN
  /\ IF seq[t] = edit[c].seq
     THEN /\ deps' = [deps EXCEPT ![t] = edges]
          /\ seq'  = [seq EXCEPT ![t] = @ + 1]
     ELSE UNCHANGED <<deps, seq>>
  /\ edit' = [edit EXCEPT ![c] = NoEdit]
  /\ UNCHANGED <<created, overlap>>

AddDependency(c) ==
  /\ edit[c].stage = "walk" /\ Pending(c) = {}
  /\ Write(c, deps[edit[c].task] \cup {edit[c].on})

RemoveDependency(c) ==
  /\ edit[c].stage = "ready" /\ edit[c].op = "remove"
  /\ edit[c].on \in edit[c].deps
  /\ Write(c, deps[edit[c].task] \ {edit[c].on})

LinkNext ==
  \/ \E t \in Task, on \in SUBSET Task : CreateTask(t, on)
  \/ \E t \in Task : OtherEvent(t)
  \/ \E c \in Edit :
       \/ \E op \in {"add", "remove"}, t \in Task, on \in Task : RequireTask(c, op, t, on)
       \/ ReadEventSeq(c)
       \/ NothingToDo(c)
       \/ StartWalk(c)
       \/ \E u \in Task : Visit(c, u)
       \/ AddDependency(c)
       \/ RemoveDependency(c)
       \/ Crash(c)

LinkSpec == LinkInit /\ [][LinkNext]_linkVars

----------------------------------------------------------------------------
(* Properties *)

\* Every nonempty set of tasks has one that waits for none of the set.
Acyclic ==
  \A S \in (SUBSET Task) \ {{}} : \E t \in S : deps[t] \cap S = {}

(***************************************************************************)
(* What the check does give: a loop can only come from two additions on    *)
(* DIFFERENT tasks in flight together.  Calls that race on one task, a     *)
(* dependency removed while another call walks, and creations are safe.    *)
(***************************************************************************)
LoopNeedsTwoTasks == overlap \/ Acyclic

----------------------------------------------------------------------------
(* Why it holds *)

EditRecord ==
  [ stage : {"free", "dependencies", "ready", "walk"}, op : {"add", "remove"},
    task : Task \cup {NullTask}, on : Task \cup {NullTask}, deps : SUBSET Task,
    seq : Nat, todo : SUBSET Task, visited : SUBSET Task ]

TypeOK ==
  /\ created \in SUBSET Task
  /\ deps \in [Task -> SUBSET Task]
  /\ seq \in [Task -> Nat]
  /\ edit \in [Edit -> EditRecord]
  /\ overlap \in BOOLEAN

\* Nobody waits for a task that does not exist, and such a task for nobody.
OnlyCreatedAreLinked ==
  \A t \in Task : deps[t] \subseteq created /\ (t \notin created => deps[t] = {})

CallsAreOnCreated ==
  \A c \in Edit : InFlight(c) => edit[c].task \in created /\ edit[c].on \in created

Adds(c) == InFlight(c) /\ edit[c].op = "add"

OneTaskAtATime ==
  overlap \/ \A c, d \in Edit : Adds(c) /\ Adds(d) => edit[c].task = edit[d].task

NothingVisitedYet == \A c \in Edit : edit[c].stage # "walk" => edit[c].visited = {}

\* A walk set out from the new dependency, has not met its task, and lacks no
\* edge of what it visited: only an addition on another task could add one.
WalksAreClosed ==
  \A c \in Edit : edit[c].stage = "walk" =>
    LET k == edit[c]
        met == k.visited \cup k.todo
    IN /\ k.op = "add"
       /\ met \subseteq created
       /\ k.on \in met
       /\ k.task \notin k.visited
       /\ overlap \/ \A u \in k.visited : deps[u] \subseteq met

LoopInv ==
  /\ TypeOK
  /\ OnlyCreatedAreLinked
  /\ CallsAreOnCreated
  /\ OneTaskAtATime
  /\ NothingVisitedYet
  /\ WalksAreClosed
  /\ LoopNeedsTwoTasks

=============================================================================
