------------------------ MODULE WorkerManagerProofs ------------------------
(***************************************************************************)
(* Proofs about WorkerManager, for any tasks, workers, processes and call  *)
(* slots, any budgets, and with or without crashes.                        *)
(*                                                                         *)
(* The inductive invariant is IInv.  A call decides on a row it read some  *)
(* awaits ago; what saves it is ReadsSoundly: while the version is the one *)
(* it read, so is the row, and so its save overwrites what it decided on.  *)
(* The rest ties the two other memories of a call to the shared state: the *)
(* attempt number it was given to the task (CallSound), and the handle of  *)
(* its process to the run it drives (RunsAreKnown, OneRunPerProcess).      *)
(***************************************************************************)
EXTENDS WorkerManager, TLAPS

Row ==
  [ status : WorkerStatus \cup {"absent"}, task : Task \cup {NoTask},
    attempts : Nat, version : Nat ]

Starting == {"toAssigned", "toStarting", "open", "opened", "toRunning"}

\* The stages at which a call holds a row it has read and may yet write.
Holding ==
  Starting \cup {"report", "result", "fail", "failSave", "review", "reviewed",
                 "cancelTask", "markSave", "retry", "requeued"}

Stage == Holding \cup {"free", "insert", "executing", "ended", "broke", "mark"}

CallRecord ==
  [ stage : Stage, proc : Proc \cup {NoProc}, worker : Worker \cup {NoWorker},
    seen : Row, n : Nat, to : WorkerStatus \cup {"absent"}, evidence : Evidence ]

TasksAreSound ==
  /\ task \in [Task -> TaskRecord]
  /\ open \in [Task -> SUBSET Nat]
  /\ \A t \in Task : task[t].status = "absent" => task[t].attempts = 0

Accepted(r, ts) == ts[r.task].status = "completed" /\ ts[r.task].review = "accepted"

\* A worker belongs to a task and ran no attempt that task has not started.
RowSound(r, ts) ==
  /\ r \in Row
  /\ r.status = "absent" => r = AbsentWorker
  /\ r.status # "absent" => r.task \in Task /\ r.attempts <= ts[r.task].attempts
  /\ r.status = "completed" => Accepted(r, ts)

RowsAreSound ==
  /\ DOMAIN worker = Worker
  /\ log \in [Worker -> Nat]
  /\ \A w \in Worker : RowSound(worker[w], task)

LocalTypes ==
  /\ handles \in [Proc -> SUBSET Worker]
  /\ cancelling \in [Proc -> SUBSET Worker]

\* What a call is about to write fits the stage it is at.
FitsItsStage(k) ==
  /\ k.stage \in {"ended", "report", "result"} =>
       k.to \in {"awaiting_review", "blocked", "failed"}
  /\ k.stage \in {"broke", "fail", "failSave"} => k.to \in {"timed_out", "failed"}
  /\ k.stage = "reviewed" => k.to \in {"completed", "failed"}
  /\ k.stage = "markSave" => k.to = "cancelled"

\* As long as the version is the one that was read, so is the row.
ReadsSoundly(k, ts, ws) ==
  /\ k.seen.status \notin Terminal \cup {"absent"}
  /\ k.seen.task \in Task
  /\ k.seen.attempts <= ts[k.seen.task].attempts
  /\ k.seen.version <= ws[k.worker].version
  /\ k.seen.version = ws[k.worker].version => k.seen = ws[k.worker]

CallSound(k, ts, ws) ==
  /\ k \in CallRecord
  /\ k.stage = "free" => k = Free
  /\ k.stage # "free" => k.worker \in Worker /\ k.proc \in Proc
  /\ k.stage \notin {"free", "insert"} => ws[k.worker].status # "absent"
  /\ FitsItsStage(k)
  /\ k.stage \in Holding => ReadsSoundly(k, ts, ws)
  /\ k.stage \in {"opened", "toRunning"} =>
       k.seen.attempts < k.n /\ k.n <= ts[k.seen.task].attempts
  /\ k.stage = "insert" => k.seen.task \in Task /\ k.seen = NewWorker(k.seen.task)
  /\ k.stage = "reviewed" /\ k.to = "completed" => Accepted(k.seen, ts)

CallsAreSound ==
  /\ DOMAIN call = Call
  /\ \A c \in Call : CallSound(call[c], task, worker)

\* A worker that is being inserted is known to nobody else.
InsertsAreAlone ==
  \A c \in Call : call[c].stage = "insert" =>
    /\ worker[call[c].worker].status = "absent"
    /\ \A d \in Call \ {c} : call[d].worker # call[c].worker

\* The save of such a call would win.
Fresh(k, ws) == k.seen.version = ws[k.worker].version

\* A call that drives a run, or is sure to begin one if it saves now.
Drives(k, ws) == k.stage = "executing" \/ (k.stage = "toRunning" /\ Fresh(k, ws))

Known(k, hs, cs) == k.worker \in hs[k.proc] \cup cs[k.proc]

RunsAreKnown ==
  \A c \in Call : Drives(call[c], worker) => Known(call[c], handles, cancelling)

\* Two calls of one process for one worker that no cancel has claimed there.
Rivals(k, l, cs) ==
  k.worker = l.worker /\ k.proc = l.proc /\ k.worker \notin cs[k.proc]

\* k is executing or could still come to.
MayRun(k, ws) == k.stage = "executing" \/ (k.stage \in Starting /\ Fresh(k, ws))

OneRunPerProcess ==
  \A c, d \in Call :
    c # d /\ call[c].stage = "executing" /\ Rivals(call[c], call[d], cancelling) =>
      ~MayRun(call[d], worker)

IInv ==
  /\ TasksAreSound
  /\ RowsAreSound
  /\ LocalTypes
  /\ CallsAreSound
  /\ InsertsAreAlone
  /\ RunsAreKnown
  /\ OneRunPerProcess

(***************************************************************************)
(* How records change in a step.                                           *)
(***************************************************************************)

\* Attempts are only added, and a finished task stays as it is.
TaskGoesOn(s, r) ==
  /\ r \in TaskRecord
  /\ s.attempts <= r.attempts
  /\ s.status \in Finished => r = s
  /\ r.status = "absent" => r = s

TasksGoOn(ts, ss) == \A t \in Task : TaskGoesOn(ts[t], ss[t])

\* A row is left alone, or written with a later version and by the rules.
RowGoesOn(a, b) ==
  \/ b = a
  \/ /\ a.status \notin Terminal
     /\ b \in Row /\ b.status # "absent"
     /\ a.version < b.version
     /\ a.attempts <= b.attempts
     /\ b.status = "running" /\ a.status # "running" => a.attempts < b.attempts
     /\ a.status # "absent" => b.task = a.task

RowsGoOn(ws, vs) == \A w \in Worker : RowGoesOn(ws[w], vs[w])

LEMMA StatusFacts ==
  /\ WorkerStatus = {"queued", "assigned", "starting", "running", "blocked",
                     "partially_completed", "awaiting_review", "completed", "failed",
                     "cancelled", "timed_out"}
  /\ Terminal = {"completed", "cancelled"}
<1>1. WorkerStatus = {"queued", "assigned", "starting", "running", "blocked",
                     "partially_completed", "awaiting_review", "completed", "failed",
                     "cancelled", "timed_out"}
  BY DEF WorkerStatus, WORKER_TRANSITIONS
<1>2. \A s \in WorkerStatus :
        WORKER_TRANSITIONS[s] = {} <=> s \in {"completed", "cancelled"}
  BY <1>1 DEF WORKER_TRANSITIONS
<1> QED
  BY <1>1, <1>2 DEF Terminal

LEMMA FreeIsSound ==
  ASSUME NEW ts, NEW ws
  PROVE  CallSound(Free, ts, ws) /\ Free.stage = "free" /\ Free.worker = NoWorker
<1>1. AbsentWorker \in Row
  BY DEF AbsentWorker, Row
<1>2. Free \in CallRecord
  BY <1>1 DEF Free, CallRecord, Stage, Evidence
<1> QED
  BY <1>2 DEF Free, CallSound, FitsItsStage, Holding, Starting

LEMMA RowGrows ==
  ASSUME NEW a \in Row, NEW b, RowGoesOn(a, b)
  PROVE  /\ b \in Row
         /\ a.version <= b.version
         /\ a.version = b.version => b = a
         /\ a.status # "absent" => b.status # "absent" /\ b.task = a.task
<1>1. CASE b = a
  BY <1>1 DEF Row
<1>2. CASE b # a
  <2>1. b \in Row /\ a.version \in Nat /\ b.version \in Nat
    BY <1>2 DEF RowGoesOn, Row
  <2> QED
    BY <1>2, <2>1 DEF RowGoesOn
<1> QED
  BY <1>1, <1>2

(***************************************************************************)
(* What a call has read stays sound whatever the others do to the task and *)
(* the row.                                                                *)
(***************************************************************************)
LEMMA ReadStaysSound ==
  ASSUME NEW k \in CallRecord, NEW ts, NEW ws, NEW ss, NEW vs,
         TasksGoOn(ts, ss), RowsGoOn(ws, vs),
         ts \in [Task -> TaskRecord],
         k.worker \in Worker, ws[k.worker] \in Row, k.stage \in Holding,
         ReadsSoundly(k, ts, ws)
  PROVE  ReadsSoundly(k, ss, vs)
<1> DEFINE r == k.seen
           a == ws[k.worker]
           b == vs[k.worker]
<1>1. /\ r \in Row /\ r.version \in Nat /\ r.attempts \in Nat
      /\ a.version \in Nat /\ b \in Row /\ b.version \in Nat
  BY RowGrows DEF CallRecord, Row, RowsGoOn
<1>2. /\ a.version <= b.version
      /\ a.version = b.version => b = a
  BY RowGrows DEF RowsGoOn
<1>3. /\ r.task \in Task /\ r.attempts <= ts[r.task].attempts
      /\ r.version <= a.version /\ (r.version = a.version => r = a)
      /\ r.status \notin Terminal \cup {"absent"}
  BY DEF ReadsSoundly
<1>4. /\ ts[r.task].attempts \in Nat /\ ss[r.task].attempts \in Nat
      /\ ts[r.task].attempts <= ss[r.task].attempts
  BY <1>3 DEF TasksGoOn, TaskGoesOn, TaskRecord
<1>5. r.attempts <= ss[r.task].attempts
  BY <1>1, <1>3, <1>4
<1>6. r.version <= b.version
  BY <1>1, <1>2, <1>3
<1>7. r.version = b.version => r = b
  BY <1>1, <1>2, <1>3
<1> QED
  BY <1>3, <1>5, <1>6, <1>7 DEF ReadsSoundly

LEMMA AcceptedStays ==
  ASSUME NEW ts, NEW ss, TasksGoOn(ts, ss), NEW r, r.task \in Task, Accepted(r, ts)
  PROVE  Accepted(r, ss)
BY DEF TasksGoOn, TaskGoesOn, Accepted, Finished

LEMMA CallStaysSound ==
  ASSUME NEW k, NEW ts, NEW ws, NEW ss, NEW vs,
         TasksGoOn(ts, ss), RowsGoOn(ws, vs),
         ts \in [Task -> TaskRecord], \A w \in Worker : ws[w] \in Row,
         CallSound(k, ts, ws)
  PROVE  CallSound(k, ss, vs)
<1>1. k \in CallRecord /\ FitsItsStage(k)
  BY DEF CallSound
<1>2. ASSUME k.stage \in Holding PROVE ReadsSoundly(k, ss, vs)
  <2>1. k.stage # "free"
    BY <1>2 DEF Holding, Starting
  <2> QED
    BY <1>1, <1>2, <2>1, ReadStaysSound DEF CallSound
<1>3. ASSUME k.stage \notin {"free", "insert"} PROVE vs[k.worker].status # "absent"
  BY <1>3, RowGrows DEF CallSound, RowsGoOn
<1>4. ASSUME k.stage \in {"opened", "toRunning"}
      PROVE  k.seen.attempts < k.n /\ k.n <= ss[k.seen.task].attempts
  <2>1. k.seen.attempts < k.n /\ k.n <= ts[k.seen.task].attempts /\ k.seen.task \in Task
    BY <1>4 DEF CallSound, Holding, Starting, ReadsSoundly
  <2>2. /\ ts[k.seen.task].attempts \in Nat /\ ss[k.seen.task].attempts \in Nat
        /\ ts[k.seen.task].attempts <= ss[k.seen.task].attempts
    BY <2>1 DEF TasksGoOn, TaskGoesOn, TaskRecord
  <2>3. k.n \in Nat
    BY <1>1 DEF CallRecord
  <2> QED
    BY <2>1, <2>2, <2>3
<1>5. ASSUME k.stage = "reviewed", k.to = "completed" PROVE Accepted(k.seen, ss)
  <2>1. k.seen.task \in Task /\ Accepted(k.seen, ts)
    BY <1>5 DEF CallSound, Holding, ReadsSoundly
  <2> QED
    BY <2>1, AcceptedStays
<1> QED
  BY <1>1, <1>2, <1>3, <1>4, <1>5 DEF CallSound

LEMMA RowStaysSound ==
  ASSUME NEW r, NEW ts, NEW ss, TasksGoOn(ts, ss), ts \in [Task -> TaskRecord],
         RowSound(r, ts)
  PROVE  RowSound(r, ss)
<1>1. CASE r.status = "absent"
  BY <1>1 DEF RowSound
<1>2. CASE r.status # "absent"
  <2>1. r \in Row /\ r.task \in Task /\ r.attempts <= ts[r.task].attempts
    BY <1>2 DEF RowSound
  <2>2. /\ ts[r.task].attempts \in Nat /\ ss[r.task].attempts \in Nat
        /\ ts[r.task].attempts <= ss[r.task].attempts /\ r.attempts \in Nat
    BY <2>1 DEF TasksGoOn, TaskGoesOn, TaskRecord, Row
  <2>3. r.attempts <= ss[r.task].attempts
    BY <2>1, <2>2
  <2> QED
    BY <1>2, <2>1, <2>3, AcceptedStays DEF RowSound
<1> QED
  BY <1>1, <1>2

(***************************************************************************)
(* One call goes on to `next`, and with it at most the row of the worker   *)
(* it is about.  What is left to show of an action is what the hypotheses  *)
(* say of next, of the row and of the maps.                                *)
(***************************************************************************)

\* A claim that stands is not taken away by the step.
ClaimsStay(c) ==
  \A d \in Call \ {c} :
    Drives(call[d], worker) /\ Known(call[d], handles, cancelling) =>
      Known(call[d], handles', cancelling')

\* What next owes if it comes to run, or could.
RunsAlone(c, next) ==
  /\ Drives(next, worker') => Known(next, handles', cancelling')
  /\ MayRun(next, worker') =>
       \A d \in Call \ {c} :
         Rivals(call[d], next, cancelling') => call[d].stage # "executing"
  /\ next.stage = "executing" =>
       \A d \in Call \ {c} :
         Rivals(next, call[d], cancelling') /\ call[d].stage \in Starting =>
           ~Fresh(call[d], worker')

InsertsAlone(c, next) ==
  next.stage = "insert" =>
    /\ worker'[next.worker].status = "absent"
    /\ \A d \in Call \ {c} : call[d].worker # next.worker

\* The rows after a step of c.
RowsMove(c) ==
  /\ DOMAIN worker' = Worker
  /\ log' \in [Worker -> Nat]
  /\ \A w \in Worker : RowSound(worker'[w], task')
  /\ RowsGoOn(worker, worker')
  /\ \A w \in Worker \ {call[c].worker} : worker'[w] = worker[w]

LocalMoves == LocalTypes' /\ \A p \in Proc : cancelling[p] \subseteq cancelling'[p]

\* The versions only grow: what is fresh after a step was fresh before it.
LEMMA FreshWasFresh ==
  ASSUME IInv, RowsGoOn(worker, worker'), NEW d \in Call, call[d].stage \in Holding,
         Fresh(call[d], worker')
  PROVE  Fresh(call[d], worker)
<1> DEFINE k == call[d]
<1>1. CallSound(k, task, worker) /\ k.stage # "free"
  BY DEF IInv, CallsAreSound, Holding, Starting
<1>2. /\ k.worker \in Worker /\ k.seen \in Row
      /\ k.seen.version <= worker[k.worker].version
  BY <1>1 DEF CallSound, CallRecord, ReadsSoundly
<1>3. worker[k.worker] \in Row
  BY <1>2 DEF IInv, RowsAreSound, RowSound
<1>4. worker[k.worker].version <= worker'[k.worker].version /\ worker'[k.worker] \in Row
  BY <1>2, <1>3, RowGrows DEF RowsGoOn
<1>5. /\ k.seen.version \in Nat /\ worker[k.worker].version \in Nat
      /\ worker'[k.worker].version \in Nat
  BY <1>2, <1>3, <1>4 DEF Row
<1> QED
  BY <1>2, <1>4, <1>5 DEF Fresh

LEMMA DrivesMayRun ==
  ASSUME NEW k, NEW ws
  PROVE  /\ Drives(k, ws) => MayRun(k, ws)
         /\ MayRun(k, ws) => k.stage = "executing" \/ (k.stage \in Holding /\ Fresh(k, ws))
BY DEF Drives, MayRun, Starting, Holding

LEMMA CallMoves ==
  ASSUME IInv, NEW c \in Call, NEW next,
         call' = [call EXCEPT ![c] = next],
         TasksAreSound', TasksGoOn(task, task'),
         RowsMove(c), LocalMoves, ClaimsStay(c),
         CallSound(next, task', worker'),
         InsertsAlone(c, next), RunsAlone(c, next)
  PROVE  IInv'
<1>1. \A d \in Call : call'[d] = IF d = c THEN next ELSE call[d]
  BY DEF IInv, CallsAreSound
<1>2. CallsAreSound'
  <2>1. \A d \in Call : CallSound(call[d], task, worker)
    BY DEF IInv, CallsAreSound
  <2>2. task \in [Task -> TaskRecord] /\ \A w \in Worker : worker[w] \in Row
    BY DEF IInv, TasksAreSound, RowsAreSound, RowSound
  <2>3. \A d \in Call : CallSound(call[d], task', worker')
    BY <2>1, <2>2, CallStaysSound DEF RowsMove
  <2>4. \A d \in Call : CallSound(call'[d], task', worker')
    BY <1>1, <2>3
  <2>5. DOMAIN call' = Call
    BY DEF IInv, CallsAreSound
  <2> QED
    BY <2>4, <2>5 DEF CallsAreSound
<1>3. InsertsAreAlone'
  <2>1. ASSUME NEW d \in Call, d # c, call[d].stage = "insert"
        PROVE  /\ worker'[call[d].worker].status = "absent"
               /\ next.worker # call[d].worker
               /\ \A e \in Call \ {c, d} : call[e].worker # call[d].worker
    <3>1. /\ worker[call[d].worker].status = "absent"
          /\ \A e \in Call \ {d} : call[e].worker # call[d].worker
      BY <2>1 DEF IInv, InsertsAreAlone
    <3>2. call[d].worker \in Worker
      BY <2>1 DEF IInv, CallsAreSound, CallSound
    <3>3. worker'[call[d].worker].status = "absent"
      BY <2>1, <3>1, <3>2 DEF RowsMove
    <3>4. CASE next.stage = "free"
      BY <3>1, <3>2, <3>3, <3>4, FreeIsSound, WorkerManagerConstants DEF CallSound
    <3>5. CASE next.stage = "insert"
      BY <2>1, <3>1, <3>3, <3>5 DEF InsertsAlone
    <3>6. CASE next.stage \notin {"free", "insert"}
      BY <3>1, <3>3, <3>6 DEF CallSound
    <3> QED
      BY <3>1, <3>3, <3>4, <3>5, <3>6
  <2>2. ASSUME NEW d \in Call, call'[d].stage = "insert"
        PROVE  /\ worker'[call'[d].worker].status = "absent"
               /\ \A e \in Call \ {d} : call'[e].worker # call'[d].worker
    <3>1. CASE d = c
      BY <1>1, <2>2, <3>1 DEF InsertsAlone
    <3>2. CASE d # c
      BY <1>1, <2>1, <2>2, <3>2
    <3> QED
      BY <3>1, <3>2
  <2> QED
    BY <2>2 DEF InsertsAreAlone
<1>4. RunsAreKnown'
  <2>1. ASSUME NEW d \in Call, d # c, Drives(call[d], worker')
        PROVE  Known(call[d], handles', cancelling')
    <3>1. call[d].stage = "toRunning" => call[d].stage \in Holding
      BY DEF Holding, Starting
    <3>2. Drives(call[d], worker)
      BY <2>1, <3>1, FreshWasFresh DEF Drives, RowsMove
    <3>3. Known(call[d], handles, cancelling)
      BY <3>2 DEF IInv, RunsAreKnown
    <3> QED
      BY <2>1, <3>2, <3>3 DEF ClaimsStay
  <2>2. Drives(next, worker') => Known(next, handles', cancelling')
    BY DEF RunsAlone
  <2>3. \A d \in Call : Drives(call'[d], worker') => Known(call'[d], handles', cancelling')
    BY <1>1, <2>1, <2>2
  <2> QED
    BY <2>3 DEF RunsAreKnown
<1>5. OneRunPerProcess'
  <2>1. \A d \in Call : MayRun(call[d], worker') => MayRun(call[d], worker)
    <3>1. SUFFICES ASSUME NEW d \in Call, MayRun(call[d], worker')
                   PROVE  MayRun(call[d], worker)
      OBVIOUS
    <3>2. Starting \subseteq Holding
      BY DEF Holding
    <3> QED
      BY <3>1, <3>2, FreshWasFresh DEF MayRun, RowsMove
  <2>2. ASSUME NEW k, NEW l, Rivals(k, l, cancelling'), k.proc \in Proc
        PROVE  Rivals(k, l, cancelling)
    BY <2>2 DEF Rivals, LocalMoves
  <2>3. ASSUME NEW d \in Call, NEW e \in Call, d # e, d # c, e # c,
               call[d].stage = "executing", Rivals(call[d], call[e], cancelling')
        PROVE  ~MayRun(call[e], worker')
    <3>1. call[d].proc \in Proc
      BY <2>3 DEF IInv, CallsAreSound, CallSound
    <3>2. Rivals(call[d], call[e], cancelling)
      BY <2>2, <2>3, <3>1
    <3> QED
      BY <2>1, <2>3, <3>2 DEF IInv, OneRunPerProcess
  <2>4. ASSUME NEW d \in Call, d # c, call[d].stage = "executing",
               Rivals(call[d], next, cancelling')
        PROVE  ~MayRun(next, worker')
    BY <2>4 DEF RunsAlone
  <2>5. ASSUME NEW e \in Call, e # c, next.stage = "executing",
               Rivals(next, call[e], cancelling')
        PROVE  ~MayRun(call[e], worker')
    <3>1. MayRun(next, worker') /\ Rivals(call[e], next, cancelling')
      BY <2>5 DEF MayRun, Rivals
    <3>2. call[e].stage # "executing"
      BY <2>5, <3>1 DEF RunsAlone
    <3>3. call[e].stage \in Starting => ~Fresh(call[e], worker')
      BY <2>5 DEF RunsAlone
    <3> QED
      BY <3>2, <3>3 DEF MayRun
  <2>6. ASSUME NEW d \in Call, NEW e \in Call, d # e,
               call'[d].stage = "executing", Rivals(call'[d], call'[e], cancelling')
        PROVE  ~MayRun(call'[e], worker')
    <3>1. CASE d = c
      BY <1>1, <2>5, <2>6, <3>1
    <3>2. CASE e = c
      BY <1>1, <2>4, <2>6, <3>2
    <3>3. CASE d # c /\ e # c
      BY <1>1, <2>3, <2>6, <3>3
    <3> QED
      BY <3>1, <3>2, <3>3
  <2> QED
    BY <2>6 DEF OneRunPerProcess
<1>6. RowsAreSound'
  BY DEF RowsMove, RowsAreSound
<1> QED
  BY <1>2, <1>3, <1>4, <1>5, <1>6 DEF IInv, LocalMoves

LEMMA TasksStay ==
  ASSUME IInv, UNCHANGED tasks
  PROVE  TasksAreSound' /\ TasksGoOn(task, task')
<1>1. task' = task /\ open' = open
  BY DEF tasks
<1>2. \A t \in Task : task[t] \in TaskRecord /\ task[t].attempts \in Nat
  BY DEF IInv, TasksAreSound, TaskRecord
<1>3. \A t \in Task : task[t].attempts <= task[t].attempts
  BY <1>2
<1> QED
  BY <1>1, <1>2, <1>3 DEF IInv, TasksAreSound, TasksGoOn, TaskGoesOn

LEMMA RowsStay ==
  ASSUME IInv, UNCHANGED rows, TasksGoOn(task, task'), NEW c \in Call
  PROVE  RowsMove(c)
<1>1. worker' = worker /\ log' = log
  BY DEF rows
<1>2. \A w \in Worker : RowSound(worker[w], task')
  BY RowStaysSound DEF IInv, RowsAreSound, TasksAreSound
<1> QED
  BY <1>1, <1>2 DEF RowsMove, RowsGoOn, RowGoesOn, IInv, RowsAreSound

LEMMA LocalStays ==
  ASSUME IInv, UNCHANGED local, NEW c \in Call
  PROVE  LocalMoves /\ ClaimsStay(c)
<1>1. handles' = handles /\ cancelling' = cancelling
  BY DEF local
<1> QED
  BY <1>1 DEF IInv, LocalTypes, LocalMoves, ClaimsStay

\* What is known of a call that holds a row.
LEMMA HeldFacts ==
  ASSUME IInv, NEW c \in Call, call[c].stage \in Holding
  PROVE  /\ call[c] \in CallRecord /\ CallSound(call[c], task, worker)
         /\ call[c].worker \in Worker /\ call[c].proc \in Proc
         /\ worker[call[c].worker].status # "absent"
         /\ ReadsSoundly(call[c], task, worker)
         /\ Seen(c) \in Row /\ Seen(c).version \in Nat /\ Seen(c).attempts \in Nat
         /\ Seen(c).task \in Task
         /\ task[Seen(c).task] \in TaskRecord /\ task[Seen(c).task].attempts \in Nat
<1>1. CallSound(call[c], task, worker) /\ call[c].stage \notin {"free", "insert"}
  BY DEF IInv, CallsAreSound, Holding, Starting
<1>2. /\ call[c] \in CallRecord
      /\ call[c].worker \in Worker /\ call[c].proc \in Proc
      /\ worker[call[c].worker].status # "absent"
      /\ ReadsSoundly(call[c], task, worker)
  BY <1>1 DEF CallSound
<1>3. Seen(c) \in Row /\ Seen(c).version \in Nat /\ Seen(c).attempts \in Nat
  BY <1>2 DEF Seen, CallRecord, Row
<1>4. Seen(c).task \in Task
  BY <1>2 DEF Seen, ReadsSoundly
<1>5. task[Seen(c).task] \in TaskRecord /\ task[Seen(c).task].attempts \in Nat
  BY <1>4 DEF IInv, TasksAreSound, TaskRecord
<1> QED
  BY <1>1, <1>2, <1>3, <1>4, <1>5

LEMMA FreeRunsAlone ==
  ASSUME NEW c \in Call
  PROVE  RunsAlone(c, Free) /\ InsertsAlone(c, Free)
BY FreeIsSound DEF RunsAlone, InsertsAlone, Drives, MayRun, Starting

\* A call that returns, and changes nothing but the tasks.
LEMMA ReturnKeeps ==
  ASSUME IInv, NEW c \in Call, Return(c), UNCHANGED <<rows, local>>,
         TasksAreSound', TasksGoOn(task, task')
  PROVE  IInv' /\ RowsGoOn(worker, worker')
<1>1. RowsMove(c)
  BY RowsStay
<1>2. LocalMoves /\ ClaimsStay(c)
  BY LocalStays
<1> QED
  BY <1>1, <1>2, CallMoves, FreeIsSound, FreeRunsAlone DEF Return, RowsMove

(***************************************************************************)
(* A save.  If it wins, the row it overwrites is the one that was read, so *)
(* what the call knows of its snapshot is what makes the step a good one.  *)
(***************************************************************************)
WriteIsSound(s, r) ==
  /\ r \in Row /\ r.status # "absent" /\ r.task = s.task
  /\ s.attempts <= r.attempts
  /\ r.attempts <= task[r.task].attempts
  /\ r.status = "running" => s.attempts < r.attempts
  /\ r.status = "completed" => Accepted(r, task)

LEMMA WriteIsARow ==
  ASSUME IInv, NEW s \in Row, NEW r, WriteIsSound(s, r), r.task \in Task,
         s.status \notin Terminal
  PROVE  LET b == [r EXCEPT !.version = s.version + 1] IN
         /\ b \in Row /\ b.version = s.version + 1
         /\ RowGoesOn(s, b) /\ RowSound(b, task)
<1> DEFINE b == [r EXCEPT !.version = s.version + 1]
<1>1. s.version \in Nat /\ s.version + 1 \in Nat /\ s.version < s.version + 1 /\ r \in Row
  BY DEF Row, WriteIsSound
<1>2. b \in Row
  BY <1>1, Zenon DEF Row
<1>3. /\ b.status = r.status /\ b.task = r.task /\ b.attempts = r.attempts
      /\ b.version = s.version + 1
  BY <1>1 DEF Row
<1> HIDE DEF b
<1>4. RowGoesOn(s, b)
  BY <1>1, <1>2, <1>3 DEF RowGoesOn, WriteIsSound
<1>5. RowSound(b, task)
  BY <1>2, <1>3 DEF RowSound, WriteIsSound, Accepted
<1> QED
  BY <1>2, <1>3, <1>4, <1>5 DEF b

LEMMA SaveKeeps ==
  ASSUME IInv, NEW c \in Call, call[c].stage \in Holding,
         NEW r, WriteIsSound(Seen(c), r),
         NEW won,
         \A ws : ws[call[c].worker] = [r EXCEPT !.version = Seen(c).version + 1] =>
                   CallSound(won, task, ws),
         won.stage \notin {"insert", "toRunning"},
         won.stage # "free" => won.worker = call[c].worker /\ won.proc = call[c].proc,
         won.stage \in Starting => call[c].stage \in Starting,
         won.stage = "executing" => call[c].stage = "toRunning",
         Save(c, r, won, Free)
  PROVE  IInv' /\ RowsGoOn(worker, worker')
<1> DEFINE w == call[c].worker
           s == Seen(c)
           b == [r EXCEPT !.version = s.version + 1]
<1>1. UNCHANGED <<tasks, local>>
  BY DEF Save
<1>2. task' = task /\ handles' = handles /\ cancelling' = cancelling
  BY <1>1 DEF tasks, local
<1>3. TasksAreSound' /\ TasksGoOn(task, task')
  BY <1>1, TasksStay
<1>4. LocalMoves /\ ClaimsStay(c)
  BY <1>1, LocalStays
<1>5. \/ Return(c) /\ UNCHANGED rows
      \/ /\ worker[w].version = s.version
         /\ worker' = [worker EXCEPT ![w] = b]
         /\ \/ log' = log /\ Return(c)
            \/ /\ log' = [log EXCEPT ![w] = s.version + 1]
               /\ call' = [call EXCEPT ![c] = won]
  BY DEF Save, Return, Seen, rows
<1>6. CASE Return(c) /\ UNCHANGED rows
  BY <1>1, <1>3, <1>6, ReturnKeeps
<1>7. CASE worker[w].version = s.version /\ worker' = [worker EXCEPT ![w] = b]
  <2>1. /\ w \in Worker /\ s \in Row /\ s.version \in Nat
        /\ s = worker[w] /\ s.status \notin Terminal /\ s.task \in Task
    BY <1>7, HeldFacts DEF ReadsSoundly, Seen
  <2>2. b \in Row /\ b.version = s.version + 1 /\ RowGoesOn(s, b) /\ RowSound(b, task)
    BY <2>1, WriteIsARow DEF WriteIsSound
  <2> HIDE DEF b
  <2>3. \A x \in Worker : worker'[x] = IF x = w THEN b ELSE worker[x]
    BY <1>7 DEF IInv, RowsAreSound
  <2>4. log' \in [Worker -> Nat]
    <3>1. s.version + 1 \in Nat
      BY <2>1
    <3> QED
      BY <1>5, <1>7, <3>1 DEF IInv, RowsAreSound, rows
  <2>5. RowsGoOn(worker, worker')
    BY <2>1, <2>2, <2>3 DEF RowsGoOn, RowGoesOn
  <2>6. \A x \in Worker : RowSound(worker'[x], task')
    BY <1>2, <2>2, <2>3 DEF IInv, RowsAreSound
  <2>7. RowsMove(c)
    BY <1>7, <2>3, <2>4, <2>5, <2>6 DEF RowsMove, IInv, RowsAreSound
  <2>8. CASE Return(c)
    BY <1>3, <1>4, <2>5, <2>7, <2>8, CallMoves, FreeIsSound, FreeRunsAlone DEF Return
  <2>9. CASE call' = [call EXCEPT ![c] = won]
    <3>1. worker'[w] = b
      BY <2>1, <2>3
    <3>2. CallSound(won, task', worker')
      BY <1>2, <3>1 DEF b
    <3>3. Fresh(call[c], worker)
      BY <1>7 DEF Fresh, Seen
    <3>4. InsertsAlone(c, won)
      BY DEF InsertsAlone
    <3>5. Drives(won, worker') => Known(won, handles', cancelling')
      <4>1. SUFFICES ASSUME Drives(won, worker') PROVE Known(won, handles', cancelling')
        OBVIOUS
      <4>2. won.stage = "executing" /\ call[c].stage = "toRunning"
        BY <4>1 DEF Drives
      <4>3. Known(call[c], handles, cancelling)
        BY <3>3, <4>2 DEF Drives, IInv, RunsAreKnown
      <4> QED
        BY <1>2, <4>2, <4>3 DEF Known
    <3>6. ASSUME MayRun(won, worker')
          PROVE  /\ call[c].stage \in Starting
                 /\ won.worker = w /\ won.proc = call[c].proc
      BY <3>6 DEF MayRun, Starting
    <3>7. ASSUME MayRun(won, worker'), NEW d \in Call \ {c},
                 Rivals(call[d], won, cancelling')
          PROVE  call[d].stage # "executing"
      <4>1. Rivals(call[d], call[c], cancelling)
        BY <1>2, <3>6, <3>7 DEF Rivals
      <4>2. MayRun(call[c], worker)
        BY <3>3, <3>6, <3>7 DEF MayRun
      <4> QED
        BY <4>1, <4>2 DEF IInv, OneRunPerProcess
    <3>8. ASSUME won.stage = "executing", NEW d \in Call \ {c},
                 Rivals(won, call[d], cancelling'), call[d].stage \in Starting
          PROVE  ~Fresh(call[d], worker')
      <4>1. call[d].worker = w
        BY <3>8 DEF Rivals
      <4>2. Seen(d) \in Row /\ call[d].seen.version <= worker[w].version
        BY <3>8, <4>1, HeldFacts DEF Holding, ReadsSoundly
      <4>3. call[d].seen.version \in Nat
        BY <4>2 DEF Seen, Row
      <4>4. call[d].seen.version # s.version + 1
        BY <1>7, <2>1, <4>2, <4>3
      <4> QED
        BY <2>2, <3>1, <4>1, <4>4 DEF Fresh
    <3>9. RunsAlone(c, won)
      BY <3>5, <3>7, <3>8 DEF RunsAlone
    <3> QED
      BY <1>3, <1>4, <2>5, <2>7, <2>9, <3>2, <3>4, <3>9, CallMoves
  <2> QED
    BY <1>5, <1>7, <2>5, <2>8, <2>9, <1>6
<1> QED
  BY <1>5, <1>6, <1>7

(***************************************************************************)
(* What the task manager makes of a task.                                  *)
(***************************************************************************)

\* The record r that an operation writes over s.
Grown(s, r) ==
  /\ r \in TaskRecord /\ r.status \in TaskStatus
  /\ s.attempts <= r.attempts

LEMMA CountersGrow ==
  ASSUME NEW s \in TaskRecord
  PROVE  s.version + 1 \in Nat /\ s.attempts + 1 \in Nat /\ s.attempts <= s.attempts
BY DEF TaskRecord

LEMMA CancelledTask ==
  ASSUME NEW s \in TaskRecord PROVE Grown(s, Cancelled(s))
<1>1. "cancelled" \in TaskStatus
  BY DEF TaskStatus
<1>2. Cancelled(s) \in TaskRecord
  BY <1>1, CountersGrow, Zenon DEF Cancelled, TaskRecord
<1> QED
  BY <1>1, <1>2, CountersGrow DEF Cancelled, TaskRecord, Grown

LEMMA RetriedTask ==
  ASSUME NEW s \in TaskRecord PROVE Grown(s, Retried(s))
<1>1. "queued" \in TaskStatus /\ "none" \in ReviewStatus
  BY DEF TaskStatus, ReviewStatus
<1>2. Retried(s) \in TaskRecord
  BY <1>1, CountersGrow, Zenon DEF Retried, TaskRecord
<1> QED
  BY <1>1, <1>2, CountersGrow DEF Retried, TaskRecord, Grown

LEMMA TransitionedTask ==
  ASSUME NEW s \in TaskRecord, NEW to \in TaskStatus PROVE Grown(s, Transitioned(s, to))
<1>1. Transitioned(s, to) \in TaskRecord
  BY CountersGrow, Zenon DEF Transitioned, TaskRecord
<1> QED
  BY <1>1, CountersGrow DEF Transitioned, TaskRecord, Grown

LEMMA StartedTask ==
  ASSUME NEW s \in TaskRecord
  PROVE  Grown(s, Started(s)) /\ Started(s).attempts = s.attempts + 1
<1>1. "running" \in TaskStatus
  BY DEF TaskStatus
<1>2. Started(s) \in TaskRecord
  BY <1>1, CountersGrow, Zenon DEF Started, TaskRecord
<1> QED
  BY <1>1, <1>2, CountersGrow DEF Started, TaskRecord, Grown

LEMMA FinishedWithTask ==
  ASSUME NEW s \in TaskRecord, NEW e \in Evidence PROVE Grown(s, FinishedWith(s, e))
<1>1. Verdict(s, e) \in TaskStatus
  BY DEF Verdict, TaskStatus
<1>2. (IF Verdict(s, e) = "awaiting_review" THEN "pending" ELSE s.review) \in ReviewStatus
  BY DEF TaskRecord, ReviewStatus
<1>3. FinishedWith(s, e) \in TaskRecord
  BY <1>1, <1>2, CountersGrow, Zenon DEF FinishedWith, TaskRecord
<1> QED
  BY <1>1, <1>3, CountersGrow DEF FinishedWith, TaskRecord, Grown

LEMMA ReviewedTask ==
  ASSUME NEW s \in TaskRecord, NEW accepted \in BOOLEAN
  PROVE  /\ Grown(s, Reviewed(s, accepted))
         /\ accepted => /\ Reviewed(s, accepted).status = "completed"
                        /\ Reviewed(s, accepted).review = "accepted"
<1>1. (IF accepted THEN "completed" ELSE "running") \in TaskStatus
  BY DEF TaskStatus
<1>2. (IF accepted THEN "accepted" ELSE "rejected") \in ReviewStatus
  BY DEF ReviewStatus
<1>3. Reviewed(s, accepted) \in TaskRecord
  BY <1>1, <1>2, CountersGrow, Zenon DEF Reviewed, TaskRecord
<1> QED
  BY <1>1, <1>3, CountersGrow DEF Reviewed, TaskRecord, Grown

\* No operation is open to a finished task.
LEMMA FinishedTasksRefuse ==
  ASSUME NEW s \in TaskRecord, s.status \in Finished
  PROVE  /\ \A to \in TaskStatus : ~MayTransition(s, to)
         /\ ~MayStart(s) /\ ~MayReview(s) /\ ~MayCancel(s) /\ ~MayRetry(s)
         /\ \A e \in Evidence : ~MayFinish(s, e)
<1>1. TASK_TRANSITIONS[s.status] = {}
  BY DEF Finished, TASK_TRANSITIONS
<1> QED
  BY <1>1 DEF Finished, MayTransition, CanTransition, MayStart, MayReview, MayCancel,
              MayRetry, MayFinish

LEMMA UnversionedTask ==
  ASSUME NEW r \in TaskRecord
  PROVE  LET u == Unversioned(r) IN
         /\ u \in TaskRecord
         /\ u.status = r.status /\ u.review = r.review /\ u.attempts = r.attempts
<1>1. Unversioned(r) \in TaskRecord
  BY Zenon DEF Unversioned, TaskRecord
<1> QED
  BY <1>1 DEF Unversioned, TaskRecord

(***************************************************************************)
(* A call of the task manager that does not touch a finished task.         *)
(***************************************************************************)
LEMMA AskKeeps ==
  ASSUME IInv, NEW t \in Task, NEW may, NEW r, Ask(t, may, r),
         Grown(task[t], r), task[t].status \notin Finished,
         open' \in [Task -> SUBSET Nat]
  PROVE  /\ TasksAreSound' /\ TasksGoOn(task, task')
         /\ task'[t].status = r.status /\ task'[t].review = r.review
         /\ task'[t].attempts = r.attempts
<1> DEFINE u == Unversioned(r)
<1>1. /\ u \in TaskRecord
      /\ u.status = r.status /\ u.review = r.review /\ u.attempts = r.attempts
  BY UnversionedTask DEF Grown
<1>2. task' = [task EXCEPT ![t] = u]
  BY DEF Ask
<1> HIDE DEF u
<1>3. \A x \in Task : task'[x] = IF x = t THEN u ELSE task[x]
  BY <1>2 DEF IInv, TasksAreSound
<1>4. r.status # "absent" /\ task[t].attempts <= r.attempts
  BY DEF Grown, TaskStatus
<1>5. \A x \in Task : task[x] \in TaskRecord /\ task[x].attempts <= task[x].attempts
  BY CountersGrow DEF IInv, TasksAreSound
<1>6. TasksGoOn(task, task')
  BY <1>1, <1>3, <1>4, <1>5 DEF TasksGoOn, TaskGoesOn
<1>7. task' \in [Task -> TaskRecord]
  BY <1>1, <1>2 DEF IInv, TasksAreSound
<1>8. \A x \in Task : task'[x].status = "absent" => task'[x].attempts = 0
  BY <1>1, <1>3, <1>4 DEF IInv, TasksAreSound
<1> QED
  BY <1>1, <1>3, <1>6, <1>7, <1>8 DEF TasksAreSound

\* A call that asks the task manager and goes on to next, which is not about to run.
Quiet(k) == k.stage \notin Starting \cup {"executing", "insert"}

LEMMA QuietRunsAlone ==
  ASSUME NEW c \in Call, NEW next, Quiet(next)
  PROVE  RunsAlone(c, next) /\ InsertsAlone(c, next)
BY DEF Quiet, RunsAlone, InsertsAlone, Drives, MayRun, Starting

(***************************************************************************)
(* The owner's own calls.                                                  *)
(***************************************************************************)
LEMMA CallsStay ==
  ASSUME IInv, UNCHANGED <<rows, local, call>>, TasksAreSound', TasksGoOn(task, task')
  PROVE  IInv' /\ RowsGoOn(worker, worker')
<1>1. /\ worker' = worker /\ log' = log /\ handles' = handles
      /\ cancelling' = cancelling /\ call' = call
  BY DEF rows, local
<1>2. RowsGoOn(worker, worker')
  BY <1>1 DEF RowsGoOn, RowGoesOn
<1>3. RowsAreSound'
  BY <1>1, RowStaysSound DEF IInv, RowsAreSound, TasksAreSound
<1>4. CallsAreSound'
  <2>1. \A c \in Call : CallSound(call[c], task, worker)
    BY DEF IInv, CallsAreSound
  <2>2. task \in [Task -> TaskRecord] /\ \A w \in Worker : worker[w] \in Row
    BY DEF IInv, TasksAreSound, RowsAreSound, RowSound
  <2>3. \A c \in Call : CallSound(call[c], task', worker')
    BY <1>2, <2>1, <2>2, CallStaysSound
  <2> QED
    BY <1>1, <2>3 DEF IInv, CallsAreSound
<1>5. LocalTypes' /\ InsertsAreAlone' /\ RunsAreKnown' /\ OneRunPerProcess'
  BY <1>1 DEF IInv, LocalTypes, InsertsAreAlone, RunsAreKnown, OneRunPerProcess
<1> QED
  BY <1>2, <1>3, <1>4, <1>5 DEF IInv

LEMMA CreateTaskKeeps ==
  ASSUME IInv, NEW t \in Task, CreateTask(t)
  PROVE  IInv' /\ RowsGoOn(worker, worker')
<1>1. task[t].status = "absent" /\ task[t].attempts = 0
  BY DEF CreateTask, IInv, TasksAreSound
<1>2. Grown(task[t], NewTask(HardMaxAttempts, TRUE))
  BY <1>1, HardMaxAttemptsIsPositive DEF Grown, NewTask, TaskRecord, TaskStatus, ReviewStatus
<1>3. task[t].status \notin Finished
  BY <1>1 DEF Finished
<1>4. TasksAreSound' /\ TasksGoOn(task, task')
  BY <1>2, <1>3, AskKeeps DEF CreateTask, IInv, TasksAreSound
<1> QED
  BY <1>4, CallsStay DEF CreateTask

LEMMA OwnerActsKeeps ==
  ASSUME IInv, NEW t \in Task, OwnerActs(t)
  PROVE  IInv' /\ RowsGoOn(worker, worker')
<1>1. task[t] \in TaskRecord /\ open' = open /\ open \in [Task -> SUBSET Nat]
  BY DEF IInv, TasksAreSound, OwnerActs
<1>2. CASE Ask(t, MayCancel(task[t]), Cancelled(task[t]))
  BY <1>1, <1>2, CancelledTask, FinishedTasksRefuse, AskKeeps, CallsStay DEF OwnerActs, Ask
<1>3. CASE Ask(t, MayRetry(task[t]), Retried(task[t]))
  BY <1>1, <1>3, RetriedTask, FinishedTasksRefuse, AskKeeps, CallsStay DEF OwnerActs, Ask
<1>4. ASSUME NEW accepted \in BOOLEAN,
             Ask(t, MayReview(task[t]), Reviewed(task[t], accepted))
      PROVE  IInv' /\ RowsGoOn(worker, worker')
  BY <1>1, <1>4, ReviewedTask, FinishedTasksRefuse, AskKeeps, CallsStay DEF OwnerActs, Ask
<1>5. ASSUME NEW to \in OwnerMoves,
             Ask(t, MayTransition(task[t], to), Transitioned(task[t], to))
      PROVE  IInv' /\ RowsGoOn(worker, worker')
  <2>1. to \in TaskStatus
    BY WorkerManagerConstants
  <2> QED
    BY <1>1, <1>5, <2>1, TransitionedTask, FinishedTasksRefuse, AskKeeps, CallsStay
       DEF OwnerActs, Ask
<1> QED
  BY <1>2, <1>3, <1>4, <1>5 DEF OwnerActs

(***************************************************************************)
(* The steps of a call that leave the rows alone.                          *)
(***************************************************************************)
LEMMA CallGoes ==
  ASSUME IInv, NEW c \in Call, NEW next, call' = [call EXCEPT ![c] = next],
         UNCHANGED <<rows, local>>, TasksAreSound', TasksGoOn(task, task'),
         CallSound(next, task', worker), InsertsAlone(c, next), RunsAlone(c, next)
  PROVE  IInv' /\ RowsGoOn(worker, worker')
<1>1. RowsMove(c) /\ LocalMoves /\ ClaimsStay(c)
  BY RowsStay, LocalStays
<1>2. worker' = worker
  BY DEF rows
<1> QED
  BY <1>1, <1>2, CallMoves DEF RowsMove

\* A row as it is read just now.
LEMMA JustRead ==
  ASSUME IInv, NEW k, k.worker \in Worker, k.seen = worker[k.worker],
         worker[k.worker].status \notin Terminal \cup {"absent"}
  PROVE  ReadsSoundly(k, task, worker)
<1>1. RowSound(worker[k.worker], task)
  BY DEF IInv, RowsAreSound
<1>2. k.seen.version <= worker[k.worker].version
  BY <1>1 DEF RowSound, Row
<1> QED
  BY <1>1, <1>2 DEF RowSound, ReadsSoundly

\* What Begin makes of a free call.
Begun(p, w, stage) ==
  [Free EXCEPT !.stage = stage, !.proc = p, !.worker = w, !.seen = worker[w]]

LEMMA BegunCall ==
  ASSUME IInv, NEW p \in Proc, NEW w \in Worker,
         worker[w].status \notin Terminal \cup {"absent"},
         NEW stage \in {"toAssigned", "toStarting", "open", "review", "cancelTask", "retry"},
         NEW k, k = Begun(p, w, stage)
  PROVE  /\ CallSound(k, task, worker)
         /\ k.stage = stage /\ k.proc = p /\ k.worker = w /\ k.seen = worker[w]
<1>1. worker[w] \in Row
  BY DEF IInv, RowsAreSound, RowSound
<1>2. k \in CallRecord
  BY <1>1 DEF Begun, Free, CallRecord, Stage, Holding, Starting, Evidence
<1>3. k.stage = stage /\ k.proc = p /\ k.worker = w /\ k.seen = worker[w]
  BY DEF Begun, Free
<1>4. ReadsSoundly(k, task, worker)
  BY <1>3, JustRead
<1> QED
  BY <1>2, <1>3, <1>4 DEF CallSound, FitsItsStage

\* Begin at a stage that leads to no run.
LEMMA BeginKeeps ==
  ASSUME IInv, NEW c \in Call, NEW p \in Proc, NEW w \in Worker,
         NEW stage \in {"review", "retry"},
         worker[w].status \notin Terminal \cup {"absent"},
         Begin(c, p, w, stage), UNCHANGED <<tasks, rows, local>>
  PROVE  IInv' /\ RowsGoOn(worker, worker')
<1>1. PICK k : k = Begun(p, w, stage)
  OBVIOUS
<1>2. CallSound(k, task, worker) /\ k.stage = stage
  BY <1>1, BegunCall
<1>4. call' = [call EXCEPT ![c] = k]
  BY <1>1 DEF Begin, Begun
<1>5. Quiet(k)
  BY <1>2 DEF Quiet, Starting
<1>3. task' = task
  BY DEF tasks
<1> QED
  BY <1>2, <1>3, <1>4, <1>5, TasksStay, CallGoes, QuietRunsAlone

LEMMA ReviewKeeps ==
  ASSUME IInv, NEW c \in Call, NEW p \in Proc, NEW w \in Worker, Review(c, p, w)
  PROVE  IInv' /\ RowsGoOn(worker, worker')
BY BeginKeeps, StatusFacts DEF Review

LEMMA RequeueKeeps ==
  ASSUME IInv, NEW c \in Call, NEW p \in Proc, NEW w \in Worker, Requeue(c, p, w)
  PROVE  IInv' /\ RowsGoOn(worker, worker')
BY BeginKeeps, StatusFacts DEF Requeue

LEMMA CancelKeeps ==
  ASSUME IInv, NEW c \in Call, NEW p \in Proc, NEW w \in Worker, Cancel(c, p, w)
  PROVE  IInv' /\ RowsGoOn(worker, worker')
<1>9. PICK k : k = Begun(p, w, "cancelTask")
  OBVIOUS
<1>0. worker[w].status \notin Terminal \cup {"absent"}
  BY DEF Cancel
<1>1. CallSound(k, task, worker) /\ k.stage = "cancelTask"
  BY <1>0, <1>9, BegunCall
<1>2. call' = [call EXCEPT ![c] = k]
  BY <1>9 DEF Cancel, Begin, Begun
<1>8. Quiet(k)
  BY <1>1 DEF Quiet, Starting
<1>3. /\ UNCHANGED <<tasks, rows>> /\ task' = task /\ worker' = worker
      /\ cancelling' = [cancelling EXCEPT ![p] = @ \cup {w}]
      /\ handles'    = [handles EXCEPT ![p] = @ \ {w}]
  BY DEF Cancel, tasks, rows
<1>4. TasksAreSound' /\ TasksGoOn(task, task')
  BY <1>3, TasksStay
<1>5. RowsMove(c)
  BY <1>3, <1>4, RowsStay
<1>6. LocalMoves
  BY <1>3 DEF IInv, LocalTypes, LocalMoves
<1>7. ClaimsStay(c)
  <2>1. SUFFICES ASSUME NEW d \in Call, Known(call[d], handles, cancelling),
                        call[d].proc \in Proc
                 PROVE  Known(call[d], handles', cancelling')
    <3>1. \A d \in Call : Drives(call[d], worker) => call[d].proc \in Proc
      BY DEF Drives, IInv, CallsAreSound, CallSound
    <3> QED
      BY <2>1, <3>1 DEF ClaimsStay
  <2> QED
    BY <1>3, <2>1 DEF Known, IInv, LocalTypes
<1> QED
  BY <1>1, <1>2, <1>3, <1>4, <1>5, <1>6, <1>7, <1>8, CallMoves, QuietRunsAlone
     DEF RowsMove

LEMMA StartKeeps ==
  ASSUME IInv, NEW c \in Call, NEW p \in Proc, NEW w \in Worker, Start(c, p, w)
  PROVE  IInv' /\ RowsGoOn(worker, worker')
<1>1. PICK stage \in {"toAssigned", "toStarting", "open"} : 
        Begin(c, p, w, stage) /\ worker[w].status \in {"queued", "blocked", "assigned"}
  BY DEF Start
<1>9. PICK k : k = Begun(p, w, stage)
  OBVIOUS
<1>2. /\ CallSound(k, task, worker)
      /\ k.stage = stage /\ k.proc = p /\ k.worker = w
  <2>1. worker[w].status \notin Terminal \cup {"absent"}
    BY <1>1, StatusFacts
  <2> QED
    BY <1>9, <2>1, BegunCall
<1>3. call' = [call EXCEPT ![c] = k]
  BY <1>1, <1>9 DEF Begin, Begun
<1>4. UNCHANGED <<tasks, rows, local>> /\ w \notin handles[p]
  BY DEF Start
<1>5. task' = task /\ worker' = worker /\ handles' = handles /\ cancelling' = cancelling
  BY <1>4 DEF tasks, rows, local
<1>6. InsertsAlone(c, k) /\ ~Drives(k, worker') /\ k.stage # "executing"
  BY <1>1, <1>2 DEF InsertsAlone, Drives
<1>7. ASSUME NEW d \in Call, Rivals(call[d], k, cancelling'), call[d].stage = "executing"
      PROVE  FALSE
  <2>1. Known(call[d], handles, cancelling)
    BY <1>7 DEF IInv, RunsAreKnown, Drives
  <2> QED
    BY <1>2, <1>4, <1>5, <1>7, <2>1 DEF Known, Rivals
<1>8. RunsAlone(c, k)
  BY <1>6, <1>7 DEF RunsAlone
<1> QED
  BY <1>2, <1>3, <1>4, <1>5, <1>6, <1>8, TasksStay, CallGoes

LEMMA RecoverKeeps ==
  ASSUME IInv, NEW c \in Call, NEW p \in Proc, NEW w \in Worker, Recover(c, p, w)
  PROVE  IInv' /\ RowsGoOn(worker, worker')
<1> DEFINE k == [Free EXCEPT !.stage = "fail", !.proc = p, !.worker = w,
                             !.seen = worker[w], !.n = worker[w].attempts,
                             !.to = "timed_out", !.evidence = "failure"]
<1>1. worker[w] \in Row /\ worker[w].attempts \in Nat
  BY DEF IInv, RowsAreSound, RowSound, Row
<1>2. k \in CallRecord
  BY <1>1, StatusFacts DEF Free, CallRecord, Stage, Holding, Starting, Evidence
<1>3. /\ k.stage = "fail" /\ k.proc = p /\ k.worker = w /\ k.seen = worker[w]
      /\ k.to = "timed_out"
  BY DEF Free
<1>4. call' = [call EXCEPT ![c] = k] /\ UNCHANGED <<tasks, rows, local>>
  BY DEF Recover
<1> HIDE DEF k
<1>5. worker[w].status \notin Terminal \cup {"absent"}
  BY StatusFacts DEF Recover
<1>6. CallSound(k, task, worker)
  BY <1>2, <1>3, <1>5, JustRead DEF CallSound, FitsItsStage
<1>7. task' = task
  BY <1>4 DEF tasks
<1>8. Quiet(k)
  BY <1>3 DEF Quiet, Starting
<1> QED
  BY <1>4, <1>6, <1>7, <1>8, TasksStay, CallGoes, QuietRunsAlone

LEMMA DelegateKeeps ==
  ASSUME IInv, NEW c \in Call, NEW p \in Proc, NEW w \in Worker, NEW t \in Task,
         Delegate(c, p, w, t)
  PROVE  IInv' /\ RowsGoOn(worker, worker')
<1> DEFINE k == [Free EXCEPT !.stage = "insert", !.proc = p, !.worker = w,
                             !.seen = NewWorker(t)]
<1>1. NewWorker(t) \in Row /\ NewWorker(t).task = t
  BY StatusFacts DEF NewWorker, Row
<1>2. k \in CallRecord
  BY <1>1 DEF Free, CallRecord, Stage, Holding, Starting, Evidence
<1>3. k.stage = "insert" /\ k.proc = p /\ k.worker = w /\ k.seen = NewWorker(t)
  BY DEF Free
<1>4. call' = [call EXCEPT ![c] = k] /\ UNCHANGED <<tasks, rows, local>>
  BY DEF Delegate
<1> HIDE DEF k
<1>5. CallSound(k, task, worker)
  BY <1>1, <1>2, <1>3 DEF CallSound, FitsItsStage, Holding, Starting
<1>6. task' = task /\ worker' = worker
  BY <1>4 DEF tasks, rows
<1>7. InsertsAlone(c, k)
  BY <1>3, <1>6 DEF InsertsAlone, Delegate
<1>8. RunsAlone(c, k)
  BY <1>3 DEF RunsAlone, Drives, MayRun, Starting
<1> QED
  BY <1>4, <1>5, <1>6, <1>7, <1>8, TasksStay, CallGoes

(***************************************************************************)
(* The saves.                                                              *)
(***************************************************************************)
WithStatus(s, status) == [s EXCEPT !.status = status]

LEMMA WithStatusIsARow ==
  ASSUME NEW s \in Row, NEW status \in WorkerStatus, NEW r, r = WithStatus(s, status)
  PROVE  /\ r \in Row /\ r.status = status /\ r.task = s.task
         /\ r.attempts = s.attempts /\ r.version = s.version
<1>1. r \in Row
  BY Zenon DEF WithStatus, Row
<1> QED
  BY <1>1 DEF WithStatus, Row

LEMMA StatusWriteIsSound ==
  ASSUME IInv, NEW c \in Call, call[c].stage \in Holding,
         NEW status \in WorkerStatus, status # "running",
         status = "completed" => Accepted(Seen(c), task),
         NEW r, r = WithStatus(Seen(c), status)
  PROVE  WriteIsSound(Seen(c), r)
<1>1. /\ Seen(c) \in Row /\ Seen(c).attempts \in Nat
      /\ Seen(c).attempts <= task[Seen(c).task].attempts
  BY HeldFacts DEF ReadsSoundly, Seen
<1>2. status # "absent"
  BY StatusFacts
<1> QED
  BY <1>1, <1>2, WithStatusIsARow DEF WriteIsSound, Accepted

\* A save that writes another status and ends the call.
LEMMA LastSaveKeeps ==
  ASSUME IInv, NEW c \in Call, call[c].stage \in Holding,
         NEW status \in WorkerStatus, status # "running",
         status = "completed" => Accepted(Seen(c), task),
         Save(c, WithStatus(Seen(c), status), Free, Free)
  PROVE  IInv' /\ RowsGoOn(worker, worker')
<1>1. PICK r : r = WithStatus(Seen(c), status)
  OBVIOUS
<1>2. Save(c, r, Free, Free) /\ WriteIsSound(Seen(c), r)
  BY <1>1, StatusWriteIsSound
<1>3. /\ \A ws : CallSound(Free, task, ws)
      /\ Free.stage \notin Starting \cup {"insert", "toRunning", "executing"}
      /\ Free.stage = "free"
  BY FreeIsSound DEF Starting
<1> QED
  BY <1>2, <1>3, SaveKeeps

LEMMA SaveResultKeeps ==
  ASSUME IInv, NEW c \in Call, SaveResult(c)
  PROVE  IInv' /\ RowsGoOn(worker, worker')
<1>1. call[c].stage = "result" /\ call[c].stage \in Holding
  BY DEF SaveResult, Holding
<1>2. call[c].to \in {"awaiting_review", "blocked", "failed"}
  BY <1>1 DEF IInv, CallsAreSound, CallSound, FitsItsStage
<1>3. Save(c, WithStatus(Seen(c), call[c].to), Free, Free)
  BY DEF SaveResult, Written, WithStatus
<1> QED
  BY <1>1, <1>2, <1>3, StatusFacts, LastSaveKeeps

LEMMA FailWorkerKeeps ==
  ASSUME IInv, NEW c \in Call, FailWorker(c)
  PROVE  IInv' /\ RowsGoOn(worker, worker')
<1>1. call[c].stage = "failSave" /\ call[c].stage \in Holding
  BY DEF FailWorker, Holding
<1>2. call[c].to \in {"timed_out", "failed"}
  BY <1>1 DEF IInv, CallsAreSound, CallSound, FitsItsStage
<1>3. CASE Save(c, WithStatus(Seen(c), call[c].to), Free, Free)
  BY <1>1, <1>2, <1>3, StatusFacts, LastSaveKeeps
<1>4. CASE Return(c) /\ UNCHANGED <<tasks, rows, local>>
  BY <1>4, TasksStay, ReturnKeeps
<1> QED
  BY <1>3, <1>4 DEF FailWorker, Written, WithStatus

LEMMA SaveReviewKeeps ==
  ASSUME IInv, NEW c \in Call, SaveReview(c)
  PROVE  IInv' /\ RowsGoOn(worker, worker')
<1>1. call[c].stage = "reviewed" /\ call[c].stage \in Holding
  BY DEF SaveReview, Holding
<1>2. /\ call[c].to \in {"completed", "failed"}
      /\ call[c].to = "completed" => Accepted(Seen(c), task)
  BY <1>1 DEF IInv, CallsAreSound, CallSound, FitsItsStage, Seen
<1>3. Save(c, WithStatus(Seen(c), call[c].to), Free, Free)
  BY DEF SaveReview, Written, WithStatus
<1> QED
  BY <1>1, <1>2, <1>3, StatusFacts, LastSaveKeeps

LEMMA MarkCancelledKeeps ==
  ASSUME IInv, NEW c \in Call, MarkCancelled(c)
  PROVE  IInv' /\ RowsGoOn(worker, worker')
<1>1. call[c].stage = "markSave" /\ call[c].stage \in Holding
  BY DEF MarkCancelled, Holding
<1>2. call[c].to = "cancelled"
  BY <1>1 DEF IInv, CallsAreSound, CallSound, FitsItsStage
<1>3. Save(c, WithStatus(Seen(c), call[c].to), Free, Free)
  BY DEF MarkCancelled, Written, WithStatus
<1> QED
  BY <1>1, <1>2, <1>3, StatusFacts, LastSaveKeeps

LEMMA SaveRequeueKeeps ==
  ASSUME IInv, NEW c \in Call, SaveRequeue(c)
  PROVE  IInv' /\ RowsGoOn(worker, worker')
<1>1. call[c].stage \in Holding
  BY DEF SaveRequeue, Holding
<1>2. Save(c, WithStatus(Seen(c), "queued"), Free, Free)
  BY DEF SaveRequeue, WithStatus
<1> QED
  BY <1>1, <1>2, StatusFacts, LastSaveKeeps

Bumped(r, version) == [r EXCEPT !.version = version + 1]

\* The call after a save that won has read the row it wrote.
LEMMA AfterIsSound ==
  ASSUME IInv, NEW c \in Call, call[c].stage \in Starting,
         NEW stage \in {"toStarting", "open"}, NEW status \in {"assigned", "starting"},
         NEW won, won = After(c, stage, status),
         NEW r, r = WithStatus(Seen(c), status),
         NEW ws, ws[call[c].worker] = Bumped(r, Seen(c).version)
  PROVE  /\ CallSound(won, task, ws)
         /\ won.stage = stage
         /\ won.worker = call[c].worker /\ won.proc = call[c].proc
<1> DEFINE k == call[c]
           s == Seen(c)
           b == Bumped(r, s.version)
<1>1. /\ k \in CallRecord /\ k.worker \in Worker /\ k.proc \in Proc
      /\ s \in Row /\ s.version \in Nat /\ s.version + 1 \in Nat
      /\ s.task \in Task /\ s.attempts <= task[s.task].attempts
  BY HeldFacts DEF Holding, ReadsSoundly, Seen
<1>2. status \in WorkerStatus /\ status \notin Terminal \cup {"absent"}
  BY StatusFacts
<1>3. b = [s EXCEPT !.status = status, !.version = s.version + 1]
  BY <1>1 DEF WithStatus, Bumped, Row
<1>4. b \in Row
  BY <1>1, <1>2, <1>3, Zenon DEF Row
<1>5. /\ b.status = status /\ b.task = s.task /\ b.attempts = s.attempts
      /\ b.version = s.version + 1
  BY <1>1, <1>3 DEF Row
<1> HIDE DEF b
<1>6. k = [k EXCEPT !.stage = k.stage] /\ k.seen = s
  BY <1>1 DEF CallRecord, Seen
<1>7. won = [k EXCEPT !.stage = stage, !.seen = b]
  BY <1>1, <1>3, <1>6 DEF After, CallRecord, Row
<1>8. stage \in Stage
  BY DEF Stage, Holding, Starting
<1>9. won \in CallRecord
  BY <1>1, <1>4, <1>7, <1>8, Zenon DEF CallRecord
<1>10. won.stage = stage /\ won.worker = k.worker /\ won.proc = k.proc /\ won.seen = b
  BY <1>1, <1>7 DEF CallRecord
<1>11. ws[k.worker] = b
  BY DEF b
<1>12. b.version <= b.version
  BY <1>4 DEF Row
<1>13. ReadsSoundly(won, task, ws)
  BY <1>1, <1>2, <1>5, <1>10, <1>11, <1>12 DEF ReadsSoundly
<1>14. ws[won.worker].status # "absent"
  BY <1>2, <1>5, <1>10, <1>11
<1>15. CallSound(won, task, ws)
  BY <1>1, <1>9, <1>10, <1>13, <1>14 DEF CallSound, FitsItsStage
<1> QED
  BY <1>10, <1>15

LEMMA MoveKeeps ==
  ASSUME IInv, NEW c \in Call, Move(c)
  PROVE  IInv' /\ RowsGoOn(worker, worker')
<1>1. PICK stage \in {"toStarting", "open"}, status \in {"assigned", "starting"} :
        /\ call[c].stage \in {"toAssigned", "toStarting"}
        /\ Save(c, WithStatus(Seen(c), status), After(c, stage, status), Free)
  BY DEF Move, WithStatus
<1>2. call[c].stage \in Starting /\ call[c].stage \in Holding
  BY <1>1 DEF Holding, Starting
<1>3. PICK r : r = WithStatus(Seen(c), status)
  OBVIOUS
<1>4. PICK won : won = After(c, stage, status)
  OBVIOUS
<1>5. Save(c, r, won, Free)
  BY <1>1, <1>3, <1>4
<1>6. WriteIsSound(Seen(c), r)
  BY <1>2, <1>3, StatusFacts, StatusWriteIsSound
<1>7. ASSUME NEW ws,
             ws[call[c].worker] = [r EXCEPT !.version = Seen(c).version + 1]
      PROVE  CallSound(won, task, ws)
  <2>1. ws[call[c].worker] = Bumped(r, Seen(c).version)
    BY <1>7 DEF Bumped
  <2> QED
    BY <1>2, <1>3, <1>4, <2>1, AfterIsSound
<1>8. won.stage = stage /\ won.worker = call[c].worker /\ won.proc = call[c].proc
  <2>1. call[c] \in CallRecord
    BY <1>2, HeldFacts
  <2> QED
    BY <1>4, <2>1 DEF After, CallRecord
<1> QED
  BY <1>2, <1>5, <1>6, <1>7, <1>8, SaveKeeps

\* What Forget leaves of a call.
LEMMA ForgottenCall ==
  ASSUME IInv, NEW c \in Call, call[c].stage \notin {"free", "insert"},
         NEW stage \in {"mark", "executing"}, NEW k, k = Forget(c, stage)
  PROVE  /\ k \in CallRecord /\ k.stage = stage
         /\ k.worker = call[c].worker /\ k.proc = call[c].proc
         /\ CallSound(k, task, worker)
<1>1. /\ call[c].worker \in Worker /\ call[c].proc \in Proc
      /\ worker[call[c].worker].status # "absent"
  BY DEF IInv, CallsAreSound, CallSound
<1>2. Free \in CallRecord
  BY FreeIsSound DEF CallSound
<1>3. stage \in Stage
  BY DEF Stage
<1>4. k \in CallRecord
  BY <1>1, <1>2, <1>3, Zenon DEF Forget, CallRecord
<1>5. k.stage = stage /\ k.worker = call[c].worker /\ k.proc = call[c].proc
  BY <1>2 DEF Forget, CallRecord
<1>6. CallSound(k, task, worker)
  BY <1>1, <1>4, <1>5 DEF CallSound, FitsItsStage, Holding, Starting
<1> QED
  BY <1>4, <1>5, <1>6

LEMMA BeginRunKeeps ==
  ASSUME IInv, NEW c \in Call, BeginRun(c)
  PROVE  IInv' /\ RowsGoOn(worker, worker')
<1> DEFINE n == call[c].n
<1>1. call[c].stage = "toRunning" /\ call[c].stage \in Holding
  BY DEF BeginRun, Holding, Starting
<1>2. /\ Seen(c) \in Row /\ Seen(c).attempts \in Nat /\ Seen(c).task \in Task
      /\ call[c].worker \in Worker /\ call[c].proc \in Proc /\ n \in Nat
      /\ Seen(c).attempts < n /\ n <= task[Seen(c).task].attempts
  BY <1>1, HeldFacts DEF CallSound, Seen, CallRecord
<1>3. PICK r : r = [Seen(c) EXCEPT !.status = "running", !.attempts = n]
  OBVIOUS
<1>4. "running" \in WorkerStatus
  BY StatusFacts
<1>5. r \in Row
  BY <1>2, <1>3, <1>4, Zenon DEF Row
<1>6. r.status = "running" /\ r.task = Seen(c).task /\ r.attempts = n
  BY <1>2, <1>3 DEF Row
<1>7. WriteIsSound(Seen(c), r)
  BY <1>2, <1>5, <1>6 DEF WriteIsSound
<1>8. PICK k : k = Forget(c, "executing")
  OBVIOUS
<1>9. /\ k \in CallRecord /\ k.stage = "executing"
      /\ k.worker = call[c].worker /\ k.proc = call[c].proc
  BY <1>1, <1>8, ForgottenCall
<1>10. PICK won : won = [k EXCEPT !.n = n]
  OBVIOUS
<1>11. won \in CallRecord
  BY <1>2, <1>9, <1>10, Zenon DEF CallRecord
<1>12. won.stage = "executing" /\ won.worker = call[c].worker /\ won.proc = call[c].proc
  BY <1>9, <1>10 DEF CallRecord
<1>13. ASSUME NEW ws,
              ws[call[c].worker] = [r EXCEPT !.version = Seen(c).version + 1]
       PROVE  CallSound(won, task, ws)
  <2>1. ws[won.worker].status # "absent"
    BY <1>5, <1>6, <1>12, <1>13 DEF Row
  <2> QED
    BY <1>2, <1>11, <1>12, <2>1 DEF CallSound, FitsItsStage, Holding, Starting
<1>14. Save(c, r, won, Free)
  BY <1>3, <1>8, <1>10 DEF BeginRun
<1> QED
  BY <1>1, <1>7, <1>12, <1>13, <1>14, SaveKeeps DEF Starting

(***************************************************************************)
(* The rest of a call's steps.                                             *)
(***************************************************************************)
LEMMA InsertKeeps ==
  ASSUME IInv, NEW c \in Call, Insert(c)
  PROVE  IInv' /\ RowsGoOn(worker, worker')
<1> DEFINE w == call[c].worker
           r == Seen(c)
<1>1. /\ w \in Worker /\ r.task \in Task /\ r = NewWorker(r.task)
      /\ worker[w].status = "absent"
  BY DEF Insert, IInv, CallsAreSound, CallSound, InsertsAreAlone, Seen
<1>2. UNCHANGED <<tasks, local>> /\ task' = task /\ Return(c)
  BY DEF Insert, tasks
<1>3. CASE UNCHANGED rows
  BY <1>2, <1>3, TasksStay, ReturnKeeps
<1>4. CASE worker' = [worker EXCEPT ![w] = r] /\ log' = [log EXCEPT ![w] = 1]
  <2>1. /\ r \in Row /\ r.status = "queued" /\ r.attempts = 0 /\ r.version = 1
    BY <1>1, StatusFacts DEF NewWorker, Row
  <2>2. worker[w].version = 0 /\ worker[w].attempts = 0 /\ worker[w].status \notin Terminal
    BY <1>1, StatusFacts DEF IInv, RowsAreSound, RowSound, AbsentWorker
  <2>3. RowGoesOn(worker[w], r)
    BY <1>1, <2>1, <2>2 DEF RowGoesOn
  <2>4. task[r.task].attempts \in Nat
    BY <1>1 DEF IInv, TasksAreSound, TaskRecord
  <2>5. RowSound(r, task)
    BY <1>1, <2>1, <2>4 DEF RowSound
  <2> HIDE DEF r
  <2>6. \A x \in Worker : worker'[x] = IF x = w THEN r ELSE worker[x]
    BY <1>4 DEF IInv, RowsAreSound
  <2>7. RowsGoOn(worker, worker')
    BY <2>3, <2>6 DEF RowsGoOn, RowGoesOn
  <2>8. RowsMove(c)
    BY <1>2, <1>4, <2>5, <2>6, <2>7 DEF RowsMove, IInv, RowsAreSound
  <2> QED
    BY <1>2, <2>7, <2>8, TasksStay, LocalStays, CallMoves, FreeIsSound, FreeRunsAlone
       DEF Return
<1> QED
  BY <1>3, <1>4 DEF Insert

\* A call on its way to a run moves on without having saved.
LEMMA StartingRunsAlone ==
  ASSUME IInv, NEW c \in Call, call[c].stage \in Starting, NEW next,
         next.stage \in Starting, next.seen = call[c].seen,
         next.worker = call[c].worker, next.proc = call[c].proc,
         worker' = worker, cancelling' = cancelling,
         next.stage = "toRunning" => Known(next, handles', cancelling')
  PROVE  RunsAlone(c, next) /\ InsertsAlone(c, next)
<1>1. next.stage # "executing" /\ next.stage # "insert"
  BY DEF Starting
<1>2. ASSUME MayRun(next, worker'), NEW d \in Call \ {c}, Rivals(call[d], next, cancelling')
      PROVE  call[d].stage # "executing"
  <2>1. MayRun(call[c], worker)
    BY <1>1, <1>2 DEF MayRun, Fresh
  <2>2. Rivals(call[d], call[c], cancelling)
    BY <1>2 DEF Rivals
  <2> QED
    BY <2>1, <2>2 DEF IInv, OneRunPerProcess
<1> QED
  BY <1>1, <1>2 DEF RunsAlone, InsertsAlone, Drives

LEMMA OpenAttemptKeeps ==
  ASSUME IInv, NEW c \in Call, OpenAttempt(c)
  PROVE  IInv' /\ RowsGoOn(worker, worker')
<1> DEFINE t == Seen(c).task
           n == task[t].attempts + 1
<1>1. call[c].stage \in Starting /\ call[c].stage \in Holding
  BY DEF OpenAttempt, Starting, Holding
<1>2. UNCHANGED <<rows, local>> /\ worker' = worker /\ cancelling' = cancelling
  BY DEF OpenAttempt, rows, local
<1>3. CASE Return(c) /\ UNCHANGED tasks
  BY <1>2, <1>3, TasksStay, ReturnKeeps
<1>4. CASE /\ Ask(t, MayStart(task[t]), Started(task[t]))
           /\ open' = [open EXCEPT ![t] = @ \cup {n}]
           /\ call' = [call EXCEPT ![c].stage = "opened", ![c].n = n]
  <2>1. /\ call[c] \in CallRecord /\ t \in Task /\ task[t] \in TaskRecord
        /\ task[t].attempts \in Nat /\ n \in Nat
        /\ call[c].worker \in Worker /\ call[c].proc \in Proc
        /\ Seen(c).attempts \in Nat /\ Seen(c).attempts <= task[t].attempts
        /\ worker[call[c].worker].status # "absent"
    BY <1>1, HeldFacts DEF ReadsSoundly, Seen
  <2>2. open' \in [Task -> SUBSET Nat]
    BY <1>4, <2>1 DEF IInv, TasksAreSound
  <2>3. task[t].status \notin Finished
    BY <1>4, <2>1, FinishedTasksRefuse DEF Ask
  <2>4. /\ TasksAreSound' /\ TasksGoOn(task, task') /\ task'[t].attempts = n
    BY <1>4, <2>1, <2>2, <2>3, StartedTask, AskKeeps
  <2>5. PICK k : k = [call[c] EXCEPT !.stage = "opened", !.n = n]
    OBVIOUS
  <2>6. call' = [call EXCEPT ![c] = k]
    BY <1>4, <2>5
  <2>7. k \in CallRecord
    <3>1. "opened" \in Stage
      BY DEF Stage, Holding, Starting
    <3> QED
      BY <2>1, <2>5, <3>1, Zenon DEF CallRecord
  <2>8. /\ k.stage = "opened" /\ k.n = n /\ k.seen = call[c].seen
        /\ k.worker = call[c].worker /\ k.proc = call[c].proc
    BY <2>1, <2>5 DEF CallRecord
  <2>9. ReadsSoundly(k, task', worker)
    <3>1. ReadsSoundly(call[c], task, worker) /\ task \in [Task -> TaskRecord]
      BY <1>1, HeldFacts DEF IInv, TasksAreSound
    <3>2. RowsGoOn(worker, worker) /\ worker[call[c].worker] \in Row
      BY <2>1 DEF RowsGoOn, RowGoesOn, IInv, RowsAreSound, RowSound
    <3>3. ReadsSoundly(call[c], task', worker)
      BY <1>1, <2>1, <2>4, <3>1, <3>2, ReadStaysSound
    <3> QED
      BY <2>8, <3>3 DEF ReadsSoundly
  <2>10. k.seen.attempts < k.n /\ k.n <= task'[k.seen.task].attempts
    <3>1. k.seen = Seen(c)
      BY <2>8 DEF Seen
    <3>2. Seen(c).attempts < n /\ n <= n
      BY <2>1
    <3> QED
      BY <2>4, <2>8, <3>1, <3>2
  <2>11. CallSound(k, task', worker)
    BY <2>1, <2>7, <2>8, <2>9, <2>10 DEF CallSound, FitsItsStage
  <2>12. RunsAlone(c, k) /\ InsertsAlone(c, k)
    <3>1. k.stage \in Starting /\ k.stage # "toRunning"
      BY <2>8 DEF Starting
    <3> QED
      BY <1>1, <1>2, <2>8, <3>1, StartingRunsAlone
  <2> QED
    BY <1>2, <2>4, <2>6, <2>11, <2>12, CallGoes
<1> QED
  BY <1>2, <1>3, <1>4 DEF OpenAttempt

LEMMA RegisterKeeps ==
  ASSUME IInv, NEW c \in Call, Register(c)
  PROVE  IInv' /\ RowsGoOn(worker, worker')
<1> DEFINE p == call[c].proc
           w == call[c].worker
<1>1. /\ call[c].stage = "opened" /\ call[c].stage \in Starting
      /\ call[c].stage \in Holding /\ call[c].stage \notin {"free", "insert"}
  BY DEF Register, Starting, Holding
<1>2. /\ call[c] \in CallRecord /\ CallSound(call[c], task, worker)
      /\ w \in Worker /\ p \in Proc /\ worker[w].status # "absent"
      /\ ReadsSoundly(call[c], task, worker)
  BY <1>1, HeldFacts
<1>3. /\ UNCHANGED <<tasks, rows>> /\ task' = task /\ worker' = worker
      /\ cancelling' = cancelling
  BY DEF Register, tasks, rows
<1>4. TasksAreSound' /\ TasksGoOn(task, task')
  BY <1>3, TasksStay
<1>5. RowsMove(c)
  BY <1>3, <1>4, RowsStay
<1>6. CASE /\ w \in cancelling[p]
           /\ handles' = [handles EXCEPT ![p] = @ \ {w}]
           /\ call' = [call EXCEPT ![c] = Forget(c, "mark")]
  <2>1. PICK k : k = Forget(c, "mark")
    OBVIOUS
  <2>2. CallSound(k, task, worker) /\ k.stage = "mark"
    BY <1>1, <2>1, ForgottenCall
  <2>3. Quiet(k)
    BY <2>2 DEF Quiet, Starting
  <2>4. LocalMoves
    BY <1>2, <1>3, <1>6 DEF IInv, LocalTypes, LocalMoves
  <2>5. ASSUME NEW d \in Call, Known(call[d], handles, cancelling)
        PROVE  Known(call[d], handles', cancelling')
    BY <1>2, <1>3, <1>6, <2>5 DEF Known, IInv, LocalTypes
  <2>6. ClaimsStay(c)
    BY <2>5 DEF ClaimsStay
  <2> QED
    BY <1>3, <1>4, <1>5, <1>6, <2>1, <2>2, <2>3, <2>4, <2>6, CallMoves, QuietRunsAlone
       DEF RowsMove
<1>7. CASE handles' = [handles EXCEPT ![p] = @ \cup {w}] /\ Goto(c, "toRunning")
  <2>1. PICK k : k = [call[c] EXCEPT !.stage = "toRunning"]
    OBVIOUS
  <2>2. call' = [call EXCEPT ![c] = k]
    BY <1>7, <2>1 DEF Goto
  <2>3. k \in CallRecord
    <3>1. "toRunning" \in Stage
      BY DEF Stage, Holding, Starting
    <3> QED
      BY <1>2, <2>1, <3>1, Zenon DEF CallRecord
  <2>4. /\ k.stage = "toRunning" /\ k.n = call[c].n /\ k.seen = call[c].seen
        /\ k.worker = w /\ k.proc = p
    BY <1>2, <2>1 DEF CallRecord
  <2>5. ReadsSoundly(k, task, worker)
    BY <1>2, <2>4 DEF ReadsSoundly
  <2>6. CallSound(k, task, worker)
    BY <1>1, <1>2, <2>3, <2>4, <2>5 DEF CallSound, FitsItsStage
  <2>7. LocalMoves
    BY <1>2, <1>3, <1>7 DEF IInv, LocalTypes, LocalMoves
  <2>8. ASSUME NEW d \in Call, Known(call[d], handles, cancelling), call[d].proc \in Proc
        PROVE  Known(call[d], handles', cancelling')
    BY <1>2, <1>3, <1>7, <2>8 DEF Known, IInv, LocalTypes
  <2>9. \A d \in Call : Drives(call[d], worker) => call[d].proc \in Proc
    BY DEF Drives, IInv, CallsAreSound, CallSound
  <2>10. ClaimsStay(c)
    BY <2>8, <2>9 DEF ClaimsStay
  <2>11. Known(k, handles', cancelling')
    BY <1>2, <1>7, <2>4 DEF Known, IInv, LocalTypes
  <2>12. RunsAlone(c, k) /\ InsertsAlone(c, k)
    BY <1>1, <1>3, <2>4, <2>11, StartingRunsAlone DEF Starting
  <2> QED
    BY <1>3, <1>4, <1>5, <2>2, <2>6, <2>7, <2>10, <2>12, CallMoves DEF RowsMove
<1> QED
  BY <1>6, <1>7 DEF Register

LEMMA ReportProgressKeeps ==
  ASSUME IInv, NEW c \in Call, ReportProgress(c)
  PROVE  IInv' /\ RowsGoOn(worker, worker')
<1> DEFINE w == call[c].worker
<1>1. /\ worker' = worker /\ task' = task /\ open' = open /\ handles' = handles
      /\ cancelling' = cancelling /\ call' = call
      /\ log' = [log EXCEPT ![w] = @ + 1]
  BY DEF ReportProgress, tasks, local
<1>2. w \in Worker
  BY DEF ReportProgress, IInv, CallsAreSound, CallSound
<1>3. log[w] + 1 \in Nat
  BY <1>2 DEF IInv, RowsAreSound
<1>4. log' \in [Worker -> Nat]
  BY <1>1, <1>2, <1>3 DEF IInv, RowsAreSound
<1>5. TasksAreSound' /\ RowsAreSound' /\ LocalTypes' /\ CallsAreSound'
  BY <1>1, <1>4 DEF IInv, TasksAreSound, RowsAreSound, LocalTypes, CallsAreSound
<1>6. InsertsAreAlone' /\ RunsAreKnown' /\ OneRunPerProcess'
  BY <1>1 DEF IInv, InsertsAreAlone, RunsAreKnown, OneRunPerProcess
<1> QED
  BY <1>1, <1>5, <1>6 DEF IInv, RowsGoOn, RowGoesOn

LEMMA ExecutorEndsKeeps ==
  ASSUME IInv, NEW c \in Call, ExecutorEnds(c)
  PROVE  IInv' /\ RowsGoOn(worker, worker')
<1> DEFINE p == call[c].proc
           w == call[c].worker
<1>1. /\ call[c].stage = "executing" /\ call[c] \in CallRecord
      /\ w \in Worker /\ p \in Proc /\ worker[w].status # "absent"
  BY DEF ExecutorEnds, IInv, CallsAreSound, CallSound
<1>2. /\ UNCHANGED <<tasks, rows>> /\ task' = task /\ worker' = worker
      /\ cancelling' = cancelling /\ handles' = [handles EXCEPT ![p] = @ \ {w}]
  BY DEF ExecutorEnds, tasks, rows
<1>3. PICK stage \in {"ended", "broke"},
           to \in {"awaiting_review", "blocked", "failed", "timed_out"},
           evidence \in Evidence :
        /\ call' = [call EXCEPT ![c].stage = stage, ![c].to = to, ![c].evidence = evidence]
        /\ stage = "ended" => to \in {"awaiting_review", "blocked", "failed"}
        /\ stage = "broke" => to \in {"timed_out", "failed"}
  <2> DEFINE Goes(stage, to, evidence) ==
        call' = [call EXCEPT ![c].stage = stage, ![c].to = to, ![c].evidence = evidence]
  <2>1. CASE \E result \in Results : Goes("ended", result[1], result[2])
    <3>1. PICK result \in Results : Goes("ended", result[1], result[2])
      BY <2>1
    <3>2. result[1] \in {"awaiting_review", "blocked", "failed"} /\ result[2] \in Evidence
      BY DEF Results, Evidence
    <3> HIDE DEF Goes
    <3> QED
      BY <3>1, <3>2 DEF Goes
  <2>2. CASE \E to \in {"timed_out", "failed"} : Goes("broke", to, "failure")
    <3>1. PICK to \in {"timed_out", "failed"} : Goes("broke", to, "failure")
      BY <2>2
    <3>2. "failure" \in Evidence
      BY DEF Evidence
    <3> QED
      BY <3>1, <3>2
  <2> QED
    BY <2>1, <2>2 DEF ExecutorEnds
<1>4. PICK k : k = [call[c] EXCEPT !.stage = stage, !.to = to, !.evidence = evidence]
  OBVIOUS
<1>5. call' = [call EXCEPT ![c] = k]
  BY <1>3, <1>4
<1>6. k \in CallRecord
  <2>1. stage \in Stage /\ to \in WorkerStatus
    BY StatusFacts DEF Stage
  <2> QED
    BY <1>1, <1>4, <2>1, Zenon DEF CallRecord
<1>7. k.stage = stage /\ k.worker = w /\ k.proc = p /\ k.to = to
  BY <1>1, <1>4 DEF CallRecord
<1>8. CallSound(k, task, worker) /\ Quiet(k)
  BY <1>1, <1>3, <1>6, <1>7 DEF CallSound, FitsItsStage, Quiet, Holding, Starting
<1>9. LocalMoves
  BY <1>1, <1>2 DEF IInv, LocalTypes, LocalMoves
<1>10. ASSUME NEW d \in Call \ {c}, Drives(call[d], worker),
              Known(call[d], handles, cancelling)
       PROVE  Known(call[d], handles', cancelling')
  <2>1. ~Rivals(call[c], call[d], cancelling)
    BY <1>1, <1>10, DrivesMayRun DEF IInv, OneRunPerProcess
  <2> QED
    BY <1>1, <1>2, <1>10, <2>1 DEF Rivals, Known, IInv, LocalTypes
<1>11. ClaimsStay(c)
  BY <1>10 DEF ClaimsStay
<1>12. TasksAreSound' /\ TasksGoOn(task, task') /\ RowsMove(c)
  BY <1>2, TasksStay, RowsStay
<1> QED
  BY <1>2, <1>5, <1>8, <1>9, <1>11, <1>12, CallMoves, QuietRunsAlone DEF RowsMove

LEMMA AfterRunKeeps ==
  ASSUME IInv, NEW c \in Call, AfterRun(c)
  PROVE  IInv' /\ RowsGoOn(worker, worker')
<1> DEFINE w == call[c].worker
<1>1. /\ call[c].stage \in {"ended", "broke"} /\ call[c] \in CallRecord
      /\ w \in Worker /\ call[c].proc \in Proc /\ worker[w].status # "absent"
      /\ call[c].stage = "ended" => call[c].to \in {"awaiting_review", "blocked", "failed"}
      /\ call[c].stage = "broke" => call[c].to \in {"timed_out", "failed"}
  BY DEF AfterRun, IInv, CallsAreSound, CallSound, FitsItsStage
<1>2. UNCHANGED <<tasks, rows, local>> /\ task' = task
  BY DEF AfterRun, tasks
<1>3. CASE call' = [call EXCEPT ![c] = Forget(c, "mark")]
  <2>1. PICK k : k = Forget(c, "mark")
    OBVIOUS
  <2>2. CallSound(k, task, worker) /\ k.stage = "mark"
    BY <1>1, <2>1, ForgottenCall
  <2>3. Quiet(k)
    BY <2>2 DEF Quiet, Starting
  <2> QED
    BY <1>2, <1>3, <2>1, <2>2, <2>3, TasksStay, CallGoes, QuietRunsAlone
<1>4. CASE Return(c)
  BY <1>2, <1>4, TasksStay, ReturnKeeps
<1>5. CASE /\ worker[w].status \notin Terminal
           /\ call' = [call EXCEPT ![c].seen = worker[w],
                                   ![c].stage = IF @ = "ended" THEN "report" ELSE "fail"]
  <2> DEFINE stage == IF call[c].stage = "ended" THEN "report" ELSE "fail"
  <2>1. PICK k : k = [call[c] EXCEPT !.seen = worker[w], !.stage = stage]
    OBVIOUS
  <2>2. call' = [call EXCEPT ![c] = k]
    BY <1>1, <1>5, <2>1
  <2>3. stage \in {"report", "fail"} /\ stage \in Stage /\ worker[w] \in Row
    BY <1>1 DEF Stage, Holding, IInv, RowsAreSound, RowSound
  <2>4. k \in CallRecord
    BY <1>1, <2>1, <2>3, Zenon DEF CallRecord
  <2>5. /\ k.stage = stage /\ k.seen = worker[w] /\ k.worker = w
        /\ k.proc = call[c].proc /\ k.to = call[c].to
    BY <1>1, <2>1 DEF CallRecord
  <2>6. ReadsSoundly(k, task, worker)
    BY <1>1, <1>5, <2>5, JustRead
  <2>7. FitsItsStage(k)
    BY <1>1, <2>5 DEF FitsItsStage
  <2>8. CallSound(k, task, worker) /\ Quiet(k)
    BY <1>1, <2>3, <2>4, <2>5, <2>6, <2>7 DEF CallSound, Quiet, Starting
  <2> QED
    BY <1>2, <2>2, <2>8, TasksStay, CallGoes, QuietRunsAlone
<1> QED
  BY <1>3, <1>4, <1>5 DEF AfterRun

LEMMA FinishAttemptKeeps ==
  ASSUME IInv, NEW c \in Call, FinishAttempt(c)
  PROVE  IInv' /\ RowsGoOn(worker, worker')
<1> DEFINE t == Seen(c).task
           stage == IF call[c].stage = "report" THEN "result" ELSE "failSave"
<1>1. call[c].stage \in {"report", "fail"} /\ call[c].stage \in Holding
  BY DEF FinishAttempt, Holding
<1>2. /\ call[c] \in CallRecord /\ CallSound(call[c], task, worker)
      /\ call[c].worker \in Worker /\ call[c].proc \in Proc
      /\ worker[call[c].worker].status # "absent"
      /\ ReadsSoundly(call[c], task, worker)
      /\ t \in Task /\ task[t] \in TaskRecord
  BY <1>1, HeldFacts
<1>3. UNCHANGED <<rows, local>> /\ worker' = worker
  BY DEF FinishAttempt, rows
<1>4. TasksAreSound' /\ TasksGoOn(task, task')
  <2>1. CASE UNCHANGED tasks
    BY <2>1, TasksStay
  <2>2. CASE /\ Ask(t, MayFinish(task[t], call[c].evidence),
                    FinishedWith(task[t], call[c].evidence))
             /\ open' = [open EXCEPT ![t] = @ \ {call[c].n}]
    <3>1. call[c].evidence \in Evidence
      BY <1>2 DEF CallRecord
    <3>2. open' \in [Task -> SUBSET Nat]
      BY <2>2 DEF IInv, TasksAreSound
    <3>3. task[t].status \notin Finished
      BY <1>2, <2>2, <3>1, FinishedTasksRefuse DEF Ask
    <3> QED
      BY <1>2, <2>2, <3>1, <3>2, <3>3, FinishedWithTask, AskKeeps
  <2> QED
    BY <2>1, <2>2 DEF FinishAttempt
<1>5. PICK k : k = [Forget(c, stage) EXCEPT !.seen = Seen(c), !.to = call[c].to]
  OBVIOUS
<1>6. call' = [call EXCEPT ![c] = k]
  BY <1>5 DEF FinishAttempt
<1>7. k = [Free EXCEPT !.stage = stage, !.proc = call[c].proc, !.worker = call[c].worker,
                       !.seen = Seen(c), !.to = call[c].to]
  BY <1>5 DEF Forget, Free
<1>8. Free \in CallRecord /\ Seen(c) \in Row /\ call[c].to \in WorkerStatus \cup {"absent"}
  BY <1>2, FreeIsSound DEF CallSound, CallRecord, Seen
<1>9. stage \in {"result", "failSave"} /\ stage \in Stage
  BY DEF Stage, Holding
<1>10. k \in CallRecord
  BY <1>2, <1>7, <1>8, <1>9, Zenon DEF CallRecord
<1>11. /\ k.stage = stage /\ k.seen = call[c].seen /\ k.to = call[c].to
       /\ k.worker = call[c].worker /\ k.proc = call[c].proc
  BY <1>7, <1>8 DEF CallRecord, Seen
<1>12. FitsItsStage(k)
  BY <1>1, <1>2, <1>11 DEF CallSound, FitsItsStage
<1>13. ReadsSoundly(k, task, worker)
  BY <1>2, <1>11 DEF ReadsSoundly
<1>14. CallSound(k, task, worker) /\ Quiet(k)
  BY <1>2, <1>9, <1>10, <1>11, <1>12, <1>13 DEF CallSound, Quiet, Starting
<1>15. CallSound(k, task', worker)
  <2>1. RowsGoOn(worker, worker)
    BY DEF RowsGoOn, RowGoesOn
  <2>2. task \in [Task -> TaskRecord] /\ \A w \in Worker : worker[w] \in Row
    BY DEF IInv, TasksAreSound, RowsAreSound, RowSound
  <2> QED
    BY <1>4, <1>14, <2>1, <2>2, CallStaysSound
<1> QED
  BY <1>3, <1>4, <1>6, <1>14, <1>15, CallGoes, QuietRunsAlone

\* A call that has spoken to the task manager and moves to a stage of its own,
\* keeping what it has read.
LEMMA AskedCallIsSound ==
  ASSUME IInv, NEW c \in Call, call[c].stage \in Holding,
         TasksAreSound', TasksGoOn(task, task'),
         NEW stage \in {"reviewed", "requeued"}, NEW to \in WorkerStatus \cup {"absent"},
         stage = "reviewed" => /\ to \in {"completed", "failed"}
                               /\ to = "completed" => Accepted(Seen(c), task'),
         NEW k, k = [call[c] EXCEPT !.stage = stage, !.to = to]
  PROVE  CallSound(k, task', worker) /\ Quiet(k)
<1>1. /\ call[c] \in CallRecord /\ call[c].worker \in Worker /\ call[c].proc \in Proc
      /\ worker[call[c].worker].status # "absent"
      /\ ReadsSoundly(call[c], task, worker)
  BY HeldFacts
<1>2. stage \in Stage
  BY DEF Stage, Holding
<1>3. k \in CallRecord
  BY <1>1, <1>2, Zenon DEF CallRecord
<1>4. /\ k.stage = stage /\ k.to = to /\ k.seen = call[c].seen
      /\ k.worker = call[c].worker /\ k.proc = call[c].proc
  BY <1>1 DEF CallRecord
<1>5. ReadsSoundly(k, task', worker)
  <2>1. RowsGoOn(worker, worker) /\ worker[call[c].worker] \in Row
    BY <1>1 DEF RowsGoOn, RowGoesOn, IInv, RowsAreSound, RowSound
  <2>2. ReadsSoundly(call[c], task', worker)
    BY <1>1, <2>1, ReadStaysSound DEF IInv, TasksAreSound
  <2> QED
    BY <1>4, <2>2 DEF ReadsSoundly
<1> QED
  BY <1>1, <1>3, <1>4, <1>5 DEF CallSound, FitsItsStage, Quiet, Starting, Seen

LEMMA ReviewTaskKeeps ==
  ASSUME IInv, NEW c \in Call, NEW accepted \in BOOLEAN, ReviewTask(c, accepted)
  PROVE  IInv' /\ RowsGoOn(worker, worker')
<1> DEFINE t == Seen(c).task
           to == IF accepted THEN "completed" ELSE "failed"
<1>1. call[c].stage = "review" /\ call[c].stage \in Holding
  BY DEF ReviewTask, Holding
<1>2. t \in Task /\ task[t] \in TaskRecord
  BY <1>1, HeldFacts
<1>3. UNCHANGED <<rows, local>> /\ open' = open
  BY DEF ReviewTask
<1>4. CASE Return(c) /\ UNCHANGED task
  BY <1>3, <1>4, TasksStay, ReturnKeeps DEF tasks
<1>5. CASE /\ Ask(t, MayReview(task[t]), Reviewed(task[t], accepted))
           /\ call' = [call EXCEPT ![c].stage = "reviewed", ![c].to = to]
  <2>1. task[t].status \notin Finished /\ open' \in [Task -> SUBSET Nat]
    BY <1>2, <1>3, <1>5, FinishedTasksRefuse DEF Ask, IInv, TasksAreSound
  <2>2. PICK r : r = Reviewed(task[t], accepted)
    OBVIOUS
  <2>3. Grown(task[t], r) /\ (accepted => r.status = "completed" /\ r.review = "accepted")
    BY <1>2, <2>2, ReviewedTask
  <2>4. /\ TasksAreSound' /\ TasksGoOn(task, task')
        /\ task'[t].status = r.status /\ task'[t].review = r.review
    BY <1>2, <1>5, <2>1, <2>2, <2>3, AskKeeps
  <2>5. to = "completed" => Accepted(Seen(c), task')
    BY <2>3, <2>4 DEF Accepted
  <2>6. PICK k : k = [call[c] EXCEPT !.stage = "reviewed", !.to = to]
    OBVIOUS
  <2>7. call' = [call EXCEPT ![c] = k]
    BY <1>5, <2>6
  <2>8. to \in WorkerStatus /\ to \in {"completed", "failed"}
    BY StatusFacts
  <2> HIDE DEF to
  <2>9. CallSound(k, task', worker) /\ Quiet(k)
    BY <1>1, <2>4, <2>5, <2>6, <2>8, AskedCallIsSound
  <2> QED
    BY <1>3, <2>4, <2>7, <2>9, CallGoes, QuietRunsAlone
<1> QED
  BY <1>4, <1>5 DEF ReviewTask

LEMMA RetryTaskKeeps ==
  ASSUME IInv, NEW c \in Call, RetryTask(c)
  PROVE  IInv' /\ RowsGoOn(worker, worker')
<1> DEFINE t == Seen(c).task
<1>1. call[c].stage = "retry" /\ call[c].stage \in Holding
  BY DEF RetryTask, Holding
<1>2. /\ t \in Task /\ task[t] \in TaskRecord
      /\ call[c] \in CallRecord /\ call[c].to \in WorkerStatus \cup {"absent"}
  BY <1>1, HeldFacts DEF CallRecord
<1>3. UNCHANGED <<rows, local>> /\ open' = open
  BY DEF RetryTask
<1>4. TasksAreSound' /\ TasksGoOn(task, task')
  <2>1. CASE UNCHANGED task
    BY <1>3, <2>1, TasksStay DEF tasks
  <2>2. CASE Ask(t, MayRetry(task[t]), Retried(task[t]))
    BY <1>2, <1>3, <2>2, RetriedTask, FinishedTasksRefuse, AskKeeps
       DEF Ask, IInv, TasksAreSound
  <2> QED
    BY <2>1, <2>2 DEF RetryTask
<1>5. PICK k : k = [call[c] EXCEPT !.stage = "requeued", !.to = call[c].to]
  OBVIOUS
<1>6. k = [call[c] EXCEPT !.stage = "requeued"]
  BY <1>2, <1>5 DEF CallRecord
<1>7. call' = [call EXCEPT ![c] = k]
  BY <1>6 DEF RetryTask, Goto
<1>8. CallSound(k, task', worker) /\ Quiet(k)
  BY <1>1, <1>2, <1>4, <1>5, AskedCallIsSound
<1> QED
  BY <1>3, <1>4, <1>7, <1>8, CallGoes, QuietRunsAlone

LEMMA CancelTaskKeeps ==
  ASSUME IInv, NEW c \in Call, CancelTask(c)
  PROVE  IInv' /\ RowsGoOn(worker, worker')
<1> DEFINE t == Seen(c).task
<1>1. /\ call[c].stage = "cancelTask" /\ call[c].stage \in Holding
      /\ call[c].stage \notin {"free", "insert"}
  BY DEF CancelTask, Holding
<1>2. t \in Task /\ task[t] \in TaskRecord
  BY <1>1, HeldFacts
<1>3. UNCHANGED <<rows, local>> /\ open' = open
  BY DEF CancelTask
<1>4. TasksAreSound' /\ TasksGoOn(task, task')
  <2>1. CASE UNCHANGED task
    BY <1>3, <2>1, TasksStay DEF tasks
  <2>2. CASE Ask(t, MayCancel(task[t]), Cancelled(task[t]))
    BY <1>2, <1>3, <2>2, CancelledTask, FinishedTasksRefuse, AskKeeps
       DEF Ask, IInv, TasksAreSound
  <2> QED
    BY <2>1, <2>2 DEF CancelTask
<1>5. PICK k : k = Forget(c, "mark")
  OBVIOUS
<1>6. CallSound(k, task, worker) /\ k.stage = "mark"
  BY <1>1, <1>5, ForgottenCall
<1>7. Quiet(k)
  BY <1>6 DEF Quiet, Starting
<1>8. CallSound(k, task', worker)
  <2>1. RowsGoOn(worker, worker)
    BY DEF RowsGoOn, RowGoesOn
  <2>2. task \in [Task -> TaskRecord] /\ \A w \in Worker : worker[w] \in Row
    BY DEF IInv, TasksAreSound, RowsAreSound, RowSound
  <2> QED
    BY <1>4, <1>6, <2>1, <2>2, CallStaysSound
<1>9. call' = [call EXCEPT ![c] = k]
  BY <1>5 DEF CancelTask
<1> QED
  BY <1>3, <1>4, <1>7, <1>8, <1>9, CallGoes, QuietRunsAlone

LEMMA ReadToMarkKeeps ==
  ASSUME IInv, NEW c \in Call, ReadToMark(c)
  PROVE  IInv' /\ RowsGoOn(worker, worker')
<1> DEFINE w == call[c].worker
<1>1. /\ call[c].stage = "mark" /\ call[c] \in CallRecord
      /\ w \in Worker /\ call[c].proc \in Proc /\ worker[w].status # "absent"
  BY DEF ReadToMark, IInv, CallsAreSound, CallSound
<1>2. UNCHANGED <<tasks, rows, local>> /\ task' = task
  BY DEF ReadToMark, tasks
<1>3. CASE Return(c)
  BY <1>2, <1>3, TasksStay, ReturnKeeps
<1>4. CASE /\ worker[w].status \notin Terminal
           /\ call' = [call EXCEPT ![c].stage = "markSave", ![c].seen = worker[w],
                                   ![c].to = "cancelled"]
  <2>1. PICK k : k = [call[c] EXCEPT !.stage = "markSave", !.seen = worker[w],
                                     !.to = "cancelled"]
    OBVIOUS
  <2>2. call' = [call EXCEPT ![c] = k]
    BY <1>4, <2>1
  <2>3. /\ "markSave" \in Stage /\ worker[w] \in Row /\ "cancelled" \in WorkerStatus
    BY <1>1, StatusFacts DEF Stage, Holding, IInv, RowsAreSound, RowSound
  <2>4. k \in CallRecord
    BY <1>1, <2>1, <2>3, Zenon DEF CallRecord
  <2>5. /\ k.stage = "markSave" /\ k.seen = worker[w] /\ k.worker = w
        /\ k.proc = call[c].proc /\ k.to = "cancelled"
    BY <1>1, <2>1 DEF CallRecord
  <2>6. ReadsSoundly(k, task, worker)
    BY <1>1, <1>4, <2>5, JustRead
  <2>7. CallSound(k, task, worker) /\ Quiet(k)
    BY <1>1, <2>4, <2>5, <2>6 DEF CallSound, FitsItsStage, Quiet, Starting
  <2> QED
    BY <1>2, <2>2, <2>7, TasksStay, CallGoes, QuietRunsAlone
<1> QED
  BY <1>3, <1>4 DEF ReadToMark

(***************************************************************************)
(* A crash takes the calls of a process and its maps, and nothing else.    *)
(***************************************************************************)
LEMMA CrashKeeps ==
  ASSUME IInv, NEW p \in Proc, Crash(p)
  PROVE  IInv' /\ RowsGoOn(worker, worker')
<1>1. /\ task' = task /\ open' = open /\ worker' = worker /\ log' = log
      /\ handles'    = [handles EXCEPT ![p] = {}]
      /\ cancelling' = [cancelling EXCEPT ![p] = {}]
      /\ call' = [c \in Call |-> IF call[c].proc = p THEN Free ELSE call[c]]
  BY DEF Crash, tasks, rows
<1>2. \A c \in Call : \/ call'[c] = Free
                      \/ call'[c] = call[c] /\ call[c].proc # p
  BY <1>1
<1>3. TasksAreSound' /\ RowsAreSound' /\ LocalTypes'
  BY <1>1 DEF IInv, TasksAreSound, RowsAreSound, LocalTypes
<1>4. CallsAreSound'
  BY <1>1, <1>2, FreeIsSound DEF IInv, CallsAreSound
<1>5. InsertsAreAlone'
  <2>1. ASSUME NEW c \in Call, call'[c].stage = "insert", NEW d \in Call \ {c}
        PROVE  /\ worker'[call'[c].worker].status = "absent"
               /\ call'[d].worker # call'[c].worker
    <3>1. call'[c] = call[c] /\ call[c].worker \in Worker
      BY <1>2, <2>1, FreeIsSound DEF IInv, CallsAreSound, CallSound
    <3> QED
      BY <1>1, <1>2, <2>1, <3>1, FreeIsSound, WorkerManagerConstants
         DEF IInv, InsertsAreAlone
  <2>2. ASSUME NEW c \in Call, call'[c].stage = "insert"
        PROVE  worker'[call'[c].worker].status = "absent"
    <3>1. call'[c] = call[c]
      BY <1>2, <2>2, FreeIsSound
    <3> QED
      BY <1>1, <2>2, <3>1 DEF IInv, InsertsAreAlone
  <2> QED
    BY <2>1, <2>2 DEF InsertsAreAlone
<1>6. RunsAreKnown'
  <2>1. ASSUME NEW c \in Call, Drives(call'[c], worker')
        PROVE  Known(call'[c], handles', cancelling')
    <3>1. call'[c] = call[c] /\ call[c].proc # p /\ call[c].proc \in Proc
      BY <1>2, <2>1, FreeIsSound DEF Drives, IInv, CallsAreSound, CallSound
    <3>2. Known(call[c], handles, cancelling)
      BY <1>1, <2>1, <3>1 DEF IInv, RunsAreKnown
    <3> QED
      BY <1>1, <3>1, <3>2 DEF Known, IInv, LocalTypes
  <2> QED
    BY <2>1 DEF RunsAreKnown
<1>7. OneRunPerProcess'
  <2>1. ASSUME NEW c \in Call, NEW d \in Call, c # d, call'[c].stage = "executing",
               Rivals(call'[c], call'[d], cancelling')
        PROVE  ~MayRun(call'[d], worker')
    <3>1. call'[c] = call[c] /\ call[c].proc # p /\ call[c].proc \in Proc
      BY <1>2, <2>1, FreeIsSound DEF IInv, CallsAreSound, CallSound
    <3>2. CASE call'[d] = Free
      BY <3>2, FreeIsSound DEF MayRun, Starting
    <3>3. CASE call'[d] = call[d]
      <4>1. Rivals(call[c], call[d], cancelling)
        BY <1>1, <2>1, <3>1, <3>3 DEF Rivals, IInv, LocalTypes
      <4> QED
        BY <1>1, <2>1, <3>1, <3>3, <4>1 DEF IInv, OneRunPerProcess
    <3> QED
      BY <1>2, <3>2, <3>3
  <2> QED
    BY <2>1 DEF OneRunPerProcess
<1> QED
  BY <1>1, <1>3, <1>4, <1>5, <1>6, <1>7 DEF IInv, RowsGoOn, RowGoesOn

(***************************************************************************)
(* The invariant is inductive, and every step treats the rows by the rules.*)
(***************************************************************************)
LEMMA InitInvariant == Init => IInv
<1> SUFFICES ASSUME Init PROVE IInv
  OBVIOUS
<1>1. AbsentTask \in TaskRecord /\ AbsentTask.attempts = 0
  BY DEF AbsentTask, TaskRecord, ReviewStatus
<1>2. TasksAreSound
  BY <1>1 DEF Init, TasksAreSound
<1>3. AbsentWorker \in Row /\ AbsentWorker.status = "absent"
  BY DEF AbsentWorker, Row
<1>4. RowsAreSound
  BY <1>3 DEF Init, RowsAreSound, RowSound
<1>5. LocalTypes
  BY DEF Init, LocalTypes
<1>6. CallsAreSound
  BY FreeIsSound DEF Init, CallsAreSound
<1>7. InsertsAreAlone /\ RunsAreKnown /\ OneRunPerProcess
  BY FreeIsSound DEF Init, InsertsAreAlone, RunsAreKnown, OneRunPerProcess, Drives
<1> QED
  BY <1>2, <1>4, <1>5, <1>6, <1>7 DEF IInv

LEMMA StepInvariant == IInv /\ [Next]_vars => IInv' /\ RowsGoOn(worker, worker')
<1> SUFFICES ASSUME IInv, [Next]_vars PROVE IInv' /\ RowsGoOn(worker, worker')
  OBVIOUS
<1>1. ASSUME NEW t \in Task, CreateTask(t) \/ OwnerActs(t)
      PROVE  IInv' /\ RowsGoOn(worker, worker')
  BY <1>1, CreateTaskKeeps, OwnerActsKeeps
<1>2. ASSUME NEW c \in Call, NEW p \in Proc, NEW w \in Worker,
             \/ \E t \in Task : Delegate(c, p, w, t)
             \/ Start(c, p, w) \/ Recover(c, p, w) \/ Review(c, p, w)
             \/ Cancel(c, p, w) \/ Requeue(c, p, w)
      PROVE  IInv' /\ RowsGoOn(worker, worker')
  BY <1>2, DelegateKeeps, StartKeeps, RecoverKeeps, ReviewKeeps, CancelKeeps, RequeueKeeps
<1>3. ASSUME NEW c \in Call, Proceed(c)
      PROVE  IInv' /\ RowsGoOn(worker, worker')
  BY <1>3, InsertKeeps, MoveKeeps, OpenAttemptKeeps, RegisterKeeps, BeginRunKeeps,
     ExecutorEndsKeeps, AfterRunKeeps, FinishAttemptKeeps, SaveResultKeeps,
     FailWorkerKeeps, ReviewTaskKeeps, SaveReviewKeeps, CancelTaskKeeps, ReadToMarkKeeps,
     MarkCancelledKeeps, RetryTaskKeeps, SaveRequeueKeeps DEF Proceed
<1>4. ASSUME NEW c \in Call, ReportProgress(c)
      PROVE  IInv' /\ RowsGoOn(worker, worker')
  BY <1>4, ReportProgressKeeps
<1>5. ASSUME NEW p \in Proc, Crash(p)
      PROVE  IInv' /\ RowsGoOn(worker, worker')
  BY <1>5, CrashKeeps
<1>6. CASE UNCHANGED vars
  <2>1. UNCHANGED <<rows, local, call>> /\ UNCHANGED tasks
    BY <1>6 DEF vars, tasks, rows, local
  <2> QED
    BY <2>1, TasksStay, CallsStay
<1> QED
  BY <1>1, <1>2, <1>3, <1>4, <1>5, <1>6 DEF Next

(***************************************************************************)
(* A worker is completed only together with its task, accepted by review:  *)
(* runner.review writes the two records by two awaits, and nothing that    *)
(* happens in between, or later, parts them.                               *)
(***************************************************************************)
THEOREM CompletedWorkStaysAccepted == Spec => []CompletedWorkIsAccepted
<1>1. IInv => CompletedWorkIsAccepted
  BY DEF IInv, RowsAreSound, RowSound, Accepted, CompletedWorkIsAccepted
<1> QED
  BY <1>1, InitInvariant, StepInvariant, PTL DEF Spec

(***************************************************************************)
(* A process never loses sight of an execution of its own: the worker has  *)
(* a handle in it or a cancel of the process has claimed it, however many  *)
(* starts of the same worker the process has under way.                    *)
(***************************************************************************)
THEOREM LiveRunsStayKnown == Spec => []LiveRunsAreKnown
<1>1. IInv => LiveRunsAreKnown
  BY DEF IInv, RunsAreKnown, Drives, Known, LiveRunsAreKnown
<1> QED
  BY <1>1, InitInvariant, StepInvariant, PTL DEF Spec

(***************************************************************************)
(* No write by a late result, a timeout, a recovery, a requeue or a review *)
(* that decided on an older row touches a completed or cancelled worker.   *)
(***************************************************************************)
THEOREM FinishedWorkersAreFinal == Spec => FinishedWorkersStay
<1> DEFINE Stay == \A w \in Worker :
                     worker[w].status \in Terminal => worker'[w] = worker[w]
<1>1. IInv /\ [Next]_vars => IInv' /\ [Stay]_vars
  BY StepInvariant DEF RowsGoOn, RowGoesOn
<1> QED
  BY <1>1, InitInvariant, PTL DEF Spec, FinishedWorkersStay

(***************************************************************************)
(* Every run of a worker is a fresh attempt of its task, and no write ever *)
(* lowers the attempts, so that a stale one cannot refill the budget.      *)
(***************************************************************************)
THEOREM EveryRunIsAFreshAttempt == Spec => RunsAreFreshAttempts
<1> DEFINE Raise == \A w \in Worker :
                      LET before == worker[w]
                          after  == worker'[w]
                      IN /\ after.attempts >= before.attempts
                         /\ after.status = "running" /\ before.status # "running" =>
                              after.attempts > before.attempts
<1>1. IInv /\ [Next]_vars => IInv' /\ [Raise]_vars
  <2> SUFFICES ASSUME IInv, [Next]_vars PROVE IInv' /\ Raise
    OBVIOUS
  <2>1. IInv' /\ RowsGoOn(worker, worker')
    BY StepInvariant
  <2>2. \A w \in Worker : worker[w].attempts \in Nat /\ worker'[w].attempts \in Nat
    BY <2>1 DEF IInv, RowsAreSound, RowSound, Row
  <2>3. ASSUME NEW w \in Worker
        PROVE  /\ worker'[w].attempts >= worker[w].attempts
               /\ worker'[w].status = "running" /\ worker[w].status # "running" =>
                    worker'[w].attempts > worker[w].attempts
    BY <2>1, <2>2 DEF RowsGoOn, RowGoesOn
  <2> QED
    BY <2>1, <2>3
<1> QED
  BY <1>1, InitInvariant, PTL DEF Spec, RunsAreFreshAttempts

=============================================================================
