------------------------ MODULE PreviewRuntimeProofs ------------------------
(***************************************************************************)
(* For any number of calls, runtimes and edits: previews show the revision *)
(* they name, a restart leaves no earlier preview, ends are final, and the *)
(* executor hosts what the records say runs once no call is about it.      *)
(***************************************************************************)
EXTENDS PreviewRuntime, TLAPS

RuntimeRecords ==
  [status: Statuses, revision: Nat, evidence: Nat, cancelled: BOOLEAN,
   held: BOOLEAN, raced: BOOLEAN]

Stages == {"free", "creating", "detecting", "listing", "opened", "building",
           "launching", "probing", "withdrawing", "stopping", "cancelling",
           "expiring", "asked", "retiring"}

\* where a call is about a runtime
About == {"opened", "building", "launching", "probing", "withdrawing",
          "stopping", "cancelling", "expiring", "asked"}

CallRecords ==
  [at: Stages, runtime: Nat, revision: Nat, evidence: Nat, ok: BOOLEAN,
   checks: Nat, to: {"none", "failed", "cancelled"}, restart: BOOLEAN,
   target: Nat, visited: Nat, known: SUBSET Runtime]

RuntimeTypes == rt \in [Runtime -> RuntimeRecords] /\ revision \in Nat

CallTypes == call \in [Calls -> CallRecords]

\* evidence is read after the revision
EvidenceIsLater ==
  \A r \in Runtime : rt[r].revision <= rt[r].evidence /\ rt[r].evidence <= revision

HeldAreMade == \A r \in Runtime : rt[r].held => rt[r].status # "none"

RuntimesKeep ==
  RuntimeTypes /\ EvidenceIsLater /\ HeldAreMade /\ PlansFitTheirRevision

CallHolds(c) ==
  LET now == call[c]
      left == {r \in now.known : IsLive(r)}
  IN
  /\ now.at = "free" => now = Free
  /\ now.at \in About => now.runtime \in Runtime
  /\ now.runtime \in Runtime => rt[now.runtime].status # "none"
  \* what it read before it creates or starts
  /\ now.at = "detecting" => now.revision <= revision
  /\ now.at = "listing" => now.revision <= now.evidence /\ now.evidence <= revision
  /\ now.at = "opened" => rt[now.runtime].evidence <= now.revision
  \* a restart meets on its pass what lives of the previews it found
  /\ \A r \in left : rt[r].held
  /\ now.at \in {"asked", "stopping"} =>
       \A r \in left : r = now.runtime \/ (r > now.visited /\ r # now.target)
  /\ now.at = "retiring" => \A r \in left : r > now.visited /\ r # now.target
  /\ now.at \in {"creating", "detecting", "listing", "opened"} => left = {}

IInv == RuntimesKeep /\ CallTypes /\ \A c \in Calls : CallHolds(c)

EndsStay ==
  \A r \in Runtime :
    rt[r].status \in {"failed", "expired", "cancelled"} =>
      rt'[r].status \in {rt[r].status, "gone"}

\* What a step leaves of what calls have read.
RuntimesPersist ==
  /\ revision <= revision'
  /\ \A r \in Runtime : rt[r].status # "none" =>
       rt'[r].status # "none" /\ rt'[r].evidence <= rt[r].evidence

\* Runtime r is not brought to life, and keeps its place in the map if it lives.
NoRevival(r) == IsLive(r)' => IsLive(r) /\ (rt[r].held => rt'[r].held)

-----------------------------------------------------------------------------
(* Steps of the runtimes.                                                  *)

\* a step of one runtime that leaves its plan and its place alone
PlainStep(r) ==
  /\ rt'[r] \in RuntimeRecords
  /\ rt'[r].revision = rt[r].revision /\ rt'[r].evidence = rt[r].evidence
  /\ rt'[r].held = rt[r].held
  /\ \/ rt'[r].status = rt[r].status
     \/ /\ rt[r].status \in Live \cup {"created"}
        /\ rt'[r].status # "none" /\ (IsLive(r)' => IsLive(r))

RuntimesMove == RuntimesKeep' /\ RuntimesPersist /\ EndsStay

LEMMA PlainStepsKeep ==
  ASSUME RuntimesKeep, rt' \in [Runtime -> RuntimeRecords], revision' \in Nat,
         revision <= revision', \A r \in Runtime : PlainStep(r)
  PROVE  RuntimesMove /\ \A r \in Runtime : NoRevival(r)
<1>1. /\ \A r \in Runtime : rt[r] \in RuntimeRecords /\ rt'[r] \in RuntimeRecords
      /\ revision \in Nat
  BY DEF RuntimesKeep, RuntimeTypes
<1>2. \A r \in Runtime : /\ rt[r].revision \in Nat /\ rt[r].evidence \in Nat
                         /\ rt'[r].revision \in Nat /\ rt'[r].evidence \in Nat
  BY <1>1 DEF RuntimeRecords
<1>3. RuntimeTypes'
  BY DEF RuntimeTypes
<1>4. EvidenceIsLater'
  BY <1>1, <1>2 DEF RuntimesKeep, EvidenceIsLater, PlainStep
<1>5. PlansFitTheirRevision'
  BY DEF RuntimesKeep, PlansFitTheirRevision, PlainStep, IsLive
<1>6. RuntimesPersist
  BY <1>2 DEF RuntimesPersist, PlainStep
<1>7. EndsStay
  BY DEF EndsStay, PlainStep, Live
<1>8. \A r \in Runtime : NoRevival(r)
  BY DEF NoRevival, PlainStep, IsLive
<1>9. HeldAreMade'
  BY DEF RuntimesKeep, HeldAreMade, PlainStep
<1>10. QED BY <1>3, <1>4, <1>5, <1>6, <1>7, <1>8, <1>9 DEF RuntimesMove, RuntimesKeep

LEMMA RuntimesRest ==
  ASSUME RuntimesKeep, UNCHANGED <<rt, revision>>
  PROVE  RuntimesMove /\ \A r \in Runtime : NoRevival(r)
<1>1. rt' \in [Runtime -> RuntimeRecords] /\ revision' \in Nat /\ revision <= revision'
  BY DEF RuntimesKeep, RuntimeTypes
<1>2. \A r \in Runtime : PlainStep(r)
  BY DEF RuntimesKeep, RuntimeTypes, PlainStep
<1>3. QED BY <1>1, <1>2, PlainStepsKeep

\* a live runtime takes another status, or ends
LEMMA StatusMoves ==
  ASSUME RuntimesKeep, NEW r \in Runtime, NEW status \in Statuses \ {"none"},
         rt' = [rt EXCEPT ![r].status = status], UNCHANGED revision,
         rt[r].status \in Live \cup {"created"}, status \in Live => IsLive(r)
  PROVE  RuntimesMove /\ \A s \in Runtime : NoRevival(s)
<1> DEFINE row == [rt[r] EXCEPT !.status = status]
<1>1. rt' = [rt EXCEPT ![r] = row] /\ rt[r] \in RuntimeRecords
      /\ rt \in [Runtime -> RuntimeRecords]
  BY DEF RuntimesKeep, RuntimeTypes
<1>2. /\ row \in RuntimeRecords /\ row.revision = rt[r].revision
      /\ row.evidence = rt[r].evidence /\ row.held = rt[r].held /\ row.status = status
  BY <1>1 DEF RuntimeRecords
<1> HIDE DEF row
<1>3. \A s \in Runtime : PlainStep(s)
  BY <1>1, <1>2 DEF PlainStep, IsLive
<1>4. rt' \in [Runtime -> RuntimeRecords] /\ revision' \in Nat /\ revision <= revision'
  BY <1>1, <1>2 DEF RuntimesKeep, RuntimeTypes
<1>5. QED BY <1>3, <1>4, PlainStepsKeep

\* history and the wish to cancel say nothing of what a runtime shows
LEMMA FlagsMove ==
  ASSUME RuntimesKeep, NEW r \in Runtime, NEW flag \in BOOLEAN, UNCHANGED revision,
         \/ rt' = [rt EXCEPT ![r].raced = flag]
         \/ rt' = [rt EXCEPT ![r].cancelled = flag]
  PROVE  RuntimesMove /\ \A s \in Runtime : NoRevival(s)
<1>1. PICK row : /\ rt' = [rt EXCEPT ![r] = row]
                 /\ \/ row = [rt[r] EXCEPT !.raced = flag]
                    \/ row = [rt[r] EXCEPT !.cancelled = flag]
  BY DEF RuntimesKeep, RuntimeTypes
<1>2. rt[r] \in RuntimeRecords /\ rt \in [Runtime -> RuntimeRecords]
  BY DEF RuntimesKeep, RuntimeTypes
<1>3. /\ row \in RuntimeRecords /\ row.revision = rt[r].revision
      /\ row.evidence = rt[r].evidence /\ row.held = rt[r].held
      /\ row.status = rt[r].status
  BY <1>1, <1>2 DEF RuntimeRecords
<1>4. \A s \in Runtime : PlainStep(s)
  BY <1>1, <1>2, <1>3 DEF PlainStep
<1>5. rt' \in [Runtime -> RuntimeRecords] /\ revision' \in Nat /\ revision <= revision'
  BY <1>1, <1>2, <1>3 DEF RuntimesKeep, RuntimeTypes
<1>6. QED BY <1>4, <1>5, PlainStepsKeep

LEMMA AllowedMoves ==
  ASSUME NEW from, NEW to, Allowed(from, to)
  PROVE  /\ from \in Live \cup {"created"} /\ to \in Statuses \ {"none"}
         /\ to \in Live => from \in Live
BY DEF Allowed, Live, Ended, Statuses

\* a status that is set only if the transition is allowed
LEMMA AskedMoves ==
  ASSUME RuntimesKeep, NEW r \in Runtime, NEW to, UNCHANGED revision,
         IF Allowed(rt[r].status, to)
           THEN rt' = [rt EXCEPT ![r].status = to] ELSE UNCHANGED rt
  PROVE  RuntimesMove /\ \A s \in Runtime : NoRevival(s)
<1>1. CASE Allowed(rt[r].status, to)
  BY <1>1, AllowedMoves, StatusMoves DEF IsLive
<1>2. CASE ~Allowed(rt[r].status, to)
  BY <1>2, RuntimesRest
<1>3. QED BY <1>1, <1>2

-----------------------------------------------------------------------------
(* Steps of the calls.                                                     *)

\* a call keeps what it read when the runtimes move beside it
LEMMA CallKeeps ==
  ASSUME IInv, RuntimesMove, NEW d \in Calls, NEW gone \in SUBSET Runtime,
         call'[d] = [call[d] EXCEPT !.known = call[d].known \ gone],
         \A r \in call[d].known \ gone : NoRevival(r)
  PROVE  CallHolds(d)'
<1> DEFINE now == call[d]
           next == [now EXCEPT !.known = now.known \ gone]
           left == {r \in next.known : IsLive(r)'}
<1>1. now \in CallRecords /\ CallHolds(d)
  BY DEF IInv, CallTypes
<1>2. /\ next \in CallRecords /\ next.at = now.at /\ next.runtime = now.runtime
      /\ next.revision = now.revision /\ next.evidence = now.evidence
      /\ next.visited = now.visited /\ next.target = now.target
      /\ next.known = now.known \ gone
  BY <1>1 DEF CallRecords
<1>3. now.at = "free" => next = Free
  BY <1>1 DEF CallHolds, Free
<1>4. \A r \in left : /\ r \in now.known /\ r \in Runtime
                      /\ IsLive(r) /\ rt[r].held /\ rt'[r].held
  BY <1>1, <1>2 DEF CallHolds, NoRevival, CallRecords
<1>5. /\ \A r \in Runtime : rt[r].evidence \in Nat /\ rt'[r].evidence \in Nat
      /\ revision \in Nat /\ revision' \in Nat
      /\ now.revision \in Nat /\ now.evidence \in Nat
  BY <1>1 DEF RuntimesMove, IInv, RuntimesKeep, RuntimeTypes, RuntimeRecords, CallRecords
<1>6. /\ revision <= revision'
      /\ \A r \in Runtime : rt[r].status # "none" =>
           rt'[r].status # "none" /\ rt'[r].evidence <= rt[r].evidence
  BY DEF RuntimesMove, RuntimesPersist
<1>7. call'[d] = next
  OBVIOUS
<1> HIDE DEF now, next
<1>8. /\ next.at = "detecting" => next.revision <= revision'
      /\ next.at = "listing" => next.revision <= next.evidence /\ next.evidence <= revision'
      /\ next.at = "opened" => rt'[next.runtime].evidence <= next.revision
  <2>1. /\ now.at = "detecting" => now.revision <= revision
        /\ now.at = "listing" => now.revision <= now.evidence /\ now.evidence <= revision
        /\ now.at = "opened" => /\ now.runtime \in Runtime /\ rt[now.runtime].status # "none"
                                /\ rt[now.runtime].evidence <= now.revision
    BY <1>1 DEF CallHolds, now, About
  <2>2. QED BY <1>2, <1>5, <1>6, <2>1
<1>9. /\ next.at \in About => next.runtime \in Runtime
      /\ next.runtime \in Runtime => rt'[next.runtime].status # "none"
  BY <1>1, <1>2, <1>6 DEF CallHolds, now
<1>10. /\ \A r \in left : rt'[r].held
       /\ next.at \in {"asked", "stopping"} =>
            \A r \in left : r = next.runtime \/ (r > next.visited /\ r # next.target)
       /\ next.at = "retiring" => \A r \in left : r > next.visited /\ r # next.target
       /\ next.at \in {"creating", "detecting", "listing", "opened"} => left = {}
  <2>1. \A r \in left : r \in {s \in now.known : IsLive(s)}
    BY <1>4
  <2> HIDE DEF left
  <2>2. QED BY <1>1, <1>2, <1>4, <2>1 DEF CallHolds, now
<1>11. QED BY <1>2, <1>3, <1>7, <1>8, <1>9, <1>10 DEF CallHolds

\* one call moves on, the others keep what they read
LEMMA CallMoves ==
  ASSUME IInv, RuntimesMove, NEW c \in Calls, NEW next \in CallRecords,
         \A r \in Runtime : NoRevival(r),
         call' = [call EXCEPT ![c] = next], CallHolds(c)'
  PROVE  IInv' /\ EndsStay
<1>1. CallTypes'
  BY DEF IInv, CallTypes
<1>2. ASSUME NEW d \in Calls PROVE CallHolds(d)'
  <2>1. CASE d = c
    BY <2>1
  <2>2. CASE d # c
    <3> DEFINE gone == {}
    <3>1. call[d] \in CallRecords /\ call'[d] = call[d]
      BY <2>2 DEF IInv, CallTypes
    <3>2. call[d] = [call[d] EXCEPT !.known = call[d].known \ gone]
      BY <3>1 DEF CallRecords
    <3>3. \A r \in call[d].known \ gone : NoRevival(r)
      BY <3>1 DEF CallRecords
    <3>4. gone \in SUBSET Runtime
      OBVIOUS
    <3> HIDE DEF gone
    <3>5. QED BY <3>1, <3>2, <3>3, <3>4, CallKeeps
  <2>3. QED BY <2>1, <2>2
<1>3. QED BY <1>1, <1>2 DEF IInv, RuntimesMove

LEMMA FreeCall == Free \in CallRecords /\ Free.at = "free" /\ Free.runtime = 0
                  /\ Free.known = {} /\ Free.restart = FALSE
BY DEF Free, CallRecords, Stages

LEMMA CallEnds ==
  ASSUME IInv, RuntimesMove, NEW c \in Calls, \A r \in Runtime : NoRevival(r), End(c)
  PROVE  IInv' /\ EndsStay
<1>1. call' = [call EXCEPT ![c] = Free] /\ call'[c] = Free
  BY DEF End, IInv, CallTypes
<1>2. 0 \notin Runtime
  BY PreviewConstants DEF Runtime
<1>3. CallHolds(c)'
  BY <1>1, <1>2, FreeCall DEF CallHolds, About
<1>4. QED BY <1>1, <1>3, FreeCall, CallMoves

\* a call that is about a runtime, past its start and past a restart's pass
Working == {"building", "launching", "probing", "withdrawing", "cancelling", "expiring"}

LEMMA WorkingHolds ==
  ASSUME IInv, RuntimesMove, NEW c \in Calls, NEW next \in CallRecords,
         \A r \in Runtime : NoRevival(r),
         call' = [call EXCEPT ![c] = next],
         next.at \in Working \/ (next.at = "stopping" /\ next.known = {}),
         next.runtime \in Runtime, rt[next.runtime].status # "none",
         next.known \subseteq call[c].known
  PROVE  IInv' /\ EndsStay
<1>1. call'[c] = next /\ call[c] \in CallRecords /\ CallHolds(c)
  BY DEF IInv, CallTypes
<1>2. \A r \in {s \in next.known : IsLive(s)'} : rt'[r].held
  BY <1>1 DEF CallHolds, NoRevival, CallRecords
<1>3. rt'[next.runtime].status # "none"
  BY DEF RuntimesMove, RuntimesPersist
<1>4. CallHolds(c)'
  BY <1>1, <1>2, <1>3 DEF CallHolds, Working
<1>5. QED BY <1>4, CallMoves

-----------------------------------------------------------------------------
(* Actions.                                                                *)

LEMMA CreationKeeps ==
  ASSUME IInv, NEW c \in Calls,
         Create(c) \/ RefuseRestart(c) \/ Detect(c) \/ OutOfRuntimes(c)
  PROVE  IInv' /\ EndsStay
<1>1. /\ UNCHANGED <<rt, revision>> /\ call[c] \in CallRecords /\ CallHolds(c)
      /\ revision \in Nat
  BY DEF IInv, CallTypes, RuntimesKeep, RuntimeTypes, Create, RefuseRestart, Detect,
         OutOfRuntimes
<1>2. RuntimesMove /\ \A r \in Runtime : NoRevival(r)
  BY <1>1, RuntimesRest DEF IInv
<1>3. CASE RefuseRestart(c) \/ OutOfRuntimes(c)
  BY <1>2, <1>3, CallEnds DEF RefuseRestart, OutOfRuntimes
<1>4. CASE Create(c)
  <2> DEFINE next == [call[c] EXCEPT !.at = "detecting", !.revision = revision]
  <2>1. call' = [call EXCEPT ![c] = next] /\ call[c].at \in {"free", "creating"}
    BY <1>4 DEF Create, IInv, CallTypes
  <2>2. /\ next \in CallRecords /\ next.at = "detecting" /\ next.revision = revision
        /\ next.runtime = call[c].runtime /\ next.known = call[c].known
    BY <1>1 DEF CallRecords, Stages
  <2>3. call'[c] = next
    BY <2>1 DEF IInv, CallTypes
  <2> HIDE DEF next
  <2>4. {r \in call[c].known : IsLive(r)} = {}
    BY <1>1, <2>1, FreeCall DEF CallHolds
  <2>5. CallHolds(c)'
    BY <1>1, <2>2, <2>3, <2>4 DEF CallHolds, About, IsLive
  <2>6. QED BY <1>2, <2>1, <2>2, <2>5, CallMoves
<1>5. CASE Detect(c)
  <2> DEFINE next == [call[c] EXCEPT !.at = "listing", !.evidence = revision]
  <2>1. call' = [call EXCEPT ![c] = next] /\ call[c].at = "detecting"
    BY <1>5 DEF Detect, IInv, CallTypes
  <2>2. /\ next \in CallRecords /\ next.at = "listing" /\ next.evidence = revision
        /\ next.revision = call[c].revision
        /\ next.runtime = call[c].runtime /\ next.known = call[c].known
    BY <1>1 DEF CallRecords, Stages
  <2>3. call'[c] = next
    BY <2>1 DEF IInv, CallTypes
  <2> HIDE DEF next
  <2>4. CallHolds(c)'
    BY <1>1, <2>1, <2>2, <2>3 DEF CallHolds, About, IsLive
  <2>5. QED BY <1>2, <2>1, <2>2, <2>4, CallMoves
<1>6. QED BY <1>3, <1>4, <1>5

\* a new runtime shows the revision that its creation read
LEMMA InsertKeeps ==
  ASSUME IInv, NEW c \in Calls, Insert(c) PROVE IInv' /\ EndsStay
<1>1. PICK r \in Runtime :
        /\ rt[r].status = "none"
        /\ rt' = [rt EXCEPT ![r] = [Unmade EXCEPT
                   !.status = "created", !.revision = call[c].revision,
                   !.evidence = call[c].evidence, !.held = TRUE]]
        /\ IF call[c].restart
            THEN call' = [call EXCEPT ![c].at = "opened", ![c].runtime = r,
                                      ![c].revision = revision, ![c].evidence = 0]
            ELSE End(c)
  BY DEF Insert
<1> DEFINE row == [Unmade EXCEPT !.status = "created", !.revision = call[c].revision,
                     !.evidence = call[c].evidence, !.held = TRUE]
<1>2. /\ call[c] \in CallRecords /\ CallHolds(c) /\ call[c].at = "listing"
      /\ rt \in [Runtime -> RuntimeRecords] /\ revision \in Nat /\ UNCHANGED revision
  BY DEF IInv, CallTypes, RuntimesKeep, RuntimeTypes, Insert
<1>3. /\ row \in RuntimeRecords /\ row.status = "created" /\ row.held
      /\ row.revision = call[c].revision /\ row.evidence = call[c].evidence
  BY <1>2 DEF Unmade, RuntimeRecords, CallRecords, Statuses
<1>4. rt' = [rt EXCEPT ![r] = row]
  BY <1>1
<1> HIDE DEF row
<1>5. /\ rt' \in [Runtime -> RuntimeRecords] /\ rt'[r] = row
      /\ \A s \in Runtime : s # r => rt'[s] = rt[s]
  BY <1>2, <1>3, <1>4
<1>6. RuntimesMove
  <2>1. RuntimeTypes'
    BY <1>2, <1>5 DEF RuntimeTypes
  <2>2. EvidenceIsLater'
    BY <1>2, <1>3, <1>5 DEF EvidenceIsLater, IInv, RuntimesKeep, CallHolds
  <2>3. PlansFitTheirRevision'
    BY <1>3, <1>5 DEF PlansFitTheirRevision, IsLive, Live, IInv, RuntimesKeep
  <2>4. EndsStay
    BY <1>1, <1>5 DEF EndsStay
  <2>5. RuntimesPersist
    BY <1>1, <1>2, <1>5 DEF RuntimesPersist, RuntimeRecords
  <2>6. HeldAreMade'
    BY <1>3, <1>5 DEF HeldAreMade, IInv, RuntimesKeep
  <2>7. QED BY <2>1, <2>2, <2>3, <2>4, <2>5, <2>6 DEF RuntimesMove, RuntimesKeep
<1>7. \A s \in Runtime : NoRevival(s)
  BY <1>3, <1>5 DEF NoRevival, IsLive, Live
<1>8. CASE ~call[c].restart
  BY <1>1, <1>6, <1>7, <1>8, CallEnds
<1>9. CASE call[c].restart
  <2> DEFINE next == [call[c] EXCEPT !.at = "opened", !.runtime = r,
                        !.revision = revision, !.evidence = 0]
  <2>1. call' = [call EXCEPT ![c] = next]
    BY <1>1, <1>9 DEF IInv, CallTypes
  <2>2. /\ next \in CallRecords /\ next.at = "opened" /\ next.runtime = r
        /\ next.revision = revision /\ next.known = call[c].known
    <3>1. r \in Nat
      BY DEF Runtime
    <3>2. QED BY <1>2, <3>1 DEF CallRecords, Stages
  <2>3. call'[c] = next
    BY <2>1 DEF IInv, CallTypes
  <2> HIDE DEF next
  <2>4. rt'[r].evidence <= revision
    BY <1>2, <1>3, <1>5 DEF CallHolds
  <2>5. {s \in next.known : IsLive(s)'} = {}
    BY <1>2, <1>7, <2>2 DEF CallHolds, NoRevival, CallRecords
  <2>6. CallHolds(c)'
    BY <1>2, <1>3, <1>5, <2>2, <2>3, <2>4, <2>5 DEF CallHolds
  <2>7. QED BY <1>6, <1>7, <2>1, <2>2, <2>6, CallMoves
<1>10. QED BY <1>8, <1>9

LEMMA StartKeeps ==
  ASSUME IInv, NEW c \in Calls, NEW r \in Runtime, Start(c, r) PROVE IInv' /\ EndsStay
<1> DEFINE next == [Free EXCEPT !.at = "opened", !.runtime = r, !.revision = revision]
<1>1. /\ call' = [call EXCEPT ![c] = next] /\ rt[r].held /\ UNCHANGED <<rt, revision>>
      /\ revision \in Nat /\ r \in Nat
  BY DEF Start, IInv, RuntimesKeep, RuntimeTypes, Runtime
<1>2. RuntimesMove /\ \A s \in Runtime : NoRevival(s)
  BY <1>1, RuntimesRest DEF IInv
<1>3. /\ next \in CallRecords /\ next.at = "opened" /\ next.runtime = r
      /\ next.revision = revision /\ next.known = {}
  BY <1>1, FreeCall DEF CallRecords, Stages, Free
<1> HIDE DEF next
<1>4. call'[c] = next
  BY <1>1 DEF IInv, CallTypes
<1>5. rt[r].status # "none" /\ rt[r].evidence <= revision
  BY <1>1 DEF IInv, RuntimesKeep, EvidenceIsLater, HeldAreMade
<1>6. CallHolds(c)'
  BY <1>1, <1>3, <1>4, <1>5 DEF CallHolds
<1>7. QED BY <1>1, <1>2, <1>3, <1>6, CallMoves

\* a runtime comes to life only as the plan of its revision
LEMMA BeginKeeps ==
  ASSUME IInv, NEW c \in Calls, Begin(c) PROVE IInv' /\ EndsStay
<1> DEFINE now == call[c]
           r == now.runtime
           begun(status) == [rt EXCEPT ![r].status = status, ![r].cancelled = FALSE,
                               ![r].raced = @ \/ \E d \in Calls : Ending(d, r)]
           others == [d \in Calls |-> [call[d] EXCEPT !.known = @ \ {r}]]
<1>1. /\ now \in CallRecords /\ CallHolds(c) /\ now.at = "opened" /\ Startable(c)
      /\ rt \in [Runtime -> RuntimeRecords] /\ revision \in Nat /\ UNCHANGED revision
  BY DEF IInv, CallTypes, RuntimesKeep, RuntimeTypes, Begin
<1>2. /\ r \in Runtime /\ r \in Nat /\ rt[r].status \in {"created", "stopped"}
      /\ rt[r].evidence = rt[r].revision
  <2>1. /\ r \in Runtime /\ rt[r].evidence <= now.revision /\ now.revision = rt[r].revision
        /\ rt[r].status \in {"created", "stopped"}
    BY <1>1 DEF CallHolds, About, Startable
  <2>2. rt[r].revision <= rt[r].evidence /\ rt[r] \in RuntimeRecords
    BY <1>1, <2>1 DEF IInv, RuntimesKeep, EvidenceIsLater
  <2>3. rt[r].revision \in Nat /\ rt[r].evidence \in Nat /\ r \in Nat
    BY <1>1, <2>2 DEF RuntimeRecords, CallRecords
  <2> HIDE DEF now
  <2>4. QED BY <2>1, <2>2, <2>3
<1>3. PICK status \in {"building", "starting"} : rt' = begun(status)
  BY DEF Begin
<1>4. PICK next : /\ call' = [others EXCEPT ![c] = next]
                  /\ \E ok \in BOOLEAN : \E at \in {"building", "launching"} :
                       next = [Free EXCEPT !.at = at, !.runtime = r, !.ok = ok]
  BY DEF Begin, Launch
<1>5. /\ next \in CallRecords /\ next.at \in {"building", "launching"}
      /\ next.runtime = r /\ next.known = {}
  BY <1>2, <1>4, FreeCall DEF CallRecords, Stages, Free
<1>6. PICK row : rt' = [rt EXCEPT ![r] = row]
                 /\ row = [rt[r] EXCEPT !.status = status, !.cancelled = FALSE,
                            !.raced = rt[r].raced \/ \E d \in Calls : Ending(d, r)]
  BY <1>1, <1>2, <1>3
<1> HIDE DEF begun, r
<1>7. /\ row \in RuntimeRecords /\ row.status = status /\ row.held = rt[r].held
      /\ row.revision = rt[r].revision /\ row.evidence = rt[r].evidence
  <2>1. rt[r] \in RuntimeRecords /\ status \in Statuses
    BY <1>1, <1>2 DEF Statuses, Live
  <2>2. QED BY <1>6, <2>1 DEF RuntimeRecords
<1>8. /\ rt' \in [Runtime -> RuntimeRecords] /\ rt'[r] = row
      /\ \A s \in Runtime : s # r => rt'[s] = rt[s]
  BY <1>1, <1>2, <1>6, <1>7
<1>9. RuntimesMove
  <2>1. RuntimeTypes'
    BY <1>1, <1>8 DEF RuntimeTypes
  <2>2. EvidenceIsLater'
    BY <1>1, <1>2, <1>7, <1>8 DEF EvidenceIsLater, IInv, RuntimesKeep
  <2>3. PlansFitTheirRevision'
    BY <1>2, <1>7, <1>8 DEF PlansFitTheirRevision, IsLive, IInv, RuntimesKeep
  <2>4. EndsStay
    BY <1>2, <1>8 DEF EndsStay
  <2>5. RuntimesPersist
    BY <1>1, <1>2, <1>7, <1>8 DEF RuntimesPersist, RuntimeRecords
  <2>6. HeldAreMade'
    BY <1>3, <1>7, <1>8 DEF HeldAreMade, IInv, RuntimesKeep
  <2>7. QED BY <2>1, <2>2, <2>3, <2>4, <2>5, <2>6 DEF RuntimesMove, RuntimesKeep
<1>10. \A s \in Runtime \ {r} : NoRevival(s)
  BY <1>8 DEF NoRevival, IsLive
<1>11. ASSUME NEW d \in Calls PROVE CallHolds(d)' /\ call'[d] \in CallRecords
  <2>1. CASE d = c
    <3>1. call'[c] = next
      BY <1>4 DEF IInv, CallTypes
    <3>2. CallHolds(c)'
      BY <1>2, <1>3, <1>5, <1>7, <1>8, <3>1 DEF CallHolds
    <3>3. QED BY <1>5, <2>1, <3>1, <3>2
  <2>2. CASE d # c
    <3> DEFINE gone == {r}
    <3>1. call[d] \in CallRecords /\ call'[d] = [call[d] EXCEPT !.known = call[d].known \ gone]
      BY <1>4, <2>2 DEF IInv, CallTypes
    <3>2. call'[d] \in CallRecords
      BY <3>1 DEF CallRecords
    <3>3. \A s \in call[d].known \ gone : NoRevival(s)
      BY <1>10, <3>1 DEF CallRecords
    <3>4. gone \in SUBSET Runtime
      BY <1>2
    <3> HIDE DEF gone
    <3>5. CallHolds(d)'
      BY <1>9, <3>1, <3>3, <3>4, CallKeeps
    <3>6. QED BY <3>2, <3>5
  <2>3. QED BY <2>1, <2>2
<1>12. CallTypes'
  <2>1. ASSUME NEW d \in Calls
        PROVE  [call[d] EXCEPT !.known = call[d].known \ {r}] \in CallRecords
    BY DEF IInv, CallTypes, CallRecords
  <2>2. others \in [Calls -> CallRecords]
    BY <2>1
  <2> HIDE DEF others
  <2>3. QED BY <1>4, <1>5, <2>2 DEF CallTypes
<1>13. QED BY <1>9, <1>11, <1>12 DEF IInv, RuntimesMove

\* a start that is refused, gives up, builds, launches, and sees a healthy preview
LEMMA GoingOnKeeps ==
  ASSUME IInv, NEW c \in Calls,
         \/ RefuseStart(c) \/ GiveUp(c) \/ Built(c) \/ Launched(c)
         \/ Healthy(c) \/ Unhealthy(c) \/ Withdrawn(c)
  PROVE  IInv' /\ EndsStay
<1> DEFINE r == call[c].runtime
<1>1. /\ call[c] \in CallRecords /\ CallHolds(c) /\ r \in Runtime /\ r \in Nat
      /\ rt[r].status # "none" /\ UNCHANGED revision
  BY DEF IInv, CallTypes, CallRecords, CallHolds, About, RefuseStart, GiveUp, Built,
         Launched, Healthy, Unhealthy, Withdrawn, Withdraw, Probe
<1>2. UNCHANGED rt => RuntimesMove /\ \A s \in Runtime : NoRevival(s)
  BY <1>1, RuntimesRest DEF IInv
<1>3. ASSUME NEW next, call' = [call EXCEPT ![c] = next], RuntimesMove,
             \A s \in Runtime : NoRevival(s),
             next.at \in Working, next.runtime = r, next \in CallRecords,
             next.known \subseteq call[c].known
      PROVE  IInv' /\ EndsStay
  <2> HIDE DEF r
  <2>1. next.at \in Working \/ (next.at = "stopping" /\ next.known = {})
    BY <1>3
  <2>2. next.runtime \in Runtime /\ rt[next.runtime].status # "none"
    BY <1>1, <1>3
  <2>3. QED BY <1>3, <2>1, <2>2, WorkingHolds
<1>4. ASSUME NEW to \in {"failed", "cancelled"}, Withdraw(c, to)
      PROVE  IInv' /\ EndsStay
  <2> DEFINE next == [call[c] EXCEPT !.at = "withdrawing", !.to = to,
                        !.checks = 0, !.ok = FALSE]
  <2>1. call' = [call EXCEPT ![c] = next] /\ UNCHANGED rt
    BY <1>4 DEF Withdraw, IInv, CallTypes
  <2>2. /\ next \in CallRecords /\ next.at \in Working /\ next.runtime = r
        /\ next.known = call[c].known
    BY <1>1 DEF CallRecords, Stages, Working
  <2> HIDE DEF next, r
  <2>3. QED BY <1>2, <1>3, <2>1, <2>2
<1>5. ASSUME NEW checks \in Nat, Probe(c, checks)
      PROVE  IInv' /\ EndsStay
  <2>1. PICK ok \in BOOLEAN :
          call' = [call EXCEPT ![c] = [call[c] EXCEPT !.at = "probing", !.ok = ok,
                                                      !.checks = checks]]
    BY <1>5 DEF Probe, IInv, CallTypes
  <2> DEFINE next == [call[c] EXCEPT !.at = "probing", !.ok = ok, !.checks = checks]
  <2>2. /\ next \in CallRecords /\ next.at \in Working /\ next.runtime = r
        /\ next.known = call[c].known
    BY <1>1 DEF CallRecords, Stages, Working
  <2>3. call' = [call EXCEPT ![c] = next] /\ UNCHANGED rt
    BY <1>5, <2>1 DEF Probe
  <2> HIDE DEF next, r
  <2>4. QED BY <1>2, <1>3, <2>2, <2>3
<1>6. CASE RefuseStart(c)
  BY <1>2, <1>6, CallEnds DEF RefuseStart
<1>7. CASE GiveUp(c)
  BY <1>4, <1>7 DEF GiveUp, Verdict
<1>8. CASE Launched(c)
  BY <1>5, <1>8 DEF Launched
<1>9. CASE Unhealthy(c)
  BY <1>1, <1>4, <1>5, <1>9 DEF Unhealthy, CallRecords
<1>10. CASE Healthy(c)
  <2>1. IF Allowed(rt[r].status, "running")
        THEN rt' = [rt EXCEPT ![r].status = "running"] ELSE UNCHANGED rt
    BY <1>10 DEF Healthy
  <2>2. End(c)
    BY <1>10 DEF Healthy
  <2> HIDE DEF r
  <2>3. RuntimesMove /\ \A s \in Runtime : NoRevival(s)
    BY <1>1, <2>1, AskedMoves DEF IInv
  <2>4. QED BY <2>2, <2>3, CallEnds
<1>11. CASE Withdrawn(c)
  <2>1. IF Allowed(rt[r].status, call[c].to)
        THEN rt' = [rt EXCEPT ![r].status = call[c].to] ELSE UNCHANGED rt
    BY <1>11 DEF Withdrawn
  <2>2. End(c)
    BY <1>11 DEF Withdrawn
  <2> HIDE DEF r
  <2>3. RuntimesMove /\ \A s \in Runtime : NoRevival(s)
    BY <1>1, <2>1, AskedMoves DEF IInv
  <2>4. QED BY <2>2, <2>3, CallEnds
<1>12. CASE Built(c)
  <2>1. CASE ~Allowed(rt[r].status, "starting")
    BY <1>2, <1>12, <2>1, CallEnds DEF Built
  <2>2. CASE Allowed(rt[r].status, "starting")
    <3>1. rt' = [rt EXCEPT ![r].status = "starting"] /\ Launch(c, r, call)
      BY <1>12, <2>2 DEF Built
    <3>2. PICK ok \in BOOLEAN :
            call' = [call EXCEPT ![c] = [Free EXCEPT !.at = "launching", !.runtime = r,
                                                     !.ok = ok]]
      BY <3>1 DEF Launch
    <3> DEFINE next == [Free EXCEPT !.at = "launching", !.runtime = r, !.ok = ok]
    <3>3. /\ next \in CallRecords /\ next.at \in Working /\ next.runtime = r
          /\ next.known = {}
      BY <1>1, FreeCall DEF CallRecords, Stages, Working, Free
    <3>4. call' = [call EXCEPT ![c] = next]
      BY <3>2
    <3> HIDE DEF next, r
    <3>5. RuntimesMove /\ \A s \in Runtime : NoRevival(s)
      BY <1>1, <2>2, <3>1, AskedMoves DEF IInv
    <3>6. QED BY <1>3, <3>3, <3>4, <3>5
  <2>3. QED BY <2>1, <2>2
<1>13. QED BY <1>6, <1>7, <1>8, <1>9, <1>10, <1>11, <1>12

\* stop, expire and cancel, on their own
LEMMA InterruptsKeep ==
  ASSUME IInv, NEW c \in Calls, NEW r \in Runtime,
         Stop(c, r) \/ Expire(c, r) \/ Cancel(c, r)
  PROVE  IInv' /\ EndsStay
<1>1. /\ call[c] = Free /\ IsLive(r) /\ UNCHANGED revision
      /\ rt \in [Runtime -> RuntimeRecords]
  BY DEF Stop, Expire, Cancel, IInv, CallHolds, RuntimesKeep, RuntimeTypes
<1>2. PICK at \in {"stopping", "expiring", "cancelling"} :
        call' = [call EXCEPT ![c] = [Free EXCEPT !.at = at, !.runtime = r]]
  <2>1. PICK at \in {"stopping", "expiring", "cancelling"} : Interrupt(c, r, at)
    BY DEF Stop, Expire, Cancel
  <2>2. QED BY <1>1, <2>1 DEF Interrupt, IInv, CallTypes
<1>3. \E flag \in BOOLEAN : \/ rt' = [rt EXCEPT ![r].raced = flag]
                            \/ rt' = [rt EXCEPT ![r].cancelled = flag]
  <2>1. CASE Cancel(c, r)
    BY <2>1 DEF Cancel
  <2>2. CASE Stop(c, r) \/ Expire(c, r)
    <3> DEFINE flag == rt[r].raced \/ rt[r].status # "running"
    <3>1. rt' = [rt EXCEPT ![r].raced = flag]
      BY <1>1, <2>2 DEF Stop, Expire, Undercut
    <3>2. QED BY <3>1
  <2>3. QED BY <2>1, <2>2
<1>4. RuntimesMove /\ \A s \in Runtime : NoRevival(s)
  BY <1>1, <1>3, FlagsMove DEF IInv
<1> DEFINE next == [Free EXCEPT !.at = at, !.runtime = r]
<1>5. /\ next \in CallRecords /\ next.at \in {"stopping", "expiring", "cancelling"}
      /\ next.runtime = r /\ next.known = {}
  <2>1. r \in Nat
    BY DEF Runtime
  <2>2. QED BY <2>1, FreeCall DEF CallRecords, Stages, Free
<1>6. call' = [call EXCEPT ![c] = next] /\ rt[r].status # "none"
  BY <1>1, <1>2 DEF IsLive, Live
<1> HIDE DEF next
<1>7. next.at \in Working \/ (next.at = "stopping" /\ next.known = {})
  BY <1>5 DEF Working
<1>8. QED BY <1>4, <1>5, <1>6, <1>7, WorkingHolds

LEMMA EndingKeeps ==
  ASSUME IInv, NEW c \in Calls, Expired(c) \/ Cancelled(c)
  PROVE  IInv' /\ EndsStay
<1> DEFINE r == call[c].runtime
<1>1. CallHolds(c) /\ r \in Runtime /\ UNCHANGED revision /\ End(c)
  BY DEF IInv, CallHolds, About, Expired, Cancelled
<1>2. CASE Expired(c)
  <2>1. IF Allowed(rt[r].status, "expired")
        THEN rt' = [rt EXCEPT ![r].status = "expired"] ELSE UNCHANGED rt
    BY <1>2 DEF Expired
  <2> HIDE DEF r
  <2>2. QED BY <1>1, <2>1, AskedMoves, CallEnds DEF IInv
<1>3. CASE Cancelled(c)
  <2>1. IF IsLive(r) THEN rt' = [rt EXCEPT ![r].status = "cancelled"] ELSE UNCHANGED rt
    BY <1>3 DEF Cancelled
  <2> HIDE DEF r
  <2>2. "cancelled" \in Statuses \ {"none"} /\ "cancelled" \notin Live
    BY DEF Statuses, Ended, Live
  <2>3. RuntimesMove /\ \A s \in Runtime : NoRevival(s)
    <3>1. CASE IsLive(r)
      BY <1>1, <2>1, <2>2, <3>1, StatusMoves DEF IInv, IsLive
    <3>2. CASE ~IsLive(r)
      BY <1>1, <2>1, <3>2, RuntimesRest DEF IInv
    <3>3. QED BY <3>1, <3>2
  <2>4. QED BY <1>1, <2>3, CallEnds
<1>4. QED BY <1>2, <1>3

\* a restart's pass goes on past what it stopped
LEMMA StoppedKeeps ==
  ASSUME IInv, NEW c \in Calls, Stopped(c) PROVE IInv' /\ EndsStay
<1> DEFINE r == call[c].runtime
           next == [call[c] EXCEPT !.at = "retiring", !.runtime = 0]
<1>1. /\ CallHolds(c) /\ call[c] \in CallRecords /\ call[c].at = "stopping"
      /\ r \in Runtime /\ UNCHANGED revision /\ rt \in [Runtime -> RuntimeRecords]
  BY DEF IInv, CallHolds, CallTypes, About, Stopped, RuntimesKeep, RuntimeTypes
<1>2. CASE ~Allowed(rt[r].status, "stopped")
  BY <1>1, <1>2, RuntimesRest, CallEnds DEF IInv, Stopped
<1>3. CASE Allowed(rt[r].status, "stopped")
  <2>1. /\ rt' = [rt EXCEPT ![r].status = "stopped"]
        /\ IF call[c].restart THEN call' = [call EXCEPT ![c] = next] ELSE End(c)
    BY <1>3 DEF Stopped, IInv, CallTypes
  <2>2. RuntimesMove /\ \A s \in Runtime : NoRevival(s)
    <3>1. rt[r].status \in Live \cup {"created"} /\ "stopped" \notin Live
          /\ "stopped" \in Statuses \ {"none"}
      BY <1>3, AllowedMoves DEF Live
    <3> HIDE DEF r
    <3>2. QED BY <1>1, <2>1, <3>1, StatusMoves DEF IInv
  <2>3. /\ next \in CallRecords /\ next.at = "retiring" /\ next.runtime = 0
        /\ next.visited = call[c].visited /\ next.target = call[c].target
        /\ next.known = call[c].known
    BY <1>1 DEF CallRecords, Stages
  <2>4. rt'[r].status = "stopped"
    BY <1>1, <2>1
  <2>5. CASE ~call[c].restart
    BY <2>1, <2>2, <2>5, CallEnds
  <2>6. CASE call[c].restart
    <3> HIDE DEF next
    <3>1. call'[c] = next /\ call' = [call EXCEPT ![c] = next]
      BY <2>1, <2>6 DEF IInv, CallTypes
    <3> DEFINE left == {s \in next.known : IsLive(s)'}
    <3>2. \A s \in left : /\ s \in Runtime /\ s \in {v \in call[c].known : IsLive(v)}
                         /\ rt[s].held /\ rt'[s].held /\ s # r
      BY <1>1, <2>2, <2>3, <2>4 DEF CallHolds, CallRecords, NoRevival, IsLive, Live
    <3>3. \A s \in left : s > next.visited /\ s # next.target /\ rt'[s].held
      BY <1>1, <2>3, <3>2 DEF CallHolds
    <3>4. 0 \notin Runtime
      BY DEF Runtime
    <3> HIDE DEF left
    <3>5. CallHolds(c)'
      BY <2>3, <3>1, <3>3, <3>4 DEF CallHolds, About, left
    <3>6. QED BY <2>2, <2>3, <3>1, <3>5, CallMoves
  <2>7. QED BY <2>5, <2>6
<1>4. QED BY <1>2, <1>3

LEMMA RestartKeeps ==
  ASSUME IInv, NEW c \in Calls, NEW r \in Runtime, Restart(c, r)
  PROVE  IInv' /\ EndsStay
<1> DEFINE next == [Free EXCEPT
                !.at = IF IsLive(r) THEN "asked" ELSE "retiring",
                !.runtime = IF IsLive(r) THEN r ELSE 0,
                !.restart = TRUE, !.target = r, !.known = LiveHeld]
<1>1. call' = [call EXCEPT ![c] = next] /\ UNCHANGED <<rt, revision>>
  BY DEF Restart
<1>2. RuntimesMove /\ \A s \in Runtime : NoRevival(s)
  BY <1>1, RuntimesRest DEF IInv
<1>3. /\ \A s \in LiveHeld : s \in Runtime /\ s \in Nat /\ s > 0 /\ rt[s].held /\ IsLive(s)
      /\ LiveHeld \subseteq Runtime /\ r \in Nat /\ 0 \notin Runtime
  BY DEF LiveHeld, Held, Runtime
<1>4. /\ next \in CallRecords /\ next.visited = 0 /\ next.target = r
      /\ next.known = LiveHeld
      /\ IF IsLive(r) THEN next.at = "asked" /\ next.runtime = r
                      ELSE next.at = "retiring" /\ next.runtime = 0
  BY <1>3, FreeCall DEF Free, CallRecords, Stages
<1> HIDE DEF next
<1>5. call'[c] = next
  BY <1>1 DEF IInv, CallTypes
<1>6. IsLive(r) => rt[r].status # "none"
  BY DEF IsLive, Live
<1>7. CallHolds(c)'
  BY <1>1, <1>3, <1>4, <1>5, <1>6 DEF CallHolds, About, IsLive
<1>8. QED BY <1>1, <1>2, <1>4, <1>7, CallMoves

LEMMA StopForRestartKeeps ==
  ASSUME IInv, NEW c \in Calls, StopForRestart(c) PROVE IInv' /\ EndsStay
<1> DEFINE r == call[c].runtime
           next == [call[c] EXCEPT !.at = "stopping"]
<1>1. /\ CallHolds(c) /\ call[c] \in CallRecords /\ call[c].at = "asked"
      /\ r \in Runtime /\ UNCHANGED revision /\ rt \in [Runtime -> RuntimeRecords]
  BY DEF IInv, CallHolds, CallTypes, About, StopForRestart, RuntimesKeep, RuntimeTypes
<1>2. CASE ~(rt[r].held /\ IsLive(r))
  BY <1>1, <1>2, RuntimesRest, CallEnds DEF IInv, StopForRestart
<1>3. CASE rt[r].held /\ IsLive(r)
  <2>1. Interrupt(c, r, "stopping") /\ rt' = Undercut(r)
    BY <1>3 DEF StopForRestart
  <2>2. call' = [call EXCEPT ![c] = next]
    <3>1. call' = [call EXCEPT ![c] = [call[c] EXCEPT !.at = "stopping", !.runtime = r]]
      BY <2>1 DEF Interrupt, IInv, CallTypes
    <3>2. next = [call[c] EXCEPT !.at = "stopping", !.runtime = r]
      BY <1>1 DEF CallRecords
    <3>3. QED BY <3>1, <3>2
  <2>3. RuntimesMove /\ \A s \in Runtime : NoRevival(s)
    <3> DEFINE flag == rt[r].raced \/ rt[r].status # "running"
    <3>1. rt' = [rt EXCEPT ![r].raced = flag] /\ flag \in BOOLEAN
      BY <1>1, <2>1 DEF Undercut
    <3> HIDE DEF flag, r
    <3>2. QED BY <1>1, <3>1, FlagsMove DEF IInv
  <2>4. /\ next \in CallRecords /\ next.at = "stopping" /\ next.runtime = r
        /\ next.visited = call[c].visited /\ next.target = call[c].target
        /\ next.known = call[c].known
    BY <1>1 DEF CallRecords, Stages
  <2> HIDE DEF next
  <2>5. call'[c] = next
    BY <2>2 DEF IInv, CallTypes
  <2> DEFINE left == {s \in next.known : IsLive(s)'}
  <2>6. \A s \in left : /\ s \in {v \in call[c].known : IsLive(v)}
                       /\ rt[s].held /\ rt'[s].held
    BY <1>1, <2>3, <2>4 DEF CallHolds, CallRecords, NoRevival
  <2>7. \A s \in left : s = next.runtime \/ (s > next.visited /\ s # next.target)
    BY <1>1, <2>4, <2>6 DEF CallHolds
  <2>8. rt'[next.runtime].status # "none"
    BY <1>1, <2>3, <2>4 DEF RuntimesMove, RuntimesPersist, CallHolds
  <2> HIDE DEF left, r
  <2>9. CallHolds(c)'
    BY <1>1, <2>4, <2>5, <2>6, <2>7, <2>8 DEF CallHolds, About, left
  <2>10. QED BY <2>2, <2>3, <2>4, <2>9, CallMoves
<1>4. QED BY <1>2, <1>3

\* the pass takes the first runtime that is left, and ends when none is
LEMMA RetireKeeps ==
  ASSUME IInv, NEW c \in Calls, Retire(c) PROVE IInv' /\ EndsStay
<1>1. /\ CallHolds(c) /\ call[c] \in CallRecords /\ call[c].at = "retiring"
      /\ UNCHANGED <<rt, revision>>
  BY DEF IInv, CallTypes, Retire
<1>2. RuntimesMove /\ \A s \in Runtime : NoRevival(s)
  BY <1>1, RuntimesRest DEF IInv
<1> DEFINE left == {s \in call[c].known : IsLive(s)}
<1>3. \A s \in left : /\ s \in OtherLive(c) /\ s \in Runtime /\ s \in Nat
                     /\ rt[s].held
  BY <1>1 DEF CallHolds, OtherLive, LiveHeld, Held, CallRecords, Runtime
<1>4. CASE OtherLive(c) = {}
  <2> DEFINE next == [call[c] EXCEPT !.at = "creating", !.target = 0, !.visited = 0]
  <2>1. call' = [call EXCEPT ![c] = next]
    BY <1>4 DEF Retire, IInv, CallTypes
  <2>2. /\ next \in CallRecords /\ next.at = "creating"
        /\ next.runtime = call[c].runtime /\ next.known = call[c].known
    BY <1>1 DEF CallRecords, Stages
  <2> HIDE DEF next
  <2>3. call'[c] = next
    BY <2>1 DEF IInv, CallTypes
  <2>4. left = {}
    BY <1>3, <1>4
  <2>5. CallHolds(c)'
    BY <1>1, <2>2, <2>3, <2>4 DEF CallHolds, About, IsLive
  <2>6. QED BY <1>2, <2>1, <2>2, <2>5, CallMoves
<1>5. CASE OtherLive(c) # {}
  <2>1. PICK r \in OtherLive(c) :
          /\ \A s \in OtherLive(c) : r <= s
          /\ call' = [call EXCEPT ![c].at = "asked", ![c].runtime = r, ![c].visited = r]
    BY <1>5 DEF Retire
  <2> DEFINE next == [call[c] EXCEPT !.at = "asked", !.runtime = r, !.visited = r]
  <2>2. call' = [call EXCEPT ![c] = next]
    BY <2>1 DEF IInv, CallTypes
  <2>3. r \in Runtime /\ r \in Nat /\ rt[r].status # "none"
    BY DEF OtherLive, LiveHeld, Held, Runtime, IsLive, Live
  <2>4. /\ next \in CallRecords /\ next.at = "asked" /\ next.runtime = r
        /\ next.visited = r /\ next.target = call[c].target
        /\ next.known = call[c].known
    BY <1>1, <2>3 DEF CallRecords, Stages
  <2> HIDE DEF next
  <2>5. call'[c] = next
    BY <2>2 DEF IInv, CallTypes
  <2>6. \A s \in left : s = r \/ (s > r /\ s # call[c].target)
    BY <1>1, <1>3, <2>1, <2>3 DEF CallHolds
  <2>7. CallHolds(c)'
    BY <1>1, <1>3, <2>3, <2>4, <2>5, <2>6 DEF CallHolds, IsLive
  <2>8. QED BY <1>2, <2>2, <2>4, <2>7, CallMoves
<1>6. QED BY <1>4, <1>5

\* what leaves the map, or is forgotten, does not live
LEMMA SurroundingsKeep ==
  ASSUME IInv, Cleanup \/ Edit PROVE IInv' /\ EndsStay
<1>1. /\ rt \in [Runtime -> RuntimeRecords] /\ revision \in Nat /\ UNCHANGED call
      /\ RuntimesKeep
  BY DEF IInv, RuntimesKeep, RuntimeTypes, Cleanup, Edit
<1>2. RuntimesMove /\ \A r \in Runtime : NoRevival(r)
  <2>1. CASE Edit
    <3>1. UNCHANGED rt /\ revision' = revision + 1
      BY <2>1 DEF Edit
    <3>2. \A r \in Runtime : PlainStep(r)
      BY <1>1, <3>1 DEF PlainStep
    <3>3. QED BY <1>1, <3>1, <3>2, PlainStepsKeep
  <2>2. CASE Cleanup
    <3>1. UNCHANGED revision
      BY <2>2 DEF Cleanup
    <3>2. ASSUME NEW r \in Runtime
          PROVE  /\ rt'[r] \in RuntimeRecords
                 /\ \/ rt'[r] = rt[r]
                    \/ /\ rt[r].status \notin Live /\ rt'[r].held = FALSE
                       /\ rt'[r].status = rt[r].status
                       /\ rt'[r].revision = rt[r].revision
                       /\ rt'[r].evidence = rt[r].evidence
                    \/ /\ rt[r].status \notin Live /\ rt'[r].held = FALSE
                       /\ rt'[r].status = "gone"
                       /\ rt'[r].revision = 0 /\ rt'[r].evidence = 0
      <4> DEFINE race == rt[r].raced \/ \E c \in Calls : Opened(c, r)
                 busy == [rt[r] EXCEPT !.held = FALSE, !.raced = race]
                 gone == [Unmade EXCEPT !.status = "gone", !.raced = rt[r].raced]
      <4>1. \/ rt'[r] = rt[r]
            \/ rt[r].status \notin Live /\ (rt'[r] = busy \/ rt'[r] = gone)
        BY <2>2 DEF Cleanup, Held, LiveHeld, IsLive
      <4>2. rt[r] \in RuntimeRecords /\ race \in BOOLEAN
        BY <1>1
      <4> HIDE DEF race
      <4>3. /\ busy \in RuntimeRecords /\ busy.held = FALSE /\ busy.status = rt[r].status
            /\ busy.revision = rt[r].revision /\ busy.evidence = rt[r].evidence
        BY <4>2 DEF RuntimeRecords
      <4>4. /\ gone \in RuntimeRecords /\ gone.held = FALSE /\ gone.status = "gone"
            /\ gone.revision = 0 /\ gone.evidence = 0
        BY <4>2 DEF RuntimeRecords, Unmade, Statuses
      <4> HIDE DEF busy, gone
      <4>5. QED BY <4>1, <4>2, <4>3, <4>4
    <3>3. \A r \in Runtime : /\ rt[r].evidence \in Nat /\ rt[r].revision \in Nat
                            /\ rt'[r].evidence \in Nat
      BY <1>1, <3>2 DEF RuntimeRecords
    <3>4. RuntimeTypes'
      <4>1. rt' = [r \in Runtime |-> rt'[r]]
        BY <2>2 DEF Cleanup
      <4>2. QED BY <1>1, <3>1, <3>2, <4>1 DEF RuntimeTypes
    <3>5. EvidenceIsLater'
      <4>1. ASSUME NEW r \in Runtime
            PROVE  rt'[r].revision <= rt'[r].evidence /\ rt'[r].evidence <= revision
        <5>1. /\ rt[r].revision <= rt[r].evidence /\ rt[r].evidence <= revision
              /\ 0 <= revision
          BY <1>1 DEF EvidenceIsLater, RuntimesKeep
        <5>2. CASE rt'[r] = rt[r]
          BY <5>1, <5>2
        <5>3. CASE rt'[r].revision = rt[r].revision /\ rt'[r].evidence = rt[r].evidence
          BY <5>1, <5>3
        <5>4. CASE rt'[r].revision = 0 /\ rt'[r].evidence = 0
          BY <5>1, <5>4
        <5>5. QED BY <3>2, <5>2, <5>3, <5>4
      <4>2. QED BY <3>1, <4>1 DEF EvidenceIsLater
    <3>6. HeldAreMade' /\ PlansFitTheirRevision'
      BY <1>1, <3>2 DEF HeldAreMade, PlansFitTheirRevision, RuntimesKeep, IsLive, Live
    <3>7. EndsStay
      BY <3>2 DEF EndsStay
    <3>8. RuntimesPersist
      <4>1. ASSUME NEW r \in Runtime, rt[r].status # "none"
            PROVE  rt'[r].status # "none" /\ rt'[r].evidence <= rt[r].evidence
        <5>1. rt[r].evidence \in Nat
          BY <3>3
        <5>2. CASE rt'[r] = rt[r]
          BY <4>1, <5>1, <5>2
        <5>3. CASE rt'[r].status = rt[r].status /\ rt'[r].evidence = rt[r].evidence
          BY <4>1, <5>1, <5>3
        <5>4. CASE rt'[r].status = "gone" /\ rt'[r].evidence = 0
          BY <5>1, <5>4
        <5>5. QED BY <3>2, <5>2, <5>3, <5>4
      <4>2. revision <= revision'
        BY <1>1, <3>1
      <4>3. QED BY <4>1, <4>2 DEF RuntimesPersist
    <3>9. \A r \in Runtime : NoRevival(r)
      BY <3>2 DEF NoRevival, IsLive, Live
    <3>10. QED BY <3>4, <3>5, <3>6, <3>7, <3>8, <3>9 DEF RuntimesMove, RuntimesKeep
  <2>3. QED BY <2>1, <2>2
<1>3. ASSUME NEW d \in Calls PROVE CallHolds(d)'
  <2> DEFINE gone == {}
  <2>1. call[d] \in CallRecords /\ call'[d] = call[d]
    BY <1>1 DEF IInv, CallTypes
  <2>2. call[d] = [call[d] EXCEPT !.known = call[d].known \ gone]
    BY <2>1 DEF CallRecords
  <2>3. \A r \in call[d].known \ gone : NoRevival(r)
    BY <1>2, <2>1 DEF CallRecords
  <2>4. gone \in SUBSET Runtime
    OBVIOUS
  <2> HIDE DEF gone
  <2>5. QED BY <1>2, <2>1, <2>2, <2>3, <2>4, CallKeeps
<1>4. QED BY <1>1, <1>2, <1>3 DEF IInv, CallTypes, RuntimesMove

-----------------------------------------------------------------------------
LEMMA InitInvariant == Init => IInv
<1> SUFFICES ASSUME Init PROVE IInv
  OBVIOUS
<1>1. /\ Unmade \in RuntimeRecords /\ Unmade.status = "none" /\ ~Unmade.held
      /\ Unmade.revision = 0 /\ Unmade.evidence = 0
  BY DEF Unmade, RuntimeRecords, Statuses
<1>2. RuntimesKeep
  BY <1>1 DEF Init, RuntimesKeep, RuntimeTypes, EvidenceIsLater, HeldAreMade,
             PlansFitTheirRevision, IsLive, Live
<1>3. CallTypes
  BY FreeCall DEF Init, CallTypes
<1>4. 0 \notin Runtime
  BY DEF Runtime
<1>5. \A c \in Calls : CallHolds(c)
  BY <1>4, FreeCall DEF Init, CallHolds, About
<1>6. QED BY <1>2, <1>3, <1>5 DEF IInv

LEMMA StepInvariant == IInv /\ [Next]_vars => IInv' /\ EndsStay
<1> SUFFICES ASSUME IInv, [Next]_vars PROVE IInv' /\ EndsStay
  OBVIOUS
<1>1. ASSUME NEW c \in Calls, Create(c) \/ Proceed(c) PROVE IInv' /\ EndsStay
  BY <1>1, CreationKeeps, InsertKeeps, BeginKeeps, GoingOnKeeps, EndingKeeps,
     StoppedKeeps, StopForRestartKeeps, RetireKeeps DEF Proceed
<1>2. ASSUME NEW c \in Calls, NEW r \in Runtime,
             Start(c, r) \/ Stop(c, r) \/ Cancel(c, r) \/ Expire(c, r) \/ Restart(c, r)
      PROVE  IInv' /\ EndsStay
  BY <1>2, StartKeeps, InterruptsKeep, RestartKeeps
<1>3. CASE Cleanup \/ Edit
  BY <1>3, SurroundingsKeep
<1>4. CASE UNCHANGED vars
  BY <1>4 DEF vars, IInv, RuntimesKeep, RuntimeTypes, EvidenceIsLater, HeldAreMade,
             PlansFitTheirRevision, CallTypes, CallHolds, IsLive, EndsStay
<1>5. QED BY <1>1, <1>2, <1>3, <1>4 DEF Next

(* A preview that is built, launched or shown was planned from the         *)
(* revision that it names, whatever is edited between the reads of create  *)
(* and start.                                                              *)
THEOREM PlansFit == Spec => []PlansFitTheirRevision
<1>1. IInv => PlansFitTheirRevision
  BY DEF IInv, RuntimesKeep
<1>2. IInv /\ [Next]_vars => IInv'
  BY StepInvariant
<1>3. QED BY <1>1, <1>2, InitInvariant, PTL DEF Spec

(* When a restart creates the new preview, none of those that lived when   *)
(* it began lives on, unless a call started it since: however many there   *)
(* are, and whoever stops, cancels or cleans up meanwhile.                 *)
THEOREM RestartsRetire == Spec => []RestartRetires
<1>1. IInv => RestartRetires
  BY DEF IInv, CallHolds, RestartRetires
<1>2. IInv /\ [Next]_vars => IInv'
  BY StepInvariant
<1>3. QED BY <1>1, <1>2, InitInvariant, PTL DEF Spec

(* No call that is underway takes a failed, an expired or a cancelled      *)
(* runtime out of its end.                                                 *)
THEOREM EndsAreFinal == Spec => EndedStaysEnded
<1> DEFINE Stay == \A r \in Runtime :
             rt[r].status \in {"failed", "expired", "cancelled"} =>
               rt'[r].status \in {rt[r].status, "gone"}
<1>1. IInv /\ [Next]_vars => IInv' /\ [Stay]_vars
  BY StepInvariant DEF EndsStay
<1>2. QED BY <1>1, InitInvariant, PTL DEF Spec, EndedStaysEnded

-----------------------------------------------------------------------------
(* The executor and the records: what holds of runtime r, with its record, *)
(* what is hosted and the calls given.                                     *)

Starts(k, r) ==
  k.runtime = r /\ k.at \in {"building", "launching", "probing", "withdrawing"}
Ends(k, r) == k.runtime = r /\ k.at \in {"stopping", "cancelling", "expiring"}

\* a call about r fits its record, and what is hosted
StageFits(k, r, row, hs) ==
  /\ k.at = "building" => row.status \in {"building", "cancelled"}
  /\ k.at \in {"launching", "probing"} => row.status \in {"starting", "cancelled"}
  /\ k.at = "withdrawing" =>
       /\ row.status \in {"building", "starting", "cancelled"}
       /\ k.to \in {"failed", "cancelled"} /\ r \notin hs
  /\ ~row.raced =>
       /\ k.at = "opened" => row.held
       /\ k.at = "cancelling" => row.cancelled
       /\ k.at \in {"stopping", "expiring"} =>
            row.status \in {"running", "stopped", "expired", "cancelled"}
       /\ Ends(k, r) => r \notin hs

\* what is to be hosted is, unless a call is ending it
MustHost(r, row, cs) ==
  /\ ~row.raced
  /\ \/ row.status = "running"
     \/ row.status = "starting" /\ \E c \in Calls :
          cs[c].runtime = r /\ cs[c].at = "probing" /\ cs[c].ok

RowFits(r, row, hs, cs) ==
  /\ row.status \in {"building", "starting"} => \E c \in Calls : Starts(cs[c], r)
  /\ r \in hs => row.status # "none"
  /\ r \in hs /\ ~row.raced =>
       row.held /\ row.status \in {"starting", "running"} /\ ~row.cancelled
  /\ ~row.raced /\ row.status \in Live => row.held
  /\ MustHost(r, row, cs) => r \in hs \/ \E c \in Calls : Ends(cs[c], r)

HostFits(r, row, hs, cs) ==
  /\ RowFits(r, row, hs, cs)
  /\ \A c \in Calls : cs[c].runtime = r => StageFits(cs[c], r, row, hs)
  /\ \A c, d \in Calls : Starts(cs[c], r) /\ Starts(cs[d], r) => c = d

HostInv == \A r \in Runtime : HostFits(r, rt[r], hosted, call)

-----------------------------------------------------------------------------
(* Steps at one runtime, from one record, set of hosted runtimes and calls *)
(* to the next.                                                            *)

Same(k, l) == l.runtime = k.runtime /\ l.at = k.at /\ l.ok = k.ok /\ l.to = k.to

\* a call that says nothing about r
Idle(k, r) == k.runtime = r => k.at \notin About \ {"asked"}

LEMMA Elsewhere ==
  ASSUME NEW r, NEW row, NEW hs, NEW hs2, NEW cs, NEW cs2, HostFits(r, row, hs, cs),
         r \in hs2 <=> r \in hs,
         \A d \in Calls : Same(cs[d], cs2[d]) \/ (Idle(cs[d], r) /\ Idle(cs2[d], r))
  PROVE  HostFits(r, row, hs2, cs2)
<1>1. \A d \in Calls : /\ Starts(cs[d], r) <=> Starts(cs2[d], r)
                       /\ Ends(cs[d], r) <=> Ends(cs2[d], r)
  BY DEF Same, Idle, Starts, Ends, About
<1>2. MustHost(r, row, cs2) => MustHost(r, row, cs)
  BY DEF MustHost, Same, Idle, About
<1>3. RowFits(r, row, hs2, cs2)
  BY <1>1, <1>2 DEF HostFits, RowFits
<1>4. ASSUME NEW d \in Calls, cs2[d].runtime = r PROVE StageFits(cs2[d], r, row, hs2)
  <2>1. CASE Same(cs[d], cs2[d])
    BY <1>4, <2>1 DEF HostFits, StageFits, Same, Ends
  <2>2. CASE Idle(cs2[d], r)
    BY <1>4, <2>2 DEF StageFits, Idle, Ends, About
  <2>3. QED BY <2>1, <2>2
<1>5. QED BY <1>1, <1>3, <1>4 DEF HostFits

\* call c moves, the others are where they were
LEMMA Here ==
  ASSUME NEW r, NEW row, NEW row2, NEW hs, NEW hs2, NEW cs, NEW cs2, NEW c \in Calls,
         HostFits(r, row, hs, cs), \A d \in Calls \ {c} : Same(cs[d], cs2[d]),
         Starts(cs2[c], r) =>
           Starts(cs[c], r) \/ row.status \notin {"building", "starting", "cancelled"},
         cs2[c].runtime = r => StageFits(cs2[c], r, row2, hs2),
         \A d \in Calls \ {c} : cs[d].runtime = r => StageFits(cs[d], r, row2, hs2),
         RowFits(r, row2, hs2, cs2)
  PROVE  HostFits(r, row2, hs2, cs2)
<1>1. \A d \in Calls \ {c} : /\ Starts(cs[d], r) <=> Starts(cs2[d], r)
                             /\ cs2[d].runtime = r => StageFits(cs2[d], r, row2, hs2)
  BY DEF Same, Starts, Ends, StageFits
<1>2. \A d \in Calls : Starts(cs[d], r) => row.status \in {"building", "starting", "cancelled"}
  BY DEF HostFits, StageFits, Starts
<1>3. \A d \in Calls \ {c} : ~(Starts(cs2[c], r) /\ Starts(cs2[d], r))
  BY <1>1, <1>2 DEF HostFits
<1>4. QED BY <1>1, <1>3 DEF HostFits

\* the record and the host stay
LEMMA HereRests ==
  ASSUME NEW r, NEW row, NEW hs, NEW cs, NEW cs2, NEW c \in Calls,
         HostFits(r, row, hs, cs), \A d \in Calls \ {c} : Same(cs[d], cs2[d]),
         ~Starts(cs2[c], r), ~Ends(cs2[c], r),
         cs2[c].runtime = r /\ cs2[c].at = "opened" => row.held,
         Starts(cs[c], r) => row.status \notin {"building", "starting"},
         Ends(cs[c], r) /\ ~row.raced => row.status \notin {"running", "starting"}
  PROVE  HostFits(r, row, hs, cs2)
<1>1. /\ row.status \in {"building", "starting"} => \E d \in Calls : Starts(cs2[d], r)
      /\ MustHost(r, row, cs2) => r \in hs \/ \E d \in Calls : Ends(cs2[d], r)
  <2>1. \A d \in Calls \ {c} : /\ Starts(cs[d], r) <=> Starts(cs2[d], r)
                               /\ Ends(cs[d], r) <=> Ends(cs2[d], r)
    BY DEF Same, Starts, Ends
  <2>2. row.status \in {"building", "starting"} => \E d \in Calls : Starts(cs2[d], r)
    BY <2>1 DEF HostFits, RowFits
  <2>3. MustHost(r, row, cs2) => MustHost(r, row, cs)
    BY DEF MustHost, Same, Starts
  <2>4. MustHost(r, row, cs2) => r \in hs \/ \E d \in Calls : Ends(cs2[d], r)
    BY <2>1, <2>3 DEF HostFits, RowFits, MustHost
  <2>5. QED BY <2>2, <2>4
<1>2. RowFits(r, row, hs, cs2)
  BY <1>1 DEF HostFits, RowFits
<1>3. cs2[c].runtime = r => StageFits(cs2[c], r, row, hs)
  BY DEF StageFits, Starts, Ends
<1>4. \A d \in Calls \ {c} : cs[d].runtime = r => StageFits(cs[d], r, row, hs)
  BY DEF HostFits
<1>5. QED BY <1>2, <1>3, <1>4, Here

\* a start goes on: it gives up, launches or probes
LEMMA HereGoesOn ==
  ASSUME NEW r, NEW row, NEW row2, NEW hs, NEW hs2, NEW cs, NEW cs2, NEW c \in Calls,
         HostFits(r, row, hs, cs), \A d \in Calls \ {c} : Same(cs[d], cs2[d]),
         Starts(cs[c], r), Starts(cs2[c], r), StageFits(cs2[c], r, row2, hs2),
         \/ row2 = row
         \/ /\ row.status = "building" /\ row2.status = "starting" /\ ~row.cancelled
            /\ ~row2.cancelled /\ row2.held = row.held /\ row2.raced = row.raced,
         r \in hs2 => r \in hs \/ (row.status = "building" /\ row2.status = "starting"),
         cs2[c].at = "probing" /\ cs2[c].ok => r \in hs2
  PROVE  HostFits(r, row2, hs2, cs2)
<1>1. \A d \in Calls \ {c} : ~Starts(cs[d], r) /\ ~Starts(cs2[d], r)
  BY DEF HostFits, Same, Starts
<1>2. \A d \in Calls \ {c} : cs[d].runtime = r => StageFits(cs[d], r, row2, hs2)
  BY <1>1 DEF HostFits, StageFits, Starts, Ends
<1>3. MustHost(r, row2, cs2) => r \in hs2
  <2>1. ~(row2.status = "running")
    BY DEF StageFits, Starts
  <2>2. \A d \in Calls : cs2[d].runtime = r /\ cs2[d].at = "probing" => d = c
    BY <1>1 DEF Starts
  <2>3. QED BY <2>1, <2>2 DEF MustHost
<1>4. RowFits(r, row2, hs2, cs2)
  BY <1>3 DEF HostFits, RowFits, StageFits, Starts, Live
<1>5. QED BY <1>2, <1>4, Here

\* a start ends: the preview runs, or is given up
LEMMA HereSettles ==
  ASSUME NEW r, NEW row, NEW row2, NEW hs, NEW cs, NEW cs2, NEW c \in Calls,
         HostFits(r, row, hs, cs), \A d \in Calls \ {c} : Same(cs[d], cs2[d]),
         Starts(cs[c], r), Idle(cs2[c], r), row.status \in {"building", "starting"},
         row2.held = row.held, row2.raced = row.raced, row2.cancelled = row.cancelled,
         \/ /\ row.status = "starting" /\ row2.status = "running"
            /\ cs[c].at = "probing" /\ cs[c].ok
         \/ row2.status \in {"failed", "cancelled"} /\ cs[c].at = "withdrawing"
  PROVE  HostFits(r, row2, hs, cs2)
<1>1. \A d \in Calls \ {c} : ~Starts(cs[d], r)
  BY DEF HostFits
<1>2. /\ cs2[c].runtime = r => StageFits(cs2[c], r, row2, hs)
      /\ ~Starts(cs2[c], r) /\ ~Ends(cs[c], r)
  BY DEF StageFits, Idle, Starts, Ends, About
<1>3. \A d \in Calls \ {c} : cs[d].runtime = r => StageFits(cs[d], r, row2, hs)
  BY <1>1 DEF HostFits, StageFits, Starts, Ends
<1>4. MustHost(r, row2, cs2) => r \in hs \/ \E d \in Calls : Ends(cs2[d], r)
  <2>1. MustHost(r, row2, cs2) => MustHost(r, row, cs)
    BY DEF MustHost, Starts
  <2>2. \A d \in Calls : Ends(cs[d], r) => Ends(cs2[d], r)
    BY <1>2 DEF Same, Ends
  <2>3. QED BY <2>1, <2>2 DEF HostFits, RowFits
<1>5. r \in hs /\ ~row2.raced => row2.status = "running"
  BY DEF HostFits, StageFits, Starts
<1>6. RowFits(r, row2, hs, cs2)
  BY <1>4, <1>5 DEF HostFits, RowFits, Live
<1>7. QED BY <1>2, <1>3, <1>6, Here

\* a start begins: what is ending the runtime is a race from then on
LEMMA HereBegins ==
  ASSUME NEW r, NEW row, NEW row2, NEW hs, NEW hs2, NEW cs, NEW cs2, NEW c \in Calls,
         HostFits(r, row, hs, cs), \A d \in Calls \ {c} : Same(cs[d], cs2[d]),
         cs[c].runtime = r, cs[c].at = "opened", row.status \in {"created", "stopped"},
         row2.held = row.held, ~row2.cancelled,
         ~row2.raced => ~row.raced /\ \A d \in Calls : ~Ends(cs[d], r),
         cs2[c].runtime = r,
         \/ cs2[c].at = "building" /\ row2.status = "building" /\ hs2 = hs
         \/ /\ cs2[c].at = "launching" /\ row2.status = "starting"
            /\ \A s : s \in hs2 => s \in hs \/ s = r
  PROVE  HostFits(r, row2, hs2, cs2)
<1>1. \A d \in Calls : ~Starts(cs[d], r)
  BY DEF HostFits, StageFits, Starts
<1>2. StageFits(cs2[c], r, row2, hs2) /\ Starts(cs2[c], r)
  BY DEF StageFits, Starts, Ends
<1>3. ASSUME NEW d \in Calls \ {c}, cs[d].runtime = r
      PROVE  StageFits(cs[d], r, row2, hs2)
  <2>1. /\ cs[d].at \notin {"building", "launching", "probing", "withdrawing"}
        /\ ~row.raced /\ cs[d].at = "opened" => row.held
        /\ ~row2.raced => ~row.raced /\ ~Ends(cs[d], r)
    BY <1>1, <1>3 DEF HostFits, StageFits, Starts
  <2>2. QED BY <1>3, <2>1 DEF StageFits, Ends
<1>4. ~MustHost(r, row2, cs2)
  <2>1. \A d \in Calls : ~(cs2[d].runtime = r /\ cs2[d].at = "probing")
    BY <1>1 DEF Starts, Same
  <2>2. QED BY <2>1 DEF MustHost
<1>5. ~row2.raced => row.held
  BY DEF HostFits, StageFits
<1>6. r \in hs => row2.raced
  BY DEF HostFits, RowFits
<1>7. RowFits(r, row2, hs2, cs2)
  BY <1>2, <1>4, <1>5, <1>6 DEF RowFits
<1>8. QED BY <1>1, <1>2, <1>3, <1>7, Here

\* the executor stops the preview; the status waits for its answer
LEMMA HereInterrupts ==
  ASSUME NEW r, NEW row, NEW row2, NEW hs, NEW hs2, NEW cs, NEW cs2, NEW c \in Calls,
         HostFits(r, row, hs, cs), \A d \in Calls \ {c} : Same(cs[d], cs2[d]),
         r \notin hs2, Idle(cs[c], r), row.status \in Live, row2.status = row.status,
         row2.held = row.held, ~row2.raced => ~row.raced, cs2[c].runtime = r,
         \/ /\ cs2[c].at \in {"stopping", "expiring"} /\ row2.cancelled = row.cancelled
            /\ ~row2.raced => row.status = "running"
         \/ cs2[c].at = "cancelling" /\ row2.cancelled
  PROVE  HostFits(r, row2, hs2, cs2)
<1>1. Ends(cs2[c], r) /\ ~Starts(cs2[c], r) /\ ~Starts(cs[c], r)
  BY DEF Ends, Starts, Idle, About
<1>2. StageFits(cs2[c], r, row2, hs2)
  BY <1>1 DEF StageFits
<1>3. \A d \in Calls \ {c} : cs[d].runtime = r => StageFits(cs[d], r, row2, hs2)
  BY DEF HostFits, StageFits, Ends
<1>4. row.status \in {"building", "starting"} => \E d \in Calls : Starts(cs2[d], r)
  BY <1>1 DEF HostFits, RowFits, Same, Starts
<1>5. RowFits(r, row2, hs2, cs2)
  BY <1>1, <1>4 DEF HostFits, RowFits
<1>6. QED BY <1>1, <1>2, <1>3, <1>5, Here

\* the runtime ends with the call that ended it
LEMMA HereEnds ==
  ASSUME NEW r, NEW row, NEW row2, NEW hs, NEW cs, NEW cs2, NEW c \in Calls,
         HostFits(r, row, hs, cs), \A d \in Calls \ {c} : Same(cs[d], cs2[d]),
         Ends(cs[c], r), Idle(cs2[c], r),
         row2.held = row.held, row2.raced = row.raced, row2.cancelled = row.cancelled,
         \/ row.status = "running" /\ row2.status \in {"stopped", "expired"}
         \/ row.status \in Live /\ row2.status = "cancelled"
  PROVE  HostFits(r, row2, hs, cs2)
<1>1. ~Starts(cs2[c], r) /\ (cs2[c].runtime = r => StageFits(cs2[c], r, row2, hs))
  BY DEF StageFits, Idle, Starts, Ends, About
<1>2. \A d \in Calls \ {c} : cs[d].runtime = r => StageFits(cs[d], r, row2, hs)
  <2>1. CASE row.status = "running"
    BY <2>1 DEF HostFits, StageFits
  <2>2. CASE row2.status = "cancelled"
    BY <2>2 DEF HostFits, StageFits
  <2>3. QED BY <2>1, <2>2
<1>3. ~row.raced => r \notin hs
  BY DEF HostFits, StageFits, Ends
<1>4. RowFits(r, row2, hs, cs2)
  BY <1>3 DEF HostFits, RowFits, MustHost, Live
<1>5. QED BY <1>1, <1>2, <1>4, Here

\* a runtime is created; nothing was about it
LEMMA HereCreates ==
  ASSUME NEW r, NEW row, NEW row2, NEW hs, NEW cs, NEW cs2, NEW c \in Calls,
         HostFits(r, row, hs, cs), \A d \in Calls \ {c} : Same(cs[d], cs2[d]),
         row.status = "none", \A d \in Calls : cs[d].runtime # r,
         row2.status = "created", row2.held,
         cs2[c].runtime = r => cs2[c].at = "opened"
  PROVE  HostFits(r, row2, hs, cs2)
<1>1. r \notin hs
  BY DEF HostFits, RowFits
<1>2. ~Starts(cs2[c], r) /\ (cs2[c].runtime = r => StageFits(cs2[c], r, row2, hs))
  BY DEF StageFits, Starts, Ends
<1>3. RowFits(r, row2, hs, cs2)
  BY <1>1 DEF RowFits, MustHost, Live
<1>4. QED BY <1>2, <1>3, Here

\* the record leaves the map
LEMMA HereCleans ==
  ASSUME NEW r, NEW row, NEW row2, NEW hs, NEW cs, HostFits(r, row, hs, cs),
         row.status \notin Live, ~row2.raced => ~row.raced,
         \/ /\ row2.status = row.status /\ row2.cancelled = row.cancelled
            /\ ~row2.raced => \A c \in Calls : ~(cs[c].at = "opened" /\ cs[c].runtime = r)
         \/ /\ row2.status = "gone" /\ row2.raced = row.raced
            /\ \A c \in Calls : cs[c].runtime # r
  PROVE  HostFits(r, row2, hs, cs)
<1>1. r \in hs => row2.raced
  BY DEF HostFits, RowFits, Live
<1>2. ASSUME NEW c \in Calls, cs[c].runtime = r PROVE StageFits(cs[c], r, row2, hs)
  <2>1. /\ row2.status = row.status /\ row2.cancelled = row.cancelled
        /\ ~row2.raced => cs[c].at # "opened"
    BY <1>2
  <2>2. StageFits(cs[c], r, row, hs)
    BY <1>2 DEF HostFits
  <2>3. QED BY <2>1, <2>2 DEF StageFits
<1>3. RowFits(r, row2, hs, cs)
  BY <1>1 DEF HostFits, RowFits, MustHost, Live
<1>4. QED BY <1>2, <1>3 DEF HostFits

-----------------------------------------------------------------------------
(* Steps of the workspace's previews.                                      *)

LEMMA CallAt ==
  ASSUME IInv, NEW c \in Calls
  PROVE  /\ call \in [Calls -> CallRecords] /\ call[c] \in CallRecords
         /\ rt \in [Runtime -> RuntimeRecords] /\ CallHolds(c)
         /\ call[c].at \in About => call[c].runtime \in Runtime
BY DEF IInv, CallTypes, CallHolds, RuntimesKeep, RuntimeTypes

LEMMA OneRow ==
  ASSUME HostInv, NEW c \in Calls, NEW r \in Runtime,
         \A s \in Runtime \ {r} : rt'[s] = rt[s] /\ (s \in hosted' <=> s \in hosted),
         \A d \in Calls \ {c} : Same(call[d], call'[d]),
         \A s \in Runtime \ {r} : Idle(call[c], s) /\ Idle(call'[c], s),
         HostFits(r, rt'[r], hosted', call')
  PROVE  HostInv'
<1>1. ASSUME NEW s \in Runtime PROVE HostFits(s, rt'[s], hosted', call')
  <2>1. CASE s = r
    BY <2>1
  <2>2. CASE s # r
    <3>1. /\ HostFits(s, rt[s], hosted, call) /\ rt'[s] = rt[s]
          /\ s \in hosted' <=> s \in hosted
      BY <2>2 DEF HostInv
    <3>2. \A d \in Calls :
            Same(call[d], call'[d]) \/ (Idle(call[d], s) /\ Idle(call'[d], s))
      BY <2>2
    <3>3. HostFits(s, rt[s], hosted', call')
      BY <3>1, <3>2, Elsewhere
    <3>4. QED BY <3>1, <3>3
  <2>3. QED BY <2>1, <2>2
<1>2. QED BY <1>1 DEF HostInv

\* a call moves that says nothing of a runtime before and after
LEMMA SilentHost ==
  ASSUME HostInv, UNCHANGED <<rt, hosted>>, NEW c \in Calls,
         \A d \in Calls \ {c} : Same(call[d], call'[d]),
         \A s \in Runtime : Idle(call[c], s) /\ Idle(call'[c], s)
  PROVE  HostInv'
<1>1. ASSUME NEW s \in Runtime PROVE HostFits(s, rt'[s], hosted', call')
  <2>1. HostFits(s, rt[s], hosted, call) /\ rt'[s] = rt[s] /\ hosted' = hosted
    BY DEF HostInv
  <2>2. \A d \in Calls :
          Same(call[d], call'[d]) \/ (Idle(call[d], s) /\ Idle(call'[d], s))
    OBVIOUS
  <2>3. HostFits(s, rt[s], hosted', call')
    BY <2>1, <2>2, Elsewhere
  <2>4. QED BY <2>1, <2>3
<1>2. QED BY <1>1 DEF HostInv

LEMMA Moved ==
  ASSUME IInv, NEW c \in Calls, NEW next, call' = [call EXCEPT ![c] = next]
  PROVE  call'[c] = next /\ \A d \in Calls \ {c} : Same(call[d], call'[d])
BY DEF IInv, CallTypes, Same

LEMMA FreeIsIdle == \A s : Idle(Free, s) /\ ~Starts(Free, s) /\ ~Ends(Free, s)
BY FreeCall DEF Idle, Starts, Ends, About

LEMMA CreationHost ==
  ASSUME IInv, HostInv, NEW c \in Calls,
         Create(c) \/ RefuseRestart(c) \/ Detect(c) \/ OutOfRuntimes(c)
  PROVE  HostInv'
<1>1. PICK next :
        /\ call' = [call EXCEPT ![c] = next]
        /\ \/ next = Free
           \/ next = [call[c] EXCEPT !.at = "detecting", !.revision = revision]
           \/ next = [call[c] EXCEPT !.at = "listing", !.evidence = revision]
  BY CallAt DEF Create, RefuseRestart, Detect, OutOfRuntimes, End
<1>2. /\ UNCHANGED <<rt, hosted>> /\ call[c] \in CallRecords
      /\ call[c].at \in {"free", "creating", "detecting", "listing"}
  BY CallAt DEF Create, RefuseRestart, Detect, OutOfRuntimes
<1>3. next = Free \/ next.at \in {"detecting", "listing"}
  BY <1>1, <1>2 DEF CallRecords
<1>4. \A s \in Runtime : Idle(call[c], s) /\ Idle(next, s)
  BY <1>2, <1>3, FreeIsIdle DEF Idle, About
<1>5. QED BY <1>1, <1>2, <1>4, Moved, SilentHost

LEMMA InsertHost ==
  ASSUME IInv, HostInv, NEW c \in Calls, Insert(c) PROVE HostInv'
<1> DEFINE row == [Unmade EXCEPT !.status = "created", !.revision = call[c].revision,
                     !.evidence = call[c].evidence, !.held = TRUE]
<1>1. PICK r \in Runtime :
        /\ rt[r].status = "none" /\ rt' = [rt EXCEPT ![r] = row]
        /\ IF call[c].restart
            THEN call' = [call EXCEPT ![c].at = "opened", ![c].runtime = r,
                                      ![c].revision = revision, ![c].evidence = 0]
            ELSE End(c)
  BY DEF Insert
<1>2. /\ rt \in [Runtime -> RuntimeRecords] /\ UNCHANGED hosted
      /\ call[c].at = "listing" /\ call[c] \in CallRecords
  BY CallAt DEF Insert
<1>3. row.status = "created" /\ row.held
  BY DEF Unmade
<1> HIDE DEF row
<1> DEFINE open == [call[c] EXCEPT !.at = "opened", !.runtime = r,
                      !.revision = revision, !.evidence = 0]
<1>4. PICK next : call' = [call EXCEPT ![c] = next] /\ (next = open \/ next = Free)
  BY <1>1, CallAt DEF End
<1>5. next = Free \/ (next.at = "opened" /\ next.runtime = r)
  BY <1>2, <1>4 DEF CallRecords
<1>6. \A s \in Runtime \ {r} : Idle(call[c], s) /\ Idle(next, s)
  BY <1>2, <1>5, FreeIsIdle DEF Idle, About
<1>7. \A d \in Calls : call[d].runtime # r
  BY <1>1 DEF IInv, CallHolds
<1>8. 0 \notin Runtime
  BY DEF Runtime
<1>9. next.runtime = r => next.at = "opened"
  BY <1>5, <1>8, FreeCall
<1>10. call'[c] = next /\ \A d \in Calls \ {c} : Same(call[d], call'[d])
  BY <1>4, Moved
<1>11. /\ HostFits(r, rt[r], hosted, call) /\ rt'[r] = row /\ hosted' = hosted
       /\ \A s \in Runtime \ {r} : rt'[s] = rt[s]
  BY <1>1, <1>2 DEF HostInv
<1>12. HostFits(r, row, hosted, call')
  BY <1>1, <1>3, <1>7, <1>9, <1>10, <1>11, HereCreates
<1>13. HostFits(r, rt'[r], hosted', call')
  BY <1>11, <1>12
<1>14. QED BY <1>6, <1>10, <1>11, <1>13, OneRow

\* the runtimes stay, and what the call says of runtime r is over or yet to be asked
LEMMA RestHost ==
  ASSUME IInv, HostInv, UNCHANGED <<rt, hosted>>, NEW c \in Calls, NEW r \in Runtime,
         NEW next, call' = [call EXCEPT ![c] = next],
         call[c].runtime = r \/ call[c].at = "free", next.runtime = r \/ next = Free,
         ~Starts(next, r), ~Ends(next, r),
         next.at = "opened" => rt[r].held,
         Starts(call[c], r) => rt[r].status \notin {"building", "starting"},
         Ends(call[c], r) /\ ~rt[r].raced => rt[r].status \notin {"running", "starting"}
  PROVE  HostInv'
<1>1. call'[c] = next /\ \A d \in Calls \ {c} : Same(call[d], call'[d])
  BY Moved
<1>2. \A s \in Runtime \ {r} : Idle(call[c], s) /\ Idle(next, s)
  BY FreeIsIdle DEF Idle, About
<1>3. HostFits(r, rt[r], hosted, call) /\ rt'[r] = rt[r] /\ hosted' = hosted
  BY DEF HostInv
<1>4. HostFits(r, rt[r], hosted, call')
  BY <1>1, <1>3, HereRests
<1>5. HostFits(r, rt'[r], hosted', call')
  BY <1>3, <1>4
<1>6. QED BY <1>1, <1>2, <1>5, OneRow

LEMMA StartHost ==
  ASSUME IInv, HostInv, NEW c \in Calls, NEW r \in Runtime, Start(c, r) PROVE HostInv'
<1> DEFINE next == [Free EXCEPT !.at = "opened", !.runtime = r, !.revision = revision]
<1>1. /\ call' = [call EXCEPT ![c] = next] /\ rt[r].held /\ UNCHANGED <<rt, hosted>>
      /\ call[c].at = "free"
  BY DEF Start
<1>2. next.at = "opened" /\ next.runtime = r
  BY DEF Free
<1> HIDE DEF next
<1>3. ~Starts(next, r) /\ ~Ends(next, r) /\ ~Starts(call[c], r) /\ ~Ends(call[c], r)
  BY <1>1, <1>2 DEF Starts, Ends
<1>4. QED BY <1>1, <1>2, <1>3, RestHost

LEMMA RestartHost ==
  ASSUME IInv, HostInv, NEW c \in Calls, NEW r \in Runtime, Restart(c, r) \/ Retire(c)
  PROVE  HostInv'
<1>1. /\ UNCHANGED <<rt, hosted>> /\ call[c].at \in {"free", "retiring"}
      /\ \E next : /\ call' = [call EXCEPT ![c] = next]
                   /\ next.at \in {"asked", "retiring", "creating"}
  <2>1. CASE Restart(c, r)
    <3> DEFINE next == [Free EXCEPT
                !.at = IF IsLive(r) THEN "asked" ELSE "retiring",
                !.runtime = IF IsLive(r) THEN r ELSE 0,
                !.restart = TRUE, !.target = r, !.known = LiveHeld]
    <3>1. call' = [call EXCEPT ![c] = next] /\ next.at \in {"asked", "retiring", "creating"}
      BY <2>1 DEF Restart, Free
    <3> HIDE DEF next
    <3>2. QED BY <2>1, <3>1 DEF Restart
  <2>2. CASE Retire(c) /\ OtherLive(c) = {}
    <3> DEFINE next == [call[c] EXCEPT !.at = "creating", !.target = 0, !.visited = 0]
    <3>1. call' = [call EXCEPT ![c] = next]
      BY <2>2, CallAt DEF Retire
    <3>2. next.at = "creating"
      BY CallAt DEF CallRecords
    <3> HIDE DEF next
    <3>3. QED BY <2>2, <3>1, <3>2 DEF Retire
  <2>3. CASE Retire(c) /\ OtherLive(c) # {}
    <3>1. PICK s \in OtherLive(c) :
            call' = [call EXCEPT ![c].at = "asked", ![c].runtime = s, ![c].visited = s]
      BY <2>3 DEF Retire
    <3> DEFINE next == [call[c] EXCEPT !.at = "asked", !.runtime = s, !.visited = s]
    <3>2. call' = [call EXCEPT ![c] = next]
      BY <3>1, CallAt
    <3>3. next.at = "asked"
      BY CallAt DEF CallRecords
    <3> HIDE DEF next
    <3>4. QED BY <2>3, <3>2, <3>3 DEF Retire
  <2>4. QED BY <2>1, <2>2, <2>3
<1>2. PICK next : /\ call' = [call EXCEPT ![c] = next]
                  /\ next.at \in {"asked", "retiring", "creating"}
  BY <1>1
<1>3. \A s \in Runtime : Idle(call[c], s) /\ Idle(next, s)
  BY <1>1, <1>2 DEF Idle, About
<1>4. QED BY <1>1, <1>2, <1>3, Moved, SilentHost

\* a call goes on about its runtime, from a record to the next
LEMMA RowMoves ==
  ASSUME IInv, HostInv, NEW c \in Calls, NEW r \in Runtime, NEW row, NEW next,
         call' = [call EXCEPT ![c] = next], rt' = [rt EXCEPT ![r] = row],
         \A s \in Runtime \ {r} : s \in hosted' <=> s \in hosted,
         \A s \in Runtime \ {r} : Idle(call[c], s), next.runtime = r \/ next.at \notin About,
         HostFits(r, row, hosted', call')
  PROVE  HostInv'
<1>1. call'[c] = next /\ \A d \in Calls \ {c} : Same(call[d], call'[d])
  BY Moved
<1>2. rt'[r] = row /\ \A s \in Runtime \ {r} : rt'[s] = rt[s]
  BY CallAt
<1>3. \A s \in Runtime \ {r} : Idle(next, s)
  BY DEF Idle
<1>4. HostFits(r, rt'[r], hosted', call')
  BY <1>2
<1>5. \A s \in Runtime \ {r} : Idle(call[c], s) /\ Idle(call'[c], s)
  BY <1>1, <1>3
<1>6. QED BY <1>1, <1>2, <1>4, <1>5, OneRow

LEMMA BeginHost ==
  ASSUME IInv, HostInv, NEW c \in Calls, Begin(c) PROVE HostInv'
<1> DEFINE r == call[c].runtime
           begun(status) == [rt EXCEPT ![r].status = status, ![r].cancelled = FALSE,
                               ![r].raced = @ \/ \E d \in Calls : Ending(d, r)]
           others == [d \in Calls |-> [call[d] EXCEPT !.known = @ \ {r}]]
<1>1. /\ call[c] \in CallRecords /\ call[c].at = "opened" /\ r \in Runtime
      /\ rt \in [Runtime -> RuntimeRecords] /\ rt[r].status \in {"created", "stopped"}
      /\ call \in [Calls -> CallRecords]
  BY CallAt DEF Begin, Startable, About
<1>2. \A d \in Calls : Ends(call[d], r) <=> Ending(d, r)
  BY DEF Ends, Ending
<1> DEFINE ready(at, ok) == [Free EXCEPT !.at = at, !.runtime = r, !.ok = ok]
<1>made. ASSUME NEW ok \in BOOLEAN, NEW at \in {"building", "launching"}
       PROVE  /\ ready(at, ok) \in CallRecords /\ ready(at, ok).runtime = r
              /\ ready(at, ok).at = at
  BY <1>1, CallAt, FreeCall DEF Free, CallRecords, Stages
<1>3. PICK status \in {"building", "starting"}, next \in CallRecords :
        /\ rt' = begun(status) /\ call' = [others EXCEPT ![c] = next]
        /\ next.runtime = r
        /\ \/ status = "building" /\ next.at = "building" /\ hosted' = hosted
           \/ /\ status = "starting" /\ next.at = "launching"
              /\ hosted' = hosted \/ hosted' = hosted \cup {r}
  <2>1. CASE HasBuild(r)
    <3>1. PICK ok \in BOOLEAN : call' = [others EXCEPT ![c] = ready("building", ok)]
      BY <2>1 DEF Begin
    <3>2. rt' = begun("building") /\ hosted' = hosted
      BY <2>1 DEF Begin
    <3> HIDE DEF ready, begun, others
    <3>3. QED BY <1>made, <3>1, <3>2
  <2>2. CASE ~HasBuild(r)
    <3>1. PICK ok \in BOOLEAN :
            /\ call' = [others EXCEPT ![c] = ready("launching", ok)]
            /\ hosted' = IF ok THEN hosted \cup {r} ELSE hosted
      BY <2>2 DEF Begin, Launch
    <3>2. rt' = begun("starting")
      BY <2>2 DEF Begin
    <3> HIDE DEF ready, begun, others
    <3>3. QED BY <1>made, <3>1, <3>2
  <2>3. QED BY <2>1, <2>2
<1> HIDE DEF ready
<1>4. /\ next.runtime = r
      /\ \/ status = "building" /\ next.at = "building" /\ hosted' = hosted
         \/ /\ status = "starting" /\ next.at = "launching"
            /\ \A s : s \in hosted' => s \in hosted \/ s = r
  BY <1>3
<1>5. \A s \in Runtime \ {r} : s \in hosted' <=> s \in hosted
  BY <1>3
<1> DEFINE race == rt[r].raced \/ \E d \in Calls : Ending(d, r)
           row == [rt[r] EXCEPT !.status = status, !.cancelled = FALSE, !.raced = race]
<1>6. rt' = [rt EXCEPT ![r] = row]
  BY <1>1, <1>3
<1>7. /\ row.status = status /\ ~row.cancelled /\ row.held = rt[r].held
      /\ row.raced = race
  BY <1>1 DEF RuntimeRecords
<1>8. ~row.raced => ~rt[r].raced /\ \A d \in Calls : ~Ends(call[d], r)
  BY <1>2, <1>7
<1> HIDE DEF row, race, begun
<1>9. call'[c] = next /\ \A d \in Calls \ {c} : Same(call[d], call'[d])
  <2>0. call'[c] = next
    <3>1. DOMAIN others = Calls
      OBVIOUS
    <3> HIDE DEF others
    <3>2. QED BY <1>3, <3>1
  <2>1. ASSUME NEW d \in Calls \ {c} PROVE Same(call[d], call'[d])
    <3>1. call'[d] = [call[d] EXCEPT !.known = @ \ {r}] /\ call[d] \in CallRecords
      BY <1>1, <1>3
    <3>2. QED BY <3>1 DEF Same, CallRecords
  <2>2. QED BY <2>0, <2>1
<1> HIDE DEF others
<1>10. HostFits(r, rt[r], hosted, call)
  BY <1>1 DEF HostInv
<1>11. HostFits(r, row, hosted', call')
  <2>1. \/ call'[c].at = "building" /\ row.status = "building" /\ hosted' = hosted
        \/ /\ call'[c].at = "launching" /\ row.status = "starting"
           /\ \A s : s \in hosted' => s \in hosted \/ s = r
    BY <1>4, <1>7, <1>9
  <2>2. call'[c].runtime = r /\ call[c].runtime = r
    BY <1>4, <1>9
  <2> HIDE DEF r
  <2>3. QED BY <1>1, <1>7, <1>8, <1>9, <1>10, <2>1, <2>2, HereBegins
<1>12. rt'[r] = row /\ \A s \in Runtime \ {r} : rt'[s] = rt[s]
  BY <1>1, <1>6
<1>13. \A s \in Runtime \ {r} : Idle(call[c], s) /\ Idle(call'[c], s)
  BY <1>4, <1>9 DEF Idle
<1> HIDE DEF r
<1>14. QED BY <1>1, <1>5, <1>9, <1>11, <1>12, <1>13, OneRow

\* a start that goes on; row is its record then
LEMMA GoesOnHost ==
  ASSUME IInv, HostInv, NEW c \in Calls, NEW r \in Runtime, NEW row, NEW next,
         Starts(call[c], r), Starts(next, r),
         call' = [call EXCEPT ![c] = next], rt' = [rt EXCEPT ![r] = row],
         \A s \in Runtime \ {r} : s \in hosted' <=> s \in hosted,
         StageFits(next, r, row, hosted'),
         \/ row = rt[r]
         \/ /\ rt[r].status = "building" /\ row.status = "starting" /\ ~rt[r].cancelled
            /\ ~row.cancelled /\ row.held = rt[r].held /\ row.raced = rt[r].raced,
         r \in hosted' => r \in hosted \/ (rt[r].status = "building" /\ row.status = "starting"),
         next.at = "probing" /\ next.ok => r \in hosted'
  PROVE  HostInv'
<1>1. call'[c] = next /\ \A d \in Calls \ {c} : Same(call[d], call'[d])
  BY Moved
<1>2. HostFits(r, rt[r], hosted, call)
  BY DEF HostInv
<1>3. HostFits(r, row, hosted', call')
  <2>1. /\ Starts(call'[c], r) /\ StageFits(call'[c], r, row, hosted')
        /\ call'[c].at = "probing" /\ call'[c].ok => r \in hosted'
    BY <1>1
  <2>2. QED BY <1>1, <1>2, <2>1, HereGoesOn
<1>4. next.runtime = r /\ \A s \in Runtime \ {r} : Idle(call[c], s)
  BY DEF Starts, Idle
<1>5. QED BY <1>3, <1>4, RowMoves

LEMMA StartFacts ==
  ASSUME IInv, HostInv, NEW c \in Calls,
         call[c].at \in {"building", "launching", "probing", "withdrawing"}
  PROVE  /\ call[c].runtime \in Runtime /\ Starts(call[c], call[c].runtime)
         /\ StageFits(call[c], call[c].runtime, rt[call[c].runtime], hosted)
<1>1. call[c].runtime \in Runtime
  BY CallAt DEF About
<1>2. QED BY <1>1 DEF Starts, HostInv, HostFits

LEMMA WithdrawHost ==
  ASSUME IInv, HostInv, NEW c \in Calls, NEW to \in {"failed", "cancelled"},
         call[c].at \in {"building", "launching", "probing"}, Withdraw(c, to)
  PROVE  HostInv'
<1> DEFINE r == call[c].runtime
           next == [call[c] EXCEPT !.at = "withdrawing", !.to = to,
                                   !.checks = 0, !.ok = FALSE]
<1>1. r \in Runtime /\ Starts(call[c], r) /\ StageFits(call[c], r, rt[r], hosted)
  BY StartFacts
<1>2. /\ call' = [call EXCEPT ![c] = next] /\ rt' = [rt EXCEPT ![r] = rt[r]]
      /\ hosted' = hosted \ {r}
  BY CallAt DEF Withdraw
<1>3. next.at = "withdrawing" /\ next.runtime = r /\ next.to = to
  BY CallAt DEF CallRecords
<1> HIDE DEF next, r
<1>4. Starts(next, r) /\ StageFits(next, r, rt[r], hosted')
  BY <1>1, <1>2, <1>3 DEF Starts, Ends, StageFits
<1>5. QED BY <1>1, <1>2, <1>3, <1>4, GoesOnHost

LEMMA ProbeHost ==
  ASSUME IInv, HostInv, NEW c \in Calls, NEW checks,
         call[c].at \in {"launching", "probing"}, Probe(c, checks)
  PROVE  HostInv'
<1> DEFINE r == call[c].runtime
<1>1. r \in Runtime /\ Starts(call[c], r) /\ StageFits(call[c], r, rt[r], hosted)
  BY StartFacts
<1>2. PICK ok \in BOOLEAN :
        /\ ok => r \in hosted
        /\ call' = [call EXCEPT ![c].at = "probing", ![c].ok = ok, ![c].checks = checks]
  BY DEF Probe
<1> DEFINE next == [call[c] EXCEPT !.at = "probing", !.ok = ok, !.checks = checks]
<1>3. /\ call' = [call EXCEPT ![c] = next] /\ rt' = [rt EXCEPT ![r] = rt[r]]
      /\ hosted' = hosted
  BY <1>2, CallAt DEF Probe
<1>4. next.at = "probing" /\ next.runtime = r /\ next.ok = ok
  BY CallAt DEF CallRecords
<1> HIDE DEF next, r
<1>5. Starts(next, r) /\ StageFits(next, r, rt[r], hosted')
  BY <1>1, <1>3, <1>4 DEF Starts, Ends, StageFits
<1>6. QED BY <1>1, <1>2, <1>3, <1>4, <1>5, GoesOnHost

LEMMA GoingOnHost ==
  ASSUME IInv, HostInv, NEW c \in Calls, GiveUp(c) \/ Launched(c) \/ Unhealthy(c)
  PROVE  HostInv'
<1>1. CASE GiveUp(c)
  <2>1. Verdict(c) \in {"failed", "cancelled"} /\ Withdraw(c, Verdict(c))
    BY <1>1 DEF GiveUp, Verdict
  <2>2. call[c].at \in {"building", "launching", "probing"}
    BY <1>1 DEF GiveUp
  <2>3. PICK to \in {"failed", "cancelled"} : Withdraw(c, to)
    BY <2>1
  <2>4. QED BY <2>2, <2>3, WithdrawHost
<1>2. CASE Launched(c)
  <2>1. call[c].at \in {"launching", "probing"} /\ Probe(c, 1)
    BY <1>2 DEF Launched
  <2>2. QED BY <2>1, ProbeHost
<1>3. CASE Unhealthy(c)
  <2>1. /\ call[c].at \in {"launching", "probing"}
        /\ call[c].at \in {"building", "launching", "probing"}
        /\ \/ \E to \in {"failed", "cancelled"} : Withdraw(c, to)
           \/ Probe(c, call[c].checks + 1)
    BY <1>3 DEF Unhealthy
  <2>2. PICK more : more = call[c].checks + 1
    OBVIOUS
  <2>3. CASE Probe(c, more)
    BY <2>1, <2>3, ProbeHost
  <2>4. QED BY <2>1, <2>2, <2>3, WithdrawHost
<1>4. QED BY <1>1, <1>2, <1>3

\* a call that is over, with what it leaves of its runtime
LEMMA OverHost ==
  ASSUME IInv, HostInv, NEW c \in Calls, NEW r \in Runtime, call[c].runtime = r,
         UNCHANGED <<rt, hosted>>, End(c),
         Starts(call[c], r) => rt[r].status \notin {"building", "starting"},
         Ends(call[c], r) /\ ~rt[r].raced => rt[r].status \notin {"running", "starting"}
  PROVE  HostInv'
<1>1. call' = [call EXCEPT ![c] = Free]
  BY DEF End
<1>2. ~Starts(Free, r) /\ ~Ends(Free, r) /\ Free.at # "opened"
  BY FreeIsIdle, FreeCall
<1>3. PICK next : next = Free
  OBVIOUS
<1>4. QED BY <1>1, <1>2, <1>3, RestHost

LEMMA RefuseStartHost ==
  ASSUME IInv, HostInv, NEW c \in Calls, RefuseStart(c) PROVE HostInv'
<1> DEFINE r == call[c].runtime
<1>1. /\ call[c].at = "opened" /\ r \in Runtime /\ End(c) /\ UNCHANGED <<rt, hosted>>
  BY CallAt DEF RefuseStart, About
<1>2. ~Starts(call[c], r) /\ ~Ends(call[c], r)
  BY <1>1 DEF Starts, Ends
<1>3. QED BY <1>1, <1>2, OverHost

LEMMA BuiltHost ==
  ASSUME IInv, HostInv, NEW c \in Calls, Built(c) PROVE HostInv'
<1> DEFINE r == call[c].runtime
<1>1. /\ r \in Runtime /\ Starts(call[c], r) /\ StageFits(call[c], r, rt[r], hosted)
      /\ call[c].at = "building" /\ ~rt[r].cancelled /\ rt[r] \in RuntimeRecords
      /\ rt[r].status \in {"building", "cancelled"} /\ ~Ends(call[c], r)
  BY StartFacts, CallAt DEF Built, Verdict, StageFits, Ends
<1>2. CASE ~Allowed(rt[r].status, "starting")
  <2>1. rt[r].status # "building" /\ rt[r].status # "starting"
    BY <1>1, <1>2 DEF Allowed
  <2>2. End(c) /\ UNCHANGED <<rt, hosted>>
    BY <1>2 DEF Built
  <2> HIDE DEF r
  <2>3. QED BY <1>1, <2>1, <2>2, OverHost DEF r
<1>3. CASE Allowed(rt[r].status, "starting")
  <2> DEFINE row == [rt[r] EXCEPT !.status = "starting"]
  <2>1. rt[r].status = "building"
    BY <1>1, <1>3 DEF Allowed
  <2>2. PICK ok \in BOOLEAN :
          /\ hosted' = IF ok THEN hosted \cup {r} ELSE hosted
          /\ call' = [call EXCEPT ![c] = [Free EXCEPT
                        !.at = "launching", !.runtime = r, !.ok = ok]]
    BY <1>3 DEF Built, Launch
  <2> DEFINE next == [Free EXCEPT !.at = "launching", !.runtime = r, !.ok = ok]
  <2>3. call' = [call EXCEPT ![c] = next] /\ next.at = "launching" /\ next.runtime = r
    BY <2>2 DEF Free
  <2>4. rt' = [rt EXCEPT ![r] = row]
    BY <1>3, CallAt DEF Built
  <2>5. /\ row.status = "starting" /\ ~row.cancelled /\ row.held = rt[r].held
        /\ row.raced = rt[r].raced
    BY <1>1 DEF RuntimeRecords
  <2>6. \A s \in Runtime \ {r} : s \in hosted' <=> s \in hosted
    BY <2>2
  <2> HIDE DEF next, row, r
  <2>7. Starts(next, r) /\ StageFits(next, r, row, hosted')
    BY <2>3, <2>5 DEF Starts, Ends, StageFits
  <2>8. QED BY <1>1, <2>1, <2>3, <2>4, <2>5, <2>6, <2>7, GoesOnHost
<1>4. QED BY <1>2, <1>3

\* a start or an ending that changes the status and is over
LEMMA SettlingHost ==
  ASSUME IInv, HostInv, NEW c \in Calls, Healthy(c) \/ Withdrawn(c) PROVE HostInv'
<1> DEFINE r == call[c].runtime
<1>1. /\ r \in Runtime /\ Starts(call[c], r) /\ StageFits(call[c], r, rt[r], hosted)
      /\ rt[r] \in RuntimeRecords /\ End(c) /\ UNCHANGED hosted
      /\ call[c].at \in {"probing", "withdrawing"} /\ ~Ends(call[c], r)
  BY StartFacts, CallAt DEF Healthy, Withdrawn, Ends
<1>2. PICK to : /\ IF Allowed(rt[r].status, to)
                     THEN rt' = [rt EXCEPT ![r].status = to] ELSE UNCHANGED rt
                /\ \/ to = "running" /\ call[c].at = "probing" /\ call[c].ok
                   \/ to \in {"failed", "cancelled"} /\ call[c].at = "withdrawing"
  BY <1>1 DEF Healthy, Withdrawn, StageFits
<1>3. CASE ~Allowed(rt[r].status, to)
  <2>1. rt[r].status \notin {"building", "starting"}
    BY <1>1, <1>2, <1>3 DEF Allowed, StageFits
  <2>2. UNCHANGED rt
    BY <1>2, <1>3
  <2> HIDE DEF r
  <2>3. QED BY <1>1, <2>1, <2>2, OverHost DEF r
<1>4. CASE Allowed(rt[r].status, to)
  <2> DEFINE row == [rt[r] EXCEPT !.status = to]
  <2>1. rt' = [rt EXCEPT ![r] = row] /\ call' = [call EXCEPT ![c] = Free]
    BY <1>1, <1>2, <1>4, CallAt DEF End
  <2>2. /\ row.status = to /\ row.held = rt[r].held /\ row.raced = rt[r].raced
        /\ row.cancelled = rt[r].cancelled
    BY <1>1 DEF RuntimeRecords
  <2>3. /\ rt[r].status \in {"building", "starting"}
        /\ to = "running" => rt[r].status = "starting"
    BY <1>1, <1>2, <1>4 DEF Allowed, StageFits
  <2>4. call'[c] = Free /\ \A d \in Calls \ {c} : Same(call[d], call'[d])
    BY <2>1, Moved
  <2> HIDE DEF row, r
  <2>5. Idle(call'[c], r) /\ HostFits(r, rt[r], hosted, call)
    BY <1>1, <2>4, FreeIsIdle DEF HostInv
  <2>6. HostFits(r, row, hosted, call')
    BY <1>1, <1>2, <2>2, <2>3, <2>4, <2>5, HereSettles
  <2>7. HostFits(r, row, hosted', call') /\ Free.at \notin About
    BY <1>1, <2>6, FreeCall DEF About
  <2>8. \A s \in Runtime \ {r} : Idle(call[c], s)
    BY DEF Idle, r
  <2>9. \A s \in Runtime \ {r} : s \in hosted' <=> s \in hosted
    BY <1>1
  <2>10. PICK next : next = Free
    OBVIOUS
  <2>11. QED BY <1>1, <2>1, <2>7, <2>8, <2>9, <2>10, RowMoves
<1>5. QED BY <1>3, <1>4

LEMMA InterruptHost ==
  ASSUME IInv, HostInv, NEW c \in Calls, NEW r \in Runtime, IsLive(r),
         call[c].at = "free" \/ (call[c].at = "asked" /\ call[c].runtime = r),
         NEW at, Interrupt(c, r, at),
         \/ at \in {"stopping", "expiring"} /\ rt' = Undercut(r)
         \/ at = "cancelling" /\ rt' = [rt EXCEPT ![r].cancelled = TRUE]
  PROVE  HostInv'
<1> DEFINE next == [call[c] EXCEPT !.at = at, !.runtime = r]
           race == rt[r].raced \/ rt[r].status # "running"
<1>1. call' = [call EXCEPT ![c] = next] /\ hosted' = hosted \ {r}
  BY CallAt DEF Interrupt
<1>2. next.at = at /\ next.runtime = r
  BY CallAt DEF CallRecords
<1> HIDE DEF next
<1>3. PICK row : /\ rt' = [rt EXCEPT ![r] = row]
                 /\ \/ at \in {"stopping", "expiring"} /\ row = [rt[r] EXCEPT !.raced = race]
                    \/ at = "cancelling" /\ row = [rt[r] EXCEPT !.cancelled = TRUE]
  BY CallAt DEF Undercut
<1>4. rt[r] \in RuntimeRecords /\ rt[r].status \in Live
  BY CallAt DEF IsLive
<1>5. /\ row.status = rt[r].status /\ row.held = rt[r].held
      /\ \/ /\ at \in {"stopping", "expiring"} /\ row.cancelled = rt[r].cancelled
            /\ row.raced = race
         \/ at = "cancelling" /\ row.cancelled /\ row.raced = rt[r].raced
  BY <1>3, <1>4 DEF RuntimeRecords
<1>6. \A s \in Runtime : Idle(call[c], s)
  BY DEF Idle, About
<1>7. call'[c] = next /\ \A d \in Calls \ {c} : Same(call[d], call'[d])
  BY <1>1, Moved
<1>8. HostFits(r, rt[r], hosted, call) /\ r \notin hosted'
  BY <1>1 DEF HostInv
<1>9. ~row.raced => ~rt[r].raced /\ (at # "cancelling" => rt[r].status = "running")
  BY <1>5
<1>10. HostFits(r, row, hosted', call')
  <2>1. \/ /\ call'[c].at \in {"stopping", "expiring"} /\ row.cancelled = rt[r].cancelled
           /\ ~row.raced => rt[r].status = "running"
        \/ call'[c].at = "cancelling" /\ row.cancelled
    BY <1>2, <1>5, <1>7, <1>9
  <2>2. QED BY <1>2, <1>4, <1>5, <1>6, <1>7, <1>8, <1>9, <2>1, HereInterrupts
<1>11. \A s \in Runtime \ {r} : s \in hosted' <=> s \in hosted
  BY <1>1
<1>12. QED BY <1>1, <1>2, <1>3, <1>6, <1>10, <1>11, RowMoves

LEMMA InterruptsHost ==
  ASSUME IInv, HostInv, NEW c \in Calls,
         \/ StopForRestart(c)
         \/ \E r \in Runtime : Stop(c, r) \/ Expire(c, r) \/ Cancel(c, r)
  PROVE  HostInv'
<1>1. CASE StopForRestart(c)
  <2> DEFINE r == call[c].runtime
  <2>1. call[c].at = "asked" /\ r \in Runtime
    BY <1>1, CallAt DEF StopForRestart, About
  <2>2. ~Starts(call[c], r) /\ ~Ends(call[c], r)
    BY <2>1 DEF Starts, Ends
  <2>3. CASE rt[r].held /\ IsLive(r)
    <3>1. Interrupt(c, r, "stopping") /\ rt' = Undercut(r) /\ call[c].runtime = r
      BY <1>1, <2>3 DEF StopForRestart
    <3> HIDE DEF r
    <3>2. QED BY <2>1, <2>3, <3>1, InterruptHost
  <2>4. CASE ~(rt[r].held /\ IsLive(r))
    <3>1. End(c) /\ UNCHANGED <<rt, hosted>>
      BY <1>1, <2>4 DEF StopForRestart
    <3> HIDE DEF r
    <3>2. QED BY <2>1, <2>2, <3>1, OverHost DEF r
  <2>5. QED BY <2>3, <2>4
<1>2. CASE \E r \in Runtime : Stop(c, r) \/ Expire(c, r) \/ Cancel(c, r)
  <2>1. PICK r \in Runtime : Stop(c, r) \/ Expire(c, r) \/ Cancel(c, r)
    BY <1>2
  <2>2. call[c].at = "free" /\ IsLive(r)
    BY <2>1 DEF Stop, Expire, Cancel
  <2>3. CASE Stop(c, r) \/ Expire(c, r)
    <3>1. PICK at \in {"stopping", "expiring"} : Interrupt(c, r, at) /\ rt' = Undercut(r)
      BY <2>3 DEF Stop, Expire
    <3>2. QED BY <2>2, <3>1, InterruptHost
  <2>4. CASE Cancel(c, r)
    <3>1. PICK at : at = "cancelling" /\ Interrupt(c, r, at)
                    /\ rt' = [rt EXCEPT ![r].cancelled = TRUE]
      BY <2>4 DEF Cancel
    <3>2. QED BY <2>2, <3>1, InterruptHost
  <2>5. QED BY <2>1, <2>3, <2>4
<1>3. QED BY <1>1, <1>2

\* the executor answered: the runtime ends, unless its status has moved
LEMMA EndingHost ==
  ASSUME IInv, HostInv, NEW c \in Calls, Stopped(c) \/ Expired(c) \/ Cancelled(c)
  PROVE  HostInv'
<1> DEFINE r == call[c].runtime
           on == [call[c] EXCEPT !.at = "retiring", !.runtime = 0]
<1>1. /\ r \in Runtime /\ call[c].at \in {"stopping", "expiring", "cancelling"}
      /\ rt[r] \in RuntimeRecords /\ Ends(call[c], r) /\ ~Starts(call[c], r)
      /\ UNCHANGED hosted
  BY CallAt DEF Stopped, Expired, Cancelled, About, Ends, Starts
<1>2. StageFits(call[c], r, rt[r], hosted)
  BY <1>1 DEF HostInv, HostFits
<1>3. \/ /\ UNCHANGED rt /\ End(c)
         /\ \/ rt[r].status # "running" /\ call[c].at \in {"stopping", "expiring"}
            \/ ~IsLive(r)
      \/ \E to \in {"stopped", "expired", "cancelled"} :
           /\ rt' = [rt EXCEPT ![r].status = to]
           /\ call' = [call EXCEPT ![c] = Free] \/ call' = [call EXCEPT ![c] = on]
           /\ \/ rt[r].status = "running" /\ to \in {"stopped", "expired"}
              \/ rt[r].status \in Live /\ to = "cancelled"
  <2>1. CASE Stopped(c)
    <3>1. CASE ~Allowed(rt[r].status, "stopped")
      <4>1. UNCHANGED rt /\ End(c) /\ call[c].at = "stopping"
        BY <2>1, <3>1 DEF Stopped
      <4>2. QED BY <3>1, <4>1 DEF Allowed
    <3>2. CASE Allowed(rt[r].status, "stopped")
      <4>1. rt[r].status = "running"
        BY <3>2 DEF Allowed
      <4>2. /\ rt' = [rt EXCEPT ![r].status = "stopped"]
            /\ call' = [call EXCEPT ![c] = Free] \/ call' = [call EXCEPT ![c] = on]
        BY <2>1, <3>2, CallAt DEF Stopped, End
      <4>3. QED BY <4>1, <4>2
    <3>3. QED BY <3>1, <3>2
  <2>2. CASE Expired(c)
    <3>1. /\ End(c) /\ call[c].at = "expiring" /\ call' = [call EXCEPT ![c] = Free]
          /\ Allowed(rt[r].status, "expired") <=> rt[r].status = "running"
      BY <2>2 DEF Expired, Allowed, End
    <3>2. IF Allowed(rt[r].status, "expired")
            THEN rt' = [rt EXCEPT ![r].status = "expired"] ELSE UNCHANGED rt
      BY <2>2 DEF Expired
    <3>3. QED BY <3>1, <3>2
  <2>3. CASE Cancelled(c)
    BY <2>3 DEF Cancelled, IsLive, End
  <2>4. QED BY <2>1, <2>2, <2>3
<1>4. CASE /\ UNCHANGED rt /\ End(c)
           /\ \/ rt[r].status # "running" /\ call[c].at \in {"stopping", "expiring"}
              \/ ~IsLive(r)
  <2>1. ~rt[r].raced => rt[r].status \notin {"running", "starting"}
    BY <1>2, <1>4 DEF StageFits, IsLive, Live
  <2> HIDE DEF r
  <2>2. QED BY <1>1, <1>4, <2>1, OverHost DEF r
<1>5. CASE \E to \in {"stopped", "expired", "cancelled"} :
           /\ rt' = [rt EXCEPT ![r].status = to]
           /\ call' = [call EXCEPT ![c] = Free] \/ call' = [call EXCEPT ![c] = on]
           /\ \/ rt[r].status = "running" /\ to \in {"stopped", "expired"}
              \/ rt[r].status \in Live /\ to = "cancelled"
  <2>1. PICK to \in {"stopped", "expired", "cancelled"} :
           /\ rt' = [rt EXCEPT ![r].status = to]
           /\ call' = [call EXCEPT ![c] = Free] \/ call' = [call EXCEPT ![c] = on]
           /\ \/ rt[r].status = "running" /\ to \in {"stopped", "expired"}
              \/ rt[r].status \in Live /\ to = "cancelled"
    BY <1>5
  <2> DEFINE row == [rt[r] EXCEPT !.status = to]
  <2>2. PICK next : call' = [call EXCEPT ![c] = next] /\ (next = Free \/ next = on)
    BY <2>1
  <2>3. next.at \in {"free", "retiring"}
    BY <2>2, CallAt, FreeCall DEF CallRecords
  <2>4. rt' = [rt EXCEPT ![r] = row]
    BY <2>1, CallAt
  <2>5. /\ row.status = to /\ row.held = rt[r].held /\ row.raced = rt[r].raced
        /\ row.cancelled = rt[r].cancelled
    BY <1>1 DEF RuntimeRecords
  <2>6. call'[c] = next /\ \A d \in Calls \ {c} : Same(call[d], call'[d])
    BY <2>2, Moved
  <2> HIDE DEF row, on
  <2>7. \A s \in Runtime \ {r} : Idle(call[c], s)
    BY DEF Idle
  <2> HIDE DEF r
  <2>8. Idle(call'[c], r) /\ HostFits(r, rt[r], hosted, call) /\ next.at \notin About
    BY <1>1, <2>3, <2>6 DEF HostInv, Idle, About
  <2>9. HostFits(r, row, hosted, call')
    BY <1>1, <2>1, <2>5, <2>6, <2>8, HereEnds
  <2>10. /\ HostFits(r, row, hosted', call')
         /\ \A s \in Runtime \ {r} : s \in hosted' <=> s \in hosted
    BY <1>1, <2>9
  <2>11. QED BY <1>1, <2>2, <2>4, <2>7, <2>8, <2>10, RowMoves
<1>6. QED BY <1>3, <1>4, <1>5

LEMMA CleanupHost ==
  ASSUME IInv, HostInv, Cleanup PROVE HostInv'
<1> SUFFICES ASSUME NEW r \in Runtime PROVE HostFits(r, rt'[r], hosted', call')
  BY DEF HostInv
<1>1. HostFits(r, rt[r], hosted, call) /\ hosted' = hosted /\ call' = call
  BY DEF HostInv, Cleanup
<1>2. rt[r] \in RuntimeRecords
  BY DEF IInv, RuntimesKeep, RuntimeTypes
<1> DEFINE race == rt[r].raced \/ \E c \in Calls : Opened(c, r)
           busy == [rt[r] EXCEPT !.held = FALSE, !.raced = race]
           gone == [Unmade EXCEPT !.status = "gone", !.raced = rt[r].raced]
<1>3. \/ rt'[r] = rt[r]
      \/ rt[r].status \notin Live /\ Busy(r) /\ rt'[r] = busy
      \/ rt[r].status \notin Live /\ ~Busy(r) /\ rt'[r] = gone
  BY DEF Cleanup, Held, LiveHeld, IsLive
<1>4. /\ busy.status = rt[r].status /\ busy.cancelled = rt[r].cancelled
      /\ busy.raced = race
  BY <1>2 DEF RuntimeRecords
<1>5. gone.status = "gone" /\ gone.raced = rt[r].raced
  BY DEF Unmade
<1> HIDE DEF busy, gone
<1>6. CASE rt'[r] = rt[r]
  BY <1>1, <1>6
<1>7. CASE rt[r].status \notin Live /\ Busy(r) /\ rt'[r] = busy
  <2>1. ~busy.raced => /\ ~rt[r].raced
                       /\ \A c \in Calls : ~(call[c].at = "opened" /\ call[c].runtime = r)
    BY <1>4 DEF Opened
  <2>2. HostFits(r, busy, hosted, call)
    BY <1>1, <1>4, <1>7, <2>1, HereCleans
  <2>3. QED BY <1>1, <1>7, <2>2
<1>8. CASE rt[r].status \notin Live /\ ~Busy(r) /\ rt'[r] = gone
  <2>1. \A c \in Calls : call[c].runtime # r
    BY <1>8 DEF Busy
  <2>2. HostFits(r, gone, hosted, call)
    BY <1>1, <1>5, <1>8, <2>1, HereCleans
  <2>3. QED BY <1>1, <1>8, <2>2
<1>9. QED BY <1>3, <1>6, <1>7, <1>8

LEMMA InitHost == Init => HostInv
<1> SUFFICES ASSUME Init, NEW r \in Runtime PROVE HostFits(r, rt[r], hosted, call)
  BY DEF HostInv
<1>1. /\ rt[r] = Unmade /\ hosted = {} /\ Unmade.status = "none"
      /\ \A c \in Calls : call[c] = Free
  BY DEF Init, Unmade
<1>2. \A c \in Calls : call[c].runtime # r
  BY <1>1, FreeCall DEF Runtime
<1>3. RowFits(r, rt[r], hosted, call)
  BY <1>1 DEF RowFits, MustHost, Live
<1>4. QED BY <1>2, <1>3 DEF HostFits, Starts

LEMMA StepHost == IInv /\ HostInv /\ [Next]_vars => HostInv'
<1> SUFFICES ASSUME IInv, HostInv, [Next]_vars PROVE HostInv'
  OBVIOUS
<1>1. ASSUME NEW c \in Calls, Create(c) \/ Proceed(c) PROVE HostInv'
  <2>1. CASE Create(c) \/ RefuseRestart(c) \/ Detect(c) \/ OutOfRuntimes(c)
    BY <2>1, CreationHost
  <2>2. CASE Insert(c) \/ Begin(c) \/ RefuseStart(c) \/ Built(c)
    BY <2>2, InsertHost, BeginHost, RefuseStartHost, BuiltHost
  <2>3. CASE GiveUp(c) \/ Launched(c) \/ Unhealthy(c) \/ Healthy(c) \/ Withdrawn(c)
    BY <2>3, GoingOnHost, SettlingHost
  <2>4. CASE Stopped(c) \/ Expired(c) \/ Cancelled(c) \/ StopForRestart(c)
    BY <2>4, EndingHost, InterruptsHost
  <2>5. CASE Retire(c)
    <3>1. 1 \in Runtime
      BY PreviewConstants DEF Runtime
    <3>2. QED BY <2>5, <3>1, RestartHost
  <2>6. QED BY <1>1, <2>1, <2>2, <2>3, <2>4, <2>5 DEF Proceed
<1>2. ASSUME NEW c \in Calls, NEW r \in Runtime,
             Start(c, r) \/ Stop(c, r) \/ Cancel(c, r) \/ Expire(c, r) \/ Restart(c, r)
      PROVE  HostInv'
  BY <1>2, StartHost, InterruptsHost, RestartHost
<1>3. CASE Cleanup
  BY <1>3, CleanupHost
<1>4. CASE Edit \/ UNCHANGED vars
  <2>1. UNCHANGED <<rt, hosted, call>>
    BY <1>4 DEF Edit, vars
  <2>2. QED BY <2>1 DEF HostInv
<1>5. QED BY <1>1, <1>2, <1>3, <1>4 DEF Next

(* Whatever builds, launches and probes are underway when runtimes are     *)
(* stopped, cancelled, expire and are cleaned up, once the calls about a   *)
(* runtime are over the executor hosts it exactly when it is on the map as *)
(* running, unless one of the races named happened to it.                  *)
THEOREM QuietRuntimesMatch == Spec => []QuietRuntimesMatchTheExecutor
<1>1. HostInv => QuietRuntimesMatchTheExecutor
  <2> SUFFICES ASSUME HostInv, NEW r \in Runtime, ~Busy(r), ~rt[r].raced
               PROVE  /\ r \in hosted <=> rt[r].held /\ rt[r].status = "running"
                      /\ rt[r].status \notin {"building", "starting"}
    BY DEF QuietRuntimesMatchTheExecutor
  <2>1. \A c \in Calls : ~Starts(call[c], r) /\ ~Ends(call[c], r)
    BY DEF Busy, Starts, Ends
  <2>2. RowFits(r, rt[r], hosted, call)
    BY DEF HostInv, HostFits
  <2>3. QED BY <2>1, <2>2 DEF RowFits, MustHost
<1>2. IInv /\ [Next]_vars => IInv'
  BY StepInvariant
<1>3. QED BY <1>1, <1>2, InitInvariant, InitHost, StepHost, PTL DEF Spec

=============================================================================
