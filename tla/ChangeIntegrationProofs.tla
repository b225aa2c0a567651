------------------------- MODULE ChangeIntegrationProofs -------------------------
(***************************************************************************)
(* For any change sets, integrations and trees: two integrations run at    *)
(* once only when a lease expired under one of them; what one call has     *)
(* integrated no other integrates again, and its record says what its sets *)
(* say; and a compensation gives back the files of its own call only.      *)
(*                                                                         *)
(* The lease alone says nothing of calls that go on after it is gone, so   *)
(* LeaseInv ties it to the stages: a call that runs and never lost the     *)
(* lease is the one that holds it.  WorkInv ties the three tables to the   *)
(* stages: which records a call has settled, which sets it has closed, and *)
(* what its snapshot still shows of the tree.                              *)
(*                                                                         *)
(* The second part is about the call that integrate makes of source        *)
(* storage for each set, step by step: SourceRepository.                   *)
(***************************************************************************)
EXTENDS ChangeIntegration, SourceRepository, WellFoundedInduction, TLAPS

RunTyped == run \in [Integrations -> Calls]

LeaseFollowsCalls ==
    \A i \in Integrations : run[i].stage \in Holding /\ i \notin lapsed => lease = i

LeaseInv == RunTyped /\ LeaseFollowsCalls

LEMMA LeaseInit == Init => LeaseInv
  <1> SUFFICES ASSUME Init PROVE LeaseInv
    OBVIOUS
  <1>1. NoSnapshot \in Tree
    BY DEF NoSnapshot, Tree
  <1>2. RunTyped
    BY <1>1 DEF Init, RunTyped, Calls, Stages
  <1>3. LeaseFollowsCalls
    BY DEF Init, LeaseFollowsCalls, Holding
  <1> QED BY <1>2, <1>3 DEF LeaseInv

\* A step that moves a running call to another stage, and leaves the lease, the
\* other calls and the list of lost leases alone.
LEMMA StageStep ==
    ASSUME LeaseInv,
           NEW i \in Integrations, run[i].stage \in Holding,
           NEW next \in Calls,
           run' = [run EXCEPT ![i] = next],
           lease' = lease, lapsed' = lapsed
    PROVE  LeaseInv'
  <1>1. RunTyped'
    BY DEF LeaseInv, RunTyped
  <1>2. LeaseFollowsCalls'
    <2> SUFFICES ASSUME NEW j \in Integrations,
                        run'[j].stage \in Holding, j \notin lapsed
                 PROVE  lease = j
      BY DEF LeaseFollowsCalls, Holding
    <2>1. run[j].stage \in Holding
      BY DEF LeaseInv, RunTyped
    <2> QED BY <2>1 DEF LeaseInv, LeaseFollowsCalls
  <1> QED BY <1>1, <1>2 DEF LeaseInv

\* The same for a step that only names the next stage.
LEMMA GotoStep ==
    ASSUME LeaseInv,
           NEW i \in Integrations, run[i].stage \in Holding,
           NEW stage \in Stages, Goto(i, stage),
           lease' = lease, lapsed' = lapsed
    PROVE  LeaseInv'
  <1> DEFINE next == [run[i] EXCEPT !.stage = stage]
  <1>1. next \in Calls
    BY DEF LeaseInv, RunTyped, Calls
  <1>2. run' = [run EXCEPT ![i] = next]
    BY DEF Goto
  <1> HIDE DEF next
  <1> QED BY <1>1, <1>2, StageStep

LEMMA StagesOfTheCode ==
    /\ Holding \subseteq Stages
    /\ "locked" \in Holding /\ "checked" \in Holding /\ "prepared" \in Holding
    /\ "written" \in Holding /\ "failing" \in Holding /\ "verified" \in Holding
    /\ "finished" \in Holding /\ "releasing" \in Holding /\ "throwing" \in Holding
  BY DEF Stages, Holding

\* The tree is restored, or the reverse: neither moves a call.
LEMMA CallsUntouched ==
    ASSUME LeaseInv, run' = run, lease' = lease, lapsed' = lapsed
    PROVE  LeaseInv'
  BY DEF LeaseInv, RunTyped, LeaseFollowsCalls

\* The lease goes to a call that was idle, while no other call that kept its lease
\* can be running.
LEMMA AcquireStep ==
    ASSUME LeaseInv,
           NEW i \in Integrations, NEW chosen \in SUBSET ChangeSets, Acquire(i, chosen)
    PROVE  LeaseInv'
  <1> USE DEF Acquire
  <1>1. RunTyped'
    BY StagesOfTheCode DEF LeaseInv, RunTyped, Calls
  <1>2. LeaseFollowsCalls'
    <2> SUFFICES ASSUME NEW j \in Integrations,
                        run'[j].stage \in Holding, j \notin lapsed
                 PROVE  j = i
      BY DEF LeaseFollowsCalls, Holding
    <2>1. CASE j # i
      <3>1. run[j].stage \in Holding
        BY <2>1 DEF LeaseInv, RunTyped
      <3>2. lease = j
        BY <3>1 DEF LeaseInv, LeaseFollowsCalls
      <3> QED BY <3>2, IdsAssumption
    <2> QED BY <2>1
  <1> QED BY <1>1, <1>2 DEF LeaseInv

LEMMA EndedIsTyped ==
    ASSUME LeaseInv, NEW i \in Integrations, NEW stage \in Stages
    PROVE  Ended(i, stage) \in Calls /\ Ended(i, stage).stage = stage
  <1>1. NoSnapshot \in Tree
    BY DEF NoSnapshot, Tree
  <1>2. run[i] \in Calls
    BY DEF LeaseInv, RunTyped
  <1> QED BY <1>1, <1>2 DEF Ended, Calls

LEMMA ReleaseStep ==
    ASSUME LeaseInv, NEW i \in Integrations, Release(i)
    PROVE  LeaseInv'
  <1> DEFINE stage == IF run[i].stage = "throwing" THEN "thrown" ELSE "done"
             next == Ended(i, stage)
  <1>1. stage \in Stages /\ stage \notin Holding
    BY DEF Stages, Holding
  <1>2. next \in Calls /\ next.stage = stage
    BY <1>1, EndedIsTyped
  <1>3. run' = [run EXCEPT ![i] = next] /\ lapsed' = lapsed
    BY DEF Release
  <1> HIDE DEF stage, next
  <1>4. RunTyped'
    BY <1>2, <1>3 DEF LeaseInv, RunTyped
  <1>5. LeaseFollowsCalls'
    <2> SUFFICES ASSUME NEW j \in Integrations,
                        run'[j].stage \in Holding, j \notin lapsed
                 PROVE  lease' = j
      BY <1>3 DEF LeaseFollowsCalls, Holding
    <2>1. j # i
      BY <1>1, <1>2, <1>3 DEF LeaseInv, RunTyped
    <2>2. lease = j
      BY <2>1, <1>3 DEF LeaseInv, RunTyped, LeaseFollowsCalls
    <2> QED BY <2>1, <2>2 DEF Release
  <1> QED BY <1>4, <1>5 DEF LeaseInv

LEMMA ExpiryStep == ASSUME LeaseInv, LeaseExpires PROVE LeaseInv'
  <1>1. RunTyped'
    BY DEF LeaseExpires, LeaseInv, RunTyped
  <1>2. LeaseFollowsCalls'
    BY DEF LeaseExpires, LeaseInv, LeaseFollowsCalls
  <1> QED BY <1>1, <1>2 DEF LeaseInv

LEMMA CrashStep == ASSUME LeaseInv, Crash PROVE LeaseInv'
  <1> DEFINE base(i) == IF i \in Running THEN Ended(i, "dead") ELSE run[i]
  <1>1. "dead" \in Stages /\ "dead" \notin Holding
    BY DEF Stages, Holding
  <1>2. \A i \in Integrations : base(i) \in Calls /\ base(i).stage \notin Holding
    BY <1>1, EndedIsTyped DEF LeaseInv, RunTyped, Running
  <1>3. run' = [i \in Integrations |-> [base(i) EXCEPT !.snapshot = NoSnapshot]]
    BY DEF Crash
  <1> HIDE DEF base
  <1>4. NoSnapshot \in Tree
    BY DEF NoSnapshot, Tree
  <1>5. \A i \in Integrations : run'[i] \in Calls /\ run'[i].stage \notin Holding
    BY <1>2, <1>3, <1>4 DEF Calls
  <1>6. RunTyped'
    BY <1>3, <1>5 DEF RunTyped
  <1>7. LeaseFollowsCalls'
    BY <1>5 DEF LeaseFollowsCalls, Holding
  <1> QED BY <1>6, <1>7 DEF LeaseInv

LEMMA PrepareStep ==
    ASSUME LeaseInv, tree \in Tree, NEW i \in Integrations, Prepare(i)
    PROVE  LeaseInv'
  <1> DEFINE next == [run[i] EXCEPT !.stage = "prepared", !.snapshot = tree]
  <1>1. next \in Calls
    BY StagesOfTheCode DEF LeaseInv, RunTyped, Calls
  <1>2. /\ run' = [run EXCEPT ![i] = next]
        /\ lease' = lease /\ lapsed' = lapsed
        /\ run[i].stage \in Holding
    BY StagesOfTheCode DEF Prepare
  <1> HIDE DEF next
  <1> QED BY <1>1, <1>2, StageStep

LEMMA MarkStep ==
    ASSUME LeaseInv, NEW i \in Integrations, NEW c \in ChangeSets, Mark(i, c)
    PROVE  LeaseInv'
  <1> DEFINE stage == IF run[i].marked \cup {c} = run[i].chosen
                      THEN "releasing" ELSE "finished"
             next == [run[i] EXCEPT !.marked = @ \cup {c}, !.stage = stage]
  <1>1. stage \in Stages
    BY StagesOfTheCode
  <1>2. run' = [run EXCEPT ![i] = next]
    BY DEF Mark, LeaseInv, RunTyped
  <1>3. lease' = lease /\ lapsed' = lapsed /\ run[i].stage \in Holding
    BY StagesOfTheCode DEF Mark
  <1> HIDE DEF stage
  <1>4. next \in Calls
    BY <1>1 DEF LeaseInv, RunTyped, Calls
  <1> HIDE DEF next
  <1> QED BY <1>2, <1>3, <1>4, StageStep

\* The steps of integrate that only name the next stage.
LEMMA WorkStep ==
    ASSUME LeaseInv, NEW i \in Integrations,
           \/ Check(i) \/ RefuseSamePath(i) \/ Apply(i) \/ ReadBack(i)
           \/ Compensate(i) \/ Finish(i) \/ VerificationThrows(i)
    PROVE  LeaseInv'
  <1>1. \E stage \in Holding : Goto(i, stage)
    BY StagesOfTheCode
       DEF Check, RefuseSamePath, Apply, ReadBack, Compensate, Finish, VerificationThrows
  <1>2. lease' = lease /\ lapsed' = lapsed
    BY DEF Check, RefuseSamePath, Apply, ReadBack, Compensate, Finish, VerificationThrows
  <1>3. run[i].stage \in Holding
    BY StagesOfTheCode
       DEF Check, RefuseSamePath, Apply, ReadBack, Compensate, Finish, VerificationThrows
  <1> QED BY <1>1, <1>2, <1>3, GotoStep, StagesOfTheCode

\* Drafts, rollbacks, recoveries and edits move no call of integrate.
LEMMA AsideStep ==
    ASSUME LeaseInv,
           \/ \E c \in ChangeSets : Draft(c)
           \/ \E i \in Integrations : Rollback(i)
           \/ Recover
           \/ \E edit \in Edits : Edit(edit[1], edit[2])
    PROVE  LeaseInv'
  <1>1. run' = run /\ lease' = lease /\ lapsed' = lapsed
    BY DEF Draft, Rollback, AgreeToRollback, RollBack, Recover, ListInterrupted,
           Interrupt, Edit
  <1> QED BY <1>1, CallsUntouched

-----------------------------------------------------------------------------
\* Types

LEMMA AfterIsTyped ==
    ASSUME tree \in Tree, NEW files \in SUBSET Files
    PROVE  After(files) \in Tree
  <1>1. ASSUME NEW p \in Paths, \E f \in files : f.path = p
        PROVE  (CHOOSE f \in files : f.path = p).proposed \in Contents \cup {Absent}
    <2>1. (CHOOSE f \in files : f.path = p) \in Files
      BY <1>1
    <2> QED BY <2>1 DEF Files
  <1> QED BY <1>1 DEF After, Tree

LEMMA ChosenFilesAreTyped ==
    ASSUME sets \in [ChangeSets -> StoredSets], NEW chosen \in SUBSET ChangeSets
    PROVE  ChosenFiles(chosen) \in SUBSET Files
  BY DEF ChosenFiles, StoredSets

LEMMA RestoredIsTyped ==
    ASSUME TypeOK, NEW i \in Integrations, NEW part \in SUBSET Paths, Restore(i, part)
    PROVE  tree' \in Tree
  <1>1. run[i].snapshot \in Tree
    BY DEF TypeOK, Calls
  <1> QED BY <1>1 DEF Restore, TypeOK, Tree

LEMMA RestoreStep ==
    ASSUME TypeOK, NEW i \in Integrations, RestoreWorks(i) \/ RestoreFails(i)
    PROVE  tree' \in Tree /\ mishaps' \in 0..MaxMishaps
  <1>1. CASE RestoreWorks(i)
    BY <1>1, RestoredIsTyped DEF RestoreWorks, TypeOK
  <1>2. CASE RestoreFails(i)
    <2>1. PICK part \in SUBSET Paths : Restore(i, part)
      BY <1>2 DEF RestoreFails
    <2>2. mishaps' \in 0..MaxMishaps
      BY <1>2, IdsAssumption DEF RestoreFails, TypeOK
    <2> QED BY <2>1, <2>2, RestoredIsTyped
  <1> QED BY <1>1, <1>2

LEMMA StatusIsTyped ==
    ASSUME TypeOK, NEW i \in Integrations, NEW status \in RecordStatuses
    PROVE  [records EXCEPT ![i].status = status] \in [Integrations -> Records]
  BY DEF TypeOK, Records

LEMMA GotoIsTyped ==
    ASSUME TypeOK, NEW i \in Integrations, NEW stage \in Stages, Goto(i, stage)
    PROVE  run' \in [Integrations -> Calls]
  BY DEF TypeOK, Goto, Calls

LEMMA CompensateTypes ==
    ASSUME TypeOK, NEW i \in Integrations, Compensate(i) PROVE TypeOK'
  <1>1. tree' \in Tree /\ mishaps' \in 0..MaxMishaps
    BY RestoreStep DEF Compensate
  <1>2. records' \in [Integrations -> Records]
    <2>1. \E status \in RecordStatuses :
             records' = [records EXCEPT ![i].status = status]
      BY DEF RecordStatuses, Compensate
    <2> QED BY <2>1, StatusIsTyped
  <1>3. run' \in [Integrations -> Calls]
    BY StagesOfTheCode, GotoIsTyped DEF Compensate
  <1> QED BY <1>1, <1>2, <1>3 DEF TypeOK, Compensate

LEMMA CheckTypes ==
    ASSUME TypeOK, NEW i \in Integrations, Check(i) PROVE TypeOK'
  <1>1. run' \in [Integrations -> Calls]
    <2>1. \E stage \in Stages : Goto(i, stage)
      BY StagesOfTheCode DEF Check
    <2> QED BY <2>1, GotoIsTyped
  <1>2. records' \in [Integrations -> Records]
    <2> DEFINE failed == [records EXCEPT ![i].status = "failed",
                                         ![i].chosen = run[i].chosen]
    <2>1. records' = records \/ records' = failed
      BY DEF Check
    <2>2. [records[i] EXCEPT !.status = "failed", !.chosen = run[i].chosen] \in Records
      BY DEF TypeOK, Records, Calls, RecordStatuses
    <2>3. failed = [records EXCEPT
                      ![i] = [records[i] EXCEPT !.status = "failed",
                                                !.chosen = run[i].chosen]]
      BY DEF TypeOK
    <2> HIDE DEF failed
    <2>4. failed \in [Integrations -> Records]
      BY <2>2, <2>3 DEF TypeOK
    <2> QED BY <2>1, <2>4 DEF TypeOK
  <1> QED BY <1>1, <1>2 DEF TypeOK, Check

\* A record that gets a status and one more field.
LEMMA RecordIsTyped ==
    ASSUME TypeOK, NEW i \in Integrations, NEW next \in Records,
           records' = [records EXCEPT ![i] = next]
    PROVE  records' \in [Integrations -> Records]
  BY DEF TypeOK

LEMMA PrepareTypes ==
    ASSUME TypeOK, NEW i \in Integrations, Prepare(i) PROVE TypeOK'
  <1> DEFINE called == [run[i] EXCEPT !.stage = "prepared", !.snapshot = tree]
             stored == [records[i] EXCEPT !.status = "applying", !.chosen = run[i].chosen]
  <1>1. called \in Calls
    BY StagesOfTheCode DEF TypeOK, Calls
  <1>2. stored \in Records
    BY DEF TypeOK, Records, RecordStatuses, Calls
  <1>3. run' = [run EXCEPT ![i] = called] /\ records' = [records EXCEPT ![i] = stored]
    BY DEF Prepare
  <1> HIDE DEF called, stored
  <1>4. run' \in [Integrations -> Calls]
    BY <1>1, <1>3 DEF TypeOK
  <1>5. records' \in [Integrations -> Records]
    BY <1>2, <1>3, RecordIsTyped
  <1> QED BY <1>4, <1>5 DEF TypeOK, Prepare

LEMMA FinishTypes ==
    ASSUME TypeOK, NEW i \in Integrations, Finish(i) PROVE TypeOK'
  <1>1. PICK status \in {"integrated", "needs_review"} :
           records' = [records EXCEPT ![i] =
             [status |-> status, chosen |-> run[i].chosen,
              applied |-> ChosenFiles(run[i].chosen)]]
    BY DEF Finish
  <1>2. run[i].chosen \in SUBSET ChangeSets
    BY DEF TypeOK, Calls
  <1>3. ChosenFiles(run[i].chosen) \in SUBSET Files
    BY <1>2, ChosenFilesAreTyped DEF TypeOK
  <1>4. [status |-> status, chosen |-> run[i].chosen,
         applied |-> ChosenFiles(run[i].chosen)] \in Records
    BY <1>2, <1>3 DEF Records, RecordStatuses
  <1>5. records' \in [Integrations -> Records]
    BY <1>1, <1>4, RecordIsTyped
  <1>6. run' \in [Integrations -> Calls]
    <2>1. \E stage \in Stages : Goto(i, stage)
      BY StagesOfTheCode DEF Finish
    <2> QED BY <2>1, GotoIsTyped
  <1> QED BY <1>5, <1>6 DEF TypeOK, Finish

LEMMA ApplyTypes ==
    ASSUME TypeOK, NEW i \in Integrations, Apply(i) PROVE TypeOK'
  <1>1. run[i].chosen \in SUBSET ChangeSets
    BY DEF TypeOK, Calls
  <1>2. ChosenFiles(run[i].chosen) \in SUBSET Files
    BY <1>1, ChosenFilesAreTyped DEF TypeOK
  <1>3. \E files \in SUBSET Files : tree' = After(files)
    BY <1>2 DEF Apply
  <1>4. tree' \in Tree
    BY <1>3, AfterIsTyped DEF TypeOK
  <1>5. run' \in [Integrations -> Calls]
    <2>1. \E stage \in Stages : Goto(i, stage)
      BY StagesOfTheCode DEF Apply
    <2> QED BY <2>1, GotoIsTyped
  <1> QED BY <1>4, <1>5 DEF TypeOK, Apply

\* Steps that only name a stage.
LEMMA OnlyStageTypes ==
    ASSUME TypeOK, NEW i \in Integrations,
           RefuseSamePath(i) \/ ReadBack(i) \/ VerificationThrows(i)
    PROVE  TypeOK'
  <1>1. \E stage \in Stages : Goto(i, stage)
    BY StagesOfTheCode DEF RefuseSamePath, ReadBack, VerificationThrows
  <1>2. run' \in [Integrations -> Calls]
    BY <1>1, GotoIsTyped
  <1> QED BY <1>2 DEF TypeOK, RefuseSamePath, ReadBack, VerificationThrows

LEMMA AcquireTypes ==
    ASSUME LeaseInv, TypeOK,
           NEW i \in Integrations, NEW chosen \in SUBSET ChangeSets, Acquire(i, chosen)
    PROVE  TypeOK'
  <1>1. run' \in [Integrations -> Calls]
    BY AcquireStep DEF LeaseInv, RunTyped
  <1> QED BY <1>1 DEF TypeOK, Acquire

LEMMA ReleaseTypes ==
    ASSUME LeaseInv, TypeOK, NEW i \in Integrations, Release(i) PROVE TypeOK'
  <1>1. run' \in [Integrations -> Calls]
    BY ReleaseStep DEF LeaseInv, RunTyped
  <1> QED BY <1>1 DEF TypeOK, Release

LEMMA CrashTypes == ASSUME LeaseInv, TypeOK, Crash PROVE TypeOK'
  <1>1. run' \in [Integrations -> Calls]
    BY CrashStep DEF LeaseInv, RunTyped
  <1>2. mishaps' \in 0..MaxMishaps
    BY IdsAssumption DEF Crash, TypeOK
  <1> QED BY <1>1, <1>2 DEF TypeOK, Crash, NoUndo

LEMMA ExpiryTypes == ASSUME TypeOK, LeaseExpires PROVE TypeOK'
  <1>1. mishaps' \in 0..MaxMishaps
    BY IdsAssumption DEF LeaseExpires, TypeOK
  <1> QED BY <1>1 DEF TypeOK, LeaseExpires

LEMMA EditTypes ==
    ASSUME TypeOK, NEW edit \in Edits, Edit(edit[1], edit[2]) PROVE TypeOK'
  <1>1. edit[1] \in Paths /\ edit[2] \in Contents \cup {Absent}
    BY IdsAssumption
  <1>2. tree' \in Tree
    BY <1>1 DEF Edit, TypeOK, Tree
  <1>3. mishaps' \in 0..MaxMishaps
    BY IdsAssumption DEF Edit, TypeOK
  <1> QED BY <1>2, <1>3 DEF TypeOK, Edit, Running

\* The fields of a stored set change, its shape does not.
LEMMA SetIsTyped ==
    ASSUME TypeOK, NEW c \in ChangeSets, NEW next \in StoredSets,
           sets' = [sets EXCEPT ![c] = next]
    PROVE  sets' \in [ChangeSets -> StoredSets]
  BY DEF TypeOK

LEMMA MarkTypes ==
    ASSUME LeaseInv, TypeOK, NEW i \in Integrations, NEW c \in ChangeSets, Mark(i, c)
    PROVE  TypeOK'
  <1> DEFINE next == [sets[c] EXCEPT !.status = "integrated", !.by = i]
  <1>1. next \in StoredSets
    BY DEF TypeOK, StoredSets, SetStatuses
  <1>2. sets' = [sets EXCEPT ![c] = next]
    BY DEF Mark
  <1> HIDE DEF next
  <1>3. sets' \in [ChangeSets -> StoredSets]
    BY <1>1, <1>2, SetIsTyped
  <1>4. run' \in [Integrations -> Calls]
    BY MarkStep DEF LeaseInv, RunTyped
  <1> QED BY <1>3, <1>4 DEF TypeOK, Mark

LEMMA DraftTypes ==
    ASSUME TypeOK, NEW c \in ChangeSets, Draft(c) PROVE TypeOK'
  <1> DEFINE file == sets[c].file
             base == tree[file.path]
             op == IF base = Absent THEN "create"
                   ELSE IF file.proposed = Absent THEN "delete" ELSE "update"
             filed == [file EXCEPT !.base = base, !.op = op]
             next == [sets[c] EXCEPT !.status = "open", !.file = filed]
  <1>1. file \in Files
    BY DEF TypeOK, StoredSets
  <1>2. base \in Contents \cup {Absent} /\ op \in Ops
    BY <1>1 DEF TypeOK, Tree, Files, Ops
  <1>3. sets' = [sets EXCEPT ![c] = next]
    BY DEF Draft
  <1> HIDE DEF base, op
  <1>4. filed \in Files
    BY <1>1, <1>2 DEF Files
  <1> HIDE DEF filed
  <1>5. next \in StoredSets
    BY <1>4 DEF TypeOK, StoredSets, SetStatuses
  <1> HIDE DEF next
  <1>6. sets' \in [ChangeSets -> StoredSets]
    BY <1>3, <1>5, SetIsTyped
  <1> QED BY <1>6 DEF TypeOK, Draft

LEMMA RollbackTypes ==
    ASSUME TypeOK, NEW i \in Integrations, Rollback(i) PROVE TypeOK'
  <1>1. CASE AgreeToRollback(i)
    <2>1. undo' \in [of: Integrations \cup {Nobody}, applied: SUBSET Files]
      BY <1>1 DEF AgreeToRollback, TypeOK, Records
    <2> QED BY <1>1, <2>1 DEF AgreeToRollback, TypeOK
  <1>2. CASE RollBack(i)
    <2>1. tree' \in Tree /\ mishaps' \in 0..MaxMishaps
      BY <1>2, RestoreStep DEF RollBack
    <2>2. records' \in [Integrations -> Records]
      <3> DEFINE next == [records[i] EXCEPT !.status = "rolled_back",
                                            !.applied = undo.applied]
      <3>1. next \in Records
        BY DEF TypeOK, Records, RecordStatuses
      <3>2. records' = records \/ records' = [records EXCEPT ![i] = next]
        BY <1>2 DEF RollBack
      <3> HIDE DEF next
      <3> QED BY <3>1, <3>2, RecordIsTyped DEF TypeOK
    <2>3. sets' \in [ChangeSets -> StoredSets]
      <3>1. \A c \in ChangeSets : [sets[c] EXCEPT !.status = "rolled_back"] \in StoredSets
        BY DEF TypeOK, StoredSets, SetStatuses
      <3> QED BY <1>2, <3>1 DEF RollBack, TypeOK
    <2>4. undo' \in [of: Integrations \cup {Nobody}, applied: SUBSET Files]
      BY <1>2 DEF RollBack, NoUndo
    <2> QED BY <1>2, <2>1, <2>2, <2>3, <2>4 DEF RollBack, TypeOK, Running
  <1> QED BY <1>1, <1>2 DEF Rollback

LEMMA RecoverTypes == ASSUME TypeOK, Recover PROVE TypeOK'
  <1>1. CASE ListInterrupted
    BY <1>1 DEF ListInterrupted, TypeOK
  <1>2. ASSUME NEW i \in Integrations, Interrupt(i) PROVE TypeOK'
    <2> DEFINE next == [records[i] EXCEPT !.status = "interrupted", !.applied = {}]
    <2>1. next \in Records
      BY DEF TypeOK, Records, RecordStatuses
    <2>2. records' = [records EXCEPT ![i] = next]
      BY <1>2 DEF Interrupt
    <2> HIDE DEF next
    <2>3. records' \in [Integrations -> Records]
      BY <2>1, <2>2, RecordIsTyped
    <2>4. tree' \in Tree /\ mishaps' \in 0..MaxMishaps
      BY <1>2, RestoreStep DEF Interrupt, TypeOK
    <2> QED BY <1>2, <2>3, <2>4 DEF Interrupt, TypeOK, Running
  <1> QED BY <1>1, <1>2 DEF Recover
-----------------------------------------------------------------------------

LEMMA InitTypes == Init => TypeOK
  <1> SUFFICES ASSUME Init PROVE TypeOK
    OBVIOUS
  <1>1. tree \in Tree
    BY IdsAssumption DEF Init, Tree
  <1>2. sets \in [ChangeSets -> StoredSets]
    <2>1. PICK f \in Proposals :
            sets = [c \in ChangeSets |->
                     [status |-> "none", by |-> Nobody,
                      file |-> [path |-> f[c].path, proposed |-> f[c].proposed,
                                base |-> Absent, op |-> "create"]]]
      BY DEF Init
    <2>2. \A c \in ChangeSets : f[c].path \in Paths /\ f[c].proposed \in Contents \cup {Absent}
      BY IdsAssumption
    <2> QED BY <2>1, <2>2 DEF StoredSets, SetStatuses, Files, Ops
  <1>3. run \in [Integrations -> Calls]
    BY LeaseInit DEF LeaseInv, RunTyped
  <1>4. records \in [Integrations -> Records]
    BY DEF Init, Records, RecordStatuses
  <1>5. undo \in [of: Integrations \cup {Nobody}, applied: SUBSET Files]
    BY DEF Init, NoUndo
  <1>6. mishaps \in 0..MaxMishaps
    BY IdsAssumption DEF Init
  <1> QED BY <1>1, <1>2, <1>3, <1>4, <1>5, <1>6 DEF Init, TypeOK

LEMMA IntegrateStep ==
    ASSUME LeaseInv, TypeOK, NEW i \in Integrations, Integrate(i)
    PROVE  LeaseInv' /\ TypeOK'
  <1>1. ASSUME NEW chosen \in SUBSET ChangeSets, Acquire(i, chosen)
        PROVE  LeaseInv' /\ TypeOK'
    BY <1>1, AcquireStep, AcquireTypes
  <1>2. CASE Check(i)
    BY <1>2, WorkStep, CheckTypes
  <1>3. CASE Prepare(i)
    BY <1>3, PrepareStep, PrepareTypes DEF TypeOK
  <1>4. CASE RefuseSamePath(i) \/ ReadBack(i) \/ VerificationThrows(i)
    BY <1>4, WorkStep, OnlyStageTypes
  <1>5. CASE Apply(i)
    BY <1>5, WorkStep, ApplyTypes
  <1>6. CASE Compensate(i)
    BY <1>6, WorkStep, CompensateTypes
  <1>7. CASE Finish(i)
    BY <1>7, WorkStep, FinishTypes
  <1>8. ASSUME NEW c \in ChangeSets, Mark(i, c) PROVE LeaseInv' /\ TypeOK'
    BY <1>8, MarkStep, MarkTypes
  <1>9. CASE Release(i)
    BY <1>9, ReleaseStep, ReleaseTypes
  <1> QED BY <1>1, <1>2, <1>3, <1>4, <1>5, <1>6, <1>7, <1>8, <1>9 DEF Integrate

LEMMA NextStep ==
    ASSUME LeaseInv, TypeOK, [Next]_vars
    PROVE  LeaseInv' /\ TypeOK'
  <1>1. ASSUME NEW c \in ChangeSets, Draft(c) PROVE LeaseInv' /\ TypeOK'
    BY <1>1, AsideStep, DraftTypes
  <1>2. ASSUME NEW i \in Integrations, Integrate(i) PROVE LeaseInv' /\ TypeOK'
    BY <1>2, IntegrateStep
  <1>3. ASSUME NEW i \in Integrations, Rollback(i) PROVE LeaseInv' /\ TypeOK'
    BY <1>3, AsideStep, RollbackTypes
  <1>4. CASE Recover
    BY <1>4, AsideStep, RecoverTypes
  <1>5. ASSUME NEW edit \in Edits, Edit(edit[1], edit[2]) PROVE LeaseInv' /\ TypeOK'
    BY <1>5, AsideStep, EditTypes
  <1>6. CASE LeaseExpires
    BY <1>6, ExpiryStep, ExpiryTypes
  <1>7. CASE Crash
    BY <1>7, CrashStep, CrashTypes
  <1>8. CASE UNCHANGED vars
    BY <1>8, CallsUntouched DEF vars, TypeOK
  <1> QED BY <1>1, <1>2, <1>3, <1>4, <1>5, <1>6, <1>7, <1>8 DEF Next

\* Every variable keeps its type, and the call that runs with its lease intact is
\* the one that holds it.
THEOREM Typed == Spec => [](LeaseInv /\ TypeOK)
  <1>1. Init => LeaseInv /\ TypeOK
    BY LeaseInit, InitTypes
  <1>2. LeaseInv /\ TypeOK /\ [Next]_vars => (LeaseInv /\ TypeOK)'
    BY NextStep
  <1> QED BY <1>1, <1>2, PTL DEF Spec

\* Type correctness of change integration for every value of the constants.
THEOREM IntegrationTypes == Spec => []TypeOK
  BY Typed, PTL

\* Two integrations run at once only when a lease expired under one of them.
THEOREM LeaseExcludes == Spec => []OneAtATime
  <1>1. LeaseInv => OneAtATime
    BY DEF LeaseInv, LeaseFollowsCalls, OneAtATime
  <1> QED BY Typed, <1>1, PTL

-----------------------------------------------------------------------------
(***************************************************************************)
(* What an integration has done, and what it may still do.                 *)
(***************************************************************************)

\* The statuses of a record whose call has written its change sets, or will.
Settled == {"integrated", "needs_review", "rolled_back", "interrupted"}

\* The stages of a call that has finished its record.
Past == {"finished", "releasing", "done", "dead"}

\* The stages of a call that has found its sets usable and has not finished.
Before == {"checked", "prepared", "written", "verified"}

\* The record lists applied files, or the rollback under way will list them again.
Did(i) == records[i].applied # {} \/ (undo.of = i /\ undo.applied # {})

Closed(c) == sets[c].status \in {"integrated", "rolled_back"}

\* A record left applying has a call that works on it or was cut off; one that is
\* being marked is settled and names the sets of its call.
RecordFits(r, k) ==
    /\ r.status = "applying" =>
         k.stage \in {"prepared", "written", "failing", "verified", "throwing",
                      "thrown", "dead"}
    /\ k.stage = "finished" => r.status \in Settled /\ r.chosen = k.chosen

RecordsFollowCalls == \A i \in Integrations : RecordFits(records[i], run[i])

IntegratedByItsCall ==
    \A c \in ChangeSets : sets[c].status = "integrated" =>
        /\ sets[c].by \in Integrations
        /\ run[sets[c].by].stage \in Past
        /\ records[sets[c].by].status \in Settled

MarkedAreClosed == \A i \in Integrations : \A c \in run[i].marked : Closed(c)

\* A call that was not cut off closes every set it has integrated.
WorkIsClosed ==
    \A i \in Integrations : Did(i) =>
        /\ run[i].stage \in Past
        /\ run[i].stage \in {"releasing", "done"} =>
             \A c \in records[i].chosen : Closed(c)

\* What one call has integrated, no other has, nor is about to.
NoSecondUse ==
    lapsed = {} =>
        \A i, j \in Integrations :
            i # j /\ Did(i) /\ run[i].stage # "dead" =>
                /\ run[j].stage \in Before =>
                     run[j].chosen \cap records[i].chosen = {}
                /\ Did(j) /\ run[j].stage # "dead" =>
                     records[j].chosen \cap records[i].chosen = {}

\* The stages of a call that may come to restore its snapshot.
Watched == {"prepared", "written", "failing"}

\* Outside the files of a call, the tree is still as its snapshot has it.
SnapshotsHold ==
    \A i \in Integrations :
        /\ run[i].stage \in Watched
        /\ lapsed = {} /\ i \notin disturbed
        => \A x \in Paths :
             (\A c \in run[i].chosen : sets[c].file.path # x) =>
               tree[x] = run[i].snapshot[x]

WorkInv ==
    /\ RecordsFollowCalls
    /\ IntegratedByItsCall
    /\ MarkedAreClosed
    /\ WorkIsClosed
    /\ NoSecondUse
    /\ SnapshotsHold

LEMMA RecordFields ==
    ASSUME TypeOK
    PROVE  /\ \A i \in Integrations : /\ run[i] \in Calls /\ records[i] \in Records
                                      /\ run[i].chosen \subseteq ChangeSets
                                      /\ run[i].marked \subseteq ChangeSets
                                      /\ records[i].chosen \subseteq ChangeSets
           /\ \A c \in ChangeSets : sets[c] \in StoredSets /\ sets[c].file \in Files
  BY DEF TypeOK, Calls, Records, StoredSets

\* Two calls that kept their lease do not run together.
LEMMA OneRuns ==
    ASSUME LeaseInv, lapsed = {}, NEW i \in Integrations, NEW j \in Integrations,
           run[i].stage \in Holding, run[j].stage \in Holding
    PROVE  i = j
  BY DEF LeaseInv, LeaseFollowsCalls

\* The parts of WorkInv that do not look at the tree.
RecordsInv ==
    /\ RecordsFollowCalls
    /\ IntegratedByItsCall
    /\ MarkedAreClosed
    /\ WorkIsClosed
    /\ NoSecondUse

(***************************************************************************)
(* A step that moves no call, finishes no record and opens no closed set.  *)
(***************************************************************************)
LEMMA AsideKeepsRecords ==
    ASSUME TypeOK, RecordsInv,
           \A j \in Integrations : run'[j] = run[j],
           \A j \in Integrations :
              /\ records'[j].chosen = records[j].chosen
              /\ records'[j].status = records[j].status \/ records'[j].status \in Settled
              /\ Did(j)' => Did(j),
           \A c \in ChangeSets :
              /\ Closed(c) => Closed(c)'
              /\ sets'[c].status = "integrated" =>
                   sets[c].status = "integrated" /\ sets'[c].by = sets[c].by,
           lapsed' = {} => lapsed = {}
    PROVE  RecordsInv'
  <1>1. RecordsFollowCalls'
    <2> SUFFICES ASSUME NEW j \in Integrations PROVE RecordFits(records'[j], run'[j])
      BY DEF RecordsFollowCalls
    <2>1. RecordFits(records[j], run[j])
      BY DEF RecordsInv, RecordsFollowCalls
    <2>2. "applying" \notin Settled
      BY DEF Settled
    <2> QED BY <2>1, <2>2 DEF RecordFits
  <1>2. IntegratedByItsCall'
    BY DEF RecordsInv, IntegratedByItsCall, Settled
  <1>3. MarkedAreClosed'
    BY RecordFields DEF RecordsInv, MarkedAreClosed
  <1>4. WorkIsClosed'
    BY RecordFields DEF RecordsInv, WorkIsClosed
  <1>5. NoSecondUse'
    BY DEF RecordsInv, NoSecondUse
  <1> QED BY <1>1, <1>2, <1>3, <1>4, <1>5 DEF RecordsInv

(***************************************************************************)
(* A step of the call i of integrate: it comes to stand at next, and its   *)
(* record is r.                                                            *)
(***************************************************************************)
Listed(i, r) == r.applied # {} \/ (undo.of = i /\ undo.applied # {})

LEMMA CallKeepsRecords ==
    ASSUME TypeOK, RecordsInv,
           NEW i \in Integrations, NEW next \in Calls, NEW r \in Records,
           run' = [run EXCEPT ![i] = next],
           records' = [records EXCEPT ![i] = r],
           undo' = undo, lapsed' = lapsed,
           \A c \in ChangeSets :
              /\ Closed(c) => Closed(c)'
              /\ sets'[c].status = "integrated" =>
                   \/ sets[c].status = "integrated" /\ sets'[c].by = sets[c].by
                   \/ sets'[c].by = i /\ next.stage \in Past /\ r.status \in Settled,
           RecordFits(r, next),
           run[i].stage \in Past =>
              next.stage \in Past /\ (records[i].status \in Settled => r.status \in Settled),
           \A c \in next.marked : Closed(c)',
           Listed(i, r) =>
              /\ next.stage \in Past
              /\ next.stage \in {"releasing", "done"} => \A c \in r.chosen : Closed(c)',
           lapsed = {} /\ Listed(i, r) /\ next.stage # "dead" =>
              \/ Did(i) /\ run[i].stage # "dead" /\ r.chosen = records[i].chosen
              \/ \A j \in Integrations \ {i} :
                    /\ run[j].stage \notin Before
                    /\ Did(j) /\ run[j].stage # "dead" =>
                         records[j].chosen \cap r.chosen = {},
           lapsed = {} /\ next.stage \in Before =>
              \A j \in Integrations \ {i} :
                 Did(j) /\ run[j].stage # "dead" => next.chosen \cap records[j].chosen = {}
    PROVE  RecordsInv'
  <1>1. \A j \in Integrations :
          /\ run'[j] = IF j = i THEN next ELSE run[j]
          /\ records'[j] = IF j = i THEN r ELSE records[j]
    BY DEF TypeOK
  <1>2. \A j \in Integrations \ {i} : Did(j)' <=> Did(j)
    BY <1>1 DEF Did
  <1>3. Did(i)' <=> Listed(i, r)
    BY <1>1 DEF Did, Listed
  <1>4. RecordsFollowCalls'
    BY <1>1 DEF RecordsInv, RecordsFollowCalls
  <1>5. IntegratedByItsCall'
    <2> SUFFICES ASSUME NEW c \in ChangeSets, sets'[c].status = "integrated"
                 PROVE  /\ sets'[c].by \in Integrations
                        /\ run'[sets'[c].by].stage \in Past
                        /\ records'[sets'[c].by].status \in Settled
      BY DEF IntegratedByItsCall, Past, Settled
    <2>1. CASE sets[c].status = "integrated" /\ sets'[c].by = sets[c].by
      <3>1. /\ sets[c].by \in Integrations
            /\ run[sets[c].by].stage \in Past
            /\ records[sets[c].by].status \in Settled
        BY <2>1 DEF RecordsInv, IntegratedByItsCall
      <3> QED BY <1>1, <2>1, <3>1
    <2>2. CASE sets'[c].by = i /\ next.stage \in Past /\ r.status \in Settled
      BY <1>1, <2>2
    <2> QED BY <2>1, <2>2
  <1>6. MarkedAreClosed'
    <2> SUFFICES ASSUME NEW j \in Integrations, NEW c \in run'[j].marked PROVE Closed(c)'
      BY DEF MarkedAreClosed
    <2>1. CASE j = i
      BY <1>1, <2>1
    <2>2. CASE j # i
      BY <1>1, <2>2, RecordFields DEF RecordsInv, MarkedAreClosed
    <2> QED BY <2>1, <2>2
  <1>7. WorkIsClosed'
    <2> SUFFICES ASSUME NEW j \in Integrations, Did(j)'
                 PROVE  /\ run'[j].stage \in Past
                        /\ run'[j].stage \in {"releasing", "done"} =>
                             \A c \in records'[j].chosen : Closed(c)'
      BY DEF WorkIsClosed, Past
    <2>1. CASE j = i
      BY <1>1, <1>3, <2>1
    <2>2. CASE j # i
      <3>1. /\ run[j].stage \in Past
            /\ run[j].stage \in {"releasing", "done"} =>
                 \A c \in records[j].chosen : Closed(c)
        BY <1>2, <2>2 DEF RecordsInv, WorkIsClosed
      <3> QED BY <1>1, <2>2, <3>1, RecordFields
    <2> QED BY <2>1, <2>2
  <1>8. NoSecondUse'
    <2> SUFFICES ASSUME lapsed = {}, NEW j \in Integrations, NEW k \in Integrations,
                        j # k, Did(j)', run'[j].stage # "dead"
                 PROVE  /\ run'[k].stage \in Before =>
                             run'[k].chosen \cap records'[j].chosen = {}
                        /\ Did(k)' /\ run'[k].stage # "dead" =>
                             records'[k].chosen \cap records'[j].chosen = {}
      BY DEF NoSecondUse, Before
    <2>1. ASSUME NEW a \in Integrations, NEW b \in Integrations, a # b,
                 Did(a), run[a].stage # "dead"
          PROVE  /\ run[b].stage \in Before => run[b].chosen \cap records[a].chosen = {}
                 /\ Did(b) /\ run[b].stage # "dead" =>
                      records[b].chosen \cap records[a].chosen = {}
      BY <2>1 DEF RecordsInv, NoSecondUse
    <2>2. CASE j # i /\ k # i
      <3>1. run'[j] = run[j] /\ run'[k] = run[k] /\ records'[j] = records[j]
            /\ records'[k] = records[k] /\ Did(j) /\ (Did(k)' => Did(k))
        BY <1>1, <1>2, <2>2
      <3> QED BY <2>1, <3>1
    <2>3. CASE j = i
      <3>1. run'[i] = next /\ records'[i] = r /\ run'[k] = run[k] /\ records'[k] = records[k]
            /\ Listed(i, r) /\ (Did(k)' => Did(k)) /\ next.stage # "dead"
        BY <1>1, <1>2, <1>3, <2>3
      <3>2. CASE Did(i) /\ run[i].stage # "dead" /\ r.chosen = records[i].chosen
        BY <2>1, <2>3, <3>1, <3>2
      <3>3. CASE \A l \in Integrations \ {i} :
                   /\ run[l].stage \notin Before
                   /\ Did(l) /\ run[l].stage # "dead" =>
                        records[l].chosen \cap r.chosen = {}
        BY <2>3, <3>1, <3>3
      <3> QED BY <3>1, <3>2, <3>3
    <2>4. CASE k = i
      <3>1. run'[i] = next /\ records'[i] = r /\ run'[j] = run[j] /\ records'[j] = records[j]
            /\ Did(j) /\ (Did(i)' => Listed(i, r)) /\ run[j].stage # "dead"
        BY <1>1, <1>2, <1>3, <2>4
      <3>2. next.stage \in Before => next.chosen \cap records[j].chosen = {}
        BY <2>4, <3>1
      <3>3. ASSUME Listed(i, r), next.stage # "dead"
            PROVE  r.chosen \cap records[j].chosen = {}
        <4>1. CASE Did(i) /\ run[i].stage # "dead" /\ r.chosen = records[i].chosen
          BY <2>1, <2>4, <3>1, <4>1
        <4>2. CASE \A l \in Integrations \ {i} :
                     /\ run[l].stage \notin Before
                     /\ Did(l) /\ run[l].stage # "dead" =>
                          records[l].chosen \cap r.chosen = {}
          BY <2>4, <3>1, <4>2
        <4> QED BY <3>3, <4>1, <4>2
      <3> QED BY <2>4, <3>1, <3>2, <3>3
    <2> QED BY <2>2, <2>3, <2>4
  <1> QED BY <1>4, <1>5, <1>6, <1>7, <1>8 DEF RecordsInv

\* Sets that stay as they are.
LEMMA SameSets ==
    ASSUME sets' = sets
    PROVE  \A c \in ChangeSets :
              /\ Closed(c) => Closed(c)'
              /\ sets'[c].status = "integrated" =>
                   sets[c].status = "integrated" /\ sets'[c].by = sets[c].by
  BY DEF Closed

\* A call that has not finished its record lists no applied file.
LEMMA NothingListed ==
    ASSUME RecordsInv, NEW i \in Integrations, run[i].stage \notin Past
    PROVE  ~Did(i) /\ ~Listed(i, records[i])
  BY DEF RecordsInv, WorkIsClosed, Did, Listed

\* A call that has not finished its record, and does not with this step.
LEMMA EarlyStep ==
    ASSUME TypeOK, RecordsInv,
           NEW i \in Integrations, NEW next \in Calls, NEW r \in Records,
           run' = [run EXCEPT ![i] = next],
           records' = [records EXCEPT ![i] = r],
           sets' = sets, undo' = undo, lapsed' = lapsed,
           run[i].stage \notin Past, r.applied = records[i].applied,
           next.marked = run[i].marked,
           RecordFits(r, next),
           lapsed = {} /\ next.stage \in Before =>
              \A j \in Integrations \ {i} :
                 Did(j) /\ run[j].stage # "dead" => next.chosen \cap records[j].chosen = {}
    PROVE  RecordsInv'
  <1>1. ~Listed(i, r)
    BY NothingListed DEF Listed
  <1>2. \A c \in next.marked : Closed(c)'
    BY RecordFields, SameSets DEF RecordsInv, MarkedAreClosed
  <1> QED BY <1>1, <1>2, SameSets, CallKeepsRecords

LEMMA GotoFields ==
    ASSUME TypeOK, NEW i \in Integrations, NEW stage \in Stages, NEW next,
           next = [run[i] EXCEPT !.stage = stage]
    PROVE  /\ next \in Calls /\ next.stage = stage
           /\ next.chosen = run[i].chosen /\ next.marked = run[i].marked
           /\ next.snapshot = run[i].snapshot
  BY DEF TypeOK, Calls

\* What a call that is before its finish uses, nobody has integrated.
LEMMA UsedOnce ==
    ASSUME RecordsInv, NEW i \in Integrations, run[i].stage \in Before, lapsed = {},
           NEW j \in Integrations \ {i}, Did(j), run[j].stage # "dead"
    PROVE  run[i].chosen \cap records[j].chosen = {}
  BY DEF RecordsInv, NoSecondUse

\* Steps that name the next stage only.
LEMMA GotoKeepsRecords ==
    ASSUME TypeOK, RecordsInv, NEW i \in Integrations, NEW stage \in Stages,
           Goto(i, stage), UNCHANGED <<sets, records, undo, lapsed>>,
           run[i].stage \notin Past, stage # "finished",
           records[i].status = "applying" =>
              stage \in {"prepared", "written", "failing", "verified", "throwing"},
           stage \in Before => run[i].stage \in Before
    PROVE  RecordsInv'
  <1>1. PICK next : next = [run[i] EXCEPT !.stage = stage]
    OBVIOUS
  <1>2. /\ next \in Calls /\ next.stage = stage
        /\ next.chosen = run[i].chosen /\ next.marked = run[i].marked
    BY <1>1, GotoFields
  <1>3. run' = [run EXCEPT ![i] = next]
    BY <1>1 DEF Goto
  <1>4. records' = [records EXCEPT ![i] = records[i]] /\ records[i] \in Records
    BY DEF TypeOK
  <1>5. RecordFits(records[i], next)
    BY <1>2 DEF RecordFits
  <1> QED BY <1>2, <1>3, <1>4, <1>5, UsedOnce, EarlyStep

LEMMA RecordFitsCall ==
    ASSUME RecordsInv, NEW i \in Integrations
    PROVE  RecordFits(records[i], run[i])
  BY DEF RecordsInv, RecordsFollowCalls

LEMMA AcquireRecords ==
    ASSUME TypeOK, RecordsInv, NEW i \in Integrations, NEW chosen \in SUBSET ChangeSets,
           Acquire(i, chosen)
    PROVE  RecordsInv'
  <1>1. PICK next : next = [run[i] EXCEPT !.stage = "locked", !.chosen = chosen]
    OBVIOUS
  <1>2. next \in Calls /\ next.stage = "locked" /\ next.marked = run[i].marked
    BY <1>1, StagesOfTheCode DEF TypeOK, Calls
  <1>3. run' = [run EXCEPT ![i] = next] /\ run[i].stage = "idle"
    BY <1>1 DEF Acquire
  <1>4. records' = [records EXCEPT ![i] = records[i]] /\ records[i] \in Records
    BY DEF TypeOK, Acquire
  <1>5. RecordFits(records[i], next)
    BY <1>2, <1>3, RecordFitsCall DEF RecordFits
  <1>6. sets' = sets /\ undo' = undo /\ lapsed' = lapsed
    BY DEF Acquire
  <1>7. run[i].stage \notin Past /\ next.stage \notin Before
    BY <1>2, <1>3 DEF Past, Before
  <1> QED BY <1>2, <1>3, <1>4, <1>5, <1>6, <1>7, EarlyStep

LEMMA CheckRecords ==
    ASSUME TypeOK, LeaseInv, RecordsInv, NEW i \in Integrations, Check(i)
    PROVE  RecordsInv'
  <1>1. /\ run[i].stage = "locked" /\ run[i].stage \notin Past
        /\ sets' = sets /\ undo' = undo /\ lapsed' = lapsed
    BY DEF Check, Past
  <1>2. PICK stage \in {"checked", "releasing"} :
          /\ Goto(i, stage)
          /\ stage = "checked" => \A c \in run[i].chosen : Usable(c)
          /\ \/ records' = records
             \/ /\ stage = "releasing"
                /\ records' = [records EXCEPT ![i].status = "failed",
                                              ![i].chosen = run[i].chosen]
    BY DEF Check
  <1>3. PICK next : next = [run[i] EXCEPT !.stage = stage]
    OBVIOUS
  <1>4. /\ next \in Calls /\ next.stage = stage
        /\ next.chosen = run[i].chosen /\ next.marked = run[i].marked
    BY <1>3, GotoFields, StagesOfTheCode
  <1>5. run' = [run EXCEPT ![i] = next]
    BY <1>2, <1>3 DEF Goto
  <1>6. ASSUME lapsed = {}, stage = "checked",
               NEW j \in Integrations \ {i}, Did(j), run[j].stage # "dead"
        PROVE  next.chosen \cap records[j].chosen = {}
    <2>1. run[j].stage \notin Holding
      BY <1>1, <1>6, OneRuns, StagesOfTheCode
    <2>2. run[j].stage \in Past
      BY <1>6 DEF RecordsInv, WorkIsClosed
    <2>3. run[j].stage = "done"
      BY <1>6, <2>1, <2>2, StagesOfTheCode DEF Past
    <2>4. \A c \in records[j].chosen : Closed(c)
      BY <1>6, <2>3 DEF RecordsInv, WorkIsClosed
    <2>5. \A c \in next.chosen : sets[c].status = "open"
      BY <1>2, <1>4, <1>6 DEF Usable
    <2> QED BY <2>4, <2>5 DEF Closed
  <1>7. CASE records' = records
    <2>1. records' = [records EXCEPT ![i] = records[i]] /\ records[i] \in Records
      BY <1>7 DEF TypeOK
    <2>2. RecordFits(records[i], next)
      BY <1>1, <1>4, RecordFitsCall DEF RecordFits
    <2> QED BY <1>1, <1>4, <1>5, <1>6, <2>1, <2>2, EarlyStep DEF Before
  <1>8. CASE /\ stage = "releasing"
             /\ records' = [records EXCEPT ![i].status = "failed",
                                           ![i].chosen = run[i].chosen]
    <2>1. PICK r : r = [records[i] EXCEPT !.status = "failed", !.chosen = run[i].chosen]
      OBVIOUS
    <2>2. r \in Records /\ r.status = "failed" /\ r.applied = records[i].applied
      BY <2>1 DEF TypeOK, Records, RecordStatuses, Calls
    <2>3. records' = [records EXCEPT ![i] = r]
      BY <1>8, <2>1
    <2>4. RecordFits(r, next)
      BY <1>4, <1>8, <2>2 DEF RecordFits
    <2> QED BY <1>1, <1>4, <1>5, <1>8, <2>2, <2>3, <2>4, EarlyStep DEF Before
  <1> QED BY <1>2, <1>7, <1>8

LEMMA PrepareRecords ==
    ASSUME TypeOK, RecordsInv, NEW i \in Integrations, Prepare(i)
    PROVE  RecordsInv'
  <1>1. /\ run[i].stage = "checked" /\ run[i].stage \notin Past /\ run[i].stage \in Before
        /\ sets' = sets /\ undo' = undo /\ lapsed' = lapsed
    BY DEF Prepare, Past, Before
  <1>2. PICK next : next = [run[i] EXCEPT !.stage = "prepared", !.snapshot = tree]
    OBVIOUS
  <1>3. PICK r : r = [records[i] EXCEPT !.status = "applying", !.chosen = run[i].chosen]
    OBVIOUS
  <1>4. run' = [run EXCEPT ![i] = next] /\ records' = [records EXCEPT ![i] = r]
    BY <1>2, <1>3 DEF Prepare
  <1>5. /\ next \in Calls /\ next.stage = "prepared"
        /\ next.chosen = run[i].chosen /\ next.marked = run[i].marked
    BY <1>2, StagesOfTheCode DEF TypeOK, Calls
  <1>6. r \in Records /\ r.applied = records[i].applied
    BY <1>3 DEF TypeOK, Records, RecordStatuses, Calls
  <1>7. RecordFits(r, next)
    BY <1>5 DEF RecordFits
  <1> QED BY <1>1, <1>4, <1>5, <1>6, <1>7, UsedOnce, EarlyStep

LEMMA CompensateRecords ==
    ASSUME TypeOK, RecordsInv, NEW i \in Integrations, Compensate(i)
    PROVE  RecordsInv'
  <1>1. /\ run[i].stage = "failing" /\ run[i].stage \notin Past
        /\ sets' = sets /\ undo' = undo /\ lapsed' = lapsed
        /\ Goto(i, "releasing")
    BY DEF Compensate, Past
  <1>2. PICK status \in {"failed", "needs_review"} :
          records' = [records EXCEPT ![i].status = status]
    BY DEF Compensate
  <1>3. PICK next : next = [run[i] EXCEPT !.stage = "releasing"]
    OBVIOUS
  <1>4. PICK r : r = [records[i] EXCEPT !.status = status]
    OBVIOUS
  <1>5. run' = [run EXCEPT ![i] = next] /\ records' = [records EXCEPT ![i] = r]
    BY <1>1, <1>2, <1>3, <1>4 DEF Goto
  <1>6. next \in Calls /\ next.stage = "releasing" /\ next.marked = run[i].marked
    BY <1>3, GotoFields, StagesOfTheCode
  <1>7. r \in Records /\ r.applied = records[i].applied /\ r.status = status
    BY <1>4 DEF TypeOK, Records, RecordStatuses
  <1>8. RecordFits(r, next) /\ next.stage \notin Before
    BY <1>6, <1>7 DEF RecordFits, Before
  <1> QED BY <1>1, <1>5, <1>6, <1>7, <1>8, EarlyStep

LEMMA FinishRecords ==
    ASSUME TypeOK, LeaseInv, RecordsInv, NEW i \in Integrations, Finish(i)
    PROVE  RecordsInv'
  <1>1. /\ run[i].stage = "verified" /\ run[i].stage \notin Past /\ run[i].stage \in Before
        /\ sets' = sets /\ undo' = undo /\ lapsed' = lapsed
        /\ Goto(i, "finished")
    BY DEF Finish, Past, Before
  <1>2. PICK r : /\ r \in Records /\ r.chosen = run[i].chosen
                 /\ r.status \in {"integrated", "needs_review"}
                 /\ records' = [records EXCEPT ![i] = r]
    <2>1. PICK status \in {"integrated", "needs_review"} :
             records' = [records EXCEPT ![i] =
               [status |-> status, chosen |-> run[i].chosen,
                applied |-> ChosenFiles(run[i].chosen)]]
      BY DEF Finish
    <2>2. run[i].chosen \in SUBSET ChangeSets
      BY RecordFields
    <2>3. ChosenFiles(run[i].chosen) \in SUBSET Files
      BY <2>2, ChosenFilesAreTyped DEF TypeOK
    <2>4. PICK r : r = [status |-> status, chosen |-> run[i].chosen,
                        applied |-> ChosenFiles(run[i].chosen)]
      OBVIOUS
    <2>5. r \in Records
      BY <2>2, <2>3, <2>4 DEF Records, RecordStatuses
    <2> QED BY <2>1, <2>4, <2>5
  <1>3. PICK next : next = [run[i] EXCEPT !.stage = "finished"]
    OBVIOUS
  <1>4. run' = [run EXCEPT ![i] = next]
    BY <1>1, <1>3 DEF Goto
  <1>5. /\ next \in Calls /\ next.stage = "finished"
        /\ next.chosen = run[i].chosen /\ next.marked = run[i].marked
    BY <1>3, GotoFields, StagesOfTheCode
  <1>6. RecordFits(r, next)
    BY <1>2, <1>5 DEF RecordFits, Settled
  <1>7. \A c \in next.marked : Closed(c)'
    BY <1>1, <1>5, RecordFields, SameSets DEF RecordsInv, MarkedAreClosed
  <1>8. next.stage \in Past /\ next.stage \notin Before \cup {"releasing", "done"}
    BY <1>5 DEF Past, Before
  <1>9. ASSUME lapsed = {}, NEW j \in Integrations \ {i}
        PROVE  /\ run[j].stage \notin Before
               /\ Did(j) /\ run[j].stage # "dead" => records[j].chosen \cap r.chosen = {}
    <2>1. Before \subseteq Holding
      BY DEF Before, Holding
    <2>2. run[j].stage \notin Before
      BY <1>1, <1>9, <2>1, OneRuns
    <2> QED BY <1>1, <1>2, <1>9, <2>2, UsedOnce
  <1> QED BY <1>1, <1>2, <1>4, <1>5, <1>6, <1>7, <1>8, <1>9, SameSets, CallKeepsRecords

LEMMA MarkRecords ==
    ASSUME TypeOK, RecordsInv, NEW i \in Integrations, NEW c \in ChangeSets, Mark(i, c)
    PROVE  RecordsInv'
  <1> DEFINE stage == IF run[i].marked \cup {c} = run[i].chosen
                      THEN "releasing" ELSE "finished"
  <1>1. /\ run[i].stage = "finished" /\ run[i].stage \in Past
        /\ undo' = undo /\ lapsed' = lapsed /\ records' = records
        /\ sets' = [sets EXCEPT ![c].status = "integrated", ![c].by = i]
        /\ run' = [run EXCEPT ![i].marked = @ \cup {c}, ![i].stage = stage]
    BY DEF Mark, Past
  <1>2. PICK next : next = [run[i] EXCEPT !.marked = @ \cup {c}, !.stage = stage]
    OBVIOUS
  <1>3. run' = [run EXCEPT ![i] = next]
    BY <1>1, <1>2 DEF TypeOK
  <1>4. stage \in Stages /\ stage \in {"releasing", "finished"}
    BY StagesOfTheCode
  <1>5. /\ next \in Calls /\ next.stage = stage /\ next.chosen = run[i].chosen
        /\ next.marked = run[i].marked \cup {c}
    <2> HIDE DEF stage
    <2> QED BY <1>2, <1>4 DEF TypeOK, Calls
  <1>6. records' = [records EXCEPT ![i] = records[i]] /\ records[i] \in Records
    BY <1>1 DEF TypeOK
  <1>7. records[i].status \in Settled /\ records[i].chosen = run[i].chosen
    BY <1>1, RecordFitsCall DEF RecordFits
  <1>8. \A d \in ChangeSets :
           /\ sets'[d].status = IF d = c THEN "integrated" ELSE sets[d].status
           /\ sets'[d].by = IF d = c THEN i ELSE sets[d].by
    BY <1>1 DEF TypeOK, StoredSets
  <1>9. \A d \in ChangeSets : Closed(d) => Closed(d)'
    BY <1>8 DEF Closed
  <1>10. \A d \in next.marked : Closed(d)'
    BY <1>5, <1>8, <1>9, RecordFields DEF RecordsInv, MarkedAreClosed, Closed
  <1>11. next.stage = "releasing" => \A d \in records[i].chosen : Closed(d)'
    BY <1>5, <1>7, <1>10
  <1>12. /\ next.stage \in Past /\ next.stage # "done" /\ next.stage \notin Before
         /\ next.stage # "dead"
    BY <1>4, <1>5 DEF Past, Before
  <1>13. RecordFits(records[i], next)
    BY <1>4, <1>5, <1>7 DEF RecordFits, Settled
  <1>14. Listed(i, records[i]) =>
           /\ next.stage \in Past
           /\ next.stage \in {"releasing", "done"} => \A d \in records[i].chosen : Closed(d)'
    BY <1>11, <1>12
  <1>15. \A d \in ChangeSets :
            /\ Closed(d) => Closed(d)'
            /\ sets'[d].status = "integrated" =>
                 \/ sets[d].status = "integrated" /\ sets'[d].by = sets[d].by
                 \/ sets'[d].by = i /\ next.stage \in Past /\ records[i].status \in Settled
    BY <1>7, <1>8, <1>9, <1>12
  <1>16. Listed(i, records[i]) => Did(i) /\ run[i].stage # "dead"
    BY <1>1 DEF Listed, Did
  <1>17. next \in Calls /\ undo' = undo /\ lapsed' = lapsed
    BY <1>1, <1>5
  <1> HIDE DEF stage
  <1> QED
    BY <1>3, <1>6, <1>10, <1>12, <1>13, <1>14, <1>15, <1>16, <1>17, CallKeepsRecords

LEMMA EndedFields ==
    ASSUME TypeOK, LeaseInv, NEW i \in Integrations, NEW stage \in Stages, NEW next,
           next = Ended(i, stage)
    PROVE  next \in Calls /\ next.stage = stage /\ next.chosen = {} /\ next.marked = {}
  <1>1. next \in Calls /\ next.stage = stage
    BY EndedIsTyped
  <1>2. run[i] \in Calls
    BY DEF TypeOK
  <1> QED BY <1>1, <1>2 DEF Ended, Calls

LEMMA ReleaseRecords ==
    ASSUME TypeOK, LeaseInv, RecordsInv, NEW i \in Integrations, Release(i)
    PROVE  RecordsInv'
  <1> DEFINE stage == IF run[i].stage = "throwing" THEN "thrown" ELSE "done"
  <1>1. /\ run[i].stage \in {"releasing", "throwing"}
        /\ sets' = sets /\ undo' = undo /\ lapsed' = lapsed /\ records' = records
    BY DEF Release
  <1>2. PICK next : next = Ended(i, stage)
    OBVIOUS
  <1>3. stage \in Stages
    BY DEF Stages
  <1>4. run' = [run EXCEPT ![i] = next]
    BY <1>2 DEF Release
  <1>5. next \in Calls /\ next.stage = stage /\ next.chosen = {} /\ next.marked = {}
    BY <1>2, <1>3, EndedFields
  <1>6. records' = [records EXCEPT ![i] = records[i]] /\ records[i] \in Records
    BY <1>1 DEF TypeOK
  <1>7. RecordFits(records[i], next)
    BY <1>1, <1>5, RecordFitsCall DEF RecordFits
  <1>8. CASE run[i].stage = "throwing"
    BY <1>1, <1>4, <1>5, <1>6, <1>7, <1>8, EarlyStep, RecordFields, NothingListed, SameSets,
       CallKeepsRecords DEF Past, Before
  <1>9. CASE run[i].stage = "releasing"
    <2>1. next.stage = "done" /\ next.stage \in Past /\ next.stage \notin Before
      BY <1>5, <1>9 DEF Past, Before
    <2>2. Listed(i, records[i]) => Did(i)
      BY DEF Listed, Did
    <2>3. Listed(i, records[i]) => \A c \in records[i].chosen : Closed(c)'
      BY <1>1, <1>9, <2>2, RecordFields, SameSets DEF RecordsInv, WorkIsClosed
    <2>4. run[i].stage # "dead" /\ \A c \in next.marked : Closed(c)'
      BY <1>5, <1>9
    <2> QED
      BY <1>1, <1>4, <1>5, <1>6, <1>7, <2>1, <2>2, <2>3, <2>4, SameSets, CallKeepsRecords
  <1> QED BY <1>1, <1>8, <1>9

\* The steps of integrate that only name the next stage.
LEMMA StageRecords ==
    ASSUME TypeOK, RecordsInv, NEW i \in Integrations,
           RefuseSamePath(i) \/ Apply(i) \/ ReadBack(i) \/ VerificationThrows(i)
    PROVE  RecordsInv'
  <1>1. PICK stage \in {"written", "failing", "verified", "throwing"} :
          /\ Goto(i, stage)
          /\ stage \in {"written", "verified"} => run[i].stage \in {"prepared", "written"}
    BY DEF RefuseSamePath, Apply, ReadBack, VerificationThrows
  <1>2. run[i].stage \in {"prepared", "written", "verified"}
        /\ UNCHANGED <<sets, records, undo, lapsed>>
    BY DEF RefuseSamePath, Apply, ReadBack, VerificationThrows
  <1>3. stage \in Stages /\ stage # "finished" /\ run[i].stage \notin Past
    BY <1>1, <1>2, StagesOfTheCode DEF Past
  <1>4. stage \in Before => run[i].stage \in Before
    BY <1>1, <1>2 DEF Before
  <1> QED BY <1>1, <1>2, <1>3, <1>4, GotoKeepsRecords

LEMMA IntegrateRecords ==
    ASSUME TypeOK, LeaseInv, RecordsInv, NEW i \in Integrations, Integrate(i)
    PROVE  RecordsInv'
  BY AcquireRecords, CheckRecords, PrepareRecords, StageRecords, CompensateRecords,
     FinishRecords, MarkRecords, ReleaseRecords DEF Integrate

LEMMA DraftRecords ==
    ASSUME TypeOK, RecordsInv, NEW c \in ChangeSets, Draft(c) PROVE RecordsInv'
  <1>1. /\ run' = run /\ records' = records /\ undo' = undo /\ lapsed' = lapsed
        /\ sets[c].status = "none"
    BY DEF Draft
  <1>2. \A d \in ChangeSets :
           \/ sets'[d] = sets[d]
           \/ d = c /\ sets'[d].status = "open"
    BY DEF Draft, TypeOK, StoredSets
  <1>3. \A d \in ChangeSets :
           /\ Closed(d) => Closed(d)'
           /\ sets'[d].status = "integrated" =>
                sets[d].status = "integrated" /\ sets'[d].by = sets[d].by
    BY <1>1, <1>2 DEF Closed
  <1>4. \A j \in Integrations : Did(j)' => Did(j)
    BY <1>1 DEF Did
  <1> QED BY <1>1, <1>3, <1>4, AsideKeepsRecords

LEMMA AgreeRecords ==
    ASSUME TypeOK, RecordsInv, NEW i \in Integrations, AgreeToRollback(i) PROVE RecordsInv'
  <1>1. /\ run' = run /\ records' = records /\ sets' = sets /\ lapsed' = lapsed
        /\ undo' = [of |-> i, applied |-> records[i].applied]
    BY DEF AgreeToRollback
  <1>2. \A j \in Integrations : Did(j)' => Did(j)
    BY <1>1 DEF Did
  <1> QED BY <1>1, <1>2, SameSets, AsideKeepsRecords

LEMMA RollBackRecords ==
    ASSUME TypeOK, RecordsInv, NEW i \in Integrations, RollBack(i) PROVE RecordsInv'
  <1>1. run' = run /\ undo' = NoUndo /\ lapsed' = lapsed /\ undo.of = i
    BY DEF RollBack
  <1>2. \A j \in Integrations :
           /\ records'[j].chosen = records[j].chosen
           /\ records'[j].status \in {records[j].status, "rolled_back"}
           /\ \/ records'[j].applied = records[j].applied
              \/ j = i /\ records'[j].applied = undo.applied
    BY DEF RollBack, TypeOK, Records
  <1>3. \A d \in ChangeSets :
           sets'[d] = sets[d] \/ sets'[d].status = "rolled_back"
    BY DEF RollBack, TypeOK, StoredSets
  <1>4. \A d \in ChangeSets :
           /\ Closed(d) => Closed(d)'
           /\ sets'[d].status = "integrated" =>
                sets[d].status = "integrated" /\ sets'[d].by = sets[d].by
    BY <1>3 DEF Closed
  <1>5. \A j \in Integrations : Did(j)' => Did(j)
    BY <1>1, <1>2 DEF Did, NoUndo
  <1>6. \A j \in Integrations :
           records'[j].status = records[j].status \/ records'[j].status \in Settled
    BY <1>2 DEF Settled
  <1> QED BY <1>1, <1>2, <1>4, <1>5, <1>6, AsideKeepsRecords

LEMMA InterruptRecords ==
    ASSUME TypeOK, RecordsInv, NEW i \in Integrations, Interrupt(i) PROVE RecordsInv'
  <1>1. run' = run /\ undo' = undo /\ lapsed' = lapsed /\ sets' = sets
    BY DEF Interrupt
  <1>2. \A j \in Integrations :
           /\ records'[j].chosen = records[j].chosen
           /\ records'[j].status \in {records[j].status, "interrupted"}
           /\ records'[j].applied \in {records[j].applied, {}}
    BY DEF Interrupt, TypeOK, Records
  <1>3. \A j \in Integrations : Did(j)' => Did(j)
    BY <1>1, <1>2 DEF Did
  <1>4. \A j \in Integrations :
           records'[j].status = records[j].status \/ records'[j].status \in Settled
    BY <1>2 DEF Settled
  <1> QED BY <1>1, <1>2, <1>3, <1>4, SameSets, AsideKeepsRecords

\* Steps that change no table.
LEMMA QuietRecords ==
    ASSUME TypeOK, RecordsInv,
           \/ ListInterrupted \/ LeaseExpires \/ UNCHANGED vars
           \/ \E edit \in Edits : Edit(edit[1], edit[2])
    PROVE  RecordsInv'
  <1>1. /\ run' = run /\ records' = records /\ sets' = sets /\ undo' = undo
        /\ lapsed \subseteq lapsed'
    BY DEF ListInterrupted, LeaseExpires, Edit, vars
  <1>2. \A j \in Integrations : Did(j)' => Did(j)
    BY <1>1 DEF Did
  <1> QED BY <1>1, <1>2, SameSets, AsideKeepsRecords

\* After a restart a call stands where it stood, or was cut off.
LEMMA CutOff ==
    ASSUME TypeOK, LeaseInv, Crash
    PROVE  \A j \in Integrations :
              \/ /\ run[j].stage \in Holding
                 /\ run'[j].stage = "dead" /\ run'[j].marked = {}
              \/ /\ run[j].stage \notin Holding
                 /\ run'[j].stage = run[j].stage /\ run'[j].chosen = run[j].chosen
                 /\ run'[j].marked = run[j].marked
  <1> DEFINE base(j) == IF j \in Running THEN Ended(j, "dead") ELSE run[j]
  <1> SUFFICES ASSUME NEW j \in Integrations
               PROVE  \/ /\ run[j].stage \in Holding
                         /\ run'[j].stage = "dead" /\ run'[j].marked = {}
                      \/ /\ run[j].stage \notin Holding
                         /\ run'[j].stage = run[j].stage
                         /\ run'[j].chosen = run[j].chosen
                         /\ run'[j].marked = run[j].marked
    OBVIOUS
  <1>1. run' = [k \in Integrations |-> [base(k) EXCEPT !.snapshot = NoSnapshot]]
    BY DEF Crash
  <1>2. PICK b : b = base(j)
    OBVIOUS
  <1>3. run'[j] = [b EXCEPT !.snapshot = NoSnapshot]
    BY <1>1, <1>2
  <1>4. CASE run[j].stage \in Holding
    <2>1. b = Ended(j, "dead")
      BY <1>2, <1>4 DEF Running
    <2>2. b \in Calls /\ b.stage = "dead" /\ b.marked = {}
      BY <2>1, EndedFields DEF Stages
    <2> HIDE DEF base
    <2> QED BY <1>3, <1>4, <2>2 DEF Calls
  <1>5. CASE run[j].stage \notin Holding
    <2>1. b = run[j] /\ b \in Calls
      BY <1>2, <1>5, RecordFields DEF Running
    <2> HIDE DEF base
    <2> QED BY <1>3, <1>5, <2>1 DEF Calls
  <1> QED BY <1>4, <1>5

LEMMA CrashRecords ==
    ASSUME TypeOK, LeaseInv, RecordsInv, Crash PROVE RecordsInv'
  <1>1. /\ sets' = sets /\ records' = records /\ undo' = NoUndo /\ lapsed' = lapsed
    BY DEF Crash
  <1>2. \A j \in Integrations :
           \/ run'[j].stage = "dead" /\ run'[j].marked = {}
           \/ /\ run[j].stage \notin Holding
              /\ run'[j].stage = run[j].stage /\ run'[j].chosen = run[j].chosen
              /\ run'[j].marked = run[j].marked
    BY CutOff
  <1>3. \A j \in Integrations : Did(j)' => Did(j)
    BY <1>1 DEF Did, NoUndo
  <1>4. \A j \in Integrations : run[j].stage \in Past => run'[j].stage \in Past
    BY <1>2 DEF Past
  <1>5. RecordsFollowCalls'
    <2> SUFFICES ASSUME NEW j \in Integrations PROVE RecordFits(records[j], run'[j])
      BY <1>1 DEF RecordsFollowCalls
    <2> QED BY <1>2, RecordFitsCall, StagesOfTheCode DEF RecordFits
  <1>6. IntegratedByItsCall'
    BY <1>1, <1>4 DEF RecordsInv, IntegratedByItsCall
  <1>7. MarkedAreClosed'
    BY <1>1, <1>2 DEF RecordsInv, MarkedAreClosed, Closed
  <1>8. WorkIsClosed'
    <2> SUFFICES ASSUME NEW j \in Integrations, Did(j)'
                 PROVE  /\ run'[j].stage \in Past
                        /\ run'[j].stage \in {"releasing", "done"} =>
                             \A c \in records[j].chosen : Closed(c)
      BY <1>1 DEF WorkIsClosed, Closed
    <2>1. /\ run[j].stage \in Past
          /\ run[j].stage \in {"releasing", "done"} => \A c \in records[j].chosen : Closed(c)
      BY <1>3 DEF RecordsInv, WorkIsClosed
    <2> QED BY <1>2, <1>4, <2>1
  <1>9. NoSecondUse'
    <2> SUFFICES ASSUME lapsed = {}, NEW j \in Integrations, NEW k \in Integrations,
                        j # k, Did(j)', run'[j].stage # "dead"
                 PROVE  /\ run'[k].stage \notin Before
                        /\ Did(k)' /\ run'[k].stage # "dead" =>
                             records[k].chosen \cap records[j].chosen = {}
      BY <1>1 DEF NoSecondUse
    <2>1. run'[k].stage \notin Before
      BY <1>2, StagesOfTheCode DEF Before
    <2>2. Did(j) /\ run[j].stage # "dead" /\ (Did(k)' => Did(k))
      BY <1>2, <1>3
    <2>3. run'[k].stage # "dead" => run[k].stage # "dead"
      BY <1>2
    <2> QED BY <2>1, <2>2, <2>3 DEF RecordsInv, NoSecondUse
  <1> QED BY <1>5, <1>6, <1>7, <1>8, <1>9 DEF RecordsInv

LEMMA RecordsStep ==
    ASSUME TypeOK, LeaseInv, RecordsInv, [Next]_vars PROVE RecordsInv'
  BY IntegrateRecords, DraftRecords, AgreeRecords, RollBackRecords, InterruptRecords,
     QuietRecords, CrashRecords DEF Next, Rollback, Recover

-----------------------------------------------------------------------------
\* Snapshots

\* The path a set names never changes.
LEMMA PathsStay ==
    ASSUME TypeOK, [Next]_vars
    PROVE  \A c \in ChangeSets : sets'[c].file.path = sets[c].file.path
  <1>1. ASSUME NEW d \in ChangeSets, Draft(d)
        PROVE  \A c \in ChangeSets : sets'[c].file.path = sets[c].file.path
    BY <1>1 DEF Draft, TypeOK, StoredSets, Files
  <1>2. ASSUME NEW i \in Integrations, NEW d \in ChangeSets, Mark(i, d)
        PROVE  \A c \in ChangeSets : sets'[c].file.path = sets[c].file.path
    BY <1>2 DEF Mark, TypeOK, StoredSets
  <1>3. ASSUME NEW i \in Integrations, RollBack(i)
        PROVE  \A c \in ChangeSets : sets'[c].file.path = sets[c].file.path
    BY <1>3 DEF RollBack, TypeOK, StoredSets
  <1>4. CASE sets' = sets
    BY <1>4
  <1>5. \/ sets' = sets
        \/ \E d \in ChangeSets : Draft(d)
        \/ \E i \in Integrations : RollBack(i) \/ \E d \in ChangeSets : Mark(i, d)
    BY DEF Next, Integrate, Acquire, Check, Prepare, RefuseSamePath, Apply, ReadBack,
           Compensate, Finish, VerificationThrows, Release, Rollback, AgreeToRollback,
           Recover, ListInterrupted, Interrupt, Edit, LeaseExpires, Crash, vars
  <1> QED BY <1>1, <1>2, <1>3, <1>4, <1>5

\* Writing a call's files leaves the other paths alone.
LEMMA AfterSpares ==
    ASSUME TypeOK, NEW chosen \in SUBSET ChangeSets, NEW files \in SUBSET ChosenFiles(chosen),
           NEW x \in Paths, \A c \in chosen : sets[c].file.path # x
    PROVE  After(files)[x] = tree[x]
  BY DEF After, ChosenFiles

\* The step leaves the tree alone off the paths of the call i.
Spares(i) ==
    \A x \in Paths :
       (\A c \in run[i].chosen : sets[c].file.path # x) => tree'[x] = tree[x]

\* A call keeps its snapshot good, or takes a new one, or may not restore it.
StaysWatched(i) ==
    \/ run'[i].snapshot = tree'
    \/ /\ run[i].stage \in Watched
       /\ i \in disturbed => i \in disturbed'
       /\ run'[i].chosen = run[i].chosen
       /\ run'[i].snapshot = run[i].snapshot
       /\ Spares(i)

LEMMA SnapshotsStay ==
    ASSUME TypeOK, SnapshotsHold, [Next]_vars,
           lapsed' = {} => lapsed = {},
           \A i \in Integrations :
              /\ run'[i].stage \in Watched /\ lapsed' = {} /\ i \notin disturbed'
              => StaysWatched(i)
    PROVE  SnapshotsHold'
  <1> SUFFICES ASSUME NEW i \in Integrations, run'[i].stage \in Watched,
                      lapsed' = {}, i \notin disturbed',
                      NEW x \in Paths, \A c \in run'[i].chosen : sets'[c].file.path # x
               PROVE  tree'[x] = run'[i].snapshot[x]
    BY DEF SnapshotsHold, Watched
  <1>1. CASE run'[i].snapshot = tree'
    BY <1>1
  <1>2. CASE /\ run[i].stage \in Watched
             /\ i \in disturbed => i \in disturbed'
             /\ run'[i].chosen = run[i].chosen
             /\ run'[i].snapshot = run[i].snapshot
             /\ Spares(i)
    <2>1. \A c \in run[i].chosen : sets[c].file.path # x
      BY <1>2, PathsStay, RecordFields
    <2>2. tree'[x] = tree[x]
      BY <1>2, <2>1 DEF Spares
    <2>3. tree[x] = run[i].snapshot[x]
      BY <1>2, <2>1 DEF SnapshotsHold
    <2> QED BY <1>2, <2>2, <2>3
  <1> QED BY <1>1, <1>2 DEF StaysWatched

\* A step of the call i of integrate that writes the tree is alone to run.
LEMMA CallKeepsSnapshots ==
    ASSUME TypeOK, LeaseInv, SnapshotsHold, [Next]_vars,
           NEW i \in Integrations, lapsed' = lapsed, disturbed \subseteq disturbed' \cup {i},
           \A j \in Integrations \ {i} : run'[j] = run[j],
           tree' = tree \/ run[i].stage \in Holding,
           run'[i].stage \in Watched => StaysWatched(i)
    PROVE  SnapshotsHold'
  <1>1. ASSUME NEW j \in Integrations \ {i}, run'[j].stage \in Watched, lapsed' = {}
        PROVE  StaysWatched(j)
    <2>1. run[j].stage \in Holding /\ run[j].stage \in Watched
      BY <1>1 DEF Watched, Holding
    <2>2. tree' = tree
      BY <1>1, <2>1, OneRuns
    <2> QED BY <1>1, <2>1, <2>2 DEF StaysWatched, Spares
  <1> QED BY <1>1, SnapshotsStay

LEMMA GotoMoves ==
    ASSUME TypeOK, NEW i \in Integrations, NEW stage, Goto(i, stage)
    PROVE  /\ run'[i].stage = stage
           /\ run'[i].chosen = run[i].chosen /\ run'[i].snapshot = run[i].snapshot
           /\ \A j \in Integrations \ {i} : run'[j] = run[j]
  BY DEF TypeOK, Calls, Goto

\* Steps of integrate after which the call will not restore its snapshot, or not yet.
LEMMA UnwatchedSnapshots ==
    ASSUME TypeOK, LeaseInv, SnapshotsHold, [Next]_vars, NEW i \in Integrations,
           \/ \E chosen \in SUBSET ChangeSets : Acquire(i, chosen)
           \/ Check(i) \/ RefuseSamePath(i) \/ Compensate(i) \/ Finish(i)
           \/ VerificationThrows(i) \/ \E c \in ChangeSets : Mark(i, c)
           \/ Release(i)
    PROVE  SnapshotsHold'
  <1>1. lapsed' = lapsed /\ disturbed \subseteq disturbed' \cup {i}
    BY DEF Acquire, Check, RefuseSamePath, Compensate, Finish, VerificationThrows, Mark,
           Release
  <1>2. tree' = tree \/ run[i].stage \in Holding
    BY StagesOfTheCode
       DEF Acquire, Check, RefuseSamePath, Compensate, Finish, VerificationThrows, Mark,
           Release
  <1>3. \A j \in Integrations \ {i} : run'[j] = run[j]
    BY DEF TypeOK, Goto, Acquire, Check, RefuseSamePath, Compensate, Finish,
           VerificationThrows, Mark, Release
  <1>4. run'[i].stage \notin Watched
    <2>1. ASSUME NEW chosen \in SUBSET ChangeSets, Acquire(i, chosen)
          PROVE  run'[i].stage = "locked"
      BY <2>1 DEF TypeOK, Calls, Acquire
    <2>2. ASSUME Check(i) \/ RefuseSamePath(i) \/ Compensate(i) \/ Finish(i)
                 \/ VerificationThrows(i)
          PROVE  run'[i].stage \in {"checked", "releasing", "throwing", "finished"}
      BY <2>2, GotoMoves
         DEF Check, RefuseSamePath, Compensate, Finish, VerificationThrows
    <2>3. ASSUME NEW c \in ChangeSets, Mark(i, c)
          PROVE  run'[i].stage \in {"releasing", "finished"}
      BY <2>3 DEF TypeOK, Calls, Mark
    <2>4. ASSUME Release(i) PROVE run'[i].stage \in {"thrown", "done"}
      <3>1. PICK stage \in {"thrown", "done"} : run' = [run EXCEPT ![i] = Ended(i, stage)]
        BY <2>4 DEF Release
      <3> QED BY <3>1, EndedIsTyped DEF TypeOK, Stages
    <2> QED BY <2>1, <2>2, <2>3, <2>4 DEF Watched
  <1> QED BY <1>1, <1>2, <1>3, <1>4, CallKeepsSnapshots

LEMMA PrepareSnapshots ==
    ASSUME TypeOK, LeaseInv, SnapshotsHold, [Next]_vars, NEW i \in Integrations, Prepare(i)
    PROVE  SnapshotsHold'
  <1>1. /\ tree' = tree /\ lapsed' = lapsed /\ disturbed' = disturbed
        /\ run'[i].snapshot = tree
        /\ \A j \in Integrations \ {i} : run'[j] = run[j]
    BY DEF Prepare, TypeOK, Calls
  <1> QED BY <1>1, CallKeepsSnapshots DEF StaysWatched

LEMMA ApplySnapshots ==
    ASSUME TypeOK, LeaseInv, SnapshotsHold, [Next]_vars, NEW i \in Integrations, Apply(i)
    PROVE  SnapshotsHold'
  <1>1. PICK stage \in {"written", "failing"} : Goto(i, stage)
    BY DEF Apply
  <1>2. PICK files \in SUBSET ChosenFiles(run[i].chosen) : tree' = After(files)
    BY DEF Apply
  <1>3. /\ lapsed' = lapsed /\ disturbed' = disturbed
        /\ run[i].stage \in Watched /\ run[i].stage \in Holding
    BY StagesOfTheCode DEF Apply, Watched
  <1>4. Spares(i)
    BY <1>2, AfterSpares, RecordFields DEF Spares
  <1> QED BY <1>1, <1>3, <1>4, GotoMoves, CallKeepsSnapshots DEF StaysWatched

LEMMA ReadBackSnapshots ==
    ASSUME TypeOK, LeaseInv, SnapshotsHold, [Next]_vars, NEW i \in Integrations, ReadBack(i)
    PROVE  SnapshotsHold'
  <1>1. PICK stage \in {"verified", "failing"} : Goto(i, stage)
    BY DEF ReadBack
  <1>2. /\ tree' = tree /\ lapsed' = lapsed /\ disturbed' = disturbed
        /\ run[i].stage \in Watched
    BY DEF ReadBack, Watched
  <1> QED BY <1>1, <1>2, GotoMoves, CallKeepsSnapshots DEF StaysWatched, Spares

\* Steps that move no call: those that write the tree are on record as disturbing
\* whoever runs.
LEMMA AsideSnapshots ==
    ASSUME TypeOK, SnapshotsHold, [Next]_vars, run' = run, lapsed \subseteq lapsed',
           \/ tree' = tree /\ disturbed' = disturbed
           \/ disturbed' = disturbed \cup Running
    PROVE  SnapshotsHold'
  <1>1. ASSUME NEW i \in Integrations, run'[i].stage \in Watched, i \notin disturbed'
        PROVE  StaysWatched(i)
    <2>1. i \in Running
      BY <1>1 DEF Watched, Running, Holding
    <2>2. tree' = tree /\ disturbed' = disturbed
      BY <1>1, <2>1
    <2> QED BY <1>1, <2>2 DEF StaysWatched, Spares
  <1> QED BY <1>1, SnapshotsStay

LEMMA SnapshotsStep ==
    ASSUME TypeOK, LeaseInv, SnapshotsHold, [Next]_vars PROVE SnapshotsHold'
  <1>1. ASSUME NEW i \in Integrations, Integrate(i) PROVE SnapshotsHold'
    BY <1>1, UnwatchedSnapshots, PrepareSnapshots, ApplySnapshots, ReadBackSnapshots
       DEF Integrate
  <1>2. CASE \/ \E c \in ChangeSets : Draft(c)
             \/ \E i \in Integrations : Rollback(i)
             \/ Recover \/ LeaseExpires \/ UNCHANGED vars
             \/ \E edit \in Edits : Edit(edit[1], edit[2])
    <2>1. /\ run' = run /\ lapsed \subseteq lapsed'
          /\ \/ tree' = tree /\ disturbed' = disturbed
             \/ disturbed' = disturbed \cup Running
      BY <1>2 DEF Draft, Rollback, AgreeToRollback, RollBack, Recover, ListInterrupted,
                  Interrupt, LeaseExpires, Edit, vars
    <2> QED BY <2>1, AsideSnapshots
  <1>3. CASE Crash
    <2>1. \A i \in Integrations : run'[i].stage \notin Watched
      BY <1>3, CutOff DEF Watched, Holding
    <2> QED BY <1>3, <2>1, SnapshotsStay DEF Crash
  <1> QED BY <1>1, <1>2, <1>3 DEF Next

-----------------------------------------------------------------------------

LEMMA InitWork == Init => WorkInv
  <1> SUFFICES ASSUME Init PROVE WorkInv
    OBVIOUS
  <1>1. /\ \A i \in Integrations :
              /\ run[i].stage = "idle" /\ run[i].marked = {}
              /\ records[i].status = "none" /\ ~Did(i)
        /\ \A c \in ChangeSets : sets[c].status = "none"
    BY DEF Init, Did, NoUndo
  <1>2. RecordsFollowCalls /\ IntegratedByItsCall /\ MarkedAreClosed
    BY <1>1 DEF RecordsFollowCalls, RecordFits, IntegratedByItsCall, MarkedAreClosed
  <1>3. WorkIsClosed /\ NoSecondUse /\ SnapshotsHold
    BY <1>1 DEF WorkIsClosed, NoSecondUse, SnapshotsHold, Watched
  <1> QED BY <1>2, <1>3 DEF WorkInv

LEMMA WorkNext ==
    ASSUME TypeOK, LeaseInv, WorkInv, [Next]_vars PROVE WorkInv'
  <1>1. RecordsInv'
    BY RecordsStep DEF WorkInv, RecordsInv
  <1>2. SnapshotsHold'
    BY SnapshotsStep DEF WorkInv
  <1> QED BY <1>1, <1>2 DEF WorkInv, RecordsInv

LEMMA WorkHolds == Spec => [](LeaseInv /\ TypeOK /\ WorkInv)
  <1> DEFINE Inv == LeaseInv /\ TypeOK /\ WorkInv
  <1>1. Init => Inv
    BY LeaseInit, InitTypes, InitWork
  <1>2. Inv /\ [Next]_vars => Inv'
    BY NextStep, WorkNext
  <1> HIDE DEF Inv
  <1>3. Spec => []Inv
    BY <1>1, <1>2, PTL DEF Spec
  <1> QED BY <1>3 DEF Inv

\* A set is integrated at most once, unless a lease expired under a call or a
\* restart cut one off before it had marked its sets.
THEOREM SetsAreIntegratedOnce == Spec => []IntegratedOnce
  <1>1. WorkInv => IntegratedOnce
    BY DEF WorkInv, NoSecondUse, IntegratedOnce, Did
  <1> QED BY WorkHolds, <1>1, PTL

\* A record left applying has a running call, or one that threw or was cut off.
THEOREM ApplyingRecordsHaveACall == Spec => []ApplyingHasACall
  <1>1. WorkInv => ApplyingHasACall
    BY StagesOfTheCode DEF WorkInv, RecordsFollowCalls, RecordFits, ApplyingHasACall
  <1> QED BY WorkHolds, <1>1, PTL

\* A set says it was integrated only when its record says so.
THEOREM IntegratedSetsAreRecorded == Spec => []IntegratedSetsHaveARecord
  <1>1. WorkInv => IntegratedSetsHaveARecord
    BY DEF WorkInv, IntegratedByItsCall, IntegratedSetsHaveARecord, Settled
  <1> QED BY WorkHolds, <1>1, PTL

\* Only the compensation takes a failing call to its release.
LEMMA FailingIsCompensated ==
    ASSUME TypeOK, LeaseInv, [Next]_vars, NEW i \in Integrations,
           run[i].stage = "failing", run'[i].stage = "releasing"
    PROVE  Compensate(i)
  <1>1. ASSUME NEW j \in Integrations, Integrate(j) PROVE Compensate(i)
    <2>1. \A k \in Integrations \ {j} : run'[k] = run[k]
      BY <1>1 DEF TypeOK, Integrate, Goto, Acquire, Check, Prepare, RefuseSamePath, Apply,
                  ReadBack, Compensate, Finish, VerificationThrows, Mark, Release
    <2>2. j = i
      BY <2>1
    <2> QED BY <1>1, <2>2
        DEF Integrate, Acquire, Check, Prepare, RefuseSamePath, Apply, ReadBack, Finish,
            VerificationThrows, Mark, Release
  <1>2. ASSUME run' = run PROVE FALSE
    BY <1>2
  <1>3. ASSUME Crash PROVE FALSE
    BY <1>3, CutOff, StagesOfTheCode
  <1>4. \/ \E j \in Integrations : Integrate(j)
        \/ run' = run \/ Crash
    BY DEF Next, Draft, Rollback, AgreeToRollback, RollBack, Recover, ListInterrupted,
           Interrupt, LeaseExpires, Edit, vars
  <1> QED BY <1>1, <1>2, <1>3, <1>4

\* Compensation changes no file outside the change sets of its call, unless a lease
\* expired or the tree was written without the lease during the call.
THEOREM CompensationRestoresItsOwn == Spec => CompensationSparesOthers
  <1> DEFINE Inv == LeaseInv /\ TypeOK /\ WorkInv
             Spared == \A i \in Integrations :
               /\ run[i].stage = "failing" /\ run'[i].stage = "releasing"
               /\ lapsed = {} /\ i \notin disturbed
               => \A p \in Paths : tree'[p] # tree[p] =>
                      \E f \in ChosenFiles(run[i].chosen) : f.path = p
  <1>1. Inv /\ [Next]_vars => [Spared]_vars
    <2> SUFFICES ASSUME Inv, [Next]_vars, NEW i \in Integrations,
                        run[i].stage = "failing", run'[i].stage = "releasing",
                        lapsed = {}, i \notin disturbed,
                        NEW x \in Paths, tree'[x] # tree[x]
                 PROVE  \E f \in ChosenFiles(run[i].chosen) : f.path = x
      OBVIOUS
    <2>1. Compensate(i)
      BY FailingIsCompensated
    <2>2. PICK part \in SUBSET Paths : Restore(i, part)
      BY <2>1 DEF Compensate, RestoreWorks, RestoreFails
    <2>3. tree'[x] = run[i].snapshot[x]
      BY <2>2 DEF Restore
    <2>4. PICK c \in run[i].chosen : sets[c].file.path = x
      BY <2>3 DEF WorkInv, SnapshotsHold, Watched
    <2> QED BY <2>4 DEF ChosenFiles
  <1> HIDE DEF Inv, Spared
  <1>2. Spec => []Inv
    BY WorkHolds DEF Inv
  <1>3. Spec => [][Spared]_vars
    BY <1>1, <1>2, PTL DEF Spec
  <1> QED BY <1>3 DEF Spared, CompensationSparesOthers

-----------------------------------------------------------------------------
(***************************************************************************)
(* What a change set does to the tree: SourceRepository for any paths,     *)
(* programs and other writers that its assumption, ConstantsAreSound,      *)
(* allows.                                                                 *)
(*                                                                         *)
(* SourceInv has four parts.  ShapeInv: the tree is one, and every job has *)
(* the fields of its stage.  UpdateInv: what a caller loaded is what the   *)
(* tree holds, or an earlier revision of it.  RestoresInv: what a restore  *)
(* that is alone has still to write.  KeptInv: what an alone change set    *)
(* did so far can be taken back, as from what a reader sees now its undo   *)
(* leads (Leads) to what a reader saw at its start.                        *)
(***************************************************************************)

\* Paths, nodes, and what a port call makes of them

Names == UNION {{p[i] : i \in DOMAIN p} : p \in NodePaths}

LEMMA PathFacts ==
  ASSUME ConstantsAreSound, NEW p \in NodePaths
  PROVE  /\ p \in Seq(Names) /\ Len(p) \in Nat \ {0}
         /\ \A i \in 1..Len(p) : /\ SubSeq(p, 1, i) \in NodePaths
                                 /\ Len(SubSeq(p, 1, i)) = i
         /\ SubSeq(p, 1, Len(p)) = p
         /\ Len(p) > 1 => Parent(p) = SubSeq(p, 1, Len(p) - 1) /\ Parent(p) \in NodePaths
<1>1. p \in Seq(Names) /\ p # <<>>
  BY DEF ConstantsAreSound, Names
<1>2. Len(p) \in Nat \ {0} /\ SubSeq(p, 1, Len(p)) = p
  BY <1>1
<1>3. ASSUME NEW i \in 1..Len(p)
      PROVE  SubSeq(p, 1, i) \in NodePaths /\ Len(SubSeq(p, 1, i)) = i
  BY <1>1, <1>2 DEF ConstantsAreSound
<1>4. Parent(p) = SubSeq(p, 1, Len(p) - 1)
  BY <1>1, <1>2 DEF Parent, Front
<1> QED
  BY <1>1, <1>2, <1>3, <1>4

LEMMA ParentOfPrefix ==
  ASSUME ConstantsAreSound, NEW p \in NodePaths, NEW i \in 1..(Len(p) - 1)
  PROVE  Parent(SubSeq(p, 1, i + 1)) = SubSeq(p, 1, i)
<1>1. /\ p \in Seq(Names) /\ Len(p) \in Nat /\ i + 1 \in 1..Len(p)
      /\ SubSeq(p, 1, i + 1) \in NodePaths /\ Len(SubSeq(p, 1, i + 1)) = i + 1
  BY PathFacts
<1>2. Parent(SubSeq(p, 1, i + 1)) = SubSeq(SubSeq(p, 1, i + 1), 1, i)
  <2>1. ASSUME NEW q \in NodePaths, Len(q) = i + 1
        PROVE  Parent(q) = SubSeq(q, 1, i)
    <3>1. i \in Nat \ {0} /\ Len(q) > 1 /\ Len(q) - 1 = i
      BY <1>1, <2>1
    <3>2. Parent(q) = SubSeq(q, 1, Len(q) - 1)
      BY <3>1, PathFacts
    <3> QED
      BY <3>1, <3>2
  <2> QED
    BY <1>1, <2>1
<1>3. SubSeq(SubSeq(p, 1, i + 1), 1, i) = SubSeq(p, 1, i)
  BY <1>1
<1> QED
  BY <1>2, <1>3

LEMMA CommandFields ==
  ASSUME NEW do, NEW p, NEW v, NEW rev, NEW to
  PROVE  LET c == Command(do, p, v, rev, to) IN
         c.do = do /\ c.path = p /\ c.content = v /\ c.rev = rev /\ c.to = to
BY DEF Command

LEMMA Nodes ==
  /\ Nothing.type = "none" /\ Nothing.rev = 0 /\ Nothing.content = NoContent
  /\ NewDirectory.type = "directory" /\ NewDirectory.rev = 1
  /\ NewDirectory.content = NoContent
  /\ \A v, rev : /\ File(v, rev).type = "file" /\ File(v, rev).rev = rev
                 /\ File(v, rev).content = v
BY DEF Nothing, NewDirectory, File

\* A node is told by its type, but for what a file holds.
LEMMA NodeFacts ==
  ASSUME NEW t, IsTree(t), NEW p \in NodePaths
  PROVE  /\ t[p].type \in {"none", "directory", "file"}
         /\ t[p].type = "none" <=> t[p] = Nothing
         /\ t[p].type = "directory" <=> t[p] = NewDirectory
         /\ t[p].type = "file" <=> IsFile(t[p])
BY Nodes DEF IsTree, IsFile

\* What a command makes of the tree, path by path.
LEMMA DoneAt ==
  ASSUME NEW t, DOMAIN t = NodePaths, NEW cmd, IsCommand(cmd), NEW q \in NodePaths
  PROVE  /\ DOMAIN Done(t, cmd) = NodePaths
         /\ cmd.do = "create" =>
              Done(t, cmd)[q] = IF q = cmd.path THEN NewFile(cmd.content) ELSE t[q]
         /\ cmd.do = "mkdir" =>
              Done(t, cmd)[q] = IF q = cmd.path THEN NewDirectory ELSE t[q]
         /\ cmd.do = "write" =>
              Done(t, cmd)[q] = IF q = cmd.path THEN File(cmd.content, t[q].rev + 1) ELSE t[q]
         /\ cmd.do \in {"delete", "rmdir"} =>
              Done(t, cmd)[q] = IF q = cmd.path THEN Nothing ELSE t[q]
         /\ cmd.do = "move" =>
              Done(t, cmd)[q] = IF q = cmd.path THEN Nothing
                                ELSE IF q = cmd.to THEN File(t[cmd.path].content, t[cmd.path].rev + 1)
                                ELSE t[q]
<1> USE DEF IsCommand
<1>1. CASE cmd.do = "create"
  BY <1>1 DEF Done
<1>2. CASE cmd.do = "mkdir"
  BY <1>2 DEF Done
<1>3. CASE cmd.do = "write"
  BY <1>3 DEF Done
<1>4. CASE cmd.do \in {"delete", "rmdir"}
  BY <1>4 DEF Done
<1>5. CASE cmd.do = "move"
  BY <1>5 DEF Done
<1> QED
  BY <1>1, <1>2, <1>3, <1>4, <1>5

LEMMA AcceptsFacts ==
  ASSUME NEW t, NEW cmd, IsCommand(cmd), Accepts(t, cmd)
  PROVE  /\ cmd.do \in {"create", "mkdir"} => t[cmd.path].type = "none" /\ HasParent(t, cmd.path)
         /\ cmd.do = "write" => t[cmd.path].type = "file" /\ t[cmd.path].rev = cmd.rev
         /\ cmd.do = "delete" => t[cmd.path].type = "file"
         /\ cmd.do = "rmdir" => /\ t[cmd.path].type = "directory"
                                /\ \A q \in Below(cmd.path) : t[q].type = "none"
         /\ cmd.do = "move" => /\ t[cmd.path].type = "file" /\ cmd.path # cmd.to
                               /\ t[cmd.to].type = "none" /\ HasParent(t, cmd.to)
<1> USE DEF IsCommand
<1>1. CASE cmd.do \in {"create", "mkdir"}
  BY <1>1 DEF Accepts
<1>2. CASE cmd.do = "write"
  BY <1>2 DEF Accepts
<1>3. CASE cmd.do = "delete"
  BY <1>3 DEF Accepts
<1>4. CASE cmd.do = "rmdir"
  BY <1>4 DEF Accepts
<1>5. CASE cmd.do = "move"
  BY <1>5 DEF Accepts
<1> QED
  BY <1>1, <1>2, <1>3, <1>4, <1>5

\* Whoever hangs in a directory of the tree keeps it, or went with it.
LEMMA TreeStaysSound ==
  ASSUME ConstantsAreSound, NEW t, IsTree(t), NEW cmd, IsCommand(cmd), Accepts(t, cmd)
  PROVE  IsTree(Done(t, cmd))
<1> DEFINE u == Done(t, cmd)
<1>0. DOMAIN t = NodePaths /\ cmd.path \in NodePaths /\ cmd.to \in NodePaths
      /\ cmd.do \in {"create", "mkdir", "write", "delete", "rmdir", "move"}
  BY DEF IsTree, IsCommand
<1>1. DOMAIN u = NodePaths
  BY <1>0, DoneAt
<1>2. ASSUME NEW p \in NodePaths
      PROVE  u[p] \in {Nothing, NewDirectory} \/ IsFile(u[p])
  <2>1. t[p] \in {Nothing, NewDirectory} \/ IsFile(t[p])
    BY DEF IsTree
  <2>2. \A v, w : \A rev \in Nat : IsFile(File(v, 1)) /\ IsFile(File(v, rev + 1))
    BY Nodes DEF IsFile
  <2>3. t[cmd.path].type = "file" => t[cmd.path].rev \in Nat
    BY <1>0, NodeFacts DEF IsFile
  <2>4. cmd.do \in {"write", "move"} => t[cmd.path].type = "file"
    BY AcceptsFacts
  <2> HIDE DEF u
  <2>5. u[p] \in {t[p], Nothing, NewDirectory, File(cmd.content, 1),
                  File(cmd.content, t[cmd.path].rev + 1),
                  File(t[cmd.path].content, t[cmd.path].rev + 1)}
        /\ (u[p] \in {t[p], Nothing, NewDirectory, File(cmd.content, 1)}
             \/ cmd.do \in {"write", "move"})
    BY <1>0, DoneAt DEF u, NewFile
  <2> QED
    BY <2>1, <2>2, <2>3, <2>4, <2>5
<1>3. ASSUME NEW p \in NodePaths, u[p] # Nothing, Len(p) > 1
      PROVE  u[Parent(p)].type = "directory"
  <2>1. Parent(p) \in NodePaths /\ Parent(p) # p
    <3>1. Parent(p) \in NodePaths /\ Parent(p) = SubSeq(p, 1, Len(p) - 1) /\ Len(p) \in Nat
      BY <1>3, PathFacts
    <3>2. Len(p) - 1 \in 1..Len(p) /\ Len(p) - 1 # Len(p)
      BY <1>3, <3>1
    <3>3. Len(Parent(p)) = Len(p) - 1
      BY <3>1, <3>2, PathFacts
    <3> QED
      BY <3>1, <3>2, <3>3
  <2>2. p \in Below(Parent(p))
    <3>1. /\ Parent(p) = SubSeq(p, 1, Len(p) - 1) /\ Len(p) \in Nat
          /\ Len(p) - 1 \in 1..Len(p)
      BY <1>3, PathFacts
    <3>2. Len(p) = Len(Parent(p)) + 1
      BY <3>1, PathFacts
    <3> QED
      BY <3>2 DEF Below
  <2>3. t[p] # Nothing => t[Parent(p)].type = "directory"
    BY <1>3 DEF IsTree, HasParent
  <2>4. t[p] = Nothing => \/ cmd.do \in {"create", "mkdir"} /\ p = cmd.path
                          \/ cmd.do = "move" /\ p = cmd.to
    BY <1>0, <1>3, DoneAt, AcceptsFacts, Nodes
  <2>5. t[Parent(p)].type = "directory"
    BY <1>3, <2>3, <2>4, AcceptsFacts DEF HasParent
  <2>6. cmd.do = "rmdir" => Parent(p) # cmd.path
    <3>1. ASSUME cmd.do = "rmdir", Parent(p) = cmd.path PROVE FALSE
      <4>1. t[p].type = "none"
        BY <2>2, <3>1, AcceptsFacts
      <4>2. t[p] = Nothing
        BY <4>1, NodeFacts
      <4> QED
        BY <2>4, <3>1, <4>2
    <3> QED
      BY <3>1
  <2>7. u[Parent(p)] = t[Parent(p)]
    BY <1>0, <2>1, <2>5, <2>6, DoneAt, AcceptsFacts
  <2> QED
    BY <2>5, <2>7
<1> QED
  BY <1>1, <1>2, <1>3 DEF IsTree, HasParent

\* A node as it was loaded, or a later revision of the file it was.
Fits(s, n) ==
  s # Nothing => n = s \/ (IsFile(s) /\ IsFile(n) /\ n.rev > s.rev)

LEMMA FitsStays ==
  ASSUME NEW t, IsTree(t), NEW cmd, IsCommand(cmd), Accepts(t, cmd),
         NEW p \in NodePaths, NEW s, Fits(s, t[p]),
         Done(t, cmd)[p].type = "none" => t[p].type = "none"
  PROVE  Fits(s, Done(t, cmd)[p])
<1>0. DOMAIN t = NodePaths /\ cmd.do \in {"create", "mkdir", "write", "delete", "rmdir", "move"}
      /\ ~IsFile(Nothing)
  BY Nodes DEF IsTree, IsCommand, IsFile
<1>1. CASE t[p].type = "none"
  BY <1>0, <1>1, NodeFacts DEF Fits
<1>2. CASE t[p].type # "none"
  <2>1. \/ Done(t, cmd)[p] = t[p]
        \/ cmd.do = "write" /\ p = cmd.path /\ Done(t, cmd)[p] = File(cmd.content, t[p].rev + 1)
    BY <1>0, <1>2, DoneAt, AcceptsFacts, Nodes
  <2>2. CASE Done(t, cmd)[p] = t[p]
    BY <2>2
  <2>3. CASE cmd.do = "write" /\ p = cmd.path /\ Done(t, cmd)[p] = File(cmd.content, t[p].rev + 1)
    <3>1. IsFile(t[p])
      BY <2>3, AcceptsFacts, NodeFacts
    <3>2. IsFile(Done(t, cmd)[p]) /\ Done(t, cmd)[p].rev > t[p].rev
      BY <2>3, <3>1, Nodes DEF IsFile
    <3> QED
      BY <3>1, <3>2 DEF Fits, IsFile
  <2> QED
    BY <2>1, <2>2, <2>3
<1> QED
  BY <1>1, <1>2

IsSeq(s) == s \in Seq({s[i] : i \in DOMAIN s})

AreCommands(s) == IsSeq(s) /\ \A i \in DOMAIN s : IsCommand(s[i])

LEMMA SeqFacts ==
  ASSUME NEW s, IsSeq(s)
  PROVE  Len(s) \in Nat /\ DOMAIN s = 1..Len(s) /\ (s = <<>> <=> Len(s) = 0)
BY DEF IsSeq

LEMMA SeqIsSeq ==
  ASSUME NEW A, NEW s \in Seq(A)
  PROVE  IsSeq(s)
BY DEF IsSeq

LEMMA EmptyIsSeq ==
  ASSUME NEW s, s = <<>>
  PROVE  IsSeq(s) /\ Len(s) = 0 /\ AreCommands(s)
<1>1. s \in Seq({}) /\ Len(s) = 0 /\ \A i \in DOMAIN s : FALSE
  OBVIOUS
<1>2. IsSeq(s)
  BY <1>1, SeqIsSeq
<1>3. AreCommands(s)
  BY <1>1, <1>2, Zenon DEF AreCommands
<1> QED
  BY ONLY <1>1, <1>2, <1>3

LEMMA OneSeq ==
  ASSUME NEW x
  PROVE  IsSeq(<<x>>) /\ Len(<<x>>) = 1 /\ <<x>>[1] = x /\ Head(<<x>>) = x /\ Tail(<<x>>) = <<>>
BY DEF IsSeq

LEMMA TailSeq ==
  ASSUME NEW s, IsSeq(s), s # <<>>
  PROVE  /\ IsSeq(Tail(s)) /\ Len(Tail(s)) = Len(s) - 1 /\ Head(s) = s[1]
         /\ \A i \in 1..(Len(s) - 1) : Tail(s)[i] = s[i + 1]
         /\ Tail(s) = <<>> <=> Len(s) = 1
<1> DEFINE S == {s[i] : i \in DOMAIN s}
<1>1. Len(s) \in Nat \ {0} /\ DOMAIN s = 1..Len(s) /\ s \in Seq(S)
  BY SeqFacts DEF IsSeq
<1> HIDE DEF S
<1>2. Tail(s) \in Seq(S) /\ Len(Tail(s)) = Len(s) - 1
  BY <1>1
<1>3. IsSeq(Tail(s))
  BY <1>2, SeqIsSeq
<1>4. \A i \in 1..(Len(s) - 1) : Tail(s)[i] = s[i + 1]
  BY <1>1
<1>5. Head(s) = s[1]
  BY <1>1
<1>6. Tail(s) = <<>> <=> Len(s) = 1
  <2>1. Tail(s) = <<>> <=> Len(Tail(s)) = 0
    BY <1>3, SeqFacts
  <2> QED
    BY <1>1, <1>2, <2>1
<1> QED
  BY <1>2, <1>3, <1>4, <1>5, <1>6

LEMMA ConcatSeq ==
  ASSUME NEW s, NEW r, IsSeq(s), IsSeq(r)
  PROVE  /\ IsSeq(s \o r) /\ Len(s \o r) = Len(s) + Len(r)
         /\ \A i \in 1..Len(s) : (s \o r)[i] = s[i]
         /\ \A i \in 1..Len(r) : (s \o r)[Len(s) + i] = r[i]
<1> DEFINE S == {s[i] : i \in DOMAIN s} \cup {r[i] : i \in DOMAIN r}
<1>1. s \in Seq(S) /\ r \in Seq(S) /\ Len(s) \in Nat /\ Len(r) \in Nat
  <2>1. Len(s) \in Nat /\ DOMAIN s = 1..Len(s) /\ s \in Seq({s[i] : i \in DOMAIN s})
    BY SeqFacts DEF IsSeq
  <2>2. Len(r) \in Nat /\ DOMAIN r = 1..Len(r) /\ r \in Seq({r[i] : i \in DOMAIN r})
    BY SeqFacts DEF IsSeq
  <2>3. s \in Seq(S)
    BY <2>1
  <2>4. r \in Seq(S)
    BY <2>2
  <2> QED
    BY <2>1, <2>2, <2>3, <2>4
<1> HIDE DEF S
<1>2. s \o r \in Seq(S) /\ Len(s \o r) = Len(s) + Len(r)
  BY <1>1
<1>3. \A i \in 1..Len(s) : (s \o r)[i] = s[i]
  BY <1>1
<1>4. \A i \in 1..Len(r) : (s \o r)[Len(s) + i] = r[i]
  BY <1>1
<1>5. IsSeq(s \o r)
  BY <1>2, SeqIsSeq
<1> QED
  BY <1>2, <1>3, <1>4, <1>5

LEMMA TailCommands ==
  ASSUME NEW s, AreCommands(s), s # <<>>
  PROVE  AreCommands(Tail(s)) /\ IsCommand(Head(s))
<1>1. IsSeq(s) /\ Len(s) \in Nat \ {0} /\ DOMAIN s = 1..Len(s)
  BY SeqFacts DEF AreCommands
<1>2. /\ IsSeq(Tail(s)) /\ DOMAIN Tail(s) = 1..(Len(s) - 1) /\ Head(s) = s[1]
      /\ \A i \in 1..(Len(s) - 1) : Tail(s)[i] = s[i + 1]
  BY <1>1, TailSeq, SeqFacts
<1>3. \A i \in DOMAIN Tail(s) : IsCommand(Tail(s)[i])
  BY <1>1, <1>2 DEF AreCommands
<1>4. IsCommand(s[1])
  BY <1>1 DEF AreCommands
<1> QED
  BY <1>2, <1>3, <1>4 DEF AreCommands

LEMMA ConcatCommands ==
  ASSUME NEW s, NEW r, AreCommands(s), AreCommands(r)
  PROVE  AreCommands(s \o r)
<1>1. /\ IsSeq(s) /\ IsSeq(r) /\ Len(s) \in Nat /\ Len(r) \in Nat
      /\ DOMAIN s = 1..Len(s) /\ DOMAIN r = 1..Len(r)
  BY SeqFacts DEF AreCommands
<1>2. /\ IsSeq(s \o r) /\ DOMAIN (s \o r) = 1..(Len(s) + Len(r))
      /\ \A i \in 1..Len(s) : (s \o r)[i] = s[i]
      /\ \A i \in 1..Len(r) : (s \o r)[Len(s) + i] = r[i]
  BY <1>1, ConcatSeq, SeqFacts
<1>3. ASSUME NEW i \in DOMAIN (s \o r) PROVE IsCommand((s \o r)[i])
  <2>1. CASE i \in 1..Len(s)
    BY <1>1, <1>2, <2>1 DEF AreCommands
  <2>2. CASE i \notin 1..Len(s)
    <3>1. i - Len(s) \in 1..Len(r) /\ Len(s) + (i - Len(s)) = i
      BY <1>1, <1>2, <1>3, <2>2
    <3>2. (s \o r)[i] = r[i - Len(s)]
      BY <1>2, <3>1
    <3> QED
      BY <1>1, <3>1, <3>2 DEF AreCommands
  <2> QED
    BY <2>1, <2>2
<1> QED
  BY <1>2, <1>3 DEF AreCommands

LEMMA OneCommand ==
  ASSUME NEW c, IsCommand(c)
  PROVE  AreCommands(<<c>>) /\ Len(<<c>>) = 1 /\ <<c>>[1] = c
BY OneSeq DEF AreCommands

LEMMA CommandKinds ==
  /\ \A p \in NodePaths : \A v, rev : IsCommand(Create(p, v)) /\ IsCommand(Write(p, v, rev))
  /\ \A p \in NodePaths : /\ IsCommand(Delete(p)) /\ IsCommand(MakeDirectory(p))
                           /\ IsCommand(RemoveDirectory(p))
  /\ \A p, to \in NodePaths : IsCommand(Move(p, to))
BY CommandFields DEF IsCommand, Create, Write, Delete, MakeDirectory, RemoveDirectory, Move

LEMMA KindFields ==
  /\ \A p, v : LET c == Create(p, v) IN
       c.do = "create" /\ c.path = p /\ c.content = v /\ c.to = p
  /\ \A p, v, rev : LET c == Write(p, v, rev) IN
       c.do = "write" /\ c.path = p /\ c.content = v /\ c.rev = rev /\ c.to = p
  /\ \A p : LET c == Delete(p) IN c.do = "delete" /\ c.path = p /\ c.to = p
  /\ \A p : LET c == MakeDirectory(p) IN c.do = "mkdir" /\ c.path = p /\ c.to = p
  /\ \A p : LET c == RemoveDirectory(p) IN c.do = "rmdir" /\ c.path = p /\ c.to = p
  /\ \A p, to : LET c == Move(p, to) IN c.do = "move" /\ c.path = p /\ c.to = to
BY CommandFields DEF Create, Write, Delete, MakeDirectory, RemoveDirectory, Move

-----------------------------------------------------------------------------
\* The calls of an operation

\* The least number of a set of numbers.
LEMMA LeastOf ==
  ASSUME NEW S \in SUBSET Nat, S # {}
  PROVE  \E m \in S : \A k \in S : m <= k
<1>1. PICK m \in S : \A k \in S : ~(<<k, m>> \in OpToRel(<, Nat))
  BY NatLessThanWellFounded, WFMin
<1>2. \A k \in S : m \in Nat /\ k \in Nat /\ ~(k < m)
  BY <1>1 DEF OpToRel
<1> QED
  BY <1>2

\* Which directories a file at p lacks: the prefixes of p from the first one that
\* is no directory.
LEMMA Missing ==
  ASSUME ConstantsAreSound, NEW t, NEW p \in NodePaths
  PROVE  \E depth \in 0..(Len(p) - 1) :
           /\ \A k \in 1..depth : t[SubSeq(p, 1, k)].type = "directory"
           /\ depth < Len(p) - 1 => t[SubSeq(p, 1, depth + 1)].type # "directory"
           /\ MissingParents(t, p) =
                [i \in 1..(Len(p) - 1 - depth) |-> SubSeq(p, 1, depth + i)]
<1> DEFINE There(i) == t[SubSeq(p, 1, i)].type = "directory"
           Good(i) == (\A k \in 1..i : There(k)) /\ (i < Len(p) - 1 => ~There(i + 1))
           Bad == {i \in 1..(Len(p) - 1) : ~There(i)}
<1>1. Len(p) \in Nat \ {0}
  BY PathFacts
<1>2. \E i \in 0..(Len(p) - 1) : Good(i)
  <2> HIDE DEF There
  <2>1. CASE Bad = {}
    <3>1. Good(Len(p) - 1) /\ Len(p) - 1 \in 0..(Len(p) - 1)
      BY <1>1, <2>1
    <3> QED
      BY <3>1
  <2>2. CASE Bad # {}
    <3>0. Bad \in SUBSET Nat
      BY <1>1
    <3> HIDE DEF Bad
    <3>1. PICK m \in Bad : \A k \in Bad : m <= k
      BY <2>2, <3>0, LeastOf
    <3> USE DEF Bad
    <3>2. m \in 1..(Len(p) - 1) /\ ~There(m)
      BY <3>1
    <3>3. \A k \in 1..(m - 1) : There(k)
      BY <1>1, <3>1, <3>2
    <3>4. m - 1 \in 0..(Len(p) - 1) /\ Good(m - 1)
      BY <1>1, <3>2, <3>3
    <3> QED
      BY <3>4
  <2> QED
    BY <2>1, <2>2
<1> DEFINE depth == CHOOSE i \in 0..(Len(p) - 1) : Good(i)
<1>3. depth \in 0..(Len(p) - 1) /\ Good(depth)
  <2> HIDE DEF Good
  <2> QED
    BY <1>2
<1>4. MissingParents(t, p) = [i \in 1..(Len(p) - 1 - depth) |-> SubSeq(p, 1, depth + i)]
  BY DEF MissingParents
<1> HIDE DEF depth
<1> QED
  BY <1>3, <1>4

LEMMA MissingArePaths ==
  ASSUME ConstantsAreSound, NEW t, NEW p \in NodePaths
  PROVE  LET dirs == MissingParents(t, p) IN
         /\ IsSeq(dirs) /\ Len(dirs) \in 0..(Len(p) - 1)
         /\ \A i \in 1..Len(dirs) :
              /\ dirs[i] = SubSeq(p, 1, Len(p) - 1 - Len(dirs) + i)
              /\ dirs[i] \in NodePaths /\ Len(dirs[i]) = Len(p) - 1 - Len(dirs) + i
<1>1. PICK depth \in 0..(Len(p) - 1) :
        /\ \A k \in 1..depth : t[SubSeq(p, 1, k)].type = "directory"
        /\ depth < Len(p) - 1 => t[SubSeq(p, 1, depth + 1)].type # "directory"
        /\ MissingParents(t, p) =
             [i \in 1..(Len(p) - 1 - depth) |-> SubSeq(p, 1, depth + i)]
  BY Missing
<1>2. Len(p) \in Nat \ {0}
  BY PathFacts
<1> DEFINE n == Len(p) - 1 - depth
           dirs == MissingParents(t, p)
<1>3. n \in Nat /\ n = Len(p) - 1 - depth
  BY <1>2
<1>4. ASSUME NEW i \in 1..n
      PROVE  SubSeq(p, 1, depth + i) \in NodePaths /\ Len(SubSeq(p, 1, depth + i)) = depth + i
  <2>1. depth + i \in 1..Len(p)
    BY <1>2, <1>3
  <2> QED
    BY <2>1, PathFacts
<1>5. dirs = [i \in 1..n |-> SubSeq(p, 1, depth + i)]
  BY <1>1
<1> HIDE DEF n, dirs
<1>6. dirs \in [1..n -> NodePaths]
  BY <1>4, <1>5
<1>7. dirs \in Seq(NodePaths) /\ Len(dirs) = n
  BY <1>3, <1>6
<1>8. IsSeq(dirs)
  BY <1>7, SeqIsSeq
<1>9. Len(dirs) \in 0..(Len(p) - 1) /\ depth = Len(p) - 1 - Len(dirs)
  BY <1>2, <1>3, <1>7
<1>10. \A i \in 1..Len(dirs) : dirs[i] = SubSeq(p, 1, depth + i)
  BY <1>5, <1>7
<1> QED
  BY <1>4, <1>7, <1>8, <1>9, <1>10 DEF dirs

\* A sequence that is written as a function of its indices.
LEMMA SeqByIndex ==
  ASSUME NEW n \in Nat, NEW s, s = [i \in 1..n |-> s[i]]
  PROVE  IsSeq(s) /\ Len(s) = n /\ DOMAIN s = 1..n
<1> DEFINE S == {s[i] : i \in 1..n}
<1>1. s \in [1..n -> S]
  OBVIOUS
<1>2. s \in Seq(S) /\ Len(s) = n
  <2> HIDE DEF S
  <2> QED
    BY <1>1
<1> QED
  BY <1>1, <1>2, SeqIsSeq

LEMMA MadeDirectories ==
  ASSUME NEW dirs, IsSeq(dirs), \A i \in 1..Len(dirs) : dirs[i] \in NodePaths
  PROVE  LET s == [i \in 1..Len(dirs) |-> MakeDirectory(dirs[i])]
             r == [i \in 1..Len(dirs) |-> RemoveDirectory(dirs[i])]
         IN /\ AreCommands(s) /\ Len(s) = Len(dirs)
            /\ AreCommands(r) /\ Len(r) = Len(dirs)
<1>1. Len(dirs) \in Nat
  BY SeqFacts
<1> DEFINE s == [i \in 1..Len(dirs) |-> MakeDirectory(dirs[i])]
           r == [i \in 1..Len(dirs) |-> RemoveDirectory(dirs[i])]
<1>2. \A i \in 1..Len(dirs) : IsCommand(s[i]) /\ IsCommand(r[i])
  BY CommandKinds
<1>3. s = [i \in 1..Len(dirs) |-> s[i]] /\ r = [i \in 1..Len(dirs) |-> r[i]]
  OBVIOUS
<1> HIDE DEF s, r
<1>4. IsSeq(s) /\ Len(s) = Len(dirs) /\ DOMAIN s = 1..Len(dirs)
  BY <1>1, <1>3, SeqByIndex
<1>5. IsSeq(r) /\ Len(r) = Len(dirs) /\ DOMAIN r = 1..Len(dirs)
  BY <1>1, <1>3, SeqByIndex
<1>6. AreCommands(s) /\ AreCommands(r)
  BY <1>2, <1>4, <1>5 DEF AreCommands
<1> QED
  BY <1>4, <1>5, <1>6 DEF s, r

LEMMA Reversed ==
  ASSUME NEW s, IsSeq(s)
  PROVE  /\ IsSeq(Reverse(s)) /\ Len(Reverse(s)) = Len(s)
         /\ \A i \in 1..Len(s) : Reverse(s)[i] = s[Len(s) - i + 1]
<1>1. Len(s) \in Nat
  BY SeqFacts
<1>2. Reverse(s) = [i \in 1..Len(s) |-> s[Len(s) - i + 1]]
  BY DEF Reverse
<1> DEFINE r == Reverse(s)
<1>3. r = [i \in 1..Len(s) |-> r[i]] /\ \A i \in 1..Len(s) : r[i] = s[Len(s) - i + 1]
  BY <1>2
<1> HIDE DEF r
<1>4. IsSeq(r) /\ Len(r) = Len(s)
  BY <1>1, <1>3, SeqByIndex
<1> QED
  BY <1>3, <1>4 DEF r

IsOperation(o) ==
  /\ o.op \in {"create", "update", "delete", "create-directory", "move"}
  /\ o.path \in NodePaths /\ o.to \in NodePaths

\* What an operation does and how it is taken back are commands.
LEMMA OperationsAreCommands ==
  ASSUME ConstantsAreSound, NEW t, NEW seen, NEW o, IsOperation(o)
  PROVE  /\ AreCommands(Commands(t, seen, o)) /\ Commands(t, seen, o) # <<>>
         /\ AreCommands(Undo(t, seen, o)) /\ Undo(t, seen, o) # <<>>
<1> USE DEF IsOperation
<1>1. CASE o.op = "create"
  <2> DEFINE dirs == MissingParents(t, o.path)
             back == Reverse(dirs)
             made == [i \in 1..Len(dirs) |-> MakeDirectory(dirs[i])]
             gone == [i \in 1..Len(back) |-> RemoveDirectory(back[i])]
             c == Create(o.path, o.content)
             d == Delete(o.path)
  <2>1. IsSeq(dirs) /\ Len(dirs) \in Nat /\ \A i \in 1..Len(dirs) : dirs[i] \in NodePaths
    BY <1>1, MissingArePaths, SeqFacts
  <2>2. IsSeq(back) /\ Len(back) = Len(dirs) /\ \A i \in 1..Len(back) : back[i] \in NodePaths
    <3> HIDE DEF dirs
    <3>1. IsSeq(back) /\ Len(back) = Len(dirs)
          /\ \A i \in 1..Len(dirs) : back[i] = dirs[Len(dirs) - i + 1]
      BY <2>1, Reversed
    <3>2. \A i \in 1..Len(dirs) : Len(dirs) - i + 1 \in 1..Len(dirs)
      BY <2>1
    <3> QED
      BY <2>1, <3>1, <3>2
  <2>3. AreCommands(made) /\ AreCommands(gone)
    <3> HIDE DEF dirs, back
    <3> QED
      BY <2>1, <2>2, MadeDirectories
  <2>4. IsCommand(c) /\ IsCommand(d) /\ AreCommands(<<c>>) /\ AreCommands(<<d>>)
        /\ IsSeq(<<c>>) /\ IsSeq(<<d>>) /\ Len(<<c>>) = 1 /\ Len(<<d>>) = 1
    <3>1. IsCommand(c) /\ IsCommand(d)
      BY <1>1, CommandKinds
    <3> HIDE DEF c, d
    <3> QED
      BY <3>1, OneCommand, OneSeq
  <2>5. Commands(t, seen, o) = made \o <<c>> /\ Undo(t, seen, o) = <<d>> \o gone
    BY <1>1 DEF Commands, Undo
  <2> HIDE DEF made, gone, c, d
  <2>6. AreCommands(made \o <<c>>) /\ AreCommands(<<d>> \o gone)
    BY <2>3, <2>4, ConcatCommands
  <2>7. Len(made \o <<c>>) # 0 /\ Len(<<d>> \o gone) # 0
    <3>1. IsSeq(made) /\ IsSeq(gone) /\ Len(made) \in Nat /\ Len(gone) \in Nat
      BY <2>3, SeqFacts DEF AreCommands
    <3>2. Len(made \o <<c>>) = Len(made) + 1
      BY <2>4, <3>1, ConcatSeq
    <3>3. Len(<<d>> \o gone) = 1 + Len(gone)
      BY <2>4, <3>1, ConcatSeq
    <3> QED
      BY <3>1, <3>2, <3>3
  <2>8. made \o <<c>> # <<>> /\ <<d>> \o gone # <<>>
    BY <2>6, <2>7, SeqFacts DEF AreCommands
  <2> QED
    BY <2>5, <2>6, <2>8
<1>2. \A c : <<c>> # <<>>
  OBVIOUS
<1>3. CASE o.op # "create"
  <2>1. \E c, d : IsCommand(c) /\ IsCommand(d) /\ Commands(t, seen, o) = <<c>>
                  /\ Undo(t, seen, o) = <<d>>
    BY <1>3, CommandKinds DEF Commands, Undo
  <2> QED
    BY <1>2, <2>1, OneCommand
<1> QED
  BY <1>1, <1>3

-----------------------------------------------------------------------------
\* The shape of a job

\* What every job is, whatever the others do.
JobShape(k) ==
    /\ DOMAIN k = DOMAIN Idle
    /\ IsTree(k.seen)
    /\ IsSeq(k.ops) /\ \A i \in DOMAIN k.ops : IsOperation(k.ops[i])
    /\ AreCommands(k.todo) /\ AreCommands(k.back) /\ AreCommands(k.undo)
    /\ k.stage \in {"idle", "loaded"} => k.ops = <<>> /\ k.todo = <<>> /\ k.undo = <<>>
    /\ k.stage = "applying" => k.ops # <<>> /\ ChangedOnce(k.ops)
    /\ k.stage = "undoing" => k.undo # <<>>

ShapeInv == IsTree(nodes) /\ DOMAIN job = Jobs /\ \A j \in Jobs : JobShape(job[j])

\* A port call that the tree took.
Touches(cmd) == IsCommand(cmd) /\ Accepts(nodes, cmd) /\ nodes' = Done(nodes, cmd)

\* What a step of one job means for the others.
OthersFollow(j) ==
    /\ DOMAIN job' = Jobs
    /\ \/ nodes' = nodes /\ \A k \in Jobs \ {j} : job'[k] = job[k]
       \/ /\ \E cmd : Touches(cmd)
          /\ \A k \in Jobs \ {j} : job'[k] = Disturbed(k)

LEMMA IdleFields ==
  /\ DOMAIN Idle = {"stage", "seen", "ops", "todo", "back", "undo", "kind", "restores",
                    "reading", "files", "put", "target", "start", "alone", "emptied"}
  /\ Idle.stage = "idle" /\ Idle.ops = <<>> /\ Idle.todo = <<>> /\ Idle.back = <<>>
  /\ Idle.undo = <<>> /\ Idle.seen = [p \in NodePaths |-> Nothing] /\ Idle.alone = TRUE
BY DEF Idle

LEMMA EmptyTree == IsTree([p \in NodePaths |-> Nothing])
<1> DEFINE t == [p \in NodePaths |-> Nothing]
<1>1. DOMAIN t = NodePaths /\ \A p \in NodePaths : t[p] = Nothing
  OBVIOUS
<1> HIDE DEF t
<1>2. IsTree(t)
  BY <1>1 DEF IsTree
<1> QED
  BY <1>2 DEF t

LEMMA IdleShape ==
  ASSUME NEW k, DOMAIN k = DOMAIN Idle, k.seen = Idle.seen, k.ops = <<>>, k.todo = <<>>,
         k.back = <<>>, k.undo = <<>>, k.stage \notin {"applying", "undoing"}
  PROVE  JobShape(k)
<1>1. IsTree(k.seen)
  BY EmptyTree, IdleFields
<1>2. /\ IsSeq(k.ops) /\ Len(k.ops) = 0 /\ DOMAIN k.ops = 1..0
      /\ AreCommands(k.todo) /\ AreCommands(k.back) /\ AreCommands(k.undo)
  BY EmptyIsSeq, SeqFacts
<1> QED
  BY <1>1, <1>2 DEF JobShape

LEMMA QuietStep ==
  ASSUME ShapeInv, NEW j \in Jobs, NEW next, Goes(j, next)
  PROVE  OthersFollow(j) /\ job'[j] = next /\ nodes' = nodes
BY DEF ShapeInv, Goes, OthersFollow

LEMMA PortStep ==
  ASSUME ShapeInv, NEW j \in Jobs, NEW next, NEW cmd, Perform(cmd, j, next),
         IsCommand(cmd), Accepts(nodes, cmd)
  PROVE  OthersFollow(j) /\ job'[j] = next /\ Touches(cmd)
<1>1. Touches(cmd)
  BY DEF Perform, Touches
<1> QED
  BY <1>1 DEF ShapeInv, Perform, OthersFollow

LEMMA LoadShape ==
  ASSUME ShapeInv, NEW j \in Jobs, Load(j)
  PROVE  OthersFollow(j) /\ JobShape(job'[j])
<1> DEFINE k == job[j]
           next == [k EXCEPT !.stage = "loaded", !.seen = nodes]
<1>1. Goes(j, next) /\ k.stage = "idle"
  BY DEF Load
<1>2. OthersFollow(j) /\ job'[j] = next
  BY <1>1, QuietStep
<1>3. JobShape(k) /\ IsTree(nodes)
  BY DEF ShapeInv
<1> HIDE DEF k
<1>4. JobShape(next)
  BY <1>1, <1>3, IdleFields DEF JobShape
<1> QED
  BY <1>2, <1>4

LEMMA ProgramFacts ==
  ASSUME ConstantsAreSound, NEW ops \in Programs
  PROVE  IsSeq(ops) /\ ops # <<>> /\ \A i \in DOMAIN ops : IsOperation(ops[i])
<1>1. ops \in Seq(Operations) /\ ops # <<>>
  BY DEF ConstantsAreSound
<1>2. IsSeq(ops)
  BY <1>1, SeqIsSeq
<1>3. \A i \in DOMAIN ops : ops[i] \in Operations
  BY <1>1
<1>4. \A o \in Operations : IsOperation(o)
  BY DEF Operations, IsOperation
<1> QED
  BY <1>1, <1>2, <1>3, <1>4

LEMMA SubmitShape ==
  ASSUME ConstantsAreSound, ShapeInv, NEW j \in Jobs, NEW ops \in Programs, Submit(j, ops)
  PROVE  OthersFollow(j) /\ JobShape(job'[j])
<1> DEFINE k == job[j]
           go == [k EXCEPT !.stage = "applying", !.ops = ops, !.start = Held(nodes)]
           no == [Idle EXCEPT !.stage = "refused"]
           next == IF ChangedOnce(ops) /\ Passes(nodes, k.seen, ops) THEN go ELSE no
<1>1. Goes(j, next)
  BY DEF Submit
<1>2. OthersFollow(j) /\ job'[j] = next
  BY <1>1, QuietStep
<1>3. JobShape(k)
  BY DEF ShapeInv
<1>4. IsSeq(ops) /\ ops # <<>> /\ \A i \in DOMAIN ops : IsOperation(ops[i])
  BY ProgramFacts
<1> HIDE DEF k
<1>5. ChangedOnce(ops) => JobShape(go)
  BY <1>3, <1>4, IdleFields DEF JobShape
<1>6. JobShape(no)
  <2>1. /\ DOMAIN no = DOMAIN Idle /\ no.seen = Idle.seen /\ no.ops = <<>>
        /\ no.todo = <<>> /\ no.back = <<>> /\ no.undo = <<>> /\ no.stage = "refused"
    BY IdleFields
  <2> HIDE DEF no
  <2> QED
    BY <2>1, IdleShape
<1> QED
  BY <1>2, <1>5, <1>6

LEMMA GiveUpShape ==
  ASSUME ShapeInv, NEW j \in Jobs
  PROVE  JobShape(GiveUp(j))
<1> DEFINE k == job[j]
           s == IF k.undo = <<>> THEN "compensated" ELSE "undoing"
           next == [k EXCEPT !.todo = <<>>, !.ops = <<>>, !.back = <<>>, !.stage = s]
<1>1. GiveUp(j) = next
  BY DEF GiveUp
<1>2. JobShape(k)
  BY DEF ShapeInv
<1> HIDE DEF k
<1>3. /\ DOMAIN next = DOMAIN Idle /\ next.seen = k.seen /\ next.ops = <<>>
      /\ next.todo = <<>> /\ next.back = <<>> /\ next.undo = k.undo /\ next.stage = s
  BY <1>2, IdleFields DEF JobShape
<1> HIDE DEF next
<1>4. /\ IsSeq(next.ops) /\ Len(next.ops) = 0 /\ DOMAIN next.ops = 1..0
      /\ AreCommands(next.todo) /\ AreCommands(next.back)
  BY <1>3, EmptyIsSeq, SeqFacts
<1>5. JobShape(next)
  BY <1>2, <1>3, <1>4 DEF JobShape
<1> QED
  BY <1>1, <1>5

LEMMA PrepareShape ==
  ASSUME ConstantsAreSound, ShapeInv, NEW j \in Jobs, PrepareCalls(j)
  PROVE  OthersFollow(j) /\ JobShape(job'[j])
<1> DEFINE k == job[j]
           o == Head(k.ops)
           go == [k EXCEPT !.todo = Commands(nodes, k.seen, o), !.back = Undo(nodes, k.seen, o)]
           next == IF o.op \in {"update", "delete"} /\ nodes[o.path].type # "file"
                   THEN GiveUp(j) ELSE go
<1>1. Goes(j, next) /\ k.stage = "applying"
  BY DEF PrepareCalls
<1>2. OthersFollow(j) /\ job'[j] = next
  BY <1>1, QuietStep
<1>3. JobShape(k) /\ JobShape(GiveUp(j))
  BY GiveUpShape DEF ShapeInv
<1>4. IsOperation(o)
  <2>1. IsSeq(k.ops) /\ k.ops # <<>> /\ \A i \in DOMAIN k.ops : IsOperation(k.ops[i])
    BY <1>1, <1>3 DEF JobShape
  <2> HIDE DEF k
  <2>2. Head(k.ops) = k.ops[1] /\ 1 \in DOMAIN k.ops
    BY <2>1, TailSeq, SeqFacts
  <2> QED
    BY <2>1, <2>2
<1>5. AreCommands(Commands(nodes, k.seen, o)) /\ AreCommands(Undo(nodes, k.seen, o))
  BY <1>4, OperationsAreCommands
<1> HIDE DEF k, o
<1>6. JobShape(go)
  BY <1>1, <1>3, <1>5, IdleFields DEF JobShape
<1> QED
  BY <1>2, <1>3, <1>6

\* The operations after the first one.
LEMMA TailOperations ==
  ASSUME NEW ops, IsSeq(ops), ops # <<>>, \A i \in DOMAIN ops : IsOperation(ops[i]),
         ChangedOnce(ops)
  PROVE  /\ IsSeq(Tail(ops)) /\ \A i \in DOMAIN Tail(ops) : IsOperation(Tail(ops)[i])
         /\ ChangedOnce(Tail(ops)) /\ (Len(ops) # 1 => Tail(ops) # <<>>)
         /\ IsOperation(Head(ops))
         /\ \A i \in DOMAIN Tail(ops) : Tail(ops)[i].path # Head(ops).path
         /\ \A i \in DOMAIN Tail(ops) : \E n \in DOMAIN ops : Tail(ops)[i] = ops[n]
<1>1. /\ Len(ops) \in Nat \ {0} /\ DOMAIN ops = 1..Len(ops) /\ Head(ops) = ops[1]
      /\ IsSeq(Tail(ops)) /\ DOMAIN Tail(ops) = 1..(Len(ops) - 1)
      /\ \A i \in 1..(Len(ops) - 1) : Tail(ops)[i] = ops[i + 1]
      /\ Tail(ops) = <<>> <=> Len(ops) = 1
  BY TailSeq, SeqFacts
<1>2. \A i \in 1..(Len(ops) - 1) : i + 1 \in DOMAIN ops /\ i + 1 # 1
  BY <1>1
<1>3. \A i \in DOMAIN Tail(ops) : IsOperation(Tail(ops)[i])
  BY <1>1, <1>2
<1>4. ChangedOnce(Tail(ops))
  BY <1>1, <1>2 DEF ChangedOnce
<1>5. \A i \in DOMAIN Tail(ops) : Tail(ops)[i].path # Head(ops).path
  BY <1>1, <1>2 DEF ChangedOnce
<1>6. \A i \in DOMAIN Tail(ops) : \E n \in DOMAIN ops : Tail(ops)[i] = ops[n]
  BY <1>1, <1>2
<1> QED
  BY <1>1, <1>3, <1>4, <1>5, <1>6

LEMMA ApplyShape ==
  ASSUME ShapeInv, NEW j \in Jobs, MakeCall(j)
  PROVE  OthersFollow(j) /\ JobShape(job'[j])
<1> DEFINE k == job[j]
           cmd == Head(k.todo)
           over == Len(k.todo) = 1
           last == over /\ Len(k.ops) = 1
           next == [k EXCEPT !.todo = Tail(@), !.ops = IF over THEN Tail(@) ELSE @,
                             !.undo = IF over THEN k.back \o @ ELSE @]
           end == [Idle EXCEPT !.stage = "applied"]
<1>1. /\ k.stage = "applying" /\ k.todo # <<>>
      /\ IF Accepts(nodes, cmd) THEN Perform(cmd, j, IF last THEN end ELSE next)
                                ELSE Goes(j, GiveUp(j))
  BY DEF MakeCall
<1>2. JobShape(k) /\ JobShape(GiveUp(j))
  BY GiveUpShape DEF ShapeInv
<1>3. IsCommand(cmd) /\ AreCommands(Tail(k.todo)) /\ AreCommands(k.back \o k.undo)
  <2> HIDE DEF k
  <2> QED
    BY <1>1, <1>2, TailCommands, ConcatCommands DEF JobShape
<1>4. OthersFollow(j) /\ job'[j] \in {GiveUp(j), IF last THEN end ELSE next}
  <2> HIDE DEF k, cmd, last, end, next
  <2> QED
    BY <1>1, <1>3, QuietStep, PortStep
<1>5. JobShape(end)
  <2>1. /\ DOMAIN end = DOMAIN Idle /\ end.seen = Idle.seen /\ end.ops = <<>>
        /\ end.todo = <<>> /\ end.back = <<>> /\ end.undo = <<>> /\ end.stage = "applied"
    BY IdleFields
  <2> HIDE DEF end
  <2> QED
    BY <2>1, IdleShape
<1>6. ASSUME ~last PROVE JobShape(next)
  <2>1. /\ IsSeq(k.ops) /\ k.ops # <<>> /\ ChangedOnce(k.ops)
        /\ \A i \in DOMAIN k.ops : IsOperation(k.ops[i])
    BY <1>1, <1>2 DEF JobShape
  <2> HIDE DEF k
  <2>2. /\ IsSeq(Tail(k.ops)) /\ \A i \in DOMAIN Tail(k.ops) : IsOperation(Tail(k.ops)[i])
        /\ ChangedOnce(Tail(k.ops)) /\ (Len(k.ops) # 1 => Tail(k.ops) # <<>>)
    BY <2>1, TailOperations
  <2>3. /\ DOMAIN next = DOMAIN Idle /\ next.stage = "applying" /\ next.seen = k.seen
        /\ next.todo = Tail(k.todo) /\ next.back = k.back
        /\ next.ops = IF over THEN Tail(k.ops) ELSE k.ops
        /\ next.undo = IF over THEN k.back \o k.undo ELSE k.undo
    BY <1>1, <1>2, IdleFields DEF JobShape
  <2> HIDE DEF next
  <2> QED
    BY <1>2, <1>3, <1>6, <2>1, <2>2, <2>3 DEF JobShape
<1> QED
  BY <1>2, <1>4, <1>5, <1>6

LEMMA TakeBackShape ==
  ASSUME ShapeInv, NEW j \in Jobs, TakeBack(j)
  PROVE  OthersFollow(j) /\ JobShape(job'[j])
<1> DEFINE k == job[j]
           cmd == Head(k.undo)
           s == IF Len(k.undo) = 1 THEN "compensated" ELSE "undoing"
           next == [k EXCEPT !.undo = Tail(@), !.stage = s]
           no == [k EXCEPT !.stage = "broken"]
<1>1. /\ k.stage = "undoing"
      /\ IF Accepts(nodes, cmd) THEN Perform(cmd, j, next) ELSE Goes(j, no)
  BY DEF TakeBack
<1>2. JobShape(k)
  BY DEF ShapeInv
<1> HIDE DEF k
<1>3. /\ IsCommand(cmd) /\ AreCommands(Tail(k.undo))
      /\ (Len(k.undo) # 1 => Tail(k.undo) # <<>>)
  BY <1>1, <1>2, TailCommands, TailSeq DEF JobShape, AreCommands
<1>4. OthersFollow(j) /\ job'[j] \in {next, no}
  <2> HIDE DEF cmd, next, no
  <2> QED
    BY <1>1, <1>3, QuietStep, PortStep
<1>5. JobShape(next) /\ JobShape(no)
  BY <1>1, <1>2, <1>3, IdleFields DEF JobShape
<1> QED
  BY <1>4, <1>5

-----------------------------------------------------------------------------
\* What a step leaves of a change set

\* The fields that a change set works with stay as they are.
SameWork(k, n) ==
    /\ DOMAIN n = DOMAIN k
    /\ n.seen = k.seen /\ n.ops = k.ops /\ n.todo = k.todo /\ n.back = k.back /\ n.undo = k.undo

LEMMA SameWorkShape ==
  ASSUME NEW k, JobShape(k), NEW n, SameWork(k, n),
         n.stage = k.stage \/ n.stage \notin {"idle", "loaded", "applying", "undoing"}
  PROVE  JobShape(n)
BY DEF JobShape, SameWork

LEMMA ListShape ==
  ASSUME ShapeInv, NEW j \in Jobs, NEW kind, NEW restores, NEW target,
         List(j, kind, restores, target)
  PROVE  /\ OthersFollow(j) /\ JobShape(job'[j]) /\ nodes' = nodes
         /\ job[j].stage = "idle" /\ job'[j].stage = "reading"
         /\ job'[j].reading = FilesOf(nodes) /\ job'[j].target = target
         /\ job'[j].alone = job[j].alone
<1> DEFINE k == job[j]
           next == [k EXCEPT !.stage = "reading", !.kind = kind,
                             !.restores = restores, !.target = target,
                             !.reading = FilesOf(nodes), !.start = Held(nodes)]
<1>1. Goes(j, next) /\ k.stage = "idle"
  BY DEF List
<1>2. OthersFollow(j) /\ job'[j] = next /\ nodes' = nodes
  BY <1>1, QuietStep
<1>3. JobShape(k)
  BY DEF ShapeInv
<1> HIDE DEF k
<1>4. SameWork(k, next) /\ next.stage = "reading" /\ next.reading = FilesOf(nodes)
      /\ next.target = target /\ next.alone = k.alone
  BY <1>3, IdleFields DEF JobShape, SameWork
<1> HIDE DEF next
<1>5. JobShape(next)
  BY <1>3, <1>4, SameWorkShape
<1> QED
  BY <1>1, <1>2, <1>4, <1>5 DEF k

LEMMA FailsShape ==
  ASSUME ShapeInv, NEW j \in Jobs, Fails(j)
  PROVE  /\ OthersFollow(j) /\ JobShape(job'[j]) /\ nodes' = nodes
         /\ job'[j].stage = "failed"
<1> DEFINE k == job[j]
           next == [k EXCEPT !.stage = "failed"]
<1>1. Goes(j, next)
  BY DEF Fails
<1>2. OthersFollow(j) /\ job'[j] = next /\ nodes' = nodes
  BY <1>1, QuietStep
<1>3. JobShape(k)
  BY DEF ShapeInv
<1> HIDE DEF k
<1>4. SameWork(k, next) /\ next.stage = "failed"
  BY <1>3, IdleFields DEF JobShape, SameWork
<1> HIDE DEF next
<1> QED
  BY <1>2, <1>3, <1>4, SameWorkShape

LEMMA ReadShape ==
  ASSUME ShapeInv, NEW j \in Jobs, NEW p \in NodePaths, Read(j, p)
  PROVE  /\ OthersFollow(j) /\ JobShape(job'[j]) /\ nodes' = nodes
         /\ job[j].stage = "reading"
         /\ \/ /\ nodes[p].type = "file" /\ job'[j].stage = "reading"
               /\ job'[j].reading = job[j].reading \ {p} /\ job'[j].alone = job[j].alone
            \/ nodes[p].type # "file" /\ p \in job[j].reading /\ job'[j].stage = "failed"
<1> DEFINE k == job[j]
           next == [k EXCEPT !.reading = @ \ {p},
                             !.files = [q \in DOMAIN @ \cup {p} |->
                                IF q = p THEN nodes[p].content ELSE k.files[q]]]
<1>1. k.stage = "reading" /\ p \in k.reading
      /\ IF nodes[p].type = "file" THEN Goes(j, next) ELSE Fails(j)
  BY DEF Read
<1>2. CASE nodes[p].type = "file"
  <2>1. OthersFollow(j) /\ job'[j] = next /\ nodes' = nodes
    BY <1>1, <1>2, QuietStep
  <2>2. JobShape(k)
    BY DEF ShapeInv
  <2> HIDE DEF k
  <2>3. SameWork(k, next) /\ next.stage = k.stage /\ next.reading = k.reading \ {p}
        /\ next.alone = k.alone
    BY <2>2, IdleFields DEF JobShape, SameWork
  <2> HIDE DEF next
  <2>4. JobShape(next)
    BY <2>2, <2>3, SameWorkShape
  <2> QED
    BY <1>1, <1>2, <2>1, <2>3, <2>4 DEF k
<1>3. CASE nodes[p].type # "file"
  BY <1>1, <1>3, FailsShape
<1> QED
  BY <1>2, <1>3

LEMMA StoreShape ==
  ASSUME ShapeInv, NEW j \in Jobs, Store(j)
  PROVE  /\ OthersFollow(j) /\ JobShape(job'[j]) /\ nodes' = nodes
         /\ job[j].stage = "reading" /\ job[j].reading = {}
         /\ \/ /\ job'[j].stage = "putting" /\ job'[j].alone = job[j].alone
               /\ job'[j].target = job[j].target /\ job'[j].put = DOMAIN job[j].target
               /\ job'[j].reading = FilesOf(nodes)
            \/ job'[j].stage = "taken"
<1> DEFINE k == job[j]
           go == [k EXCEPT !.stage = "putting", !.reading = FilesOf(nodes),
                           !.put = DOMAIN k.target]
           end == [Idle EXCEPT !.stage = "taken"]
<1>1. k.stage = "reading" /\ k.reading = {} /\ Goes(j, IF k.restores THEN go ELSE end)
  BY DEF Store
<1>2. OthersFollow(j) /\ job'[j] \in {go, end} /\ nodes' = nodes
  BY <1>1, QuietStep
<1>3. JobShape(end) /\ end.stage = "taken"
  <2>1. /\ DOMAIN end = DOMAIN Idle /\ end.seen = Idle.seen /\ end.ops = <<>>
        /\ end.todo = <<>> /\ end.back = <<>> /\ end.undo = <<>> /\ end.stage = "taken"
    BY IdleFields
  <2> HIDE DEF end
  <2> QED
    BY <2>1, IdleShape
<1>4. JobShape(k)
  BY DEF ShapeInv
<1> HIDE DEF k, end
<1>5. SameWork(k, go) /\ go.stage = "putting" /\ go.alone = k.alone
      /\ go.target = k.target /\ go.put = DOMAIN k.target /\ go.reading = FilesOf(nodes)
  BY <1>4, IdleFields DEF JobShape, SameWork
<1> HIDE DEF go
<1>6. JobShape(go)
  BY <1>4, <1>5, SameWorkShape
<1>7. CASE job'[j] = go
  BY <1>1, <1>2, <1>5, <1>6, <1>7 DEF k
<1>8. CASE job'[j] = end
  BY <1>1, <1>2, <1>3, <1>8 DEF k
<1> QED
  BY <1>2, <1>7, <1>8

LEMMA PutShape ==
  ASSUME ShapeInv, NEW j \in Jobs, NEW p \in NodePaths, Put(j, p)
  PROVE  /\ OthersFollow(j) /\ JobShape(job'[j])
         /\ job[j].stage = "putting" /\ p \in job[j].put
         /\ \/ /\ job'[j].stage = "putting" /\ job'[j].put = job[j].put \ {p}
               /\ job'[j].reading = job[j].reading /\ job'[j].target = job[j].target
               /\ job'[j].alone = job[j].alone
               /\ DOMAIN nodes' = NodePaths /\ nodes'[p].type = "file"
               /\ nodes'[p].content = job[j].target[p]
               /\ \A q \in NodePaths \ {p} : nodes'[q] = nodes[q]
            \/ /\ job'[j].stage = "failed" /\ nodes' = nodes
               /\ IF p \in job[j].reading THEN nodes[p].type # "file"
                  ELSE nodes[p].type # "none" \/ ~HasParent(nodes, p)
<1> DEFINE k == job[j]
           v == k.target[p]
           next == [k EXCEPT !.put = @ \ {p}]
           w == Write(p, v, nodes[p].rev)
           c == Create(p, v)
<1>1. /\ k.stage = "putting" /\ p \in k.put
      /\ IF p \in k.reading
         THEN IF nodes[p].type # "file" THEN Fails(j)
              ELSE IF nodes[p].content = v THEN Goes(j, next)
              ELSE Perform(w, j, next)
         ELSE IF Accepts(nodes, c) THEN Perform(c, j, next) ELSE Fails(j)
  BY DEF Put
<1>2. /\ IsCommand(w) /\ w.do = "write" /\ w.path = p /\ w.rev = nodes[p].rev /\ w.content = v
      /\ IsCommand(c) /\ c.do = "create" /\ c.path = p /\ c.content = v
  BY CommandKinds, KindFields
<1>3. JobShape(k) /\ IsTree(nodes) /\ DOMAIN nodes = NodePaths
  BY DEF ShapeInv, IsTree
<1>4. SameWork(k, next) /\ next.stage = k.stage /\ next.put = k.put \ {p}
      /\ next.reading = k.reading /\ next.target = k.target /\ next.alone = k.alone
  <2> HIDE DEF k
  <2> QED
    BY <1>3, IdleFields DEF JobShape, SameWork
<1> HIDE DEF next, w, c
<1>5. JobShape(next)
  BY <1>3, <1>4, SameWorkShape
<1>6. CASE p \in k.reading /\ nodes[p].type # "file"
  BY <1>1, <1>6, FailsShape
<1>7. CASE p \in k.reading /\ nodes[p].type = "file" /\ nodes[p].content = v
  <2>1. OthersFollow(j) /\ job'[j] = next /\ nodes' = nodes
    BY <1>1, <1>7, QuietStep
  <2> QED
    BY <1>1, <1>3, <1>4, <1>5, <1>7, <2>1
<1>8. CASE p \in k.reading /\ nodes[p].type = "file" /\ nodes[p].content # v
  <2>1. Accepts(nodes, w)
    BY <1>2, <1>8 DEF Accepts
  <2>2. OthersFollow(j) /\ job'[j] = next /\ nodes' = Done(nodes, w)
    BY <1>1, <1>2, <1>8, <2>1, PortStep DEF Touches
  <2>3. /\ DOMAIN nodes' = NodePaths /\ nodes'[p] = File(v, nodes[p].rev + 1)
        /\ \A q \in NodePaths \ {p} : nodes'[q] = nodes[q]
    BY <1>2, <1>3, <2>2, DoneAt
  <2>4. nodes'[p].type = "file" /\ nodes'[p].content = v
    BY <2>3, Nodes
  <2> QED
    BY <1>1, <1>4, <1>5, <2>2, <2>3, <2>4
<1>9. CASE p \notin k.reading /\ Accepts(nodes, c)
  <2>2. OthersFollow(j) /\ job'[j] = next /\ nodes' = Done(nodes, c)
    BY <1>1, <1>2, <1>9, PortStep DEF Touches
  <2>3. /\ DOMAIN nodes' = NodePaths /\ nodes'[p] = NewFile(v)
        /\ \A q \in NodePaths \ {p} : nodes'[q] = nodes[q]
    BY <1>2, <1>3, <2>2, DoneAt
  <2>4. nodes'[p].type = "file" /\ nodes'[p].content = v
    BY <2>3, Nodes DEF NewFile
  <2> QED
    BY <1>1, <1>4, <1>5, <2>2, <2>3, <2>4
<1>10. CASE p \notin k.reading /\ ~Accepts(nodes, c)
  <2>1. nodes[p].type # "none" \/ ~HasParent(nodes, p)
    BY <1>2, <1>10 DEF Accepts
  <2> QED
    BY <1>1, <1>10, <2>1, FailsShape
<1> QED
  BY <1>6, <1>7, <1>8, <1>9, <1>10

LEMMA RemoveExtraShape ==
  ASSUME ShapeInv, NEW j \in Jobs, NEW p \in NodePaths, RemoveExtra(j, p)
  PROVE  /\ OthersFollow(j) /\ JobShape(job'[j])
         /\ job[j].stage = "putting" /\ job[j].put = {}
         /\ p \in job[j].reading \ DOMAIN job[j].target
         /\ \/ /\ job'[j].stage = "putting" /\ job'[j].put = {}
               /\ job'[j].reading = job[j].reading \ {p} /\ job'[j].target = job[j].target
               /\ job'[j].alone = job[j].alone
               /\ DOMAIN nodes' = NodePaths /\ nodes'[p] = Nothing
               /\ \A q \in NodePaths \ {p} : nodes'[q] = nodes[q]
            \/ job'[j].stage = "failed" /\ nodes' = nodes /\ nodes[p].type # "file"
<1> DEFINE k == job[j]
           next == [k EXCEPT !.reading = @ \ {p}]
           c == Delete(p)
<1>1. /\ k.stage = "putting" /\ k.put = {} /\ p \in k.reading \ DOMAIN k.target
      /\ IF nodes[p].type = "file" THEN Perform(c, j, next) ELSE Fails(j)
  BY DEF RemoveExtra
<1>2. IsCommand(c) /\ c.do = "delete" /\ c.path = p
  BY CommandKinds, KindFields
<1>3. JobShape(k) /\ IsTree(nodes) /\ DOMAIN nodes = NodePaths
  BY DEF ShapeInv, IsTree
<1>4. SameWork(k, next) /\ next.stage = k.stage /\ next.put = k.put
      /\ next.reading = k.reading \ {p} /\ next.target = k.target /\ next.alone = k.alone
  <2> HIDE DEF k
  <2> QED
    BY <1>3, IdleFields DEF JobShape, SameWork
<1> HIDE DEF next, c
<1>5. JobShape(next)
  BY <1>3, <1>4, SameWorkShape
<1>6. CASE nodes[p].type = "file"
  <2>1. Accepts(nodes, c)
    BY <1>2, <1>6 DEF Accepts
  <2>2. OthersFollow(j) /\ job'[j] = next /\ nodes' = Done(nodes, c)
    BY <1>1, <1>2, <1>6, <2>1, PortStep DEF Touches
  <2>3. /\ DOMAIN nodes' = NodePaths /\ nodes'[p] = Nothing
        /\ \A q \in NodePaths \ {p} : nodes'[q] = nodes[q]
    BY <1>2, <1>3, <2>2, DoneAt
  <2> QED
    BY <1>1, <1>4, <1>5, <2>2, <2>3
<1>7. CASE nodes[p].type # "file"
  BY <1>1, <1>7, FailsShape
<1> QED
  BY <1>6, <1>7

LEMMA RestoredShape ==
  ASSUME ShapeInv, NEW j \in Jobs, Restored(j)
  PROVE  /\ OthersFollow(j) /\ JobShape(job'[j]) /\ nodes' = nodes
         /\ job[j].stage = "putting" /\ job[j].put = {}
         /\ job[j].reading \subseteq DOMAIN job[j].target
         /\ job'[j].stage = "restored" /\ job'[j].target = job[j].target
<1> DEFINE k == job[j]
           next == [k EXCEPT !.stage = "restored"]
<1>1. /\ Goes(j, next) /\ k.stage = "putting" /\ k.put = {}
      /\ k.reading \subseteq DOMAIN k.target
  BY DEF Restored
<1>2. OthersFollow(j) /\ job'[j] = next /\ nodes' = nodes
  BY <1>1, QuietStep
<1>3. JobShape(k)
  BY DEF ShapeInv
<1> HIDE DEF k
<1>4. SameWork(k, next) /\ next.stage = "restored" /\ next.target = k.target
  BY <1>3, IdleFields DEF JobShape, SameWork
<1> HIDE DEF next
<1> QED
  BY <1>1, <1>2, <1>3, <1>4, SameWorkShape DEF k

\* Another writer's call is one of the port's.
LEMMA InterfereTouches ==
  ASSUME ConstantsAreSound, ShapeInv, NEW write \in Writes, Interfere(write)
  PROVE  /\ DOMAIN job' = Jobs /\ \A k \in Jobs : job'[k] = Disturbed(k)
         /\ \E cmd : Touches(cmd)
<1> DEFINE cmd == [write EXCEPT !.rev = nodes[write.path].rev]
<1>1. Accepts(nodes, cmd) /\ nodes' = Done(nodes, cmd) /\ job' = [k \in Jobs |-> Disturbed(k)]
  BY DEF Interfere
<1>2. IsCommand(write)
  BY DEF ConstantsAreSound
<1>3. IsCommand(cmd)
  <2>1. DOMAIN write = {"do", "path", "content", "rev", "to"}
    BY <1>2 DEF IsCommand, Command
  <2>2. /\ cmd.do = write.do /\ cmd.path = write.path /\ cmd.content = write.content
        /\ cmd.to = write.to
    BY <2>1
  <2>3. cmd = Command(cmd.do, cmd.path, cmd.content, cmd.rev, cmd.to)
    BY <1>2, <2>1 DEF IsCommand, Command
  <2> QED
    BY <1>2, <2>2, <2>3 DEF IsCommand
<1> QED
  BY <1>1, <1>3 DEF Touches

LEMMA DisturbedFields ==
  ASSUME ShapeInv, NEW k \in Jobs
  PROVE  /\ SameWork(job[k], Disturbed(k)) /\ Disturbed(k).stage = job[k].stage
         /\ Disturbed(k).alone = (job[k].alone /\ job[k].stage \notin Busy)
         /\ Disturbed(k).emptied =
              IF job[k].stage = "idle" THEN job[k].emptied
              ELSE job[k].emptied
                     \cup {p \in NodePaths : nodes[p].type # "none" /\ nodes'[p].type = "none"}
         /\ Disturbed(k).target = job[k].target /\ Disturbed(k).start = job[k].start
         /\ JobShape(Disturbed(k))
<1> DEFINE n == job[k]
           gone == {p \in NodePaths : nodes[p].type # "none" /\ nodes'[p].type = "none"}
           next == [n EXCEPT !.alone = @ /\ n.stage \notin Busy,
                             !.emptied = IF n.stage = "idle" THEN @ ELSE @ \cup gone]
<1>1. Disturbed(k) = next
  BY DEF Disturbed
<1>2. JobShape(n)
  BY DEF ShapeInv
<1> HIDE DEF n, gone
<1>3. /\ SameWork(n, next) /\ next.stage = n.stage /\ next.target = n.target
      /\ next.start = n.start
      /\ next.alone = (n.alone /\ n.stage \notin Busy)
      /\ next.emptied = IF n.stage = "idle" THEN n.emptied ELSE n.emptied \cup gone
  BY <1>2, IdleFields DEF JobShape, SameWork
<1> HIDE DEF next
<1>4. JobShape(next)
  BY <1>2, <1>3, SameWorkShape
<1> QED
  BY <1>1, <1>3, <1>4 DEF n, gone

\* A step of one of the calls.
Own(j) ==
    \/ Load(j)
    \/ \E ops \in Programs : Submit(j, ops)
    \/ PrepareCalls(j) \/ MakeCall(j) \/ TakeBack(j)
    \/ \E kind \in {"manual", "automatic"} : CreateSnapshot(j, kind)
    \/ \E i \in DOMAIN snapshots : RestoreSnapshot(j, i)
    \/ \E p \in NodePaths : Read(j, p) \/ Put(j, p) \/ RemoveExtra(j, p)
    \/ Store(j) \/ Restored(j)

LEMMA OwnShape ==
  ASSUME ConstantsAreSound, ShapeInv, NEW j \in Jobs, Own(j)
  PROVE  OthersFollow(j) /\ JobShape(job'[j])
BY LoadShape, SubmitShape, PrepareShape, ApplyShape, TakeBackShape, ListShape, ReadShape,
   PutShape, RemoveExtraShape, StoreShape, RestoredShape
   DEF Own, CreateSnapshot, RestoreSnapshot

\* Every step leaves every job with a step of its own, or as it was, or disturbed by
\* a port call.
LEMMA StepOfEach ==
  ASSUME ConstantsAreSound, ShapeInv, [SourceNext]_sourceVars, NEW k \in Jobs
  PROVE  /\ IsTree(nodes') /\ DOMAIN job' = Jobs
         /\ \/ Own(k) /\ OthersFollow(k) /\ JobShape(job'[k])
            \/ nodes' = nodes /\ job'[k] = job[k]
            \/ job'[k] = Disturbed(k) /\ \E cmd : Touches(cmd)
<1>1. (\E cmd : Touches(cmd)) => IsTree(nodes')
  BY TreeStaysSound DEF Touches, ShapeInv
<1>2. IsTree(nodes) /\ DOMAIN job = Jobs
  BY DEF ShapeInv
<1>3. CASE \E j \in Jobs : Own(j)
  <2>1. PICK j \in Jobs : Own(j)
    BY <1>3
  <2>2. OthersFollow(j) /\ JobShape(job'[j])
    BY <2>1, OwnShape
  <2> QED
    BY <1>1, <1>2, <2>1, <2>2 DEF OthersFollow
<1>4. CASE \E write \in Writes : Interfere(write)
  BY <1>1, <1>4, InterfereTouches
<1>5. CASE UNCHANGED sourceVars
  BY <1>2, <1>5 DEF sourceVars
<1> QED
  BY <1>3, <1>4, <1>5 DEF SourceNext, Own

LEMMA ShapeStep ==
  ASSUME ConstantsAreSound, ShapeInv, [SourceNext]_sourceVars
  PROVE  ShapeInv'
<1>1. Jobs = {} \/ \E k \in Jobs : TRUE
  OBVIOUS
<1>2. ASSUME NEW k \in Jobs PROVE JobShape(job'[k])
  BY StepOfEach, DisturbedFields DEF ShapeInv
<1>3. IsTree(nodes') /\ DOMAIN job' = Jobs
  <2>1. CASE \E k \in Jobs : TRUE
    BY <2>1, StepOfEach
  <2>2. CASE Jobs = {}
    <3>1. CASE UNCHANGED sourceVars
      BY <3>1 DEF sourceVars, ShapeInv
    <3>2. CASE \E write \in Writes : Interfere(write)
      BY <3>2, InterfereTouches, TreeStaysSound DEF Touches, ShapeInv
    <3> QED
      BY <2>2, <3>1, <3>2 DEF SourceNext
  <2> QED
    BY <1>1, <2>1, <2>2
<1> QED
  BY <1>2, <1>3 DEF ShapeInv, JobShape, IsTree

LEMMA ShapeInit ==
  ASSUME ConstantsAreSound, SourceInit
  PROVE  ShapeInv
<1>1. IsTree(nodes)
  BY DEF SourceInit, ConstantsAreSound
<1>2. JobShape(Idle)
  BY IdleFields, IdleShape
<1> QED
  BY <1>1, <1>2 DEF SourceInit, ShapeInv

-----------------------------------------------------------------------------
\* What the steps of a change set do

\* What is remembered of the time before stays as it is.
SameHistory(k, n) == n.start = k.start /\ n.alone = k.alone /\ n.emptied = k.emptied

LEMMA LoadEffect ==
  ASSUME ShapeInv, NEW j \in Jobs, Load(j)
  PROVE  LET k == job[j]  n == job'[j] IN
         /\ nodes' = nodes /\ k.stage = "idle" /\ n.stage = "loaded" /\ n.seen = nodes
         /\ n.ops = <<>> /\ n.todo = <<>> /\ n.undo = <<>> /\ SameHistory(k, n)
<1> DEFINE k == job[j]
           next == [k EXCEPT !.stage = "loaded", !.seen = nodes]
<1>1. Goes(j, next) /\ k.stage = "idle"
  BY DEF Load
<1>2. nodes' = nodes /\ job'[j] = next
  BY <1>1, QuietStep
<1>3. JobShape(k)
  BY DEF ShapeInv
<1> HIDE DEF k
<1>4. /\ next.stage = "loaded" /\ next.seen = nodes /\ next.ops = <<>> /\ next.todo = <<>>
      /\ next.undo = <<>> /\ SameHistory(k, next)
  BY <1>1, <1>3, IdleFields DEF JobShape, SameHistory
<1> HIDE DEF next
<1> QED
  BY <1>1, <1>2, <1>4 DEF k

LEMMA SubmitEffect ==
  ASSUME ShapeInv, NEW j \in Jobs, NEW ops \in Programs, Submit(j, ops)
  PROVE  LET k == job[j]  n == job'[j] IN
         /\ nodes' = nodes /\ k.stage = "loaded"
         /\ \/ /\ n.stage = "applying" /\ n.seen = k.seen /\ n.ops = ops
               /\ n.todo = <<>> /\ n.undo = <<>> /\ n.start = Held(nodes)
               /\ n.alone = k.alone /\ n.emptied = k.emptied
               /\ ChangedOnce(ops)
            \/ n.stage = "refused"
<1> DEFINE k == job[j]
           go == [k EXCEPT !.stage = "applying", !.ops = ops, !.start = Held(nodes)]
           no == [Idle EXCEPT !.stage = "refused"]
           test == ChangedOnce(ops) /\ Passes(nodes, k.seen, ops)
<1>1. Goes(j, IF test THEN go ELSE no) /\ k.stage = "loaded"
  BY DEF Submit
<1>2. nodes' = nodes /\ job'[j] = IF test THEN go ELSE no
  BY <1>1, QuietStep
<1>3. JobShape(k)
  BY DEF ShapeInv
<1>4. test => ChangedOnce(ops)
  OBVIOUS
<1> HIDE DEF k, test
<1>5. /\ go.stage = "applying" /\ go.seen = k.seen /\ go.ops = ops
      /\ go.todo = <<>> /\ go.undo = <<>> /\ go.start = Held(nodes)
      /\ go.alone = k.alone /\ go.emptied = k.emptied /\ no.stage = "refused"
  BY <1>1, <1>3, IdleFields DEF JobShape
<1> HIDE DEF go, no
<1>6. CASE test
  BY <1>1, <1>2, <1>4, <1>5, <1>6 DEF k
<1>7. CASE ~test
  BY <1>1, <1>2, <1>5, <1>7 DEF k
<1> QED
  BY <1>6, <1>7

GaveUp(k, n) ==
    /\ n.stage = (IF k.undo = <<>> THEN "compensated" ELSE "undoing")
    /\ n.todo = <<>> /\ n.ops = <<>> /\ n.undo = k.undo /\ SameHistory(k, n)

LEMMA GiveUpEffect ==
  ASSUME ShapeInv, NEW j \in Jobs
  PROVE  GaveUp(job[j], GiveUp(j))
<1> DEFINE k == job[j]
           s == IF k.undo = <<>> THEN "compensated" ELSE "undoing"
           next == [k EXCEPT !.todo = <<>>, !.ops = <<>>, !.back = <<>>, !.stage = s]
<1>1. GiveUp(j) = next
  BY DEF GiveUp
<1>2. JobShape(k)
  BY DEF ShapeInv
<1> HIDE DEF k
<1>3. /\ next.ops = <<>> /\ next.todo = <<>> /\ next.undo = k.undo /\ next.stage = s
      /\ SameHistory(k, next)
  BY <1>2, IdleFields DEF JobShape, SameHistory
<1> HIDE DEF next
<1> QED
  BY <1>1, <1>3 DEF k, GaveUp

LEMMA PrepareEffect ==
  ASSUME ShapeInv, NEW j \in Jobs, PrepareCalls(j)
  PROVE  LET k == job[j]  n == job'[j]  o == Head(k.ops) IN
         /\ nodes' = nodes /\ k.stage = "applying" /\ k.todo = <<>>
         /\ \/ GaveUp(k, n)
            \/ /\ o.op \in {"update", "delete"} => nodes[o.path].type = "file"
               /\ n.stage = "applying" /\ n.seen = k.seen /\ n.ops = k.ops
               /\ n.todo = Commands(nodes, k.seen, o) /\ n.back = Undo(nodes, k.seen, o)
               /\ n.undo = k.undo /\ SameHistory(k, n)
<1> DEFINE k == job[j]
           o == Head(k.ops)
           go == [k EXCEPT !.todo = Commands(nodes, k.seen, o), !.back = Undo(nodes, k.seen, o)]
           test == o.op \in {"update", "delete"} /\ nodes[o.path].type # "file"
<1>1. Goes(j, IF test THEN GiveUp(j) ELSE go) /\ k.stage = "applying" /\ k.todo = <<>>
  BY DEF PrepareCalls
<1>2. nodes' = nodes /\ job'[j] = IF test THEN GiveUp(j) ELSE go
  BY <1>1, QuietStep
<1>3. JobShape(k) /\ GaveUp(k, GiveUp(j))
  BY GiveUpEffect DEF ShapeInv
<1>4. ~test => (o.op \in {"update", "delete"} => nodes[o.path].type = "file")
  OBVIOUS
<1> HIDE DEF k, o, test
<1>5. /\ go.stage = "applying" /\ go.seen = k.seen /\ go.ops = k.ops
      /\ go.todo = Commands(nodes, k.seen, o) /\ go.back = Undo(nodes, k.seen, o)
      /\ go.undo = k.undo /\ SameHistory(k, go)
  BY <1>1, <1>3, IdleFields DEF JobShape, SameHistory
<1> HIDE DEF go
<1>6. CASE test
  BY <1>1, <1>2, <1>3, <1>6 DEF k
<1>7. CASE ~test
  BY <1>1, <1>2, <1>4, <1>5, <1>7 DEF k, o
<1> QED
  BY <1>6, <1>7

LEMMA ApplyEffect ==
  ASSUME ShapeInv, NEW j \in Jobs, MakeCall(j)
  PROVE  LET k == job[j]  n == job'[j]  cmd == Head(k.todo)  over == Len(k.todo) = 1 IN
         /\ k.stage = "applying" /\ k.todo # <<>> /\ IsCommand(cmd)
         /\ \/ nodes' = nodes /\ ~Accepts(nodes, cmd) /\ GaveUp(k, n)
            \/ /\ nodes' = Done(nodes, cmd) /\ Accepts(nodes, cmd)
               /\ \/ n.stage = "applied"
                  \/ /\ n.stage = "applying" /\ n.seen = k.seen
                     /\ n.todo = Tail(k.todo) /\ n.back = k.back
                     /\ n.ops = (IF over THEN Tail(k.ops) ELSE k.ops)
                     /\ n.undo = (IF over THEN k.back \o k.undo ELSE k.undo)
                     /\ SameHistory(k, n)
<1> DEFINE k == job[j]
           cmd == Head(k.todo)
           over == Len(k.todo) = 1
           last == over /\ Len(k.ops) = 1
           next == [k EXCEPT !.todo = Tail(@), !.ops = IF over THEN Tail(@) ELSE @,
                             !.undo = IF over THEN k.back \o @ ELSE @]
           end == [Idle EXCEPT !.stage = "applied"]
<1>1. /\ k.stage = "applying" /\ k.todo # <<>>
      /\ IF Accepts(nodes, cmd) THEN Perform(cmd, j, IF last THEN end ELSE next)
                                ELSE Goes(j, GiveUp(j))
  BY DEF MakeCall
<1>2. JobShape(k) /\ GaveUp(k, GiveUp(j))
  BY GiveUpEffect DEF ShapeInv
<1>3. IsCommand(cmd)
  <2> HIDE DEF k
  <2> QED
    BY <1>1, <1>2, TailCommands DEF JobShape
<1>4. \/ nodes' = nodes /\ ~Accepts(nodes, cmd) /\ job'[j] = GiveUp(j)
      \/ nodes' = Done(nodes, cmd) /\ Accepts(nodes, cmd) /\ job'[j] \in {end, next}
  <2> HIDE DEF k, cmd, last, end, next
  <2> QED
    BY <1>1, <1>3, QuietStep, PortStep DEF Touches
<1>5. end.stage = "applied"
  BY IdleFields
<1> HIDE DEF k
<1>6. /\ next.stage = "applying" /\ next.seen = k.seen
      /\ next.todo = Tail(k.todo) /\ next.back = k.back
      /\ next.ops = (IF over THEN Tail(k.ops) ELSE k.ops)
      /\ next.undo = (IF over THEN k.back \o k.undo ELSE k.undo)
      /\ SameHistory(k, next)
  BY <1>1, <1>2, IdleFields DEF JobShape, SameHistory
<1> HIDE DEF cmd, over, end, next
<1> QED
  BY <1>1, <1>2, <1>3, <1>4, <1>5, <1>6 DEF k, cmd, over

LEMMA TakeBackEffect ==
  ASSUME ShapeInv, NEW j \in Jobs, TakeBack(j)
  PROVE  LET k == job[j]  n == job'[j]  cmd == Head(k.undo) IN
         /\ k.stage = "undoing" /\ k.undo # <<>> /\ IsCommand(cmd)
         /\ \/ nodes' = nodes /\ ~Accepts(nodes, cmd) /\ n.stage = "broken"
            \/ /\ nodes' = Done(nodes, cmd) /\ Accepts(nodes, cmd)
               /\ n.stage = (IF Len(k.undo) = 1 THEN "compensated" ELSE "undoing")
               /\ n.undo = Tail(k.undo) /\ n.ops = k.ops /\ SameHistory(k, n)
<1> DEFINE k == job[j]
           cmd == Head(k.undo)
           s == IF Len(k.undo) = 1 THEN "compensated" ELSE "undoing"
           next == [k EXCEPT !.undo = Tail(@), !.stage = s]
           no == [k EXCEPT !.stage = "broken"]
<1>1. /\ k.stage = "undoing"
      /\ IF Accepts(nodes, cmd) THEN Perform(cmd, j, next) ELSE Goes(j, no)
  BY DEF TakeBack
<1>2. JobShape(k)
  BY DEF ShapeInv
<1> HIDE DEF k
<1>3. k.undo # <<>> /\ IsCommand(cmd)
  BY <1>1, <1>2, TailCommands DEF JobShape
<1>4. /\ next.stage = s /\ next.undo = Tail(k.undo) /\ next.ops = k.ops
      /\ SameHistory(k, next) /\ no.stage = "broken"
  BY <1>1, <1>2, IdleFields DEF JobShape, SameHistory
<1> HIDE DEF cmd, next, no
<1>5. \/ nodes' = Done(nodes, cmd) /\ Accepts(nodes, cmd) /\ job'[j] = next
      \/ nodes' = nodes /\ ~Accepts(nodes, cmd) /\ job'[j] = no
  BY <1>1, <1>3, QuietStep, PortStep DEF Touches
<1> QED
  BY <1>1, <1>3, <1>4, <1>5 DEF k, cmd

-----------------------------------------------------------------------------
\* A restore that is alone: what it listed is there, and what it has put back is what
\* the snapshot holds.
RestoreInv(k, t) ==
    k.alone =>
      /\ k.stage = "reading" => k.reading \subseteq FilesOf(t)
      /\ k.stage = "putting" =>
           /\ k.reading \subseteq FilesOf(t) /\ k.put \subseteq DOMAIN k.target
           /\ FilesOf(t) = k.reading \cup (DOMAIN k.target \ k.put)
           /\ \A p \in DOMAIN k.target \ k.put : t[p].content = k.target[p]

RestoresInv == \A k \in Jobs : RestoreInv(job[k], nodes)

LEMMA StagesOfOthers ==
  ASSUME ShapeInv, NEW j \in Jobs,
         Load(j) \/ (\E ops \in Programs : Submit(j, ops))
           \/ PrepareCalls(j) \/ MakeCall(j) \/ TakeBack(j)
  PROVE  job'[j].stage \in {"loaded", "applying", "refused", "applied", "compensated",
                            "undoing", "broken"}
BY LoadEffect, SubmitEffect, PrepareEffect, ApplyEffect, TakeBackEffect DEF GaveUp

LEMMA RestoresStep ==
  ASSUME ConstantsAreSound, ShapeInv, RestoresInv, [SourceNext]_sourceVars
  PROVE  RestoresInv'
<1> SUFFICES ASSUME NEW k \in Jobs PROVE RestoreInv(job'[k], nodes')
  BY DEF RestoresInv, RestoreInv, FilesOf
<1>0. RestoreInv(job[k], nodes)
  BY DEF RestoresInv
<1>1. CASE nodes' = nodes /\ job'[k] = job[k]
  BY <1>0, <1>1
<1>2. CASE job'[k] = Disturbed(k)
  <2>1. job'[k].stage = job[k].stage /\ job'[k].alone = (job[k].alone /\ job[k].stage \notin Busy)
    BY <1>2, DisturbedFields
  <2> QED
    BY <2>1 DEF RestoreInv, Busy
<1>3. CASE Own(k)
  <2>1. CASE Load(k) \/ (\E ops \in Programs : Submit(k, ops))
               \/ PrepareCalls(k) \/ MakeCall(k) \/ TakeBack(k)
    BY <2>1, StagesOfOthers DEF RestoreInv
  <2>2. ASSUME NEW kind, NEW r, NEW target, List(k, kind, r, target)
        PROVE  RestoreInv(job'[k], nodes')
    BY <2>2, ListShape DEF RestoreInv
  <2>3. ASSUME NEW p \in NodePaths, Read(k, p)
        PROVE  RestoreInv(job'[k], nodes')
    BY <1>0, <2>3, ReadShape DEF RestoreInv
  <2>4. ASSUME Store(k) PROVE RestoreInv(job'[k], nodes')
    BY <2>4, StoreShape DEF RestoreInv
  <2>5. ASSUME NEW p \in NodePaths, Put(k, p)
        PROVE  RestoreInv(job'[k], nodes')
    <3>1. CASE job'[k].stage = "failed"
      BY <3>1 DEF RestoreInv
    <3>2. CASE job'[k].stage # "failed"
      <4>1. /\ job[k].stage = "putting" /\ p \in job[k].put
            /\ job'[k].stage = "putting" /\ job'[k].put = job[k].put \ {p}
            /\ job'[k].reading = job[k].reading /\ job'[k].target = job[k].target
            /\ job'[k].alone = job[k].alone
            /\ nodes'[p].type = "file" /\ nodes'[p].content = job[k].target[p]
            /\ \A q \in NodePaths \ {p} : nodes'[q] = nodes[q]
        BY <2>5, <3>2, PutShape
      <4>2. FilesOf(nodes') = FilesOf(nodes) \cup {p}
        BY <4>1 DEF FilesOf
      <4>3. FilesOf(nodes) \subseteq NodePaths
        BY DEF FilesOf
      <4> QED
        BY <1>0, <4>1, <4>2, <4>3 DEF RestoreInv
    <3> QED
      BY <3>1, <3>2
  <2>6. ASSUME NEW p \in NodePaths, RemoveExtra(k, p)
        PROVE  RestoreInv(job'[k], nodes')
    <3>1. CASE job'[k].stage = "failed"
      BY <3>1 DEF RestoreInv
    <3>2. CASE job'[k].stage # "failed"
      <4>1. /\ job[k].stage = "putting" /\ job[k].put = {}
            /\ p \in job[k].reading \ DOMAIN job[k].target
            /\ job'[k].stage = "putting" /\ job'[k].put = {}
            /\ job'[k].reading = job[k].reading \ {p} /\ job'[k].target = job[k].target
            /\ job'[k].alone = job[k].alone /\ nodes'[p] = Nothing
            /\ \A q \in NodePaths \ {p} : nodes'[q] = nodes[q]
        BY <2>6, <3>2, RemoveExtraShape
      <4>2. FilesOf(nodes') = FilesOf(nodes) \ {p}
        BY <4>1, Nodes DEF FilesOf
      <4>3. FilesOf(nodes) \subseteq NodePaths
        BY DEF FilesOf
      <4> QED
        BY <1>0, <4>1, <4>2, <4>3 DEF RestoreInv
    <3> QED
      BY <3>1, <3>2
  <2>7. ASSUME Restored(k) PROVE RestoreInv(job'[k], nodes')
    BY <2>7, RestoredShape DEF RestoreInv
  <2> QED
    BY <1>3, <2>1, <2>2, <2>3, <2>4, <2>5, <2>6, <2>7
       DEF Own, CreateSnapshot, RestoreSnapshot
<1> QED
  BY <1>1, <1>2, <1>3, StepOfEach

\* The body of RestoreAloneIsExact.
LEMMA RestoreSays ==
  ASSUME ConstantsAreSound, ShapeInv, RestoresInv, [SourceNext]_sourceVars, NEW j \in Jobs, job[j].alone
  PROVE  /\ Becomes(j, "restored") =>
              /\ FilesOf(nodes) = DOMAIN job[j].target
              /\ \A p \in FilesOf(nodes) : nodes[p].content = job[j].target[p]
         /\ Becomes(j, "failed") =>
              \E p \in job[j].put : ~HasParent(nodes, p) \/ nodes[p].type = "directory"
<1>0. RestoreInv(job[j], nodes)
  BY DEF RestoresInv
<1>1. CASE nodes' = nodes /\ job'[j] = job[j]
  BY <1>1 DEF Becomes
<1>2. CASE job'[j] = Disturbed(j)
  BY <1>2, DisturbedFields DEF Becomes
<1>3. CASE Own(j)
  <2>1. CASE Load(j) \/ (\E ops \in Programs : Submit(j, ops))
               \/ PrepareCalls(j) \/ MakeCall(j) \/ TakeBack(j)
    BY <2>1, StagesOfOthers DEF Becomes
  <2>2. ASSUME NEW kind, NEW r, NEW target, List(j, kind, r, target)
        PROVE  ~Becomes(j, "restored") /\ ~Becomes(j, "failed")
    BY <2>2, ListShape DEF Becomes
  <2>3. ASSUME NEW p \in NodePaths, Read(j, p)
        PROVE  ~Becomes(j, "restored") /\ ~Becomes(j, "failed")
    BY <1>0, <2>3, ReadShape DEF Becomes, RestoreInv, FilesOf
  <2>4. ASSUME Store(j) PROVE ~Becomes(j, "restored") /\ ~Becomes(j, "failed")
    BY <2>4, StoreShape DEF Becomes
  <2>5. ASSUME NEW p \in NodePaths, Put(j, p)
        PROVE  /\ ~Becomes(j, "restored")
               /\ Becomes(j, "failed") => p \in job[j].put
                     /\ (~HasParent(nodes, p) \/ nodes[p].type = "directory")
    <3>1. CASE job'[j].stage = "putting"
      BY <3>1 DEF Becomes
    <3>2. CASE job'[j].stage # "putting"
      <4>1. /\ job[j].stage = "putting" /\ p \in job[j].put /\ job'[j].stage = "failed"
            /\ IF p \in job[j].reading THEN nodes[p].type # "file"
               ELSE nodes[p].type # "none" \/ ~HasParent(nodes, p)
        BY <2>5, <3>2, PutShape
      <4>2. nodes[p].type \in {"none", "directory", "file"}
        BY NodeFacts DEF ShapeInv
      <4>3. p \notin job[j].reading /\ nodes[p].type # "file"
        BY <1>0, <4>1 DEF RestoreInv, FilesOf
      <4> QED
        BY <4>1, <4>2, <4>3 DEF Becomes
    <3> QED
      BY <3>1, <3>2
  <2>6. ASSUME NEW p \in NodePaths, RemoveExtra(j, p)
        PROVE  ~Becomes(j, "restored") /\ ~Becomes(j, "failed")
    <3>1. CASE job'[j].stage = "putting"
      BY <3>1 DEF Becomes
    <3>2. CASE job'[j].stage # "putting"
      <4>1. job[j].stage = "putting" /\ p \in job[j].reading /\ nodes[p].type # "file"
        BY <2>6, <3>2, RemoveExtraShape
      <4> QED
        BY <1>0, <4>1 DEF RestoreInv, FilesOf
    <3> QED
      BY <3>1, <3>2
  <2>7. ASSUME Restored(j)
        PROVE  /\ ~Becomes(j, "failed")
               /\ FilesOf(nodes) = DOMAIN job[j].target
               /\ \A p \in FilesOf(nodes) : nodes[p].content = job[j].target[p]
    BY <1>0, <2>7, RestoredShape DEF Becomes, RestoreInv
  <2> QED
    BY <1>3, <2>1, <2>2, <2>3, <2>4, <2>5, <2>6, <2>7
       DEF Own, CreateSnapshot, RestoreSnapshot
<1> QED
  BY <1>1, <1>2, <1>3, StepOfEach

-----------------------------------------------------------------------------
\* Updates

\* What the calls of one operation may be: only directories and one new file are made
\* in several calls, and what is replaced, removed or moved away is the file of the
\* operation that is under way, on the revision its caller loaded.
UnderWay(k) ==
    k.stage = "applying" =>
      \A i \in DOMAIN k.todo :
        LET c == k.todo[i] IN
        /\ c.do # "rmdir"
        /\ c.do \in {"write", "delete", "move"} =>
             Len(k.todo) = 1 /\ c.path = Head(k.ops).path
        /\ c.do = "write" => c.rev = k.seen[c.path].rev
        /\ c.do = "create" => c.path = Head(k.ops).path

\* What a caller loaded is still what the tree holds, or an earlier revision of it,
\* where no path was emptied since: everywhere before it submits, and then at the
\* paths it has not come to.
StillFits(k, t) ==
    k.stage \in {"loaded", "applying"} =>
      \A p \in NodePaths \ k.emptied :
        k.stage = "loaded" \/ (\E i \in DOMAIN k.ops : k.ops[i].path = p)
          => Fits(k.seen[p], t[p])

UpdateInv == \A k \in Jobs : UnderWay(job[k]) /\ StillFits(job[k], nodes)

LEMMA CommandsUnderWay ==
  ASSUME ConstantsAreSound, NEW t, NEW seen, NEW o, IsOperation(o)
  PROVE  LET s == Commands(t, seen, o) IN
         \A i \in DOMAIN s :
           /\ s[i].do # "rmdir"
           /\ s[i].do \in {"write", "delete", "move"} => Len(s) = 1 /\ s[i].path = o.path
           /\ s[i].do = "write" => s[i].rev = seen[s[i].path].rev
           /\ s[i].do = "create" => s[i].path = o.path
<1> USE DEF IsOperation
<1>1. CASE o.op = "create"
  <2> DEFINE dirs == MissingParents(t, o.path)
             made == [i \in 1..Len(dirs) |-> MakeDirectory(dirs[i])]
             c == Create(o.path, o.content)
  <2>1. IsSeq(dirs) /\ Len(dirs) \in Nat /\ \A i \in 1..Len(dirs) : dirs[i] \in NodePaths
    BY <1>1, MissingArePaths, SeqFacts
  <2>2. \A i \in 1..Len(dirs) : made[i].do = "mkdir"
    BY KindFields
  <2>3. AreCommands(made) /\ Len(made) = Len(dirs)
    <3> HIDE DEF dirs
    <3> QED
      BY <2>1, MadeDirectories
  <2>4. /\ c.do = "create" /\ c.path = o.path
        /\ IsSeq(<<c>>) /\ Len(<<c>>) = 1 /\ <<c>>[1] = c
    <3>1. c.do = "create" /\ c.path = o.path
      BY KindFields
    <3> HIDE DEF c
    <3> QED
      BY <3>1, OneSeq
  <2>5. Commands(t, seen, o) = made \o <<c>>
    BY <1>1 DEF Commands
  <2> HIDE DEF made, c, dirs
  <2>6. /\ IsSeq(made \o <<c>>) /\ Len(made \o <<c>>) = Len(made) + 1
        /\ \A i \in 1..Len(made) : (made \o <<c>>)[i] = made[i]
        /\ \A i \in 1..1 : (made \o <<c>>)[Len(made) + i] = <<c>>[i]
    BY <2>3, <2>4, ConcatSeq DEF AreCommands
  <2>7. DOMAIN (made \o <<c>>) = 1..(Len(made) + 1) /\ Len(made) \in Nat
    BY <2>1, <2>3, <2>6, SeqFacts
  <2>8. ASSUME NEW i \in 1..(Len(made) + 1)
        PROVE  LET e == (made \o <<c>>)[i] IN
               e.do = "mkdir" \/ (e.do = "create" /\ e.path = o.path)
    <3>1. CASE i \in 1..Len(made)
      BY <2>2, <2>3, <2>6, <3>1
    <3>2. CASE i \notin 1..Len(made)
      <4>1. i = Len(made) + 1 /\ 1 \in 1..1
        BY <2>7, <3>2
      <4> QED
        BY <2>4, <2>6, <4>1
    <3> QED
      BY <3>1, <3>2
  <2> QED
    BY <2>5, <2>7, <2>8
<1>2. CASE o.op # "create"
  <2>1. \E c : /\ Commands(t, seen, o) = <<c>> /\ c.path = o.path
               /\ c.do \in {"write", "delete", "mkdir", "move"}
               /\ c.do = "write" => c.rev = seen[o.path].rev
    <3>1. CASE o.op = "update"
      BY <3>1, KindFields DEF Commands
    <3>2. CASE o.op = "delete"
      BY <3>2, KindFields DEF Commands
    <3>3. CASE o.op = "create-directory"
      BY <3>3, KindFields DEF Commands
    <3>4. CASE o.op = "move"
      BY <3>4, KindFields DEF Commands
    <3> QED
      BY <1>2, <3>1, <3>2, <3>3, <3>4
  <2>2. \A c : DOMAIN <<c>> = {1} /\ <<c>>[1] = c /\ Len(<<c>>) = 1
    OBVIOUS
  <2> QED
    BY <2>1, <2>2
<1> QED
  BY <1>1, <1>2

LEMMA FitsItself ==
  ASSUME NEW s, NEW n, s = n
  PROVE  Fits(s, n)
BY DEF Fits

LEMMA UpdateStep ==
  ASSUME ConstantsAreSound, ShapeInv, UpdateInv, [SourceNext]_sourceVars
  PROVE  UpdateInv'
<1> SUFFICES ASSUME NEW j \in Jobs PROVE UnderWay(job'[j]) /\ StillFits(job'[j], nodes')
  BY DEF UpdateInv, UnderWay, StillFits
<1> DEFINE k == job[j]
           n == job'[j]
<1> SUFFICES UnderWay(n) /\ StillFits(n, nodes')
  OBVIOUS
<1>0. UnderWay(k) /\ StillFits(k, nodes) /\ JobShape(k) /\ IsTree(nodes)
  BY DEF UpdateInv, ShapeInv
<1>1. CASE nodes' = nodes /\ n = k
  BY <1>0, <1>1
<1>2. CASE n = Disturbed(j) /\ \E cmd : Touches(cmd)
  <2>1. /\ SameWork(k, n) /\ n.stage = k.stage
        /\ n.emptied = IF k.stage = "idle" THEN k.emptied
                       ELSE k.emptied
                          \cup {p \in NodePaths : nodes[p].type # "none" /\ nodes'[p].type = "none"}
    BY <1>2, DisturbedFields
  <2>2. PICK cmd : Touches(cmd)
    BY <1>2
  <2> HIDE DEF k, n
  <2>3. UnderWay(n)
    BY <1>0, <2>1 DEF UnderWay, SameWork
  <2>4. ASSUME n.stage \in {"loaded", "applying"}, NEW p \in NodePaths \ n.emptied,
               n.stage = "loaded" \/ (\E i \in DOMAIN n.ops : n.ops[i].path = p)
        PROVE  Fits(n.seen[p], nodes'[p])
    <3>1. p \notin k.emptied /\ (nodes'[p].type = "none" => nodes[p].type = "none")
      BY <2>1, <2>4
    <3>2. Fits(k.seen[p], nodes[p])
      BY <1>0, <2>1, <2>4, <3>1 DEF StillFits, SameWork
    <3>3. IsCommand(cmd) /\ Accepts(nodes, cmd) /\ nodes' = Done(nodes, cmd)
      BY <2>2 DEF Touches
    <3>4. Fits(k.seen[p], nodes'[p])
      BY <1>0, <3>1, <3>2, <3>3, FitsStays
    <3> QED
      BY <2>1, <3>4 DEF SameWork
  <2> QED
    BY <2>3, <2>4 DEF StillFits
<1>3. CASE Own(j)
  <2>1. ASSUME n.stage \notin {"loaded", "applying"}
        PROVE  UnderWay(n) /\ StillFits(n, nodes')
    BY <2>1 DEF UnderWay, StillFits
  <2>2. CASE Load(j)
    <3>1. n.stage = "loaded" /\ n.seen = nodes /\ nodes' = nodes
      BY <2>2, LoadEffect
    <3> HIDE DEF n
    <3> QED
      BY <3>1, FitsItself DEF UnderWay, StillFits
  <2>3. ASSUME NEW ops \in Programs, Submit(j, ops), n.stage = "applying"
        PROVE  UnderWay(n) /\ StillFits(n, nodes')
    <3>1. /\ nodes' = nodes /\ k.stage = "loaded" /\ n.seen = k.seen /\ n.todo = <<>>
          /\ n.emptied = k.emptied
      BY <2>3, SubmitEffect
    <3>2. DOMAIN n.todo = {}
      BY <3>1
    <3> HIDE DEF n, k
    <3> QED
      BY <1>0, <2>3, <3>1, <3>2 DEF UnderWay, StillFits
  <2>4. ASSUME PrepareCalls(j), n.stage = "applying"
        PROVE  UnderWay(n) /\ StillFits(n, nodes')
    <3> DEFINE o == Head(k.ops)
    <3>1. /\ nodes' = nodes /\ k.stage = "applying" /\ n.seen = k.seen /\ n.ops = k.ops
          /\ n.todo = Commands(nodes, k.seen, o) /\ n.emptied = k.emptied
      BY <2>4, PrepareEffect DEF GaveUp, SameHistory
    <3> HIDE DEF n, k
    <3>2. IsOperation(o)
      BY <1>0, <3>1, TailOperations DEF JobShape
    <3>3. UnderWay(n)
      <4> HIDE DEF o
      <4>1. \A i \in DOMAIN n.todo :
              /\ n.todo[i].do # "rmdir"
              /\ n.todo[i].do \in {"write", "delete", "move"} =>
                   Len(n.todo) = 1 /\ n.todo[i].path = o.path
              /\ n.todo[i].do = "write" => n.todo[i].rev = n.seen[n.todo[i].path].rev
              /\ n.todo[i].do = "create" => n.todo[i].path = o.path
        BY <3>1, <3>2, CommandsUnderWay
      <4>2. o = Head(n.ops)
        BY <3>1 DEF o
      <4> QED
        BY <4>1, <4>2 DEF UnderWay
    <3> QED
      BY <1>0, <2>4, <3>1, <3>3 DEF StillFits
  <2>5. ASSUME MakeCall(j), n.stage = "applying"
        PROVE  UnderWay(n) /\ StillFits(n, nodes')
    <3> DEFINE c == Head(k.todo)
    <3>1. /\ k.stage = "applying" /\ k.todo # <<>> /\ IsCommand(c)
          /\ nodes' = Done(nodes, c) /\ Accepts(nodes, c) /\ n.seen = k.seen
          /\ n.todo = Tail(k.todo) /\ n.emptied = k.emptied
          /\ n.ops = (IF Len(k.todo) = 1 THEN Tail(k.ops) ELSE k.ops)
      BY <2>5, ApplyEffect DEF GaveUp, SameHistory
    <3> HIDE DEF n, k
    <3>2. /\ IsSeq(k.ops) /\ k.ops # <<>> /\ ChangedOnce(k.ops) /\ IsSeq(k.todo)
          /\ \A i \in DOMAIN k.ops : IsOperation(k.ops[i])
      BY <1>0, <3>1 DEF JobShape, AreCommands
    <3>3. /\ Len(k.todo) \in Nat \ {0} /\ DOMAIN k.todo = 1..Len(k.todo)
          /\ c = k.todo[1] /\ IsSeq(Tail(k.todo)) /\ Len(Tail(k.todo)) = Len(k.todo) - 1
          /\ DOMAIN Tail(k.todo) = 1..(Len(k.todo) - 1)
          /\ \A i \in 1..(Len(k.todo) - 1) : Tail(k.todo)[i] = k.todo[i + 1]
      BY <3>1, <3>2, TailSeq, SeqFacts
    <3>4. UnderWay(n)
      <4>1. ASSUME NEW i \in DOMAIN n.todo
            PROVE  /\ n.todo[i].do \notin {"rmdir", "write", "delete", "move"}
                   /\ n.todo[i].do = "create" => n.todo[i].path = Head(n.ops).path
        <5>1. i \in 1..(Len(k.todo) - 1) /\ n.todo[i] = k.todo[i + 1]
              /\ i + 1 \in DOMAIN k.todo /\ Len(k.todo) # 1
          BY <3>1, <3>3
        <5> QED
          BY <1>0, <3>1, <5>1 DEF UnderWay
      <4> QED
        BY <4>1 DEF UnderWay
    <3>5. ASSUME NEW p \in NodePaths \ n.emptied, \E i \in DOMAIN n.ops : n.ops[i].path = p
          PROVE  Fits(n.seen[p], nodes'[p])
      <4>1. \E i \in DOMAIN k.ops : k.ops[i].path = p
        BY <3>1, <3>2, <3>5, TailOperations
      <4>2. Fits(k.seen[p], nodes[p])
        BY <1>0, <3>1, <3>5, <4>1 DEF StillFits
      <4>3. Len(k.todo) = 1 => p # Head(k.ops).path
        BY <3>1, <3>2, <3>5, TailOperations
      <4>4. /\ c.do # "rmdir"
            /\ c.do \in {"write", "delete", "move"} =>
                 Len(k.todo) = 1 /\ c.path = Head(k.ops).path
        <5>1. 1 \in DOMAIN k.todo
          BY <3>3
        <5> QED
          BY <1>0, <3>1, <3>3, <5>1 DEF UnderWay
      <4>5. nodes'[p].type = "none" => nodes[p].type = "none"
        <5>1. DOMAIN nodes = NodePaths
          BY <1>0 DEF IsTree
        <5>2. c.do \in {"delete", "move"} => p # c.path
          BY <4>3, <4>4
        <5>3. c.do \in {"create", "mkdir", "write", "delete", "rmdir", "move"}
          BY <3>1 DEF IsCommand
        <5>4. nodes'[p] = nodes[p] \/ nodes'[p].type \in {"file", "directory"}
          BY <3>1, <4>4, <5>1, <5>2, <5>3, DoneAt, Nodes DEF NewFile
        <5> QED
          BY <5>4
      <4>6. Fits(k.seen[p], nodes'[p])
        BY <1>0, <3>1, <4>2, <4>5, FitsStays
      <4> QED
        BY <3>1, <4>6
    <3> QED
      BY <2>5, <3>4, <3>5 DEF StillFits
  <2>6. CASE TakeBack(j)
    <3>1. n.stage \notin {"loaded", "applying"}
      BY <2>6, TakeBackEffect
    <3> QED
      BY <2>1, <3>1
  <2>7. ASSUME \/ \E kind, r, target : List(j, kind, r, target)
               \/ \E p \in NodePaths : Read(j, p) \/ Put(j, p) \/ RemoveExtra(j, p)
               \/ Store(j) \/ Restored(j)
        PROVE  n.stage \notin {"loaded", "applying"}
    BY <2>7, ListShape, ReadShape, PutShape, RemoveExtraShape, StoreShape, RestoredShape
  <2> HIDE DEF n, k
  <2>8. ASSUME \E ops \in Programs : Submit(j, ops)
        PROVE  UnderWay(n) /\ StillFits(n, nodes')
    <3>1. n.stage \in {"applying", "refused"}
      BY <2>8, SubmitEffect DEF n
    <3> QED
      BY <2>1, <2>3, <2>8, <3>1
  <2>9. PrepareCalls(j) \/ MakeCall(j) => UnderWay(n) /\ StillFits(n, nodes')
    <3>1. PrepareCalls(j) \/ MakeCall(j) => n.stage # "loaded"
      BY PrepareEffect, ApplyEffect DEF n, GaveUp
    <3> QED
      BY <2>1, <2>4, <2>5, <3>1
  <2> QED
    BY <1>3, <2>1, <2>2, <2>6, <2>7, <2>8, <2>9 DEF Own, CreateSnapshot, RestoreSnapshot
<1> QED
  BY <1>1, <1>2, <1>3, StepOfEach

LEMMA UpdateSays ==
  ASSUME ConstantsAreSound, ShapeInv, UpdateInv, [SourceNext]_sourceVars, NEW j \in Jobs,
         job[j].stage = "applying", job[j].todo # <<>>, Head(job[j].todo).do = "write",
         job'[j].todo = <<>>, job'[j].stage \in {"applying", "applied"}
  PROVE  LET p == Head(job[j].todo).path
         IN nodes[p].content = job[j].seen[p].content \/ p \in job[j].emptied
<1> DEFINE k == job[j]
           n == job'[j]
           c == Head(k.todo)
           p == c.path
<1>0. UnderWay(k) /\ StillFits(k, nodes) /\ JobShape(k) /\ IsTree(nodes)
  BY DEF UpdateInv, ShapeInv
<1>1. n # k /\ n # Disturbed(j)
  BY DisturbedFields DEF SameWork
<1>2. Own(j)
  BY <1>1, StepOfEach
<1>3. MakeCall(j)
  <2>1. ~Load(j) /\ ~(\E ops \in Programs : Submit(j, ops)) /\ ~PrepareCalls(j) /\ ~TakeBack(j)
    BY LoadEffect, SubmitEffect, PrepareEffect, TakeBackEffect
  <2>2. ~(\E kind, r, target : List(j, kind, r, target))
        /\ ~(\E q \in NodePaths : Read(j, q) \/ Put(j, q) \/ RemoveExtra(j, q))
        /\ ~Store(j) /\ ~Restored(j)
    BY ListShape, ReadShape, PutShape, RemoveExtraShape, StoreShape, RestoredShape
  <2> QED
    BY <1>2, <2>1, <2>2 DEF Own, CreateSnapshot, RestoreSnapshot
<1>4. IsCommand(c) /\ Accepts(nodes, c)
  BY <1>3, ApplyEffect DEF GaveUp
<1>5. nodes[p].type = "file" /\ nodes[p].rev = c.rev
  BY <1>4, AcceptsFacts
<1>6. p \in NodePaths /\ c.rev = k.seen[p].rev /\ p = Head(k.ops).path
  <2>1. IsSeq(k.todo) /\ k.todo # <<>>
    BY <1>0 DEF JobShape, AreCommands
  <2>2. c = k.todo[1] /\ 1 \in DOMAIN k.todo
    BY <2>1, TailSeq, SeqFacts
  <2> QED
    BY <1>0, <1>4, <2>2 DEF UnderWay, IsCommand
<1>7. \E i \in DOMAIN k.ops : k.ops[i].path = p
  <2>1. IsSeq(k.ops) /\ k.ops # <<>>
    BY <1>0 DEF JobShape
  <2>2. Head(k.ops) = k.ops[1] /\ 1 \in DOMAIN k.ops
    BY <2>1, TailSeq, SeqFacts
  <2> QED
    BY <1>6, <2>2
<1> HIDE DEF k, c, p
<1>8. ASSUME p \notin k.emptied PROVE nodes[p].content = k.seen[p].content
  <2>1. k.stage = "applying"
    BY DEF k
  <2>2. Fits(k.seen[p], nodes[p])
    BY <1>0, <1>6, <1>7, <1>8, <2>1 DEF StillFits
  <2>3. IsFile(nodes[p]) /\ nodes[p].rev \in Nat \ {0}
    BY <1>0, <1>5, <1>6, NodeFacts DEF IsFile
  <2>4. k.seen[p].rev = nodes[p].rev
    BY <1>5, <1>6
  <2>5. k.seen[p] # Nothing
    BY <2>3, <2>4, Nodes
  <2>6. ~(nodes[p].rev > k.seen[p].rev)
    BY <2>3, <2>4
  <2> QED
    BY <2>2, <2>5, <2>6 DEF Fits
<1> QED
  BY <1>8 DEF k, c, p

-----------------------------------------------------------------------------
\* What a reader sees

\* What a reader sees of a node.
Look(type, v) == [type |-> type, content |-> v]

\* A rename to the same name, which the port never takes.
Stuck(cmd) == cmd = Move(cmd.path, cmd.path)

\* Does the port take a command, whatever the revision it names?
Takes(h, cmd) ==
    IF cmd.do = "write" THEN h[cmd.path].type = "file" ELSE Accepts(h, cmd)

\* What a reader sees after it.
LookAfter(h, cmd) ==
    LET p == cmd.path IN
    [q \in NodePaths |->
       CASE cmd.do \in {"create", "write"} /\ q = p -> Look("file", cmd.content)
             [] cmd.do = "mkdir" /\ q = p -> Look("directory", NoContent)
             [] cmd.do \in {"delete", "rmdir", "move"} /\ q = p -> Look("none", NoContent)
             [] cmd.do = "move" /\ q = cmd.to /\ q # p -> Look("file", h[p].content)
             [] OTHER -> h[q]]

\* Commands that the port takes one after the other, but for those it never takes,
\* lead from one look of the tree to another.
Leads(h, cmds, h1) ==
    \E s : /\ DOMAIN s = 0..Len(cmds) /\ s[0] = h /\ s[Len(cmds)] = h1
           /\ \A i \in 1..Len(cmds) :
                    Stuck(cmds[i]) \/ (Takes(s[i-1], cmds[i]) /\ s[i] = LookAfter(s[i-1], cmds[i]))

LEMMA Looks ==
  /\ \A type, v : Look(type, v).type = type /\ Look(type, v).content = v
  /\ \A t : \A p \in NodePaths : /\ Held(t)[p] = Look(t[p].type, t[p].content)
                                 /\ Held(t)[p].type = t[p].type
                                 /\ Held(t)[p].content = t[p].content
  /\ \A t : Held(t) = [p \in NodePaths |-> Held(t)[p]]
BY DEF Look, Held

LEMMA AfterAt ==
  ASSUME NEW h, NEW cmd, NEW q \in NodePaths
  PROVE  /\ cmd.do \in {"create", "write"} =>
              LookAfter(h, cmd)[q] = IF q = cmd.path THEN Look("file", cmd.content) ELSE h[q]
         /\ cmd.do = "mkdir" =>
              LookAfter(h, cmd)[q] = IF q = cmd.path THEN Look("directory", NoContent) ELSE h[q]
         /\ cmd.do \in {"delete", "rmdir"} =>
              LookAfter(h, cmd)[q] = IF q = cmd.path THEN Look("none", NoContent) ELSE h[q]
         /\ cmd.do = "move" =>
              LookAfter(h, cmd)[q] = IF q = cmd.path THEN Look("none", NoContent)
                                     ELSE IF q = cmd.to THEN Look("file", h[cmd.path].content)
                                     ELSE h[q]
         /\ LookAfter(h, cmd) = [p \in NodePaths |-> LookAfter(h, cmd)[p]]
<1>1. CASE cmd.do \in {"create", "write"}
  BY <1>1 DEF LookAfter
<1>2. CASE cmd.do = "mkdir"
  BY <1>2 DEF LookAfter
<1>3. CASE cmd.do \in {"delete", "rmdir"}
  BY <1>3 DEF LookAfter
<1>4. CASE cmd.do = "move"
  BY <1>4 DEF LookAfter
<1>5. LookAfter(h, cmd) = [p \in NodePaths |-> LookAfter(h, cmd)[p]]
  BY DEF LookAfter
<1> QED
  BY <1>1, <1>2, <1>3, <1>4, <1>5

\* Looks are equal when they show the same everywhere.
LEMMA SameLooks ==
  ASSUME NEW h, NEW g, h = [p \in NodePaths |-> h[p]], g = [p \in NodePaths |-> g[p]],
         \A p \in NodePaths : h[p] = g[p]
  PROVE  h = g
<1> DEFINE f == [p \in NodePaths |-> h[p]]
<1>1. [p \in NodePaths |-> h[p]] = [p \in NodePaths |-> g[p]]
  OBVIOUS
<1> QED
  BY <1>1

LEMMA HeldDone ==
  ASSUME NEW t, IsTree(t), NEW cmd, IsCommand(cmd)
  PROVE  Held(Done(t, cmd)) = LookAfter(Held(t), cmd)
<1>0. DOMAIN t = NodePaths /\ cmd.path \in NodePaths /\ cmd.to \in NodePaths
      /\ cmd.do \in {"create", "mkdir", "write", "delete", "rmdir", "move"}
  BY DEF IsTree, IsCommand
<1> DEFINE u == Done(t, cmd)
           h == Held(t)
<1>1. ASSUME NEW q \in NodePaths PROVE Held(u)[q] = LookAfter(h, cmd)[q]
  <2>1. Held(u)[q] = Look(u[q].type, u[q].content) /\ h[q] = Look(t[q].type, t[q].content)
        /\ h[cmd.path].content = t[cmd.path].content
    BY <1>0, Looks
  <2> HIDE DEF u, h
  <2>2. CASE cmd.do = "create"
    BY <1>0, <2>1, <2>2, DoneAt, AfterAt, Nodes DEF u, NewFile
  <2>3. CASE cmd.do = "write"
    BY <1>0, <2>1, <2>3, DoneAt, AfterAt, Nodes DEF u
  <2>4. CASE cmd.do = "mkdir"
    BY <1>0, <2>1, <2>4, DoneAt, AfterAt, Nodes DEF u
  <2>5. CASE cmd.do \in {"delete", "rmdir"}
    BY <1>0, <2>1, <2>5, DoneAt, AfterAt, Nodes DEF u
  <2>6. CASE cmd.do = "move"
    BY <1>0, <2>1, <2>6, DoneAt, AfterAt, Nodes DEF u
  <2> QED
    BY <1>0, <2>2, <2>3, <2>4, <2>5, <2>6
<1>2. Held(u) = [p \in NodePaths |-> Held(u)[p]]
      /\ LookAfter(h, cmd) = [p \in NodePaths |-> LookAfter(h, cmd)[p]]
  <2> HIDE DEF u, h
  <2>1. Held(u) = [p \in NodePaths |-> Held(u)[p]]
    BY Looks
  <2> QED
    BY <1>0, <2>1, AfterAt
<1> HIDE DEF u, h
<1>3. Held(u) = LookAfter(h, cmd)
  BY <1>1, <1>2, SameLooks
<1> QED
  BY <1>3 DEF u, h

LEMMA HeldAccepts ==
  ASSUME ConstantsAreSound, NEW t, IsTree(t), NEW cmd, IsCommand(cmd)
  PROVE  Accepts(t, cmd) <=>
           Takes(Held(t), cmd) /\ (cmd.do = "write" => t[cmd.path].rev = cmd.rev)
<1>0. DOMAIN t = NodePaths /\ cmd.path \in NodePaths /\ cmd.to \in NodePaths
      /\ cmd.do \in {"create", "mkdir", "write", "delete", "rmdir", "move"}
  BY DEF IsTree, IsCommand
<1>1. \A p \in NodePaths : Held(t)[p].type = t[p].type
  BY Looks
<1>2. ASSUME NEW p \in NodePaths PROVE HasParent(Held(t), p) <=> HasParent(t, p)
  <2>1. Len(p) > 1 => Parent(p) \in NodePaths
    BY PathFacts
  <2> QED
    BY <1>1, <2>1 DEF HasParent
<1>3. Below(cmd.path) \subseteq NodePaths
  BY DEF Below
<1>4. CASE cmd.do \in {"create", "mkdir"}
  BY <1>0, <1>1, <1>2, <1>4 DEF Accepts, Takes
<1>5. CASE cmd.do = "write"
  BY <1>0, <1>1, <1>5 DEF Accepts, Takes
<1>6. CASE cmd.do = "delete"
  BY <1>0, <1>1, <1>6 DEF Accepts, Takes
<1>7. CASE cmd.do = "rmdir"
  BY <1>0, <1>1, <1>3, <1>7 DEF Accepts, Takes
<1>8. CASE cmd.do = "move"
  BY <1>0, <1>1, <1>2, <1>8 DEF Accepts, Takes
<1> QED
  BY <1>0, <1>4, <1>5, <1>6, <1>7, <1>8

LEMMA LeadsNowhere ==
  ASSUME NEW h, NEW h1, NEW cmds, cmds = <<>>
  PROVE  Leads(h, cmds, h1) <=> h = h1
<1>1. Len(cmds) = 0 /\ 1..0 = {} /\ 0..0 = {0}
  BY EmptyIsSeq
<1>2. ASSUME h = h1 PROVE Leads(h, cmds, h1)
  <2> DEFINE s == [i \in 0..0 |-> h]
  <2>1. DOMAIN s = 0..Len(cmds) /\ s[0] = h /\ s[Len(cmds)] = h1
    BY <1>1, <1>2
  <2> HIDE DEF s
  <2> QED
    BY <1>1, <2>1 DEF Leads
<1>3. ASSUME Leads(h, cmds, h1) PROVE h = h1
  BY <1>1, <1>3 DEF Leads
<1> QED
  BY <1>2, <1>3

LEMMA LeadsThrough ==
  ASSUME NEW h, NEW h1, NEW cmds, IsSeq(cmds), cmds # <<>>, Leads(h, cmds, h1),
         ~Stuck(Head(cmds))
  PROVE  Takes(h, Head(cmds)) /\ Leads(LookAfter(h, Head(cmds)), Tail(cmds), h1)
<1> DEFINE n == Len(cmds)
           c == Head(cmds)
           rest == Tail(cmds)
<1>1. /\ n \in Nat \ {0} /\ c = cmds[1] /\ Len(rest) = n - 1
      /\ \A i \in 1..(n - 1) : rest[i] = cmds[i + 1]
  BY TailSeq, SeqFacts
<1>2. PICK s : /\ DOMAIN s = 0..n /\ s[0] = h /\ s[n] = h1
               /\ \A i \in 1..n :
                    Stuck(cmds[i]) \/ (Takes(s[i-1], cmds[i]) /\ s[i] = LookAfter(s[i-1], cmds[i]))
  BY DEF Leads
<1> HIDE DEF n, c, rest
<1>3. Takes(h, c) /\ s[1] = LookAfter(h, c)
  <2>1. 1 \in 1..n /\ 1 - 1 = 0
    BY <1>1
  <2>2. Takes(s[1-1], cmds[1]) /\ s[1] = LookAfter(s[1-1], cmds[1])
    BY <1>1, <1>2, <2>1 DEF c
  <2> QED
    BY <1>1, <1>2, <2>1, <2>2
<1> DEFINE r == [i \in 0..(n - 1) |-> s[i + 1]]
<1>4. /\ DOMAIN r = 0..Len(rest) /\ r[0] = LookAfter(h, c) /\ r[Len(rest)] = h1
      /\ \A i \in 0..(n - 1) : r[i] = s[i + 1]
  BY <1>1, <1>2, <1>3
<1> HIDE DEF r
<1>5. ASSUME NEW i \in 1..Len(rest)
      PROVE  Stuck(rest[i]) \/ (Takes(r[i-1], rest[i]) /\ r[i] = LookAfter(r[i-1], rest[i]))
  <2>1. /\ i \in 1..(n - 1) /\ i + 1 \in 1..n /\ (i + 1) - 1 = i /\ i \in 0..(n - 1)
        /\ i - 1 \in 0..(n - 1) /\ (i - 1) + 1 = i
    BY <1>1
  <2>2. rest[i] = cmds[i + 1] /\ r[i] = s[i + 1] /\ r[i - 1] = s[i]
    BY <1>1, <1>4, <2>1
  <2>3. Stuck(cmds[i + 1]) \/ (Takes(s[i], cmds[i + 1]) /\ s[i + 1] = LookAfter(s[i], cmds[i + 1]))
    BY <1>2, <2>1
  <2> QED
    BY <2>2, <2>3
<1>6. Leads(LookAfter(h, c), rest, h1)
  BY <1>4, <1>5 DEF Leads
<1> QED
  BY <1>3, <1>6 DEF c, rest

LEMMA LeadsOn ==
  ASSUME NEW h, NEW h1, NEW h2, NEW a, NEW b, IsSeq(a), IsSeq(b),
         Leads(h, a, h1), Leads(h1, b, h2)
  PROVE  Leads(h, a \o b, h2)
<1> DEFINE m == Len(a)
           n == Len(b)
           c == a \o b
<1>1. /\ m \in Nat /\ n \in Nat /\ Len(c) = m + n
      /\ \A i \in 1..m : c[i] = a[i]
      /\ \A i \in 1..n : c[m + i] = b[i]
  BY ConcatSeq, SeqFacts
<1>2. PICK s : /\ DOMAIN s = 0..m /\ s[0] = h /\ s[m] = h1
               /\ \A i \in 1..m :
                    Stuck(a[i]) \/ (Takes(s[i-1], a[i]) /\ s[i] = LookAfter(s[i-1], a[i]))
  BY DEF Leads
<1>3. PICK r : /\ DOMAIN r = 0..n /\ r[0] = h1 /\ r[n] = h2
               /\ \A i \in 1..n :
                    Stuck(b[i]) \/ (Takes(r[i-1], b[i]) /\ r[i] = LookAfter(r[i-1], b[i]))
  BY DEF Leads
<1> HIDE DEF m, n, c
<1> DEFINE w == [i \in 0..(m + n) |-> IF i <= m THEN s[i] ELSE r[i - m]]
<1>4. /\ DOMAIN w = 0..Len(c) /\ w[0] = h
      /\ \A i \in 0..m : w[i] = s[i]
      /\ \A i \in 0..n : w[m + i] = r[i]
  <2>1. DOMAIN w = 0..Len(c) /\ w[0] = h /\ \A i \in 0..m : w[i] = s[i]
    BY <1>1, <1>2
  <2>2. ASSUME NEW i \in 0..n PROVE w[m + i] = r[i]
    <3>1. m + i \in 0..(m + n) /\ (m + i) - m = i
      BY <1>1
    <3>2. CASE i = 0
      BY <1>1, <1>2, <1>3, <3>1, <3>2
    <3>3. CASE i # 0
      BY <1>1, <3>1, <3>3
    <3> QED
      BY <3>2, <3>3
  <2> QED
    BY <2>1, <2>2
<1>5. w[Len(c)] = h2
  <2>1. n \in 0..n
    BY <1>1
  <2>2. w[m + n] = r[n]
    BY <1>4, <2>1
  <2> QED
    BY <1>1, <1>3, <2>2
<1> HIDE DEF w
<1>6. ASSUME NEW i \in 1..Len(c)
      PROVE  Stuck(c[i]) \/ (Takes(w[i-1], c[i]) /\ w[i] = LookAfter(w[i-1], c[i]))
  <2>1. CASE i \in 1..m
    <3>1. i \in 0..m /\ i - 1 \in 0..m
      BY <1>1, <2>1
    <3>2. w[i] = s[i] /\ w[i-1] = s[i-1] /\ c[i] = a[i]
      BY <1>1, <1>4, <2>1, <3>1
    <3> QED
      BY <1>2, <2>1, <3>2
  <2>2. CASE i \notin 1..m
    <3> DEFINE k == i - m
    <3>1. k \in 1..n /\ k \in 0..n /\ k - 1 \in 0..n /\ m + k = i /\ m + (k - 1) = i - 1
      BY <1>1, <2>2
    <3> HIDE DEF k
    <3>2. w[i] = r[k] /\ w[i-1] = r[k-1] /\ c[i] = b[k]
      BY <1>1, <1>4, <3>1
    <3> QED
      BY <1>3, <3>1, <3>2
  <2> QED
    BY <2>1, <2>2
<1>7. Leads(h, c, h2)
  BY <1>4, <1>5, <1>6 DEF Leads
<1> QED
  BY <1>7 DEF c

LEMMA LeadsOnce ==
  ASSUME NEW h, NEW h1, NEW c, Stuck(c) \/ (Takes(h, c) /\ h1 = LookAfter(h, c))
  PROVE  Leads(h, <<c>>, h1)
<1> DEFINE cmds == <<c>>
           s == [i \in 0..1 |-> IF i = 0 THEN h ELSE h1]
<1>1. Len(cmds) = 1 /\ cmds[1] = c
  OBVIOUS
<1>2. DOMAIN s = 0..1 /\ s[0] = h /\ s[1] = h1
  OBVIOUS
<1> HIDE DEF cmds, s
<1>3. ASSUME NEW i \in 1..1
      PROVE  Stuck(cmds[i]) \/ (Takes(s[i-1], cmds[i]) /\ s[i] = LookAfter(s[i-1], cmds[i]))
  <2>1. i = 1 /\ i - 1 = 0
    OBVIOUS
  <2> QED
    BY <1>1, <1>2, <2>1
<1>4. Leads(h, cmds, h1)
  BY <1>1, <1>2, <1>3 DEF Leads
<1> QED
  BY <1>4 DEF cmds

-----------------------------------------------------------------------------
\* Taking back one call, and a removal

\* What an operation's calls and its undo mean for a tree that takes the first call.
TakenBack(t, todo, back, path) ==
    Takes(Held(t), Head(todo)) =>
      /\ \A i \in DOMAIN todo : ~Stuck(todo[i])
      /\ \E h1 : Leads(Held(t), todo, h1) /\ Leads(h1, back, Held(t))
      /\ \A i \in DOMAIN back : \A q \in {back[i].path, back[i].to} :
           q = path \/ t[q].type # "file"

LEMMA StuckIsMove ==
  ASSUME NEW cmd, Stuck(cmd)
  PROVE  cmd.do = "move" /\ cmd.path = cmd.to
BY KindFields DEF Stuck

\* One call and one call back.
LEMMA OneTakenBack ==
  ASSUME NEW t, NEW c, NEW d, NEW path, c.path = path,
         Takes(Held(t), c) =>
           /\ ~Stuck(c)
           /\ Stuck(d) \/ (Takes(LookAfter(Held(t), c), d)
                            /\ LookAfter(LookAfter(Held(t), c), d) = Held(t))
           /\ \A q \in {d.path, d.to} : q = path \/ t[q].type # "file"
  PROVE  TakenBack(t, <<c>>, <<d>>, path)
<1>1. /\ Head(<<c>>) = c /\ DOMAIN <<c>> = {1} /\ <<c>>[1] = c
      /\ DOMAIN <<d>> = {1} /\ <<d>>[1] = d
  OBVIOUS
<1> DEFINE h == Held(t)
           todo == <<c>>
           back == <<d>>
<1>2. ASSUME Takes(h, c)
      PROVE  Leads(h, todo, LookAfter(h, c)) /\ Leads(LookAfter(h, c), back, h)
  <2> HIDE DEF h
  <2>1. Leads(h, <<c>>, LookAfter(h, c))
    BY <1>2, LeadsOnce
  <2>2. Stuck(d) \/ (Takes(LookAfter(h, c), d) /\ LookAfter(LookAfter(h, c), d) = h)
    BY <1>2 DEF h
  <2>3. Leads(LookAfter(h, c), <<d>>, h)
    BY <2>2, LeadsOnce
  <2> QED
    BY <2>1, <2>3
<1> HIDE DEF h, todo, back
<1>3. TakenBack(t, todo, back, path)
  <2>1. Head(todo) = c /\ (\A i \in DOMAIN todo : todo[i] = c) /\ (\A i \in DOMAIN back : back[i] = d)
    BY <1>1 DEF todo, back
  <2> QED
    BY <1>2, <2>1 DEF TakenBack, h
<1> QED
  BY <1>3 DEF todo, back

LEMMA UpdateTakenBack ==
  ASSUME NEW t, IsTree(t), NEW seen, NEW o, IsOperation(o), o.op = "update"
  PROVE  TakenBack(t, Commands(t, seen, o), Undo(t, seen, o), o.path)
<1> DEFINE c == Write(o.path, o.content, seen[o.path].rev)
           d == Write(o.path, t[o.path].content, seen[o.path].rev + 1)
           h == Held(t)
           g == LookAfter(h, c)
<1>1. Commands(t, seen, o) = <<c>> /\ Undo(t, seen, o) = <<d>>
  BY DEF Commands, Undo
<1>2. /\ c.do = "write" /\ c.path = o.path /\ c.content = o.content
      /\ d.do = "write" /\ d.path = o.path /\ d.content = t[o.path].content
      /\ d.to = o.path
  BY KindFields
<1>3. o.path \in NodePaths
  BY DEF IsOperation
<1>4. /\ h = [p \in NodePaths |-> h[p]] /\ h[o.path] = Look(t[o.path].type, t[o.path].content)
      /\ h[o.path].type = t[o.path].type
  BY <1>3, Looks
<1> HIDE DEF c, d, h
<1>5. ASSUME Takes(h, c)
      PROVE  Takes(g, d) /\ LookAfter(g, d) = h
  <2>1. h[o.path].type = "file"
    BY <1>2, <1>5 DEF Takes
  <2>2. \A q \in NodePaths : g[q] = IF q = o.path THEN Look("file", o.content) ELSE h[q]
    BY <1>2, AfterAt
  <2> HIDE DEF g
  <2>3. Takes(g, d)
    BY <1>2, <1>3, <2>2, Looks DEF Takes
  <2>4. \A q \in NodePaths : LookAfter(g, d)[q] = h[q]
    BY <1>2, <1>4, <2>1, <2>2, AfterAt
  <2>5. LookAfter(g, d) = [p \in NodePaths |-> LookAfter(g, d)[p]]
    BY <1>3, AfterAt
  <2> QED
    BY <1>4, <2>3, <2>4, <2>5, SameLooks
<1>6. ~Stuck(c)
  BY <1>2, StuckIsMove
<1> QED
  BY <1>1, <1>2, <1>5, <1>6, OneTakenBack DEF h

LEMMA DeleteTakenBack ==
  ASSUME ConstantsAreSound, NEW t, IsTree(t), NEW seen, NEW o, IsOperation(o), o.op = "delete"
  PROVE  TakenBack(t, Commands(t, seen, o), Undo(t, seen, o), o.path)
<1> DEFINE c == Delete(o.path)
           d == Create(o.path, t[o.path].content)
           h == Held(t)
           g == LookAfter(h, c)
<1>1. Commands(t, seen, o) = <<c>> /\ Undo(t, seen, o) = <<d>>
  BY DEF Commands, Undo
<1>2. /\ c.do = "delete" /\ c.path = o.path
      /\ d.do = "create" /\ d.path = o.path /\ d.content = t[o.path].content
      /\ d.to = o.path
  BY KindFields
<1>3. o.path \in NodePaths
  BY DEF IsOperation
<1>4. /\ h = [p \in NodePaths |-> h[p]] /\ h[o.path] = Look(t[o.path].type, t[o.path].content)
      /\ \A p \in NodePaths : h[p].type = t[p].type
  BY <1>3, Looks
<1> HIDE DEF c, d, h
<1>5. ASSUME Takes(h, c)
      PROVE  Takes(g, d) /\ LookAfter(g, d) = h
  <2>1. h[o.path].type = "file" /\ t[o.path].type = "file" /\ t[o.path] # Nothing
    BY <1>2, <1>3, <1>4, <1>5, Nodes DEF Takes, Accepts
  <2>2. \A q \in NodePaths : g[q] = IF q = o.path THEN Look("none", NoContent) ELSE h[q]
    BY <1>2, AfterAt
  <2> HIDE DEF g
  <2>3. HasParent(g, o.path)
    <3>1. ASSUME Len(o.path) > 1 PROVE g[Parent(o.path)].type = "directory"
      <4>1. t[Parent(o.path)].type = "directory"
        BY <1>3, <2>1, <3>1 DEF IsTree, HasParent
      <4>2. Parent(o.path) \in NodePaths
        BY <1>3, <3>1, PathFacts
      <4> QED
        BY <1>4, <2>1, <2>2, <4>1, <4>2
    <3> QED
      BY <3>1 DEF HasParent
  <2>4. Takes(g, d)
    BY <1>2, <1>3, <2>2, <2>3, Looks DEF Takes, Accepts
  <2>5. \A q \in NodePaths : LookAfter(g, d)[q] = h[q]
    BY <1>2, <1>4, <2>1, <2>2, AfterAt
  <2>6. LookAfter(g, d) = [p \in NodePaths |-> LookAfter(g, d)[p]]
    BY <1>3, AfterAt
  <2> QED
    BY <1>4, <2>4, <2>5, <2>6, SameLooks
<1>6. ~Stuck(c)
  BY <1>2, StuckIsMove
<1> QED
  BY <1>1, <1>2, <1>5, <1>6, OneTakenBack DEF h

\* Below nothing and below a file there is nothing.
LEMMA NoOrphans ==
  ASSUME ConstantsAreSound, NEW t, IsTree(t), NEW p \in NodePaths, t[p].type # "directory",
         NEW q \in Below(p)
  PROVE  q \in NodePaths /\ t[q].type = "none"
<1>1. q \in NodePaths /\ Len(q) = Len(p) + 1 /\ Parent(q) = p
  BY DEF Below
<1>2. Len(q) > 1
  BY <1>1, PathFacts
<1>3. t[q] = Nothing
  BY <1>1, <1>2 DEF IsTree, HasParent
<1> QED
  BY <1>1, <1>3, Nodes

LEMMA NotBelowItself ==
  ASSUME ConstantsAreSound, NEW p \in NodePaths
  PROVE  p \notin Below(p)
<1>1. Len(p) \in Nat
  BY PathFacts
<1> QED
  BY <1>1 DEF Below

LEMMA MakeDirectoryTakenBack ==
  ASSUME ConstantsAreSound, NEW t, IsTree(t), NEW seen, NEW o, IsOperation(o),
         o.op = "create-directory"
  PROVE  TakenBack(t, Commands(t, seen, o), Undo(t, seen, o), o.path)
<1> DEFINE c == MakeDirectory(o.path)
           d == RemoveDirectory(o.path)
           h == Held(t)
           g == LookAfter(h, c)
<1>1. Commands(t, seen, o) = <<c>> /\ Undo(t, seen, o) = <<d>>
  BY DEF Commands, Undo
<1>2. /\ c.do = "mkdir" /\ c.path = o.path
      /\ d.do = "rmdir" /\ d.path = o.path /\ d.to = o.path
  BY KindFields
<1>3. o.path \in NodePaths
  BY DEF IsOperation
<1>4. /\ h = [p \in NodePaths |-> h[p]] /\ h[o.path] = Look(t[o.path].type, t[o.path].content)
      /\ \A p \in NodePaths : h[p].type = t[p].type
  BY <1>3, Looks
<1> HIDE DEF c, d, h
<1>5. ASSUME Takes(h, c)
      PROVE  Takes(g, d) /\ LookAfter(g, d) = h
  <2>1. t[o.path].type = "none" /\ t[o.path] = Nothing
    BY <1>2, <1>3, <1>4, <1>5, NodeFacts DEF Takes, Accepts
  <2>2. \A q \in NodePaths : g[q] = IF q = o.path THEN Look("directory", NoContent) ELSE h[q]
    BY <1>2, AfterAt
  <2> HIDE DEF g
  <2>3. \A q \in Below(o.path) : g[q].type = "none"
    BY <1>3, <1>4, <2>1, <2>2, NoOrphans, NotBelowItself
  <2>4. Takes(g, d)
    BY <1>2, <1>3, <2>2, <2>3, Looks DEF Takes, Accepts
  <2>5. \A q \in NodePaths : LookAfter(g, d)[q] = h[q]
    BY <1>2, <1>4, <2>1, <2>2, AfterAt, Nodes
  <2>6. LookAfter(g, d) = [p \in NodePaths |-> LookAfter(g, d)[p]]
    BY <1>3, AfterAt
  <2> QED
    BY <1>4, <2>4, <2>5, <2>6, SameLooks
<1>6. ~Stuck(c)
  BY <1>2, StuckIsMove
<1> QED
  BY <1>1, <1>2, <1>5, <1>6, OneTakenBack DEF h

LEMMA MoveTakenBack ==
  ASSUME ConstantsAreSound, NEW t, IsTree(t), NEW seen, NEW o, IsOperation(o), o.op = "move"
  PROVE  TakenBack(t, Commands(t, seen, o), Undo(t, seen, o), o.path)
<1> DEFINE c == Move(o.path, o.to)
           x == IF Len(o.path) = 1 /\ Len(o.to) > 1 THEN o.to ELSE o.path
           d == Move(o.to, x)
           h == Held(t)
           g == LookAfter(h, c)
<1>1. Commands(t, seen, o) = <<c>> /\ Undo(t, seen, o) = <<d>>
  BY DEF Commands, Undo
<1>2. /\ c.do = "move" /\ c.path = o.path /\ c.to = o.to
      /\ d.do = "move" /\ d.path = o.to /\ d.to = x
  BY KindFields
<1>3. o.path \in NodePaths /\ o.to \in NodePaths
  BY DEF IsOperation
<1>4. /\ h = [p \in NodePaths |-> h[p]]
      /\ \A p \in NodePaths : h[p].type = t[p].type /\ h[p] = Look(t[p].type, t[p].content)
  BY <1>3, Looks
<1>5. x = o.to => Stuck(d)
  BY <1>2 DEF Stuck
<1> HIDE DEF c, d, h
<1>6. ASSUME Takes(h, c)
      PROVE  /\ ~Stuck(c) /\ t[o.to].type # "file"
             /\ x # o.to => Takes(g, d) /\ LookAfter(g, d) = h
  <2>1. /\ t[o.path].type = "file" /\ o.path # o.to /\ t[o.to].type = "none"
        /\ t[o.to] = Nothing /\ t[o.path] # Nothing /\ HasParent(h, o.to)
    BY <1>2, <1>3, <1>4, <1>6, NodeFacts, Nodes DEF Takes, Accepts
  <2>2. \A q \in NodePaths : g[q] = IF q = o.path THEN Look("none", NoContent)
                                    ELSE IF q = o.to THEN Look("file", h[o.path].content)
                                    ELSE h[q]
    BY <1>2, AfterAt
  <2> HIDE DEF g
  <2>3. ~Stuck(c)
    BY <1>2, <2>1, StuckIsMove
  <2>4. ASSUME x # o.to PROVE Takes(g, d) /\ LookAfter(g, d) = h
    <3>1. x = o.path
      BY <2>4
    <3>2. HasParent(g, o.path)
      <4>1. ASSUME Len(o.path) > 1 PROVE g[Parent(o.path)].type = "directory"
        <5>1. t[Parent(o.path)].type = "directory"
          BY <1>3, <2>1, <4>1 DEF IsTree, HasParent
        <5>2. Parent(o.path) \in NodePaths
          BY <1>3, <4>1, PathFacts
        <5> QED
          BY <1>4, <2>1, <2>2, <5>1, <5>2
      <4> QED
        BY <4>1 DEF HasParent
    <3>3. g[o.to].type = "file" /\ g[o.path].type = "none"
          /\ g[o.to].content = t[o.path].content
      <4>1. g[o.to] = Look("file", h[o.path].content) /\ g[o.path] = Look("none", NoContent)
        BY <1>3, <2>1, <2>2
      <4>2. h[o.path].content = t[o.path].content
        BY <1>3, Looks DEF h
      <4> QED
        BY <4>1, <4>2, Looks
    <3>4. Takes(g, d)
      BY <1>2, <2>1, <3>1, <3>2, <3>3 DEF Takes, Accepts
    <3>5. \A q \in NodePaths : LookAfter(g, d)[q] = h[q]
      BY <1>2, <1>4, <2>1, <2>2, <3>1, <3>3, AfterAt, Nodes
    <3>6. LookAfter(g, d) = [p \in NodePaths |-> LookAfter(g, d)[p]]
      BY <1>3, AfterAt
    <3> QED
      BY <1>4, <3>4, <3>5, <3>6, SameLooks
  <2> QED
    BY <2>1, <2>3, <2>4
<1>7. x \in {o.to, o.path}
  OBVIOUS
<1> HIDE DEF x
<1>8. TakenBack(t, <<c>>, <<d>>, o.path)
  BY <1>2, <1>5, <1>6, <1>7, OneTakenBack DEF h
<1> QED
  BY <1>1, <1>8

-----------------------------------------------------------------------------
\* Taking back the directories above a new file

\* The directories that are made on the way to a new file, when the first of them can be.
NewChain(t, p, dirs) ==
    /\ IsSeq(dirs) /\ Len(dirs) < Len(p) /\ t[p] = Nothing
    /\ \A i \in 1..Len(dirs) :
         /\ dirs[i] \in NodePaths /\ t[dirs[i]] = Nothing
         /\ Len(dirs[i]) = Len(p) - 1 - Len(dirs) + i
         /\ i > 1 => Parent(dirs[i]) = dirs[i - 1]
    /\ IF Len(dirs) = 0 THEN HasParent(t, p)
       ELSE HasParent(t, dirs[1]) /\ Parent(p) = dirs[Len(dirs)]

LEMMA ChainIsNew ==
  ASSUME ConstantsAreSound, NEW t, IsTree(t), NEW p \in NodePaths, NEW dirs,
         dirs = MissingParents(t, p),
         IF Len(dirs) = 0 THEN t[p].type = "none" /\ HasParent(t, p)
         ELSE t[dirs[1]].type = "none" /\ HasParent(t, dirs[1])
  PROVE  NewChain(t, p, dirs)
<1> DEFINE n == Len(dirs)
           b == Len(p) - 1 - n
<1>1. /\ IsSeq(dirs) /\ n \in 0..(Len(p) - 1)
      /\ \A i \in 1..n : /\ dirs[i] = SubSeq(p, 1, b + i)
                         /\ dirs[i] \in NodePaths /\ Len(dirs[i]) = b + i
  BY MissingArePaths
<1>2. Len(p) \in Nat \ {0} /\ n \in Nat /\ b \in Nat /\ b + n = Len(p) - 1 /\ n < Len(p)
  BY <1>1, PathFacts
<1>3. ASSUME NEW i \in 1..n, i > 1 PROVE Parent(dirs[i]) = dirs[i - 1]
  <2>1. i - 1 \in 1..n /\ b + (i - 1) \in 1..(Len(p) - 1) /\ (b + (i - 1)) + 1 = b + i
    BY <1>2, <1>3
  <2>2. Parent(SubSeq(p, 1, (b + (i - 1)) + 1)) = SubSeq(p, 1, b + (i - 1))
    BY <2>1, ParentOfPrefix
  <2> QED
    BY <1>1, <2>1, <2>2
<1>4. ASSUME n # 0 PROVE Parent(p) = dirs[n] /\ n \in 1..n
  <2>1. n \in 1..n /\ Len(p) > 1
    BY <1>2, <1>4
  <2>2. Parent(p) = SubSeq(p, 1, Len(p) - 1)
    BY <2>1, PathFacts
  <2>3. dirs[n] = SubSeq(p, 1, b + n)
    BY <1>1, <2>1
  <2> QED
    BY <1>2, <2>1, <2>2, <2>3
<1>5. \A q \in NodePaths : t[q].type = "none" => t[q] = Nothing
  BY NodeFacts
<1>6. \A q \in NodePaths : t[q] # Nothing /\ Len(q) > 1 => t[Parent(q)] # Nothing
  <2>1. \A q \in NodePaths : t[q] # Nothing /\ Len(q) > 1 => t[Parent(q)].type = "directory"
    BY DEF IsTree, HasParent
  <2> QED
    BY <2>1, Nodes
<1> HIDE DEF n, b
<1>7. \A i \in 1..n : t[dirs[i]] = Nothing
  <2> DEFINE S == {i \in 1..n : t[dirs[i]] # Nothing}
  <2>1. ASSUME S # {} PROVE FALSE
    <3>0. S \in SUBSET Nat
      BY <1>2
    <3>1. PICK m \in S : \A k \in S : m <= k
      <4> HIDE DEF S
      <4> QED
        BY <2>1, <3>0, LeastOf
    <3>2. m \in 1..n /\ m # 1 /\ t[dirs[m]] # Nothing
      BY <1>1, <1>2, <1>5, <3>1 DEF n
    <3>3. m > 1 /\ m - 1 \in 1..n /\ Len(dirs[m]) > 1
      BY <1>1, <1>2, <3>2 DEF b
    <3>4. t[dirs[m - 1]] # Nothing
      BY <1>1, <1>3, <1>6, <3>2, <3>3
    <3>5. m - 1 \in S
      BY <3>3, <3>4
    <3> QED
      BY <3>1, <3>2, <3>3, <3>5
  <2> QED
    BY <2>1
<1>8. t[p] = Nothing
  <2>1. CASE n = 0
    BY <1>5, <2>1 DEF n
  <2>2. CASE n # 0
    <3>1. Parent(p) = dirs[n] /\ n \in 1..n /\ Len(p) > 1
      BY <1>2, <1>4, <2>2
    <3> QED
      BY <1>6, <1>7, <3>1
  <2> QED
    BY <2>1, <2>2
<1>9. \A i \in 1..n : Len(dirs[i]) = Len(p) - 1 - n + i
  BY <1>1 DEF b
<1> QED
  BY <1>1, <1>2, <1>3, <1>4, <1>7, <1>8, <1>9 DEF NewChain, n

\* The look of the tree with the first i of the directories.
With(h, dirs, i) ==
    [q \in NodePaths |-> IF \E k \in 1..i : q = dirs[k] THEN Look("directory", NoContent)
                         ELSE h[q]]

LEMMA ChainFacts ==
  ASSUME ConstantsAreSound, NEW t, NEW p \in NodePaths, NEW dirs, NewChain(t, p, dirs)
  PROVE  LET n == Len(dirs) IN
         /\ n \in Nat
         /\ \A i \in 1..n : dirs[i] \in NodePaths /\ Held(t)[dirs[i]] = Look("none", NoContent)
         /\ Held(t)[p] = Look("none", NoContent)
         /\ \A i, k \in 1..n : dirs[i] = dirs[k] => i = k
         /\ \A i \in 1..n : dirs[i] # p
         /\ \A i, k \in 1..n : k <= i => dirs[k] \notin Below(dirs[i])
         /\ \A i \in 1..n : p \notin Below(dirs[i]) \/ i = n
<1> DEFINE n == Len(dirs)
<1>1. /\ n \in Nat /\ Len(p) \in Nat /\ n < Len(p) /\ t[p] = Nothing
      /\ \A i \in 1..n : /\ dirs[i] \in NodePaths /\ t[dirs[i]] = Nothing
                         /\ Len(dirs[i]) = Len(p) - 1 - n + i
  BY SeqFacts, PathFacts DEF NewChain
<1> HIDE DEF n
<1>2. \A i, k \in 1..n : dirs[i] = dirs[k] => i = k
  <2>1. ASSUME NEW i \in 1..n, NEW k \in 1..n, dirs[i] = dirs[k] PROVE i = k
    <3>1. Len(p) - 1 - n + i = Len(p) - 1 - n + k
      BY <1>1, <2>1
    <3> QED
      BY <1>1, <3>1
  <2> QED
    BY <2>1
<1>3. ASSUME NEW i \in 1..n PROVE dirs[i] # p
  <2>1. Len(p) - 1 - n + i # Len(p)
    BY <1>1
  <2> QED
    BY <1>1, <2>1
<1>4. ASSUME NEW i \in 1..n, NEW k \in 1..n, k <= i PROVE dirs[k] \notin Below(dirs[i])
  <2>1. Len(dirs[k]) # Len(dirs[i]) + 1
    BY <1>1, <1>4
  <2> QED
    BY <2>1 DEF Below
<1>5. ASSUME NEW i \in 1..n, i # n PROVE p \notin Below(dirs[i])
  <2>1. Len(p) # Len(dirs[i]) + 1
    BY <1>1, <1>5
  <2> QED
    BY <2>1 DEF Below
<1>6. \A q \in NodePaths : t[q] = Nothing => Held(t)[q] = Look("none", NoContent)
  BY Looks, Nodes
<1> QED
  BY <1>1, <1>2, <1>3, <1>4, <1>5, <1>6 DEF n

LEMMA ChainOfLooks ==
  ASSUME ConstantsAreSound, NEW t, NEW p \in NodePaths, NEW dirs, NewChain(t, p, dirs),
         NEW h, h = Held(t)
  PROVE  LET n == Len(dirs) IN
         /\ With(h, dirs, 0) = h
         /\ \A i \in 0..n : /\ With(h, dirs, i)[p] = Look("none", NoContent)
                            /\ With(h, dirs, i) = [q \in NodePaths |-> With(h, dirs, i)[q]]
         /\ \A i \in 1..n : /\ With(h, dirs, i)[dirs[i]] = Look("directory", NoContent)
                            /\ With(h, dirs, i - 1)[dirs[i]] = Look("none", NoContent)
                            /\ \A q \in NodePaths \ {dirs[i]} :
                                 With(h, dirs, i)[q] = With(h, dirs, i - 1)[q]
<1> DEFINE n == Len(dirs)
<1>1. /\ n \in Nat /\ h[p] = Look("none", NoContent)
      /\ \A i \in 1..n : /\ dirs[i] \in NodePaths /\ dirs[i] # p
                         /\ h[dirs[i]] = Look("none", NoContent)
      /\ \A i, k \in 1..n : dirs[i] = dirs[k] => i = k
  BY ChainFacts
<1> HIDE DEF n
<1>2. With(h, dirs, 0) = h
  <2>1. \A q \in NodePaths : With(h, dirs, 0)[q] = h[q]
    BY DEF With
  <2>2. With(h, dirs, 0) = [q \in NodePaths |-> With(h, dirs, 0)[q]]
    BY DEF With
  <2>3. h = [q \in NodePaths |-> h[q]]
    BY Looks
  <2> QED
    BY <2>1, <2>2, <2>3, SameLooks
<1>3. ASSUME NEW i \in 0..n
      PROVE  /\ With(h, dirs, i)[p] = Look("none", NoContent)
             /\ With(h, dirs, i) = [q \in NodePaths |-> With(h, dirs, i)[q]]
  <2>1. \A k \in 1..i : k \in 1..n
    BY <1>1
  <2>2. With(h, dirs, i)[p] = h[p]
    BY <1>1, <2>1 DEF With
  <2>3. With(h, dirs, i) = [q \in NodePaths |-> With(h, dirs, i)[q]]
    BY DEF With
  <2> QED
    BY <1>1, <2>2, <2>3
<1>4. ASSUME NEW i \in 1..n
      PROVE  /\ With(h, dirs, i)[dirs[i]] = Look("directory", NoContent)
             /\ With(h, dirs, i - 1)[dirs[i]] = Look("none", NoContent)
             /\ \A q \in NodePaths \ {dirs[i]} : With(h, dirs, i)[q] = With(h, dirs, i - 1)[q]
  <2>1. i \in 1..i /\ (\A k \in 1..(i - 1) : k \in 1..n /\ k # i /\ k \in 1..i)
        /\ \A k \in 1..i : k = i \/ k \in 1..(i - 1)
    BY <1>1
  <2>2. With(h, dirs, i)[dirs[i]] = Look("directory", NoContent)
    BY <1>1, <2>1 DEF With
  <2>3. With(h, dirs, i - 1)[dirs[i]] = h[dirs[i]]
    <3>1. ~\E k \in 1..(i - 1) : dirs[i] = dirs[k]
      BY <1>1, <2>1
    <3> QED
      BY <1>1, <3>1 DEF With
  <2>4. ASSUME NEW q \in NodePaths \ {dirs[i]}
        PROVE  With(h, dirs, i)[q] = With(h, dirs, i - 1)[q]
    <3>1. (\E k \in 1..i : q = dirs[k]) <=> (\E k \in 1..(i - 1) : q = dirs[k])
      BY <2>1, <2>4
    <3> QED
      BY <3>1 DEF With
  <2> QED
    BY <1>1, <2>2, <2>3, <2>4
<1> QED
  BY <1>2, <1>3, <1>4 DEF n

LEMMA ChainIsMade ==
  ASSUME ConstantsAreSound, NEW t, IsTree(t), NEW p \in NodePaths, NEW dirs, NewChain(t, p, dirs),
         NEW h, h = Held(t), NEW made, AreCommands(made), Len(made) = Len(dirs),
         \A i \in 1..Len(dirs) : made[i] = MakeDirectory(dirs[i])
  PROVE  Leads(h, made, With(h, dirs, Len(dirs)))
<1> DEFINE n == Len(dirs)
           s == [i \in 0..n |-> With(h, dirs, i)]
<1>1. /\ n \in Nat /\ \A i \in 1..n : dirs[i] \in NodePaths
      /\ \A i \in 1..n : i > 1 => Parent(dirs[i]) = dirs[i - 1]
      /\ n # 0 => HasParent(t, dirs[1])
  BY ChainFacts DEF NewChain
<1>2. /\ With(h, dirs, 0) = h
      /\ \A i \in 0..n : With(h, dirs, i) = [q \in NodePaths |-> With(h, dirs, i)[q]]
      /\ \A i \in 1..n : /\ With(h, dirs, i)[dirs[i]] = Look("directory", NoContent)
                         /\ With(h, dirs, i - 1)[dirs[i]] = Look("none", NoContent)
                         /\ \A q \in NodePaths \ {dirs[i]} :
                              With(h, dirs, i)[q] = With(h, dirs, i - 1)[q]
  BY ChainOfLooks
<1>3. DOMAIN s = 0..n /\ \A i \in 0..n : s[i] = With(h, dirs, i)
  OBVIOUS
<1> HIDE DEF n, s
<1>4. ASSUME NEW i \in 1..n
      PROVE  Takes(s[i-1], made[i]) /\ s[i] = LookAfter(s[i-1], made[i])
  <2>1. i \in 0..n /\ i - 1 \in 0..n
    BY <1>1
  <2> DEFINE g == With(h, dirs, i - 1)
             w == With(h, dirs, i)
             c == MakeDirectory(dirs[i])
  <2>2. s[i] = w /\ s[i-1] = g /\ made[i] = c
    BY <1>3, <2>1 DEF n
  <2>3. c.do = "mkdir" /\ c.path = dirs[i]
    BY KindFields
  <2>4. /\ w = [q \in NodePaths |-> w[q]] /\ w[dirs[i]] = Look("directory", NoContent)
        /\ g[dirs[i]] = Look("none", NoContent) /\ dirs[i] \in NodePaths
        /\ \A q \in NodePaths \ {dirs[i]} : w[q] = g[q]
    BY <1>1, <1>2, <2>1
  <2>5. HasParent(g, dirs[i])
    <3>1. CASE i = 1
      <4>1. g = h /\ HasParent(t, dirs[i])
        BY <1>1, <1>2, <3>1
      <4>2. Len(dirs[i]) > 1 => Parent(dirs[i]) \in NodePaths
        BY <2>4, PathFacts
      <4> QED
        BY <4>1, <4>2, Looks DEF HasParent
    <3>2. CASE i # 1
      <4>1. i > 1 /\ i - 1 \in 1..n
        BY <1>1, <3>2
      <4>2. Parent(dirs[i]) = dirs[i - 1] /\ g[dirs[i - 1]] = Look("directory", NoContent)
        BY <1>1, <1>2, <4>1
      <4> QED
        BY <4>2, Looks DEF HasParent
    <3> QED
      BY <3>1, <3>2
  <2> HIDE DEF g, w, c
  <2>6. Takes(g, c)
    BY <2>3, <2>4, <2>5, Looks DEF Takes, Accepts
  <2>7. \A q \in NodePaths : w[q] = LookAfter(g, c)[q]
    BY <2>3, <2>4, AfterAt
  <2>8. LookAfter(g, c) = [q \in NodePaths |-> LookAfter(g, c)[q]]
    BY <2>4, AfterAt
  <2>9. w = LookAfter(g, c)
    BY <2>4, <2>7, <2>8, SameLooks
  <2> QED
    BY <2>2, <2>6, <2>9
<1>5. Len(made) = n /\ s[0] = h /\ s[n] = With(h, dirs, n)
  <2>1. 0 \in 0..n /\ n \in 0..n
    BY <1>1
  <2> QED
    BY <1>2, <1>3, <2>1 DEF n
<1>6. Leads(h, made, With(h, dirs, n))
  BY <1>3, <1>4, <1>5 DEF Leads
<1> QED
  BY <1>6 DEF n

LEMMA ChainIsRemoved ==
  ASSUME ConstantsAreSound, NEW t, IsTree(t), NEW p \in NodePaths, NEW dirs, NewChain(t, p, dirs),
         NEW h, h = Held(t), NEW gone, AreCommands(gone), Len(gone) = Len(dirs),
         \A i \in 1..Len(dirs) : gone[i] = RemoveDirectory(dirs[Len(dirs) - i + 1])
  PROVE  Leads(With(h, dirs, Len(dirs)), gone, h)
<1> DEFINE n == Len(dirs)
           s == [i \in 0..n |-> With(h, dirs, n - i)]
<1>1. /\ n \in Nat /\ \A i \in 1..n : dirs[i] \in NodePaths /\ t[dirs[i]] = Nothing
      /\ \A i, k \in 1..n : k <= i => dirs[k] \notin Below(dirs[i])
  BY ChainFacts DEF NewChain
<1>2. /\ With(h, dirs, 0) = h
      /\ \A i \in 0..n : With(h, dirs, i) = [q \in NodePaths |-> With(h, dirs, i)[q]]
      /\ \A i \in 1..n : /\ With(h, dirs, i)[dirs[i]] = Look("directory", NoContent)
                         /\ With(h, dirs, i - 1)[dirs[i]] = Look("none", NoContent)
                         /\ \A q \in NodePaths \ {dirs[i]} :
                              With(h, dirs, i)[q] = With(h, dirs, i - 1)[q]
  BY ChainOfLooks
<1>3. DOMAIN s = 0..n /\ \A i \in 0..n : s[i] = With(h, dirs, n - i)
  OBVIOUS
<1> HIDE DEF n, s
<1>4. ASSUME NEW i \in 1..n
      PROVE  Takes(s[i-1], gone[i]) /\ s[i] = LookAfter(s[i-1], gone[i])
  <2> DEFINE m == n - i + 1
  <2>1. /\ i \in 0..n /\ i - 1 \in 0..n /\ m \in 1..n /\ m \in 0..n /\ m - 1 \in 0..n
        /\ n - i = m - 1 /\ n - (i - 1) = m
    BY <1>1
  <2> DEFINE g == With(h, dirs, m)
             w == With(h, dirs, m - 1)
             c == RemoveDirectory(dirs[m])
  <2>2. s[i] = w /\ s[i-1] = g /\ gone[i] = c
    BY <1>3, <2>1 DEF n
  <2> HIDE DEF m
  <2>3. c.do = "rmdir" /\ c.path = dirs[m]
    BY KindFields
  <2>4. /\ w = [q \in NodePaths |-> w[q]] /\ g[dirs[m]] = Look("directory", NoContent)
        /\ w[dirs[m]] = Look("none", NoContent) /\ dirs[m] \in NodePaths
        /\ \A q \in NodePaths \ {dirs[m]} : g[q] = w[q]
    BY <1>1, <1>2, <2>1
  <2>5. ASSUME NEW q \in Below(dirs[m]) PROVE g[q].type = "none"
    <3>1. q \in NodePaths /\ t[q].type = "none"
      BY <1>1, <2>1, NoOrphans, Nodes
    <3>2. ~\E k \in 1..m : q = dirs[k]
      <4>1. \A k \in 1..m : k \in 1..n /\ k <= m
        BY <1>1, <2>1
      <4>2. \A k \in 1..m : dirs[k] \notin Below(dirs[m])
        BY <1>1, <2>1, <4>1
      <4> QED
        BY <4>2
    <3>3. g[q] = h[q]
      BY <3>1, <3>2 DEF With
    <3> QED
      BY <3>1, <3>3, Looks
  <2> HIDE DEF g, w, c
  <2>6. Takes(g, c)
    BY <2>3, <2>4, <2>5, Looks DEF Takes, Accepts
  <2>7. \A q \in NodePaths : w[q] = LookAfter(g, c)[q]
    BY <2>3, <2>4, AfterAt
  <2>8. LookAfter(g, c) = [q \in NodePaths |-> LookAfter(g, c)[q]]
    BY <2>4, AfterAt
  <2>9. w = LookAfter(g, c)
    BY <2>4, <2>7, <2>8, SameLooks
  <2> QED
    BY <2>2, <2>6, <2>9
<1>5. Len(gone) = n /\ s[0] = With(h, dirs, n) /\ s[n] = h
  <2>1. 0 \in 0..n /\ n \in 0..n /\ n - 0 = n /\ n - n = 0
    BY <1>1
  <2> QED
    BY <1>2, <1>3, <2>1 DEF n
<1>6. Leads(With(h, dirs, n), gone, h)
  BY <1>3, <1>4, <1>5 DEF Leads
<1> QED
  BY <1>6 DEF n

\* The new file at the end of the chain, and its removal.
LEMMA FileOfChain ==
  ASSUME ConstantsAreSound, NEW t, IsTree(t), NEW p \in NodePaths, NEW dirs, NewChain(t, p, dirs),
         NEW g, g = With(Held(t), dirs, Len(dirs)), NEW v
  PROVE  \E h1 : Leads(g, <<Create(p, v)>>, h1) /\ Leads(h1, <<Delete(p)>>, g)
<1> DEFINE n == Len(dirs)
           h == Held(t)
           c == Create(p, v)
           d == Delete(p)
           h1 == LookAfter(g, c)
<1>1. /\ n \in Nat /\ IF n = 0 THEN HasParent(t, p) ELSE Parent(p) = dirs[n]
  BY ChainFacts DEF NewChain
<1>2. /\ n \in 0..n /\ (n # 0 => n \in 1..n)
  BY <1>1
<1>3. /\ g[p] = Look("none", NoContent) /\ g = [q \in NodePaths |-> g[q]]
      /\ n # 0 => g[dirs[n]] = Look("directory", NoContent)
      /\ n = 0 => g = h
  BY <1>2, ChainOfLooks
<1>4. /\ c.do = "create" /\ c.path = p /\ c.content = v
      /\ d.do = "delete" /\ d.path = p
  BY KindFields
<1>5. HasParent(g, p)
  <2>1. CASE n = 0
    <3>1. Len(p) > 1 => Parent(p) \in NodePaths
      BY PathFacts
    <3> QED
      BY <1>1, <1>3, <2>1, <3>1, Looks DEF HasParent
  <2>2. CASE n # 0
    BY <1>1, <1>3, <2>2, Looks DEF HasParent
  <2> QED
    BY <2>1, <2>2
<1> HIDE DEF c, d
<1>6. Takes(g, c)
  BY <1>3, <1>4, <1>5, Looks DEF Takes, Accepts
<1>7. \A q \in NodePaths : h1[q] = IF q = p THEN Look("file", v) ELSE g[q]
  BY <1>4, AfterAt
<1>8. Leads(g, <<c>>, h1)
  BY <1>6, LeadsOnce
<1> HIDE DEF h1
<1>9. Takes(h1, d)
  BY <1>4, <1>7, Looks DEF Takes, Accepts
<1>10. \A q \in NodePaths : LookAfter(h1, d)[q] = g[q]
  BY <1>3, <1>4, <1>7, AfterAt
<1>11. LookAfter(h1, d) = [q \in NodePaths |-> LookAfter(h1, d)[q]]
  BY AfterAt
<1>12. LookAfter(h1, d) = g
  BY <1>3, <1>10, <1>11, SameLooks
<1>13. Leads(h1, <<d>>, g)
  BY <1>9, <1>12, LeadsOnce
<1> QED
  BY <1>8, <1>13 DEF c, d

-----------------------------------------------------------------------------
\* Taking back an operation

LEMMA CreateTakenBack ==
  ASSUME ConstantsAreSound, NEW t, IsTree(t), NEW seen, NEW o, IsOperation(o), o.op = "create"
  PROVE  TakenBack(t, Commands(t, seen, o), Undo(t, seen, o), o.path)
<1> DEFINE p == o.path
           dirs == MissingParents(t, p)
           n == Len(dirs)
           rev == Reverse(dirs)
           made == [i \in 1..Len(dirs) |-> MakeDirectory(dirs[i])]
           gone == [i \in 1..Len(rev) |-> RemoveDirectory(rev[i])]
           c == Create(p, o.content)
           d == Delete(p)
           todo == Commands(t, seen, o)
           back == Undo(t, seen, o)
           h == Held(t)
<1>1. todo = made \o <<c>> /\ back = <<d>> \o gone
  BY DEF Commands, Undo
<1>2. p \in NodePaths
  BY DEF IsOperation
<1>3. IsSeq(dirs) /\ n \in Nat /\ \A i \in 1..n : dirs[i] \in NodePaths
  BY <1>2, MissingArePaths, SeqFacts
<1>4. Len(rev) = n /\ IsSeq(rev) /\ \A i \in 1..n : rev[i] = dirs[n - i + 1]
  <2> HIDE DEF dirs
  <2> QED
    BY <1>3, Reversed
<1>5. \A i \in 1..n : n - i + 1 \in 1..n
  <2> HIDE DEF n
  <2> QED
    BY <1>3
<1>6. AreCommands(made) /\ Len(made) = n /\ AreCommands(gone) /\ Len(gone) = n
  <2>1. \A i \in 1..Len(rev) : rev[i] \in NodePaths
    BY <1>3, <1>4, <1>5
  <2> HIDE DEF dirs, rev
  <2> QED
    BY <1>3, <1>4, <2>1, MadeDirectories
<1>7. /\ \A i \in 1..n : made[i] = MakeDirectory(dirs[i])
      /\ \A i \in 1..n : gone[i] = RemoveDirectory(dirs[n - i + 1])
  BY <1>4
<1>8. /\ c.do = "create" /\ c.path = p /\ d.do = "delete" /\ d.path = p /\ d.to = p
  BY KindFields
<1>9. /\ IsSeq(<<c>>) /\ Len(<<c>>) = 1 /\ <<c>>[1] = c
      /\ IsSeq(<<d>>) /\ Len(<<d>>) = 1 /\ <<d>>[1] = d
  <2> HIDE DEF c, d
  <2> QED
    BY OneSeq
<1>10. dirs = MissingParents(t, p)
  OBVIOUS
<1> HIDE DEF dirs, rev, made, gone, c, d, todo, back, h, p
<1>11. /\ IsSeq(todo) /\ Len(todo) = n + 1 /\ DOMAIN todo = 1..(n + 1)
       /\ \A i \in 1..n : todo[i] = made[i]
       /\ todo[n + 1] = c
  <2>1. /\ IsSeq(made \o <<c>>) /\ Len(made \o <<c>>) = n + 1
        /\ \A i \in 1..n : (made \o <<c>>)[i] = made[i]
        /\ \A i \in 1..1 : (made \o <<c>>)[n + i] = <<c>>[i]
    BY <1>6, <1>9, ConcatSeq DEF AreCommands
  <2>2. 1 \in 1..1
    OBVIOUS
  <2>3. (made \o <<c>>)[n + 1] = c
    BY <1>9, <2>1, <2>2
  <2> QED
    BY <1>1, <2>1, <2>3, SeqFacts
<1>12. /\ IsSeq(back) /\ DOMAIN back = 1..(n + 1) /\ back[1] = d
       /\ \A i \in 1..n : back[1 + i] = gone[i]
  <2>1. /\ IsSeq(<<d>> \o gone) /\ Len(<<d>> \o gone) = 1 + n
        /\ \A i \in 1..1 : (<<d>> \o gone)[i] = <<d>>[i]
        /\ \A i \in 1..n : (<<d>> \o gone)[1 + i] = gone[i]
    BY <1>6, <1>9, ConcatSeq DEF AreCommands
  <2>2. 1 \in 1..1 /\ 1 + n = n + 1
    BY <1>3
  <2> QED
    BY <1>1, <1>9, <2>1, <2>2, SeqFacts
<1>13. Head(todo) = IF n = 0 THEN c ELSE MakeDirectory(dirs[1])
  <2>1. Head(todo) = todo[1]
    <3>1. todo # <<>>
      BY <1>3, <1>11, SeqFacts
    <3> QED
      BY <1>11, <3>1, TailSeq
  <2>2. CASE n = 0
    BY <1>11, <2>1, <2>2
  <2>3. CASE n # 0
    <3>1. 1 \in 1..n
      BY <1>3, <2>3
    <3> QED
      BY <1>7, <1>11, <2>1, <2>3, <3>1
  <2> QED
    BY <2>2, <2>3
<1>14. ASSUME NEW i \in DOMAIN todo PROVE ~Stuck(todo[i])
  <2>1. \A x : MakeDirectory(x).do = "mkdir"
    BY KindFields
  <2>2. i \in 1..n \/ i = n + 1
    BY <1>3, <1>11
  <2>3. todo[i].do \in {"mkdir", "create"}
    BY <1>7, <1>8, <1>11, <2>1, <2>2
  <2> QED
    BY <2>3, StuckIsMove
<1>15. ASSUME Takes(h, Head(todo))
       PROVE  /\ \E h1 : Leads(h, todo, h1) /\ Leads(h1, back, h)
              /\ \A i \in DOMAIN back : \A q \in {back[i].path, back[i].to} :
                   q = p \/ t[q].type # "file"
  <2>1. /\ \A q \in NodePaths : h[q].type = t[q].type
        /\ \A q \in NodePaths : HasParent(h, q) => HasParent(t, q)
    <3>1. \A q \in NodePaths : Len(q) > 1 => Parent(q) \in NodePaths
      BY PathFacts
    <3>2. \A q \in NodePaths : h[q].type = t[q].type
      BY Looks DEF h
    <3> QED
      BY <3>1, <3>2 DEF HasParent
  <2>2. IF n = 0 THEN t[p].type = "none" /\ HasParent(t, p)
        ELSE t[dirs[1]].type = "none" /\ HasParent(t, dirs[1])
    <3>1. CASE n = 0
      BY <1>2, <1>8, <1>13, <1>15, <2>1, <3>1 DEF Takes, Accepts
    <3>2. CASE n # 0
      <4>1. 1 \in 1..n /\ dirs[1] \in NodePaths
        BY <1>3, <3>2
      <4>2. MakeDirectory(dirs[1]).do = "mkdir" /\ MakeDirectory(dirs[1]).path = dirs[1]
        BY KindFields
      <4> QED
        BY <1>13, <1>15, <2>1, <3>2, <4>1, <4>2 DEF Takes, Accepts
    <3> QED
      BY <3>1, <3>2
  <2>3. NewChain(t, p, dirs)
    BY <1>2, <1>10, <2>2, ChainIsNew
  <2> DEFINE g == With(h, dirs, n)
  <2>4. Leads(h, made, g)
    BY <1>2, <1>6, <1>7, <2>3, ChainIsMade DEF h
  <2>5. Leads(g, gone, h)
    BY <1>2, <1>6, <1>7, <2>3, ChainIsRemoved DEF h
  <2>6. \E h1 : Leads(g, <<c>>, h1) /\ Leads(h1, <<d>>, g)
    <3>1. g = With(Held(t), dirs, Len(dirs))
      BY DEF h
    <3> HIDE DEF g
    <3> QED
      BY <1>2, <2>3, <3>1, FileOfChain DEF c, d
  <2>7. PICK h1 : Leads(g, <<c>>, h1) /\ Leads(h1, <<d>>, g)
    BY <2>6
  <2> HIDE DEF g
  <2>8. Leads(h, made \o <<c>>, h1)
    BY <1>6, <1>9, <2>4, <2>7, LeadsOn DEF AreCommands
  <2>9. Leads(h1, <<d>> \o gone, h)
    BY <1>6, <1>9, <2>5, <2>7, LeadsOn DEF AreCommands
  <2>10. ASSUME NEW i \in DOMAIN back, NEW q \in {back[i].path, back[i].to}
         PROVE  q = p \/ t[q].type # "file"
    <3>1. CASE i = 1
      BY <1>8, <1>12, <2>10, <3>1
    <3>2. CASE i # 1
      <4>1. i - 1 \in 1..n /\ 1 + (i - 1) = i
        BY <1>3, <1>12, <3>2
      <4>2. back[i] = RemoveDirectory(dirs[n - (i - 1) + 1]) /\ n - (i - 1) + 1 \in 1..n
        BY <1>5, <1>7, <1>12, <4>1
      <4>3. \A x : RemoveDirectory(x).path = x /\ RemoveDirectory(x).to = x
        BY KindFields
      <4>4. q = dirs[n - (i - 1) + 1]
        BY <2>10, <4>2, <4>3
      <4>5. t[q] = Nothing
        BY <2>3, <4>2, <4>4 DEF NewChain
      <4> QED
        BY <4>5, Nodes
    <3> QED
      BY <3>1, <3>2
  <2> QED
    BY <1>1, <2>8, <2>9, <2>10
<1>16. TakenBack(t, todo, back, p)
  BY <1>14, <1>15 DEF TakenBack, h
<1> QED
  BY <1>16 DEF todo, back, p

LEMMA OperationTakenBack ==
  ASSUME ConstantsAreSound, NEW t, IsTree(t), NEW seen, NEW o, IsOperation(o)
  PROVE  TakenBack(t, Commands(t, seen, o), Undo(t, seen, o), o.path)
BY CreateTakenBack, UpdateTakenBack, DeleteTakenBack, MakeDirectoryTakenBack, MoveTakenBack
   DEF IsOperation

\* A write is taken back by one write of the next revision, and by nothing else.
LEMMA WritesTakenBack ==
  ASSUME ConstantsAreSound, NEW t, NEW seen, NEW o, IsOperation(o)
  PROVE  LET todo == Commands(t, seen, o)
             back == Undo(t, seen, o)
         IN \A i \in DOMAIN back : back[i].do = "write" =>
              /\ i = 1 /\ back[i].path = o.path
              /\ Head(todo).do = "write" /\ Head(todo).path = o.path
              /\ back[i].rev = Head(todo).rev + 1
<1>1. CASE o.op = "create"
  <2> DEFINE dirs == MissingParents(t, o.path)
             rev == Reverse(dirs)
             gone == [i \in 1..Len(rev) |-> RemoveDirectory(rev[i])]
             d == Delete(o.path)
  <2>1. IsSeq(dirs) /\ Len(dirs) \in Nat /\ \A i \in 1..Len(dirs) : dirs[i] \in NodePaths
    BY MissingArePaths, SeqFacts DEF IsOperation
  <2>2. IsSeq(rev) /\ Len(rev) \in Nat /\ \A i \in 1..Len(rev) : rev[i] \in NodePaths
    <3> HIDE DEF dirs
    <3>1. Len(rev) = Len(dirs) /\ IsSeq(rev)
          /\ \A i \in 1..Len(dirs) : rev[i] = dirs[Len(dirs) - i + 1]
      BY <2>1, Reversed
    <3>2. \A i \in 1..Len(dirs) : Len(dirs) - i + 1 \in 1..Len(dirs)
      BY <2>1
    <3> QED
      BY <2>1, <3>1, <3>2
  <2>3. AreCommands(gone) /\ Len(gone) = Len(rev)
    <3> HIDE DEF rev, dirs
    <3> QED
      BY <2>2, MadeDirectories
  <2>4. d.do = "delete" /\ \A i \in 1..Len(rev) : gone[i].do = "rmdir"
    BY KindFields
  <2>5. IsSeq(<<d>>) /\ Len(<<d>>) = 1 /\ <<d>>[1] = d
    <3> HIDE DEF d
    <3> QED
      BY OneSeq
  <2>6. Undo(t, seen, o) = <<d>> \o gone
    BY <1>1 DEF Undo
  <2> HIDE DEF dirs, rev, gone, d
  <2>7. /\ DOMAIN (<<d>> \o gone) = 1..(1 + Len(rev))
        /\ \A i \in 1..1 : (<<d>> \o gone)[i] = <<d>>[i]
        /\ \A i \in 1..Len(rev) : (<<d>> \o gone)[1 + i] = gone[i]
    <3>1. /\ IsSeq(<<d>> \o gone) /\ Len(<<d>> \o gone) = 1 + Len(rev)
          /\ \A i \in 1..1 : (<<d>> \o gone)[i] = <<d>>[i]
          /\ \A i \in 1..Len(rev) : (<<d>> \o gone)[1 + i] = gone[i]
      BY <2>3, <2>5, ConcatSeq DEF AreCommands
    <3> QED
      BY <3>1, SeqFacts
  <2>8. ASSUME NEW i \in 1..(1 + Len(rev)) PROVE (<<d>> \o gone)[i].do # "write"
    <3>1. CASE i = 1
      <4>1. 1 \in 1..1
        OBVIOUS
      <4> QED
        BY <2>4, <2>5, <2>7, <3>1, <4>1
    <3>2. CASE i # 1
      <4>1. i - 1 \in 1..Len(rev) /\ 1 + (i - 1) = i
        BY <2>2, <3>2
      <4> QED
        BY <2>4, <2>7, <4>1
    <3> QED
      BY <3>1, <3>2
  <2> QED
    BY <2>6, <2>7, <2>8
<1>2. CASE o.op = "update"
  <2> DEFINE c == Write(o.path, o.content, seen[o.path].rev)
             d == Write(o.path, t[o.path].content, seen[o.path].rev + 1)
  <2>1. Commands(t, seen, o) = <<c>> /\ Undo(t, seen, o) = <<d>>
    BY <1>2 DEF Commands, Undo
  <2>2. /\ c.do = "write" /\ c.path = o.path /\ c.rev = seen[o.path].rev
        /\ d.do = "write" /\ d.path = o.path /\ d.rev = seen[o.path].rev + 1
    BY KindFields
  <2> HIDE DEF c, d
  <2>3. Head(<<c>>) = c /\ DOMAIN <<d>> = {1} /\ <<d>>[1] = d
    OBVIOUS
  <2> QED
    BY <2>1, <2>2, <2>3
<1>3. CASE o.op \in {"delete", "create-directory", "move"}
  <2>1. \E d : Undo(t, seen, o) = <<d>> /\ d.do # "write"
    <3>1. CASE o.op = "delete"
      BY <3>1, KindFields DEF Undo
    <3>2. CASE o.op = "create-directory"
      BY <3>2, KindFields DEF Undo
    <3>3. CASE o.op = "move"
      BY <3>3, KindFields DEF Undo
    <3> QED
      BY <1>3, <3>1, <3>2, <3>3
  <2>2. \A d : DOMAIN <<d>> = {1} /\ <<d>>[1] = d
    OBVIOUS
  <2> QED
    BY <2>1, <2>2
<1> QED
  BY <1>1, <1>2, <1>3 DEF IsOperation

-----------------------------------------------------------------------------
\* Change sets that are alone

\* What is taken back by a write is a file of the revision that the write names, and
\* no call before it and no operation still to come is about that file.
RevisionsKnown(k, t) ==
    \A i \in DOMAIN k.undo : k.undo[i].do = "write" =>
      LET q == k.undo[i].path IN
      /\ t[q].type = "file" /\ t[q].rev = k.undo[i].rev
      /\ \A m \in DOMAIN k.undo : m < i => q \notin {k.undo[m].path, k.undo[m].to}
      /\ \A m \in DOMAIN k.ops : k.ops[m].path # q

\* The operation under way: what was done before it leads back to the start; unless
\* the tree is as before it, its next call is taken; and if its next call is taken, so
\* are the others, and what it did can be taken back.
UnderWayBack(k, t) ==
    \E h0 :
      /\ Leads(h0, k.undo, k.start)
      /\ Held(t) # h0 => Takes(Held(t), Head(k.todo)) /\ Head(k.todo).do # "write"
      /\ Takes(Held(t), Head(k.todo)) =>
           /\ \A i \in DOMAIN k.todo : ~Stuck(k.todo[i])
           /\ \E h1 : Leads(Held(t), k.todo, h1) /\ Leads(h1, k.back, h0)
           /\ \A i \in DOMAIN k.back : \A q \in {k.back[i].path, k.back[i].to} :
                q = Head(k.ops).path \/ t[q].type # "file"

BackWrites(k) ==
    \A i \in DOMAIN k.back : k.back[i].do = "write" =>
      /\ i = 1 /\ k.back[i].path = Head(k.ops).path
      /\ Head(k.todo).do = "write" /\ Head(k.todo).path = k.back[i].path
      /\ k.back[i].rev = Head(k.todo).rev + 1

\* A change set that is alone can be taken back.
KeepsNothing(k, t) ==
    k.alone =>
      /\ k.stage \in {"applying", "undoing"} => RevisionsKnown(k, t)
      /\ k.stage = "undoing" \/ (k.stage = "applying" /\ k.todo = <<>>)
           => Leads(Held(t), k.undo, k.start)
      /\ k.stage = "applying" /\ k.todo # <<>> => UnderWayBack(k, t) /\ BackWrites(k)

KeptInv == \A k \in Jobs : KeepsNothing(job[k], nodes)

LEMMA NoneTakenBack ==
  ASSUME NEW k, k.undo = <<>>, NEW t
  PROVE  RevisionsKnown(k, t)
<1>1. DOMAIN k.undo = {}
  OBVIOUS
<1> QED
  BY <1>1 DEF RevisionsKnown

\* A call leaves alone the files that it does not name.
LEMMA FilesLeftAlone ==
  ASSUME NEW t, IsTree(t), NEW c, IsCommand(c), Accepts(t, c), NEW q \in NodePaths,
         t[q].type = "file", c.do \in {"write", "delete", "move"} => c.path # q
  PROVE  Done(t, c)[q] = t[q]
<1>1. DOMAIN t = NodePaths
      /\ c.do \in {"create", "mkdir", "write", "delete", "rmdir", "move"}
  BY DEF IsTree, IsCommand
<1>2. c.do \in {"create", "mkdir", "rmdir"} => c.path # q
  BY AcceptsFacts
<1>3. c.do = "move" => c.to # q
  BY AcceptsFacts
<1> QED
  BY <1>1, <1>2, <1>3, DoneAt

LEMMA SubmitKeeps ==
  ASSUME ConstantsAreSound, ShapeInv, NEW j \in Jobs, NEW ops \in Programs, Submit(j, ops)
  PROVE  KeepsNothing(job'[j], nodes')
<1> DEFINE n == job'[j]
<1>1. CASE n.stage = "refused"
  BY <1>1 DEF KeepsNothing
<1>2. CASE n.stage # "refused"
  <2>1. /\ nodes' = nodes /\ n.todo = <<>> /\ n.undo = <<>> /\ n.start = Held(nodes)
        /\ n.stage = "applying"
    BY <1>2, SubmitEffect
  <2> HIDE DEF n
  <2>2. Leads(Held(nodes'), n.undo, n.start)
    BY <2>1, LeadsNowhere
  <2>3. KeepsNothing(n, nodes')
    BY <2>1, <2>2, NoneTakenBack DEF KeepsNothing
  <2> QED
    BY <2>3 DEF n
<1> QED
  BY <1>1, <1>2

LEMMA GaveUpKeeps ==
  ASSUME NEW k, NEW n, NEW t, GaveUp(k, n), k.alone => RevisionsKnown(k, t),
         k.alone => Leads(Held(t), k.undo, k.start)
  PROVE  /\ KeepsNothing(n, t)
         /\ k.alone /\ n.stage = "compensated" => Held(t) = k.start
<1>1. /\ n.undo = k.undo /\ n.start = k.start /\ n.alone = k.alone /\ n.ops = <<>>
      /\ n.stage = (IF k.undo = <<>> THEN "compensated" ELSE "undoing")
  BY DEF GaveUp, SameHistory
<1>2. DOMAIN n.ops = {}
  BY <1>1
<1>3. k.alone => RevisionsKnown(n, t)
  BY <1>1, <1>2 DEF RevisionsKnown
<1>4. KeepsNothing(n, t)
  BY <1>1, <1>3 DEF KeepsNothing
<1>5. k.alone /\ n.stage = "compensated" => Held(t) = k.start
  BY <1>1, LeadsNowhere
<1> QED
  BY <1>4, <1>5

LEMMA PrepareKeeps ==
  ASSUME ConstantsAreSound, ShapeInv, KeptInv, NEW j \in Jobs, PrepareCalls(j)
  PROVE  /\ KeepsNothing(job'[j], nodes')
         /\ job[j].alone /\ job'[j].stage = "compensated" => Held(nodes') = job[j].start
         /\ job'[j].stage # "broken"
<1> DEFINE k == job[j]
           n == job'[j]
           o == Head(k.ops)
<1>1. JobShape(k) /\ IsTree(nodes) /\ KeepsNothing(k, nodes)
  BY DEF ShapeInv, KeptInv
<1>2. /\ nodes' = nodes /\ k.stage = "applying" /\ k.todo = <<>>
      /\ \/ GaveUp(k, n)
         \/ /\ n.stage = "applying" /\ n.seen = k.seen /\ n.ops = k.ops
            /\ n.todo = Commands(nodes, k.seen, o) /\ n.back = Undo(nodes, k.seen, o)
            /\ n.undo = k.undo /\ SameHistory(k, n)
  BY PrepareEffect
<1> HIDE DEF k, n
<1>3. k.alone => RevisionsKnown(k, nodes) /\ Leads(Held(nodes), k.undo, k.start)
  BY <1>1, <1>2 DEF KeepsNothing
<1>4. CASE GaveUp(k, n)
  <2>1. n.stage # "broken"
    BY <1>4 DEF GaveUp
  <2> QED
    BY <1>2, <1>3, <1>4, <2>1, GaveUpKeeps DEF k, n
<1>5. CASE ~GaveUp(k, n)
  <2>1. /\ n.stage = "applying" /\ n.seen = k.seen /\ n.ops = k.ops
        /\ n.todo = Commands(nodes, k.seen, o) /\ n.back = Undo(nodes, k.seen, o)
        /\ n.undo = k.undo /\ n.start = k.start /\ n.alone = k.alone
    BY <1>2, <1>5 DEF SameHistory
  <2>2. IsOperation(o)
    BY <1>1, <1>2, TailOperations DEF JobShape
  <2>3. n.todo # <<>>
    BY <2>1, <2>2, OperationsAreCommands
  <2>4. TakenBack(nodes, n.todo, n.back, o.path) /\ o = Head(n.ops)
    BY <1>1, <2>1, <2>2, OperationTakenBack
  <2>5. BackWrites(n)
    <3>1. \A i \in DOMAIN n.back : n.back[i].do = "write" =>
             /\ i = 1 /\ n.back[i].path = o.path
             /\ Head(n.todo).do = "write" /\ Head(n.todo).path = o.path
             /\ n.back[i].rev = Head(n.todo).rev + 1
      BY <2>1, <2>2, WritesTakenBack
    <3> HIDE DEF o
    <3> QED
      BY <2>4, <3>1 DEF BackWrites
  <2> HIDE DEF o
  <2>6. n.alone => RevisionsKnown(n, nodes)
    BY <1>3, <2>1 DEF RevisionsKnown
  <2>7. n.alone => UnderWayBack(n, nodes)
    <3>1. ASSUME n.alone PROVE UnderWayBack(n, nodes)
      <4> DEFINE h0 == Held(nodes)
      <4>1. Leads(h0, n.undo, n.start)
        BY <1>3, <2>1, <3>1
      <4>2. Takes(h0, Head(n.todo)) =>
              /\ \A i \in DOMAIN n.todo : ~Stuck(n.todo[i])
              /\ \E h1 : Leads(h0, n.todo, h1) /\ Leads(h1, n.back, h0)
              /\ \A i \in DOMAIN n.back : \A q \in {n.back[i].path, n.back[i].to} :
                   q = Head(n.ops).path \/ nodes[q].type # "file"
        BY <2>4 DEF TakenBack
      <4> QED
        BY <4>1, <4>2 DEF UnderWayBack
    <3> QED
      BY <3>1
  <2>8. KeepsNothing(n, nodes')
    BY <1>2, <2>1, <2>3, <2>5, <2>6, <2>7 DEF KeepsNothing
  <2> QED
    BY <2>1, <2>8 DEF k, n
<1> QED
  BY <1>4, <1>5

LEMMA TakeBackKeeps ==
  ASSUME ConstantsAreSound, ShapeInv, KeptInv, NEW j \in Jobs, TakeBack(j)
  PROVE  /\ KeepsNothing(job'[j], nodes')
         /\ job[j].alone =>
              /\ job'[j].stage = "compensated" => Held(nodes') = job[j].start
              /\ job'[j].stage = "broken" =>
                   \E p \in NodePaths : Head(job[j].undo) = Move(p, p)
<1> DEFINE k == job[j]
           n == job'[j]
           c == Head(k.undo)
<1>1. JobShape(k) /\ IsTree(nodes) /\ KeepsNothing(k, nodes)
  BY DEF ShapeInv, KeptInv
<1>2. /\ k.stage = "undoing" /\ k.undo # <<>> /\ IsCommand(c)
      /\ \/ nodes' = nodes /\ ~Accepts(nodes, c) /\ n.stage = "broken"
         \/ /\ nodes' = Done(nodes, c) /\ Accepts(nodes, c)
            /\ n.stage = (IF Len(k.undo) = 1 THEN "compensated" ELSE "undoing")
            /\ n.undo = Tail(k.undo) /\ n.ops = k.ops /\ SameHistory(k, n)
  BY TakeBackEffect
<1> HIDE DEF k, n, c
<1>3. /\ IsSeq(k.undo) /\ Len(k.undo) \in Nat \ {0} /\ DOMAIN k.undo = 1..Len(k.undo)
      /\ c = k.undo[1] /\ IsSeq(Tail(k.undo)) /\ DOMAIN Tail(k.undo) = 1..(Len(k.undo) - 1)
      /\ \A i \in 1..(Len(k.undo) - 1) : Tail(k.undo)[i] = k.undo[i + 1]
      /\ Tail(k.undo) = <<>> <=> Len(k.undo) = 1
      /\ \A i \in DOMAIN k.undo : IsCommand(k.undo[i])
  <2>1. IsSeq(k.undo) /\ \A i \in DOMAIN k.undo : IsCommand(k.undo[i])
    BY <1>1 DEF JobShape, AreCommands
  <2> QED
    BY <1>2, <2>1, TailSeq, SeqFacts DEF c
<1>4. k.alone => RevisionsKnown(k, nodes) /\ Leads(Held(nodes), k.undo, k.start)
  BY <1>1, <1>2 DEF KeepsNothing
<1>5. k.alone /\ ~Stuck(c) =>
        /\ Accepts(nodes, c)
        /\ Leads(LookAfter(Held(nodes), c), Tail(k.undo), k.start)
  <2>1. ASSUME k.alone, ~Stuck(c)
        PROVE  Takes(Held(nodes), c) /\ Leads(LookAfter(Held(nodes), c), Tail(k.undo), k.start)
    BY <1>2, <1>3, <1>4, <2>1, LeadsThrough DEF c
  <2>2. ASSUME k.alone, c.do = "write" PROVE nodes[c.path].rev = c.rev
    <3>1. 1 \in DOMAIN k.undo
      BY <1>3
    <3> QED
      BY <1>3, <1>4, <2>2, <3>1 DEF RevisionsKnown
  <2> QED
    BY <1>1, <1>2, <2>1, <2>2, HeldAccepts
<1>6. CASE ~Accepts(nodes, c)
  <2>1. n.stage = "broken"
    BY <1>2, <1>6
  <2>2. k.alone => Stuck(c)
    BY <1>5, <1>6
  <2>3. k.alone => \E p \in NodePaths : c = Move(p, p)
    BY <1>2, <2>2 DEF Stuck, IsCommand
  <2>4. KeepsNothing(n, nodes')
    BY <2>1 DEF KeepsNothing
  <2> QED
    BY <2>1, <2>3, <2>4 DEF k, n, c
<1>7. CASE Accepts(nodes, c)
  <2>1. /\ nodes' = Done(nodes, c)
        /\ n.stage = (IF Len(k.undo) = 1 THEN "compensated" ELSE "undoing")
        /\ n.undo = Tail(k.undo) /\ n.ops = k.ops /\ n.start = k.start /\ n.alone = k.alone
    BY <1>2, <1>7 DEF SameHistory
  <2>2. ~Stuck(c)
    BY <1>2, <1>7, AcceptsFacts, StuckIsMove
  <2>3. k.alone => Leads(Held(nodes'), n.undo, n.start)
    BY <1>1, <1>2, <1>5, <2>1, <2>2, HeldDone
  <2>4. ASSUME k.alone, n.stage = "undoing" PROVE RevisionsKnown(n, nodes')
    <3>1. ASSUME NEW i \in DOMAIN n.undo, n.undo[i].do = "write"
          PROVE  LET q == n.undo[i].path IN
                 /\ nodes'[q].type = "file" /\ nodes'[q].rev = n.undo[i].rev
                 /\ \A m \in DOMAIN n.undo : m < i => q \notin {n.undo[m].path, n.undo[m].to}
                 /\ \A m \in DOMAIN n.ops : n.ops[m].path # q
      <4> DEFINE q == n.undo[i].path
      <4>1. /\ i \in 1..(Len(k.undo) - 1) /\ n.undo[i] = k.undo[i + 1]
            /\ i + 1 \in DOMAIN k.undo /\ 1 \in DOMAIN k.undo /\ 1 < i + 1
        BY <1>3, <2>1, <3>1
      <4>2. /\ nodes[q].type = "file" /\ nodes[q].rev = n.undo[i].rev
            /\ \A m \in DOMAIN k.undo : m < i + 1 => q \notin {k.undo[m].path, k.undo[m].to}
            /\ \A m \in DOMAIN k.ops : k.ops[m].path # q
        BY <1>4, <2>4, <3>1, <4>1 DEF RevisionsKnown
      <4>3. q \in NodePaths /\ q # c.path
        BY <1>3, <4>1, <4>2 DEF IsCommand
      <4>4. nodes'[q] = nodes[q]
        BY <1>1, <1>2, <1>7, <2>1, <4>2, <4>3, FilesLeftAlone
      <4>5. ASSUME NEW m \in DOMAIN n.undo, m < i
            PROVE  q \notin {n.undo[m].path, n.undo[m].to}
        <5>1. m \in 1..(Len(k.undo) - 1) /\ n.undo[m] = k.undo[m + 1]
              /\ m + 1 \in DOMAIN k.undo /\ m + 1 < i + 1
          BY <1>3, <2>1, <4>1, <4>5
        <5> QED
          BY <4>2, <5>1
      <4> QED
        BY <2>1, <4>2, <4>4, <4>5
    <3> QED
      BY <3>1 DEF RevisionsKnown
  <2>5. KeepsNothing(n, nodes')
    BY <2>1, <2>3, <2>4 DEF KeepsNothing
  <2>6. k.alone /\ n.stage = "compensated" => Held(nodes') = k.start
    <3>1. n.stage = "compensated" => n.undo = <<>>
      BY <1>3, <2>1
    <3> QED
      BY <2>1, <2>3, <3>1, LeadsNowhere
  <2>7. n.stage # "broken"
    BY <2>1
  <2> QED
    BY <2>5, <2>6, <2>7 DEF k, n
<1> QED
  BY <1>6, <1>7

-----------------------------------------------------------------------------
\* Giving up and going on

LEMMA ApplyKeeps ==
  ASSUME ConstantsAreSound, ShapeInv, UpdateInv, KeptInv, NEW j \in Jobs, MakeCall(j)
  PROVE  /\ KeepsNothing(job'[j], nodes')
         /\ job[j].alone /\ job'[j].stage = "compensated" => Held(nodes') = job[j].start
         /\ job'[j].stage # "broken"
<1> DEFINE k == job[j]
           n == job'[j]
           c == Head(k.todo)
           h == Held(nodes)
<1>1. JobShape(k) /\ IsTree(nodes) /\ KeepsNothing(k, nodes) /\ UnderWay(k)
  BY DEF ShapeInv, KeptInv, UpdateInv
<1>2. /\ k.stage = "applying" /\ k.todo # <<>> /\ IsCommand(c)
      /\ \/ nodes' = nodes /\ ~Accepts(nodes, c) /\ GaveUp(k, n)
         \/ /\ nodes' = Done(nodes, c) /\ Accepts(nodes, c)
            /\ \/ n.stage = "applied"
               \/ /\ n.stage = "applying" /\ n.seen = k.seen
                  /\ n.todo = Tail(k.todo) /\ n.back = k.back
                  /\ n.ops = (IF Len(k.todo) = 1 THEN Tail(k.ops) ELSE k.ops)
                  /\ n.undo = (IF Len(k.todo) = 1 THEN k.back \o k.undo ELSE k.undo)
                  /\ SameHistory(k, n)
  BY ApplyEffect
<1> HIDE DEF k, n
<1>3. /\ IsSeq(k.todo) /\ Len(k.todo) \in Nat \ {0} /\ DOMAIN k.todo = 1..Len(k.todo)
      /\ c = k.todo[1] /\ IsSeq(Tail(k.todo)) /\ DOMAIN Tail(k.todo) = 1..(Len(k.todo) - 1)
      /\ \A i \in 1..(Len(k.todo) - 1) : Tail(k.todo)[i] = k.todo[i + 1]
      /\ Tail(k.todo) = <<>> <=> Len(k.todo) = 1
  <2>1. IsSeq(k.todo)
    BY <1>1 DEF JobShape, AreCommands
  <2> QED
    BY <1>2, <2>1, TailSeq, SeqFacts DEF c
<1>4. k.alone => RevisionsKnown(k, nodes) /\ UnderWayBack(k, nodes) /\ BackWrites(k)
  BY <1>1, <1>2 DEF KeepsNothing
<1>5. /\ IsSeq(k.ops) /\ k.ops # <<>> /\ ChangedOnce(k.ops)
      /\ \A i \in DOMAIN k.ops : IsOperation(k.ops[i])
      /\ AreCommands(k.back) /\ AreCommands(k.undo)
  BY <1>1, <1>2 DEF JobShape
<1>6. /\ c.do # "rmdir"
      /\ c.do \in {"write", "delete", "move"} => Len(k.todo) = 1 /\ c.path = Head(k.ops).path
      /\ c.do = "create" => c.path = Head(k.ops).path
  <2>1. 1 \in DOMAIN k.todo
    BY <1>3
  <2> QED
    BY <1>1, <1>2, <1>3, <2>1 DEF UnderWay
<1> HIDE DEF c
<1>7. CASE ~Accepts(nodes, c)
  <2>1. nodes' = nodes /\ GaveUp(k, n)
    BY <1>2, <1>7
  <2>2. ASSUME k.alone PROVE Leads(h, k.undo, k.start)
    <3>1. PICK h0 : /\ Leads(h0, k.undo, k.start)
                    /\ h # h0 => Takes(h, c) /\ c.do # "write"
      BY <1>4, <2>2 DEF UnderWayBack, c
    <3>2. h = h0
      BY <1>1, <1>2, <1>7, <3>1, HeldAccepts
    <3> QED
      BY <3>1, <3>2
  <2>3. n.stage # "broken"
    BY <2>1 DEF GaveUp
  <2> QED
    BY <1>4, <2>1, <2>2, <2>3, GaveUpKeeps DEF k, n
<1>8. CASE Accepts(nodes, c) /\ n.stage = "applied"
  BY <1>8 DEF KeepsNothing, n
<1>9. CASE Accepts(nodes, c) /\ n.stage # "applied" /\ Len(k.todo) # 1
  <2>1. /\ nodes' = Done(nodes, c) /\ n.stage = "applying" /\ n.seen = k.seen
        /\ n.todo = Tail(k.todo) /\ n.back = k.back /\ n.ops = k.ops /\ n.undo = k.undo
        /\ n.start = k.start /\ n.alone = k.alone
    BY <1>2, <1>9 DEF GaveUp, SameHistory
  <2>2. c.do \in {"mkdir", "create"} /\ c.do \notin {"write", "delete", "move"}
    BY <1>2, <1>6, <1>9 DEF IsCommand
  <2>3. n.todo # <<>>
    BY <1>3, <1>9, <2>1
  <2>4. ASSUME n.alone PROVE BackWrites(n)
    <3>1. \A i \in DOMAIN k.back : k.back[i].do # "write"
      BY <1>4, <2>1, <2>2, <2>4 DEF BackWrites, c
    <3> QED
      BY <2>1, <3>1 DEF BackWrites
  <2>5. ASSUME n.alone PROVE RevisionsKnown(n, nodes')
    <3>1. ASSUME NEW i \in DOMAIN n.undo, n.undo[i].do = "write"
          PROVE  LET q == n.undo[i].path IN
                 /\ nodes'[q].type = "file" /\ nodes'[q].rev = n.undo[i].rev
                 /\ \A m \in DOMAIN n.undo : m < i => q \notin {n.undo[m].path, n.undo[m].to}
                 /\ \A m \in DOMAIN n.ops : n.ops[m].path # q
      <4> DEFINE q == n.undo[i].path
      <4>1. /\ nodes[q].type = "file" /\ nodes[q].rev = n.undo[i].rev
            /\ \A m \in DOMAIN k.undo : m < i => q \notin {k.undo[m].path, k.undo[m].to}
            /\ \A m \in DOMAIN k.ops : k.ops[m].path # q
        BY <1>4, <2>1, <2>5, <3>1 DEF RevisionsKnown
      <4>2. q \in NodePaths
        BY <1>5, <2>1 DEF AreCommands, IsCommand
      <4>3. nodes'[q] = nodes[q]
        BY <1>1, <1>2, <1>9, <2>1, <2>2, <4>1, <4>2, FilesLeftAlone
      <4> QED
        BY <2>1, <4>1, <4>3
    <3> QED
      BY <3>1 DEF RevisionsKnown
  <2>6. ASSUME n.alone PROVE UnderWayBack(n, nodes')
    <3>1. PICK h0 : /\ Leads(h0, k.undo, k.start)
                    /\ Takes(h, c) =>
                         /\ \A i \in DOMAIN k.todo : ~Stuck(k.todo[i])
                         /\ \E h1 : Leads(h, k.todo, h1) /\ Leads(h1, k.back, h0)
                         /\ \A i \in DOMAIN k.back : \A q \in {k.back[i].path, k.back[i].to} :
                              q = Head(k.ops).path \/ nodes[q].type # "file"
      BY <1>4, <2>1, <2>6 DEF UnderWayBack, c
    <3>2. Takes(h, c)
      BY <1>1, <1>2, <1>9, HeldAccepts
    <3>3. PICK h1 : Leads(h, k.todo, h1) /\ Leads(h1, k.back, h0)
      BY <3>1, <3>2
    <3>4. \A i \in DOMAIN k.todo : ~Stuck(k.todo[i])
      BY <3>1, <3>2
    <3>5. Held(nodes') = LookAfter(h, c)
      BY <1>1, <1>2, <2>1, HeldDone
    <3>6. Leads(Held(nodes'), n.todo, h1)
      <4>1. ~Stuck(Head(k.todo))
        BY <1>3, <3>4 DEF c
      <4> QED
        BY <1>2, <1>3, <2>1, <3>3, <3>5, <4>1, LeadsThrough DEF c
    <3>7. /\ \A i \in DOMAIN n.todo : ~Stuck(n.todo[i])
          /\ Head(n.todo) = k.todo[2] /\ 2 \in DOMAIN k.todo
      <4>1. \A i \in DOMAIN n.todo : n.todo[i] = k.todo[i + 1] /\ i + 1 \in DOMAIN k.todo
        BY <1>3, <2>1
      <4>2. 1 \in DOMAIN n.todo /\ 1 + 1 = 2
        BY <1>3, <1>9, <2>1
      <4>3. Head(n.todo) = n.todo[1]
        BY <1>3, <2>1, <2>3, TailSeq
      <4> QED
        BY <3>4, <4>1, <4>2, <4>3
    <3>8. Takes(Held(nodes'), Head(n.todo))
      <4>1. IsSeq(n.todo) /\ 1 \in DOMAIN n.todo /\ Head(n.todo) = n.todo[1]
        BY <1>3, <1>9, <2>1, <2>3, TailSeq
      <4> QED
        BY <2>3, <3>6, <3>7, <4>1, LeadsThrough
    <3>9. Head(n.todo).do # "write"
      BY <1>1, <1>2, <1>9, <3>7 DEF UnderWay
    <3>10. ASSUME NEW i \in DOMAIN n.back, NEW q \in {n.back[i].path, n.back[i].to}
           PROVE  q = Head(n.ops).path \/ nodes'[q].type # "file"
      <4>1. q = Head(k.ops).path \/ nodes[q].type # "file"
        BY <2>1, <3>1, <3>2, <3>10
      <4>2. q \in NodePaths
        BY <1>5, <2>1, <3>10 DEF AreCommands, IsCommand
      <4>3. DOMAIN nodes = NodePaths
        BY <1>1 DEF IsTree
      <4>4. q = Head(k.ops).path \/ nodes'[q] = nodes[q] \/ nodes'[q] = NewDirectory
        BY <1>2, <1>6, <2>1, <2>2, <4>2, <4>3, DoneAt
      <4> QED
        BY <2>1, <4>1, <4>4, Nodes
    <3>11. \E x : Leads(Held(nodes'), n.todo, x) /\ Leads(x, n.back, h0)
      BY <2>1, <3>3, <3>6
    <3>12. Leads(h0, n.undo, n.start)
      BY <2>1, <3>1
    <3> QED
      BY <3>7, <3>8, <3>9, <3>10, <3>11, <3>12 DEF UnderWayBack
  <2>7. KeepsNothing(n, nodes')
    BY <2>1, <2>3, <2>4, <2>5, <2>6 DEF KeepsNothing
  <2> QED
    BY <2>1, <2>7 DEF k, n
<1>10. CASE Accepts(nodes, c) /\ n.stage # "applied" /\ Len(k.todo) = 1
  <2>1. /\ nodes' = Done(nodes, c) /\ n.stage = "applying" /\ n.seen = k.seen
        /\ n.todo = <<>> /\ n.back = k.back /\ n.ops = Tail(k.ops)
        /\ n.undo = k.back \o k.undo
        /\ n.start = k.start /\ n.alone = k.alone
    BY <1>2, <1>3, <1>10 DEF GaveUp, SameHistory
  <2>2. Takes(h, c)
    BY <1>1, <1>2, <1>10, HeldAccepts
  <2>3. /\ IsSeq(k.back) /\ IsSeq(k.undo) /\ Len(k.back) \in Nat /\ Len(k.undo) \in Nat
        /\ DOMAIN k.back = 1..Len(k.back) /\ DOMAIN k.undo = 1..Len(k.undo)
        /\ DOMAIN n.undo = 1..(Len(k.back) + Len(k.undo))
        /\ \A i \in 1..Len(k.back) : n.undo[i] = k.back[i]
        /\ \A i \in 1..Len(k.undo) : n.undo[Len(k.back) + i] = k.undo[i]
    <3>1. /\ IsSeq(k.back) /\ IsSeq(k.undo) /\ Len(k.back) \in Nat /\ Len(k.undo) \in Nat
          /\ DOMAIN k.back = 1..Len(k.back) /\ DOMAIN k.undo = 1..Len(k.undo)
      BY <1>5, SeqFacts DEF AreCommands
    <3>2. /\ IsSeq(k.back \o k.undo) /\ Len(k.back \o k.undo) = Len(k.back) + Len(k.undo)
          /\ \A i \in 1..Len(k.back) : (k.back \o k.undo)[i] = k.back[i]
          /\ \A i \in 1..Len(k.undo) : (k.back \o k.undo)[Len(k.back) + i] = k.undo[i]
      <4> DEFINE a == k.back
                 b == k.undo
      <4>1. IsSeq(a) /\ IsSeq(b)
        BY <3>1
      <4> HIDE DEF a, b
      <4>2. /\ IsSeq(a \o b) /\ Len(a \o b) = Len(a) + Len(b)
            /\ \A i \in 1..Len(a) : (a \o b)[i] = a[i]
            /\ \A i \in 1..Len(b) : (a \o b)[Len(a) + i] = b[i]
        BY <4>1, ConcatSeq
      <4> QED
        BY <4>2 DEF a, b
    <3>3. DOMAIN (k.back \o k.undo) = 1..(Len(k.back) + Len(k.undo))
      BY <3>2, SeqFacts
    <3> QED
      BY <2>1, <3>1, <3>2, <3>3
  <2>4. ASSUME k.alone
        PROVE  /\ Leads(Held(nodes'), n.undo, n.start)
               /\ \A i \in DOMAIN k.back : \A q \in {k.back[i].path, k.back[i].to} :
                    q = Head(k.ops).path \/ nodes[q].type # "file"
    <3>1. PICK h0 : /\ Leads(h0, k.undo, k.start)
                    /\ Takes(h, c) =>
                         /\ \A i \in DOMAIN k.todo : ~Stuck(k.todo[i])
                         /\ \E h1 : Leads(h, k.todo, h1) /\ Leads(h1, k.back, h0)
                         /\ \A i \in DOMAIN k.back : \A q \in {k.back[i].path, k.back[i].to} :
                              q = Head(k.ops).path \/ nodes[q].type # "file"
      BY <1>4, <2>4 DEF UnderWayBack, c
    <3>2. PICK h1 : Leads(h, k.todo, h1) /\ Leads(h1, k.back, h0)
      BY <2>2, <3>1
    <3>3. Held(nodes') = LookAfter(h, c)
      BY <1>1, <1>2, <2>1, HeldDone
    <3>4. Leads(Held(nodes'), Tail(k.todo), h1)
      <4>1. ~Stuck(Head(k.todo))
        <5>1. 1 \in DOMAIN k.todo
          BY <1>3
        <5> QED
          BY <1>3, <2>2, <3>1, <5>1 DEF c
      <4> QED
        BY <1>2, <1>3, <3>2, <3>3, <4>1, LeadsThrough DEF c
    <3>5. Held(nodes') = h1
      BY <1>3, <1>10, <3>4, LeadsNowhere
    <3>6. Leads(Held(nodes'), k.back \o k.undo, k.start)
      BY <2>3, <3>1, <3>2, <3>5, LeadsOn
    <3> QED
      BY <2>1, <2>2, <3>1, <3>6
  <2>5. ASSUME k.alone PROVE RevisionsKnown(n, nodes')
    <3>0. /\ \A i \in DOMAIN n.ops : n.ops[i].path # Head(k.ops).path
          /\ \A i \in DOMAIN n.ops : \E m \in DOMAIN k.ops : n.ops[i] = k.ops[m]
      BY <1>5, <2>1, TailOperations
    <3>1. ASSUME NEW i \in DOMAIN n.undo, n.undo[i].do = "write"
          PROVE  LET q == n.undo[i].path IN
                 /\ nodes'[q].type = "file" /\ nodes'[q].rev = n.undo[i].rev
                 /\ \A m \in DOMAIN n.undo : m < i => q \notin {n.undo[m].path, n.undo[m].to}
                 /\ \A m \in DOMAIN n.ops : n.ops[m].path # q
      <4> DEFINE q == n.undo[i].path
      <4>1. CASE i \in 1..Len(k.back)
        <5>1. n.undo[i] = k.back[i]
          BY <2>3, <4>1
        <5>2. /\ i = 1 /\ q = Head(k.ops).path /\ c.do = "write" /\ c.path = q
              /\ n.undo[i].rev = c.rev + 1
          BY <1>4, <2>3, <2>5, <3>1, <4>1, <5>1 DEF BackWrites, c
        <5>3. DOMAIN nodes = NodePaths /\ q \in NodePaths
          BY <1>1, <1>2, <5>2 DEF IsTree, IsCommand
        <5>4. nodes[q].rev = c.rev
          BY <1>2, <1>10, <5>2, AcceptsFacts
        <5>5. nodes'[q] = File(c.content, nodes[q].rev + 1)
          BY <1>2, <2>1, <5>2, <5>3, DoneAt
        <5>6. nodes'[q].type = "file" /\ nodes'[q].rev = n.undo[i].rev
          BY <5>2, <5>4, <5>5, Nodes
        <5>7. \A m \in DOMAIN n.undo : ~(m < i)
          BY <2>3, <5>2
        <5> QED
          BY <3>0, <5>2, <5>6, <5>7
      <4>2. CASE i \notin 1..Len(k.back)
        <5> DEFINE x == i - Len(k.back)
        <5>1. x \in 1..Len(k.undo) /\ Len(k.back) + x = i
          <6>1. i \in 1..(Len(k.back) + Len(k.undo)) /\ Len(k.back) \in Nat /\ Len(k.undo) \in Nat
            BY <2>3, <3>1
          <6>2. \A a, b \in Nat : \A m \in 1..(a + b) :
                  m \notin 1..a => m - a \in 1..b /\ a + (m - a) = m
            OBVIOUS
          <6> QED
            BY <4>2, <6>1, <6>2
        <5> HIDE DEF x
        <5>2. n.undo[i] = k.undo[x] /\ x \in DOMAIN k.undo
          BY <2>3, <5>1
        <5>3. /\ nodes[q].type = "file" /\ nodes[q].rev = n.undo[i].rev
              /\ \A m \in DOMAIN k.undo : m < x => q \notin {k.undo[m].path, k.undo[m].to}
              /\ \A m \in DOMAIN k.ops : k.ops[m].path # q
          BY <1>4, <2>5, <3>1, <5>2 DEF RevisionsKnown
        <5>4. q \in NodePaths
          BY <1>5, <5>2 DEF AreCommands, IsCommand
        <5>5. Head(k.ops).path # q
          <6>1. Head(k.ops) = k.ops[1] /\ 1 \in DOMAIN k.ops
            BY <1>5, TailSeq, SeqFacts
          <6> QED
            BY <5>3, <6>1
        <5>6. nodes'[q] = nodes[q]
          BY <1>1, <1>2, <1>6, <1>10, <2>1, <5>3, <5>4, <5>5, FilesLeftAlone
        <5>7. ASSUME NEW m \in DOMAIN n.undo, m < i
              PROVE  q \notin {n.undo[m].path, n.undo[m].to}
          <6>1. CASE m \in 1..Len(k.back)
            <7>1. n.undo[m] = k.back[m] /\ m \in DOMAIN k.back
              BY <2>3, <6>1
            <7> QED
              BY <2>4, <2>5, <5>3, <5>5, <7>1
          <6>2. CASE m \notin 1..Len(k.back)
            <7> DEFINE y == m - Len(k.back)
            <7>1. y \in 1..Len(k.undo) /\ Len(k.back) + y = m /\ y < x
              BY <2>3, <3>1, <5>1, <5>7, <6>2
            <7> HIDE DEF y
            <7>2. n.undo[m] = k.undo[y] /\ y \in DOMAIN k.undo
              BY <2>3, <7>1
            <7> QED
              BY <5>3, <7>1, <7>2
          <6> QED
            BY <6>1, <6>2
        <5>8. \A m \in DOMAIN n.ops : n.ops[m].path # q
          BY <3>0, <5>3
        <5> QED
          BY <5>3, <5>6, <5>7, <5>8
      <4> QED
        BY <4>1, <4>2
    <3> QED
      BY <3>1 DEF RevisionsKnown
  <2>6. KeepsNothing(n, nodes')
    BY <2>1, <2>4, <2>5 DEF KeepsNothing
  <2> QED
    BY <2>1, <2>6 DEF k, n
<1> QED
  BY <1>7, <1>8, <1>9, <1>10

LEMMA KeptStep ==
  ASSUME ConstantsAreSound, ShapeInv, UpdateInv, KeptInv, [SourceNext]_sourceVars, NEW j \in Jobs
  PROVE  /\ KeepsNothing(job'[j], nodes')
         /\ job[j].alone =>
              /\ Becomes(j, "compensated") => Held(nodes') = job[j].start
              /\ Becomes(j, "broken") => \E p \in NodePaths : Head(job[j].undo) = Move(p, p)
<1>1. CASE nodes' = nodes /\ job'[j] = job[j]
  BY <1>1 DEF KeptInv, Becomes
<1>2. CASE job'[j] = Disturbed(j)
  <2>1. /\ job'[j].stage = job[j].stage
        /\ job'[j].alone = (job[j].alone /\ job[j].stage \notin Busy)
    BY <1>2, DisturbedFields
  <2> QED
    BY <2>1 DEF KeepsNothing, Becomes, Busy
<1>3. CASE Own(j)
  <2>1. ASSUME job'[j].stage \notin {"applying", "undoing", "compensated", "broken"}
        PROVE  KeepsNothing(job'[j], nodes') /\ ~Becomes(j, "compensated") /\ ~Becomes(j, "broken")
    BY <2>1 DEF KeepsNothing, Becomes
  <2>2. CASE Load(j)
    BY <2>1, <2>2, LoadEffect
  <2>3. CASE \E ops \in Programs : Submit(j, ops)
    <3>1. job'[j].stage \in {"applying", "refused"}
      BY <2>3, SubmitEffect
    <3> QED
      BY <2>3, <3>1, SubmitKeeps DEF Becomes
  <2>4. CASE PrepareCalls(j)
    BY <2>4, PrepareKeeps DEF Becomes
  <2>5. CASE MakeCall(j)
    BY <2>5, ApplyKeeps DEF Becomes
  <2>6. CASE TakeBack(j)
    BY <2>6, TakeBackKeeps DEF Becomes
  <2>7. CASE \/ \E kind, r, target : List(j, kind, r, target)
             \/ \E p \in NodePaths : Read(j, p) \/ Put(j, p) \/ RemoveExtra(j, p)
             \/ Store(j) \/ Restored(j)
    <3>1. job'[j].stage \notin {"applying", "undoing", "compensated", "broken"}
      BY <2>7, ListShape, ReadShape, PutShape, RemoveExtraShape, StoreShape, RestoredShape
    <3> QED
      BY <2>1, <3>1
  <2> QED
    BY <1>3, <2>2, <2>3, <2>4, <2>5, <2>6, <2>7 DEF Own, CreateSnapshot, RestoreSnapshot
<1> QED
  BY <1>1, <1>2, <1>3, StepOfEach

-----------------------------------------------------------------------------
SourceInv == ShapeInv /\ UpdateInv /\ RestoresInv /\ KeptInv

LEMMA SourceInvInit ==
  ASSUME ConstantsAreSound, SourceInit
  PROVE  SourceInv
<1>1. ShapeInv
  BY ShapeInit
<1>2. \A j \in Jobs : job[j].stage = "idle"
  BY IdleFields DEF SourceInit
<1> QED
  BY <1>1, <1>2 DEF SourceInv, UpdateInv, UnderWay, StillFits, RestoresInv, RestoreInv,
                    KeptInv, KeepsNothing

LEMMA SourceInvStep ==
  ASSUME ConstantsAreSound, SourceInv, [SourceNext]_sourceVars
  PROVE  SourceInv'
<1>1. KeptInv'
  <2>1. \A j \in Jobs : KeepsNothing(job'[j], nodes')
    BY KeptStep DEF SourceInv
  <2> QED
    BY <2>1 DEF KeptInv, KeepsNothing, RevisionsKnown, UnderWayBack, BackWrites
<1> QED
  BY <1>1, ShapeStep, UpdateStep, RestoresStep DEF SourceInv

\* Whatever the other writers do: every job has the shape of its stage, what a caller
\* loaded is what the tree holds or an earlier revision of it, a restore that is alone
\* has written what it says, and a change set that is alone can be taken back.
THEOREM SourceInvariant == SourceSpec => []SourceInv
<1>1. SourceInit => SourceInv
  BY SourceRepositoryConstants, SourceInvInit
<1>2. SourceInv /\ [SourceNext]_sourceVars => SourceInv'
  BY SourceRepositoryConstants, SourceInvStep
<1> QED
  BY <1>1, <1>2, PTL DEF SourceSpec

\* A change set that no other writer disturbed and that failed half-way leaves the tree
\* as a reader saw it before (undo and finally of changeSet, index.ts); it fails to do
\* so only by a rename back to the same name.
THEOREM RefusedSetsLeaveNothing == SourceSpec => NothingWasKept
<1>1. SourceInv /\ [SourceNext]_sourceVars
      => [\A j \in Jobs : job[j].alone =>
           /\ Becomes(j, "compensated") => Held(nodes') = job[j].start
           /\ Becomes(j, "broken") =>
                \E p \in NodePaths : Head(job[j].undo) = Move(p, p)]_sourceVars
  BY SourceRepositoryConstants, KeptStep DEF SourceInv
<1> QED
  BY <1>1, SourceInvariant, PTL DEF NothingWasKept, SourceSpec

\* An update that goes through replaced what its caller had loaded, unless the path was
\* emptied in between: the port compares the revision of the loaded file.
THEOREM UpdatesReplaceWhatWasLoaded == SourceSpec => UpdatesSeeWhatTheyReplace
<1>1. SourceInv /\ [SourceNext]_sourceVars
      => [\A j \in Jobs :
           /\ job[j].stage = "applying" /\ job[j].todo # <<>>
           /\ Head(job[j].todo).do = "write"
           /\ job'[j].todo = <<>> /\ job'[j].stage \in {"applying", "applied"}
           => LET p == Head(job[j].todo).path
              IN nodes[p].content = job[j].seen[p].content \/ p \in job[j].emptied]_sourceVars
  BY SourceRepositoryConstants, UpdateSays DEF SourceInv
<1> QED
  BY <1>1, SourceInvariant, PTL DEF UpdatesSeeWhatTheyReplace, SourceSpec

\* A restore that no other writer disturbed ends with the files of the snapshot and no
\* others; it fails only where a directory is in the way of a file or above it is none.
THEOREM RestoresAloneAreExact == SourceSpec => RestoreAloneIsExact
<1>1. SourceInv /\ [SourceNext]_sourceVars
      => [\A j \in Jobs : job[j].alone =>
           /\ Becomes(j, "restored") =>
                /\ FilesOf(nodes) = DOMAIN job[j].target
                /\ \A p \in FilesOf(nodes) : nodes[p].content = job[j].target[p]
           /\ Becomes(j, "failed") =>
                \E p \in job[j].put :
                   ~HasParent(nodes, p) \/ nodes[p].type = "directory"]_sourceVars
  BY SourceRepositoryConstants, RestoreSays DEF SourceInv
<1> QED
  BY <1>1, SourceInvariant, PTL DEF RestoreAloneIsExact, SourceSpec
=============================================================================
