---------------------------- MODULE ChangeIntegration ----------------------------
(***************************************************************************)
(* Change integration (change-integration/core/src/manager.ts) over the    *)
(* tree port of apps/api/src/change-integration-service.ts and the         *)
(* PostgreSQL stores: a worker's change set is drafted, approved and       *)
(* integrated under a lease on the project; a failed write is compensated  *)
(* from a snapshot; a finished integration can be rolled back; records     *)
(* left "applying" are recovered.                                          *)
(*                                                                         *)
(* A call is cut into steps at its awaits.  One port call is one step:     *)
(* what happens inside source.changeSet and source.restoreSnapshot is the  *)
(* subject of SourceRepository.  A change set proposes one file, so a      *)
(* selection of several sets is what writes several files.  A file's       *)
(* content stands for its hash.                                            *)
(***************************************************************************)
EXTENDS Naturals, FiniteSets

CONSTANTS
    Paths,          \* the project's paths
    Contents,       \* what a file may hold
    Trees,          \* what the project may hold at the start
    Absent,         \* not a content: the path has no file
    ChangeSets,     \* ids of change sets
    Integrations,   \* ids of calls of integrate, one record each
    Nobody,         \* not an id: the lease is free
    Proposals,      \* what the workers may propose: a path and a content for each set
    Edits,          \* what others may write: pairs of a path and a content
    MaxMishaps      \* bound on restarts, expired leases, failed restores, edits

ASSUME IdsAssumption ==
    /\ Trees \subseteq [Paths -> Contents \cup {Absent}]
    /\ Proposals \subseteq [ChangeSets -> [path: Paths, proposed: Contents \cup {Absent}]]
    /\ Edits \subseteq Paths \X (Contents \cup {Absent})
    /\ Absent \notin Contents
    /\ Nobody \notin Integrations
    /\ MaxMishaps \in Nat

VARIABLES
    tree,       \* the project's files
    sets,       \* the stored change sets
    lease,      \* project_integration_locks: the call that holds the project
    run,        \* calls of integrate
    records,    \* stored integration records
    held,       \* integrations whose snapshot the source manager still holds
    undo,       \* the call of rollback that is under way, one at a time
    recovery,   \* what the call of recoverInterrupted has still to settle
    mishaps,
    \* History, read by the properties only:
    lapsed,     \* calls that lost the lease while they ran
    disturbed   \* calls during which the tree was written without the lease

vars == <<tree, sets, lease, run, records, held, undo, recovery,
          mishaps, lapsed, disturbed>>

Tree == [Paths -> Contents \cup {Absent}]

Ops == {"create", "update", "delete"}
SetStatuses == {"none", "open", "integrated", "rolled_back"}
RecordStatuses == {"none", "applying", "integrated", "needs_review", "failed",
                   "interrupted", "rolled_back"}

\* The stages of integrate; a thrown call left its record "applying", a dead call
\* was cut off by a restart.
Holding == {"locked", "checked", "prepared", "written", "failing", "verified",
            "finished", "releasing", "throwing"}
Stages == Holding \cup {"idle", "done", "thrown", "dead"}

NoSnapshot == [p \in Paths |-> Absent]

\* A set's file names the content it started from and the one it proposes.
Files == [path: Paths, op: Ops, base: Contents \cup {Absent},
          proposed: Contents \cup {Absent}]

NoUndo == [of |-> Nobody, applied |-> {}]

Running == {i \in Integrations : run[i].stage \in Holding}

StoredSets == [status: SetStatuses, file: Files, by: Integrations \cup {Nobody}]

Calls == [stage: Stages, chosen: SUBSET ChangeSets, marked: SUBSET ChangeSets,
          snapshot: Tree]

Records == [status: RecordStatuses, chosen: SUBSET ChangeSets, applied: SUBSET Files]

TypeOK ==
    /\ tree \in Tree
    /\ sets \in [ChangeSets -> StoredSets]
    /\ lease \in Integrations \cup {Nobody}
    /\ run \in [Integrations -> Calls]
    /\ records \in [Integrations -> Records]
    /\ held \subseteq Integrations
    /\ undo \in [of: Integrations \cup {Nobody}, applied: SUBSET Files]
    /\ recovery \subseteq Integrations
    /\ mishaps \in 0..MaxMishaps
    /\ lapsed \subseteq Integrations /\ disturbed \subseteq Integrations

Init ==
    /\ tree \in Trees
    /\ \E f \in Proposals :
         sets = [c \in ChangeSets |->
                  [status |-> "none", by |-> Nobody,
                   file |-> [path |-> f[c].path, proposed |-> f[c].proposed,
                             base |-> Absent, op |-> "create"]]]
    /\ lease = Nobody
    /\ run = [i \in Integrations |-> [stage |-> "idle", chosen |-> {}, marked |-> {},
                                      snapshot |-> NoSnapshot]]
    /\ records = [i \in Integrations |-> [status |-> "none", chosen |-> {},
                                          applied |-> {}]]
    /\ held = {}
    /\ undo = NoUndo
    /\ recovery = {}
    /\ mishaps = 0
    /\ lapsed = {} /\ disturbed = {}

-----------------------------------------------------------------------------
\* Validation and conflicts

ChosenFiles(chosen) == {sets[c].file : c \in chosen}

\* validateChangeSet: the file moved after the set was drafted.
Stale(file) ==
    IF file.op = "create" THEN tree[file.path] # Absent ELSE tree[file.path] # file.base

\* detectConflicts: two sets want different things of one path.  Proposals of
\* the same content are convergent and do not block.
Conflicting(c, d) ==
    /\ c # d
    /\ sets[c].file.path = sets[d].file.path
    /\ sets[c].file.proposed # sets[d].file.proposed

Blocked(chosen) == \E c, d \in chosen : Conflicting(c, d)

\* seenPaths: two sets of the selection write one path, the same content or not.
SamePathTwice(chosen) ==
    \E c, d \in chosen : c # d /\ sets[c].file.path = sets[d].file.path

\* The tree port's preflight, against the tree of that moment.
Writable(file) == (tree[file.path] = Absent) <=> (file.op = "create")

After(files) ==
    [p \in Paths |-> IF \E f \in files : f.path = p
                     THEN (CHOOSE f \in files : f.path = p).proposed
                     ELSE tree[p]]

InPlace(i, t) == \A f \in records[i].applied : t[f.path] = f.proposed

\* Finished integrations whose files the tree t no longer shows and tree did.
TakenAway(i, t) ==
    {j \in Integrations \ {i} :
        /\ records[j].status \in {"integrated", "needs_review"}
        /\ InPlace(j, tree)
        /\ ~InPlace(j, t)}

\* Mutant: the snapshot of another integration is restored.
RestoreAny(i, part) ==
    \E j \in held :
       tree' = [p \in Paths |-> IF p \in part THEN run[j].snapshot[p] ELSE tree[p]]

\* The snapshot is written back file by file; a restore that fails has put back
\* a part of them.
Restore(i, part) ==
    tree' = [p \in Paths |-> IF p \in part THEN run[i].snapshot[p] ELSE tree[p]]

RestoreFails(i) ==
    /\ mishaps < MaxMishaps
    /\ mishaps' = mishaps + 1
    /\ \E part \in (SUBSET Paths) \ {Paths} : Restore(i, part)

RestoreWorks(i) == Restore(i, Paths) /\ UNCHANGED mishaps

-----------------------------------------------------------------------------
\* Drafts and approvals

\* createChangeSet: the worker read the file as the project holds it now.
Draft(c) ==
    LET file == sets[c].file IN
    /\ sets[c].status = "none"
    /\ tree[file.path] # file.proposed
    /\ sets' = [sets EXCEPT
         ![c].status = "open",
         ![c].file.base = tree[file.path],
         ![c].file.op = IF tree[file.path] = Absent THEN "create"
                        ELSE IF file.proposed = Absent THEN "delete" ELSE "update"]
    /\ UNCHANGED <<tree, lease, run, records, held, undo, recovery, mishaps,
                   lapsed, disturbed>>

\* recordApproval: the decision names the exact ids of sets that exist; integrate
\* looks it up and never uses it up, and a set does not change once stored, so an
\* approval may as well be recorded right before the call that needs it.
Approved(chosen) == chosen # {} /\ \A c \in chosen : sets[c].status # "none"

-----------------------------------------------------------------------------
\* integrate

\* A call that ended keeps its snapshot only: a rollback may ask for it.
Ended(i, stage) ==
    [run[i] EXCEPT !.stage = stage, !.chosen = {}, !.marked = {},
                   !.snapshot = IF i \in held THEN @ ELSE NoSnapshot]

Goto(i, stage) == run' = [run EXCEPT ![i].stage = stage]

\* Mutant: the lease of another call is overwritten.
AcquireRegardless(i, chosen) ==
    /\ run[i].stage = "idle"
    /\ Approved(chosen)
    /\ lease' = i
    /\ run' = [run EXCEPT ![i].stage = "locked", ![i].chosen = chosen]
    /\ UNCHANGED <<tree, sets, records, held, undo, recovery, mishaps, lapsed,
                   disturbed>>

\* The approval is checked, then the lease is taken: one insert, which wins only
\* when no lease is held.
Acquire(i, chosen) ==
    /\ run[i].stage = "idle"
    /\ Approved(chosen)
    /\ lease = Nobody
    /\ lease' = i
    /\ run' = [run EXCEPT ![i].stage = "locked", ![i].chosen = chosen]
    /\ UNCHANGED <<tree, sets, records, held, undo, recovery, mishaps, lapsed,
                   disturbed>>

\* Mutant: a set that was integrated or rolled back may come again.
UsableIfStored(c) == sets[c].status # "none"

Usable(c) == sets[c].status = "open" /\ sets[c].by = Nobody

\* The sets are loaded and the tree is read: a set that is not open or is stale
\* ends the call, a conflict stores a failed record first.
Check(i) ==
    /\ run[i].stage = "locked"
    /\ LET usable == \A c \in run[i].chosen : Usable(c) /\ ~Stale(sets[c].file)
           blocked == usable /\ Blocked(run[i].chosen)
       IN /\ Goto(i, IF usable /\ ~blocked THEN "checked" ELSE "releasing")
          /\ records' = IF blocked
                        THEN [records EXCEPT ![i].status = "failed",
                                             ![i].chosen = run[i].chosen]
                        ELSE records
    /\ UNCHANGED <<tree, sets, lease, held, undo, recovery, mishaps, lapsed,
                   disturbed>>

\* The snapshot is taken, and the record stored as applying.
Prepare(i) ==
    /\ run[i].stage = "checked"
    /\ run' = [run EXCEPT ![i].stage = "prepared", ![i].snapshot = tree]
    /\ held' = held \cup {i}
    /\ records' = [records EXCEPT ![i].status = "applying", ![i].chosen = run[i].chosen]
    /\ UNCHANGED <<tree, sets, lease, undo, recovery, mishaps, lapsed, disturbed>>

\* Two sets on one path: thrown after the record was stored, past the catch
\* that settles it.
RefuseSamePath(i) ==
    /\ run[i].stage = "prepared"
    /\ SamePathTwice(run[i].chosen)
    /\ Goto(i, "throwing")
    /\ UNCHANGED <<tree, sets, lease, records, held, undo, recovery, mishaps,
                   lapsed, disturbed>>

\* tree.apply reads each file's revision as it is now and writes all files, or
\* fails; what it could not take back stays in the tree.
Apply(i) ==
    /\ run[i].stage = "prepared"
    /\ ~SamePathTwice(run[i].chosen)
    /\ \/ /\ \A f \in ChosenFiles(run[i].chosen) : Writable(f)
          /\ tree' = After(ChosenFiles(run[i].chosen))
          /\ Goto(i, "written")
       \/ /\ \E part \in SUBSET {f \in ChosenFiles(run[i].chosen) : Writable(f)} :
                /\ part # ChosenFiles(run[i].chosen)
                /\ tree' = After(part)
          /\ Goto(i, "failing")
    /\ UNCHANGED <<sets, lease, records, held, undo, recovery, mishaps, lapsed,
                   disturbed>>

\* Every written file is read back and compared with the proposal.
ReadBack(i) ==
    /\ run[i].stage = "written"
    /\ Goto(i, IF \A f \in ChosenFiles(run[i].chosen) : tree[f.path] = f.proposed
               THEN "verified" ELSE "failing")
    /\ UNCHANGED <<tree, sets, lease, records, held, undo, recovery, mishaps,
                   lapsed, disturbed>>

\* Mutant: a restore that worked is not recorded.
CompensateUnrecorded(i) ==
    /\ run[i].stage = "failing"
    /\ \/ RestoreWorks(i) /\ UNCHANGED records
       \/ RestoreFails(i) /\ records' = [records EXCEPT ![i].status = "needs_review"]
    /\ Goto(i, "releasing")
    /\ UNCHANGED <<sets, lease, held, undo, recovery, lapsed, disturbed>>

\* The catch around the write: the snapshot is restored, or cannot be, and the
\* record says which.
Compensate(i) ==
    /\ run[i].stage = "failing"
    /\ \/ RestoreWorks(i) /\ records' = [records EXCEPT ![i].status = "failed"]
       \/ RestoreFails(i) /\ records' = [records EXCEPT ![i].status = "needs_review"]
    /\ Goto(i, "releasing")
    /\ UNCHANGED <<sets, lease, held, undo, recovery, lapsed, disturbed>>

\* Verification has run, or there is none; its failure asks for a review.
Finish(i) ==
    /\ run[i].stage = "verified"
    /\ \E status \in {"integrated", "needs_review"} :
          records' = [records EXCEPT ![i] =
            [status |-> status, chosen |-> run[i].chosen,
             applied |-> ChosenFiles(run[i].chosen)]]
    /\ Goto(i, "finished")
    /\ UNCHANGED <<tree, sets, lease, held, undo, recovery, mishaps, lapsed,
                   disturbed>>

\* verification.run or the read of the tree after it throws: only the lease is
\* given back.
VerificationThrows(i) ==
    /\ run[i].stage = "verified"
    /\ Goto(i, "throwing")
    /\ UNCHANGED <<tree, sets, lease, records, held, undo, recovery, mishaps,
                   lapsed, disturbed>>

\* Mutant: the change sets are updated before the record.
MarkEarly(i, c) ==
    /\ run[i].stage \in {"verified", "finished"}
    /\ c \in run[i].chosen \ run[i].marked
    /\ sets' = [sets EXCEPT ![c].status = "integrated", ![c].by = i]
    /\ run' = [run EXCEPT ![i].marked = @ \cup {c}]
    /\ UNCHANGED <<tree, lease, records, held, undo, recovery, mishaps, lapsed,
                   disturbed>>

\* One update for each change set, from the copy loaded under the lease.
Mark(i, c) ==
    /\ run[i].stage = "finished"
    /\ c \in run[i].chosen \ run[i].marked
    /\ sets' = [sets EXCEPT ![c].status = "integrated", ![c].by = i]
    /\ run' = [run EXCEPT ![i].marked = @ \cup {c},
                          ![i].stage = IF run[i].marked \cup {c} = run[i].chosen
                                       THEN "releasing" ELSE "finished"]
    /\ UNCHANGED <<tree, lease, records, held, undo, recovery, mishaps, lapsed,
                   disturbed>>

\* The finally block: only the row with this call's token is deleted.
Release(i) ==
    /\ run[i].stage \in {"releasing", "throwing"}
    /\ lease' = IF lease = i THEN Nobody ELSE lease
    /\ run' = [run EXCEPT ![i] =
         Ended(i, IF run[i].stage = "throwing" THEN "thrown" ELSE "done")]
    /\ disturbed' = disturbed \ {i}
    /\ UNCHANGED <<tree, sets, records, held, undo, recovery, mishaps, lapsed>>

-----------------------------------------------------------------------------
\* rollback

Unmoved(i) == \A f \in records[i].applied : tree[f.path] = f.proposed

\* The record and the tree are read; a record that is not finished lists no
\* applied file, so nothing of it can have moved.
AgreeToRollback(i) ==
    /\ undo = NoUndo
    /\ records[i].status \notin {"none", "rolled_back"}
    /\ i \in held
    /\ Unmoved(i)
    /\ undo' = [of |-> i, applied |-> records[i].applied]
    /\ UNCHANGED <<tree, sets, lease, run, records, held, recovery, mishaps,
                   lapsed, disturbed>>

\* The whole tree is restored, then the record that was read is written back as
\* rolled back, and so are its change sets; or the restore throws.
RollBack(i) ==
    /\ undo.of = i
    /\ undo' = NoUndo
    /\ disturbed' = disturbed \cup Running
    /\ \/ /\ RestoreWorks(i)
          /\ records' = [records EXCEPT ![i].status = "rolled_back",
                                        ![i].applied = undo.applied]
          /\ sets' = [c \in ChangeSets |->
                        IF c \in records[i].chosen
                        THEN [sets[c] EXCEPT !.status = "rolled_back"] ELSE sets[c]]
       \/ RestoreFails(i) /\ UNCHANGED <<records, sets>>
    /\ UNCHANGED <<lease, run, held, recovery, lapsed>>

-----------------------------------------------------------------------------
\* recoverInterrupted

\* The list is read once, without the lease.
ListInterrupted ==
    /\ recovery = {}
    /\ recovery' = {i \in Integrations : records[i].status = "applying"}
    /\ recovery' # {}
    /\ UNCHANGED <<tree, sets, lease, run, records, held, undo, mishaps, lapsed,
                   disturbed>>

\* Each listed integration is restored, if its snapshot is there, and the record
\* that was listed is written back as interrupted.
Interrupt(i) ==
    /\ i \in recovery
    /\ \/ i \in held /\ (RestoreWorks(i) \/ RestoreFails(i))
       \/ i \notin held /\ UNCHANGED <<tree, mishaps>>
    /\ records' = [records EXCEPT ![i].status = "interrupted", ![i].applied = {}]
    /\ recovery' = recovery \ {i}
    /\ disturbed' = disturbed \cup Running
    /\ UNCHANGED <<sets, lease, run, held, undo, lapsed>>

-----------------------------------------------------------------------------
\* The world around

\* The coding agent, the app builder or a person writes the same tree.
Edit(p, v) ==
    /\ mishaps < MaxMishaps
    /\ tree[p] # v
    /\ tree' = [tree EXCEPT ![p] = v]
    /\ mishaps' = mishaps + 1
    /\ disturbed' = disturbed \cup Running
    /\ UNCHANGED <<sets, lease, run, records, held, undo, recovery, lapsed>>

\* Sixty seconds after it was taken the lease can be taken by another call.
LeaseExpires ==
    /\ mishaps < MaxMishaps
    /\ lease # Nobody
    /\ lease' = Nobody
    /\ mishaps' = mishaps + 1
    /\ lapsed' = IF run[lease].stage \in Holding THEN lapsed \cup {lease} ELSE lapsed
    /\ UNCHANGED <<tree, sets, run, records, held, undo, recovery, disturbed>>

\* A restart ends every call; the snapshots lived in the process.
Crash ==
    /\ mishaps < MaxMishaps
    /\ mishaps' = mishaps + 1
    /\ run' = [i \in Integrations |->
                 [IF i \in Running THEN Ended(i, "dead") ELSE run[i]
                    EXCEPT !.snapshot = NoSnapshot]]
    /\ held' = {}
    /\ undo' = NoUndo
    /\ recovery' = {}
    /\ disturbed' = {}
    /\ UNCHANGED <<tree, sets, lease, records, lapsed>>

-----------------------------------------------------------------------------
Integrate(i) ==
    \/ \E chosen \in SUBSET ChangeSets : Acquire(i, chosen)
    \/ Check(i) \/ Prepare(i)
    \/ RefuseSamePath(i) \/ Apply(i) \/ ReadBack(i)
    \/ Compensate(i)
    \/ Finish(i) \/ VerificationThrows(i)
    \/ \E c \in ChangeSets : Mark(i, c)
    \/ Release(i)

Rollback(i) == AgreeToRollback(i) \/ RollBack(i)

Recover == ListInterrupted \/ \E i \in Integrations : Interrupt(i)

Next ==
    \/ \E c \in ChangeSets : Draft(c)
    \/ \E i \in Integrations : Integrate(i) \/ Rollback(i)
    \/ Recover
    \/ \E edit \in Edits : Edit(edit[1], edit[2])
    \/ LeaseExpires
    \/ Crash

Spec == Init /\ [][Next]_vars
-----------------------------------------------------------------------------
\* Properties

\* Rule 2 of the header (manager.ts:9): two integrations run against the project
\* at once only when the lease of one of them expired under it.
OneAtATime ==
    \A i, j \in Integrations :
        /\ i # j
        /\ run[i].stage \in Holding
        /\ run[j].stage \in Holding
        => lapsed \cap {i, j} # {}

\* Compensation restores the whole tree (manager.ts:580), which is sound only
\* while nobody else writes it: it changes no file outside its own change sets,
\* unless a lease expired under a call, or a rollback, a recovery or an edit,
\* none of which takes the lease, wrote the tree during the call.
CompensationSparesOthers ==
    [][\A i \in Integrations :
         /\ run[i].stage = "failing" /\ run'[i].stage = "releasing"
         /\ lapsed = {} /\ i \notin disturbed
         => \A p \in Paths : tree'[p] # tree[p] =>
                \E f \in ChosenFiles(run[i].chosen) : f.path = p]_vars

\* Rule 4: a set is integrated at most once.  The status that says so is written
\* last (manager.ts:653), so a restart before it, or a lease that expired, is the
\* only way to a second integration.
IntegratedOnce ==
    \A i, j \in Integrations :
        /\ i # j
        /\ records[i].applied # {} /\ records[j].applied # {}
        /\ records[i].chosen \cap records[j].chosen # {}
        => \/ lapsed # {}
           \/ \E k \in {i, j} : run[k].stage = "dead"

\* A record that stays "applying" with no call behind it will be restored by the
\* next recovery, whatever was built on it since.  It has one of three causes: a
\* restart, a throw of the verification, two sets that propose one path.
ApplyingHasACall ==
    \A i \in Integrations :
        records[i].status = "applying" =>
            \/ run[i].stage \in Holding
            \/ run[i].stage \in {"thrown", "dead"}

\* A set says it was integrated only when its record says so, under every order
\* of a rollback, a recovery and the updates of the two tables.
IntegratedSetsHaveARecord ==
    \A c \in ChangeSets :
        sets[c].status = "integrated" =>
            records[sets[c].by].status \in
                {"integrated", "needs_review", "rolled_back", "interrupted"}

\* Rule 5 and docs/change-integration.md:79: an accepted integration can be reverted only
\* if nothing changed since: with no integrate under way, a rollback takes no other
\* finished integration away.
RollbackErasesNoLaterWork ==
    [][\A i \in Integrations :
         /\ Running = {} /\ records[i].applied # {}
         /\ undo.of = i /\ undo' = NoUndo /\ records'[i].status = "rolled_back"
         => TakenAway(i, tree') = {}]_vars
=============================================================================
