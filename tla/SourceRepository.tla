---------------------------- MODULE SourceRepository ----------------------------
(***************************************************************************)
(* Source storage (source-storage/core/src/repository/index.ts) over the   *)
(* project engine's tree (project-engine/core/src/managers/                *)
(* file-tree-manager.ts on storage/postgres/src/repositories/files.ts):    *)
(* change sets that are applied one port call at a time and taken back     *)
(* when one fails, snapshots and restores, while other writers (coding     *)
(* agent, app builder) use the same tree directly.                         *)
(*                                                                         *)
(* A path is the sequence of its names.  One call of the tree port is one  *)
(* step.  What the layer remembers of the tree to attribute changes is     *)
(* left out: no decision about a write depends on it.                      *)
(***************************************************************************)
EXTENDS Naturals, Sequences, FiniteSets, SequencesExt

CONSTANTS
    NodePaths,      \* paths and the directories above them
    FileContents,   \* what a file may hold
    NodeTrees,      \* what the project may hold at the start
    Programs,       \* sequences of operations that callers submit
    Writes,         \* port calls that other writers make
    Jobs,           \* ids of calls of the source API
    MaxWrites,      \* bound on the port calls of other writers
    MaxAutomatic,   \* SOURCE_LIMITS.maxAutomaticSnapshots
    MaxSnapshots,   \* SOURCE_LIMITS.maxSnapshots
    NoContent       \* not a content: what a directory holds

VARIABLES
    nodes,      \* file_nodes of the workspace: the tree
    snapshots,  \* state.snapshots, oldest first
    job,        \* calls of the source API
    writes      \* number of port calls others made

sourceVars == <<nodes, snapshots, job, writes>>

Parent(p) == Front(p)

Nothing == [type |-> "none", rev |-> 0, content |-> NoContent]
File(v, rev) == [type |-> "file", rev |-> rev, content |-> v]
NewFile(v) == File(v, 1)
NewDirectory == [type |-> "directory", rev |-> 1, content |-> NoContent]

FilesOf(t) == {p \in NodePaths : t[p].type = "file"}

\* What a reader of the tree sees: everything but the revisions.
Held(t) == [p \in NodePaths |-> [type |-> t[p].type, content |-> t[p].content]]

-----------------------------------------------------------------------------
\* The tree port: FileTreeManager

HasParent(t, p) == Len(p) > 1 => t[Parent(p)].type = "directory"

Below(p) == {q \in NodePaths : Len(q) = Len(p) + 1 /\ Parent(q) = p}

Command(do, p, v, rev, to) ==
    [do |-> do, path |-> p, content |-> v, rev |-> rev, to |-> to]
Create(p, v) == Command("create", p, v, 0, p)
Write(p, v, rev) == Command("write", p, v, rev, p)
Delete(p) == Command("delete", p, NoContent, 0, p)
MakeDirectory(p) == Command("mkdir", p, NoContent, 0, p)
RemoveDirectory(p) == Command("rmdir", p, NoContent, 0, p)
Move(p, to) == Command("move", p, NoContent, 0, to)

\* Mutant of Accepts: the revision of a write is not compared.
AcceptsAnyRevision(t, cmd) ==
    LET p == cmd.path IN
    CASE cmd.do \in {"create", "mkdir"} -> t[p].type = "none" /\ HasParent(t, p)
      [] cmd.do \in {"write", "delete"} -> t[p].type = "file"
      [] cmd.do = "rmdir" ->
           t[p].type = "directory" /\ \A q \in Below(p) : t[q].type = "none"
      [] cmd.do = "move" ->
           /\ t[p].type = "file" /\ p # cmd.to
           /\ t[cmd.to].type = "none" /\ HasParent(t, cmd.to)

\* Does the port accept a command?  Only files are moved through the source API,
\* and a rename must change the name.
Accepts(t, cmd) ==
    LET p == cmd.path IN
    CASE cmd.do \in {"create", "mkdir"} -> t[p].type = "none" /\ HasParent(t, p)
      [] cmd.do = "write" -> t[p].type = "file" /\ t[p].rev = cmd.rev
      [] cmd.do = "delete" -> t[p].type = "file"
      [] cmd.do = "rmdir" ->
           t[p].type = "directory" /\ \A q \in Below(p) : t[q].type = "none"
      [] cmd.do = "move" ->
           /\ t[p].type = "file" /\ p # cmd.to
           /\ t[cmd.to].type = "none" /\ HasParent(t, cmd.to)

\* A file that is written or moved gets the next revision, one that is created
\* starts at 1, whatever was at its path before.
Done(t, cmd) ==
    LET p == cmd.path IN
    CASE cmd.do = "create" -> [t EXCEPT ![p] = NewFile(cmd.content)]
      [] cmd.do = "mkdir" -> [t EXCEPT ![p] = NewDirectory]
      [] cmd.do = "write" -> [t EXCEPT ![p] = File(cmd.content, t[p].rev + 1)]
      [] cmd.do \in {"delete", "rmdir"} -> [t EXCEPT ![p] = Nothing]
      [] cmd.do = "move" ->
           [t EXCEPT ![cmd.to] = File(t[p].content, t[p].rev + 1), ![p] = Nothing]

-----------------------------------------------------------------------------
\* Operations of a change set: an update names the revision its caller loaded.
Operations ==
    [op: {"create", "update", "delete", "create-directory", "move"},
     path: NodePaths, content: FileContents \cup {NoContent}, to: NodePaths]

IsCommand(cmd) ==
    /\ cmd = Command(cmd.do, cmd.path, cmd.content, cmd.rev, cmd.to)
    /\ cmd.do \in {"create", "mkdir", "write", "delete", "rmdir", "move"}
    /\ cmd.path \in NodePaths /\ cmd.to \in NodePaths

IsFile(n) == n = File(n.content, n.rev) /\ n.rev \in Nat \ {0}

\* Nothing hangs in the air.
IsTree(t) ==
    /\ DOMAIN t = NodePaths
    /\ \A p \in NodePaths : t[p] \in {Nothing, NewDirectory} \/ IsFile(t[p])
    /\ \A p \in NodePaths : t[p] # Nothing => HasParent(t, p)

ConstantsAreSound ==
    /\ NodePaths \subseteq Seq(UNION {{p[i] : i \in DOMAIN p} : p \in NodePaths})
    /\ \A p \in NodePaths : p # <<>> /\ \A i \in 1..Len(p) : SubSeq(p, 1, i) \in NodePaths
    /\ \A t \in NodeTrees : IsTree(t)
    /\ Programs \subseteq Seq(Operations) \ {<<>>}
    /\ \A write \in Writes : IsCommand(write)

ASSUME SourceRepositoryConstants == ConstantsAreSound

\* "... is changed twice in one change set": no path is named by two operations.
\* The target of a move does not count.
ChangedOnce(ops) == \A i, k \in DOMAIN ops : ops[i].path = ops[k].path => i = k

\* preflight and simulate, on the files alone: a directory in the way, a missing
\* target directory and a taken target are not seen.
Passes(t, seen, ops) ==
    LET after[i \in 0..Len(ops)] ==    \* files and their revisions before ops[i + 1]
          IF i = 0 THEN [p \in NodePaths |-> IF t[p].type = "file" THEN t[p].rev ELSE 0]
          ELSE LET o == ops[i] IN
               CASE o.op \in {"create", "update", "create-directory"} ->
                      [after[i-1] EXCEPT ![o.path] = 1]
                 [] o.op = "delete" -> [after[i-1] EXCEPT ![o.path] = 0]
                 [] o.op = "move" -> [after[i-1] EXCEPT ![o.path] = 0, ![o.to] = 1]
    IN \A i \in 1..Len(ops) :
         LET rev == after[i-1][ops[i].path] IN
         CASE ops[i].op \in {"create", "create-directory"} -> rev = 0
           [] ops[i].op = "update" -> rev > 0 /\ rev = seen[ops[i].path].rev
           [] ops[i].op \in {"delete", "move"} -> rev > 0

\* ensureParents: the directories that a new file needs, outermost first.  What is
\* below a missing directory is missing too: the tree has no orphans.
MissingParents(t, p) ==
    LET There(i) == t[SubSeq(p, 1, i)].type = "directory"
        depth == CHOOSE i \in 0..(Len(p) - 1) :
                   (\A k \in 1..i : There(k)) /\ (i < Len(p) - 1 => ~There(i + 1))
    IN [i \in 1..(Len(p) - 1 - depth) |-> SubSeq(p, 1, depth + i)]

\* The port calls of one operation.
Commands(t, seen, o) ==
    CASE o.op = "create" ->
           LET dirs == MissingParents(t, o.path)
           IN [i \in 1..Len(dirs) |-> MakeDirectory(dirs[i])]
              \o <<Create(o.path, o.content)>>
      [] o.op = "update" -> <<Write(o.path, o.content, seen[o.path].rev)>>
      [] o.op = "delete" -> <<Delete(o.path)>>
      [] o.op = "create-directory" -> <<MakeDirectory(o.path)>>
      [] o.op = "move" -> <<Move(o.path, o.to)>>

\* Mutant of Undo: directories made on the way are left.
UndoLeavesDirectories(t, seen, o) ==
    CASE o.op = "create" -> <<Delete(o.path)>>
      [] o.op = "update" ->
           <<Write(o.path, t[o.path].content, seen[o.path].rev + 1)>>
      [] o.op = "delete" -> <<Create(o.path, t[o.path].content)>>
      [] o.op = "create-directory" -> <<RemoveDirectory(o.path)>>
      [] o.op = "move" -> <<Move(o.to, IF Len(o.path) < Len(o.to) THEN o.to ELSE o.path)>>
\* The port calls that take the operation back.  A file that left the root is
\* renamed to the path it has, which the port refuses.
Undo(t, seen, o) ==
    CASE o.op = "create" ->
           LET dirs == Reverse(MissingParents(t, o.path))
           IN <<Delete(o.path)>> \o [i \in 1..Len(dirs) |-> RemoveDirectory(dirs[i])]
      [] o.op = "update" ->
           <<Write(o.path, t[o.path].content, seen[o.path].rev + 1)>>
      [] o.op = "delete" -> <<Create(o.path, t[o.path].content)>>
      [] o.op = "create-directory" -> <<RemoveDirectory(o.path)>>
      [] o.op = "move" ->
           IF Len(o.path) = 1 /\ Len(o.to) > 1 THEN <<Move(o.to, o.to)>>
           ELSE <<Move(o.to, o.path)>>

-----------------------------------------------------------------------------
\* Snapshots

\* The snapshots without their first n automatic ones.
WithoutFirst(n, list) ==
    FoldLeft(LAMBDA acc, s :
               IF s.kind = "automatic" /\ acc.left > 0
               THEN [acc EXCEPT !.left = @ - 1] ELSE [acc EXCEPT !.kept = Append(@, s)],
             [left |-> n, kept |-> <<>>], list).kept

Automatic(list) == Len(SelectSeq(list, LAMBDA s : s.kind = "automatic"))

Excess(n, limit) == IF n > limit THEN n - limit ELSE 0

\* pruneSnapshots: first the bound on automatic ones, then the bound on all, for
\* which again only automatic ones make room.
Pruned(list) ==
    LET first == WithoutFirst(Excess(Automatic(list), MaxAutomatic), list)
    IN WithoutFirst(Excess(Len(first), MaxSnapshots), first)

-----------------------------------------------------------------------------
Busy == {"applying", "undoing", "reading", "putting"}

NoFiles == [p \in {} |-> NoContent]

\* A job between two of its port calls.
Idle == [stage |-> "idle",
         seen |-> [p \in NodePaths |-> Nothing],  \* the tree its caller loaded
         ops |-> <<>>,        \* operations still to apply
         todo |-> <<>>,       \* port calls of the operation that is under way
         back |-> <<>>,       \* port calls that would take it back
         undo |-> <<>>,       \* port calls that take back all before it
         kind |-> "manual",   \* kind of the snapshot it takes
         restores |-> FALSE,  \* whether it takes it before a restore
         reading |-> {},      \* files it has listed and not yet handled
         files |-> NoFiles,   \* manifest it is collecting
         put |-> {},          \* files of the target not yet put back
         target |-> NoFiles,  \* manifest it restores
         \* History, read by the properties only: the tree when it began, whether
         \* it was the only writer since, paths that were emptied since Load.
         start |-> Held([p \in NodePaths |-> Nothing]), alone |-> TRUE, emptied |-> {}]

SourceInit ==
    /\ nodes \in NodeTrees
    /\ snapshots = <<>>
    /\ job = [j \in Jobs |-> Idle]
    /\ writes = 0

\* A job after a port call of somebody else.
Disturbed(k) ==
    LET gone == {p \in NodePaths : nodes[p].type # "none" /\ nodes'[p].type = "none"}
    IN [job[k] EXCEPT !.alone = @ /\ job[k].stage \notin Busy,
                      !.emptied = IF job[k].stage = "idle" THEN @ ELSE @ \cup gone]

\* One port call.
Perform(cmd, j, next) ==
    /\ nodes' = Done(nodes, cmd)
    /\ job' = [k \in Jobs |-> IF k = j THEN next ELSE Disturbed(k)]

Goes(j, next) == job' = [job EXCEPT ![j] = next] /\ UNCHANGED nodes

-----------------------------------------------------------------------------
\* changeSet

\* A caller reads the tree, its revisions with it.
Load(j) ==
    /\ job[j].stage = "idle"
    /\ Goes(j, [job[j] EXCEPT !.stage = "loaded", !.seen = nodes])
    /\ UNCHANGED <<snapshots, writes>>

\* The paths are checked, the tree is listed and the operations are tried on it.
Submit(j, ops) ==
    /\ job[j].stage = "loaded"
    /\ Goes(j, IF ChangedOnce(ops) /\ Passes(nodes, job[j].seen, ops)
               THEN [job[j] EXCEPT !.stage = "applying", !.ops = ops, !.start = Held(nodes)]
               ELSE [Idle EXCEPT !.stage = "refused"])
    /\ UNCHANGED <<snapshots, writes>>

\* The operation that is under way failed: what it did so far stays, and those
\* before it are taken back.
GiveUp(j) ==
    [job[j] EXCEPT !.todo = <<>>, !.ops = <<>>, !.back = <<>>,
                   !.stage = IF job[j].undo = <<>> THEN "compensated" ELSE "undoing"]

\* The reads before an operation's first write: parents, or what it replaces.
PrepareCalls(j) ==
    /\ job[j].stage = "applying"
    /\ job[j].todo = <<>>
    /\ LET o == Head(job[j].ops) IN
       Goes(j, IF o.op \in {"update", "delete"} /\ nodes[o.path].type # "file"
               THEN GiveUp(j)
               ELSE [job[j] EXCEPT !.todo = Commands(nodes, job[j].seen, o),
                                   !.back = Undo(nodes, job[j].seen, o)])
    /\ UNCHANGED <<snapshots, writes>>

\* One port call of the operation, which can be taken back after its last one.
MakeCall(j) ==
    /\ job[j].stage = "applying"
    /\ job[j].todo # <<>>
    /\ LET cmd == Head(job[j].todo)
           over == Len(job[j].todo) = 1
           last == over /\ Len(job[j].ops) = 1
           next == [job[j] EXCEPT !.todo = Tail(@),
                                  !.ops = IF over THEN Tail(@) ELSE @,
                                  !.undo = IF over THEN job[j].back \o @ ELSE @]
       IN IF Accepts(nodes, cmd)
          THEN Perform(cmd, j, IF last THEN [Idle EXCEPT !.stage = "applied"] ELSE next)
          ELSE Goes(j, GiveUp(j))
    /\ UNCHANGED <<snapshots, writes>>

\* One port call that takes an operation back; if it fails nothing more is tried.
TakeBack(j) ==
    /\ job[j].stage = "undoing"
    /\ LET cmd == Head(job[j].undo)
           next == [job[j] EXCEPT !.undo = Tail(@),
                      !.stage = IF Len(job[j].undo) = 1 THEN "compensated" ELSE @]
       IN IF Accepts(nodes, cmd)
          THEN Perform(cmd, j, next)
          ELSE Goes(j, [job[j] EXCEPT !.stage = "broken"])
    /\ UNCHANGED <<snapshots, writes>>

-----------------------------------------------------------------------------
\* createSnapshot and restoreSnapshot

\* The files are listed.
List(j, kind, restores, target) ==
    /\ job[j].stage = "idle"
    /\ Goes(j, [job[j] EXCEPT !.stage = "reading", !.kind = kind,
                              !.restores = restores, !.target = target,
                              !.reading = FilesOf(nodes), !.start = Held(nodes)])
    /\ UNCHANGED <<snapshots, writes>>

\* A snapshot that somebody asked for.
CreateSnapshot(j, kind) == List(j, kind, FALSE, NoFiles)

\* A restore finds its snapshot and first takes an automatic one.
RestoreSnapshot(j, i) == List(j, "automatic", TRUE, snapshots[i].files)

Fails(j) == Goes(j, [job[j] EXCEPT !.stage = "failed"])

\* They are read one by one.
Read(j, p) ==
    /\ job[j].stage = "reading"
    /\ p \in job[j].reading
    /\ IF nodes[p].type = "file"
       THEN Goes(j, [job[j] EXCEPT
              !.reading = @ \ {p},
              !.files = [q \in DOMAIN @ \cup {p} |->
                           IF q = p THEN nodes[p].content ELSE job[j].files[q]]])
       ELSE Fails(j)
    /\ UNCHANGED <<snapshots, writes>>

\* The snapshot is stored and old ones are pruned; a restore lists the tree.
Store(j) ==
    /\ job[j].stage = "reading"
    /\ job[j].reading = {}
    /\ snapshots' = Pruned(Append(snapshots,
         [id |-> j, kind |-> job[j].kind, files |-> job[j].files]))
    /\ Goes(j, IF job[j].restores
               THEN [job[j] EXCEPT !.stage = "putting", !.reading = FilesOf(nodes),
                                   !.put = DOMAIN job[j].target]
               ELSE [Idle EXCEPT !.stage = "taken"])
    /\ UNCHANGED writes

\* A file of the snapshot: created when it was not listed, though its directory
\* may be gone, and updated when it holds something else.
Put(j, p) ==
    /\ job[j].stage = "putting"
    /\ p \in job[j].put
    /\ LET v == job[j].target[p]
           next == [job[j] EXCEPT !.put = @ \ {p}]
       IN IF p \in job[j].reading
          THEN IF nodes[p].type # "file" THEN Fails(j)
               ELSE IF nodes[p].content = v THEN Goes(j, next)
               ELSE Perform(Write(p, v, nodes[p].rev), j, next)
          ELSE IF Accepts(nodes, Create(p, v)) THEN Perform(Create(p, v), j, next)
               ELSE Fails(j)
    /\ UNCHANGED <<snapshots, writes>>

\* A listed file that the snapshot does not have, after all puts.
RemoveExtra(j, p) ==
    /\ job[j].stage = "putting" /\ job[j].put = {}
    /\ p \in job[j].reading \ DOMAIN job[j].target
    /\ IF nodes[p].type = "file"
       THEN Perform(Delete(p), j, [job[j] EXCEPT !.reading = @ \ {p}])
       ELSE Fails(j)
    /\ UNCHANGED <<snapshots, writes>>

\* Mutant of Restored: files that the snapshot does not have are left.
RestoredEarly(j) ==
    /\ job[j].stage = "putting" /\ job[j].put = {}
    /\ Goes(j, [job[j] EXCEPT !.stage = "restored"])
    /\ UNCHANGED <<snapshots, writes>>

Restored(j) ==
    /\ job[j].stage = "putting" /\ job[j].put = {}
    /\ job[j].reading \subseteq DOMAIN job[j].target
    /\ Goes(j, [job[j] EXCEPT !.stage = "restored"])
    /\ UNCHANGED <<snapshots, writes>>

-----------------------------------------------------------------------------
\* Another writer calls the port, on the revision it has just read.
Interfere(write) ==
    /\ writes < MaxWrites
    /\ writes' = writes + 1
    /\ LET cmd == [write EXCEPT !.rev = nodes[write.path].rev] IN
       /\ Accepts(nodes, cmd)
       /\ nodes' = Done(nodes, cmd)
       /\ job' = [k \in Jobs |-> Disturbed(k)]
    /\ UNCHANGED snapshots

SourceNext ==
    \/ \E j \in Jobs :
         \/ Load(j)
         \/ \E ops \in Programs : Submit(j, ops)
         \/ PrepareCalls(j) \/ MakeCall(j) \/ TakeBack(j)
         \/ \E kind \in {"manual", "automatic"} : CreateSnapshot(j, kind)
         \/ \E i \in DOMAIN snapshots : RestoreSnapshot(j, i)
         \/ \E p \in NodePaths : Read(j, p) \/ Put(j, p) \/ RemoveExtra(j, p)
         \/ Store(j) \/ Restored(j)
    \/ \E write \in Writes : Interfere(write)

SourceSpec == SourceInit /\ [][SourceNext]_sourceVars
-----------------------------------------------------------------------------
\* Properties

Becomes(j, stage) == job[j].stage # stage /\ job'[j].stage = stage

\* "The change set was rolled back; nothing was kept" (repository/index.ts:550):
\* when no other writer came in between, the tree is what it was, directories that
\* were made on the way included.  Without one there is a single way not to get
\* there: a file moved out of the root is renamed to the name it has.
NothingWasKept ==
    [][\A j \in Jobs : job[j].alone =>
         /\ Becomes(j, "compensated") => Held(nodes') = job[j].start
         /\ Becomes(j, "broken") =>
              \E p \in NodePaths : Head(job[j].undo) = Move(p, p)]_sourceVars

\* "A stale revision is rejected, never overwritten" (file-tree-manager.ts:159): an
\* update replaces what its caller loaded, unless the path was emptied and filled
\* again, for then the revisions start over.
UpdatesSeeWhatTheyReplace ==
    [][\A j \in Jobs :
         /\ job[j].stage = "applying" /\ job[j].todo # <<>>
         /\ Head(job[j].todo).do = "write"
         /\ job'[j].todo = <<>> /\ job'[j].stage \in {"applying", "applied"}
         => LET p == Head(job[j].todo).path
            IN nodes[p].content = job[j].seen[p].content \/ p \in job[j].emptied]_sourceVars

\* A restore that nobody disturbs leaves exactly the files of its snapshot, and
\* fails only on a file whose directory is gone, for directories are not in the
\* manifest and are not made again, or whose path is a directory by now.
RestoreAloneIsExact ==
    [][\A j \in Jobs :
         job[j].alone =>
           /\ Becomes(j, "restored") =>
                /\ FilesOf(nodes) = DOMAIN job[j].target
                /\ \A p \in FilesOf(nodes) : nodes[p].content = job[j].target[p]
           /\ Becomes(j, "failed") =>
                \E p \in job[j].put :
                   ~HasParent(nodes, p) \/ nodes[p].type = "directory"]_sourceVars

=============================================================================
