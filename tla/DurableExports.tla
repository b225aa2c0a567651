--------------------------- MODULE DurableExports ---------------------------
(***************************************************************************)
(* One owner's exports over the durable state mirror:                      *)
(* export/core/src/manager.ts and consistency.ts, run by the API behind    *)
(* apps/api/src/durable-state.ts and the hooks of apps/api/src/server.ts.  *)
(*                                                                         *)
(* The manager and the mirror are synchronous and live in the process.     *)
(* What must outlive it is queued: one write after another, to the         *)
(* export_jobs table (rows) and to the object store (files, with their     *)
(* stored_objects rows).  A mutating request waits for the queue before    *)
(* it is answered.  The process may crash at any step and start again.     *)
(*                                                                         *)
(* A step of a call runs from one await to the next.  Names, contents,     *)
(* sizes and secrets are left out: a file is the revision it was last      *)
(* changed at, 0 when the workspace does not have it.                      *)
(***************************************************************************)
EXTENDS Naturals, Sequences, FiniteSets, Functions

CONSTANTS
    Calls,          \* requests served at the same time
    Exports,        \* identifiers createExport may generate
    Files,          \* paths of the project's workspace
    NoExport,       \* the export of a call that has none
    MaxArchives,    \* EXPORT_LIMITS.maxArchivesPerOwner
    MaxReads,       \* EXPORT_LIMITS.maxConsistencyAttempts
    MaxEvents       \* bound: edits of the workspace, queries and writes that
                    \* fail, crashes and expiries, together

ASSUME ExportsAssumption ==
    /\ NoExport \notin Exports /\ IsFiniteSet(Exports)
    /\ {MaxArchives, MaxReads} \subseteq Nat \ {0}
    /\ MaxEvents \in Nat

VARIABLES
    records,    \* ExportManager.records: the status of each export held
    archives,   \* the mirror's archive metadata
    bytes,      \* archives whose bytes are in this process
    writes,     \* DurableState.queue: the writes not yet done, in order
    failed,     \* DurableState.firstError is set
    load,       \* how this process loaded the owner's rows
    rows,       \* export_jobs: the status of each row
    files,      \* archives on the disk
    objects,    \* keys in stored_objects
    packed,     \* exports in the order of their expiresAt
    expired,    \* how many of packed are past it
    trees,      \* the workspace's files at revision 1, 2, ...
    calls,      \* the requests underway
    failures,   \* how many queries and writes failed
    crashes,    \* how many times the process crashed
    lost,       \* history: exports a write of which failed
    dropped,    \* history: archives evicted, swept or discarded
    tangled     \* history: exports discarded while they were made or loaded

memory  == <<records, archives, bytes, writes, failed, load>>
disk    == <<rows, files, objects>>
past    == <<lost, dropped, tangled>>
vars    == <<records, archives, bytes, writes, failed, load, rows, files,
             objects, packed, expired, trees, calls, failures, crashes,
             lost, dropped, tangled>>

Statuses == {"none", "running", "ready", "failed"}

Idle == [op |-> "none", at |-> "idle", export |-> NoExport, attached |-> FALSE,
         wait |-> 0, tries |-> 0, revision |-> 0, listed |-> <<>>,
         content |-> <<>>, seeds |-> <<>>]

At(c, where) == calls[c].at = where
Rows == [Exports -> Statuses]

revision == Len(trees)
tree == trees[revision]
Eventful == revision - 1 + failures + crashes + expired < MaxEvents

Present(t) == {f \in Files : t[f] # 0}
Listing(t) == [f \in Present(t) |-> t[f]]

(***************************************************************************)
(* The mirror's ArchiveStore, and the queue.                               *)
(***************************************************************************)
Save(e, status) == <<[kind |-> "save", export |-> e, status |-> status]>>
DeleteRow(e)    == <<[kind |-> "deleteRow", export |-> e, status |-> "none"]>>
PutObject(e)    == <<[kind |-> "putObject", export |-> e, status |-> "none"]>>
DeleteObjects(es) ==
    [i \in DOMAIN es |->
        [kind |-> "deleteObject", export |-> es[i], status |-> "none"]]

\* a loop over archives deletes them one by one; their order changes nothing else
Orders(es) == {order \in [1 .. Cardinality(es) -> es] : IsInjective(order)}

\* ArchiveStore.get finds the archive
Held(e) == e \in archives /\ e \in bytes \cup files

\* idsFor is sorted by expiry: the archives it lists after e
ListedAfter(e) ==
    {d \in archives : \E i, j \in DOMAIN packed :
                         i < j /\ packed[i] = e /\ packed[j] = d}

Expired(e) == \E i \in 1 .. expired : packed[i] = e

\* the handler's end, without the wait
FlushAtOnce(c, call, queue) ==
    calls' = [calls EXCEPT ![c] = [Idle EXCEPT
        !.op = call.op, !.at = "flush", !.export = call.export,
        !.attached = call.attached]]

\* a handler's end: onSend awaits the writes queued so far
Flush(c, call, queue) ==
    calls' = [calls EXCEPT ![c] = [Idle EXCEPT
        !.op = call.op, !.at = "flush", !.export = call.export,
        !.attached = call.attached, !.wait = Len(queue)]]

(***************************************************************************)
(* preHandler: prepare and hydrate.                                        *)
(***************************************************************************)
Arrive(c, op) ==
    /\ At(c, "idle")
    /\ calls' = [calls EXCEPT ![c].op = op,
                   ![c].at = IF load = "none" THEN "loading" ELSE "handler"]
    /\ load' = IF load = "none" THEN "loading" ELSE load
    /\ UNCHANGED <<records, archives, bytes, writes, failed, disk, packed,
                   expired, trees, failures, crashes, past>>

LoadRows(c) ==
    /\ At(c, "loading")
    /\ calls' = [calls EXCEPT ![c].at = "loaded", ![c].seeds = rows]
    /\ UNCHANGED <<memory, disk, packed, expired, trees, failures, crashes,
                   past>>

LoadFails(c) ==
    /\ At(c, "loading")
    /\ Eventful
    /\ failures' = failures + 1
    /\ load' = "failed"
    /\ IF calls[c].op = "look"
          THEN calls' = [calls EXCEPT ![c] = Idle]
          ELSE Flush(c, calls[c], writes)
    /\ UNCHANGED <<records, archives, bytes, writes, failed, disk, packed,
                   expired, trees, crashes, past>>

Hydrate(c) ==
    LET seeds == calls[c].seeds IN
    /\ At(c, "loaded")
    /\ records' = [e \in Exports |->
                     IF records[e] = "none" THEN seeds[e] ELSE records[e]]
    /\ archives' = archives \cup {e \in Exports : seeds[e] = "ready"}
    /\ load' = "done"
    /\ calls' = [calls EXCEPT ![c].at = "handler", ![c].seeds = <<>>]
    /\ UNCHANGED <<bytes, writes, failed, disk, packed, expired, trees,
                   failures, crashes, past>>

(***************************************************************************)
(* The manager: sweep, createExport, discard.  A look is any GET: it       *)
(* sweeps, and is answered without waiting for the queue.                  *)
(***************************************************************************)
Swept == {e \in Exports : records[e] # "none" /\ Held(e) /\ Expired(e)}

Sweep(c) ==
    /\ At(c, "handler")
    /\ calls[c].op \in {"look", "create"}
    /\ archives' = archives \ Swept
    /\ bytes' = bytes \ Swept
    /\ \E order \in Orders(Swept) : writes' = writes \o DeleteObjects(order)
    /\ dropped' = dropped \cup Swept
    /\ calls' = [calls EXCEPT ![c] =
                   IF @.op = "look" THEN Idle ELSE [@ EXCEPT !.at = "open"]]
    /\ UNCHANGED <<records, failed, load, disk, packed, expired, trees,
                   failures, crashes, lost, tangled>>

Fresh == {e \in Exports : /\ records[e] = "none"
                          /\ rows[e] = "none"
                          /\ \A i \in DOMAIN packed : packed[i] # e
                          /\ \A c \in Calls : calls[c].export # e
                          /\ e \notin lost \cup tangled}

Open(c, e) ==
    /\ At(c, "open")
    /\ e \in Fresh
    /\ records' = [records EXCEPT ![e] = "running"]
    /\ writes' = writes \o Save(e, "running")
    /\ calls' = [calls EXCEPT ![c].at = "revision", ![c].export = e,
                              ![c].attached = TRUE]
    /\ UNCHANGED <<archives, bytes, failed, load, disk, packed, expired,
                   trees, failures, crashes, past>>

\* the project is not there, or no such export: nothing changes
Refuse(c) ==
    /\ \/ At(c, "open")
       \/ At(c, "handler") /\ calls[c].op = "discard"
    /\ Flush(c, calls[c], writes)
    /\ UNCHANGED <<memory, disk, packed, expired, trees, failures, crashes,
                   past>>

\* readConsistently, one await at a time
ReadRevision(c) ==
    /\ At(c, "revision")
    /\ calls' = [calls EXCEPT ![c].at = "list", ![c].revision = revision]
    /\ UNCHANGED <<memory, disk, packed, expired, trees, failures, crashes,
                   past>>

List(c) ==
    /\ At(c, "list")
    /\ calls' = [calls EXCEPT ![c].at = "read", ![c].listed = Listing(tree)]
    /\ UNCHANGED <<memory, disk, packed, expired, trees, failures, crashes,
                   past>>

Unread(c) == DOMAIN calls[c].listed \ DOMAIN calls[c].content

\* content 0: the file could not be read
ReadFile(c, f) ==
    /\ At(c, "read")
    /\ f \in Unread(c)
    /\ tree[f] \in {0, calls[c].listed[f]}
    /\ calls' = [calls EXCEPT ![c].content =
                   [g \in DOMAIN @ \cup {f} |-> IF g = f THEN tree[f] ELSE @[g]]]
    /\ UNCHANGED <<memory, disk, packed, expired, trees, failures, crashes,
                   past>>

AnyRevision(c) == TRUE

\* the last two checks of a read: the revision, then the tree
SameRevision(c) == revision = calls[c].revision
SameTree(c) == Listing(tree) = calls[c].listed

CheckRevision(c) ==
    /\ At(c, "read")
    /\ Unread(c) = {}
    /\ SameRevision(c)
    /\ calls' = [calls EXCEPT ![c].at = "relist"]
    /\ UNCHANGED <<memory, disk, packed, expired, trees, failures, crashes,
                   past>>

Changed(c) ==
    \/ /\ At(c, "read")
       /\ \E f \in Unread(c) : tree[f] \notin {0, calls[c].listed[f]}
    \/ At(c, "read") /\ Unread(c) = {} /\ ~SameRevision(c)
    \/ At(c, "relist") /\ ~SameTree(c)

Retry(c) ==
    /\ Changed(c)
    /\ calls[c].tries + 1 < MaxReads
    /\ calls' = [calls EXCEPT ![c].at = "revision", ![c].tries = @ + 1,
                   ![c].revision = 0, ![c].listed = <<>>, ![c].content = <<>>]
    /\ UNCHANGED <<memory, disk, packed, expired, trees, failures, crashes,
                   past>>

\* record.view is set; the map still holds the record unless it was discarded
Settle(c, status) ==
    records' = IF calls[c].attached
                 THEN [records EXCEPT ![calls[c].export] = status]
                 ELSE records

GivesUp(c) ==
    \/ Changed(c) /\ calls[c].tries + 1 = MaxReads
    \/ /\ At(c, "relist") /\ SameTree(c)
       /\ \A f \in DOMAIN calls[c].content : calls[c].content[f] = 0

GiveUp(c) ==
    /\ GivesUp(c)
    /\ Settle(c, "failed")
    /\ writes' = writes \o Save(calls[c].export, "failed")
    /\ Flush(c, calls[c], writes')
    /\ UNCHANGED <<archives, bytes, failed, load, disk, packed, expired,
                   trees, failures, crashes, past>>

\* the limit counted after the archive instead of before
SurplusLate ==
    {e \in archives : Cardinality(ListedAfter(e)) >= MaxArchives}

\* enforcePerOwnerLimit: all but the last MaxArchives - 1
Surplus ==
    {e \in archives : Cardinality(ListedAfter(e)) >= MaxArchives - 1}

\* the row first
PackingRowFirst(e, order) ==
    DeleteObjects(order) \o Save(e, "ready") \o PutObject(e)

\* what the end of a creation queues, in this order
Packing(e, order) == DeleteObjects(order) \o PutObject(e) \o Save(e, "ready")

Pack(c) ==
    LET e == calls[c].export IN
    /\ At(c, "relist")
    /\ SameTree(c)
    /\ ~GivesUp(c)
    /\ archives' = (archives \ Surplus) \cup {e}
    /\ bytes' = (bytes \ Surplus) \cup {e}
    /\ packed' = Append(packed, e)
    /\ dropped' = dropped \cup Surplus
    /\ Settle(c, "ready")
    /\ \E order \in Orders(Surplus) : writes' = writes \o Packing(e, order)
    /\ Flush(c, calls[c], writes')
    /\ UNCHANGED <<failed, load, disk, expired, trees, failures, crashes,
                   lost, tangled>>

\* e is being made, or the owner's rows are being loaded
Underway(e) ==
    \/ load = "loading"
    \/ \E c \in Calls : /\ calls[c].export = e
                       /\ calls[c].at \in {"revision", "list", "read", "relist"}

\* the archive's deletion without the row's
DiscardingArchive(e) ==
    IF e \in archives THEN DeleteObjects(<<e>>) ELSE <<>>

Discarding(e) ==
    (IF e \in archives THEN DeleteObjects(<<e>>) ELSE <<>>) \o DeleteRow(e)

Discard(c, e) ==
    /\ At(c, "handler")
    /\ calls[c].op = "discard"
    /\ records[e] # "none"
    /\ archives' = archives \ {e}
    /\ bytes' = bytes \ {e}
    /\ records' = [records EXCEPT ![e] = "none"]
    /\ writes' = writes \o Discarding(e)
    /\ calls' = [d \in Calls |->
         IF d = c
           THEN [Idle EXCEPT !.op = "discard", !.at = "flush", !.export = e,
                             !.wait = Len(writes')]
           ELSE [calls[d] EXCEPT !.attached = @ /\ calls[d].export # e]]
    /\ dropped' = dropped \cup {e}
    /\ tangled' = IF Underway(e) THEN tangled \cup {e} ELSE tangled
    /\ UNCHANGED <<failed, load, disk, packed, expired, trees, failures,
                   crashes, lost>>

(***************************************************************************)
(* The queue's worker, and the answer that waited for it.                  *)
(***************************************************************************)
Done(w) ==
    /\ rows' = IF w.kind \in {"save", "deleteRow"}
                 THEN [rows EXCEPT ![w.export] = w.status] ELSE rows
    /\ files' = CASE w.kind = "putObject" -> files \cup {w.export}
                  [] w.kind = "deleteObject" /\ w.export \in objects ->
                       files \ {w.export}
                  [] OTHER -> files
    /\ objects' = CASE w.kind = "putObject" -> objects \cup {w.export}
                    [] w.kind = "deleteObject" -> objects \ {w.export}
                    [] OTHER -> objects

Advance ==
    /\ writes # <<>>
    /\ writes' = Tail(writes)
    /\ calls' = [c \in Calls |->
         [calls[c] EXCEPT !.wait = IF @ = 0 THEN 0 ELSE @ - 1]]
    /\ UNCHANGED <<records, archives, bytes, load, packed, expired, trees,
                   crashes, dropped, tangled>>

Write ==
    /\ Advance
    /\ Done(Head(writes))
    /\ UNCHANGED <<failed, failures, lost>>

\* the file of a put may be on the disk although its row is not
WriteFails ==
    /\ Eventful
    /\ Advance
    /\ failed' = TRUE
    /\ failures' = failures + 1
    /\ lost' = lost \cup {Head(writes).export}
    /\ files' \in IF Head(writes).kind = "putObject"
                    THEN {files, files \cup {Head(writes).export}}
                    ELSE {files}
    /\ UNCHANGED <<rows, objects>>

\* a failure is reported once, to whoever flushes first
Answer(c) ==
    /\ At(c, "flush")
    /\ calls[c].wait = 0
    /\ failed' = FALSE
    /\ calls' = [calls EXCEPT ![c] = Idle]
    /\ UNCHANGED <<records, archives, bytes, writes, load, disk, packed,
                   expired, trees, failures, crashes, past>>

(***************************************************************************)
(* What happens around them.                                               *)
(***************************************************************************)
Edit(f) ==
    /\ Eventful
    /\ \E to \in {0, revision + 1} :
         /\ to # tree[f]
         /\ trees' = Append(trees, [tree EXCEPT ![f] = to])
    /\ UNCHANGED <<memory, disk, packed, expired, calls, failures, crashes,
                   past>>

Expire ==
    /\ expired < Len(packed)
    /\ Eventful
    /\ expired' = expired + 1
    /\ UNCHANGED <<memory, disk, packed, trees, calls, failures, crashes,
                   past>>

Crash ==
    /\ Eventful
    /\ crashes' = crashes + 1
    /\ records' = [e \in Exports |-> "none"]
    /\ archives' = {}
    /\ bytes' = {}
    /\ writes' = <<>>
    /\ failed' = FALSE
    /\ load' = "none"
    /\ calls' = [c \in Calls |-> Idle]
    /\ UNCHANGED <<disk, packed, expired, trees, failures, past>>

Init ==
    /\ records = [e \in Exports |-> "none"]
    /\ archives = {}
    /\ bytes = {}
    /\ writes = <<>>
    /\ failed = FALSE
    /\ load = "none"
    /\ rows = [e \in Exports |-> "none"]
    /\ files = {}
    /\ objects = {}
    /\ packed = <<>>
    /\ expired = 0
    /\ trees = <<[f \in Files |-> 1]>>
    /\ calls = [c \in Calls |-> Idle]
    /\ failures = 0
    /\ crashes = 0
    /\ lost = {}
    /\ dropped = {}
    /\ tangled = {}

Handle(c) ==
    \/ \E op \in {"create", "discard", "look"} : Arrive(c, op)
    \/ LoadRows(c) \/ LoadFails(c) \/ Hydrate(c)
    \/ Sweep(c) \/ Refuse(c)
    \/ \E e \in Exports : Open(c, e) \/ Discard(c, e)
    \/ ReadRevision(c) \/ List(c) \/ CheckRevision(c)
    \/ \E f \in Files : ReadFile(c, f)
    \/ Retry(c) \/ GiveUp(c) \/ Pack(c)
    \/ Answer(c)

Next ==
    \/ \E c \in Calls : Handle(c)
    \/ Write \/ WriteFails
    \/ \E f \in Files : Edit(f)
    \/ Expire \/ Crash

Spec == Init /\ [][Next]_vars

-----------------------------------------------------------------------------
(* A mutating request that is not answered 503 is in the tables            *)
(* (server.ts:253, durable-state.ts:16): the row of an export that was     *)
(* made has its last status, the row of one that was discarded is gone.    *)
(* Excused are an export whose write failed and was reported to another    *)
(* request's flush, and one that was discarded while it was made.          *)
AnsweredIsStored ==
    [][\A c \in Calls :
        LET e == calls[c].export IN
        Answer(c) /\ ~failed /\ e \in Exports \ (lost \cup tangled) =>
            \/ calls[c].op = "discard" /\ rows[e] = "none"
            \/ /\ calls[c].op = "create"
               /\ IF calls[c].attached THEN rows[e] \in {"ready", "failed"}
                                       ELSE rows[e] \in {"none", "ready", "failed"}]_vars

(* "Files from two different revisions are never combined"                 *)
(* (consistency.ts:10): what is packed is the whole workspace as it was at *)
(* the revision the export reports.                                        *)
ArchivesAreOneRevision ==
    [][\A c \in Calls :
        Pack(c) => calls[c].content = Listing(trees[calls[c].revision])]_vars

(* A row never says ready before its archive is on the disk, wherever the  *)
(* process stops: what a restart lists as ready can be downloaded, unless  *)
(* the archive was evicted, expired or discarded, or its put failed.       *)
ReadyRowsHaveTheirArchive ==
    \A e \in Exports \ (lost \cup dropped) : rows[e] = "ready" => e \in files

(* When nothing is queued and no request is underway, the mirror and the   *)
(* table agree on every export, unless the load failed, a write failed, or *)
(* the export was discarded while it was made or loaded.                   *)
QuietMirrorMatches ==
    (/\ load = "done"
     /\ writes = <<>>
     /\ \A c \in Calls : At(c, "idle")) =>
        \A e \in Exports \ (lost \cup tangled) : records[e] = rows[e]

(* The per-owner limit bounds what is on the disk, not only what the       *)
(* mirror counts.  It starts again with each process: until the rows are   *)
(* loaded, or when loading failed, what an earlier process left is not     *)
(* counted against it (prepare marks the owner loaded before its first     *)
(* query), and what a crash cut off before its row said ready never is.    *)
ArchivesAreBounded ==
    Cardinality(files \ lost) <= MaxArchives * (1 + crashes)
=============================================================================
