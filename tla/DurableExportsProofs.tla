------------------------ MODULE DurableExportsProofs -------------------------
(***************************************************************************)
(* For any number of requests, exports and files, whatever fails and       *)
(* wherever the process stops: an archive holds the files of one revision, *)
(* a row says ready only when its archive is on the disk, the disk holds   *)
(* at most the limit for each process there was, and what is answered to a *)
(* quiet server is what the rows say.                                      *)
(***************************************************************************)
EXTENDS DurableExports, FiniteSetTheorems, TLAPS

Kinds == {"save", "deleteRow", "putObject", "deleteObject"}
Writes == [kind: Kinds, export: Exports, status: Statuses]

Making == {"revision", "list", "read", "relist"}
Stages == {"idle", "loading", "loaded", "handler", "open", "flush"} \cup Making

Listings == UNION {[S -> Nat] : S \in SUBSET Files}

CallRecords ==
    [op: {"none", "create", "discard", "look"}, at: Stages,
     export: Exports \cup {NoExport}, attached: BOOLEAN, wait: Nat, tries: Nat,
     revision: Nat, listed: Listings, content: Listings, seeds: Rows \cup {<<>>}]

QueueTypes ==
    /\ writes \in Seq(Writes)
    /\ rows \in Rows
    /\ archives \in SUBSET Exports

CallTypes ==
    /\ calls \in [Calls -> CallRecords]
    /\ trees \in Seq([Files -> Nat]) /\ trees # <<>>

(***************************************************************************)
(* A call's read of the workspace, against the revisions there were.       *)
(***************************************************************************)
\* what was read so far is right if the revision has not moved
ReadsOne(r, ts) ==
    /\ DOMAIN r.content \subseteq DOMAIN r.listed
    /\ r.revision = Len(ts) =>
         /\ r.listed = Listing(ts[r.revision])
         /\ \A f \in DOMAIN r.content : r.content[f] = r.listed[f]

Sound(r, ts) ==
    /\ r.at \in Making => r.export \in Exports
    /\ r.at \in {"list", "read", "relist"} => r.revision \in 1 .. Len(ts)
    /\ r.at \notin {"read", "relist"} => DOMAIN r.content = {}
    /\ r.at = "read" => ReadsOne(r, ts)
    /\ r.at = "relist" => r.content = Listing(ts[r.revision])

ReadsAreSound == \A c \in Calls : Sound(calls[c], trees)

(***************************************************************************)
(* The queue: a row is marked ready behind the write of its archive, and   *)
(* only what was dropped is deleted.                                       *)
(***************************************************************************)
MarksReady(w) == w.kind \in {"save", "deleteRow"} /\ w.status = "ready"
Stores(w, e) == w.kind = "putObject" /\ w.export = e

Excused == lost \cup dropped

RowsAreBacked == \A e \in Exports \ Excused : rows[e] = "ready" => e \in files

SavesAreBacked ==
    \A i \in 1 .. Len(writes) :
        MarksReady(writes[i]) /\ writes[i].export \notin Excused =>
            \/ writes[i].export \in files
            \/ \E j \in 1 .. (i - 1) : Stores(writes[j], writes[i].export)

OnlyDroppedAreDeleted ==
    \A i \in 1 .. Len(writes) :
        writes[i].kind = "deleteObject" => writes[i].export \in dropped

QueueIsSafe == RowsAreBacked /\ SavesAreBacked /\ OnlyDroppedAreDeleted

IInv == QueueTypes /\ QueueIsSafe /\ CallTypes /\ ReadsAreSound

\* what may be queued at once, when the archives in gone are dropped
SafeBatch(batch, gone) ==
    \A i \in 1 .. Len(batch) :
        /\ MarksReady(batch[i]) =>
             \E j \in 1 .. (i - 1) : Stores(batch[j], batch[i].export)
        /\ batch[i].kind = "deleteObject" => batch[i].export \in gone

-----------------------------------------------------------------------------
(* Records and batches.                                                    *)

LEMMA EmptyListing == <<>> \in Listings /\ DOMAIN <<>> = {}
<1>1. <<>> \in [{} -> Nat] /\ DOMAIN <<>> = {}
  OBVIOUS
<1>2. QED BY <1>1 DEF Listings

LEMMA IdleCall ==
    /\ Idle \in CallRecords /\ Idle.at = "idle" /\ DOMAIN Idle.content = {}
BY EmptyListing DEF Idle, CallRecords, Stages

LEMMA ListingTypes ==
    ASSUME NEW t \in [Files -> Nat]
    PROVE  Listing(t) \in Listings /\ DOMAIN Listing(t) = Present(t)
<1>1. Listing(t) \in [Present(t) -> Nat] /\ Present(t) \in SUBSET Files
  BY DEF Listing, Present
<1>2. QED BY <1>1 DEF Listings

LEMMA SaveBatch ==
    ASSUME NEW e \in Exports, NEW status \in Statuses, NEW gone
    PROVE  /\ Save(e, status) \in Seq(Writes)
           /\ status # "ready" => SafeBatch(Save(e, status), gone)
BY DEF Save, Writes, Kinds, SafeBatch, MarksReady

LEMMA DeletionBatch ==
    ASSUME NEW es \in SUBSET Exports, NEW order \in Orders(es), NEW gone, es \subseteq gone
    PROVE  /\ DeleteObjects(order) \in Seq(Writes)
           /\ SafeBatch(DeleteObjects(order), gone)
           /\ \A i \in 1 .. Len(DeleteObjects(order)) :
                DeleteObjects(order)[i].kind = "deleteObject"
<1>1. IsFiniteSet(es)
  BY ExportsAssumption, FS_Subset
<1> DEFINE n == Cardinality(es)
<1>2. n \in Nat /\ order \in [1 .. n -> es]
  BY <1>1, FS_CardinalityType DEF Orders
<1> HIDE DEF n
<1> DEFINE batch == [i \in 1 .. n |->
                       [kind |-> "deleteObject", export |-> order[i], status |-> "none"]]
<1>3. DeleteObjects(order) = batch
  BY <1>2 DEF DeleteObjects
<1>4. \A i \in 1 .. n : /\ batch[i] \in Writes
                        /\ batch[i].kind = "deleteObject" /\ batch[i].export \in es
  BY <1>2 DEF Writes, Kinds, Statuses
<1>5. batch \in Seq(Writes) /\ Len(batch) = n
  BY <1>2, <1>4
<1> HIDE DEF batch
<1>6. SafeBatch(batch, gone)
  BY <1>2, <1>4, <1>5 DEF SafeBatch, MarksReady
<1>7. QED BY <1>3, <1>4, <1>5, <1>6

\* the archive's write comes before the row's
LEMMA PackingBatch ==
    ASSUME NEW es \in SUBSET Exports, NEW order \in Orders(es), NEW gone, es \subseteq gone,
           NEW e \in Exports
    PROVE  Packing(e, order) \in Seq(Writes) /\ SafeBatch(Packing(e, order), gone)
<1> DEFINE deletions == DeleteObjects(order)
           put == [kind |-> "putObject", export |-> e, status |-> "none"]
           save == [kind |-> "save", export |-> e, status |-> "ready"]
           n == Len(deletions)
<1>1. /\ deletions \in Seq(Writes) /\ SafeBatch(deletions, gone) /\ n \in Nat
      /\ put \in Writes /\ save \in Writes
  <2>1. deletions \in Seq(Writes) /\ SafeBatch(deletions, gone)
    BY DeletionBatch
  <2>2. put \in Writes /\ save \in Writes
    BY DEF Writes, Kinds, Statuses
  <2> HIDE DEF deletions
  <2>3. QED BY <2>1, <2>2
<1>2. /\ ~MarksReady(put) /\ put.kind # "deleteObject" /\ save.kind # "deleteObject"
      /\ save.export = e /\ Stores(put, e)
  BY DEF MarksReady, Stores
<1>3. Packing(e, order) = deletions \o <<put>> \o <<save>>
  BY DEF Packing, PutObject, Save
<1> HIDE DEF deletions, put, save
<1> DEFINE batch == deletions \o <<put>> \o <<save>>
<1>4. /\ batch \in Seq(Writes) /\ Len(batch) = n + 2
      /\ \A i \in 1 .. n : batch[i] = deletions[i]
      /\ batch[n + 1] = put /\ batch[n + 2] = save
  BY <1>1
<1> HIDE DEF batch
<1>5. SafeBatch(batch, gone)
  <2> SUFFICES ASSUME NEW i \in 1 .. Len(batch)
               PROVE  /\ MarksReady(batch[i]) =>
                           \E j \in 1 .. (i - 1) : Stores(batch[j], batch[i].export)
                      /\ batch[i].kind = "deleteObject" => batch[i].export \in gone
    BY DEF SafeBatch
  <2> HIDE DEF n
  <2>1. CASE i \in 1 .. n
    <3>1. /\ MarksReady(deletions[i]) =>
               \E j \in 1 .. (i - 1) : Stores(deletions[j], deletions[i].export)
          /\ deletions[i].kind = "deleteObject" => deletions[i].export \in gone
      BY <1>1, <2>1 DEF SafeBatch, n
    <3>2. \A j \in 1 .. (i - 1) : batch[j] = deletions[j]
      BY <1>1, <1>4, <2>1
    <3>3. QED BY <1>4, <2>1, <3>1, <3>2
  <2>2. CASE i = n + 1
    BY <1>2, <1>4, <2>2
  <2>3. CASE i = n + 2
    <3>1. n + 1 \in 1 .. (i - 1)
      BY <1>1, <2>3
    <3>2. QED BY <1>2, <1>4, <2>3, <3>1
  <2>4. QED BY <1>1, <1>4, <2>1, <2>2, <2>3
<1>6. QED BY <1>3, <1>4, <1>5 DEF batch

LEMMA DiscardingBatch ==
    ASSUME NEW e \in Exports, NEW gone, e \in gone
    PROVE  Discarding(e) \in Seq(Writes) /\ SafeBatch(Discarding(e), gone)
<1> DEFINE object == [kind |-> "deleteObject", export |-> e, status |-> "none"]
           row == [kind |-> "deleteRow", export |-> e, status |-> "none"]
<1>1. object \in Writes /\ row \in Writes
  BY DEF Writes, Kinds, Statuses
<1>2. /\ ~MarksReady(object) /\ ~MarksReady(row)
      /\ object.export = e /\ row.kind # "deleteObject"
  BY DEF MarksReady
<1>3. DeleteObjects(<<e>>) = <<object>>
  BY DEF DeleteObjects
<1> DEFINE archived == <<object>> \o <<row>>
<1>4. Discarding(e) \in {archived, <<>> \o <<row>>}
  BY <1>3 DEF Discarding, DeleteRow
<1> HIDE DEF object, row
<1>5. /\ archived \in Seq(Writes) /\ Len(archived) = 2
      /\ archived[1] = object /\ archived[2] = row
  BY <1>1
<1>6. <<>> \o <<row>> \in Seq(Writes) /\ <<>> \o <<row>> = <<row>>
  BY <1>1
<1> HIDE DEF archived
<1>7. SafeBatch(archived, gone) /\ SafeBatch(<<row>>, gone)
  BY <1>2, <1>5 DEF SafeBatch
<1>8. QED BY <1>4, <1>5, <1>6, <1>7

-----------------------------------------------------------------------------
(* The queue.                                                              *)

LEMMA QueueGrows ==
    ASSUME QueueTypes, QueueIsSafe, NEW batch \in Seq(Writes),
           writes' = writes \o batch, SafeBatch(batch, dropped'),
           dropped \subseteq dropped', UNCHANGED <<rows, files, lost>>
    PROVE  QueueIsSafe' /\ writes' \in Seq(Writes)
<1> DEFINE n == Len(writes)
<1>1. /\ writes' \in Seq(Writes) /\ Len(writes') = n + Len(batch)
      /\ n \in Nat /\ Len(batch) \in Nat
      /\ \A i \in 1 .. n : writes'[i] = writes[i]
      /\ \A i \in 1 .. Len(batch) : writes'[n + i] = batch[i]
  BY DEF QueueTypes
<1> HIDE DEF n
<1>2. Excused \subseteq Excused'
  BY DEF Excused
<1>3. RowsAreBacked'
  BY <1>2 DEF QueueIsSafe, RowsAreBacked
<1>4. SavesAreBacked' /\ OnlyDroppedAreDeleted'
  <2> SUFFICES ASSUME NEW i \in 1 .. Len(writes')
               PROVE  /\ MarksReady(writes'[i]) /\ writes'[i].export \notin Excused' =>
                           \/ writes'[i].export \in files
                           \/ \E j \in 1 .. (i - 1) : Stores(writes'[j], writes'[i].export)
                      /\ writes'[i].kind = "deleteObject" => writes'[i].export \in dropped'
    BY DEF SavesAreBacked, OnlyDroppedAreDeleted, MarksReady, Stores
  <2>1. CASE i \in 1 .. n
    <3>1. \A j \in 1 .. (i - 1) : writes'[j] = writes[j]
      BY <1>1, <2>1
    <3>2. QED BY <1>1, <1>2, <2>1, <3>1
          DEF QueueIsSafe, SavesAreBacked, OnlyDroppedAreDeleted, n
  <2>2. CASE i \notin 1 .. n
    <3> DEFINE k == i - n
    <3>1. k \in 1 .. Len(batch) /\ i = n + k /\ writes'[i] = batch[k]
      BY <1>1, <2>2
    <3> HIDE DEF k
    <3>2. ASSUME MarksReady(batch[k])
          PROVE  \E j \in 1 .. (i - 1) : Stores(writes'[j], batch[k].export)
      <4>1. PICK j \in 1 .. (k - 1) : Stores(batch[j], batch[k].export)
        BY <3>1, <3>2 DEF SafeBatch
      <4>2. j \in 1 .. Len(batch) /\ n + j \in 1 .. (i - 1)
        <5>1. n \in Nat /\ Len(batch) \in Nat
          BY <1>1
        <5>2. k \in 1 .. Len(batch) /\ i = n + k
          BY <3>1
        <5>3. j \in 1 .. (k - 1)
          BY <4>1
        <5>4. QED BY <5>1, <5>2, <5>3
      <4>3. writes'[n + j] = batch[j]
        BY <1>1, <4>2
      <4>4. QED BY <4>1, <4>2, <4>3
    <3>3. QED BY <3>1, <3>2 DEF SafeBatch
  <2>3. QED BY <2>1, <2>2
<1>5. QED BY <1>1, <1>3, <1>4 DEF QueueIsSafe

LEMMA QueueStays ==
    ASSUME QueueTypes, QueueIsSafe, UNCHANGED <<writes, rows, files, lost, dropped>>
    PROVE  QueueIsSafe' /\ writes' \in Seq(Writes)
BY DEF QueueTypes, QueueIsSafe, RowsAreBacked, SavesAreBacked, OnlyDroppedAreDeleted, Excused

LEMMA QueueAlone ==
    ASSUME IInv, UNCHANGED <<writes, rows, files, lost, dropped>>,
           archives' \in SUBSET Exports
    PROVE  QueueTypes' /\ QueueIsSafe'
BY QueueStays DEF IInv, QueueTypes

LEMMA QueueBatch ==
    ASSUME IInv, NEW batch \in Seq(Writes), writes' = writes \o batch,
           SafeBatch(batch, dropped'), dropped \subseteq dropped',
           UNCHANGED <<rows, files, lost>>, archives' \in SUBSET Exports
    PROVE  QueueTypes' /\ QueueIsSafe'
BY QueueGrows DEF IInv, QueueTypes

LEMMA MakingExports ==
    ASSUME IInv, NEW c \in Calls
    PROVE  /\ calls[c] \in CallRecords
           /\ Sound(calls[c], trees)
           /\ calls[c].at \in Making => calls[c].export \in Exports
BY DEF IInv, CallTypes, ReadsAreSound, Sound

LEMMA SweepQueue ==
    ASSUME IInv, NEW c \in Calls, Sweep(c) PROVE QueueTypes' /\ QueueIsSafe'
<1>1. PICK order \in Orders(Swept) : writes' = writes \o DeleteObjects(order)
  BY DEF Sweep
<1>2. Swept \in SUBSET Exports
  BY DEF Swept
<1>3. /\ dropped' = dropped \cup Swept /\ archives' = archives \ Swept
      /\ UNCHANGED <<rows, files, lost>>
  BY DEF Sweep, disk
<1>4. archives' \in SUBSET Exports
  BY <1>3 DEF IInv, QueueTypes
<1>5. /\ DeleteObjects(order) \in Seq(Writes)
      /\ SafeBatch(DeleteObjects(order), dropped')
  BY <1>2, <1>3, DeletionBatch
<1>6. QED BY <1>1, <1>3, <1>4, <1>5, QueueBatch

LEMMA OpenQueue ==
    ASSUME IInv, NEW c \in Calls, NEW e \in Exports, Open(c, e)
    PROVE  QueueTypes' /\ QueueIsSafe'
<1> DEFINE batch == Save(e, "running")
<1>1. /\ writes' = writes \o batch
      /\ UNCHANGED <<rows, files, lost, dropped, archives>>
  BY DEF Open, disk, past
<1>2. batch \in Seq(Writes) /\ SafeBatch(batch, dropped')
  BY SaveBatch DEF Statuses
<1>3. archives' \in SUBSET Exports
  BY <1>1 DEF IInv, QueueTypes
<1> HIDE DEF batch
<1>4. QED BY <1>1, <1>2, <1>3, QueueBatch

LEMMA GiveUpQueue ==
    ASSUME IInv, NEW c \in Calls, GiveUp(c) PROVE QueueTypes' /\ QueueIsSafe'
<1> DEFINE e == calls[c].export
           batch == Save(e, "failed")
<1>1. /\ writes' = writes \o batch
      /\ UNCHANGED <<rows, files, lost, dropped, archives>>
  BY DEF GiveUp, disk, past
<1>2. e \in Exports
  BY MakingExports DEF GiveUp, GivesUp, Changed, At, Making
<1> HIDE DEF e
<1>3. batch \in Seq(Writes) /\ SafeBatch(batch, dropped')
  BY <1>2, SaveBatch DEF Statuses
<1>4. archives' \in SUBSET Exports
  BY <1>1 DEF IInv, QueueTypes
<1> HIDE DEF batch
<1>5. QED BY <1>1, <1>3, <1>4, QueueBatch

LEMMA PackQueue ==
    ASSUME IInv, NEW c \in Calls, Pack(c) PROVE QueueTypes' /\ QueueIsSafe'
<1> DEFINE e == calls[c].export
<1>1. PICK order \in Orders(Surplus) : writes' = writes \o Packing(e, order)
  BY DEF Pack
<1>2. e \in Exports
  BY MakingExports DEF Pack, At, Making
<1>3. /\ dropped' = dropped \cup Surplus /\ archives' = (archives \ Surplus) \cup {e}
      /\ UNCHANGED <<rows, files, lost>>
  BY DEF Pack, disk
<1> HIDE DEF e
<1>4. Surplus \in SUBSET Exports /\ archives' \in SUBSET Exports
  BY <1>2, <1>3 DEF IInv, QueueTypes, Surplus
<1>5. /\ Packing(e, order) \in Seq(Writes)
      /\ SafeBatch(Packing(e, order), dropped')
  BY <1>2, <1>3, <1>4, PackingBatch
<1>6. QED BY <1>1, <1>3, <1>4, <1>5, QueueBatch

LEMMA DiscardQueue ==
    ASSUME IInv, NEW c \in Calls, NEW e \in Exports, Discard(c, e)
    PROVE  QueueTypes' /\ QueueIsSafe'
<1>1. /\ writes' = writes \o Discarding(e)
      /\ dropped' = dropped \cup {e} /\ archives' = archives \ {e}
      /\ UNCHANGED <<rows, files, lost>>
  BY DEF Discard, disk
<1>2. archives' \in SUBSET Exports
  BY <1>1 DEF IInv, QueueTypes
<1>3. Discarding(e) \in Seq(Writes) /\ SafeBatch(Discarding(e), dropped')
  BY <1>1, DiscardingBatch
<1>4. QED BY <1>1, <1>2, <1>3, QueueBatch

\* the head of the queue is done, or it failed
LEMMA QueueAdvances ==
    ASSUME IInv, writes # <<>>, writes' = Tail(writes),
           UNCHANGED <<archives, dropped>>, lost \subseteq lost', rows' \in Rows,
           \A e \in Exports :
              /\ Stores(Head(writes), e) => e \in files' \cup lost'
              /\ e \in files => e \in files' \/ e \in dropped
              /\ rows'[e] = "ready" =>
                   rows[e] = "ready" \/ (MarksReady(Head(writes)) /\ Head(writes).export = e)
    PROVE  QueueTypes' /\ QueueIsSafe'
<1> DEFINE w == Head(writes)
<1> USE DEF IInv
<1>1. /\ writes' \in Seq(Writes) /\ Len(writes) \in Nat /\ Len(writes) >= 1
      /\ Len(writes') = Len(writes) - 1
      /\ w = writes[1] /\ w \in Writes
      /\ \A i \in 1 .. Len(writes') : writes'[i] = writes[i + 1] /\ writes'[i] \in Writes
  BY DEF QueueTypes
<1> HIDE DEF w
<1>2. QueueTypes'
  BY <1>1 DEF QueueTypes
<1>3. Excused \subseteq Excused'
  BY DEF Excused
<1>4. \A e \in Exports \ Excused' : e \in files => e \in files'
  BY DEF Excused
<1>5. RowsAreBacked'
  <2> SUFFICES ASSUME NEW e \in Exports \ Excused', rows'[e] = "ready"
               PROVE  e \in files'
    BY DEF RowsAreBacked
  <2>1. CASE rows[e] = "ready"
    BY <1>3, <1>4, <2>1 DEF QueueIsSafe, RowsAreBacked
  <2>2. CASE MarksReady(w) /\ w.export = e
    <3>1. e \in files \/ \E j \in 1 .. (1 - 1) : Stores(writes[j], e)
      BY <1>1, <1>3, <2>2 DEF QueueIsSafe, SavesAreBacked
    <3>2. QED BY <1>4, <3>1
  <2>3. QED BY <2>1, <2>2 DEF w
<1>6. SavesAreBacked'
  <2> SUFFICES ASSUME NEW i \in 1 .. Len(writes'),
                      MarksReady(writes'[i]), writes'[i].export \notin Excused'
               PROVE  \/ writes'[i].export \in files'
                      \/ \E j \in 1 .. (i - 1) : Stores(writes'[j], writes'[i].export)
    BY DEF SavesAreBacked, MarksReady, Stores
  <2> DEFINE e == writes'[i].export
  <2>1. i + 1 \in 1 .. Len(writes) /\ writes'[i] = writes[i + 1] /\ e \in Exports
    BY <1>1 DEF Writes
  <2>2. e \in files \/ \E j \in 1 .. i : Stores(writes[j], e)
    <3>1. \/ writes[i + 1].export \in files
          \/ \E j \in 1 .. ((i + 1) - 1) : Stores(writes[j], writes[i + 1].export)
      BY <1>3, <2>1 DEF QueueIsSafe, SavesAreBacked
    <3>2. QED BY <2>1, <3>1
  <2> HIDE DEF e
  <2>3. CASE e \in files
    BY <1>4, <2>1, <2>3 DEF e
  <2>4. ASSUME NEW j \in 1 .. i, Stores(writes[j], e)
        PROVE  e \in files' \/ \E k \in 1 .. (i - 1) : Stores(writes'[k], e)
    <3>1. CASE j = 1
      <4>1. Stores(Head(writes), e)
        BY <1>1, <2>4, <3>1 DEF w
      <4>2. e \in files' \cup lost' /\ e \notin lost'
        <5>1. e \in Exports /\ e \notin Excused'
          BY <2>1 DEF e
        <5>2. QED BY <4>1, <5>1 DEF Excused
      <4>3. QED BY <4>2
    <3>2. CASE j # 1
      <4>1. PICK k \in 1 .. (i - 1) : j = k + 1 /\ k \in 1 .. Len(writes')
        <5>1. /\ j - 1 \in 1 .. (i - 1) /\ j = (j - 1) + 1
              /\ j - 1 \in 1 .. Len(writes')
          BY <1>1, <2>4, <3>2
        <5>2. QED BY <5>1
      <4>2. writes'[k] = writes[j]
        BY <1>1, <4>1
      <4>3. Stores(writes'[k], e)
        BY <2>4, <4>2
      <4>4. QED BY <4>3
    <3>3. QED BY <3>1, <3>2
  <2>5. QED BY <2>2, <2>3, <2>4 DEF e
<1>7. OnlyDroppedAreDeleted'
  BY <1>1 DEF QueueIsSafe, OnlyDroppedAreDeleted
<1>8. QED BY <1>2, <1>5, <1>6, <1>7 DEF QueueIsSafe

LEMMA WriteQueue ==
    ASSUME IInv, Write PROVE QueueTypes' /\ QueueIsSafe'
<1> DEFINE w == Head(writes)
<1>1. /\ writes # <<>> /\ writes' = Tail(writes)
      /\ UNCHANGED <<archives, dropped, lost>>
      /\ Done(w)
  BY DEF Write, Advance
<1>2. w \in Writes /\ w = writes[1] /\ 1 \in 1 .. Len(writes)
  BY <1>1 DEF IInv, QueueTypes
<1>3. w.kind = "deleteObject" => w.export \in dropped
  BY <1>2 DEF IInv, QueueIsSafe, OnlyDroppedAreDeleted
<1> HIDE DEF w
<1>4. rows \in Rows /\ w.export \in Exports /\ w.status \in Statuses
  BY <1>2 DEF IInv, QueueTypes, Writes
<1>5. /\ rows' \in Rows
      /\ \A e \in Exports : rows'[e] = "ready" =>
           rows[e] = "ready" \/ (MarksReady(w) /\ w.export = e)
  BY <1>1, <1>4 DEF Done, Rows, MarksReady
<1>6. \A e \in Exports : /\ Stores(w, e) => e \in files'
                         /\ e \in files => e \in files' \/ e \in dropped
  BY <1>1, <1>3 DEF Done, Stores
<1>7. QED BY <1>1, <1>5, <1>6, QueueAdvances DEF w

LEMMA WriteFailsQueue ==
    ASSUME IInv, WriteFails PROVE QueueTypes' /\ QueueIsSafe'
<1>1. /\ writes # <<>> /\ writes' = Tail(writes)
      /\ UNCHANGED <<archives, dropped, rows>>
      /\ lost' = lost \cup {Head(writes).export}
      /\ files \subseteq files'
  BY DEF WriteFails, Advance
<1>2. rows' \in Rows
  BY <1>1 DEF IInv, QueueTypes
<1>3. \A e \in Exports : /\ Stores(Head(writes), e) => e \in lost'
                         /\ e \in files => e \in files'
                         /\ rows'[e] = "ready" => rows[e] = "ready"
  BY <1>1 DEF Stores
<1>4. QED BY <1>1, <1>2, <1>3, QueueAdvances

LEMMA CrashQueue ==
    ASSUME IInv, Crash PROVE QueueTypes' /\ QueueIsSafe'
<1>1. writes' = <<>> /\ archives' = {} /\ UNCHANGED <<rows, files, lost, dropped>>
  BY DEF Crash, disk, past
<1>2. writes' \in Seq(Writes) /\ Len(writes') = 0
  BY <1>1
<1>3. QED BY <1>1, <1>2
      DEF IInv, QueueTypes, QueueIsSafe, RowsAreBacked, SavesAreBacked,
          OnlyDroppedAreDeleted, Excused

LEMMA HydrateQueue ==
    ASSUME IInv, NEW c \in Calls, Hydrate(c) PROVE QueueTypes' /\ QueueIsSafe'
<1>1. UNCHANGED <<writes, rows, files, lost, dropped>>
  BY DEF Hydrate, disk, past
<1>2. archives' \in SUBSET Exports
  BY DEF Hydrate, IInv, QueueTypes
<1>3. QED BY <1>1, <1>2, QueueAlone

\* nothing of the queue is touched
LEMMA QuietQueue ==
    ASSUME IInv, UNCHANGED <<writes, archives>>, UNCHANGED disk, UNCHANGED past
    PROVE  QueueTypes' /\ QueueIsSafe'
<1>1. UNCHANGED <<rows, files, lost, dropped>>
  BY DEF disk, past
<1>2. archives' \in SUBSET Exports
  BY DEF IInv, QueueTypes
<1>3. QED BY <1>1, <1>2, QueueAlone

-----------------------------------------------------------------------------
(* The calls.                                                              *)

LEMMA CallMoves ==
    ASSUME IInv, NEW c \in Calls, NEW next \in CallRecords,
           calls' = [calls EXCEPT ![c] = next], Sound(next, trees),
           UNCHANGED trees
    PROVE  CallTypes' /\ ReadsAreSound'
<1>1. calls' \in [Calls -> CallRecords]
  BY DEF IInv, CallTypes
<1>2. \A d \in Calls : calls'[d] = IF d = c THEN next ELSE calls[d]
  BY DEF IInv, CallTypes
<1>3. QED BY <1>1, <1>2 DEF IInv, CallTypes, ReadsAreSound

\* before a read begins and after it ends, nothing is said of its contents
LEMMA CallRests ==
    ASSUME NEW r \in CallRecords, NEW ts, DOMAIN r.content = {},
           r.at \notin {"list", "read", "relist"},
           r.at \in Making => r.export \in Exports
    PROVE  Sound(r, ts)
BY DEF Sound

LEMMA FlushedCall ==
    ASSUME IInv, NEW c \in Calls, NEW queue \in Seq(Writes),
           Flush(c, calls[c], queue), UNCHANGED trees
    PROVE  CallTypes' /\ ReadsAreSound'
<1> DEFINE r == calls[c]
           next == [Idle EXCEPT !.op = r.op, !.at = "flush", !.export = r.export,
                                !.attached = r.attached, !.wait = Len(queue)]
<1>1. calls' = [calls EXCEPT ![c] = next]
  BY DEF Flush
<1>2. r \in CallRecords /\ Len(queue) \in Nat
  BY DEF IInv, CallTypes
<1> HIDE DEF r
<1>3. /\ next \in CallRecords /\ next.at = "flush" /\ DOMAIN next.content = {}
  <2>1. /\ r.op \in {"none", "create", "discard", "look"} /\ r.attached \in BOOLEAN
        /\ r.export \in Exports \cup {NoExport}
    BY <1>2 DEF CallRecords
  <2>2. Idle \in CallRecords /\ DOMAIN Idle.content = {}
    BY IdleCall
  <2>3. QED BY <1>2, <2>1, <2>2 DEF CallRecords, Stages
<1> HIDE DEF next
<1>4. Sound(next, trees)
  BY <1>3, CallRests DEF Making
<1>5. QED BY <1>1, <1>3, <1>4, CallMoves

LEMMA ArriveCalls ==
    ASSUME IInv, NEW c \in Calls, NEW op \in {"create", "discard", "look"},
           Arrive(c, op)
    PROVE  CallTypes' /\ ReadsAreSound'
<1> DEFINE r == calls[c]
           where == IF load = "none" THEN "loading" ELSE "handler"
           next == [r EXCEPT !.op = op, !.at = where]
<1>1. r \in CallRecords /\ Sound(r, trees) /\ r.at = "idle"
  BY DEF IInv, CallTypes, ReadsAreSound, Arrive, At
<1>2. calls' = [calls EXCEPT ![c] = next] /\ UNCHANGED trees
  BY DEF Arrive, IInv, CallTypes
<1> HIDE DEF r
<1>3. next \in CallRecords /\ next.at = where /\ next.content = r.content
  BY <1>1 DEF CallRecords, Stages
<1> HIDE DEF next
<1>4. Sound(next, trees)
  BY <1>1, <1>3, CallRests DEF Sound, Making
<1>5. QED BY <1>2, <1>3, <1>4, CallMoves

LEMMA LoadRowsCalls ==
    ASSUME IInv, NEW c \in Calls, LoadRows(c) PROVE CallTypes' /\ ReadsAreSound'
<1> DEFINE r == calls[c]
           next == [r EXCEPT !.at = "loaded", !.seeds = rows]
<1>1. r \in CallRecords /\ Sound(r, trees) /\ r.at = "loading" /\ rows \in Rows
  BY DEF IInv, CallTypes, ReadsAreSound, LoadRows, At, QueueTypes
<1>2. calls' = [calls EXCEPT ![c] = next] /\ UNCHANGED trees
  BY DEF LoadRows, IInv, CallTypes
<1> HIDE DEF r
<1>3. next \in CallRecords /\ next.at = "loaded" /\ next.content = r.content
  BY <1>1 DEF CallRecords, Stages
<1> HIDE DEF next
<1>4. Sound(next, trees)
  BY <1>1, <1>3, CallRests DEF Sound, Making
<1>5. QED BY <1>2, <1>3, <1>4, CallMoves

LEMMA IdleMoves ==
    ASSUME IInv, NEW c \in Calls, calls' = [calls EXCEPT ![c] = Idle],
           UNCHANGED trees
    PROVE  CallTypes' /\ ReadsAreSound'
<1>1. Idle \in CallRecords /\ Sound(Idle, trees)
  BY IdleCall, CallRests DEF Making
<1>2. QED BY <1>1, CallMoves

LEMMA LoadFailsCalls ==
    ASSUME IInv, NEW c \in Calls, LoadFails(c) PROVE CallTypes' /\ ReadsAreSound'
<1>1. UNCHANGED trees /\ writes \in Seq(Writes)
  BY DEF LoadFails, IInv, QueueTypes
<1>2. CASE calls[c].op = "look"
  BY <1>1, <1>2, IdleMoves DEF LoadFails
<1>3. CASE calls[c].op # "look"
  BY <1>1, <1>3, FlushedCall DEF LoadFails
<1>4. QED BY <1>2, <1>3

LEMMA HydrateCalls ==
    ASSUME IInv, NEW c \in Calls, Hydrate(c) PROVE CallTypes' /\ ReadsAreSound'
<1> DEFINE r == calls[c]
           next == [r EXCEPT !.at = "handler", !.seeds = <<>>]
<1>1. r \in CallRecords /\ Sound(r, trees) /\ r.at = "loaded"
  BY DEF IInv, CallTypes, ReadsAreSound, Hydrate, At
<1>2. calls' = [calls EXCEPT ![c] = next] /\ UNCHANGED trees
  BY DEF Hydrate, IInv, CallTypes
<1> HIDE DEF r
<1>3. next \in CallRecords /\ next.at = "handler" /\ next.content = r.content
  BY <1>1 DEF CallRecords, Stages
<1> HIDE DEF next
<1>4. Sound(next, trees)
  BY <1>1, <1>3, CallRests DEF Sound, Making
<1>5. QED BY <1>2, <1>3, <1>4, CallMoves

LEMMA SweepCalls ==
    ASSUME IInv, NEW c \in Calls, Sweep(c) PROVE CallTypes' /\ ReadsAreSound'
<1> DEFINE r == calls[c]
           next == [r EXCEPT !.at = "open"]
<1>1. r \in CallRecords /\ Sound(r, trees) /\ r.at = "handler"
  BY DEF IInv, CallTypes, ReadsAreSound, Sweep, At
<1>2. /\ calls' \in {[calls EXCEPT ![c] = Idle], [calls EXCEPT ![c] = next]}
      /\ UNCHANGED trees
  BY DEF Sweep, IInv, CallTypes
<1> HIDE DEF r
<1>3. next \in CallRecords /\ next.at = "open" /\ next.content = r.content
  BY <1>1 DEF CallRecords, Stages
<1> HIDE DEF next
<1>4. Sound(next, trees)
  BY <1>1, <1>3, CallRests DEF Sound, Making
<1>5. QED BY <1>2, <1>3, <1>4, CallMoves, IdleMoves

LEMMA OpenCalls ==
    ASSUME IInv, NEW c \in Calls, NEW e \in Exports, Open(c, e)
    PROVE  CallTypes' /\ ReadsAreSound'
<1> DEFINE r == calls[c]
           next == [r EXCEPT !.at = "revision", !.export = e, !.attached = TRUE]
<1>1. r \in CallRecords /\ Sound(r, trees) /\ r.at = "open"
  BY DEF IInv, CallTypes, ReadsAreSound, Open, At
<1>2. calls' = [calls EXCEPT ![c] = next] /\ UNCHANGED trees
  BY DEF Open, IInv, CallTypes
<1> HIDE DEF r
<1>3. /\ next \in CallRecords /\ next.at = "revision" /\ next.content = r.content
      /\ next.export = e
  BY <1>1 DEF CallRecords, Stages, Making
<1> HIDE DEF next
<1>4. Sound(next, trees)
  BY <1>1, <1>3, CallRests DEF Sound
<1>5. QED BY <1>2, <1>3, <1>4, CallMoves

LEMMA ReadRevisionCalls ==
    ASSUME IInv, NEW c \in Calls, ReadRevision(c) PROVE CallTypes' /\ ReadsAreSound'
<1> DEFINE r == calls[c]
           next == [r EXCEPT !.at = "list", !.revision = Len(trees)]
<1>1. r \in CallRecords /\ Sound(r, trees) /\ r.at = "revision"
  BY DEF IInv, CallTypes, ReadsAreSound, ReadRevision, At
<1>2. calls' = [calls EXCEPT ![c] = next] /\ UNCHANGED trees
  BY DEF ReadRevision, IInv, CallTypes, revision
<1>3. Len(trees) \in Nat /\ Len(trees) >= 1
  BY DEF IInv, CallTypes
<1> HIDE DEF r
<1>4. /\ next \in CallRecords /\ next.at = "list" /\ next.content = r.content
      /\ next.export = r.export /\ next.revision = Len(trees)
  BY <1>1, <1>3 DEF CallRecords, Stages, Making
<1> HIDE DEF next
<1>5. Sound(next, trees)
  BY <1>1, <1>3, <1>4 DEF Sound, Making
<1>6. QED BY <1>2, <1>4, <1>5, CallMoves

LEMMA TreeNow ==
    ASSUME IInv
    PROVE  /\ tree = trees[Len(trees)] /\ tree \in [Files -> Nat]
           /\ Listing(tree) \in Listings /\ DOMAIN Listing(tree) = Present(tree)
           /\ revision = Len(trees) /\ revision \in Nat
<1>1. tree = trees[Len(trees)] /\ tree \in [Files -> Nat] /\ revision \in Nat
  BY DEF IInv, CallTypes, tree, revision
<1>2. QED BY <1>1, ListingTypes DEF revision

LEMMA ListCalls ==
    ASSUME IInv, NEW c \in Calls, List(c) PROVE CallTypes' /\ ReadsAreSound'
<1> DEFINE r == calls[c]
           now == Listing(tree)
           next == [r EXCEPT !.at = "read", !.listed = now]
<1>1. r \in CallRecords /\ Sound(r, trees) /\ r.at = "list"
  BY DEF IInv, CallTypes, ReadsAreSound, List, At
<1>2. calls' = [calls EXCEPT ![c] = next] /\ UNCHANGED trees
  BY DEF List, IInv, CallTypes
<1>3. now \in Listings /\ now = Listing(trees[Len(trees)])
  BY TreeNow
<1> HIDE DEF r, now
<1>4. /\ next \in CallRecords /\ next.at = "read" /\ next.content = r.content
      /\ next.export = r.export /\ next.revision = r.revision /\ next.listed = now
  BY <1>1, <1>3 DEF CallRecords, Stages, Making
<1> HIDE DEF next
<1>5. DOMAIN next.content = {} /\ r.export \in Exports /\ r.revision \in 1 .. Len(trees)
  BY <1>1, <1>4 DEF Sound, Making
<1>6. ReadsOne(next, trees)
  BY <1>3, <1>4, <1>5 DEF ReadsOne
<1>7. Sound(next, trees)
  BY <1>4, <1>5, <1>6 DEF Sound
<1>8. QED BY <1>2, <1>4, <1>7, CallMoves

\* a file that reads as it was listed
LEMMA ReadFileCalls ==
    ASSUME IInv, NEW c \in Calls, NEW f \in Files, ReadFile(c, f)
    PROVE  CallTypes' /\ ReadsAreSound'
<1> DEFINE r == calls[c]
           now == tree[f]
           longer == [g \in DOMAIN r.content \cup {f} |->
                        IF g = f THEN now ELSE r.content[g]]
           next == [r EXCEPT !.content = longer]
<1>1. /\ r \in CallRecords /\ Sound(r, trees) /\ r.at = "read"
      /\ f \in DOMAIN r.listed /\ now \in {0, r.listed[f]}
  BY DEF IInv, CallTypes, ReadsAreSound, ReadFile, At, Unread
<1>2. calls' = [calls EXCEPT ![c] = next] /\ UNCHANGED trees
  BY DEF ReadFile, IInv, CallTypes
<1>3. now \in Nat /\ tree = trees[Len(trees)] /\ f \in Files
  BY TreeNow
<1>4. r.content \in Listings /\ r.listed \in Listings
  BY <1>1 DEF CallRecords
<1>5. ReadsOne(r, trees)
  BY <1>1 DEF Sound
<1> HIDE DEF r
<1>6. longer \in Listings /\ DOMAIN longer = DOMAIN r.content \cup {f}
  <2>1. PICK S \in SUBSET Files : r.content \in [S -> Nat]
    BY <1>4 DEF Listings
  <2>2. longer \in [S \cup {f} -> Nat] /\ S \cup {f} \in SUBSET Files
    BY <1>3, <2>1
  <2>3. QED BY <2>2 DEF Listings
<1>7. ASSUME r.revision = Len(trees)
      PROVE  \A g \in DOMAIN longer : longer[g] = r.listed[g]
  <2>1. r.listed = Listing(tree) /\ \A g \in DOMAIN r.content : r.content[g] = r.listed[g]
    BY <1>3, <1>5, <1>7 DEF ReadsOne
  <2>2. r.listed[f] = now
    BY <1>1, <2>1 DEF Listing
  <2>3. QED BY <1>6, <2>1, <2>2
<1> HIDE DEF longer, now
<1>8. /\ next \in CallRecords /\ next.at = "read" /\ next.content = longer
      /\ next.export = r.export /\ next.revision = r.revision /\ next.listed = r.listed
  BY <1>1, <1>6 DEF CallRecords
<1> HIDE DEF next
<1>9. ReadsOne(next, trees)
  BY <1>1, <1>5, <1>6, <1>7, <1>8 DEF ReadsOne
<1>10. Sound(next, trees)
  BY <1>1, <1>8, <1>9 DEF Sound, Making
<1>11. QED BY <1>2, <1>8, <1>10, CallMoves

\* the revision has not moved: what was read is its whole tree
LEMMA CheckRevisionCalls ==
    ASSUME IInv, NEW c \in Calls, CheckRevision(c) PROVE CallTypes' /\ ReadsAreSound'
<1> DEFINE r == calls[c]
           next == [r EXCEPT !.at = "relist"]
<1>1. /\ r \in CallRecords /\ Sound(r, trees) /\ r.at = "read"
      /\ DOMAIN r.listed \subseteq DOMAIN r.content /\ r.revision = Len(trees)
  BY DEF IInv, CallTypes, ReadsAreSound, CheckRevision, At, Unread, SameRevision, revision
<1>2. calls' = [calls EXCEPT ![c] = next] /\ UNCHANGED trees
  BY DEF CheckRevision, IInv, CallTypes
<1>3. r.content \in Listings /\ r.listed \in Listings
  BY <1>1 DEF CallRecords
<1> HIDE DEF r
<1>4. r.content = Listing(trees[r.revision])
  <2>1. /\ DOMAIN r.content = DOMAIN r.listed /\ r.listed = Listing(trees[r.revision])
        /\ \A f \in DOMAIN r.content : r.content[f] = r.listed[f]
    BY <1>1 DEF Sound, ReadsOne
  <2>2. r.content = r.listed
    BY <1>3, <2>1 DEF Listings
  <2>3. QED BY <2>1, <2>2
<1>5. /\ next \in CallRecords /\ next.at = "relist" /\ next.content = r.content
      /\ next.export = r.export /\ next.revision = r.revision
  BY <1>1 DEF CallRecords, Stages, Making
<1> HIDE DEF next
<1>6. Sound(next, trees)
  BY <1>1, <1>4, <1>5 DEF Sound, Making
<1>7. QED BY <1>2, <1>5, <1>6, CallMoves

LEMMA RetryCalls ==
    ASSUME IInv, NEW c \in Calls, Retry(c) PROVE CallTypes' /\ ReadsAreSound'
<1> DEFINE r == calls[c]
           next == [r EXCEPT !.at = "revision", !.tries = r.tries + 1,
                             !.revision = 0, !.listed = <<>>, !.content = <<>>]
<1>1. r \in CallRecords /\ Sound(r, trees) /\ r.at \in {"read", "relist"}
  BY DEF IInv, CallTypes, ReadsAreSound, Retry, Changed, At
<1>2. calls' = [calls EXCEPT ![c] = next] /\ UNCHANGED trees
  BY DEF Retry, IInv, CallTypes
<1> HIDE DEF r
<1>3. /\ next \in CallRecords /\ next.at = "revision" /\ next.export = r.export
      /\ DOMAIN next.content = {}
  <2>1. r.tries + 1 \in Nat
    BY <1>1 DEF CallRecords
  <2>2. QED BY <1>1, <2>1, EmptyListing DEF CallRecords, Stages, Making
<1> HIDE DEF next
<1>4. Sound(next, trees)
  BY <1>1, <1>3, CallRests DEF Sound, Making
<1>5. QED BY <1>2, <1>3, <1>4, CallMoves

LEMMA FlushingCalls ==
    ASSUME IInv, NEW c \in Calls, Refuse(c) \/ GiveUp(c) \/ Pack(c),
           QueueTypes'
    PROVE  CallTypes' /\ ReadsAreSound'
<1>1. UNCHANGED trees /\ writes \in Seq(Writes) /\ writes' \in Seq(Writes)
  BY DEF Refuse, GiveUp, Pack, IInv, QueueTypes
<1>2. Flush(c, calls[c], writes) \/ Flush(c, calls[c], writes')
  BY DEF Refuse, GiveUp, Pack
<1>3. QED BY <1>1, <1>2, FlushedCall

LEMMA AnswerCalls ==
    ASSUME IInv, NEW c \in Calls, Answer(c) PROVE CallTypes' /\ ReadsAreSound'
BY IdleMoves DEF Answer

\* steps that change, of a call, only what its read does not depend on
LEMMA ReadsAlike ==
    ASSUME NEW r, NEW next, NEW ts, Sound(r, ts), next.at = r.at,
           next.export = r.export, next.revision = r.revision,
           next.listed = r.listed, next.content = r.content
    PROVE  Sound(next, ts)
BY DEF Sound, ReadsOne

LEMMA DiscardCalls ==
    ASSUME IInv, NEW c \in Calls, NEW e \in Exports, Discard(c, e), QueueTypes'
    PROVE  CallTypes' /\ ReadsAreSound'
<1> DEFINE mine == [Idle EXCEPT !.op = "discard", !.at = "flush", !.export = e,
                                !.wait = Len(writes')]
           theirs(d) == [calls[d] EXCEPT !.attached = @ /\ calls[d].export # e]
<1>1. /\ calls' = [d \in Calls |-> IF d = c THEN mine ELSE theirs(d)]
      /\ UNCHANGED trees
  BY DEF Discard
<1>2. Len(writes') \in Nat
  BY DEF QueueTypes
<1>3. mine \in CallRecords /\ mine.at = "flush" /\ DOMAIN mine.content = {}
  <2>1. Idle \in CallRecords /\ DOMAIN Idle.content = {}
    BY IdleCall
  <2>2. QED BY <1>2, <2>1 DEF CallRecords, Stages
<1>4. Sound(mine, trees)
  BY <1>3, CallRests DEF Making
<1>5. ASSUME NEW d \in Calls
      PROVE  theirs(d) \in CallRecords /\ Sound(theirs(d), trees)
  <2> DEFINE r == calls[d]
             still == r.attached /\ r.export # e
             next == [r EXCEPT !.attached = still]
  <2>1. r \in CallRecords /\ Sound(r, trees)
    BY DEF IInv, CallTypes, ReadsAreSound
  <2>2. theirs(d) = next
    OBVIOUS
  <2> HIDE DEF r
  <2>3. still \in BOOLEAN
    OBVIOUS
  <2> HIDE DEF still
  <2>4. /\ next \in CallRecords /\ next.at = r.at /\ next.export = r.export
        /\ next.revision = r.revision /\ next.listed = r.listed
        /\ next.content = r.content
    BY <2>1, <2>3 DEF CallRecords
  <2> HIDE DEF next
  <2>5. Sound(next, trees)
    BY <2>1, <2>4, ReadsAlike
  <2>6. QED BY <2>2, <2>4, <2>5
<1> HIDE DEF mine, theirs
<1>6. QED BY <1>1, <1>3, <1>4, <1>5 DEF IInv, CallTypes, ReadsAreSound

LEMMA AdvanceCalls ==
    ASSUME IInv, Advance PROVE CallTypes' /\ ReadsAreSound'
<1> DEFINE left(d) == IF calls[d].wait = 0 THEN 0 ELSE calls[d].wait - 1
           next(d) == [calls[d] EXCEPT !.wait = left(d)]
<1>1. calls' = [d \in Calls |-> next(d)] /\ UNCHANGED trees
  BY DEF Advance
<1>2. ASSUME NEW d \in Calls
      PROVE  next(d) \in CallRecords /\ Sound(next(d), trees)
  <2> DEFINE r == calls[d]
             n == left(d)
             moved == [r EXCEPT !.wait = n]
  <2>1. r \in CallRecords /\ Sound(r, trees)
    BY DEF IInv, CallTypes, ReadsAreSound
  <2>2. n \in Nat
    BY <2>1 DEF CallRecords
  <2>3. next(d) = moved
    OBVIOUS
  <2> HIDE DEF n, r
  <2>4. /\ moved \in CallRecords /\ moved.at = r.at /\ moved.export = r.export
        /\ moved.revision = r.revision /\ moved.listed = r.listed
        /\ moved.content = r.content
    BY <2>1, <2>2 DEF CallRecords
  <2> HIDE DEF moved
  <2>5. Sound(moved, trees)
    BY <2>1, <2>4, ReadsAlike
  <2>6. QED BY <2>3, <2>4, <2>5
<1> HIDE DEF next
<1>3. QED BY <1>1, <1>2 DEF IInv, CallTypes, ReadsAreSound

\* a new revision leaves the earlier ones as they were
LEMMA EditCalls ==
    ASSUME IInv, NEW f \in Files, Edit(f) PROVE CallTypes' /\ ReadsAreSound'
<1>1. PICK to \in {0, revision + 1} : trees' = Append(trees, [tree EXCEPT ![f] = to])
  BY DEF Edit
<1>2. /\ UNCHANGED calls /\ trees \in Seq([Files -> Nat])
      /\ calls \in [Calls -> CallRecords]
  BY DEF Edit, IInv, CallTypes
<1>3. to \in Nat /\ tree \in [Files -> Nat] /\ Len(trees) \in Nat
  BY <1>2, TreeNow
<1>4. [tree EXCEPT ![f] = to] \in [Files -> Nat]
  BY <1>3
<1>5. /\ trees' \in Seq([Files -> Nat]) /\ Len(trees') = Len(trees) + 1
      /\ \A i \in 1 .. Len(trees) : trees'[i] = trees[i]
  BY <1>1, <1>2, <1>4
<1>6. trees' # <<>>
  BY <1>3, <1>5
<1>7. ASSUME NEW c \in Calls PROVE Sound(calls[c], trees')
  <2> DEFINE r == calls[c]
  <2>1. r \in CallRecords /\ Sound(r, trees)
    BY <1>2 DEF IInv, ReadsAreSound
  <2> HIDE DEF r
  <2>2. ASSUME r.at \in {"list", "read", "relist"}
        PROVE  /\ r.revision \in 1 .. Len(trees') /\ r.revision # Len(trees')
               /\ trees'[r.revision] = trees[r.revision]
    <3>1. r.revision \in 1 .. Len(trees)
      BY <2>1, <2>2 DEF Sound
    <3>2. QED BY <1>3, <1>5, <3>1
  <2>3. r.at = "read" => ReadsOne(r, trees')
    BY <2>1, <2>2 DEF Sound, ReadsOne
  <2>4. QED BY <2>1, <2>2, <2>3 DEF Sound, r
<1>8. QED BY <1>2, <1>5, <1>6, <1>7 DEF CallTypes, ReadsAreSound

LEMMA CrashCalls ==
    ASSUME IInv, Crash PROVE CallTypes' /\ ReadsAreSound'
<1>1. calls' = [c \in Calls |-> Idle] /\ UNCHANGED trees
  BY DEF Crash
<1>2. Idle \in CallRecords /\ Sound(Idle, trees)
  BY IdleCall, CallRests DEF Making
<1>3. QED BY <1>1, <1>2 DEF IInv, CallTypes, ReadsAreSound

-----------------------------------------------------------------------------
(* Every step.                                                             *)

LEMMA InitInvariant == Init => IInv
<1> SUFFICES ASSUME Init PROVE IInv
  OBVIOUS
<1>1. /\ calls = [c \in Calls |-> Idle] /\ trees = <<[f \in Files |-> 1]>>
      /\ writes = <<>> /\ rows = [e \in Exports |-> "none"] /\ archives = {}
  BY DEF Init
<1>2. QueueTypes /\ Len(writes) = 0
  BY <1>1 DEF QueueTypes, Rows, Statuses
<1>3. QueueIsSafe
  BY <1>1, <1>2 DEF QueueIsSafe, RowsAreBacked, SavesAreBacked, OnlyDroppedAreDeleted
<1>4. trees \in Seq([Files -> Nat]) /\ trees # <<>>
  BY <1>1
<1>5. Idle \in CallRecords /\ Sound(Idle, trees)
  BY IdleCall, CallRests DEF Making
<1>6. QED BY <1>1, <1>2, <1>3, <1>4, <1>5 DEF IInv, CallTypes, ReadsAreSound

LEMMA HandlersKeep ==
    ASSUME IInv, NEW c \in Calls, Handle(c) PROVE IInv'
<1>1. CASE \E op \in {"create", "discard", "look"} : Arrive(c, op)
  <2>1. PICK op \in {"create", "discard", "look"} : Arrive(c, op)
    BY <1>1
  <2>2. UNCHANGED <<writes, archives>> /\ UNCHANGED disk /\ UNCHANGED past
    BY <2>1 DEF Arrive
  <2>3. QED BY <2>1, <2>2, QuietQueue, ArriveCalls DEF IInv
<1>2. CASE LoadRows(c)
  BY <1>2, QuietQueue, LoadRowsCalls DEF LoadRows, memory, IInv
<1>3. CASE LoadFails(c)
  BY <1>3, QuietQueue, LoadFailsCalls DEF LoadFails, IInv
<1>4. CASE Hydrate(c)
  BY <1>4, HydrateQueue, HydrateCalls DEF IInv
<1>5. CASE Sweep(c)
  BY <1>5, SweepQueue, SweepCalls DEF IInv
<1>6. CASE Refuse(c)
  <2>1. UNCHANGED <<writes, archives>> /\ UNCHANGED disk /\ UNCHANGED past
    BY <1>6 DEF Refuse, memory
  <2>2. QueueTypes' /\ QueueIsSafe'
    BY <2>1, QuietQueue
  <2>3. QED BY <1>6, <2>2, FlushingCalls DEF IInv
<1>7. CASE \E e \in Exports : Open(c, e) \/ Discard(c, e)
  <2>1. PICK e \in Exports : Open(c, e) \/ Discard(c, e)
    BY <1>7
  <2>2. CASE Open(c, e)
    BY <2>2, OpenQueue, OpenCalls DEF IInv
  <2>3. CASE Discard(c, e)
    BY <2>3, DiscardQueue, DiscardCalls DEF IInv
  <2>4. QED BY <2>1, <2>2, <2>3
<1>8. CASE ReadRevision(c)
  BY <1>8, QuietQueue, ReadRevisionCalls DEF ReadRevision, memory, IInv
<1>9. CASE List(c)
  BY <1>9, QuietQueue, ListCalls DEF List, memory, IInv
<1>10. CASE CheckRevision(c)
  BY <1>10, QuietQueue, CheckRevisionCalls DEF CheckRevision, memory, IInv
<1>11. CASE \E f \in Files : ReadFile(c, f)
  <2>1. PICK f \in Files : ReadFile(c, f)
    BY <1>11
  <2>2. UNCHANGED <<writes, archives>> /\ UNCHANGED disk /\ UNCHANGED past
    BY <2>1 DEF ReadFile, memory
  <2>3. QED BY <2>1, <2>2, QuietQueue, ReadFileCalls DEF IInv
<1>12. CASE Retry(c)
  BY <1>12, QuietQueue, RetryCalls DEF Retry, memory, IInv
<1>13. CASE GiveUp(c)
  BY <1>13, GiveUpQueue, FlushingCalls DEF IInv
<1>14. CASE Pack(c)
  BY <1>14, PackQueue, FlushingCalls DEF IInv
<1>15. CASE Answer(c)
  BY <1>15, QuietQueue, AnswerCalls DEF Answer, IInv
<1>16. QED BY <1>1, <1>2, <1>3, <1>4, <1>5, <1>6, <1>7, <1>8, <1>9, <1>10, <1>11,
             <1>12, <1>13, <1>14, <1>15 DEF Handle

LEMMA StepInvariant == IInv /\ [Next]_vars => IInv'
<1> SUFFICES ASSUME IInv, [Next]_vars PROVE IInv'
  OBVIOUS
<1>1. CASE \E c \in Calls : Handle(c)
  BY <1>1, HandlersKeep
<1>2. CASE Write
  BY <1>2, WriteQueue, AdvanceCalls DEF Write, IInv
<1>3. CASE WriteFails
  BY <1>3, WriteFailsQueue, AdvanceCalls DEF WriteFails, IInv
<1>4. CASE \E f \in Files : Edit(f)
  <2>1. PICK f \in Files : Edit(f)
    BY <1>4
  <2>2. UNCHANGED <<writes, archives>> /\ UNCHANGED disk /\ UNCHANGED past
    BY <2>1 DEF Edit, memory
  <2>3. QED BY <2>1, <2>2, QuietQueue, EditCalls DEF IInv
<1>5. CASE Expire
  <2>1. /\ UNCHANGED <<writes, archives>> /\ UNCHANGED disk /\ UNCHANGED past
        /\ UNCHANGED <<calls, trees>>
    BY <1>5 DEF Expire, memory
  <2>2. QueueTypes' /\ QueueIsSafe'
    BY <2>1, QuietQueue
  <2>3. QED BY <2>1, <2>2 DEF IInv, CallTypes, ReadsAreSound
<1>6. CASE Crash
  BY <1>6, CrashQueue, CrashCalls DEF IInv
<1>7. CASE UNCHANGED vars
  <2>1. /\ UNCHANGED <<writes, archives>> /\ UNCHANGED disk /\ UNCHANGED past
        /\ UNCHANGED <<calls, trees>>
    BY <1>7 DEF vars, disk, past
  <2>2. QueueTypes' /\ QueueIsSafe'
    BY <2>1, QuietQueue
  <2>3. QED BY <2>1, <2>2 DEF IInv, CallTypes, ReadsAreSound
<1>8. QED BY <1>1, <1>2, <1>3, <1>4, <1>5, <1>6, <1>7 DEF Next

(* Wherever the process stops and whichever writes fail, the row of an     *)
(* export whose archive was neither dropped nor failed to be written says  *)
(* ready only when the archive is on the disk.                             *)
THEOREM ReadyRowsAreBacked == Spec => []ReadyRowsHaveTheirArchive
<1>1. IInv => ReadyRowsHaveTheirArchive
  BY DEF IInv, QueueIsSafe, RowsAreBacked, ReadyRowsHaveTheirArchive, Excused
<1>2. QED BY <1>1, InitInvariant, StepInvariant, PTL DEF Spec

(* Whatever is edited between the awaits of a read, what is packed is the  *)
(* whole workspace at the revision the export reports.                     *)
THEOREM ReadsAreOneRevision == Spec => ArchivesAreOneRevision
<1> DEFINE Packs == \A c \in Calls :
             Pack(c) => calls[c].content = Listing(trees[calls[c].revision])
<1>1. IInv => Packs
  BY DEF IInv, ReadsAreSound, Sound, Pack, At
<1>2. IInv /\ [Next]_vars => [Packs]_vars
  BY <1>1
<1>3. Spec => [][Packs]_vars
  BY <1>2, InitInvariant, StepInvariant, PTL DEF Spec
<1>4. QED BY <1>3 DEF ArchivesAreOneRevision

-----------------------------------------------------------------------------
(* The mirror against the table: what the queue will make of a row.        *)

RowOf(w, e) == w.kind \in {"save", "deleteRow"} /\ w.export = e

\* once n writes of the queue are done, and ever after, e's row is in S
Settles(queue, row, e, n, S) ==
    /\ row \notin S => \E i \in 1 .. n : RowOf(queue[i], e)
    /\ \A i \in 1 .. Len(queue) :
         RowOf(queue[i], e) /\ queue[i].status \notin S =>
             \E j \in (i + 1) .. n : RowOf(queue[j], e)

Unwritten(queue, e) == \A i \in 1 .. Len(queue) : ~RowOf(queue[i], e)

\* no row but e's is written, with status s
Confined(batch, e, s) ==
    \A i \in 1 .. Len(batch) : \A d \in Exports :
        RowOf(batch[i], d) => d = e /\ batch[i].status = s

Closes(batch, e, s) ==
    Confined(batch, e, s) /\ Len(batch) > 0 /\ RowOf(batch[Len(batch)], e)

LEMMA SettlesAppended ==
    ASSUME NEW queue \in Seq(Writes), NEW batch \in Seq(Writes), NEW row, NEW e,
           NEW n \in Nat, n <= Len(queue), NEW S, Settles(queue, row, e, n, S),
           \A i \in 1 .. Len(batch) : RowOf(batch[i], e) => batch[i].status \in S
    PROVE  Settles(queue \o batch, row, e, n, S)
<1> DEFINE longer == queue \o batch
           k == Len(queue)
<1>1. /\ k \in Nat /\ Len(batch) \in Nat /\ Len(longer) = k + Len(batch)
      /\ \A i \in 1 .. k : longer[i] = queue[i]
      /\ \A i \in 1 .. Len(batch) : longer[k + i] = batch[i]
  OBVIOUS
<1> HIDE DEF longer, k
<1>2. n <= k
  BY DEF k
<1>3. row \notin S => \E i \in 1 .. n : RowOf(longer[i], e)
  BY <1>1, <1>2 DEF Settles
<1>4. ASSUME NEW i \in 1 .. Len(longer), RowOf(longer[i], e), longer[i].status \notin S
      PROVE  \E j \in (i + 1) .. n : RowOf(longer[j], e)
  <2>1. CASE i \in 1 .. k
    <3>1. \E j \in (i + 1) .. n : RowOf(queue[j], e)
      BY <1>1, <1>4, <2>1 DEF Settles, k
    <3>2. \A j \in (i + 1) .. n : longer[j] = queue[j]
      BY <1>1, <1>2, <2>1
    <3>3. QED BY <3>1, <3>2
  <2>2. CASE i \notin 1 .. k
    <3> DEFINE m == i - k
    <3>1. m \in 1 .. Len(batch) /\ i = k + m
      BY <1>1, <2>2
    <3> HIDE DEF m
    <3>2. longer[i] = batch[m]
      BY <1>1, <3>1
    <3>3. QED BY <1>4, <3>1, <3>2
  <2>3. QED BY <2>1, <2>2
<1>5. QED BY <1>3, <1>4 DEF Settles, longer

LEMMA SettlesLonger ==
    ASSUME NEW queue, NEW row, NEW e, NEW n \in Nat, NEW m \in Nat, n <= m,
           NEW S, NEW T, S \subseteq T, Settles(queue, row, e, n, S)
    PROVE  Settles(queue, row, e, m, T)
<1>1. 1 .. n \subseteq 1 .. m
  OBVIOUS
<1>2. \A i \in 1 .. Len(queue) : (i + 1) .. n \subseteq (i + 1) .. m
  OBVIOUS
<1>3. QED BY <1>1, <1>2 DEF Settles

LEMMA SettlesClosed ==
    ASSUME NEW queue \in Seq(Writes), NEW batch \in Seq(Writes), NEW row,
           NEW e \in Exports, NEW s, Closes(batch, e, s)
    PROVE  Settles(queue \o batch, row, e, Len(queue \o batch), {s})
<1> DEFINE longer == queue \o batch
           k == Len(queue)
           m == Len(batch)
<1>1. /\ k \in Nat /\ m \in Nat /\ Len(longer) = k + m
      /\ \A i \in 1 .. m : longer[k + i] = batch[i]
  OBVIOUS
<1> HIDE DEF longer
<1>2. /\ \A i \in 1 .. m : RowOf(batch[i], e) => batch[i].status = s
      /\ m > 0 /\ RowOf(batch[m], e)
  BY DEF Closes, Confined
<1> HIDE DEF k, m
<1>3. m \in 1 .. m /\ k + m \in 1 .. (k + m)
  BY <1>1, <1>2
<1>4. RowOf(longer[k + m], e) /\ longer[k + m].status = s
  BY <1>1, <1>2, <1>3
<1>5. ASSUME NEW i \in 1 .. (k + m), longer[i].status # s
      PROVE  k + m \in (i + 1) .. (k + m)
  BY <1>1, <1>4, <1>5
<1>6. QED BY <1>1, <1>3, <1>4, <1>5 DEF Settles, longer

LEMMA SettlesPopped ==
    ASSUME NEW queue \in Seq(Writes), queue # <<>>, NEW row, NEW next, NEW e,
           NEW n \in Nat, n <= Len(queue), NEW S, Settles(queue, row, e, n, S),
           RowOf(Head(queue), e) => next = Head(queue).status,
           ~RowOf(Head(queue), e) => next = row,
           NEW m \in Nat, n = 0 => m = 0, n # 0 => m = n - 1
    PROVE  Settles(Tail(queue), next, e, m, S)
<1> DEFINE rest == Tail(queue)
<1>1. /\ Len(queue) \in Nat /\ Len(queue) > 0 /\ Len(rest) = Len(queue) - 1
      /\ \A i \in 1 .. Len(rest) : rest[i] = queue[i + 1]
      /\ Head(queue) = queue[1]
  OBVIOUS
<1>2. \A j \in 2 .. Len(queue) : rest[j - 1] = queue[j]
  BY <1>1
<1> HIDE DEF rest
<1>3. ASSUME next \notin S PROVE \E i \in 1 .. m : RowOf(rest[i], e)
  <2>1. \E j \in 2 .. n : RowOf(queue[j], e)
    <3>1. CASE RowOf(Head(queue), e)
      BY <1>1, <1>3, <3>1 DEF Settles
    <3>2. CASE ~RowOf(Head(queue), e)
      <4>1. PICK i \in 1 .. n : RowOf(queue[i], e)
        BY <1>3, <3>2 DEF Settles
      <4>2. QED BY <1>1, <3>2, <4>1
    <3>3. QED BY <3>1, <3>2
  <2>2. PICK j \in 2 .. n : RowOf(queue[j], e)
    BY <2>1
  <2>3. j - 1 \in 1 .. m /\ rest[j - 1] = queue[j]
    BY <1>1, <1>2, <2>2
  <2>4. QED BY <2>2, <2>3
<1>4. ASSUME NEW i \in 1 .. Len(rest), RowOf(rest[i], e), rest[i].status \notin S
      PROVE  \E j \in (i + 1) .. m : RowOf(rest[j], e)
  <2>1. i + 1 \in 1 .. Len(queue) /\ queue[i + 1] = rest[i]
    BY <1>1
  <2>2. PICK j \in (i + 2) .. n : RowOf(queue[j], e)
    <3>1. \E j \in ((i + 1) + 1) .. n : RowOf(queue[j], e)
      BY <1>4, <2>1 DEF Settles
    <3>2. QED BY <3>1
  <2>3. j - 1 \in (i + 1) .. m /\ rest[j - 1] = queue[j]
    BY <1>1, <1>2, <2>2
  <2>4. QED BY <2>2, <2>3
<1>5. QED BY <1>3, <1>4 DEF Settles, rest

LEMMA UnwrittenSettles ==
    ASSUME NEW queue, NEW e, Unwritten(queue, e), NEW row, NEW n
    PROVE  Settles(queue, row, e, n, {row})
BY DEF Unwritten, Settles

-----------------------------------------------------------------------------
(* The invariant.                                                          *)

Plain == Exports \ (lost \cup tangled)

RecordTypes == records \in Rows /\ load \in {"none", "loading", "done", "failed"}

Loading == {"loading", "loaded"}

\* ld: how the rows are loaded; n: the length of the queue
StageFits(r, ld, n) ==
    /\ r.at \in {"open"} \cup Making => r.op = "create"
    /\ r.at = "flush" => r.op \in {"create", "discard"}
    /\ r.export \in Exports => r.at \in Making \cup {"flush"}
    /\ r.at = "loaded" => r.seeds \in Rows
    /\ r.at \in Loading => ld = "loading"
    /\ r.at # "idle" => ld # "none" /\ r.op # "none"
    /\ r.wait <= n

StagesFit == \A c \in Calls : StageFits(calls[c], load, Len(writes))

OneLoads == \A c, d \in Calls :
    calls[c].at \in Loading /\ calls[d].at \in Loading => c = d

\* nobody else answers for an export while it is made
OneMakes == \A c, d \in Calls :
    calls[c].at \in Making /\ calls[d].export = calls[c].export /\ c # d =>
        calls[c].export \in tangled

DetachedAreTangled == \A c \in Calls :
    calls[c].at \in Making /\ ~calls[c].attached => calls[c].export \in tangled

CallsFit == StagesFit /\ OneLoads /\ OneMakes /\ DetachedAreTangled

\* the map and what the queue will make of the table
MirrorSettles == \A e \in Plain :
    records[e] # "none" \/ load = "done" =>
        Settles(writes, rows[e], e, Len(writes), {records[e]})

\* before the rows are loaded, what is not in the map is not touched
UnloadedStay == \A e \in Plain :
    records[e] = "none" /\ load \in {"none", "loading"} => Unwritten(writes, e)

SeedsAreCurrent == \A c \in Calls : \A e \in Plain :
    calls[c].at = "loaded" /\ records[e] = "none" => calls[c].seeds[e] = rows[e]

\* what the row of a call's export may be once the call is answered
Outcome(r) == IF r.op = "discard" THEN {"none"}
              ELSE IF r.attached THEN {"ready", "failed"}
              ELSE {"none", "ready", "failed"}

AnswersSettle == \A c \in Calls :
    calls[c].at = "flush" /\ calls[c].export \in Plain =>
        Settles(writes, rows[calls[c].export], calls[c].export, calls[c].wait,
                Outcome(calls[c]))

RowsFollow == MirrorSettles /\ UnloadedStay /\ SeedsAreCurrent /\ AnswersSettle

MirrorInv == RecordTypes /\ CallsFit /\ RowsFollow

\* what another request's step leaves of a call
Alike(r, next) ==
    /\ next.op = r.op /\ next.at = r.at /\ next.export = r.export
    /\ next.seeds = r.seeds
    /\ next.wait <= r.wait
    /\ next.attached # r.attached /\ r.at \in Making => r.export \in tangled'

LEMMA MirrorTypes ==
    ASSUME IInv, MirrorInv
    PROVE  /\ writes \in Seq(Writes) /\ Len(writes) \in Nat
           /\ calls \in [Calls -> CallRecords]
           /\ rows \in Rows /\ records \in Rows
           /\ \A c \in Calls : /\ calls[c] \in CallRecords
                               /\ StageFits(calls[c], load, Len(writes))
                               /\ calls[c].at \in Making => calls[c].export \in Exports
BY MakingExports DEF IInv, QueueTypes, CallTypes, MirrorInv, RecordTypes, CallsFit, StagesFit

-----------------------------------------------------------------------------
(* One call moves.                                                         *)

LEMMA CallsFitMoved ==
    ASSUME IInv, MirrorInv, NEW c \in Calls, NEW r, calls'[c] = r,
           writes' \in Seq(Writes), Len(writes) <= Len(writes'),
           \A d \in Calls : d # c => Alike(calls[d], calls'[d]),
           calls' \in [Calls -> CallRecords],
           tangled \subseteq tangled',
           \/ load' = load
           \/ load = "none"
           \/ calls[c].at \in Loading /\ load' # "none",
           StageFits(r, load', Len(writes')),
           r.at \in Loading => calls[c].at \in Loading \/ load = "none",
           r.at \in Making =>
             \/ /\ calls[c].at \in Making /\ r.export = calls[c].export
                /\ r.attached = calls[c].attached
             \/ r.attached /\ \A d \in Calls : calls[d].export # r.export,
           \A d \in Calls :
             d # c /\ calls[d].at \in Making /\ calls[d].export = r.export =>
                 r.export \in tangled' \/ r.export = calls[c].export
    PROVE  CallsFit'
<1>1. /\ Len(writes) \in Nat /\ Len(writes') \in Nat
      /\ \A d \in Calls : /\ calls[d] \in CallRecords /\ calls'[d] \in CallRecords
                          /\ StageFits(calls[d], load, Len(writes))
  BY MirrorTypes
<1>2. \A d \in Calls : calls[d].wait \in Nat /\ calls'[d].wait \in Nat
  BY <1>1 DEF CallRecords
<1>3. OneLoads /\ OneMakes /\ DetachedAreTangled
  BY DEF MirrorInv, CallsFit
<1>4. \A d \in Calls : d # c /\ calls[d].at \in Loading => load' = "loading"
  <2> SUFFICES ASSUME NEW d \in Calls, d # c, calls[d].at \in Loading
               PROVE  load' = "loading"
    OBVIOUS
  <2>1. load = "loading" /\ calls[c].at \notin Loading
    BY <1>1, <1>3 DEF OneLoads, StageFits
  <2>2. QED BY <2>1
<1>5. \A d \in Calls : d # c /\ calls[d].at # "idle" => load' # "none"
  <2> SUFFICES ASSUME NEW d \in Calls, d # c, calls[d].at # "idle"
               PROVE  load' # "none"
    OBVIOUS
  <2>1. load # "none"
    BY <1>1 DEF StageFits
  <2>2. QED BY <2>1
<1>6. StagesFit'
  <2> SUFFICES ASSUME NEW d \in Calls
               PROVE  StageFits(calls'[d], load', Len(writes'))
    BY DEF StagesFit
  <2>1. CASE d = c
    BY <2>1
  <2>2. CASE d # c
    <3>1. Alike(calls[d], calls'[d]) /\ StageFits(calls[d], load, Len(writes))
      BY <1>1, <2>2
    <3>2. calls'[d].wait <= Len(writes')
      BY <1>1, <1>2, <3>1 DEF Alike, StageFits
    <3>3. QED BY <1>4, <1>5, <2>2, <3>1, <3>2 DEF Alike, StageFits
  <2>3. QED BY <2>1, <2>2
<1>7. OneLoads'
  <2> SUFFICES ASSUME NEW d \in Calls, NEW x \in Calls, d # x,
                      calls'[d].at \in Loading, calls'[x].at \in Loading
               PROVE  FALSE
    BY DEF OneLoads
  <2>1. ASSUME NEW y \in Calls, calls'[y].at \in Loading
        PROVE  calls[y].at \in Loading \/ (y = c /\ load = "none")
    BY <2>1 DEF Alike
  <2>2. ASSUME NEW y \in Calls, load = "none" PROVE calls[y].at \notin Loading
    BY <1>1, <2>2 DEF StageFits
  <2>3. QED BY <1>3, <2>1, <2>2 DEF OneLoads
<1>8. OneMakes'
  <2> SUFFICES ASSUME NEW d \in Calls, NEW x \in Calls, d # x,
                      calls'[d].at \in Making, calls'[x].export = calls'[d].export
               PROVE  calls'[d].export \in tangled'
    BY DEF OneMakes
  <2>1. CASE d = c
    <3>1. calls[x].export = r.export
      BY <2>1 DEF Alike
    <3>2. calls[c].at \in Making /\ r.export = calls[c].export
      BY <2>1, <3>1
    <3>3. QED BY <1>3, <2>1, <3>1, <3>2 DEF OneMakes
  <2>2. CASE x = c
    <3>1. calls[d].at \in Making /\ calls[d].export = r.export /\ calls'[d].export = r.export
      BY <2>2 DEF Alike
    <3>2. CASE r.export = calls[c].export
      BY <1>3, <2>2, <3>1, <3>2 DEF OneMakes
    <3>3. QED BY <2>2, <3>1, <3>2
  <2>3. CASE d # c /\ x # c
    BY <1>3, <2>3 DEF Alike, OneMakes
  <2>4. QED BY <2>1, <2>2, <2>3
<1>9. DetachedAreTangled'
  <2> SUFFICES ASSUME NEW d \in Calls, calls'[d].at \in Making, ~calls'[d].attached
               PROVE  calls'[d].export \in tangled'
    BY DEF DetachedAreTangled
  <2>1. CASE d = c
    BY <1>3, <2>1 DEF DetachedAreTangled
  <2>2. CASE d # c
    <3>1. Alike(calls[d], calls'[d])
      BY <2>2
    <3>2. calls[d].at \in Making /\ calls'[d].export = calls[d].export
      BY <3>1 DEF Alike
    <3>3. CASE calls[d].attached
      BY <3>1, <3>2, <3>3 DEF Alike
    <3>4. CASE ~calls[d].attached
      BY <1>3, <3>2, <3>4 DEF DetachedAreTangled
    <3>5. QED BY <3>2, <3>3, <3>4
  <2>3. QED BY <2>1, <2>2
<1>10. QED BY <1>6, <1>7, <1>8, <1>9 DEF CallsFit

\* the call moves and the queue, the table and the map stay
LEMMA RowsFollowMoved ==
    ASSUME IInv, MirrorInv, NEW c \in Calls, NEW r, calls'[c] = r,
           \A d \in Calls : d # c => calls'[d] = calls[d],
           UNCHANGED <<writes, rows, records, lost, tangled>>,
           load' = "done" => load = "done",
           load' \in {"none", "loading"} => load \in {"none", "loading"},
           r.at = "loaded" => r.seeds = rows,
           r.at = "flush" => r.export \notin Exports
    PROVE  RowsFollow'
<1>1. Plain' = Plain
  BY DEF Plain
<1>2. MirrorSettles' /\ UnloadedStay'
  BY <1>1 DEF MirrorInv, RowsFollow, MirrorSettles, UnloadedStay
<1>3. SeedsAreCurrent'
  BY <1>1 DEF MirrorInv, RowsFollow, SeedsAreCurrent
<1>4. AnswersSettle'
  <2> SUFFICES ASSUME NEW d \in Calls, calls'[d].at = "flush", calls'[d].export \in Plain
               PROVE  Settles(writes, rows[calls'[d].export], calls'[d].export,
                              calls'[d].wait, Outcome(calls'[d]))
    BY <1>1 DEF AnswersSettle, Outcome
  <2>1. d # c
    BY DEF Plain
  <2>2. QED BY <2>1 DEF MirrorInv, RowsFollow, AnswersSettle
<1>5. QED BY <1>2, <1>3, <1>4 DEF RowsFollow

\* a batch joins the queue: at most e's row is written by it, with status s
LEMMA RowsFollowBatch ==
    ASSUME IInv, MirrorInv, NEW batch \in Seq(Writes), writes' = writes \o batch,
           NEW e, NEW s, Confined(batch, e, s),
           UNCHANGED <<rows, lost, load>>, tangled \subseteq tangled',
           \A d \in Exports : d # e => records'[d] = records[d],
           e \in Plain' =>
             /\ Closes(batch, e, s) /\ records'[e] = s
             /\ s = "none" => load \notin {"none", "loading"},
           \A d \in Calls : calls'[d].at = "loaded" =>
             calls[d].at = "loaded" /\ calls'[d].seeds = calls[d].seeds,
           \A d \in Calls : calls'[d].at = "flush" /\ calls'[d].export \in Plain' =>
             \/ /\ calls'[d].export = e => s \in Outcome(calls'[d])
                /\ calls[d].at = "flush" /\ calls'[d].export = calls[d].export
                /\ calls'[d].wait = calls[d].wait
                /\ Outcome(calls[d]) \subseteq Outcome(calls'[d])
             \/ /\ calls'[d].export = e /\ calls'[d].wait = Len(writes')
                /\ s \in Outcome(calls'[d])
    PROVE  RowsFollow'
<1>1. /\ writes \in Seq(Writes) /\ writes' \in Seq(Writes)
      /\ Len(writes) \in Nat /\ Len(writes') \in Nat /\ Len(writes) <= Len(writes')
      /\ Len(writes') = Len(writes) + Len(batch)
      /\ \A i \in 1 .. Len(writes) : writes'[i] = writes[i]
      /\ \A i \in 1 .. Len(batch) : writes'[Len(writes) + i] = batch[i]
  <2>1. writes \in Seq(Writes) /\ Len(writes) \in Nat
    BY MirrorTypes
  <2>2. QED BY <2>1
<1>2. Plain' \subseteq Plain /\ Plain \subseteq Exports
  BY DEF Plain
<1>3. MirrorSettles /\ UnloadedStay /\ SeedsAreCurrent /\ AnswersSettle
  BY DEF MirrorInv, RowsFollow
<1>4. \A d \in Exports : \A i \in 1 .. Len(batch) :
        RowOf(batch[i], d) => d = e /\ batch[i].status = s
  BY DEF Confined
<1>5. ASSUME e \in Plain'
      PROVE  Settles(writes', rows[e], e, Len(writes'), {s})
  BY <1>1, <1>2, <1>5, SettlesClosed
<1>6. MirrorSettles'
  <2> SUFFICES ASSUME NEW d \in Plain', records'[d] # "none" \/ load = "done"
               PROVE  Settles(writes', rows[d], d, Len(writes'), {records'[d]})
    BY DEF MirrorSettles
  <2>1. CASE d = e
    BY <1>5, <2>1
  <2>2. CASE d # e
    <3>1. d \in Plain /\ d \in Exports /\ records'[d] = records[d]
      BY <1>2, <2>2
    <3>2. Settles(writes, rows[d], d, Len(writes), {records[d]})
      BY <1>3, <3>1 DEF MirrorSettles
    <3>3. \A i \in 1 .. Len(batch) : RowOf(batch[i], d) => batch[i].status \in {records[d]}
      BY <1>4, <2>2, <3>1
    <3>4. Settles(writes', rows[d], d, Len(writes), {records[d]})
      BY <1>1, <3>2, <3>3, SettlesAppended
    <3>5. QED BY <1>1, <3>1, <3>4, SettlesLonger
  <2>3. QED BY <2>1, <2>2
<1>7. UnloadedStay'
  <2> SUFFICES ASSUME NEW d \in Plain', records'[d] = "none", load \in {"none", "loading"}
               PROVE  Unwritten(writes', d)
    BY DEF UnloadedStay
  <2>1. d # e
    OBVIOUS
  <2>2. d \in Plain /\ d \in Exports /\ records[d] = "none"
    BY <1>2, <2>1
  <2>3. \A i \in 1 .. Len(writes) : ~RowOf(writes[i], d)
    BY <1>3, <2>2 DEF UnloadedStay, Unwritten
  <2>4. \A i \in 1 .. Len(batch) : ~RowOf(batch[i], d)
    BY <1>4, <2>1, <2>2
  <2>5. ASSUME NEW i \in 1 .. Len(writes') PROVE ~RowOf(writes'[i], d)
    <3>1. CASE i \in 1 .. Len(writes)
      BY <1>1, <2>3, <3>1
    <3>2. CASE i \notin 1 .. Len(writes)
      <4> DEFINE k == i - Len(writes)
      <4>1. k \in 1 .. Len(batch) /\ i = Len(writes) + k
        BY <1>1, <3>2
      <4> HIDE DEF k
      <4>2. QED BY <1>1, <2>4, <4>1
    <3>3. QED BY <3>1, <3>2
  <2>6. QED BY <2>5 DEF Unwritten
<1>8. SeedsAreCurrent'
  <2> SUFFICES ASSUME NEW c \in Calls, NEW d \in Plain',
                      calls'[c].at = "loaded", records'[d] = "none"
               PROVE  calls'[c].seeds[d] = rows[d]
    BY DEF SeedsAreCurrent
  <2>1. load = "loading"
    BY MirrorTypes DEF StageFits, Loading
  <2>2. d # e
    BY <2>1
  <2>3. d \in Plain /\ records[d] = "none"
    BY <1>2, <2>2
  <2>4. QED BY <1>3, <2>3 DEF SeedsAreCurrent
<1>9. AnswersSettle'
  <2> SUFFICES ASSUME NEW d \in Calls, calls'[d].at = "flush", calls'[d].export \in Plain'
               PROVE  Settles(writes', rows[calls'[d].export], calls'[d].export,
                              calls'[d].wait, Outcome(calls'[d]))
    BY DEF AnswersSettle, Outcome
  <2> DEFINE x == calls'[d].export
             out == Outcome(calls'[d])
             n == calls'[d].wait
  <2>1. CASE /\ x = e => s \in out
             /\ calls[d].at = "flush" /\ x = calls[d].export /\ n = calls[d].wait
             /\ Outcome(calls[d]) \subseteq out
    <3>1. x \in Plain /\ x \in Exports
      BY <1>2
    <3>2. Settles(writes, rows[x], x, n, Outcome(calls[d]))
      BY <1>3, <2>1, <3>1 DEF AnswersSettle
    <3>3. calls[d] \in CallRecords /\ StageFits(calls[d], load, Len(writes))
      BY MirrorTypes
    <3>4. n \in Nat /\ n <= Len(writes)
      BY <2>1, <3>3 DEF CallRecords, StageFits
    <3> HIDE DEF x, out, n
    <3>5. Settles(writes, rows[x], x, n, out)
      BY <2>1, <3>2, <3>4, SettlesLonger
    <3>6. \A i \in 1 .. Len(batch) : RowOf(batch[i], x) => batch[i].status \in out
      BY <1>4, <2>1, <3>1
    <3>7. Settles(writes', rows[x], x, n, out)
      BY <1>1, <3>4, <3>5, <3>6, SettlesAppended
    <3>8. QED BY <3>7 DEF x, out, n
  <2>2. CASE x = e /\ n = Len(writes') /\ s \in out
    <3>1. Settles(writes', rows[e], e, Len(writes'), {s})
      BY <1>5, <2>2
    <3> HIDE DEF out
    <3>2. Settles(writes', rows[e], e, Len(writes'), out)
      BY <1>1, <2>2, <3>1, SettlesLonger
    <3>3. QED BY <2>2, <3>2 DEF out
  <2>3. QED BY <2>1, <2>2
<1>10. QED BY <1>6, <1>7, <1>8, <1>9 DEF RowsFollow

\* the first write of the queue is done, or fails
LEMMA RowsFollowWrite ==
    ASSUME IInv, MirrorInv, Write \/ WriteFails
    PROVE  MirrorInv'
<1> DEFINE w == Head(writes)
           left(d) == IF calls[d].wait = 0 THEN 0 ELSE calls[d].wait - 1
<1>1. /\ writes # <<>> /\ writes' = Tail(writes)
      /\ UNCHANGED <<records, load, tangled>> /\ lost \subseteq lost'
      /\ calls' = [d \in Calls |-> [calls[d] EXCEPT !.wait = left(d)]]
  BY DEF Write, WriteFails, Advance
<1>2. /\ writes \in Seq(Writes) /\ w \in Writes /\ rows \in Rows
      /\ \A d \in Calls : calls[d] \in CallRecords /\ StageFits(calls[d], load, Len(writes))
  BY <1>1, MirrorTypes
<1>3. /\ Len(writes) \in Nat /\ Len(writes') \in Nat /\ Len(writes') = Len(writes) - 1
      /\ \A i \in 1 .. Len(writes') : writes'[i] = writes[i + 1]
      /\ w = writes[1] /\ 1 \in 1 .. Len(writes)
  BY <1>1, <1>2
<1>4. ASSUME NEW e \in Plain'
      PROVE  /\ RowOf(w, e) => rows'[e] = w.status
             /\ ~RowOf(w, e) => rows'[e] = rows[e]
  <2>1. e \in Exports /\ e \notin lost'
    BY DEF Plain
  <2>2. CASE Write
    <3>1. rows' = IF w.kind \in {"save", "deleteRow"}
                    THEN [rows EXCEPT ![w.export] = w.status] ELSE rows
      BY <2>2 DEF Write, Done
    <3> HIDE DEF w
    <3>2. QED BY <1>2, <2>1, <3>1 DEF RowOf, Rows
  <2>3. CASE WriteFails
    <3>1. rows' = rows /\ e # w.export
      BY <2>1, <2>3 DEF WriteFails
    <3>2. QED BY <3>1 DEF RowOf
  <2>4. QED BY <2>2, <2>3
<1> HIDE DEF w
<1>5. Plain' \subseteq Plain
  BY <1>1 DEF Plain
<1>6. ASSUME NEW d \in Calls
      PROVE  /\ calls'[d].op = calls[d].op /\ calls'[d].at = calls[d].at
             /\ calls'[d].export = calls[d].export
             /\ calls'[d].attached = calls[d].attached
             /\ calls'[d].seeds = calls[d].seeds
             /\ calls'[d].wait = left(d) /\ left(d) \in Nat /\ left(d) <= Len(writes')
             /\ calls[d].wait \in Nat /\ calls[d].wait <= Len(writes)
  <2> DEFINE r == calls[d]
             n == left(d)
             next == [r EXCEPT !.wait = n]
  <2>1. r \in CallRecords /\ r.wait \in Nat /\ r.wait <= Len(writes)
    BY <1>2 DEF CallRecords, StageFits
  <2>2. n \in Nat /\ n <= Len(writes')
    BY <1>3, <2>1
  <2>3. calls'[d] = next
    BY <1>1
  <2> HIDE DEF n, r
  <2>4. /\ next.op = r.op /\ next.at = r.at /\ next.export = r.export
        /\ next.attached = r.attached /\ next.seeds = r.seeds /\ next.wait = n
    BY <2>1 DEF CallRecords
  <2>5. QED BY <2>1, <2>2, <2>3, <2>4 DEF n, r
<1>7. RecordTypes'
  BY <1>1 DEF MirrorInv, RecordTypes
<1>8. CallsFit'
  <2>1. StagesFit'
    BY <1>1, <1>2, <1>6 DEF StagesFit, StageFits
  <2>2. OneLoads /\ OneMakes /\ DetachedAreTangled
    BY DEF MirrorInv, CallsFit
  <2>3. \A d \in Calls : /\ calls'[d].at = calls[d].at
                        /\ calls'[d].export = calls[d].export
                        /\ calls'[d].attached = calls[d].attached
    BY <1>6
  <2>4. tangled' = tangled
    BY <1>1
  <2>5. OneLoads'
    BY <2>2, <2>3 DEF OneLoads
  <2>6. OneMakes'
    BY <2>2, <2>3, <2>4 DEF OneMakes
  <2>7. DetachedAreTangled'
    BY <2>2, <2>3, <2>4 DEF DetachedAreTangled
  <2>8. QED BY <2>1, <2>5, <2>6, <2>7 DEF CallsFit
<1> HIDE DEF left
<1>9. MirrorSettles /\ UnloadedStay /\ SeedsAreCurrent /\ AnswersSettle
  BY DEF MirrorInv, RowsFollow
<1>10. MirrorSettles'
  <2> SUFFICES ASSUME NEW d \in Plain', records[d] # "none" \/ load = "done"
               PROVE  Settles(writes', rows'[d], d, Len(writes'), {records[d]})
    BY <1>1 DEF MirrorSettles
  <2>1. Settles(writes, rows[d], d, Len(writes), {records[d]})
    BY <1>5, <1>9 DEF MirrorSettles
  <2>2. RowOf(w, d) => rows'[d] = w.status
    BY <1>4
  <2>3. ~RowOf(w, d) => rows'[d] = rows[d]
    BY <1>4
  <2>4. QED BY <1>1, <1>2, <1>3, <2>1, <2>2, <2>3, SettlesPopped DEF w
<1>11. UnloadedStay'
  <2> SUFFICES ASSUME NEW d \in Plain', records[d] = "none", load \in {"none", "loading"}
               PROVE  Unwritten(writes', d)
    BY <1>1 DEF UnloadedStay
  <2>1. Unwritten(writes, d)
    BY <1>5, <1>9 DEF UnloadedStay
  <2>2. QED BY <1>3, <2>1 DEF Unwritten
<1>12. SeedsAreCurrent'
  <2> SUFFICES ASSUME NEW c \in Calls, NEW d \in Plain',
                      calls'[c].at = "loaded", records'[d] = "none"
               PROVE  calls'[c].seeds[d] = rows'[d]
    BY DEF SeedsAreCurrent
  <2>1. calls[c].at = "loaded" /\ calls'[c].seeds = calls[c].seeds /\ load = "loading"
    BY <1>2, <1>6 DEF StageFits, Loading
  <2>2. d \in Plain /\ records[d] = "none"
    BY <1>1, <1>5
  <2>3. ~RowOf(w, d)
    BY <1>3, <1>9, <2>1, <2>2 DEF UnloadedStay, Unwritten
  <2>4. rows'[d] = rows[d]
    BY <1>4, <2>3
  <2>5. QED BY <1>9, <2>1, <2>2, <2>4 DEF SeedsAreCurrent
<1>13. AnswersSettle'
  <2> SUFFICES ASSUME NEW d \in Calls, calls'[d].at = "flush", calls'[d].export \in Plain'
               PROVE  Settles(writes', rows'[calls'[d].export], calls'[d].export,
                              calls'[d].wait, Outcome(calls'[d]))
    BY DEF AnswersSettle, Outcome
  <2> DEFINE x == calls[d].export
             n == calls[d].wait
             m == calls'[d].wait
             out == Outcome(calls[d])
  <2>1. /\ calls[d].at = "flush" /\ calls'[d].export = x /\ Outcome(calls'[d]) = out
        /\ x \in Plain'
    BY <1>6 DEF Outcome
  <2>2. n \in Nat /\ m \in Nat /\ n <= Len(writes)
        /\ (n = 0 => m = 0) /\ (n # 0 => m = n - 1)
    BY <1>6 DEF left
  <2>3. Settles(writes, rows[x], x, n, out)
    BY <1>5, <1>9, <2>1 DEF AnswersSettle
  <2>4. (RowOf(w, x) => rows'[x] = w.status) /\ (~RowOf(w, x) => rows'[x] = rows[x])
    BY <1>4, <2>1
  <2> HIDE DEF x, n, m, out
  <2>5. Settles(writes', rows'[x], x, m, out)
    BY <1>1, <1>2, <2>2, <2>3, <2>4, SettlesPopped DEF w
  <2>6. QED BY <2>1, <2>5 DEF m
<1>14. QED BY <1>7, <1>8, <1>10, <1>11, <1>12, <1>13 DEF MirrorInv, RowsFollow

\* a call moves alone: the queue, the table and the map stay
LEMMA MovesAlone ==
    ASSUME IInv, IInv', MirrorInv, NEW c \in Calls, NEW r,
           calls' = [calls EXCEPT ![c] = r],
           UNCHANGED <<writes, rows, records, lost, tangled>>,
           \/ load' = load
           \/ load = "none" /\ load' = "loading"
           \/ calls[c].at \in Loading /\ load' = "failed",
           StageFits(r, load', Len(writes)),
           r.at \in Loading => calls[c].at \in Loading \/ load = "none",
           r.at \in Making => /\ calls[c].at \in Making
                              /\ r.export = calls[c].export
                              /\ r.attached = calls[c].attached,
           r.export \in {calls[c].export, NoExport},
           r.at = "loaded" => r.seeds = rows,
           r.at = "flush" => r.export \notin Exports
    PROVE  MirrorInv'
<1>1. /\ calls \in [Calls -> CallRecords] /\ Len(writes) \in Nat
      /\ writes \in Seq(Writes) /\ writes' = writes
      /\ \A d \in Calls : /\ calls[d] \in CallRecords
                          /\ StageFits(calls[d], load, Len(writes))
                          /\ calls[d].at \in Making => calls[d].export \in Exports
  BY MirrorTypes
<1>2. calls'[c] = r /\ \A d \in Calls : d # c => calls'[d] = calls[d]
  BY <1>1
<1>3. calls' \in [Calls -> CallRecords]
  BY DEF IInv, CallTypes
<1>4. \A d \in Calls : d # c => Alike(calls[d], calls'[d])
  BY <1>1, <1>2 DEF Alike, CallRecords
<1>5. \A d \in Calls : d # c /\ calls[d].at \in Making /\ calls[d].export = r.export =>
          r.export = calls[c].export
  BY <1>1, ExportsAssumption
<1>6. load' = load \/ load = "none" \/ (calls[c].at \in Loading /\ load' # "none")
  OBVIOUS
<1>7. CallsFit'
  BY <1>1, <1>2, <1>3, <1>4, <1>5, <1>6, CallsFitMoved
<1>8. calls[c].at \in Loading => load = "loading"
  BY <1>1 DEF StageFits
<1>9. RowsFollow'
  BY <1>2, <1>8, RowsFollowMoved
<1>10. RecordTypes'
  BY DEF MirrorInv, RecordTypes
<1>11. QED BY <1>7, <1>9, <1>10 DEF MirrorInv

LEMMA ArriveMirror ==
    ASSUME IInv, IInv', MirrorInv, NEW c \in Calls,
           NEW op \in {"create", "discard", "look"}, Arrive(c, op)
    PROVE  MirrorInv'
<1> DEFINE r == calls[c]
           where == IF load = "none" THEN "loading" ELSE "handler"
           next == [r EXCEPT !.op = op, !.at = where]
<1>1. r \in CallRecords /\ StageFits(r, load, Len(writes)) /\ r.at = "idle"
  BY MirrorTypes DEF Arrive, At
<1>2. /\ calls' = [calls EXCEPT ![c] = next]
      /\ UNCHANGED <<writes, rows, records, lost, tangled>>
      /\ load' = IF load = "none" THEN "loading" ELSE load
  BY DEF Arrive, IInv, CallTypes, disk, past
<1> HIDE DEF r
<1>3. /\ next.op = op /\ next.at = where /\ next.export = r.export /\ next.wait = r.wait
      /\ next.seeds = r.seeds
  BY <1>1 DEF CallRecords
<1> HIDE DEF next
<1>4. /\ StageFits(next, load', Len(writes)) /\ next.at \notin Making
      /\ next.at \notin {"loaded", "flush"}
      /\ next.at \in Loading => load = "none"
  BY <1>1, <1>2, <1>3 DEF StageFits, Making, Loading
<1>5. QED BY <1>2, <1>3, <1>4, MovesAlone DEF r

LEMMA LoadRowsMirror ==
    ASSUME IInv, IInv', MirrorInv, NEW c \in Calls, LoadRows(c) PROVE MirrorInv'
<1> DEFINE r == calls[c]
           next == [r EXCEPT !.at = "loaded", !.seeds = rows]
<1>1. /\ r \in CallRecords /\ StageFits(r, load, Len(writes)) /\ r.at = "loading"
      /\ rows \in Rows
  BY MirrorTypes DEF LoadRows, At
<1>2. /\ calls' = [calls EXCEPT ![c] = next]
      /\ UNCHANGED <<writes, rows, records, lost, tangled, load>>
  BY DEF LoadRows, IInv, CallTypes, disk, past, memory
<1> HIDE DEF r
<1>3. /\ next.op = r.op /\ next.at = "loaded" /\ next.export = r.export
      /\ next.wait = r.wait /\ next.seeds = rows
  BY <1>1 DEF CallRecords
<1> HIDE DEF next
<1>4. StageFits(next, load', Len(writes)) /\ next.at \notin Making /\ r.at \in Loading
  BY <1>1, <1>2, <1>3 DEF StageFits, Making, Loading
<1>5. QED BY <1>2, <1>3, <1>4, MovesAlone DEF r

LEMMA IdleFits == ASSUME NEW ld, NEW n \in Nat PROVE StageFits(Idle, ld, n)
BY ExportsAssumption DEF Idle, StageFits, Making, Loading

\* answered, or refused before it had an export
LEMMA ClosesMirror ==
    ASSUME IInv, IInv', MirrorInv, NEW c \in Calls,
           UNCHANGED <<writes, rows, records, lost, tangled>>,
           load' = load \/ (calls[c].at \in Loading /\ load' = "failed"),
           \/ calls' = [calls EXCEPT ![c] = Idle]
           \/ /\ Flush(c, calls[c], writes)
              /\ calls[c].at \in Loading \cup {"open", "handler"}
              /\ calls[c].op # "look"
    PROVE  MirrorInv'
<1> DEFINE r == calls[c]
<1>1. r \in CallRecords /\ StageFits(r, load, Len(writes)) /\ Len(writes) \in Nat
  BY MirrorTypes
<1>2. CASE calls' = [calls EXCEPT ![c] = Idle]
  <2>1. /\ Idle.at = "idle" /\ Idle.export = NoExport /\ StageFits(Idle, load', Len(writes))
    BY <1>1, IdleFits DEF Idle
  <2>2. QED BY <1>2, <2>1, MovesAlone DEF Loading, Making
<1>3. CASE Flush(c, r, writes) /\ r.at \in Loading \cup {"open", "handler"} /\ r.op # "look"
  <2> DEFINE next == [Idle EXCEPT !.op = r.op, !.at = "flush", !.export = r.export,
                                  !.attached = r.attached, !.wait = Len(writes)]
  <2>1. calls' = [calls EXCEPT ![c] = next]
    BY <1>3 DEF Flush
  <2>2. /\ next.op = r.op /\ next.at = "flush" /\ next.export = r.export
        /\ next.wait = Len(writes)
    BY DEF Idle
  <2> HIDE DEF next, r
  <2>3. r.export \notin Exports /\ r.op \in {"create", "discard"} /\ load # "none"
    BY <1>1, <1>3 DEF StageFits, CallRecords, Loading, Making
  <2>4. load' # "none"
    BY <2>3
  <2>5. /\ StageFits(next, load', Len(writes)) /\ next.at \notin Making
        /\ next.at \notin Loading
    BY <1>1, <2>2, <2>3, <2>4 DEF StageFits, Making, Loading
  <2>6. QED BY <2>1, <2>2, <2>3, <2>5, MovesAlone DEF r
<1>4. QED BY <1>2, <1>3 DEF Flush

LEMMA LoadFailsMirror ==
    ASSUME IInv, IInv', MirrorInv, NEW c \in Calls, LoadFails(c) PROVE MirrorInv'
<1>1. /\ UNCHANGED <<writes, rows, records, lost, tangled>> /\ load' = "failed"
      /\ calls[c].at \in Loading
      /\ IF calls[c].op = "look" THEN calls' = [calls EXCEPT ![c] = Idle]
                                 ELSE Flush(c, calls[c], writes)
  BY DEF LoadFails, disk, past, At, Loading
<1>2. QED BY <1>1, ClosesMirror

LEMMA RefuseMirror ==
    ASSUME IInv, IInv', MirrorInv, NEW c \in Calls, Refuse(c) PROVE MirrorInv'
<1>1. /\ UNCHANGED <<writes, rows, records, lost, tangled, load>>
      /\ Flush(c, calls[c], writes) /\ calls[c].at \in {"open", "handler"}
      /\ calls[c].at = "open" \/ calls[c].op = "discard"
  BY DEF Refuse, memory, disk, past, At
<1>2. calls[c].op # "look"
  BY <1>1, MirrorTypes DEF StageFits
<1>3. QED BY <1>1, <1>2, ClosesMirror

LEMMA AnswerMirror ==
    ASSUME IInv, IInv', MirrorInv, NEW c \in Calls, Answer(c) PROVE MirrorInv'
<1>1. /\ UNCHANGED <<writes, rows, records, lost, tangled, load>>
      /\ calls' = [calls EXCEPT ![c] = Idle]
  BY DEF Answer, disk, past
<1>2. QED BY <1>1, ClosesMirror

\* a read goes on
LEMMA ReadsMirror ==
    ASSUME IInv, IInv', MirrorInv, NEW c \in Calls, NEW next,
           calls[c].at \in Making, calls' = [calls EXCEPT ![c] = next],
           next.at \in Making, next.op = calls[c].op,
           next.export = calls[c].export, next.attached = calls[c].attached,
           next.wait = calls[c].wait,
           UNCHANGED <<writes, rows, records, lost, tangled, load>>
    PROVE  MirrorInv'
<1>1. StageFits(calls[c], load, Len(writes))
  BY MirrorTypes
<1>2. next.at \notin Loading \cup {"loaded", "flush", "idle", "open"}
  BY DEF Making, Loading
<1>3. StageFits(next, load', Len(writes))
  BY <1>1, <1>2 DEF StageFits, Making
<1>4. QED BY <1>2, <1>3, MovesAlone

LEMMA ReadingMirror ==
    ASSUME IInv, IInv', MirrorInv, NEW c \in Calls,
           \/ ReadRevision(c) \/ List(c) \/ CheckRevision(c) \/ Retry(c)
           \/ \E f \in Files : ReadFile(c, f)
    PROVE  MirrorInv'
<1> DEFINE r == calls[c]
<1>1. r \in CallRecords /\ calls \in [Calls -> CallRecords]
  BY MirrorTypes
<1>2. /\ UNCHANGED <<writes, rows, records, lost, tangled, load>>
      /\ r.at \in Making
  BY DEF ReadRevision, List, CheckRevision, Retry, ReadFile, Changed, At, memory, disk, past,
         Making
<1>3. CASE ReadRevision(c)
  <2> DEFINE next == [r EXCEPT !.at = "list", !.revision = revision]
  <2>1. calls' = [calls EXCEPT ![c] = next]
    BY <1>1, <1>3 DEF ReadRevision
  <2>2. /\ next.at = "list" /\ next.op = r.op /\ next.export = r.export
        /\ next.attached = r.attached /\ next.wait = r.wait
    BY <1>1 DEF CallRecords
  <2> HIDE DEF next
  <2>3. next.at \in Making
    BY <2>2 DEF Making
  <2>4. QED BY <1>2, <2>1, <2>2, <2>3, ReadsMirror DEF r
<1>4. CASE List(c)
  <2> DEFINE next == [r EXCEPT !.at = "read", !.listed = Listing(tree)]
  <2>1. calls' = [calls EXCEPT ![c] = next]
    BY <1>1, <1>4 DEF List
  <2>2. /\ next.at = "read" /\ next.op = r.op /\ next.export = r.export
        /\ next.attached = r.attached /\ next.wait = r.wait
    BY <1>1 DEF CallRecords
  <2> HIDE DEF next
  <2>3. next.at \in Making
    BY <2>2 DEF Making
  <2>4. QED BY <1>2, <2>1, <2>2, <2>3, ReadsMirror DEF r
<1>5. CASE CheckRevision(c)
  <2> DEFINE next == [r EXCEPT !.at = "relist"]
  <2>1. calls' = [calls EXCEPT ![c] = next]
    BY <1>1, <1>5 DEF CheckRevision
  <2>2. /\ next.at = "relist" /\ next.op = r.op /\ next.export = r.export
        /\ next.attached = r.attached /\ next.wait = r.wait
    BY <1>1 DEF CallRecords
  <2> HIDE DEF next
  <2>3. next.at \in Making
    BY <2>2 DEF Making
  <2>4. QED BY <1>2, <2>1, <2>2, <2>3, ReadsMirror DEF r
<1>6. CASE Retry(c)
  <2> DEFINE next == [r EXCEPT !.at = "revision", !.tries = r.tries + 1,
                               !.revision = 0, !.listed = <<>>, !.content = <<>>]
  <2>1. calls' = [calls EXCEPT ![c] = next]
    BY <1>1, <1>6 DEF Retry
  <2>2. /\ next.at = "revision" /\ next.op = r.op /\ next.export = r.export
        /\ next.attached = r.attached /\ next.wait = r.wait
    BY <1>1 DEF CallRecords
  <2> HIDE DEF next
  <2>3. next.at \in Making
    BY <2>2 DEF Making
  <2>4. QED BY <1>2, <2>1, <2>2, <2>3, ReadsMirror DEF r
<1>7. CASE \E f \in Files : ReadFile(c, f)
  <2>1. PICK f \in Files : ReadFile(c, f)
    BY <1>7
  <2> DEFINE content == [g \in DOMAIN r.content \cup {f} |->
                           IF g = f THEN tree[f] ELSE r.content[g]]
             next == [r EXCEPT !.content = content]
  <2>2. calls' = [calls EXCEPT ![c] = next] /\ r.at = "read"
    BY <1>1, <2>1 DEF ReadFile, At
  <2> HIDE DEF content
  <2>3. /\ next.at = r.at /\ next.op = r.op /\ next.export = r.export
        /\ next.attached = r.attached /\ next.wait = r.wait
    BY <1>1 DEF CallRecords
  <2> HIDE DEF next
  <2>4. next.at \in Making
    BY <1>2, <2>3
  <2>5. QED BY <1>2, <2>2, <2>3, <2>4, ReadsMirror DEF r
<1>8. QED BY <1>3, <1>4, <1>5, <1>6, <1>7

LEMMA HydrateMirror ==
    ASSUME IInv, IInv', MirrorInv, NEW c \in Calls, Hydrate(c) PROVE MirrorInv'
<1> DEFINE r == calls[c]
           seeds == calls[c].seeds
           next == [r EXCEPT !.at = "handler", !.seeds = <<>>]
<1>1. /\ r \in CallRecords /\ StageFits(r, load, Len(writes)) /\ r.at = "loaded"
      /\ calls \in [Calls -> CallRecords] /\ records \in Rows
      /\ writes \in Seq(Writes) /\ Len(writes) \in Nat
      /\ \A d \in Calls : /\ calls[d] \in CallRecords
                          /\ StageFits(calls[d], load, Len(writes))
                          /\ calls[d].at \in Making => calls[d].export \in Exports
  BY MirrorTypes DEF Hydrate, At
<1>2. /\ calls' = [calls EXCEPT ![c] = next] /\ load' = "done"
      /\ UNCHANGED <<writes, rows, lost, tangled>>
      /\ records' = [e \in Exports |-> IF records[e] = "none" THEN seeds[e] ELSE records[e]]
  BY DEF Hydrate, IInv, CallTypes, disk, past
<1>3. seeds \in Rows /\ load = "loading"
  BY <1>1 DEF StageFits, Loading
<1>4. RecordTypes'
  BY <1>1, <1>2, <1>3 DEF RecordTypes, Rows
<1>5. /\ next.op = r.op /\ next.at = "handler" /\ next.export = r.export
      /\ next.wait = r.wait
  BY <1>1 DEF CallRecords
<1>6. calls'[c] = next /\ \A d \in Calls : d # c => calls'[d] = calls[d]
  BY <1>1, <1>2
<1> HIDE DEF next
<1>7. CallsFit'
  <2>1. \A d \in Calls : d # c => Alike(calls[d], calls'[d])
    BY <1>1, <1>6 DEF Alike, CallRecords
  <2>2. calls' \in [Calls -> CallRecords] /\ writes' \in Seq(Writes)
    BY DEF IInv, CallTypes, QueueTypes
  <2>3. /\ StageFits(next, load', Len(writes')) /\ next.at \notin Making
        /\ next.at \notin Loading /\ r.at \in Loading
    BY <1>1, <1>2, <1>5 DEF StageFits, Making, Loading
  <2>4. \A d \in Calls : next.export = r.export
    BY <1>5
  <2>5. QED BY <1>1, <1>2, <1>5, <1>6, <2>1, <2>2, <2>3, <2>4, CallsFitMoved
<1>8. MirrorSettles /\ UnloadedStay /\ SeedsAreCurrent /\ AnswersSettle /\ OneLoads
  BY DEF MirrorInv, RowsFollow, CallsFit
<1>9. Plain' = Plain /\ Plain \subseteq Exports
  BY <1>2 DEF Plain
<1>10. MirrorSettles'
  <2> SUFFICES ASSUME NEW e \in Plain
               PROVE  Settles(writes, rows[e], e, Len(writes), {records'[e]})
    BY <1>2, <1>9 DEF MirrorSettles
  <2>1. CASE records[e] # "none"
    BY <1>2, <1>8, <1>9, <2>1 DEF MirrorSettles
  <2>2. CASE records[e] = "none"
    <3>1. Unwritten(writes, e)
      BY <1>3, <1>8, <2>2 DEF UnloadedStay
    <3>2. records'[e] = rows[e]
      BY <1>1, <1>2, <1>8, <1>9, <2>2 DEF SeedsAreCurrent
    <3>3. QED BY <3>1, <3>2, UnwrittenSettles
  <2>3. QED BY <2>1, <2>2
<1>11. UnloadedStay'
  BY <1>2 DEF UnloadedStay
<1>12. SeedsAreCurrent'
  BY <1>1, <1>5, <1>6, <1>8 DEF SeedsAreCurrent, OneLoads, Loading
<1>13. AnswersSettle'
  <2> SUFFICES ASSUME NEW d \in Calls, calls'[d].at = "flush", calls'[d].export \in Plain
               PROVE  Settles(writes, rows[calls'[d].export], calls'[d].export,
                              calls'[d].wait, Outcome(calls'[d]))
    BY <1>2, <1>9 DEF AnswersSettle, Outcome
  <2>1. d # c
    BY <1>5, <1>6
  <2>2. QED BY <1>6, <1>8, <2>1 DEF AnswersSettle
<1>14. QED BY <1>4, <1>7, <1>10, <1>11, <1>12, <1>13 DEF MirrorInv, RowsFollow

-----------------------------------------------------------------------------
(* Batches.                                                                *)

LEMMA DeletionsConfined ==
    ASSUME NEW es \in SUBSET Exports, NEW order \in Orders(es), NEW e, NEW s
    PROVE  Confined(DeleteObjects(order), e, s)
BY DeletionBatch DEF Confined, RowOf

LEMMA SaveCloses ==
    ASSUME NEW e \in Exports, NEW s PROVE Closes(Save(e, s), e, s)
<1>1. /\ Len(Save(e, s)) = 1
      /\ Save(e, s)[1] = [kind |-> "save", export |-> e, status |-> s]
  BY DEF Save
<1>2. QED BY <1>1 DEF Closes, Confined, RowOf

\* the row is written once, at the end
LEMMA RowLast ==
    ASSUME NEW batch \in Seq(Writes), NEW w \in Writes, NEW e \in Exports,
           w.export = e, w.kind \in {"save", "deleteRow"},
           \A i \in 1 .. Len(batch) : batch[i].kind \notin {"save", "deleteRow"}
    PROVE  Closes(batch \o <<w>>, e, w.status)
<1> DEFINE longer == batch \o <<w>>
<1>1. /\ Len(batch) \in Nat /\ Len(longer) = Len(batch) + 1
      /\ \A i \in 1 .. Len(batch) : longer[i] = batch[i]
      /\ longer[Len(batch) + 1] = w
  OBVIOUS
<1> HIDE DEF longer
<1>2. ASSUME NEW i \in 1 .. Len(longer)
      PROVE  i \in 1 .. Len(batch) \/ longer[i] = w
  BY <1>1
<1>3. Confined(longer, e, w.status)
  BY <1>1, <1>2 DEF Confined, RowOf
<1>4. RowOf(longer[Len(longer)], e) /\ Len(longer) > 0
  BY <1>1 DEF RowOf
<1>5. QED BY <1>3, <1>4 DEF Closes, longer

LEMMA PackingCloses ==
    ASSUME NEW es \in SUBSET Exports, NEW order \in Orders(es), NEW e \in Exports
    PROVE  Closes(Packing(e, order), e, "ready")
<1> DEFINE deletions == DeleteObjects(order)
           put == [kind |-> "putObject", export |-> e, status |-> "none"]
           save == [kind |-> "save", export |-> e, status |-> "ready"]
           batch == deletions \o <<put>>
<1>1. /\ deletions \in Seq(Writes)
      /\ \A i \in 1 .. Len(deletions) : deletions[i].kind = "deleteObject"
  BY DeletionBatch
<1>2. Packing(e, order) = batch \o <<save>>
  BY DEF Packing, PutObject, Save
<1>3. /\ put \in Writes /\ save \in Writes /\ put.kind = "putObject"
      /\ save.kind = "save" /\ save.export = e /\ save.status = "ready"
  BY DEF Writes, Kinds, Statuses
<1> HIDE DEF deletions, put, save
<1>4. /\ batch \in Seq(Writes) /\ Len(batch) = Len(deletions) + 1 /\ Len(deletions) \in Nat
      /\ \A i \in 1 .. Len(deletions) : batch[i] = deletions[i]
      /\ batch[Len(deletions) + 1] = put
  BY <1>1, <1>3
<1> HIDE DEF batch
<1>5. ASSUME NEW i \in 1 .. Len(batch)
      PROVE  i \in 1 .. Len(deletions) \/ batch[i] = put
  BY <1>4
<1>6. \A i \in 1 .. Len(batch) : batch[i].kind \notin {"save", "deleteRow"}
  BY <1>1, <1>3, <1>4, <1>5
<1>7. Closes(batch \o <<save>>, e, save.status)
  BY <1>3, <1>4, <1>6, RowLast
<1>8. QED BY <1>2, <1>3, <1>7

LEMMA DiscardingCloses ==
    ASSUME NEW e \in Exports PROVE Closes(Discarding(e), e, "none")
<1> DEFINE object == [kind |-> "deleteObject", export |-> e, status |-> "none"]
           row == [kind |-> "deleteRow", export |-> e, status |-> "none"]
           head == IF e \in archives THEN <<object>> ELSE <<>>
<1>1. /\ object \in Writes /\ row \in Writes /\ object.kind = "deleteObject"
      /\ row.kind = "deleteRow" /\ row.export = e /\ row.status = "none"
  BY DEF Writes, Kinds, Statuses
<1>2. Discarding(e) = head \o <<row>>
  BY DEF Discarding, DeleteRow, DeleteObjects
<1> HIDE DEF object, row
<1>3. /\ head \in Seq(Writes)
      /\ \A i \in 1 .. Len(head) : head[i].kind \notin {"save", "deleteRow"}
  BY <1>1
<1> HIDE DEF head
<1>4. Closes(head \o <<row>>, e, row.status)
  BY <1>1, <1>3, RowLast
<1>5. QED BY <1>1, <1>2, <1>4

LEMMA BatchMirror ==
    ASSUME IInv, IInv', MirrorInv, NEW c \in Calls, NEW r,
           calls' = [calls EXCEPT ![c] = r],
           NEW batch \in Seq(Writes), writes' = writes \o batch,
           UNCHANGED <<rows, lost, load, tangled>>, records' \in Rows,
           NEW e, NEW s, Confined(batch, e, s),
           \A d \in Exports : d # e => records'[d] = records[d],
           e \in Plain => Closes(batch, e, s) /\ records'[e] = s /\ s # "none",
           StageFits(r, load, Len(writes')), r.at \notin Loading,
           r.at \in Making => r.attached,
           \/ r.export \in {calls[c].export, NoExport} /\ r.at \notin Making
           \/ \A d \in Calls : calls[d].export # r.export,
           r.at = "flush" => /\ r.export = e /\ r.wait = Len(writes')
                             /\ e \in Plain => s \in Outcome(r),
           \A d \in Calls : d # c /\ calls[d].at = "flush" /\ calls[d].export = e =>
               e \notin Plain
    PROVE  MirrorInv'
<1>1. /\ calls \in [Calls -> CallRecords] /\ Len(writes) \in Nat
      /\ writes \in Seq(Writes)
      /\ \A d \in Calls : /\ calls[d] \in CallRecords
                          /\ calls[d].at \in Making => calls[d].export \in Exports
  BY MirrorTypes
<1>2. calls'[c] = r /\ \A d \in Calls : d # c => calls'[d] = calls[d]
  BY <1>1
<1>3. calls' \in [Calls -> CallRecords] /\ writes' \in Seq(Writes)
  BY DEF IInv, CallTypes, QueueTypes
<1>4. \A d \in Calls : d # c => Alike(calls[d], calls'[d])
  BY <1>1, <1>2 DEF Alike, CallRecords
<1>5. \A d \in Calls : d # c /\ calls[d].at \in Making /\ calls[d].export = r.export =>
          r.export = calls[c].export
  BY <1>1, ExportsAssumption
<1>6. Len(writes) <= Len(writes')
  BY <1>1
<1>7. CallsFit'
  <2>1. load' = load /\ tangled \subseteq tangled'
    OBVIOUS
  <2>2. StageFits(r, load', Len(writes'))
    BY <2>1
  <2>3. r.at \in Making =>
          \/ /\ calls[c].at \in Making /\ r.export = calls[c].export
             /\ r.attached = calls[c].attached
          \/ r.attached /\ \A d \in Calls : calls[d].export # r.export
    OBVIOUS
  <2>4. \A d \in Calls :
          d # c /\ calls[d].at \in Making /\ calls[d].export = r.export =>
              r.export \in tangled' \/ r.export = calls[c].export
    BY <1>5
  <2>5. QED BY <1>2, <1>3, <1>4, <1>6, <2>1, <2>2, <2>3, <2>4, CallsFitMoved
<1>8. RecordTypes'
  BY DEF MirrorInv, RecordTypes
<1>9. Plain' = Plain
  BY DEF Plain
<1>10. \A d \in Calls : calls'[d].at = "loaded" =>
          calls[d].at = "loaded" /\ calls'[d].seeds = calls[d].seeds
  BY <1>2 DEF Loading
<1>11. ASSUME NEW d \in Calls, calls'[d].at = "flush", calls'[d].export \in Plain
       PROVE  \/ /\ calls'[d].export = e => s \in Outcome(calls'[d])
                 /\ calls[d].at = "flush" /\ calls'[d].export = calls[d].export
                 /\ calls'[d].wait = calls[d].wait
                 /\ Outcome(calls[d]) \subseteq Outcome(calls'[d])
              \/ /\ calls'[d].export = e /\ calls'[d].wait = Len(writes')
                 /\ s \in Outcome(calls'[d])
  <2>1. CASE d = c
    BY <1>2, <1>11, <2>1
  <2>2. CASE d # c
    BY <1>2, <1>11, <2>2
  <2>3. QED BY <2>1, <2>2
<1>12. RowsFollow'
  <2>1. /\ UNCHANGED <<rows, lost, load>> /\ tangled \subseteq tangled'
        /\ \A d \in Exports : d # e => records'[d] = records[d]
    OBVIOUS
  <2>2. e \in Plain' => /\ Closes(batch, e, s) /\ records'[e] = s
                       /\ (s = "none" => load \notin {"none", "loading"})
    BY <1>9
  <2>3. \A d \in Calls : calls'[d].at = "flush" /\ calls'[d].export \in Plain' =>
          \/ /\ calls'[d].export = e => s \in Outcome(calls'[d])
             /\ calls[d].at = "flush" /\ calls'[d].export = calls[d].export
             /\ calls'[d].wait = calls[d].wait
             /\ Outcome(calls[d]) \subseteq Outcome(calls'[d])
          \/ /\ calls'[d].export = e /\ calls'[d].wait = Len(writes')
             /\ s \in Outcome(calls'[d])
    BY <1>9, <1>11
  <2>4. QED BY <1>10, <2>1, <2>2, <2>3, RowsFollowBatch, ZenonT(60)
<1>13. QED BY <1>7, <1>8, <1>12 DEF MirrorInv

LEMMA SweepMirror ==
    ASSUME IInv, IInv', MirrorInv, NEW c \in Calls, Sweep(c) PROVE MirrorInv'
<1> DEFINE r == calls[c]
           open == [r EXCEPT !.at = "open"]
           next == IF r.op = "look" THEN Idle ELSE open
<1>1. /\ r \in CallRecords /\ StageFits(r, load, Len(writes)) /\ r.at = "handler"
      /\ calls \in [Calls -> CallRecords] /\ Len(writes) \in Nat /\ writes \in Seq(Writes)
      /\ records \in Rows
  BY MirrorTypes DEF Sweep, At
<1>2. PICK order \in Orders(Swept) : writes' = writes \o DeleteObjects(order)
  BY DEF Sweep
<1>3. /\ calls' = [calls EXCEPT ![c] = next]
      /\ UNCHANGED <<rows, lost, load, tangled>> /\ records' = records
      /\ r.op \in {"look", "create"}
  BY <1>1 DEF Sweep, disk
<1>4. DeleteObjects(order) \in Seq(Writes) /\ Confined(DeleteObjects(order), NoExport, "none")
  <2>1. Swept \in SUBSET Exports
    BY DEF Swept
  <2>2. QED BY <2>1, DeletionBatch, DeletionsConfined
<1> DEFINE batch == DeleteObjects(order)
<1> HIDE DEF batch
<1>5. batch \in Seq(Writes) /\ writes' = writes \o batch /\ Confined(batch, NoExport, "none")
  BY <1>2, <1>4 DEF batch
<1>6. Len(writes') \in Nat /\ Len(writes) <= Len(writes')
  BY <1>1, <1>5
<1> HIDE DEF r
<1>7. /\ open.at = "open" /\ open.op = r.op /\ open.export = r.export
      /\ open.wait = r.wait /\ r.wait \in Nat
  BY <1>1 DEF CallRecords
<1> HIDE DEF open
<1>8. StageFits(next, load, Len(writes'))
  <2>1. StageFits(Idle, load, Len(writes'))
    BY <1>6, IdleFits
  <2>2. r.op # "look" => StageFits(open, load, Len(writes'))
    BY <1>1, <1>3, <1>6, <1>7 DEF StageFits, Making, Loading
  <2>3. QED BY <2>1, <2>2
<1>9. /\ next.at \in {"idle", "open"} /\ next.export \in {r.export, NoExport}
  BY <1>7 DEF Idle
<1> HIDE DEF next
<1>10. next.at \notin Loading /\ next.at \notin Making /\ next.at # "flush"
  BY <1>9 DEF Loading, Making
<1>11. NoExport \notin Plain
  BY ExportsAssumption DEF Plain
<1>12. next.export \in {calls[c].export, NoExport}
  BY <1>9 DEF r
<1>13. QED BY <1>1, <1>3, <1>5, <1>8, <1>10, <1>11, <1>12, BatchMirror

LEMMA OpenMirror ==
    ASSUME IInv, IInv', MirrorInv, NEW c \in Calls, NEW e \in Exports, Open(c, e)
    PROVE  MirrorInv'
<1> DEFINE r == calls[c]
           next == [r EXCEPT !.at = "revision", !.export = e, !.attached = TRUE]
           batch == Save(e, "running")
<1>1. /\ r \in CallRecords /\ StageFits(r, load, Len(writes)) /\ r.at = "open"
      /\ calls \in [Calls -> CallRecords] /\ Len(writes) \in Nat /\ writes \in Seq(Writes)
      /\ records \in Rows
  BY MirrorTypes DEF Open, At
<1>2. /\ calls' = [calls EXCEPT ![c] = next] /\ writes' = writes \o batch
      /\ records' = [records EXCEPT ![e] = "running"]
      /\ UNCHANGED <<rows, lost, load, tangled>>
      /\ \A d \in Calls : calls[d].export # e
  BY <1>1 DEF Open, disk, past, Fresh
<1>3. batch \in Seq(Writes) /\ Closes(batch, e, "running") /\ Confined(batch, e, "running")
  <2>1. batch \in Seq(Writes)
    BY SaveBatch DEF Statuses
  <2>2. Closes(batch, e, "running")
    BY SaveCloses
  <2>3. QED BY <2>1, <2>2 DEF Closes
<1> HIDE DEF batch, r
<1>4. Len(writes') \in Nat /\ Len(writes) <= Len(writes')
  BY <1>1, <1>2, <1>3
<1>5. /\ records' \in Rows /\ records'[e] = "running"
      /\ \A d \in Exports : d # e => records'[d] = records[d]
  BY <1>1, <1>2 DEF Rows, Statuses
<1>6. /\ next.at = "revision" /\ next.op = r.op /\ next.export = e
      /\ next.wait = r.wait /\ r.wait \in Nat /\ next.attached = TRUE
  BY <1>1 DEF CallRecords
<1> HIDE DEF next
<1>7. StageFits(next, load, Len(writes')) /\ next.at \notin Loading
  BY <1>1, <1>4, <1>6 DEF StageFits, Making, Loading
<1>8. /\ e \in Plain => Closes(batch, e, "running") /\ records'[e] = "running"
                        /\ "running" # "none"
      /\ next.at \in Making => next.attached
      /\ \A d \in Calls : calls[d].export # next.export
      /\ next.at # "flush"
  BY <1>2, <1>3, <1>5, <1>6
<1>9. \A d \in Calls : d # c /\ calls[d].at = "flush" /\ calls[d].export = e => e \notin Plain
  BY <1>2
<1>10. QED BY <1>2, <1>3, <1>5, <1>7, <1>8, <1>9, BatchMirror, ZenonT(60)

\* a creation ends, with a batch that closes its export's row
LEMMA EndMirror ==
    ASSUME IInv, IInv', MirrorInv, NEW c \in Calls, NEW s \in {"ready", "failed"},
           calls[c].at \in Making, NEW batch \in Seq(Writes), writes' = writes \o batch,
           Closes(batch, calls[c].export, s),
           Flush(c, calls[c], writes'), Settle(c, s),
           UNCHANGED <<rows, lost, load, tangled>>
    PROVE  MirrorInv'
<1> DEFINE r == calls[c]
           e == calls[c].export
           next == [Idle EXCEPT !.op = r.op, !.at = "flush", !.export = r.export,
                                !.attached = r.attached, !.wait = Len(writes')]
<1>1. /\ r \in CallRecords /\ StageFits(r, load, Len(writes)) /\ e \in Exports
      /\ calls \in [Calls -> CallRecords] /\ Len(writes) \in Nat /\ writes \in Seq(Writes)
      /\ records \in Rows
  BY MirrorTypes
<1>2. calls' = [calls EXCEPT ![c] = next]
  BY DEF Flush
<1>3. /\ next.at = "flush" /\ next.op = r.op /\ next.export = e
      /\ next.wait = Len(writes') /\ next.attached = r.attached
  BY DEF Idle
<1> HIDE DEF next
<1>4. OneMakes /\ DetachedAreTangled
  BY DEF MirrorInv, CallsFit
<1>5. e \in Plain => r.attached
  BY <1>4 DEF DetachedAreTangled, Plain
<1>6. \A d \in Calls : d # c /\ calls[d].at = "flush" /\ calls[d].export = e => e \notin Plain
  BY <1>4 DEF OneMakes, Plain
<1>7. Len(writes') \in Nat /\ Len(writes) <= Len(writes')
  BY <1>1
<1>8. r.op = "create" /\ load # "none"
  BY <1>1 DEF StageFits, Making
<1>9. records' = IF r.attached THEN [records EXCEPT ![e] = s] ELSE records
  BY DEF Settle
<1> HIDE DEF r, e
<1>10. /\ StageFits(next, load, Len(writes')) /\ next.at \notin Loading
       /\ next.at \notin Making
  BY <1>1, <1>3, <1>7, <1>8 DEF StageFits, Making, Loading
<1>11. e \in Plain => s \in Outcome(next)
  BY <1>3, <1>5, <1>8 DEF Outcome
<1>12. /\ records' \in Rows
       /\ e \in Plain => records'[e] = s
       /\ \A d \in Exports : d # e => records'[d] = records[d]
  BY <1>1, <1>5, <1>9 DEF Rows, Statuses
<1>13. Closes(batch, e, s) /\ Confined(batch, e, s)
  BY DEF Closes, e, r
<1>14. next.export \in {calls[c].export, NoExport} /\ s # "none"
  BY <1>3 DEF e, r
<1>15. /\ e \in Plain => Closes(batch, e, s) /\ records'[e] = s /\ s # "none"
       /\ next.at \in Making => next.attached
       /\ next.export \in {calls[c].export, NoExport} /\ next.at \notin Making
       /\ next.at = "flush" =>
            /\ next.export = e /\ next.wait = Len(writes')
            /\ e \in Plain => s \in Outcome(next)
  BY <1>3, <1>10, <1>11, <1>12, <1>13, <1>14
<1>16. QED BY <1>2, <1>6, <1>10, <1>12, <1>13, <1>15, BatchMirror, ZenonT(60)

LEMMA GiveUpMirror ==
    ASSUME IInv, IInv', MirrorInv, NEW c \in Calls, GiveUp(c) PROVE MirrorInv'
<1> DEFINE e == calls[c].export
           batch == Save(e, "failed")
<1>1. /\ calls[c].at \in Making /\ writes' = writes \o batch
      /\ Flush(c, calls[c], writes') /\ Settle(c, "failed")
      /\ UNCHANGED <<rows, lost, load, tangled>>
  BY DEF GiveUp, GivesUp, Changed, At, Making, disk, past
<1>2. e \in Exports
  BY <1>1, MakingExports
<1>3. batch \in Seq(Writes) /\ Closes(batch, e, "failed")
  BY <1>2, SaveBatch, SaveCloses DEF Statuses
<1> HIDE DEF batch
<1>4. QED BY <1>1, <1>3, EndMirror

LEMMA PackMirror ==
    ASSUME IInv, IInv', MirrorInv, NEW c \in Calls, Pack(c) PROVE MirrorInv'
<1> DEFINE e == calls[c].export
<1>1. PICK order \in Orders(Surplus) : writes' = writes \o Packing(e, order)
  BY DEF Pack
<1> DEFINE batch == Packing(e, order)
<1>2. /\ calls[c].at \in Making
      /\ Flush(c, calls[c], writes') /\ Settle(c, "ready")
      /\ UNCHANGED <<rows, lost, load, tangled>>
  BY DEF Pack, At, Making, disk
<1>3. e \in Exports /\ Surplus \in SUBSET Exports
  BY <1>2, MakingExports DEF IInv, QueueTypes, Surplus
<1>4. Closes(batch, e, "ready")
  BY <1>3, PackingCloses
<1>5. batch \in Seq(Writes)
  BY <1>3, PackingBatch
<1> HIDE DEF batch
<1>6. writes' = writes \o batch
  BY <1>1 DEF batch
<1>7. QED BY <1>2, <1>4, <1>5, <1>6, EndMirror

LEMMA DiscardMirror ==
    ASSUME IInv, IInv', MirrorInv, NEW c \in Calls, NEW e \in Exports, Discard(c, e)
    PROVE  MirrorInv'
<1> DEFINE mine == [Idle EXCEPT !.op = "discard", !.at = "flush", !.export = e,
                                !.wait = Len(writes')]
           theirs(d) == [calls[d] EXCEPT !.attached = @ /\ calls[d].export # e]
           batch == Discarding(e)
<1>1. /\ calls \in [Calls -> CallRecords] /\ Len(writes) \in Nat /\ writes \in Seq(Writes)
      /\ records \in Rows
      /\ \A d \in Calls : /\ calls[d] \in CallRecords
                          /\ StageFits(calls[d], load, Len(writes))
                          /\ calls[d].at \in Making => calls[d].export \in Exports
  BY MirrorTypes
<1>2. /\ calls' = [d \in Calls |-> IF d = c THEN mine ELSE theirs(d)]
      /\ writes' = writes \o batch /\ records' = [records EXCEPT ![e] = "none"]
      /\ UNCHANGED <<rows, lost, load>> /\ calls[c].at = "handler"
      /\ tangled' = IF Underway(e) THEN tangled \cup {e} ELSE tangled
  BY DEF Discard, disk, At
<1>3. batch \in Seq(Writes) /\ Closes(batch, e, "none") /\ Confined(batch, e, "none")
  BY DiscardingBatch, DiscardingCloses DEF Closes
<1>4. /\ mine.op = "discard" /\ mine.at = "flush" /\ mine.export = e
      /\ mine.wait = Len(writes')
  BY DEF Idle
<1>5. ASSUME NEW d \in Calls
      PROVE  /\ theirs(d).op = calls[d].op /\ theirs(d).at = calls[d].at
             /\ theirs(d).export = calls[d].export /\ theirs(d).seeds = calls[d].seeds
             /\ theirs(d).wait = calls[d].wait /\ calls[d].wait \in Nat
             /\ theirs(d).attached = (calls[d].attached /\ calls[d].export # e)
             /\ calls[d].attached \in BOOLEAN
  BY <1>1 DEF CallRecords
<1> HIDE DEF batch, mine, theirs
<1>6. /\ Len(writes') \in Nat /\ Len(writes) <= Len(writes')
      /\ tangled \subseteq tangled'
  BY <1>1, <1>2, <1>3
<1>7. ASSUME NEW d \in Calls, d # c
      PROVE  /\ calls'[d].op = calls[d].op /\ calls'[d].at = calls[d].at
             /\ calls'[d].export = calls[d].export /\ calls'[d].seeds = calls[d].seeds
             /\ calls'[d].wait = calls[d].wait /\ calls[d].wait \in Nat
             /\ calls'[d].attached = (calls[d].attached /\ calls[d].export # e)
             /\ calls[d].attached \in BOOLEAN
  BY <1>2, <1>5, <1>7
<1>8. calls'[c] = mine
  BY <1>2
<1>9. ASSUME NEW d \in Calls, calls[d].at \in Making, calls[d].export = e
      PROVE  e \in tangled'
  BY <1>2, <1>9 DEF Underway, Making
<1>10. CallsFit'
  <2>1. ASSUME NEW d \in Calls, d # c PROVE Alike(calls[d], calls'[d])
    <3>1. calls'[d].wait <= calls[d].wait
      BY <1>7, <2>1
    <3>2. ASSUME calls'[d].attached # calls[d].attached PROVE calls[d].export = e
      BY <1>7, <2>1, <3>2
    <3>3. QED BY <1>7, <1>9, <2>1, <3>1, <3>2 DEF Alike
  <2>2. calls' \in [Calls -> CallRecords] /\ writes' \in Seq(Writes)
    BY DEF IInv, CallTypes, QueueTypes
  <2>3. load # "none"
    BY <1>1, <1>2 DEF StageFits
  <2>4. load' = load
    BY <1>2
  <2>5. /\ StageFits(mine, load', Len(writes')) /\ mine.at \notin Making
        /\ mine.at \notin Loading
    BY <1>4, <1>6, <2>3, <2>4 DEF StageFits, Making, Loading
  <2>6. \A d \in Calls : d # c /\ calls[d].at \in Making /\ calls[d].export = mine.export =>
          mine.export \in tangled' \/ mine.export = calls[c].export
    BY <1>4, <1>9
  <2>7. QED BY <1>6, <1>8, <2>1, <2>2, <2>4, <2>5, <2>6, CallsFitMoved
<1>11. RowsFollow'
  <2>1. \A d \in Exports : d # e => records'[d] = records[d]
    BY <1>1, <1>2 DEF Rows
  <2>2. e \in Plain' => /\ Closes(batch, e, "none") /\ records'[e] = "none"
                       /\ ("none" = "none" => load \notin {"none", "loading"})
    <3>1. load # "none"
      BY <1>1, <1>2 DEF StageFits
    <3>2. load = "loading" => e \in tangled'
      BY <1>2 DEF Underway
    <3>3. records'[e] = "none"
      BY <1>1, <1>2 DEF Rows
    <3>4. QED BY <1>3, <3>1, <3>2, <3>3 DEF Plain
  <2>3. \A d \in Calls : calls'[d].at = "loaded" =>
          calls[d].at = "loaded" /\ calls'[d].seeds = calls[d].seeds
    BY <1>4, <1>7, <1>8
  <2>4. ASSUME NEW d \in Calls, calls'[d].at = "flush", calls'[d].export \in Plain'
        PROVE  \/ /\ calls'[d].export = e => "none" \in Outcome(calls'[d])
                  /\ calls[d].at = "flush" /\ calls'[d].export = calls[d].export
                  /\ calls'[d].wait = calls[d].wait
                  /\ Outcome(calls[d]) \subseteq Outcome(calls'[d])
               \/ /\ calls'[d].export = e /\ calls'[d].wait = Len(writes')
                  /\ "none" \in Outcome(calls'[d])
    <3>1. CASE d = c
      BY <1>4, <1>8, <3>1 DEF Outcome
    <3>2. CASE d # c
      <4>1. /\ calls[d].at = "flush" /\ calls'[d].export = calls[d].export
            /\ calls'[d].wait = calls[d].wait
        BY <1>7, <2>4, <3>2
      <4>2. calls'[d].export = e => "none" \in Outcome(calls'[d])
        BY <1>7, <3>2 DEF Outcome
      <4>3. Outcome(calls[d]) \subseteq Outcome(calls'[d])
        BY <1>7, <3>2 DEF Outcome
      <4>4. QED BY <4>1, <4>2, <4>3
    <3>3. QED BY <3>1, <3>2
  <2>5. UNCHANGED <<rows, lost, load>>
    BY <1>2
  <2>6. QED BY <1>2, <1>3, <1>6, <2>1, <2>2, <2>3, <2>4, <2>5, RowsFollowBatch, ZenonT(60)
<1>12. RecordTypes'
  BY <1>1, <1>2 DEF MirrorInv, RecordTypes, Rows, Statuses
<1>13. QED BY <1>10, <1>11, <1>12 DEF MirrorInv

-----------------------------------------------------------------------------
(* Every step keeps the mirror.                                            *)

LEMMA InitMirror == Init => MirrorInv
<1> SUFFICES ASSUME Init PROVE MirrorInv
  OBVIOUS
<1>1. /\ calls = [c \in Calls |-> Idle] /\ load = "none" /\ writes = <<>>
      /\ records = [e \in Exports |-> "none"] /\ rows = records
  BY DEF Init
<1>2. RecordTypes
  BY <1>1 DEF RecordTypes, Rows, Statuses
<1>3. Idle.at = "idle" /\ Len(writes) = 0 /\ StageFits(Idle, load, 0)
  BY <1>1, IdleFits DEF Idle
<1>4. CallsFit
  BY <1>1, <1>3 DEF CallsFit, StagesFit, OneLoads, OneMakes, DetachedAreTangled, Making, Loading
<1>5. RowsFollow
  BY <1>1, <1>3 DEF RowsFollow, MirrorSettles, UnloadedStay, SeedsAreCurrent, AnswersSettle,
                   Settles, Unwritten, Plain
<1>6. QED BY <1>2, <1>4, <1>5 DEF MirrorInv

LEMMA CrashMirror ==
    ASSUME Crash PROVE MirrorInv'
<1>1. /\ calls' = [c \in Calls |-> Idle] /\ load' = "none" /\ writes' = <<>>
      /\ records' = [e \in Exports |-> "none"]
  BY DEF Crash
<1>2. RecordTypes'
  BY <1>1 DEF RecordTypes, Rows, Statuses
<1>3. Idle.at = "idle" /\ Len(writes') = 0 /\ StageFits(Idle, load', 0)
  BY <1>1, IdleFits DEF Idle
<1>4. CallsFit'
  BY <1>1, <1>3 DEF CallsFit, StagesFit, OneLoads, OneMakes, DetachedAreTangled, Making, Loading
<1>5. RowsFollow'
  BY <1>1, <1>3 DEF RowsFollow, MirrorSettles, UnloadedStay, SeedsAreCurrent, AnswersSettle,
                   Settles, Unwritten, Plain
<1>6. QED BY <1>2, <1>4, <1>5 DEF MirrorInv

LEMMA RestMirror ==
    ASSUME MirrorInv, UNCHANGED <<records, writes, load, rows, calls, lost, tangled>>
    PROVE  MirrorInv'
<1>1. Plain' = Plain
  BY DEF Plain
<1>2. RecordTypes' /\ CallsFit'
  BY DEF MirrorInv, RecordTypes, CallsFit, StagesFit, OneLoads, OneMakes, DetachedAreTangled
<1>3. RowsFollow'
  BY <1>1 DEF MirrorInv, RowsFollow, MirrorSettles, UnloadedStay, SeedsAreCurrent,
              AnswersSettle, Outcome
<1>4. QED BY <1>2, <1>3 DEF MirrorInv

LEMMA StepMirror == IInv /\ IInv' /\ MirrorInv /\ [Next]_vars => MirrorInv'
<1> SUFFICES ASSUME IInv, IInv', MirrorInv, [Next]_vars PROVE MirrorInv'
  OBVIOUS
<1>1. CASE \E c \in Calls : Handle(c)
  <2>1. PICK c \in Calls : Handle(c)
    BY <1>1
  <2>2. CASE \E op \in {"create", "discard", "look"} : Arrive(c, op)
    BY <2>2, ArriveMirror
  <2>3. CASE LoadRows(c) \/ LoadFails(c) \/ Hydrate(c)
    BY <2>3, LoadRowsMirror, LoadFailsMirror, HydrateMirror
  <2>4. CASE Sweep(c) \/ Refuse(c)
    BY <2>4, SweepMirror, RefuseMirror
  <2>5. CASE \E e \in Exports : Open(c, e) \/ Discard(c, e)
    BY <2>5, OpenMirror, DiscardMirror
  <2>6. CASE \/ ReadRevision(c) \/ List(c) \/ CheckRevision(c) \/ Retry(c)
             \/ \E f \in Files : ReadFile(c, f)
    BY <2>6, ReadingMirror
  <2>7. CASE GiveUp(c) \/ Pack(c) \/ Answer(c)
    BY <2>7, GiveUpMirror, PackMirror, AnswerMirror
  <2>8. QED BY <2>1, <2>2, <2>3, <2>4, <2>5, <2>6, <2>7 DEF Handle
<1>2. CASE Write \/ WriteFails
  BY <1>2, RowsFollowWrite
<1>3. CASE (\E f \in Files : Edit(f)) \/ Expire
  BY <1>3, RestMirror DEF Edit, Expire, memory, disk, past
<1>4. CASE Crash
  BY <1>4, CrashMirror
<1>5. CASE UNCHANGED vars
  BY <1>5, RestMirror DEF vars, disk, past
<1>6. QED BY <1>1, <1>2, <1>3, <1>4, <1>5 DEF Next

LEMMA MirrorHolds == Spec => [](IInv /\ MirrorInv)
<1>1. Init => IInv /\ MirrorInv
  BY InitInvariant, InitMirror
<1>2. IInv /\ MirrorInv /\ [Next]_vars => IInv' /\ MirrorInv'
  BY StepInvariant, StepMirror
<1>3. QED BY <1>1, <1>2, PTL DEF Spec

(* Between requests the mirror and the table say the same of every export, *)
(* whatever crashed, expired or was edited, unless a write of the export   *)
(* failed or it was discarded while it was made or loaded.                 *)
THEOREM QuietMirrorsMatch == Spec => []QuietMirrorMatches
<1>1. MirrorInv => QuietMirrorMatches
  <2> SUFFICES ASSUME MirrorInv, load = "done", writes = <<>>,
                      NEW e \in Exports \ (lost \cup tangled)
               PROVE  records[e] = rows[e]
    BY DEF QuietMirrorMatches
  <2>1. Settles(writes, rows[e], e, Len(writes), {records[e]})
    BY DEF MirrorInv, RowsFollow, MirrorSettles, Plain
  <2>2. Len(writes) = 0
    OBVIOUS
  <2>3. QED BY <2>1, <2>2 DEF Settles
<1>2. QED BY <1>1, MirrorHolds, PTL

(* What a mutating request was answered is in the table: the wait for the  *)
(* queue covers every write of its export, and none that comes later       *)
(* undoes it without the call having been detached first.                  *)
THEOREM AnswersAreStored == Spec => AnsweredIsStored
<1> DEFINE Stored == \A c \in Calls :
             LET e == calls[c].export IN
             Answer(c) /\ ~failed /\ e \in Exports \ (lost \cup tangled) =>
                 \/ calls[c].op = "discard" /\ rows[e] = "none"
                 \/ /\ calls[c].op = "create"
                    /\ IF calls[c].attached THEN rows[e] \in {"ready", "failed"}
                                            ELSE rows[e] \in {"none", "ready", "failed"}
<1>1. IInv /\ MirrorInv => Stored
  <2> SUFFICES ASSUME IInv, MirrorInv, NEW c \in Calls, Answer(c),
                      calls[c].export \in Exports \ (lost \cup tangled)
               PROVE  \/ calls[c].op = "discard" /\ rows[calls[c].export] = "none"
                      \/ /\ calls[c].op = "create"
                         /\ IF calls[c].attached
                              THEN rows[calls[c].export] \in {"ready", "failed"}
                              ELSE rows[calls[c].export] \in {"none", "ready", "failed"}
    OBVIOUS
  <2> DEFINE e == calls[c].export
  <2>1. calls[c].at = "flush" /\ calls[c].wait = 0
    BY DEF Answer, At
  <2>2. Settles(writes, rows[e], e, 0, Outcome(calls[c]))
    BY <2>1 DEF MirrorInv, RowsFollow, AnswersSettle, Plain
  <2>3. rows[e] \in Outcome(calls[c])
    BY <2>2 DEF Settles
  <2>4. calls[c].op \in {"create", "discard"}
    BY <2>1, MirrorTypes DEF StageFits
  <2>5. QED BY <2>3, <2>4 DEF Outcome
<1>2. IInv /\ MirrorInv /\ [Next]_vars => [Stored]_vars
  BY <1>1
<1> HIDE DEF Stored
<1>3. Spec => [][Stored]_vars
  BY <1>2, MirrorHolds, PTL DEF Spec
<1>4. QED BY <1>3 DEF AnsweredIsStored, Stored

-----------------------------------------------------------------------------
(* The limit: the archives on the disk once n writes of the queue are      *)
(* done.                                                                   *)

Puts(w, e) == w.kind = "putObject" /\ w.export = e
Drops(w, e) == w.kind = "deleteObject" /\ w.export = e

After(queue, fs, n) ==
    {e \in Exports :
        \/ e \in fs /\ \A i \in 1 .. n : ~Drops(queue[i], e)
        \/ \E i \in 1 .. n : /\ Puts(queue[i], e)
                             /\ \A j \in (i + 1) .. n : ~Drops(queue[j], e)}

LEMMA AfterNone == \A queue, fs : fs \subseteq Exports => After(queue, fs, 0) = fs
BY DEF After

LEMMA AfterBefore ==
    ASSUME NEW queue \in Seq(Writes), NEW batch \in Seq(Writes), NEW fs,
           NEW n \in 0 .. Len(queue)
    PROVE  After(queue \o batch, fs, n) = After(queue, fs, n)
<1> DEFINE longer == queue \o batch
<1>1. \A i \in 1 .. n : longer[i] = queue[i]
  OBVIOUS
<1>2. \A i \in 1 .. n : \A j \in (i + 1) .. n : longer[j] = queue[j]
  OBVIOUS
<1> HIDE DEF longer
<1>3. QED BY <1>1, <1>2 DEF After, longer

LEMMA AfterBatch ==
    ASSUME NEW queue \in Seq(Writes), NEW batch \in Seq(Writes), NEW fs,
           NEW k \in 0 .. Len(batch),
           NEW e \in After(queue \o batch, fs, Len(queue) + k)
    PROVE  \/ \E i \in 1 .. k : Puts(batch[i], e)
           \/ /\ e \in After(queue, fs, Len(queue))
              /\ \A i \in 1 .. k : ~Drops(batch[i], e)
<1> DEFINE longer == queue \o batch
           n == Len(queue)
<1>1. /\ n \in Nat
      /\ \A i \in 1 .. n : longer[i] = queue[i]
      /\ \A i \in 1 .. k : longer[n + i] = batch[i]
  OBVIOUS
<1>2. e \in After(longer, fs, n + k)
  OBVIOUS
<1> HIDE DEF longer, n
<1>3. ASSUME e \in fs, \A i \in 1 .. (n + k) : ~Drops(longer[i], e)
      PROVE  /\ e \in After(queue, fs, n)
             /\ \A i \in 1 .. k : ~Drops(batch[i], e)
  <2>1. \A i \in 1 .. n : i \in 1 .. (n + k)
    BY <1>1
  <2>2. \A i \in 1 .. k : n + i \in 1 .. (n + k)
    BY <1>1
  <2>3. \A i \in 1 .. k : ~Drops(batch[i], e)
    BY <1>1, <1>3, <2>2
  <2>4. \A i \in 1 .. n : ~Drops(queue[i], e)
    BY <1>1, <1>3, <2>1
  <2>5. QED BY <1>2, <1>3, <2>3, <2>4 DEF After
<1>4. ASSUME NEW i \in 1 .. (n + k), Puts(longer[i], e),
             \A j \in (i + 1) .. (n + k) : ~Drops(longer[j], e)
      PROVE  \/ \E j \in 1 .. k : Puts(batch[j], e)
             \/ /\ e \in After(queue, fs, n)
                /\ \A j \in 1 .. k : ~Drops(batch[j], e)
  <2>1. CASE i \in 1 .. n
    <3>1. \A j \in 1 .. k : n + j \in (i + 1) .. (n + k)
      BY <1>1, <2>1
    <3>2. \A j \in 1 .. k : ~Drops(batch[j], e)
      BY <1>1, <1>4, <3>1
    <3>3. \A j \in (i + 1) .. n : j \in (i + 1) .. (n + k) /\ longer[j] = queue[j]
      BY <1>1, <2>1
    <3>4. Puts(queue[i], e) /\ \A j \in (i + 1) .. n : ~Drops(queue[j], e)
      BY <1>1, <1>4, <2>1, <3>3
    <3>5. e \in After(queue, fs, n)
      BY <1>2, <2>1, <3>4 DEF After
    <3>6. QED BY <3>2, <3>5
  <2>2. CASE i \notin 1 .. n
    <3> DEFINE m == i - n
    <3>1. m \in 1 .. k /\ i = n + m
      BY <1>1, <2>2
    <3> HIDE DEF m
    <3>2. QED BY <1>1, <1>4, <3>1
  <2>3. QED BY <2>1, <2>2
<1>5. QED BY <1>2, <1>3, <1>4 DEF After, n

\* the first write is done: what it leaves is what was to come after it
LEMMA AfterFirst ==
    ASSUME NEW queue \in Seq(Writes), queue # <<>>, NEW fs, NEW next,
           NEW n \in 0 .. Len(Tail(queue)), NEW e \in After(Tail(queue), next, n),
           e \in next => \/ e \in fs /\ ~Drops(Head(queue), e)
                         \/ Puts(Head(queue), e)
    PROVE  e \in After(queue, fs, n + 1)
<1> DEFINE rest == Tail(queue)
<1>1. /\ \A i \in 1 .. n : rest[i] = queue[i + 1]
      /\ Head(queue) = queue[1]
  OBVIOUS
<1>2. e \in After(rest, next, n)
  OBVIOUS
<1> HIDE DEF rest
<1>3. ASSUME e \in next, \A i \in 1 .. n : ~Drops(rest[i], e)
      PROVE  e \in After(queue, fs, n + 1)
  <2>1. \A j \in 2 .. (n + 1) : ~Drops(queue[j], e)
    <3> SUFFICES ASSUME NEW j \in 2 .. (n + 1) PROVE ~Drops(queue[j], e)
      OBVIOUS
    <3>1. j - 1 \in 1 .. n /\ (j - 1) + 1 = j
      OBVIOUS
    <3>2. QED BY <1>1, <1>3, <3>1
  <2>2. CASE e \in fs /\ ~Drops(queue[1], e)
    <3>1. \A j \in 1 .. (n + 1) : j = 1 \/ j \in 2 .. (n + 1)
      OBVIOUS
    <3>2. QED BY <1>2, <2>1, <2>2, <3>1 DEF After
  <2>3. CASE Puts(queue[1], e)
    <3>1. 1 \in 1 .. (n + 1) /\ \A j \in (1 + 1) .. (n + 1) : j \in 2 .. (n + 1)
      OBVIOUS
    <3>2. QED BY <1>2, <2>1, <2>3, <3>1 DEF After
  <2>4. QED BY <1>1, <1>3, <2>2, <2>3
<1>4. ASSUME NEW i \in 1 .. n, Puts(rest[i], e),
             \A j \in (i + 1) .. n : ~Drops(rest[j], e)
      PROVE  e \in After(queue, fs, n + 1)
  <2>1. i + 1 \in 1 .. (n + 1) /\ Puts(queue[i + 1], e)
    BY <1>1, <1>4
  <2>2. ASSUME NEW j \in ((i + 1) + 1) .. (n + 1) PROVE ~Drops(queue[j], e)
    <3>1. j - 1 \in (i + 1) .. n /\ j - 1 \in 1 .. n /\ (j - 1) + 1 = j
      OBVIOUS
    <3>2. QED BY <1>1, <1>4, <3>1
  <2>3. QED BY <1>2, <2>1, <2>2 DEF After
<1>5. QED BY <1>2, <1>3, <1>4 DEF After

-----------------------------------------------------------------------------
(* The archives a creation keeps are fewer than the limit.                 *)

PackedSet == {packed[i] : i \in 1 .. Len(packed)}

LEMMA FewAreKept ==
    ASSUME archives \subseteq PackedSet, archives \subseteq Exports,
           packed \in Seq(Exports)
    PROVE  Cardinality(archives \ Surplus) <= MaxArchives - 1
<1> DEFINE kept == archives \ Surplus
           places == {i \in 1 .. Len(packed) : packed[i] \in kept}
<1>1. MaxArchives \in Nat /\ MaxArchives > 0 /\ IsFiniteSet(archives) /\ IsFiniteSet(kept)
  <2>1. IsFiniteSet(archives)
    BY ExportsAssumption, FS_Subset
  <2>2. QED BY <2>1, ExportsAssumption, FS_Subset
<1>2. CASE kept = {}
  <2>1. Cardinality(kept) = 0
    BY <1>2, FS_EmptySet
  <2>2. QED BY <1>1, <2>1
<1>3. CASE kept # {}
  <2>1. places # {} /\ places \subseteq Nat
    <3>1. PICK e \in kept : TRUE
      BY <1>3
    <3>2. e \in PackedSet
      BY <3>1
    <3>3. QED BY <3>1, <3>2 DEF PackedSet
  <2>2. PICK i \in places : \A j \in places : ~(<<j, i>> \in OpToRel(<, Nat))
    BY <2>1, NatLessThanWellFounded, WFMin
  <2>3. \A j \in places : i <= j
    <3> HIDE DEF places
    <3>1. \A j \in places : ~(j < i)
      BY <2>1, <2>2 DEF OpToRel
    <3>2. \A j \in places : j \in Nat /\ i \in Nat
      BY <2>1, <2>2
    <3>3. QED BY <3>1, <3>2
  <2> DEFINE e == packed[i]
             after == ListedAfter(e)
  <2>4. e \in kept /\ i \in 1 .. Len(packed)
    BY <2>2
  <2>5. kept \ {e} \subseteq after
    <3> SUFFICES ASSUME NEW d \in kept, d # e
                 PROVE  d \in ListedAfter(e)
      OBVIOUS
    <3>1. PICK j \in 1 .. Len(packed) : packed[j] = d
      BY DEF PackedSet
    <3>2. j \in places /\ j # i
      BY <3>1
    <3>3. i < j
      BY <2>3, <2>4, <3>2
    <3>4. i \in DOMAIN packed /\ j \in DOMAIN packed
      BY <2>4
    <3>5. QED BY <3>1, <3>3, <3>4 DEF ListedAfter
  <2>6. after \subseteq archives
    BY DEF ListedAfter
  <2>7. IsFiniteSet(after) /\ Cardinality(after) \in Nat
    BY <1>1, <2>6, FS_Subset, FS_CardinalityType
  <2>8. Cardinality(after) < MaxArchives - 1
    BY <1>1, <2>4, <2>7 DEF Surplus
  <2> HIDE DEF after, e, kept
  <2>9. Cardinality(kept \ {e}) = Cardinality(kept) - 1
    BY <1>1, <2>4, FS_RemoveElement
  <2>10. Cardinality(kept \ {e}) <= Cardinality(after)
    BY <2>5, <2>7, FS_Subset
  <2>11. Cardinality(kept) \in Nat
    BY <1>1, FS_CardinalityType
  <2>12. QED BY <1>1, <2>7, <2>8, <2>9, <2>10, <2>11 DEF kept
<1>4. QED BY <1>2, <1>3

-----------------------------------------------------------------------------
(* The invariant.                                                          *)

\* only what was packed is called ready
ReadyArePacked ==
    /\ archives \subseteq PackedSet
    /\ \A e \in Exports : rows[e] = "ready" => e \in PackedSet
    /\ \A i \in 1 .. Len(writes) : MarksReady(writes[i]) => writes[i].export \in PackedSet
    /\ \A c \in Calls : calls[c].at = "loaded" =>
         \A e \in Exports : calls[c].seeds[e] = "ready" => e \in PackedSet

FileTypes ==
    /\ packed \in Seq(Exports) /\ crashes \in Nat
    /\ files \subseteq Exports /\ files \ lost \subseteq objects

\* base: what earlier processes left
Fits(base) ==
    /\ base \subseteq Exports /\ Cardinality(base) <= MaxArchives * crashes
    /\ \A n \in 0 .. Len(writes) :
         Cardinality(After(writes, files, n) \ (lost \cup base)) <= MaxArchives
    /\ After(writes, files, Len(writes)) \ (lost \cup base) \subseteq archives

LimitInv == ReadyArePacked /\ FileTypes /\ \E base \in SUBSET Exports : Fits(base)

LEMMA FiniteExports ==
    ASSUME NEW S \in SUBSET Exports
    PROVE  IsFiniteSet(S) /\ Cardinality(S) \in Nat
BY ExportsAssumption, FS_Subset, FS_CardinalityType

LEMMA SmallerFits ==
    ASSUME NEW S \in SUBSET Exports, NEW T \in SUBSET S
    PROVE  Cardinality(T) <= Cardinality(S)
BY FiniteExports, FS_Subset

LEMMA AfterExports == \A queue, fs, n : After(queue, fs, n) \in SUBSET Exports
BY DEF After

-----------------------------------------------------------------------------
(* How the disk stays within the limit.                                    *)

LEMMA FitsStays ==
    ASSUME NEW base, Fits(base), UNCHANGED <<writes, files, lost, crashes>>,
           archives \subseteq archives'
    PROVE  Fits(base)'
BY DEF Fits

\* a batch that stores nothing, and deletes what the mirror gives up
LEMMA FitsBatch ==
    ASSUME QueueTypes, NEW base, Fits(base), NEW batch \in Seq(Writes),
           writes' = writes \o batch, UNCHANGED <<files, lost, crashes>>,
           \A i \in 1 .. Len(batch) : batch[i].kind # "putObject",
           \A e \in archives \ archives' : \E i \in 1 .. Len(batch) : Drops(batch[i], e)
    PROVE  Fits(base)'
<1> DEFINE k == Len(writes)
           gone == lost \cup base
<1>1. /\ writes \in Seq(Writes) /\ k \in Nat /\ Len(batch) \in Nat
      /\ Len(writes') = k + Len(batch)
  BY DEF QueueTypes
<1>2. ASSUME NEW m \in 0 .. Len(batch), NEW e \in After(writes', files, k + m)
      PROVE  /\ e \in After(writes, files, k)
             /\ \A i \in 1 .. m : ~Drops(batch[i], e)
  <2>1. \A i \in 1 .. m : ~Puts(batch[i], e)
    BY DEF Puts
  <2>2. e \in After(writes \o batch, files, k + m)
    BY <1>2
  <2>3. \/ \E i \in 1 .. m : Puts(batch[i], e)
        \/ /\ e \in After(writes, files, k)
           /\ \A i \in 1 .. m : ~Drops(batch[i], e)
    BY <1>1, <2>2, AfterBatch
  <2>4. QED BY <2>1, <2>3, Zenon
<1>3. ASSUME NEW n \in 0 .. Len(writes')
      PROVE  Cardinality(After(writes', files, n) \ gone) <= MaxArchives
  <2>1. CASE n \in 0 .. k
    <3>1. After(writes', files, n) = After(writes, files, n)
      BY <1>1, <2>1, AfterBefore
    <3>2. QED BY <2>1, <3>1 DEF Fits
  <2>2. CASE n \notin 0 .. k
    <3> DEFINE m == n - k
    <3>1. m \in 0 .. Len(batch) /\ n = k + m
      BY <1>1, <2>2
    <3> HIDE DEF m
    <3>2. After(writes', files, n) \subseteq After(writes, files, k)
      BY <1>2, <3>1
    <3> DEFINE S == After(writes, files, k) \ gone
               T == After(writes', files, n) \ gone
    <3>3. T \subseteq S /\ S \in SUBSET Exports
      BY <3>2, AfterExports
    <3>4. Cardinality(S) <= MaxArchives
      BY <1>1 DEF Fits
    <3>5. Cardinality(T) \in Nat /\ Cardinality(S) \in Nat /\ Cardinality(T) <= Cardinality(S)
      BY <3>3, SmallerFits, FiniteExports
    <3>6. MaxArchives \in Nat
      BY ExportsAssumption
    <3>7. QED BY <3>4, <3>5, <3>6
  <2>3. QED BY <2>1, <2>2
<1>4. After(writes', files, Len(writes')) \ gone \subseteq archives'
  <2> SUFFICES ASSUME NEW e \in After(writes', files, Len(writes')), e \notin gone
               PROVE  e \in archives'
    OBVIOUS
  <2> DEFINE m == Len(batch)
  <2>1. /\ e \in After(writes, files, k)
        /\ \A i \in 1 .. m : ~Drops(batch[i], e)
    <3>1. m \in 0 .. m /\ e \in After(writes', files, k + m)
      BY <1>1
    <3> HIDE DEF m, k
    <3>2. QED BY <1>2, <3>1 DEF m
  <2>2. e \in archives
    BY <2>1 DEF Fits
  <2>3. QED BY <2>1, <2>2
<1>5. QED BY <1>3, <1>4 DEF Fits

\* a creation ends: its archive is stored behind the deletions that make room
LEMMA FitsPacked ==
    ASSUME QueueTypes, NEW base, Fits(base), NEW batch \in Seq(Writes),
           writes' = writes \o batch, UNCHANGED <<files, lost, crashes>>,
           NEW e \in Exports, archives' = (archives \ Surplus) \cup {e},
           Cardinality(archives \ Surplus) <= MaxArchives - 1,
           NEW d \in 0 .. Len(batch),
           \A i \in 1 .. d : batch[i].kind # "putObject",
           \A x \in Surplus : \E i \in 1 .. d : Drops(batch[i], x),
           \A i \in 1 .. Len(batch), x \in Exports : Puts(batch[i], x) => x = e
    PROVE  Fits(base)'
<1> DEFINE k == Len(writes)
           gone == lost \cup base
           S == After(writes, files, k) \ gone
<1>1. /\ writes \in Seq(Writes) /\ k \in Nat /\ Len(batch) \in Nat
      /\ Len(writes') = k + Len(batch) /\ archives \subseteq Exports
  BY DEF QueueTypes
<1>2. S \subseteq archives /\ S \in SUBSET Exports /\ Cardinality(S) <= MaxArchives
  BY <1>1, AfterExports DEF Fits
<1>3. MaxArchives \in Nat /\ MaxArchives > 0
  BY ExportsAssumption
<1> DEFINE kept == archives \ Surplus
<1>4. /\ Cardinality(kept) <= MaxArchives - 1 /\ IsFiniteSet(kept) /\ Cardinality(kept) \in Nat
      /\ kept \cup {e} \in SUBSET Exports
  BY <1>1, FiniteExports
<1>5. Cardinality(kept \cup {e}) <= MaxArchives
  <2> HIDE DEF kept
  <2>1. Cardinality(kept \cup {e}) \in {Cardinality(kept), Cardinality(kept) + 1}
    BY <1>4, FS_AddElement
  <2>2. QED BY <1>3, <1>4, <2>1
\* what is stored once m writes of the batch are done
<1>6. ASSUME NEW m \in 0 .. Len(batch), NEW x \in After(writes', files, k + m), x \notin gone
      PROVE  /\ m <= d => x \in S
             /\ m >= d => x \in kept \cup {e}
  <2>1. x \in After(writes \o batch, files, k + m) /\ x \in Exports
    BY <1>6, AfterExports
  <2>2. \/ \E i \in 1 .. m : Puts(batch[i], x)
        \/ /\ x \in After(writes, files, k)
           /\ \A i \in 1 .. m : ~Drops(batch[i], x)
    BY <1>1, <2>1, AfterBatch
  <2>3. CASE \E i \in 1 .. m : Puts(batch[i], x)
    <3>1. PICK i \in 1 .. m : Puts(batch[i], x)
      BY <2>3
    <3>2. i \in 1 .. Len(batch)
      BY <1>1, <3>1
    <3>3. x = e
      BY <2>1, <3>1, <3>2
    <3>4. m <= d => i \in 1 .. d
      BY <3>1
    <3>5. ~(m <= d)
      BY <3>1, <3>4 DEF Puts
    <3>6. QED BY <3>3, <3>5
  <2>4. CASE /\ x \in After(writes, files, k)
             /\ \A i \in 1 .. m : ~Drops(batch[i], x)
    <3>1. x \in S
      BY <1>6, <2>4
    <3>2. m >= d => \A i \in 1 .. d : i \in 1 .. m
      BY <1>1
    <3>3. m >= d => x \notin Surplus
      BY <2>4, <3>2
    <3>4. QED BY <1>2, <3>1, <3>3
  <2>5. QED BY <2>2, <2>3, <2>4
<1> HIDE DEF S, kept
<1>7. ASSUME NEW n \in 0 .. Len(writes')
      PROVE  Cardinality(After(writes', files, n) \ gone) <= MaxArchives
  <2> DEFINE T == After(writes', files, n) \ gone
  <2>1. CASE n \in 0 .. k
    <3>1. After(writes', files, n) = After(writes, files, n)
      BY <1>1, <2>1, AfterBefore
    <3>2. QED BY <2>1, <3>1 DEF Fits
  <2>2. CASE n \notin 0 .. k
    <3> DEFINE m == n - k
    <3>1. m \in 0 .. Len(batch) /\ n = k + m
      BY <1>1, <2>2
    <3> HIDE DEF m
    <3>2. T \subseteq S \/ T \subseteq kept \cup {e}
      BY <1>6, <3>1
    <3>3. T \in SUBSET Exports /\ Cardinality(T) \in Nat
      BY AfterExports, FiniteExports
    <3> HIDE DEF T
    <3>4. CASE T \subseteq S
      <4>1. Cardinality(T) <= Cardinality(S) /\ Cardinality(S) \in Nat
        BY <1>2, <3>4, SmallerFits, FiniteExports
      <4>2. Cardinality(T) <= MaxArchives
        BY <1>2, <1>3, <3>3, <4>1
      <4>3. QED BY <4>2 DEF T
    <3>5. CASE T \subseteq kept \cup {e}
      <4> DEFINE U == kept \cup {e}
      <4>1. U \in SUBSET Exports /\ T \in SUBSET U /\ Cardinality(U) <= MaxArchives
        BY <1>4, <1>5, <3>5
      <4> HIDE DEF U
      <4>2. Cardinality(T) <= Cardinality(U) /\ Cardinality(U) \in Nat
        BY <4>1, SmallerFits, FiniteExports
      <4>3. Cardinality(T) <= MaxArchives
        BY <1>3, <3>3, <4>1, <4>2
      <4>4. QED BY <4>3 DEF T
    <3>6. QED BY <3>2, <3>4, <3>5 DEF T
  <2>3. QED BY <2>1, <2>2
<1>8. After(writes', files, Len(writes')) \ gone \subseteq archives'
  BY <1>1, <1>6 DEF kept
<1>9. QED BY <1>7, <1>8 DEF Fits

LEMMA FitsFirst ==
    ASSUME QueueTypes, NEW base, Fits(base), writes # <<>>, writes' = Tail(writes),
           lost \subseteq lost', UNCHANGED <<archives, crashes>>,
           \A e \in Exports \ lost' : e \in files' =>
             \/ e \in files /\ ~Drops(Head(writes), e)
             \/ Puts(Head(writes), e)
    PROVE  Fits(base)'
<1>1. /\ writes \in Seq(Writes) /\ Len(writes) \in Nat /\ Len(writes') = Len(writes) - 1
      /\ Len(writes) > 0
  BY DEF QueueTypes
<1>2. ASSUME NEW n \in 0 .. Len(writes')
      PROVE  /\ After(writes', files', n) \ (lost' \cup base) \subseteq
                  After(writes, files, n + 1) \ (lost \cup base)
             /\ n + 1 \in 0 .. Len(writes)
  <2> SUFFICES ASSUME NEW e \in After(writes', files', n), e \notin lost', e \notin base
               PROVE  e \in After(writes, files, n + 1)
    BY <1>1
  <2>1. e \in Exports
    BY AfterExports
  <2>2. e \in files' => \/ e \in files /\ ~Drops(Head(writes), e)
                       \/ Puts(Head(writes), e)
    BY <2>1
  <2>3. QED BY <1>1, <2>2, AfterFirst
<1>3. ASSUME NEW n \in 0 .. Len(writes')
      PROVE  Cardinality(After(writes', files', n) \ (lost' \cup base)) <= MaxArchives
  <2> DEFINE S == After(writes, files, n + 1) \ (lost \cup base)
             T == After(writes', files', n) \ (lost' \cup base)
  <2>1. T \subseteq S /\ S \in SUBSET Exports
    BY <1>2, AfterExports
  <2>2. Cardinality(S) <= MaxArchives
    BY <1>2 DEF Fits
  <2> HIDE DEF S
  <2>3. Cardinality(T) \in Nat /\ Cardinality(S) \in Nat /\ Cardinality(T) <= Cardinality(S)
    BY <2>1, SmallerFits, FiniteExports
  <2>4. MaxArchives \in Nat
    BY ExportsAssumption
  <2>5. QED BY <2>2, <2>3, <2>4
<1>4. After(writes', files', Len(writes')) \ (lost' \cup base) \subseteq archives'
  <2>1. Len(writes') \in 0 .. Len(writes') /\ Len(writes') + 1 = Len(writes)
    BY <1>1
  <2>2. After(writes', files', Len(writes')) \ (lost' \cup base) \subseteq
          After(writes, files, Len(writes)) \ (lost \cup base)
    BY <1>2, <2>1
  <2>3. QED BY <2>2 DEF Fits
<1>5. QED BY <1>3, <1>4 DEF Fits

\* a new process counts what it finds as left by earlier ones
LEMMA FitsCrash ==
    ASSUME FileTypes, NEW base, Fits(base), writes \in Seq(Writes), Crash
    PROVE  \E later \in SUBSET Exports : Fits(later)'
<1> DEFINE left == files \ (lost \cup base)
<1> PICK next : next = base \cup left
  OBVIOUS
<1>1. /\ writes' = <<>> /\ archives' = {} /\ crashes' = crashes + 1
      /\ UNCHANGED <<files, lost>>
  BY DEF Crash, disk, past
<1>2. /\ base \in SUBSET Exports /\ left \in SUBSET Exports /\ next \in SUBSET Exports
      /\ files \subseteq Exports /\ crashes \in Nat
  BY DEF Fits, FileTypes
<1>3. 0 \in 0 .. Len(writes) /\ After(writes, files, 0) = files
  BY <1>2, AfterNone
<1>4. Cardinality(left) <= MaxArchives /\ Cardinality(base) <= MaxArchives * crashes
  BY <1>3 DEF Fits
<1>5. Cardinality(next) <= Cardinality(base) + Cardinality(left)
  <2>1. base \cap left = {} /\ Cardinality({}) = 0
    BY FS_EmptySet
  <2>2. /\ IsFiniteSet(base) /\ IsFiniteSet(left) /\ Cardinality(base) \in Nat
        /\ Cardinality(left) \in Nat
    BY <1>2, FiniteExports
  <2> HIDE DEF left
  <2>3. Cardinality(base \cup left) =
          Cardinality(base) + Cardinality(left) - Cardinality(base \cap left)
    BY <2>2, FS_Union
  <2>4. Cardinality(base \cap left) = 0 /\ Cardinality(next) = Cardinality(base \cup left)
    BY <2>1
  <2>5. QED BY <2>2, <2>3, <2>4
<1>6. Cardinality(next) <= MaxArchives * crashes'
  <2>1. /\ MaxArchives \in Nat /\ Cardinality(next) \in Nat
        /\ Cardinality(base) \in Nat /\ Cardinality(left) \in Nat
    BY <1>2, FiniteExports, ExportsAssumption
  <2>2. MaxArchives * (crashes + 1) = MaxArchives * crashes + MaxArchives
    BY <1>2, <2>1
  <2> HIDE DEF left
  <2> DEFINE p == MaxArchives * crashes
  <2>3. p \in Nat
    BY <1>2, <2>1
  <2> HIDE DEF p
  <2>4. Cardinality(next) <= p + MaxArchives
    BY <1>4, <1>5, <2>1, <2>3 DEF p
  <2>5. QED BY <1>1, <2>2, <2>4 DEF p
<1>7. /\ Len(writes') = 0 /\ After(writes', files', 0) = files
      /\ files \ (lost \cup next) = {}
  BY <1>1, <1>2, AfterNone
<1>8. Cardinality({}) = 0 /\ MaxArchives \in Nat
  BY FS_EmptySet, ExportsAssumption
<1> HIDE DEF left
<1>9. Fits(next)'
  <2>1. \A n \in 0 .. Len(writes') :
          Cardinality(After(writes', files', n) \ (lost' \cup next)) <= MaxArchives
    <3>1. \A n \in 0 .. Len(writes') : n = 0
      BY <1>7
    <3>2. After(writes', files', 0) \ (lost' \cup next) = {}
      BY <1>1, <1>7
    <3>3. Cardinality(After(writes', files', 0) \ (lost' \cup next)) <= MaxArchives
      BY <1>8, <3>2
    <3>4. QED BY <3>1, <3>3, Zenon
  <2>2. After(writes', files', Len(writes')) \ (lost' \cup next) \subseteq archives'
    BY <1>1, <1>7
  <2>3. QED BY <1>2, <1>6, <2>1, <2>2 DEF Fits
<1>10. QED BY <1>2, <1>9

-----------------------------------------------------------------------------
(* What is called ready was packed.                                        *)

LEMMA ReadyStays ==
    ASSUME ReadyArePacked, PackedSet \subseteq PackedSet', archives' \subseteq PackedSet',
           \A e \in Exports : rows'[e] = "ready" => rows[e] = "ready" \/ e \in PackedSet,
           \A i \in 1 .. Len(writes') :
               MarksReady(writes'[i]) => writes'[i].export \in PackedSet',
           \A c \in Calls : calls'[c].at = "loaded" =>
               \/ calls'[c].seeds = rows
               \/ calls[c].at = "loaded" /\ calls'[c].seeds = calls[c].seeds
    PROVE  ReadyArePacked'
<1>1. \A e \in Exports : rows'[e] = "ready" => e \in PackedSet'
  BY DEF ReadyArePacked
<1>2. ASSUME NEW c \in Calls, calls'[c].at = "loaded", NEW e \in Exports,
             calls'[c].seeds[e] = "ready"
      PROVE  e \in PackedSet'
  <2>1. CASE calls'[c].seeds = rows
    BY <1>2, <2>1 DEF ReadyArePacked
  <2>2. CASE calls[c].at = "loaded" /\ calls'[c].seeds = calls[c].seeds
    BY <1>2, <2>2 DEF ReadyArePacked
  <2>3. QED BY <1>2, <2>1, <2>2
<1>3. QED BY <1>1, <1>2 DEF ReadyArePacked, MarksReady

\* only a load that succeeds takes a call to where it holds the rows
LEMMA OthersAreNotLoaded ==
    ASSUME IInv, NEW c \in Calls, Handle(c), ~LoadRows(c)
    PROVE  \A d \in Calls : calls'[d].at = "loaded" =>
               calls[d].at = "loaded" /\ calls'[d].seeds = calls[d].seeds
<1>1. calls \in [Calls -> CallRecords] /\ \A d \in Calls : calls[d] \in CallRecords
  BY DEF IInv, CallTypes
<1>2. ASSUME NEW r, calls' = [calls EXCEPT ![c] = r], r.at # "loaded"
      PROVE  \A d \in Calls : calls'[d].at = "loaded" =>
               calls[d].at = "loaded" /\ calls'[d].seeds = calls[d].seeds
  BY <1>1, <1>2
<1>3. ASSUME NEW queue, Flush(c, calls[c], queue)
      PROVE  \E r : calls' = [calls EXCEPT ![c] = r] /\ r.at # "loaded"
  <2> DEFINE r == [Idle EXCEPT !.op = calls[c].op, !.at = "flush",
                               !.export = calls[c].export,
                               !.attached = calls[c].attached, !.wait = Len(queue)]
  <2>1. r.at = "flush"
    BY DEF Idle
  <2>2. calls' = [calls EXCEPT ![c] = r]
    BY <1>3 DEF Flush
  <2> HIDE DEF r
  <2>3. QED BY <2>1, <2>2
<1>4. Idle.at = "idle"
  BY DEF Idle
<1>5. CASE \/ \E op \in {"create", "discard", "look"} : Arrive(c, op)
           \/ Hydrate(c) \/ ReadRevision(c) \/ List(c) \/ CheckRevision(c)
           \/ \E f \in Files : ReadFile(c, f)
           \/ Retry(c) \/ \E e \in Exports : Open(c, e)
  <2>1. \A d \in Calls : d # c => calls'[d] = calls[d]
    BY <1>1, <1>5 DEF Arrive, Hydrate, ReadRevision, List, CheckRevision, ReadFile, Retry, Open
  <2>2. calls'[c].at # "loaded"
    <3> DEFINE r == calls[c]
    <3>1. r \in CallRecords
      BY <1>1
    <3>2. CASE \E op \in {"create", "discard", "look"} : Arrive(c, op)
      BY <1>1, <3>1, <3>2 DEF Arrive, CallRecords
    <3>3. CASE Hydrate(c)
      BY <1>1, <3>1, <3>3 DEF Hydrate, CallRecords
    <3>4. CASE ReadRevision(c)
      BY <1>1, <3>1, <3>4 DEF ReadRevision, CallRecords
    <3>5. CASE List(c)
      BY <1>1, <3>1, <3>5 DEF List, CallRecords
    <3>6. CASE CheckRevision(c)
      BY <1>1, <3>1, <3>6 DEF CheckRevision, CallRecords
    <3>7. CASE \E f \in Files : ReadFile(c, f)
      BY <1>1, <3>1, <3>7 DEF ReadFile, CallRecords, At
    <3>8. CASE Retry(c)
      BY <1>1, <3>1, <3>8 DEF Retry, CallRecords
    <3>9. CASE \E e \in Exports : Open(c, e)
      BY <1>1, <3>1, <3>9 DEF Open, CallRecords
    <3>10. QED BY <1>5, <3>2, <3>3, <3>4, <3>5, <3>6, <3>7, <3>8, <3>9
  <2>3. QED BY <2>1, <2>2
<1>6. CASE LoadFails(c)
  BY <1>2, <1>3, <1>4, <1>6 DEF LoadFails
<1>7. CASE Sweep(c)
  <2> DEFINE open == [calls[c] EXCEPT !.at = "open"]
  <2>1. open.at = "open"
    BY <1>1 DEF CallRecords
  <2>2. calls' \in {[calls EXCEPT ![c] = Idle], [calls EXCEPT ![c] = open]}
    BY <1>1, <1>7 DEF Sweep
  <2> HIDE DEF open
  <2>3. QED BY <1>2, <1>4, <2>1, <2>2
<1>8. CASE Refuse(c) \/ GiveUp(c) \/ Pack(c)
  BY <1>2, <1>3, <1>8 DEF Refuse, GiveUp, Pack
<1>9. CASE Answer(c)
  BY <1>2, <1>4, <1>9 DEF Answer
<1>10. CASE \E e \in Exports : Discard(c, e)
  <2>1. PICK e \in Exports : Discard(c, e)
    BY <1>10
  <2> DEFINE mine == [Idle EXCEPT !.op = "discard", !.at = "flush", !.export = e,
                                  !.wait = Len(writes')]
             theirs(d) == [calls[d] EXCEPT !.attached = @ /\ calls[d].export # e]
  <2>2. calls' = [d \in Calls |-> IF d = c THEN mine ELSE theirs(d)]
    BY <2>1 DEF Discard
  <2>3. mine.at = "flush"
    BY DEF Idle
  <2>4. \A d \in Calls : theirs(d).at = calls[d].at /\ theirs(d).seeds = calls[d].seeds
    BY <1>1 DEF CallRecords
  <2> HIDE DEF mine, theirs
  <2>5. QED BY <2>2, <2>3, <2>4
<1>11. QED BY <1>5, <1>6, <1>7, <1>8, <1>9, <1>10 DEF Handle

LEMMA AdvanceNotLoaded ==
    ASSUME IInv, Advance
    PROVE  \A d \in Calls : calls'[d].at = "loaded" =>
               calls[d].at = "loaded" /\ calls'[d].seeds = calls[d].seeds
<1> DEFINE left(d) == IF calls[d].wait = 0 THEN 0 ELSE calls[d].wait - 1
           next(d) == [calls[d] EXCEPT !.wait = left(d)]
<1>1. calls' = [d \in Calls |-> next(d)]
  BY DEF Advance
<1> HIDE DEF left
<1>2. \A d \in Calls : next(d).at = calls[d].at /\ next(d).seeds = calls[d].seeds
  BY DEF IInv, CallTypes, CallRecords
<1> HIDE DEF next
<1>3. QED BY <1>1, <1>2

\* a batch that marks at most e ready, where e is packed
LEMMA BatchReady ==
    ASSUME QueueTypes, ReadyArePacked, NEW batch \in Seq(Writes), writes' = writes \o batch,
           NEW e, NEW s, Confined(batch, e, s), s = "ready" => e \in PackedSet',
           PackedSet \subseteq PackedSet'
    PROVE  \A i \in 1 .. Len(writes') :
               MarksReady(writes'[i]) => writes'[i].export \in PackedSet'
<1> SUFFICES ASSUME NEW i \in 1 .. Len(writes'), MarksReady(writes'[i])
             PROVE  writes'[i].export \in PackedSet'
  OBVIOUS
<1>1. /\ writes \in Seq(Writes) /\ Len(writes) \in Nat /\ Len(batch) \in Nat
      /\ Len(writes') = Len(writes) + Len(batch)
      /\ \A j \in 1 .. Len(writes) : writes'[j] = writes[j]
      /\ \A j \in 1 .. Len(batch) : writes'[Len(writes) + j] = batch[j]
  BY DEF QueueTypes
<1>2. CASE i \in 1 .. Len(writes)
  BY <1>1, <1>2 DEF ReadyArePacked
<1>3. CASE i \notin 1 .. Len(writes)
  <2> DEFINE j == i - Len(writes)
  <2>1. j \in 1 .. Len(batch) /\ i = Len(writes) + j
    BY <1>1, <1>3
  <2> HIDE DEF j
  <2>2. writes'[i] = batch[j] /\ batch[j] \in Writes
    BY <1>1, <2>1
  <2>3. batch[j].export \in Exports
    BY <2>2 DEF Writes
  <2>4. batch[j].export = e /\ batch[j].status = s /\ s = "ready"
    BY <2>1, <2>2, <2>3 DEF Confined, RowOf, MarksReady
  <2>5. QED BY <2>2, <2>4
<1>4. QED BY <1>2, <1>3

-----------------------------------------------------------------------------
(* Every step keeps the limit.                                             *)

LEMMA InitLimit == Init => LimitInv
<1> SUFFICES ASSUME Init PROVE LimitInv
  OBVIOUS
<1>1. /\ calls = [c \in Calls |-> Idle] /\ writes = <<>> /\ archives = {} /\ packed = <<>>
      /\ rows = [e \in Exports |-> "none"] /\ files = {} /\ crashes = 0
  BY DEF Init
<1>2. Idle.at = "idle" /\ Len(writes) = 0
  BY <1>1 DEF Idle
<1>3. ReadyArePacked /\ FileTypes
  BY <1>1, <1>2 DEF ReadyArePacked, FileTypes
<1>4. Fits({})
  <2>1. Cardinality({}) = 0 /\ MaxArchives \in Nat
    BY FS_EmptySet, ExportsAssumption
  <2>2. \A n \in 0 .. Len(writes) : n = 0
    BY <1>2
  <2>3. After(writes, files, 0) = {} /\ {} \ (lost \cup {}) = {}
    BY <1>1, AfterNone
  <2>4. Cardinality({}) <= MaxArchives * crashes
    BY <1>1, <2>1
  <2>5. QED BY <1>2, <2>1, <2>2, <2>3, <2>4 DEF Fits
<1>5. QED BY <1>3, <1>4 DEF LimitInv

LEMMA PackedSame == ASSUME packed' = packed PROVE PackedSet' = PackedSet
BY DEF PackedSet

\* the queue and the disk stay
LEMMA StaysLimit ==
    ASSUME IInv, LimitInv, UNCHANGED <<writes, rows, files, objects, packed, lost, crashes>>,
           archives \subseteq archives', archives' \subseteq PackedSet,
           \A d \in Calls : calls'[d].at = "loaded" =>
             \/ calls'[d].seeds = rows
             \/ calls[d].at = "loaded" /\ calls'[d].seeds = calls[d].seeds
    PROVE  LimitInv'
<1>1. PackedSet' = PackedSet
  BY PackedSame
<1>2. ReadyArePacked'
  <2>1. ReadyArePacked /\ \A i \in 1 .. Len(writes') :
          MarksReady(writes'[i]) => writes'[i].export \in PackedSet'
    BY <1>1 DEF LimitInv, ReadyArePacked
  <2>2. QED BY <1>1, <2>1, ReadyStays
<1>3. FileTypes'
  BY DEF LimitInv, FileTypes
<1>4. PICK base \in SUBSET Exports : Fits(base)
  BY DEF LimitInv
<1>5. Fits(base)'
  BY <1>4, FitsStays
<1>6. QED BY <1>2, <1>3, <1>5 DEF LimitInv

\* a batch that stores nothing
LEMMA BatchLimit ==
    ASSUME IInv, LimitInv, NEW batch \in Seq(Writes), writes' = writes \o batch,
           UNCHANGED <<rows, files, objects, packed, lost, crashes>>,
           archives' \subseteq archives,
           NEW e, NEW s, Confined(batch, e, s), s # "ready",
           \A i \in 1 .. Len(batch) : batch[i].kind # "putObject",
           \A x \in archives \ archives' : \E i \in 1 .. Len(batch) : Drops(batch[i], x),
           \A d \in Calls : calls'[d].at = "loaded" =>
             calls[d].at = "loaded" /\ calls'[d].seeds = calls[d].seeds
    PROVE  LimitInv'
<1>1. PackedSet' = PackedSet /\ QueueTypes /\ ReadyArePacked
  BY PackedSame DEF IInv, LimitInv
<1>2. ReadyArePacked'
  <2>1. \A i \in 1 .. Len(writes') :
          MarksReady(writes'[i]) => writes'[i].export \in PackedSet'
    BY <1>1, BatchReady
  <2>2. archives' \subseteq PackedSet'
    BY <1>1 DEF ReadyArePacked
  <2>3. QED BY <1>1, <2>1, <2>2, ReadyStays
<1>3. FileTypes'
  BY DEF LimitInv, FileTypes
<1>4. PICK base \in SUBSET Exports : Fits(base)
  BY DEF LimitInv
<1>5. Fits(base)'
  BY <1>1, <1>4, FitsBatch
<1>6. QED BY <1>2, <1>3, <1>5 DEF LimitInv

LEMMA HydrateLimit ==
    ASSUME IInv, LimitInv, NEW c \in Calls, Hydrate(c) PROVE LimitInv'
<1>1. /\ UNCHANGED <<writes, rows, files, objects, packed, lost, crashes>>
      /\ archives' = archives \cup {e \in Exports : calls[c].seeds[e] = "ready"}
      /\ calls[c].at = "loaded"
  BY DEF Hydrate, disk, past, At
<1>2. archives' \subseteq PackedSet
  BY <1>1 DEF LimitInv, ReadyArePacked
<1>3. ~LoadRows(c) /\ Handle(c)
  BY <1>1 DEF LoadRows, At, Handle
<1>4. \A d \in Calls : calls'[d].at = "loaded" =>
          calls[d].at = "loaded" /\ calls'[d].seeds = calls[d].seeds
  BY <1>3, OthersAreNotLoaded
<1>5. QED BY <1>1, <1>2, <1>4, StaysLimit

\* each archive of a list of deletions is deleted
LEMMA DeletionsDrop ==
    ASSUME NEW es \in SUBSET Exports, NEW order \in Orders(es)
    PROVE  /\ Len(DeleteObjects(order)) = Cardinality(es)
           /\ \A e \in es : \E i \in 1 .. Len(DeleteObjects(order)) :
                Drops(DeleteObjects(order)[i], e)
<1> DEFINE n == Cardinality(es)
<1>1. IsFiniteSet(es) /\ n \in Nat
  BY FiniteExports
<1>2. order \in [1 .. n -> es] /\ order \in Injection(1 .. n, es)
  BY DEF Orders, Injection
<1>3. IsFiniteSet(1 .. n) /\ Cardinality(1 .. n) = n
  BY <1>1, FS_Interval
<1>4. order \in Surjection(1 .. n, es)
  BY <1>1, <1>2, <1>3, FS_Injection
<1>5. \A e \in es : \E i \in 1 .. n : order[i] = e
  BY <1>4 DEF Surjection
<1> HIDE DEF n
<1> DEFINE batch == [i \in 1 .. n |->
                       [kind |-> "deleteObject", export |-> order[i], status |-> "none"]]
<1>6. DeleteObjects(order) = batch
  BY <1>2 DEF DeleteObjects
<1>7. Len(batch) = n /\ \A i \in 1 .. n : Drops(batch[i], order[i])
  BY <1>1 DEF Drops
<1> HIDE DEF batch
<1>8. QED BY <1>5, <1>6, <1>7 DEF n, Drops

LEMMA SweepLimit ==
    ASSUME IInv, LimitInv, NEW c \in Calls, Sweep(c) PROVE LimitInv'
<1>1. PICK order \in Orders(Swept) : writes' = writes \o DeleteObjects(order)
  BY DEF Sweep
<1>2. /\ UNCHANGED <<rows, files, objects, packed, lost, crashes>>
      /\ archives' = archives \ Swept /\ calls[c].at = "handler"
  BY DEF Sweep, disk, At
<1>3. ~LoadRows(c) /\ Handle(c)
  BY <1>2 DEF LoadRows, At, Handle
<1>4. Swept \in SUBSET Exports
  BY DEF Swept
<1> DEFINE batch == DeleteObjects(order)
<1>5. /\ batch \in Seq(Writes) /\ Confined(batch, NoExport, "none")
      /\ \A i \in 1 .. Len(batch) : batch[i].kind # "putObject"
      /\ \A x \in Swept : \E i \in 1 .. Len(batch) : Drops(batch[i], x)
  BY <1>4, DeletionBatch, DeletionsConfined, DeletionsDrop
<1> HIDE DEF batch
<1>6. writes' = writes \o batch
  BY <1>1 DEF batch
<1>7. \A d \in Calls : calls'[d].at = "loaded" =>
          calls[d].at = "loaded" /\ calls'[d].seeds = calls[d].seeds
  BY <1>3, OthersAreNotLoaded
<1>8. archives' \subseteq archives /\ archives \ archives' \subseteq Swept
  BY <1>2
<1>9. \A x \in archives \ archives' : \E i \in 1 .. Len(batch) : Drops(batch[i], x)
  BY <1>5, <1>8
<1>10. QED BY <1>2, <1>5, <1>6, <1>7, <1>8, <1>9, BatchLimit

LEMMA SaveLimit ==
    ASSUME IInv, LimitInv, NEW c \in Calls, Handle(c), ~LoadRows(c),
           NEW e \in Exports, NEW s \in Statuses, s # "ready",
           writes' = writes \o Save(e, s),
           UNCHANGED <<rows, files, objects, packed, lost, crashes, archives>>
    PROVE  LimitInv'
<1> DEFINE batch == Save(e, s)
<1>1. /\ Len(batch) = 1 /\ batch[1].kind # "putObject" /\ batch \in Seq(Writes)
      /\ Confined(batch, e, s)
  BY SaveBatch, SaveCloses DEF Save, Closes
<1> HIDE DEF batch
<1>2. \A d \in Calls : calls'[d].at = "loaded" =>
          calls[d].at = "loaded" /\ calls'[d].seeds = calls[d].seeds
  BY OthersAreNotLoaded
<1>3. \A i \in 1 .. Len(batch) : batch[i].kind # "putObject"
  BY <1>1
<1>4. writes' = writes \o batch
  BY DEF batch
<1>5. archives' \subseteq archives /\ archives \ archives' = {}
  OBVIOUS
<1>6. QED BY <1>1, <1>2, <1>3, <1>4, <1>5, BatchLimit

LEMMA OpenLimit ==
    ASSUME IInv, LimitInv, NEW c \in Calls, NEW e \in Exports, Open(c, e)
    PROVE  LimitInv'
<1>1. /\ writes' = writes \o Save(e, "running") /\ Handle(c) /\ ~LoadRows(c)
      /\ UNCHANGED <<rows, files, objects, packed, lost, crashes, archives>>
  BY DEF Open, disk, past, Handle, LoadRows, At
<1>2. QED BY <1>1, SaveLimit DEF Statuses

LEMMA GiveUpLimit ==
    ASSUME IInv, LimitInv, NEW c \in Calls, GiveUp(c) PROVE LimitInv'
<1> DEFINE e == calls[c].export
<1>1. /\ writes' = writes \o Save(e, "failed") /\ Handle(c) /\ ~LoadRows(c)
      /\ UNCHANGED <<rows, files, objects, packed, lost, crashes, archives>>
      /\ calls[c].at \in Making
  BY DEF GiveUp, GivesUp, Changed, disk, past, Handle, LoadRows, At, Making
<1>2. e \in Exports
  BY <1>1, MakingExports
<1> HIDE DEF e
<1>3. QED BY <1>1, <1>2, SaveLimit DEF Statuses

LEMMA DiscardLimit ==
    ASSUME IInv, LimitInv, NEW c \in Calls, NEW e \in Exports, Discard(c, e)
    PROVE  LimitInv'
<1> DEFINE object == [kind |-> "deleteObject", export |-> e, status |-> "none"]
           row == [kind |-> "deleteRow", export |-> e, status |-> "none"]
           head == IF e \in archives THEN <<object>> ELSE <<>>
           batch == head \o <<row>>
<1>1. /\ writes' = writes \o Discarding(e) /\ Handle(c) /\ ~LoadRows(c)
      /\ UNCHANGED <<rows, files, objects, packed, lost, crashes>>
      /\ archives' = archives \ {e}
  BY DEF Discard, disk, Handle, LoadRows, At
<1>2. batch = Discarding(e)
  BY DEF Discarding, DeleteRow, DeleteObjects
<1>3. batch \in Seq(Writes) /\ Confined(batch, e, "none")
  BY <1>2, DiscardingBatch, DiscardingCloses DEF Closes
<1>4. \A i \in 1 .. Len(batch) : batch[i].kind # "putObject"
  OBVIOUS
<1>5. e \in archives => 1 \in 1 .. Len(batch) /\ Drops(batch[1], e)
  BY DEF Drops
<1> HIDE DEF batch
<1>6. \A d \in Calls : calls'[d].at = "loaded" =>
          calls[d].at = "loaded" /\ calls'[d].seeds = calls[d].seeds
  BY <1>1, OthersAreNotLoaded
<1>7. /\ archives' \subseteq archives /\ writes' = writes \o batch
      /\ \A x \in archives \ archives' : \E i \in 1 .. Len(batch) : Drops(batch[i], x)
  BY <1>1, <1>2, <1>5
<1>8. QED BY <1>1, <1>3, <1>4, <1>6, <1>7, BatchLimit

LEMMA PackLimit ==
    ASSUME IInv, LimitInv, NEW c \in Calls, Pack(c) PROVE LimitInv'
<1> DEFINE e == calls[c].export
           put == [kind |-> "putObject", export |-> e, status |-> "none"]
           save == [kind |-> "save", export |-> e, status |-> "ready"]
<1>1. PICK order \in Orders(Surplus) : writes' = writes \o Packing(e, order)
  BY DEF Pack
<1>2. /\ UNCHANGED <<rows, files, objects, lost, crashes>> /\ calls[c].at \in Making
      /\ archives' = (archives \ Surplus) \cup {e} /\ packed' = Append(packed, e)
      /\ Handle(c) /\ ~LoadRows(c)
  BY DEF Pack, disk, At, Making, Handle, LoadRows
<1>3. /\ e \in Exports /\ Surplus \in SUBSET Exports /\ archives \in SUBSET Exports
      /\ packed \in Seq(Exports) /\ ReadyArePacked /\ QueueTypes
  BY <1>2, MakingExports DEF IInv, QueueTypes, Surplus, LimitInv, FileTypes
<1> DEFINE deletions == DeleteObjects(order)
           d == Len(deletions)
           batch == deletions \o <<put>> \o <<save>>
<1>4. /\ deletions \in Seq(Writes)
      /\ \A i \in 1 .. d : deletions[i].kind = "deleteObject"
      /\ \A x \in Surplus : \E i \in 1 .. d : Drops(deletions[i], x)
  BY <1>3, DeletionBatch, DeletionsDrop
<1>5. batch = Packing(e, order)
  BY DEF Packing, PutObject, Save
<1>6. batch \in Seq(Writes) /\ Confined(batch, e, "ready")
  <2>1. Closes(Packing(e, order), e, "ready")
    BY <1>3, PackingCloses
  <2>2. Packing(e, order) \in Seq(Writes)
    BY <1>3, PackingBatch
  <2>3. QED BY <1>5, <2>1, <2>2 DEF Closes
<1>7. put \in Writes /\ save \in Writes /\ put.export = e /\ save.kind = "save"
  BY <1>3 DEF Writes, Kinds, Statuses
<1> HIDE DEF deletions, put, save
<1>8. /\ d \in Nat /\ Len(batch) = d + 2
      /\ \A i \in 1 .. d : batch[i] = deletions[i]
      /\ batch[d + 1] = put /\ batch[d + 2] = save
  BY <1>4, <1>7
<1> HIDE DEF batch, d, e
<1>9. /\ d \in 0 .. Len(batch)
      /\ \A i \in 1 .. d : batch[i].kind # "putObject"
      /\ \A x \in Surplus : \E i \in 1 .. d : Drops(batch[i], x)
  BY <1>4, <1>8
<1>10. ASSUME NEW i \in 1 .. Len(batch), NEW x \in Exports, Puts(batch[i], x)
       PROVE  x = e
  <2>1. i \in 1 .. d \/ i = d + 1 \/ i = d + 2
    BY <1>8
  <2>2. i \notin 1 .. d
    BY <1>9, <1>10 DEF Puts
  <2>3. i # d + 2
    BY <1>7, <1>8, <1>10 DEF Puts
  <2>4. QED BY <1>7, <1>8, <1>10, <2>1, <2>2, <2>3 DEF Puts
<1>11. writes' = writes \o batch
  BY <1>1, <1>5 DEF e
<1>12. PackedSet' = PackedSet \cup {e}
  BY <1>2, <1>3 DEF PackedSet, e
<1>13. archives' = (archives \ Surplus) \cup {e}
  BY <1>2 DEF e
<1>14. ReadyArePacked'
  <2>1. \A i \in 1 .. Len(writes') :
          MarksReady(writes'[i]) => writes'[i].export \in PackedSet'
    BY <1>3, <1>6, <1>11, <1>12, BatchReady
  <2>2. archives' \subseteq PackedSet' /\ PackedSet \subseteq PackedSet'
    BY <1>3, <1>12, <1>13 DEF ReadyArePacked
  <2>3. \A x \in Calls : calls'[x].at = "loaded" =>
          calls[x].at = "loaded" /\ calls'[x].seeds = calls[x].seeds
    BY <1>2, OthersAreNotLoaded
  <2>4. QED BY <1>2, <1>3, <2>1, <2>2, <2>3, ReadyStays
<1>15. FileTypes'
  BY <1>2, <1>3 DEF LimitInv, FileTypes, e
<1>16. Cardinality(archives \ Surplus) <= MaxArchives - 1
  BY <1>3, FewAreKept DEF ReadyArePacked
<1>17. PICK base \in SUBSET Exports : Fits(base)
  BY DEF LimitInv
<1>18. e \in Exports
  BY <1>3 DEF e
<1>19. Fits(base)'
  BY <1>2, <1>3, <1>6, <1>9, <1>10, <1>11, <1>13, <1>16, <1>17, <1>18, FitsPacked
<1>20. QED BY <1>14, <1>15, <1>19 DEF LimitInv

LEMMA WriteLimit ==
    ASSUME IInv, LimitInv, Write \/ WriteFails PROVE LimitInv'
<1> DEFINE w == Head(writes)
<1>1. /\ writes # <<>> /\ writes' = Tail(writes) /\ Advance
      /\ UNCHANGED <<archives, packed, crashes>> /\ lost \subseteq lost'
  BY DEF Write, WriteFails, Advance
<1>2. /\ writes \in Seq(Writes) /\ w \in Writes /\ rows \in Rows /\ w = writes[1]
      /\ QueueTypes /\ Len(writes) \in Nat /\ Len(writes) > 0
      /\ Len(writes') = Len(writes) - 1
      /\ \A i \in 1 .. Len(writes') : writes'[i] = writes[i + 1]
  BY <1>1 DEF IInv, QueueTypes
<1>3. w.export \in Exports
  BY <1>2 DEF Writes
<1>4. ReadyArePacked /\ FileTypes
  BY DEF LimitInv
<1> HIDE DEF w
<1>5. /\ files' \subseteq Exports /\ files' \ lost' \subseteq objects'
      /\ \A e \in Exports \ lost' : e \in files' =>
             \/ e \in files /\ ~Drops(w, e)
             \/ Puts(w, e)
      /\ \A e \in Exports : rows'[e] = "ready" =>
             rows[e] = "ready" \/ (MarksReady(w) /\ w.export = e)
  <2>1. CASE Write
    <3>1. Done(w) /\ lost' = lost
      BY <2>1 DEF Write, w
    <3>2. files' = CASE w.kind = "putObject" -> files \cup {w.export}
                     [] w.kind = "deleteObject" /\ w.export \in objects ->
                          files \ {w.export}
                     [] OTHER -> files
      BY <3>1 DEF Done
    <3>3. objects' = CASE w.kind = "putObject" -> objects \cup {w.export}
                       [] w.kind = "deleteObject" -> objects \ {w.export}
                       [] OTHER -> objects
      BY <3>1 DEF Done
    <3>4. rows' = IF w.kind \in {"save", "deleteRow"}
                    THEN [rows EXCEPT ![w.export] = w.status] ELSE rows
      BY <3>1 DEF Done
    <3>5. \A e \in Exports : rows'[e] = "ready" =>
             rows[e] = "ready" \/ (MarksReady(w) /\ w.export = e)
      BY <1>2, <3>4 DEF Rows, MarksReady
    <3>6. /\ files' \subseteq Exports /\ files' \ lost' \subseteq objects'
          /\ \A e \in Exports \ lost' : e \in files' =>
               (e \in files /\ ~Drops(w, e)) \/ Puts(w, e)
      <4>1. files \subseteq Exports /\ files \ lost \subseteq objects
        BY <1>4 DEF FileTypes
      <4>2. CASE w.kind = "putObject"
        <5>1. files' = files \cup {w.export} /\ objects' = objects \cup {w.export}
          BY <3>2, <3>3, <4>2
        <5>2. QED BY <1>3, <3>1, <4>1, <4>2, <5>1 DEF Drops, Puts
      <4>3. CASE w.kind = "deleteObject"
        <5>1. /\ files' = IF w.export \in objects THEN files \ {w.export} ELSE files
              /\ objects' = objects \ {w.export}
          BY <3>2, <3>3, <4>3
        <5>2. QED BY <1>3, <3>1, <4>1, <4>3, <5>1 DEF Drops, Puts
      <4>4. CASE w.kind \notin {"putObject", "deleteObject"}
        <5>1. files' = files /\ objects' = objects
          BY <3>2, <3>3, <4>4
        <5>2. QED BY <3>1, <4>1, <4>4, <5>1 DEF Drops, Puts
      <4>5. QED BY <4>2, <4>3, <4>4
    <3>7. QED BY <3>5, <3>6
  <2>2. CASE WriteFails
    <3>1. /\ lost' = lost \cup {w.export} /\ UNCHANGED <<rows, objects>>
          /\ files' \in {files, files \cup {w.export}}
      BY <2>2 DEF WriteFails, w
    <3>2. QED BY <1>3, <1>4, <3>1 DEF FileTypes, Drops, Puts
  <2>3. QED BY <2>1, <2>2
<1>6. PackedSet' = PackedSet
  BY <1>1, PackedSame
<1>7. ReadyArePacked'
  <2>1. \A e \in Exports : rows'[e] = "ready" => rows[e] = "ready" \/ e \in PackedSet
    BY <1>2, <1>4, <1>5 DEF ReadyArePacked
  <2>2. \A i \in 1 .. Len(writes') :
          MarksReady(writes'[i]) => writes'[i].export \in PackedSet'
    <3> SUFFICES ASSUME NEW i \in 1 .. Len(writes'), MarksReady(writes'[i])
                 PROVE  writes'[i].export \in PackedSet
      BY <1>6
    <3>1. i + 1 \in 1 .. Len(writes) /\ writes'[i] = writes[i + 1]
      BY <1>2
    <3>2. QED BY <1>4, <3>1 DEF ReadyArePacked
  <2>3. archives' \subseteq PackedSet'
    BY <1>1, <1>4, <1>6 DEF ReadyArePacked
  <2>4. \A d \in Calls : calls'[d].at = "loaded" =>
          calls[d].at = "loaded" /\ calls'[d].seeds = calls[d].seeds
    BY <1>1, AdvanceNotLoaded
  <2>5. QED BY <1>4, <1>6, <2>1, <2>2, <2>3, <2>4, ReadyStays
<1>8. FileTypes'
  BY <1>1, <1>4, <1>5 DEF FileTypes
<1>9. PICK base \in SUBSET Exports : Fits(base)
  BY DEF LimitInv
<1>10. Fits(base)'
  BY <1>1, <1>2, <1>5, <1>9, FitsFirst DEF w
<1>11. QED BY <1>7, <1>8, <1>10 DEF LimitInv

LEMMA CrashLimit ==
    ASSUME IInv, LimitInv, Crash PROVE LimitInv'
<1>1. /\ calls' = [c \in Calls |-> Idle] /\ writes' = <<>> /\ archives' = {}
      /\ UNCHANGED <<rows, files, objects, packed, lost>> /\ crashes' = crashes + 1
  BY DEF Crash, disk, past
<1>2. Idle.at = "idle" /\ Len(writes') = 0 /\ PackedSet' = PackedSet
  BY <1>1, PackedSame DEF Idle
<1>3. ReadyArePacked' /\ FileTypes'
  BY <1>1, <1>2 DEF LimitInv, ReadyArePacked, FileTypes
<1>4. PICK base \in SUBSET Exports : Fits(base)
  BY DEF LimitInv
<1>5. FileTypes /\ writes \in Seq(Writes)
  BY DEF LimitInv, IInv, QueueTypes
<1>6. \E later \in SUBSET Exports : Fits(later)'
  BY <1>4, <1>5, FitsCrash
<1>7. QED BY <1>3, <1>6 DEF LimitInv

LEMMA StepLimit == IInv /\ LimitInv /\ [Next]_vars => LimitInv'
<1> SUFFICES ASSUME IInv, LimitInv, [Next]_vars PROVE LimitInv'
  OBVIOUS
<1>1. archives \subseteq PackedSet
  BY DEF LimitInv, ReadyArePacked
<1>2. CASE \E c \in Calls : Handle(c)
  <2>1. PICK c \in Calls : Handle(c)
    BY <1>2
  <2>2. CASE LoadRows(c)
    <3> DEFINE r == calls[c]
               next == [r EXCEPT !.at = "loaded", !.seeds = rows]
    <3>1. /\ UNCHANGED <<writes, rows, files, objects, packed, lost, crashes, archives>>
          /\ calls' = [calls EXCEPT ![c] = next] /\ r \in CallRecords
          /\ calls \in [Calls -> CallRecords]
      BY <2>2 DEF LoadRows, memory, disk, past, IInv, CallTypes
    <3>2. next.seeds = rows
      BY <3>1 DEF CallRecords
    <3> HIDE DEF next
    <3>3. \A d \in Calls : calls'[d].at = "loaded" =>
             \/ calls'[d].seeds = rows
             \/ calls[d].at = "loaded" /\ calls'[d].seeds = calls[d].seeds
      BY <3>1, <3>2
    <3>4. QED BY <1>1, <3>1, <3>3, StaysLimit
  <2>3. CASE /\ ~LoadRows(c)
             /\ UNCHANGED <<writes, rows, files, objects, packed, lost, crashes, archives>>
    <3>1. \A d \in Calls : calls'[d].at = "loaded" =>
             calls[d].at = "loaded" /\ calls'[d].seeds = calls[d].seeds
      BY <2>1, <2>3, OthersAreNotLoaded
    <3>2. QED BY <1>1, <2>3, <3>1, StaysLimit
  <2>4. CASE \/ \E op \in {"create", "discard", "look"} : Arrive(c, op)
             \/ LoadFails(c) \/ Refuse(c) \/ ReadRevision(c) \/ List(c) \/ CheckRevision(c)
             \/ (\E f \in Files : ReadFile(c, f)) \/ Retry(c) \/ Answer(c)
    <3>1. UNCHANGED <<writes, rows, files, objects, packed, lost, crashes, archives>>
      BY <2>4 DEF Arrive, LoadFails, Refuse, ReadRevision, List, CheckRevision, ReadFile,
                  Retry, Answer, memory, disk, past
    <3>2. QED BY <2>2, <2>3, <3>1
  <2>5. CASE Hydrate(c)
    BY <2>5, HydrateLimit
  <2>6. CASE Sweep(c)
    BY <2>6, SweepLimit
  <2>7. CASE \E e \in Exports : Open(c, e) \/ Discard(c, e)
    BY <2>7, OpenLimit, DiscardLimit
  <2>8. CASE GiveUp(c) \/ Pack(c)
    BY <2>8, GiveUpLimit, PackLimit
  <2>9. QED BY <2>1, <2>2, <2>4, <2>5, <2>6, <2>7, <2>8 DEF Handle
<1>3. CASE Write \/ WriteFails
  BY <1>3, WriteLimit
<1>4. CASE (\E f \in Files : Edit(f)) \/ Expire
  <2>1. UNCHANGED <<writes, rows, files, objects, packed, lost, crashes, archives, calls>>
    BY <1>4 DEF Edit, Expire, memory, disk, past
  <2>2. QED BY <1>1, <2>1, StaysLimit
<1>5. CASE Crash
  BY <1>5, CrashLimit
<1>6. CASE UNCHANGED vars
  <2>1. UNCHANGED <<writes, rows, files, objects, packed, lost, crashes, archives, calls>>
    BY <1>6 DEF vars, disk, past
  <2>2. QED BY <1>1, <2>1, StaysLimit
<1>7. QED BY <1>2, <1>3, <1>4, <1>5, <1>6 DEF Next

LEMMA FitsBounds ==
    ASSUME IInv, FileTypes, NEW base, Fits(base) PROVE ArchivesAreBounded
<1> DEFINE left == files \ (lost \cup base)
           all == files \ lost
<1>1. /\ files \subseteq Exports /\ crashes \in Nat /\ MaxArchives \in Nat
      /\ base \in SUBSET Exports /\ left \in SUBSET Exports /\ all \in SUBSET Exports
  BY ExportsAssumption DEF FileTypes, Fits
<1>2. 0 \in 0 .. Len(writes) /\ After(writes, files, 0) = files
  BY <1>1, AfterNone DEF IInv, QueueTypes
<1>3. Cardinality(left) <= MaxArchives /\ Cardinality(base) <= MaxArchives * crashes
  BY <1>2 DEF Fits
<1>4. all \subseteq base \cup left /\ base \cap left = {} /\ base \cup left \in SUBSET Exports
  BY <1>1
<1>5. /\ IsFiniteSet(base) /\ IsFiniteSet(left) /\ IsFiniteSet(base \cup left)
      /\ Cardinality(base) \in Nat /\ Cardinality(left) \in Nat /\ Cardinality(all) \in Nat
      /\ Cardinality(base \cup left) \in Nat
  BY <1>1, <1>4, FiniteExports
<1> HIDE DEF left, all
<1>6. Cardinality(base \cup left) =
        Cardinality(base) + Cardinality(left) - Cardinality(base \cap left)
  BY <1>5, FS_Union
<1>7. Cardinality(base \cap left) = 0
  BY <1>4, FS_EmptySet
<1>8. Cardinality(all) <= Cardinality(base \cup left)
  BY <1>4, <1>5, FS_Subset
<1> DEFINE p == MaxArchives * crashes
<1>9. p \in Nat /\ MaxArchives * (1 + crashes) = p + MaxArchives
  BY <1>1
<1> HIDE DEF p
<1>10. Cardinality(all) <= p + MaxArchives
  BY <1>1, <1>3, <1>5, <1>6, <1>7, <1>8, <1>9 DEF p
<1>11. QED BY <1>9, <1>10 DEF ArchivesAreBounded, all

(* However requests overlap, and wherever the process stops, what is on    *)
(* the disk is at most the per-owner limit for each process there was,     *)
(* but for archives whose writes failed: the deletions that make room are  *)
(* queued ahead of the archive, and reach every archive this process       *)
(* knows of.                                                               *)
THEOREM LimitHoldsPerProcess == Spec => []ArchivesAreBounded
<1>1. IInv /\ LimitInv => ArchivesAreBounded
  BY FitsBounds DEF LimitInv
<1>2. QED BY <1>1, InitInvariant, StepInvariant, InitLimit, StepLimit, PTL DEF Spec

=============================================================================
