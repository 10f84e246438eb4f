------------------------------- MODULE Pager -------------------------------
(***************************************************************************)
(* The copy-on-write pager of tinyjoin-core (pager.rs, page.rs) over a     *)
(* page device whose writes reach durable storage only at a flush          *)
(* (device.rs, src/worker/page-device.ts).                                 *)
(*                                                                         *)
(* Pages are numbered as in page.rs: the two superblock slots, then two    *)
(* slots for every chunk of the allocation bitmap, then data pages.  A     *)
(* page image is the non-empty set of page values whose bytes it mixes: a  *)
(* singleton is an intact page, anything else is a torn one, which no      *)
(* checksum accepts.  Checksums and the commit hash are abstracted to the  *)
(* very values they cover (no collisions).                                 *)
(***************************************************************************)
EXTENDS Naturals, FiniteSets

CONSTANTS
    ChunkCount,     \* BITMAP_CHUNK_COUNT
    LowEnd,         \* data pages below this have their bit in the superblock
    ChunkPages,     \* how many pages' bits a chunk holds
    MaxPages,       \* MAX_PAGE_COUNT
    MaxRevision,    \* MAX_DATABASE_REVISION
    Vals,           \* contents of a data page
    Revisions,      \* the revisions and the catalog roots that callers of commit
    CatalogRoots,   \* may pass, right or wrong
    MaxTransactions,\* bound: write transactions that may begin
    MaxEvictions,   \* bound: dirty pages that a transaction's reads and writes evict
    MaxEndings,     \* bound: sessions that may end
    Faults,         \* which device calls may fail: subset of {"write", "flush"}
    Endings         \* how each session may end: a subset of {"power", "process", "close"}

ASSUME PagerAssumption ==
    /\ ChunkCount \in Nat
    /\ LowEnd \in Nat /\ ChunkPages \in Nat
    /\ MaxPages \in Nat /\ MaxRevision \in Nat
    /\ MaxTransactions \in Nat /\ MaxEvictions \in Nat /\ MaxEndings \in Nat
    /\ 2 + 2 * ChunkCount <= LowEnd /\ LowEnd <= MaxPages
    /\ MaxPages <= LowEnd + ChunkCount * ChunkPages
    /\ Revisions \subseteq Nat /\ CatalogRoots \subseteq Nat
    /\ Faults \subseteq {"write", "flush"}
    /\ Endings \in [1 .. MaxEndings -> SUBSET {"power", "process", "close"}]

VARIABLES
    view,       \* [Pages -> page image] what a read of the device returns now
    durable,    \* [Pages -> page image] what the last flush made safe
    risk,       \* [Pages -> set of values] what was written there since
    stage,      \* where the pager is in opening, writing and publishing
    active,     \* RecoveredMetadata of the active root
    cand,       \* the PagerWriteTransaction
    pending,    \* the PendingMetadata of a commit under way
    recovery_required,
    begun,      \* how many transactions have begun
    endings,    \* how many sessions have ended
    acked,      \* history: the last root acknowledged by a commit or an open
    attempts    \* history: the roots whose publication was begun since

device == <<view, durable, risk>>
history == <<begun, endings, acked, attempts>>
vars == <<view, durable, risk, stage, active, cand, pending, recovery_required,
          begun, endings, acked, attempts>>

-----------------------------------------------------------------------------
(* Page layout. *)

Slots == {0, 1}
Chunks == 0 .. (ChunkCount - 1)
FirstData == 2 + 2 * ChunkCount
Pages == 0 .. (MaxPages - 1)
MetadataPages == 0 .. (FirstData - 1)
DataPages == FirstData .. (MaxPages - 1)

SuperblockPage(slot) == slot
ChunkPage(chunk, slot) == 2 + slot * ChunkCount + chunk
Inactive(slot) == 1 - slot

\* The data pages whose bits chunk `chunk` holds.
ChunkRange(chunk) ==
    {p \in DataPages : /\ LowEnd + chunk * ChunkPages <= p
                       /\ p < LowEnd + (chunk + 1) * ChunkPages}
LowRange == {p \in DataPages : p < LowEnd}

-----------------------------------------------------------------------------
(* Page values. *)

Absent == [kind |-> "absent"]       \* past the end of the file
Zero == [kind |-> "zero"]           \* a zero-filled page
DataPage(v) == [kind |-> "data", val |-> v]
ChunkValue(chunk, slot, gen, bitmap) ==
    [kind |-> "chunk", chunk |-> chunk, slot |-> slot, gen |-> gen,
     bits |-> bitmap \cap ChunkRange(chunk)]
NoRoot == MaxPages                  \* no catalog
NoPages == [p \in {} |-> NoRoot]    \* the empty map from pages
\* A superblock names each chunk by the slot that holds it and the checksum,
\* here the value, of the page its commit wrote there.
SuperblockValue(root) ==
    [kind |-> "super", slot |-> root.slot, gen |-> root.gen, rev |-> root.rev,
     root |-> root.root, commit |-> root.commit,
     low |-> root.bitmap \cap LowRange, live |-> Cardinality(root.bitmap),
     chunks |-> root.chunks]

IsIntact(image) == \E v \in image : image = {v}
Value(image) == CHOOSE v \in image : TRUE
HoldsData(image) == IsIntact(image) /\ Value(image).kind = "data"

PageCount(img) == Cardinality({p \in Pages : img[p] # {Absent}})

\* A file has no holes: what was never written before a page that was reads as
\* zeros, and a partly written trailing page is dropped when the file opens
\* (repairTornTail).
Dense(img) ==
    [p \in Pages |->
        IF Absent \notin img[p] THEN img[p]
        ELSE IF \E q \in Pages : q > p /\ img[q] # {Absent}
             THEN (img[p] \ {Absent}) \cup {Zero}
             ELSE {Absent}]

-----------------------------------------------------------------------------
(* Recovery, as a function of the page images a device holds. *)

EmptyRoot(slot) ==
    [slot |-> slot, gen |-> 1, rev |-> 0, root |-> NoRoot, bitmap |-> {},
     commit |-> NoPages,
     chunks |-> [c \in Chunks |->
                    [slot |-> slot, page |-> ChunkValue(c, slot, 1, {})]]]

EmptyLayout(p) ==
    IF p \in Slots THEN SuperblockValue(EmptyRoot(p))
    ELSE IF p < 2 + ChunkCount THEN ChunkValue(p - 2, 0, 1, {})
                               ELSE ChunkValue(p - 2 - ChunkCount, 1, 1, {})

\* Mutant of IsRecoverableEmptyBootstrap: only an empty file is initialized.
IsEmptyFile(img) == PageCount(img) = 0
\* Every byte is zero or belongs to the deterministic empty database.
IsRecoverableEmptyBootstrap(img) ==
    /\ PageCount(img) <= FirstData
    /\ \A p \in 0 .. (PageCount(img) - 1) : img[p] \subseteq {Zero, EmptyLayout(p)}

SuperblockAt(img, slot) == Value(img[SuperblockPage(slot)])

BitmapOf(sb) ==
    sb.low \cup UNION {sb.chunks[c].page.bits : c \in Chunks}

Decodes(img, slot) ==
    /\ IsIntact(img[SuperblockPage(slot)])
    /\ LET sb == SuperblockAt(img, slot)
       IN  /\ sb.kind = "super"
           /\ sb.slot = slot
           /\ \A c \in Chunks :
                img[ChunkPage(c, sb.chunks[c].slot)] = {sb.chunks[c].page}
           /\ Cardinality(BitmapOf(sb)) = sb.live
           /\ sb.root = NoRoot \/ sb.root \in BitmapOf(sb)

RootAt(img, slot) ==
    LET sb == SuperblockAt(img, slot)
    IN  [slot |-> slot, gen |-> sb.gen, rev |-> sb.rev, root |-> sb.root,
         bitmap |-> BitmapOf(sb), commit |-> sb.commit, chunks |-> sb.chunks]

\* Two roots of one generation hold the same database, wherever their chunks are.
LogicallyMatches(a, b) ==
    /\ a.gen = b.gen /\ a.rev = b.rev /\ a.root = b.root
    /\ a.commit = b.commit /\ a.bitmap = b.bitmap

\* Mutant of CommitIsDurable: a superblock that decodes is trusted.
TrustsSuperblock(img, newest, previous) == TRUE

CommitIsDurable(img, newest, previous) ==
    LET new == newest.bitmap \ previous.bitmap
    IN  /\ \A p \in new : HoldsData(img[p])
        /\ [p \in new |-> Value(img[p]).val] = newest.commit

NewestSlot(img) ==
    IF RootAt(img, 0).gen >= RootAt(img, 1).gen THEN 0 ELSE 1

\* The set of roots recovery can return for these images: one, or none where
\* the open fails.
RecoverDeviceMetadata(img) ==
    LET valid == {s \in Slots : Decodes(img, s)}
    IN  IF PageCount(img) < FirstData \/ valid = {} THEN {}
        ELSE IF valid # Slots THEN {RootAt(img, s) : s \in valid}
        ELSE LET newest == RootAt(img, NewestSlot(img))
                 older  == RootAt(img, Inactive(NewestSlot(img)))
             IN  IF newest.gen = older.gen
                 THEN {r \in {newest} : LogicallyMatches(newest, older)}
                 ELSE IF newest.gen = older.gen + 1
                         /\ ~ CommitIsDurable(img, newest, older)
                      THEN {older}
                      ELSE {newest}

\* validate_physical_coverage: every allocated page is inside the file.
Covered(img, root) == \A p \in root.bitmap : img[p] # {Absent}

-----------------------------------------------------------------------------
(* The device. *)

\* `writes` maps page numbers to the values written there.  Until a flush, a
\* power loss may leave what the page held, what was written, or a mix.
Risks(writes) ==
    /\ risk' = [p \in Pages |-> IF p \in DOMAIN writes
                                THEN risk[p] \cup {writes[p]} ELSE risk[p]]
    /\ UNCHANGED durable

DeviceWrite(writes) ==
    /\ view' = [p \in Pages |-> IF p \in DOMAIN writes THEN {writes[p]} ELSE view[p]]
    /\ Risks(writes)

\* A write that fails leaves each of its pages old, new or torn between the
\* two.  A page appended by the failing call is truncated away again
\* (rollbackAppend), one appended by an earlier call of the series stays.
DeviceWriteFails(writes) ==
    /\ "write" \in Faults
    /\ \E outcome \in [DOMAIN writes -> {"old", "new", "torn"}] :
        /\ \A p \in DOMAIN writes : view[p] = {Absent} =>
            /\ outcome[p] # "torn"
            /\ outcome[p] = "new" =>
                \A q \in DOMAIN writes :
                    q < p /\ view[q] = {Absent} => outcome[q] = "new"
        /\ view' = [p \in Pages |->
                      IF p \notin DOMAIN writes \/ outcome[p] = "old" THEN view[p]
                      ELSE IF outcome[p] = "new" THEN {writes[p]}
                      ELSE view[p] \cup {writes[p]}]
    /\ Risks(writes)

DeviceFlush ==
    /\ durable' = view
    /\ risk' = [p \in Pages |-> {}]
    /\ UNCHANGED view

\* A failed flush may have made any part of the preceding writes durable.
DeviceFlushFails == "flush" \in Faults /\ UNCHANGED device

\* The images a power loss may leave of a page.
Survivors(p) ==
    {durable[p]} \cup {{v} : v \in risk[p]}
        \cup (IF risk[p] = {} THEN {} ELSE {durable[p] \cup risk[p]})

\* The ways the pages in S may come through a power loss.
Remains(S) ==
    LET unflushed == {p \in S : risk[p] # {}}
    IN  {[p \in S |-> IF p \in unflushed THEN left[p] ELSE durable[p]] :
            left \in {f \in [unflushed -> UNION {Survivors(p) : p \in unflushed}] :
                        \A p \in unflushed : f[p] \in Survivors(p)}}

-----------------------------------------------------------------------------
(* Opening a device. *)

NoCandidate ==
    [bitmap |-> {}, start |-> FirstData, end |-> 0, vals |-> NoPages, dirty |-> {},
     evictions |-> 0]

\* A snapshot is what a root promises its readers.
Snapshot(root, img) ==
    [gen |-> root.gen, rev |-> root.rev, root |-> root.root,
     pages |-> [p \in root.bitmap |-> img[p]]]

Init ==
    /\ view = [p \in Pages |-> {Absent}]
    /\ durable = view
    /\ risk = [p \in Pages |-> {}]
    /\ stage = "closed"
    /\ active = EmptyRoot(0)
    /\ pending = EmptyRoot(0)
    /\ cand = NoCandidate
    /\ recovery_required = FALSE
    /\ begun = 0
    /\ endings = 0
    /\ acked = Snapshot(EmptyRoot(0), view)
    /\ attempts = {}

\* with_cache_capacity: a device with no root is initialized if it holds nothing
\* but an interrupted initialization.
OpenEmpty ==
    /\ stage = "closed"
    /\ RecoverDeviceMetadata(view) = {}
    /\ IsRecoverableEmptyBootstrap(view)

\* initialize_empty_device: zeros over the metadata pages, then the chunks, a
\* flush, then both superblocks, a flush.  A failure fails the open.
BootstrapStep(from, to) ==
    /\ stage = from
    /\ stage' \in {to, "dead"}
    /\ UNCHANGED <<active, cand, pending, recovery_required, history>>

BootstrapWrite(writes, to) ==
    \/ DeviceWrite(writes) /\ stage' = to
    \/ DeviceWriteFails(writes) /\ stage' = "dead"

BootstrapZeros ==
    /\ OpenEmpty
    /\ BootstrapWrite([p \in MetadataPages |-> Zero], "zeros")
    /\ BootstrapStep("closed", "zeros")

BootstrapChunks ==
    /\ BootstrapWrite([p \in MetadataPages \ Slots |-> EmptyLayout(p)], "chunks")
    /\ BootstrapStep("zeros", "chunks")

BootstrapFlush ==
    /\ \/ DeviceFlush /\ stage' = "extent"
       \/ DeviceFlushFails /\ stage' = "dead"
    /\ BootstrapStep("chunks", "extent")

BootstrapRoots ==
    /\ BootstrapWrite([p \in Slots |-> EmptyLayout(p)], "roots")
    /\ BootstrapStep("extent", "roots")

Opened(root) ==
    /\ active' = root
    /\ pending' = root
    /\ cand' = NoCandidate
    /\ recovery_required' = FALSE
    /\ stage' = "idle"

\* The session serves `root` from now on.
Serves(root) ==
    /\ acked' = Snapshot(root, view)
    /\ attempts' = IF acked' = acked THEN attempts ELSE {}
    /\ UNCHANGED <<begun, endings>>

BootstrapRootsFlush ==
    /\ stage = "roots"
    /\ \/ DeviceFlush /\ Opened(EmptyRoot(0)) /\ Serves(EmptyRoot(0))
       \/ /\ DeviceFlushFails /\ stage' = "dead"
          /\ UNCHANGED <<active, cand, pending, recovery_required, history>>

\* Opening an existing device only reads it.  An open that finds neither a root
\* nor an interrupted initialization reports an error and changes nothing.
OpenExisting ==
    /\ stage = "closed"
    /\ \E root \in RecoverDeviceMetadata(view) :
        Covered(view, root) /\ Opened(root) /\ Serves(root)
    /\ UNCHANGED device

-----------------------------------------------------------------------------
(* The write transaction. *)

BeginWrite ==
    /\ stage = "idle"
    /\ ~ recovery_required
    /\ begun < MaxTransactions
    /\ begun' = begun + 1
    /\ cand' = [NoCandidate EXCEPT !.bitmap = active.bitmap]
    /\ stage' = "write"
    /\ UNCHANGED <<device, active, pending, recovery_required, endings, acked,
                   attempts>>

InWrite == stage = "write"

NewPages == cand.bitmap \ active.bitmap
\* Mutant of IsNew: a page shared with the active root is written in place.
IsAllocated(p) == p \in cand.bitmap
IsNew(p) == p \in NewPages

\* first_free: the pages neither root allocates.
FreePages == DataPages \ (active.bitmap \cup cand.bitmap)

\* The page allocate_page picks: the first free one from `start`, else the first.
IsSelected(p) ==
    /\ p \in FreePages
    /\ \A q \in FreePages :
        IF p >= cand.start THEN q >= cand.start => p <= q
                           ELSE q < cand.start /\ p <= q


\* A page past the end of the file follows one that exists or will be written.
IsDenseChoice(p) == p <= cand.end \/ p <= PageCount(view)

NextStart(p) == IF p + 1 = MaxPages THEN FirstData ELSE p + 1

\* DATABASE_FULL, where no page is free, changes nothing.
AllocatePage(p) ==
    /\ InWrite
    /\ IsSelected(p)
    /\ cand' = IF IsDenseChoice(p)
               THEN [cand EXCEPT !.bitmap = @ \cup {p}, !.start = NextStart(p),
                                 !.end = IF cand.end > p THEN cand.end ELSE p + 1]
               ELSE [cand EXCEPT !.start = NextStart(p)]
    /\ UNCHANGED <<device, stage, active, pending, recovery_required, history>>

\* A page may be rewritten any number of times before the commit.
WriteNewPage(p, v) ==
    /\ InWrite
    /\ IsNew(p)
    /\ cand' = [cand EXCEPT
                  !.vals = [q \in DOMAIN cand.vals \cup {p} |->
                              IF q = p THEN v ELSE cand.vals[q]],
                  !.dirty = @ \cup {p}]
    /\ UNCHANGED <<device, stage, active, pending, recovery_required, history>>

FreeSharedPage(p) ==
    /\ InWrite
    /\ ~ IsNew(p)
    /\ p \in active.bitmap
    /\ cand' = [cand EXCEPT !.bitmap = @ \ {p}]
    /\ UNCHANGED <<device, stage, active, pending, recovery_required, history>>

\* Mutant of ReleaseNewPage: the cache keeps the released page.
ReleaseBitOnly(p) ==
    /\ InWrite
    /\ IsNew(p)
    /\ cand' = [cand EXCEPT !.bitmap = @ \ {p}, !.start = IF @ < p THEN @ ELSE p]
    /\ UNCHANGED <<device, stage, active, pending, recovery_required, history>>

ReleaseNewPage(p) ==
    /\ InWrite
    /\ IsNew(p)
    /\ cand' = [cand EXCEPT
                  !.bitmap = @ \ {p},
                  !.vals = [q \in DOMAIN cand.vals \ {p} |-> cand.vals[q]],
                  !.dirty = @ \ {p},
                  !.start = IF @ < p THEN @ ELSE p]
    /\ UNCHANGED <<device, stage, active, pending, recovery_required, history>>

\* The pages a write of the candidate pages in S puts on the device: those, and
\* zeros wherever the file does not reach the page yet.
CandidateWrites(S) ==
    [p \in S \cup {q \in Pages : view[q] = {Absent} /\ \E r \in S : q < r} |->
        IF p \in S THEN DataPage(cand.vals[p]) ELSE Zero]

\* A read or a write that needs room in the cache evicts a dirty page; if the
\* device refuses, the page stays dirty and the read or write reports it.
EvictPage(p) ==
    /\ InWrite
    /\ p \in cand.dirty
    /\ cand.evictions < MaxEvictions
    /\ \/ /\ DeviceWrite(CandidateWrites({p}))
          /\ cand' = [cand EXCEPT !.dirty = @ \ {p}, !.evictions = @ + 1]
       \/ /\ DeviceWriteFails(CandidateWrites({p}))
          /\ UNCHANGED cand
    /\ UNCHANGED <<stage, active, pending, recovery_required, history>>

\* invalidate_candidate, with the transaction finished.
CandidateDropped ==
    /\ cand' = NoCandidate
    /\ stage' = "idle"

\* abort, or a drop of the unfinished transaction, which is all that is left to
\* one that mark_failed has closed to every other call.
Abort ==
    /\ stage = "write"
    /\ CandidateDropped
    /\ UNCHANGED <<device, active, pending, recovery_required, history>>

-----------------------------------------------------------------------------
(* Publication. *)


\* What validation refuses before anything is written.
Publishable(rev, root) ==
    /\ rev <= MaxRevision
    /\ rev >= active.rev
    /\ NewPages \subseteq DOMAIN cand.vals
    /\ root = NoRoot \/ root \in cand.bitmap

CommitRefused(rev, root) ==
    /\ InWrite
    /\ ~ Publishable(rev, root)
    /\ CandidateDropped
    /\ UNCHANGED <<device, active, pending, recovery_required, history>>

ChangedChunks ==
    {c \in Chunks : cand.bitmap \cap ChunkRange(c) # active.bitmap \cap ChunkRange(c)}

\* build_next_metadata, with the commit hash of the pages as they were written.
NextMetadata(rev, root) ==
    LET gen == active.gen + 1
    IN  [slot |-> Inactive(active.slot), gen |-> gen, rev |-> rev, root |-> root,
         bitmap |-> cand.bitmap,
         commit |-> [p \in NewPages |-> cand.vals[p]],
         chunks |-> [c \in Chunks |->
            IF c \in ChangedChunks
            THEN LET slot == Inactive(active.chunks[c].slot)
                 IN  [slot |-> slot, page |-> ChunkValue(c, slot, gen, cand.bitmap)]
            ELSE active.chunks[c]]]

\* The chunk pages a commit writes, each beside the one the active root reads.
ChunkWrites(next) ==
    LET target(c) == ChunkPage(c, next.chunks[c].slot)
    IN  [p \in {target(c) : c \in ChangedChunks} |->
            LET c == CHOOSE d \in ChangedChunks : target(d) = p
            IN  next.chunks[c].page]

\* The snapshot a commit of the candidate promises.
CandidateSnapshot(next) ==
    [gen |-> next.gen, rev |-> next.rev, root |-> next.root,
     pages |-> [p \in cand.bitmap |->
                 IF IsNew(p) THEN {DataPage(cand.vals[p])} ELSE acked.pages[p]]]

Merge(f, g) ==
    [x \in DOMAIN f \cup DOMAIN g |-> IF x \in DOMAIN f THEN f[x] ELSE g[x]]

\* Step 1 of commit: the dirty candidate pages, then the changed chunks.  A
\* failure here abandons the candidate and leaves the pager usable.
CommitPages(rev, root) ==
    /\ InWrite
    /\ Publishable(rev, root)
    /\ LET next   == NextMetadata(rev, root)
           writes == Merge(CandidateWrites(cand.dirty), ChunkWrites(next))
       IN  \/ /\ DeviceWrite(writes)
              /\ pending' = next
              /\ stage' = "pages"
              /\ cand' = [cand EXCEPT !.dirty = {}]
           \/ /\ DeviceWriteFails(writes)
              /\ CandidateDropped
              /\ UNCHANGED pending
    /\ UNCHANGED <<active, recovery_required, history>>

\* fail_after_superblock
Poisoned ==
    /\ recovery_required' = TRUE
    /\ CandidateDropped
    /\ UNCHANGED <<active, pending>>

\* From here on the inactive superblock may hold the new root.
CommitSuperblock ==
    /\ stage = "pages"
    /\ LET writes == [p \in {SuperblockPage(pending.slot)} |-> SuperblockValue(pending)]
       IN  \/ /\ DeviceWrite(writes)
              /\ stage' = "super"
              /\ UNCHANGED <<cand, active, pending, recovery_required>>
           \/ DeviceWriteFails(writes) /\ Poisoned
    /\ attempts' = attempts \cup {CandidateSnapshot(pending)}
    /\ UNCHANGED <<acked, begun, endings>>

\* Step 2, the flush, and step 3, the swap of the active root.
CommitFlush ==
    /\ stage = "super"
    /\ \/ /\ DeviceFlush
          /\ Opened(pending)
          /\ acked' = CandidateSnapshot(pending)
          /\ attempts' = {}
          /\ UNCHANGED <<begun, endings>>
       \/ DeviceFlushFails /\ Poisoned /\ UNCHANGED history

-----------------------------------------------------------------------------
(* The end of a session. *)

\* Whether the session that is open may end this way.
MayEnd(how) == endings < MaxEndings /\ how \in Endings[endings + 1]

SessionEnds ==
    /\ endings' = endings + 1
    /\ stage' = "closed"
    /\ active' = EmptyRoot(0)
    /\ pending' = EmptyRoot(0)
    /\ cand' = NoCandidate
    /\ recovery_required' = FALSE
    /\ UNCHANGED <<begun, acked, attempts>>

\* Whatever was not flushed survives in part: each page as one of the values it
\* may hold, or torn between them.
PowerLoss ==
    /\ MayEnd("power")
    /\ \E meta \in Remains(MetadataPages), data \in Remains(DataPages) :
        view' = Dense([p \in Pages |-> IF p \in DataPages THEN data[p] ELSE meta[p]])
    /\ durable' = view'
    /\ risk' = [p \in Pages |-> {}]
    /\ SessionEnds

\* The tab or its worker goes away: the file keeps every write, flushed or not.
ProcessExit ==
    /\ MayEnd("process")
    /\ stage # "closed"
    /\ UNCHANGED device
    /\ SessionEnds

\* into_device: the pager of a healthy session is dropped.
Close ==
    /\ MayEnd("close")
    /\ stage = "idle" /\ ~ recovery_required
    /\ UNCHANGED device
    /\ SessionEnds

-----------------------------------------------------------------------------
Commit(rev, root) == CommitRefused(rev, root) \/ CommitPages(rev, root)

Next ==
    \/ BootstrapZeros \/ BootstrapChunks \/ BootstrapFlush
    \/ BootstrapRoots \/ BootstrapRootsFlush \/ OpenExisting
    \/ BeginWrite \/ Abort
    \/ \E p \in DataPages : \/ AllocatePage(p) \/ FreeSharedPage(p) \/ ReleaseNewPage(p)
                            \/ EvictPage(p)
                            \/ \E v \in Vals : WriteNewPage(p, v)
    \/ \E rev \in Revisions, root \in CatalogRoots : Commit(rev, root)
    \/ CommitSuperblock \/ CommitFlush
    \/ PowerLoss \/ ProcessExit \/ Close

Spec == Init /\ [][Next]_vars

-----------------------------------------------------------------------------
(* Properties. *)

Stages == {"closed", "zeros", "chunks", "extent", "roots", "dead",
           "idle", "write", "pages", "super"}
\* The stages in which a pager exists.
Live == {"idle", "write", "pages", "super"}

\* The pages the active root reads: its superblock, its chunks and its data.
Reachable(root) ==
    {SuperblockPage(root.slot)} \cup root.bitmap
        \cup {ChunkPage(c, root.chunks[c].slot) : c \in Chunks}

\* What a page, a root, a candidate and a snapshot look like.
PageMaps == UNION {[S -> Vals] : S \in SUBSET DataPages}
ChunkValues ==
    [kind : {"chunk"}, chunk : Chunks, slot : Slots, gen : Nat,
     bits : SUBSET DataPages]
ChunkEntries == [Chunks -> [slot : Slots, page : ChunkValues]]
SuperblockValues ==
    [kind : {"super"}, slot : Slots, gen : Nat, rev : Nat, root : Nat,
     commit : PageMaps, low : SUBSET DataPages, live : Nat, chunks : ChunkEntries]
PageValues ==
    {Absent, Zero} \cup [kind : {"data"}, val : Vals] \cup ChunkValues
        \cup SuperblockValues
Roots ==
    [slot : Slots, gen : Nat, rev : Nat, root : Nat, bitmap : SUBSET DataPages,
     commit : PageMaps, chunks : ChunkEntries]
Candidates ==
    [bitmap : SUBSET DataPages, start : Nat, end : Nat, vals : PageMaps,
     dirty : SUBSET DataPages, evictions : Nat]
IsSnapshot(s) ==
    /\ s.gen \in Nat /\ s.rev \in Nat /\ s.root \in Nat
    /\ DOMAIN s.pages \subseteq DataPages
    /\ \A p \in DOMAIN s.pages : s.pages[p] \subseteq PageValues

\* Types: every page holds a value of the format, and so does whatever recovery
\* rebuilds from pages that a crash has torn.
TypeOK ==
    /\ view \in [Pages -> SUBSET PageValues]
    /\ durable \in [Pages -> SUBSET PageValues]
    /\ risk \in [Pages -> SUBSET PageValues]
    /\ stage \in Stages
    /\ active \in Roots /\ pending \in Roots
    /\ cand \in Candidates
    /\ recovery_required \in BOOLEAN
    /\ begun \in Nat /\ endings \in Nat
    /\ IsSnapshot(acked)
    /\ \A s \in attempts : IsSnapshot(s)

\* A candidate's writes are to its own pages, and what it publishes is what it
\* wrote (PagerWriteTransaction, build_next_metadata).
CandidateOK ==
    /\ stage \in {"write", "pages", "super"} =>
        /\ ~ recovery_required
        /\ cand.dirty \subseteq DOMAIN cand.vals
        /\ DOMAIN cand.vals \subseteq NewPages
    /\ stage \in {"pages", "super"} =>
        /\ NewPages \subseteq DOMAIN cand.vals
        /\ pending.slot = Inactive(active.slot)
        /\ pending.bitmap = cand.bitmap

\* The file reaches every page that the active root, the root about to replace
\* it and an initialization under way read, and every page evicted so far.
PagesPresent ==
    /\ stage \in {"zeros", "chunks", "extent", "roots"} =>
        \A p \in MetadataPages : view[p] # {Absent}
    /\ stage \in Live =>
        /\ \A p \in Reachable(active) : view[p] # {Absent}
        /\ ~ recovery_required => DOMAIN acked.pages = active.bitmap
    /\ stage = "write" =>
        \A p \in DOMAIN cand.vals \ cand.dirty : view[p] # {Absent}
    /\ stage \in {"pages", "super"} =>
        \A p \in Reachable(pending) \ {SuperblockPage(pending.slot)} : view[p] # {Absent}
    /\ stage = "super" => view[SuperblockPage(pending.slot)] # {Absent}

IInv == TypeOK /\ CandidateOK /\ PagesPresent

\* No interruption, failed call or sequence of the two leaves a device that
\* with_cache_capacity refuses to open.
AlwaysOpens ==
    stage = "closed" =>
        OpenEmpty \/ \E root \in RecoverDeviceMetadata(view) : Covered(view, root)

\* What a call may not do while a pager exists.
LeavesActiveAlone ==
    stage \in Live /\ stage' \in Live =>
        \A p \in Reachable(active) :
            view'[p] = view[p] /\ risk'[p] \subseteq risk[p]

\* No call writes a page the active root reads, not even in part: what a power
\* loss may leave there only ever becomes more certain (allocate_page, commit).
NeverTouchesActive == [][LeavesActiveAlone]_vars

\* The pager as an atomic store: what it holds is what its root reads back from
\* the device, while it may be read at all.
Store == INSTANCE AtomicStore WITH
    Empty <- Snapshot(EmptyRoot(0), [p \in Pages |-> {Absent}]),
    up <- stage \in Live,
    db <- IF stage \in Live /\ ~ recovery_required THEN Snapshot(active, view) ELSE acked,
    maybe <- attempts

\* The pager implements the atomic store: a commit replaces everything its
\* readers see in one step, an abort or a refusal changes nothing they see, and
\* an interrupted commit is found whole or not at all (Pager).
ImplementsAtomicStore == Store!Spec
=============================================================================
