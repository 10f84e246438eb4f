---------------------------- MODULE PagerProofs ----------------------------
(***************************************************************************)
(* Proofs about Pager for every page space, every chunk layout, every set  *)
(* of faults and endings.                                                  *)
(***************************************************************************)
EXTENDS Pager, FiniteSetTheorems, TLAPS

Image == [Pages -> SUBSET PageValues]

-----------------------------------------------------------------------------
(* Page layout. *)

\* The layout's constants are numbers, and every page is metadata or data.
LEMMA LayoutType ==
    /\ FirstData \in Nat
    /\ \A p \in Pages : p \in Nat
    /\ MetadataPages \subseteq Pages
    /\ DataPages \subseteq Pages
    /\ MetadataPages \cap DataPages = {}
    /\ Pages = MetadataPages \cup DataPages
    /\ IsFiniteSet(DataPages)
<1>1. FirstData \in Nat /\ FirstData <= MaxPages /\ MaxPages \in Nat
  BY PagerAssumption DEF FirstData
<1>2. IsFiniteSet(FirstData .. (MaxPages - 1))
  BY <1>1, FS_Interval
<1> QED
  BY <1>1, <1>2 DEF Pages, MetadataPages, DataPages

\* ChunkPage gives each chunk of each slot (BitmapSlot::page_id) a metadata page
\* of its own, none of them a superblock.
LEMMA ChunkPageInjective ==
    ASSUME NEW c \in Chunks, NEW s \in Slots
    PROVE  /\ ChunkPage(c, s) \in MetadataPages \ Slots
           /\ \A d \in Chunks, t \in Slots :
                ChunkPage(c, s) = ChunkPage(d, t) => c = d /\ s = t
<1>1. ChunkCount \in Nat /\ c \in 0 .. (ChunkCount - 1)
  BY PagerAssumption DEF Chunks
<1>2. \A d \in Chunks : d \in 0 .. (ChunkCount - 1)
  BY DEF Chunks
<1>3. \A d \in Chunks : ChunkPage(d, 0) = 2 + d /\ ChunkPage(d, 1) = 2 + ChunkCount + d
  BY <1>1, <1>2 DEF ChunkPage
<1> QED
  BY <1>1, <1>2, <1>3 DEF Slots, MetadataPages, FirstData

\* The superblocks are among the metadata pages.
LEMMA SlotsAreMetadata == Slots \subseteq MetadataPages
BY PagerAssumption DEF Slots, MetadataPages, FirstData

-----------------------------------------------------------------------------
(* Page values and roots. *)

\* The empty map is a map from pages.
LEMMA NoPagesType == NoPages \in PageMaps
BY DEF NoPages, PageMaps

\* A chunk of any bitmap is in the format.
LEMMA ChunkValueType ==
    ASSUME NEW c \in Chunks, NEW s \in Slots, NEW gen \in Nat, NEW bitmap
    PROVE  ChunkValue(c, s, gen, bitmap) \in ChunkValues
BY DEF ChunkValue, ChunkValues, ChunkRange

\* The empty database has a root of the format.
LEMMA EmptyRootType ==
    ASSUME NEW s \in Slots
    PROVE  EmptyRoot(s) \in Roots
<1>1. MaxPages \in Nat
  BY PagerAssumption
<1>2. \A c \in Chunks : ChunkValue(c, s, 1, {}) \in ChunkValues
  BY ChunkValueType
<1> QED
  BY <1>1, <1>2, NoPagesType DEF EmptyRoot, Roots, ChunkEntries, NoRoot

\* Encoding a root gives a superblock of the format.
LEMMA SuperblockValueType ==
    ASSUME NEW root \in Roots
    PROVE  SuperblockValue(root) \in SuperblockValues
<1>1. Cardinality(root.bitmap) \in Nat
  <2>1. root.bitmap \subseteq DataPages
    BY DEF Roots
  <2> QED
    BY <2>1, LayoutType, FS_Subset, FS_CardinalityType
<1> QED
  BY <1>1 DEF SuperblockValue, SuperblockValues, Roots, LowRange

\* Its pages are in the format too.
LEMMA EmptyLayoutType ==
    ASSUME NEW p \in MetadataPages
    PROVE  EmptyLayout(p) \in PageValues
<1>1. CASE p \in Slots
  BY <1>1, EmptyRootType, SuperblockValueType DEF EmptyLayout, PageValues
<1>2. CASE p \notin Slots
  <2>1. ChunkCount \in Nat /\ p \in Nat /\ 2 <= p /\ p < 2 + 2 * ChunkCount
    BY <1>2, PagerAssumption DEF MetadataPages, FirstData, Slots
  <2>2. CASE p < 2 + ChunkCount
    <3>1. p - 2 \in Chunks /\ 0 \in Slots /\ 1 \in Nat
      BY <2>1, <2>2 DEF Chunks, Slots
    <3> QED
      BY <1>2, <2>2, <3>1, ChunkValueType DEF EmptyLayout, PageValues
  <2>3. CASE ~ (p < 2 + ChunkCount)
    <3>1. p - 2 - ChunkCount \in Chunks /\ 1 \in Slots /\ 1 \in Nat
      BY <2>1, <2>3 DEF Chunks, Slots
    <3> QED
      BY <1>2, <2>3, <3>1, ChunkValueType DEF EmptyLayout, PageValues
  <2> QED
    BY <2>2, <2>3
<1> QED
  BY <1>1, <1>2

-----------------------------------------------------------------------------
(* Recovery. *)

\* An intact image is its one value.
LEMMA ValueOfImage ==
    ASSUME NEW image, IsIntact(image)
    PROVE  Value(image) \in image /\ image = {Value(image)}
BY DEF IsIntact, Value

\* Only a superblock has the kind of one.
LEMMA SuperKind ==
    ASSUME NEW v \in PageValues, v.kind = "super"
    PROVE  v \in SuperblockValues
BY DEF PageValues, Absent, Zero, ChunkValues

\* A slot that decodes holds one superblock of the format.
LEMMA DecodesType ==
    ASSUME NEW img \in Image, NEW slot \in Slots, Decodes(img, slot)
    PROVE  /\ SuperblockAt(img, slot) \in SuperblockValues
           /\ img[SuperblockPage(slot)] = {SuperblockAt(img, slot)}
<1>1. img[SuperblockPage(slot)] \subseteq PageValues
  BY LayoutType, SlotsAreMetadata DEF Image, SuperblockPage
<1>2. IsIntact(img[SuperblockPage(slot)]) /\ SuperblockAt(img, slot).kind = "super"
  BY DEF Decodes
<1> QED
  BY <1>1, <1>2, ValueOfImage, SuperKind DEF SuperblockAt

\* A slot that decodes yields a root of the format.
LEMMA RootAtType ==
    ASSUME NEW img \in Image, NEW slot \in Slots, Decodes(img, slot)
    PROVE  RootAt(img, slot) \in Roots
<1> DEFINE sb == SuperblockAt(img, slot)
<1>1. sb \in SuperblockValues
  BY DecodesType
<1>2. BitmapOf(sb) \subseteq DataPages
  <2>1. sb.low \subseteq DataPages
    BY <1>1 DEF SuperblockValues
  <2>2. \A c \in Chunks : sb.chunks[c].page.bits \subseteq DataPages
    BY <1>1 DEF SuperblockValues, ChunkEntries, ChunkValues
  <2> QED
    BY <2>1, <2>2 DEF BitmapOf
<1>3. /\ sb.gen \in Nat /\ sb.rev \in Nat /\ sb.root \in Nat
      /\ sb.commit \in PageMaps /\ sb.chunks \in ChunkEntries
  BY <1>1 DEF SuperblockValues
<1> QED
  BY <1>2, <1>3 DEF RootAt, Roots

\* Every root that recovery returns is one that a slot holds.
LEMMA RecoveredFromSlot ==
    ASSUME NEW img, NEW root \in RecoverDeviceMetadata(img)
    PROVE  \E slot \in Slots : Decodes(img, slot) /\ root = RootAt(img, slot)
<1> DEFINE valid == {s \in Slots : Decodes(img, s)}
<1>1. CASE valid # Slots
  BY <1>1 DEF RecoverDeviceMetadata
<1>2. CASE valid = Slots
  <2>1. NewestSlot(img) \in Slots /\ Inactive(NewestSlot(img)) \in Slots
    BY DEF NewestSlot, Inactive, Slots
  <2>2. root \in {RootAt(img, NewestSlot(img)), RootAt(img, Inactive(NewestSlot(img)))}
    BY <1>2 DEF RecoverDeviceMetadata
  <2> QED
    BY <1>2, <2>1, <2>2
<1> QED
  BY <1>1, <1>2

\* What recovery returns is a root of the format.
LEMMA RecoveredType ==
    ASSUME NEW img \in Image, NEW root \in RecoverDeviceMetadata(img)
    PROVE  root \in Roots
BY RecoveredFromSlot, RootAtType

\* Filling the holes of a file keeps it in the format.
LEMMA DenseType ==
    ASSUME NEW img \in Image
    PROVE  Dense(img) \in Image
<1>1. Absent \in PageValues /\ Zero \in PageValues
  BY DEF PageValues
<1> QED
  BY <1>1 DEF Dense, Image

\* What a root reads is a snapshot.
LEMMA SnapshotType ==
    ASSUME NEW root \in Roots, NEW img \in Image
    PROVE  IsSnapshot(Snapshot(root, img))
<1>1. root.bitmap \subseteq DataPages /\ root.gen \in Nat /\ root.rev \in Nat
      /\ root.root \in Nat
  BY DEF Roots
<1>2. \A p \in root.bitmap : img[p] \subseteq PageValues
  BY <1>1, LayoutType DEF Image
<1> QED
  BY <1>1, <1>2 DEF Snapshot, IsSnapshot

-----------------------------------------------------------------------------
(* The device. *)

DeviceOK == view \in Image /\ durable \in Image /\ risk \in Image

\* A write of page values, whole or in part, keeps the device in the format.
LEMMA WriteType ==
    ASSUME DeviceOK, NEW writes,
           \A p \in DOMAIN writes : writes[p] \in PageValues,
           DeviceWrite(writes) \/ DeviceWriteFails(writes)
    PROVE  DeviceOK'
<1>1. risk' \in Image /\ durable' \in Image
  BY DEF DeviceOK, Image, DeviceWrite, DeviceWriteFails, Risks
<1>2. view' \in Image
  <2>1. CASE DeviceWrite(writes)
    BY <2>1 DEF DeviceOK, Image, DeviceWrite
  <2>2. CASE DeviceWriteFails(writes)
    <3>1. PICK outcome :
            view' = [p \in Pages |->
                      IF p \notin DOMAIN writes \/ outcome[p] = "old" THEN view[p]
                      ELSE IF outcome[p] = "new" THEN {writes[p]}
                      ELSE view[p] \cup {writes[p]}]
      BY <2>2 DEF DeviceWriteFails
    <3> QED
      BY <3>1 DEF DeviceOK, Image
  <2> QED
    BY <2>1, <2>2
<1> QED
  BY <1>1, <1>2 DEF DeviceOK

\* So does a flush, or one that fails.
LEMMA FlushType ==
    ASSUME DeviceOK, DeviceFlush \/ DeviceFlushFails
    PROVE  DeviceOK'
BY DEF DeviceOK, Image, DeviceFlush, DeviceFlushFails, device

\* So does a power loss, whatever it leaves.
LEMMA PowerLossType ==
    ASSUME DeviceOK, PowerLoss
    PROVE  DeviceOK'
<1>1. \A S \in SUBSET Pages : \A r \in Remains(S) : r \in [S -> SUBSET PageValues]
  <2>1. SUFFICES ASSUME NEW S \in SUBSET Pages, NEW r \in Remains(S)
                 PROVE  r \in [S -> SUBSET PageValues]
    OBVIOUS
  <2> DEFINE unflushed == {p \in S : risk[p] # {}}
  <2>2. PICK left \in [unflushed -> UNION {Survivors(p) : p \in unflushed}] :
          /\ \A p \in unflushed : left[p] \in Survivors(p)
          /\ r = [p \in S |-> IF p \in unflushed THEN left[p] ELSE durable[p]]
    BY <2>1 DEF Remains
  <2>3. \A p \in S : durable[p] \subseteq PageValues /\ risk[p] \subseteq PageValues
    BY <2>1 DEF DeviceOK, Image
  <2>4. \A p \in unflushed : left[p] \subseteq PageValues
    BY <2>2, <2>3 DEF Survivors
  <2> QED
    BY <2>2, <2>3, <2>4
<1>2. PICK meta \in Remains(MetadataPages), data \in Remains(DataPages) :
        view' = Dense([p \in Pages |-> IF p \in DataPages THEN data[p] ELSE meta[p]])
  BY DEF PowerLoss
<1>3. [p \in Pages |-> IF p \in DataPages THEN data[p] ELSE meta[p]] \in Image
  BY <1>1, <1>2, LayoutType DEF Image
<1>4. view' \in Image
  BY <1>2, <1>3, DenseType
<1> QED
  BY <1>4 DEF PowerLoss, DeviceOK, Image

-----------------------------------------------------------------------------
(* Type correctness and the inductive invariant. *)

\* The part of TypeOK that is about the device.
LEMMA TypeOKDevice == TypeOK => DeviceOK
BY DEF TypeOK, DeviceOK, Image

\* The values a candidate's pages are written with.
LEMMA CandidateWritesType ==
    ASSUME TypeOK, NEW S \in SUBSET DOMAIN cand.vals
    PROVE  /\ DOMAIN CandidateWrites(S) \subseteq Pages
           /\ \A p \in DOMAIN CandidateWrites(S) :
                /\ CandidateWrites(S)[p] \in PageValues
                /\ CandidateWrites(S)[p] # Absent
<1>1. cand.vals \in PageMaps
  BY DEF TypeOK, Candidates
<1>2. PICK D \in SUBSET DataPages : cand.vals \in [D -> Vals]
  BY <1>1 DEF PageMaps
<1>3. S \subseteq Pages /\ \A p \in S : cand.vals[p] \in Vals
  BY <1>2, LayoutType
<1>4. \A p \in S : DataPage(cand.vals[p]) \in PageValues
  BY <1>3 DEF DataPage, PageValues
<1>5. Zero \in PageValues /\ Zero # Absent /\ \A v : DataPage(v) # Absent
  <2>1. Zero.kind # Absent.kind /\ \A v : DataPage(v).kind # Absent.kind
    BY DEF Zero, Absent, DataPage
  <2> QED
    BY <2>1 DEF PageValues
<1>6. DOMAIN CandidateWrites(S)
        = S \cup {q \in Pages : view[q] = {Absent} /\ \E r \in S : q < r}
  BY DEF CandidateWrites
<1>7. \A p \in DOMAIN CandidateWrites(S) :
        CandidateWrites(S)[p] = IF p \in S THEN DataPage(cand.vals[p]) ELSE Zero
  BY DEF CandidateWrites
<1> QED
  BY <1>3, <1>4, <1>5, <1>6, <1>7

\* What validation lets through becomes a root of the format.
LEMMA NextMetadataType ==
    ASSUME TypeOK, NEW rev \in Nat, NEW root \in Nat, NewPages \subseteq DOMAIN cand.vals
    PROVE  NextMetadata(rev, root) \in Roots
<1>1. active.slot \in Slots /\ active.gen \in Nat /\ active.chunks \in ChunkEntries
  BY DEF TypeOK, Roots
<1>2. Inactive(active.slot) \in Slots /\ active.gen + 1 \in Nat
  BY <1>1 DEF Inactive, Slots
<1>3. cand.bitmap \subseteq DataPages
  BY DEF TypeOK, Candidates
<1>4. [p \in NewPages |-> cand.vals[p]] \in PageMaps
  <2>1. PICK D \in SUBSET DataPages : cand.vals \in [D -> Vals]
    BY DEF TypeOK, Candidates, PageMaps
  <2>2. NewPages \in SUBSET DataPages /\ \A p \in NewPages : cand.vals[p] \in Vals
    BY <1>3, <2>1 DEF NewPages
  <2>3. [p \in NewPages |-> cand.vals[p]] \in [NewPages -> Vals]
    BY <2>2
  <2> QED
    BY <2>2, <2>3 DEF PageMaps
<1>5. \A c \in Chunks :
        /\ active.chunks[c] \in [slot : Slots, page : ChunkValues]
        /\ Inactive(active.chunks[c].slot) \in Slots
  BY <1>1 DEF ChunkEntries, Inactive, Slots
<1>6. \A c \in Chunks :
        ChunkValue(c, Inactive(active.chunks[c].slot), active.gen + 1, cand.bitmap)
            \in ChunkValues
  BY <1>2, <1>5, ChunkValueType
<1>7. NextMetadata(rev, root).chunks \in ChunkEntries
  BY <1>5, <1>6 DEF NextMetadata, ChunkEntries
<1> QED
  BY <1>2, <1>3, <1>4, <1>7 DEF NextMetadata, Roots

\* Each changed chunk goes to the page beside the one the active root reads.
LEMMA ChunkWritesType ==
    ASSUME TypeOK, NEW rev \in Nat, NEW root \in Nat, NewPages \subseteq DOMAIN cand.vals
    PROVE  LET next == NextMetadata(rev, root)
           IN  /\ \A c \in ChangedChunks :
                    /\ next.chunks[c].slot = Inactive(active.chunks[c].slot)
                    /\ ChunkPage(c, next.chunks[c].slot) \in DOMAIN ChunkWrites(next)
               /\ \A p \in DOMAIN ChunkWrites(next) :
                    /\ \E c \in ChangedChunks : p = ChunkPage(c, next.chunks[c].slot)
                    /\ ChunkWrites(next)[p] \in ChunkValues
<1> DEFINE next == NextMetadata(rev, root)
           target(c) == ChunkPage(c, next.chunks[c].slot)
<1>1. \A c \in ChangedChunks : c \in Chunks
  BY DEF ChangedChunks
<1>2. \A c \in ChangedChunks : next.chunks[c].slot = Inactive(active.chunks[c].slot)
  BY <1>1 DEF NextMetadata
<1>3. next \in Roots
  BY NextMetadataType
<1>4. \A c \in Chunks : next.chunks[c].page \in ChunkValues
  BY <1>3 DEF Roots, ChunkEntries
<1>5. DOMAIN ChunkWrites(next) = {target(c) : c \in ChangedChunks}
  BY DEF ChunkWrites
<1>6. \A p \in DOMAIN ChunkWrites(next) :
        ChunkWrites(next)[p] = next.chunks[CHOOSE d \in ChangedChunks : target(d) = p].page
  BY DEF ChunkWrites
<1>7. \A p \in DOMAIN ChunkWrites(next) : ChunkWrites(next)[p] \in ChunkValues
  <2>1. SUFFICES ASSUME NEW p \in DOMAIN ChunkWrites(next)
                 PROVE  ChunkWrites(next)[p] \in ChunkValues
    OBVIOUS
  <2>2. \E d \in ChangedChunks : target(d) = p
    BY <1>5
  <2>3. (CHOOSE d \in ChangedChunks : target(d) = p) \in ChangedChunks
    BY <2>2
  <2> QED
    BY <1>1, <1>4, <1>6, <2>3
<1> QED
  BY <1>2, <1>5, <1>7

\* A merge takes every value from one of the two.
LEMMA MergeType ==
    ASSUME NEW f, NEW g
    PROVE  /\ DOMAIN Merge(f, g) = DOMAIN f \cup DOMAIN g
           /\ \A x \in DOMAIN Merge(f, g) :
                \/ x \in DOMAIN f /\ Merge(f, g)[x] = f[x]
                \/ x \in DOMAIN g /\ Merge(f, g)[x] = g[x]
BY DEF Merge

\* Chunks and superblocks are values of a page that is there.
LEMMA ChunkNotAbsent ==
    ASSUME NEW v \in ChunkValues \cup SuperblockValues
    PROVE  v # Absent /\ v \in PageValues
<1>1. v.kind # "absent"
  BY DEF ChunkValues, SuperblockValues
<1> QED
  BY <1>1 DEF Absent, PageValues

\* The pages of a commit, its chunks included, are of the format.
LEMMA CommitWritesType ==
    ASSUME TypeOK, CandidateOK, stage = "write",
           NEW rev \in Nat, NEW root \in Nat, NewPages \subseteq DOMAIN cand.vals
    PROVE  LET writes == Merge(CandidateWrites(cand.dirty),
                               ChunkWrites(NextMetadata(rev, root)))
           IN  \A p \in DOMAIN writes : writes[p] \in PageValues /\ writes[p] # Absent
<1>1. cand.dirty \in SUBSET DOMAIN cand.vals
  BY DEF CandidateOK
<1> DEFINE f == CandidateWrites(cand.dirty)
           g == ChunkWrites(NextMetadata(rev, root))
<1>2. \A p \in DOMAIN f : f[p] \in PageValues /\ f[p] # Absent
  BY <1>1, CandidateWritesType
<1>3. \A p \in DOMAIN g : g[p] \in ChunkValues
  BY ChunkWritesType
<1>4. \A p \in DOMAIN g : g[p] \in PageValues /\ g[p] # Absent
  BY <1>3, ChunkNotAbsent
<1> HIDE DEF f, g
<1>5. ASSUME NEW p \in DOMAIN Merge(f, g)
      PROVE  Merge(f, g)[p] \in PageValues /\ Merge(f, g)[p] # Absent
  <2>1. \/ p \in DOMAIN f /\ Merge(f, g)[p] = f[p]
        \/ p \in DOMAIN g /\ Merge(f, g)[p] = g[p]
    BY <1>5, MergeType
  <2> QED
    BY <1>2, <1>4, <2>1
<1> QED
  BY <1>5 DEF f, g

\* A candidate's snapshot is one.
LEMMA CandidateSnapshotType ==
    ASSUME TypeOK, CandidateOK, PagesPresent, stage \in {"pages", "super"}
    PROVE  /\ IsSnapshot(CandidateSnapshot(pending))
           /\ DOMAIN CandidateSnapshot(pending).pages = pending.bitmap
<1>1. pending \in Roots /\ pending.bitmap = cand.bitmap /\ cand.bitmap \subseteq DataPages
  BY DEF TypeOK, CandidateOK, Candidates
<1>2. pending.gen \in Nat /\ pending.rev \in Nat /\ pending.root \in Nat
  BY <1>1 DEF Roots
<1>3. PICK D \in SUBSET DataPages : cand.vals \in [D -> Vals]
  BY DEF TypeOK, Candidates, PageMaps
<1>4. \A p \in NewPages : {DataPage(cand.vals[p])} \subseteq PageValues
  <2>1. \A p \in NewPages : cand.vals[p] \in Vals
    BY <1>3 DEF CandidateOK
  <2> QED
    BY <2>1 DEF DataPage, PageValues
<1>5. \A p \in cand.bitmap \ NewPages : acked.pages[p] \subseteq PageValues
  <2>1. DOMAIN acked.pages = active.bitmap
    BY DEF PagesPresent, CandidateOK, Live
  <2> QED
    BY <2>1 DEF NewPages, TypeOK, IsSnapshot
<1> QED
  BY <1>1, <1>2, <1>4, <1>5 DEF CandidateSnapshot, IsSnapshot, IsNew

\* A write never shortens the file, whether it succeeds or fails.
LEMMA WriteKeepsPresent ==
    ASSUME DeviceOK, NEW writes, \A p \in DOMAIN writes : writes[p] # Absent,
           DeviceWrite(writes) \/ DeviceWriteFails(writes)
    PROVE  \A p \in Pages : view[p] # {Absent} => view'[p] # {Absent}
<1>1. CASE DeviceWrite(writes)
  BY <1>1 DEF DeviceWrite, DeviceOK, Image
<1>2. CASE DeviceWriteFails(writes)
  <2>1. PICK outcome :
          view' = [p \in Pages |->
                    IF p \notin DOMAIN writes \/ outcome[p] = "old" THEN view[p]
                    ELSE IF outcome[p] = "new" THEN {writes[p]}
                    ELSE view[p] \cup {writes[p]}]
    BY <1>2 DEF DeviceWriteFails
  <2> QED
    BY <2>1
<1> QED
  BY <1>1, <1>2

\* Where the pages of a root are.
LEMMA ReachablePages ==
    ASSUME NEW root \in Roots
    PROVE  /\ Reachable(root) \subseteq Pages
           /\ SuperblockPage(root.slot) \in Slots
           /\ root.bitmap \subseteq DataPages
           /\ \A c \in Chunks : root.chunks[c].slot \in Slots
<1>1. root.slot \in Slots /\ root.bitmap \subseteq DataPages
      /\ \A c \in Chunks : root.chunks[c].slot \in Slots
  BY DEF Roots, ChunkEntries
<1>2. \A c \in Chunks : ChunkPage(c, root.chunks[c].slot) \in MetadataPages
  BY <1>1, ChunkPageInjective
<1> QED
  BY <1>1, <1>2, LayoutType, SlotsAreMetadata DEF Reachable, SuperblockPage

\* A root that decodes and is covered is wholly inside the file.
LEMMA RecoveredPresent ==
    ASSUME NEW img \in Image, NEW root \in RecoverDeviceMetadata(img), Covered(img, root)
    PROVE  \A p \in Reachable(root) : img[p] # {Absent}
<1>1. PICK slot \in Slots : Decodes(img, slot) /\ root = RootAt(img, slot)
  BY RecoveredFromSlot
<1> DEFINE sb == SuperblockAt(img, slot)
<1>2. sb \in SuperblockValues /\ img[SuperblockPage(slot)] = {sb}
  BY <1>1, DecodesType
<1>3. root.slot = slot /\ root.chunks = sb.chunks
  BY <1>1 DEF RootAt
<1>4. \A c \in Chunks : /\ img[ChunkPage(c, sb.chunks[c].slot)] = {sb.chunks[c].page}
                        /\ sb.chunks[c].page \in ChunkValues
  BY <1>1, <1>2 DEF Decodes, SuperblockValues, ChunkEntries
<1>5. sb # Absent /\ \A c \in Chunks : sb.chunks[c].page # Absent
  BY <1>2, <1>4, ChunkNotAbsent
<1> QED
  BY <1>2, <1>3, <1>4, <1>5 DEF Reachable, Covered

\* The invariant holds at first.
LEMMA InitIInv == Init => IInv
<1> SUFFICES ASSUME Init PROVE IInv
  OBVIOUS
<1>1. EmptyRoot(0) \in Roots
  BY EmptyRootType DEF Slots
<1>2. view \in Image /\ durable \in Image /\ risk \in Image
  BY DEF Init, Image, PageValues
<1>3. NoCandidate \in Candidates
  BY NoPagesType, LayoutType DEF NoCandidate, Candidates
<1>4. IsSnapshot(acked)
  BY <1>1, <1>2, SnapshotType DEF Init
<1>5. TypeOK
  BY <1>1, <1>2, <1>3, <1>4 DEF Init, TypeOK, Image, Stages
<1> QED
  BY <1>5 DEF Init, IInv, CandidateOK, PagesPresent, Live

\* What opening leaves in memory is well formed.
LEMMA OpenedType ==
    ASSUME NEW root \in Roots, Opened(root)
    PROVE  /\ active' \in Roots /\ pending' \in Roots /\ cand' \in Candidates
           /\ stage' = "idle" /\ recovery_required' = FALSE
<1>1. NoCandidate \in Candidates
  BY NoPagesType, LayoutType DEF NoCandidate, Candidates
<1> QED
  BY <1>1 DEF Opened

\* An initialization writes pages of the format and never shortens the file.
LEMMA BootstrapIInv ==
    ASSUME IInv,
           BootstrapZeros \/ BootstrapChunks \/ BootstrapFlush \/ BootstrapRoots
    PROVE  IInv'
<1>1. DeviceOK
  BY TypeOKDevice DEF IInv
<1>2. \A p \in MetadataPages : EmptyLayout(p) \in PageValues /\ EmptyLayout(p) # Absent
  <2>1. \A p \in MetadataPages : EmptyLayout(p).kind # "absent"
    BY DEF EmptyLayout, SuperblockValue, ChunkValue
  <2> QED
    BY <2>1, EmptyLayoutType DEF Absent
<1>3. Zero \in PageValues /\ Zero # Absent
  BY DEF Zero, Absent, PageValues
<1> DEFINE zeros == [p \in MetadataPages |-> Zero]
           chunks == [p \in MetadataPages \ Slots |-> EmptyLayout(p)]
           roots == [p \in Slots |-> EmptyLayout(p)]
<1>4. /\ \A p \in DOMAIN zeros : zeros[p] \in PageValues /\ zeros[p] # Absent
      /\ \A p \in DOMAIN chunks : chunks[p] \in PageValues /\ chunks[p] # Absent
      /\ \A p \in DOMAIN roots : roots[p] \in PageValues /\ roots[p] # Absent
  BY <1>2, <1>3, SlotsAreMetadata
<1>5. DeviceOK'
  <2>1. CASE BootstrapFlush
    BY <1>1, <2>1, FlushType DEF BootstrapFlush
  <2>2. CASE BootstrapZeros
    <3>1. DeviceWrite(zeros) \/ DeviceWriteFails(zeros)
      BY <2>2 DEF BootstrapZeros, BootstrapWrite
    <3> HIDE DEF zeros
    <3> QED
      BY <1>1, <1>4, <3>1, WriteType
  <2>3. CASE BootstrapChunks
    <3>1. DeviceWrite(chunks) \/ DeviceWriteFails(chunks)
      BY <2>3 DEF BootstrapChunks, BootstrapWrite
    <3> HIDE DEF chunks
    <3> QED
      BY <1>1, <1>4, <3>1, WriteType
  <2>4. CASE BootstrapRoots
    <3>1. DeviceWrite(roots) \/ DeviceWriteFails(roots)
      BY <2>4 DEF BootstrapRoots, BootstrapWrite
    <3> HIDE DEF roots
    <3> QED
      BY <1>1, <1>4, <3>1, WriteType
  <2> QED
    BY <2>1, <2>2, <2>3, <2>4
<1>6. stage' \in {"zeros", "chunks", "extent", "roots", "dead"}
      /\ UNCHANGED <<active, cand, pending, recovery_required, history>>
  BY DEF BootstrapZeros, BootstrapChunks, BootstrapFlush, BootstrapRoots, BootstrapStep
<1>7. TypeOK'
  BY <1>5, <1>6 DEF IInv, TypeOK, DeviceOK, Image, Stages, history
<1>8. stage' # "dead" => \A p \in MetadataPages : view'[p] # {Absent}
  <2>1. CASE BootstrapFlush
    BY <2>1, <1>1 DEF BootstrapFlush, BootstrapStep, DeviceFlush, DeviceFlushFails, device,
                      IInv, PagesPresent
  <2>2. CASE BootstrapZeros
    BY <2>2, <1>3, LayoutType DEF BootstrapZeros, BootstrapWrite, DeviceWrite
  <2>3. CASE BootstrapChunks
    <3>1. DeviceWrite(chunks) \/ DeviceWriteFails(chunks)
      BY <2>3 DEF BootstrapChunks, BootstrapWrite
    <3>2. \A p \in MetadataPages : view[p] # {Absent}
      BY <2>3 DEF BootstrapChunks, BootstrapStep, IInv, PagesPresent
    <3> HIDE DEF chunks
    <3> QED
      BY <1>1, <1>4, <3>1, <3>2, WriteKeepsPresent, LayoutType
  <2>4. CASE BootstrapRoots
    <3>1. DeviceWrite(roots) \/ DeviceWriteFails(roots)
      BY <2>4 DEF BootstrapRoots, BootstrapWrite
    <3>2. \A p \in MetadataPages : view[p] # {Absent}
      BY <2>4 DEF BootstrapRoots, BootstrapStep, IInv, PagesPresent
    <3> HIDE DEF roots
    <3> QED
      BY <1>1, <1>4, <3>1, <3>2, WriteKeepsPresent, LayoutType
  <2> QED
    BY <2>1, <2>2, <2>3, <2>4
<1>9. CandidateOK' /\ PagesPresent'
  BY <1>6, <1>8 DEF CandidateOK, PagesPresent, Live
<1> QED
  BY <1>7, <1>9 DEF IInv

\* What a session serves is a snapshot of its root's pages.
LEMMA ServesType ==
    ASSUME TypeOK, NEW root \in Roots, Serves(root)
    PROVE  /\ IsSnapshot(acked') /\ DOMAIN acked'.pages = root.bitmap
           /\ \A s \in attempts' : IsSnapshot(s)
           /\ begun' \in Nat /\ endings' \in Nat
<1>1. view \in Image /\ IsSnapshot(Snapshot(root, view))
  BY SnapshotType DEF TypeOK, Image
<1>2. DOMAIN Snapshot(root, view).pages = root.bitmap
  BY DEF Snapshot
<1> QED
  BY <1>1, <1>2 DEF Serves, TypeOK

\* The flush that ends an initialization keeps the invariant.
LEMMA BootstrapRootsFlushIInv ==
    ASSUME IInv, BootstrapRootsFlush
    PROVE  IInv'
<1>1. DeviceOK'
  BY TypeOKDevice, FlushType DEF IInv, BootstrapRootsFlush
<1>2. CASE DeviceFlushFails /\ stage' = "dead"
           /\ UNCHANGED <<active, cand, pending, recovery_required, history>>
  <2>1. TypeOK'
    BY <1>1, <1>2 DEF IInv, TypeOK, DeviceOK, Image, Stages, history
  <2> QED
    BY <1>2, <2>1 DEF IInv, CandidateOK, PagesPresent, Live
<1>3. CASE DeviceFlush /\ Opened(EmptyRoot(0)) /\ Serves(EmptyRoot(0))
  <2>1. EmptyRoot(0) \in Roots
    BY EmptyRootType DEF Slots
  <2>2. /\ active' = EmptyRoot(0) /\ active' \in Roots /\ pending' \in Roots
        /\ cand' \in Candidates /\ stage' = "idle" /\ recovery_required' = FALSE
    BY <1>3, <2>1, OpenedType DEF Opened
  <2>3. /\ IsSnapshot(acked') /\ DOMAIN acked'.pages = EmptyRoot(0).bitmap
        /\ \A s \in attempts' : IsSnapshot(s)
        /\ begun' \in Nat /\ endings' \in Nat
    BY <1>3, <2>1, ServesType DEF IInv
  <2>4. TypeOK'
    BY <1>1, <2>2, <2>3 DEF TypeOK, DeviceOK, Image, Stages
  <2>5. \A p \in Reachable(EmptyRoot(0)) : view[p] # {Absent}
    <3>1. Reachable(EmptyRoot(0)) \subseteq MetadataPages
      <4>1. EmptyRoot(0).slot = 0 /\ EmptyRoot(0).bitmap = {}
            /\ \A c \in Chunks : EmptyRoot(0).chunks[c].slot = 0
        BY DEF EmptyRoot
      <4>2. \A c \in Chunks : ChunkPage(c, 0) \in MetadataPages
        BY ChunkPageInjective DEF Slots
      <4> QED
        BY <4>1, <4>2, SlotsAreMetadata DEF Reachable, SuperblockPage, Slots
    <3> QED
      BY <3>1 DEF IInv, PagesPresent, BootstrapRootsFlush
  <2> QED
    BY <1>3, <2>2, <2>3, <2>4, <2>5 DEF IInv, CandidateOK, PagesPresent, DeviceFlush
<1> QED
  BY <1>2, <1>3 DEF BootstrapRootsFlush

\* An open keeps the invariant.
LEMMA OpenExistingIInv ==
    ASSUME IInv, OpenExisting
    PROVE  IInv'
<1>1. PICK root \in RecoverDeviceMetadata(view) :
        Covered(view, root) /\ Opened(root) /\ Serves(root)
  BY DEF OpenExisting
<1>2. view \in Image
  BY DEF IInv, TypeOK, Image
<1>3. root \in Roots
  BY <1>2, RecoveredType
<1>4. /\ active' = root /\ active' \in Roots /\ pending' \in Roots
      /\ cand' \in Candidates /\ stage' = "idle" /\ recovery_required' = FALSE
  BY <1>1, <1>3, OpenedType DEF Opened
<1>5. /\ IsSnapshot(acked') /\ DOMAIN acked'.pages = root.bitmap
      /\ \A s \in attempts' : IsSnapshot(s)
      /\ begun' \in Nat /\ endings' \in Nat
  BY <1>1, <1>3, ServesType DEF IInv
<1>6. TypeOK'
  BY <1>4, <1>5 DEF IInv, TypeOK, Stages, OpenExisting, device
<1>7. \A p \in Reachable(root) : view[p] # {Absent}
  BY <1>1, <1>2, RecoveredPresent
<1> QED
  BY <1>4, <1>5, <1>6, <1>7 DEF IInv, CandidateOK, PagesPresent, OpenExisting, device

\* The calls that only change the candidate in memory.
LEMMA CandidateStepsIInv ==
    ASSUME IInv,
           \/ BeginWrite \/ Abort
           \/ \E p \in DataPages : \/ AllocatePage(p) \/ FreeSharedPage(p) \/ ReleaseNewPage(p)
                                   \/ \E v \in Vals : WriteNewPage(p, v)
           \/ \E rev \in Revisions, root \in CatalogRoots : CommitRefused(rev, root)
    PROVE  IInv'
<1>1. /\ cand.bitmap \subseteq DataPages /\ cand.start \in Nat /\ cand.end \in Nat
      /\ cand.dirty \subseteq DataPages /\ cand.evictions \in Nat
      /\ active.bitmap \subseteq DataPages
  BY DEF IInv, TypeOK, Candidates, Roots
<1>2. PICK D \in SUBSET DataPages : cand.vals \in [D -> Vals]
  BY DEF IInv, TypeOK, Candidates, PageMaps
<1>3. NoCandidate \in Candidates
  BY NoPagesType, LayoutType DEF NoCandidate, Candidates
<1>4. CASE Abort \/ \E rev \in Revisions, root \in CatalogRoots : CommitRefused(rev, root)
  <2>1. /\ stage = "write" /\ stage' = "idle" /\ cand' = NoCandidate
        /\ UNCHANGED <<device, active, pending, recovery_required, history>>
    BY <1>4 DEF Abort, CommitRefused, CandidateDropped, InWrite
  <2>2. TypeOK'
    BY <1>3, <2>1 DEF IInv, TypeOK, Stages, device, history
  <2> QED
    BY <2>1, <2>2 DEF IInv, CandidateOK, PagesPresent, Live, device, history
<1>5. CASE BeginWrite
  <2>1. cand' = [NoCandidate EXCEPT !.bitmap = active.bitmap]
    BY <1>5 DEF BeginWrite
  <2>2. cand' \in Candidates /\ cand'.dirty = {} /\ DOMAIN cand'.vals = {}
    BY <1>1, <1>3, <2>1 DEF Candidates, NoCandidate, NoPages
  <2>3. TypeOK'
    BY <1>5, <2>2 DEF IInv, TypeOK, Stages, BeginWrite, device
  <2> QED
    BY <1>5, <2>2, <2>3 DEF IInv, CandidateOK, PagesPresent, Live, BeginWrite, device
<1>6. ASSUME NEW p \in DataPages, AllocatePage(p)
      PROVE  IInv'
  <2>1. p \in Nat /\ NextStart(p) \in Nat
    BY <1>6, LayoutType DEF NextStart
  <2>2. (IF cand.end > p THEN cand.end ELSE p + 1) \in Nat
    BY <1>1, <2>1
  <2>3. /\ cand' \in Candidates /\ cand'.vals = cand.vals /\ cand'.dirty = cand.dirty
        /\ cand.bitmap \subseteq cand'.bitmap
    BY <1>1, <1>6, <2>1, <2>2 DEF AllocatePage, Candidates, IInv, TypeOK
  <2>4. TypeOK'
    BY <1>6, <2>3 DEF IInv, TypeOK, Stages, AllocatePage, device, history
  <2> QED
    BY <1>6, <2>3, <2>4 DEF IInv, CandidateOK, PagesPresent, Live, AllocatePage, InWrite,
                            NewPages, device, history
<1>7. ASSUME NEW p \in DataPages, NEW v \in Vals, WriteNewPage(p, v)
      PROVE  IInv'
  <2>1. cand' = [cand EXCEPT
                  !.vals = [q \in DOMAIN cand.vals \cup {p} |->
                              IF q = p THEN v ELSE cand.vals[q]],
                  !.dirty = @ \cup {p}]
    BY <1>7 DEF WriteNewPage
  <2>2. [q \in DOMAIN cand.vals \cup {p} |-> IF q = p THEN v ELSE cand.vals[q]] \in PageMaps
    <3>1. [q \in D \cup {p} |-> IF q = p THEN v ELSE cand.vals[q]] \in [D \cup {p} -> Vals]
      BY <1>2, <1>7
    <3>2. D \cup {p} \in SUBSET DataPages
      BY <1>2
    <3> QED
      BY <1>2, <3>1, <3>2 DEF PageMaps
  <2>3. /\ cand' \in Candidates /\ DOMAIN cand'.vals = DOMAIN cand.vals \cup {p}
        /\ cand'.dirty = cand.dirty \cup {p} /\ cand'.bitmap = cand.bitmap
    BY <1>1, <2>1, <2>2 DEF Candidates, IInv, TypeOK
  <2>4. TypeOK'
    BY <1>7, <2>3 DEF IInv, TypeOK, Stages, WriteNewPage, device, history
  <2>5. p \in NewPages /\ stage = "write" /\ UNCHANGED <<device, stage, active, pending,
                                                       recovery_required, history>>
    BY <1>7 DEF WriteNewPage, IsNew, InWrite
  <2> QED
    BY <2>3, <2>4, <2>5 DEF IInv, CandidateOK, PagesPresent, Live, NewPages, device, history
<1>8. ASSUME NEW p \in DataPages, FreeSharedPage(p)
      PROVE  IInv'
  <2>1. /\ cand' \in Candidates /\ cand'.vals = cand.vals /\ cand'.dirty = cand.dirty
        /\ cand'.bitmap = cand.bitmap \ {p} /\ p \in active.bitmap
    BY <1>1, <1>8 DEF FreeSharedPage, Candidates, IInv, TypeOK
  <2>2. TypeOK'
    BY <1>8, <2>1 DEF IInv, TypeOK, Stages, FreeSharedPage, device, history
  <2> QED
    BY <1>8, <2>1, <2>2 DEF IInv, CandidateOK, PagesPresent, Live, FreeSharedPage, InWrite,
                            NewPages, device, history
<1>9. ASSUME NEW p \in DataPages, ReleaseNewPage(p)
      PROVE  IInv'
  <2>1. [q \in DOMAIN cand.vals \ {p} |-> cand.vals[q]] \in PageMaps
    <3>1. [q \in D \ {p} |-> cand.vals[q]] \in [D \ {p} -> Vals]
      BY <1>2
    <3>2. D \ {p} \in SUBSET DataPages
      BY <1>2
    <3> QED
      BY <1>2, <3>1, <3>2 DEF PageMaps
  <2>2. /\ cand' \in Candidates /\ DOMAIN cand'.vals = DOMAIN cand.vals \ {p}
        /\ cand'.dirty = cand.dirty \ {p} /\ cand'.bitmap = cand.bitmap \ {p}
    BY <1>1, <1>9, <2>1, LayoutType DEF ReleaseNewPage, Candidates, IInv, TypeOK
  <2>3. TypeOK'
    BY <1>9, <2>2 DEF IInv, TypeOK, Stages, ReleaseNewPage, device, history
  <2> QED
    BY <1>9, <2>2, <2>3 DEF IInv, CandidateOK, PagesPresent, Live, ReleaseNewPage, InWrite,
                            NewPages, device, history
<1> QED
  BY <1>4, <1>5, <1>6, <1>7, <1>8, <1>9

\* An eviction keeps the invariant, and so does one that fails.
LEMMA EvictPageIInv ==
    ASSUME IInv, NEW p \in DataPages, EvictPage(p)
    PROVE  IInv'
<1> DEFINE writes == CandidateWrites({p})
<1>1. /\ stage = "write" /\ p \in cand.dirty /\ p \in DOMAIN cand.vals /\ DeviceOK
      /\ UNCHANGED <<stage, active, pending, recovery_required, history>>
  BY TypeOKDevice DEF EvictPage, InWrite, IInv, CandidateOK
<1>2. {p} \in SUBSET DOMAIN cand.vals
  BY <1>1
<1>3. \A q \in DOMAIN writes : writes[q] \in PageValues /\ writes[q] # Absent
  BY <1>2, CandidateWritesType DEF IInv
<1>4. DeviceWrite(writes) \/ DeviceWriteFails(writes)
  BY DEF EvictPage
<1>5. p \in DOMAIN writes
  BY DEF CandidateWrites
<1>6. DeviceWrite(writes) => view'[p] # {Absent}
  BY <1>3, <1>5, LayoutType DEF DeviceWrite
<1> HIDE DEF writes
<1>7. DeviceOK' /\ \A q \in Pages : view[q] # {Absent} => view'[q] # {Absent}
  BY <1>1, <1>3, <1>4, WriteType, WriteKeepsPresent
<1>8. cand \in Candidates
  BY DEF IInv, TypeOK
<1>9. /\ cand' \in Candidates /\ cand'.vals = cand.vals /\ cand'.bitmap = cand.bitmap
      /\ cand'.dirty \subseteq cand.dirty
      /\ \/ cand'.dirty = cand.dirty
         \/ cand'.dirty = cand.dirty \ {p} /\ view'[p] # {Absent}
  <2>1. \/ /\ DeviceWrite(writes)
           /\ cand' = [cand EXCEPT !.dirty = @ \ {p}, !.evictions = @ + 1]
        \/ cand' = cand
    BY DEF EvictPage, writes
  <2>2. CASE cand' = cand
    BY <1>8, <2>2
  <2>3. CASE /\ DeviceWrite(writes)
             /\ cand' = [cand EXCEPT !.dirty = @ \ {p}, !.evictions = @ + 1]
    <3>1. cand.dirty \ {p} \in SUBSET DataPages /\ cand.evictions + 1 \in Nat
      BY <1>8 DEF Candidates
    <3>2. cand' \in Candidates
      BY <1>8, <2>3, <3>1 DEF Candidates
    <3>3. cand'.vals = cand.vals /\ cand'.bitmap = cand.bitmap /\ cand'.dirty = cand.dirty \ {p}
      BY <1>8, <2>3 DEF Candidates
    <3> QED
      BY <1>6, <2>3, <3>2, <3>3
  <2> QED
    BY <2>1, <2>2, <2>3
<1>10. TypeOK'
  BY <1>1, <1>7, <1>9 DEF IInv, TypeOK, DeviceOK, Image, history
<1>11. CandidateOK'
  BY <1>1, <1>9 DEF IInv, CandidateOK, NewPages
<1>12. Reachable(active) \subseteq Pages /\ DOMAIN cand.vals \subseteq Pages
  BY ReachablePages, LayoutType DEF IInv, TypeOK, CandidateOK, NewPages, Candidates, PageMaps
<1>13. PagesPresent'
  BY <1>1, <1>7, <1>9, <1>12 DEF IInv, PagesPresent, Live, Reachable, history
<1> QED
  BY <1>10, <1>11, <1>13 DEF IInv

\* The new root's pages are all written once a commit's first step succeeds.
LEMMA CommitPagesIInv ==
    ASSUME IInv, NEW rev \in Revisions, NEW root \in CatalogRoots, CommitPages(rev, root)
    PROVE  IInv'
<1> DEFINE next == NextMetadata(rev, root)
           writes == Merge(CandidateWrites(cand.dirty), ChunkWrites(next))
<1>1. /\ stage = "write" /\ DeviceOK /\ NewPages \subseteq DOMAIN cand.vals
      /\ rev \in Nat /\ root \in Nat /\ cand \in Candidates
      /\ UNCHANGED <<active, recovery_required, history>>
  BY TypeOKDevice, PagerAssumption DEF CommitPages, InWrite, Publishable, IInv, TypeOK
<1>2. \A q \in DOMAIN writes : writes[q] \in PageValues /\ writes[q] # Absent
  BY <1>1, CommitWritesType DEF IInv
<1>3. \/ /\ DeviceWrite(writes) /\ pending' = next /\ stage' = "pages"
         /\ cand' = [cand EXCEPT !.dirty = {}]
      \/ DeviceWriteFails(writes) /\ CandidateDropped /\ UNCHANGED pending
  BY DEF CommitPages
<1>4. DeviceOK' /\ \A q \in Pages : view[q] # {Absent} => view'[q] # {Absent}
  <2>1. DeviceWrite(writes) \/ DeviceWriteFails(writes)
    BY <1>3
  <2> HIDE DEF writes
  <2> QED
    BY <1>1, <1>2, <2>1, WriteType, WriteKeepsPresent
<1>5. Reachable(active) \subseteq Pages
  BY ReachablePages DEF IInv, TypeOK
<1>6. CASE DeviceWriteFails(writes) /\ CandidateDropped /\ UNCHANGED pending
  <2>1. NoCandidate \in Candidates
    BY NoPagesType, LayoutType DEF NoCandidate, Candidates
  <2>2. TypeOK'
    BY <1>1, <1>4, <1>6, <2>1 DEF IInv, TypeOK, DeviceOK, Image, Stages, CandidateDropped,
                                  history
  <2> QED
    BY <1>1, <1>4, <1>5, <1>6, <2>2 DEF IInv, CandidateOK, PagesPresent, Live, Reachable,
                                        CandidateDropped, history
<1>7. CASE /\ DeviceWrite(writes) /\ pending' = next /\ stage' = "pages"
           /\ cand' = [cand EXCEPT !.dirty = {}]
  <2>1. next \in Roots
    BY <1>1, NextMetadataType DEF IInv
  <2>2. cand' \in Candidates /\ cand'.vals = cand.vals /\ cand'.bitmap = cand.bitmap
        /\ cand'.dirty = {}
    BY <1>1, <1>7 DEF Candidates
  <2>3. TypeOK'
    BY <1>1, <1>4, <1>7, <2>1, <2>2 DEF IInv, TypeOK, DeviceOK, Image, Stages, history
  <2>4. next.slot = Inactive(active.slot) /\ next.bitmap = cand.bitmap
    BY DEF NextMetadata
  <2>5. CandidateOK'
    BY <1>1, <1>7, <2>2, <2>4 DEF IInv, CandidateOK, NewPages
  <2>6. \A q \in DOMAIN writes \cap Pages : view'[q] # {Absent}
    BY <1>2, <1>7 DEF DeviceWrite
  <2>7. DOMAIN writes = DOMAIN CandidateWrites(cand.dirty) \cup DOMAIN ChunkWrites(next)
    BY MergeType
  <2>8. cand.dirty \subseteq DOMAIN writes
    BY <2>7 DEF CandidateWrites
  <2> HIDE DEF writes
  <2>9. \A q \in cand.bitmap : view'[q] # {Absent}
    <3>1. cand.bitmap \subseteq Pages
      BY <1>1, LayoutType DEF Candidates
    <3>2. \A q \in cand.bitmap \cap active.bitmap : view[q] # {Absent}
      BY <1>1 DEF IInv, PagesPresent, Live, Reachable
    <3>3. \A q \in NewPages \ cand.dirty : view[q] # {Absent}
      BY <1>1 DEF IInv, PagesPresent
    <3> QED
      BY <1>4, <2>6, <2>8, <3>1, <3>2, <3>3 DEF NewPages
  <2>10. \A c \in Chunks : view'[ChunkPage(c, next.chunks[c].slot)] # {Absent}
    <3>1. SUFFICES ASSUME NEW c \in Chunks
                   PROVE  view'[ChunkPage(c, next.chunks[c].slot)] # {Absent}
      OBVIOUS
    <3>2. ChunkPage(c, next.chunks[c].slot) \in Pages
      <4>1. next.chunks[c].slot \in Slots
        BY <2>1, ReachablePages
      <4> QED
        BY <4>1, ChunkPageInjective, LayoutType
    <3>3. CASE c \in ChangedChunks
      <4>1. ChunkPage(c, next.chunks[c].slot) \in DOMAIN ChunkWrites(next)
        BY <1>1, <3>3, ChunkWritesType DEF IInv
      <4> QED
        BY <2>6, <2>7, <3>2, <4>1
    <3>4. CASE c \notin ChangedChunks
      <4>1. next.chunks[c] = active.chunks[c]
        BY <3>4 DEF NextMetadata
      <4>2. view[ChunkPage(c, active.chunks[c].slot)] # {Absent}
        BY <1>1 DEF IInv, PagesPresent, Live, Reachable
      <4> QED
        BY <1>4, <3>2, <4>1, <4>2
    <3> QED
      BY <3>3, <3>4
  <2>11. \A q \in Reachable(next) \ {SuperblockPage(next.slot)} : view'[q] # {Absent}
    BY <2>4, <2>9, <2>10 DEF Reachable
  <2>12. \A q \in Reachable(active) : view'[q] # {Absent}
    BY <1>1, <1>4, <1>5 DEF IInv, PagesPresent, Live
  <2>13. recovery_required' = recovery_required /\ acked' = acked /\ active' = active
         /\ (~ recovery_required => DOMAIN acked.pages = active.bitmap)
    BY <1>1 DEF IInv, PagesPresent, Live, history
  <2> HIDE DEF next
  <2>14. PagesPresent'
    BY <1>7, <2>11, <2>12, <2>13 DEF PagesPresent, Live, Reachable
  <2> QED
    BY <2>3, <2>5, <2>14 DEF IInv
<1> QED
  BY <1>3, <1>6, <1>7

\* The write of the superblock keeps the invariant.
LEMMA CommitSuperblockIInv ==
    ASSUME IInv, CommitSuperblock
    PROVE  IInv'
<1> DEFINE page == SuperblockPage(pending.slot)
           writes == [p \in {page} |-> SuperblockValue(pending)]
<1>1. stage = "pages" /\ DeviceOK /\ pending \in Roots /\ active \in Roots
  BY TypeOKDevice DEF CommitSuperblock, IInv, TypeOK
<1>2. SuperblockValue(pending) \in PageValues /\ SuperblockValue(pending) # Absent
  BY <1>1, SuperblockValueType, ChunkNotAbsent
<1>3. \A q \in DOMAIN writes : writes[q] \in PageValues /\ writes[q] # Absent
  BY <1>2
<1>4. page \in Pages
  BY <1>1, ReachablePages, SlotsAreMetadata, LayoutType
<1>5. \/ /\ DeviceWrite(writes) /\ stage' = "super"
         /\ UNCHANGED <<cand, active, pending, recovery_required>>
      \/ DeviceWriteFails(writes) /\ Poisoned
  BY DEF CommitSuperblock
<1>6. DeviceWrite(writes) => view'[page] # {Absent}
  BY <1>2, <1>4 DEF DeviceWrite
<1>7. DeviceOK' /\ \A q \in Pages : view[q] # {Absent} => view'[q] # {Absent}
  <2>1. DeviceWrite(writes) \/ DeviceWriteFails(writes)
    BY <1>5
  <2> HIDE DEF writes
  <2> QED
    BY <1>1, <1>3, <2>1, WriteType, WriteKeepsPresent
<1>8. /\ acked' = acked /\ begun' = begun /\ endings' = endings
      /\ \A s \in attempts' : IsSnapshot(s)
  <2>1. IsSnapshot(CandidateSnapshot(pending))
    BY <1>1, CandidateSnapshotType DEF IInv
  <2> QED
    BY <2>1 DEF CommitSuperblock, IInv, TypeOK
<1>9. Reachable(active) \subseteq Pages /\ Reachable(pending) \subseteq Pages
  BY <1>1, ReachablePages
<1>10. CASE DeviceWriteFails(writes) /\ Poisoned
  <2>1. NoCandidate \in Candidates
    BY NoPagesType, LayoutType DEF NoCandidate, Candidates
  <2>2. /\ stage' = "idle" /\ cand' = NoCandidate /\ recovery_required' = TRUE
        /\ active' = active /\ pending' = pending
    BY <1>10 DEF Poisoned, CandidateDropped
  <2>3. TypeOK'
    BY <1>7, <1>8, <2>1, <2>2 DEF IInv, TypeOK, DeviceOK, Image, Stages
  <2> QED
    BY <1>1, <1>7, <1>9, <2>2, <2>3 DEF IInv, CandidateOK, PagesPresent, Live, Reachable
<1>11. CASE /\ DeviceWrite(writes) /\ stage' = "super"
            /\ UNCHANGED <<cand, active, pending, recovery_required>>
  <2>1. TypeOK'
    BY <1>7, <1>8, <1>11 DEF IInv, TypeOK, DeviceOK, Image, Stages
  <2>2. CandidateOK'
    BY <1>1, <1>11 DEF IInv, CandidateOK, NewPages
  <2>3. PagesPresent'
    BY <1>1, <1>6, <1>7, <1>8, <1>9, <1>11 DEF IInv, PagesPresent, Live, Reachable
  <2> QED
    BY <2>1, <2>2, <2>3 DEF IInv
<1> QED
  BY <1>5, <1>10, <1>11

\* The flush of a commit keeps the invariant, and so does one that fails.
LEMMA CommitFlushIInv ==
    ASSUME IInv, CommitFlush
    PROVE  IInv'
<1>1. /\ stage = "super" /\ DeviceOK /\ DeviceOK' /\ view' = view
      /\ pending \in Roots /\ active \in Roots
  BY TypeOKDevice, FlushType
     DEF CommitFlush, IInv, TypeOK, DeviceFlush, DeviceFlushFails, device
<1>2. CASE DeviceFlushFails /\ Poisoned /\ UNCHANGED history
  <2>1. NoCandidate \in Candidates
    BY NoPagesType, LayoutType DEF NoCandidate, Candidates
  <2>2. /\ stage' = "idle" /\ cand' = NoCandidate /\ recovery_required' = TRUE
        /\ active' = active /\ pending' = pending
    BY <1>2 DEF Poisoned, CandidateDropped
  <2>3. TypeOK'
    BY <1>1, <1>2, <2>1, <2>2 DEF IInv, TypeOK, DeviceOK, Image, Stages, history
  <2> QED
    BY <1>1, <2>2, <2>3 DEF IInv, CandidateOK, PagesPresent, Live, Reachable
<1>3. CASE /\ DeviceFlush /\ Opened(pending) /\ acked' = CandidateSnapshot(pending)
           /\ attempts' = {} /\ UNCHANGED <<begun, endings>>
  <2>1. /\ IsSnapshot(CandidateSnapshot(pending))
        /\ DOMAIN CandidateSnapshot(pending).pages = pending.bitmap
    BY <1>1, CandidateSnapshotType DEF IInv
  <2>2. /\ active' = pending /\ active' \in Roots /\ pending' \in Roots
        /\ cand' \in Candidates /\ stage' = "idle" /\ recovery_required' = FALSE
    BY <1>1, <1>3, OpenedType DEF Opened
  <2>3. TypeOK'
    BY <1>1, <1>3, <2>1, <2>2 DEF IInv, TypeOK, DeviceOK, Image, Stages
  <2>4. \A q \in Reachable(pending) : view[q] # {Absent}
    BY <1>1 DEF IInv, PagesPresent
  <2> QED
    BY <1>1, <1>3, <2>1, <2>2, <2>3, <2>4 DEF IInv, CandidateOK, PagesPresent
<1> QED
  BY <1>2, <1>3 DEF CommitFlush

\* The end of a session keeps the invariant.
LEMMA EndingsIInv ==
    ASSUME IInv, PowerLoss \/ ProcessExit \/ Close
    PROVE  IInv'
<1>1. DeviceOK'
  BY TypeOKDevice, PowerLossType DEF IInv, ProcessExit, Close, DeviceOK, device
<1>2. SessionEnds
  BY DEF PowerLoss, ProcessExit, Close
<1>3. EmptyRoot(0) \in Roots /\ NoCandidate \in Candidates
  BY EmptyRootType, NoPagesType, LayoutType DEF Slots, NoCandidate, Candidates
<1>4. TypeOK'
  <2>1. endings' \in Nat /\ begun' \in Nat
    BY <1>2 DEF IInv, TypeOK, SessionEnds
  <2>2. IsSnapshot(acked') /\ \A s \in attempts' : IsSnapshot(s)
    BY <1>2 DEF IInv, TypeOK, SessionEnds
  <2>3. /\ stage' \in Stages /\ active' \in Roots /\ pending' \in Roots
        /\ cand' \in Candidates /\ recovery_required' \in BOOLEAN
    BY <1>2, <1>3 DEF SessionEnds, Stages
  <2> QED
    BY <1>1, <2>1, <2>2, <2>3 DEF TypeOK, DeviceOK, Image
<1> QED
  BY <1>2, <1>4 DEF IInv, CandidateOK, PagesPresent, Live, SessionEnds

\* Every step keeps the invariant.
LEMMA NextIInv == IInv /\ [Next]_vars => IInv'
<1> SUFFICES ASSUME IInv, [Next]_vars PROVE IInv'
  OBVIOUS
<1>1. CASE UNCHANGED vars
  BY <1>1 DEF IInv, TypeOK, CandidateOK, PagesPresent, NewPages, vars
<1>2. CASE Next
  BY <1>2, BootstrapIInv, BootstrapRootsFlushIInv, OpenExistingIInv, CandidateStepsIInv,
     EvictPageIInv, CommitPagesIInv, CommitSuperblockIInv, CommitFlushIInv, EndingsIInv
     DEF Next, Commit
<1> QED
  BY <1>1, <1>2

\* The inductive invariant holds of every reachable state.
THEOREM InductiveInvariant == Spec => []IInv
BY InitIInv, NextIInv, PTL DEF Spec

\* Every page image, every root that recovery rebuilds from one and every
\* snapshot stays in the format, through faults and power losses of any number.
THEOREM TypeCorrect == Spec => []TypeOK
<1>1. IInv => TypeOK
  BY DEF IInv
<1> QED
  BY <1>1, InductiveInvariant, PTL

-----------------------------------------------------------------------------
(* No call writes what the active root reads. *)

\* A write elsewhere leaves a page and its risk alone.
LEMMA WriteElsewhere ==
    ASSUME DeviceOK, NEW writes, NEW p \in Pages, p \notin DOMAIN writes,
           DeviceWrite(writes) \/ DeviceWriteFails(writes)
    PROVE  view'[p] = view[p] /\ risk'[p] \subseteq risk[p]
<1>1. risk'[p] = risk[p]
  BY DEF DeviceWrite, DeviceWriteFails, Risks, DeviceOK, Image
<1>2. CASE DeviceWrite(writes)
  BY <1>1, <1>2 DEF DeviceWrite, DeviceOK, Image
<1>3. CASE DeviceWriteFails(writes)
  <2>1. PICK outcome :
          view' = [q \in Pages |->
                    IF q \notin DOMAIN writes \/ outcome[q] = "old" THEN view[q]
                    ELSE IF outcome[q] = "new" THEN {writes[q]}
                    ELSE view[q] \cup {writes[q]}]
    BY <1>3 DEF DeviceWriteFails
  <2> QED
    BY <1>1, <2>1
<1> QED
  BY <1>2, <1>3

\* A candidate's pages, and the placeholders before them, are not the root's.
LEMMA CandidateWritesElsewhere ==
    ASSUME IInv, stage = "write", NEW S \in SUBSET cand.dirty
    PROVE  DOMAIN CandidateWrites(S) \cap Reachable(active) = {}
<1>1. S \subseteq NewPages /\ NewPages \subseteq DataPages
  BY DEF IInv, CandidateOK, NewPages, TypeOK, Candidates
<1>2. S \cap Reachable(active) = {}
  <2>1. active \in Roots
    BY DEF IInv, TypeOK
  <2>2. SuperblockPage(active.slot) \in MetadataPages
        /\ \A c \in Chunks : ChunkPage(c, active.chunks[c].slot) \in MetadataPages
    BY <2>1, ReachablePages, SlotsAreMetadata, ChunkPageInjective
  <2> QED
    BY <1>1, <2>2, LayoutType DEF Reachable, NewPages
<1>3. \A q \in Reachable(active) : view[q] # {Absent}
  BY DEF IInv, PagesPresent, Live
<1> QED
  BY <1>2, <1>3 DEF CandidateWrites

\* A changed chunk goes to a page that the active root does not read.
LEMMA ChunkWritesElsewhere ==
    ASSUME IInv, stage = "write", NEW rev \in Nat, NEW root \in Nat,
           NewPages \subseteq DOMAIN cand.vals
    PROVE  DOMAIN ChunkWrites(NextMetadata(rev, root)) \cap Reachable(active) = {}
<1> DEFINE next == NextMetadata(rev, root)
<1>1. SUFFICES ASSUME NEW p \in DOMAIN ChunkWrites(next), p \in Reachable(active)
               PROVE  FALSE
  OBVIOUS
<1>2. PICK c \in ChangedChunks : p = ChunkPage(c, Inactive(active.chunks[c].slot))
  BY ChunkWritesType DEF IInv
<1>3. c \in Chunks /\ active \in Roots
  BY DEF ChangedChunks, IInv, TypeOK
<1>4. /\ \A d \in Chunks : active.chunks[d].slot \in Slots
      /\ Inactive(active.chunks[c].slot) \in Slots
      /\ Inactive(active.chunks[c].slot) # active.chunks[c].slot
  BY <1>3, ReachablePages DEF Inactive, Slots
<1>5. p \in MetadataPages \ Slots
  BY <1>2, <1>3, <1>4, ChunkPageInjective
<1>6. p \notin active.bitmap /\ p # SuperblockPage(active.slot)
  BY <1>3, <1>5, ReachablePages, LayoutType
<1>7. PICK d \in Chunks : p = ChunkPage(d, active.chunks[d].slot)
  BY <1>1, <1>6 DEF Reachable
<1>8. c = d /\ Inactive(active.chunks[c].slot) = active.chunks[d].slot
  <2> DEFINE s == Inactive(active.chunks[c].slot)
             t == active.chunks[d].slot
  <2>1. ChunkPage(c, s) = ChunkPage(d, t) /\ s \in Slots /\ t \in Slots
    BY <1>2, <1>4, <1>7
  <2> HIDE DEF s, t
  <2>2. c = d /\ s = t
    BY <1>3, <1>7, <2>1, ChunkPageInjective
  <2> QED
    BY <2>2 DEF s, t
<1> QED
  BY <1>4, <1>8

\* No step writes what the active root reads.
LEMMA ActiveStep ==
    ASSUME IInv, Next
    PROVE  LeavesActiveAlone
<1>1. SUFFICES ASSUME Next, stage \in Live, stage' \in Live,
                      NEW p \in Reachable(active)
               PROVE  view'[p] = view[p] /\ risk'[p] \subseteq risk[p]
  BY DEF LeavesActiveAlone
<1>2. /\ DeviceOK /\ active \in Roots /\ p \in Pages
  BY TypeOKDevice, ReachablePages DEF IInv, TypeOK
<1>3. CASE UNCHANGED device
  BY <1>3 DEF device
<1>4. CASE DeviceFlush
  BY <1>2, <1>4 DEF DeviceFlush, DeviceOK, Image
<1>5. ASSUME NEW q \in DataPages, EvictPage(q)
      PROVE  view'[p] = view[p] /\ risk'[p] \subseteq risk[p]
  <2>1. stage = "write" /\ {q} \in SUBSET cand.dirty
    BY <1>5 DEF EvictPage, InWrite
  <2>2. p \notin DOMAIN CandidateWrites({q})
    BY <2>1, CandidateWritesElsewhere
  <2> QED
    BY <1>2, <1>5, <2>2, WriteElsewhere DEF EvictPage
<1>6. ASSUME NEW rev \in Revisions, NEW root \in CatalogRoots, CommitPages(rev, root)
      PROVE  view'[p] = view[p] /\ risk'[p] \subseteq risk[p]
  <2> DEFINE f == CandidateWrites(cand.dirty)
             g == ChunkWrites(NextMetadata(rev, root))
  <2>1. stage = "write" /\ rev \in Nat /\ root \in Nat /\ NewPages \subseteq DOMAIN cand.vals
    BY <1>6, PagerAssumption DEF CommitPages, InWrite, Publishable
  <2>2. p \notin DOMAIN f /\ p \notin DOMAIN g
    BY <2>1, CandidateWritesElsewhere, ChunkWritesElsewhere
  <2>3. DeviceWrite(Merge(f, g)) \/ DeviceWriteFails(Merge(f, g))
    BY <1>6 DEF CommitPages
  <2> HIDE DEF f, g
  <2>4. p \notin DOMAIN Merge(f, g)
    BY <2>2, MergeType
  <2> QED
    BY <1>2, <2>3, <2>4, WriteElsewhere
<1>7. CASE CommitSuperblock
  <2> DEFINE page == SuperblockPage(pending.slot)
             writes == [q \in {page} |-> SuperblockValue(pending)]
  <2>1. pending.slot = Inactive(active.slot) /\ pending \in Roots
    BY <1>7 DEF CommitSuperblock, IInv, CandidateOK, TypeOK
  <2>2. page \in Slots /\ page # SuperblockPage(active.slot)
    BY <1>2, <2>1, ReachablePages DEF SuperblockPage, Inactive, Slots
  <2>3. page \notin Reachable(active)
    <3>1. page \notin active.bitmap
      BY <1>2, <2>2, ReachablePages, SlotsAreMetadata, LayoutType
    <3>2. \A c \in Chunks : ChunkPage(c, active.chunks[c].slot) \notin Slots
      BY <1>2, ReachablePages, ChunkPageInjective
    <3> QED
      BY <2>2, <3>1, <3>2 DEF Reachable
  <2>4. DeviceWrite(writes) \/ DeviceWriteFails(writes)
    BY <1>7 DEF CommitSuperblock
  <2>5. p \notin DOMAIN writes
    BY <2>3
  <2> HIDE DEF writes
  <2> QED
    BY <1>2, <2>4, <2>5, WriteElsewhere
<1>8. CASE CommitFlush
  BY <1>3, <1>4, <1>8 DEF CommitFlush, DeviceFlushFails
<1>9. CASE \/ BootstrapZeros \/ BootstrapChunks \/ BootstrapFlush
           \/ BootstrapRoots \/ BootstrapRootsFlush \/ OpenExisting
           \/ PowerLoss \/ ProcessExit \/ Close
  <2>1. CASE PowerLoss \/ ProcessExit \/ Close
    <3>1. stage' = "closed"
      BY <2>1 DEF PowerLoss, ProcessExit, Close, SessionEnds
    <3> QED
      BY <1>1, <3>1 DEF Live
  <2>2. CASE OpenExisting \/ BootstrapRootsFlush
    <3>1. stage \in {"closed", "roots"}
      BY <2>2 DEF OpenExisting, BootstrapRootsFlush
    <3> QED
      BY <1>1, <3>1 DEF Live
  <2>3. CASE BootstrapZeros \/ BootstrapChunks \/ BootstrapFlush \/ BootstrapRoots
    <3>1. stage \in {"closed", "zeros", "chunks", "extent"}
      BY <2>3 DEF BootstrapZeros, BootstrapChunks, BootstrapFlush, BootstrapRoots,
         BootstrapStep
    <3> QED
      BY <1>1, <3>1 DEF Live
  <2> QED
    BY <1>9, <2>1, <2>2, <2>3
<1>10. CASE \/ BeginWrite \/ Abort
            \/ \E q \in DataPages : \/ AllocatePage(q) \/ FreeSharedPage(q)
                                    \/ ReleaseNewPage(q)
                                    \/ \E v \in Vals : WriteNewPage(q, v)
            \/ \E rev \in Revisions, root \in CatalogRoots : CommitRefused(rev, root)
  BY <1>3, <1>10 DEF BeginWrite, Abort, AllocatePage, FreeSharedPage, ReleaseNewPage,
     WriteNewPage, CommitRefused
<1>11. CASE \E q \in DataPages : EvictPage(q)
  BY <1>5, <1>11
<1>12. CASE \E rev \in Revisions, root \in CatalogRoots : CommitPages(rev, root)
  BY <1>6, <1>12
<1>13. CASE \E q \in DataPages :
             \/ AllocatePage(q) \/ FreeSharedPage(q) \/ ReleaseNewPage(q) \/ EvictPage(q)
             \/ \E v \in Vals : WriteNewPage(q, v)
  BY <1>10, <1>11, <1>13
<1>14. CASE \E rev \in Revisions, root \in CatalogRoots : Commit(rev, root)
  <2>1. \/ \E rev \in Revisions, root \in CatalogRoots : CommitRefused(rev, root)
        \/ \E rev \in Revisions, root \in CatalogRoots : CommitPages(rev, root)
    BY <1>14 DEF Commit
  <2> QED
    BY <1>10, <1>12, <2>1
<1> QED
  BY <1>1, <1>7, <1>8, <1>9, <1>10, <1>13, <1>14 DEF Next

\* The pager writes only where the active root does not read, whatever fails:
\* the doc of commit says "None of these writes touches a page the active root
\* can reach".
THEOREM ActiveUntouched == Spec => NeverTouchesActive
<1>1. ASSUME IInv, [Next]_vars
      PROVE  [LeavesActiveAlone]_vars
  BY <1>1, ActiveStep
<1> QED
  BY <1>1, InductiveInvariant, PTL DEF Spec, NeverTouchesActive
=============================================================================
