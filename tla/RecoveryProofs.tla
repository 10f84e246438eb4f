--------------------------- MODULE RecoveryProofs ---------------------------
(***************************************************************************)
(* Proofs that Pager recovers: whatever a failed call, a loss of power or  *)
(* the end of a process leaves of the device, the next open finds the last *)
(* acknowledged snapshot, or one whose publication was begun, whole.       *)
(***************************************************************************)
EXTENDS PagerProofs, WellFoundedInduction

-----------------------------------------------------------------------------
(* The invariant. *)

\* An open that follows the end of a process, or a close, serves what it reads without
\* a flush; a power loss that came later could take it back.  So all the power losses
\* come first.
PowerLossesFirst ==
    \A i, j \in 1 .. MaxEndings :
        i < j /\ "power" \in Endings[j] => Endings[i] \subseteq {"power"}

\* A power loss may still come, and what page `p` may then hold.
Exposed == \E j \in 1 .. MaxEndings : endings < j /\ "power" \in Endings[j]
May(p) == view[p] \cup (IF Exposed THEN durable[p] \cup risk[p] ELSE {})

\* The root that a superblock describes.
RootOf(sb) ==
    [slot |-> sb.slot, gen |-> sb.gen, rev |-> sb.rev, root |-> sb.root,
     bitmap |-> BitmapOf(sb), commit |-> sb.commit, chunks |-> sb.chunks]

\* A root that a commit or an initialization may write.
Sound(root) ==
    /\ root \in Roots
    /\ \A c \in Chunks : root.chunks[c].page.bits = root.bitmap \cap ChunkRange(c)
    /\ root.root = NoRoot \/ root.root \in root.bitmap

\* All of `root` is there to be read.
Whole(img, root) ==
    /\ img[SuperblockPage(root.slot)] = {SuperblockValue(root)}
    /\ \A c \in Chunks : img[ChunkPage(c, root.chunks[c].slot)] = {root.chunks[c].page}
    /\ \A p \in root.bitmap : HoldsData(img[p])

\* The snapshot that was begun with `root`, a successor of the acknowledged one.
AttemptOf(root) ==
    [gen |-> root.gen, rev |-> root.rev, root |-> root.root,
     pages |-> [p \in root.bitmap |->
                 IF p \in DOMAIN acked.pages THEN acked.pages[p]
                 ELSE {DataPage(root.commit[p])}]]

\* A superblock that recovery may find in the other slot: that of the root before, which
\* the newer one outranks; that of the other copy of an empty database; or one that an
\* interrupted commit wrote.
Rival(sb, root) ==
    /\ Sound(RootOf(sb)) /\ sb = SuperblockValue(RootOf(sb))
    /\ sb.slot = Inactive(root.slot)
    /\ \/ sb.gen + 1 = root.gen /\ CommitIsDurable(view, root, RootOf(sb))
       \/ LogicallyMatches(root, RootOf(sb))
       \/ sb.gen = root.gen + 1 /\ AttemptOf(RootOf(sb)) \in attempts

\* The device holds `root`, safely, as the acknowledged snapshot.
Anchored(root) ==
    /\ Sound(root) /\ Whole(view, root)
    /\ acked = Snapshot(root, view)
    /\ Exposed => \A p \in Reachable(root) : durable[p] = view[p] /\ risk[p] = {}
    /\ \A p \in MetadataPages : Absent \notin May(p)
    /\ \A v \in May(SuperblockPage(Inactive(root.slot))) : v.kind = "super" => Rival(v, root)

\* The device holds nothing but what initializations have left.
Fresh ==
    /\ acked = Snapshot(EmptyRoot(0), [p \in Pages |-> {Absent}])
    /\ attempts = {}
    /\ \A p \in MetadataPages :
         /\ view[p] \cup durable[p] \cup risk[p] \subseteq {Absent, Zero, EmptyLayout(p)}
         /\ Absent \in view[p] => view[p] = {Absent}
         /\ view[p] # {Absent} => \A q \in MetadataPages : q < p => view[q] # {Absent}
    /\ \A p \in DataPages : view[p] = {Absent} /\ durable[p] = {Absent} /\ risk[p] = {}

Booting == {"zeros", "chunks", "extent", "roots"}

FoundInv ==
    /\ stage \in Booting \cup {"dead"} => Fresh
    /\ stage \in Live => Anchored(active)
    /\ stage = "closed" =>
         /\ Fresh \/ \E root \in Roots : Anchored(root)
         /\ Exposed => \A p \in Pages : durable[p] = view[p] /\ risk[p] = {}

\* How far an initialization is.
BootInv ==
    /\ stage \in Booting => \A p \in MetadataPages : Absent \notin view[p]
    /\ stage \in {"chunks", "extent", "roots"} =>
         \A p \in MetadataPages \ Slots : view[p] = {EmptyLayout(p)}
    /\ stage = "roots" => \A p \in Slots : view[p] = {EmptyLayout(p)}

\* How far a commit is: evicted pages hold what was last written to them, and the new
\* root is whole before its superblock is written.
WrittenInv ==
    /\ stage = "write" =>
         \A p \in DOMAIN cand.vals \ cand.dirty : view[p] = {DataPage(cand.vals[p])}
    /\ stage \in {"pages", "super"} =>
         /\ Sound(pending)
         /\ pending.gen = active.gen + 1 /\ pending.rev >= active.rev
         /\ pending.commit = [p \in NewPages |-> cand.vals[p]]
         /\ \A p \in NewPages : view[p] = {DataPage(cand.vals[p])}
         /\ \A c \in Chunks :
              view[ChunkPage(c, pending.chunks[c].slot)] = {pending.chunks[c].page}
    /\ stage = "super" =>
         /\ view[SuperblockPage(pending.slot)] = {SuperblockValue(pending)}
         /\ CandidateSnapshot(pending) \in attempts

RInv == IInv /\ FoundInv /\ BootInv /\ WrittenInv

-----------------------------------------------------------------------------
(* What a superblock says. *)

\* A set of numbers has a least one.
LEMMA Least ==
    ASSUME NEW T \in SUBSET Nat, T # {}
    PROVE  \E x \in T : \A y \in T : x <= y
<1>1. PICK x \in T : \A y \in T : ~ (<<y, x>> \in OpToRel(<, Nat))
  BY NatLessThanWellFounded, WFMin, Zenon
<1>2. \A y \in T : ~ (y < x)
  BY <1>1, Zenon DEF OpToRel
<1> QED
  BY <1>2

\* Every data page has its bit in the superblock or in a chunk.
LEMMA ChunksCover ==
    ASSUME NEW p \in DataPages
    PROVE  p \in LowRange \/ \E c \in Chunks : p \in ChunkRange(c)
<1>1. /\ ChunkCount \in Nat /\ LowEnd \in Nat /\ ChunkPages \in Nat /\ MaxPages \in Nat
      /\ p \in Nat /\ p < MaxPages /\ MaxPages <= LowEnd + ChunkCount * ChunkPages
  BY PagerAssumption, LayoutType DEF DataPages, Pages
<1>2. SUFFICES ASSUME ~ (p < LowEnd)
               PROVE  \E c \in Chunks : p \in ChunkRange(c)
  BY <1>1 DEF LowRange
<1> DEFINE T == {n \in Nat : p < LowEnd + n * ChunkPages}
<1>3. ChunkCount \in T
  BY <1>1
<1>4. PICK n \in T : \A m \in T : n <= m
  <2>1. T \in SUBSET Nat /\ T # {}
    BY <1>3
  <2> HIDE DEF T
  <2> QED
    BY <2>1, Least
<1>5. n \in Nat /\ n <= ChunkCount /\ p < LowEnd + n * ChunkPages
  BY <1>3, <1>4
<1>6. n # 0
  BY <1>1, <1>2, <1>5
<1>7. n - 1 \in Nat /\ ~ (p < LowEnd + (n - 1) * ChunkPages) /\ (n - 1) + 1 = n
  BY <1>4, <1>5, <1>6
<1>8. n - 1 \in Chunks
  BY <1>1, <1>5, <1>7 DEF Chunks
<1>9. LowEnd + (n - 1) * ChunkPages <= p
  <2>1. (n - 1) * ChunkPages \in Nat
    BY <1>1, <1>7
  <2> QED
    BY <1>1, <1>7, <2>1
<1>10. p \in ChunkRange(n - 1)
  BY <1>5, <1>7, <1>9 DEF ChunkRange
<1> QED
  BY <1>8, <1>10

\* Decoding gives back the bitmap that was encoded.
LEMMA BitmapDecodes ==
    ASSUME NEW root, Sound(root)
    PROVE  BitmapOf(SuperblockValue(root)) = root.bitmap
<1> DEFINE sb == SuperblockValue(root)
<1>1. sb.low = root.bitmap \cap LowRange /\ sb.chunks = root.chunks
  BY DEF SuperblockValue
<1>2. root.bitmap \subseteq DataPages
  BY DEF Sound, Roots
<1>3. \A c \in Chunks : sb.chunks[c].page.bits = root.bitmap \cap ChunkRange(c)
  BY <1>1 DEF Sound
<1> HIDE DEF sb
<1>4. ASSUME NEW p \in root.bitmap
      PROVE  p \in BitmapOf(sb)
  BY <1>1, <1>2, <1>3, ChunksCover DEF BitmapOf
<1>5. ASSUME NEW p \in BitmapOf(sb)
      PROVE  p \in root.bitmap
  BY <1>1, <1>3, <1>5 DEF BitmapOf
<1> QED
  BY <1>4, <1>5 DEF sb

\* Decoding a superblock gives back the root that was encoded.
LEMMA RootDecodes ==
    ASSUME NEW root, Sound(root)
    PROVE  /\ RootOf(SuperblockValue(root)) = root
           /\ SuperblockValue(root) \in SuperblockValues
           /\ SuperblockValue(root).kind = "super"
<1>1. root \in Roots /\ BitmapOf(SuperblockValue(root)) = root.bitmap
  BY BitmapDecodes DEF Sound
<1>2. RootOf(SuperblockValue(root)) =
        [slot |-> root.slot, gen |-> root.gen, rev |-> root.rev, root |-> root.root,
         bitmap |-> root.bitmap, commit |-> root.commit, chunks |-> root.chunks]
  BY <1>1 DEF RootOf, SuperblockValue
<1>3. root = [slot |-> root.slot, gen |-> root.gen, rev |-> root.rev, root |-> root.root,
              bitmap |-> root.bitmap, commit |-> root.commit, chunks |-> root.chunks]
  BY <1>1 DEF Roots
<1> QED
  BY <1>1, <1>2, <1>3, SuperblockValueType DEF SuperblockValue

\* A root that is whole decodes to itself.
LEMMA WholeDecodes ==
    ASSUME NEW img, NEW root, Sound(root), Whole(img, root)
    PROVE  Decodes(img, root.slot) /\ RootAt(img, root.slot) = root
<1> DEFINE sb == SuperblockValue(root)
<1>1. img[SuperblockPage(root.slot)] = {sb} /\ IsIntact(img[SuperblockPage(root.slot)])
  BY DEF Whole, IsIntact
<1>2. SuperblockAt(img, root.slot) = sb
  BY <1>1, ValueOfImage DEF SuperblockAt
<1>3. BitmapOf(sb) = root.bitmap /\ RootOf(sb) = root
  BY BitmapDecodes, RootDecodes
<1>4. /\ sb.kind = "super" /\ sb.slot = root.slot /\ sb.chunks = root.chunks
      /\ sb.live = Cardinality(root.bitmap) /\ sb.root = root.root
  BY DEF SuperblockValue
<1>5. \A c \in Chunks : img[ChunkPage(c, sb.chunks[c].slot)] = {sb.chunks[c].page}
  BY <1>4 DEF Whole
<1>6. sb.root = NoRoot \/ sb.root \in BitmapOf(sb)
  BY <1>3, <1>4 DEF Sound
<1>7. RootAt(img, root.slot) = RootOf(sb)
  BY <1>2, <1>4 DEF RootAt, RootOf
<1> HIDE DEF sb
<1> QED
  BY <1>1, <1>2, <1>3, <1>4, <1>5, <1>6, <1>7 DEF Decodes

\* What a slot that decodes holds.
LEMMA SlotHolds ==
    ASSUME NEW img \in Image, NEW slot \in Slots, Decodes(img, slot)
    PROVE  LET sb == SuperblockAt(img, slot)
           IN  /\ img[SuperblockPage(slot)] = {sb} /\ sb.kind = "super" /\ sb.slot = slot
               /\ RootAt(img, slot) = RootOf(sb)
               /\ \A c \in Chunks : img[ChunkPage(c, sb.chunks[c].slot)] = {sb.chunks[c].page}
<1>1. img[SuperblockPage(slot)] = {SuperblockAt(img, slot)}
  BY DecodesType
<1> QED
  BY <1>1 DEF Decodes, RootAt, RootOf

-----------------------------------------------------------------------------
(* What recovery finds. *)

\* The number of pages of a file that holds every metadata page, and no others.
LEMMA PageCounts ==
    ASSUME NEW img
    PROVE  /\ PageCount(img) \in Nat
           /\ (\A p \in MetadataPages : img[p] # {Absent}) => PageCount(img) >= FirstData
           /\ (\A p \in DataPages : img[p] = {Absent}) =>
                /\ PageCount(img) <= FirstData
                /\ PageCount(img) = FirstData => \A p \in MetadataPages : img[p] # {Absent}
<1> DEFINE present == {p \in Pages : img[p] # {Absent}}
<1>1. FirstData \in Nat /\ MaxPages \in Nat /\ FirstData >= 2
  BY LayoutType, PagerAssumption DEF FirstData
<1>2. IsFiniteSet(Pages) /\ IsFiniteSet(MetadataPages) /\ Cardinality(MetadataPages) = FirstData
  BY <1>1, FS_Interval DEF Pages, MetadataPages
<1>3. PageCount(img) = Cardinality(present) /\ present \in SUBSET Pages
  BY DEF PageCount
<1>4. IsFiniteSet(present) /\ Cardinality(present) \in Nat
  BY <1>2, <1>3, FS_Subset, FS_CardinalityType
<1>5. ASSUME \A p \in MetadataPages : img[p] # {Absent}
      PROVE  PageCount(img) >= FirstData
  <2>1. MetadataPages \in SUBSET present
    BY <1>5, LayoutType
  <2> HIDE DEF present
  <2>2. Cardinality(MetadataPages) <= Cardinality(present)
    BY <1>4, <2>1, FS_Subset
  <2> QED
    BY <1>1, <1>2, <1>3, <1>4, <2>2
<1>6. ASSUME \A p \in DataPages : img[p] = {Absent}
      PROVE  /\ PageCount(img) <= FirstData
             /\ PageCount(img) = FirstData => present = MetadataPages
  <2>1. present \in SUBSET MetadataPages
    BY <1>6, LayoutType
  <2> HIDE DEF present
  <2>2. /\ Cardinality(present) <= Cardinality(MetadataPages)
        /\ Cardinality(MetadataPages) = Cardinality(present) => MetadataPages = present
    BY <1>2, <2>1, FS_Subset
  <2> QED
    BY <1>2, <1>3, <2>2
<1> QED
  BY <1>3, <1>4, <1>5, <1>6

\* The other slot is one too.
LEMMA OtherSlot ==
    ASSUME NEW s \in Slots
    PROVE  /\ Inactive(s) \in Slots /\ Inactive(s) # s /\ Inactive(Inactive(s)) = s
           /\ Slots = {s, Inactive(s)}
           /\ SuperblockPage(s) \in MetadataPages /\ SuperblockPage(s) \in Pages
           /\ SuperblockPage(s) = s
  BY SlotsAreMetadata, LayoutType DEF Inactive, Slots, SuperblockPage

\* What the other slot may yield, where it decodes.
Outcome(other, root) ==
    /\ Sound(other) /\ other.slot = Inactive(root.slot)
    /\ \A c \in Chunks : view[ChunkPage(c, other.chunks[c].slot)] = {other.chunks[c].page}
    /\ view[SuperblockPage(other.slot)] = {SuperblockValue(other)}
    /\ \/ other.gen + 1 = root.gen /\ CommitIsDurable(view, root, other)
       \/ LogicallyMatches(root, other)
       \/ other.gen = root.gen + 1 /\ AttemptOf(other) \in attempts

\* Beside an anchored root, the other slot holds a rival or nothing that decodes.
LEMMA OtherDecodes ==
    ASSUME TypeOK, NEW root, Anchored(root), Decodes(view, Inactive(root.slot))
    PROVE  Outcome(RootAt(view, Inactive(root.slot)), root)
<1> DEFINE s == Inactive(root.slot)
           sb == SuperblockAt(view, s)
<1>1. root.slot \in Slots /\ s \in Slots /\ view \in Image
  BY OtherSlot DEF Anchored, Sound, Roots, TypeOK, Image
<1>2. /\ view[SuperblockPage(s)] = {sb} /\ sb.kind = "super" /\ sb.slot = s
      /\ RootAt(view, s) = RootOf(sb)
      /\ \A c \in Chunks : view[ChunkPage(c, sb.chunks[c].slot)] = {sb.chunks[c].page}
  BY <1>1, SlotHolds
<1>3. Rival(sb, root)
  BY <1>2 DEF Anchored, May
<1>4. RootOf(sb).slot = s /\ RootOf(sb).gen = sb.gen /\ RootOf(sb).chunks = sb.chunks
  BY <1>2 DEF RootOf
<1> QED
  BY <1>2, <1>3, <1>4 DEF Rival, Outcome

\* Recovery finds the anchored root, or one in the other slot that may replace it.
LEMMA RecoveryFinds ==
    ASSUME TypeOK, NEW root, Anchored(root)
    PROVE  LET other == RootAt(view, Inactive(root.slot))
           IN  \/ RecoverDeviceMetadata(view) = {root}
               \/ /\ RecoverDeviceMetadata(view) = {other}
                  /\ Outcome(other, root)
                  /\ \/ LogicallyMatches(root, other)
                     \/ /\ other.gen = root.gen + 1 /\ CommitIsDurable(view, other, root)
                        /\ AttemptOf(other) \in attempts
<1> DEFINE s == root.slot
           t == Inactive(s)
           other == RootAt(view, t)
           valid == {x \in Slots : Decodes(view, x)}
<1>1. s \in Slots /\ t \in Slots /\ t # s /\ Slots = {s, t} /\ Inactive(t) = s
      /\ root.gen \in Nat
  BY OtherSlot DEF Anchored, Sound, Roots
<1>2. Decodes(view, s) /\ RootAt(view, s) = root
  BY WholeDecodes DEF Anchored
<1>3. ~ (PageCount(view) < FirstData)
  <2>1. \A p \in MetadataPages : view[p] # {Absent}
    BY DEF Anchored, May
  <2> QED
    BY <2>1, PageCounts, LayoutType
<1>4. s \in valid /\ valid # {}
  BY <1>1, <1>2
<1>5. CASE ~ Decodes(view, t)
  <2>1. valid = {s} /\ valid # Slots
    BY <1>1, <1>2, <1>5
  <2>2. RecoverDeviceMetadata(view) = {RootAt(view, x) : x \in valid}
    BY <1>3, <1>4, <2>1 DEF RecoverDeviceMetadata
  <2> QED
    BY <1>2, <2>1, <2>2
<1>6. CASE Decodes(view, t)
  <2>1. Outcome(other, root) /\ valid = Slots
    BY <1>1, <1>2, <1>6, OtherDecodes
  <2>2. other.gen \in Nat
    BY <2>1 DEF Outcome, Sound, Roots
  <2> DEFINE newest == RootAt(view, NewestSlot(view))
             older == RootAt(view, Inactive(NewestSlot(view)))
  <2>3. RecoverDeviceMetadata(view) =
          IF newest.gen = older.gen
          THEN {r \in {newest} : LogicallyMatches(newest, older)}
          ELSE IF newest.gen = older.gen + 1 /\ ~ CommitIsDurable(view, newest, older)
               THEN {older}
               ELSE {newest}
    BY <1>3, <1>4, <2>1 DEF RecoverDeviceMetadata
  <2>4. \/ NewestSlot(view) = s /\ newest = root /\ older = other
        \/ NewestSlot(view) = t /\ newest = other /\ older = root
    <3>1. NewestSlot(view) \in Slots
      BY DEF NewestSlot, Slots
    <3> QED
      BY <1>1, <1>2, <3>1
  <2>5. newest.gen >= older.gen
    <3>1. RootAt(view, 0).gen \in Nat /\ RootAt(view, 1).gen \in Nat
      BY <1>1, <1>2, <2>2 DEF Slots
    <3> QED
      BY <3>1 DEF NewestSlot, Inactive
  <2> HIDE DEF newest, older, other
  <2>6. CASE other.gen + 1 = root.gen /\ CommitIsDurable(view, root, other)
    <3>1. newest = root /\ older = other /\ root.gen # other.gen
      BY <1>1, <2>2, <2>4, <2>5, <2>6
    <3> QED
      BY <2>3, <2>6, <3>1
  <2>7. CASE LogicallyMatches(root, other)
    <3>1. newest.gen = older.gen /\ LogicallyMatches(newest, older)
      BY <2>4, <2>7 DEF LogicallyMatches
    <3>2. RecoverDeviceMetadata(view) = {newest}
      BY <2>3, <3>1
    <3> QED
      BY <2>1, <2>4, <2>7, <3>2 DEF other
  <2>8. CASE other.gen = root.gen + 1 /\ AttemptOf(other) \in attempts
    <3>1. newest = other /\ older = root /\ root.gen # other.gen
      BY <1>1, <2>2, <2>4, <2>5, <2>8
    <3> QED
      BY <2>1, <2>3, <2>8, <3>1 DEF other
  <2> QED
    BY <2>1, <2>6, <2>7, <2>8 DEF Outcome
<1> QED
  BY <1>5, <1>6

\* A page that holds data holds nothing else.
LEMMA HeldData ==
    ASSUME NEW image \in SUBSET PageValues, HoldsData(image)
    PROVE  image = {DataPage(Value(image).val)} /\ Value(image).val \in Vals
           /\ image # {Absent} /\ Absent \notin image
<1>1. image = {Value(image)} /\ Value(image) \in PageValues /\ Value(image).kind = "data"
  BY ValueOfImage DEF HoldsData
<1>2. Value(image) \in [kind : {"data"}, val : Vals]
  BY <1>1 DEF PageValues, Absent, Zero, ChunkValues, SuperblockValues
<1>3. Value(image) = DataPage(Value(image).val) /\ Value(image).val \in Vals
  BY <1>2 DEF DataPage
<1>4. Value(image) # Absent
  BY <1>1 DEF Absent
<1> QED
  BY <1>1, <1>3, <1>4

\* What recovery takes from the other slot is whole, and is a snapshot that was promised.
LEMMA OtherIsWhole ==
    ASSUME TypeOK, NEW root, Anchored(root), NEW other, Outcome(other, root),
           \/ LogicallyMatches(root, other)
           \/ /\ other.gen = root.gen + 1 /\ CommitIsDurable(view, other, root)
              /\ AttemptOf(other) \in attempts
    PROVE  /\ Whole(view, other)
           /\ LogicallyMatches(root, other) => Snapshot(other, view) = acked
           /\ ~ LogicallyMatches(root, other) => Snapshot(other, view) \in attempts
<1>1. /\ root.bitmap \subseteq DataPages /\ other.bitmap \subseteq DataPages
      /\ \A p \in DataPages : view[p] \in SUBSET PageValues
  BY LayoutType DEF Anchored, Outcome, Sound, Roots, TypeOK
<1>2. /\ \A p \in root.bitmap : HoldsData(view[p])
      /\ acked = Snapshot(root, view) /\ DOMAIN acked.pages = root.bitmap
      /\ \A p \in root.bitmap : acked.pages[p] = view[p]
  BY DEF Anchored, Whole, Snapshot
<1>3. CASE LogicallyMatches(root, other)
  <2>1. other.bitmap = root.bitmap
    BY <1>3 DEF LogicallyMatches
  <2> QED
    BY <1>2, <1>3, <2>1 DEF Whole, Outcome, Snapshot, LogicallyMatches
<1>4. CASE ~ LogicallyMatches(root, other)
  <2> DEFINE new == other.bitmap \ root.bitmap
  <2>1. /\ \A p \in new : HoldsData(view[p])
        /\ [p \in new |-> Value(view[p]).val] = other.commit
        /\ AttemptOf(other) \in attempts
    BY <1>4 DEF CommitIsDurable
  <2>2. \A p \in new : view[p] = {DataPage(other.commit[p])}
    BY <1>1, <2>1, HeldData
  <2>3. Whole(view, other)
    BY <1>2, <2>1 DEF Whole, Outcome
  <2>4. \A p \in other.bitmap :
          view[p] = IF p \in DOMAIN acked.pages THEN acked.pages[p]
                    ELSE {DataPage(other.commit[p])}
    BY <1>2, <2>2
  <2>5. [p \in other.bitmap |-> view[p]] =
          [p \in other.bitmap |-> IF p \in DOMAIN acked.pages THEN acked.pages[p]
                                  ELSE {DataPage(other.commit[p])}]
    BY <2>4
  <2>6. Snapshot(other, view) = AttemptOf(other)
    BY <2>5 DEF Snapshot, AttemptOf
  <2> QED
    BY <1>4, <2>1, <2>3, <2>6
<1> QED
  BY <1>3, <1>4

\* The empty database is sound, in either slot.
LEMMA EmptySound ==
    ASSUME NEW s \in Slots
    PROVE  /\ Sound(EmptyRoot(s)) /\ EmptyRoot(s).slot = s /\ EmptyRoot(s).bitmap = {}
           /\ EmptyLayout(s) = SuperblockValue(EmptyRoot(s))
           /\ \A c \in Chunks :
                /\ EmptyRoot(s).chunks[c].slot = s
                /\ EmptyRoot(s).chunks[c].page = EmptyLayout(ChunkPage(c, s))
<1>1. EmptyRoot(s).slot = s /\ EmptyRoot(s).bitmap = {} /\ EmptyRoot(s).root = NoRoot
      /\ \A c \in Chunks : /\ EmptyRoot(s).chunks[c].slot = s
                          /\ EmptyRoot(s).chunks[c].page = ChunkValue(c, s, 1, {})
  BY DEF EmptyRoot
<1>2. EmptyRoot(s) \in Roots
  BY EmptyRootType
<1>3. \A c \in Chunks : ChunkValue(c, s, 1, {}).bits = {}
  BY DEF ChunkValue
<1>4. ASSUME NEW c \in Chunks
      PROVE  EmptyLayout(ChunkPage(c, s)) = ChunkValue(c, s, 1, {})
  <2>1. ChunkCount \in Nat /\ c \in Nat /\ c < ChunkCount
    BY PagerAssumption DEF Chunks
  <2>2. ChunkPage(c, s) \notin Slots
    BY ChunkPageInjective
  <2>3. CASE s = 0
    <3>1. ChunkPage(c, s) = 2 + c /\ 2 + c < 2 + ChunkCount /\ (2 + c) - 2 = c
      BY <2>1, <2>3 DEF ChunkPage
    <3> QED
      BY <2>2, <2>3, <3>1 DEF EmptyLayout
  <2>4. CASE s = 1
    <3>1. /\ ChunkPage(c, s) = 2 + ChunkCount + c /\ ~ (2 + ChunkCount + c < 2 + ChunkCount)
          /\ (2 + ChunkCount + c) - 2 - ChunkCount = c
      BY <2>1, <2>4 DEF ChunkPage
    <3> QED
      BY <2>2, <2>4, <3>1 DEF EmptyLayout
  <2> QED
    BY <2>3, <2>4 DEF Slots
<1>5. Sound(EmptyRoot(s))
  <2>1. \A c \in Chunks : EmptyRoot(s).chunks[c].page.bits = EmptyRoot(s).bitmap \cap ChunkRange(c)
    <3>1. ASSUME NEW c \in Chunks
          PROVE  EmptyRoot(s).chunks[c].page.bits = {}
      <4>1. EmptyRoot(s).chunks[c].page = ChunkValue(c, s, 1, {})
        BY <1>1
      <4> QED
        BY <1>3, <4>1
    <3> QED
      BY <1>1, <3>1
  <2> QED
    BY <1>1, <1>2, <2>1 DEF Sound
<1>6. EmptyLayout(s) = SuperblockValue(EmptyRoot(s))
  BY DEF EmptyLayout
<1>7. \A c \in Chunks : /\ EmptyRoot(s).chunks[c].slot = s
                        /\ EmptyRoot(s).chunks[c].page = EmptyLayout(ChunkPage(c, s))
  BY <1>1, <1>4
<1> QED
  BY <1>1, <1>5, <1>6, <1>7

\* What recovery finds on a device that holds only initializations is the empty database.
LEMMA FreshRecovery ==
    ASSUME TypeOK, Fresh, NEW root \in RecoverDeviceMetadata(view)
    PROVE  /\ \E s \in Slots : root = EmptyRoot(s)
           /\ Sound(root) /\ Whole(view, root) /\ root.bitmap = {}
           /\ Snapshot(root, view) = acked
           /\ \A p \in MetadataPages : view[p] # {Absent}
<1>1. PICK s \in Slots : Decodes(view, s) /\ root = RootAt(view, s)
  BY RecoveredFromSlot
<1> DEFINE sb == SuperblockAt(view, s)
<1>2. /\ view[SuperblockPage(s)] = {sb} /\ sb.kind = "super" /\ sb.slot = s
      /\ root = RootOf(sb)
      /\ \A c \in Chunks : view[ChunkPage(c, sb.chunks[c].slot)] = {sb.chunks[c].page}
  <2>1. view \in Image
    BY DEF TypeOK, Image
  <2> QED
    BY <1>1, <2>1, SlotHolds
<1>3. sb = SuperblockValue(EmptyRoot(s))
  <2>1. SuperblockPage(s) = s /\ s \in MetadataPages
    BY OtherSlot
  <2>2. sb \in {Absent, Zero, EmptyLayout(s)}
    BY <1>2, <2>1 DEF Fresh
  <2> QED
    BY <1>2, <2>2, EmptySound DEF Absent, Zero
<1>4. root = EmptyRoot(s) /\ Sound(root) /\ root.bitmap = {}
  BY <1>2, <1>3, EmptySound, RootDecodes
<1>5. Whole(view, root)
  <2>1. root.slot = s /\ root.chunks = sb.chunks
    BY <1>2 DEF RootOf
  <2> QED
    BY <1>2, <1>3, <1>4, <2>1 DEF Whole
<1>6. Snapshot(root, view) = acked
  <2>1. [p \in {} |-> view[p]] = [p \in {} |-> [q \in Pages |-> {Absent}][p]]
    OBVIOUS
  <2>2. /\ root.gen = EmptyRoot(0).gen /\ root.rev = EmptyRoot(0).rev
        /\ root.root = EmptyRoot(0).root /\ EmptyRoot(0).bitmap = {}
    BY <1>4 DEF EmptyRoot
  <2> QED
    BY <1>4, <2>1, <2>2 DEF Fresh, Snapshot
<1>7. PageCount(view) >= FirstData
  BY PageCounts, LayoutType DEF RecoverDeviceMetadata
<1>8. \A p \in MetadataPages : view[p] # {Absent}
  <2>1. \A p \in DataPages : view[p] = {Absent}
    BY DEF Fresh
  <2> QED
    BY <1>7, <2>1, PageCounts, LayoutType
<1> QED
  BY <1>4, <1>5, <1>6, <1>8

\* Such a device, if it holds no root, is initialized.
LEMMA FreshBootstraps ==
    ASSUME TypeOK, Fresh
    PROVE  IsRecoverableEmptyBootstrap(view)
<1> DEFINE present == {p \in Pages : view[p] # {Absent}}
<1>1. PageCount(view) \in Nat /\ PageCount(view) <= FirstData /\ FirstData \in Nat
  BY PageCounts, LayoutType DEF Fresh
<1>2. SUFFICES ASSUME NEW p \in 0 .. (PageCount(view) - 1), view[p] = {Absent}
               PROVE  FALSE
  <2>1. \A p \in 0 .. (PageCount(view) - 1) : p \in MetadataPages
    BY <1>1 DEF MetadataPages
  <2>2. ASSUME NEW p \in 0 .. (PageCount(view) - 1), view[p] # {Absent}
        PROVE  view[p] \subseteq {Zero, EmptyLayout(p)}
    BY <2>1, <2>2 DEF Fresh
  <2> QED
    BY <1>1, <1>2, <2>2 DEF IsRecoverableEmptyBootstrap
<1>3. p \in Nat /\ p < PageCount(view) /\ p \in MetadataPages
  BY <1>1, <1>2 DEF MetadataPages
<1>4. present \in SUBSET (0 .. (p - 1))
  <2>1. ASSUME NEW q \in present
        PROVE  q \in 0 .. (p - 1)
    <3>1. q \in MetadataPages /\ q \in Nat
      BY <2>1, LayoutType DEF Fresh
    <3>2. ~ (p < q)
      BY <1>2, <1>3, <2>1, <3>1 DEF Fresh
    <3>3. q # p
      BY <1>2, <2>1
    <3> QED
      BY <1>3, <3>1, <3>2, <3>3
  <2> QED
    BY <2>1
<1>5. PageCount(view) = Cardinality(present)
  BY DEF PageCount
<1> HIDE DEF present
<1>6. IsFiniteSet(0 .. (p - 1)) /\ Cardinality(0 .. (p - 1)) = p
  <2>1. 0 \in Int /\ p - 1 \in Int
    BY <1>3
  <2>2. /\ IsFiniteSet(0 .. (p - 1))
        /\ Cardinality(0 .. (p - 1)) = IF 0 > p - 1 THEN 0 ELSE (p - 1) - 0 + 1
    BY <2>1, FS_Interval, Zenon
  <2> QED
    BY <1>3, <2>2
<1>7. Cardinality(present) <= p
  BY <1>4, <1>6, FS_Subset
<1> QED
  BY <1>1, <1>3, <1>5, <1>7

\* The next open succeeds.
LEMMA OpensNext ==
    ASSUME RInv
    PROVE  AlwaysOpens
<1> SUFFICES ASSUME stage = "closed"
             PROVE  OpenEmpty \/ \E root \in RecoverDeviceMetadata(view) : Covered(view, root)
  BY DEF AlwaysOpens
<1>1. TypeOK /\ (Fresh \/ \E root \in Roots : Anchored(root))
  BY DEF RInv, IInv, FoundInv
<1>2. CASE Fresh
  <2>1. \A root \in RecoverDeviceMetadata(view) : Covered(view, root)
    BY <1>1, <1>2, FreshRecovery DEF Covered
  <2> QED
    BY <1>1, <1>2, <2>1, FreshBootstraps DEF OpenEmpty
<1>3. ASSUME NEW root \in Roots, Anchored(root)
      PROVE  \E found \in RecoverDeviceMetadata(view) : Covered(view, found)
  <2>1. ASSUME NEW found, Sound(found), Whole(view, found)
        PROVE  Covered(view, found)
    <3>1. \A p \in found.bitmap : view[p] \in SUBSET PageValues
      BY <1>1, <2>1, LayoutType DEF Sound, Roots, TypeOK
    <3> QED
      BY <2>1, <3>1, HeldData DEF Covered, Whole
  <2>2. Covered(view, root)
    BY <1>3, <2>1 DEF Anchored
  <2> DEFINE other == RootAt(view, Inactive(root.slot))
  <2>3. CASE RecoverDeviceMetadata(view) = {root}
    BY <2>2, <2>3
  <2>4. CASE RecoverDeviceMetadata(view) # {root}
    <3>1. /\ RecoverDeviceMetadata(view) = {other} /\ Outcome(other, root)
          /\ \/ LogicallyMatches(root, other)
             \/ /\ other.gen = root.gen + 1 /\ CommitIsDurable(view, other, root)
                /\ AttemptOf(other) \in attempts
      BY <1>1, <1>3, <2>4, RecoveryFinds
    <3> HIDE DEF other
    <3>2. Sound(other) /\ Whole(view, other)
      BY <1>1, <1>3, <3>1, OtherIsWhole DEF Outcome
    <3> QED
      BY <2>1, <3>1, <3>2
  <2> QED
    BY <2>3, <2>4
<1> QED
  BY <1>1, <1>2, <1>3

-----------------------------------------------------------------------------
(* What a step does to an anchored root. *)

\* What a page may hold after a write is what it may have held, or what was written.
LEMMA MayAfterWrite ==
    ASSUME DeviceOK, NEW writes, DeviceWrite(writes) \/ DeviceWriteFails(writes),
           endings' = endings, NEW p \in Pages
    PROVE  /\ May(p)' \subseteq May(p) \cup (IF p \in DOMAIN writes THEN {writes[p]} ELSE {})
           /\ Exposed' = Exposed /\ durable' = durable
           /\ view'[p] \subseteq view[p] \cup (IF p \in DOMAIN writes THEN {writes[p]} ELSE {})
<1>1. Exposed' = Exposed
  BY DEF Exposed
<1>2. durable' = durable
  BY DEF DeviceWrite, DeviceWriteFails, Risks
<1> DEFINE new == IF p \in DOMAIN writes THEN {writes[p]} ELSE {}
<1>3. risk'[p] \subseteq risk[p] \cup new
  BY DEF DeviceWrite, DeviceWriteFails, Risks
<1>4. view'[p] \subseteq view[p] \cup new
  <2>1. CASE DeviceWrite(writes)
    BY <2>1 DEF DeviceWrite
  <2>2. CASE DeviceWriteFails(writes)
    <3>1. PICK outcome :
            view' = [q \in Pages |->
                      IF q \notin DOMAIN writes \/ outcome[q] = "old" THEN view[q]
                      ELSE IF outcome[q] = "new" THEN {writes[q]}
                      ELSE view[q] \cup {writes[q]}]
      BY <2>2 DEF DeviceWriteFails
    <3> QED
      BY <3>1
  <2> QED
    BY <2>1, <2>2
<1>5. May(p)' = view'[p] \cup (IF Exposed' THEN durable'[p] \cup risk'[p] ELSE {})
  BY DEF May
<1>6. May(p) = view[p] \cup (IF Exposed THEN durable[p] \cup risk[p] ELSE {})
  BY DEF May
<1> HIDE DEF new
<1>7. May(p)' \subseteq May(p) \cup new
  BY <1>1, <1>2, <1>3, <1>4, <1>5, <1>6, Zenon
<1> QED
  BY <1>1, <1>2, <1>4, <1>7 DEF new

\* A flush, or a step that leaves the device alone, adds nothing.
LEMMA MayAfterFlush ==
    ASSUME DeviceOK, DeviceFlush \/ UNCHANGED device, endings' = endings, NEW p \in Pages
    PROVE  May(p)' \subseteq May(p) /\ Exposed' = Exposed /\ view' = view
  BY DEF DeviceFlush, device, May, Exposed

\* The pages that a root reads, by where they are.
LEMMA RootPages ==
    ASSUME NEW root, root \in Roots
    PROVE  /\ SuperblockPage(root.slot) \in Reachable(root)
           /\ root.bitmap \subseteq Reachable(root)
           /\ \A c \in Chunks : ChunkPage(c, root.chunks[c].slot) \in Reachable(root)
           /\ Reachable(root) \subseteq Pages
           /\ SuperblockPage(Inactive(root.slot)) \in Pages
           /\ SuperblockPage(Inactive(root.slot)) \in MetadataPages
<1>1. root.slot \in Slots
  BY DEF Roots
<1> QED
  BY <1>1, OtherSlot, ReachablePages DEF Reachable

\* A superblock that an interrupted commit wrote beside `root`.
Attempted(sb, root) ==
    /\ Sound(RootOf(sb)) /\ sb = SuperblockValue(RootOf(sb))
    /\ sb.slot = Inactive(root.slot)
    /\ sb.gen = root.gen + 1 /\ AttemptOf(RootOf(sb)) \in attempts

\* A root stays anchored while its pages are left alone and the other slot gets nothing
\* but what a commit begun beside it writes there.
LEMMA AnchorKept ==
    ASSUME NEW root, Anchored(root), acked' = acked, attempts \subseteq attempts',
           Exposed' => Exposed,
           \A p \in Reachable(root) : view'[p] = view[p],
           Exposed' => \A p \in Reachable(root) : durable'[p] = view'[p] /\ risk'[p] = {},
           \A p \in MetadataPages : Absent \notin May(p)',
           \A v \in May(SuperblockPage(Inactive(root.slot)))' :
             v.kind = "super" =>
               v \in May(SuperblockPage(Inactive(root.slot))) \/ Attempted(v, root)'
    PROVE  Anchored(root)'
<1>1. Sound(root) /\ root \in Roots
  BY DEF Anchored, Sound
<1>2. /\ SuperblockPage(root.slot) \in Reachable(root)
      /\ root.bitmap \subseteq Reachable(root)
      /\ \A c \in Chunks : ChunkPage(c, root.chunks[c].slot) \in Reachable(root)
  BY <1>1, RootPages
<1>3. Whole(view', root)
  BY <1>2 DEF Anchored, Whole
<1>4. acked' = Snapshot(root, view')
  <2>1. [p \in root.bitmap |-> view'[p]] = [p \in root.bitmap |-> view[p]]
    BY <1>2
  <2> QED
    BY <2>1 DEF Anchored, Snapshot
<1>5. ASSUME NEW v \in May(SuperblockPage(Inactive(root.slot)))', v.kind = "super"
      PROVE  Rival(v, root)'
  <2>1. CASE Attempted(v, root)'
    BY <2>1 DEF Attempted, Rival
  <2>2. CASE Rival(v, root)
    <3>1. CommitIsDurable(view, root, RootOf(v)) => CommitIsDurable(view', root, RootOf(v))
      <4> DEFINE new == root.bitmap \ RootOf(v).bitmap
      <4>1. \A p \in new : view'[p] = view[p]
        BY <1>2
      <4>2. [p \in new |-> Value(view'[p]).val] = [p \in new |-> Value(view[p]).val]
        BY <4>1
      <4> QED
        BY <4>1, <4>2 DEF CommitIsDurable
    <3>2. AttemptOf(RootOf(v)) \in attempts => AttemptOf(RootOf(v))' \in attempts'
      BY DEF AttemptOf
    <3> QED
      BY <2>2, <3>1, <3>2 DEF Rival
  <2>3. v \in May(SuperblockPage(Inactive(root.slot))) => Rival(v, root)
    BY <1>5 DEF Anchored
  <2> QED
    BY <1>5, <2>1, <2>2, <2>3
<1> QED
  BY <1>1, <1>3, <1>4, <1>5 DEF Anchored

\* A call of the pager keeps the active root anchored, if what it writes into the other
\* slot is what a commit has begun with.
LEMMA LiveKept ==
    ASSUME RInv, Next, NEW root, root = active, stage \in Live, stage' \in Live,
           acked' = acked, attempts \subseteq attempts', endings' = endings,
           NEW writes,
           DeviceWrite(writes) \/ DeviceWriteFails(writes) \/ DeviceFlush \/ UNCHANGED device,
           \A p \in DOMAIN writes : writes[p] # Absent,
           \A p \in DOMAIN writes :
             p = SuperblockPage(Inactive(root.slot)) /\ writes[p].kind = "super" =>
               Attempted(writes[p], root)'
    PROVE  Anchored(root)'
<1>1. Anchored(root) /\ IInv /\ DeviceOK /\ root \in Roots
  BY TypeOKDevice DEF RInv, FoundInv, IInv, TypeOK
<1> DEFINE other == SuperblockPage(Inactive(root.slot))
<1>2. Reachable(root) \subseteq Pages /\ other \in Pages /\ MetadataPages \subseteq Pages
  BY <1>1, RootPages, LayoutType
<1>3. \A p \in Reachable(root) : view'[p] = view[p] /\ risk'[p] \subseteq risk[p]
  BY <1>1, ActiveStep DEF LeavesActiveAlone
<1>4. durable' = durable \/ durable' = view
  BY DEF DeviceWrite, DeviceWriteFails, Risks, DeviceFlush, device
<1>5. Exposed' = Exposed
  BY DEF Exposed
<1>6. \A p \in Pages :
        May(p)' \subseteq May(p) \cup (IF p \in DOMAIN writes THEN {writes[p]} ELSE {})
  <2>1. CASE DeviceWrite(writes) \/ DeviceWriteFails(writes)
    BY <1>1, <2>1, MayAfterWrite
  <2>2. CASE DeviceFlush \/ UNCHANGED device
    BY <1>1, <2>2, MayAfterFlush
  <2> QED
    BY <2>1, <2>2
<1>7. Exposed' => \A p \in Reachable(root) : durable'[p] = view'[p] /\ risk'[p] = {}
  BY <1>1, <1>3, <1>4, <1>5 DEF Anchored
<1>8. \A p \in MetadataPages : Absent \notin May(p)'
  BY <1>1, <1>2, <1>6 DEF Anchored
<1>9. \A v \in May(other)' : v.kind = "super" => v \in May(other) \/ Attempted(v, root)'
  BY <1>2, <1>6
<1> QED
  BY <1>1, <1>3, <1>5, <1>7, <1>8, <1>9, AnchorKept

-----------------------------------------------------------------------------
(* The invariant is kept by the calls of a session. *)

\* The calls that leave the device alone keep the invariant.
LEMMA CandidateStepsRInv ==
    ASSUME RInv, Next,
           \/ BeginWrite \/ Abort
           \/ \E p \in DataPages : \/ AllocatePage(p) \/ FreeSharedPage(p) \/ ReleaseNewPage(p)
                                   \/ \E v \in Vals : WriteNewPage(p, v)
           \/ \E rev \in Revisions, root \in CatalogRoots : CommitRefused(rev, root)
    PROVE  FoundInv' /\ BootInv' /\ WrittenInv'
<1> DEFINE root == active
<1>1. cand \in Candidates
  BY DEF RInv, IInv, TypeOK
<1>2. /\ UNCHANGED device /\ active' = root /\ acked' = acked /\ attempts' = attempts
      /\ endings' = endings /\ stage \in {"idle", "write"} /\ stage' \in {"idle", "write"}
  BY DEF BeginWrite, Abort, AllocatePage, FreeSharedPage, ReleaseNewPage, WriteNewPage,
     CommitRefused, CandidateDropped, InWrite, history
<1>3. Anchored(root)'
  <2>1. stage \in Live /\ stage' \in Live
    BY <1>2 DEF Live
  <2>2. PICK r : r = active
    OBVIOUS
  <2>3. Anchored(r)'
    <3>1. \A p \in DOMAIN NoPages : FALSE
      BY DEF NoPages
    <3> HIDE DEF root
    <3> QED
      BY <1>2, <2>1, <2>2, <3>1, LiveKept
  <2> QED
    BY <1>2, <2>2, <2>3
<1>4. FoundInv'
  BY <1>2, <1>3 DEF FoundInv, Booting, Live
<1>5. BootInv'
  BY <1>2 DEF BootInv, Booting
<1>6. WrittenInv'
  <2>1. SUFFICES ASSUME stage' = "write", NEW q \in DOMAIN cand'.vals \ cand'.dirty
                 PROVE  view'[q] = {DataPage(cand'.vals[q])}
    BY <1>2 DEF WrittenInv
  <2>2. view' = view
    BY <1>2 DEF device
  <2>3. stage = "write" =>
          \A p \in DOMAIN cand.vals \ cand.dirty : view[p] = {DataPage(cand.vals[p])}
    BY DEF RInv, WrittenInv
  <2>4. CASE BeginWrite
    BY <2>1, <2>4 DEF BeginWrite, NoCandidate, NoPages
  <2>5. CASE \/ Abort \/ \E rev \in Revisions, r \in CatalogRoots : CommitRefused(rev, r)
    BY <2>1, <2>5 DEF Abort, CommitRefused, CandidateDropped
  <2>6. ASSUME NEW p \in DataPages, AllocatePage(p) \/ FreeSharedPage(p)
        PROVE  view'[q] = {DataPage(cand'.vals[q])}
    BY <1>1, <2>1, <2>2, <2>3, <2>6 DEF AllocatePage, FreeSharedPage, InWrite, Candidates
  <2>7. ASSUME NEW p \in DataPages, ReleaseNewPage(p)
        PROVE  view'[q] = {DataPage(cand'.vals[q])}
    <3>1. /\ cand'.vals = [x \in DOMAIN cand.vals \ {p} |-> cand.vals[x]]
          /\ cand'.dirty = cand.dirty \ {p} /\ stage = "write"
      BY <1>1, <2>7 DEF ReleaseNewPage, InWrite, Candidates
    <3> QED
      BY <2>1, <2>2, <2>3, <3>1
  <2>8. ASSUME NEW p \in DataPages, NEW v \in Vals, WriteNewPage(p, v)
        PROVE  view'[q] = {DataPage(cand'.vals[q])}
    <3>1. /\ cand'.vals = [x \in DOMAIN cand.vals \cup {p} |->
                             IF x = p THEN v ELSE cand.vals[x]]
          /\ cand'.dirty = cand.dirty \cup {p} /\ stage = "write"
      BY <1>1, <2>8 DEF WriteNewPage, InWrite, Candidates
    <3> QED
      BY <2>1, <2>2, <2>3, <3>1
  <2> QED
    BY <2>4, <2>5, <2>6, <2>7, <2>8
<1> QED
  BY <1>4, <1>5, <1>6

\* What a candidate writes: its pages, and zeros where the file ends before them.
LEMMA CandidateWritesHold ==
    ASSUME NEW S
    PROVE  /\ S \subseteq DOMAIN CandidateWrites(S)
           /\ \A p \in S : CandidateWrites(S)[p] = DataPage(cand.vals[p])
           /\ \A p \in DOMAIN CandidateWrites(S) \ S :
                view[p] = {Absent} /\ CandidateWrites(S)[p] = Zero
           /\ \A p \in DOMAIN CandidateWrites(S) :
                CandidateWrites(S)[p].kind \in {"data", "zero"} /\ CandidateWrites(S)[p] # Absent
<1>1. /\ DOMAIN CandidateWrites(S) = S \cup {q \in Pages : view[q] = {Absent} /\ \E r \in S : q < r}
      /\ \A p \in DOMAIN CandidateWrites(S) :
           CandidateWrites(S)[p] = IF p \in S THEN DataPage(cand.vals[p]) ELSE Zero
  BY DEF CandidateWrites
<1>2. \A p : DataPage(cand.vals[p]).kind = "data" /\ DataPage(cand.vals[p]) # Absent
  BY DEF DataPage, Absent
<1>3. Zero.kind = "zero" /\ Zero # Absent
  BY DEF Zero, Absent
<1> QED
  BY <1>1, <1>2, <1>3, Zenon

\* An eviction keeps the invariant.
LEMMA EvictPageRInv ==
    ASSUME RInv, Next, NEW p \in DataPages, EvictPage(p)
    PROVE  FoundInv' /\ BootInv' /\ WrittenInv'
<1> DEFINE writes == CandidateWrites({p})
<1>1. /\ cand \in Candidates /\ DeviceOK /\ p \in Pages
      /\ cand.dirty \subseteq DOMAIN cand.vals /\ DOMAIN cand.vals \subseteq Pages
  BY TypeOKDevice, LayoutType
     DEF RInv, IInv, TypeOK, CandidateOK, NewPages, EvictPage, InWrite, Candidates
<1>2. /\ active' = active /\ acked' = acked /\ attempts' = attempts /\ endings' = endings
      /\ stage = "write" /\ stage' = "write" /\ p \in cand.dirty
      /\ DeviceWrite(writes) \/ DeviceWriteFails(writes)
  BY DEF EvictPage, InWrite, history
<1>3. \A q \in DOMAIN writes : writes[q] # Absent /\ writes[q].kind # "super"
  BY CandidateWritesHold
<1>4. Anchored(active)'
  <2>1. stage \in Live /\ stage' \in Live
    BY <1>2 DEF Live
  <2>2. PICK r : r = active
    OBVIOUS
  <2>3. Anchored(r)'
    <3> HIDE DEF writes
    <3> QED
      BY <1>2, <1>3, <2>1, <2>2, LiveKept
  <2> QED
    BY <1>2, <2>2, <2>3
<1>5. FoundInv' /\ BootInv'
  BY <1>2, <1>4 DEF FoundInv, BootInv, Booting, Live
<1>6. WrittenInv'
  <2>1. SUFFICES ASSUME NEW q \in DOMAIN cand'.vals \ cand'.dirty
                 PROVE  view'[q] = {DataPage(cand'.vals[q])}
    BY <1>2 DEF WrittenInv
  <2>2. cand'.vals = cand.vals /\ cand.dirty \ {p} \subseteq cand'.dirty
        /\ (~ DeviceWrite(writes) => p \in cand'.dirty)
    BY <1>1, <1>2 DEF EvictPage, Candidates
  <2>3. CASE q = p
    <3>1. DeviceWrite(writes) /\ q \in DOMAIN writes /\ writes[q] = DataPage(cand.vals[q])
      BY <2>1, <2>2, <2>3, CandidateWritesHold
    <3>2. view'[q] = {writes[q]}
      BY <1>1, <2>3, <3>1 DEF DeviceWrite
    <3> QED
      BY <2>2, <3>1, <3>2
  <2>4. CASE q # p
    <3>1. q \in DOMAIN cand.vals \ cand.dirty /\ q \in Pages
      BY <1>1, <2>1, <2>2, <2>4
    <3>2. view[q] = {DataPage(cand.vals[q])}
      BY <1>2, <3>1 DEF RInv, WrittenInv
    <3>3. q \notin DOMAIN writes
      <4>1. DataPage(cand.vals[q]) # Absent
        BY DEF DataPage, Absent
      <4>2. view[q] # {Absent}
        BY <3>2, <4>1
      <4> QED
        BY <2>4, <4>2, CandidateWritesHold
    <3> HIDE DEF writes
    <3>4. view'[q] = view[q]
      BY <1>1, <1>2, <3>1, <3>3, WriteElsewhere
    <3> QED
      BY <2>2, <3>2, <3>4
  <2> QED
    BY <2>3, <2>4
<1> QED
  BY <1>5, <1>6

\* What a commit writes of its bitmap.
LEMMA ChunkWritesHold ==
    ASSUME TypeOK, NEW rev \in Nat, NEW root \in Nat, NewPages \subseteq DOMAIN cand.vals,
           NEW c \in ChangedChunks
    PROVE  LET next == NextMetadata(rev, root)
               page == ChunkPage(c, next.chunks[c].slot)
           IN  /\ page \in DOMAIN ChunkWrites(next) /\ page \in MetadataPages
               /\ ChunkWrites(next)[page] = next.chunks[c].page
<1> DEFINE next == NextMetadata(rev, root)
           target(d) == ChunkPage(d, next.chunks[d].slot)
           page == target(c)
<1>1. next \in Roots
  BY NextMetadataType
<1>2. ChangedChunks \subseteq Chunks /\ \A d \in Chunks : next.chunks[d].slot \in Slots
  BY <1>1, ReachablePages DEF ChangedChunks
<1>3. page \in MetadataPages
  BY <1>2, ChunkPageInjective
<1>4. \A d \in ChangedChunks : target(d) = page => d = c
  BY <1>2, ChunkPageInjective
<1> HIDE DEF next
<1>5. ChunkWrites(next) = [p \in {target(d) : d \in ChangedChunks} |->
                             next.chunks[CHOOSE d \in ChangedChunks : target(d) = p].page]
  BY DEF ChunkWrites
<1>6. (CHOOSE d \in ChangedChunks : target(d) = page) = c
  BY <1>4
<1>7. page \in {target(d) : d \in ChangedChunks}
  OBVIOUS
<1>8. page \in DOMAIN ChunkWrites(next) /\ ChunkWrites(next)[page] = next.chunks[c].page
  BY <1>5, <1>6, <1>7
<1> QED
  BY <1>3, <1>8 DEF next

\* The root that a commit builds is sound.
LEMMA NextSound ==
    ASSUME TypeOK, Sound(active), NEW rev \in Nat, NEW root \in Nat, Publishable(rev, root)
    PROVE  LET next == NextMetadata(rev, root)
           IN  /\ Sound(next) /\ next.gen = active.gen + 1 /\ next.rev >= active.rev
               /\ next.commit = [p \in NewPages |-> cand.vals[p]]
               /\ next.bitmap = cand.bitmap
               /\ \A c \in Chunks \ ChangedChunks : next.chunks[c] = active.chunks[c]
<1> DEFINE next == NextMetadata(rev, root)
<1>1. next \in Roots
  BY NextMetadataType DEF Publishable
<1>2. /\ next.gen = active.gen + 1 /\ next.rev = rev /\ next.root = root
      /\ next.bitmap = cand.bitmap /\ next.commit = [p \in NewPages |-> cand.vals[p]]
  BY DEF NextMetadata
<1>3. \A c \in Chunks \ ChangedChunks : next.chunks[c] = active.chunks[c]
  BY DEF NextMetadata
<1>4. \A c \in ChangedChunks : c \in Chunks =>
        next.chunks[c].page =
          ChunkValue(c, Inactive(active.chunks[c].slot), active.gen + 1, cand.bitmap)
  BY DEF NextMetadata
<1> HIDE DEF next
<1>5. ASSUME NEW c \in Chunks
      PROVE  next.chunks[c].page.bits = next.bitmap \cap ChunkRange(c)
  <2>1. CASE c \in ChangedChunks
    <3>1. next.chunks[c].page =
            ChunkValue(c, Inactive(active.chunks[c].slot), active.gen + 1, cand.bitmap)
      BY <1>4, <2>1
    <3>2. ChunkValue(c, Inactive(active.chunks[c].slot), active.gen + 1, cand.bitmap).bits
            = cand.bitmap \cap ChunkRange(c)
      BY DEF ChunkValue
    <3> QED
      BY <1>2, <3>1, <3>2
  <2>2. CASE c \notin ChangedChunks
    <3>1. active.chunks[c].page.bits = active.bitmap \cap ChunkRange(c)
      BY DEF Sound
    <3>2. cand.bitmap \cap ChunkRange(c) = active.bitmap \cap ChunkRange(c)
      BY <2>2 DEF ChangedChunks
    <3> QED
      BY <1>2, <1>3, <2>2, <3>1, <3>2
  <2> QED
    BY <2>1, <2>2
<1>6. next.root = NoRoot \/ next.root \in next.bitmap
  BY <1>2 DEF Publishable
<1>7. Sound(next)
  BY <1>1, <1>5, <1>6 DEF Sound
<1>8. next.rev >= active.rev
  BY <1>2 DEF Publishable
<1> QED
  BY <1>2, <1>3, <1>7, <1>8 DEF next

\* The first step of a commit keeps the invariant.
LEMMA CommitPagesRInv ==
    ASSUME RInv, Next, NEW rev \in Revisions, NEW root \in CatalogRoots,
           CommitPages(rev, root)
    PROVE  FoundInv' /\ BootInv' /\ WrittenInv'
<1> DEFINE next == NextMetadata(rev, root)
           f == CandidateWrites(cand.dirty)
           g == ChunkWrites(next)
           writes == Merge(f, g)
<1>1. /\ TypeOK /\ CandidateOK /\ stage = "write" /\ DeviceOK
      /\ Publishable(rev, root) /\ NewPages \subseteq DOMAIN cand.vals
      /\ rev \in Nat /\ root \in Nat /\ cand \in Candidates
      /\ cand.dirty \subseteq DOMAIN cand.vals /\ DOMAIN cand.vals \subseteq NewPages
      /\ NewPages \subseteq DataPages /\ DataPages \subseteq Pages
  BY TypeOKDevice, PagerAssumption, LayoutType
     DEF CommitPages, InWrite, Publishable, RInv, IInv, TypeOK, CandidateOK, NewPages,
         Candidates
<1>2. /\ \/ /\ DeviceWrite(writes) /\ pending' = next /\ stage' = "pages"
            /\ cand' = [cand EXCEPT !.dirty = {}]
         \/ DeviceWriteFails(writes) /\ stage' = "idle"
      /\ active' = active /\ acked' = acked /\ attempts' = attempts /\ endings' = endings
  BY DEF CommitPages, CandidateDropped, history
<1>3. \A q \in DOMAIN writes : writes[q] # Absent
  BY <1>1, CommitWritesType
<1>4. \A q \in DOMAIN writes : writes[q].kind # "super"
  <2>1. \A q \in DOMAIN f : f[q].kind # "super"
    BY CandidateWritesHold
  <2>2. \A q \in DOMAIN g : g[q] \in ChunkValues
    BY <1>1, ChunkWritesType
  <2>3. \A v \in ChunkValues : v.kind = "chunk"
    BY DEF ChunkValues
  <2>4. \A q \in DOMAIN g : g[q].kind # "super"
    BY <2>2, <2>3
  <2> HIDE DEF f, g
  <2>5. ASSUME NEW q \in DOMAIN writes
        PROVE  writes[q].kind # "super"
    <3>1. \/ q \in DOMAIN f /\ writes[q] = f[q]
          \/ q \in DOMAIN g /\ writes[q] = g[q]
      BY <2>5, MergeType
    <3> HIDE DEF writes
    <3> QED
      BY <2>1, <2>4, <3>1
  <2> QED
    BY <2>5
<1>5. Anchored(active)'
  <2>1. stage \in Live /\ stage' \in Live
    BY <1>1, <1>2 DEF Live
  <2>2. PICK r : r = active
    OBVIOUS
  <2>3. Anchored(r)'
    <3>1. DeviceWrite(writes) \/ DeviceWriteFails(writes)
      BY <1>2
    <3> HIDE DEF writes
    <3> QED
      BY <1>2, <1>3, <1>4, <2>1, <2>2, <3>1, LiveKept
  <2> QED
    BY <1>2, <2>2, <2>3
<1>6. FoundInv' /\ BootInv'
  BY <1>2, <1>5 DEF FoundInv, BootInv, Booting, Live
<1>7. CASE stage' = "idle"
  BY <1>6, <1>7 DEF WrittenInv
<1>8. CASE stage' # "idle"
  <2>1. /\ DeviceWrite(writes) /\ pending' = next /\ stage' = "pages"
        /\ cand' = [cand EXCEPT !.dirty = {}]
    BY <1>2, <1>8
  <2>2. Anchored(active)
    BY <1>1 DEF RInv, FoundInv, Live
  <2>3. /\ Sound(next) /\ next.gen = active.gen + 1 /\ next.rev >= active.rev
        /\ next.commit = [p \in NewPages |-> cand.vals[p]]
        /\ next.bitmap = cand.bitmap
        /\ \A c \in Chunks \ ChangedChunks : next.chunks[c] = active.chunks[c]
    BY <1>1, <2>2, NextSound DEF Anchored
  <2>4. NewPages' = NewPages /\ cand'.vals = cand.vals
    BY <1>1, <1>2, <2>1 DEF NewPages, Candidates
  <2>5. /\ DOMAIN writes = DOMAIN f \cup DOMAIN g
        /\ \A q \in DOMAIN writes : writes[q] = IF q \in DOMAIN f THEN f[q] ELSE g[q]
    BY DEF Merge
  <2>6. \A q \in Pages : view'[q] = IF q \in DOMAIN writes THEN {writes[q]} ELSE view[q]
    BY <2>1 DEF DeviceWrite
  <2>7. DOMAIN g \subseteq MetadataPages
    <3>1. ASSUME NEW q \in DOMAIN g
          PROVE  q \in MetadataPages
      <4>1. PICK c \in ChangedChunks : q = ChunkPage(c, next.chunks[c].slot)
        BY <1>1, ChunkWritesType
      <4> QED
        BY <1>1, <4>1, ChunkWritesHold
    <3> QED
      BY <3>1
  <2>8. DOMAIN f \cap MetadataPages = {}
    <3>1. \A q \in DOMAIN f \ cand.dirty : view[q] = {Absent}
      BY CandidateWritesHold
    <3>2. \A q \in MetadataPages : view[q] # {Absent}
      BY <2>2 DEF Anchored, May
    <3> QED
      BY <1>1, <3>1, <3>2, LayoutType
  <2>9. ASSUME NEW p \in NewPages
        PROVE  view'[p] = {DataPage(cand.vals[p])}
    <3>1. CASE p \in cand.dirty
      <4>1. p \in DOMAIN f /\ f[p] = DataPage(cand.vals[p])
        BY <3>1, CandidateWritesHold
      <4> HIDE DEF f, g, writes
      <4> QED
        BY <1>1, <2>5, <2>6, <4>1
    <3>2. CASE p \notin cand.dirty
      <4>1. view[p] = {DataPage(cand.vals[p])}
        BY <1>1, <3>2 DEF RInv, WrittenInv
      <4>2. DataPage(cand.vals[p]) # Absent
        BY DEF DataPage, Absent
      <4>3. p \notin DOMAIN f
        BY <3>2, <4>1, <4>2, CandidateWritesHold
      <4>4. p \notin DOMAIN g
        BY <1>1, <2>7, LayoutType
      <4> HIDE DEF f, g, writes
      <4> QED
        BY <1>1, <2>5, <2>6, <4>1, <4>3, <4>4
    <3> QED
      BY <3>1, <3>2
  <2>10. ASSUME NEW c \in Chunks
         PROVE  view'[ChunkPage(c, next.chunks[c].slot)] = {next.chunks[c].page}
    <3> DEFINE page == ChunkPage(c, next.chunks[c].slot)
    <3>1. CASE c \in ChangedChunks
      <4>1. page \in DOMAIN g /\ page \in MetadataPages /\ g[page] = next.chunks[c].page
        BY <1>1, <3>1, ChunkWritesHold
      <4>2. page \in Pages /\ page \notin DOMAIN f
        BY <2>8, <4>1, LayoutType
      <4> HIDE DEF f, g, writes, next
      <4> QED
        BY <2>5, <2>6, <4>1, <4>2
    <3>2. CASE c \notin ChangedChunks
      <4>1. next.chunks[c] = active.chunks[c]
        BY <2>3, <3>2
      <4>2. page \in Reachable(active) /\ view[page] = {active.chunks[c].page}
        BY <2>2, <4>1, RootPages DEF Anchored, Whole, Sound
      <4>3. view'[page] = view[page]
        BY <1>1, <2>1, <4>2, ActiveStep DEF LeavesActiveAlone, Live, RInv
      <4> QED
        BY <4>1, <4>2, <4>3
    <3> QED
      BY <3>1, <3>2
  <2> HIDE DEF next
  <2>11. WrittenInv'
    BY <1>2, <2>1, <2>3, <2>4, <2>9, <2>10 DEF WrittenInv
  <2> QED
    BY <1>6, <2>11
<1> QED
  BY <1>7, <1>8

\* The snapshot that a commit promises is the attempt its root stands for.
LEMMA PromisedAttempt ==
    ASSUME RInv, stage \in {"pages", "super"}
    PROVE  /\ CandidateSnapshot(pending) = AttemptOf(pending)
           /\ Sound(pending) /\ RootOf(SuperblockValue(pending)) = pending
           /\ pending.slot = Inactive(active.slot) /\ pending.gen = active.gen + 1
<1>1. /\ Anchored(active) /\ Sound(pending) /\ pending.gen = active.gen + 1
      /\ pending.commit = [p \in NewPages |-> cand.vals[p]]
      /\ pending.slot = Inactive(active.slot) /\ pending.bitmap = cand.bitmap
  BY DEF RInv, FoundInv, WrittenInv, IInv, CandidateOK, Live
<1>2. DOMAIN acked.pages = active.bitmap
  BY <1>1 DEF Anchored, Snapshot
<1>3. ASSUME NEW p \in cand.bitmap
      PROVE  (IF IsNew(p) THEN {DataPage(cand.vals[p])} ELSE acked.pages[p]) =
             (IF p \in DOMAIN acked.pages THEN acked.pages[p] ELSE {DataPage(pending.commit[p])})
  BY <1>1, <1>2 DEF IsNew, NewPages
<1>4. [p \in cand.bitmap |->
         IF IsNew(p) THEN {DataPage(cand.vals[p])} ELSE acked.pages[p]] =
      [p \in pending.bitmap |->
         IF p \in DOMAIN acked.pages THEN acked.pages[p] ELSE {DataPage(pending.commit[p])}]
  BY <1>1, <1>3
<1>5. CandidateSnapshot(pending) = AttemptOf(pending)
  BY <1>4 DEF CandidateSnapshot, AttemptOf
<1> QED
  BY <1>1, <1>5, RootDecodes

\* The write of the superblock keeps the invariant.
LEMMA CommitSuperblockRInv ==
    ASSUME RInv, Next, CommitSuperblock
    PROVE  FoundInv' /\ BootInv' /\ WrittenInv'
<1> DEFINE sb == SuperblockValue(pending)
           writes == [p \in {SuperblockPage(pending.slot)} |-> sb]
<1>1. /\ stage = "pages" /\ active' = active /\ acked' = acked /\ endings' = endings
      /\ attempts' = attempts \cup {CandidateSnapshot(pending)}
      /\ \/ /\ DeviceWrite(writes) /\ stage' = "super"
            /\ UNCHANGED <<cand, active, pending, recovery_required>>
         \/ DeviceWriteFails(writes) /\ stage' = "idle"
  BY DEF CommitSuperblock, Poisoned, CandidateDropped
<1>2. /\ CandidateSnapshot(pending) = AttemptOf(pending)
      /\ Sound(pending) /\ RootOf(sb) = pending
      /\ pending.slot = Inactive(active.slot) /\ pending.gen = active.gen + 1
      /\ DeviceOK /\ sb # Absent
  <2>1. pending \in Roots /\ DeviceOK
    BY TypeOKDevice DEF RInv, IInv, TypeOK
  <2> QED
    BY <1>1, <2>1, PromisedAttempt, SuperblockValueType, ChunkNotAbsent
<1>3. Anchored(active)'
  <2>1. stage \in Live /\ stage' \in Live
    BY <1>1 DEF Live
  <2>2. PICK r : r = active
    OBVIOUS
  <2>3. PICK s, q : s = sb /\ q = pending
    OBVIOUS
  <2>4. Attempted(s, r)'
    <3>1. s.slot = q.slot /\ s.gen = q.gen
      BY <2>3 DEF SuperblockValue
    <3>2. AttemptOf(q)' = AttemptOf(q)
      BY <1>1 DEF AttemptOf
    <3>3. AttemptOf(q) = CandidateSnapshot(pending)
      BY <1>2, <2>3
    <3>4. Sound(q) /\ RootOf(s) = q /\ s = SuperblockValue(q)
      BY <1>2, <2>3
    <3> QED
      BY <1>1, <1>2, <2>2, <2>3, <3>1, <3>2, <3>3, <3>4 DEF Attempted
  <2>5. Anchored(r)'
    <3>1. PICK w : w = [p \in {SuperblockPage(q.slot)} |-> s]
      OBVIOUS
    <3>2. /\ \A p \in DOMAIN w : w[p] # Absent
          /\ \A p \in DOMAIN w : w[p] = s
      BY <1>2, <2>3, <3>1
    <3>3. DeviceWrite(w) \/ DeviceWriteFails(w)
      BY <1>1, <2>3, <3>1
    <3> QED
      BY <1>1, <2>1, <2>2, <2>4, <3>2, <3>3, LiveKept
  <2> QED
    BY <1>1, <2>2, <2>5
<1>4. FoundInv' /\ BootInv'
  BY <1>1, <1>3 DEF FoundInv, BootInv, Booting, Live
<1>5. WrittenInv'
  <2>1. CASE stage' = "idle"
    BY <2>1 DEF WrittenInv
  <2>2. CASE DeviceWrite(writes) /\ UNCHANGED <<cand, active, pending, recovery_required>>
             /\ stage' = "super"
    <3> DEFINE page == SuperblockPage(pending.slot)
    <3>1. page \in Slots /\ page \in Pages /\ page \in MetadataPages
      BY <1>2, ReachablePages, SlotsAreMetadata, LayoutType DEF Sound
    <3>2. view'[page] = {sb} /\ \A p \in Pages \ {page} : view'[p] = view[p]
      BY <2>2, <3>1 DEF DeviceWrite
    <3>3. NewPages \subseteq Pages \ {page}
      BY <3>1, LayoutType DEF RInv, IInv, TypeOK, NewPages, Candidates
    <3>4. \A c \in Chunks : ChunkPage(c, pending.chunks[c].slot) \in Pages \ {page}
      <4>1. pending \in Roots
        BY <1>2 DEF Sound
      <4> QED
        BY <3>1, <4>1, ReachablePages, ChunkPageInjective, LayoutType
    <3>5. /\ pending.rev >= active.rev
          /\ pending.commit = [p \in NewPages |-> cand.vals[p]]
          /\ \A p \in NewPages : view[p] = {DataPage(cand.vals[p])}
          /\ \A c \in Chunks :
               view[ChunkPage(c, pending.chunks[c].slot)] = {pending.chunks[c].page}
      BY <1>1 DEF RInv, WrittenInv
    <3>6. NewPages' = NewPages /\ CandidateSnapshot(pending)' = CandidateSnapshot(pending)
      BY <1>1, <2>2 DEF NewPages, CandidateSnapshot, IsNew
    <3>7. /\ \A p \in NewPages : view'[p] = {DataPage(cand.vals[p])}
          /\ \A c \in Chunks :
               view'[ChunkPage(c, pending.chunks[c].slot)] = {pending.chunks[c].page}
      BY <3>2, <3>3, <3>4, <3>5
    <3> QED
      BY <1>1, <1>2, <2>2, <3>2, <3>5, <3>6, <3>7 DEF WrittenInv
  <2> QED
    BY <1>1, <2>1, <2>2
<1> QED
  BY <1>4, <1>5

\* A page written with a value holds it.
LEMMA DataHolds ==
    ASSUME NEW v
    PROVE  HoldsData({DataPage(v)}) /\ Value({DataPage(v)}).val = v
<1>1. IsIntact({DataPage(v)})
  BY DEF IsIntact
<1>2. Value({DataPage(v)}) = DataPage(v)
  BY <1>1, ValueOfImage
<1> QED
  BY <1>1, <1>2 DEF HoldsData, DataPage

\* Once its superblock is written, all of a commit's root is on the device, and recovery
\* will prefer it to the root before.
LEMMA PendingIsWhole ==
    ASSUME RInv, stage = "super"
    PROVE  /\ Whole(view, pending) /\ Snapshot(pending, view) = CandidateSnapshot(pending)
           /\ CommitIsDurable(view, pending, active)
<1>1. /\ Anchored(active) /\ pending.bitmap = cand.bitmap
      /\ pending.commit = [p \in NewPages |-> cand.vals[p]]
      /\ \A p \in NewPages : view[p] = {DataPage(cand.vals[p])}
      /\ \A c \in Chunks :
           view[ChunkPage(c, pending.chunks[c].slot)] = {pending.chunks[c].page}
      /\ view[SuperblockPage(pending.slot)] = {SuperblockValue(pending)}
  BY DEF RInv, FoundInv, WrittenInv, IInv, CandidateOK, Live
<1>2. /\ \A p \in active.bitmap : HoldsData(view[p])
      /\ \A p \in active.bitmap : acked.pages[p] = view[p]
  BY <1>1 DEF Anchored, Whole, Snapshot
<1>3. \A p \in NewPages : HoldsData(view[p]) /\ Value(view[p]).val = cand.vals[p]
  BY <1>1, DataHolds
<1>4. Whole(view, pending)
  BY <1>1, <1>2, <1>3 DEF Whole, NewPages
<1>5. [p \in pending.bitmap |-> view[p]] =
      [p \in cand.bitmap |-> IF IsNew(p) THEN {DataPage(cand.vals[p])} ELSE acked.pages[p]]
  BY <1>1, <1>2 DEF IsNew, NewPages
<1>6. Snapshot(pending, view) = CandidateSnapshot(pending)
  BY <1>5 DEF Snapshot, CandidateSnapshot
<1>7. [p \in NewPages |-> Value(view[p]).val] = pending.commit
  BY <1>1, <1>3
<1>8. pending.bitmap \ active.bitmap = NewPages
  BY <1>1 DEF NewPages
<1>9. CommitIsDurable(view, pending, active)
  BY <1>3, <1>7, <1>8 DEF CommitIsDurable
<1> QED
  BY <1>4, <1>6, <1>9

\* The flush that publishes a root keeps the invariant, and so does one that fails.
LEMMA CommitFlushRInv ==
    ASSUME RInv, Next, CommitFlush
    PROVE  FoundInv' /\ BootInv' /\ WrittenInv'
<1>1. stage = "super" /\ stage' = "idle" /\ endings' = endings /\ DeviceOK
  BY TypeOKDevice
     DEF CommitFlush, Opened, Poisoned, CandidateDropped, history, RInv, IInv, TypeOK
<1>2. BootInv' /\ WrittenInv'
  BY <1>1 DEF BootInv, WrittenInv, Booting
<1>3. Anchored(active)'
  <2>1. CASE DeviceFlushFails /\ Poisoned /\ UNCHANGED history
    <3>1. /\ UNCHANGED device /\ active' = active /\ acked' = acked /\ attempts' = attempts
          /\ stage \in Live /\ stage' \in Live
      BY <1>1, <2>1 DEF DeviceFlushFails, Poisoned, history, Live
    <3>2. PICK r : r = active
      OBVIOUS
    <3>3. \A p \in DOMAIN NoPages : FALSE
      BY DEF NoPages
    <3>4. Anchored(r)'
      BY <1>1, <3>1, <3>2, <3>3, LiveKept
    <3> QED
      BY <3>1, <3>2, <3>4
  <2>2. CASE /\ DeviceFlush /\ Opened(pending) /\ acked' = CandidateSnapshot(pending)
             /\ attempts' = {} /\ UNCHANGED <<begun, endings>>
    <3>1. PICK r, a : r = pending /\ a = active
      OBVIOUS
    <3>2. /\ Sound(r) /\ r.slot = Inactive(a.slot) /\ r.gen = a.gen + 1
      BY <1>1, <3>1, PromisedAttempt
    <3>3. Anchored(a) /\ Sound(a) /\ a.slot \in Slots /\ Inactive(r.slot) = a.slot
      BY <1>1, <3>1, <3>2, OtherSlot DEF RInv, FoundInv, Live, Anchored, Sound, Roots
    <3>4. /\ Whole(view, r) /\ acked' = Snapshot(r, view)
          /\ CommitIsDurable(view, r, a)
      BY <1>1, <2>2, <3>1, PendingIsWhole
    <3>5. view' = view /\ durable' = view /\ \A p \in Pages : risk'[p] = {}
      BY <2>2 DEF DeviceFlush
    <3>6. Reachable(r) \subseteq Pages
      BY <3>2, RootPages DEF Sound
    <3>7. \A p \in MetadataPages : Absent \notin May(p)'
      BY <1>1, <2>2, <3>3, MayAfterFlush, LayoutType DEF Anchored
    <3>8. ASSUME NEW v \in May(SuperblockPage(Inactive(r.slot)))'
          PROVE  Rival(v, r)'
      <4>1. SuperblockPage(a.slot) \in Pages
        BY <3>3, OtherSlot
      <4>2. v \in view[SuperblockPage(a.slot)]
        BY <3>3, <3>5, <3>8, <4>1 DEF May
      <4>3. v = SuperblockValue(a) /\ RootOf(v) = a
        BY <3>3, <4>2, RootDecodes DEF Anchored, Whole
      <4>4. v.slot = a.slot /\ v.gen = a.gen
        BY <4>3 DEF SuperblockValue
      <4> QED
        BY <3>2, <3>3, <3>4, <3>5, <4>3, <4>4 DEF Rival
    <3>9. Anchored(r)'
      BY <3>2, <3>4, <3>5, <3>6, <3>7, <3>8 DEF Anchored
    <3>10. active' = r
      BY <2>2, <3>1 DEF Opened
    <3> QED
      BY <3>9, <3>10
  <2> QED
    BY <2>1, <2>2 DEF CommitFlush
<1>4. FoundInv'
  BY <1>1, <1>3 DEF FoundInv, Booting
<1> QED
  BY <1>2, <1>4

-----------------------------------------------------------------------------
(* The invariant is kept by an initialization. *)

\* A page of the empty database is one.
LEMMA LayoutNotAbsent ==
    ASSUME NEW p
    PROVE  EmptyLayout(p) # Absent /\ Zero # Absent
  BY DEF EmptyLayout, SuperblockValue, ChunkValue, Absent, Zero

\* What an initialization writes, whole or in part, leaves a device as fresh as it was.
LEMMA FreshWrite ==
    ASSUME TypeOK, Fresh, acked' = acked, attempts' = attempts,
           NEW writes, DeviceWrite(writes) \/ DeviceWriteFails(writes),
           DOMAIN writes \subseteq MetadataPages,
           \A p \in DOMAIN writes : writes[p] \in {Zero, EmptyLayout(p)},
           \/ DOMAIN writes = MetadataPages
           \/ \A p \in MetadataPages : Absent \notin view[p]
    PROVE  /\ Fresh'
           /\ (\A p \in MetadataPages : Absent \notin view[p]) =>
                \A p \in MetadataPages : Absent \notin view'[p]
<1>1. /\ DeviceOK /\ \A p \in DOMAIN writes : writes[p] # Absent
      /\ MetadataPages \subseteq Pages /\ DataPages \subseteq Pages
      /\ MetadataPages \cap DataPages = {}
  BY TypeOKDevice, LayoutNotAbsent, LayoutType
<1>2. durable' = durable
  BY DEF DeviceWrite, DeviceWriteFails, Risks
<1>3. \A p \in Pages :
        /\ p \notin DOMAIN writes => view'[p] = view[p] /\ risk'[p] = risk[p]
        /\ p \in DOMAIN writes => /\ risk'[p] = risk[p] \cup {writes[p]}
                                  /\ view'[p] \subseteq view[p] \cup {writes[p]}
  <2>1. \A p \in Pages : risk'[p] = IF p \in DOMAIN writes THEN risk[p] \cup {writes[p]} ELSE risk[p]
    BY DEF DeviceWrite, DeviceWriteFails, Risks
  <2>2. CASE DeviceWrite(writes)
    BY <2>1, <2>2 DEF DeviceWrite
  <2>3. CASE DeviceWriteFails(writes)
    <3>1. PICK outcome :
            view' = [q \in Pages |->
                      IF q \notin DOMAIN writes \/ outcome[q] = "old" THEN view[q]
                      ELSE IF outcome[q] = "new" THEN {writes[q]}
                      ELSE view[q] \cup {writes[q]}]
      BY <2>3 DEF DeviceWriteFails
    <3> QED
      BY <2>1, <3>1
  <2> QED
    BY <2>2, <2>3
<1>4. \A p \in DataPages : view'[p] = {Absent} /\ durable'[p] = {Absent} /\ risk'[p] = {}
  BY <1>1, <1>2, <1>3 DEF Fresh
<1>5. ASSUME NEW p \in MetadataPages
      PROVE  view'[p] \cup durable'[p] \cup risk'[p] \subseteq {Absent, Zero, EmptyLayout(p)}
  BY <1>1, <1>2, <1>3 DEF Fresh
<1>6. ASSUME NEW p \in MetadataPages, view[p] = {Absent}
      PROVE  /\ view'[p] = {Absent} \/ Absent \notin view'[p]
             /\ view'[p] # {Absent} =>
                  \A q \in MetadataPages : q < p /\ view[q] = {Absent} => view'[q] # {Absent}
  <2>1. DOMAIN writes = MetadataPages
    BY <1>6
  <2>2. CASE DeviceWrite(writes)
    <3>1. \A q \in MetadataPages : view'[q] = {writes[q]}
      BY <1>1, <2>1, <2>2 DEF DeviceWrite
    <3> QED
      BY <1>1, <2>1, <3>1
  <2>3. CASE DeviceWriteFails(writes)
    <3>1. PICK outcome \in [DOMAIN writes -> {"old", "new", "torn"}] :
            /\ \A x \in DOMAIN writes : view[x] = {Absent} =>
                 /\ outcome[x] # "torn"
                 /\ outcome[x] = "new" =>
                      \A q \in DOMAIN writes :
                        q < x /\ view[q] = {Absent} => outcome[q] = "new"
            /\ view' = [q \in Pages |->
                         IF q \notin DOMAIN writes \/ outcome[q] = "old" THEN view[q]
                         ELSE IF outcome[q] = "new" THEN {writes[q]}
                         ELSE view[q] \cup {writes[q]}]
      BY <2>3 DEF DeviceWriteFails
    <3>2. outcome[p] \in {"old", "new"}
      BY <1>6, <2>1, <3>1
    <3>3. CASE outcome[p] = "old"
      BY <1>1, <1>6, <2>1, <3>1, <3>3
    <3>4. CASE outcome[p] = "new"
      <4>1. view'[p] = {writes[p]}
        BY <1>1, <2>1, <3>1, <3>4
      <4>2. ASSUME NEW q \in MetadataPages, q < p, view[q] = {Absent}
            PROVE  view'[q] # {Absent}
        <5>1. outcome[q] = "new"
          BY <1>6, <2>1, <3>1, <3>4, <4>2
        <5>2. view'[q] = {writes[q]}
          BY <1>1, <2>1, <3>1, <5>1
        <5> QED
          BY <1>1, <2>1, <5>2
      <4> QED
        BY <1>1, <2>1, <4>1, <4>2
    <3> QED
      BY <3>2, <3>3, <3>4
  <2> QED
    BY <2>2, <2>3
<1>7. ASSUME NEW p \in MetadataPages, view[p] # {Absent}
      PROVE  Absent \notin view'[p]
  <2>1. Absent \notin view[p]
    BY <1>7 DEF Fresh
  <2> QED
    BY <1>1, <1>3, <2>1
<1>8. ASSUME NEW p \in MetadataPages
      PROVE  Absent \in view'[p] => view'[p] = {Absent}
  BY <1>6, <1>7
<1>9. ASSUME NEW p \in MetadataPages, view'[p] # {Absent}, NEW q \in MetadataPages, q < p
      PROVE  view'[q] # {Absent}
  <2>1. CASE view[q] # {Absent}
    BY <1>7, <2>1
  <2>2. CASE view[q] = {Absent}
    <3>1. view[p] = {Absent}
      BY <1>9, <2>2 DEF Fresh
    <3> QED
      BY <1>6, <1>9, <2>2, <3>1
  <2> QED
    BY <2>1, <2>2
<1>10. Fresh'
  BY <1>4, <1>5, <1>8, <1>9 DEF Fresh
<1> QED
  BY <1>7, <1>10

\* The empty database, once it is read or flushed, is anchored.
LEMMA EmptyAnchored ==
    ASSUME Fresh, NEW s \in Slots, NEW root, root = EmptyRoot(s), Whole(view, root),
           acked' = Snapshot(root, view), view' = view,
           Exposed' => \A p \in Pages : durable'[p] = view[p] /\ risk'[p] = {},
           \A p \in MetadataPages : view[p] # {Absent}
    PROVE  Anchored(root)'
<1>1. Sound(root) /\ root \in Roots /\ root.slot = s
  BY EmptySound DEF Sound
<1>2. Reachable(root) \subseteq Pages /\ MetadataPages \subseteq Pages
  BY <1>1, RootPages, LayoutType
<1>3. \A p \in MetadataPages : Absent \notin view[p]
  BY DEF Fresh
<1>4. \A p \in Pages : May(p)' = view[p]
  BY DEF May
<1>5. ASSUME NEW v \in May(SuperblockPage(Inactive(root.slot)))', v.kind = "super"
      PROVE  Rival(v, root)'
  <2> DEFINE t == Inactive(s)
  <2>1. t \in Slots /\ SuperblockPage(t) = t /\ t \in MetadataPages /\ t \in Pages
    BY OtherSlot
  <2>2. v \in {Absent, Zero, EmptyLayout(t)}
    BY <1>1, <1>4, <1>5, <2>1 DEF Fresh
  <2>3. v = SuperblockValue(EmptyRoot(t)) /\ Sound(EmptyRoot(t)) /\ EmptyRoot(t).slot = t
    BY <1>5, <2>1, <2>2, EmptySound DEF Absent, Zero
  <2>4. RootOf(v) = EmptyRoot(t)
    BY <2>3, RootDecodes
  <2>5. LogicallyMatches(root, EmptyRoot(t))
    BY DEF LogicallyMatches, EmptyRoot
  <2>6. v.slot = t
    BY <2>3 DEF SuperblockValue
  <2> QED
    BY <1>1, <2>3, <2>4, <2>5, <2>6 DEF Rival
<1> QED
  BY <1>1, <1>2, <1>3, <1>4, <1>5 DEF Anchored

\* A device with an anchored root is not initialized again.
LEMMA InitializesFresh ==
    ASSUME RInv, OpenEmpty
    PROVE  Fresh
<1>1. TypeOK /\ (Fresh \/ \E root \in Roots : Anchored(root))
      /\ RecoverDeviceMetadata(view) = {}
  BY DEF RInv, IInv, FoundInv, OpenEmpty
<1>2. ASSUME NEW root \in Roots, Anchored(root)
      PROVE  FALSE
  BY <1>1, <1>2, RecoveryFinds
<1> QED
  BY <1>1, <1>2

\* The steps of an initialization keep the invariant.
LEMMA BootstrapRInv ==
    ASSUME RInv,
           BootstrapZeros \/ BootstrapChunks \/ BootstrapFlush \/ BootstrapRoots
    PROVE  FoundInv' /\ BootInv' /\ WrittenInv'
<1>1. /\ acked' = acked /\ attempts' = attempts
      /\ stage' \in {"zeros", "chunks", "extent", "roots", "dead"}
      /\ TypeOK /\ MetadataPages \subseteq Pages /\ Slots \subseteq MetadataPages
  BY LayoutType, SlotsAreMetadata
     DEF BootstrapZeros, BootstrapChunks, BootstrapFlush, BootstrapRoots, BootstrapStep,
         history, RInv, IInv
<1>2. WrittenInv'
  BY <1>1 DEF WrittenInv
<1>3. SUFFICES Fresh' /\ BootInv'
  BY <1>1, <1>2 DEF FoundInv, Booting, Live
<1>4. CASE BootstrapZeros
  <2> DEFINE writes == [p \in MetadataPages |-> Zero]
  <2>1. Fresh /\ stage' \in {"zeros", "dead"}
    BY <1>4, InitializesFresh DEF BootstrapZeros, BootstrapStep
  <2>2. \/ DeviceWrite(writes) /\ stage' = "zeros"
        \/ DeviceWriteFails(writes) /\ stage' = "dead"
    BY <1>4 DEF BootstrapZeros, BootstrapWrite
  <2>3. DeviceWrite(writes) => \A p \in MetadataPages : view'[p] = {Zero}
    BY <1>1 DEF DeviceWrite
  <2>4. DOMAIN writes = MetadataPages /\ \A p \in DOMAIN writes : writes[p] = Zero
    OBVIOUS
  <2> HIDE DEF writes
  <2>5. Fresh'
    BY <1>1, <2>1, <2>2, <2>4, FreshWrite
  <2> QED
    BY <2>2, <2>3, <2>5, LayoutNotAbsent DEF BootInv, Booting
<1>5. CASE BootstrapChunks
  <2> DEFINE writes == [p \in MetadataPages \ Slots |-> EmptyLayout(p)]
  <2>1. Fresh /\ \A p \in MetadataPages : Absent \notin view[p]
    BY <1>5 DEF BootstrapChunks, BootstrapStep, RInv, FoundInv, BootInv, Booting
  <2>2. \/ DeviceWrite(writes) /\ stage' = "chunks"
        \/ DeviceWriteFails(writes) /\ stage' = "dead"
    BY <1>5 DEF BootstrapChunks, BootstrapWrite
  <2>3. DeviceWrite(writes) => \A p \in MetadataPages \ Slots : view'[p] = {EmptyLayout(p)}
    BY <1>1 DEF DeviceWrite
  <2>4. DOMAIN writes = MetadataPages \ Slots /\ \A p \in DOMAIN writes : writes[p] = EmptyLayout(p)
    OBVIOUS
  <2> HIDE DEF writes
  <2>5. Fresh' /\ \A p \in MetadataPages : Absent \notin view'[p]
    BY <1>1, <2>1, <2>2, <2>4, FreshWrite
  <2> QED
    BY <2>2, <2>3, <2>5 DEF BootInv, Booting
<1>6. CASE BootstrapFlush
  <2>1. /\ Fresh /\ \A p \in MetadataPages : Absent \notin view[p]
        /\ \A p \in MetadataPages \ Slots : view[p] = {EmptyLayout(p)}
    BY <1>6 DEF BootstrapFlush, BootstrapStep, RInv, FoundInv, BootInv, Booting
  <2>2. \/ DeviceFlush /\ stage' = "extent"
        \/ DeviceFlushFails /\ stage' = "dead"
    BY <1>6 DEF BootstrapFlush
  <2>3. CASE DeviceFlushFails
    <3>1. Fresh'
      BY <1>1, <2>1, <2>3 DEF DeviceFlushFails, device, Fresh
    <3>2. view' = view
      BY <2>3 DEF DeviceFlushFails, device
    <3> QED
      BY <2>1, <2>2, <3>1, <3>2 DEF BootInv, Booting
  <2>4. CASE DeviceFlush
    <3>1. view' = view /\ durable' = view /\ \A p \in Pages : risk'[p] = {}
      BY <2>4 DEF DeviceFlush
    <3>2. DataPages \subseteq Pages
      BY LayoutType
    <3>3. Fresh'
      BY <1>1, <2>1, <3>1, <3>2 DEF Fresh
    <3> QED
      BY <2>1, <2>2, <3>1, <3>3 DEF BootInv, Booting
  <2> QED
    BY <2>2, <2>3, <2>4
<1>7. CASE BootstrapRoots
  <2> DEFINE writes == [p \in Slots |-> EmptyLayout(p)]
  <2>1. /\ Fresh /\ \A p \in MetadataPages : Absent \notin view[p]
        /\ \A p \in MetadataPages \ Slots : view[p] = {EmptyLayout(p)}
    BY <1>7 DEF BootstrapRoots, BootstrapStep, RInv, FoundInv, BootInv, Booting
  <2>2. \/ DeviceWrite(writes) /\ stage' = "roots"
        \/ DeviceWriteFails(writes) /\ stage' = "dead"
    BY <1>7 DEF BootstrapRoots, BootstrapWrite
  <2>3. DeviceWrite(writes) =>
          /\ \A p \in Slots : view'[p] = {EmptyLayout(p)}
          /\ \A p \in MetadataPages \ Slots : view'[p] = view[p]
    BY <1>1 DEF DeviceWrite
  <2>4. DOMAIN writes = Slots /\ \A p \in DOMAIN writes : writes[p] = EmptyLayout(p)
    OBVIOUS
  <2> HIDE DEF writes
  <2>5. Fresh' /\ \A p \in MetadataPages : Absent \notin view'[p]
    BY <1>1, <2>1, <2>2, <2>4, FreshWrite
  <2> QED
    BY <2>1, <2>2, <2>3, <2>5 DEF BootInv, Booting
<1> QED
  BY <1>4, <1>5, <1>6, <1>7

\* So does the flush that ends it.
LEMMA BootstrapRootsFlushRInv ==
    ASSUME RInv, BootstrapRootsFlush
    PROVE  FoundInv' /\ BootInv' /\ WrittenInv'
<1>1. /\ stage = "roots" /\ Fresh
      /\ \A p \in MetadataPages : view[p] = {EmptyLayout(p)} /\ Absent \notin view[p]
  BY SlotsAreMetadata DEF BootstrapRootsFlush, RInv, FoundInv, BootInv, Booting
<1>2. CASE DeviceFlushFails /\ stage' = "dead" /\ UNCHANGED history
  <2>1. Fresh'
    BY <1>1, <1>2 DEF DeviceFlushFails, device, history, Fresh
  <2> QED
    BY <1>2, <2>1 DEF FoundInv, BootInv, WrittenInv, Booting, Live
<1>3. CASE DeviceFlush /\ Opened(EmptyRoot(0)) /\ Serves(EmptyRoot(0))
  <2>1. /\ view' = view /\ durable' = view /\ \A p \in Pages : risk'[p] = {}
        /\ acked' = Snapshot(EmptyRoot(0), view)
    BY <1>3 DEF DeviceFlush, Serves
  <2>2. PICK r : r = EmptyRoot(0)
    OBVIOUS
  <2>3. 0 \in Slots /\ SuperblockPage(0) = 0 /\ 0 \in MetadataPages
    BY OtherSlot DEF Slots
  <2>4. Whole(view, r)
    <3>1. /\ r.slot = 0 /\ r.bitmap = {} /\ EmptyLayout(0) = SuperblockValue(r)
          /\ \A c \in Chunks : /\ r.chunks[c].slot = 0
                               /\ r.chunks[c].page = EmptyLayout(ChunkPage(c, 0))
      BY <2>2, <2>3, EmptySound
    <3>2. \A c \in Chunks : ChunkPage(c, 0) \in MetadataPages
      BY <2>3, ChunkPageInjective
    <3> QED
      BY <1>1, <2>3, <3>1, <3>2 DEF Whole
  <2>5. Anchored(r)'
    BY <1>1, <2>1, <2>2, <2>3, <2>4, EmptyAnchored
  <2>6. active' = r /\ stage' = "idle"
    BY <1>3, <2>2 DEF Opened
  <2>7. Anchored(active)'
    BY <2>5, <2>6
  <2> QED
    BY <2>6, <2>7 DEF FoundInv, BootInv, WrittenInv, Booting
<1> QED
  BY <1>2, <1>3 DEF BootstrapRootsFlush

\* An open anchors the root it finds.
LEMMA OpenExistingAnchors ==
    ASSUME RInv, OpenExisting
    PROVE  /\ Anchored(active)' /\ stage' = "idle"
           /\ acked' = acked \/ acked' \in attempts
<1>1. /\ TypeOK /\ stage = "closed" /\ UNCHANGED device /\ endings' = endings
      /\ Fresh \/ \E root \in Roots : Anchored(root)
      /\ Exposed => \A p \in Pages : durable[p] = view[p] /\ risk[p] = {}
  BY DEF OpenExisting, Serves, RInv, IInv, FoundInv
<1>2. PICK root \in RecoverDeviceMetadata(view) :
        Covered(view, root) /\ Opened(root) /\ Serves(root)
  BY DEF OpenExisting
<1>3. /\ active' = root /\ stage' = "idle" /\ acked' = Snapshot(root, view)
      /\ attempts' = IF acked' = acked THEN attempts ELSE {}
  BY <1>2 DEF Opened, Serves
<1>4. /\ view' = view /\ durable' = durable /\ risk' = risk /\ Exposed' = Exposed
      /\ \A p \in Pages : May(p) = view[p] /\ May(p)' = view[p]
  <2>1. view' = view /\ durable' = durable /\ risk' = risk /\ Exposed' = Exposed
    BY <1>1 DEF device, Exposed
  <2> QED
    BY <1>1, <2>1 DEF May
<1>5. MetadataPages \subseteq Pages
  BY LayoutType
<1>6. CASE Fresh
  <2>1. PICK s \in Slots : root = EmptyRoot(s)
    BY <1>1, <1>6, FreshRecovery
  <2>2. /\ Whole(view, root) /\ Snapshot(root, view) = acked
        /\ \A p \in MetadataPages : view[p] # {Absent}
    BY <1>1, <1>6, FreshRecovery
  <2>3. Anchored(root)'
    BY <1>1, <1>3, <1>4, <1>6, <2>1, <2>2, EmptyAnchored
  <2> QED
    BY <1>3, <2>2, <2>3
<1>7. ASSUME NEW A \in Roots, Anchored(A)
      PROVE  Anchored(root)' /\ (acked' = acked \/ acked' \in attempts)
  <2>1. CASE root = A
    <3>1. acked' = acked /\ attempts' = attempts
      BY <1>3, <1>7, <2>1 DEF Anchored
    <3>2. Reachable(A) \subseteq Pages /\ SuperblockPage(Inactive(A.slot)) \in Pages
      BY RootPages
    <3>3. \A p \in MetadataPages : Absent \notin May(p)'
      BY <1>4, <1>5, <1>7 DEF Anchored
    <3>4. Anchored(A)'
      BY <1>1, <1>4, <1>7, <3>1, <3>2, <3>3, AnchorKept
    <3> QED
      BY <2>1, <3>1, <3>4
  <2>2. CASE root # A
    <3>1. /\ Outcome(root, A)
          /\ \/ LogicallyMatches(A, root)
             \/ /\ root.gen = A.gen + 1 /\ CommitIsDurable(view, root, A)
                /\ AttemptOf(root) \in attempts
      BY <1>1, <1>7, <2>2, RecoveryFinds
    <3>2. /\ Whole(view, root)
          /\ Snapshot(root, view) = acked \/ Snapshot(root, view) \in attempts
      BY <1>1, <1>7, <3>1, OtherIsWhole
    <3>3. /\ Sound(root) /\ root \in Roots /\ root.slot = Inactive(A.slot)
          /\ A.slot \in Slots /\ Sound(A) /\ Inactive(root.slot) = A.slot
      BY <1>7, <3>1, OtherSlot DEF Outcome, Sound, Roots, Anchored
    <3>4. Reachable(root) \subseteq Pages
      BY <3>3, RootPages
    <3>5. ASSUME NEW v \in May(SuperblockPage(Inactive(root.slot)))'
          PROVE  Rival(v, root)'
      <4>1. v \in view[SuperblockPage(A.slot)]
        BY <1>4, <3>3, <3>5, OtherSlot
      <4>2. v = SuperblockValue(A) /\ RootOf(v) = A
        BY <1>7, <3>3, <4>1, RootDecodes DEF Anchored, Whole
      <4>3. v.slot = A.slot /\ v.gen = A.gen
        BY <4>2 DEF SuperblockValue
      <4>4. \/ LogicallyMatches(root, A)
            \/ A.gen + 1 = root.gen /\ CommitIsDurable(view, root, A)
        BY <3>1 DEF LogicallyMatches
      <4> QED
        BY <1>4, <3>3, <4>2, <4>3, <4>4 DEF Rival
    <3>6. \A p \in MetadataPages : Absent \notin May(p)'
      BY <1>4, <1>5, <1>7 DEF Anchored
    <3>7. Anchored(root)'
      BY <1>1, <1>3, <1>4, <3>2, <3>3, <3>4, <3>5, <3>6 DEF Anchored
    <3> QED
      BY <1>3, <3>2, <3>7
  <2> QED
    BY <2>1, <2>2
<1>8. Anchored(root)' /\ (acked' = acked \/ acked' \in attempts)
  BY <1>1, <1>3, <1>6, <1>7
<1> QED
  BY <1>3, <1>8

\* An open keeps the invariant.
LEMMA OpenExistingRInv ==
    ASSUME RInv, OpenExisting
    PROVE  FoundInv' /\ BootInv' /\ WrittenInv'
<1>1. Anchored(active)' /\ stage' = "idle"
  BY OpenExistingAnchors
<1> QED
  BY <1>1 DEF FoundInv, BootInv, WrittenInv, Booting

-----------------------------------------------------------------------------
(* The invariant is kept by the end of a session. *)

\* What a device holds, wherever the session is: an initialization's pages, or a root.
LEMMA FreshOrAnchored ==
    ASSUME RInv
    PROVE  Fresh \/ \E root : Anchored(root)
  BY DEF RInv, IInv, TypeOK, FoundInv, Stages, Live, Booting

\* A session that ends in one of the other ways is one after which no power is lost.
LEMMA NoLongerExposed ==
    ASSUME PowerLossesFirst, TypeOK, ProcessExit \/ Close
    PROVE  ~ Exposed'
<1>1. /\ endings \in Nat /\ endings' = endings + 1 /\ endings < MaxEndings
      /\ "process" \in Endings[endings + 1] \/ "close" \in Endings[endings + 1]
      /\ MaxEndings \in Nat
  BY PagerAssumption DEF TypeOK, ProcessExit, Close, MayEnd, SessionEnds
<1>2. SUFFICES ASSUME NEW j \in 1 .. MaxEndings, endings' < j, "power" \in Endings[j]
               PROVE  FALSE
  BY DEF Exposed
<1>3. endings + 1 \in 1 .. MaxEndings /\ endings + 1 < j
  BY <1>1, <1>2
<1>4. Endings[endings + 1] \subseteq {"power"}
  BY <1>2, <1>3 DEF PowerLossesFirst
<1> QED
  BY <1>1, <1>4

\* The end of a process, and a close, keep the invariant.
LEMMA QuietEndRInv ==
    ASSUME PowerLossesFirst, RInv, ProcessExit \/ Close
    PROVE  FoundInv' /\ BootInv' /\ WrittenInv'
<1>1. /\ UNCHANGED device /\ stage' = "closed" /\ acked' = acked /\ attempts' = attempts
  BY DEF ProcessExit, Close, SessionEnds
<1>2. ~ Exposed'
  BY NoLongerExposed DEF RInv, IInv
<1>3. \A p : May(p)' \subseteq May(p)
  BY <1>1, <1>2 DEF May, device
<1>4. CASE Fresh
  <2>1. Fresh'
    BY <1>1, <1>4 DEF Fresh, device
  <2> QED
    BY <1>1, <1>2, <2>1 DEF FoundInv, BootInv, WrittenInv, Booting, Live
<1>5. ASSUME NEW root, Anchored(root)
      PROVE  FoundInv' /\ BootInv' /\ WrittenInv'
  <2>1. \A p \in MetadataPages : Absent \notin May(p)'
    BY <1>3, <1>5 DEF Anchored
  <2>2. view' = view
    BY <1>1 DEF device
  <2>3. Anchored(root)'
    BY <1>1, <1>2, <1>3, <1>5, <2>1, <2>2, AnchorKept
  <2>4. root \in Roots
    BY <1>5 DEF Anchored, Sound
  <2> QED
    BY <1>1, <1>2, <2>3, <2>4 DEF FoundInv, BootInv, WrittenInv, Booting, Live
<1> QED
  BY <1>4, <1>5, FreshOrAnchored

\* What a power loss leaves of a page: what was durable, or what was written since.
LEMMA PowerLeaves ==
    ASSUME DeviceOK, PowerLoss
    PROVE  \E img : /\ view' = Dense(img)
                    /\ \A p \in Pages : /\ img[p] \subseteq durable[p] \cup risk[p]
                                        /\ risk[p] = {} => img[p] = durable[p]
<1>1. PICK meta \in Remains(MetadataPages), data \in Remains(DataPages) :
        view' = Dense([p \in Pages |-> IF p \in DataPages THEN data[p] ELSE meta[p]])
  BY DEF PowerLoss
<1>2. ASSUME NEW S, NEW left \in Remains(S), NEW p \in S
      PROVE  left[p] \subseteq durable[p] \cup risk[p] /\ (risk[p] = {} => left[p] = durable[p])
  <2> DEFINE unflushed == {q \in S : risk[q] # {}}
  <2>1. PICK f : /\ \A q \in unflushed : f[q] \in Survivors(q)
                 /\ left = [q \in S |-> IF q \in unflushed THEN f[q] ELSE durable[q]]
    BY <1>2 DEF Remains
  <2>2. CASE risk[p] = {}
    BY <2>1, <2>2
  <2>3. CASE risk[p] # {}
    <3>1. left[p] \in Survivors(p)
      BY <2>1, <2>3
    <3> QED
      BY <2>3, <3>1 DEF Survivors
  <2> QED
    BY <2>2, <2>3
<1> DEFINE img == [p \in Pages |-> IF p \in DataPages THEN data[p] ELSE meta[p]]
<1>3. ASSUME NEW p \in Pages
      PROVE  img[p] \subseteq durable[p] \cup risk[p] /\ (risk[p] = {} => img[p] = durable[p])
  BY <1>1, <1>2, LayoutType
<1> QED
  BY <1>1, <1>3

\* A power loss leaves an anchored root where it was.
LEMMA PowerLossAnchored ==
    ASSUME RInv, PowerLoss, NEW root, Anchored(root)
    PROVE  Anchored(root)'
<1>1. /\ TypeOK /\ DeviceOK /\ Exposed /\ root \in Roots
      /\ durable' = view' /\ \A p \in Pages : risk'[p] = {}
      /\ acked' = acked /\ attempts' = attempts
  <2>1. endings \in Nat /\ MaxEndings \in Nat
    BY PagerAssumption DEF RInv, IInv, TypeOK
  <2>2. endings + 1 \in 1 .. MaxEndings /\ endings < endings + 1
        /\ "power" \in Endings[endings + 1]
    BY <2>1 DEF PowerLoss, MayEnd
  <2> QED
    BY <2>2, TypeOKDevice
       DEF RInv, IInv, Exposed, Anchored, Sound, PowerLoss, SessionEnds
<1>2. PICK img : /\ view' = Dense(img)
                 /\ \A p \in Pages : /\ img[p] \subseteq durable[p] \cup risk[p]
                                     /\ risk[p] = {} => img[p] = durable[p]
  BY <1>1, PowerLeaves
<1>3. \A p \in Pages : Absent \notin img[p] => view'[p] = img[p]
  BY <1>2 DEF Dense
<1>4. MetadataPages \subseteq Pages /\ Reachable(root) \subseteq Pages
      /\ SuperblockPage(Inactive(root.slot)) \in MetadataPages
  BY <1>1, RootPages, LayoutType
<1>5. ASSUME NEW p \in MetadataPages
      PROVE  view'[p] = img[p] /\ img[p] \subseteq May(p) /\ Absent \notin img[p]
  <2>1. img[p] \subseteq May(p)
    BY <1>1, <1>2, <1>4 DEF May
  <2>2. Absent \notin img[p]
    BY <2>1 DEF Anchored
  <2> QED
    BY <1>3, <1>4, <2>1, <2>2
<1>6. ASSUME NEW p \in Reachable(root)
      PROVE  view'[p] = view[p]
  <2>1. durable[p] = view[p] /\ risk[p] = {} /\ img[p] = view[p] /\ p \in Pages
    BY <1>1, <1>2, <1>4 DEF Anchored
  <2>2. CASE p \in MetadataPages
    BY <1>5, <2>1, <2>2
  <2>3. CASE p \notin MetadataPages
    <3>1. p \in root.bitmap
      BY <1>1, <2>3, ReachablePages, SlotsAreMetadata, ChunkPageInjective DEF Reachable
    <3>2. HoldsData(view[p]) /\ view[p] \in SUBSET PageValues
      BY <1>1, <2>1, <3>1 DEF Anchored, Whole, TypeOK
    <3>3. Absent \notin view[p]
      BY <3>2, HeldData
    <3> QED
      BY <1>3, <2>1, <3>3
  <2> QED
    BY <2>2, <2>3
<1>7. \A p \in Pages : May(p)' = view'[p]
  BY <1>1 DEF May
<1>8. /\ \A p \in MetadataPages : Absent \notin May(p)'
      /\ May(SuperblockPage(Inactive(root.slot)))' \subseteq
           May(SuperblockPage(Inactive(root.slot)))
  BY <1>4, <1>5, <1>7
<1>9. \A p \in Reachable(root) : durable'[p] = view'[p] /\ risk'[p] = {}
  BY <1>1, <1>4
<1> QED
  BY <1>1, <1>6, <1>8, <1>9, AnchorKept

\* A power loss leaves a fresh device fresh.
LEMMA PowerLossFresh ==
    ASSUME RInv, PowerLoss, Fresh
    PROVE  Fresh'
<1>1. /\ DeviceOK /\ durable' = view' /\ \A p \in Pages : risk'[p] = {}
      /\ acked' = acked /\ attempts' = attempts
  BY TypeOKDevice DEF RInv, IInv, PowerLoss, SessionEnds
<1>2. PICK img : /\ view' = Dense(img)
                 /\ \A p \in Pages : /\ img[p] \subseteq durable[p] \cup risk[p]
                                     /\ risk[p] = {} => img[p] = durable[p]
  BY <1>1, PowerLeaves
<1>3. \A p \in Pages :
        view'[p] = IF Absent \notin img[p] THEN img[p]
                   ELSE IF \E q \in Pages : q > p /\ img[q] # {Absent}
                        THEN (img[p] \ {Absent}) \cup {Zero}
                        ELSE {Absent}
  BY <1>2 DEF Dense
<1>4. /\ MetadataPages \subseteq Pages /\ DataPages \subseteq Pages /\ FirstData \in Nat
      /\ MaxPages \in Nat /\ \A p \in Pages : p \in Nat
  BY LayoutType, PagerAssumption
<1>5. \A p \in DataPages : img[p] = {Absent}
  BY <1>2, <1>4 DEF Fresh
<1>6. \A p \in DataPages, q \in Pages : q > p => q \in DataPages
  BY <1>4 DEF DataPages, Pages
<1>7. ASSUME NEW p \in DataPages
      PROVE  view'[p] = {Absent}
  <2>1. \A q \in Pages : q > p => img[q] = {Absent}
    BY <1>5, <1>6
  <2> QED
    BY <1>3, <1>4, <1>5, <2>1
<1>8. ASSUME NEW p \in MetadataPages
      PROVE  /\ view'[p] \subseteq {Absent, Zero, EmptyLayout(p)}
             /\ Absent \in view'[p] => view'[p] = {Absent}
  <2>1. img[p] \subseteq {Absent, Zero, EmptyLayout(p)}
    BY <1>2, <1>4 DEF Fresh
  <2>2. Zero # Absent
    BY LayoutNotAbsent
  <2>3. view'[p] = IF Absent \notin img[p] THEN img[p]
                   ELSE IF \E q \in Pages : q > p /\ img[q] # {Absent}
                        THEN (img[p] \ {Absent}) \cup {Zero}
                        ELSE {Absent}
    BY <1>3, <1>4
  <2> QED
    BY <2>1, <2>2, <2>3
<1>9. ASSUME NEW p \in MetadataPages, view'[p] # {Absent}, NEW q \in MetadataPages, q < p
      PROVE  view'[q] # {Absent}
  <2>1. p \in Pages /\ q \in Pages /\ p \in Nat /\ q \in Nat /\ p > q
    BY <1>4, <1>9
  <2>2. CASE img[p] # {Absent}
    <3>1. \E r \in Pages : r > q /\ img[r] # {Absent}
      BY <2>1, <2>2
    <3> QED
      BY <1>3, <2>1, <3>1, LayoutNotAbsent
  <2>3. CASE img[p] = {Absent}
    <3>1. PICK r \in Pages : r > p /\ img[r] # {Absent}
      BY <1>3, <1>9, <2>1, <2>3
    <3>2. r > q
      BY <1>4, <2>1, <3>1
    <3>3. \E x \in Pages : x > q /\ img[x] # {Absent}
      BY <3>1, <3>2
    <3> QED
      BY <1>3, <2>1, <3>3, LayoutNotAbsent
  <2> QED
    BY <2>2, <2>3
<1> QED
  BY <1>1, <1>4, <1>7, <1>8, <1>9 DEF Fresh

\* A power loss keeps the invariant.
LEMMA PowerLossRInv ==
    ASSUME RInv, PowerLoss
    PROVE  FoundInv' /\ BootInv' /\ WrittenInv'
<1>1. /\ stage' = "closed" /\ durable' = view' /\ \A p \in Pages : risk'[p] = {}
  BY DEF PowerLoss, SessionEnds
<1>2. Fresh' \/ \E root \in Roots : Anchored(root)'
  <2>1. CASE Fresh
    BY <2>1, PowerLossFresh
  <2>2. ASSUME NEW root, Anchored(root)
        PROVE  \E r \in Roots : Anchored(r)'
    BY <2>2, PowerLossAnchored DEF Anchored, Sound
  <2> QED
    BY <2>1, <2>2, FreshOrAnchored
<1> QED
  BY <1>1, <1>2 DEF FoundInv, BootInv, WrittenInv, Booting, Live

-----------------------------------------------------------------------------
(* Every open recovers. *)

\* A new device is fresh.
LEMMA InitRInv == Init => RInv
<1> SUFFICES ASSUME Init
             PROVE  RInv
  OBVIOUS
<1>1. IInv
  BY InitIInv
<1>2. /\ view = [p \in Pages |-> {Absent}] /\ durable = view /\ risk = [p \in Pages |-> {}]
      /\ acked = Snapshot(EmptyRoot(0), [p \in Pages |-> {Absent}])
      /\ attempts = {} /\ stage = "closed"
  BY DEF Init
<1>3. MetadataPages \subseteq Pages /\ DataPages \subseteq Pages
  BY LayoutType
<1>4. Fresh
  BY <1>2, <1>3 DEF Fresh
<1>5. FoundInv /\ BootInv /\ WrittenInv
  BY <1>2, <1>4 DEF FoundInv, BootInv, WrittenInv, Booting, Live
<1> QED
  BY <1>1, <1>5 DEF RInv

\* Every step keeps the invariant.
LEMMA NextRInv ==
    ASSUME PowerLossesFirst, RInv, [Next]_vars
    PROVE  RInv'
<1>1. IInv'
  BY NextIInv DEF RInv
<1>2. CASE UNCHANGED vars
  <2>1. FoundInv'
    <3>1. /\ view' = view /\ durable' = durable /\ risk' = risk /\ acked' = acked
          /\ attempts' = attempts /\ stage' = stage /\ active' = active /\ endings' = endings
      BY <1>2 DEF vars
    <3>2. Exposed' = Exposed /\ (Fresh => Fresh')
      BY <3>1 DEF Exposed, Fresh
    <3>3. \A p : May(p)' = May(p)
      BY <3>1, <3>2 DEF May
    <3>4. ASSUME NEW root, Anchored(root)
          PROVE  Anchored(root)'
      <4>1. /\ \A p \in MetadataPages : Absent \notin May(p)'
            /\ Exposed' => \A p \in Reachable(root) : durable'[p] = view'[p] /\ risk'[p] = {}
        BY <3>1, <3>2, <3>3, <3>4 DEF Anchored
      <4> QED
        BY <3>1, <3>2, <3>3, <3>4, <4>1, AnchorKept
    <3>5. stage \in Live => Anchored(active)'
      <4>1. PICK r : r = active
        OBVIOUS
      <4>2. stage \in Live => Anchored(r)'
        BY <3>4, <4>1 DEF RInv, FoundInv
      <4> QED
        BY <3>1, <4>1, <4>2
    <3> QED
      BY <3>1, <3>2, <3>4, <3>5 DEF RInv, FoundInv
  <2>2. BootInv'
    BY <1>2 DEF RInv, BootInv, vars
  <2>3. WrittenInv'
    BY <1>2 DEF RInv, WrittenInv, NewPages, CandidateSnapshot, IsNew, vars
  <2> QED
    BY <1>1, <2>1, <2>2, <2>3 DEF RInv
<1>3. CASE Next
  <2>1. FoundInv' /\ BootInv' /\ WrittenInv'
    BY <1>3, BootstrapRInv, BootstrapRootsFlushRInv, OpenExistingRInv, CandidateStepsRInv,
       EvictPageRInv, CommitPagesRInv, CommitSuperblockRInv, CommitFlushRInv, PowerLossRInv,
       QuietEndRInv
       DEF Next, Commit
  <2> QED
    BY <1>1, <2>1 DEF RInv
<1> QED
  BY <1>2, <1>3

\* The invariant holds of every reachable state.
THEOREM RecoveryInvariant ==
    ASSUME PowerLossesFirst
    PROVE  Spec => []RInv
<1>1. ASSUME RInv, [Next]_vars
      PROVE  RInv'
  BY <1>1, NextRInv
<1> QED
  BY <1>1, InitRInv, PTL DEF Spec

\* However the sessions end, through any number of power losses first and of closes and
\* process ends then, and whatever calls fail on the way, with_cache_capacity opens the
\* device again.
THEOREM OpensAlways ==
    ASSUME PowerLossesFirst
    PROVE  Spec => []AlwaysOpens
<1>1. RInv => AlwaysOpens
  BY OpensNext
<1> QED
  BY <1>1, RecoveryInvariant, PTL

\* What a session holds is what was acknowledged last.
LEMMA HeldIsAcked ==
    RInv => (IF stage \in Live /\ ~ recovery_required THEN Snapshot(active, view) ELSE acked)
              = acked
  BY DEF RInv, FoundInv, Anchored

\* A commit's snapshot succeeds the acknowledged one.
LEMMA PromiseSucceeds ==
    ASSUME RInv, stage \in {"pages", "super"}
    PROVE  /\ CandidateSnapshot(pending).gen = acked.gen + 1
           /\ CandidateSnapshot(pending).rev >= acked.rev
<1>1. pending.gen = active.gen + 1 /\ pending.rev >= active.rev /\ Anchored(active)
  BY DEF RInv, FoundInv, WrittenInv, Live
<1>2. acked.gen = active.gen /\ acked.rev = active.rev
  BY <1>1 DEF Anchored, Snapshot
<1> QED
  BY <1>1, <1>2 DEF CandidateSnapshot

\* Every step is a step of the atomic store, or none.
LEMMA StoreStep ==
    ASSUME RInv, RInv', [Next]_vars
    PROVE  [Store!Next]_(Store!vars)
<1> DEFINE held == IF stage \in Live /\ ~ recovery_required THEN Snapshot(active, view)
                   ELSE acked
<1>1. held = acked /\ held' = acked'
  <2>1. held = acked
    BY HeldIsAcked
  <2>2. held' = acked'
    BY DEF RInv, FoundInv, Anchored
  <2> QED
    BY <2>1, <2>2
<1>2. CASE /\ (stage' \in Live) = (stage \in Live) /\ acked' = acked /\ attempts' = attempts
  BY <1>1, <1>2 DEF Store!vars
<1>3. CASE /\ stage \notin Live /\ stage' \in Live /\ acked' \in {acked} \cup attempts
           /\ attempts' = IF acked' = acked THEN attempts ELSE {}
  BY <1>1, <1>3 DEF Store!Next, Store!Open
<1>4. CASE /\ stage \in Live /\ stage' \notin Live /\ acked' = acked /\ attempts' = attempts
  BY <1>1, <1>4 DEF Store!Next, Store!Stop
<1>5. CASE UNCHANGED vars
  BY <1>2, <1>5 DEF vars
<1>6. CASE BootstrapZeros \/ BootstrapChunks \/ BootstrapFlush \/ BootstrapRoots
  BY <1>2, <1>6 DEF BootstrapZeros, BootstrapChunks, BootstrapFlush, BootstrapRoots,
     BootstrapStep, Live, history
<1>7. CASE BootstrapRootsFlush
  <2>1. stage = "roots" /\ Fresh
    BY <1>7 DEF BootstrapRootsFlush, RInv, FoundInv, Booting
  <2>2. CASE stage' = "dead" /\ UNCHANGED history
    BY <1>2, <2>1, <2>2 DEF history, Live
  <2>3. CASE Opened(EmptyRoot(0)) /\ Serves(EmptyRoot(0))
    <3>1. EmptyRoot(0).bitmap = {}
      BY DEF EmptyRoot
    <3>2. Snapshot(EmptyRoot(0), view) = Snapshot(EmptyRoot(0), [p \in Pages |-> {Absent}])
      <4>1. [p \in {} |-> view[p]] = [p \in {} |-> [q \in Pages |-> {Absent}][p]]
        OBVIOUS
      <4> QED
        BY <3>1, <4>1 DEF Snapshot
    <3>3. acked' = acked /\ attempts' = attempts /\ stage' = "idle"
      BY <2>1, <2>3, <3>2 DEF Fresh, Serves, Opened
    <3> QED
      BY <1>3, <2>1, <3>3 DEF Live
  <2> QED
    BY <1>7, <2>2, <2>3 DEF BootstrapRootsFlush
<1>8. CASE OpenExisting
  <2>1. /\ stage = "closed" /\ stage' = "idle"
        /\ acked' = acked \/ acked' \in attempts
        /\ attempts' = IF acked' = acked THEN attempts ELSE {}
    BY <1>8, OpenExistingAnchors DEF OpenExisting, Serves
  <2>2. stage \notin Live /\ stage' \in Live /\ acked' \in {acked} \cup attempts
    BY <2>1 DEF Live
  <2> QED
    BY <1>3, <2>1, <2>2
<1>9. CASE \/ BeginWrite \/ Abort
           \/ \E p \in DataPages : \/ AllocatePage(p) \/ FreeSharedPage(p) \/ ReleaseNewPage(p)
                                   \/ EvictPage(p) \/ \E v \in Vals : WriteNewPage(p, v)
           \/ \E rev \in Revisions, root \in CatalogRoots : Commit(rev, root)
  <2>1. /\ acked' = acked /\ attempts' = attempts /\ stage \in {"idle", "write"}
        /\ stage' \in {"idle", "write", "pages"}
    BY <1>9 DEF BeginWrite, Abort, AllocatePage, FreeSharedPage, ReleaseNewPage, EvictPage,
       WriteNewPage, Commit, CommitRefused, CommitPages, CandidateDropped, InWrite, history
  <2> QED
    BY <1>2, <2>1 DEF Live
<1>10. CASE CommitSuperblock
  <2>1. /\ stage = "pages" /\ stage' \in {"idle", "super"} /\ acked' = acked
        /\ attempts' = attempts \cup {CandidateSnapshot(pending)}
    BY <1>10 DEF CommitSuperblock, Poisoned, CandidateDropped
  <2>2. \A s \in attempts' \ attempts : s.gen = acked.gen + 1 /\ s.rev >= acked.rev
    BY <2>1, PromiseSucceeds
  <2>3. /\ stage \in Live /\ stage' \in Live /\ attempts \subseteq attempts'
    BY <2>1 DEF Live
  <2> QED
    BY <1>1, <2>1, <2>2, <2>3 DEF Store!Next, Store!BeginPublish, Store!Succeeds
<1>11. CASE CommitFlush
  <2>1. stage = "super" /\ stage' = "idle" /\ stage \in Live /\ stage' \in Live
    BY <1>11 DEF CommitFlush, Opened, Poisoned, CandidateDropped, Live
  <2>2. CASE UNCHANGED history
    BY <1>2, <2>1, <2>2 DEF history
  <2>3. CASE acked' = CandidateSnapshot(pending) /\ attempts' = {}
    <3>1. acked' \in attempts /\ acked'.gen = acked.gen + 1 /\ acked'.rev >= acked.rev
      BY <2>1, <2>3, PromiseSucceeds DEF RInv, WrittenInv
    <3> QED
      BY <1>1, <2>1, <2>3, <3>1 DEF Store!Next, Store!Publish, Store!Succeeds
  <2> QED
    BY <1>11, <2>2, <2>3 DEF CommitFlush
<1>12. CASE PowerLoss \/ ProcessExit \/ Close
  <2>1. stage' = "closed" /\ acked' = acked /\ attempts' = attempts
    BY <1>12 DEF PowerLoss, ProcessExit, Close, SessionEnds
  <2> QED
    BY <1>2, <1>4, <2>1 DEF Live
<1> QED
  BY <1>5, <1>6, <1>7, <1>8, <1>9, <1>10, <1>11, <1>12 DEF Next

\* The pager is an atomic store: a commit replaces all that its readers see in one step,
\* and an interrupted one is found whole or not at all, whichever sessions end in a loss of
\* power before the others end.
THEOREM PagerIsAtomicStore ==
    ASSUME PowerLossesFirst
    PROVE  Spec => ImplementsAtomicStore
<1>1. Init => Store!Init
  BY DEF Init, Store!Init, Live
<1>2. ASSUME RInv, [Next]_vars
      PROVE  [Store!Next]_(Store!vars)
  BY <1>2, NextRInv, StoreStep
<1> QED
  BY <1>1, <1>2, RecoveryInvariant, PTL DEF Spec, ImplementsAtomicStore, Store!Spec

=============================================================================
