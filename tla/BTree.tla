------------------------------- MODULE BTree -------------------------------
(***************************************************************************)
(* One copy-on-write B+tree of tinyjoin-core (btree.rs) over the pages of  *)
(* a pager, as a commit writes it, `Btree::apply`, and as readers see it,  *)
(* lookups and detached cursors.  `Upsert` and `Delete` are the writers of *)
(* one change at a time that the tests hold batches to.                    *)
(*                                                                         *)
(* A node is the sequence of its cells; the bytes it is packed into are    *)
(* abstracted to the sizes of its cells and the capacity of a page.  The   *)
(* fingerprint of a subtree is an XOR of the hashes of its entries: here   *)
(* the set of the entries, and `combine` is symmetric difference.          *)
(***************************************************************************)
EXTENDS Naturals, Sequences, FiniteSets, SequencesExt, FiniteSetsExt

CONSTANTS
    Keys,           \* keys, as numbers in their byte order
    Values,         \* values of entries
    Size,           \* [Values -> Nat] the size of a leaf cell that holds the value
    ChunkCount,     \* [Values -> Nat] its overflow pages, 0 when it is kept inline
    SeparatorSize,  \* the size of a cell of an internal node
    NodeCapacity,   \* NODE_CAPACITY
    MaxDepth,       \* MAX_TREE_DEPTH
    DataPages,      \* the pages that the pager can allocate
    Batches,        \* the batches that may be applied first, second and so on: a
                    \* sequence of sets, whose length bounds the batches of a behaviour
    MaxCandidates,  \* bound: write transactions of a behaviour
    Bounds,         \* where cursors are opened: keys, or NoKey for none
    Reference       \* keys that the tests' one-at-a-time writers change too

ASSUME BTreeAssumption ==
    /\ Keys \subseteq Nat \ {0} /\ DataPages \subseteq Nat \ {0}
    /\ Size \in [Values -> 1 .. NodeCapacity]
    /\ SeparatorSize \in 1 .. NodeCapacity
    /\ ChunkCount \in [Values -> Nat]

VARIABLES
    store,      \* the pages, and which of them the candidate owns or has freed
    live,       \* pages the committed root's allocation bitmap holds
    generation, \* the committed generation
    root, hash, \* the committed root and fingerprint, as the catalog has them
    candidate,  \* the write transaction: its id, its root, fingerprint and version
    cursor,     \* one detached cursor: a behaviour opens another only when it is invalid
    batches,    \* how many changes were applied
    begun,      \* how many candidates were
    committed,  \* history: the entries of the committed tree
    entries,    \* history: the entries of the candidate's tree
    counted     \* history: what the last batch should report and did

vars == <<store, live, generation, root, hash, candidate, cursor, batches,
          begun, committed, entries, counted>>

NoPage == 0
NoKey == 0
Deletes == "deletes"                \* a change without a value
Unknown == {<<NoKey, Deletes>>}     \* a root leaf's fingerprint: no parent records it

\* combine (hash.rs): XOR, which the removal of an entry undoes.
combine(a, b) == (a \ b) \cup (b \ a)

-----------------------------------------------------------------------------
(* Pages. *)

Unwritten == [kind |-> "unwritten"]
Leaf(gen, cells) == [kind |-> "leaf", gen |-> gen, level |-> 0, cells |-> cells]
Internal(gen, level, kids) ==
    [kind |-> "internal", gen |-> gen, level |-> level, kids |-> kids]
Overflow(gen, index, value, next) ==
    [kind |-> "overflow", gen |-> gen, index |-> index, value |-> value, next |-> next]

\* A leaf cell: an inline value, or the descriptor of an overflow chain, whose
\* length and checksum stand for the value.
Cell(key, value, first, gen) == [key |-> key, value |-> value, first |-> first, gen |-> gen]
Child(separator, page, childHash) ==
    [separator |-> separator, page |-> page, hash |-> childHash]
Piece(firstKey, page, pieceHash) == [firstKey |-> firstKey, page |-> page, hash |-> pieceHash]

\* leaf_entry_hash, cell_hash: of the key and the value, not of where it is kept.
CellHash(cell) == {<<cell.key, cell.value>>}
CellsHash(cells) == UNION {CellHash(cells[i]) : i \in DOMAIN cells}
\* Node::subtree_hash of an internal node: what its children reported.
KidsHash(kids) == FoldLeft(LAMBDA h, kid : combine(h, kid.hash), {}, kids)

CellSizes(cells) == [i \in DOMAIN cells |-> Size[cells[i].value]]
KidSizes(kids) ==
    [i \in DOMAIN kids |-> IF kids[i].separator = NoKey THEN 0 ELSE SeparatorSize]
Total(sizes) == FoldLeft(LAMBDA a, b : a + b, 0, sizes)

-----------------------------------------------------------------------------
(* The pager as the tree uses it (Pager): a candidate's pages are its own,  *)
(* pages it frees stay with the committed root, and an error fails it.      *)

Fail(st, why) == [st EXCEPT !.error = IF @ = "" THEN why ELSE @]

allocate_page(st) ==
    LET free == DataPages \ (live \cup st.owned)
    IN  IF st.error # "" \/ free = {}
        THEN [st |-> Fail(st, "DATABASE_FULL"), page |-> NoPage]
        ELSE [st |-> [st EXCEPT !.owned = @ \cup {Min(free)}], page |-> Min(free)]

write_new_page(st, page, node) ==
    IF st.error # "" THEN st
    ELSE IF page \notin st.owned THEN Fail(st, "INVALID_PAGE")
    ELSE [st EXCEPT !.pages[page] = node]

\* release_new_page and free_shared_page.
release_page(st, page) ==
    IF st.error # "" THEN st
    ELSE IF page \in st.owned
         THEN [st EXCEPT !.owned = @ \ {page}, !.pages[page] = Unwritten]
         ELSE IF page \notin live THEN Fail(st, "INVALID_PAGE")
         ELSE [st EXCEPT !.freed = @ \cup {page}]

IsAllocated(st, page) == page \in (live \ st.freed) \cup st.owned

-----------------------------------------------------------------------------
(* Reading nodes. *)

StrictlySorted(seq) == \A i, j \in DOMAIN seq : i < j => seq[i] < seq[j]
KeysOf(node) ==
    IF node.kind = "leaf" THEN [i \in DOMAIN node.cells |-> node.cells[i].key]
    ELSE [i \in 1 .. Len(node.kids) - 1 |-> node.kids[i + 1].separator]

\* What from_payload accepts of a page read at generation `viewGen`: a node of
\* the view, of that very generation when the candidate owns it.
ValidHeader(node, viewGen, owns) ==
    /\ node.kind \in {"leaf", "internal"}
    /\ node.gen <= viewGen
    /\ owns => node.gen = viewGen
\* And what decode_in_place checks of its cells.
ValidNode(node, viewGen, owns) ==
    /\ ValidHeader(node, viewGen, owns)
    /\ StrictlySorted(KeysOf(node))
    /\ node.kind = "leaf" => \A i \in DOMAIN node.cells : node.cells[i].gen <= node.gen
    /\ node.kind = "internal" =>
          /\ node.level > 0
          /\ \A i, j \in DOMAIN node.kids :
                i # j => node.kids[i].page # node.kids[j].page

\* validate_expected_level and validate_child_generation: `level` and `gen` are
\* what the parent says, NoParent at the root.
NoParent == [level |-> MaxDepth, gen |-> 0]
Below(node) == [level |-> node.level - 1, gen |-> node.gen]
FitsParent(node, parent) ==
    parent # NoParent => node.level = parent.level /\ node.gen <= parent.gen

ReadNode(st, page, parent, viewGen) ==
    IF st.error # "" THEN st
    ELSE IF /\ IsAllocated(st, page)
            /\ ValidNode(st.pages[page], viewGen, page \in st.owned)
            /\ FitsParent(st.pages[page], parent)
         THEN st
         ELSE Fail(st, "INVALID_BTREE")

\* Mutant of child_index_for: a key equal to a separator goes to its left.
LeftOfSeparator(node, key) == 1 + Cardinality({i \in DOMAIN KeysOf(node) : KeysOf(node)[i] < key})
\* The child to follow for a key: past every separator at or below it.
child_index_for(node, key) ==
    1 + Cardinality({i \in DOMAIN KeysOf(node) : KeysOf(node)[i] <= key})
\* The entries of a leaf, or the separators of a node, before a key.
lower_bound(node, key) == Cardinality({i \in DOMAIN KeysOf(node) : KeysOf(node)[i] < key})

\* The pages of an overflow chain from `page` on, `left` of them still to read.
RECURSIVE OverflowPages(_, _, _)
OverflowPages(pages, page, left) ==
    IF left = 0 \/ page \notin DataPages \/ pages[page].kind # "overflow" THEN <<>>
    ELSE <<page>> \o OverflowPages(pages, pages[page].next, left - 1)

\* read_overflow_chain: every page is the chunk of the value that its place in
\* the chain says, of the descriptor's generation, and the last one ends it.
ChainIsValid(st, cell) ==
    LET count == ChunkCount[cell.value]
        chain == OverflowPages(st.pages, cell.first, count)
    IN  /\ Len(chain) = count /\ IsInjective(chain)
        /\ \A i \in DOMAIN chain :
              /\ IsAllocated(st, chain[i])
              /\ st.pages[chain[i]] = Overflow(cell.gen, i, cell.value,
                                               IF i = count THEN NoPage ELSE chain[i + 1])
CellPages(pages, cell) == OverflowPages(pages, cell.first, ChunkCount[cell.value])

-----------------------------------------------------------------------------
(* Writing leaves. *)

\* divide: how many cells each page takes.  Cells that fit one page stay there;
\* otherwise pages are packed to a target, which `fill` sets to a whole page,
\* and the last takes the rest.
Pack(sizes, target) ==
    FoldLeft(LAMBDA acc, size :
                 IF acc.count > 0 /\ acc.size + size > target
                 THEN [counts |-> Append(acc.counts, acc.count), count |-> 1, size |-> size]
                 ELSE [acc EXCEPT !.count = @ + 1, !.size = @ + size],
             [counts |-> <<>>, count |-> 0, size |-> 0], sizes)
CeilDiv(a, b) == (a + b - 1) \div b
divide(sizes, fill) ==
    LET total == Total(sizes)
        Target(pages) == IF fill THEN NodeCapacity ELSE CeilDiv(total, pages)
        pages == Min({n \in CeilDiv(total, NodeCapacity) .. total :
                         Pack(sizes, Target(n)).size <= NodeCapacity})
        packed == Pack(sizes, Target(pages))
    IN  IF total <= NodeCapacity THEN <<Len(sizes)>> ELSE Append(packed.counts, packed.count)

\* The cells of the i-th page of a division.
Division(items, counts, i) ==
    LET start == Total(SubSeq(counts, 1, i - 1)) IN SubSeq(items, start + 1, start + counts[i])

\* store_overflow_value: allocates the pages of the chain, then writes them.
Allocated(ids, a) == [st |-> a.st, ids |-> Append(ids, a.page)]
Linked(key, value, got) ==
    [st |-> FoldLeft(LAMBDA s, i :
                         write_new_page(s, got.ids[i],
                             Overflow(generation + 1, i, value,
                                      IF i = Len(got.ids) THEN NoPage ELSE got.ids[i + 1])),
                     got.st, [i \in DOMAIN got.ids |-> i]),
     cell |-> Cell(key, value, got.ids[1], generation + 1)]
store_overflow_value(st, key, value) ==
    Linked(key, value,
           FoldLeft(LAMBDA acc, i : Allocated(acc.ids, allocate_page(acc.st)),
                    [st |-> st, ids |-> <<>>], [i \in 1 .. ChunkCount[value] |-> i]))
\* new_value
new_value(st, key, value) ==
    IF ChunkCount[value] = 0 THEN [st |-> st, cell |-> Cell(key, value, NoPage, 0)]
    ELSE store_overflow_value(st, key, value)

\* Mutant of release_leaf_value: a replaced value leaves its chain behind.
KeepChain(st, cell) == st
release_leaf_value(st, cell) ==
    IF st.error # "" \/ ChunkCount[cell.value] = 0 THEN st
    ELSE IF ~ChainIsValid(st, cell) THEN Fail(st, "INVALID_OVERFLOW")
    ELSE FoldLeft(release_page, st, CellPages(st.pages, cell))

\* page_for: a node's first piece takes its page when the candidate owns it.
page_for(st, index, replacing) ==
    IF index = 1 /\ replacing \in st.owned THEN [st |-> st, page |-> replacing]
    ELSE allocate_page(st)
release_replaced(st, replacing, owned) ==
    IF replacing = NoPage \/ owned THEN st ELSE release_page(st, replacing)

\* A page of a division written: its piece follows those before it.
Written(pieces, a, node, firstKey, pieceHash) ==
    [st |-> write_new_page(a.st, a.page, node),
     pieces |-> Append(pieces, Piece(firstKey, a.page, pieceHash))]
Released(done, replacing, owned) ==
    [st |-> release_replaced(done.st, replacing, owned), pieces |-> done.pieces]

\* Mutant of LeafHash: the fingerprint the parent knew is kept for the first page
\* of a leaf that was divided.
KeepKnownHash(part, i, pages, known) ==
    IF known = Unknown \/ i > 1 THEN CellsHash(part) ELSE known
\* The fingerprint of one of a leaf's pages; `known` is that of a leaf that stays
\* one page.
LeafHash(part, i, pages, known) ==
    IF known = Unknown \/ pages > 1 THEN CellsHash(part) ELSE known
\* write_leaf_cells
WriteLeaves(st, replacing, cells, counts, known) ==
    Released(
        FoldLeft(
            LAMBDA acc, i :
                LET part == Division(cells, counts, i)
                IN  Written(acc.pieces, page_for(acc.st, i, replacing),
                            Leaf(generation + 1, part), part[1].key,
                            LeafHash(part, i, Len(counts), known)),
            [st |-> st, pieces |-> <<>>], [i \in DOMAIN counts |-> i]),
        replacing, replacing \in st.owned)
write_leaf_cells(st, replacing, cells, fill, known) ==
    WriteLeaves(st, replacing, cells, divide(CellSizes(cells), fill), known)

\* write_internals: the first child of each page loses its separator, which the
\* page reports as its first key.
WriteInternals(st, replacing, level, kids, counts) ==
    Released(
        FoldLeft(
            LAMBDA acc, i :
                LET part == Division(kids, counts, i)
                IN  Written(acc.pieces, page_for(acc.st, i, replacing),
                            Internal(generation + 1, level, [part EXCEPT ![1].separator = NoKey]),
                            part[1].separator, KidsHash(part)),
            [st |-> st, pieces |-> <<>>], [i \in DOMAIN counts |-> i]),
        replacing, replacing \in st.owned)
write_internals(st, replacing, level, kids) ==
    WriteInternals(st, replacing, level, kids, divide(KidSizes(kids), FALSE))

-----------------------------------------------------------------------------
(* Btree::apply: a batch of changes in one pass. *)

\* What became of one node: whether it changed, and the pages that replace it.
Unchanged(st) == [st |-> st, changed |-> FALSE, pieces |-> <<>>]
Replaced(st, pieces) == [st |-> st, changed |-> TRUE, pieces |-> pieces]
ReplacedBy(written) == Replaced(written.st, written.pieces)

Without(cells, key) == SelectSeq(cells, LAMBDA c : c.key # key)
WithCell(cells, cell) ==
    SelectSeq(cells, LAMBDA c : c.key < cell.key) \o <<cell>>
        \o SelectSeq(cells, LAMBDA c : c.key > cell.key)

\* One change of a batch merged into the cells of a leaf, and the fingerprint of
\* what it removed and added; `old` holds the cell it replaces, if there is one.
RemoveCell(acc, key, old, released) ==
    [st |-> [released EXCEPT !.removed = @ + 1], changed |-> TRUE,
     cells |-> Without(acc.cells, key), delta |-> combine(acc.delta, CellsHash(old))]
PutCell(acc, old, new) ==
    [st |-> [new.st EXCEPT !.inserted = IF old = <<>> THEN @ + 1 ELSE @], changed |-> TRUE,
     cells |-> WithCell(acc.cells, new.cell),
     delta |-> combine(combine(acc.delta, CellsHash(old)), CellHash(new.cell))]
MergeOver(acc, change, old) ==
    IF IF old = <<>> THEN change.value = Deletes
       ELSE old[1].value = change.value /\ ChunkCount[old[1].value] = 0
    THEN acc
    ELSE LET released == FoldLeft(release_leaf_value, acc.st, old)
         IN  IF change.value = Deletes THEN RemoveCell(acc, change.key, old, released)
             ELSE PutCell(acc, old, new_value(released, change.key, change.value))
MergeChange(acc, change) ==
    MergeOver(acc, change, SelectSeq(acc.cells, LAMBDA c : c.key = change.key))

\* apply_leaf: `known` is the fingerprint its parent records.  A leaf that takes
\* only appends past its last key is filled; one that empties is released.
AppendsOnly(node, changes) ==
    /\ node.cells = <<>> \/ changes[1].key > Last(node.cells).key
    /\ \A i \in DOMAIN changes : changes[i].value # Deletes
KeepFirstKey(written, same) ==
    Replaced(written.st,
             IF same THEN [written.pieces EXCEPT ![1].firstKey = NoKey] ELSE written.pieces)
WriteMerged(page, node, known, fill, merged) ==
    IF ~merged.changed THEN Unchanged(merged.st)
    ELSE IF merged.cells = <<>> THEN Replaced(release_page(merged.st, page), <<>>)
    ELSE KeepFirstKey(write_leaf_cells(merged.st, page, merged.cells, fill,
                                       IF known = Unknown THEN Unknown
                                       ELSE combine(known, merged.delta)),
                      node.cells # <<>> /\ node.cells[1].key = merged.cells[1].key)
apply_leaf(st, page, known, changes) ==
    LET node == st.pages[page]
    IN  WriteMerged(page, node, known, AppendsOnly(node, changes),
                    FoldLeft(MergeChange,
                             [st |-> st, changed |-> FALSE, cells |-> node.cells, delta |-> {}],
                             changes))

\* The changes a child takes: those below the next child's separator that no
\* child before it took.
Share(kids, i, changes) ==
    SelectSeq(changes, LAMBDA c : /\ i = 1 \/ c.key >= kids[i].separator
                                  /\ i = Len(kids) \/ c.key < kids[i + 1].separator)

\* The children that replace one child: its own reference when it did not
\* change, else its pieces, the first of which keeps its separator if its first
\* key is the same.
Pieces(kid, applied) ==
    IF ~applied.changed THEN <<kid>>
    ELSE [i \in DOMAIN applied.pieces |->
             Child(IF applied.pieces[i].firstKey # NoKey THEN applied.pieces[i].firstKey
                   ELSE kid.separator,
                   applied.pieces[i].page, applied.pieces[i].hash)]

\* Mutant of WithReferences: the node keeps the generation of its bytes.
KeepGeneration(node, kids) == [node EXCEPT !.kids = kids]
\* A node whose changed children are each still one page with the same first
\* key is rewritten with their new references; its separators stay.
WithReferences(node, kids) == [node EXCEPT !.gen = generation + 1, !.kids = kids]
rewrite_references(st, page, node, kids) ==
    ReplacedBy(Released(Written(<<>>, page_for(st, 1, page), WithReferences(node, kids),
                                NoKey, KidsHash(kids)),
                        page, page \in st.owned))

\* The other nodes have their children listed again and divided among pages.
\* The separator that the new leftmost child carries is the node's first key.
FirstKeyIs(w, firstKey) == Replaced(w.st, [w.pieces EXCEPT ![1].firstKey = firstKey])
rebuild_children(st, page, node, kids) ==
    IF kids = <<>> THEN Replaced(release_page(st, page), <<>>)
    ELSE FirstKeyIs(write_internals(st, page, node.level, [kids EXCEPT ![1].separator = NoKey]),
                    kids[1].separator)

\* What the children's outcomes, in `each`, make of their node.
RejoinChildren(st, page, node, each) ==
    LET changed == {i \in DOMAIN each : each[i].changed}
        kids == FlattenSeq([i \in DOMAIN node.kids |-> Pieces(node.kids[i], each[i])])
    IN  IF st.error # "" \/ changed = {} THEN Unchanged(st)
        ELSE IF \A i \in changed : Len(each[i].pieces) = 1 /\ each[i].pieces[1].firstKey = NoKey
        THEN rewrite_references(st, page, node, kids)
        ELSE rebuild_children(st, page, node, kids)
Noted(each, applied) == [st |-> applied.st, each |-> Append(each, applied)]
Rejoin(page, node, done) == RejoinChildren(done.st, page, node, done.each)

RECURSIVE apply_node(_, _, _, _, _)
\* apply_internal: applies each child's share, left to right.
ApplyShare(st, node, i, share) ==
    IF share = <<>> THEN Unchanged(st)
    ELSE apply_node(st, node.kids[i].page, Below(node), node.kids[i].hash, share)
apply_internal(st, page, node, changes) ==
    Rejoin(page, node,
           FoldLeft(LAMBDA acc, i :
                        Noted(acc.each, ApplyShare(acc.st, node, i, Share(node.kids, i, changes))),
                    [st |-> st, each |-> <<>>], [i \in DOMAIN node.kids |-> i]))

\* BatchWriter::apply: reads a node of the view, visited once, and applies to it
\* the changes beneath it.
ApplyRead(st, page, known, changes) ==
    IF st.error # "" THEN Unchanged(st)
    ELSE IF st.pages[page].kind = "leaf" THEN apply_leaf(st, page, known, changes)
    ELSE apply_internal(st, page, st.pages[page], changes)
apply_node(st, page, parent, known, changes) ==
    IF page \in st.visited THEN Unchanged(Fail(st, "INVALID_BTREE"))
    ELSE ApplyRead([ReadNode(st, page, parent, generation + 1) EXCEPT !.visited = @ \cup {page}],
                   page, known, changes)

\* BatchWriter::root: adds levels until one page holds all the pieces.
RECURSIVE grow_root(_, _, _)
GrowOn(w, level) == grow_root(w.st, w.pieces, level)
grow_root(st, pieces, level) ==
    IF Len(pieces) <= 1 \/ st.error # ""
    THEN [st |-> st, root |-> IF pieces = <<>> THEN NoPage ELSE pieces[1].page,
          hash |-> IF pieces = <<>> THEN {} ELSE pieces[1].hash]
    ELSE IF level + 1 >= MaxDepth
    THEN [st |-> Fail(st, "BTREE_LIMIT"), root |-> NoPage, hash |-> {}]
    ELSE GrowOn(write_internals(st, NoPage, level + 1,
                    [i \in DOMAIN pieces |->
                        Child(IF i = 1 THEN NoKey ELSE pieces[i].firstKey,
                              pieces[i].page, pieces[i].hash)]),
                level + 1)

Fresh(st) == [st EXCEPT !.visited = {}, !.inserted = 0, !.removed = 0]

\* A batch into a tree that holds nothing: its upserts are the cells, pages filled.
NewCell(cells, n) == [st |-> n.st, cells |-> Append(cells, n.cell)]
LoadCells(made) ==
    ReplacedBy(write_leaf_cells([made.st EXCEPT !.inserted = Len(made.cells)], NoPage,
                                made.cells, TRUE, Unknown))
load_empty(st, changes) ==
    LET upserts == SelectSeq(changes, LAMBDA c : c.value # Deletes)
    IN  IF upserts = <<>> THEN Unchanged(st)
        ELSE LoadCells(FoldLeft(LAMBDA acc, c : NewCell(acc.cells, new_value(acc.st, c.key, c.value)),
                                [st |-> st, cells |-> <<>>], upserts))

\* apply_as: [st, changed, root, hash]; a batch that changes nothing reports no
\* fingerprint and leaves the root.
RootUnchanged(st, rootPage) == [st |-> st, changed |-> FALSE, root |-> rootPage, hash |-> {}]
RootChanged(g) == [st |-> g.st, changed |-> g.st.error = "", root |-> g.root, hash |-> g.hash]
NewRoot(rootPage, level, a) ==
    IF ~a.changed \/ a.st.error # "" THEN RootUnchanged(a.st, rootPage)
    ELSE RootChanged(grow_root(a.st, a.pieces, level))
apply(st, rootPage, changes) ==
    IF changes = <<>> THEN RootUnchanged(st, rootPage)
    ELSE IF rootPage = NoPage THEN NewRoot(rootPage, 0, load_empty(st, changes))
    ELSE NewRoot(rootPage, st.pages[rootPage].level,
                 apply_node(st, rootPage, NoParent, Unknown, changes))

-----------------------------------------------------------------------------
(* The writers of one change, to which the tests hold a batch. *)

NodeSize(node) ==
    IF node.kind = "leaf" THEN Total(CellSizes(node.cells)) ELSE Total(KidSizes(node.kids))
ItemsOf(node) == IF node.kind = "leaf" THEN node.cells ELSE node.kids
Part(node, from, to) ==
    IF node.kind = "leaf" THEN [node EXCEPT !.cells = SubSeq(@, from, to)]
    ELSE [node EXCEPT !.kids = [SubSeq(@, from, to) EXCEPT ![1].separator = NoKey]]

\* choose_leaf_split, choose_internal_split: the first of the most even places
\* to split; a half of an internal node keeps a separator at least.
Uneven(left, right) == IF left > right THEN left - right ELSE right - left
MostEven(bounded) ==
    LET best == {p \in bounded : \A q \in bounded : Uneven(p[2], p[3]) <= Uneven(q[2], q[3])}
    IN  IF best = {} THEN 0 ELSE Min({p[1] : p \in best})
choose_split(node, n) ==
    LET least == IF node.kind = "leaf" THEN 1 ELSE 2
    IN  MostEven({p \in {<<i, NodeSize(Part(node, 1, i)), NodeSize(Part(node, i + 1, n))>> :
                             i \in least .. (n - least)} :
                     p[2] <= NodeCapacity /\ p[3] <= NodeCapacity})

NodeHash(node) == IF node.kind = "leaf" THEN CellsHash(node.cells) ELSE KidsHash(node.kids)
SplitKey(node, i) == IF node.kind = "leaf" THEN node.cells[i].key ELSE node.kids[i].separator

\* materialize_node and split_node: writes a node in place, or to a new page when
\* the committed tree has it, in two pages when it no longer fits one.  Both
\* pages are taken before the first is written.
WriteOne(a, node) == Written(<<>>, a, node, NoKey, NodeHash(node))
WriteTwo(a, b, left, right, key) ==
    LET first == WriteOne([a EXCEPT !.st = b.st], left)
    IN  Written(first.pieces, [b EXCEPT !.st = first.st], right, key, NodeHash(right))
SplitAt(a, node, n, split) ==
    WriteTwo(a, allocate_page(a.st), Part(node, 1, split), Part(node, split + 1, n),
             SplitKey(node, split + 1))
MaterializeSplit(st, page, node, n, split) ==
    IF split = 0 THEN [st |-> Fail(st, "BTREE_LIMIT"), pieces |-> <<>>]
    ELSE Released(SplitAt(page_for(st, 1, page), node, n, split), page, page \in st.owned)
materialize_node(st, page, node) ==
    IF NodeSize(node) <= NodeCapacity
    THEN Released(WriteOne(page_for(st, 1, page), node), page, page \in st.owned)
    ELSE MaterializeSplit(st, page, node, Len(ItemsOf(node)),
                          choose_split(node, Len(ItemsOf(node))))

\* insert_recursive
RECURSIVE insert_recursive(_, _, _, _, _)
InsertCell(page, cells, new) ==
    materialize_node(new.st, page,
        Leaf(generation + 1, WithCell(Without(cells, new.cell.key), new.cell)))
InsertLeaf(st, page, cells, key, value) ==
    InsertCell(page, cells,
        new_value(FoldLeft(release_leaf_value, st, SelectSeq(cells, LAMBDA c : c.key = key)),
                  key, value))
WithChild(kids, i, applied) ==
    SubSeq(kids, 1, i - 1) \o Pieces(kids[i], applied) \o SubSeq(kids, i + 1, Len(kids))
InsertBelow(page, node, i, below) ==
    IF below.st.error # "" THEN below
    ELSE materialize_node(below.st, page,
             Internal(generation + 1, node.level, WithChild(node.kids, i, ReplacedBy(below))))
InsertNode(st, page, node, key, value) ==
    IF st.error # "" THEN [st |-> st, pieces |-> <<>>]
    ELSE IF node.kind = "leaf" THEN InsertLeaf(st, page, node.cells, key, value)
    ELSE LET i == child_index_for(node, key)
         IN  InsertBelow(page, node, i,
                 insert_recursive(st, node.kids[i].page, Below(node), key, value))
insert_recursive(st, page, parent, key, value) ==
    InsertNode(ReadNode(st, page, parent, generation + 1), page, st.pages[page], key, value)

\* Btree::upsert
upsert(st, rootPage, key, value) ==
    NewRoot(rootPage, st.pages[rootPage].level,
            ReplacedBy(insert_recursive(st, rootPage, NoParent, key, value)))

\* delete_recursive: as one change, it takes the same way down, prunes the pages
\* it empties and advances the separators of those whose first key it removed.
RECURSIVE delete_recursive(_, _, _, _)
DeleteLeaf(st, page, key, held, cells) ==
    IF held = <<>> THEN Unchanged(st)
    ELSE LET freed == FoldLeft(release_leaf_value, st, held)
         IN  IF cells = <<>> THEN Replaced(release_page(freed, page), <<>>)
             ELSE FirstKeyIs(materialize_node(freed, page, Leaf(generation + 1, cells)),
                             IF cells[1].key > key THEN cells[1].key ELSE NoKey)
DeleteRejoined(st, page, level, kids) ==
    IF kids = <<>> THEN Replaced(release_page(st, page), <<>>)
    ELSE FirstKeyIs(materialize_node(st, page,
                        Internal(generation + 1, level, [kids EXCEPT ![1].separator = NoKey])),
                    kids[1].separator)
DeleteBelow(page, node, i, below) ==
    IF ~below.changed \/ below.st.error # "" THEN Unchanged(below.st)
    ELSE DeleteRejoined(below.st, page, node.level, WithChild(node.kids, i, below))
DeleteNode(st, page, node, key) ==
    IF st.error # "" THEN Unchanged(st)
    ELSE IF node.kind = "leaf"
    THEN DeleteLeaf(st, page, key, SelectSeq(node.cells, LAMBDA c : c.key = key),
                    Without(node.cells, key))
    ELSE LET i == child_index_for(node, key)
         IN  DeleteBelow(page, node, i,
                 delete_recursive(st, node.kids[i].page, Below(node), key))
delete_recursive(st, page, parent, key) ==
    DeleteNode(ReadNode(st, page, parent, generation + 1), page, st.pages[page], key)

\* Btree::delete: a root that is still there keeps its place.
RootDeleted(rootPage, done) ==
    [st |-> done.st, changed |-> done.changed /\ done.st.error = "",
     root |-> IF ~done.changed THEN rootPage
              ELSE IF done.pieces = <<>> THEN NoPage ELSE done.pieces[1].page,
     hash |-> IF done.pieces = <<>> THEN {} ELSE done.pieces[1].hash]
delete(st, rootPage, key) ==
    RootDeleted(rootPage, delete_recursive(st, rootPage, NoParent, key))

-----------------------------------------------------------------------------
(* Btree::reclaim. *)

\* reclaim_tree's traversal: every page beneath a root, nodes and chains.
RECURSIVE TreePages(_, _)
TreePages(pages, page) ==
    LET node == pages[page]
    IN  IF page = NoPage THEN <<>>
        ELSE IF node.kind = "leaf"
        THEN <<page>> \o FlattenSeq([i \in DOMAIN node.cells |-> CellPages(pages, node.cells[i])])
        ELSE IF node.kind = "internal"
        THEN <<page>> \o FlattenSeq([i \in DOMAIN node.kids |-> TreePages(pages, node.kids[i].page)])
        ELSE <<page>>
\* All pages are found, each of them once, before the first is freed.
reclaim(st0, rootPage) ==
    LET found == TreePages(st0.pages, rootPage)
    IN  IF IsInjective(found) THEN FoldLeft(release_page, Fresh(st0), found)
        ELSE Fail(st0, "INVALID_BTREE")

-----------------------------------------------------------------------------
(* Lookups and cursors. *)

\* get_prefixed_from: the value of a key beneath a page, Deletes for none.
RECURSIVE get(_, _, _)
get(pages, page, key) ==
    LET node == pages[page]
        found == {i \in DOMAIN node.cells : node.cells[i].key = key}
    IN  IF page = NoPage THEN Deletes
        ELSE IF node.kind = "internal"
        THEN get(pages, node.kids[child_index_for(node, key)].page, key)
        ELSE IF found = {} THEN Deletes
        ELSE node.cells[lower_bound(node, key) + 1].value

NoCursor == [open |-> FALSE]
Closed == [id |-> 0, root |-> NoPage, hash |-> {}, version |-> 0]
InTransaction == candidate.id # 0
\* CursorView: a committed generation, or a candidate and its tree's version.
View == IF InTransaction THEN <<generation + 1, candidate.id, candidate.version>>
        ELSE <<generation, 0, 0>>
ReadRoot == IF InTransaction THEN candidate.root ELSE root
LenOf(node) == Len(KeysOf(node))
EdgeOf(node, backward) == IF backward THEN LenOf(node) + 1 ELSE 1

\* descend_edge: to the first leaf under a page, or the last moving backward.
RECURSIVE descend_edge(_, _, _)
descend_edge(path, page, backward) ==
    LET node == store.pages[page]
    IN  IF node.kind = "leaf"
        THEN [path |-> path, leaf |-> node, index |-> IF backward THEN Len(node.cells) ELSE 0]
        ELSE LET edge == EdgeOf(node, backward)
             IN  descend_edge(Append(path, [node |-> node, index |-> edge]),
                              node.kids[edge].page, backward)

\* seek: the entries before the cursor are those below the bound.
RECURSIVE seek(_, _, _, _)
seek(path, page, bound, backward) ==
    LET node == store.pages[page]
        child == IF bound = NoKey THEN EdgeOf(node, backward)
                 ELSE IF backward THEN lower_bound(node, bound) + 1
                 ELSE child_index_for(node, bound)
    IN  IF node.kind = "leaf"
        THEN [path |-> path, leaf |-> node,
              index |-> IF bound # NoKey THEN lower_bound(node, bound)
                        ELSE IF backward THEN Len(node.cells) ELSE 0]
        ELSE seek(Append(path, [node |-> node, index |-> child]),
                  node.kids[child].page, bound, backward)

Remaining(at, backward) == IF backward THEN at.index > 0 ELSE at.index < Len(at.leaf.cells)

\* Mutant of advance_leaf: the path is not shortened past a finished node.
AdvanceSibling(at, backward) ==
    LET top == Last(at.path)
        sibling == IF backward THEN top.index - 1 ELSE top.index + 1
    IN  IF at.path = <<>> THEN at
        ELSE IF sibling \in DOMAIN top.node.kids
        THEN descend_edge(Append(Front(at.path), [top EXCEPT !.index = sibling]),
                          top.node.kids[sibling].page, backward)
        ELSE [at EXCEPT !.path = <<>>]
\* advance_leaf: up to the first node with a sibling to go to, and down to its edge.
RECURSIVE advance_leaf(_, _)
advance_leaf(at, backward) ==
    LET top == Last(at.path)
        sibling == IF backward THEN top.index - 1 ELSE top.index + 1
    IN  IF at.path = <<>> THEN at
        ELSE IF sibling \in DOMAIN top.node.kids
        THEN descend_edge(Append(Front(at.path), [top EXCEPT !.index = sibling]),
                          top.node.kids[sibling].page, backward)
        ELSE advance_leaf([at EXCEPT !.path = Front(@)], backward)
\* next_leaf_from: moves on while the leaf holds nothing that was not returned.
RECURSIVE next_leaf_from(_, _)
next_leaf_from(at, backward) ==
    IF Remaining(at, backward) \/ at.path = <<>> THEN at
    ELSE next_leaf_from(advance_leaf(at, backward), backward)

-----------------------------------------------------------------------------
(* Behaviours. *)

NoEntries == [k \in Keys |-> Deletes]
Held(map) == {k \in Keys : map[k] # Deletes}
Updated(map, changes) ==
    [k \in Keys |-> IF \E i \in DOMAIN changes : changes[i].key = k
                    THEN (CHOOSE c \in ToSet(changes) : c.key = k).value ELSE map[k]]
NoCount == [reported |-> <<0, 0>>, true |-> <<0, 0>>]

Init ==
    /\ store = [pages |-> [p \in DataPages |-> Unwritten], owned |-> {}, freed |-> {},
                error |-> "", visited |-> {}, inserted |-> 0, removed |-> 0]
    /\ live = {} /\ generation = 1 /\ root = NoPage /\ hash = {}
    /\ candidate = Closed /\ cursor = NoCursor /\ batches = 0
    /\ begun = 0
    /\ committed = NoEntries /\ entries = NoEntries /\ counted = NoCount

\* Pager::begin_write: a candidate of its own id, at the committed root.
BeginWrite ==
    /\ ~InTransaction /\ begun < MaxCandidates
    /\ begun' = begun + 1
    /\ candidate' = [id |-> begun + 1, root |-> root, hash |-> hash, version |-> 0]
    /\ entries' = committed
    /\ UNCHANGED <<store, live, generation, root, hash, cursor, batches, committed, counted>>

\* What a writer reports of a change: an error fails the candidate, no change
\* leaves root and fingerprint, and a change invalidates the candidate's cursors.
Write(result, changes) ==
    /\ InTransaction /\ store.error = "" /\ batches < Len(Batches)
    /\ batches' = batches + 1
    /\ store' = result.st
    /\ candidate' = IF result.changed
                    THEN [candidate EXCEPT !.root = result.root, !.hash = result.hash,
                                           !.version = @ + 1]
                    ELSE candidate
    /\ entries' = IF result.st.error = "" THEN Updated(entries, changes) ELSE entries
    /\ UNCHANGED <<live, generation, root, hash, cursor, committed, begun>>

\* Btree::apply
Apply(changes) ==
    /\ Write(apply(Fresh(store), candidate.root, changes), changes)
    /\ counted' = IF store'.error # "" THEN NoCount
                  ELSE [reported |-> <<store'.inserted, store'.removed>>,
                        true |-> <<Cardinality(Held(entries') \ Held(entries)),
                                   Cardinality(Held(entries) \ Held(entries'))>>]

Upsert(key, value) ==
    /\ candidate.root # NoPage
    /\ Write(upsert(Fresh(store), candidate.root, key, value), <<[key |-> key, value |-> value]>>)
    /\ counted' = NoCount
Delete(key) ==
    /\ candidate.root # NoPage
    /\ Write(delete(Fresh(store), candidate.root, key), <<[key |-> key, value |-> Deletes]>>)
    /\ counted' = NoCount

\* Btree::reclaim, of a dropped or rebuilt tree: its owner forgets the root.
Reclaim ==
    LET st == reclaim(store, candidate.root)
    IN  /\ candidate.root # NoPage
        /\ Write([st |-> st, changed |-> st.error = "", root |-> NoPage, hash |-> {}],
                 SetToSeq({[key |-> k, value |-> Deletes] : k \in Keys}))
        /\ counted' = NoCount

Cleared(pages, dropped) == [p \in DataPages |-> IF p \in dropped THEN Unwritten ELSE pages[p]]

\* PagerWriteTransaction::commit (Pager): the candidate's bitmap and root.
Commit ==
    /\ InTransaction /\ store.error = ""
    /\ live' = (live \ store.freed) \cup store.owned
    /\ store' = [Fresh(store) EXCEPT !.owned = {}, !.freed = {},
                                     !.pages = Cleared(@, store.freed)]
    /\ generation' = generation + 1
    /\ root' = candidate.root /\ hash' = candidate.hash /\ candidate' = Closed
    /\ committed' = entries
    /\ UNCHANGED <<cursor, batches, begun, entries, counted>>

\* PagerWriteTransaction::abort
Abort ==
    /\ InTransaction
    /\ store' = [Fresh(store) EXCEPT !.owned = {}, !.freed = {}, !.error = "",
                                     !.pages = Cleared(@, store.owned)]
    /\ candidate' = Closed /\ entries' = committed
    /\ UNCHANGED <<live, generation, root, hash, cursor, batches, begun, committed, counted>>

\* open_cursor: forward from the first key at or after `bound`, or backward from
\* the last before it.
OpenCursor(bound, backward) ==
    /\ ~cursor.open /\ store.error = "" /\ ReadRoot # NoPage
    /\ cursor' = [open |-> TRUE, view |-> View, bound |-> bound, backward |-> backward,
                  at |-> seek(<<>>, ReadRoot, bound, backward), seen |-> <<>>,
                  done |-> FALSE, over |-> IF InTransaction THEN entries ELSE committed]
    /\ UNCHANGED <<store, live, generation, root, hash, candidate, batches, begun,
                   committed, entries, counted>>

\* next_from: checks the view, moves to a leaf that has more, and takes an entry,
\* whose overflow pages it reads then.
CursorNext ==
    LET at == next_leaf_from(cursor.at, cursor.backward)
        index == IF cursor.backward THEN at.index ELSE at.index + 1
        cell == at.leaf.cells[index]
        value == IF ChunkCount[cell.value] = 0 \/ ChainIsValid(store, cell) THEN cell.value
                 ELSE "INVALID_OVERFLOW"
    IN  /\ cursor.open /\ ~cursor.done
        /\ cursor' =
              IF store.error # "" \/ cursor.view # View THEN NoCursor   \* CURSOR_INVALIDATED
              ELSE IF ~Remaining(at, cursor.backward)
              THEN [cursor EXCEPT !.at = at, !.done = TRUE]
              ELSE [cursor EXCEPT !.at = [at EXCEPT !.index = IF cursor.backward THEN @ - 1
                                                              ELSE @ + 1],
                                  !.seen = Append(@, <<cell.key, value>>)]
        /\ UNCHANGED <<store, live, generation, root, hash, candidate, batches, begun,
                       committed, entries, counted>>

Next ==
    \/ BeginWrite \/ Commit \/ Abort \/ Reclaim
    \/ \E changes \in UNION {Batches[i] : i \in {batches + 1} \cap DOMAIN Batches} : Apply(changes)
    \/ \E k \in Reference, v \in Values : Upsert(k, v)
    \/ \E k \in Reference : Delete(k)
    \/ \E bound \in Bounds, backward \in BOOLEAN : OpenCursor(bound, backward)
    \/ CursorNext

Spec == Init /\ [][Next]_vars

-----------------------------------------------------------------------------
(* Properties. *)

Usable == InTransaction /\ store.error = ""

\* A lookup in the committed tree, and in the candidate's until it fails, finds
\* for every key what the changes applied left there, whichever pages they
\* divided, emptied or rewrote (get_prefixed_from over BatchWriter), and a batch
\* counts the keys it added and removed.
ContentsAgree ==
    /\ \A k \in Keys : get(store.pages, root, k) = committed[k]
    /\ Usable => \A k \in Keys : get(store.pages, candidate.root, k) = entries[k]
    /\ counted.reported = counted.true

\* Every page that is allocated is reached from its root, and only once: no
\* change leaks a page, frees one that is still used, or shares one (page_for,
\* release_replaced, release_leaf_value, reclaim_tree).
PagesAccounted ==
    LET Owns(page, allocated) ==
            LET found == TreePages(store.pages, page)
            IN  ToSet(found) = allocated /\ IsInjective(found)
    IN  /\ Owns(root, live)
        /\ Usable => Owns(candidate.root, (live \ store.freed) \cup store.owned)

RECURSIVE EntriesUnder(_)
EntriesUnder(page) ==
    LET node == store.pages[page]
    IN  IF page = NoPage THEN {}
        ELSE IF node.kind = "leaf" THEN CellsHash(node.cells)
        ELSE UNION {EntriesUnder(node.kids[i].page) : i \in DOMAIN node.kids}
Nodes(page) ==
    {p \in ToSet(TreePages(store.pages, page)) : store.pages[p].kind # "overflow"}

\* The fingerprint of a tree, and the one that every node records of each child,
\* are those of the entries beneath, although batches update them by what they
\* changed (apply_leaf, apply_internal).
FingerprintsExact ==
    \A r \in {<<root, hash>>} \cup (IF Usable THEN {<<candidate.root, candidate.hash>>} ELSE {}) :
        /\ r[2] = EntriesUnder(r[1])
        /\ \A p \in Nodes(r[1]) :
              store.pages[p].kind = "internal" =>
                  \A i \in DOMAIN store.pages[p].kids :
                      store.pages[p].kids[i].hash = EntriesUnder(store.pages[p].kids[i].page)

\* No check of a reader refuses a tree that the writers made: levels, child
\* generations, overflow generations, order, and pages that still fit; the only
\* errors are the limits on pages and depth (validate_*, decode_in_place).
ReadersAccept ==
    /\ store.error \in {"", "DATABASE_FULL", "BTREE_LIMIT"}
    /\ Usable => \A p \in Nodes(candidate.root) :
           LET node == store.pages[p]
           IN  /\ ValidNode(node, generation + 1, p \in store.owned)
               /\ NodeSize(node) <= NodeCapacity
               /\ node.kind = "leaf" => \A i \in DOMAIN node.cells : ChainIsValid(store, node.cells[i])
               /\ node.kind = "internal" => \A i \in DOMAIN node.kids :
                      FitsParent(store.pages[node.kids[i].page], Below(node))

\* What a cursor has to return, in order.
Expected(c) ==
    LET keys == {k \in Held(c.over) : IF c.bound = NoKey THEN TRUE
                                      ELSE IF c.backward THEN k < c.bound ELSE k >= c.bound}
        ordered == SetToSortSeq(keys, LAMBDA a, b : IF c.backward THEN a > b ELSE a < b)
    IN  [i \in DOMAIN ordered |-> <<ordered[i], c.over[ordered[i]]>>]

\* A cursor returns the entries of the tree it was opened on, each once and in
\* order from its bound, or reports that it is invalid: it never mixes two
\* versions of a tree, nor reads pages a later change has reused (ensure_view).
CursorAgrees ==
    cursor.open => /\ IsPrefix(cursor.seen, Expected(cursor))
                   /\ cursor.done => cursor.seen = Expected(cursor)
====
