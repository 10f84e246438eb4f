------------------------------ MODULE MCBTree ------------------------------
(* Small trees: a page holds three narrow cells or one wide and a narrow one, *)
(* or four children, so that five leaves already make three levels.           *)
EXTENDS BTree

MCSize == [s |-> 1, w |-> 2, big |-> 1]
MCChunkCount == [s |-> 0, w |-> 0, big |-> 2]

Changes(keys, values) ==
    {[i \in DOMAIN ks |-> [key |-> ks[i], value |-> f[ks[i]]]] :
        ks \in {SetToSortSeq(keys, <)}, f \in [keys -> values]}
Of(size, keys, values) == UNION {Changes(ks, values) : ks \in kSubset(size, keys)}
\* A load of all keys with wide cells, or of some with narrow ones, then a change
\* of two keys, or of one, then the deletion of the first, the middle or the last.
Loads == Changes(Keys, {"w"}) \cup Changes(Keys \ {2}, {"s"})
MCBatches == <<Loads, Of(2, Keys, {"big", Deletes}) \cup Of(1, Keys, {"w"}),
               Of(1, {1, 3, 5}, {Deletes})>>
============================================================================
