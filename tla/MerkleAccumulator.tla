--------------------------- MODULE MerkleAccumulator ---------------------------
(***************************************************************************)
(* The accumulator over the hashes of the sequenced transactions: an       *)
(* append only Merkle tree whose nodes are numbered in order, of which the *)
(* node keeps the roots of the full (frozen) subtrees, a bounded cache     *)
(* from positions to hashes and the nodes not flushed yet; and the         *)
(* accumulator in memory that computes the same root for the events of a   *)
(* transaction.  The sequencer saves the AccumulatorInfo of an order after *)
(* a flush; a restart, or a revert of the last orders, opens the tree      *)
(* again from one.                                                         *)
(*                                                                         *)
(* Hashes are free terms: <<>> is the placeholder, <<x>> a leaf and        *)
(* <<l, r>> the hash of an internal node.                                  *)
(***************************************************************************)
EXTENDS Integers, FiniteSets, Sequences, SequencesExt, FiniteSetsExt

CONSTANTS
  CacheSize,  \* MAX_CACHE_SIZE
  MaxLeaves,  \* bound: leaves of the accumulator
  MaxBatch,   \* bound: leaves of one append
  MaxSaves,   \* bound: infos saved at one time
  MaxReopens  \* bound: restarts and reverts

VARIABLES
  tree,    \* AccumulatorTree
  store,   \* the nodes in the database: hash -> node
  leaves,  \* history: the leaves of the tree
  infos,   \* the AccumulatorInfo saved after each flush, with its leaves
  reopens  \* counter behind the bound

vars == <<tree, store, leaves, infos, reopens>>

ASSUME AccumulatorAssumption ==
  /\ {CacheSize, MaxLeaves, MaxBatch, MaxSaves, MaxReopens} \subseteq Nat

Placeholder == <<>>
NoProof == "no proof"
HashOf(l, r) == <<l, r>>

--------------------------------------------------------------------------------
(* NodeIndex: positions in order; leaf i is 2i, and a node of level l ends *)
(* in a zero and l ones.                                                   *)

RECURSIVE level(_)
level(p) == IF p % 2 = 0 THEN 0 ELSE 1 + level(p \div 2)

RECURSIVE Log2(_)
Log2(n) == IF n < 2 THEN 0 ELSE 1 + Log2(n \div 2)

isolate_rightmost_zero_bit(p) == 2^level(p)

\* All ones from the most significant bit on.
smear_ones(n) == IF n = 0 THEN 0 ELSE 2^(Log2(n) + 1) - 1

from_leaf_index(i) == 2 * i
is_leaf(p) == p % 2 = 0
is_left_child(p) == (p \div (2 * isolate_rightmost_zero_bit(p))) % 2 = 0
sibling(p) ==
  LET bit == 2 * isolate_rightmost_zero_bit(p) IN IF is_left_child(p) THEN p + bit ELSE p - bit
parent(p) ==
  LET bit == isolate_rightmost_zero_bit(p) IN IF is_left_child(p) THEN p + bit ELSE p - bit
left_child(p) == p - isolate_rightmost_zero_bit(p) \div 2
right_child(p) == p + isolate_rightmost_zero_bit(p) \div 2
left_most_child(p) == p - (2^level(p) - 1)
right_most_child(p) == p + (2^level(p) - 1)
is_placeholder(p, i) == p > from_leaf_index(i) /\ left_most_child(p) > from_leaf_index(i)

root_from_leaf_count(n) == smear_ones(from_leaf_index(n - 1)) \div 2
root_level_from_leaf_count(n) == IF n = 1 THEN 0 ELSE Log2(n - 1) + 1

\* FrozenSubTreeIterator: the roots of the full subtrees of n leaves, from left to right.
RECURSIVE FrozenFrom(_, _)
FrozenFrom(bitmap, seen) ==
  IF bitmap = 0 THEN <<>>
  ELSE LET offset == smear_ones(bitmap) \div 2
       IN <<from_leaf_index(seen) + offset>> \o FrozenFrom(bitmap - (offset + 1), seen + offset + 1)

FrozenSubTrees(n) == FrozenFrom(n, 0)

\* The size of the smallest full subtree of n > 0 leaves: 1 << trailing_zeros.
RightmostSize(n) == CHOOSE b \in {2^i : i \in 0..Log2(n)} : n % b = 0 /\ (n \div b) % 2 = 1

\* FrozenSubtreeSiblingIterator: the subtrees to add to an accumulator of n leaves to get one of
\* n + rest leaves.
RECURSIVE FrozenSubtreeSiblings(_, _)
FrozenSubtreeSiblings(n, rest) ==
  IF rest = 0 THEN <<>>
  ELSE LET batch == 2^Log2(rest)
           size == IF n > 0 /\ rest >= RightmostSize(n) THEN RightmostSize(n) ELSE batch
       IN <<n + (n + size - 1)>> \o FrozenSubtreeSiblings(n + size, rest - size)

--------------------------------------------------------------------------------
(* Nodes and AccumulatorTree.  An append keeps the nodes it makes, the hash *)
(* of each frozen one by position, and the left siblings met, last last.   *)

Leaf(p, h) == [index |-> p, hash |-> h, left |-> Placeholder, right |-> Placeholder]
Internal(p, l, r) == [index |-> p, hash |-> HashOf(l, r), left |-> l, right |-> r]

ByPosition(ps, hs) == [p \in ToSet(ps) |-> hs[CHOOSE i \in DOMAIN ps : ps[i] = p]]

\* AccumulatorTree::new from an AccumulatorInfo.
Open(info) ==
  [frozen |-> info.frozen, num_leaves |-> info.num_leaves, num_nodes |-> info.num_nodes,
   root |-> info.root, index_cache |-> <<>>, update_nodes |-> {},
   index_frozen |-> IF info.frozen = <<>> THEN <<>>
                    ELSE ByPosition(FrozenSubTrees(info.num_leaves), info.frozen)]

get_info(t) ==
  [root |-> t.root, frozen |-> t.frozen, num_leaves |-> t.num_leaves, num_nodes |-> t.num_nodes]

EmptyInfo == [root |-> Placeholder, frozen |-> <<>>, num_leaves |-> 0, num_nodes |-> 0]

Larger(a, b) == IF a > b THEN a ELSE b
Smaller(a, b) == IF a < b THEN a ELSE b

\* A function with one more argument.
With(f, x, y) == [z \in DOMAIN f \cup {x} |-> IF z = x THEN y ELSE f[z]]

\* Mutant: a left sibling of an earlier append is not looked up.
get_node_frozen_hash_None(t, freeze, p) == IF p \in DOMAIN freeze THEN freeze[p] ELSE Placeholder

\* get_node_frozen_hash(..).unwrap_or(placeholder).
get_node_frozen_hash(t, freeze, p) ==
  IF p \in DOMAIN t.index_frozen THEN t.index_frozen[p]
  ELSE IF p \in DOMAIN freeze THEN freeze[p] ELSE Placeholder

\* The hash of the left sibling of position p, and the siblings left.
PopLeft(t, a, p) ==
  IF a.lefts # <<>> THEN [hash |-> Last(a.lefts).hash, lefts |-> Front(a.lefts)]
  ELSE [hash |-> get_node_frozen_hash(t, a.freeze, sibling(p)), lefts |-> <<>>]

\* Freeze the node at p with hash h, and the ancestors that are full with it.
RECURSIVE Freeze(_, _, _, _)
Freeze(t, a, p, node) ==
  LET b == [a EXCEPT !.nodes = Append(@, node), !.freeze = With(@, p, node.hash), !.count = @ + 1]
      pop == PopLeft(t, b, p)
  IN IF is_left_child(p)
     THEN [b EXCEPT !.lefts = Append(@, [pos |-> p, hash |-> node.hash])]
     ELSE Freeze(t, [b EXCEPT !.lefts = pop.lefts], parent(p),
                 Internal(parent(p), pop.hash, node.hash))

\* Walk up from the last node to the root, with placeholders on the right.
RECURSIVE Climb(_, _, _, _, _)
Climb(t, a, p, h, up) ==
  IF up = 0 THEN [a EXCEPT !.root = h]
  ELSE LET pop == PopLeft(t, a, p)
           node == IF is_left_child(p) THEN Internal(parent(p), h, Placeholder)
                   ELSE Internal(parent(p), pop.hash, h)
           b == [a EXCEPT !.path = Append(@, node),
                          !.lefts = IF is_left_child(p) THEN @ ELSE pop.lefts]
       IN Climb(t, b, parent(p), node.hash, up - 1)

\* Mutant: a position the cache knows is not written again.
save_node_indexes_Once(cache, nodes) ==
  [p \in DOMAIN cache \cup {n.index : n \in ToSet(nodes)} |->
     IF p \in DOMAIN cache THEN cache[p] ELSE SelectSeq(nodes, LAMBDA n : n.index = p)[1].hash]

\* save_node_indexes, before anything is evicted: the new hash of a position replaces the old one.
save_node_indexes(cache, nodes) ==
  [p \in DOMAIN cache \cup {n.index : n \in ToSet(nodes)} |->
     IF \E n \in ToSet(nodes) : n.index = p THEN SelectSeq(nodes, LAMBDA n : n.index = p)[1].hash
     ELSE cache[p]]

\* Mutant: nothing is ever evicted.
Evicted_Never(cache, write) == {cache}

\* What the LRU cache may hold then: the positions just written, the last ones if they are too
\* many, and as many of the old ones as fit.  Lookups reorder the old ones.
Evicted(cache, write) ==
  LET fresh == ToSet(SubSeq(write.put, Larger(Len(write.put) - CacheSize, 0) + 1, Len(write.put)))
      others == write.known \ ToSet(write.put)
      room == Smaller(CacheSize - Cardinality(fresh), Cardinality(others))
  IN {[p \in fresh \cup s |-> cache[p]] : s \in kSubset(room, others)}

\* How far the walk to the root goes from position p.
Levels(p, n) == root_level_from_leaf_count(n) - level(p)

\* append: the trees it may leave, by what the cache evicts.
append(t, new) ==
  LET n == t.num_leaves + Len(new)
      start == [nodes |-> <<>>, path |-> <<>>, freeze |-> <<>>, lefts |-> <<>>, count |-> 0, root |-> Placeholder]
      a == FoldLeftDomain(LAMBDA acc, i :
             LET p == from_leaf_index(t.num_leaves + i - 1)
             IN Freeze(t, acc, p, Leaf(p, <<new[i]>>)), start, new)
      last == Last(a.lefts)
      b == Climb(t, [a EXCEPT !.lefts = Front(@)], last.pos, last.hash, Levels(last.pos, n))
      roots == FrozenSubTrees(n)
      frozen == [i \in DOMAIN roots |-> get_node_frozen_hash(t, b.freeze, roots[i])]
      nodes == b.path \o b.nodes
      cache == save_node_indexes(t.index_cache, nodes)
      write == [known |-> DOMAIN t.index_cache, put |-> [i \in DOMAIN nodes |-> nodes[i].index]]
  IN {[frozen |-> frozen, num_leaves |-> n, num_nodes |-> t.num_nodes + b.count, root |-> b.root,
       index_cache |-> c, update_nodes |-> t.update_nodes \cup ToSet(nodes),
       index_frozen |-> ByPosition(roots, frozen)] : c \in Evicted(cache, write)}

\* No hash: bail!.
NotFound == <<Placeholder, Placeholder, Placeholder>>

\* get_node: from the nodes not flushed yet, or the store.
get_node(t, h) ==
  LET new == {n \in t.update_nodes : n.hash = h}
  IN IF new # {} THEN CHOOSE n \in new : TRUE
     ELSE IF h \in DOMAIN store THEN store[h] ELSE Leaf(-1, NotFound)

\* The descent from the node with hash h to position p.
RECURSIVE Descend(_, _, _)
Descend(t, h, p) ==
  LET node == get_node(t, h)
      next == IF node.index > p THEN left_child(node.index) ELSE right_child(node.index)
      down == IF node.index > p THEN node.left ELSE node.right
  IN IF node.index = p THEN node.hash
     ELSE IF node.index = -1 \/ is_leaf(node.index) THEN NotFound
     ELSE IF next = p THEN down
     ELSE IF down = Placeholder \/ is_leaf(next) THEN NotFound
     ELSE Descend(t, down, p)

\* The nearest ancestor the cache knows, or the root.
RECURSIVE NearestCached(_, _, _)
NearestCached(t, p, up) ==
  IF up = 0 THEN t.root
  ELSE IF parent(p) \in DOMAIN t.index_cache THEN t.index_cache[parent(p)]
  ELSE NearestCached(t, parent(p), up - 1)

get_node_hash_always(t, p) ==
  IF p \in DOMAIN t.index_frozen THEN t.index_frozen[p]
  ELSE IF p \in DOMAIN t.index_cache THEN t.index_cache[p]
  ELSE Descend(t, NearestCached(t, p, level(root_from_leaf_count(t.num_leaves)) + 1), p)

\* get_leaf: None, here the placeholder, past the last leaf.
get_leaf(t, i) ==
  LET rightmost == IF t.num_leaves = 0 THEN 0 ELSE t.num_leaves - 1
  IN IF is_placeholder(from_leaf_index(i), rightmost) THEN Placeholder
     ELSE get_node_hash_always(t, from_leaf_index(i))

\* Mutant: backwards, the leaf at the start itself is left out.
End_Exclusive(t, start, reverse, size) ==
  LET stop == IF reverse THEN start ELSE start + size
  IN Smaller(stop, t.num_leaves)

\* One past the last leaf of a page.
End(t, start, reverse, size) ==
  LET stop == IF reverse THEN start + 1 ELSE start + size
  IN Smaller(stop, t.num_leaves)

\* get_leaves: at most size of them from position start on, or backwards from it.
get_leaves(t, start, reverse, size) ==
  LET end == End(t, start, reverse, size)
      begin == IF reverse THEN Larger(end - size, 0) ELSE start
      up == [i \in 1..(end - begin) |-> get_leaf(t, begin + i - 1)]
  IN IF reverse THEN Reverse(up) ELSE up

\* iter_ancestor_sibling up to the root.
RECURSIVE AncestorSiblings(_, _)
AncestorSiblings(p, up) ==
  IF up = 0 THEN <<>> ELSE <<sibling(p)>> \o AncestorSiblings(parent(p), up - 1)

\* The positions of the siblings on the path from leaf i to the root of n leaves.
PathSiblings(n, i) == AncestorSiblings(from_leaf_index(i), level(root_from_leaf_count(n)))

\* No proof is given beyond the tree; the index after the last leaf is let through.
get_proof(t, i) ==
  LET ps == PathSiblings(t.num_leaves, i)
  IN IF i > t.num_leaves THEN NoProof ELSE [k \in DOMAIN ps |-> get_node_hash_always(t, ps[k])]

\* Mutant: the side of a sibling does not change on the way up.
verify_SameSide(siblings, root, h, i) ==
  root = FoldLeft(LAMBDA acc, s : IF i % 2 = 0 THEN HashOf(acc, s) ELSE HashOf(s, acc), h, siblings)

\* AccumulatorProof::verify.
verify(siblings, root, h, i) ==
  root = FoldLeftDomain(LAMBDA acc, k :
           IF (i \div 2^(k - 1)) % 2 = 0 THEN HashOf(acc, siblings[k]) ELSE HashOf(siblings[k], acc),
           h, siblings)

--------------------------------------------------------------------------------
(* InMemoryAccumulator: the frozen subtree roots and the number of leaves. *)

\* The last two roots become one, a number of times.
RECURSIVE Merge(_, _)
Merge(roots, times) ==
  IF times = 0 THEN roots
  ELSE LET rest == Front(Front(roots))
       IN Merge(Append(rest, HashOf(roots[Len(roots) - 1], Last(roots))), times - 1)

\* append_one: one merge for each trailing one of n.
append_one(roots, n, h) == Merge(Append(roots, h), level(n))

\* The loop of compute_root_hash, from the last root up.
RECURSIVE RootOf(_, _, _)
RootOf(roots, bitmap, h) ==
  IF bitmap = 0 THEN h
  ELSE IF bitmap % 2 = 1 THEN RootOf(Front(roots), bitmap \div 2, HashOf(Last(roots), h))
  ELSE RootOf(roots, bitmap \div 2, HashOf(h, Placeholder))

compute_root_hash(roots, n) ==
  IF roots = <<>> THEN Placeholder
  ELSE IF Len(roots) = 1 THEN roots[1]
  ELSE RootOf(roots, n \div RightmostSize(n), Placeholder)

\* from_leaves: the roots after appending the leaves one by one.
from_leaves(s) ==
  FoldLeftDomain(LAMBDA acc, i : append_one(acc, i - 1, <<s[i]>>), <<>>, s)

\* get_hash: the hash of position p in the tree of the leaves s, from the leaves alone.
RECURSIVE get_hash(_, _)
get_hash(s, p) ==
  IF is_placeholder(p, Len(s) - 1) THEN Placeholder
  ELSE IF is_leaf(p) THEN <<s[p \div 2 + 1]>>
  ELSE HashOf(get_hash(s, left_child(p)), get_hash(s, right_child(p)))

get_proof_from_leaves(s, i) ==
  LET ps == PathSiblings(Len(s), i) IN [k \in DOMAIN ps |-> get_hash(s, ps[k])]

\* Mutant: two subtrees of one size are combined, and the carry to the left is forgotten.
Combine_Once(roots, n, mask) == Merge(roots, 1)

\* A subtree as large as the rightmost frozen one is combined with it, and so on to the left.
RECURSIVE Combine(_, _, _)
Combine(roots, n, mask) ==
  IF (n \div mask) % 2 = 0 THEN roots ELSE Combine(Merge(roots, 1), n, 2 * mask)

RECURSIVE append_subtrees(_, _, _, _)
append_subtrees(roots, n, subtrees, rest) ==
  IF n = 0 \/ rest < RightmostSize(n) THEN roots \o subtrees
  ELSE LET size == RightmostSize(n)
       IN append_subtrees(Combine(Append(roots, Head(subtrees)), n, size), n + size,
                          Tail(subtrees), rest - size)

--------------------------------------------------------------------------------
(* The system: the sequencer appends, flushes and saves the info of the    *)
(* tree; a restart opens the tree from the last one, a revert from an      *)
(* earlier one.                                                            *)

Init ==
  /\ tree = Open(EmptyInfo)
  /\ store = <<>>
  /\ leaves = <<>>
  /\ infos = <<[info |-> EmptyInfo, leaves |-> <<>>]>>
  /\ reopens = 0

AppendLeaves(new) ==
  /\ Len(leaves) + Len(new) <= MaxLeaves
  /\ tree' \in append(tree, new)
  /\ leaves' = leaves \o new
  /\ UNCHANGED <<store, infos, reopens>>

\* Mutant: only frozen nodes are saved.
flush_FrozenOnly ==
  LET nodes == {n \in tree.update_nodes : right_most_child(n.index) < 2 * tree.num_leaves}
  IN /\ store' = [h \in DOMAIN store \cup {n.hash : n \in nodes} |->
                    IF h \in DOMAIN store THEN store[h] ELSE CHOOSE n \in nodes : n.hash = h]
     /\ tree' = [tree EXCEPT !.update_nodes = {}]

\* flush: every node not saved yet, by its hash.
flush ==
  LET nodes == tree.update_nodes
  IN /\ store' = [h \in DOMAIN store \cup {n.hash : n \in nodes} |->
                    IF \E n \in nodes : n.hash = h THEN CHOOSE n \in nodes : n.hash = h
                    ELSE store[h]]
     /\ tree' = [tree EXCEPT !.update_nodes = {}]

FlushAndSave ==
  /\ tree.update_nodes # {} /\ Len(infos) <= MaxSaves
  /\ flush
  /\ infos' = Append(infos, [info |-> get_info(tree), leaves |-> leaves])
  /\ UNCHANGED <<leaves, reopens>>

\* new_with_info, after a restart (the last info) or a revert (an earlier one).
Reopen(k) ==
  /\ reopens < MaxReopens
  /\ tree' = Open(infos[k].info)
  /\ leaves' = infos[k].leaves
  /\ infos' = SubSeq(infos, 1, k)
  /\ reopens' = reopens + 1
  /\ UNCHANGED store

\* The leaves are distinct transaction hashes.  Those of one epoch, between two reopens, are
\* named by their place and their epoch; after a revert the sequencer may order the same
\* transaction again or another one.
Batch(n, epoch) == [i \in 1..n |-> <<Len(leaves) + i, epoch>>]

Next ==
  \/ \E n \in 1..MaxBatch, epoch \in 0..reopens : AppendLeaves(Batch(n, epoch))
  \/ FlushAndSave
  \/ \E k \in DOMAIN infos : Reopen(k)

Spec == Init /\ [][Next]_vars

--------------------------------------------------------------------------------
(* Properties.                                                             *)

\* The nodes of the tree and of the store name their children, and the store has no node under
\* another hash: AccumulatorTree and AccumulatorTreeStore.
TypeOKAccumulator ==
  /\ tree.num_leaves = Len(leaves) /\ Len(leaves) <= MaxLeaves
  /\ Cardinality(DOMAIN tree.index_cache) <= CacheSize
  /\ \A h \in DOMAIN store : store[h].hash = h
  /\ \A n \in tree.update_nodes \cup Range(store) :
       n.index \in Nat /\ (n.hash = HashOf(n.left, n.right) \/ is_leaf(n.index))
  /\ reopens \in 0..MaxReopens

\* The trees that may answer: the live one and one opened from any saved info, with their leaves.
Trees == {[tree |-> tree, leaves |-> leaves]}
         \cup {[tree |-> Open(i.info), leaves |-> i.leaves] : i \in Range(infos)}

\* However the leaves were batched, flushed, reverted and appended again, the root of the tree
\* is that of the leaves padded with placeholders, and its frozen roots are those the in memory
\* accumulator computes leaf by leaf, with the same root: the sequencer's accumulator
\* (tree.rs append) and the one of the events (inmemory append) agree.  The number of nodes is
\* that of the full subtrees.
RootsAgree ==
  LET n == Len(leaves)
      roots == from_leaves(leaves)
  IN /\ tree.frozen = roots
     /\ tree.root = compute_root_hash(roots, n)
     /\ n > 0 => tree.root = get_hash(leaves, root_from_leaf_count(n))
     /\ tree.num_nodes = 2 * n - Len(roots)

\* What the cache says of a position is what the leaves give it now: an append overwrites the
\* positions on the right edge it changes (tree.rs save_node_indexes).
CacheIsCurrent ==
  \A p \in DOMAIN tree.index_cache : tree.index_cache[p] = get_hash(leaves, p)

\* Whatever the cache has dropped, and from any info saved after a flush, every leaf is found
\* at its index: the nodes an info needs are in the store before it (tree.rs flush,
\* get_node_hash_always).
LeavesAreFound ==
  \A t \in Trees : \A i \in DOMAIN t.leaves : get_leaf(t.tree, i - 1) = <<t.leaves[i]>>

\* A page of leaves, forwards or backwards, is the slice of the sequence it names, cut at its
\* ends (lib.rs get_leaves).
PagesAreSlices ==
  \A start \in 0..MaxLeaves, size \in 1..2 :
    LET hashes == [i \in DOMAIN leaves |-> <<leaves[i]>>]
        n == Len(leaves)
    IN leaves # <<>> =>
       /\ get_leaves(tree, start, FALSE, size) =
            SubSeq(hashes, start + 1, Smaller(start + size, n))
       /\ get_leaves(tree, start, TRUE, size) =
            Reverse(LET last == Smaller(start + 1, n)
                    IN SubSeq(hashes, Larger(last - size, 0) + 1, last))

\* Single leaves and pages of them are what was appended.
LeavesAreServed == LeavesAreFound /\ PagesAreSlices

\* A proof the tree gives is the one computed from the leaves alone; it verifies against the
\* root for its leaf at its index and for no other leaf or index of the tree (get_proof,
\* get_proof_from_leaves, AccumulatorProof::verify).
ProofsVerify ==
  /\ \A t \in Trees : \A i \in DOMAIN t.leaves :
       get_proof(t.tree, i - 1) = get_proof_from_leaves(t.leaves, i - 1)
  /\ \A i \in DOMAIN leaves :
       LET proof == get_proof_from_leaves(leaves, i - 1)
       IN \A j, k \in DOMAIN leaves :
            verify(proof, tree.root, <<leaves[j]>>, k - 1) <=> j = i /\ k = i

\* A prefix of the leaves extended by the subtrees FrozenSubtreeSiblingIterator names is the
\* accumulator of all the leaves: a verifier that knows an old accumulator needs no leaf
\* (inmemory append_subtrees).
SubtreesExtend ==
  \A n \in 0..Len(leaves) :
    LET ps == FrozenSubtreeSiblings(n, Len(leaves) - n)
    IN append_subtrees(from_leaves(SubSeq(leaves, 1, n)), n,
                       [k \in DOMAIN ps |-> get_hash(leaves, ps[k])], Len(leaves) - n)
         = from_leaves(leaves)

\* The tree in memory, its cache and the in memory accumulator agree on the leaves so far.
AccumulatorInv == TypeOKAccumulator /\ RootsAgree /\ CacheIsCurrent /\ SubtreesExtend

================================================================================
