------------------------------- MODULE StateTree -------------------------------
(***************************************************************************)
(* The sparse Merkle tree of the state store: a Jellyfish Merkle tree      *)
(* whose nodes are kept under their hashes.  An update builds the new      *)
(* nodes in a TreeCache on top of any root the node store holds, and the   *)
(* batch it returns is written to the store; nothing is ever pruned.       *)
(*                                                                         *)
(* A key is its path (MerkleHashType keys are not hashed again), a         *)
(* sequence of nibbles.  Hashes are free terms: <<>> is the placeholder,   *)
(* <<k, v, "leaf">> the hash of a leaf and <<l, r>> that of a binary       *)
(* internal node, so equal hashes are equal contents.  A nibble has        *)
(* NibbleBits bits instead of 4 and a path Height nibbles instead of 64.   *)
(***************************************************************************)
EXTENDS Integers, FiniteSets, Sequences, SequencesExt

CONSTANTS
  Keys,         \* keys of the tree: sequences of Height nibbles
  ValuesOf(_),  \* the values a key may have
  None,         \* no value: the update of a key is its removal
  NibbleBits,   \* bits of a nibble
  Height,       \* ROOT_NIBBLE_HEIGHT
  MaxVersions   \* bound: committed roots

VARIABLES
  nodes,    \* the node store: hash -> encoded node
  versions, \* every committed root, with the map it was computed for
  failed,   \* whether an update ended with an error or an assertion
  batch     \* the last update: its roots, its node batch and its stale nodes

vars == <<nodes, versions, failed, batch>>

Nibble == 0..(2^NibbleBits - 1)

ASSUME TreeAssumption ==
  /\ Keys \subseteq [1..Height -> Nibble]
  /\ \A k \in Keys : None \notin ValuesOf(k)
  /\ NibbleBits \in Nat \ {0} /\ Height \in Nat \ {0} /\ MaxVersions \in Nat

--------------------------------------------------------------------------------
(* Paths.                                                                  *)

\* The bits of a path, the most significant of a nibble first.
iter_bits(k) ==
  [i \in 1..(Height * NibbleBits) |->
     LET n == k[((i - 1) \div NibbleBits) + 1]
         b == NibbleBits - 1 - ((i - 1) % NibbleBits)
     IN (n \div 2^b) % 2]

\* The number of leading elements two sequences share.
skip_common_prefix(x, y) == Cardinality({n \in DOMAIN x : \A i \in 1..n : x[i] = y[i]})

common_prefix_bits_len(j, k) == skip_common_prefix(iter_bits(j), iter_bits(k))

Before(j, k) ==
  LET n == skip_common_prefix(j, k)
  IN n < Height /\ j[n + 1] < k[n + 1]

InOrder(S) == SetToSortSeq(S, Before)

--------------------------------------------------------------------------------
(* Nodes.                                                                  *)

Placeholder == <<>>
Null == [kind |-> "null"]
Missing == [kind |-> "missing"]
Leaf(k, v) == [kind |-> "leaf", key |-> k, value |-> v]
Internal(children) == [kind |-> "internal", children |-> children]
Child(h, leaf) == [hash |-> h, is_leaf |-> leaf]
is_leaf(node) == node.kind = "leaf"

\* The code hashes key and value of a leaf the way it hashes two children.  The tag stands for
\* what a hash gives: keys and values are not taken for the hashes of children.
LeafHash(k, v) == <<k, v, "leaf">>

\* The children of an internal node in a range, and the only one of them.
range_bitmaps(children, start, width) == DOMAIN children \cap (start..(start + width - 1))
OnlyChild(children, range) == children[CHOOSE n \in range : TRUE]

\* Whether the subtree over a range of children is one of them and not hashed further.
Collapses(children, range, width) ==
  /\ Cardinality(range) = 1
  /\ OnlyChild(children, range).is_leaf \/ width = 1

\* The hash of the binary subtree over a range of children.
RECURSIVE make_hash(_, _, _)
make_hash(children, start, width) ==
  LET range == range_bitmaps(children, start, width)
  IN IF range = {} THEN Placeholder
     ELSE IF Collapses(children, range, width) THEN OnlyChild(children, range).hash
     ELSE <<make_hash(children, start, width \div 2),
            make_hash(children, start + width \div 2, width \div 2)>>

merkle_hash(node) ==
  CASE node.kind = "null" -> Placeholder
    [] node.kind = "leaf" -> LeafHash(node.key, node.value)
    [] node.kind = "internal" -> make_hash(node.children, 0, 2^NibbleBits)

\* InternalNode::new asserts that it is needed.
WellFormed(children) ==
  /\ DOMAIN children # {}
  /\ Cardinality(DOMAIN children) = 1 =>
       ~OnlyChild(children, DOMAIN children).is_leaf

Rank(n, S) == Cardinality({m \in S : m <= n})

\* Node::encode: an internal node is written as the bitmaps of its children and of its leaves,
\* and the hashes of the children in the order of their nibbles.
encode(node) ==
  IF node.kind # "internal" THEN node
  ELSE LET S == DOMAIN node.children
       IN [kind |-> "internal", existence |-> S, leaves |-> {n \in S : node.children[n].is_leaf},
           hashes |-> [i \in 1..Cardinality(S) |->
                         node.children[CHOOSE n \in S : Rank(n, S) = i].hash]]

\* Node::decode; bitmaps that do not fit and bytes that run out are errors.
decode(data) ==
  IF data.kind # "internal" THEN data
  ELSE IF \/ data.existence = {} \/ ~(data.leaves \subseteq data.existence)
          \/ Len(data.hashes) < Cardinality(data.existence)
  THEN Missing
  ELSE Internal([n \in data.existence |->
                   Child(data.hashes[Rank(n, data.existence)], n \in data.leaves)])

\* get_child_with_siblings: the child that stands for nibble n, if any, and the siblings of the
\* ranges around it, the widest first.
RECURSIVE SiblingsBelow(_, _, _)
SiblingsBelow(children, n, width) ==
  LET start == (n \div width) * width
      sibling == IF (start \div width) % 2 = 0 THEN start + width ELSE start - width
      range == range_bitmaps(children, start, width)
      here == <<make_hash(children, sibling, width)>>
  IN IF range = {} THEN [child |-> None, siblings |-> here]
     ELSE IF Collapses(children, range, width)
     THEN [child |-> OnlyChild(children, range).hash, siblings |-> here]
     ELSE LET below == SiblingsBelow(children, n, width \div 2)
          IN [below EXCEPT !.siblings = here \o @]

get_child_with_siblings(children, n) == SiblingsBelow(children, n, 2^(NibbleBits - 1))

--------------------------------------------------------------------------------
(* TreeCache.                                                              *)

\* TreeCache::new on a root of the store.
NewCache(root) ==
  [root |-> root, node_cache |-> <<>>, stale |-> {}, new_leaves |-> 0, stale_leaves |-> 0,
   error |-> FALSE]

\* The store itself, and the store behind a cache.
get_node_option(h) ==
  IF h = Placeholder THEN Null ELSE IF h \in DOMAIN nodes THEN decode(nodes[h]) ELSE Missing
get_node(c, h) ==
  IF h # Placeholder /\ h \in DOMAIN c.node_cache THEN c.node_cache[h] ELSE get_node_option(h)

\* Mutant: a leaf is kept under the hash of its key.
put_node_ByKey(c, node) ==
  LET h == IF is_leaf(node) THEN LeafHash(node.key, None) ELSE merkle_hash(node)
  IN IF h \in DOMAIN c.node_cache THEN [c EXCEPT !.error = TRUE]
     ELSE [c EXCEPT !.node_cache = [x \in DOMAIN @ \cup {h} |-> IF x = h THEN node ELSE @[x]],
                    !.new_leaves = IF is_leaf(node) THEN @ + 1 ELSE @]

\* A node the cache holds already is an error.
put_node(c, node) ==
  LET h == merkle_hash(node)
  IN IF h \in DOMAIN c.node_cache THEN [c EXCEPT !.error = TRUE]
     ELSE [c EXCEPT !.node_cache = [x \in DOMAIN @ \cup {h} |-> IF x = h THEN node ELSE @[x]],
                    !.new_leaves = IF is_leaf(node) THEN @ + 1 ELSE @]

\* Mutant: the replaced node stays in the batch.
delete_node_Kept(c, h, leaf) ==
  IF h \in DOMAIN c.node_cache THEN c
  ELSE [c EXCEPT !.stale = @ \cup {h},
                 !.stale_leaves = IF leaf THEN @ + 1 ELSE @]

\* A node of the cache is dropped, one of the store becomes stale, once.
delete_node(c, h, leaf) ==
  IF h \in DOMAIN c.node_cache
  THEN [c EXCEPT !.node_cache = [x \in DOMAIN @ \ {h} |-> @[x]],
                 !.new_leaves = IF leaf THEN @ - 1 ELSE @]
  ELSE [c EXCEPT !.error = @ \/ h \in c.stale,
                 !.stale = @ \cup {h},
                 !.stale_leaves = IF leaf THEN @ + 1 ELSE @]

--------------------------------------------------------------------------------
(* JellyfishMerkleTree.  An insertion returns the node that takes the      *)
(* place of the one it was made at, and the cache; d nibbles of the key    *)
(* have been visited.                                                      *)

Result(node, c) == [key |-> merkle_hash(node), node |-> node, cache |-> c]
Failure(c) == Result(Null, [c EXCEPT !.error = TRUE])

create_leaf_node(c, k, v) == Result(Leaf(k, v), put_node(c, Leaf(k, v)))

\* A chain of internal nodes for the nibbles from .. to of key k, put bottom up, over a node.
RECURSIVE Chain(_, _, _, _, _)
Chain(c, k, from, to, node) ==
  IF from > to THEN Result(node, c)
  ELSE LET up == Internal(k[to] :> Child(merkle_hash(node), FALSE))
       IN Chain(put_node(c, up), k, from, to - 1, up)

\* Mutant: a removal that ends at a leaf removes it, whatever its key.
insert_at_leaf_node_AnyKey(c, leaf, d, k, v) ==
  LET h == merkle_hash(leaf)
      common == skip_common_prefix(leaf.key, k)
      fork == Internal(leaf.key[common + 1] :> Child(h, TRUE) @@
                       k[common + 1] :> Child(LeafHash(k, v), TRUE))
  IN IF v = None THEN Result(Null, delete_node(c, h, TRUE))
     ELSE IF common < Height
     THEN Chain(put_node(create_leaf_node(c, k, v).cache, fork), k, d + 1, common, fork)
     ELSE IF v = leaf.value THEN Result(leaf, c)
     ELSE create_leaf_node(delete_node(c, h, TRUE), k, v)

\* The same key is updated or removed; another key splits the leaf.
insert_at_leaf_node(c, leaf, d, k, v) ==
  LET h == merkle_hash(leaf)
      common == skip_common_prefix(leaf.key, k)
  IN IF common < d THEN Failure(c)
     ELSE IF common = Height
     THEN IF v = None THEN Result(Null, delete_node(c, h, TRUE))
          ELSE IF v = leaf.value THEN Result(leaf, c)
          ELSE create_leaf_node(delete_node(c, h, TRUE), k, v)
     ELSE IF v = None THEN Result(leaf, c)
     ELSE LET fork == Internal(leaf.key[common + 1] :> Child(h, TRUE) @@
                               k[common + 1] :> Child(LeafHash(k, v), TRUE))
              c1 == create_leaf_node(c, k, v).cache
          IN Chain(put_node(c1, fork), k, d + 1, common, fork)

\* Mutant: a lone leaf is left below an internal node.
Shrunk_NotCollapsed(c, children) ==
  IF DOMAIN children = {} THEN Result(Null, c)
  ELSE LET node == Internal(children) IN Result(node, put_node(c, node))

\* What is left of an internal node with the given children: nothing, its only leaf, or itself.
Shrunk(c, children) ==
  IF DOMAIN children = {} THEN Result(Null, c)
  ELSE IF ~WellFormed(children)
  THEN LET leaf == get_node(c, OnlyChild(children, DOMAIN children).hash)
       IN IF leaf.kind = "leaf" THEN Result(leaf, c) ELSE Failure(c)
  ELSE LET node == Internal(children) IN Result(node, put_node(c, node))

RECURSIVE insert_at(_, _, _, _, _)

insert_at_internal_node(c, node, d, k, v) ==
  LET n == k[d + 1]
      old == node.children
      sub == IF n \in DOMAIN old THEN insert_at(c, old[n].hash, d + 1, k, v)
             ELSE IF v = None THEN Result(Null, c)
             ELSE create_leaf_node(c, k, v)
      new == Child(sub.key, is_leaf(sub.node))
      rest == [m \in DOMAIN old \ {n} |-> old[m]]
  IN IF sub.node = Null /\ n \notin DOMAIN old THEN Result(node, sub.cache)
     ELSE IF n \in DOMAIN old /\ old[n] = new THEN Result(node, sub.cache)
     ELSE Shrunk(delete_node(sub.cache, merkle_hash(node), FALSE),
                 IF sub.node = Null THEN rest ELSE (n :> new) @@ rest)

insert_at(c, h, d, k, v) ==
  LET node == get_node(c, h)
  IN CASE node.kind = "missing" -> Failure(c)
       [] node.kind = "internal" -> insert_at_internal_node(c, node, d, k, v)
       [] node.kind = "leaf" -> insert_at_leaf_node(c, node, d, k, v)
       [] node.kind = "null" -> IF v = None THEN Result(Null, c)
                                ELSE create_leaf_node(delete_node(c, h, FALSE), k, v)

put(c, k, v) ==
  LET r == insert_at(c, c.root, 0, k, v)
  IN [r.cache EXCEPT !.root = r.key]

\* An UpdateSet is a map; its keys are put in order.
updates(root, u) ==
  FoldLeft(LAMBDA c, k : IF c.error THEN c ELSE put(c, k, u[k]), NewCache(root), InOrder(DOMAIN u))

--------------------------------------------------------------------------------
(* Reading: proofs.                                                        *)

\* get_with_proof from node h on, with the siblings met so far, the lowest first.
RECURSIVE Find(_, _, _, _)
Find(h, d, k, siblings) ==
  LET node == get_node_option(h)
      Answer(v, leaf) == [value |-> v, leaf |-> leaf, siblings |-> siblings]
  IN CASE node.kind = "leaf" ->
            Answer(IF node.key = k THEN node.value ELSE None, <<node.key, node.value>>)
       [] node.kind = "internal" ->
            LET step == get_child_with_siblings(node.children, k[d + 1])
                met == Reverse(step.siblings) \o siblings
            IN IF step.child = None THEN [value |-> None, leaf |-> None, siblings |-> met]
               ELSE Find(step.child, d + 1, k, met)
       [] node.kind = "null" /\ d = 0 -> Answer(None, None)
       [] OTHER -> Answer(Missing, None)

get_with_proof(root, k) == Find(root, 0, k, <<>>)

\* The root that a hash and its siblings, the lowest first, give on the path of k.
RootBy(k, hash, siblings) ==
  FoldLeft(LAMBDA acc, i : IF iter_bits(k)[Len(siblings) - i + 1] = 1
                           THEN <<siblings[i], acc>> ELSE <<acc, siblings[i]>>,
           hash, [i \in DOMAIN siblings |-> i])

\* Mutant: the leaf of a proof of absence is not compared with the key.
verify_AnyLeaf(proof, root, k, v) ==
  /\ v # None => proof.leaf = <<k, v>>
  /\ RootBy(k, IF proof.leaf = None THEN Placeholder ELSE LeafHash(proof.leaf[1], proof.leaf[2]),
            proof.siblings) = root

\* SparseMerkleProof::verify: the value v of k, or its absence if v is None.
verify(proof, root, k, v) ==
  /\ v # None => proof.leaf = <<k, v>>
  /\ v = None /\ proof.leaf # None =>
       /\ proof.leaf[1] # k
       /\ common_prefix_bits_len(k, proof.leaf[1]) >= Len(proof.siblings)
  /\ RootBy(k, IF proof.leaf = None THEN Placeholder ELSE LeafHash(proof.leaf[1], proof.leaf[2]),
            proof.siblings) = root

\* Mutant: one placeholder too few between the new leaf and the old one.
Between_Short(proof, k) == common_prefix_bits_len(proof.leaf[1], k) - Len(proof.siblings)

\* The siblings a new leaf has below those of the proof of its absence.
Between(proof, k) == common_prefix_bits_len(proof.leaf[1], k) - Len(proof.siblings) + 1

\* update_leaf: the root after k is added, from a proof of its absence.
update_leaf(proof, k, v) ==
  LET above ==
        IF proof.leaf = None THEN <<>>
        ELSE [i \in 1..Between(proof, k) |->
                IF i = 1 THEN LeafHash(proof.leaf[1], proof.leaf[2]) ELSE Placeholder]
  IN RootBy(k, LeafHash(k, v), above \o proof.siblings)

--------------------------------------------------------------------------------
(* Reading: the iterator.                                                  *)

\* NodeVisitInfo: the children of an internal node and the next one to visit.
Visit(children, n) ==
  [children |-> children, next |-> CHOOSE m \in DOMAIN children :
     m >= n /\ \A l \in DOMAIN children : l >= n => m <= l]
is_rightmost(info) == \A n \in DOMAIN info.children : n <= info.next
advance(info) == Visit(info.children, info.next + 1)

\* Mutant: only the last node is looked at.
cleanup_stack_Once(stack) ==
  IF stack = <<>> THEN stack
  ELSE IF is_rightmost(Last(stack)) THEN Front(stack)
  ELSE Append(Front(stack), advance(Last(stack)))

\* cleanup_stack: exhausted nodes are popped and the last other one is advanced.
RECURSIVE cleanup_stack(_)
cleanup_stack(stack) ==
  IF stack = <<>> THEN stack
  ELSE IF is_rightmost(Last(stack)) THEN cleanup_stack(Front(stack))
  ELSE Append(Front(stack), advance(Last(stack)))

\* JellyfishMerkleIterator::new: go down the path of the start key.
RECURSIVE Seek(_, _, _)
Seek(h, start, stack) ==
  LET node == get_node_option(h)
  IN IF node.kind = "internal"
     THEN LET children == node.children
              n == start[Len(stack) + 1]
          IN IF n \in DOMAIN children
             THEN Seek(children[n].hash, start, Append(stack, Visit(children, n)))
             ELSE [done |-> FALSE,
                   stack |-> IF \E m \in DOMAIN children : n < m
                             THEN Append(stack, Visit(children, n))
                             ELSE cleanup_stack(stack)]
     ELSE LET past == is_leaf(node) /\ Before(node.key, start)
              left == IF past THEN cleanup_stack(stack) ELSE stack
          IN [done |-> ~is_leaf(node) \/ (past /\ left = <<>>), stack |-> left]

iter(root, start) == Seek(root, IF start = None THEN [i \in 1..Height |-> 0] ELSE start, <<>>)

\* Iterator::next: the next leaf and the iterator after it; None at the end.
RECURSIVE next(_, _)
next(root, it) ==
  LET over == [item |-> None, it |-> it]
  IN IF it.done THEN over
     ELSE IF it.stack = <<>>
     THEN LET node == get_node_option(root)
          IN IF is_leaf(node) THEN [item |-> node.key, it |-> [it EXCEPT !.done = TRUE]] ELSE over
     ELSE LET top == Last(it.stack)
              node == get_node_option(top.children[top.next].hash)
          IN CASE node.kind = "internal" ->
                    next(root, [it EXCEPT !.stack = Append(@, Visit(node.children, 0))])
               [] node.kind = "leaf" ->
                    [item |-> node.key, it |-> [it EXCEPT !.stack = cleanup_stack(@)]]
               [] OTHER -> [item |-> Missing, it |-> [it EXCEPT !.done = TRUE]]

\* At most limit keys from an iterator on.
RECURSIVE Take(_, _, _)
Take(root, it, limit) ==
  LET step == next(root, it)
  IN IF limit = 0 \/ step.item = None THEN <<>>
     ELSE <<step.item>> \o Take(root, step.it, limit - 1)

\* SMTree::list: with a starting key, one item is skipped.
list(root, start, limit) ==
  LET it == iter(root, start)
  IN Take(root, IF start = None THEN it ELSE next(root, it).it, limit)

\* A tree has no more leaves than there are keys: one more than that is no limit.
NoLimit == Cardinality(Keys) + 1

dump(root) == Take(root, iter(root, None), NoLimit)

--------------------------------------------------------------------------------
(* The store over time.                                                    *)

Empty == [root |-> Placeholder, map |-> [k \in {} |-> None]]

InitTree ==
  /\ nodes = <<>>
  /\ versions = {Empty}
  /\ failed = FALSE
  /\ batch = [old |-> Placeholder, new |-> Placeholder, nodes |-> {}, stale |-> {},
              new_leaves |-> 0, stale_leaves |-> 0]

\* The map after an update set is applied to it.
Applied(map, u) ==
  LET kept == {k \in DOMAIN map : k \notin DOMAIN u}
      set == {k \in DOMAIN u : u[k] # None}
  IN [k \in kept \cup set |-> IF k \in set THEN u[k] ELSE map[k]]

UpdateSets == {u \in UNION {[S -> {None} \cup UNION {ValuesOf(k) : k \in Keys}] : S \in SUBSET Keys} :
                 DOMAIN u # {} /\ \A k \in DOMAIN u : u[k] \in {None} \cup ValuesOf(k)}

\* SMTree::updates on the root of some version, and write_nodes of the batch it returns.
Update(x, u) ==
  LET c == updates(x.root, u)
  IN /\ Cardinality(versions) < MaxVersions
     /\ IF c.error
        THEN failed' = TRUE /\ UNCHANGED <<nodes, versions, batch>>
        ELSE /\ nodes' = [h \in DOMAIN nodes \cup DOMAIN c.node_cache |->
                            IF h \in DOMAIN c.node_cache THEN encode(c.node_cache[h]) ELSE nodes[h]]
             /\ versions' = versions \cup {[root |-> c.root, map |-> Applied(x.map, u)]}
             /\ batch' = [old |-> x.root, new |-> c.root, nodes |-> DOMAIN c.node_cache,
                          stale |-> c.stale \ {Placeholder},
                          new_leaves |-> c.new_leaves, stale_leaves |-> c.stale_leaves]
             /\ UNCHANGED failed

NextTree == \E x \in versions, u \in UpdateSets : Update(x, u)

SpecTree == InitTree /\ [][NextTree]_vars

--------------------------------------------------------------------------------
(* Properties.                                                             *)

\* Every node of the store is kept under its own hash.
TypeOKTree ==
  /\ \A h \in DOMAIN nodes :
       LET node == get_node_option(h)
       IN merkle_hash(node) = h /\ (node.kind = "internal" => WellFormed(node.children))
  /\ failed \in BOOLEAN

\* The definition a root is judged by: the 256-bit sparse Merkle tree in which a subtree of no or
\* of one key is replaced by the placeholder or by its leaf.
RECURSIVE Reference(_, _)
Reference(map, depth) ==
  LET Half(b) == [k \in {j \in DOMAIN map : iter_bits(j)[depth + 1] = b} |-> map[k]]
  IN IF DOMAIN map = {} THEN Placeholder
     ELSE IF Cardinality(DOMAIN map) = 1
     THEN LET k == CHOOSE j \in DOMAIN map : TRUE IN LeafHash(k, map[k])
     ELSE <<Reference(Half(0), depth + 1), Reference(Half(1), depth + 1)>>

\* A root is a function of the contents: it does not depend on the batches, the removals and the
\* base roots by which the tree came to them.
RootIsCanonical == \A x \in versions : x.root = Reference(x.map, 0)

Value(map, k) == IF k \in DOMAIN map THEN map[k] ELSE None

\* Every version stays readable, with a proof that verify accepts for the answer and for no other.
ProofsDecide ==
  \A x \in versions, k \in Keys :
    LET p == get_with_proof(x.root, k)
    IN /\ p.value = Value(x.map, k)
       /\ \A v \in ValuesOf(k) \cup {None} : verify(p, x.root, k, v) <=> v = p.value

\* A proof of absence gives the root the tree has once the key is added.
ProofsExtend ==
  \A x \in versions : \A k \in Keys \ DOMAIN x.map, v \in UNION {ValuesOf(j) : j \in Keys} :
    update_leaf(get_with_proof(x.root, k), k, v) = Reference((k :> v) @@ x.map, 0)

\* A proof from any version decides its key and foretells the root with the key added.
ProofsHold == ProofsDecide /\ ProofsExtend

\* No update set makes put bail or an assertion fire: no node is put twice in a batch, gets stale
\* twice, or is missing.
UpdatesSucceed == ~failed

RECURSIVE Reachable(_)
Reachable(h) ==
  {h} \cup IF get_node_option(h).kind # "internal" THEN {}
           ELSE UNION {Reachable(child.hash) : child \in Range(get_node_option(h).children)}

\* An update writes the nodes of the new tree that the old one did not have and marks stale those
\* of the old tree that the new one has no more, counting the leaves of each.
BatchIsExact ==
  LET old == Reachable(batch.old) \ {Placeholder}
      new == Reachable(batch.new) \ {Placeholder}
      Leaves(S) == Cardinality({h \in S : is_leaf(get_node_option(h))})
  IN /\ batch.nodes = new \ old /\ batch.stale = old \ new
     /\ batch.new_leaves = Leaves(batch.nodes) /\ batch.stale_leaves = Leaves(batch.stale)

\* Every batch goes through, writes and retires exactly what it should, and leaves each node under
\* its own hash.
TreeInv == TypeOKTree /\ UpdatesSucceed /\ BatchIsExact

\* From any start the iterator yields the keys not below it, in order and each once; pages that
\* continue from the last key of the page before tile the tree.
IterationIsComplete ==
  \A x \in versions :
    /\ dump(x.root) = InOrder(DOMAIN x.map)
    /\ \A k \in Keys :
         Take(x.root, iter(x.root, k), NoLimit) = InOrder({j \in DOMAIN x.map : ~Before(j, k)})
    /\ \A k \in DOMAIN x.map, limit \in 1..2 :
         LET after == InOrder({j \in DOMAIN x.map : Before(k, j)})
         IN list(x.root, k, limit) = SubSeq(after, 1, IF limit < Len(after) THEN limit ELSE Len(after))

================================================================================
