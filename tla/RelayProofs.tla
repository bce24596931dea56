---------------------------- MODULE RelayProofs ----------------------------
(***************************************************************************)
(* Proofs about BitcoinRelay, for any number of branches, any heights, any *)
(* reorg_block_count and any reorganisations.                              *)
(*                                                                         *)
(* Without a condition: the pending map and the pending objects describe   *)
(* the same blocks, and a processed block is never replaced.               *)
(*                                                                         *)
(* As long as no call failed and no reorganisation disconnected more than  *)
(* reorg_block_count blocks: the pending blocks are a chain that ends in   *)
(* the best block, and the processed blocks are a chain on every best      *)
(* chain of Bitcoin from then on.                                          *)
(* Then, too, the assertions of the Move functions fail in one case only,  *)
(* a block that is pending already; and that case needs a reorganisation   *)
(* of two blocks or more.                                                  *)
(***************************************************************************)
EXTENDS BitcoinRelay, SequenceTheorems, WellFoundedInduction, TLAPS

(***************************************************************************)
(* Numbers and blocks.                                                     *)
(***************************************************************************)
(* A set of natural numbers has a least element: the form in which the     *)
(* proofs below use induction.                                             *)
LEMMA LeastElement ==
  ASSUME NEW S \in SUBSET Nat, S # {}
  PROVE  \E x \in S : \A y \in S : x <= y
<1> DEFINE R == OpToRel(<, Nat)
<1>1. IsWellFoundedOn(R, Nat)
  BY NatLessThanWellFounded
<1>2. \A x, y \in Nat : <<y, x>> \in R <=> y < x
  BY DEF OpToRel
<1> HIDE DEF R
<1>3. PICK x \in S : \A y \in S : ~(<<y, x>> \in R)
  BY <1>1, WFMin
<1>4. x \in Nat /\ \A y \in S : y \in Nat /\ ~(y < x)
  BY <1>2, <1>3
<1> QED BY <1>4

(* A block is a sequence no longer than the bound.                         *)
LEMMA BlockIsSeq == Block = {s \in Seq(Branch) : Len(s) \in Height}
<1>1. ASSUME NEW s \in Block PROVE s \in Seq(Branch) /\ Len(s) \in Height
  <2>1. PICK h \in Height : s \in [1..h -> Branch]
    BY DEF Block
  <2>2. h \in Nat
    BY RelayAssumption DEF Height
  <2>3. s \in Seq(Branch) /\ Len(s) = h
    BY <2>1, <2>2
  <2> QED BY <2>3
<1>2. ASSUME NEW s \in Seq(Branch), Len(s) \in Height PROVE s \in Block
  <2>1. s \in [1..Len(s) -> Branch]
    BY LenProperties
  <2> QED BY <1>2, <2>1 DEF Block
<1> QED BY <1>1, <1>2

(* The beginning of a block is a block, an ancestor of it.                 *)
LEMMA PrefixType ==
  ASSUME NEW b \in Block, NEW n \in 0..Len(b)
  PROVE  /\ SubSeq(b, 1, n) \in Block /\ Len(SubSeq(b, 1, n)) = n
         /\ \A i \in 1..n : SubSeq(b, 1, n)[i] = b[i]
         /\ n \in Height
<1>1. b \in Seq(Branch) /\ Len(b) \in Height /\ Len(b) \in Nat
  BY BlockIsSeq, RelayAssumption DEF Height
<1>2. SubSeq(b, 1, n) \in Seq(Branch) /\ Len(SubSeq(b, 1, n)) = n
      /\ \A i \in 1..n : SubSeq(b, 1, n)[i] = b[i]
  BY <1>1
<1>3. n \in Height
  BY <1>1, RelayAssumption DEF Height
<1> QED BY <1>2, <1>3, BlockIsSeq

(* The beginning of a beginning.                                           *)
LEMMA PrefixPrefix ==
  ASSUME NEW b \in Block, NEW n \in 0..Len(b), NEW m \in 0..n
  PROVE  SubSeq(SubSeq(b, 1, n), 1, m) = SubSeq(b, 1, m)
<1>1. b \in Seq(Branch) /\ Len(b) \in Nat
  BY BlockIsSeq, RelayAssumption DEF Height
<1>2. n \in Nat /\ m \in Nat /\ m <= n /\ n <= Len(b)
  BY <1>1
<1> QED BY <1>1, <1>2

(* The whole of a block is its beginning.                                  *)
LEMMA PrefixWhole == \A b \in Block : SubSeq(b, 1, Len(b)) = b
<1> SUFFICES ASSUME NEW b \in Block PROVE SubSeq(b, 1, Len(b)) = b
  OBVIOUS
<1>1. b \in Seq(Branch) /\ Len(b) \in Nat
  BY BlockIsSeq, RelayAssumption DEF Height
<1> QED BY <1>1

(* Blocks that agree up to n agree up to a smaller m.                      *)
LEMMA PrefixAgree ==
  ASSUME NEW a \in Block, NEW b \in Block, NEW n \in Nat, NEW m \in Nat,
         m <= n, n <= Len(a), n <= Len(b), SubSeq(a, 1, n) = SubSeq(b, 1, n)
  PROVE  SubSeq(a, 1, m) = SubSeq(b, 1, m)
<1>1. Len(a) \in Nat /\ Len(b) \in Nat
  BY BlockIsSeq, RelayAssumption DEF Height
<1>2. n \in 0..Len(a) /\ n \in 0..Len(b) /\ m \in 0..n
  BY <1>1
<1> QED BY <1>2, PrefixPrefix

(* None is no block.                                                       *)
LEMMA NoneNoBlock == None \notin Block
BY BlockIsSeq, NoneIsNoBlock

(* The depth of a reorganisation is defined: the best chain shares a       *)
(* longest beginning with the new one, at which NewTip measures it.        *)
LEMMA SharedExists ==
  ASSUME NEW t \in Block, NEW b \in Block
  PROVE  \E n \in 0..Len(t) : /\ Ancestor(SubSeq(t, 1, n), b)
                              /\ n < Len(t) => ~Ancestor(SubSeq(t, 1, n + 1), b)
<1>1. Len(t) \in Nat /\ Len(b) \in Nat
  BY BlockIsSeq, RelayAssumption DEF Height
<1> DEFINE apart == {n \in Nat : n = Len(t) \/ (n < Len(t) /\ ~Ancestor(SubSeq(t, 1, n + 1), b))}
<1>2. PICK n \in apart : \A k \in apart : n <= k
  <2>1. apart \in SUBSET Nat /\ Len(t) \in apart
    BY <1>1
  <2> QED BY <2>1, LeastElement
<1>3. n \in 0..Len(t) /\ (n < Len(t) => ~Ancestor(SubSeq(t, 1, n + 1), b))
  BY <1>1
<1>4. Ancestor(SubSeq(t, 1, n), b)
  <2>1. CASE n = 0
    <3>1. SubSeq(t, 1, 0) = << >> /\ SubSeq(b, 1, 0) = << >>
      BY <1>1, BlockIsSeq
    <3> QED BY <1>1, <2>1, <3>1 DEF Ancestor
  <2>2. CASE n # 0
    <3>1. n - 1 \in Nat /\ n - 1 < Len(t) /\ n - 1 \notin apart
      BY <1>1, <1>2, <1>3, <2>2
    <3>2. Ancestor(SubSeq(t, 1, (n - 1) + 1), b)
      BY <3>1
    <3>3. (n - 1) + 1 = n
      BY <1>3
    <3> QED BY <3>2, <3>3
  <2> QED BY <2>1, <2>2
<1> QED BY <1>3, <1>4

(***************************************************************************)
(* What a reorganisation replaces.                                         *)
(***************************************************************************)
(* handle_reog takes the block at the height and follows next_block_hash.  *)
LEMMA ReplacedWalks ==
  ASSUME NEW h \in Height
  PROVE  /\ None \notin Replaced(h)
         /\ pending_blocks[h] # None => pending_blocks[h] \in Replaced(h)
         /\ \A x \in Replaced(h) \cap DOMAIN objects :
              objects[x].next # None => objects[x].next \in Replaced(h)
<1> DEFINE found == {pending_blocks[h]} \cup DOMAIN objects \cup {objects[x].next : x \in DOMAIN objects}
           walked(S) == /\ pending_blocks[h] \in S
                        /\ \A x \in S \cap DOMAIN objects : objects[x].next \in S
<1>1. Replaced(h) = {x \in found : \A S \in SUBSET found : walked(S) => x \in S} \ {None}
  BY DEF Replaced
<1>2. pending_blocks[h] # None => pending_blocks[h] \in Replaced(h)
  BY <1>1
<1>3. ASSUME NEW x \in Replaced(h) \cap DOMAIN objects, objects[x].next # None
      PROVE  objects[x].next \in Replaced(h)
  <2>1. objects[x].next \in found
    OBVIOUS
  <2>2. ASSUME NEW S \in SUBSET found, walked(S) PROVE objects[x].next \in S
    BY <1>1, <2>2
  <2> QED BY <1>1, <1>3, <2>1, <2>2
<1> QED BY <1>1, <1>2, <1>3

(* It replaces nothing outside a set of blocks that holds the block at the *)
(* height and, with a block, its next one.                                 *)
LEMMA ReplacedLeast ==
  ASSUME NEW h \in Height, NEW S, pending_blocks[h] \in S,
         \A x \in S \cap DOMAIN objects : objects[x].next \in S
  PROVE  Replaced(h) \subseteq S
<1> DEFINE found == {pending_blocks[h]} \cup DOMAIN objects \cup {objects[x].next : x \in DOMAIN objects}
           walked(T) == /\ pending_blocks[h] \in T
                        /\ \A x \in T \cap DOMAIN objects : objects[x].next \in T
<1>1. Replaced(h) = {x \in found : \A T \in SUBSET found : walked(T) => x \in T} \ {None}
  BY DEF Replaced
<1>2. S \cap found \in SUBSET found /\ walked(S \cap found)
  OBVIOUS
<1> QED BY <1>1, <1>2

(* Nothing, where no block is pending at the height.                       *)
LEMMA ReplacedNone ==
  ASSUME NEW h \in Height, pending_blocks[h] = None, None \notin DOMAIN objects
  PROVE  Replaced(h) = {}
<1>1. Replaced(h) \subseteq {None}
  BY ReplacedLeast
<1> QED BY <1>1, ReplacedWalks

(***************************************************************************)
(* The types, and what they depend on.                                     *)
(***************************************************************************)
(* While it walks or fetches, the relayer has a block to ask for; a        *)
(* transaction of a pending block is processed or left.                    *)
TypeInv ==
  /\ TypeOKRelay /\ PendingConsistent /\ faults \in Nat
  /\ phase \in {"walk", "fetch"} => cursor # None
  /\ \A x \in DOMAIN objects : objects[x].processed_tx + Len(objects[x].left) = TxCount

(* What of it is about the stores.                                         *)
StoreTypes ==
  /\ best_block \in Block \cup {None}
  /\ pending_blocks \in [Height -> Block \cup {None}]
  /\ height_to_hash \in [Height -> Block \cup {None}]
  /\ DOMAIN objects \subseteq Block /\ \A b \in DOMAIN objects : objects[b] \in PendingBlock
  /\ halted \in BOOLEAN
  /\ PendingConsistent
  /\ \A x \in DOMAIN objects : objects[x].processed_tx + Len(objects[x].left) = TxCount

(* What of it is about the relayer.                                        *)
RelayerTypes ==
  /\ phase \in {"idle", "walk", "fetch", "txs", "exec", "block"}
  /\ cursor \in Block \cup {None} /\ buffer \in Seq(Block) /\ sync_to_latest \in BOOLEAN
  /\ ready \in [block : Block \cup {None}, txs : Seq(1..TxCount)]
  /\ phase \in {"walk", "fetch"} => cursor # None

(* What of it is about Bitcoin and the faults.                             *)
WorldTypes == tip \in Block /\ deepest \in 0..MaxReorg /\ faults \in Nat

(* The three parts are the whole.                                          *)
LEMMA TypeParts == TypeInv <=> StoreTypes /\ RelayerTypes /\ WorldTypes
BY DEF TypeInv, StoreTypes, RelayerTypes, WorldTypes, TypeOKRelay

(* After a step too.                                                       *)
LEMMA TypePartsAfter == StoreTypes' /\ RelayerTypes' /\ WorldTypes' => TypeInv'
BY DEF TypeInv, StoreTypes, RelayerTypes, WorldTypes, TypeOKRelay

(* A step that leaves the stores alone leaves their types.                 *)
LEMMA StoreFrame == StoreTypes /\ UNCHANGED store => StoreTypes'
BY DEF StoreTypes, store, PendingConsistent

(* The blocks of the pending objects and where they are found.             *)
LEMMA PendingWhere ==
  ASSUME StoreTypes
  PROVE  /\ \A x \in DOMAIN objects : Len(x) \in Height /\ pending_blocks[Len(x)] = x /\ x \in Block
         /\ \A h \in Height : pending_blocks[h] # None =>
              pending_blocks[h] \in DOMAIN objects /\ Len(pending_blocks[h]) = h
         /\ None \notin DOMAIN objects
BY DEF StoreTypes, PendingConsistent, height

(* Bitcoin's best chain changes.                                           *)
LEMMA NewTipTypes == TypeInv /\ (\E b \in Block : NewTip(b)) => TypeInv'
<1> SUFFICES ASSUME TypeInv, NEW b \in Block, NewTip(b) PROVE TypeInv'
  OBVIOUS
<1>1. WorldTypes'
  <2> DEFINE P(n) == /\ Ancestor(SubSeq(tip, 1, n), b)
                     /\ n < Len(tip) => ~Ancestor(SubSeq(tip, 1, n + 1), b)
             shared == CHOOSE n \in 0..Len(tip) : P(n)
  <2>1. tip \in Block /\ Len(tip) \in Nat /\ faults \in Nat /\ deepest \in 0..MaxReorg
    BY BlockIsSeq, RelayAssumption DEF TypeInv, TypeOKRelay, Height
  <2>2. shared \in 0..Len(tip)
    <3>1. \E n \in 0..Len(tip) : P(n)
      BY <2>1, SharedExists
    <3> HIDE DEF P
    <3> QED BY <3>1
  <2>3. /\ Len(tip) - shared <= MaxReorg
        /\ deepest' = IF Len(tip) - shared > deepest THEN Len(tip) - shared ELSE deepest
        /\ tip' = b /\ faults' = faults
    BY DEF NewTip
  <2> HIDE DEF shared
  <2>4. deepest' \in 0..MaxReorg
    BY <2>1, <2>2, <2>3, RelayAssumption
  <2> QED BY <2>1, <2>3, <2>4 DEF WorldTypes
<1>2. StoreTypes'
  BY TypeParts, StoreFrame DEF NewTip
<1>3. RelayerTypes'
  BY TypeParts DEF NewTip, RelayerTypes, relayer
<1> QED BY <1>1, <1>2, <1>3, TypePartsAfter

(* getblockheader's next hash: the block after b on the best chain.        *)
LEMMA NextHash ==
  ASSUME NEW b \in Block, tip \in Block
  PROVE  /\ next_block_hash(b) \in Block \cup {None}
         /\ next_block_hash(b) # None =>
              /\ next_block_hash(b) \in Block
              /\ Len(next_block_hash(b)) = Len(b) + 1 /\ Len(b) + 1 <= Len(tip)
              /\ next_block_hash(b) = SubSeq(tip, 1, Len(b) + 1)
              /\ b = SubSeq(tip, 1, Len(b))
<1>1. Len(b) \in Nat /\ Len(tip) \in Nat
  BY BlockIsSeq, RelayAssumption DEF Height
<1>2. CASE OnBestChain(b) /\ b # tip
  <2>1. Len(b) <= Len(tip) /\ b = SubSeq(tip, 1, Len(b))
    BY <1>2 DEF OnBestChain, Ancestor
  <2>2. Len(b) # Len(tip)
    BY <1>2, <2>1, PrefixWhole
  <2>3. Len(b) + 1 \in 0..Len(tip)
    BY <1>1, <2>1, <2>2
  <2> QED BY <1>1, <1>2, <2>1, <2>3, PrefixType DEF next_block_hash
<1>3. CASE ~(OnBestChain(b) /\ b # tip)
  BY <1>3 DEF next_block_hash
<1> QED BY <1>2, <1>3

(* A block that is not on the best chain has a parent.                     *)
LEMMA OffChain ==
  ASSUME NEW b \in Block, tip \in Block, ~OnBestChain(b)
  PROVE  Len(b) \in Nat \ {0} /\ prev_blockhash(b) \in Block
         /\ Len(prev_blockhash(b)) = Len(b) - 1
<1>1. Len(b) \in Nat /\ Len(tip) \in Nat /\ b \in Seq(Branch) /\ tip \in Seq(Branch)
  BY BlockIsSeq, RelayAssumption DEF Height
<1>2. Len(b) # 0
  <2> SUFFICES ASSUME Len(b) = 0 PROVE FALSE
    OBVIOUS
  <2>1. b = << >> /\ SubSeq(tip, 1, 0) = << >>
    BY <1>1, EmptySeq
  <2> QED BY <1>1, <2>1 DEF OnBestChain, Ancestor
<1>3. Len(b) - 1 \in 0..Len(b)
  BY <1>1, <1>2
<1> QED BY <1>1, <1>2, <1>3, PrefixType DEF prev_blockhash

(* Moving the first of several elements to the end.                        *)
LEMMA MovedToEnd ==
  ASSUME NEW S, NEW q \in Seq(S), Len(q) > 1
  PROVE  /\ Append(Tail(q), Head(q)) \in Seq(S) /\ Append(Tail(q), Head(q)) # << >>
         /\ Append(Tail(q), Head(q))[Len(Append(Tail(q), Head(q)))] = q[1]
<1>1. q # << >> /\ Head(q) = q[1]
  OBVIOUS
<1>2. Tail(q) \in Seq(S) /\ Head(q) \in S
  BY <1>1, HeadTailProperties
<1> DEFINE t == Tail(q)
<1> HIDE DEF t
<1>3. t \in Seq(S) /\ Len(t) \in Nat
  BY <1>2 DEF t
<1>4. /\ Append(t, Head(q)) \in Seq(S) /\ Len(Append(t, Head(q))) = Len(t) + 1
      /\ Append(t, Head(q))[Len(t) + 1] = Head(q)
  BY <1>2, <1>3, AppendProperties
<1> QED BY <1>1, <1>3, <1>4 DEF t

(* What get_ready_l1_txs returns: nothing, or the transactions of a        *)
(* pending block, with its first one at the end.                           *)
LEMMA ReadyTxs ==
  ASSUME TypeInv, GetReadyTxs
  PROVE  /\ ready' \in [block : Block \cup {None}, txs : Seq(1..TxCount)]
         /\ ReadyBlock # None =>
              /\ ReadyBlock \in DOMAIN objects /\ ready'.block = ReadyBlock
              /\ objects[ReadyBlock].left # << >> =>
                   /\ ready'.txs # << >>
                   /\ ready'.txs[Len(ready'.txs)] = objects[ReadyBlock].left[1]
<1>1. CASE ReadyBlock = None
  <2>1. << >> \in Seq(1..TxCount)
    OBVIOUS
  <2> QED BY <1>1, <2>1 DEF GetReadyTxs, NoReady
<1>2. CASE ReadyBlock # None
  <2> DEFINE r == ReadyBlock
             txs == objects[r].left
             moved == IF Len(txs) > 1 THEN Append(Tail(txs), Head(txs)) ELSE txs
  <2>1. r \in DOMAIN objects /\ r \in Block
    <3>1. best_block # None /\ best_block \in Block /\ height(best_block) >= reorg_block_count
          /\ r = pending_blocks[height(best_block) - reorg_block_count]
      BY <1>2, RelayAssumption DEF ReadyBlock, TypeInv, TypeOKRelay, height, Height
    <3>2. height(best_block) - reorg_block_count \in Height
      BY <3>1, BlockIsSeq, RelayAssumption DEF height, Height
    <3> QED BY <1>2, <3>1, <3>2, TypeParts, PendingWhere
  <2>2. txs \in Seq(1..TxCount)
    BY <2>1 DEF TypeInv, TypeOKRelay, PendingBlock
  <2>3. ready' = [block |-> r, txs |-> moved]
    BY <1>2 DEF GetReadyTxs
  <2> HIDE DEF r, txs
  <2>4. moved \in Seq(1..TxCount) /\ (txs # << >> => moved # << >> /\ moved[Len(moved)] = txs[1])
    <3>1. CASE Len(txs) > 1
      <4>1. moved = Append(Tail(txs), Head(txs))
        BY <3>1
      <4> HIDE DEF moved
      <4> QED BY <2>2, <3>1, <4>1, MovedToEnd
    <3>2. CASE ~(Len(txs) > 1)
      BY <2>2, <3>2
    <3> QED BY <3>1, <3>2
  <2> HIDE DEF moved
  <2> QED BY <1>2, <2>1, <2>3, <2>4 DEF r, txs
<1> QED BY <1>1, <1>2

(* The steps that leave the stores alone: those of sync_block, the query   *)
(* for ready transactions, the errors and the restart.                     *)
RelayerOnly ==
  \/ SkipSync \/ StartSync \/ FindCommonAncestor \/ FetchBlock \/ SyncError \/ GetReadyTxs
  \/ TxsDone \/ BlocksDone \/ HandleError \/ RestartNode

(* They keep the types.                                                    *)
LEMMA RelayerOnlyTypes == TypeInv /\ RelayerOnly => TypeInv'
<1> SUFFICES ASSUME TypeInv, RelayerOnly PROVE TypeInv'
  OBVIOUS
<1>1. StoreTypes /\ RelayerTypes /\ WorldTypes
  BY TypeParts
<1> HIDE DEF StoreTypes, RelayerTypes, WorldTypes
<1>2. UNCHANGED store /\ tip' = tip /\ deepest' = deepest /\ faults' \in Nat
  BY <1>1 DEF RelayerOnly, SkipSync, StartSync, FindCommonAncestor, FetchBlock, SyncError,
     GetReadyTxs, TxsDone, BlocksDone, HandleError, RestartNode, WorldTypes
<1>3. StoreTypes' /\ WorldTypes'
  BY <1>1, <1>2, StoreFrame DEF WorldTypes
<1>4. RelayerTypes'
  <2> USE DEF RelayerTypes
  <2>0. << >> \in Seq(Block) /\ << >> \in Block /\ << >> \in Seq(1..TxCount)
    BY BlockIsSeq, RelayAssumption DEF Height
  <2>1. CASE SkipSync \/ BlocksDone
    BY <1>1, <2>1 DEF SkipSync, BlocksDone
  <2>2. CASE StartSync
    <3>1. best_block \in Block \cup {None}
      BY <1>1 DEF StoreTypes
    <3>2. cursor' \in Block \cup {None} /\ (phase' \in {"walk", "fetch"} => cursor' # None)
          /\ phase' \in {"walk", "fetch", "txs"} /\ sync_to_latest' \in BOOLEAN
      BY <1>1, <2>0, <2>2, <3>1, NoneNoBlock DEF StartSync
    <3> QED BY <1>1, <2>2, <3>2 DEF StartSync
  <2>3. CASE FindCommonAncestor
    <3>1. cursor \in Block /\ tip \in Block
      BY <1>1, <2>3 DEF FindCommonAncestor, WorldTypes
    <3>2. cursor' \in Block \cup {None} /\ (phase' \in {"walk", "fetch"} => cursor' # None)
          /\ phase' \in {"walk", "fetch", "txs"}
      BY <2>3, <3>1, NextHash, OffChain, NoneNoBlock DEF FindCommonAncestor
    <3> QED BY <1>1, <2>3, <3>2 DEF FindCommonAncestor
  <2>4. CASE FetchBlock
    <3>1. cursor \in Block /\ tip \in Block
      BY <1>1, <2>4 DEF FetchBlock, WorldTypes
    <3>2. buffer' \in Seq(Block)
      BY <1>1, <2>4, <3>1 DEF FetchBlock
    <3>3. cursor' \in Block \cup {None} /\ (phase' \in {"walk", "fetch"} => cursor' # None)
          /\ phase' \in {"walk", "fetch", "txs"}
      BY <2>4, <3>1, NextHash DEF FetchBlock
    <3> QED BY <1>1, <2>4, <3>2, <3>3 DEF FetchBlock
  <2>5. CASE SyncError
    BY <1>1, <2>5 DEF SyncError
  <2>6. CASE GetReadyTxs
    <3>1. ready' \in [block : Block \cup {None}, txs : Seq(1..TxCount)]
      BY <2>6, ReadyTxs
    <3> QED BY <1>1, <2>6, <3>1 DEF GetReadyTxs
  <2>7. CASE TxsDone \/ RestartNode
    <3>1. NoReady \in [block : Block \cup {None}, txs : Seq(1..TxCount)]
      BY <2>0 DEF NoReady
    <3>2. ready' \in [block : Block \cup {None}, txs : Seq(1..TxCount)]
      BY <2>7, <3>1 DEF TxsDone, RestartNode
    <3>3. phase' \in {"idle", "block"}
      BY <2>7 DEF TxsDone, RestartNode
    <3>4. cursor' \in Block \cup {None} /\ buffer' \in Seq(Block) /\ sync_to_latest' \in BOOLEAN
      BY <1>1, <2>0, <2>7 DEF TxsDone, RestartNode
    <3> QED BY <3>2, <3>3, <3>4
  <2>8. CASE HandleError
    <3>1. CASE phase = "exec" /\ ready.txs # << >> /\ ready' = [ready EXCEPT !.txs = Tail(@)]
               /\ buffer' = buffer /\ phase' = phase
      <4>1. Tail(ready.txs) \in Seq(1..TxCount)
        BY <1>1, <3>1
      <4> QED BY <1>1, <2>8, <3>1, <4>1 DEF HandleError
    <3>2. CASE phase = "block" /\ buffer # << >> /\ buffer' = Tail(buffer) /\ phase' = "txs" /\ ready' = ready
      <4>1. Tail(buffer) \in Seq(Block)
        BY <1>1, <3>2
      <4> QED BY <1>1, <2>8, <3>2, <4>1 DEF HandleError
    <3>3. CASE phase = "txs" /\ phase' = "idle" /\ ready' = ready /\ buffer' = buffer
      BY <1>1, <2>8, <3>3 DEF HandleError
    <3> QED BY <2>8, <3>1, <3>2, <3>3 DEF HandleError
  <2> QED BY <2>1, <2>2, <2>3, <2>4, <2>5, <2>6, <2>7, <2>8 DEF RelayerOnly
<1> QED BY <1>3, <1>4, TypePartsAfter

(* Removing an id from the list of those left takes one element; the first *)
(* stays first unless it is the one.                                       *)
LEMMA RemoveOne ==
  ASSUME NEW S, NEW q \in Seq(S), NEW i, \E k \in DOMAIN q : q[k] = i
  PROVE  /\ Remove(q, i) \in Seq(S) /\ Len(Remove(q, i)) = Len(q) - 1
         /\ Len(q) \in Nat \ {0}
         /\ q[1] # i => Remove(q, i) # << >> /\ Remove(q, i)[1] = q[1]
<1> DEFINE k == CHOOSE k \in DOMAIN q : q[k] = i
<1>1. k \in DOMAIN q /\ q[k] = i
  OBVIOUS
<1>2. Remove(q, i) = SubSeq(q, 1, k - 1) \o SubSeq(q, k + 1, Len(q))
  BY DEF Remove
<1> HIDE DEF k
<1>3. Len(q) \in Nat /\ k \in 1..Len(q)
  BY <1>1
<1> DEFINE a == SubSeq(q, 1, k - 1)
           b == SubSeq(q, k + 1, Len(q))
<1>4. a \in Seq(S) /\ Len(a) = k - 1 /\ (k # 1 => a[1] = q[1])
  <2>1. 1 \in 1..Len(q)+1 /\ k - 1 \in 1-1..Len(q)
    BY <1>3
  <2>2. a \in Seq(S) /\ Len(a) = (k - 1) - 1 + 1 /\ \A j \in 1..((k-1)-1+1) : a[j] = q[1+j-1]
    BY <2>1, SubSeqProperties
  <2> HIDE DEF a
  <2>3. k # 1 => 1 \in 1..((k-1)-1+1)
    BY <1>3
  <2> QED BY <1>3, <2>2, <2>3
<1>5. b \in Seq(S) /\ Len(b) = Len(q) - k
  <2>1. k + 1 \in 1..Len(q)+1 /\ Len(q) \in (k+1)-1..Len(q)
    BY <1>3
  <2>2. b \in Seq(S) /\ Len(b) = Len(q) - (k + 1) + 1
    BY <2>1, SubSeqProperties
  <2> HIDE DEF b
  <2> QED BY <1>3, <2>2
<1> HIDE DEF a, b
<1>6. a \o b \in Seq(S) /\ Len(a \o b) = Len(a) + Len(b)
      /\ \A j \in 1..Len(a) : (a \o b)[j] = a[j]
  <2>1. a \in Seq(S) /\ b \in Seq(S)
    BY <1>4, <1>5
  <2> QED BY <2>1, ConcatProperties
<1>7. Remove(q, i) = a \o b
  BY <1>2 DEF a, b
<1>8. q[1] # i => k # 1
  BY <1>1
<1>9. k # 1 => Len(a) + Len(b) >= 1 /\ 1 \in 1..Len(a)
  BY <1>3, <1>4, <1>5
<1>10. Len(a) + Len(b) = Len(q) - 1
  BY <1>3, <1>4, <1>5
<1>11. k # 1 => a \o b # << >> /\ (a \o b)[1] = q[1]
  BY <1>4, <1>5, <1>6, <1>9
<1>12. Len(q) \in Nat \ {0}
  BY <1>3
<1> QED BY <1>6, <1>7, <1>8, <1>10, <1>11, <1>12

(* The outcomes of execute_l1_tx.                                          *)
LEMMA ExecuteCases ==
  ASSUME NEW b, NEW i, ExecuteL1Tx(b, i)
  PROVE  \/ Abort
         \/ /\ Processable(b, i) /\ i = 1 /\ Finishable(b)
            /\ objects' = Without(b)
            /\ pending_blocks' = [pending_blocks EXCEPT ![height(b)] = None]
            /\ height_to_hash' = [height_to_hash EXCEPT ![height(b)] = b]
            /\ UNCHANGED <<best_block, halted>>
         \/ /\ Processable(b, i) /\ i # 1
            /\ objects' = [objects EXCEPT ![b].left = Remove(@, i), ![b].processed_tx = @ + 1]
            /\ UNCHANGED <<pending_blocks, best_block, height_to_hash, halted>>
BY DEF ExecuteL1Tx

(* A block whose coinbase is processed leaves the pending ones.            *)
LEMMA FinishTypes ==
  ASSUME StoreTypes, NEW b \in DOMAIN objects,
         objects' = Without(b),
         pending_blocks' = [pending_blocks EXCEPT ![height(b)] = None],
         height_to_hash' = [height_to_hash EXCEPT ![height(b)] = b],
         best_block' = best_block, halted' = halted
  PROVE  StoreTypes'
<1>1. b \in Block /\ Len(b) \in Height /\ pending_blocks[Len(b)] = b /\ height(b) = Len(b)
  BY PendingWhere DEF height
<1>2. DOMAIN objects' = DOMAIN objects \ {b} /\ \A x \in DOMAIN objects' : objects'[x] = objects[x]
  BY DEF Without
<1>3. /\ pending_blocks' \in [Height -> Block \cup {None}]
      /\ height_to_hash' \in [Height -> Block \cup {None}]
  BY <1>1 DEF StoreTypes
<1>4. \A h \in Height : pending_blocks'[h] = IF h = Len(b) THEN None ELSE pending_blocks[h]
  BY <1>1 DEF StoreTypes
<1>5. PendingConsistent'
  <2>1. \A h \in Height : pending_blocks'[h] # None => Len(pending_blocks'[h]) = h
    BY <1>4, PendingWhere
  <2>2. \A x \in DOMAIN objects' : \E h \in Height : x = pending_blocks'[h] /\ x # None
    BY <1>1, <1>2, <1>4, PendingWhere
  <2>3. \A h \in Height : pending_blocks'[h] # None => pending_blocks'[h] \in DOMAIN objects'
    BY <1>1, <1>2, <1>4, PendingWhere
  <2> QED BY <2>1, <2>2, <2>3, ZenonT(30) DEF PendingConsistent, height
<1> QED BY <1>2, <1>3, <1>5 DEF StoreTypes

(* execute_l1_tx keeps the types of the stores.                            *)
LEMMA ExecuteTypes ==
  ASSUME StoreTypes, NEW b, NEW i \in 1..TxCount, ExecuteL1Tx(b, i)
  PROVE  StoreTypes'
<1>1. CASE Abort
  BY <1>1 DEF Abort, StoreTypes, PendingConsistent
<1>2. CASE ~Abort
  <2>1. Processable(b, i) /\ b \in DOMAIN objects /\ (\E k \in DOMAIN objects[b].left : objects[b].left[k] = i)
    BY <1>2, ExecuteCases DEF Processable
  <2>2. CASE i = 1
    BY <1>2, <2>1, <2>2, ExecuteCases, FinishTypes
  <2>3. CASE i # 1
    <3>1. /\ objects' = [objects EXCEPT ![b].left = Remove(@, i), ![b].processed_tx = @ + 1]
          /\ UNCHANGED <<pending_blocks, best_block, height_to_hash, halted>>
      BY <1>2, <2>3, ExecuteCases
    <3> DEFINE q == objects[b].left
               new == [objects[b] EXCEPT !.left = Remove(q, i), !.processed_tx = @ + 1]
    <3>2. DOMAIN objects' = DOMAIN objects /\ objects'[b] = new
          /\ \A x \in DOMAIN objects : x # b => objects'[x] = objects[x]
      BY <2>1, <3>1
    <3> DEFINE p == objects[b].processed_tx
    <3>3. q \in Seq(1..TxCount) /\ p \in 0..TxCount /\ p + Len(q) = TxCount /\ objects[b] \in PendingBlock
      BY <2>1 DEF StoreTypes, PendingBlock
    <3>4. Remove(q, i) \in Seq(1..TxCount) /\ Len(Remove(q, i)) = Len(q) - 1 /\ Len(q) \in Nat \ {0}
      BY <2>1, <3>3, RemoveOne
    <3>5. new \in PendingBlock /\ new.processed_tx + Len(new.left) = TxCount
      <4>1. p + 1 \in 0..TxCount /\ (p + 1) + (Len(q) - 1) = TxCount
        <5> HIDE DEF p, q
        <5> QED BY <3>3, <3>4, RelayAssumption, SMTT(30)
      <4>2. new.left = Remove(q, i) /\ new.processed_tx = p + 1
        BY <3>3 DEF PendingBlock
      <4>3. new \in PendingBlock
        BY <3>3, <3>4, <4>1 DEF PendingBlock
      <4> QED BY <3>4, <4>1, <4>2, <4>3
    <3> HIDE DEF new, q, p
    <3>6. \A x \in DOMAIN objects' : objects'[x] \in PendingBlock
                                     /\ objects'[x].processed_tx + Len(objects'[x].left) = TxCount
      BY <3>2, <3>5 DEF StoreTypes
    <3> QED BY <3>1, <3>2, <3>6 DEF StoreTypes, PendingConsistent
  <2> QED BY <2>2, <2>3
<1> QED BY <1>1, <1>2

(* What add_pending_block writes.                                          *)
LEMMA AddedBlock ==
  ASSUME StoreTypes, NEW b \in Block, AddPendingBlock(b)
  PROVE  LET gone == Replaced(Len(b))
         IN /\ Len(b) \in Height /\ best_block' = b
            /\ height_to_hash' = height_to_hash /\ halted' = halted
            /\ DOMAIN objects' = (DOMAIN objects \ gone) \cup {b}
            /\ objects'[b] = [left |-> [i \in 1..TxCount |-> i], processed_tx |-> 0, next |-> None]
            /\ \A x \in DOMAIN objects \ gone : x # b =>
                 objects'[x] = IF b # << >> /\ x = prev_blockhash(b)
                                 THEN [objects[x] EXCEPT !.next = b] ELSE objects[x]
            /\ pending_blocks' \in [Height -> Block \cup {None}]
            /\ pending_blocks'[Len(b)] = b
            /\ \A h \in Height : h # Len(b) =>
                 pending_blocks'[h] = IF pending_blocks[h] \in gone THEN None ELSE pending_blocks[h]
<1> DEFINE gone == Replaced(Len(b))
           kept == [x \in DOMAIN objects \ gone |-> objects[x]]
           new == [left |-> [i \in 1..TxCount |-> i], processed_tx |-> 0, next |-> None]
<1>1. Len(b) \in Height /\ height(b) = Len(b)
  BY BlockIsSeq DEF height
<1>2. /\ objects' = [x \in DOMAIN kept \cup {b} |->
                      IF x = b THEN new
                      ELSE IF b # << >> /\ x = prev_blockhash(b)
                             THEN [kept[x] EXCEPT !.next = b] ELSE kept[x]]
      /\ pending_blocks' = [h \in Height |->
                             IF h = Len(b) THEN b
                             ELSE IF pending_blocks[h] \in gone THEN None ELSE pending_blocks[h]]
      /\ best_block' = b /\ height_to_hash' = height_to_hash /\ halted' = halted
  BY <1>1 DEF AddPendingBlock
<1> HIDE DEF gone, new
<1>3. DOMAIN objects' = (DOMAIN objects \ gone) \cup {b} /\ objects'[b] = new
      /\ \A x \in DOMAIN objects \ gone : x # b =>
           objects'[x] = IF b # << >> /\ x = prev_blockhash(b)
                           THEN [objects[x] EXCEPT !.next = b] ELSE objects[x]
  BY <1>2
<1>4. pending_blocks \in [Height -> Block \cup {None}]
  BY DEF StoreTypes
<1> HIDE DEF kept
<1>5. /\ pending_blocks' \in [Height -> Block \cup {None}] /\ pending_blocks'[Len(b)] = b
      /\ \A h \in Height : h # Len(b) =>
           pending_blocks'[h] = IF pending_blocks[h] \in gone THEN None ELSE pending_blocks[h]
  BY <1>1, <1>2, <1>4
<1> QED BY <1>1, <1>2, <1>3, <1>5 DEF gone, new

(* It keeps the types of the stores: the map loses exactly the entries of  *)
(* the objects that are removed.                                           *)
LEMMA AddTypes ==
  ASSUME StoreTypes, NEW b \in Block, Addable(b), AddPendingBlock(b)
  PROVE  StoreTypes'
<1> DEFINE gone == Replaced(Len(b))
           new == [left |-> [i \in 1..TxCount |-> i], processed_tx |-> 0, next |-> None]
<1>1. /\ Len(b) \in Height /\ best_block' = b
      /\ height_to_hash' = height_to_hash /\ halted' = halted
      /\ DOMAIN objects' = (DOMAIN objects \ gone) \cup {b} /\ objects'[b] = new
      /\ \A x \in DOMAIN objects \ gone : x # b =>
           objects'[x] = IF b # << >> /\ x = prev_blockhash(b)
                           THEN [objects[x] EXCEPT !.next = b] ELSE objects[x]
      /\ pending_blocks' \in [Height -> Block \cup {None}] /\ pending_blocks'[Len(b)] = b
      /\ \A h \in Height : h # Len(b) =>
           pending_blocks'[h] = IF pending_blocks[h] \in gone THEN None ELSE pending_blocks[h]
  BY AddedBlock
<1>2. None \notin gone /\ (pending_blocks[Len(b)] # None => pending_blocks[Len(b)] \in gone)
      /\ b \notin DOMAIN objects
  BY <1>1, ReplacedWalks DEF Addable
<1>3. new \in PendingBlock /\ new.processed_tx + Len(new.left) = TxCount
  <2>1. [i \in 1..TxCount |-> i] \in Seq(1..TxCount) /\ Len([i \in 1..TxCount |-> i]) = TxCount
    BY RelayAssumption
  <2> QED BY <2>1, RelayAssumption DEF PendingBlock
<1> HIDE DEF gone, new
<1>4. \A x \in DOMAIN objects' : objects'[x] \in PendingBlock
                                 /\ objects'[x].processed_tx + Len(objects'[x].left) = TxCount
  <2> SUFFICES ASSUME NEW x \in DOMAIN objects \ gone, x # b
               PROVE  objects'[x] \in PendingBlock
                      /\ objects'[x].processed_tx + Len(objects'[x].left) = TxCount
    BY <1>1, <1>3
  <2>1. objects[x] \in PendingBlock /\ objects[x].processed_tx + Len(objects[x].left) = TxCount
    BY DEF StoreTypes
  <2>2. CASE objects'[x] = objects[x]
    BY <2>1, <2>2
  <2>3. CASE objects'[x] = [objects[x] EXCEPT !.next = b]
    BY <2>1, <2>3 DEF PendingBlock
  <2> QED BY <1>1, <2>2, <2>3
<1>5. PendingConsistent'
  <2>1. \A h \in Height : pending_blocks'[h] # None => Len(pending_blocks'[h]) = h
    BY <1>1, PendingWhere
  <2>2. ASSUME NEW x \in DOMAIN objects' PROVE \E h \in Height : x = pending_blocks'[h] /\ x # None
    <3>1. CASE x = b
      BY <1>1, <3>1, NoneNoBlock
    <3>2. CASE x \in DOMAIN objects \ gone
      <4>1. Len(x) \in Height /\ pending_blocks[Len(x)] = x /\ x # None
        BY <3>2, PendingWhere
      <4>2. Len(x) # Len(b)
        BY <1>2, <3>2, <4>1
      <4> QED BY <1>1, <3>2, <4>1, <4>2
    <3> QED BY <1>1, <3>1, <3>2
  <2>3. \A h \in Height : pending_blocks'[h] # None => pending_blocks'[h] \in DOMAIN objects'
    BY <1>1, PendingWhere
  <2> QED BY <2>1, <2>2, <2>3 DEF PendingConsistent, height
<1>6. DOMAIN objects' \subseteq Block
  BY <1>1 DEF StoreTypes
<1> QED BY <1>1, <1>4, <1>5, <1>6 DEF StoreTypes

(* The two handlers of the relayer actor keep the types.                   *)
LEMMA HandlersTypes == TypeInv /\ (HandleL1Tx \/ HandleL1Block) => TypeInv'
<1> SUFFICES ASSUME TypeInv, HandleL1Tx \/ HandleL1Block PROVE TypeInv'
  OBVIOUS
<1>1. StoreTypes /\ RelayerTypes /\ WorldTypes
  BY TypeParts
<1>2. WorldTypes'
  BY <1>1 DEF WorldTypes, HandleL1Tx, HandleL1Block
<1>3. CASE HandleL1Tx
  <2>1. ready.txs \in Seq(1..TxCount) /\ ready.txs # << >>
    BY <1>1, <1>3 DEF HandleL1Tx, RelayerTypes
  <2>2. Head(ready.txs) \in 1..TxCount /\ Tail(ready.txs) \in Seq(1..TxCount)
    BY <2>1, HeadTailProperties
  <2>3. StoreTypes'
    BY <1>1, <1>3, <2>2, ExecuteTypes DEF HandleL1Tx
  <2>4. RelayerTypes'
    BY <1>1, <1>3, <2>2 DEF HandleL1Tx, RelayerTypes
  <2> QED BY <1>2, <2>3, <2>4, TypePartsAfter
<1>4. CASE HandleL1Block
  <2>1. buffer \in Seq(Block) /\ buffer # << >>
    BY <1>1, <1>4 DEF HandleL1Block, RelayerTypes
  <2>2. Head(buffer) \in Block /\ Tail(buffer) \in Seq(Block)
    BY <2>1, HeadTailProperties
  <2>3. StoreTypes'
    <3>1. CASE Addable(Head(buffer))
      BY <1>1, <1>4, <2>2, <3>1, AddTypes DEF HandleL1Block
    <3>2. CASE ~Addable(Head(buffer))
      BY <1>1, <1>4, <3>2 DEF HandleL1Block, Abort, StoreTypes, PendingConsistent
    <3> QED BY <3>1, <3>2
  <2>4. RelayerTypes'
    BY <1>1, <1>4, <2>2 DEF HandleL1Block, RelayerTypes
  <2> QED BY <1>2, <2>3, <2>4, TypePartsAfter
<1> QED BY <1>3, <1>4

(* The initial state has the types.                                        *)
LEMMA InitTypes == InitRelay => TypeInv
<1> SUFFICES ASSUME InitRelay PROVE TypeInv
  OBVIOUS
<1> USE DEF InitRelay
<1>1. << >> \in Block /\ << >> \in Seq(Block) /\ << >> \in Seq(1..TxCount)
  BY BlockIsSeq, RelayAssumption DEF Height
<1>2. StoreTypes
  <2>1. pending_blocks \in [Height -> Block \cup {None}]
        /\ height_to_hash \in [Height -> Block \cup {None}]
    OBVIOUS
  <2>2. DOMAIN objects = {}
    OBVIOUS
  <2>3. PendingConsistent
    BY <2>2 DEF PendingConsistent
  <2> QED BY <2>1, <2>2, <2>3 DEF StoreTypes
<1>3. RelayerTypes
  BY <1>1 DEF RelayerTypes, NoReady
<1>4. WorldTypes
  BY <1>1, RelayAssumption DEF WorldTypes
<1> QED BY <1>2, <1>3, <1>4, TypeParts

(* Every step keeps the types.                                             *)
LEMMA StepTypes == TypeInv /\ [NextRelay]_relayVars => TypeInv'
<1> SUFFICES ASSUME TypeInv, [NextRelay]_relayVars PROVE TypeInv'
  OBVIOUS
<1>1. CASE \E b \in Block : NewTip(b)
  BY <1>1, NewTipTypes
<1>2. CASE RelayerOnly
  BY <1>2, RelayerOnlyTypes
<1>3. CASE HandleL1Tx \/ HandleL1Block
  BY <1>3, HandlersTypes
<1>4. CASE UNCHANGED relayVars
  <2>1. StoreTypes'
    BY <1>4, TypeParts, StoreFrame DEF relayVars
  <2>2. RelayerTypes' /\ WorldTypes'
    BY <1>4, TypeParts DEF relayVars, relayer, RelayerTypes, WorldTypes
  <2> QED BY <2>1, <2>2, TypePartsAfter
<1> QED BY <1>1, <1>2, <1>3, <1>4 DEF NextRelay, RelayStep, RelayerOnly

(* The pending map and the pending objects always describe the same        *)
(* blocks, whatever is reorganised, fails or restarts: an entry without    *)
(* its object would make the next add_pending_block or                     *)
(* get_ready_pending_txs abort.                                            *)
THEOREM PendingStoreConsistent == SpecRelay => []RelayInv
<1>1. TypeInv => RelayInv
  BY DEF TypeInv, RelayInv
<1> QED BY <1>1, InitTypes, StepTypes, PTL DEF SpecRelay

(***************************************************************************)
(* Reorganisations within the limit.                                       *)
(***************************************************************************)
(* x was on the best chain once, and all of it but the last                *)
(* reorg_block_count blocks is on every best chain since.                  *)
Stable(x) ==
  /\ Len(x) <= Len(tip)
  /\ \A n \in 0..Len(x) : n + reorg_block_count <= Len(x) => SubSeq(x, 1, n) = SubSeq(tip, 1, n)

(* The blocks on their way to the store.                                   *)
feed == IF phase = "fetch" THEN Append(buffer, cursor) ELSE buffer

(* The pending blocks are the last of the best block's ancestors, linked   *)
(* by next_block_hash, and none of them waits for more blocks than it must.*)
PendingOK ==
  \A h \in Height : pending_blocks[h] # None =>
    /\ h <= Len(best_block) /\ Len(best_block) <= h + reorg_block_count
    /\ pending_blocks[h] = SubSeq(best_block, 1, h)
    /\ objects[pending_blocks[h]].next =
         IF h < Len(best_block) THEN SubSeq(best_block, 1, h + 1) ELSE None
    /\ objects[pending_blocks[h]].left # << >> /\ objects[pending_blocks[h]].left[1] = 1

(* The processed blocks are ancestors of the best block and of Bitcoin's,  *)
(* too deep to be disconnected.                                            *)
ProcessedOK ==
  \A h \in Height : height_to_hash[h] # None =>
    /\ h <= Len(best_block) /\ h + reorg_block_count <= Len(tip)
    /\ height_to_hash[h] = SubSeq(best_block, 1, h)
    /\ height_to_hash[h] = SubSeq(tip, 1, h)

(* Every ancestor of the best block is pending or processed, and the       *)
(* processed ones are below the pending ones.                              *)
Covered == \A h \in 0..Len(best_block) : pending_blocks[h] # None \/ height_to_hash[h] # None
\* Processed blocks lie below the pending ones.
Layered == \A h, k \in Height : height_to_hash[h] # None /\ pending_blocks[k] # None => h < k

(* The stores.                                                             *)
StoreChain ==
  /\ best_block = None => \A h \in Height : pending_blocks[h] = None /\ height_to_hash[h] = None
  /\ best_block # None => Stable(best_block) /\ PendingOK /\ ProcessedOK /\ Covered /\ Layered

(* sync_block walks from the best block back to the best chain, and not    *)
(* below a processed block.                                                *)
WalkOK ==
  phase = "walk" =>
    /\ best_block # None /\ buffer = << >>
    /\ Len(cursor) <= Len(best_block) /\ Len(best_block) <= Len(cursor) + reorg_block_count
    /\ cursor = SubSeq(best_block, 1, Len(cursor))
    /\ \A h \in Height : height_to_hash[h] # None => h <= Len(cursor)

(* The first block on its way continues the best block or forks off it,    *)
(* above the processed blocks, and above those that may be processed.      *)
FirstOK(f) ==
  /\ best_block = None => f = << >>
  /\ best_block # None =>
       /\ Len(f) > 0 /\ Len(f) - 1 <= Len(best_block)
       /\ SubSeq(f, 1, Len(f) - 1) = SubSeq(best_block, 1, Len(f) - 1)
       /\ Len(best_block) < Len(f) + reorg_block_count
       /\ \A h \in Height : height_to_hash[h] # None => h < Len(f)

(* The blocks on their way are a chain.                                    *)
FeedOK ==
  /\ \A i \in 1..Len(feed) : Stable(feed[i])
  /\ \A i \in 1..Len(feed) : i > 1 =>
       Len(feed[i]) = Len(feed[i - 1]) + 1 /\ SubSeq(feed[i], 1, Len(feed[i]) - 1) = feed[i - 1]
  /\ feed # << >> => FirstOK(feed[1])

(* The block that is ready is processed before the next block is added,    *)
(* its coinbase last.                                                      *)
ReadyOK ==
  best_block # None =>
    \A h \in Height : pending_blocks[h] # None /\ h + reorg_block_count = Len(best_block) =>
      /\ phase # "block"
      /\ phase = "exec" => /\ ready.block = pending_blocks[h] /\ ready.txs # << >>
                           /\ ready.txs[Len(ready.txs)] = 1

(* The chain of the stores and, until a system call aborts, the relayer.   *)
ChainInv == WithinReorgLimit => StoreChain /\ (~halted => WalkOK /\ FeedOK /\ ReadyOK)

(* A reorganisation that disconnects at most d blocks leaves all but the   *)
(* last d blocks of the best chain in place.                               *)
LEMMA NewTipShares ==
  ASSUME TypeInv, NEW b \in Block, NewTip(b), NEW d \in Nat, deepest' <= d
  PROVE  /\ Len(tip) < Len(b) /\ deepest <= d
         /\ \A n \in Nat : n + d <= Len(tip) => SubSeq(b, 1, n) = SubSeq(tip, 1, n)
<1> DEFINE P(n) == /\ Ancestor(SubSeq(tip, 1, n), b)
                   /\ n < Len(tip) => ~Ancestor(SubSeq(tip, 1, n + 1), b)
           shared == CHOOSE n \in 0..Len(tip) : P(n)
<1>1. tip \in Block /\ Len(tip) \in Nat /\ Len(b) \in Nat /\ deepest \in 0..MaxReorg
      /\ MaxReorg \in Nat
  BY BlockIsSeq, RelayAssumption DEF TypeInv, TypeOKRelay, Height
<1>2. shared \in 0..Len(tip) /\ P(shared)
  <2>1. \E n \in 0..Len(tip) : P(n)
    BY <1>1, SharedExists
  <2> HIDE DEF P
  <2> QED BY <2>1
<1>3. /\ deepest' = IF Len(tip) - shared > deepest THEN Len(tip) - shared ELSE deepest
      /\ Len(b) > Len(tip)
  BY DEF NewTip
<1>4. Ancestor(SubSeq(tip, 1, shared), b)
  BY <1>2
<1> HIDE DEF shared
<1>5. Len(tip) - shared <= d /\ deepest <= d
  BY <1>1, <1>2, <1>3
<1>6. Len(SubSeq(tip, 1, shared)) = shared
  BY <1>1, <1>2, PrefixType
<1>7. shared <= Len(b) /\ SubSeq(tip, 1, shared) = SubSeq(b, 1, shared)
  BY <1>4, <1>6 DEF Ancestor
<1>8. ASSUME NEW n \in Nat, n + d <= Len(tip)
      PROVE  SubSeq(b, 1, n) = SubSeq(tip, 1, n)
  <2>1. n <= shared /\ shared \in Nat /\ shared <= Len(tip)
    BY <1>1, <1>2, <1>5, <1>8
  <2> QED BY <1>1, <1>7, <2>1, PrefixAgree
<1> QED BY <1>1, <1>3, <1>5, <1>8

(* Within the limit, all but the last reorg_block_count.                   *)
LEMMA NewTipKeeps ==
  ASSUME TypeInv, NEW b \in Block, NewTip(b), deepest' <= reorg_block_count
  PROVE  /\ Len(tip) < Len(b) /\ deepest <= reorg_block_count
         /\ \A n \in Nat : n + reorg_block_count <= Len(tip) => SubSeq(b, 1, n) = SubSeq(tip, 1, n)
BY NewTipShares, RelayAssumption

(* What was stable stays stable.                                           *)
LEMMA StableStays ==
  ASSUME TypeInv, NEW b \in Block, NewTip(b), deepest' <= reorg_block_count,
         NEW x \in Block, Stable(x)
  PROVE  /\ Len(x) <= Len(b)
         /\ \A n \in 0..Len(x) : n + reorg_block_count <= Len(x) => SubSeq(x, 1, n) = SubSeq(b, 1, n)
<1>1. Len(tip) \in Nat /\ Len(b) \in Nat /\ Len(x) \in Nat /\ reorg_block_count \in Nat
  BY BlockIsSeq, RelayAssumption DEF TypeInv, TypeOKRelay, Height
<1>2. Len(tip) < Len(b)
      /\ \A n \in Nat : n + reorg_block_count <= Len(tip) => SubSeq(b, 1, n) = SubSeq(tip, 1, n)
  BY NewTipKeeps
<1>3. Len(x) <= Len(tip)
  BY DEF Stable
<1>4. ASSUME NEW n \in 0..Len(x), n + reorg_block_count <= Len(x)
      PROVE  SubSeq(x, 1, n) = SubSeq(b, 1, n)
  <2>1. n \in Nat /\ n + reorg_block_count <= Len(tip)
    BY <1>1, <1>3, <1>4
  <2>2. SubSeq(x, 1, n) = SubSeq(tip, 1, n)
    BY <1>4 DEF Stable
  <2> QED BY <1>2, <2>1, <2>2
<1> QED BY <1>1, <1>2, <1>3, <1>4

(* Whatever is on its way is a block.                                      *)
LEMMA FeedType ==
  ASSUME TypeInv
  PROVE  feed \in Seq(Block) /\ Len(feed) \in Nat /\ \A i \in 1..Len(feed) : feed[i] \in Block
<1>1. buffer \in Seq(Block) /\ (phase = "fetch" => cursor \in Block)
  BY DEF TypeInv, TypeOKRelay
<1>2. feed \in Seq(Block)
  BY <1>1 DEF feed
<1> QED BY <1>2, ElementOfSeq

(* Bitcoin's best chain changes, within the limit.                         *)
LEMMA NewTipChain == TypeInv /\ ChainInv /\ (\E b \in Block : NewTip(b)) => ChainInv'
<1> SUFFICES ASSUME TypeInv, ChainInv, NEW b \in Block, NewTip(b), WithinReorgLimit'
             PROVE  StoreChain' /\ (~halted' => WalkOK' /\ FeedOK' /\ ReadyOK')
  BY DEF ChainInv
<1>1. /\ tip' = b /\ pending_blocks' = pending_blocks /\ objects' = objects /\ best_block' = best_block
      /\ height_to_hash' = height_to_hash /\ halted' = halted /\ phase' = phase /\ cursor' = cursor
      /\ buffer' = buffer /\ ready' = ready /\ faults' = faults
  BY DEF NewTip, store, relayer
<1>2. faults = 0 /\ deepest' <= reorg_block_count
  BY <1>1 DEF WithinReorgLimit
<1>3. Len(tip) < Len(b) /\ deepest <= reorg_block_count
      /\ \A n \in Nat : n + reorg_block_count <= Len(tip) => SubSeq(b, 1, n) = SubSeq(tip, 1, n)
  BY <1>2, NewTipKeeps
<1>4. StoreChain /\ (~halted => WalkOK /\ FeedOK /\ ReadyOK)
  BY <1>2, <1>3 DEF ChainInv, WithinReorgLimit
<1>5. \A x \in Block : Stable(x) =>
         /\ Len(x) <= Len(tip')
         /\ \A n \in 0..Len(x) : n + reorg_block_count <= Len(x) => SubSeq(x, 1, n) = SubSeq(tip', 1, n)
  BY <1>1, <1>2, StableStays
<1>6. StoreChain'
  <2>1. CASE best_block = None
    BY <1>1, <1>4, <2>1 DEF StoreChain
  <2>2. CASE best_block # None
    <3>1. best_block \in Block
      BY <2>2 DEF TypeInv, TypeOKRelay
    <3>2. Stable(best_block)'
      BY <1>1, <1>4, <1>5, <2>2, <3>1 DEF StoreChain, Stable
    <3>3. ProcessedOK'
      <4>1. Len(tip) \in Nat /\ Len(b) \in Nat /\ \A h \in Height : h \in Nat
        BY BlockIsSeq, RelayAssumption DEF TypeInv, TypeOKRelay, Height
      <4>2. ProcessedOK
        BY <1>4, <2>2 DEF StoreChain
      <4>3. ASSUME NEW h \in Height, height_to_hash[h] # None
            PROVE  h + reorg_block_count <= Len(b) /\ height_to_hash[h] = SubSeq(b, 1, h)
        <5>1. h \in Nat /\ h + reorg_block_count <= Len(tip) /\ height_to_hash[h] = SubSeq(tip, 1, h)
          BY <4>1, <4>2, <4>3 DEF ProcessedOK
        <5>2. SubSeq(b, 1, h) = SubSeq(tip, 1, h)
          BY <1>3, <5>1
        <5>3. reorg_block_count \in Nat
          BY RelayAssumption
        <5> QED BY <1>3, <4>1, <5>1, <5>2, <5>3
      <4> QED BY <1>1, <4>2, <4>3 DEF ProcessedOK
    <3>4. PendingOK' /\ Covered' /\ Layered'
      BY <1>1, <1>4, <2>2 DEF StoreChain, PendingOK, Covered, Layered
    <3> QED BY <1>1, <2>2, <3>2, <3>3, <3>4 DEF StoreChain
  <2> QED BY <2>1, <2>2
<1>7. ASSUME ~halted PROVE WalkOK' /\ FeedOK' /\ ReadyOK'
  <2>1. WalkOK' /\ ReadyOK'
    BY <1>1, <1>4, <1>7 DEF WalkOK, ReadyOK
  <2>2. feed' = feed
    BY <1>1 DEF feed
  <2>3. FeedOK
    BY <1>4, <1>7
  <2>4. \A i \in 1..Len(feed) : feed[i] \in Block
    BY FeedType
  <2> HIDE DEF feed
  <2>5. \A i \in 1..Len(feed) : Stable(feed[i])'
    BY <1>5, <2>2, <2>3, <2>4 DEF FeedOK, Stable
  <2>6. feed # << >> => FirstOK(feed[1])'
    BY <1>1, <2>2, <2>3 DEF FeedOK, FirstOK
  <2> QED BY <2>1, <2>2, <2>3, <2>5, <2>6 DEF FeedOK
<1> QED BY <1>1, <1>6, <1>7

(* A step of the relayer that leaves the stores and Bitcoin alone leaves   *)
(* their chain.                                                            *)
LEMMA RelayerOnlyStore ==
  ASSUME RelayerOnly
  PROVE  /\ tip' = tip /\ pending_blocks' = pending_blocks /\ objects' = objects
         /\ best_block' = best_block /\ height_to_hash' = height_to_hash /\ halted' = halted
         /\ deepest' = deepest /\ ~halted /\ (faults' = faults \/ faults' = faults + 1)
         /\ StoreChain => StoreChain'
<1>1. UNCHANGED store /\ tip' = tip /\ deepest' = deepest /\ ~halted
      /\ (faults' = faults \/ faults' = faults + 1)
  BY DEF RelayerOnly, SkipSync, StartSync, FindCommonAncestor, FetchBlock, SyncError,
     GetReadyTxs, TxsDone, BlocksDone, HandleError, RestartNode
<1>2. StoreChain => StoreChain'
  BY <1>1 DEF store, StoreChain, Stable, PendingOK, ProcessedOK, Covered, Layered
<1> QED BY <1>1, <1>2 DEF store

(* The first block on its way is the whole of it.                          *)
LEMMA FeedOfOne ==
  ASSUME NEW f \in Block, tip' = tip, best_block' = best_block, height_to_hash' = height_to_hash,
         feed' = <<f>>, Stable(f), FirstOK(f)
  PROVE  FeedOK'
<1>1. Len(feed') = 1 /\ feed'[1] = f /\ feed' # << >>
  OBVIOUS
<1>2. Stable(f)' /\ FirstOK(f)'
  BY DEF Stable, FirstOK
<1>3. \A i \in 1..Len(feed') : i = 1
  BY <1>1
<1> HIDE DEF feed
<1> QED BY <1>1, <1>2, <1>3 DEF FeedOK, Stable, FirstOK

(* sync_block starts.                                                      *)
LEMMA StartSyncChain ==
  ASSUME TypeInv, StoreChain, WalkOK, FeedOK, ReadyOK, StartSync
  PROVE  WalkOK' /\ FeedOK' /\ ReadyOK'
<1>1. /\ tip' = tip /\ pending_blocks' = pending_blocks /\ best_block' = best_block
      /\ height_to_hash' = height_to_hash
  BY RelayerOnlyStore DEF RelayerOnly
<1>2. buffer = << >> /\ buffer' = << >> /\ phase' \in {"txs", "fetch", "walk"}
  BY DEF StartSync
<1>3. ReadyOK'
  BY <1>1, <1>2 DEF ReadyOK
<1>4. CASE best_block = tip
  <2>1. phase' = "txs" /\ feed' = << >>
    BY <1>2, <1>4 DEF StartSync, feed
  <2>2. WalkOK'
    BY <2>1 DEF WalkOK
  <2>3. FeedOK'
    BY <2>1 DEF FeedOK
  <2> QED BY <1>3, <2>2, <2>3
<1>5. CASE best_block # tip /\ best_block = None
  <2>1. phase' = "fetch" /\ cursor' = << >> /\ feed' = << << >> >>
    BY <1>2, <1>5 DEF StartSync, feed
  <2>2. << >> \in Block /\ tip \in Block /\ Len(tip) \in Nat
    BY BlockIsSeq, RelayAssumption DEF TypeInv, TypeOKRelay, Height
  <2>3. Stable(<< >>)
    <3>1. \A n \in 0..Len(<< >>) : n = 0
      OBVIOUS
    <3>2. SubSeq(tip, 1, 0) = << >> /\ SubSeq(<< >>, 1, 0) = << >>
      BY <2>2, BlockIsSeq
    <3> QED BY <2>2, <3>1, <3>2 DEF Stable
  <2>4. FirstOK(<< >>)
    BY <1>5 DEF FirstOK
  <2>5. FeedOK'
    BY <1>1, <2>1, <2>2, <2>3, <2>4, FeedOfOne
  <2>6. WalkOK'
    BY <2>1 DEF WalkOK
  <2> QED BY <1>3, <2>5, <2>6
<1>6. CASE best_block # tip /\ best_block # None
  <2>1. phase' = "walk" /\ cursor' = best_block /\ feed' = << >>
    BY <1>2, <1>6 DEF StartSync, feed
  <2>2. best_block \in Block /\ Len(best_block) \in Nat /\ SubSeq(best_block, 1, Len(best_block)) = best_block
    BY <1>6, PrefixWhole, BlockIsSeq, RelayAssumption DEF TypeInv, TypeOKRelay, Height
  <2>3. \A h \in Height : height_to_hash[h] # None => h <= Len(best_block)
    BY <1>6 DEF StoreChain, ProcessedOK
  <2>4. WalkOK'
    BY <1>1, <1>2, <1>6, <2>1, <2>2, <2>3, RelayAssumption DEF WalkOK
  <2>5. FeedOK'
    BY <2>1 DEF FeedOK
  <2> QED BY <1>3, <2>4, <2>5
<1> QED BY <1>4, <1>5, <1>6

(* The beginning of a block that is stable, and the best chain itself.     *)
LEMMA TipStable ==
  ASSUME TypeInv, NEW n \in 0..Len(tip)
  PROVE  Stable(SubSeq(tip, 1, n))
<1>1. tip \in Block /\ Len(tip) \in Nat
  BY BlockIsSeq, RelayAssumption DEF TypeInv, TypeOKRelay, Height
<1>2. Len(SubSeq(tip, 1, n)) = n
  BY <1>1, PrefixType
<1>3. \A m \in 0..n : SubSeq(SubSeq(tip, 1, n), 1, m) = SubSeq(tip, 1, m)
  BY <1>1, PrefixPrefix
<1> QED BY <1>1, <1>2, <1>3 DEF Stable

(* The walk back to the best chain ends before it passes a processed block *)
(* or one that may be processed: those are on the best chain.              *)
LEMMA WalkChain ==
  ASSUME TypeInv, StoreChain, WalkOK, FeedOK, ReadyOK, FindCommonAncestor
  PROVE  WalkOK' /\ FeedOK' /\ ReadyOK'
<1>1. /\ tip' = tip /\ pending_blocks' = pending_blocks /\ best_block' = best_block
      /\ height_to_hash' = height_to_hash /\ objects' = objects
  BY RelayerOnlyStore DEF RelayerOnly
<1>2. phase = "walk" /\ phase' \in {"walk", "fetch", "txs"} /\ buffer' = buffer
  BY DEF FindCommonAncestor
<1>3. /\ best_block # None /\ buffer = << >>
      /\ Len(cursor) <= Len(best_block) /\ Len(best_block) <= Len(cursor) + reorg_block_count
      /\ cursor = SubSeq(best_block, 1, Len(cursor))
      /\ \A h \in Height : height_to_hash[h] # None => h <= Len(cursor)
  BY <1>2 DEF WalkOK
<1>4. /\ cursor \in Block /\ best_block \in Block /\ tip \in Block
      /\ Len(cursor) \in Nat /\ Len(best_block) \in Nat /\ Len(tip) \in Nat /\ reorg_block_count \in Nat
  BY <1>2, <1>3, BlockIsSeq, RelayAssumption DEF TypeInv, TypeOKRelay, Height
<1>5. ReadyOK'
  BY <1>1, <1>2 DEF ReadyOK
<1>6. CASE OnBestChain(cursor) /\ next_block_hash(cursor) = None
  <2>1. phase' = "txs" /\ feed' = << >>
    BY <1>2, <1>3, <1>6 DEF FindCommonAncestor, feed
  <2>2. WalkOK' /\ FeedOK'
    BY <2>1 DEF WalkOK, FeedOK
  <2> QED BY <1>5, <2>2
<1>7. CASE OnBestChain(cursor) /\ next_block_hash(cursor) # None
  <2> DEFINE f == next_block_hash(cursor)
  <2>1. phase' = "fetch" /\ feed' = <<f>>
    BY <1>2, <1>3, <1>7 DEF FindCommonAncestor, feed
  <2>2. /\ f \in Block /\ Len(f) = Len(cursor) + 1 /\ Len(cursor) + 1 <= Len(tip)
        /\ f = SubSeq(tip, 1, Len(cursor) + 1) /\ cursor = SubSeq(tip, 1, Len(cursor))
    BY <1>4, <1>7, NextHash
  <2> HIDE DEF f
  <2>3. Len(cursor) + 1 \in 0..Len(tip) /\ Len(cursor) \in 0..(Len(cursor) + 1)
    BY <1>4, <2>2
  <2>4. Stable(f)
    BY <2>2, <2>3, TipStable
  <2>5. SubSeq(f, 1, Len(cursor)) = cursor
    BY <1>4, <2>2, <2>3, PrefixPrefix
  <2>6. Len(f) > 0 /\ Len(f) - 1 = Len(cursor) /\ Len(best_block) < Len(f) + reorg_block_count
    BY <1>3, <1>4, <2>2
  <2>7. \A h \in Height : height_to_hash[h] # None => h < Len(f)
    <3>1. \A h \in Height : h \in Nat
      BY RelayAssumption DEF Height
    <3> QED BY <1>3, <1>4, <2>2, <3>1
  <2>8. FirstOK(f)
    BY <1>3, <2>5, <2>6, <2>7 DEF FirstOK
  <2>9. FeedOK'
    BY <1>1, <2>1, <2>2, <2>4, <2>8, FeedOfOne
  <2>10. WalkOK'
    BY <2>1 DEF WalkOK
  <2> QED BY <1>5, <2>9, <2>10
<1>8. CASE ~OnBestChain(cursor)
  <2> DEFINE n == Len(cursor)
  <2>1. phase' = "walk" /\ cursor' = SubSeq(cursor, 1, n - 1) /\ feed' = << >>
    BY <1>2, <1>3, <1>8 DEF FindCommonAncestor, feed, prev_blockhash
  <2>2. n \in Nat \ {0} /\ Len(cursor') = n - 1 /\ n - 1 \in 0..n /\ n \in 0..Len(best_block)
    BY <1>3, <1>4, <1>8, <2>1, OffChain DEF prev_blockhash
  <2>3. cursor' = SubSeq(best_block, 1, n - 1)
    BY <1>3, <1>4, <2>1, <2>2, PrefixPrefix
  <2>4. ~(n <= Len(tip) /\ cursor = SubSeq(tip, 1, n))
    BY <1>8 DEF OnBestChain, Ancestor
  <2>5. Stable(best_block) /\ ProcessedOK
    BY <1>3 DEF StoreChain
  <2>6. ~(n + reorg_block_count <= Len(best_block))
    <3> SUFFICES ASSUME n + reorg_block_count <= Len(best_block) PROVE FALSE
      OBVIOUS
    <3>1. SubSeq(best_block, 1, n) = SubSeq(tip, 1, n) /\ Len(best_block) <= Len(tip)
      BY <2>2, <2>5 DEF Stable
    <3>2. n <= Len(tip)
      BY <1>3, <1>4, <2>2, <3>1
    <3> QED BY <1>3, <2>4, <3>1, <3>2
  <2>7. ASSUME NEW h \in Height, height_to_hash[h] # None PROVE h <= n - 1
    <3>1. h \in Nat /\ h <= n
      BY <1>3, <2>7, RelayAssumption DEF Height
    <3>2. h + reorg_block_count <= Len(tip) /\ SubSeq(best_block, 1, h) = SubSeq(tip, 1, h)
      BY <2>5, <2>7 DEF ProcessedOK
    <3>3. h # n
      <4>1. h <= Len(tip)
        BY <1>4, <3>1, <3>2
      <4> QED BY <1>3, <2>4, <3>2, <4>1
    <3> QED BY <2>2, <3>1, <3>3
  <2> HIDE DEF n
  <2>8. n - 1 <= Len(best_block) /\ Len(best_block) <= (n - 1) + reorg_block_count
    BY <1>4, <2>2, <2>6
  <2>9. WalkOK'
    BY <1>1, <1>2, <1>3, <2>2, <2>3, <2>7, <2>8 DEF WalkOK
  <2>10. FeedOK'
    BY <2>1 DEF FeedOK
  <2> QED BY <1>5, <2>9, <2>10
<1> QED BY <1>6, <1>7, <1>8

(* What is on its way after sync_block has fetched a block.                *)
LEMMA FetchFeed ==
  ASSUME FetchBlock
  PROVE  \/ feed' = buffer \/ feed' = feed
         \/ feed' = Append(feed, next_block_hash(cursor)) /\ next_block_hash(cursor) # None
<1>1. phase = "fetch" /\ feed = Append(buffer, cursor)
  BY DEF FetchBlock, feed
<1>2. buffer' = buffer \/ buffer' = feed
  BY <1>1 DEF FetchBlock
<1>3. CASE cursor' = None
  <2>1. feed' = buffer'
    BY <1>3 DEF FetchBlock, feed
  <2> QED BY <1>2, <2>1
<1>4. CASE cursor' # None
  <2>1. buffer' = feed /\ cursor' = next_block_hash(cursor) /\ phase' = "fetch"
    BY <1>1, <1>4 DEF FetchBlock
  <2>2. feed' = Append(buffer', cursor')
    BY <2>1 DEF feed
  <2> QED BY <1>4, <2>1, <2>2
<1> QED BY <1>3, <1>4

(* A block is fetched and the next hash read: one more of the chain.       *)
LEMMA FetchChain ==
  ASSUME TypeInv, StoreChain, WalkOK, FeedOK, ReadyOK, FetchBlock
  PROVE  WalkOK' /\ FeedOK' /\ ReadyOK'
<1>1. /\ tip' = tip /\ pending_blocks' = pending_blocks /\ best_block' = best_block
      /\ height_to_hash' = height_to_hash /\ objects' = objects
  BY RelayerOnlyStore DEF RelayerOnly
<1>2. phase = "fetch" /\ phase' \in {"fetch", "txs"} /\ feed = Append(buffer, cursor)
  BY DEF FetchBlock, feed
<1>3. cursor \in Block /\ tip \in Block /\ buffer \in Seq(Block) /\ Len(buffer) \in Nat
      /\ feed \in Seq(Block) /\ Len(feed) = Len(buffer) + 1 /\ feed[Len(feed)] = cursor
      /\ \A i \in 1..Len(buffer) : feed[i] = buffer[i]
  <2>1. cursor \in Block /\ tip \in Block /\ buffer \in Seq(Block)
    BY <1>2 DEF TypeInv, TypeOKRelay
  <2> QED BY <1>2, <2>1
<1>4. ReadyOK' /\ WalkOK'
  BY <1>1, <1>2 DEF ReadyOK, WalkOK
<1>5. CASE feed' = buffer
  <2>1. \A i \in 1..Len(buffer) : i \in 1..Len(feed) /\ feed'[i] = feed[i] /\ (i > 1 => i - 1 \in 1..Len(buffer))
    BY <1>3, <1>5
  <2>2. \A i \in 1..Len(feed') : Stable(feed'[i])
    BY <1>5, <2>1 DEF FeedOK
  <2>3. \A i \in 1..Len(feed') : i > 1 =>
          Len(feed'[i]) = Len(feed'[i - 1]) + 1 /\ SubSeq(feed'[i], 1, Len(feed'[i]) - 1) = feed'[i - 1]
    BY <1>5, <2>1 DEF FeedOK
  <2>4. feed' # << >> => FirstOK(feed'[1])
    <3>1. buffer # << >> => 1 \in 1..Len(buffer) /\ feed # << >>
      BY <1>3
    <3> QED BY <1>5, <2>1, <3>1 DEF FeedOK
  <2>5. FeedOK'
    BY <1>1, <2>2, <2>3, <2>4 DEF FeedOK, Stable, FirstOK
  <2> QED BY <1>4, <2>5
<1>6. CASE feed' = feed
  BY <1>1, <1>4, <1>6 DEF FeedOK, Stable, FirstOK
<1>7. CASE feed' = Append(feed, next_block_hash(cursor)) /\ next_block_hash(cursor) # None
  <2> DEFINE f == next_block_hash(cursor)
  <2>1. /\ f \in Block /\ Len(f) = Len(cursor) + 1 /\ Len(cursor) + 1 <= Len(tip)
        /\ f = SubSeq(tip, 1, Len(cursor) + 1) /\ cursor = SubSeq(tip, 1, Len(cursor))
    BY <1>3, <1>7, NextHash
  <2> HIDE DEF f
  <2>2. Len(cursor) \in Nat /\ Len(cursor) + 1 \in 0..Len(tip) /\ Len(cursor) \in 0..(Len(cursor) + 1)
    BY <1>3, <2>1, BlockIsSeq, RelayAssumption DEF Height
  <2>3. Stable(f)
    BY <2>1, <2>2, TipStable
  <2>4. SubSeq(f, 1, Len(f) - 1) = cursor
    <3>1. SubSeq(f, 1, Len(cursor)) = cursor
      BY <1>3, <2>1, <2>2, PrefixPrefix
    <3>2. Len(f) - 1 = Len(cursor)
      BY <2>1, <2>2
    <3> QED BY <3>1, <3>2
  <2> DEFINE m == Len(feed)
  <2>5. feed' = Append(feed, f)
    BY <1>7 DEF f
  <2>6. m \in Nat /\ m >= 1 /\ Len(feed') = m + 1 /\ feed'[m + 1] = f /\ \A i \in 1..m : feed'[i] = feed[i]
    BY <1>3, <2>5
  <2>7. feed[m] = cursor /\ feed # << >> /\ feed'[1] = feed[1] /\ feed' # << >>
    BY <1>3, <2>6
  <2> HIDE DEF m
  <2>8. \A i \in 1..m : Stable(feed[i])
    BY DEF FeedOK, m
  <2>9. \A i \in 1..m : i > 1 =>
          Len(feed[i]) = Len(feed[i - 1]) + 1 /\ SubSeq(feed[i], 1, Len(feed[i]) - 1) = feed[i - 1]
    BY DEF FeedOK, m
  <2>10. \A i \in 1..Len(feed') : i \in 1..m \/ i = m + 1
    BY <2>6
  <2>11. \A i \in 1..Len(feed') : Stable(feed'[i])
    BY <2>3, <2>6, <2>8, <2>10
  <2>12. ASSUME NEW i \in 1..Len(feed'), i > 1
         PROVE  Len(feed'[i]) = Len(feed'[i - 1]) + 1
                /\ SubSeq(feed'[i], 1, Len(feed'[i]) - 1) = feed'[i - 1]
    <3>1. CASE i = m + 1
      <4>1. feed'[i] = f /\ i - 1 = m /\ feed'[m] = cursor
        <5>1. m \in 1..m /\ i - 1 = m
          BY <2>6, <3>1
        <5> QED BY <2>6, <2>7, <3>1, <5>1
      <4> QED BY <2>1, <2>4, <4>1
    <3>2. CASE i \in 1..m
      <4>1. i - 1 \in 1..m
        BY <2>6, <2>12, <3>2
      <4> QED BY <2>6, <2>9, <2>12, <3>2, <4>1
    <3> QED BY <2>10, <3>1, <3>2
  <2>13. FirstOK(feed'[1])
    BY <2>7 DEF FeedOK
  <2>14. FeedOK'
    BY <1>1, <2>11, <2>12, <2>13 DEF FeedOK, Stable, FirstOK
  <2> QED BY <1>4, <2>14
<1>8. \/ feed' = buffer \/ feed' = feed
      \/ feed' = Append(feed, next_block_hash(cursor)) /\ next_block_hash(cursor) # None
  BY FetchFeed
<1> QED BY <1>5, <1>6, <1>7, <1>8

(* The ready transactions are read: if a block is ready they are its,      *)
(* coinbase last.                                                          *)
LEMMA GetReadyChain ==
  ASSUME TypeInv, StoreChain, WalkOK, FeedOK, ReadyOK, GetReadyTxs
  PROVE  WalkOK' /\ FeedOK' /\ ReadyOK'
<1>1. /\ tip' = tip /\ pending_blocks' = pending_blocks /\ best_block' = best_block
      /\ height_to_hash' = height_to_hash /\ objects' = objects
  BY RelayerOnlyStore DEF RelayerOnly
<1>2. phase = "txs" /\ phase' = "exec" /\ buffer' = buffer
  BY DEF GetReadyTxs
<1>3. feed' = feed
  BY <1>2 DEF feed
<1>4. WalkOK' /\ FeedOK'
  BY <1>1, <1>2, <1>3 DEF WalkOK, FeedOK, Stable, FirstOK
<1>5. ReadyOK'
  <2> SUFFICES ASSUME best_block # None, NEW h \in Height, pending_blocks[h] # None,
                      h + reorg_block_count = Len(best_block)
               PROVE  ready'.block = pending_blocks[h] /\ ready'.txs # << >>
                      /\ ready'.txs[Len(ready'.txs)] = 1
    BY <1>1, <1>2 DEF ReadyOK
  <2>1. ReadyBlock = pending_blocks[h]
    <3>1. h \in Nat /\ reorg_block_count \in Nat
      BY RelayAssumption DEF Height
    <3>2. ~(height(best_block) < reorg_block_count) /\ height(best_block) - reorg_block_count = h
      BY <3>1 DEF height
    <3> QED BY <3>2 DEF ReadyBlock
  <2>2. objects[ReadyBlock].left # << >> /\ objects[ReadyBlock].left[1] = 1
    BY <2>1 DEF StoreChain, PendingOK
  <2> QED BY <2>1, <2>2, ReadyTxs
<1> QED BY <1>4, <1>5

(* The other steps of the relayer.                                         *)
LEMMA RelayerOnlyChain == TypeInv /\ ChainInv /\ RelayerOnly => ChainInv'
<1> SUFFICES ASSUME TypeInv, ChainInv, RelayerOnly, WithinReorgLimit'
             PROVE  StoreChain' /\ (~halted' => WalkOK' /\ FeedOK' /\ ReadyOK')
  BY DEF ChainInv
<1>1. /\ tip' = tip /\ pending_blocks' = pending_blocks /\ best_block' = best_block
      /\ height_to_hash' = height_to_hash /\ deepest' = deepest /\ ~halted
      /\ (faults' = faults \/ faults' = faults + 1) /\ (StoreChain => StoreChain')
  BY RelayerOnlyStore
<1>2. faults' = 0 /\ faults' = faults /\ deepest <= reorg_block_count
  BY <1>1 DEF WithinReorgLimit, TypeInv
<1>3. StoreChain /\ WalkOK /\ FeedOK /\ ReadyOK
  BY <1>1, <1>2 DEF ChainInv, WithinReorgLimit
<1>4. WalkOK' /\ FeedOK' /\ ReadyOK'
  <2>1. CASE StartSync
    BY <1>3, <2>1, StartSyncChain
  <2>2. CASE FindCommonAncestor
    BY <1>3, <2>2, WalkChain
  <2>3. CASE FetchBlock
    BY <1>3, <2>3, FetchChain
  <2>4. CASE GetReadyTxs
    BY <1>3, <2>4, GetReadyChain
  <2>5. CASE SyncError \/ HandleError
    <3>1. faults' = faults + 1
      BY <2>5 DEF SyncError, HandleError
    <3> QED BY <1>2, <3>1
  <2>6. CASE RestartNode
    <3>1. phase' = "idle" /\ feed' = << >>
      BY <2>6 DEF RestartNode, feed
    <3> QED BY <3>1 DEF WalkOK, FeedOK, ReadyOK
  <2>7. CASE SkipSync \/ BlocksDone
    <3>1. phase # "fetch" /\ phase' \in {"txs", "idle"} /\ buffer' = buffer
      BY <2>7 DEF SkipSync, BlocksDone
    <3>2. feed' = feed
      BY <3>1 DEF feed
    <3>3. FeedOK'
      BY <1>1, <1>3, <3>2 DEF FeedOK, Stable, FirstOK
    <3> QED BY <1>1, <3>1, <3>3 DEF WalkOK, ReadyOK
  <2>8. CASE TxsDone
    <3>1. phase = "exec" /\ phase' = "block" /\ buffer' = buffer /\ ready.txs = << >>
      BY <2>8 DEF TxsDone
    <3>2. feed' = feed
      BY <3>1 DEF feed
    <3>3. FeedOK'
      BY <1>1, <1>3, <3>2 DEF FeedOK, Stable, FirstOK
    <3> QED BY <1>1, <1>3, <3>1, <3>3 DEF WalkOK, ReadyOK
  <2> QED BY <2>1, <2>2, <2>3, <2>4, <2>5, <2>6, <2>7, <2>8 DEF RelayerOnly
<1> QED BY <1>1, <1>3, <1>4

(* A transaction of the block that is ready.                               *)
LEMMA TxChain == TypeInv /\ ChainInv /\ HandleL1Tx => ChainInv'
<1> SUFFICES ASSUME TypeInv, ChainInv, HandleL1Tx, WithinReorgLimit'
             PROVE  StoreChain' /\ (~halted' => WalkOK' /\ FeedOK' /\ ReadyOK')
  BY DEF ChainInv
<1> DEFINE b == ready.block
           i == Head(ready.txs)
<1>1. /\ ~halted /\ phase = "exec" /\ phase' = "exec" /\ ready.txs # << >> /\ ExecuteL1Tx(b, i)
      /\ ready' = [ready EXCEPT !.txs = Tail(@)] /\ buffer' = buffer /\ tip' = tip
      /\ faults' = faults /\ deepest' = deepest
  BY DEF HandleL1Tx
<1>2. StoreChain /\ WalkOK /\ FeedOK /\ ReadyOK
  BY <1>1 DEF ChainInv, WithinReorgLimit
<1>3. feed' = feed /\ feed = buffer
  BY <1>1 DEF feed
<1>4. StoreTypes /\ ready \in [block : Block \cup {None}, txs : Seq(1..TxCount)]
  BY TypeParts DEF TypeInv, TypeOKRelay
<1>5. ready'.block = b /\ ready'.txs = Tail(ready.txs)
  BY <1>1, <1>4
<1>6. \A h \in Height : h \in Nat
  BY RelayAssumption DEF Height
<1> HIDE DEF b, i
<1>7. CASE Abort
  <2>1. StoreChain'
    BY <1>1, <1>2, <1>7 DEF Abort, StoreChain, Stable, PendingOK, ProcessedOK, Covered, Layered
  <2> QED BY <1>7, <2>1 DEF Abort
<1>8. ASSUME Processable(b, i)
      PROVE  /\ best_block # None /\ best_block \in Block /\ b \in Block
             /\ b \in DOMAIN objects /\ pending_blocks[Len(b)] = b /\ b # None
             /\ Len(b) \in Height /\ Len(best_block) \in Nat /\ Len(best_block) = Len(b) + reorg_block_count
             /\ \E k \in DOMAIN objects[b].left : objects[b].left[k] = i
  <2>1. b \in DOMAIN objects /\ pending_blocks[Len(b)] = b /\ b # None /\ b \in Block /\ Len(b) \in Height
    BY <1>4, <1>8, PendingWhere DEF Processable
  <2>2. best_block # None /\ best_block \in Block /\ Len(best_block) \in Nat
    BY <1>2, <2>1, BlockIsSeq, RelayAssumption DEF StoreChain, TypeInv, TypeOKRelay, Height
  <2>3. Len(best_block) >= reorg_block_count + Len(b)
    BY <1>8 DEF Processable, height
  <2>4. Len(best_block) <= Len(b) + reorg_block_count
    BY <1>2, <2>1, <2>2 DEF StoreChain, PendingOK
  <2>5. Len(best_block) = Len(b) + reorg_block_count
    BY <1>6, <2>1, <2>2, <2>3, <2>4, RelayAssumption
  <2> QED BY <1>8, <2>1, <2>2, <2>5 DEF Processable
<1>9. CASE /\ Processable(b, i) /\ i # 1
           /\ objects' = [objects EXCEPT ![b].left = Remove(@, i), ![b].processed_tx = @ + 1]
           /\ UNCHANGED <<pending_blocks, best_block, height_to_hash, halted>>
  <2> DEFINE q == objects[b].left
             new == [objects[b] EXCEPT !.left = Remove(q, i), !.processed_tx = @ + 1]
  <2>1. /\ best_block # None /\ b \in DOMAIN objects /\ pending_blocks[Len(b)] = b /\ b # None
        /\ Len(b) \in Height /\ \E k \in DOMAIN q : q[k] = i
    BY <1>8, <1>9
  <2>2. objects'[b] = new /\ \A x \in DOMAIN objects : x # b => objects'[x] = objects[x]
    BY <1>9, <2>1
  <2>3. objects[b] \in PendingBlock /\ q \in Seq(1..TxCount)
    BY <1>4, <2>1 DEF StoreTypes, PendingBlock
  <2>4. new.left = Remove(q, i) /\ new.next = objects[b].next
    BY <2>3 DEF PendingBlock
  <2>5. q[1] = 1
    BY <1>2, <2>1 DEF StoreChain, PendingOK
  <2>6. Remove(q, i) # << >> /\ Remove(q, i)[1] = 1
    BY <1>9, <2>1, <2>3, <2>5, RemoveOne
  <2> HIDE DEF new, q
  <2>7. PendingOK'
    <3> SUFFICES ASSUME NEW h \in Height, pending_blocks[h] # None
                 PROVE  objects'[pending_blocks[h]].next = objects[pending_blocks[h]].next
                        /\ objects'[pending_blocks[h]].left # << >>
                        /\ objects'[pending_blocks[h]].left[1] = 1
      BY <1>2, <1>9, <2>1 DEF StoreChain, PendingOK
    <3>1. pending_blocks[h] \in DOMAIN objects
      BY <1>4, PendingWhere
    <3>2. objects[pending_blocks[h]].left # << >> /\ objects[pending_blocks[h]].left[1] = 1
      BY <1>2, <2>1 DEF StoreChain, PendingOK
    <3> QED BY <2>2, <2>4, <2>6, <3>1, <3>2
  <2>8. StoreChain'
    BY <1>1, <1>2, <1>9, <2>1, <2>7 DEF StoreChain, Stable, ProcessedOK, Covered, Layered
  <2>9. WalkOK' /\ FeedOK'
    BY <1>1, <1>2, <1>3, <1>9 DEF WalkOK, FeedOK, Stable, FirstOK
  <2>10. ReadyOK'
    <3> SUFFICES ASSUME NEW h \in Height, pending_blocks[h] # None,
                        h + reorg_block_count = Len(best_block)
                 PROVE  ready'.block = pending_blocks[h] /\ ready'.txs # << >>
                        /\ ready'.txs[Len(ready'.txs)] = 1
      BY <1>1, <1>9 DEF ReadyOK
    <3> DEFINE txs == ready.txs
    <3>1. b = pending_blocks[h] /\ txs # << >> /\ txs[Len(txs)] = 1
      BY <1>1, <1>2, <2>1 DEF ReadyOK, b
    <3>2. txs \in Seq(1..TxCount) /\ Head(txs) = i
      BY <1>4 DEF i
    <3> HIDE DEF txs
    <3>3. Head(txs) = txs[1] /\ Len(txs) \in Nat /\ Len(txs) # 0
      BY <3>1, <3>2
    <3>4. Len(txs) # 1
      BY <1>9, <3>1, <3>2, <3>3
    <3>5. Len(Tail(txs)) = Len(txs) - 1 /\ \A k \in 1..Len(Tail(txs)) : Tail(txs)[k] = txs[k + 1]
          /\ Tail(txs) \in Seq(1..TxCount)
      BY <3>1, <3>2, HeadTailProperties
    <3>6. Len(txs) - 1 \in 1..Len(Tail(txs)) /\ (Len(txs) - 1) + 1 = Len(txs)
      BY <3>3, <3>4, <3>5
    <3>7. Tail(txs)[Len(Tail(txs))] = 1
      BY <3>1, <3>5, <3>6
    <3>8. Tail(txs) # << >>
      <4>1. Len(Tail(txs)) # 0
        BY <3>3, <3>4, <3>5
      <4>2. Len(<< >>) = 0
        OBVIOUS
      <4> QED BY <4>1, <4>2, Zenon
    <3> QED BY <1>5, <3>1, <3>7, <3>8 DEF txs
  <2> QED BY <2>8, <2>9, <2>10
<1>10. CASE /\ Processable(b, i) /\ i = 1 /\ Finishable(b)
            /\ objects' = Without(b)
            /\ pending_blocks' = [pending_blocks EXCEPT ![height(b)] = None]
            /\ height_to_hash' = [height_to_hash EXCEPT ![height(b)] = b]
            /\ UNCHANGED <<best_block, halted>>
  <2> DEFINE n == Len(b)
  <2>1. /\ best_block # None /\ best_block \in Block /\ b \in DOMAIN objects /\ pending_blocks[n] = b
        /\ n \in Height /\ n \in Nat /\ Len(best_block) \in Nat /\ reorg_block_count \in Nat
        /\ Len(best_block) = n + reorg_block_count /\ b # None
    BY <1>6, <1>8, <1>10, RelayAssumption
  <2>2. /\ \A h \in Height : pending_blocks'[h] = IF h = n THEN None ELSE pending_blocks[h]
        /\ \A h \in Height : height_to_hash'[h] = IF h = n THEN b ELSE height_to_hash[h]
        /\ \A x \in DOMAIN objects : x # b => objects'[x] = objects[x]
    BY <1>4, <1>10, <2>1 DEF StoreTypes, height, Without
  <2>3. Stable(best_block) /\ PendingOK /\ ProcessedOK /\ Covered /\ Layered
    BY <1>2, <2>1 DEF StoreChain
  <2> HIDE DEF n
  <2>4. best_block' = best_block /\ tip' = tip
    BY <1>1, <1>10
  <2>5. \A h \in Height : pending_blocks[h] # None => n <= h
    BY <1>6, <2>1, <2>3 DEF PendingOK
  <2>6. PendingOK'
    <3> SUFFICES ASSUME NEW h \in Height, pending_blocks'[h] # None
                 PROVE  pending_blocks'[h] = pending_blocks[h]
                        /\ objects'[pending_blocks[h]] = objects[pending_blocks[h]]
      BY <2>3, <2>4 DEF PendingOK
    <3>1. h # n /\ pending_blocks'[h] = pending_blocks[h]
      BY <2>2
    <3>2. pending_blocks[h] \in DOMAIN objects /\ Len(pending_blocks[h]) = h
      BY <1>4, <3>1, PendingWhere
    <3> QED BY <2>2, <3>1, <3>2 DEF n
  <2>7. b = SubSeq(best_block, 1, n) /\ b = SubSeq(tip, 1, n) /\ n + reorg_block_count <= Len(tip)
    <3>1. b = SubSeq(best_block, 1, n)
      BY <2>1, <2>3 DEF PendingOK
    <3>2. n \in 0..Len(best_block) /\ n + reorg_block_count <= Len(best_block)
      BY <2>1
    <3> QED BY <2>1, <2>3, <3>1, <3>2 DEF Stable
  <2>8. ProcessedOK'
    <3>1. n <= Len(best_block)
      BY <2>1
    <3> QED BY <2>2, <2>3, <2>4, <2>7, <3>1 DEF ProcessedOK
  <2>9. Covered'
    <3>1. \A h \in 0..Len(best_block) : h \in Height
      BY <2>1, PrefixType
    <3> QED BY <2>1, <2>2, <2>3, <2>4, <3>1 DEF Covered
  <2>10. Layered'
    <3> SUFFICES ASSUME NEW h \in Height, NEW k \in Height, height_to_hash'[h] # None, pending_blocks'[k] # None
                 PROVE  h < k
      BY DEF Layered
    <3>1. k # n /\ pending_blocks[k] # None /\ n <= k
      BY <2>2, <2>5
    <3>2. CASE h = n
      BY <1>6, <2>1, <3>1, <3>2
    <3>3. CASE h # n
      BY <2>2, <2>3, <3>1, <3>3 DEF Layered
    <3> QED BY <3>2, <3>3
  <2>11. StoreChain'
    BY <2>1, <2>3, <2>4, <2>6, <2>8, <2>9, <2>10 DEF StoreChain, Stable
  <2>12. WalkOK'
    BY <1>1 DEF WalkOK
  <2>13. ReadyOK'
    <3>1. \A h \in Height : h + reorg_block_count = Len(best_block) => h = n
      BY <1>6, <2>1
    <3> QED BY <2>2, <2>4, <3>1 DEF ReadyOK
  <2>14. FeedOK'
    <3>1. feed # << >> => FirstOK(feed[1])'
      <4> SUFFICES ASSUME feed # << >> PROVE FirstOK(feed[1])'
        OBVIOUS
      <4> DEFINE f == feed[1]
      <4>1. FirstOK(f)
        BY <1>2 DEF FeedOK
      <4>2. f \in Block /\ Len(f) \in Nat
        <5>1. 1 \in 1..Len(feed)
          BY FeedType
        <5> QED BY <5>1, FeedType, BlockIsSeq, RelayAssumption DEF Height
      <4>a. f' = f
        BY <1>3
      <4> HIDE DEF f
      <4>3. n < Len(f)
        BY <2>1, <4>1, <4>2 DEF FirstOK
      <4>4. FirstOK(f)'
        BY <2>1, <2>2, <2>4, <4>1, <4>3, <4>a DEF FirstOK
      <4> QED BY <1>3, <4>4 DEF f
    <3>2. \A k \in 1..Len(feed) : Stable(feed[k])'
      BY <1>2, <1>3, <2>4 DEF FeedOK, Stable
    <3> QED BY <1>2, <1>3, <3>1, <3>2 DEF FeedOK
  <2> QED BY <2>11, <2>12, <2>13, <2>14
<1> QED BY <1>1, <1>7, <1>9, <1>10, ExecuteCases

(* The blocks that make room for block b of height n, which forks off the  *)
(* best block or continues it: the pending ones at its height and above.   *)
LEMMA GoneAbove ==
  ASSUME TypeInv, StoreChain, NEW b \in Block, FirstOK(b)
  PROVE  \A x \in DOMAIN objects : x \in Replaced(Len(b)) <=> Len(b) <= Len(x)
<1> DEFINE n == Len(b)
           gone == Replaced(n)
<1>1. n \in Height /\ n \in Nat /\ \A h \in Height : h \in Nat
  BY BlockIsSeq, RelayAssumption DEF Height
<1>2. StoreTypes
  BY TypeParts
<1>3. /\ \A x \in DOMAIN objects : Len(x) \in Height /\ pending_blocks[Len(x)] = x /\ x # None
      /\ \A h \in Height : pending_blocks[h] # None =>
           pending_blocks[h] \in DOMAIN objects /\ Len(pending_blocks[h]) = h
  BY <1>2, PendingWhere, NoneNoBlock
<1>4. CASE best_block = None
  BY <1>3, <1>4 DEF StoreChain
<1>5. CASE best_block # None
  <2>1. best_block \in Block /\ Len(best_block) \in Nat /\ \A h \in 0..Len(best_block) : h \in Height
    BY <1>5, PrefixType, BlockIsSeq, RelayAssumption DEF TypeInv, TypeOKRelay, Height
  <2>2. PendingOK /\ Covered /\ Layered
    BY <1>5 DEF StoreChain
  <2>3. \A h \in Height : height_to_hash[h] # None => h < n
    BY <1>5 DEF FirstOK
  <2>4. \A h \in Height : n <= h /\ h <= Len(best_block) => pending_blocks[h] # None
    <3> SUFFICES ASSUME NEW h \in Height, n <= h, h <= Len(best_block), pending_blocks[h] = None
                 PROVE  FALSE
      OBVIOUS
    <3>1. h \in 0..Len(best_block)
      BY <1>1, <2>1
    <3>2. h < n
      BY <2>2, <2>3, <3>1 DEF Covered
    <3> QED BY <1>1, <3>2
  <2>5. \A h \in Height : pending_blocks[h] # None /\ h < Len(best_block) =>
          /\ h + 1 \in Height /\ pending_blocks[h + 1] # None
          /\ objects[pending_blocks[h]].next = pending_blocks[h + 1]
    <3> SUFFICES ASSUME NEW h \in Height, pending_blocks[h] # None, h < Len(best_block)
                 PROVE  /\ h + 1 \in Height /\ pending_blocks[h + 1] # None
                        /\ objects[pending_blocks[h]].next = pending_blocks[h + 1]
      OBVIOUS
    <3>1. h \in Nat /\ h + 1 \in 0..Len(best_block) /\ h + 1 \in Height
      BY <1>1, <2>1
    <3>2. height_to_hash[h + 1] = None
      <4> SUFFICES ASSUME height_to_hash[h + 1] # None PROVE FALSE
        OBVIOUS
      <4>1. h + 1 < h
        BY <2>2, <3>1 DEF Layered
      <4> QED BY <3>1, <4>1
    <3>3. pending_blocks[h + 1] # None
      BY <2>2, <3>1, <3>2 DEF Covered
    <3>4. pending_blocks[h + 1] = SubSeq(best_block, 1, h + 1)
      BY <2>2, <3>1, <3>3 DEF PendingOK
    <3>5. objects[pending_blocks[h]].next = SubSeq(best_block, 1, h + 1)
      BY <2>2 DEF PendingOK
    <3> QED BY <3>1, <3>3, <3>4, <3>5
  <2>6. \A h \in Height : pending_blocks[h] # None =>
          h <= Len(best_block) /\ (~(h < Len(best_block)) => objects[pending_blocks[h]].next = None)
    BY <2>2 DEF PendingOK
  <2> DEFINE above == {x \in DOMAIN objects : n <= Len(x)} \cup {None}
  <2>7. gone \subseteq above
    <3>1. pending_blocks[n] \in above
      BY <1>1, <1>3
    <3>2. ASSUME NEW x \in above \cap DOMAIN objects PROVE objects[x].next \in above
      <4> DEFINE h == Len(x)
      <4>1. h \in Height /\ h \in Nat /\ pending_blocks[h] = x /\ x # None /\ n <= h
        BY <1>1, <1>3
      <4> HIDE DEF h
      <4>2. CASE h < Len(best_block)
        <5>1. h + 1 \in Height /\ pending_blocks[h + 1] # None /\ objects[x].next = pending_blocks[h + 1]
          BY <2>5, <4>1, <4>2
        <5>2. pending_blocks[h + 1] \in DOMAIN objects /\ Len(pending_blocks[h + 1]) = h + 1
          BY <1>3, <5>1
        <5>3. n <= h + 1
          BY <1>1, <4>1
        <5> QED BY <5>1, <5>2, <5>3
      <4>3. CASE ~(h < Len(best_block))
        BY <2>6, <4>1, <4>3
      <4> QED BY <4>2, <4>3
    <3> HIDE DEF above
    <3> QED BY <1>1, <3>1, <3>2, ReplacedLeast
  <2>8. \A x \in DOMAIN objects : n <= Len(x) => x \in gone
    <3> DEFINE missed == {k \in Nat : k \in Height /\ n <= k /\ pending_blocks[k] # None /\ pending_blocks[k] \notin gone}
    <3>1. missed = {}
      <4> SUFFICES ASSUME missed # {} PROVE FALSE
        OBVIOUS
      <4>1. missed \in SUBSET Nat
        OBVIOUS
      <4>2. PICK k \in missed : \A m \in missed : k <= m
        BY <4>1, LeastElement
      <4>3. k \in Nat /\ k \in Height /\ n <= k /\ pending_blocks[k] # None /\ pending_blocks[k] \notin gone
        OBVIOUS
      <4>4. k # n
        BY <1>1, <4>3, ReplacedWalks
      <4>5. k - 1 \in Nat /\ k - 1 \in Height /\ n <= k - 1 /\ k - 1 < Len(best_block) /\ k - 1 \notin missed
            /\ k - 1 <= Len(best_block)
        <5>1. k <= Len(best_block)
          BY <2>6, <4>3
        <5>2. k - 1 \in Nat /\ n <= k - 1 /\ k - 1 < Len(best_block) /\ k - 1 <= Len(best_block)
              /\ ~(k <= k - 1) /\ k - 1 \in 0..Len(best_block)
          BY <1>1, <2>1, <4>3, <4>4, <5>1
        <5> QED BY <2>1, <4>2, <5>2
      <4>6. pending_blocks[k - 1] # None
        BY <2>4, <4>5
      <4>7. pending_blocks[k - 1] \in gone
        BY <4>5, <4>6
      <4>8. (k - 1) + 1 = k
        BY <4>3
      <4>9. objects[pending_blocks[k - 1]].next = pending_blocks[k]
        BY <2>5, <4>5, <4>6, <4>8
      <4>10. pending_blocks[k - 1] \in DOMAIN objects
        BY <1>3, <4>5, <4>6
      <4> HIDE DEF missed
      <4> QED BY <1>1, <4>3, <4>7, <4>9, <4>10, ReplacedWalks
    <3> QED BY <1>1, <1>3, <3>1
  <2> QED BY <1>3, <2>7, <2>8
<1> QED BY <1>4, <1>5

(* The next block becomes the best one.                                    *)
LEMMA AddChain ==
  ASSUME TypeInv, StoreChain, ReadyOK, phase = "block", tip' = tip,
         NEW b \in Block, FirstOK(b), Stable(b), Addable(b), AddPendingBlock(b)
  PROVE  StoreChain'
<1> DEFINE n == Len(b)
           gone == Replaced(n)
           new == [left |-> [i \in 1..TxCount |-> i], processed_tx |-> 0, next |-> None]
<1>1. n \in Height /\ n \in Nat /\ \A h \in Height : h \in Nat
  BY BlockIsSeq, RelayAssumption DEF Height
<1>2. StoreTypes
  BY TypeParts
<1>3. /\ \A x \in DOMAIN objects : Len(x) \in Height /\ pending_blocks[Len(x)] = x /\ x # None
      /\ \A h \in Height : pending_blocks[h] # None =>
           pending_blocks[h] \in DOMAIN objects /\ Len(pending_blocks[h]) = h
  BY <1>2, PendingWhere, NoneNoBlock
<1>4. /\ best_block' = b /\ height_to_hash' = height_to_hash /\ objects'[b] = new
      /\ \A x \in DOMAIN objects \ gone : x # b =>
           objects'[x] = IF b # << >> /\ x = prev_blockhash(b)
                           THEN [objects[x] EXCEPT !.next = b] ELSE objects[x]
      /\ pending_blocks'[n] = b
      /\ \A h \in Height : h # n =>
           pending_blocks'[h] = IF pending_blocks[h] \in gone THEN None ELSE pending_blocks[h]
  BY <1>2, AddedBlock
<1>5. \A x \in DOMAIN objects : x \in gone <=> n <= Len(x)
  BY GoneAbove
<1>6. b \in Block /\ b # None /\ SubSeq(b, 1, n) = b
  BY NoneNoBlock, PrefixWhole
<1>7. new.left # << >> /\ new.left[1] = 1 /\ new.next = None
  <2>1. 1 \in 1..TxCount
    BY RelayAssumption
  <2>2. new.left = [i \in 1..TxCount |-> i]
    OBVIOUS
  <2>3. new.left[1] = 1 /\ 1 \in DOMAIN new.left
    BY <2>1, <2>2
  <2> QED BY <2>3
<1>8. Stable(b)'
  BY DEF Stable
<1>9. ASSUME NEW h \in Height
      PROVE  pending_blocks'[h] = IF h = n THEN b ELSE IF h < n THEN pending_blocks[h] ELSE None
  <2>1. CASE h = n
    BY <1>4, <2>1
  <2>2. CASE h # n /\ pending_blocks[h] # None
    <3>1. pending_blocks[h] \in gone <=> n <= h
      BY <1>3, <1>5, <2>2
    <3> QED BY <1>1, <1>4, <2>2, <3>1
  <2>3. CASE h # n /\ pending_blocks[h] = None
    BY <1>4, <2>3
  <2> QED BY <2>1, <2>2, <2>3
<1>10. ASSUME NEW h \in Height, h < n, pending_blocks[h] # None
       PROVE  objects'[pending_blocks[h]] =
                IF b # << >> /\ pending_blocks[h] = prev_blockhash(b)
                  THEN [objects[pending_blocks[h]] EXCEPT !.next = b] ELSE objects[pending_blocks[h]]
  <2>1. pending_blocks[h] \in DOMAIN objects /\ Len(pending_blocks[h]) = h
    BY <1>3, <1>10
  <2>2. ~(n <= h)
    BY <1>1, <1>10
  <2>3. pending_blocks[h] \notin gone /\ pending_blocks[h] # b
    BY <1>5, <2>1, <2>2, <1>10
  <2> QED BY <1>4, <2>1, <2>3
<1> HIDE DEF gone, new
<1>11. CASE best_block = None
  <2>1. n = 0 /\ \A h \in Height : pending_blocks[h] = None /\ height_to_hash[h] = None
    BY <1>11 DEF FirstOK, StoreChain
  <2>2. \A h \in Height : pending_blocks'[h] # None => h = 0
    BY <1>9, <2>1
  <2>3. PendingOK'
    <3> SUFFICES ASSUME NEW h \in Height, pending_blocks'[h] # None
                 PROVE  /\ h <= n /\ n <= h + reorg_block_count
                        /\ pending_blocks'[h] = SubSeq(b, 1, h)
                        /\ objects'[pending_blocks'[h]].next = IF h < n THEN SubSeq(b, 1, h + 1) ELSE None
                        /\ objects'[pending_blocks'[h]].left # << >>
                        /\ objects'[pending_blocks'[h]].left[1] = 1
      BY <1>4 DEF PendingOK
    <3>1. h = n
      BY <2>1, <2>2
    <3>2. n <= n /\ n <= n + reorg_block_count /\ ~(n < n)
      BY <1>1, RelayAssumption
    <3> QED BY <1>4, <1>6, <1>7, <3>1, <3>2
  <2>4. ProcessedOK' /\ Layered'
    BY <1>4, <2>1 DEF ProcessedOK, Layered
  <2>5. Covered'
    <3>1. \A h \in 0..n : h = n
      BY <2>1
    <3> QED BY <1>4, <1>6, <3>1 DEF Covered
  <2> QED BY <1>4, <1>6, <1>8, <2>3, <2>4, <2>5 DEF StoreChain
<1>12. CASE best_block # None
  <2>1. best_block \in Block /\ Len(best_block) \in Nat /\ reorg_block_count \in Nat
    BY <1>12, BlockIsSeq, RelayAssumption DEF TypeInv, TypeOKRelay, Height
  <2>2. /\ n > 0 /\ n - 1 <= Len(best_block) /\ SubSeq(b, 1, n - 1) = SubSeq(best_block, 1, n - 1)
        /\ \A h \in Height : height_to_hash[h] # None => h < n
    BY <1>12 DEF FirstOK
  <2>3. PendingOK /\ ProcessedOK /\ Covered /\ Layered
    BY <1>12 DEF StoreChain
  <2>4. b # << >> /\ prev_blockhash(b) = SubSeq(b, 1, n - 1) /\ Len(prev_blockhash(b)) = n - 1
    <3>1. n - 1 \in 0..Len(b)
      BY <1>1, <2>2
    <3>2. b # << >>
      <4>1. Len(<< >>) = 0 /\ n # 0
        BY <1>1, <2>2
      <4> QED BY <4>1, Zenon
    <3>3. Len(SubSeq(b, 1, n - 1)) = n - 1
      BY <3>1, PrefixType
    <3> QED BY <3>2, <3>3 DEF prev_blockhash
  <2>5. \A m \in Nat : m < n => SubSeq(b, 1, m) = SubSeq(best_block, 1, m)
    <3> SUFFICES ASSUME NEW m \in Nat, m < n PROVE SubSeq(b, 1, m) = SubSeq(best_block, 1, m)
      OBVIOUS
    <3>1. n - 1 \in Nat /\ m <= n - 1 /\ n - 1 <= Len(b) /\ n - 1 <= Len(best_block)
      BY <1>1, <2>2
    <3> QED BY <2>1, <2>2, <3>1, PrefixAgree
  <2>6. PendingOK'
    <3> SUFFICES ASSUME NEW h \in Height, pending_blocks'[h] # None
                 PROVE  /\ h <= n /\ n <= h + reorg_block_count
                        /\ pending_blocks'[h] = SubSeq(b, 1, h)
                        /\ objects'[pending_blocks'[h]].next = IF h < n THEN SubSeq(b, 1, h + 1) ELSE None
                        /\ objects'[pending_blocks'[h]].left # << >>
                        /\ objects'[pending_blocks'[h]].left[1] = 1
      BY <1>4 DEF PendingOK
    <3>1. CASE h = n
      BY <1>1, <1>4, <1>6, <1>7, <2>1, <3>1
    <3>2. CASE h # n
      <4> DEFINE x == pending_blocks[h]
      <4>1. h < n /\ pending_blocks'[h] = x /\ x # None
        BY <1>9, <3>2
      <4>2. /\ h <= Len(best_block) /\ Len(best_block) <= h + reorg_block_count
            /\ x = SubSeq(best_block, 1, h)
            /\ objects[x].next = IF h < Len(best_block) THEN SubSeq(best_block, 1, h + 1) ELSE None
            /\ objects[x].left # << >> /\ objects[x].left[1] = 1
        BY <2>3, <4>1 DEF PendingOK
      <4>3. x \in DOMAIN objects /\ Len(x) = h /\ objects[x] \in PendingBlock
        BY <1>2, <1>3, <4>1 DEF StoreTypes
      <4>4. objects'[x] = IF x = prev_blockhash(b) THEN [objects[x] EXCEPT !.next = b] ELSE objects[x]
        BY <1>10, <2>4, <4>1
      <4>5. h + reorg_block_count # Len(best_block)
        BY <1>12, <4>1 DEF ReadyOK
      <4>6. n <= h + reorg_block_count
        BY <1>1, <2>1, <2>2, <4>2, <4>5
      <4>7. x = SubSeq(b, 1, h)
        BY <1>1, <2>5, <4>1, <4>2
      <4> HIDE DEF x
      <4>8. CASE h = n - 1
        <5>1. x = prev_blockhash(b) /\ h + 1 = n
          BY <1>1, <2>4, <4>7, <4>8
        <5>2. objects'[x].next = b /\ objects'[x].left = objects[x].left
          BY <4>3, <4>4, <5>1 DEF PendingBlock
        <5> QED BY <1>1, <1>6, <4>1, <4>2, <4>6, <4>7, <5>1, <5>2
      <4>9. CASE h # n - 1
        <5>1. x # prev_blockhash(b)
          BY <2>4, <4>3, <4>9
        <5>2. h + 1 \in Nat /\ h + 1 < n /\ h < Len(best_block)
          BY <1>1, <2>1, <2>2, <4>1, <4>9
        <5>3. objects[x].next = SubSeq(b, 1, h + 1)
          BY <2>5, <4>2, <5>2
        <5>4. h <= n
          BY <1>1, <4>1
        <5> QED BY <4>1, <4>2, <4>4, <4>6, <4>7, <5>1, <5>3, <5>4
      <4> QED BY <4>8, <4>9
    <3> QED BY <3>1, <3>2
  <2>7. ProcessedOK'
    <3> SUFFICES ASSUME NEW h \in Height, height_to_hash[h] # None
                 PROVE  h <= n /\ height_to_hash[h] = SubSeq(b, 1, h)
      BY <1>4, <2>3 DEF ProcessedOK
    <3>1. h \in Nat /\ h < n /\ height_to_hash[h] = SubSeq(best_block, 1, h)
      BY <1>1, <2>2, <2>3 DEF ProcessedOK
    <3> QED BY <1>1, <2>5, <3>1
  <2>8. Covered'
    <3> SUFFICES ASSUME NEW h \in 0..n PROVE pending_blocks'[h] # None \/ height_to_hash[h] # None
      BY <1>4 DEF Covered
    <3>1. h \in Height
      BY PrefixType
    <3>2. CASE h = n
      BY <1>4, <1>6, <3>2
    <3>3. CASE h # n
      <4>1. h < n /\ h \in 0..Len(best_block)
        BY <1>1, <2>1, <2>2, <3>3
      <4>2. pending_blocks'[h] = pending_blocks[h]
        BY <1>9, <3>1, <3>3, <4>1
      <4> QED BY <2>3, <4>1, <4>2 DEF Covered
    <3> QED BY <3>2, <3>3
  <2>9. Layered'
    <3> SUFFICES ASSUME NEW h \in Height, NEW k \in Height, height_to_hash[h] # None, pending_blocks'[k] # None
                 PROVE  h < k
      BY <1>4 DEF Layered
    <3>1. h < n
      BY <2>2
    <3>2. k = n \/ pending_blocks[k] # None
      BY <1>9
    <3> QED BY <2>3, <3>1, <3>2 DEF Layered
  <2> QED BY <1>4, <1>6, <1>8, <2>6, <2>7, <2>8, <2>9 DEF StoreChain
<1> QED BY <1>11, <1>12

(* A block of the relayer's buffer.                                        *)
LEMMA BlockChain == TypeInv /\ ChainInv /\ HandleL1Block => ChainInv'
<1> SUFFICES ASSUME TypeInv, ChainInv, HandleL1Block, WithinReorgLimit'
             PROVE  StoreChain' /\ (~halted' => WalkOK' /\ FeedOK' /\ ReadyOK')
  BY DEF ChainInv
<1> DEFINE b == Head(buffer)
<1>1. /\ ~halted /\ phase = "block" /\ phase' = "txs" /\ buffer # << >> /\ buffer' = Tail(buffer)
      /\ tip' = tip /\ faults' = faults /\ deepest' = deepest
      /\ IF Addable(b) THEN AddPendingBlock(b) ELSE Abort
  BY DEF HandleL1Block
<1>2. StoreChain /\ WalkOK /\ FeedOK /\ ReadyOK
  BY <1>1 DEF ChainInv, WithinReorgLimit
<1>3. feed = buffer /\ feed' = Tail(buffer) /\ buffer \in Seq(Block)
  BY <1>1 DEF feed, TypeInv, TypeOKRelay
<1>4. /\ Len(buffer) \in Nat /\ Len(buffer) # 0 /\ Len(feed') = Len(buffer) - 1 /\ b = feed[1] /\ b \in Block
      /\ \A k \in 1..Len(feed') : feed'[k] = feed[k + 1] /\ k + 1 \in 1..Len(feed) /\ k \in 1..Len(feed)
  <2>1. b \in Block /\ Tail(buffer) \in Seq(Block) /\ Len(Tail(buffer)) = Len(buffer) - 1
        /\ \A k \in 1..Len(Tail(buffer)) : Tail(buffer)[k] = buffer[k + 1]
    BY <1>1, <1>3, HeadTailProperties
  <2>2. Len(buffer) \in Nat /\ Len(buffer) # 0 /\ b = buffer[1]
    BY <1>1, <1>3
  <2>3. \A k \in 1..(Len(buffer) - 1) : k + 1 \in 1..Len(buffer) /\ k \in 1..Len(buffer)
    BY <2>2
  <2> QED BY <1>3, <2>1, <2>2, <2>3
<1> HIDE DEF b
<1>5. CASE ~Addable(b)
  <2>1. StoreChain'
    BY <1>1, <1>2, <1>5 DEF Abort, StoreChain, Stable, PendingOK, ProcessedOK, Covered, Layered
  <2> QED BY <1>1, <1>5, <2>1 DEF Abort
<1>6. CASE Addable(b)
  <2>1. FirstOK(b) /\ Stable(b)
    <3>1. 1 \in 1..Len(feed) /\ feed # << >>
      BY <1>1, <1>3, <1>4
    <3> QED BY <1>2, <1>4, <3>1 DEF FeedOK
  <2>2. AddPendingBlock(b)
    BY <1>1, <1>6
  <2>3. StoreChain'
    BY <1>1, <1>2, <1>4, <1>6, <2>1, <2>2, AddChain
  <2>4. best_block' = b /\ height_to_hash' = height_to_hash
    BY <2>2 DEF AddPendingBlock
  <2>5. WalkOK' /\ ReadyOK'
    BY <1>1 DEF WalkOK, ReadyOK
  <2>6. \A k \in 1..Len(feed') : Stable(feed'[k])
    BY <1>2, <1>4 DEF FeedOK
  <2>7. ASSUME NEW k \in 1..Len(feed'), k > 1
        PROVE  Len(feed'[k]) = Len(feed'[k - 1]) + 1
               /\ SubSeq(feed'[k], 1, Len(feed'[k]) - 1) = feed'[k - 1]
    <3>1. k + 1 > 1 /\ (k + 1) - 1 = k /\ (k - 1) + 1 = k /\ k - 1 \in 1..Len(feed')
      BY <1>4, <2>7
    <3>2. feed'[k] = feed[k + 1] /\ feed'[k - 1] = feed[k] /\ k + 1 \in 1..Len(feed)
      BY <1>4, <3>1
    <3> QED BY <1>2, <3>1, <3>2 DEF FeedOK
  <2>8. ASSUME feed' # << >> PROVE FirstOK(feed[1])'
    <3> DEFINE f == feed'[1]
    <3>1. 1 \in 1..Len(feed') /\ 2 \in 1..Len(feed) /\ f = feed[2]
      <4>1. Tail(buffer) \in Seq(Block) /\ Len(feed') # 0
        BY <1>1, <1>3, <2>8, HeadTailProperties, EmptySeq
      <4>2. 1 \in 1..Len(feed')
        BY <1>4, <4>1
      <4> QED BY <1>4, <4>2
    <3>2. Len(f) = Len(b) + 1 /\ SubSeq(f, 1, Len(f) - 1) = b
      BY <1>2, <1>4, <3>1 DEF FeedOK
    <3>3. f \in Block /\ Len(f) \in Nat /\ Len(b) \in Nat /\ reorg_block_count \in Nat
          /\ \A h \in Height : h \in Nat
      BY <1>4, <3>1, FeedType, BlockIsSeq, RelayAssumption DEF Height
    <3>4. b # None /\ SubSeq(b, 1, Len(b)) = b /\ Len(f) - 1 = Len(b)
      BY <1>4, <3>2, <3>3, NoneNoBlock, PrefixWhole
    <3>5. \A h \in Height : height_to_hash'[h] # None => h < Len(f)
      <4>1. \A h \in Height : height_to_hash[h] # None => h < Len(b)
        BY <1>2, <2>1 DEF FirstOK, StoreChain
      <4> QED BY <2>4, <3>2, <3>3, <4>1
    <3> HIDE DEF f
    <3>6. Len(f) > 0 /\ Len(b) < Len(f) + reorg_block_count /\ Len(f) - 1 <= Len(b)
      BY <3>2, <3>3
    <3>7. feed'[1] = f
      BY DEF f
    <3> QED BY <2>4, <3>2, <3>4, <3>5, <3>6, <3>7 DEF FirstOK
  <2>9. FeedOK'
    <3>1. \A k \in 1..Len(feed') : Stable(feed[k])'
      BY <1>1, <2>6 DEF Stable
    <3> QED BY <2>7, <2>8, <3>1 DEF FeedOK
  <2> QED BY <2>3, <2>5, <2>9
<1> QED BY <1>5, <1>6

(***************************************************************************)
(* What reorg_block_count is for.                                          *)
(***************************************************************************)
(* The inductive invariant holds.                                          *)
LEMMA ChainInvariant == SpecRelay => [](TypeInv /\ ChainInv)
<1>1. InitRelay => TypeInv /\ ChainInv
  <2> SUFFICES ASSUME InitRelay PROVE ChainInv
    BY InitTypes
  <2>1. StoreChain
    BY DEF InitRelay, StoreChain
  <2>2. feed = << >> /\ phase = "idle"
    BY DEF InitRelay, feed
  <2>3. WalkOK /\ FeedOK /\ ReadyOK
    BY <2>2 DEF WalkOK, FeedOK, ReadyOK
  <2> QED BY <2>1, <2>3 DEF ChainInv
<1>2. TypeInv /\ ChainInv /\ [NextRelay]_relayVars => (TypeInv /\ ChainInv)'
  <2> SUFFICES ASSUME TypeInv, ChainInv, [NextRelay]_relayVars PROVE ChainInv'
    BY StepTypes
  <2>1. CASE \E b \in Block : NewTip(b)
    BY <2>1, NewTipChain
  <2>2. CASE RelayerOnly
    BY <2>2, RelayerOnlyChain
  <2>3. CASE HandleL1Tx
    BY <2>3, TxChain
  <2>4. CASE HandleL1Block
    BY <2>4, BlockChain
  <2>5. CASE UNCHANGED relayVars
    <3>1. feed' = feed
      BY <2>5 DEF feed, relayVars, relayer
    <3>2. StoreChain => StoreChain'
      BY <2>5 DEF relayVars, store, StoreChain, Stable, PendingOK, ProcessedOK, Covered, Layered
    <3>3. WalkOK /\ FeedOK /\ ReadyOK => WalkOK' /\ FeedOK' /\ ReadyOK'
      BY <2>5, <3>1 DEF relayVars, store, relayer, WalkOK, FeedOK, Stable, FirstOK, ReadyOK
    <3>4. WithinReorgLimit' = WithinReorgLimit /\ halted' = halted
      BY <2>5 DEF relayVars, store, WithinReorgLimit
    <3> QED BY <3>2, <3>3, <3>4 DEF ChainInv
  <2> QED BY <2>1, <2>2, <2>3, <2>4, <2>5 DEF NextRelay, RelayStep, RelayerOnly
<1> QED BY <1>1, <1>2, PTL DEF SpecRelay

(* The pending blocks are a chain that ends in the best block: a           *)
(* reorganisation within the limit leaves nothing of the old branch above  *)
(* the new best block (add_pending_block, handle_reog).                    *)
THEOREM PendingBlocksAreAChain == SpecRelay => []PendingChain
<1>1. TypeInv /\ ChainInv => PendingChain
  <2> SUFFICES ASSUME TypeInv, ChainInv, WithinReorgLimit,
                      NEW h \in Height, pending_blocks[h] # None
               PROVE  /\ Ancestor(pending_blocks[h], best_block)
                      /\ h < height(best_block) => pending_blocks[h + 1] # None
    BY DEF PendingChain
  <2>1. best_block # None /\ PendingOK /\ Covered /\ Layered
    BY DEF ChainInv, StoreChain
  <2>2. /\ best_block \in Block /\ Len(best_block) \in Nat /\ h \in Nat
        /\ \A k \in 0..Len(best_block) : k \in Height
    BY <2>1, PrefixType, BlockIsSeq, RelayAssumption DEF TypeInv, TypeOKRelay, Height
  <2>3. h <= Len(best_block) /\ pending_blocks[h] = SubSeq(best_block, 1, h) /\ Len(pending_blocks[h]) = h
    BY <2>1, TypeParts, PendingWhere DEF PendingOK
  <2>4. ASSUME h < Len(best_block) PROVE pending_blocks[h + 1] # None
    <3>1. h + 1 \in 0..Len(best_block) /\ h + 1 \in Height /\ ~(h + 1 < h)
      BY <2>2, <2>4
    <3> QED BY <2>1, <3>1 DEF Covered, Layered
  <2> QED BY <2>3, <2>4 DEF Ancestor, height
<1> QED BY <1>1, ChainInvariant, PTL

(* The processed blocks are a chain without gaps: a block is processed     *)
(* after its parent (process_block_header).                                *)
THEOREM ProcessedBlocksAreAChain == SpecRelay => [](WithinReorgLimit => ProcessedChain)
<1>1. TypeInv /\ ChainInv => (WithinReorgLimit => ProcessedChain)
  <2> SUFFICES ASSUME TypeInv, ChainInv, WithinReorgLimit,
                      NEW h \in Height, height_to_hash[h] # None, h > 0
               PROVE  height_to_hash[h - 1] = prev_blockhash(height_to_hash[h])
    BY DEF ProcessedChain
  <2>1. best_block # None /\ ProcessedOK /\ Covered /\ Layered
    BY DEF ChainInv, StoreChain
  <2>2. h <= Len(best_block) /\ height_to_hash[h] = SubSeq(best_block, 1, h)
    BY <2>1 DEF ProcessedOK
  <2>3. best_block \in Block /\ h \in Nat /\ Len(best_block) \in Nat
    BY <2>1, BlockIsSeq, RelayAssumption DEF TypeInv, TypeOKRelay, Height
  <2>4. h \in 0..Len(best_block) /\ h - 1 \in 0..h /\ h - 1 \in 0..Len(best_block) /\ ~(h < h - 1)
    BY <2>2, <2>3
  <2>5. h - 1 \in Height
    BY <2>3, <2>4, PrefixType
  <2>6. height_to_hash[h - 1] # None
    BY <2>1, <2>4, <2>5 DEF Covered, Layered
  <2>7. height_to_hash[h - 1] = SubSeq(best_block, 1, h - 1)
    BY <2>1, <2>5, <2>6 DEF ProcessedOK
  <2>8. Len(SubSeq(best_block, 1, h)) = h /\ SubSeq(SubSeq(best_block, 1, h), 1, h - 1) = SubSeq(best_block, 1, h - 1)
    BY <2>3, <2>4, PrefixType, PrefixPrefix
  <2> QED BY <2>2, <2>7, <2>8 DEF prev_blockhash
<1> QED BY <1>1, ChainInvariant, PTL

(* And all of them stay on Bitcoin's best chain: as long as Bitcoin        *)
(* disconnects at most reorg_block_count blocks at once and no call fails, *)
(* whatever the relayer was doing at each reorganisation.                  *)
THEOREM ProcessedBlocksAreFinal == SpecRelay => []ProcessedIsFinal
<1>1. TypeInv /\ ChainInv /\ (WithinReorgLimit => ProcessedChain) => ProcessedIsFinal
  <2> SUFFICES ASSUME TypeInv, ChainInv, WithinReorgLimit, ProcessedChain,
                      NEW h \in Height, height_to_hash[h] # None
               PROVE  Ancestor(height_to_hash[h], tip)
    BY DEF ProcessedIsFinal
  <2>1. ProcessedOK
    BY DEF ChainInv, StoreChain
  <2>2. h + reorg_block_count <= Len(tip) /\ height_to_hash[h] = SubSeq(tip, 1, h)
    BY <2>1 DEF ProcessedOK
  <2>3. tip \in Block /\ h \in Nat /\ Len(tip) \in Nat /\ reorg_block_count \in Nat
    BY BlockIsSeq, RelayAssumption DEF TypeInv, TypeOKRelay, Height
  <2>4. h \in 0..Len(tip)
    BY <2>2, <2>3
  <2>5. Len(SubSeq(tip, 1, h)) = h
    BY <2>3, <2>4, PrefixType
  <2> QED BY <2>2, <2>3, <2>4, <2>5 DEF Ancestor
<1> QED BY <1>1, ChainInvariant, ProcessedBlocksAreAChain, PTL

(***************************************************************************)
(* Which system calls can abort.                                           *)
(***************************************************************************)
(* A transaction is left at most once in a pending block.                  *)
LeftOnce ==
  \A x \in DOMAIN objects : \A j, k \in 1..Len(objects[x].left) :
    objects[x].left[j] = objects[x].left[k] => j = k

(* Transactions are processed only of a block that reorg_block_count       *)
(* blocks are above.                                                       *)
BegunIsDeep ==
  \A x \in DOMAIN objects : objects[x].processed_tx # 0 => Len(x) + reorg_block_count <= Len(best_block)

(* The ready transactions are those left of a pending block that deep, the *)
(* coinbase, which is left to the end, after the others.                   *)
ExecOK ==
  phase = "exec" /\ ready.txs # << >> =>
    /\ ready.block \in DOMAIN objects
    /\ Len(ready.block) + reorg_block_count <= Len(best_block)
    /\ Len(ready.txs) = Len(objects[ready.block].left)
    /\ \A k \in 1..(Len(ready.txs) - 1) : ready.txs[k] = objects[ready.block].left[k + 1]
    /\ ready.txs[Len(ready.txs)] = 1

(* The inductive invariant of the two handlers.                            *)
WorkInv == LeftOnce /\ (WithinReorgLimit => BegunIsDeep /\ (~halted => ExecOK))

(* What is left of a list without one of its elements, element by element. *)
LEMMA RemovePoints ==
  ASSUME NEW S, NEW q \in Seq(S), NEW i, \E k \in DOMAIN q : q[k] = i
  PROVE  \E k \in 1..Len(q) :
           /\ q[k] = i
           /\ \A j \in 1..(Len(q) - 1) : Remove(q, i)[j] = IF j < k THEN q[j] ELSE q[j + 1]
<1> DEFINE k == CHOOSE k \in DOMAIN q : q[k] = i
<1>1. k \in DOMAIN q /\ q[k] = i
  OBVIOUS
<1>2. Remove(q, i) = SubSeq(q, 1, k - 1) \o SubSeq(q, k + 1, Len(q))
  BY DEF Remove
<1> HIDE DEF k
<1>3. Len(q) \in Nat /\ k \in 1..Len(q)
  BY <1>1
<1> DEFINE a == SubSeq(q, 1, k - 1)
           b == SubSeq(q, k + 1, Len(q))
<1>4. a \in Seq(S) /\ Len(a) = k - 1 /\ \A j \in 1..(k - 1) : a[j] = q[j]
  <2>1. 1 \in 1..Len(q)+1 /\ k - 1 \in 1-1..Len(q)
    BY <1>3
  <2>2. a \in Seq(S) /\ Len(a) = (k - 1) - 1 + 1 /\ \A j \in 1..((k-1)-1+1) : a[j] = q[1+j-1]
    BY <2>1, SubSeqProperties
  <2> HIDE DEF a
  <2>3. (k - 1) - 1 + 1 = k - 1 /\ \A j \in 1..(k - 1) : 1+j-1 = j
    BY <1>3
  <2> QED BY <2>2, <2>3
<1>5. b \in Seq(S) /\ Len(b) = Len(q) - k /\ \A j \in 1..(Len(q) - k) : b[j] = q[k + j]
  <2>1. k + 1 \in 1..Len(q)+1 /\ Len(q) \in (k+1)-1..Len(q)
    BY <1>3
  <2>2. b \in Seq(S) /\ Len(b) = Len(q) - (k + 1) + 1
        /\ \A j \in 1..(Len(q) - (k + 1) + 1) : b[j] = q[(k + 1) + j - 1]
    BY <2>1, SubSeqProperties
  <2> HIDE DEF b
  <2>3. Len(q) - (k + 1) + 1 = Len(q) - k /\ \A j \in 1..(Len(q) - k) : (k + 1) + j - 1 = k + j
    BY <1>3
  <2> QED BY <2>2, <2>3
<1>6. Remove(q, i) = a \o b
  BY <1>2
<1> HIDE DEF a, b
<1>7. ASSUME NEW j \in 1..(Len(q) - 1)
      PROVE  (a \o b)[j] = IF j < k THEN q[j] ELSE q[j + 1]
  <2>1. CASE j < k
    <3>1. j \in 1..(k - 1) /\ j \in 1..Len(a)
      BY <1>3, <1>4, <2>1
    <3>2. (a \o b)[j] = a[j]
      BY <1>4, <1>5, <3>1, ConcatProperties
    <3> QED BY <1>4, <2>1, <3>1, <3>2
  <2>2. CASE ~(j < k)
    <3>1. j \in (Len(a) + 1)..(Len(a) + Len(b)) /\ j - Len(a) \in 1..(Len(q) - k)
          /\ k + (j - Len(a)) = j + 1
      BY <1>3, <1>4, <1>5, <2>2
    <3>2. (a \o b)[j] = b[j - Len(a)]
      BY <1>4, <1>5, <3>1
    <3>3. b[j - Len(a)] = q[j + 1]
      BY <1>5, <3>1
    <3> QED BY <2>2, <3>2, <3>3
  <2> QED BY <2>1, <2>2
<1> QED BY <1>1, <1>3, <1>6, <1>7

(* A list without repetitions has none when an element is removed.         *)
LEMMA RemoveOnce ==
  ASSUME NEW S, NEW q \in Seq(S), NEW i, \E k \in DOMAIN q : q[k] = i,
         \A j, k \in 1..Len(q) : q[j] = q[k] => j = k
  PROVE  \A j, k \in 1..Len(Remove(q, i)) : Remove(q, i)[j] = Remove(q, i)[k] => j = k
<1> DEFINE r == Remove(q, i)
<1>1. Len(q) \in Nat \ {0} /\ Len(r) = Len(q) - 1
  BY RemoveOne
<1>2. PICK m \in 1..Len(q) : \A j \in 1..(Len(q) - 1) : r[j] = IF j < m THEN q[j] ELSE q[j + 1]
  BY RemovePoints
<1> HIDE DEF r
<1> SUFFICES ASSUME NEW j \in 1..Len(r), NEW k \in 1..Len(r), r[j] = r[k] PROVE j = k
  BY DEF r
<1> DEFINE at(x) == IF x < m THEN x ELSE x + 1
<1>3. at(j) \in 1..Len(q) /\ at(k) \in 1..Len(q) /\ (at(j) = at(k) => j = k)
  BY <1>1
<1>4. r[j] = q[at(j)] /\ r[k] = q[at(k)]
  BY <1>1, <1>2
<1> HIDE DEF at
<1> QED BY <1>3, <1>4

(* The first transaction of the ready ones: process_pending_tx's           *)
(* assertions hold for it, and finish_pending_block's if it is the         *)
(* coinbase, which is then the last one left.                              *)
LEMMA ReadyTxRuns ==
  ASSUME TypeInv, StoreChain, LeftOnce, ExecOK, phase = "exec", ready.txs # << >>
  PROVE  LET b == ready.block
             q == objects[b].left
         IN /\ b \in DOMAIN objects /\ best_block # None
            /\ Processable(b, Head(ready.txs))
            /\ Head(ready.txs) = 1 => Len(q) = 1 /\ Finishable(b)
            /\ Head(ready.txs) # 1 => Len(q) > 1 /\ Head(ready.txs) = q[2]
<1> DEFINE b == ready.block
           q == objects[b].left
           t == ready.txs
<1>1. /\ b \in DOMAIN objects /\ Len(b) + reorg_block_count <= Len(best_block) /\ Len(t) = Len(q)
      /\ (\A k \in 1..(Len(t) - 1) : t[k] = q[k + 1]) /\ t[Len(t)] = 1
  BY DEF ExecOK
<1>2. t \in Seq(1..TxCount) /\ t # << >> /\ q \in Seq(1..TxCount) /\ objects[b].processed_tx \in 0..TxCount
      /\ objects[b].processed_tx + Len(q) = TxCount
  BY <1>1 DEF TypeInv, TypeOKRelay, PendingBlock
<1>3. Len(t) \in Nat /\ Len(t) # 0 /\ Head(t) = t[1] /\ DOMAIN q = 1..Len(q)
  BY <1>2
<1>4. StoreTypes
  BY TypeParts
<1>5. pending_blocks[Len(b)] = b /\ b # None /\ Len(b) \in Height /\ b \in Block
  BY <1>1, <1>4, PendingWhere
<1>6. best_block # None
  BY <1>5 DEF StoreChain
<1>7. q[1] = 1
  BY <1>5, <1>6 DEF StoreChain, PendingOK
<1>8. \A j, k \in 1..Len(q) : q[j] = q[k] => j = k
  BY <1>1 DEF LeftOnce
<1>9. best_block \in Block /\ Len(best_block) \in Nat /\ Len(b) \in Nat
  BY <1>5, <1>6, BlockIsSeq, RelayAssumption DEF TypeInv, TypeOKRelay, Height
<1>10. height_to_hash[Len(b)] = None
  BY <1>5, <1>6, <1>9 DEF StoreChain, Layered
<1> HIDE DEF b, q, t
<1>11. height(best_block) >= reorg_block_count + height(b)
  BY <1>1, <1>9, RelayAssumption DEF height
<1>12. CASE Len(t) = 1
  <2>1. Head(t) = 1 /\ 1 \in DOMAIN q
    BY <1>1, <1>3, <1>12
  <2>2. Processable(b, Head(t))
    BY <1>1, <1>7, <1>11, <2>1 DEF Processable, q
  <2>3. objects[b].processed_tx + 1 = TxCount
    BY <1>1, <1>2, <1>12
  <2>4. Finishable(b)
    BY <1>10, <2>3 DEF Finishable, height
  <2> QED BY <1>1, <1>6, <1>12, <2>1, <2>2, <2>4 DEF b, q, t
<1>13. CASE Len(t) # 1
  <2>1. Len(q) > 1 /\ 1 \in 1..(Len(t) - 1) /\ 1 + 1 = 2 /\ 2 \in 1..Len(q) /\ 1 \in 1..Len(q)
    BY <1>1, <1>3, <1>13
  <2>2. Head(t) = q[2]
    BY <1>1, <1>3, <2>1
  <2>3. Head(t) # 1
    <3>1. q[2] # q[1]
      BY <1>8, <2>1
    <3> QED BY <1>7, <2>2, <3>1
  <2>4. Processable(b, Head(t))
    BY <1>1, <1>3, <1>11, <2>1, <2>2 DEF Processable, q
  <2> QED BY <1>1, <1>6, <2>1, <2>2, <2>3, <2>4 DEF b, q, t
<1> QED BY <1>12, <1>13

(* Before a block is added nothing of a pending block is processed: the    *)
(* ready transactions were those of the only block that deep.              *)
LEMMA NothingBegun ==
  ASSUME TypeInv, StoreChain, ReadyOK, BegunIsDeep, phase = "block",
         NEW x \in DOMAIN objects
  PROVE  objects[x].processed_tx = 0
<1> SUFFICES ASSUME objects[x].processed_tx # 0 PROVE FALSE
  OBVIOUS
<1>1. StoreTypes
  BY TypeParts
<1>2. pending_blocks[Len(x)] = x /\ x # None /\ Len(x) \in Height /\ x \in Block
  BY <1>1, PendingWhere
<1>3. best_block # None
  BY <1>2 DEF StoreChain
<1>4. Len(best_block) <= Len(x) + reorg_block_count
  BY <1>2, <1>3 DEF StoreChain, PendingOK
<1>5. Len(x) + reorg_block_count <= Len(best_block)
  BY DEF BegunIsDeep
<1>6. Len(x) \in Nat /\ Len(best_block) \in Nat /\ reorg_block_count \in Nat
  BY <1>2, <1>3, BlockIsSeq, RelayAssumption DEF TypeInv, TypeOKRelay, Height
<1>7. Len(x) + reorg_block_count = Len(best_block)
  BY <1>4, <1>5, <1>6
<1> QED BY <1>2, <1>3, <1>7 DEF ReadyOK

(* add_pending_block's assertions hold for a block that is not pending.    *)
LEMMA NewBlockAddable ==
  ASSUME TypeInv, StoreChain, ReadyOK, BegunIsDeep, phase = "block",
         NEW b \in Block, b \notin DOMAIN objects
  PROVE  Addable(b)
<1>1. StoreTypes
  BY TypeParts
<1>2. Len(b) \in Height /\ height(b) = Len(b)
  BY BlockIsSeq DEF height
<1>3. Replaced(Len(b)) \subseteq DOMAIN objects \cup {None}
  <2>1. pending_blocks[Len(b)] \in DOMAIN objects \cup {None}
    BY <1>1, <1>2, PendingWhere
  <2>2. ASSUME NEW x \in DOMAIN objects PROVE objects[x].next \in DOMAIN objects \cup {None}
    <3>1. pending_blocks[Len(x)] = x /\ x # None /\ Len(x) \in Height /\ x \in Block
      BY <1>1, PendingWhere
    <3>2. best_block # None
      BY <3>1 DEF StoreChain
    <3>3. PendingOK /\ Covered /\ Layered
      BY <3>2 DEF StoreChain
    <3>4. best_block \in Block /\ Len(best_block) \in Nat /\ Len(x) \in Nat /\ \A h \in 0..Len(best_block) : h \in Height
      BY <3>1, <3>2, PrefixType, BlockIsSeq, RelayAssumption DEF TypeInv, TypeOKRelay, Height
    <3>5. CASE Len(x) < Len(best_block)
      <4>1. Len(x) + 1 \in 0..Len(best_block) /\ Len(x) + 1 \in Height /\ ~(Len(x) + 1 < Len(x))
        BY <3>4, <3>5
      <4>2. pending_blocks[Len(x) + 1] # None
        BY <3>1, <3>3, <4>1 DEF Covered, Layered
      <4>3. pending_blocks[Len(x) + 1] = SubSeq(best_block, 1, Len(x) + 1)
            /\ objects[x].next = SubSeq(best_block, 1, Len(x) + 1)
        BY <3>1, <3>3, <3>5, <4>1, <4>2 DEF PendingOK
      <4> QED BY <1>1, <4>1, <4>2, <4>3, PendingWhere
    <3>6. CASE ~(Len(x) < Len(best_block))
      BY <3>1, <3>3, <3>6 DEF PendingOK
    <3> QED BY <3>5, <3>6
  <2> QED BY <1>2, <2>1, <2>2, ReplacedLeast
<1>4. None \notin Replaced(Len(b))
  BY <1>2, ReplacedWalks
<1> QED BY <1>2, <1>3, <1>4, NothingBegun DEF Addable

(* A step that leaves the pending objects and the best block alone.        *)
LEMMA WorkFrame ==
  ASSUME objects' = objects, best_block' = best_block
  PROVE  (LeftOnce => LeftOnce') /\ (BegunIsDeep => BegunIsDeep')
BY DEF LeftOnce, BegunIsDeep

(* The ready transactions are read.                                        *)
LEMMA GetReadyWork ==
  ASSUME TypeInv, StoreChain, GetReadyTxs
  PROVE  ExecOK'
<1> SUFFICES ASSUME ready'.txs # << >> PROVE ExecOK'
  BY DEF ExecOK
<1>1. objects' = objects /\ best_block' = best_block
  BY DEF GetReadyTxs, store
<1>2. ReadyBlock # None
  BY DEF GetReadyTxs, NoReady
<1> DEFINE r == ReadyBlock
           q == objects[r].left
<1>3. r \in DOMAIN objects /\ ready'.block = r
  BY <1>2, ReadyTxs
<1>4. r = pending_blocks[Len(best_block) - reorg_block_count] /\ best_block # None
      /\ ~(Len(best_block) < reorg_block_count)
  BY <1>2 DEF ReadyBlock, height
<1>5. StoreTypes
  BY TypeParts
<1>6. pending_blocks[Len(r)] = r /\ r # None /\ Len(r) \in Height
  BY <1>3, <1>5, PendingWhere
<1>7. q # << >> /\ q[1] = 1 /\ q \in Seq(1..TxCount)
  BY <1>3, <1>4, <1>6 DEF StoreChain, PendingOK, TypeInv, TypeOKRelay, PendingBlock
<1>8. Len(r) + reorg_block_count <= Len(best_block)
  <2>1. Len(best_block) \in Height /\ Len(best_block) \in Nat /\ reorg_block_count \in Nat
    BY <1>4, BlockIsSeq, RelayAssumption DEF TypeInv, TypeOKRelay, Height
  <2>2. Len(best_block) - reorg_block_count \in Height
    BY <1>4, <2>1, RelayAssumption DEF Height
  <2>3. Len(r) = Len(best_block) - reorg_block_count
    BY <1>2, <1>4, <1>5, <2>2, PendingWhere
  <2> QED BY <2>1, <2>3
<1>9. ready'.txs = IF Len(q) > 1 THEN Append(Tail(q), Head(q)) ELSE q
  BY <1>2 DEF GetReadyTxs
<1> DEFINE t == ready'.txs
<1> HIDE DEF q, r, t
<1>10. Len(t) = Len(q) /\ (\A k \in 1..(Len(t) - 1) : t[k] = q[k + 1]) /\ t[Len(t)] = 1
  <2>1. CASE Len(q) > 1
    <3>1. Head(q) = 1 /\ Len(q) \in Nat
      BY <1>7
    <3>2. Tail(q) \in Seq(1..TxCount) /\ Len(Tail(q)) = Len(q) - 1
          /\ (\A k \in 1..Len(Tail(q)) : Tail(q)[k] = q[k + 1]) /\ Head(q) \in 1..TxCount
      BY <1>7, HeadTailProperties
    <3> DEFINE u == Tail(q)
    <3>3. t = Append(u, Head(q))
      BY <1>9, <2>1 DEF t
    <3> HIDE DEF u
    <3>4. u \in Seq(1..TxCount) /\ Len(u) = Len(q) - 1 /\ (\A k \in 1..Len(u) : u[k] = q[k + 1])
      BY <3>2 DEF u
    <3>5. Len(t) = Len(u) + 1 /\ (\A k \in 1..Len(u) : t[k] = u[k]) /\ t[Len(u) + 1] = Head(q)
      <4> DEFINE S == 1..TxCount
                 e == Head(q)
      <4>1. u \in Seq(S) /\ e \in S /\ Len(u) \in Nat
        BY <3>2, <3>4
      <4> HIDE DEF S, e
      <4>2. Len(Append(u, e)) = Len(u) + 1 /\ (\A k \in 1..Len(u) : Append(u, e)[k] = u[k])
            /\ Append(u, e)[Len(u) + 1] = e
        BY <4>1
      <4> QED BY <3>3, <4>2 DEF e
    <3>6. Len(t) = Len(q) /\ Len(t) - 1 = Len(u) /\ Len(u) + 1 = Len(t)
      BY <3>1, <3>4, <3>5
    <3> QED BY <3>1, <3>4, <3>5, <3>6
  <2>2. CASE ~(Len(q) > 1)
    <3>1. t = q /\ Len(q) = 1
      <4>1. t = q
        BY <1>9, <2>2 DEF t
      <4>2. Len(q) \in Nat /\ Len(q) # 0
        BY <1>7
      <4> QED BY <2>2, <4>1, <4>2
    <3>2. 1..(Len(t) - 1) = {}
      BY <3>1
    <3> QED BY <1>7, <3>1, <3>2
  <2> QED BY <2>1, <2>2
<1> QED BY <1>1, <1>3, <1>8, <1>10 DEF ExecOK, q, r, t

(* The steps of sync_block, the query, the errors and the restart.         *)
LEMMA RelayerOnlyWork == TypeInv /\ ChainInv /\ WorkInv /\ RelayerOnly => WorkInv'
<1> SUFFICES ASSUME TypeInv, ChainInv, WorkInv, RelayerOnly PROVE WorkInv'
  OBVIOUS
<1>1. /\ objects' = objects /\ best_block' = best_block /\ deepest' = deepest /\ ~halted
      /\ (faults' = faults \/ faults' = faults + 1)
  BY RelayerOnlyStore
<1>2. LeftOnce' /\ (BegunIsDeep => BegunIsDeep')
  BY <1>1, WorkFrame DEF WorkInv
<1>3. ASSUME WithinReorgLimit' PROVE BegunIsDeep' /\ ExecOK'
  <2>1. faults' = 0 /\ faults' = faults /\ deepest <= reorg_block_count
    BY <1>1, <1>3 DEF WithinReorgLimit, TypeInv
  <2>2. BegunIsDeep /\ StoreChain
    BY <1>1, <2>1 DEF WorkInv, ChainInv, WithinReorgLimit
  <2>3. CASE GetReadyTxs
    BY <1>2, <2>2, <2>3, GetReadyWork
  <2>4. CASE ~GetReadyTxs
    <3>1. ~SyncError /\ ~HandleError
      BY <2>1 DEF SyncError, HandleError
    <3>2. phase' # "exec"
      BY <2>4, <3>1 DEF RelayerOnly, SkipSync, StartSync, FindCommonAncestor, FetchBlock,
         TxsDone, BlocksDone, RestartNode
    <3> QED BY <1>2, <2>2, <3>2 DEF ExecOK
  <2> QED BY <2>3, <2>4
<1> QED BY <1>2, <1>3 DEF WorkInv

(* Bitcoin's best chain changes.                                           *)
LEMMA NewTipWork == TypeInv /\ WorkInv /\ (\E b \in Block : NewTip(b)) => WorkInv'
<1> SUFFICES ASSUME TypeInv, WorkInv, NEW b \in Block, NewTip(b) PROVE WorkInv'
  OBVIOUS
<1>1. /\ objects' = objects /\ best_block' = best_block /\ halted' = halted /\ phase' = phase
      /\ ready' = ready /\ faults' = faults
  BY DEF NewTip, store, relayer
<1>2. WithinReorgLimit' => WithinReorgLimit
  BY <1>1, NewTipKeeps DEF WithinReorgLimit
<1>3. ExecOK => ExecOK'
  BY <1>1 DEF ExecOK
<1> QED BY <1>1, <1>2, <1>3, WorkFrame DEF WorkInv

(* A transaction other than the coinbase is processed: the next one left   *)
(* is the next one of the ready ones.                                      *)
LEMMA NextReady ==
  ASSUME NEW S, NEW q \in Seq(S), NEW t \in Seq(S), Len(t) = Len(q), Len(q) > 1,
         \A k \in 1..(Len(t) - 1) : t[k] = q[k + 1],
         \A j, k \in 1..Len(q) : q[j] = q[k] => j = k
  PROVE  LET r == Remove(q, q[2])
             u == Tail(t)
         IN /\ Len(u) = Len(r) /\ u[Len(u)] = t[Len(t)]
            /\ \A k \in 1..(Len(u) - 1) : u[k] = r[k + 1]
<1> DEFINE r == Remove(q, q[2])
           u == Tail(t)
<1>1. Len(q) \in Nat /\ 2 \in 1..Len(q) /\ DOMAIN q = 1..Len(q) /\ t # << >>
  OBVIOUS
<1>2. Len(r) = Len(q) - 1
  BY <1>1, RemoveOne
<1>3. PICK m \in 1..Len(q) : q[m] = q[2] /\ \A j \in 1..(Len(q) - 1) : r[j] = IF j < m THEN q[j] ELSE q[j + 1]
  BY <1>1, RemovePoints
<1>4. m = 2
  BY <1>1, <1>3
<1>5. Len(u) = Len(t) - 1 /\ \A k \in 1..Len(u) : u[k] = t[k + 1]
  BY <1>1, HeadTailProperties
<1> HIDE DEF r, u
<1>6. Len(u) = Len(r) /\ Len(u) \in 1..Len(u) /\ Len(u) + 1 = Len(t)
  BY <1>1, <1>2, <1>5
<1>7. ASSUME NEW k \in 1..(Len(u) - 1) PROVE u[k] = r[k + 1]
  <2>1. k \in 1..Len(u) /\ k + 1 \in 1..(Len(t) - 1) /\ k + 1 \in 1..(Len(q) - 1) /\ ~(k + 1 < 2)
    BY <1>1, <1>5
  <2>2. u[k] = t[k + 1] /\ t[k + 1] = q[(k + 1) + 1]
    BY <1>5, <2>1
  <2>3. r[k + 1] = q[(k + 1) + 1]
    BY <1>3, <1>4, <2>1
  <2> QED BY <2>2, <2>3
<1>8. u[Len(u)] = t[Len(t)]
  BY <1>5, <1>6
<1> QED BY <1>6, <1>7, <1>8 DEF r, u

(* A ready transaction: within the limit its system call does not abort.   *)
LEMMA TxWork ==
  ASSUME TypeInv, ChainInv, WorkInv, HandleL1Tx
  PROVE  WorkInv' /\ (WithinReorgLimit => ~halted')
<1> DEFINE b == ready.block
           i == Head(ready.txs)
           q == objects[b].left
           t == ready.txs
<1>1. /\ ~halted /\ phase = "exec" /\ phase' = "exec" /\ t # << >> /\ ExecuteL1Tx(b, i)
      /\ ready' = [ready EXCEPT !.txs = Tail(@)] /\ faults' = faults /\ deepest' = deepest
  BY DEF HandleL1Tx
<1>2. t \in Seq(1..TxCount) /\ ready'.block = b /\ ready'.txs = Tail(t)
  BY <1>1 DEF TypeInv, TypeOKRelay
<1>3. WithinReorgLimit' = WithinReorgLimit
  BY <1>1 DEF WithinReorgLimit
<1>4. LeftOnce /\ (WithinReorgLimit => StoreChain /\ BegunIsDeep /\ ExecOK)
  BY <1>1 DEF WorkInv, ChainInv
<1>5. WithinReorgLimit =>
        /\ b \in DOMAIN objects /\ Processable(b, i)
        /\ i = 1 => Len(q) = 1 /\ Finishable(b)
        /\ i # 1 => Len(q) > 1 /\ i = q[2]
  BY <1>1, <1>4, ReadyTxRuns
<1>6. WithinReorgLimit => Len(t) = Len(q)
  BY <1>1, <1>4 DEF ExecOK
<1> HIDE DEF b, i, t
<1>7. WithinReorgLimit => ~halted'
  BY <1>1, <1>5 DEF ExecuteL1Tx
<1>8. CASE Abort
  <2>1. ~WithinReorgLimit
    BY <1>7, <1>8 DEF Abort
  <2>2. LeftOnce'
    BY <1>4, <1>8, WorkFrame DEF Abort
  <2> QED BY <1>3, <2>1, <2>2 DEF WorkInv
<1>9. CASE /\ Processable(b, i) /\ i = 1
           /\ objects' = Without(b) /\ UNCHANGED <<best_block, halted>>
  <2>1. DOMAIN objects' = DOMAIN objects \ {b} /\ \A x \in DOMAIN objects' : objects'[x] = objects[x]
    BY <1>9 DEF Without
  <2>2. LeftOnce' /\ (BegunIsDeep => BegunIsDeep')
    BY <1>4, <1>9, <2>1 DEF LeftOnce, BegunIsDeep
  <2>3. ASSUME WithinReorgLimit PROVE ExecOK'
    <3>1. Len(t) = 1
      BY <1>5, <1>6, <1>9, <2>3
    <3>2. Tail(t) = << >>
      BY <1>2, <3>1
    <3> QED BY <1>2, <3>2 DEF ExecOK
  <2> QED BY <1>3, <1>4, <1>7, <2>2, <2>3 DEF WorkInv
<1>10. CASE /\ Processable(b, i) /\ i # 1
            /\ objects' = [objects EXCEPT ![b].left = Remove(@, i), ![b].processed_tx = @ + 1]
            /\ UNCHANGED <<best_block, halted>>
  <2>1. b \in DOMAIN objects /\ (\E k \in DOMAIN q : q[k] = i)
        /\ height(best_block) >= reorg_block_count + height(b)
    BY <1>10 DEF Processable
  <2>2. objects[b] \in PendingBlock /\ q \in Seq(1..TxCount)
    BY <2>1 DEF TypeInv, TypeOKRelay, PendingBlock
  <2>3. DOMAIN objects' = DOMAIN objects /\ \A x \in DOMAIN objects : x # b => objects'[x] = objects[x]
    BY <1>10
  <2>4. objects'[b].left = Remove(q, i)
    BY <1>10, <2>1, <2>2 DEF PendingBlock
  <2>5. \A j, k \in 1..Len(q) : q[j] = q[k] => j = k
    BY <1>4, <2>1 DEF LeftOnce
  <2> HIDE DEF q
  <2>6. \A j, k \in 1..Len(Remove(q, i)) : Remove(q, i)[j] = Remove(q, i)[k] => j = k
    BY <2>1, <2>2, <2>5, RemoveOnce
  <2>7. LeftOnce'
    <3> SUFFICES ASSUME NEW x \in DOMAIN objects', NEW j \in 1..Len(objects'[x].left),
                        NEW k \in 1..Len(objects'[x].left), objects'[x].left[j] = objects'[x].left[k]
                 PROVE  j = k
      BY DEF LeftOnce
    <3>1. CASE x = b
      BY <2>4, <2>6, <3>1
    <3>2. CASE x # b
      BY <1>4, <2>3, <3>2 DEF LeftOnce
    <3> QED BY <3>1, <3>2
  <2>8. ASSUME WithinReorgLimit PROVE BegunIsDeep' /\ ExecOK'
    <3>1. ExecOK /\ BegunIsDeep /\ i = q[2] /\ Len(q) > 1
      BY <1>4, <1>5, <1>10, <2>8
    <3>2. Len(b) + reorg_block_count <= Len(best_block) /\ Len(t) = Len(q)
          /\ (\A k \in 1..(Len(t) - 1) : t[k] = q[k + 1]) /\ t[Len(t)] = 1
      BY <1>1, <3>1 DEF ExecOK, b, q, t
    <3>3. BegunIsDeep'
      BY <1>10, <2>3, <3>1, <3>2 DEF BegunIsDeep
    <3> DEFINE u == Tail(t)
               r == Remove(q, i)
    <3>4. Len(u) = Len(r) /\ u[Len(u)] = 1 /\ \A k \in 1..(Len(u) - 1) : u[k] = r[k + 1]
      BY <1>2, <2>2, <2>5, <3>1, <3>2, NextReady, ZenonT(30)
    <3>5. objects'[b].left = r /\ ready'.txs = u /\ ready'.block = b /\ b \in DOMAIN objects'
          /\ best_block' = best_block
      BY <1>2, <1>10, <2>1, <2>3, <2>4
    <3> HIDE DEF u, r
    <3> QED BY <3>2, <3>3, <3>4, <3>5 DEF ExecOK
  <2> QED BY <1>3, <1>7, <2>7, <2>8 DEF WorkInv
<1>11. \/ Abort
       \/ /\ Processable(b, i) /\ i = 1
          /\ objects' = Without(b) /\ UNCHANGED <<best_block, halted>>
       \/ /\ Processable(b, i) /\ i # 1
          /\ objects' = [objects EXCEPT ![b].left = Remove(@, i), ![b].processed_tx = @ + 1]
          /\ UNCHANGED <<best_block, halted>>
  BY <1>1, ExecuteCases
<1>12. WorkInv'
  BY <1>8, <1>9, <1>10, <1>11
<1> QED BY <1>7, <1>12

(* A block: nothing of a pending one is processed when it is added.  The   *)
(* call aborts, within the limit, only for a block that is pending.        *)
LEMMA BlockWork ==
  ASSUME TypeInv, ChainInv, WorkInv, HandleL1Block
  PROVE  WorkInv' /\ (WithinReorgLimit /\ Head(buffer) \notin DOMAIN objects => halted' = FALSE)
<1> DEFINE b == Head(buffer)
<1>1. /\ ~halted /\ phase = "block" /\ phase' = "txs" /\ buffer # << >>
      /\ faults' = faults /\ deepest' = deepest
      /\ IF Addable(b) THEN AddPendingBlock(b) ELSE Abort
  BY DEF HandleL1Block
<1>2. b \in Block /\ halted = FALSE
  BY <1>1, HeadTailProperties DEF TypeInv, TypeOKRelay
<1>3. WithinReorgLimit' = WithinReorgLimit
  BY <1>1 DEF WithinReorgLimit
<1>4. LeftOnce /\ (WithinReorgLimit => StoreChain /\ ReadyOK /\ BegunIsDeep)
  BY <1>1 DEF WorkInv, ChainInv
<1> HIDE DEF b
<1>5. WithinReorgLimit /\ b \notin DOMAIN objects => Addable(b)
  BY <1>1, <1>2, <1>4, NewBlockAddable
<1>6. ExecOK'
  BY <1>1 DEF ExecOK
<1>7. CASE ~Addable(b)
  <2>1. Abort
    BY <1>1, <1>7
  <2>2. LeftOnce' /\ (BegunIsDeep => BegunIsDeep')
    BY <1>4, <2>1, WorkFrame DEF Abort
  <2> QED BY <1>3, <1>4, <1>5, <1>6, <1>7, <2>2 DEF WorkInv, b
<1>8. CASE Addable(b)
  <2> DEFINE gone == Replaced(Len(b))
             new == [left |-> [k \in 1..TxCount |-> k], processed_tx |-> 0, next |-> None]
  <2>1. StoreTypes /\ AddPendingBlock(b)
    BY <1>1, <1>8, TypeParts
  <2>2. /\ halted' = halted /\ DOMAIN objects' = (DOMAIN objects \ gone) \cup {b} /\ objects'[b] = new
        /\ \A x \in DOMAIN objects \ gone : x # b =>
             objects'[x] = IF b # << >> /\ x = prev_blockhash(b)
                             THEN [objects[x] EXCEPT !.next = b] ELSE objects[x]
    BY <1>2, <2>1, AddedBlock
  <2>3. new.processed_tx = 0 /\ \A j, k \in 1..Len(new.left) : new.left[j] = new.left[k] => j = k
    <3>1. Len([k \in 1..TxCount |-> k]) = TxCount
      BY RelayAssumption
    <3> QED BY <3>1
  <2> HIDE DEF gone, new
  <2>4. ASSUME NEW x \in DOMAIN objects', x # b
        PROVE  /\ x \in DOMAIN objects /\ objects'[x].left = objects[x].left
               /\ objects'[x].processed_tx = objects[x].processed_tx
    <3>1. x \in DOMAIN objects /\ objects[x] \in PendingBlock
      BY <2>2, <2>4 DEF TypeInv, TypeOKRelay
    <3>2. objects'[x] = objects[x] \/ objects'[x] = [objects[x] EXCEPT !.next = b]
      BY <2>2, <2>4
    <3> QED BY <3>1, <3>2 DEF PendingBlock
  <2>5. LeftOnce'
    BY <1>4, <2>2, <2>3, <2>4 DEF LeftOnce
  <2>6. WithinReorgLimit => BegunIsDeep'
    <3>1. WithinReorgLimit => \A x \in DOMAIN objects' : objects'[x].processed_tx = 0
      BY <1>1, <1>4, <2>2, <2>3, <2>4, NothingBegun
    <3> QED BY <3>1 DEF BegunIsDeep
  <2> QED BY <1>2, <1>3, <1>6, <2>2, <2>5, <2>6 DEF WorkInv
<1> QED BY <1>7, <1>8

(* The inductive invariants hold.                                          *)
LEMMA WorkInvariant == SpecRelay => [](TypeInv /\ ChainInv /\ WorkInv)
<1>1. InitRelay => WorkInv
  <2> SUFFICES ASSUME InitRelay PROVE WorkInv
    OBVIOUS
  <2>1. DOMAIN objects = {} /\ phase # "exec"
    BY DEF InitRelay
  <2> QED BY <2>1 DEF WorkInv, LeftOnce, BegunIsDeep, ExecOK
<1>2. TypeInv /\ ChainInv /\ WorkInv /\ [NextRelay]_relayVars => WorkInv'
  <2> SUFFICES ASSUME TypeInv, ChainInv, WorkInv, [NextRelay]_relayVars PROVE WorkInv'
    OBVIOUS
  <2>1. CASE \E b \in Block : NewTip(b)
    BY <2>1, NewTipWork
  <2>2. CASE RelayerOnly
    BY <2>2, RelayerOnlyWork
  <2>3. CASE HandleL1Tx
    BY <2>3, TxWork
  <2>4. CASE HandleL1Block
    BY <2>4, BlockWork
  <2>5. CASE UNCHANGED relayVars
    <3>1. /\ objects' = objects /\ best_block' = best_block /\ phase' = phase /\ ready' = ready
          /\ halted' = halted /\ faults' = faults /\ deepest' = deepest
      BY <2>5 DEF relayVars, store, relayer
    <3>2. (ExecOK => ExecOK') /\ WithinReorgLimit' = WithinReorgLimit
      BY <3>1 DEF ExecOK, WithinReorgLimit
    <3> QED BY <3>1, <3>2, WorkFrame DEF WorkInv
  <2> QED BY <2>1, <2>2, <2>3, <2>4, <2>5 DEF NextRelay, RelayStep, RelayerOnly
<1> QED BY <1>1, <1>2, ChainInvariant, PTL DEF SpecRelay

(* The one way to abort.  Whatever reorg_block_count is, however Bitcoin   *)
(* reorganises within it and wherever the node restarts: every transaction *)
(* of a ready block passes the assertions of process_pending_tx, every     *)
(* coinbase those of finish_pending_block, and a block those of            *)
(* add_pending_block unless it is pending already.                         *)
THEOREM AbortsAreRepeats == SpecRelay => AbortsOnlyOnRepeat
<1>1. TypeInv /\ ChainInv /\ WorkInv /\ [NextRelay]_relayVars =>
        [WithinReorgLimit /\ halted' /\ ~halted =>
           phase = "block" /\ Head(buffer) \in DOMAIN objects]_relayVars
  <2> SUFFICES ASSUME TypeInv, ChainInv, WorkInv, NextRelay, WithinReorgLimit, halted', ~halted
               PROVE  phase = "block" /\ Head(buffer) \in DOMAIN objects
    OBVIOUS
  <2>1. CASE \E b \in Block : NewTip(b)
    BY <2>1 DEF NewTip, store
  <2>2. CASE RelayerOnly
    BY <2>2, RelayerOnlyStore
  <2>3. CASE HandleL1Tx
    BY <2>3, TxWork
  <2>4. CASE HandleL1Block
    <3>1. phase = "block"
      BY <2>4 DEF HandleL1Block
    <3> QED BY <2>4, <3>1, BlockWork
  <2> QED BY <2>1, <2>2, <2>3, <2>4 DEF NextRelay, RelayStep, RelayerOnly
<1> QED BY <1>1, WorkInvariant, PTL DEF SpecRelay, AbortsOnlyOnRepeat

(***************************************************************************)
(* Reorganisations of one block.                                           *)
(***************************************************************************)
(* Bitcoin never disconnected more than one block, and no call failed.     *)
Calm == WithinReorgLimit /\ deepest <= 1

(* Bitcoin replaced block x alone, and its best chain has grown past it:   *)
(* it does not return to x.                                                *)
Abandoned(x) ==
  /\ Len(x) > 0 /\ Len(x) < Len(tip) /\ x # SubSeq(tip, 1, Len(x))
  /\ SubSeq(x, 1, Len(x) - 1) = SubSeq(tip, 1, Len(x) - 1)

(* A block the relayer got from Bitcoin is on the best chain or abandoned. *)
Near(x) == Ancestor(x, tip) \/ Abandoned(x)

(* The first block on its way is not the best block or an ancestor of it.  *)
FirstNew == best_block # None /\ feed # << >> => ~Ancestor(feed[1], best_block)

(* The walk goes at most one block back.                                   *)
WalkNear ==
  phase = "walk" =>
    /\ best_block # None
    /\ cursor = best_block \/ (Abandoned(best_block) /\ cursor = prev_blockhash(best_block))

(* What of it the relayer holds, and the inductive invariant.              *)
FeedNear == (\A i \in 1..Len(feed) : Near(feed[i])) /\ FirstNew /\ WalkNear
CalmInv == Calm => ~halted /\ (best_block # None => Near(best_block)) /\ FeedNear

(* Bitcoin's best chain changes by one block at most.                      *)
LEMMA NearStays ==
  ASSUME TypeInv, NEW b \in Block, NewTip(b), deepest' <= 1, NEW x \in Block
  PROVE  (Abandoned(x) => Abandoned(x)') /\ (Near(x) => Near(x)')
<1>1. /\ tip \in Block /\ Len(tip) \in Nat /\ Len(b) \in Nat /\ Len(x) \in Nat /\ tip' = b
      /\ x \in Seq(Branch) /\ b \in Seq(Branch) /\ tip \in Seq(Branch)
  BY BlockIsSeq, RelayAssumption DEF TypeInv, TypeOKRelay, Height, NewTip
<1>2. Len(tip) < Len(b) /\ \A n \in Nat : n + 1 <= Len(tip) => SubSeq(b, 1, n) = SubSeq(tip, 1, n)
  BY NewTipShares
<1>3. ASSUME Abandoned(x) PROVE Abandoned(x)'
  <2>1. Len(x) > 0 /\ Len(x) < Len(tip) /\ x # SubSeq(tip, 1, Len(x))
        /\ SubSeq(x, 1, Len(x) - 1) = SubSeq(tip, 1, Len(x) - 1)
    BY <1>3 DEF Abandoned
  <2>2. Len(x) + 1 <= Len(tip) /\ Len(x) - 1 \in Nat /\ (Len(x) - 1) + 1 <= Len(tip) /\ Len(x) < Len(b)
    BY <1>1, <1>2, <2>1
  <2>3. SubSeq(b, 1, Len(x)) = SubSeq(tip, 1, Len(x)) /\ SubSeq(b, 1, Len(x) - 1) = SubSeq(tip, 1, Len(x) - 1)
    BY <1>1, <1>2, <2>2
  <2> QED BY <1>1, <2>1, <2>2, <2>3 DEF Abandoned
<1>4. ASSUME Ancestor(x, tip) PROVE Ancestor(x, b) \/ Abandoned(x)'
  <2>1. Len(x) <= Len(tip) /\ x = SubSeq(tip, 1, Len(x))
    BY <1>4 DEF Ancestor
  <2>2. CASE Len(x) < Len(tip)
    <3>1. Len(x) + 1 <= Len(tip) /\ Len(x) <= Len(b)
      BY <1>1, <1>2, <2>2
    <3>2. SubSeq(b, 1, Len(x)) = SubSeq(tip, 1, Len(x))
      BY <1>1, <1>2, <3>1
    <3> QED BY <2>1, <3>1, <3>2 DEF Ancestor
  <2>3. CASE Len(x) = Len(tip)
    <3>1. x = tip
      BY <1>1, <2>1, <2>3, PrefixWhole
    <3>2. CASE Len(x) = 0
      <4>1. x = << >> /\ SubSeq(b, 1, 0) = << >>
        BY <1>1, <3>2, EmptySeq
      <4> QED BY <1>1, <3>2, <4>1 DEF Ancestor
    <3>3. CASE Len(x) > 0
      <4>1. Len(x) - 1 \in Nat /\ (Len(x) - 1) + 1 <= Len(tip) /\ Len(x) < Len(b) /\ Len(x) <= Len(b)
        BY <1>1, <1>2, <2>3, <3>3
      <4>2. SubSeq(b, 1, Len(x) - 1) = SubSeq(x, 1, Len(x) - 1)
        BY <1>2, <3>1, <4>1
      <4>3. CASE x = SubSeq(b, 1, Len(x))
        BY <4>1, <4>3 DEF Ancestor
      <4>4. CASE x # SubSeq(b, 1, Len(x))
        BY <1>1, <3>3, <4>1, <4>2, <4>4 DEF Abandoned
      <4> QED BY <4>3, <4>4
    <3> QED BY <1>1, <3>2, <3>3
  <2> QED BY <1>1, <2>1, <2>2, <2>3
<1>5. Ancestor(x, b) => Ancestor(x, tip)'
  BY <1>1 DEF Ancestor
<1> QED BY <1>3, <1>4, <1>5 DEF Near

(* The lemma for the step as a whole.                                      *)
LEMMA NewTipCalm == TypeInv /\ CalmInv /\ (\E b \in Block : NewTip(b)) => CalmInv'
<1> SUFFICES ASSUME TypeInv, CalmInv, NEW b \in Block, NewTip(b), Calm'
             PROVE  ~halted' /\ (best_block' # None => Near(best_block)') /\ FeedNear'
  BY DEF CalmInv
<1>1. /\ tip' = b /\ best_block' = best_block /\ halted' = halted /\ phase' = phase /\ cursor' = cursor
      /\ buffer' = buffer /\ faults' = faults
  BY DEF NewTip, store, relayer
<1>2. faults = 0 /\ deepest' <= reorg_block_count /\ deepest' <= 1
  BY <1>1 DEF Calm, WithinReorgLimit
<1>3. Calm
  <2>1. deepest <= reorg_block_count
    BY <1>2, NewTipKeeps
  <2>2. deepest <= 1
    BY <1>2, NewTipShares
  <2> QED BY <1>2, <2>1, <2>2 DEF Calm, WithinReorgLimit
<1>4. ~halted /\ (best_block # None => Near(best_block)) /\ FeedNear
  BY <1>3 DEF CalmInv
<1>5. \A x \in Block : (Abandoned(x) => Abandoned(x)') /\ (Near(x) => Near(x)')
  BY <1>2, NearStays
<1>6. best_block # None => best_block \in Block
  BY DEF TypeInv, TypeOKRelay
<1>7. feed' = feed /\ \A i \in 1..Len(feed) : feed[i] \in Block
  BY <1>1, FeedType DEF feed
<1>8. best_block' # None => Near(best_block)'
  <2> SUFFICES ASSUME best_block # None PROVE Near(best_block)'
    BY <1>1
  <2>1. Near(best_block)
    BY <1>4
  <2> QED BY <1>1, <1>5, <1>6, <2>1 DEF Near, Abandoned, Ancestor
<1>9. \A i \in 1..Len(feed') : Near(feed[i])'
  <2> SUFFICES ASSUME NEW i \in 1..Len(feed) PROVE Near(feed[i])'
    BY <1>7
  <2>1. Near(feed[i]) /\ feed[i] \in Block
    BY <1>4, <1>7 DEF FeedNear
  <2> HIDE DEF feed
  <2> QED BY <1>5, <1>7, <2>1 DEF Near, Abandoned, Ancestor
<1>10. FirstNew'
  BY <1>1, <1>4, <1>7 DEF FirstNew, FeedNear, Ancestor
<1>11. WalkNear'
  <2> SUFFICES ASSUME phase = "walk"
               PROVE  /\ best_block # None
                      /\ cursor = best_block \/ (Abandoned(best_block)' /\ cursor = prev_blockhash(best_block))
    BY <1>1 DEF WalkNear, prev_blockhash
  <2>1. /\ best_block # None
        /\ cursor = best_block \/ (Abandoned(best_block) /\ cursor = prev_blockhash(best_block))
    BY <1>4 DEF FeedNear, WalkNear
  <2> QED BY <1>1, <1>5, <1>6, <2>1 DEF Abandoned
<1> QED BY <1>1, <1>4, <1>8, <1>9, <1>10, <1>11 DEF FeedNear

(* A block of the best chain is near.                                      *)
LEMMA NextNear ==
  ASSUME NEW b \in Block, tip \in Block, next_block_hash(b) # None
  PROVE  Near(next_block_hash(b)) /\ Len(next_block_hash(b)) = Len(b) + 1
         /\ next_block_hash(b) = SubSeq(tip, 1, Len(b) + 1) /\ next_block_hash(b) \in Block
<1>1. Len(next_block_hash(b)) = Len(b) + 1 /\ Len(b) + 1 <= Len(tip)
      /\ next_block_hash(b) = SubSeq(tip, 1, Len(b) + 1) /\ next_block_hash(b) \in Block
  BY NextHash
<1> QED BY <1>1 DEF Near, Ancestor

(* A block that is longer than another is no ancestor of it.               *)
LEMMA LongerIsNew == \A x, y \in Block : Len(x) > Len(y) => ~Ancestor(x, y)
<1> SUFFICES ASSUME NEW x \in Block, NEW y \in Block, Len(x) > Len(y) PROVE ~(Len(x) <= Len(y))
  BY DEF Ancestor
<1> QED BY BlockIsSeq, RelayAssumption DEF Height

(* sync_block starts.                                                      *)
LEMMA StartSyncCalm ==
  ASSUME TypeInv, StartSync
  PROVE  FeedNear'
<1>1. tip' = tip /\ best_block' = best_block
  BY RelayerOnlyStore DEF RelayerOnly
<1>2. buffer' = << >>
  BY DEF StartSync
<1>3. CASE best_block = tip
  <2>1. phase' = "txs" /\ feed' = << >>
    BY <1>2, <1>3 DEF StartSync, feed
  <2> QED BY <2>1 DEF FeedNear, FirstNew, WalkNear
<1>4. CASE best_block # tip /\ best_block = None
  <2>1. phase' = "fetch" /\ feed' = << << >> >>
    BY <1>2, <1>4 DEF StartSync, feed
  <2>2. Len(feed') = 1 /\ feed'[1] = << >>
    BY <2>1
  <2>3. Near(<< >>)
    <3>1. tip \in Seq(Branch) /\ Len(tip) \in Nat
      BY BlockIsSeq, RelayAssumption DEF TypeInv, TypeOKRelay, Height
    <3>2. SubSeq(tip, 1, 0) = << >> /\ Len(<< >>) = 0 /\ 0 <= Len(tip)
      BY <3>1
    <3> QED BY <3>2 DEF Near, Ancestor
  <2>4. \A i \in 1..Len(feed') : Near(feed[i])'
    <3>1. \A i \in 1..Len(feed') : i = 1
      BY <2>2
    <3> HIDE DEF feed
    <3> QED BY <1>1, <2>2, <2>3, <3>1 DEF Near, Abandoned, Ancestor
  <2> QED BY <1>1, <1>4, <2>1, <2>4 DEF FeedNear, FirstNew, WalkNear
<1>5. CASE best_block # tip /\ best_block # None
  <2>1. phase' = "walk" /\ feed' = << >> /\ cursor' = best_block
    BY <1>2, <1>5 DEF StartSync, feed
  <2> QED BY <1>1, <1>5, <2>1 DEF FeedNear, FirstNew, WalkNear
<1> QED BY <1>3, <1>4, <1>5

(* The walk back: at most one block, and the block after it is not one the *)
(* relayer knows.                                                          *)
LEMMA WalkCalm ==
  ASSUME TypeInv, WalkOK, FeedNear, best_block # None => Near(best_block), FindCommonAncestor
  PROVE  FeedNear'
<1>1. tip' = tip /\ best_block' = best_block
  BY RelayerOnlyStore DEF RelayerOnly
<1>2. phase = "walk" /\ buffer' = buffer /\ buffer = << >> /\ best_block # None
  BY DEF FindCommonAncestor, WalkOK
<1>3. cursor = best_block \/ (Abandoned(best_block) /\ cursor = prev_blockhash(best_block))
  BY <1>2 DEF FeedNear, WalkNear
<1>4. cursor \in Block /\ tip \in Block /\ best_block \in Block /\ Len(best_block) \in Nat
      /\ Len(cursor) \in Nat
  BY <1>2, BlockIsSeq, RelayAssumption DEF TypeInv, TypeOKRelay, Height
<1>5. CASE OnBestChain(cursor)
  <2> DEFINE f == next_block_hash(cursor)
  <2>1. cursor' = f /\ phase' = IF f = None THEN "txs" ELSE "fetch"
    BY <1>5 DEF FindCommonAncestor
  <2>2. CASE f = None
    <3>1. phase' = "txs" /\ feed' = << >>
      BY <1>2, <2>1, <2>2 DEF feed
    <3> QED BY <3>1 DEF FeedNear, FirstNew, WalkNear
  <2>3. CASE f # None
    <3>1. phase' = "fetch" /\ feed' = <<f>>
      BY <1>2, <2>1, <2>3 DEF feed
    <3>2. Near(f) /\ Len(f) = Len(cursor) + 1 /\ f = SubSeq(tip, 1, Len(cursor) + 1) /\ f \in Block
      BY <1>4, <2>3, NextNear
    <3> HIDE DEF f
    <3>3. ~Ancestor(f, best_block)
      <4>1. CASE cursor = best_block
        <5>1. Len(f) > Len(best_block)
          BY <1>4, <3>2, <4>1
        <5> QED BY <1>4, <3>2, <5>1, LongerIsNew
      <4>2. CASE Abandoned(best_block) /\ cursor = prev_blockhash(best_block)
        <5>1. Len(best_block) > 0 /\ best_block # SubSeq(tip, 1, Len(best_block))
          BY <4>2 DEF Abandoned
        <5>2. Len(best_block) - 1 \in 0..Len(best_block)
          BY <1>4, <5>1
        <5>3. Len(cursor) = Len(best_block) - 1
          BY <1>4, <4>2, <5>2, PrefixType DEF prev_blockhash
        <5>4. Len(f) = Len(best_block) /\ f # best_block
          BY <1>4, <3>2, <5>1, <5>3
        <5> QED BY <1>4, <5>4, PrefixWhole DEF Ancestor
      <4> QED BY <1>3, <4>1, <4>2
    <3>4. Len(feed') = 1 /\ feed'[1] = f /\ \A i \in 1..Len(feed') : i = 1
      BY <3>1
    <3>5. \A i \in 1..Len(feed') : Near(feed[i])'
      <4> HIDE DEF feed
      <4> QED BY <1>1, <3>2, <3>4 DEF Near, Abandoned, Ancestor
    <3>6. FirstNew'
      <4> HIDE DEF feed
      <4> QED BY <1>1, <3>3, <3>4 DEF FirstNew, Ancestor
    <3> QED BY <3>1, <3>5, <3>6 DEF FeedNear, WalkNear
  <2> QED BY <2>2, <2>3
<1>6. CASE ~OnBestChain(cursor)
  <2>1. cursor' = prev_blockhash(cursor) /\ phase' = "walk" /\ feed' = << >>
    BY <1>2, <1>6 DEF FindCommonAncestor, feed
  <2>2. cursor = best_block
    <3> SUFFICES ASSUME Abandoned(best_block), cursor = prev_blockhash(best_block) PROVE FALSE
      BY <1>3
    <3>1. Len(best_block) > 0 /\ Len(best_block) < Len(tip)
          /\ SubSeq(best_block, 1, Len(best_block) - 1) = SubSeq(tip, 1, Len(best_block) - 1)
      BY DEF Abandoned
    <3>2. Len(best_block) - 1 \in 0..Len(best_block) /\ Len(best_block) - 1 <= Len(tip)
      BY <1>4, <3>1, BlockIsSeq, RelayAssumption DEF Height
    <3>3. Len(cursor) = Len(best_block) - 1
      BY <1>4, <3>2, PrefixType DEF prev_blockhash
    <3> QED BY <1>6, <3>1, <3>2, <3>3 DEF OnBestChain, Ancestor, prev_blockhash
  <2>3. Abandoned(best_block)
    BY <1>2, <1>6, <2>2 DEF Near, OnBestChain
  <2> QED BY <1>1, <1>2, <2>1, <2>2, <2>3
            DEF FeedNear, FirstNew, WalkNear, Abandoned, prev_blockhash
<1> QED BY <1>5, <1>6

(* A block is fetched.                                                     *)
LEMMA FetchCalm ==
  ASSUME TypeInv, FeedNear, FetchBlock
  PROVE  FeedNear'
<1>1. tip' = tip /\ best_block' = best_block
  BY RelayerOnlyStore DEF RelayerOnly
<1>2. phase = "fetch" /\ phase' # "walk" /\ feed = Append(buffer, cursor)
  BY DEF FetchBlock, feed
<1>3. cursor \in Block /\ tip \in Block /\ buffer \in Seq(Block)
  BY <1>2 DEF TypeInv, TypeOKRelay
<1>4. Len(feed) = Len(buffer) + 1 /\ Len(buffer) \in Nat /\ \A i \in 1..Len(buffer) : feed[i] = buffer[i]
  BY <1>2, <1>3
<1>5. \A i \in 1..Len(feed) : Near(feed[i])
  BY DEF FeedNear
<1>6. best_block # None => ~Ancestor(feed[1], best_block)
  BY <1>2 DEF FeedNear, FirstNew
<1>7. feed \in Seq(Block)
  BY FeedType
<1> DEFINE f == next_block_hash(cursor)
<1>8. f # None => Near(f) /\ f \in Block
  BY <1>3, NextNear
<1> HIDE DEF f
<1>9. /\ \A i \in 1..Len(feed') : Near(feed'[i])
      /\ feed' # << >> => feed'[1] = feed[1]
  <2>1. CASE feed' = buffer
    <3>1. \A i \in 1..Len(buffer) : i \in 1..Len(feed)
      BY <1>4
    <3>2. buffer # << >> => 1 \in 1..Len(buffer)
      BY <1>3
    <3> HIDE DEF feed
    <3> QED BY <1>4, <1>5, <2>1, <3>1, <3>2
  <2>2. CASE feed' = feed
    BY <1>5, <2>2
  <2>3. CASE feed' = Append(feed, f) /\ f # None
    <3> DEFINE n == Len(feed)
    <3>1. n \in Nat /\ n >= 1 /\ Len(feed') = n + 1 /\ feed'[n + 1] = f /\ \A i \in 1..n : feed'[i] = feed[i]
      <4>1. f \in Block /\ n \in Nat /\ n >= 1
        BY <1>4, <1>8, <2>3
      <4> HIDE DEF feed
      <4> QED BY <1>7, <2>3, <4>1
    <3>2. \A i \in 1..Len(feed') : i \in 1..n \/ i = n + 1
      BY <3>1
    <3>3. 1 \in 1..n
      BY <3>1
    <3> HIDE DEF feed
    <3> QED BY <1>5, <1>8, <2>3, <3>1, <3>2, <3>3
  <2> QED BY <2>1, <2>2, <2>3, FetchFeed DEF f
<1>10. \A i \in 1..Len(feed') : Near(feed[i])'
  <2> HIDE DEF feed
  <2> QED BY <1>1, <1>9 DEF Near, Abandoned, Ancestor
<1>11. FirstNew'
  <2> HIDE DEF feed
  <2> QED BY <1>1, <1>6, <1>9 DEF FirstNew, Ancestor
<1> QED BY <1>2, <1>10, <1>11 DEF FeedNear, WalkNear

(* The other steps of the relayer.                                         *)
LEMMA RelayerOnlyCalm == TypeInv /\ ChainInv /\ CalmInv /\ RelayerOnly => CalmInv'
<1> SUFFICES ASSUME TypeInv, ChainInv, CalmInv, RelayerOnly, Calm'
             PROVE  ~halted' /\ (best_block' # None => Near(best_block)') /\ FeedNear'
  BY DEF CalmInv
<1>1. /\ tip' = tip /\ best_block' = best_block /\ halted' = halted /\ deepest' = deepest /\ ~halted
      /\ (faults' = faults \/ faults' = faults + 1)
  BY RelayerOnlyStore
<1>2. faults' = 0 /\ faults' = faults /\ deepest <= reorg_block_count /\ deepest <= 1
  BY <1>1 DEF Calm, WithinReorgLimit, TypeInv
<1>3. (best_block # None => Near(best_block)) /\ FeedNear /\ WalkOK
  BY <1>1, <1>2 DEF Calm, WithinReorgLimit, CalmInv, ChainInv
<1>4. best_block' # None => Near(best_block)'
  BY <1>1, <1>3 DEF Near, Abandoned, Ancestor
<1>5. FeedNear'
  <2>1. CASE StartSync
    BY <2>1, StartSyncCalm
  <2>2. CASE FindCommonAncestor
    BY <1>3, <2>2, WalkCalm
  <2>3. CASE FetchBlock
    BY <1>3, <2>3, FetchCalm
  <2>4. CASE SyncError \/ HandleError
    <3>1. faults' = faults + 1
      BY <2>4 DEF SyncError, HandleError
    <3> QED BY <1>2, <3>1
  <2>5. CASE RestartNode
    <3>1. phase' = "idle" /\ feed' = << >>
      BY <2>5 DEF RestartNode, feed
    <3> QED BY <3>1 DEF FeedNear, FirstNew, WalkNear
  <2>6. CASE SkipSync \/ BlocksDone \/ GetReadyTxs \/ TxsDone
    <3>1. phase # "fetch" /\ phase' \notin {"walk", "fetch"} /\ buffer' = buffer
      BY <2>6 DEF SkipSync, BlocksDone, GetReadyTxs, TxsDone
    <3>2. feed' = feed
      BY <3>1 DEF feed
    <3>3. \A i \in 1..Len(feed') : Near(feed[i])'
      <4>1. \A i \in 1..Len(feed) : Near(feed[i])
        BY <1>3 DEF FeedNear
      <4> HIDE DEF feed
      <4> QED BY <1>1, <3>2, <4>1 DEF Near, Abandoned, Ancestor
    <3>4. FirstNew'
      <4> HIDE DEF feed
      <4> QED BY <1>1, <1>3, <3>2 DEF FirstNew, FeedNear, Ancestor
    <3> QED BY <3>1, <3>3, <3>4 DEF FeedNear, WalkNear
  <2> QED BY <2>1, <2>2, <2>3, <2>4, <2>5, <2>6 DEF RelayerOnly
<1> QED BY <1>1, <1>4, <1>5

(* A ready transaction.                                                    *)
LEMMA TxCalm == TypeInv /\ ChainInv /\ WorkInv /\ CalmInv /\ HandleL1Tx => CalmInv'
<1> SUFFICES ASSUME TypeInv, ChainInv, WorkInv, CalmInv, HandleL1Tx, Calm'
             PROVE  ~halted' /\ (best_block' # None => Near(best_block)') /\ FeedNear'
  BY DEF CalmInv
<1>1. /\ phase = "exec" /\ phase' = "exec" /\ buffer' = buffer /\ tip' = tip
      /\ faults' = faults /\ deepest' = deepest /\ ExecuteL1Tx(ready.block, Head(ready.txs))
  BY DEF HandleL1Tx
<1>2. Calm /\ WithinReorgLimit
  BY <1>1 DEF Calm, WithinReorgLimit
<1>3. ~halted'
  BY <1>2, TxWork
<1>4. best_block' = best_block
  BY <1>1, ExecuteCases DEF Abort
<1>5. (best_block # None => Near(best_block)) /\ FeedNear
  BY <1>2 DEF CalmInv
<1>6. feed' = feed
  BY <1>1 DEF feed
<1>7. \A i \in 1..Len(feed) : Near(feed[i])
  BY <1>5 DEF FeedNear
<1> HIDE DEF feed
<1>8. \A i \in 1..Len(feed') : Near(feed[i])'
  BY <1>1, <1>6, <1>7 DEF Near, Abandoned, Ancestor
<1>9. FirstNew' /\ WalkNear'
  BY <1>1, <1>4, <1>5, <1>6 DEF FirstNew, FeedNear, WalkNear, Ancestor
<1>10. best_block' # None => Near(best_block)'
  BY <1>1, <1>4, <1>5 DEF Near, Abandoned, Ancestor
<1> QED BY <1>3, <1>8, <1>9, <1>10 DEF FeedNear

(* A block: it is not pending, so that it is added.                        *)
LEMMA BlockCalm == TypeInv /\ ChainInv /\ WorkInv /\ CalmInv /\ HandleL1Block => CalmInv'
<1> SUFFICES ASSUME TypeInv, ChainInv, WorkInv, CalmInv, HandleL1Block, Calm'
             PROVE  ~halted' /\ (best_block' # None => Near(best_block)') /\ FeedNear'
  BY DEF CalmInv
<1> DEFINE b == Head(buffer)
<1>1. /\ ~halted /\ phase = "block" /\ phase' = "txs" /\ buffer # << >> /\ buffer' = Tail(buffer)
      /\ tip' = tip /\ faults' = faults /\ deepest' = deepest
      /\ IF Addable(b) THEN AddPendingBlock(b) ELSE Abort
  BY DEF HandleL1Block
<1>2. Calm /\ WithinReorgLimit
  BY <1>1 DEF Calm, WithinReorgLimit
<1>3. FeedNear /\ StoreChain /\ FeedOK
  BY <1>1, <1>2 DEF CalmInv, ChainInv
<1>4. feed = buffer /\ feed' = Tail(buffer) /\ buffer \in Seq(Block)
  BY <1>1 DEF feed, TypeInv, TypeOKRelay
<1>5. /\ Len(feed) \in Nat /\ 1 \in 1..Len(feed) /\ b = feed[1] /\ b \in Block
      /\ feed' \in Seq(Block) /\ Len(feed') = Len(feed) - 1
      /\ \A k \in 1..Len(feed') : feed'[k] = feed[k + 1]
  <2>1. b \in Block /\ Tail(buffer) \in Seq(Block) /\ Len(Tail(buffer)) = Len(buffer) - 1
        /\ \A k \in 1..Len(Tail(buffer)) : Tail(buffer)[k] = buffer[k + 1]
    BY <1>1, <1>4, HeadTailProperties
  <2>2. Len(buffer) \in Nat /\ 1 \in 1..Len(buffer) /\ b = buffer[1]
    BY <1>1, <1>4
  <2> QED BY <1>4, <2>1, <2>2
<1> HIDE DEF b, feed
<1>6. b \notin DOMAIN objects
  <2> SUFFICES ASSUME b \in DOMAIN objects PROVE FALSE
    OBVIOUS
  <2>1. StoreTypes
    BY TypeParts
  <2>2. pending_blocks[Len(b)] = b /\ b # None /\ Len(b) \in Height
    BY <2>1, PendingWhere, NoneNoBlock
  <2>3. best_block # None
    BY <1>3, <2>2 DEF StoreChain
  <2>4. Len(b) <= Len(best_block) /\ b = SubSeq(best_block, 1, Len(b))
    BY <1>3, <2>2, <2>3 DEF StoreChain, PendingOK
  <2>5. feed # << >>
    BY <1>1, <1>4
  <2> QED BY <1>3, <1>5, <2>3, <2>4, <2>5 DEF FeedNear, FirstNew, Ancestor
<1>7. halted' = FALSE
  BY <1>2, <1>6, BlockWork DEF b
<1>8. best_block' = b
  BY <1>1, <1>7 DEF Abort, AddPendingBlock
<1>9. \A i \in 1..Len(feed) : Near(feed[i])
  BY <1>3 DEF FeedNear
<1>10. Near(best_block)'
  <2>1. Near(b)
    BY <1>5, <1>9
  <2> QED BY <1>1, <1>8, <2>1 DEF Near, Abandoned, Ancestor
<1>11. \A i \in 1..Len(feed') : Near(feed[i])'
  <2>1. \A k \in 1..Len(feed') : k + 1 \in 1..Len(feed)
    BY <1>5
  <2>2. \A k \in 1..Len(feed') : Near(feed'[k])
    BY <1>5, <1>9, <2>1
  <2> QED BY <1>1, <2>2 DEF Near, Abandoned, Ancestor
<1>12. FirstNew'
  <2> SUFFICES ASSUME feed' # << >> PROVE ~Ancestor(feed'[1], b)
    BY <1>8 DEF FirstNew, Ancestor
  <2>1. 1 \in 1..Len(feed') /\ 1 + 1 = 2
    BY <1>5
  <2>2. 2 \in 1..Len(feed) /\ feed'[1] = feed[2] /\ 2 > 1 /\ 2 - 1 = 1
    BY <1>5, <2>1
  <2>3. Len(feed[2]) = Len(b) + 1
    BY <1>3, <1>5, <2>2 DEF FeedOK
  <2>4. feed[2] \in Block /\ Len(b) \in Nat
    BY <1>5, <2>2, FeedType, BlockIsSeq, RelayAssumption DEF Height
  <2>5. Len(feed[2]) > Len(b)
    BY <2>3, <2>4
  <2> QED BY <1>5, <2>2, <2>4, <2>5, LongerIsNew
<1> QED BY <1>1, <1>7, <1>10, <1>11, <1>12 DEF FeedNear, WalkNear

(* No system call aborts, and the node keeps running: whatever             *)
(* reorg_block_count is, as long as no call failed and Bitcoin disconnects *)
(* at most one block at once (none, if reorg_block_count is 0), however    *)
(* often and wherever the relayer is, and wherever the node restarts.      *)
THEOREM SystemCallsAlwaysSucceed ==
  SpecRelay => [](WithinReorgLimit /\ deepest <= 1 => SystemCallsSucceed)
<1>1. InitRelay => CalmInv
  <2> SUFFICES ASSUME InitRelay PROVE CalmInv
    OBVIOUS
  <2>1. feed = << >> /\ phase = "idle" /\ best_block = None /\ ~halted
    BY DEF InitRelay, feed
  <2> QED BY <2>1 DEF CalmInv, FeedNear, FirstNew, WalkNear
<1>2. TypeInv /\ ChainInv /\ WorkInv /\ CalmInv /\ [NextRelay]_relayVars => CalmInv'
  <2> SUFFICES ASSUME TypeInv, ChainInv, WorkInv, CalmInv, [NextRelay]_relayVars PROVE CalmInv'
    OBVIOUS
  <2>1. CASE \E b \in Block : NewTip(b)
    BY <2>1, NewTipCalm
  <2>2. CASE RelayerOnly
    BY <2>2, RelayerOnlyCalm
  <2>3. CASE HandleL1Tx
    BY <2>3, TxCalm
  <2>4. CASE HandleL1Block
    BY <2>4, BlockCalm
  <2>5. CASE UNCHANGED relayVars
    <3>1. /\ tip' = tip /\ best_block' = best_block /\ phase' = phase /\ cursor' = cursor
          /\ buffer' = buffer /\ halted' = halted /\ faults' = faults /\ deepest' = deepest
      BY <2>5 DEF relayVars, store, relayer
    <3>2. feed' = feed
      BY <3>1 DEF feed
    <3> HIDE DEF feed
    <3> QED BY <3>1, <3>2 DEF CalmInv, Calm, WithinReorgLimit, FeedNear, FirstNew, WalkNear,
              Near, Abandoned, Ancestor, prev_blockhash
  <2> QED BY <2>1, <2>2, <2>3, <2>4, <2>5 DEF NextRelay, RelayStep, RelayerOnly
<1>3. CalmInv => (WithinReorgLimit /\ deepest <= 1 => SystemCallsSucceed)
  BY DEF CalmInv, Calm, SystemCallsSucceed
<1> QED BY <1>1, <1>2, <1>3, WorkInvariant, PTL DEF SpecRelay
=============================================================================
