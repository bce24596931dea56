--------------------------- MODULE BitcoinRelay ---------------------------
(***************************************************************************)
(* How Bitcoin blocks reach the state: the Bitcoin relayer and the relayer *)
(* actor (crates/rooch-relayer), and the pending block store and block     *)
(* store of the Move framework (bitcoin-move), which they drive through    *)
(* system calls.                                                           *)
(*                                                                         *)
(* A block hash commits to the block's whole ancestry, so a block is the   *)
(* path to it: the sequence of branches taken from the genesis block << >>.*)
(* The Bitcoin node is external: its best chain grows and reorganises      *)
(* between any two of the relayer's RPC calls.                             *)
(***************************************************************************)
EXTENDS Integers, Sequences, FiniteSets

CONSTANTS
  Branch,            \* what tells siblings apart
  MaxHeight,         \* bound: the highest block
  MaxReorg,          \* how many blocks a reorganisation of Bitcoin disconnects at most
  reorg_block_count, \* how many blocks a block stays pending
  batch_size,        \* BitcoinRelayer.batch_size
  EndHeight,         \* end_block_height, 0 if there is none
  TxCount,           \* transactions of a block; number 1 is the coinbase
  MaxFaults,         \* bound: calls that return an error
  MaxRestarts,       \* bound: restarts of the node
  None

ASSUME RelayAssumption ==
  /\ MaxHeight \in Nat /\ MaxReorg \in Nat /\ reorg_block_count \in Nat /\ batch_size \in Nat
  /\ EndHeight \in Nat /\ TxCount \in Nat \ {0} /\ MaxFaults \in Nat /\ MaxRestarts \in Nat
ASSUME NoneIsNoBlock == None \notin Seq(Branch)

Height == 0..MaxHeight
Block == UNION {[1..h -> Branch] : h \in Height}
height(b) == Len(b)
prev_blockhash(b) == SubSeq(b, 1, Len(b) - 1)

(* a is b or an ancestor of b.                                             *)
Ancestor(a, b) == Len(a) <= Len(b) /\ a = SubSeq(b, 1, Len(a))

VARIABLES
  tip,             \* the Bitcoin node's best block
  pending_blocks,  \* PendingStore.pending_blocks
  objects,         \* the PendingBlock objects: block -> [left, processed_tx, next]
  best_block,      \* PendingStore.best_block
  height_to_hash,  \* BitcoinBlockStore.height_to_hash: the processed blocks
  halted,          \* a system call aborted: the process panics, and again when it replays
  phase,           \* what the relayer does next
  cursor,          \* the block hash sync_block asks for next
  buffer,          \* BitcoinRelayer.buffer
  sync_to_latest,  \* BitcoinRelayer.sync_to_latest
  ready,           \* the rest of the ready transactions: a block and its numbers, in order
  faults, restarts,
  deepest          \* history: the deepest reorganisation so far

store == <<pending_blocks, objects, best_block, height_to_hash, halted>>
relayer == <<phase, cursor, buffer, sync_to_latest, ready>>
relayVars == <<tip, store, relayer, faults, restarts, deepest>>

NoReady == [block |-> None, txs |-> << >>]

InitRelay ==
  /\ tip = << >>
  /\ pending_blocks = [h \in Height |-> None]
  /\ objects = << >> /\ best_block = None
  /\ height_to_hash = [h \in Height |-> None] /\ halted = FALSE
  /\ phase = "idle" /\ cursor = None /\ buffer = << >> /\ sync_to_latest = FALSE
  /\ ready = NoReady
  /\ faults = 0 /\ restarts = 0 /\ deepest = 0

(***************************************************************************)
(* The Bitcoin node: a longer chain becomes the best one.                  *)
(***************************************************************************)
NewTip(b) ==
  /\ Len(b) > Len(tip)
  /\ LET shared == CHOOSE n \in 0..Len(tip) :
                     /\ Ancestor(SubSeq(tip, 1, n), b)
                     /\ n < Len(tip) => ~Ancestor(SubSeq(tip, 1, n + 1), b)
         depth == Len(tip) - shared
     IN /\ depth <= MaxReorg
        /\ deepest' = IF depth > deepest THEN depth ELSE deepest
  /\ tip' = b
  /\ UNCHANGED <<store, relayer, faults, restarts>>

(* get_block_header_info: confirmations >= 0 and next_block_hash.          *)
OnBestChain(b) == Ancestor(b, tip)
next_block_hash(b) == IF OnBestChain(b) /\ b # tip THEN SubSeq(tip, 1, Len(b) + 1) ELSE None

(***************************************************************************)
(* BitcoinRelayer::sync_block, one step per RPC call.                      *)
(***************************************************************************)
(* RelayTick: nothing is asked while the buffer holds blocks, or (the node *)
(* being in sync) before sync_block_interval has passed.                   *)
SkipSync ==
  /\ ~halted /\ phase = "idle" /\ (buffer # << >> \/ sync_to_latest)
  /\ phase' = "txs"
  /\ UNCHANGED <<tip, store, cursor, buffer, sync_to_latest, ready, faults, restarts, deepest>>

(* get_best_block and get_best_block_hash                                  *)
StartSync ==
  /\ ~halted /\ phase = "idle" /\ buffer = << >>
  /\ IF best_block = tip
       THEN phase' = "txs" /\ sync_to_latest' = TRUE /\ cursor' = None
       ELSE /\ phase' = IF best_block = None THEN "fetch" ELSE "walk"
            /\ cursor' = IF best_block = None THEN << >> ELSE best_block
            /\ UNCHANGED sync_to_latest
  /\ UNCHANGED <<tip, store, buffer, ready, faults, restarts, deepest>>

(* Mutant: the relayer goes on from its best block, on whatever chain.     *)
FindCommonAncestor_Unchecked ==
  /\ ~halted /\ phase = "walk"
  /\ cursor' = IF Len(cursor) < Len(tip) THEN SubSeq(tip, 1, Len(cursor) + 1) ELSE None
  /\ phase' = IF cursor' = None THEN "txs" ELSE "fetch"
  /\ UNCHANGED <<tip, store, buffer, sync_to_latest, ready, faults, restarts, deepest>>

(* Back to the best chain, then to the block after the common ancestor.    *)
FindCommonAncestor ==
  /\ ~halted /\ phase = "walk"
  /\ IF OnBestChain(cursor)
       THEN /\ cursor' = next_block_hash(cursor)
            /\ phase' = IF cursor' = None THEN "txs" ELSE "fetch"
       ELSE cursor' = prev_blockhash(cursor) /\ UNCHANGED phase
  /\ UNCHANGED <<tip, store, buffer, sync_to_latest, ready, faults, restarts, deepest>>

(* Mutant: the loop does not end where the best chain ends.                *)
FetchBlock_PastTip ==
  /\ ~halted /\ phase = "fetch"
  /\ buffer' = Append(buffer, cursor)
  /\ cursor' = IF Len(buffer') > batch_size THEN None ELSE next_block_hash(cursor)
  /\ phase' = IF Len(buffer') > batch_size THEN "txs" ELSE "fetch"
  /\ UNCHANGED <<tip, store, sync_to_latest, ready, faults, restarts, deepest>>

(* A header and its block; the next hash is the one of that moment.        *)
FetchBlock ==
  /\ ~halted /\ phase = "fetch"
  /\ LET beyond == EndHeight > 0 /\ height(cursor) > EndHeight
     IN /\ buffer' = IF beyond THEN buffer ELSE Append(buffer, cursor)
        /\ cursor' = IF beyond \/ Len(buffer') > batch_size THEN None ELSE next_block_hash(cursor)
  /\ phase' = IF cursor' = None THEN "txs" ELSE "fetch"
  /\ UNCHANGED <<tip, store, sync_to_latest, ready, faults, restarts, deepest>>

(* An RPC call fails: sync_block returns, with the blocks it has.          *)
SyncError ==
  /\ ~halted /\ faults < MaxFaults
  /\ phase \in {"walk", "fetch"} \/ (phase = "idle" /\ buffer = << >>)
  /\ faults' = faults + 1
  /\ phase' = "txs" /\ cursor' = None
  /\ UNCHANGED <<tip, store, buffer, sync_to_latest, ready, restarts, deepest>>

(***************************************************************************)
(* RelayerActor::sync: the ready transactions, then a block, and again.    *)
(***************************************************************************)
(* get_ready_pending_txs: what is left of the block reorg_block_count      *)
(* below the best one.                                                     *)
ReadyBlock ==
  IF best_block = None THEN None
  ELSE IF height(best_block) < reorg_block_count THEN None
  ELSE pending_blocks[height(best_block) - reorg_block_count]

(* Mutant: the coinbase stays at the head of the list.                     *)
GetReadyTxs_CoinbaseFirst ==
  /\ ~halted /\ phase = "txs"
  /\ phase' = "exec"
  /\ ready' = IF ReadyBlock = None THEN NoReady
              ELSE [block |-> ReadyBlock, txs |-> objects[ReadyBlock].left]
  /\ UNCHANGED <<tip, store, cursor, buffer, sync_to_latest, faults, restarts, deepest>>

(* get_ready_l1_txs moves the coinbase, the first of several, to the end.  *)
GetReadyTxs ==
  /\ ~halted /\ phase = "txs"
  /\ phase' = "exec"
  /\ ready' = IF ReadyBlock = None THEN NoReady
              ELSE LET txs == objects[ReadyBlock].left
                   IN [block |-> ReadyBlock,
                       txs   |-> IF Len(txs) > 1 THEN Append(Tail(txs), Head(txs)) ELSE txs]
  /\ UNCHANGED <<tip, store, cursor, buffer, sync_to_latest, faults, restarts, deepest>>

(* process_pending_tx's assertions.                                        *)
Processable(b, i) ==
  /\ b \in DOMAIN objects
  /\ height(best_block) >= reorg_block_count + height(b)
  /\ \E k \in DOMAIN objects[b].left : objects[b].left[k] = i

(* The field of the transaction is removed from the object: what is left   *)
(* of the list of ids.                                                     *)
Remove(txs, i) ==
  LET k == CHOOSE k \in DOMAIN txs : txs[k] = i
  IN SubSeq(txs, 1, k - 1) \o SubSeq(txs, k + 1, Len(txs))

Without(b) == [x \in DOMAIN objects \ {b} |-> objects[x]]
Abort == halted' = TRUE /\ UNCHANGED <<pending_blocks, objects, best_block, height_to_hash>>

(* Mutant: a block at a processed height is not noticed.                   *)
Finishable_Overwrites(b) == objects[b].processed_tx + 1 = TxCount

(* The assertions of finish_pending_block and process_block_header: every  *)
(* transaction is processed, no block is at this height (ErrorReorgTooDeep)*)
Finishable(b) ==
  /\ objects[b].processed_tx + 1 = TxCount
  /\ height_to_hash[height(b)] = None

(* execute_l1_tx                                                           *)
ExecuteL1Tx(b, i) ==
  CASE ~Processable(b, i) -> Abort
    [] Processable(b, i) /\ i = 1 /\ ~Finishable(b) -> Abort
    [] Processable(b, i) /\ i = 1 /\ Finishable(b) ->
         /\ objects' = Without(b)
         /\ pending_blocks' = [pending_blocks EXCEPT ![height(b)] = None]
         /\ height_to_hash' = [height_to_hash EXCEPT ![height(b)] = b]
         /\ UNCHANGED <<best_block, halted>>
    [] Processable(b, i) /\ i # 1 ->
         /\ objects' = [objects EXCEPT ![b].left = Remove(@, i), ![b].processed_tx = @ + 1]
         /\ UNCHANGED <<pending_blocks, best_block, height_to_hash, halted>>

HandleL1Tx ==
  /\ ~halted /\ phase = "exec" /\ ready.txs # << >>
  /\ ExecuteL1Tx(ready.block, Head(ready.txs))
  /\ ready' = [ready EXCEPT !.txs = Tail(@)]
  /\ UNCHANGED <<tip, phase, cursor, buffer, sync_to_latest, faults, restarts, deepest>>

TxsDone ==
  /\ ~halted /\ phase = "exec" /\ ready.txs = << >>
  /\ phase' = "block" /\ ready' = NoReady
  /\ UNCHANGED <<tip, store, cursor, buffer, sync_to_latest, faults, restarts, deepest>>

(* Mutant: only the block at the height itself is replaced.                *)
Replaced_OneBlock(h) == {pending_blocks[h]} \ {None}

(* handle_reog walks next_block_hash from the block pending at height h:   *)
(* the blocks it meets are the smallest set with that block and, for each  *)
(* of its blocks, the next one.                                            *)
Replaced(h) ==
  LET found == {pending_blocks[h]} \cup DOMAIN objects \cup {objects[x].next : x \in DOMAIN objects}
      walked(S) == /\ pending_blocks[h] \in S
                   /\ \A x \in S \cap DOMAIN objects : objects[x].next \in S
  IN {x \in found : \A S \in SUBSET found : walked(S) => x \in S} \ {None}

(* Mutant: the map keeps the entries of the replaced descendants.          *)
AddPendingBlock_MapKept(b) ==
  LET gone == Replaced(height(b))
      kept == [x \in DOMAIN objects \ gone |-> objects[x]]
      new  == [left |-> [i \in 1..TxCount |-> i], processed_tx |-> 0, next |-> None]
  IN /\ objects' = [x \in DOMAIN kept \cup {b} |->
                      IF x = b THEN new
                      ELSE IF b # << >> /\ x = prev_blockhash(b)
                             THEN [kept[x] EXCEPT !.next = b] ELSE kept[x]]
     /\ pending_blocks' = [pending_blocks EXCEPT ![height(b)] = b]
     /\ best_block' = b
     /\ UNCHANGED <<height_to_hash, halted>>

(* add_pending_block, where it does not abort.                             *)
AddPendingBlock(b) ==
  LET gone == Replaced(height(b))
      kept == [x \in DOMAIN objects \ gone |-> objects[x]]
      new  == [left |-> [i \in 1..TxCount |-> i], processed_tx |-> 0, next |-> None]
  IN /\ objects' = [x \in DOMAIN kept \cup {b} |->
                      IF x = b THEN new
                      ELSE IF b # << >> /\ x = prev_blockhash(b)
                             THEN [kept[x] EXCEPT !.next = b] ELSE kept[x]]
     /\ pending_blocks' = [h \in Height |->
                             IF h = height(b) THEN b
                             ELSE IF pending_blocks[h] \in gone THEN None ELSE pending_blocks[h]]
     /\ best_block' = b
     /\ UNCHANGED <<height_to_hash, halted>>

(* Its assertions: the block is new, every replaced block is there and has *)
(* no processed transaction (ErrorReorgFailed).                            *)
Addable(b) ==
  /\ b \notin DOMAIN objects
  /\ \A x \in Replaced(height(b)) : x \in DOMAIN objects /\ objects[x].processed_tx = 0

(* get_ready_l1_block and execute_l1_block                                 *)
HandleL1Block ==
  /\ ~halted /\ phase = "block" /\ buffer # << >>
  /\ IF Addable(Head(buffer)) THEN AddPendingBlock(Head(buffer)) ELSE Abort
  /\ buffer' = Tail(buffer)
  /\ phase' = "txs"
  /\ UNCHANGED <<tip, cursor, sync_to_latest, ready, faults, restarts, deepest>>

BlocksDone ==
  /\ ~halted /\ phase = "block" /\ buffer = << >>
  /\ phase' = "idle"
  /\ UNCHANGED <<tip, store, cursor, buffer, sync_to_latest, ready, faults, restarts, deepest>>

(* A call returns an error, which the relayer actor logs: of the query for *)
(* ready transactions, which ends the tick, or of the processor, and the   *)
(* next transaction or block follows.                                      *)
HandleError ==
  /\ ~halted /\ faults < MaxFaults
  /\ faults' = faults + 1
  /\ \/ phase = "txs" /\ phase' = "idle" /\ UNCHANGED <<ready, buffer>>
     \/ phase = "exec" /\ ready.txs # << >>
        /\ ready' = [ready EXCEPT !.txs = Tail(@)] /\ UNCHANGED <<buffer, phase>>
     \/ phase = "block" /\ buffer # << >>
        /\ buffer' = Tail(buffer) /\ phase' = "txs" /\ UNCHANGED ready
  /\ UNCHANGED <<tip, store, cursor, sync_to_latest, restarts, deepest>>

(* The node restarts: the relayer's memory is gone.                        *)
RestartNode ==
  /\ ~halted /\ restarts < MaxRestarts
  /\ restarts' = restarts + 1
  /\ phase' = "idle" /\ cursor' = None /\ buffer' = << >> /\ sync_to_latest' = FALSE
  /\ ready' = NoReady
  /\ UNCHANGED <<tip, store, faults, deepest>>

RelayStep ==
  \/ StartSync \/ FindCommonAncestor \/ FetchBlock \/ GetReadyTxs \/ HandleL1Tx \/ TxsDone
  \/ HandleL1Block \/ BlocksDone

NextRelay ==
  \/ \E b \in Block : NewTip(b)
  \/ RelayStep \/ SkipSync \/ SyncError \/ HandleError \/ RestartNode

SpecRelay == InitRelay /\ [][NextRelay]_relayVars

(* The relayer's timer keeps ticking and the actors run: RelayStep.  That  *)
(* sync_block_interval passes is SF on StartSync: SkipSync cannot take     *)
(* every tick.                                                             *)
FairRelay == SpecRelay /\ WF_relayVars(RelayStep \/ SkipSync) /\ SF_relayVars(StartSync)

(***************************************************************************)
(* Properties.                                                             *)
(***************************************************************************)
PendingBlock == [left : Seq(1..TxCount), processed_tx : 0..TxCount, next : Block \cup {None}]

(* The types of the stores and of the relayer.                             *)
TypeOKRelay ==
  /\ tip \in Block /\ best_block \in Block \cup {None}
  /\ pending_blocks \in [Height -> Block \cup {None}]
  /\ height_to_hash \in [Height -> Block \cup {None}]
  /\ DOMAIN objects \subseteq Block /\ \A b \in DOMAIN objects : objects[b] \in PendingBlock
  /\ halted \in BOOLEAN /\ phase \in {"idle", "walk", "fetch", "txs", "exec", "block"}
  /\ cursor \in Block \cup {None} /\ buffer \in Seq(Block) /\ sync_to_latest \in BOOLEAN
  /\ ready \in [block : Block \cup {None}, txs : Seq(1..TxCount)]
  /\ deepest \in 0..MaxReorg

(* The pending map and the pending objects describe the same blocks: no    *)
(* reorganisation leaves an object behind or an entry without its object.  *)
PendingConsistent ==
  /\ DOMAIN objects = {pending_blocks[h] : h \in Height} \ {None}
  /\ \A h \in Height : pending_blocks[h] # None => height(pending_blocks[h]) = h

(* The same, with the types of the stores (add_pending_block,              *)
(* remove_pending_block).                                                  *)
RelayInv == TypeOKRelay /\ PendingConsistent

(* What reorg_block_count is chosen for: shallow reorganisations, and no   *)
(* call that failed (the block of a failed call is skipped).               *)
WithinReorgLimit == faults = 0 /\ deepest <= reorg_block_count

(* Then the pending blocks are one chain that ends in the best block: a    *)
(* reorganisation replaces the descendants with the block, so nothing of   *)
(* the old branch is left above the new best block.                        *)
PendingChain ==
  WithinReorgLimit => \A h \in Height : pending_blocks[h] # None =>
    /\ Ancestor(pending_blocks[h], best_block)
    /\ h < height(best_block) => pending_blocks[h + 1] # None

(* The processed blocks are a chain without gaps: every block but the      *)
(* genesis block is processed after its parent.                            *)
ProcessedChain ==
  \A h \in Height : height_to_hash[h] # None /\ h > 0 =>
    height_to_hash[h - 1] = prev_blockhash(height_to_hash[h])

(* "The maximum number of blocks that can be reorganized": as long as      *)
(* Bitcoin disconnects at most reorg_block_count blocks at once and no     *)
(* call fails, however often and whatever the relayer was doing, the       *)
(* processed blocks are that chain and all of them stay on the best chain. *)
ProcessedIsFinal ==
  WithinReorgLimit =>
    /\ ProcessedChain
    /\ \A h \in Height : height_to_hash[h] # None => Ancestor(height_to_hash[h], tip)

(* "system call should always success": no block or transaction of the     *)
(* relayer makes a system call abort, which would stop the node.  Where    *)
(* Bitcoin disconnects two blocks or more at once, two reorganisations     *)
(* during the walk back, the second to the pending branch, make it submit  *)
(* a pending block again.                                                  *)
SystemCallsSucceed == ~halted

(* The one way to abort: within the limit the transactions of a ready      *)
(* block are all accepted, and a block is refused only because it is       *)
(* pending already, never because a block it replaces is partly processed. *)
AbortsOnlyOnRepeat ==
  [][WithinReorgLimit /\ halted' /\ ~halted =>
       phase = "block" /\ Head(buffer) \in DOMAIN objects]_relayVars

(* The relayer catches up: once Bitcoin's best chain stands still, its     *)
(* blocks are processed up to reorg_block_count below the tip.             *)
RelayCatchesUp ==
  <>[](\A h \in Height : h + reorg_block_count <= height(tip) =>
         height_to_hash[h] = SubSeq(tip, 1, h))

(* However deep Bitcoin reorganises, as long as no call fails: the blocks  *)
(* that are processed remain one chain without gaps.  A branch that leaves *)
(* the processed blocks becomes pending like any other, above them and     *)
(* instead of them, and the node stops (ErrorReorgTooDeep) before any      *)
(* block of it is processed on top of a block that is not its parent.      *)
DeepReorgStops == faults = 0 => ProcessedChain
=============================================================================
