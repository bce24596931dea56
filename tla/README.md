# Rooch: TLA+ specifications, TLC models and TLAPS proofs

Rooch is a Bitcoin layer-2 node: it sequences transactions, executes them in MoveOS,
commits to their order and results, publishes them to data availability (DA) servers and
follows the Bitcoin chain. This directory models the parts of the node whose correctness depends
on order, failure, concurrency or an intricate data structure: what a signed order is worth after a
power failure, what is executed when the node comes back, which batches a verifier can read, which
Bitcoin blocks end up in the state and where an inscription goes, what a Move transaction may do to
objects and coins, which code and prices it runs with, and the two Merkle structures that commit to
all of it. The interpretation of Move bytecode is abstracted.

## 1. Inventory

Every actor below is a `coerce` actor: one message at a time, so a handler is atomic with respect
to its own state and interleaves with everything else at each `await`. All actors live in one
process; a panic in any thread exits it (`rooch-rpc-server/src/lib.rs:170`).

| Component | State | Operations | Interacts with | Correct when |
|---|---|---|---|---|
| Node database (`rooch-db`, `rooch-store`, `moveos-store`, `raw-store`) | column families of one RocksDB: sequencer info, transactions, order mapping, accumulator nodes, state nodes, startup info, execution infos | `put`, `write_batch`, `remove` (unsynced), `put_sync`; recovery to a point in time | shared by sequencer, executor, commands | a synced write, and all before it, survive |
| Sequencer (`rooch-sequencer`) | `last_sequencer_info`, the transaction accumulator with unflushed nodes, service status | `new`, `sequence` | processor calls it, it writes the database | a signed order is kept and provable |
| `rooch db revert-tx` | none | three writes, node down | database | only takes back what had no effect |
| Pipeline processor (`rooch-pipeline-processor`) | the transaction it works on | `execute_l1_block/l1_tx/l2_tx`, `execute_tx`, `process_sequenced_tx_on_startup` | executor, sequencer, proposer, reader, indexer | each ledger transaction is executed once, in order |
| Executor, reader executor, MoveOS (`rooch-executor`, `moveos`) | `root`, cost table, natives and loader cache each; one session | `validate_*`, `execute`, `dry_run`, `refresh_state`, view functions | database, frameworks' Move code | the root it reports is durable; readers see their writes; caches hold what the state has; a failed transaction pays and changes nothing |
| Transaction validation, coins and gas (`rooch-framework`) | accounts, sequence numbers, coin stores, fee pool, gas schedule | `validate`, `pre_execute`, `post_execute`, transfers, faucet, upgrades | called by MoveOS around the action | one transaction per sequence number, fees exact, supply backed |
| Object runtime (`moveos-object-runtime`, `object.move`) | per transaction a tree of cached objects and fields; pointers (handles) | create, borrow, take, transfer, share, freeze, remove, add/remove field; change set | state store | a transaction is atomic; an object has one handle; frozen objects stay |
| State tree (`smt`), state store | Jellyfish Merkle nodes by hash | `puts`, `get_with_proof`, `iter`, `list`, `dump` | object runtime's change sets | the root is a function of the content; proofs decide |
| Merkle accumulator (`accumulator`) | frozen subtrees, index cache, unflushed nodes | `append`, `flush`, `get_leaf`, `get_leaves`, `get_proof` | the sequencer | root, leaves and proofs agree with the leaves |
| Indexer (`rooch-indexer`) | its own SQLite tables, a queue of notifications | `update_indexer` | notified by the processor | never shows what the state may lose |
| Proposer (`rooch-proposer`) | `blocks`, `buffer`, in memory | `append_transaction`, `propose_block` (timer) | waits for the DA actor | the chain has every transaction once |
| DA (`rooch-da`) | threshold; per server a queue; the backends' objects or blobs | `submit_batch`, `pub_batch`, `public_batch` | servers run concurrently | a block is readable from enough servers |
| Bitcoin relayer, relayer actor (`rooch-relayer`) | `buffer`, `sync_to_latest` | `sync_block`, `pop_buffer`, `get_ready_l1_txs`, `sync` (timer) | Bitcoin RPC, processor | every final block reaches the state, none that is not |
| Pending blocks, block store (`bitcoin-move`) | `pending_blocks`, `best_block`, `PendingBlock` objects, `height_to_hash` | `execute_l1_block`, `execute_l1_tx` | system calls of the relayer | processed blocks are a chain and stay final |
| UTXOs and inscriptions (`bitcoin-move`: `bitcoin.move`, `ord.move`, `natives/ord`) | UTXO objects with their seals, inscription objects, counters, flotsams of the block | `process_tx`, `process_coinbase_tx`, `spend_utxo`, `process_transaction`, envelope parser, temporary area | called by `execute_l1_tx`, block by block | an inscription is in one place and follows its satoshi |
| Genesis, event store, Move VM and verifier, RPC, Ethereum relayer, CLI, faucet, SDKs | see `PROJECT.json` | | | not modelled, or only as an initial state; reasons there |

What is hard here: four of seven database writes per transaction are not synced and two are, so a
power failure leaves combinations no test produces; errors leave the sequencer's memory ahead of
its store; the startup replay runs over whatever that left; the proposer awaits the DA inside its
handler; Bitcoin reorganises between the relayer's RPC calls, and a system call that aborts
stops the process. Caches of code, prices and nodes outlive the transactions that filled them, also the
ones that were thrown away; the runtime keeps an object's value, metadata and handle in three caches that
have to agree when they become a change set; a Merkle tree must forget the history that led to it; an
inscription paid as a fee is between two transactions until the coinbase. `PROJECT.json` lists these as hazards, at their lines, with the properties that
cover them.

## 2. Modules

| Module | Models | Uses |
|---|---|---|
| `Ledger` | abstract: what the sequencer promises | |
| `RoochDB` | the node database | |
| `Sequencer` | the sequencer and `revert-tx` | EXTENDS `RoochDB`, implements `Ledger` |
| `Pipeline` | the whole write path of the node | EXTENDS `Sequencer`, implements it |
| `SequencerProofs`, `PipelineProofs` | theorems: promises, refinements | EXTEND `Sequencer`; `Pipeline` and `SequencerProofs` |
| `NodeProofs` | theorems: execution, answers, index | EXTENDS `PipelineProofs` |
| `OrderProofs` | theorems: flushed nodes, positions of orders, order of execution, replay | EXTENDS `NodeProofs` |
| `DataAvailability` | proposer and DA | |
| `DAProofs` | theorems: complete chain, available blocks | EXTENDS `DataAvailability` |
| `BitcoinRelay` | relayer, pending blocks, block headers | |
| `RelayProofs` | theorems: consistent stores, one chain, finality, which calls abort | EXTENDS `BitcoinRelay` |
| `ObjectStore` | abstract: transactions over a map of objects | |
| `ObjectRuntime` | object runtime, `object.move`, application of change sets | implements `ObjectStore` |
| `ObjectProofs` | theorems: sizes, handles, frozen objects, atomic transactions | EXTENDS `ObjectRuntime` |
| `Execution` | executors, sessions, caches, gas, coins, validation | |
| `ExecutionProofs` | theorems: coins, caches, settlement | EXTENDS `Execution` |
| `StateTree` | the Jellyfish Merkle tree | |
| `MerkleAccumulator` | the accumulator | |
| `Envelope` | envelope parser and reveal scripts (no variables) | |
| `Inscriptions` | UTXOs, inscriptions, fees, coinbase, temporary area | EXTENDS `Envelope` |

How they meet: `DataAvailability` and `BitcoinRelay` meet `Pipeline` at `propose_transaction` and
`execute_l1_*`; `Inscriptions` is what `BitcoinRelay`'s `ExecuteL1Tx` does inside of a block;
`Execution` is what `Pipeline` sees as one new state root; `ObjectRuntime`'s store is the content of
`StateTree`; `MerkleAccumulator` is what `Sequencer` sees as a sequence of leaves. Each `MC...` module names
the model values its `.cfg` files use. An operator called `X_Something` and commented "Mutant" is a
plausible bug of `X`, used to test that the properties notice it; no specification uses it.

**RoochDB.** `disk` is what readers see, `durable` the set of images a power failure may leave.
`put` (also for `write_batch` and `remove`) adds an image, `put_sync` leaves only the
newest, `Recover` picks one: RocksDB is configured with `DBRecoveryMode::PointInTime` and one log for
all column families, so recovery yields a prefix of the writes. A process crash without
power failure is the case where `Recover` picks `disk`. `Open` makes the current image the only
one (opening replays the log and flushes it). A state root is the sequence of
transactions executed to reach it, an accumulator info the sequence of its leaves.

**Sequencer.** `Sequence` is the head of `sequence` (service status, append in memory),
then one action per write: `Flush`, `SaveSequencerInfo` or `NotContinuous`, `SaveTx`, `SaveMapping`
(which also updates memory and returns). `StorageError` makes any of them return `Err` and
leaves memory as `?` does. `Crash`, `Start` (`SequencerActor::new`). `RevertInfo`, `RevertRemoveTx`,
`RevertRemoveMapping`, `RevertCrash` are the command. `ExecutorWrites`, `FaultElsewhere` and `ProcessExits` are the rest of
the process as the sequencer sees it: anything may happen to the other column families, and the process may
exit. `Pipeline` replaces them by real steps, and is shown to implement this module. The
history variables `promised` (signed infos returned to callers) and `torn` (a revert was cut off)
are read by properties only.

**Pipeline.** `Submit` (validate, then sequence), `Sequencing`, `Sequenced`, `SequenceFailed`;
`ApplyChangeSet`, `SaveStartupInfo`, `SaveExecutionInfo` are the three writes of
`ExecutorActor::execute`; `ProposeTransaction`, `RefreshState` the rest of `execute_tx`;
`SystemCallPanics`, `ExecutorError`, `NodeCrash` the ways out. `StartNode` is `run_start_server` with the
scan for unexecuted transactions (`Unexecuted`, from the last order down, as the code collects them),
`ReplayNext` and `ReplayFails` the replay loop. `UpdateIndexer`, `IndexerError` the indexer's
queue. `RevertTx`, `RevertOther` the command. That validation rejects what a root contains stands for the
account sequence number; L1 blocks and transactions are not validated, and their system
calls abort if the state contains them (`SystemCallAborts`). Executing an L2 transaction does not look for it in the
state: if it were validated against another root than the one it is executed on, the model would execute it twice. The relayer's choice of what to submit is `Relayed`.

**DataAvailability.** `AppendTransaction`, `ProposeBlock`, per server `WriteSegment` and `WriteError`,
`SubmitOk`, `SubmitErr`, `Restart`. A server handles its queue in order and goes on with a batch the DA
actor no longer waits for. Object stores replace an object of the same `SegmentID`; Celestia adds a
blob. Transactions are their order numbers; a segment holds `SegmentSize` of them, and the first
segment carries the batch hash. (`FuturesUnordered` sends the batch to all servers before it awaits an
answer; the model always does.)

**BitcoinRelay.** A block is the path to it, so a hash commits to the ancestry. The Bitcoin node
(`NewTip`) is external. `SkipSync`, `StartSync`, `FindCommonAncestor`, `FetchBlock` are `sync_block`, one
step per RPC call; `GetReadyTxs`, `HandleL1Tx`, `TxsDone`, `HandleL1Block`, `BlocksDone` the loop of
`RelayerActor::sync`; `ExecuteL1Tx`, `AddPendingBlock`, `Addable`, `Processable`, `Finishable` the Move
functions with their assertions; `SyncError`, `HandleError` the errors that are logged. A system call that
aborts sets `halted`: the process panics, and since the transaction is in the ledger the
replay panics again. `RestartNode` restarts between two system calls (a crash within one
is `Pipeline`'s subject).

**ObjectRuntime.** `store` is the published tree of objects (`[value, owner, flag, size]` by id, a child's id
names its parent), `rt` the objects the transaction loaded, each with the state of its value, metadata
and pointer (`GlobalValue` of the Move VM is external: `None`, cached, fresh, deleted). `hand` and `refs` are
the handles and references the program holds. `BeginTx`, `LoadArgument`, `Execute` open a transaction; `New`,
`AddField`, `RemoveField`, `Remove`, `DropContainer`, `WriteValue`, `Read`, `BorrowObject`, `DropReference`, `TakeObject`,
`ReturnPointer`, `Transfer`, `ToShared`, `ToFrozen` are the natives with the assertions of `object.move`; `EndTx`,
`Commit` (`into_change_set`, `apply_change_set`) and `Abort` end it. A value may embed the handle of another
object. `Remove` is `object::remove`, which checks that no field is left; `DropContainer` is `remove_unchecked`, with which `drop`
of `table`, `linked_table` and `bag` removes an object and leaves its fields where they are. Only these three modules can call it: their
objects have no child objects, and the values in them can be dropped (`MayDrop`); their ids are fresh, so `New` does not create
at an id whose container was dropped with fields in it. `RemovesAgain` and `TakesAgain` admit programs that remove what they removed and created again, or take a handle they gave away, in one
transaction, `EmbedsShared` programs that move the handle of a shared object into a value; they are FALSE in the run, because
the runtime mishandles such programs (section 6).

**Execution.** `exec` and `reader` are the two MoveOS instances (root, cost table, natives, loader cache and its
invalid mark), `startup` the state last committed, `session` the running transaction. `Validate`, `Convert`,
`Execute`, `DryRun` are messages: what one of them computed may be used after others ran. `Op` is an
operation of the action, one of the disjuncts `Transfer`, `Faucet`, `set_auto_accept_coin`, `remove_coin_store`,
`upgrade_gas_schedule`, `publish_modules`, `Call`, each with its cost; `Abort`, `OutOfGas`, `RunInit`,
`FailInit` lead to the failure path (`Fails`, `Respawned`) and `Settles` is `execution_cleanup`. `Commit`,
`Reloaded`, `refresh_state`, `View` and `Restart` are the rest. Scripts and function calls are modelled; the
action `ModuleBundle`, which only system reserved addresses may use and genesis does, is not. A gas schedule is its version, a price is
`Fee(version)`; a package's code is a model value. The history variable `taint` records that one of the known
cache divergences happened.

**StateTree.** `store` maps hashes to nodes; a hash is the structure it is computed from, so collisions do not
exist. The code hashes a leaf's key and value the way it hashes two children (`hash.rs:19`); the model tags leaves, so that a
proof assembled from other parts than `get_with_proof` gives is not its subject. `Update` applies a batch to any earlier version (`updates`, `put`, `insert_at`, `Shrunk` for the collapse after
a deletion) through the node cache (`put_node`, `delete_node`). Proofs, `update_leaf`, the iterator with
its stack, `list` and `dump` are operators; nodes are stored encoded and decoded with their bitmaps. `Reference`
defines the root of a map directly. A nibble has 2 bits instead of 4 and a key 3 nibbles instead of 64.

**MerkleAccumulator.** `tree` is `AccumulatorTree` (frozen roots, index cache of `CacheSize` positions, unflushed
nodes), `leaves` the history, `saved` the infos flushed so far. `AppendLeaves`, `FlushAndSave`, `Reopen` (from any
saved info). The positions' arithmetic is that of `node_index.rs`; the in-memory accumulator is the
reference.

**Envelope, Inscriptions.** A script is a sequence of the instructions the parser tells apart; `from_tapscript`
scans it as the code does, `stuttered` included. `Inscriptions` has `ProcessTx` and `ProcessCoinbaseTx`: spend the inputs
(`Spent`, `Place`), inscribe (`from_transaction`, `process_transaction`), create the outputs with their seals, carry the
fees' inscriptions to the coinbase (`Rewarded`, `match_coinbase_and_generate_sat_point`). `AddTempState` is the L2
call. Transactions and coinbases of the chain, also repeated ones from before BIP 34 and inputs older than the
node's first block, are external. `halted` is a block whose Move call aborts.

## 3. Runs

Passing runs (`CHECK_DEADLOCK FALSE` where the bounds end every behaviour, or a node that is down or
halted may stay so):

| Run | Shows | Bounds |
|---|---|---|
| `pipeline_crash` | accumulator positions prove orders and agree with the mapping; execution in ledger order, nothing skipped; recovery completes (liveness) | L1 block, L1 and L2 transaction, 3 orders, 2 crashes, active node, no storage errors, no resubmission |
| `pipeline_faults` | at most once, execution info never ahead of the state, acknowledged results kept, read your writes, index never ahead; promises kept, accumulator nodes stored; the node implements `Sequencer` and `Ledger` | 3 transactions (L1, L2, the sequencer's own), 2 orders, all 4 service modes, 1 storage error, 2 crashes (also of the revert), resubmission; `MaxLeaves` bounds the leaves failed calls leave behind |
| `da_quorum` | blocks readable from a quorum, chain complete; everything published, submissions end (liveness) | 3 servers (threshold 2), 4 transactions in segments of 2, 2 errors, a restart |
| `relay_reorg` | pending blocks are one chain and agree with the pending map; processed blocks stay one chain without gaps however deep Bitcoin reorganises; while reorganisations stay within the limit they are final, and a call aborts only for a block that is pending already | height 5, reorganisations of up to 4 with `reorg_block_count` 2, 1 failing call, a restart, `EndHeight` 4 |
| `relay_live` | no system call aborts, the relayer catches up (liveness) | height 5, reorganisations of 1 with `reorg_block_count` 1, a restart |
| `object_runtime` | a committed transaction is the sequence of its operations; one handle per object; sizes are field counts; frozen objects stay; no change is dropped, and a dropped container leaves nothing behind | 2 transactions of 4 operations over 2 objects with a field each, 2 values, values that embed handles |
| `execution` | caches of code and the writer's prices are current, the reader's prices not ahead; a sequence number is used once; failures only pay; fees exact; supply backed; what was validated can be paid | 2 transactions of up to 2 operations by 2 accounts, 2 codes, 2 gas schedule upgrades, a dry run, a restart |
| `state_tree` | root canonical; proofs decide and extend; batches exact; no update fails; iteration and pages complete | 4 keys of 3 nibbles of 2 bits, two of which share two nibbles; one key with two values; up to 3 versions, batches of every set of insertions and deletions, from any earlier version |
| `accumulator` | root, frozen roots, leaves, pages, proofs and extension by subtrees agree with the leaves | 5 leaves (a full subtree of 4 and one more), batches of 3, a cache of 3 positions, 3 saved infos, a reopening |
| `inscriptions` | an inscription is in one place, its owner is that of its output, it follows its satoshi; numbering; envelopes round-trip, are kept by what readable instructions follow, and are found after a broken one | 3 transactions with up to 2 outputs, 2 inscriptions; blocks at heights 0 and 1, below the first ordinal and at it, with a halving between them; both are below BIP 34, so a coinbase may repeat, and one that meets a sealed output halts; every script of up to 5 instructions for the parser, a malformed one among them, extended by one or by an envelope |

What is checked is a conjunction of named parts where the parts belong together; each part has a comment of
its own in the module, and a mutant that breaks it:

| Property | Parts |
|---|---|
| `OrderIsProved` | `PositionProvesOrder`, `MappingMatchesAccumulator` |
| `PipelineInv` | `TypeOKPipeline`, `ExecutedIsInState` |
| `SeenIsKept` | `AckedIsKept`, `ReadYourWrites`, `IndexedIsDurable` |
| `DAInv` | `TypeOKDA`, `ChainComplete` |
| `RelayInv`, `ProcessedIsFinal` | `TypeOKRelay`, `PendingConsistent`; `ProcessedChain`, and all of it on the best chain |
| `RuntimeInv` | `TypeOKRuntime`, `SizeIsFieldCount`, `ChangesKept` |
| `ExecutionInv` | `TypeOKExecution`, `SupplyIsBacked`, `DepositIsCovered` |
| `CachesAreCurrent` | `TableIsCurrent`, `LoaderIsCurrent`, `ReaderIsCurrent`, `ReaderTableLags` |
| `TransactionsSettle` | `CountedOnce`, `FailurePaysOnly`, `FeesAreExact` |
| `TreeInv`, `ProofsHold` | `TypeOKTree`, `UpdatesSucceed`, `BatchIsExact`; `ProofsDecide`, `ProofsExtend` |
| `AccumulatorInv`, `LeavesAreServed` | `TypeOKAccumulator`, `RootsAgree`, `CacheIsCurrent`, `SubtreesExtend`; `LeavesAreFound`, `PagesAreSlices` |
| `InscriptionsInv`, `EnvelopesAreFound` | `TypeOKInscriptions`, `SealedOnce`, `OwnerFollows`, `Numbered`; `RevealRoundTrips`, `ExtensionKeepsEnvelopes`, `BrokenEnvelopesEnd` |

Why these bounds are enough to be interesting: three transactions give an executed, an unexecuted and
a new one at once; two crashes give a crash during the recovery from a crash; one storage error
separates memory and store, which no later success repairs; four blocks per reorganisation exercise the
loop of `handle_reog` and reach two blocks past the limit, to a processed one and its parent; `batch_size` 1 makes the buffer fill and be left half-used; two
transactions per block are the coinbase and another. Two transactions are what it takes to use a
cache another one filled; four operations create, embed, take and remove; a nibble of two bits has the inner levels
a node of the tree has, and longer keys reach a second node; a cache smaller than a path is always evicting.

Runs that end in a violation show that the code does something else than a doc or a comment
of the repository says; `PROJECT.json` (`findings`) quotes the line:

| Run | What happens |
|---|---|
| `pipeline_replay_order` | two unexecuted transactions are replayed last first (found with a maintenance phase between two crashes: an active node would have replayed the first before taking a second) |
| `temp_area_survives` | an inscription is paid as a fee, its old owner adds temporary state before the coinbase is processed, and the coinbase's owner gets it with that state |

`ExecutedInOrder` holds in one run and fails in another: the pass shows the conditions under which the code
is right (a theorem states them, section 5), the violation the sequence that breaks it. Some properties except a case their comment names,
because the code does not cover it:

- `PromiseKept`, and the ledger's half of `AckedIsKept`: a revert that was cut off between its writes (`torn`);
- `OrderIsProved`: holds in `pipeline_crash`, without resubmission, storage errors and torn reverts, and is proved
  under just these conditions;
- `RecoveryCompletes`: a power failure after the synced sequencer info and before the unsynced
  transaction leaves an order without a transaction, and an active node then refuses to start; a second crash
  between startup info and execution info leaves a transaction in the state that the scan calls unexecuted;
  an L1 block cannot be replayed (`unimplemented!`);
- `NoneSkipped`: a transaction whose execution failed on a storage error is hidden from the scan by the next one;
- `EveryTxPublished`: a crash loses the proposer's buffer;
- `ProcessedIsFinal`, `SystemCallsSucceed`: a call that returns an error (the block is not fetched again; the
  coinbase after a failed transaction aborts). `SystemCallsSucceed` is checked and proved where Bitcoin disconnects at most one
  block at once: if it may disconnect two, two reorganisations during the walk to the common ancestor, the second back to
  the branch that is pending, make the relayer submit a pending block again (section 6). `AbortsOnlyOnRepeat` says that
  nothing else makes a call abort;
- `ProcessedIsFinal`: a reorganisation deeper than `reorg_block_count`;
- `DeepReorgStops`: a call that returns an error, as above;
- `CachesAreCurrent`: the cases of `taint` (section 6), and the reader's cost table, of which it only says that it is not ahead;
- `ChangesKept` (in `RuntimeInv`): the changes below a container that was dropped in the transaction that created it, which the code means to drop;
- `FrozenForEver`: an object that is shared as well;
- `SpendFollowsSat`: inputs from before the node's first block, and inscriptions placed past the value of their output.

## 4. Fairness

- `FairPipeline`: weak fairness of the processor's own steps (an actor runs every message it takes), of the
  indexer, of starting the node (its supervisor restarts it) and of finishing a revert. Nothing of
  submitters, errors or crashes.
- `FairDA`: the proposer's timer ticks, the actors run (weak fairness of `Submission`), and a backend answers
  a write. Errors are bounded by `MaxErrors`, so a retry succeeds in the end: without that the code
  retries for ever.
- `FairRelay`: weak fairness of the relayer's loop, strong fairness of `StartSync`, because `SkipSync` stands
  for ticks before `sync_block_interval` has passed and time does pass. `MaxHeight` makes Bitcoin stand still.

The other specifications have no liveness property and state no fairness: they are handlers that run to their end.

## 5. Proofs

The theorems hold for every value of the constants that the named `ASSUME`s admit: bounds are naturals, `None` is none of
the values it is told from, sets whose members are counted or added up (`Server`, `Accounts`) are finite, and the sets of
kinds are subsets of the sets they are kinds of. An invariant that a run checks is seldom inductive: each module below
strengthens it first, TLC checks the strengthening on the run's instance, and the proof has one lemma per action with one
step per conjunct the action disturbs. The last step of a theorem combines them with PTL.

**The ledger** (`SequencerProofs`, `PipelineProofs`).

- `SequencerInvariant`: `SpecSequencer => []SequencerInv`; `SequencerTypeCorrect`: `=> []TypeOKSequencer`;
- `SequencerKeepsPromises`: `SpecSequencer => []PromiseKept`; `SequencerAppendOnly`: `=> SequencerInfoAppendOnly`;
- `SequencerImplementsLedger`: `SpecSequencer => ImplementsLedger`;
- `NodeInvariant`: `SpecPipeline => []NodeInv`; `NodeImplementsSequencer`: `SpecPipeline => SpecSequencer`;
- `NodeKeepsPromises`: `SpecPipeline => []PromiseKept`; `NodeImplementsLedger`: `SpecPipeline => ImplementsLedger`.

`PromiseKept` is not inductive. A revert restores the accumulator info stored with the previous
transaction, which must extend every promise up to that order (`MappedExtendsPromises`); a
transaction is found through the order mapping, so nothing may be mapped beyond the last order
(`NothingMappedAhead`) when the next order is written; new promises must be above the old ones
(`PromisedByMemory`) and extend them, which is what memory being ahead of the store in the same
history (`MemoryExtendsStore`) gives; and a crash must not move the info (`InfoSynced`). `SequencerInv` is
the conjunction.

The refinements: the ledger's head is the stored sequencer info, its signatures are `promised`, and it is intact while
no revert is `torn`. Only `SaveSequencerInfo`, `SaveMapping`, the revert's first write and its crash are visible;
every other step of the sequencer is a stutter, a power failure too, which is where the invariant is
used. For the node, every pipeline action is matched with the sequencer action it contains, or with
`ExecutorWrites`, `FaultElsewhere` or `ProcessExits`; `NodeInv` adds what ties a running `sequence` call to the
job that made it. The promises and the ledger then carry over to the node without another induction.

**Execution and answers** (`NodeProofs`).

- `WholeInvariant`: `SpecPipeline => []WholeInv`;
- `NodeExecutedIsInState`: `SpecPipeline => []PipelineInv`; `NodeNeverExecutesTwice`: `=> []NoDoubleExecution`;
- `NodeKeepsWhatWasSeen`: `SpecPipeline => []SeenIsKept`.

`WholeInv` says which root cannot be taken back any more: the startup state extends the executor's root, which extends the
reader's, and all images of the database agree on the startup state, because it is written with `put_sync`
(`StartupSynced`, `RootsFollow`). Execution infos, answers and the index are compared with these roots (`ExecutedSettled`,
`AnswersSeen`, `IndexSettled`). A job carries the root it started from (`JobRoots`) and, once the startup info is synced,
its ledger entries are in every image too (`JobLedger`): that is what makes an answer survive a power failure although the
entries were written without sync. A transaction is not executed twice because the root its job was validated on is still the
executor's root and the startup state when its change set is applied: the processor works on one job at a time, and the replay validates again. For the ledger's half a revert may only take back what was never answered
(`RevertOK`), which needs orders to be unique (`OrdersUnique`) and is excused once a revert is torn.

**Positions and nodes** (`OrderProofs`).

- `SequencerFlushesFirst`, `NodeFlushesFirst`: `SpecSequencer`, `SpecPipeline => []AccumulatorFlushed`;
- `SequencerProvesOrders`, `NodeProvesOrders`: `=> [](Undisturbed => OrderIsProved)`, where `Undisturbed` is
  `~Resubmit /\ faults = 0 /\ ~torn`.

`Undisturbed` is the condition of the run, stated in the theorem: after a storage error the leaf of the failed call
shifts the positions, so `OrderIsProved` is false without it (section 6). The invariant says that every stored accumulator
info has as many leaves as its order says, in the order of the mapping (`InfosPositioned`), and that memory is the stored
head except between the two writes of a call (`MemoryIsHead`).

**Order of execution** (`OrderProofs`).

- `ReplayInvariant`: `SpecPipeline => [](WholeInv /\ (OnlyCrashes => ReplayInv))`;
- `NodeExecutesInOrder`: `SpecPipeline => [](OnlyCrashes => ExecutedInOrder)`; `NodeSkipsNone`: the same of `NoneSkipped`;
- `NodeReplaysAtMostOne`: `SpecPipeline => [](OnlyCrashes => Len(Unexecuted) <= 1)`.

`OnlyCrashes` is `Modes \subseteq {"Active"} /\ faults = 0`: a node that is always started active, and whose writes have not
failed so far. It may crash and lose power at any step; resubmission and reverts, also torn ones, are allowed, so this is
more than `pipeline_crash` checks. The code collects the unexecuted transactions from the last order down and replays them in
that order, which is wrong for two of them (`pipeline_replay_order`). The theorems say why it goes well on an active
node: a new order is given only when the transaction of the last one is executed (`HeadExecuted`: the processor serves
nobody before the replay ended), so that in every image a power failure may leave all orders below the last
are executed (`Complete`), and there is at most one transaction to replay. A torn revert leaves the mapping of the order
after the last, and only if the last is executed (`StaleNext`): the next call overwrites it. That the transactions of the
state are mapped at their orders (`KeptMapped`) makes the one executed last the one with the greatest order (`KeptSorted`).
Both conditions are needed: in another mode the node takes a second transaction before the first is replayed, and after a
storage error the processor goes on to the next transaction.

**Data availability** (`DAProofs`).

- `SubmissionInvariant`: `SpecDA => []SubmissionInv`; `ChainIsComplete`: `=> []DAInv`;
- `BlocksStayAvailable`: `SpecDA => []BlocksAvailable`.

A server may still work on a batch that enough others have answered, so what is in the queues matters: each entry is the
batch of a block of the chain, or the one being submitted in the last place of a server that has not answered
(`InboxOK`, `ReplyOK`), and the segments below a server's position are in its store (`WrittenOK`). Writing a segment of
the chain again then changes nothing, and a server that answers has every segment. The threshold is counted with the
theorems on cardinality of `FiniteSetTheorems`.

**Bitcoin** (`RelayProofs`).

- `PendingStoreConsistent`: `SpecRelay => []RelayInv`;
- `PendingBlocksAreAChain`: `=> []PendingChain`; `ProcessedBlocksAreFinal`: `=> []ProcessedIsFinal`;
- `ProcessedBlocksAreAChain`: `=> [](WithinReorgLimit => ProcessedChain)`;
- `AbortsAreRepeats`: `SpecRelay => AbortsOnlyOnRepeat`;
- `SystemCallsAlwaysSucceed`: `=> [](WithinReorgLimit /\ deepest <= 1 => SystemCallsSucceed)`.

The argument for finality: a block the relayer ever knew shares its ancestors, up to `reorg_block_count` below its height,
with every later best chain (`Stable`, from `NewTipKeeps`). This holds of the best block, of every block in the relayer's buffer and of the block
the walk is at, however many reorganisations happen between two RPC calls; blocks are processed only when they are that
deep below the best block. `StoreChain`, `WalkOK`, `FeedOK` and `ReadyOK` say this of the stores, `sync_block`, the buffer
and the transaction in progress. That a height of divergence exists is a least-element argument over the naturals.

Which calls abort: `WorkInv` says that the list of a ready block is what is left of it, each number once, with the coinbase
last (`LeftOnce`, `ExecOK`), and that a block of which something is processed is deep below the best block (`BegunIsDeep`). So every transaction
and coinbase of a ready block passes its assertions, and a block that is added replaces blocks of which nothing
is processed: what remains is a block that is pending already. With reorganisations of one block even that cannot happen, for any
`reorg_block_count` (`CalmInv`): a block that was disconnected never returns to the best chain (`Abandoned`), the walk to the common ancestor goes back
one block at most (`WalkNear`), and what it then fetches first is new to the store (`FirstNew`).

**Executors, coins and gas** (`ExecutionProofs`).

- `SettlementInvariant`: `SpecExecution => []SettlementInv`; `CoinsAreAccountedFor`: `=> []ExecutionInv`;
- `CachesStayCurrent`: `=> []CachesAreCurrent`; `NativesLagByOne`: `=> NativesFollow`;
- `CommitsSettle`: `=> TransactionsSettle`.

That supply is backed is a statement about a sum over all accounts. `MapThenSumSet` is a recursive function on subsets: the
module proves that it exists and what changing one entry does to it (`AddsExists`, `TotalChange`), by induction on the finite set of accounts
with a set, not an operator, as the induction hypothesis. `SettlementInv` says of every state, committed, running or
in a message, that its coins add up (`StatesSound`), that there is one session, and which code the loader cache may hold
relative to the root (`CodeFollows`). Of cost tables it says that the writer's is its root's and that the reader's is not ahead of
the reader's root: views after an upgrade may be charged by the old prices. The proof of the last part found a case no bounded run had reached: a commit whose `post_execute` panics throws its
session away and may leave its code in the cache; `Commit` now records it in `taint` like the other thrown-away sessions.

**Objects** (`ObjectProofs`), for programs that are `Restrained`, the condition of the run: none of `RemovesAgain`,
`TakesAgain` and `EmbedsShared`, without which the statements are false (section 6).

- `ObjectsInvariant`: `SpecRuntime => []ObjectsInv`; `RuntimeIsSound`: `=> []RuntimeInv`;
- `HandlesAreUnique`: `=> []OneHandle`; `FrozenStays`: `=> FrozenForEver`;
- `RuntimeImplementsObjectStore`: `=> ImplementsObjectStore`.

The invariant has two levels. `View` is the map of objects that cache and tree amount to, and `WorldOK` what holds of it:
every object lies below an existing one, sizes are numbers of fields, handles are unique, a handle at home is told by owner
and flag (what `is_embeded` relies on after a commit), nobody owns a frozen object, and what is borrowed is at home. `CacheOK` says which of the many
combinations of metadata, value and pointer an entry of the cache can be in: `NewEntry` if the object is not in the tree,
`OldEntry` (loaded, removed, removed and created again) if it is; and that whatever lay below an object that was removed and created again was loaded
and removed before it (`Forgotten`), so that it never shows the fields of its predecessor. The fields of a dropped container stay in
cache and tree; `View` does not show them (`Lost`), no operation reaches them, and a removed object of size 0 has none (`Emptied`), which is
what `New` asks for. That the change set deletes or drops them is part of `CommitTree` (`Cut`, `Written`). Each
operation of the runtime is then one of six changes of `View` (`Changed`), which are the operations of `ObjectStore`, and `CommitTree` shows that
`apply_change_set` yields a tree whose view is the transaction's view, with the objects that are not at home
handed to the system (`Settle`). The run has top-level objects and fields only; the theorems cover child objects too.

**Only model-checked**, and why:

- liveness (`RecoveryCompletes`, `EveryTxPublished`, `SubmissionEnds`, `RelayCatchesUp`): out of the prover's reach;
- `StateTree` (`TreeInv`, `RootIsCanonical`, `ProofsHold`, `IterationIsComplete`), `MerkleAccumulator` (`AccumulatorInv`,
  `LeavesAreServed`, `ProofsVerify`) and `Envelope` (`EnvelopesAreFound`): recursive operators over trees, positions and scripts,
  in modules the prover cannot read, and statements that need an induction over them;
- `Inscriptions` (`InscriptionsInv`, `SpendFollowsSat`): extends `Envelope`, and its outputs and seals are selections and
  folds of sequences (`SelectSeq`, `FlattenSeq`, `FoldLeft`), of which the provers have no definition they can expand or induct on.
  Inductions whose hypothesis is an operator are out of reach; the ones above take a set.

## 6. Known divergences

Found while modelling, and left out of the passing runs by a named restriction or exception; the code does
these today:

- After a storage error in `sequence` the leaf of the failed call stays in the accumulator (`sequencer.rs:124`): the
  positions of all later orders are shifted.
- `revert-tx` reads the unsynced execution info (`revert_tx.rs:95`): after a crash between startup info and execution
  info it removes a transaction whose effects are in the state.
- After a restart block numbers of the commitment chain begin at 0 again (`scc/mod.rs:74`): objects of published
  blocks are replaced.
- A reorganisation away from the pending branch and back during the walk to the common ancestor
  (`bitcoin_relayer.rs:110`) submits a pending block again; the system call aborts and the process panics.
- `MoveOS` natives are reloaded from the root before the transaction that upgraded the gas schedule
  (`executor.rs:130`): natives are priced by the old schedule until the next upgrade or restart. The reader
  executor reloads neither natives nor cost table: views after an upgrade are charged by the old schedule until a restart. If
  the reload fails (`executor.rs:131`), the execution info is stored and the executor's root has not moved; this error is not modelled.
- A dry run converted before a gas schedule upgrade and executed after it fills the cost table from the old root.
- Code published by a session that is thrown away (a dry run, a failed transaction) stays in the loader cache if
  its `init` or a call loaded it, and so does the code of a transaction whose `post_execute` panics; `set_module_upgrade_flag` sets the flag on a copy when it is already there
  (`tx_context.move:177`), so that a transaction that creates one package and upgrades another leaves the cache.
- An object that is removed, created again and removed again in one transaction is not deleted: the second removal
  forgets its metadata (`runtime_object_meta.rs:85`), and `into_change` drops the change or meets its debug
  assertion (`runtime_object.rs:328`). A handle that was given away and taken again in one transaction leaves no
  trace in its pointer: at the commit the object stays with the owner it was given to, while its handle may lie in
  another object (`runtime_object.rs:271`).
- A `Table`, `LinkedTable` or `Bag` that is created, filled and dropped in one transaction meets the debug assertion of
  `into_change` (`runtime_object.rs:328`): create, add a field, drop, return, three operations of the model, which `ChangesKept` excepts; a release build drops the changes of its fields.
- The handle of a shared object that is taken and moved into a value is loaded at home again after the commit, since
  `is_embeded` (`object.rs:522`) looks at owner and flags: the object has two handles, and can be removed while another
  object still holds one of them.
- `borrow_mut_object_shared` does not test the frozen flag: an object that is shared and frozen stays mutable.
- `SMTree::list` skips the first item after the cursor when the cursor itself is not in the tree.
- `get_proof` accepts the index one past the last leaf (`accumulator/src/lib.rs:184`); `get_leaf(0)` panics on an empty
  accumulator.
- The coinbase position of a fee inscription adds the offsets of earlier flotsams instead of their fees
  (`ord.move:504`); an inscription with an output of its own keeps the cumulative offset in its object
  (`ord.move:569`); `from_witness` passes input 0, so the curse of a later input never applies; `stuttered` is not reset
  by a complete envelope; a repeated coinbase whose old output has seals aborts (`bitcoin.move:255`); inputs the
  node does not know count as 0 (`bitcoin.move:145`).

## 7. Plan

1. Model: `Genesis` (the writes of `init_genesis` and a crash between them), `EventStore`, session keys and
   authentication validators, the indexer's three writes.
2. Prove: the seals of `Inscriptions` in a module apart from `Envelope`, with outputs as functions instead of selected
   sequences; the arithmetic of positions in `MerkleAccumulator` with recursive functions.

## 8. Not modelled

The Move VM's interpreter and the verifier: they walk compiled modules, whose space TLC cannot enumerate, and keep no
state of the node's. RPC server and API types, CLI, wallet, key store, faucet, SDKs and dashboards: translation and
I/O, stateless towards the ledger; they and the serialisation code (`rooch-types`, `moveos-types`) are most of
the repository's lines, which is why the models stand for a small share of them. The import and export
tools: offline batch jobs. The Ethereum relayer: a cursor. Session keys, authentication validators, the entries of tables and other
containers of the frameworks (they are dynamic fields of an object; dropping a container is modelled). The `ModuleBundle` action
of genesis. Failing reads of the database, the reload of the natives among them: faults are failed writes. Signatures and hashes are taken to be injective. Disk corruption, and overflow of
`u64` orders and `u128` block numbers, which no execution reaches.
