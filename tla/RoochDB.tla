------------------------------ MODULE RoochDB ------------------------------
(***************************************************************************)
(* The node's database.  RoochDB opens ONE RocksDB instance and gives it   *)
(* to the rooch store (sequencer info, transactions, order mapping,        *)
(* transaction accumulator) and to the moveos store (state nodes, startup  *)
(* info, execution infos): all column families share one write-ahead log.  *)
(*                                                                         *)
(* `disk' is what a reader of the database sees.  `durable' is the set of  *)
(* images a power failure may leave behind: the log is recovered to a      *)
(* point in time (DBRecoveryMode::PointInTime), so it is every image since *)
(* the last synced write.  A process crash keeps the log in the page cache *)
(* and leaves `disk', which is a member of `durable'.                      *)
(***************************************************************************)
EXTENDS Naturals, Sequences, FiniteSets

CONSTANTS
  Tx,          \* the transactions clients and the relayer may submit, named by tx_hash
  Genesis,     \* the hash of the genesis transaction, order 0
  None,        \* an absent value of a column family
  MaxOrder     \* bound: the largest tx_order a behaviour reaches

ASSUME TxAssumption == Genesis \notin Tx /\ None \notin Tx /\ None # Genesis
ASSUME MaxOrderAssumption == MaxOrder \in Nat

Hash == Tx \cup {Genesis}
Order == 0..MaxOrder

(* AccumulatorInfo: the root, frozen subtree roots and leaf count are      *)
(* determined by the leaves, so the info is the sequence of its leaves.    *)
AccumulatorInfo == Seq(Hash)

(* SequencerInfo, and the part of TransactionSequenceInfo the code reads.  *)
SequencerInfo == [last_order : Order, acc : AccumulatorInfo]

(* A state root stands for the transactions whose effects it contains, in  *)
(* the order of their execution.                                           *)
StateRoot == Seq(Hash)

ASSUME NoneAssumption == None \notin SequencerInfo /\ None \notin StateRoot

VARIABLES disk, durable
dbVars == <<disk, durable>>

Image == [sequencer_info : SequencerInfo,
          txs            : [Hash -> SequencerInfo \cup {None}],
          mapping        : [Order -> Hash \cup {None}],
          acc_nodes      : SUBSET AccumulatorInfo,
          state_nodes    : SUBSET StateRoot,
          startup_info   : StateRoot,
          execution_info : [Hash -> StateRoot \cup {None}]]

(* What RoochGenesis::init_genesis leaves in an empty database.            *)
GenesisInfo == [last_order |-> 0, acc |-> <<Genesis>>]
GenesisImage ==
  [sequencer_info |-> GenesisInfo,
   txs            |-> [h \in Hash |-> IF h = Genesis THEN GenesisInfo ELSE None],
   mapping        |-> [o \in Order |-> IF o = 0 THEN Genesis ELSE None],
   acc_nodes      |-> {<<Genesis>>},
   state_nodes    |-> {<<Genesis>>},
   startup_info   |-> <<Genesis>>,
   execution_info |-> [h \in Hash |-> IF h = Genesis THEN <<Genesis>> ELSE None]]

InitDB == disk = GenesisImage /\ durable = {GenesisImage}

(* DBStore::put, write_batch and remove: WriteOptions with sync = false.   *)
put(image) == disk' = image /\ durable' = durable \cup {image}

(* DBStore::put_sync: the log, with every earlier write, reaches the disk. *)
put_sync(image) == disk' = image /\ durable' = {image}

(* RocksDB after a crash: the images a power failure may leave.            *)
Recover == \E image \in durable : disk' = image /\ durable' = {image}

(* RocksDB::new: opening the database replays the log and flushes it.      *)
Open == disk' = disk /\ durable' = {disk}

TypeOKDB == disk \in Image /\ durable \subseteq Image /\ disk \in durable
=============================================================================
