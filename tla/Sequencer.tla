----------------------------- MODULE Sequencer -----------------------------
(***************************************************************************)
(* SequencerActor (crates/rooch-sequencer) over the shared database, with  *)
(* the `rooch db revert-tx' command an operator may run while the node is  *)
(* down.  One action per write of `sequence', so that a crash, a power     *)
(* failure or a storage error can fall between any two of them.            *)
(***************************************************************************)
EXTENDS RoochDB

CONSTANTS
  L1Tx,          \* the members of Tx that are L1 blocks or L1 transactions (they have no sender)
  SequencerTx,   \* the L2 transactions sent by the sequencer's own account
  MaxFaults,     \* bound: storage errors (a write that returns Err)
  MaxCrashes,    \* bound: crashes
  MaxLeaves,     \* bound: leaves the in-memory accumulator reaches
  Resubmit       \* may a client submit a transaction that is already stored?

ASSUME KindAssumption == L1Tx \subseteq Tx /\ SequencerTx \subseteq Tx \ L1Tx
ASSUME BoundAssumption ==
  MaxFaults \in Nat /\ MaxCrashes \in Nat /\ MaxLeaves \in Nat /\ Resubmit \in BOOLEAN

ServiceStatus == {"Active", "Maintenance", "ReadOnlyMode", "DateImportMode"}

VARIABLES
  status,      \* service_status of the running process
  up,          \* is the process running?
  last_info,   \* last_sequencer_info
  tx_acc,      \* tx_accumulator: its leaves
  unflushed,   \* its update_nodes: the accumulators whose nodes are not in the store
  step,        \* what `sequence' does next
  tx,          \* its argument
  revert,      \* what `revert-tx' still has to remove
  faults, crashes,
  promised,    \* history: the signed sequence infos returned to callers and not reverted
  torn         \* history: a revert was cut off between its writes

memVars == <<last_info, tx_acc, unflushed, step, tx>>
histVars == <<promised, torn>>
seqVars == <<disk, durable, status, up, last_info, tx_acc, unflushed, step, tx,
             revert, faults, crashes, promised, torn>>

NoRevert == [hash |-> None, order |-> 0, step |-> "none"]

InitSequencer ==
  /\ InitDB
  /\ status = "Active" /\ up = TRUE
  /\ last_info = GenesisInfo /\ tx_acc = <<Genesis>> /\ unflushed = {}
  /\ step = "idle" /\ tx = None
  /\ revert = NoRevert
  /\ faults = 0 /\ crashes = 0
  /\ promised = {} /\ torn = FALSE

(* The match on service_status at the head of `sequence'.                  *)
Admits(t) ==
  \/ status = "Active"
  \/ status = "DateImportMode" /\ t \in L1Tx
  \/ status = "Maintenance" /\ t \in SequencerTx

(* Mutant: the sequence info carries the accumulator from before the append.*)
NewInfo_StaleAccumulator == [last_order |-> last_info.last_order + 1, acc |-> last_info.acc]

(* The sequence info the call is about to commit to.                       *)
NewInfo == [last_order |-> last_info.last_order + 1, acc |-> tx_acc]

(* tx_accumulator.append: memory only.                                     *)
Sequence(t) ==
  /\ up /\ step = "idle"
  /\ Admits(t)
  /\ Resubmit \/ disk.txs[t] = None
  /\ last_info.last_order < MaxOrder /\ Len(tx_acc) < MaxLeaves
  /\ tx' = t
  /\ tx_acc' = Append(tx_acc, t)
  /\ unflushed' = unflushed \cup {tx_acc'}
  /\ step' = "flush"
  /\ UNCHANGED <<dbVars, status, up, last_info, revert, faults, crashes, histVars>>

(* Mutant: only the nodes of the newest append are written.               *)
Flush_NewestOnly ==
  /\ up /\ step = "flush"
  /\ put([disk EXCEPT !.acc_nodes = @ \cup {tx_acc}])
  /\ unflushed' = {}
  /\ step' = "save_info"
  /\ UNCHANGED <<status, up, last_info, tx_acc, tx, revert, faults, crashes, histVars>>

(* tx_accumulator.flush: one write batch with every pending node.          *)
Flush ==
  /\ up /\ step = "flush"
  /\ put([disk EXCEPT !.acc_nodes = @ \cup unflushed])
  /\ unflushed' = {}
  /\ step' = "save_info"
  /\ UNCHANGED <<status, up, last_info, tx_acc, tx, revert, faults, crashes, histVars>>

(* Mutant: the continuity check is dropped.                                *)
Continuous_Unchecked(info) == TRUE

(* MetaDBStore::inner_save_sequencer_info with need_check.                 *)
Continuous(info) == info.last_order = disk.sequencer_info.last_order + 1

(* Mutant: put instead of put_sync.                                        *)
SaveSequencerInfo_NoSync ==
  /\ up /\ step = "save_info"
  /\ Continuous(NewInfo)
  /\ put([disk EXCEPT !.sequencer_info = NewInfo])
  /\ step' = "save_tx"
  /\ UNCHANGED <<status, up, last_info, tx_acc, unflushed, tx, revert, faults, crashes, histVars>>

(* MetaDBStore::save_sequencer_info: checked, then put_sync.               *)
SaveSequencerInfo ==
  /\ up /\ step = "save_info"
  /\ Continuous(NewInfo)
  /\ put_sync([disk EXCEPT !.sequencer_info = NewInfo])
  /\ step' = "save_tx"
  /\ UNCHANGED <<status, up, last_info, tx_acc, unflushed, tx, revert, faults, crashes, histVars>>

(* "Sequencer order is not continuous": the call returns Err and keeps the *)
(* leaf it appended.                                                       *)
NotContinuous ==
  /\ up /\ step = "save_info"
  /\ ~Continuous(NewInfo)
  /\ step' = "idle" /\ tx' = None
  /\ UNCHANGED <<dbVars, status, up, last_info, tx_acc, unflushed, revert, faults, crashes, histVars>>

(* TransactionDBStore::save_transaction, its first kv_put ...              *)
SaveTx ==
  /\ up /\ step = "save_tx"
  /\ put([disk EXCEPT !.txs[tx] = NewInfo])
  /\ step' = "save_mapping"
  /\ UNCHANGED <<status, up, last_info, tx_acc, unflushed, tx, revert, faults, crashes, histVars>>

(* Mutant: the mapping is written at the previous order.                   *)
SaveMapping_OffByOne ==
  /\ up /\ step = "save_mapping"
  /\ put([disk EXCEPT !.mapping[last_info.last_order] = tx])
  /\ last_info' = NewInfo
  /\ promised' = promised \cup {[tx |-> tx, info |-> NewInfo]}
  /\ step' = "idle" /\ tx' = None
  /\ UNCHANGED <<status, up, tx_acc, unflushed, revert, faults, crashes, torn>>

(* ... and its second, after which `sequence' updates its memory and       *)
(* returns the signed transaction.                                         *)
SaveMapping ==
  /\ up /\ step = "save_mapping"
  /\ put([disk EXCEPT !.mapping[NewInfo.last_order] = tx])
  /\ last_info' = NewInfo
  /\ promised' = promised \cup {[tx |-> tx, info |-> NewInfo]}
  /\ step' = "idle" /\ tx' = None
  /\ UNCHANGED <<status, up, tx_acc, unflushed, revert, faults, crashes, torn>>

(* A write of `sequence' returns Err: `?' leaves the call where it is.     *)
StorageError ==
  /\ up /\ step # "idle" /\ faults < MaxFaults
  /\ faults' = faults + 1
  /\ step' = "idle" /\ tx' = None
  /\ UNCHANGED <<dbVars, status, up, last_info, tx_acc, unflushed, revert, crashes, histVars>>

(* The process is gone, and its memory with it.                            *)
MemoryLost ==
  /\ up' = FALSE
  /\ last_info' = None /\ tx_acc' = << >> /\ unflushed' = {}
  /\ step' = "idle" /\ tx' = None
  /\ UNCHANGED <<status, revert, histVars>>

(* The process dies; a power failure takes the unsynced tail of the log    *)
(* too.                                                                    *)
Crash ==
  /\ up /\ crashes < MaxCrashes
  /\ crashes' = crashes + 1
  /\ Recover
  /\ MemoryLost
  /\ UNCHANGED faults

(* Mutant: the accumulator restarts empty.                                 *)
Start_EmptyAccumulator(s) ==
  /\ ~up /\ revert.step = "none"
  /\ Open
  /\ status' = s /\ up' = TRUE
  /\ last_info' = disk.sequencer_info
  /\ tx_acc' = << >> /\ unflushed' = {}
  /\ UNCHANGED <<step, tx, revert, faults, crashes, histVars>>

(* SequencerActor::new                                                     *)
Start(s) ==
  /\ ~up /\ revert.step = "none"
  /\ Open
  /\ status' = s /\ up' = TRUE
  /\ last_info' = disk.sequencer_info
  /\ tx_acc' = disk.sequencer_info.acc /\ unflushed' = {}
  /\ UNCHANGED <<step, tx, revert, faults, crashes, histVars>>

(* RevertTxCommand::execute, its checks and its first write.               *)
RevertInfo(o) ==
  LET last == disk.sequencer_info.last_order
      h    == disk.mapping[o]
      prev == disk.mapping[last - 1]
  IN /\ ~up /\ revert.step = "none"
     /\ h # None /\ disk.txs[h] # None
     /\ disk.txs[h].last_order = last
     /\ disk.execution_info[h] = None
     /\ last > 0 \* last_order - 1 on u64
     /\ prev # None /\ disk.txs[prev] # None
     /\ put_sync([disk EXCEPT !.sequencer_info =
                    [last_order |-> last - 1, acc |-> disk.txs[prev].acc]])
     /\ revert' = [hash |-> h, order |-> last, step |-> "remove_tx"]
     /\ promised' = {p \in promised : p.info.last_order # last}
     /\ UNCHANGED <<status, up, memVars, faults, crashes, torn>>

(* TransactionDBStore::remove_transaction, its two removals.               *)
RevertRemoveTx ==
  /\ revert.step = "remove_tx"
  /\ put([disk EXCEPT !.txs[revert.hash] = None])
  /\ revert' = [revert EXCEPT !.step = "remove_mapping"]
  /\ UNCHANGED <<status, up, memVars, faults, crashes, histVars>>

RevertRemoveMapping ==
  /\ revert.step = "remove_mapping"
  /\ put([disk EXCEPT !.mapping[revert.order] = None])
  /\ revert' = NoRevert
  /\ UNCHANGED <<status, up, memVars, faults, crashes, histVars>>

(* The command dies, or the power fails, before both removals are durable. *)
RevertCrash ==
  /\ ~up /\ crashes < MaxCrashes
  /\ revert.step # "none" \/ durable # {disk}
  /\ crashes' = crashes + 1
  /\ Recover
  /\ torn' = (torn \/ revert.step # "none" \/ disk' # disk)
  /\ revert' = NoRevert
  /\ UNCHANGED <<status, up, memVars, faults, promised>>

(***************************************************************************)
(* What the rest of the process does to the sequencer; module Pipeline     *)
(* models it step by step and implements these three.                      *)
(***************************************************************************)
(* The executor writes its own column families of the shared database.     *)
ExecutorWrites ==
  /\ up
  /\ disk' \in Image
  /\ disk'.sequencer_info = disk.sequencer_info
  /\ disk'.txs = disk.txs /\ disk'.mapping = disk.mapping /\ disk'.acc_nodes = disk.acc_nodes
  /\ put(disk') \/ put_sync(disk')
  /\ UNCHANGED <<status, up, memVars, revert, faults, crashes, histVars>>

(* A write of the executor or of the indexer fails.                        *)
FaultElsewhere ==
  /\ faults < MaxFaults
  /\ faults' = faults + 1
  /\ UNCHANGED <<dbVars, status, up, memVars, revert, crashes, histVars>>

(* The process exits: a panic of another actor, or an error at startup.    *)
ProcessExits ==
  /\ up
  /\ MemoryLost
  /\ faults' = faults \/ (faults < MaxFaults /\ faults' = faults + 1)
  /\ UNCHANGED <<dbVars, crashes>>

SequenceStep == Flush \/ SaveSequencerInfo \/ NotContinuous \/ SaveTx \/ SaveMapping
RevertStep == (\E o \in Order : RevertInfo(o)) \/ RevertRemoveTx \/ RevertRemoveMapping

NextSequencer ==
  \/ \E t \in Tx : Sequence(t)
  \/ SequenceStep \/ StorageError \/ Crash
  \/ ExecutorWrites \/ FaultElsewhere \/ ProcessExits
  \/ \E s \in ServiceStatus : Start(s)
  \/ RevertStep \/ RevertCrash

SpecSequencer == InitSequencer /\ [][NextSequencer]_seqVars

(***************************************************************************)
(* Properties.                                                             *)
(***************************************************************************)
Promise == [tx : Tx, info : SequencerInfo]
Step == {"idle", "flush", "save_info", "save_tx", "save_mapping"}
RevertState == [hash : Hash \cup {None}, order : Order,
                step : {"none", "remove_tx", "remove_mapping"}]

(* The types of the sequencer's memory, of the database and of the history.*)
TypeOKSequencer ==
  /\ TypeOKDB
  /\ status \in ServiceStatus /\ up \in BOOLEAN
  /\ last_info \in SequencerInfo \cup {None}
  /\ tx_acc \in AccumulatorInfo /\ unflushed \subseteq AccumulatorInfo
  /\ step \in Step /\ tx \in Tx \cup {None}
  /\ revert \in RevertState
  /\ faults \in 0..MaxFaults /\ crashes \in 0..MaxCrashes
  /\ promised \subseteq Promise /\ torn \in BOOLEAN

(* s is an earlier state of the accumulator t.                             *)
Extends(t, s) == Len(s) <= Len(t) /\ \A i \in 1..Len(s) : s[i] = t[i]

(* A signed order is a promise: whatever happens after `sequence' returned *)
(* it (later calls, storage errors, crashes, power failures), the database *)
(* that comes back has assigned that order, its accumulator extends the    *)
(* signed one, and no other transaction was promised the same order, until *)
(* an operator reverts it.                                                 *)
PromiseKeptIn(image) ==
  \A p \in promised :
    /\ p.info.last_order <= image.sequencer_info.last_order
    /\ Extends(image.sequencer_info.acc, p.info.acc)

PromisesUnique == \A p, q \in promised : p.info.last_order = q.info.last_order => p = q

PromiseAlwaysKept == (\A image \in durable : PromiseKeptIn(image)) /\ PromisesUnique

(* ... provided no revert was cut off between its writes: such a revert    *)
(* leaves a stale mapping behind, and a later revert trusts it.            *)
PromiseKept == torn \/ PromiseAlwaysKept

(* The accumulator proves a transaction's order: the leaf at the position  *)
(* a signed sequence info claims is the transaction's own hash.            *)
PositionProvesOrder ==
  \A p \in promised :
    /\ Len(p.info.acc) = p.info.last_order + 1
    /\ p.info.acc[Len(p.info.acc)] = p.tx

(* Startup recovery and the RPC read the order mapping, provers read the   *)
(* accumulator: in every image a crash may leave they agree on which       *)
(* transaction has an order.  A revert cut off between its writes is       *)
(* excepted: it leaves the reverted transaction in the mapping, and a      *)
(* crash of the next `sequence' makes it the transaction of that order.    *)
MappingMatchesAccumulator ==
  torn \/ \A image \in durable : \A o \in 0..image.sequencer_info.last_order :
    image.mapping[o] # None => image.sequencer_info.acc[o + 1] = image.mapping[o]

(* The two together: what a client can prove of its order is what the node *)
(* looks up for it.                                                        *)
OrderIsProved == PositionProvesOrder /\ MappingMatchesAccumulator

(* Proofs can be served after a restart: the nodes that every append to    *)
(* the accumulator of a stored sequencer info made are in the store of     *)
(* every image a crash may leave.                                          *)
AccumulatorFlushed ==
  \A image \in durable : \A i \in 1..Len(image.sequencer_info.acc) :
    SubSeq(image.sequencer_info.acc, 1, i) \in image.acc_nodes

(* The stored sequencer info is append-only: a step leaves it alone,       *)
(* extends it by the next order, or (an operator's revert, node down)      *)
(* takes the last order back.  In particular no crash moves it.            *)
SequencerInfoAppendOnly ==
  [][LET old == disk.sequencer_info
         new == disk'.sequencer_info
     IN \/ new = old
        \/ new.last_order = old.last_order + 1 /\ Extends(new.acc, old.acc)
        \/ ~up /\ new.last_order + 1 = old.last_order]_seqVars

(* What the sequencer stores and returns, seen from outside: none of its   *)
(* four writes but put_sync, and no crash, error or restart, is a step of  *)
(* the ledger.                                                             *)
Outside == INSTANCE Ledger WITH head <- disk.sequencer_info, signed <- promised, intact <- ~torn

(* The sequencer, whatever fails or crashes under it, implements Ledger.   *)
ImplementsLedger == Outside!SpecLedger

(***************************************************************************)
(* The inductive invariant behind PromiseKept.                             *)
(***************************************************************************)
(* What the running call knows of itself.                                  *)
CallOK ==
  /\ up => last_info \in SequencerInfo
  /\ step # "idle" => /\ up /\ tx \in Tx /\ last_info.last_order < MaxOrder
                      /\ Len(tx_acc) > 0 /\ tx_acc[Len(tx_acc)] = tx
  /\ revert.step # "none" => ~up /\ revert.hash \in Hash

(* Every change of the sequencer info is synced, so all images agree on it.*)
InfoSynced == \A image \in durable : image.sequencer_info = disk.sequencer_info

(* The memory extends the store; once a call saved its info, and until it  *)
(* returns, the store holds exactly what the call will promise.            *)
MemoryExtendsStore ==
  /\ up => Extends(tx_acc, disk.sequencer_info.acc)
  /\ up => last_info.last_order <= disk.sequencer_info.last_order
  /\ step \in {"save_tx", "save_mapping"} => disk.sequencer_info = NewInfo
  /\ step = "save_mapping" => disk.txs[tx] = NewInfo

(* The promises of a running node are not ahead of its memory.             *)
PromisedByMemory == up => \A p \in promised : p.info.last_order <= last_info.last_order

(* No image maps an order nobody has assigned, but for the one a revert is *)
(* taking back.                                                            *)
NothingMappedAhead ==
  /\ up => \A image \in durable, o \in Order : o > last_info.last_order => image.mapping[o] = None
  /\ ~up => \A o \in Order :
       o > disk.sequencer_info.last_order /\ disk.mapping[o] # None
         => revert.step # "none" /\ o = revert.order

(* A stored transaction that is mapped at order o extends every promise up *)
(* to o: this is what makes the accumulator info a revert restores safe.   *)
MappedExtendsPromises ==
  \A image \in durable, o \in Order :
    image.mapping[o] # None /\ image.txs[image.mapping[o]] # None =>
      \A p \in promised : p.info.last_order <= o =>
        Extends(image.txs[image.mapping[o]].acc, p.info.acc)

(* The inductive invariant: what the running call, the store and the       *)
(* promises know of each other between any two writes of `sequence', a     *)
(* crash and the operator's revert.                                        *)
SequencerInv ==
  /\ TypeOKSequencer /\ CallOK /\ InfoSynced /\ MemoryExtendsStore
  /\ ~torn => PromiseAlwaysKept /\ PromisedByMemory /\ NothingMappedAhead /\ MappedExtendsPromises
=============================================================================
