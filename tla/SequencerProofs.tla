-------------------------- MODULE SequencerProofs --------------------------
(***************************************************************************)
(* SequencerInv is an inductive invariant of the sequencer, for every set  *)
(* of transactions and every bound; type correctness and PromiseKept       *)
(* follow from it.                                                         *)
(***************************************************************************)
EXTENDS Sequencer, TLAPS

(* An accumulator extends itself.                                          *)
LEMMA ExtendsReflexive ==
  ASSUME NEW s \in AccumulatorInfo PROVE Extends(s, s)
BY DEF Extends, AccumulatorInfo

(* Extension is transitive.                                                *)
LEMMA ExtendsTransitive ==
  ASSUME NEW s \in AccumulatorInfo, NEW t \in AccumulatorInfo, NEW u \in AccumulatorInfo,
         Extends(t, s), Extends(u, t)
  PROVE  Extends(u, s)
BY DEF Extends, AccumulatorInfo

(* append extends the accumulator.                                         *)
LEMMA ExtendsAppend ==
  ASSUME NEW s \in AccumulatorInfo, NEW h \in Hash
  PROVE  Append(s, h) \in AccumulatorInfo /\ Extends(Append(s, h), s)
BY DEF Extends, AccumulatorInfo

(* The database genesis leaves is an image.                                *)
LEMMA GenesisIsImage == GenesisImage \in Image
BY MaxOrderAssumption DEF GenesisImage, Image, GenesisInfo, SequencerInfo, AccumulatorInfo,
   StateRoot, Hash, Order

(* NewInfo is a sequencer info while a call runs.                          *)
LEMMA NewInfoType ==
  ASSUME TypeOKSequencer, CallOK, step # "idle"
  PROVE  NewInfo \in SequencerInfo
<1>1. last_info \in SequencerInfo /\ last_info.last_order < MaxOrder /\ tx_acc \in AccumulatorInfo
  BY DEF TypeOKSequencer, CallOK
<1> QED BY <1>1, MaxOrderAssumption DEF NewInfo, SequencerInfo, Order

(* The initial state satisfies the invariant.                              *)
LEMMA InitInv == InitSequencer => SequencerInv
<1> SUFFICES ASSUME InitSequencer PROVE SequencerInv
  OBVIOUS
<1>a. GenesisInfo \in SequencerInfo /\ <<Genesis>> \in AccumulatorInfo
  BY MaxOrderAssumption DEF GenesisInfo, SequencerInfo, AccumulatorInfo, Order, Hash
<1>b. GenesisImage.sequencer_info = GenesisInfo
  BY DEF GenesisImage
<1>1. TypeOKSequencer
  <2>1. TypeOKDB
    BY GenesisIsImage DEF InitSequencer, InitDB, TypeOKDB
  <2>2. revert \in RevertState
    BY MaxOrderAssumption DEF InitSequencer, RevertState, NoRevert, Order
  <2>3. faults \in 0..MaxFaults /\ crashes \in 0..MaxCrashes
    BY BoundAssumption DEF InitSequencer
  <2>4. /\ status \in ServiceStatus /\ up \in BOOLEAN /\ torn \in BOOLEAN
        /\ step \in Step /\ tx \in Tx \cup {None} /\ promised \subseteq Promise
        /\ last_info \in SequencerInfo \cup {None}
        /\ tx_acc \in AccumulatorInfo /\ unflushed \subseteq AccumulatorInfo
    BY <1>a DEF InitSequencer, ServiceStatus, Step
  <2> QED BY <2>1, <2>2, <2>3, <2>4 DEF TypeOKSequencer
<1>2. CallOK
  BY <1>a DEF InitSequencer, CallOK, NoRevert
<1>3. InfoSynced
  BY DEF InitSequencer, InitDB, InfoSynced
<1>4. MemoryExtendsStore
  BY <1>a, <1>b, ExtendsReflexive DEF InitSequencer, InitDB, MemoryExtendsStore, GenesisInfo,
     SequencerInfo, Order
<1>5. PromiseAlwaysKept /\ PromisedByMemory /\ MappedExtendsPromises
  BY DEF InitSequencer, InitDB, PromiseAlwaysKept, PromiseKeptIn, PromisesUnique,
     PromisedByMemory, MappedExtendsPromises
<1>6. NothingMappedAhead
  BY MaxOrderAssumption DEF InitSequencer, InitDB, NothingMappedAhead, GenesisImage, GenesisInfo, Order
<1> QED BY <1>1, <1>2, <1>3, <1>4, <1>5, <1>6 DEF SequencerInv

(***************************************************************************)
(* One lemma per action.                                                   *)
(***************************************************************************)
LEMMA SequenceInv ==
  ASSUME SequencerInv, NEW t \in Tx, Sequence(t) PROVE SequencerInv'
<1> USE DEF Sequence, dbVars, histVars
<1>a. t \in Hash /\ tx_acc \in AccumulatorInfo
  BY DEF Hash, SequencerInv, TypeOKSequencer
<1>b. Append(tx_acc, t) \in AccumulatorInfo /\ Extends(Append(tx_acc, t), tx_acc)
  BY <1>a, ExtendsAppend
<1>c. disk.sequencer_info.acc \in AccumulatorInfo
  BY DEF SequencerInv, TypeOKSequencer, TypeOKDB, Image, SequencerInfo
<1>1. TypeOKSequencer'
  BY <1>b DEF SequencerInv, TypeOKSequencer, TypeOKDB, Step
<1>2. CallOK'
  BY DEF SequencerInv, CallOK
<1>3. InfoSynced'
  BY DEF SequencerInv, InfoSynced
<1>4. MemoryExtendsStore'
  <2>1. Extends(tx_acc, disk.sequencer_info.acc)
    BY DEF SequencerInv, MemoryExtendsStore
  <2>2. Extends(tx_acc', disk.sequencer_info.acc)
    BY <2>1, <1>a, <1>b, <1>c, ExtendsTransitive
  <2> QED BY <2>2 DEF SequencerInv, MemoryExtendsStore
<1>5. ASSUME ~torn'
      PROVE  (PromiseAlwaysKept /\ PromisedByMemory /\ NothingMappedAhead /\ MappedExtendsPromises)'
  BY <1>5 DEF SequencerInv, PromiseAlwaysKept, PromiseKeptIn, PromisesUnique, PromisedByMemory,
     NothingMappedAhead, MappedExtendsPromises
<1> QED BY <1>1, <1>2, <1>3, <1>4, <1>5 DEF SequencerInv

(* NotContinuous and StorageError return Err: only the call is gone.       *)
LEMMA ErrInv ==
  ASSUME SequencerInv, NotContinuous \/ StorageError PROVE SequencerInv'
<1>a. /\ UNCHANGED <<disk, durable, status, up, last_info, tx_acc, unflushed, revert, crashes,
                     promised, torn>>
      /\ up /\ step' = "idle" /\ tx' = None /\ faults' \in 0..MaxFaults
  BY BoundAssumption
  DEF NotContinuous, StorageError, dbVars, histVars, SequencerInv, TypeOKSequencer
<1>1. TypeOKSequencer'
  BY <1>a DEF SequencerInv, TypeOKSequencer, TypeOKDB, Step
<1>2. CallOK'
  BY <1>a DEF SequencerInv, CallOK
<1>3. InfoSynced'
  BY <1>a DEF SequencerInv, InfoSynced
<1>4. MemoryExtendsStore'
  BY <1>a DEF SequencerInv, MemoryExtendsStore
<1>5. ASSUME ~torn'
      PROVE  (PromiseAlwaysKept /\ PromisedByMemory /\ NothingMappedAhead /\ MappedExtendsPromises)'
  BY <1>a, <1>5 DEF SequencerInv, PromiseAlwaysKept, PromiseKeptIn, PromisesUnique,
     PromisedByMemory, NothingMappedAhead, MappedExtendsPromises
<1> QED BY <1>1, <1>2, <1>3, <1>4, <1>5 DEF SequencerInv

(* A write that leaves the three column families of the sequencer alone.   *)
LEMMA PutElsewhereInv ==
  ASSUME SequencerInv, NEW image \in Image, put(image) \/ put_sync(image),
         image.sequencer_info = disk.sequencer_info,
         image.txs = disk.txs, image.mapping = disk.mapping,
         UNCHANGED <<up, last_info, revert, tx, tx_acc, promised, torn>>
  PROVE  /\ TypeOKDB' /\ InfoSynced'
         /\ ~torn' => /\ PromiseAlwaysKept' /\ PromisedByMemory' /\ NothingMappedAhead'
                      /\ MappedExtendsPromises'
<1>a. disk \in durable /\ durable \subseteq Image
  BY DEF SequencerInv, TypeOKSequencer, TypeOKDB
<1>b. disk' = image /\ image \in durable' /\ \A i \in durable' : i \in durable \/ i = image
  BY DEF put, put_sync
<1>1. TypeOKDB'
  BY <1>a, <1>b DEF TypeOKDB
<1>2. InfoSynced'
  BY <1>b DEF SequencerInv, InfoSynced
<1>3. ASSUME ~torn' PROVE PromiseAlwaysKept' /\ PromisedByMemory'
  BY <1>a, <1>b, <1>3 DEF SequencerInv, PromiseAlwaysKept, PromiseKeptIn, PromisesUnique,
     PromisedByMemory
<1>4. ASSUME ~torn' PROVE NothingMappedAhead'
  BY <1>a, <1>b, <1>4 DEF SequencerInv, NothingMappedAhead
<1>5. ASSUME ~torn' PROVE MappedExtendsPromises'
  BY <1>a, <1>b, <1>5 DEF SequencerInv, MappedExtendsPromises
<1> QED BY <1>1, <1>2, <1>3, <1>4, <1>5

\* A flush touches accumulator nodes only: infos, mapping and promises stay (flush).
LEMMA FlushInv ==
  ASSUME SequencerInv, Flush PROVE SequencerInv'
<1> DEFINE image == [disk EXCEPT !.acc_nodes = @ \cup unflushed]
<1> USE DEF Flush, histVars
<1>a. disk \in Image /\ unflushed \subseteq AccumulatorInfo
  BY DEF SequencerInv, TypeOKSequencer, TypeOKDB
<1>b. /\ image \in Image /\ image.sequencer_info = disk.sequencer_info
      /\ image.txs = disk.txs /\ image.mapping = disk.mapping
  BY <1>a DEF Image
<1>c. put(image) /\ disk' = image
  BY DEF put
<1> HIDE DEF image
<1>d. /\ TypeOKDB' /\ InfoSynced'
      /\ ~torn' => /\ PromiseAlwaysKept' /\ PromisedByMemory' /\ NothingMappedAhead'
                   /\ MappedExtendsPromises'
  BY <1>b, <1>c, PutElsewhereInv
<1>1. TypeOKSequencer'
  BY <1>d DEF SequencerInv, TypeOKSequencer, Step
<1>2. CallOK'
  BY DEF SequencerInv, CallOK
<1>3. MemoryExtendsStore'
  BY <1>b, <1>c DEF SequencerInv, MemoryExtendsStore
<1> QED BY <1>1, <1>2, <1>3, <1>d DEF SequencerInv

\* Writes to the executor's column families leave the sequencer's ones alone.
LEMMA ExecutorWritesInv ==
  ASSUME SequencerInv, ExecutorWrites PROVE SequencerInv'
<1> USE DEF ExecutorWrites, histVars, memVars
<1>a. /\ TypeOKDB' /\ InfoSynced'
      /\ ~torn' => /\ PromiseAlwaysKept' /\ PromisedByMemory' /\ NothingMappedAhead'
                   /\ MappedExtendsPromises'
  BY PutElsewhereInv
<1>1. TypeOKSequencer'
  BY <1>a DEF SequencerInv, TypeOKSequencer
<1>2. CallOK'
  BY DEF SequencerInv, CallOK
<1>3. MemoryExtendsStore'
  BY DEF SequencerInv, MemoryExtendsStore, NewInfo
<1> QED BY <1>1, <1>2, <1>3, <1>a DEF SequencerInv

\* An error of another component changes nothing the sequencer reads.
LEMMA FaultElsewhereInv ==
  ASSUME SequencerInv, FaultElsewhere PROVE SequencerInv'
<1>a. /\ UNCHANGED <<disk, durable, status, up, last_info, tx_acc, unflushed, step, tx, revert,
                     crashes, promised, torn>>
      /\ faults' \in 0..MaxFaults
  BY BoundAssumption
  DEF FaultElsewhere, dbVars, histVars, memVars, SequencerInv, TypeOKSequencer
<1>1. TypeOKSequencer'
  BY <1>a DEF SequencerInv, TypeOKSequencer, TypeOKDB
<1>2. CallOK' /\ InfoSynced' /\ MemoryExtendsStore'
  BY <1>a DEF SequencerInv, CallOK, InfoSynced, MemoryExtendsStore, NewInfo
<1>3. ASSUME ~torn'
      PROVE  (PromiseAlwaysKept /\ PromisedByMemory /\ NothingMappedAhead /\ MappedExtendsPromises)'
  BY <1>a, <1>3 DEF SequencerInv, PromiseAlwaysKept, PromiseKeptIn, PromisesUnique,
     PromisedByMemory, NothingMappedAhead, MappedExtendsPromises
<1> QED BY <1>1, <1>2, <1>3 DEF SequencerInv

\* The synced write of the next sequencer info: it extends the stored one (save_sequencer_info).
LEMMA SaveSequencerInfoInv ==
  ASSUME SequencerInv, SaveSequencerInfo PROVE SequencerInv'
<1> DEFINE image == [disk EXCEPT !.sequencer_info = NewInfo]
<1> USE DEF SaveSequencerInfo, histVars
<1>a. disk \in Image /\ disk \in durable /\ tx_acc \in AccumulatorInfo /\ last_info \in SequencerInfo
  BY DEF SequencerInv, TypeOKSequencer, TypeOKDB, CallOK
<1>b. NewInfo \in SequencerInfo
  BY NewInfoType DEF SequencerInv
<1>c. /\ image \in Image /\ image.sequencer_info = NewInfo
      /\ image.txs = disk.txs /\ image.mapping = disk.mapping
  BY <1>a, <1>b DEF Image
<1>d. put_sync(image) /\ disk' = image /\ durable' = {image}
  BY DEF put_sync
<1> HIDE DEF image
<1>e. NewInfo' = NewInfo
  BY DEF NewInfo
<1>f. NewInfo.acc = tx_acc /\ NewInfo.last_order = last_info.last_order + 1
  BY DEF NewInfo
<1>1. TypeOKSequencer'
  BY <1>c, <1>d DEF SequencerInv, TypeOKSequencer, TypeOKDB, Step
<1>2. CallOK'
  BY DEF SequencerInv, CallOK
<1>3. InfoSynced'
  BY <1>d DEF InfoSynced
<1>4. MemoryExtendsStore'
  BY <1>a, <1>c, <1>d, <1>e, <1>f, ExtendsReflexive
  DEF MemoryExtendsStore, SequencerInfo, Order
<1>5. ASSUME ~torn' PROVE PromiseAlwaysKept'
  <2>1. PromiseAlwaysKept /\ Extends(tx_acc, disk.sequencer_info.acc)
    BY <1>5 DEF SequencerInv, MemoryExtendsStore
  <2>2. ASSUME NEW p \in promised
        PROVE  p.info.last_order <= NewInfo.last_order /\ Extends(NewInfo.acc, p.info.acc)
    <3>1. /\ p.info.acc \in AccumulatorInfo /\ p.info.last_order \in Nat
          /\ disk.sequencer_info.acc \in AccumulatorInfo /\ disk.sequencer_info.last_order \in Nat
      BY <1>a DEF SequencerInv, TypeOKSequencer, Promise, Image, SequencerInfo, Order
    <3>2. /\ p.info.last_order <= disk.sequencer_info.last_order
          /\ Extends(disk.sequencer_info.acc, p.info.acc)
      BY <1>a, <2>1 DEF PromiseAlwaysKept, PromiseKeptIn
    <3>3. NewInfo.last_order = disk.sequencer_info.last_order + 1
      BY DEF Continuous
    <3>4. Extends(tx_acc, p.info.acc)
      BY <1>a, <2>1, <3>1, <3>2, ExtendsTransitive
    <3> QED BY <1>f, <3>1, <3>2, <3>3, <3>4
  <2> QED BY <1>c, <1>d, <2>1, <2>2 DEF PromiseAlwaysKept, PromiseKeptIn, PromisesUnique
<1>6. ASSUME ~torn' PROVE (PromisedByMemory /\ NothingMappedAhead /\ MappedExtendsPromises)'
  BY <1>a, <1>c, <1>d, <1>6 DEF SequencerInv, PromisedByMemory, NothingMappedAhead,
     MappedExtendsPromises
<1> QED BY <1>1, <1>2, <1>3, <1>4, <1>5, <1>6 DEF SequencerInv

\* The transaction is stored with the info that was just saved (save_tx).
LEMMA SaveTxInv ==
  ASSUME SequencerInv, SaveTx PROVE SequencerInv'
<1> DEFINE image == [disk EXCEPT !.txs[tx] = NewInfo]
<1> USE DEF SaveTx, histVars
<1>a. /\ disk \in Image /\ disk \in durable /\ durable \subseteq Image
      /\ tx \in Tx /\ tx \in Hash /\ last_info \in SequencerInfo
  BY DEF SequencerInv, TypeOKSequencer, TypeOKDB, CallOK, Hash
<1>b. NewInfo \in SequencerInfo /\ NewInfo' = NewInfo
  BY NewInfoType DEF SequencerInv, NewInfo
<1>c. /\ image \in Image /\ image.sequencer_info = disk.sequencer_info
      /\ image.mapping = disk.mapping /\ image.txs[tx] = NewInfo
      /\ \A h \in Hash : h # tx => image.txs[h] = disk.txs[h]
  BY <1>a, <1>b DEF Image
<1>d. disk' = image /\ durable' = durable \cup {image}
  BY DEF put
<1> HIDE DEF image
<1>1. TypeOKSequencer'
  BY <1>a, <1>c, <1>d DEF SequencerInv, TypeOKSequencer, TypeOKDB, Step
<1>2. CallOK'
  BY DEF SequencerInv, CallOK
<1>3. InfoSynced'
  BY <1>c, <1>d DEF SequencerInv, InfoSynced
<1>4. MemoryExtendsStore'
  BY <1>b, <1>c, <1>d DEF SequencerInv, MemoryExtendsStore
<1>5. ASSUME ~torn' PROVE (PromiseAlwaysKept /\ PromisedByMemory /\ NothingMappedAhead)'
  BY <1>a, <1>c, <1>d, <1>5 DEF SequencerInv, PromiseAlwaysKept, PromiseKeptIn, PromisesUnique,
     PromisedByMemory, NothingMappedAhead
<1>6. ASSUME ~torn' PROVE MappedExtendsPromises'
  <2>1. PromiseAlwaysKept /\ MappedExtendsPromises /\ disk.sequencer_info = NewInfo
    BY <1>6 DEF SequencerInv, MemoryExtendsStore
  <2>2. \A p \in promised : Extends(NewInfo.acc, p.info.acc)
    BY <1>a, <2>1 DEF PromiseAlwaysKept, PromiseKeptIn
  <2>3. \A o \in Order : image.mapping[o] # None => image.mapping[o] \in Hash
    BY <1>c DEF Image
  <2> QED BY <1>a, <1>c, <1>d, <2>1, <2>2, <2>3 DEF MappedExtendsPromises
<1> QED BY <1>1, <1>2, <1>3, <1>4, <1>5, <1>6 DEF SequencerInv

\* The order is mapped, memory moves on and the caller gets its signed info.
LEMMA SaveMappingInv ==
  ASSUME SequencerInv, SaveMapping PROVE SequencerInv'
<1> DEFINE image == [disk EXCEPT !.mapping[NewInfo.last_order] = tx]
           promise == [tx |-> tx, info |-> NewInfo]
<1> USE DEF SaveMapping, histVars
<1>a. /\ disk \in Image /\ disk \in durable /\ durable \subseteq Image
      /\ tx \in Tx /\ tx \in Hash /\ tx # None /\ last_info \in SequencerInfo
  BY TxAssumption DEF SequencerInv, TypeOKSequencer, TypeOKDB, CallOK, Hash
<1>b. NewInfo \in SequencerInfo /\ NewInfo.last_order \in Order
  BY NewInfoType DEF SequencerInv, SequencerInfo
<1>c. /\ image \in Image /\ image.sequencer_info = disk.sequencer_info
      /\ image.txs = disk.txs /\ image.mapping[NewInfo.last_order] = tx
      /\ \A o \in Order : o # NewInfo.last_order => image.mapping[o] = disk.mapping[o]
  BY <1>a, <1>b DEF Image
<1>d. disk' = image /\ durable' = durable \cup {image}
  BY DEF put
<1>e. /\ promise \in Promise /\ promise.info = NewInfo /\ promised' = promised \cup {promise}
  BY <1>a, <1>b DEF Promise
<1> HIDE DEF image, promise
<1>f. NewInfo.last_order = last_info.last_order + 1 /\ NewInfo.acc = tx_acc
      /\ last_info.last_order \in Nat
  BY <1>a DEF NewInfo, SequencerInfo, Order
<1>g. disk.sequencer_info = NewInfo /\ disk.txs[tx] = NewInfo
      /\ \A i \in durable : i.sequencer_info = NewInfo
  BY DEF SequencerInv, MemoryExtendsStore, InfoSynced
<1>h. NewInfo.acc \in AccumulatorInfo /\ Extends(NewInfo.acc, NewInfo.acc)
  BY <1>b, ExtendsReflexive DEF SequencerInfo
<1>1. TypeOKSequencer'
  BY <1>a, <1>b, <1>c, <1>d, <1>e DEF SequencerInv, TypeOKSequencer, TypeOKDB, Step
<1>2. CallOK'
  BY <1>b DEF SequencerInv, CallOK
<1>3. InfoSynced'
  BY <1>c, <1>d DEF SequencerInv, InfoSynced
<1>4. MemoryExtendsStore'
  BY <1>b, <1>c, <1>d, <1>f, <1>g, <1>h DEF MemoryExtendsStore, SequencerInfo, Order
<1>5. ASSUME ~torn' PROVE PromiseAlwaysKept' /\ PromisedByMemory'
  <2>1. PromiseAlwaysKept /\ PromisedByMemory
    BY <1>5 DEF SequencerInv
  <2>2. \A p \in promised : p.info.last_order \in Nat /\ p.info.last_order <= last_info.last_order
    BY <2>1 DEF SequencerInv, TypeOKSequencer, Promise, SequencerInfo, Order, PromisedByMemory
  <2>3. \A i \in durable', p \in promised' :
           p.info.last_order <= i.sequencer_info.last_order
           /\ Extends(i.sequencer_info.acc, p.info.acc)
    BY <1>a, <1>c, <1>d, <1>e, <1>f, <1>g, <1>h, <2>1, <2>2 DEF PromiseAlwaysKept, PromiseKeptIn
  <2>4. PromisesUnique'
    BY <1>e, <1>f, <2>1, <2>2 DEF PromiseAlwaysKept, PromisesUnique
  <2>5. PromisedByMemory'
    BY <1>e, <1>f, <2>2 DEF PromisedByMemory
  <2> QED BY <2>3, <2>4, <2>5 DEF PromiseAlwaysKept, PromiseKeptIn
<1>6. ASSUME ~torn' PROVE NothingMappedAhead'
  <2>1. \A i \in durable, o \in Order : o > last_info.last_order => i.mapping[o] = None
    BY <1>6 DEF SequencerInv, NothingMappedAhead
  <2>2. \A i \in durable', o \in Order : o > NewInfo.last_order => i.mapping[o] = None
    BY <1>a, <1>b, <1>c, <1>d, <1>f, <2>1 DEF Order
  <2> QED BY <2>2 DEF NothingMappedAhead
<1>7. ASSUME ~torn' PROVE MappedExtendsPromises'
  <2>1. /\ MappedExtendsPromises /\ PromiseAlwaysKept
        /\ \A i \in durable, o \in Order : o > last_info.last_order => i.mapping[o] = None
    BY <1>7 DEF SequencerInv, NothingMappedAhead
  <2>2. \A p \in promised' : Extends(NewInfo.acc, p.info.acc)
    BY <1>a, <1>e, <1>g, <1>h, <2>1 DEF PromiseAlwaysKept, PromiseKeptIn
  <2>3. ASSUME NEW i \in durable', NEW o \in Order, NEW p \in promised',
               i.mapping[o] # None, i.txs[i.mapping[o]] # None, p.info.last_order <= o
        PROVE  Extends(i.txs[i.mapping[o]].acc, p.info.acc)
    <3>1. CASE i = image /\ o = NewInfo.last_order
      BY <1>c, <1>g, <2>2, <3>1
    <3>2. CASE i \in durable
      <4>1. o <= last_info.last_order
        BY <1>f, <2>1, <2>3, <3>2 DEF Order
      <4>2. p \in promised
        BY <1>e, <1>f, <2>3, <4>1 DEF Order
      <4> QED BY <2>1, <2>3, <3>2, <4>2 DEF MappedExtendsPromises
    <3>3. CASE i = image /\ o # NewInfo.last_order
      <4>1. i.mapping[o] = disk.mapping[o] /\ i.txs = disk.txs
        BY <1>c, <3>3
      <4>2. o <= last_info.last_order
        BY <1>a, <1>f, <2>1, <2>3, <4>1 DEF Order
      <4>3. p \in promised
        BY <1>e, <1>f, <2>3, <4>2 DEF Order
      <4> QED BY <1>a, <2>1, <2>3, <4>1, <4>3 DEF MappedExtendsPromises
    <3> QED BY <1>d, <3>1, <3>2, <3>3
  <2> QED BY <2>3 DEF MappedExtendsPromises
<1> QED BY <1>1, <1>2, <1>3, <1>4, <1>5, <1>6, <1>7 DEF SequencerInv

(* The process is gone; the database is one of the images that were left.  *)
LEMMA MemoryLostInv ==
  ASSUME SequencerInv, up, MemoryLost, NEW image \in durable, disk' = image,
         disk' \in durable', durable' \subseteq durable,
         faults' \in 0..MaxFaults, crashes' \in 0..MaxCrashes
  PROVE  SequencerInv'
<1> USE DEF MemoryLost, histVars
<1>b. /\ durable \subseteq Image /\ image.sequencer_info = disk.sequencer_info
      /\ revert.step = "none"
  BY DEF SequencerInv, TypeOKSequencer, TypeOKDB, InfoSynced, CallOK
<1>d. << >> \in AccumulatorInfo
  BY DEF AccumulatorInfo
<1>1. TypeOKSequencer'
  BY <1>b, <1>d DEF SequencerInv, TypeOKSequencer, TypeOKDB, Step
<1>2. CallOK'
  BY <1>b DEF CallOK
<1>3. InfoSynced'
  BY <1>b DEF InfoSynced, SequencerInv
<1>4. MemoryExtendsStore'
  BY DEF MemoryExtendsStore
<1>5. ASSUME ~torn' PROVE PromiseAlwaysKept' /\ PromisedByMemory' /\ MappedExtendsPromises'
  BY <1>b, <1>5 DEF SequencerInv, PromiseAlwaysKept, PromiseKeptIn, PromisesUnique,
     PromisedByMemory, MappedExtendsPromises
<1>6. ASSUME ~torn' PROVE NothingMappedAhead'
  <2>1. last_info.last_order \in Nat /\ disk.sequencer_info.last_order \in Nat
        /\ last_info.last_order <= disk.sequencer_info.last_order
    BY DEF SequencerInv, TypeOKSequencer, TypeOKDB, CallOK, MemoryExtendsStore, Image,
       SequencerInfo, Order
  <2>2. \A i \in durable, o \in Order : o > last_info.last_order => i.mapping[o] = None
    BY <1>6 DEF SequencerInv, NothingMappedAhead
  <2> QED BY <1>b, <2>1, <2>2 DEF NothingMappedAhead, Order
<1> QED BY <1>1, <1>2, <1>3, <1>4, <1>5, <1>6 DEF SequencerInv

\* A power failure: the synced info survives, memory is lost.
LEMMA CrashInv ==
  ASSUME SequencerInv, Crash PROVE SequencerInv'
<1>1. crashes' \in 0..MaxCrashes /\ faults' \in 0..MaxFaults
  BY BoundAssumption DEF Crash, SequencerInv, TypeOKSequencer
<1>2. PICK image \in durable : disk' = image /\ durable' = {image}
  BY DEF Crash, Recover
<1> QED BY <1>1, <1>2, MemoryLostInv DEF Crash

\* An exit of the process loses memory and no write.
LEMMA ProcessExitsInv ==
  ASSUME SequencerInv, ProcessExits PROVE SequencerInv'
<1>1. crashes' \in 0..MaxCrashes /\ faults' \in 0..MaxFaults
  BY BoundAssumption DEF ProcessExits, dbVars, SequencerInv, TypeOKSequencer
<1>2. disk' = disk /\ durable' = durable /\ disk \in durable
  BY DEF ProcessExits, dbVars, SequencerInv, TypeOKSequencer, TypeOKDB
<1> QED BY <1>1, <1>2, MemoryLostInv DEF ProcessExits

\* SequencerActor::new loads memory from the store.
LEMMA StartInv ==
  ASSUME SequencerInv, NEW s \in ServiceStatus, Start(s) PROVE SequencerInv'
<1> USE DEF Start, Open, histVars
<1>a. /\ disk \in Image /\ disk \in durable /\ disk.sequencer_info \in SequencerInfo
      /\ disk.sequencer_info.acc \in AccumulatorInfo /\ disk.sequencer_info.last_order \in Nat
  BY DEF SequencerInv, TypeOKSequencer, TypeOKDB, Image, SequencerInfo, Order
<1>b. step = "idle"
  BY DEF SequencerInv, CallOK
<1>1. TypeOKSequencer'
  BY <1>a DEF SequencerInv, TypeOKSequencer, TypeOKDB
<1>2. CallOK'
  BY <1>a, <1>b DEF CallOK
<1>3. InfoSynced'
  BY DEF InfoSynced
<1>4. MemoryExtendsStore'
  BY <1>a, <1>b, ExtendsReflexive DEF MemoryExtendsStore
<1>5. ASSUME ~torn' PROVE PromiseAlwaysKept' /\ PromisedByMemory' /\ MappedExtendsPromises'
  BY <1>a, <1>5 DEF SequencerInv, PromiseAlwaysKept, PromiseKeptIn, PromisesUnique,
     PromisedByMemory, MappedExtendsPromises
<1>6. ASSUME ~torn' PROVE NothingMappedAhead'
  BY <1>a, <1>6 DEF SequencerInv, NothingMappedAhead
<1> QED BY <1>1, <1>2, <1>3, <1>4, <1>5, <1>6 DEF SequencerInv

\* revert-tx's first write: back to the info stored with the transaction before.
LEMMA RevertInfoInv ==
  ASSUME SequencerInv, NEW o \in Order, RevertInfo(o) PROVE SequencerInv'
<1> DEFINE last == disk.sequencer_info.last_order
           h    == disk.mapping[o]
           prev == disk.mapping[last - 1]
           info == [last_order |-> last - 1, acc |-> disk.txs[prev].acc]
           image == [disk EXCEPT !.sequencer_info = info]
<1> USE DEF RevertInfo, memVars
<1>a. /\ disk \in Image /\ disk \in durable /\ durable \subseteq Image
      /\ ~up /\ step = "idle" /\ revert.step = "none"
  BY DEF SequencerInv, TypeOKSequencer, TypeOKDB, CallOK
<1>b. /\ last \in Order /\ last \in Nat /\ last - 1 \in Order /\ last > 0
  BY <1>a, MaxOrderAssumption, SMTT(30) DEF Image, SequencerInfo, Order
<1>c. /\ h \in Hash /\ prev \in Hash /\ disk.txs[prev] \in SequencerInfo
      /\ prev # None /\ disk.txs[prev] # None
  BY <1>a, <1>b DEF Image
<1>d. info \in SequencerInfo /\ info.last_order = last - 1 /\ info.acc = disk.txs[prev].acc
  BY <1>b, <1>c DEF SequencerInfo
<1> HIDE DEF info
<1>e. /\ image \in Image /\ image.sequencer_info = info
      /\ image.txs = disk.txs /\ image.mapping = disk.mapping
  BY <1>a, <1>d DEF Image
<1>f. disk' = image /\ durable' = {image}
  BY DEF put_sync, info
<1>g. /\ revert' = [hash |-> h, order |-> last, step |-> "remove_tx"]
      /\ promised' = {p \in promised : p.info.last_order # last}
  OBVIOUS
<1> HIDE DEF image
<1>1. TypeOKSequencer'
  <2>1. revert' \in RevertState
    BY <1>b, <1>c, <1>g, SMTT(30) DEF RevertState
  <2> QED BY <2>1, <1>e, <1>f, <1>g DEF SequencerInv, TypeOKSequencer, TypeOKDB
<1>2. CallOK'
  BY <1>a, <1>c, <1>g, SMTT(30) DEF CallOK
<1>3. InfoSynced'
  BY <1>f DEF InfoSynced
<1>4. MemoryExtendsStore'
  BY <1>a DEF MemoryExtendsStore
<1>5. ASSUME ~torn' PROVE PromiseAlwaysKept' /\ PromisedByMemory'
  <2>1. PromiseAlwaysKept /\ MappedExtendsPromises
    BY <1>5 DEF SequencerInv
  <2>2. ASSUME NEW p \in promised'
        PROVE  p.info.last_order <= info.last_order /\ Extends(info.acc, p.info.acc)
    <3>1. p.info.last_order \in Nat /\ p.info.last_order <= last /\ p.info.last_order # last
          /\ p \in promised
      BY <1>a, <1>g, <2>1, SMTT(30) DEF SequencerInv, TypeOKSequencer, Promise, SequencerInfo, Order,
         PromiseAlwaysKept, PromiseKeptIn
    <3>2. p.info.last_order <= last - 1
      BY <1>b, <3>1, SMTT(30)
    <3> QED BY <1>a, <1>b, <1>c, <1>d, <2>1, <3>1, <3>2 DEF MappedExtendsPromises
  <2> QED BY <1>a, <1>e, <1>f, <1>g, <2>1, <2>2
          DEF PromiseAlwaysKept, PromiseKeptIn, PromisesUnique, PromisedByMemory
<1>6. ASSUME ~torn' PROVE NothingMappedAhead'
  <2>1. \A q \in Order : q > last => disk.mapping[q] = None
    BY <1>a, <1>6 DEF SequencerInv, NothingMappedAhead
  <2>2. \A q \in Order : q > last - 1 /\ disk.mapping[q] # None => q = last
    BY <1>b, <2>1, SMTT(30) DEF Order
  <2> QED BY <1>a, <1>d, <1>e, <1>f, <1>g, <2>2, SMTT(30) DEF NothingMappedAhead
<1>7. ASSUME ~torn' PROVE MappedExtendsPromises'
  BY <1>a, <1>e, <1>f, <1>g, <1>7, SMTT(30) DEF SequencerInv, MappedExtendsPromises
<1> QED BY <1>1, <1>2, <1>3, <1>4, <1>5, <1>6, <1>7 DEF SequencerInv

\* revert-tx's second write removes the transaction.
LEMMA RevertRemoveTxInv ==
  ASSUME SequencerInv, RevertRemoveTx PROVE SequencerInv'
<1> DEFINE image == [disk EXCEPT !.txs[revert.hash] = None]
<1> USE DEF RevertRemoveTx, memVars, histVars
<1>a. /\ disk \in Image /\ disk \in durable /\ durable \subseteq Image
      /\ ~up /\ step = "idle" /\ revert.hash \in Hash /\ revert \in RevertState
  BY DEF SequencerInv, TypeOKSequencer, TypeOKDB, CallOK
<1>b. /\ image \in Image /\ image.sequencer_info = disk.sequencer_info
      /\ image.mapping = disk.mapping /\ image.txs[revert.hash] = None
      /\ \A h \in Hash : h # revert.hash => image.txs[h] = disk.txs[h]
  BY <1>a DEF Image
<1>c. disk' = image /\ durable' = durable \cup {image}
  BY DEF put
<1> HIDE DEF image
<1>d. /\ revert' \in RevertState /\ revert'.step = "remove_mapping"
      /\ revert'.order = revert.order /\ revert'.hash = revert.hash
  BY <1>a DEF RevertState
<1>1. TypeOKSequencer'
  BY <1>a, <1>b, <1>c, <1>d DEF SequencerInv, TypeOKSequencer, TypeOKDB
<1>2. CallOK'
  BY <1>a, <1>d DEF CallOK
<1>3. InfoSynced'
  BY <1>b, <1>c DEF SequencerInv, InfoSynced
<1>4. MemoryExtendsStore'
  BY <1>a DEF MemoryExtendsStore
<1>5. ASSUME ~torn' PROVE PromiseAlwaysKept' /\ PromisedByMemory'
  BY <1>a, <1>b, <1>c, <1>5 DEF SequencerInv, PromiseAlwaysKept, PromiseKeptIn, PromisesUnique,
     PromisedByMemory
<1>6. ASSUME ~torn' PROVE NothingMappedAhead'
  BY <1>a, <1>b, <1>c, <1>d, <1>6 DEF SequencerInv, NothingMappedAhead
<1>7. ASSUME ~torn' PROVE MappedExtendsPromises'
  <2>1. \A o \in Order : image.mapping[o] # None => image.mapping[o] \in Hash
    BY <1>b DEF Image
  <2> QED BY <1>a, <1>b, <1>c, <1>7, <2>1 DEF SequencerInv, MappedExtendsPromises
<1> QED BY <1>1, <1>2, <1>3, <1>4, <1>5, <1>6, <1>7 DEF SequencerInv

\* revert-tx's third write removes the mapping.
LEMMA RevertRemoveMappingInv ==
  ASSUME SequencerInv, RevertRemoveMapping PROVE SequencerInv'
<1> DEFINE image == [disk EXCEPT !.mapping[revert.order] = None]
<1> USE DEF RevertRemoveMapping, memVars, histVars
<1>a. /\ disk \in Image /\ disk \in durable /\ durable \subseteq Image
      /\ ~up /\ step = "idle" /\ revert.order \in Order
  BY DEF SequencerInv, TypeOKSequencer, TypeOKDB, CallOK, RevertState
<1>b. /\ image \in Image /\ image.sequencer_info = disk.sequencer_info
      /\ image.txs = disk.txs /\ image.mapping[revert.order] = None
      /\ \A o \in Order : o # revert.order => image.mapping[o] = disk.mapping[o]
  BY <1>a DEF Image
<1>c. disk' = image /\ durable' = durable \cup {image}
  BY DEF put
<1> HIDE DEF image
<1>d. revert' \in RevertState /\ revert'.step = "none"
  BY MaxOrderAssumption DEF RevertState, NoRevert, Order
<1>1. TypeOKSequencer'
  BY <1>a, <1>b, <1>c, <1>d DEF SequencerInv, TypeOKSequencer, TypeOKDB
<1>2. CallOK'
  BY <1>a, <1>d DEF CallOK
<1>3. InfoSynced'
  BY <1>b, <1>c DEF SequencerInv, InfoSynced
<1>4. MemoryExtendsStore'
  BY <1>a DEF MemoryExtendsStore
<1>5. ASSUME ~torn' PROVE PromiseAlwaysKept' /\ PromisedByMemory'
  BY <1>a, <1>b, <1>c, <1>5 DEF SequencerInv, PromiseAlwaysKept, PromiseKeptIn, PromisesUnique,
     PromisedByMemory
<1>6. ASSUME ~torn' PROVE NothingMappedAhead'
  BY <1>a, <1>b, <1>c, <1>d, <1>6 DEF SequencerInv, NothingMappedAhead
<1>7. ASSUME ~torn' PROVE MappedExtendsPromises'
  BY <1>a, <1>b, <1>c, <1>7 DEF SequencerInv, MappedExtendsPromises
<1> QED BY <1>1, <1>2, <1>3, <1>4, <1>5, <1>6, <1>7 DEF SequencerInv

\* A revert that is cut off is torn, and torn reverts excuse the promises above the head.
LEMMA RevertCrashInv ==
  ASSUME SequencerInv, RevertCrash PROVE SequencerInv'
<1> USE DEF RevertCrash, Recover, memVars
<1>a. PICK image \in durable : disk' = image /\ durable' = {image}
  OBVIOUS
<1>b. /\ durable \subseteq Image /\ image \in Image /\ image.sequencer_info = disk.sequencer_info
      /\ ~up /\ step = "idle"
  BY DEF SequencerInv, TypeOKSequencer, TypeOKDB, InfoSynced, CallOK
<1>c. crashes' \in 0..MaxCrashes
  BY BoundAssumption DEF SequencerInv, TypeOKSequencer
<1>d. revert' \in RevertState /\ revert'.step = "none"
  BY MaxOrderAssumption DEF RevertState, NoRevert, Order
<1>e. torn' \in BOOLEAN /\ (~torn' => ~torn /\ revert.step = "none" /\ disk' = disk)
  BY DEF SequencerInv, TypeOKSequencer
<1>1. TypeOKSequencer'
  BY <1>a, <1>b, <1>c, <1>d, <1>e DEF SequencerInv, TypeOKSequencer, TypeOKDB
<1>2. CallOK'
  BY <1>b, <1>d DEF CallOK
<1>3. InfoSynced'
  BY <1>a DEF InfoSynced
<1>4. MemoryExtendsStore'
  BY <1>b DEF MemoryExtendsStore
<1>5. ASSUME ~torn' PROVE PromiseAlwaysKept' /\ PromisedByMemory' /\ MappedExtendsPromises'
  BY <1>a, <1>b, <1>e, <1>5 DEF SequencerInv, PromiseAlwaysKept, PromiseKeptIn, PromisesUnique,
     PromisedByMemory, MappedExtendsPromises
<1>6. ASSUME ~torn' PROVE NothingMappedAhead'
  BY <1>a, <1>b, <1>e, <1>6 DEF SequencerInv, NothingMappedAhead
<1> QED BY <1>1, <1>2, <1>3, <1>4, <1>5, <1>6 DEF SequencerInv

(* Every step, and a stuttering step, preserves the invariant.             *)
LEMMA NextInv == SequencerInv /\ [NextSequencer]_seqVars => SequencerInv'
<1> SUFFICES ASSUME SequencerInv, [NextSequencer]_seqVars PROVE SequencerInv'
  OBVIOUS
<1>1. CASE \E t \in Tx : Sequence(t)
  BY <1>1, SequenceInv
<1>2. CASE SequenceStep
  BY <1>2, FlushInv, SaveSequencerInfoInv, ErrInv, SaveTxInv, SaveMappingInv DEF SequenceStep
<1>3. CASE StorageError
  BY <1>3, ErrInv
<1>4. CASE Crash \/ ProcessExits
  BY <1>4, CrashInv, ProcessExitsInv
<1>9. CASE ExecutorWrites \/ FaultElsewhere
  BY <1>9, ExecutorWritesInv, FaultElsewhereInv
<1>5. CASE \E s \in ServiceStatus : Start(s)
  BY <1>5, StartInv
<1>6. CASE RevertStep
  BY <1>6, RevertInfoInv, RevertRemoveTxInv, RevertRemoveMappingInv DEF RevertStep
<1>7. CASE RevertCrash
  BY <1>7, RevertCrashInv
<1>8. CASE UNCHANGED seqVars
  BY <1>8 DEF seqVars, SequencerInv, TypeOKSequencer, TypeOKDB, CallOK, InfoSynced,
     MemoryExtendsStore, NewInfo, PromiseAlwaysKept, PromiseKeptIn, PromisesUnique,
     PromisedByMemory, NothingMappedAhead, MappedExtendsPromises
<1> QED BY <1>1, <1>2, <1>3, <1>4, <1>5, <1>6, <1>7, <1>8, <1>9 DEF NextSequencer

(* The sequencer's memory, the database in every state a crash may leave   *)
(* it in, and the running call satisfy SequencerInv in every state.        *)
THEOREM SequencerInvariant == SpecSequencer => []SequencerInv
<1>1. InitSequencer => SequencerInv
  BY InitInv
<1>2. SequencerInv /\ [NextSequencer]_seqVars => SequencerInv'
  BY NextInv
<1> QED BY <1>1, <1>2, PTL DEF SpecSequencer

(* Type correctness of SequencerActor, of the stores and of revert-tx.     *)
THEOREM SequencerTypeCorrect == SpecSequencer => []TypeOKSequencer
<1>1. SequencerInv => TypeOKSequencer
  BY DEF SequencerInv
<1> QED BY <1>1, SequencerInvariant, PTL

(* Whatever fails or crashes after `sequence' returned a signed order, the *)
(* stored order and accumulator keep it, and nobody else is given it.      *)
THEOREM SequencerKeepsPromises == SpecSequencer => []PromiseKept
<1>1. SequencerInv => PromiseKept
  BY DEF SequencerInv, PromiseKept
<1> QED BY <1>1, SequencerInvariant, PTL

(* The stored sequencer info only grows, but for an operator's revert.     *)
THEOREM SequencerAppendOnly == SpecSequencer => SequencerInfoAppendOnly
<1> DEFINE Step1(old, new) ==
             \/ new = old
             \/ new.last_order = old.last_order + 1 /\ Extends(new.acc, old.acc)
             \/ ~up /\ new.last_order + 1 = old.last_order
<1>1. SequencerInv /\ [NextSequencer]_seqVars => [Step1(disk.sequencer_info, disk'.sequencer_info)]_seqVars
  <2> SUFFICES ASSUME SequencerInv, NextSequencer
               PROVE  Step1(disk.sequencer_info, disk'.sequencer_info)
    OBVIOUS
  <2>a. disk \in Image /\ \A image \in durable : image.sequencer_info = disk.sequencer_info
    BY DEF SequencerInv, TypeOKSequencer, TypeOKDB, InfoSynced
  <2>1. CASE SaveSequencerInfo
    <3>1. disk'.sequencer_info = NewInfo /\ NewInfo.last_order = disk.sequencer_info.last_order + 1
      BY <2>1, <2>a DEF SaveSequencerInfo, put_sync, Image, Continuous
    <3>2. Extends(NewInfo.acc, disk.sequencer_info.acc)
      BY <2>1 DEF SaveSequencerInfo, NewInfo, SequencerInv, MemoryExtendsStore
    <3> QED BY <3>1, <3>2
  <2>2. CASE \E o \in Order : RevertInfo(o)
    <3>1. disk'.sequencer_info.last_order = disk.sequencer_info.last_order - 1 /\ ~up
      BY <2>2, <2>a, SMTT(30) DEF RevertInfo, put_sync, Image
    <3>2. disk.sequencer_info.last_order \in Nat
      BY <2>a DEF Image, SequencerInfo, Order
    <3> QED BY <3>1, <3>2
  <2>3. CASE Crash \/ RevertCrash
    BY <2>3, <2>a DEF Crash, RevertCrash, Recover
  <2>4. CASE Flush \/ SaveTx \/ SaveMapping \/ RevertRemoveTx \/ RevertRemoveMapping
    BY <2>4, <2>a DEF Flush, SaveTx, SaveMapping, RevertRemoveTx, RevertRemoveMapping, put, Image
  <2>5. CASE NotContinuous \/ StorageError \/ (\E t \in Tx : Sequence(t))
             \/ (\E s \in ServiceStatus : Start(s))
             \/ ExecutorWrites \/ FaultElsewhere \/ ProcessExits
    BY <2>5 DEF NotContinuous, StorageError, Sequence, Start, Open, dbVars,
       ExecutorWrites, FaultElsewhere, ProcessExits
  <2> QED BY <2>1, <2>2, <2>3, <2>4, <2>5 DEF NextSequencer, SequenceStep, RevertStep
<1> QED BY <1>1, SequencerInvariant, PTL DEF SpecSequencer, SequencerInfoAppendOnly

(* Among the writes, errors, crashes and reverts of the sequencer only     *)
(* four are steps of the ledger: the synced write of the info, the return  *)
(* of the call, and the operator's revert with its tearing.                *)
THEOREM SequencerImplementsLedger == SpecSequencer => ImplementsLedger
<1>1. InitSequencer => Outside!InitLedger
  BY DEF InitSequencer, InitDB, GenesisImage, Outside!InitLedger
<1>2. SequencerInv /\ [NextSequencer]_seqVars => [Outside!NextLedger]_Outside!ledgerVars
  <2> SUFFICES ASSUME SequencerInv, [NextSequencer]_seqVars
               PROVE  Outside!NextLedger \/ UNCHANGED Outside!ledgerVars
    OBVIOUS
  <2> USE DEF Outside!ledgerVars
  <2>a. /\ disk \in Image /\ disk \in durable /\ torn \in BOOLEAN
        /\ \A image \in durable : image.sequencer_info = disk.sequencer_info
    BY DEF SequencerInv, TypeOKSequencer, TypeOKDB, InfoSynced
  <2>1. CASE SaveSequencerInfo
    <3>1. /\ disk'.sequencer_info = NewInfo /\ UNCHANGED <<promised, torn>>
          /\ NewInfo.last_order = disk.sequencer_info.last_order + 1
      BY <2>1, <2>a DEF SaveSequencerInfo, put_sync, Image, Continuous, histVars
    <3>2. /\ NewInfo.acc = tx_acc /\ Extends(tx_acc, disk.sequencer_info.acc)
          /\ Len(tx_acc) > 0 /\ tx_acc[Len(tx_acc)] = tx /\ tx \in Tx
      BY <2>1 DEF SaveSequencerInfo, NewInfo, SequencerInv, MemoryExtendsStore, CallOK
    <3>3. Outside!AppendTx(tx)
      BY <3>1, <3>2 DEF Outside!AppendTx, Outside!Grows, Extends
    <3> QED BY <3>2, <3>3 DEF Outside!NextLedger
  <2>2. CASE SaveMapping
    <3>1. /\ disk'.sequencer_info = disk.sequencer_info /\ torn' = torn
          /\ promised' = promised \cup {[tx |-> tx, info |-> NewInfo]}
      BY <2>2, <2>a DEF SaveMapping, put, Image
    <3>2. /\ disk.sequencer_info = NewInfo /\ NewInfo.acc = tx_acc
          /\ tx_acc[Len(tx_acc)] = tx /\ tx \in Tx
      BY <2>2 DEF SaveMapping, NewInfo, SequencerInv, MemoryExtendsStore, CallOK
    <3>3. ASSUME ~torn, NEW p \in promised PROVE p.info.last_order < NewInfo.last_order
      <4>1. p.info.last_order \in Nat /\ last_info.last_order \in Nat
        BY <2>2 DEF SaveMapping, SequencerInv, TypeOKSequencer, CallOK, Promise, SequencerInfo, Order
      <4>2. p.info.last_order <= last_info.last_order
        BY <2>2, <3>3 DEF SaveMapping, SequencerInv, PromisedByMemory
      <4> QED BY <4>1, <4>2 DEF NewInfo
    <3>4. Outside!Sign(tx)
      BY <3>1, <3>2, <3>3 DEF Outside!Sign
    <3> QED BY <3>2, <3>4 DEF Outside!NextLedger
  <2>3. CASE \E o \in Order : RevertInfo(o)
    <3>1. /\ disk'.sequencer_info.last_order = disk.sequencer_info.last_order - 1
          /\ promised' = {p \in promised : p.info.last_order # disk.sequencer_info.last_order}
          /\ torn' = torn
      BY <2>3, <2>a, SMTT(30) DEF RevertInfo, put_sync, Image
    <3>2. disk.sequencer_info.last_order \in Nat
      BY <2>a DEF Image, SequencerInfo, Order
    <3>3. ~torn => \A p \in promised' : Extends(disk'.sequencer_info.acc, p.info.acc)
      <4>1. SequencerInv' /\ torn' = torn
        BY <2>3, <3>1, RevertInfoInv
      <4> QED BY <4>1 DEF SequencerInv, TypeOKSequencer, TypeOKDB, PromiseAlwaysKept, PromiseKeptIn
    <3>4. Outside!TakeBack
      BY <3>1, <3>2, <3>3 DEF Outside!TakeBack, Outside!Grows, Extends
    <3> QED BY <3>4 DEF Outside!NextLedger
  <2>4. CASE RevertCrash
    <3>1. disk'.sequencer_info = disk.sequencer_info /\ promised' = promised
      BY <2>4, <2>a DEF RevertCrash, Recover
    <3>2. torn' = torn \/ torn' = TRUE
      BY <2>4, <2>a DEF RevertCrash
    <3> QED BY <3>1, <3>2 DEF Outside!NextLedger, Outside!Tear
  <2>5. CASE Crash
    BY <2>5, <2>a DEF Crash, Recover, MemoryLost, histVars
  <2>6. CASE Flush \/ SaveTx \/ RevertRemoveTx \/ RevertRemoveMapping
    BY <2>6, <2>a DEF Flush, SaveTx, RevertRemoveTx, RevertRemoveMapping, put, Image, histVars
  <2>7. CASE NotContinuous \/ StorageError \/ (\E t \in Tx : Sequence(t))
             \/ (\E s \in ServiceStatus : Start(s)) \/ FaultElsewhere
    BY <2>7 DEF NotContinuous, StorageError, Sequence, Start, Open, FaultElsewhere, dbVars, histVars
  <2>8. CASE ExecutorWrites \/ ProcessExits \/ UNCHANGED seqVars
    BY <2>8 DEF ExecutorWrites, ProcessExits, MemoryLost, dbVars, histVars, seqVars
  <2> QED BY <2>1, <2>2, <2>3, <2>4, <2>5, <2>6, <2>7, <2>8
          DEF NextSequencer, SequenceStep, RevertStep
<1> QED BY <1>1, <1>2, SequencerInvariant, PTL DEF SpecSequencer, ImplementsLedger, Outside!SpecLedger
=============================================================================
