---------------------------- MODULE OrderProofs ----------------------------
(***************************************************************************)
(* The transaction accumulator: its nodes are stored before a sequencer    *)
(* info refers to them, and the position of a leaf proves an order.  And   *)
(* the node executes in that order, through crashes, replays and reverts.  *)
(***************************************************************************)
EXTENDS NodeProofs

(* The nodes that the appends up to acc made are among these.              *)
StoredIn(acc, nodes) == \A i \in 1..Len(acc) : SubSeq(acc, 1, i) \in nodes

(* What is in the accumulator is flushed or waits to be; what an info that *)
(* is stored refers to is flushed, also in the infos of the transactions,  *)
(* which a revert goes back to.                                            *)
NodesStored ==
  /\ up => StoredIn(tx_acc, disk.acc_nodes \cup unflushed)
  /\ step \in {"save_info", "save_tx", "save_mapping"} => unflushed = {}
  /\ \A image \in durable :
       /\ StoredIn(image.sequencer_info.acc, image.acc_nodes)
       /\ \A h \in Hash : image.txs[h] # None => StoredIn(image.txs[h].acc, image.acc_nodes)

(***************************************************************************)
(* The nodes.                                                              *)
(***************************************************************************)
(* An append makes one more prefix.                                        *)
LEMMA StoredAppend ==
  ASSUME NEW s \in AccumulatorInfo, NEW h \in Hash, NEW nodes, StoredIn(s, nodes)
  PROVE  StoredIn(Append(s, h), nodes \cup {Append(s, h)})
<1> SUFFICES ASSUME NEW i \in 1..Len(Append(s, h))
             PROVE  SubSeq(Append(s, h), 1, i) \in nodes \cup {Append(s, h)}
  BY DEF StoredIn
<1>1. CASE i <= Len(s)
  <2>1. SubSeq(Append(s, h), 1, i) = SubSeq(s, 1, i)
    BY <1>1 DEF AccumulatorInfo
  <2>2. i \in 1..Len(s)
    BY <1>1 DEF AccumulatorInfo
  <2>3. SubSeq(s, 1, i) \in nodes
    BY <2>2 DEF StoredIn
  <2> QED BY <2>1, <2>3
<1>2. CASE i = Len(s) + 1
  <2>1. SubSeq(Append(s, h), 1, i) = Append(s, h)
    BY <1>2 DEF AccumulatorInfo
  <2> QED BY <2>1
<1> QED BY <1>1, <1>2 DEF AccumulatorInfo

(* The last prefix is the accumulator itself.                             *)
LEMMA WholePrefix ==
  ASSUME NEW s \in AccumulatorInfo PROVE SubSeq(s, 1, Len(s)) = s
BY DEF AccumulatorInfo

(* More nodes do no harm.                                                  *)
LEMMA StoredMore ==
  ASSUME NEW s, NEW nodes, NEW more, nodes \subseteq more, StoredIn(s, nodes)
  PROVE  StoredIn(s, more)
BY DEF StoredIn

(* Every step of the sequencer and of the operator keeps the nodes ahead   *)
(* of the infos.                                                           *)
LEMMA NodesStep ==
  ASSUME SequencerInv, NodesStored, [NextSequencer]_seqVars
  PROVE  NodesStored'
<1>a. /\ disk \in Image /\ disk \in durable /\ durable \subseteq Image
      /\ (step # "idle" => up /\ tx \in Hash) /\ tx_acc \in AccumulatorInfo
      /\ (revert.step # "none" => ~up /\ revert.hash \in Hash)
  BY DEF SequencerInv, TypeOKSequencer, TypeOKDB, CallOK, Hash
(* Nothing new refers to nodes.                                            *)
<1>c. ASSUME \A i \in durable' : \E j \in durable :
               /\ i.sequencer_info = j.sequencer_info /\ i.txs = j.txs /\ i.acc_nodes = j.acc_nodes,
             up' => /\ up /\ UNCHANGED <<tx_acc, unflushed>> /\ disk'.acc_nodes = disk.acc_nodes,
             step' = "idle" \/ UNCHANGED <<step, unflushed>>
      PROVE  NodesStored'
  <2>1. up' => StoredIn(tx_acc', disk'.acc_nodes \cup unflushed')
    BY <1>c DEF NodesStored
  <2>2. step' \in {"save_info", "save_tx", "save_mapping"} => unflushed' = {}
    BY <1>c DEF NodesStored
  <2>3. \A image \in durable' :
          /\ StoredIn(image.sequencer_info.acc, image.acc_nodes)
          /\ \A h \in Hash : image.txs[h] # None => StoredIn(image.txs[h].acc, image.acc_nodes)
    BY <1>c DEF NodesStored
  <2> QED BY <2>1, <2>2, <2>3 DEF NodesStored
<1>1. ASSUME NEW t \in Tx, Sequence(t) PROVE NodesStored'
  <2>1. StoredIn(tx_acc, disk.acc_nodes \cup unflushed) /\ t \in Hash
    BY <1>1 DEF Sequence, NodesStored, Hash
  <2>2. StoredIn(Append(tx_acc, t), (disk.acc_nodes \cup unflushed) \cup {Append(tx_acc, t)})
    BY <2>1, <1>a, StoredAppend
  <2>3. (disk.acc_nodes \cup unflushed) \cup {Append(tx_acc, t)} = disk'.acc_nodes \cup unflushed'
    BY <1>1 DEF Sequence, dbVars
  <2>4. StoredIn(tx_acc', disk'.acc_nodes \cup unflushed')
    BY <1>1, <2>2, <2>3 DEF Sequence
  <2> QED BY <1>1, <2>4 DEF Sequence, dbVars, NodesStored
<1>2. CASE NotContinuous \/ StorageError \/ FaultElsewhere \/ UNCHANGED seqVars
  BY <1>2, <1>c DEF NotContinuous, StorageError, FaultElsewhere, seqVars, memVars, dbVars
<1>3. CASE Flush
  <2> DEFINE image == [disk EXCEPT !.acc_nodes = @ \cup unflushed]
  <2>1. /\ image.sequencer_info = disk.sequencer_info /\ image.txs = disk.txs
        /\ image.acc_nodes = disk.acc_nodes \cup unflushed
    BY <1>a DEF Image
  <2>2. /\ disk' = image /\ durable' = durable \cup {image} /\ up /\ up' = up /\ tx_acc' = tx_acc
        /\ unflushed' = {}
    BY <1>3 DEF Flush, put
  <2> HIDE DEF image
  <2>3. /\ StoredIn(image.sequencer_info.acc, image.acc_nodes)
        /\ \A h \in Hash : image.txs[h] # None => StoredIn(image.txs[h].acc, image.acc_nodes)
    BY <1>a, <2>1, StoredMore DEF NodesStored
  <2> QED BY <2>1, <2>2, <2>3 DEF NodesStored
<1>4. CASE SaveSequencerInfo
  <2> DEFINE image == [disk EXCEPT !.sequencer_info = NewInfo]
  <2>1. /\ image.sequencer_info = NewInfo /\ image.txs = disk.txs
        /\ image.acc_nodes = disk.acc_nodes /\ NewInfo.acc = tx_acc
    BY <1>a DEF Image, NewInfo
  <2>2. /\ disk' = image /\ durable' = {image} /\ up /\ up' = up /\ tx_acc' = tx_acc
        /\ unflushed' = unflushed /\ unflushed = {}
    BY <1>4 DEF SaveSequencerInfo, put_sync, NodesStored
  <2> HIDE DEF image
  <2>3. StoredIn(tx_acc, disk.acc_nodes)
    BY <2>2 DEF NodesStored
  <2> QED BY <1>a, <2>1, <2>2, <2>3 DEF NodesStored
<1>5. CASE SaveTx
  <2> DEFINE image == [disk EXCEPT !.txs[tx] = NewInfo]
  <2>1. /\ image.sequencer_info = disk.sequencer_info /\ image.acc_nodes = disk.acc_nodes
        /\ \A h \in Hash : image.txs[h] = IF h = tx THEN NewInfo ELSE disk.txs[h]
    BY <1>a DEF Image
  <2>2. /\ disk' = image /\ durable' = durable \cup {image} /\ up' = up /\ tx_acc' = tx_acc
        /\ unflushed' = unflushed /\ unflushed = {}
    BY <1>5 DEF SaveTx, put, NodesStored
  <2>3. disk.sequencer_info = NewInfo
    BY <1>5 DEF SaveTx, SequencerInv, MemoryExtendsStore
  <2> HIDE DEF image
  <2> QED BY <1>a, <2>1, <2>2, <2>3 DEF NodesStored
<1>6. CASE SaveMapping
  <2> DEFINE image == [disk EXCEPT !.mapping[NewInfo.last_order] = tx]
  <2>1. /\ image.sequencer_info = disk.sequencer_info /\ image.txs = disk.txs
        /\ image.acc_nodes = disk.acc_nodes
    BY <1>a DEF Image
  <2>2. /\ disk' = image /\ durable' = durable \cup {image} /\ step' = "idle"
        /\ UNCHANGED <<up, tx_acc, unflushed>>
    BY <1>6 DEF SaveMapping, put
  <2> HIDE DEF image
  <2> QED BY <1>a, <1>c, <2>1, <2>2
<1>7. CASE Crash \/ ProcessExits
  BY <1>7, <1>c DEF Crash, ProcessExits, MemoryLost, Recover, dbVars
<1>8. CASE ExecutorWrites
  <2>1. /\ disk'.sequencer_info = disk.sequencer_info /\ disk'.txs = disk.txs
        /\ disk'.acc_nodes = disk.acc_nodes /\ UNCHANGED <<up, tx_acc, unflushed, step>>
        /\ \A i \in durable' : i \in durable \/ i = disk'
    BY <1>8 DEF ExecutorWrites, put, put_sync, memVars
  <2> QED BY <1>a, <1>c, <2>1
<1>9. ASSUME NEW s \in ServiceStatus, Start(s) PROVE NodesStored'
  <2>1. StoredIn(disk.sequencer_info.acc, disk.acc_nodes \cup {})
    BY <1>a DEF NodesStored
  <2>2. /\ disk' = disk /\ durable' = {disk} /\ tx_acc' = disk.sequencer_info.acc
        /\ unflushed' = {} /\ step' = step
    BY <1>9 DEF Start, Open
  <2> QED BY <1>a, <2>1, <2>2 DEF NodesStored
<1>10. ASSUME NEW o \in Order, RevertInfo(o) PROVE NodesStored'
  <2> DEFINE last == disk.sequencer_info.last_order
             prev == disk.mapping[last - 1]
             info == [last_order |-> last - 1, acc |-> disk.txs[prev].acc]
             image == [disk EXCEPT !.sequencer_info = info]
  <2>1. /\ image.sequencer_info = info /\ image.txs = disk.txs
        /\ image.acc_nodes = disk.acc_nodes
    BY <1>a DEF Image
  <2>2. /\ disk' = image /\ durable' = {image} /\ ~up /\ up' = up /\ UNCHANGED <<step, unflushed>>
        /\ prev # None /\ disk.txs[prev] # None /\ last > 0 /\ last \in Order
    BY <1>10, <1>a DEF RevertInfo, put_sync, memVars, Image, SequencerInfo
  <2>3. prev \in Hash
    <3>1. last - 1 \in Order
      BY <2>2, MaxOrderAssumption DEF Order
    <3> QED BY <1>a, <2>2, <3>1 DEF Image
  <2>4. StoredIn(info.acc, disk.acc_nodes)
    BY <1>a, <2>2, <2>3 DEF NodesStored
  <2> HIDE DEF image, info, prev, last
  <2> QED BY <1>a, <2>1, <2>2, <2>4 DEF NodesStored
<1>11. CASE RevertRemoveTx
  <2> DEFINE image == [disk EXCEPT !.txs[revert.hash] = None]
  <2>1. /\ image.sequencer_info = disk.sequencer_info /\ image.acc_nodes = disk.acc_nodes
        /\ \A h \in Hash : image.txs[h] # None => image.txs[h] = disk.txs[h]
    BY <1>a DEF Image
  <2>2. /\ disk' = image /\ durable' = durable \cup {image} /\ ~up /\ up' = up
        /\ UNCHANGED <<step, unflushed>>
    BY <1>11, <1>a DEF RevertRemoveTx, put, memVars
  <2> HIDE DEF image
  <2> QED BY <1>a, <2>1, <2>2 DEF NodesStored
<1>12. CASE RevertRemoveMapping
  <2> DEFINE image == [disk EXCEPT !.mapping[revert.order] = None]
  <2>1. /\ image.sequencer_info = disk.sequencer_info /\ image.acc_nodes = disk.acc_nodes
        /\ image.txs = disk.txs
    BY <1>a DEF Image
  <2>2. /\ disk' = image /\ durable' = durable \cup {image} /\ ~up /\ up' = up
        /\ UNCHANGED <<step, unflushed>>
    BY <1>12, <1>a DEF RevertRemoveMapping, put, memVars
  <2> HIDE DEF image
  <2> QED BY <1>a, <2>1, <2>2 DEF NodesStored
<1>13. CASE RevertCrash
  BY <1>13, <1>c DEF RevertCrash, Recover, memVars
<1> QED BY <1>1, <1>2, <1>3, <1>4, <1>5, <1>6, <1>7, <1>8, <1>9, <1>10, <1>11, <1>12, <1>13
        DEF NextSequencer, SequenceStep, RevertStep

(* Every accumulator root that a stored sequencer info names can be proved *)
(* against after a crash: flush writes before save_sequencer_info syncs.   *)
THEOREM SequencerFlushesFirst == SpecSequencer => []AccumulatorFlushed
<1>1. InitSequencer => NodesStored
  <2>1. \A i \in 1..Len(<<Genesis>>) : SubSeq(<<Genesis>>, 1, i) = <<Genesis>>
    <3>1. Len(<<Genesis>>) = 1 /\ <<Genesis>> \in AccumulatorInfo
      BY DEF AccumulatorInfo, Hash
    <3>2. SubSeq(<<Genesis>>, 1, 1) = <<Genesis>>
      BY <3>1, WholePrefix
    <3> QED BY <3>1, <3>2
  <2>2. StoredIn(<<Genesis>>, {<<Genesis>>}) /\ StoredIn(<<Genesis>>, {<<Genesis>>} \cup {})
    BY <2>1 DEF StoredIn
  <2>3. /\ GenesisImage.acc_nodes = {<<Genesis>>} /\ GenesisImage.sequencer_info.acc = <<Genesis>>
        /\ \A h \in Hash : GenesisImage.txs[h] # None => GenesisImage.txs[h].acc = <<Genesis>>
    BY DEF GenesisImage, GenesisInfo
  <2> QED BY <2>2, <2>3 DEF InitSequencer, InitDB, NodesStored
<1>2. SequencerInv /\ NodesStored /\ [NextSequencer]_seqVars => NodesStored'
  BY NodesStep
<1>3. NodesStored => AccumulatorFlushed
  BY DEF NodesStored, AccumulatorFlushed, StoredIn
<1> QED BY <1>1, <1>2, <1>3, SequencerInvariant, PTL DEF SpecSequencer

(* The same of the composed node.                                          *)
THEOREM NodeFlushesFirst == SpecPipeline => []AccumulatorFlushed
BY NodeImplementsSequencer, SequencerFlushesFirst, PTL

(***************************************************************************)
(* The order.                                                              *)
(***************************************************************************)
(* The last leaf of info is h, at the position of its order.               *)
Positioned(info, h) ==
  Len(info.acc) = info.last_order + 1 /\ info.acc[Len(info.acc)] = h

(* The memory is the store's head, until the call saves the next one.      *)
MemoryIsHead ==
  /\ up /\ step = "idle" => last_info = disk.sequencer_info /\ tx_acc = disk.sequencer_info.acc
  /\ step \in {"flush", "save_info"} =>
       last_info = disk.sequencer_info /\ tx_acc = Append(disk.sequencer_info.acc, tx)
  /\ step \in {"flush", "save_info", "save_tx"} => disk.txs[tx] = None

(* Every info, stored or signed, is positioned.                            *)
InfosPositioned ==
  /\ Len(disk.sequencer_info.acc) = disk.sequencer_info.last_order + 1
  /\ \A image \in durable, h \in Hash : image.txs[h] # None => Positioned(image.txs[h], h)
  /\ \A p \in promised : Positioned(p.info, p.tx)

(* The transaction mapped at an order up to the head is stored with that   *)
(* order, and the head's accumulator extends its own.                      *)
MappedIsStored ==
  \A image \in durable, o \in Order :
    o <= disk.sequencer_info.last_order /\ image.mapping[o] # None =>
      /\ image.txs[image.mapping[o]] # None
      /\ image.txs[image.mapping[o]].last_order = o
      /\ Extends(disk.sequencer_info.acc, image.txs[image.mapping[o]].acc)

(* A revert removes the transaction of the order after the head.           *)
RevertsNext ==
  /\ revert.step # "none" => revert.order = disk.sequencer_info.last_order + 1
  /\ revert.step = "remove_tx" =>
       disk.txs[revert.hash] # None /\ disk.txs[revert.hash].last_order = revert.order

\* The inductive invariant, beside those of SequencerProofs.
OrderInv == MemoryIsHead /\ InfosPositioned /\ MappedIsStored /\ RevertsNext

(* A failed write leaves a leaf without an order, a resubmission gives a   *)
(* stored transaction a second one, and a revert that was cut off leaves a *)
(* transaction whose order is given away again.                            *)
Undisturbed == ~Resubmit /\ faults = 0 /\ ~torn

(* Two states of one accumulator: the longer one extends the shorter.      *)
LEMMA ExtendsShorter ==
  ASSUME NEW s \in AccumulatorInfo, NEW t \in AccumulatorInfo, NEW u \in AccumulatorInfo,
         Extends(u, s), Extends(u, t), Len(s) <= Len(t)
  PROVE  Extends(t, s)
BY DEF Extends, AccumulatorInfo

(* What the steps below need of the types.                                 *)
LEMMA OrderTypes ==
  ASSUME SequencerInv
  PROVE  /\ disk \in Image /\ disk \in durable /\ durable \subseteq Image
         /\ \A image \in durable : image.sequencer_info = disk.sequencer_info
         /\ disk.sequencer_info \in SequencerInfo
         /\ disk.sequencer_info.last_order \in Nat
         /\ disk.sequencer_info.acc \in AccumulatorInfo
         /\ \A image \in durable, o \in Order : image.mapping[o] \in Hash \cup {None}
         /\ \A image \in durable, h \in Hash : image.txs[h] # None =>
              image.txs[h] \in SequencerInfo /\ image.txs[h].last_order \in Nat
              /\ image.txs[h].acc \in AccumulatorInfo
         /\ (step # "idle" => up /\ tx \in Tx /\ tx \in Hash) /\ tx_acc \in AccumulatorInfo
         /\ (revert.step # "none" => ~up /\ revert.hash \in Hash) /\ revert \in RevertState
<1>1. /\ disk \in Image /\ disk \in durable /\ durable \subseteq Image
      /\ \A image \in durable : image.sequencer_info = disk.sequencer_info
      /\ (step # "idle" => up /\ tx \in Tx /\ tx \in Hash) /\ tx_acc \in AccumulatorInfo
      /\ (revert.step # "none" => ~up /\ revert.hash \in Hash) /\ revert \in RevertState
  BY DEF SequencerInv, TypeOKSequencer, TypeOKDB, CallOK, InfoSynced, Hash
<1>2. \A info \in SequencerInfo : info.last_order \in Nat /\ info.acc \in AccumulatorInfo
  BY DEF SequencerInfo, Order
<1>3. \A image \in Image : /\ image.sequencer_info \in SequencerInfo
                           /\ \A h \in Hash : image.txs[h] \in SequencerInfo \cup {None}
                           /\ \A o \in Order : image.mapping[o] \in Hash \cup {None}
  BY DEF Image
<1> QED BY <1>1, <1>2, <1>3

(* A step that leaves the ledger's columns and the promises alone.         *)
LEMMA OrderFrame ==
  ASSUME SequencerInv, OrderInv, MemoryIsHead', RevertsNext', promised' \subseteq promised,
         disk'.sequencer_info = disk.sequencer_info,
         \A i \in durable' : \E j \in durable : i.txs = j.txs /\ i.mapping = j.mapping
  PROVE  OrderInv'
<1>1. InfosPositioned'
  BY DEF OrderInv, InfosPositioned
<1>2. MappedIsStored'
  BY DEF OrderInv, MappedIsStored
<1> QED BY <1>1, <1>2 DEF OrderInv

(* save_sequencer_info: the head moves on by the leaf that was appended.   *)
LEMMA SaveInfoOrder ==
  ASSUME SequencerInv, OrderInv, ~torn, SaveSequencerInfo
  PROVE  OrderInv'
<1> DEFINE image == [disk EXCEPT !.sequencer_info = NewInfo]
           head == disk.sequencer_info
<1>a. /\ disk \in Image /\ disk \in durable /\ head.last_order \in Nat /\ head.acc \in AccumulatorInfo
      /\ tx \in Hash /\ up /\ last_info = head /\ tx_acc = Append(head.acc, tx)
      /\ disk.txs[tx] = None
      /\ revert.step = "none"
  BY OrderTypes DEF SaveSequencerInfo, OrderInv, MemoryIsHead
<1>b. /\ image.sequencer_info = NewInfo /\ image.txs = disk.txs /\ image.mapping = disk.mapping
  BY <1>a DEF Image
<1>c. /\ disk' = image /\ durable' = {image} /\ step' = "save_tx"
      /\ UNCHANGED <<up, tx, tx_acc, last_info, revert, promised>>
  BY DEF SaveSequencerInfo, put_sync, histVars
<1> HIDE DEF image
<1>d. /\ NewInfo.last_order = head.last_order + 1 /\ NewInfo.acc = Append(head.acc, tx)
      /\ Extends(NewInfo.acc, head.acc) /\ NewInfo.acc \in AccumulatorInfo
      /\ Len(NewInfo.acc) = Len(head.acc) + 1
  BY <1>a, ExtendsAppend DEF NewInfo, AccumulatorInfo
<1>1. MemoryIsHead' /\ RevertsNext'
  BY <1>a, <1>b, <1>c DEF MemoryIsHead, RevertsNext
<1>2. InfosPositioned'
  BY <1>a, <1>b, <1>c, <1>d DEF OrderInv, InfosPositioned
<1>3. MappedIsStored'
  <2> SUFFICES ASSUME NEW o \in Order, o <= NewInfo.last_order, disk.mapping[o] # None
               PROVE  /\ disk.txs[disk.mapping[o]] # None
                      /\ disk.txs[disk.mapping[o]].last_order = o
                      /\ Extends(NewInfo.acc, disk.txs[disk.mapping[o]].acc)
    BY <1>b, <1>c DEF MappedIsStored
  <2>1. ~(o > head.last_order)
    BY <1>a DEF SequencerInv, NothingMappedAhead
  <2>2. o <= head.last_order
    BY <1>a, <2>1 DEF Order
  <2>3. /\ disk.txs[disk.mapping[o]] # None /\ disk.txs[disk.mapping[o]].last_order = o
        /\ Extends(head.acc, disk.txs[disk.mapping[o]].acc)
    BY <1>a, <2>2 DEF OrderInv, MappedIsStored
  <2>4. disk.txs[disk.mapping[o]].acc \in AccumulatorInfo
    BY <2>3, OrderTypes
  <2> QED BY <1>a, <1>d, <2>3, <2>4, ExtendsTransitive
<1> QED BY <1>1, <1>2, <1>3 DEF OrderInv

(* save_transaction, its first write: the transaction was not stored, so   *)
(* no order up to the head is mapped to it.                                *)
LEMMA SaveTxOrder ==
  ASSUME SequencerInv, OrderInv, SaveTx
  PROVE  OrderInv'
<1> DEFINE image == [disk EXCEPT !.txs[tx] = NewInfo]
           head == disk.sequencer_info
<1>a. /\ disk \in Image /\ disk \in durable /\ up
      /\ tx \in Hash /\ disk.txs[tx] = None /\ head = NewInfo /\ revert.step = "none"
      /\ tx_acc[Len(tx_acc)] = tx
  BY OrderTypes DEF SaveTx, OrderInv, MemoryIsHead, SequencerInv, MemoryExtendsStore, CallOK
<1>b. /\ image.sequencer_info = head /\ image.mapping = disk.mapping
      /\ \A h \in Hash : image.txs[h] = IF h = tx THEN NewInfo ELSE disk.txs[h]
  BY <1>a DEF Image
<1>c. /\ disk' = image /\ durable' = durable \cup {image} /\ step' = "save_mapping"
      /\ UNCHANGED <<up, tx, tx_acc, last_info, revert, promised>>
  BY DEF SaveTx, put, histVars
<1> HIDE DEF image
<1>1. MemoryIsHead' /\ RevertsNext'
  BY <1>a, <1>b, <1>c DEF MemoryIsHead, RevertsNext
<1>2. InfosPositioned'
  <2>1. Positioned(NewInfo, tx)
    BY <1>a DEF OrderInv, InfosPositioned, Positioned, NewInfo
  <2>2. \A h \in Hash : image.txs[h] # None => Positioned(image.txs[h], h)
    BY <1>a, <1>b, <2>1 DEF OrderInv, InfosPositioned
  <2> QED BY <1>b, <1>c, <2>2 DEF OrderInv, InfosPositioned
<1>3. MappedIsStored'
  <2>1. \A o \in Order : o <= head.last_order /\ disk.mapping[o] # None =>
          /\ disk.mapping[o] \in Hash /\ disk.mapping[o] # tx
    BY <1>a, OrderTypes DEF OrderInv, MappedIsStored
  <2>2. \A o \in Order : o <= head.last_order /\ image.mapping[o] # None =>
          /\ image.txs[image.mapping[o]] # None
          /\ image.txs[image.mapping[o]].last_order = o
          /\ Extends(head.acc, image.txs[image.mapping[o]].acc)
    BY <1>a, <1>b, <2>1 DEF OrderInv, MappedIsStored
  <2> QED BY <1>b, <1>c, <2>2 DEF OrderInv, MappedIsStored
<1> QED BY <1>1, <1>2, <1>3 DEF OrderInv

(* save_transaction, its second write, and the promise.                    *)
LEMMA SaveMappingOrder ==
  ASSUME SequencerInv, OrderInv, SaveMapping
  PROVE  OrderInv'
<1> DEFINE image == [disk EXCEPT !.mapping[NewInfo.last_order] = tx]
           head == disk.sequencer_info
<1>a. /\ disk \in Image /\ disk \in durable /\ up /\ head \in SequencerInfo
      /\ tx \in Hash /\ disk.txs[tx] = NewInfo /\ head = NewInfo /\ revert.step = "none"
      /\ tx_acc[Len(tx_acc)] = tx /\ head.acc \in AccumulatorInfo
  BY OrderTypes DEF SaveMapping, SequencerInv, MemoryExtendsStore, CallOK
<1>b. /\ image.sequencer_info = head /\ image.txs = disk.txs
      /\ \A o \in Order : image.mapping[o] = IF o = head.last_order THEN tx ELSE disk.mapping[o]
  BY <1>a DEF Image
<1>c. /\ disk' = image /\ durable' = durable \cup {image} /\ step' = "idle"
      /\ UNCHANGED <<up, tx_acc, revert>> /\ last_info' = NewInfo
      /\ promised' = promised \cup {[tx |-> tx, info |-> NewInfo]}
  BY DEF SaveMapping, put
<1> HIDE DEF image
<1>d. NewInfo.acc = tx_acc /\ NewInfo # None
  BY <1>a, NoneAssumption DEF NewInfo
<1>1. MemoryIsHead' /\ RevertsNext'
  BY <1>a, <1>b, <1>c, <1>d DEF MemoryIsHead, RevertsNext
<1>2. InfosPositioned'
  <2>1. Positioned(NewInfo, tx)
    BY <1>a DEF OrderInv, InfosPositioned, Positioned, NewInfo
  <2>2. \A p \in promised' : Positioned(p.info, p.tx)
    BY <1>c, <2>1 DEF OrderInv, InfosPositioned
  <2>3. \A i \in durable', h \in Hash : i.txs[h] # None => Positioned(i.txs[h], h)
    BY <1>a, <1>b, <1>c DEF OrderInv, InfosPositioned
  <2> QED BY <1>b, <1>c, <2>2, <2>3 DEF OrderInv, InfosPositioned
<1>3. MappedIsStored'
  <2>1. Extends(head.acc, head.acc)
    BY <1>a, ExtendsReflexive
  <2>2. \A o \in Order : o <= head.last_order /\ image.mapping[o] # None =>
          /\ image.txs[image.mapping[o]] # None
          /\ image.txs[image.mapping[o]].last_order = o
          /\ Extends(head.acc, image.txs[image.mapping[o]].acc)
    BY <1>a, <1>b, <1>d, <2>1 DEF OrderInv, MappedIsStored
  <2> QED BY <1>b, <1>c, <2>2 DEF OrderInv, MappedIsStored
<1> QED BY <1>1, <1>2, <1>3 DEF OrderInv

(* revert-tx goes back to the head before.                                 *)
LEMMA RevertInfoOrder ==
  ASSUME SequencerInv, OrderInv, NEW o \in Order, RevertInfo(o)
  PROVE  OrderInv'
<1> DEFINE head == disk.sequencer_info
           last == head.last_order
           prev == disk.mapping[last - 1]
           hash == disk.mapping[o]
           info == [last_order |-> last - 1, acc |-> disk.txs[prev].acc]
           image == [disk EXCEPT !.sequencer_info = info]
<1>a. /\ disk \in Image /\ disk \in durable /\ ~up /\ step = "idle"
      /\ last \in Nat /\ last > 0 /\ last \in Order /\ head.acc \in AccumulatorInfo
      /\ prev # None /\ disk.txs[prev] # None
      /\ hash # None /\ disk.txs[hash] # None /\ disk.txs[hash].last_order = last
  BY OrderTypes DEF RevertInfo, SequencerInfo
<1>b. /\ image.sequencer_info = info /\ image.txs = disk.txs /\ image.mapping = disk.mapping
      /\ info.last_order = last - 1 /\ info.acc = disk.txs[prev].acc
  BY <1>a DEF Image
<1>c. /\ disk' = image /\ durable' = {image} /\ UNCHANGED <<up, step>>
      /\ revert' = [hash |-> hash, order |-> last, step |-> "remove_tx"]
      /\ promised' \subseteq promised
  BY DEF RevertInfo, put_sync, memVars
<1>d. last - 1 \in Order /\ last - 1 <= last /\ prev \in Hash
  <2>1. last - 1 \in Order /\ last - 1 <= last
    BY <1>a, MaxOrderAssumption DEF Order
  <2> QED BY <1>a, <2>1, OrderTypes
<1> HIDE DEF image, info, hash
<1>e. /\ disk.txs[prev].last_order = last - 1 /\ Extends(head.acc, disk.txs[prev].acc)
      /\ Len(disk.txs[prev].acc) = last - 1 + 1 /\ disk.txs[prev].acc \in AccumulatorInfo
  BY <1>a, <1>d, OrderTypes, SMTT(30) DEF OrderInv, MappedIsStored, InfosPositioned, Positioned
<1>1. MemoryIsHead' /\ RevertsNext'
  BY <1>a, <1>b, <1>c DEF MemoryIsHead, RevertsNext
<1>2. InfosPositioned'
  BY <1>a, <1>b, <1>c, <1>e DEF OrderInv, InfosPositioned
<1>3. MappedIsStored'
  <2> SUFFICES ASSUME NEW q \in Order, q <= last - 1, disk.mapping[q] # None
               PROVE  /\ disk.txs[disk.mapping[q]] # None
                      /\ disk.txs[disk.mapping[q]].last_order = q
                      /\ Extends(disk.txs[prev].acc, disk.txs[disk.mapping[q]].acc)
    BY <1>b, <1>c, SMTT(30) DEF MappedIsStored
  <2>1. q <= last /\ q \in Nat
    BY <1>a DEF Order
  <2>2. /\ disk.txs[disk.mapping[q]] # None /\ disk.txs[disk.mapping[q]].last_order = q
        /\ Extends(head.acc, disk.txs[disk.mapping[q]].acc) /\ disk.mapping[q] \in Hash
    BY <1>a, <2>1, OrderTypes DEF OrderInv, MappedIsStored
  <2>3. /\ disk.txs[disk.mapping[q]].acc \in AccumulatorInfo
        /\ Len(disk.txs[disk.mapping[q]].acc) = q + 1
    BY <1>a, <2>2, OrderTypes DEF OrderInv, InfosPositioned, Positioned
  <2>4. Len(disk.txs[disk.mapping[q]].acc) <= Len(disk.txs[prev].acc)
    <3>1. last \in Nat
      BY <1>a
    <3>2. q + 1 <= last - 1 + 1
      BY <2>1, <3>1
    <3> QED BY <1>e, <2>3, <3>2
  <2> QED BY <1>a, <1>e, <2>2, <2>3, <2>4, ExtendsShorter
<1> QED BY <1>1, <1>2, <1>3 DEF OrderInv

(* remove_transaction: what it removes is beyond the head.                 *)
LEMMA RevertRemovesOrder ==
  ASSUME SequencerInv, OrderInv, RevertRemoveTx \/ RevertRemoveMapping
  PROVE  OrderInv'
<1> DEFINE head == disk.sequencer_info
<1>a. /\ disk \in Image /\ disk \in durable /\ ~up /\ step = "idle" /\ head.last_order \in Nat
      /\ revert.step # "none" /\ revert.hash \in Hash /\ revert.order = head.last_order + 1
      /\ revert \in RevertState /\ UNCHANGED <<up, step, promised>>
  BY OrderTypes DEF OrderInv, RevertsNext, RevertRemoveTx, RevertRemoveMapping, memVars, histVars
<1>1. CASE RevertRemoveTx
  <2> DEFINE image == [disk EXCEPT !.txs[revert.hash] = None]
  <2>1. /\ image.sequencer_info = head /\ image.mapping = disk.mapping
        /\ \A h \in Hash : image.txs[h] = IF h = revert.hash THEN None ELSE disk.txs[h]
    BY <1>a DEF Image
  <2>2. /\ disk' = image /\ durable' = durable \cup {image} /\ revert.step = "remove_tx"
        /\ revert'.step = "remove_mapping" /\ revert'.order = revert.order
    BY <1>1, <1>a DEF RevertRemoveTx, put, RevertState
  <2> HIDE DEF image
  <2>3. disk.txs[revert.hash] # None /\ disk.txs[revert.hash].last_order = head.last_order + 1
    BY <1>a, <2>2 DEF OrderInv, RevertsNext
  <2>4. MemoryIsHead' /\ RevertsNext'
    BY <1>a, <2>1, <2>2 DEF MemoryIsHead, RevertsNext
  <2>5. InfosPositioned'
    BY <1>a, <2>1, <2>2 DEF OrderInv, InfosPositioned
  <2>6. \A q \in Order : q <= head.last_order /\ disk.mapping[q] # None =>
          disk.mapping[q] # revert.hash /\ disk.mapping[q] \in Hash
    BY <1>a, <2>3, OrderTypes DEF OrderInv, MappedIsStored
  <2>7. \A q \in Order : q <= head.last_order /\ image.mapping[q] # None =>
          /\ image.txs[image.mapping[q]] # None
          /\ image.txs[image.mapping[q]].last_order = q
          /\ Extends(head.acc, image.txs[image.mapping[q]].acc)
    BY <1>a, <2>1, <2>6 DEF OrderInv, MappedIsStored
  <2>8. MappedIsStored'
    BY <2>1, <2>2, <2>7 DEF OrderInv, MappedIsStored
  <2> QED BY <2>4, <2>5, <2>8 DEF OrderInv
<1>2. CASE RevertRemoveMapping
  <2> DEFINE image == [disk EXCEPT !.mapping[revert.order] = None]
  <2>1. /\ image.sequencer_info = head /\ image.txs = disk.txs
        /\ \A q \in Order : image.mapping[q] # None => image.mapping[q] = disk.mapping[q]
    BY <1>a DEF Image
  <2>2. /\ disk' = image /\ durable' = durable \cup {image} /\ revert'.step = "none"
    BY <1>2 DEF RevertRemoveMapping, put, NoRevert
  <2> HIDE DEF image
  <2>3. MemoryIsHead' /\ RevertsNext'
    BY <1>a, <2>1, <2>2 DEF MemoryIsHead, RevertsNext
  <2>4. InfosPositioned'
    BY <1>a, <2>1, <2>2 DEF OrderInv, InfosPositioned
  <2>5. MappedIsStored'
    BY <1>a, <2>1, <2>2 DEF OrderInv, MappedIsStored
  <2> QED BY <2>3, <2>4, <2>5 DEF OrderInv
<1> QED BY <1>1, <1>2

(* Every other step, and all of them.                                      *)
LEMMA OrderStep ==
  ASSUME SequencerInv, Undisturbed => OrderInv, [NextSequencer]_seqVars
  PROVE  Undisturbed' => OrderInv'
<1> SUFFICES ASSUME Undisturbed' PROVE OrderInv'
  OBVIOUS
<1>u. Undisturbed
  <2>1. faults' = faults \/ faults' = faults + 1
    BY DEF NextSequencer, Sequence, SequenceStep, RevertStep, Flush, SaveSequencerInfo, SaveTx,
        SaveMapping, NotContinuous, StorageError, Crash, ExecutorWrites, FaultElsewhere, ProcessExits,
        Start, RevertInfo, RevertRemoveTx, RevertRemoveMapping, RevertCrash, MemoryLost, histVars, seqVars
  <2>2. torn => torn'
    BY DEF NextSequencer, Sequence, SequenceStep, RevertStep, Flush, SaveSequencerInfo, SaveTx,
        SaveMapping, NotContinuous, StorageError, Crash, ExecutorWrites, FaultElsewhere, ProcessExits,
        Start, RevertInfo, RevertRemoveTx, RevertRemoveMapping, RevertCrash, MemoryLost, histVars, seqVars
  <2>3. faults \in Nat
    BY BoundAssumption DEF SequencerInv, TypeOKSequencer
  <2>4. faults' = 0 => faults = 0
    BY <2>1, <2>3
  <2> QED BY <2>2, <2>4 DEF Undisturbed
<1>a. /\ OrderInv /\ disk \in Image /\ disk \in durable /\ disk.sequencer_info.last_order \in Nat
      /\ (step # "idle" => up) /\ (revert.step # "none" => ~up) /\ ~torn /\ ~Resubmit /\ faults' = 0
      /\ faults = 0
  BY <1>u, OrderTypes DEF Undisturbed
<1>1. ASSUME NEW t \in Tx, Sequence(t) PROVE OrderInv'
  <2>1. MemoryIsHead' /\ RevertsNext'
    BY <1>1, <1>a DEF Sequence, dbVars, OrderInv, MemoryIsHead, RevertsNext
  <2> QED BY <1>1, <1>a, <2>1, OrderFrame DEF Sequence, dbVars, histVars
<1>2. CASE Flush
  <2> DEFINE image == [disk EXCEPT !.acc_nodes = @ \cup unflushed]
  <2>1. /\ image.sequencer_info = disk.sequencer_info /\ image.txs = disk.txs
        /\ image.mapping = disk.mapping
    BY <1>a DEF Image
  <2>2. /\ disk' = image /\ durable' = durable \cup {image} /\ step = "flush" /\ step' = "save_info"
        /\ UNCHANGED <<up, last_info, tx_acc, tx, revert, promised>>
    BY <1>2 DEF Flush, put, histVars
  <2> HIDE DEF image
  <2>3. MemoryIsHead' /\ RevertsNext'
    BY <1>a, <2>1, <2>2 DEF OrderInv, MemoryIsHead, RevertsNext
  <2> QED BY <1>a, <2>1, <2>2, <2>3, OrderFrame
<1>3. CASE SaveSequencerInfo \/ SaveTx \/ SaveMapping
  BY <1>3, <1>a, SaveInfoOrder, SaveTxOrder, SaveMappingOrder
<1>4. CASE NotContinuous
  BY <1>4, <1>a DEF NotContinuous, Continuous, NewInfo, OrderInv, MemoryIsHead
<1>5. CASE StorageError \/ FaultElsewhere
  BY <1>5, <1>a DEF StorageError, FaultElsewhere
<1>6. CASE Crash \/ ProcessExits
  <2>1. /\ disk' \in durable /\ durable' \subseteq durable /\ up' = FALSE /\ step' = "idle" /\ up
        /\ UNCHANGED <<revert, promised>> /\ disk'.sequencer_info = disk.sequencer_info
    BY <1>6, <1>a, OrderTypes DEF Crash, ProcessExits, Recover, MemoryLost, dbVars, histVars
  <2>2. MemoryIsHead' /\ RevertsNext'
    BY <1>a, <2>1 DEF MemoryIsHead, RevertsNext
  <2> QED BY <2>1, <2>2, <1>a, OrderFrame
<1>7. CASE ExecutorWrites
  <2>1. /\ disk'.sequencer_info = disk.sequencer_info /\ disk'.txs = disk.txs
        /\ disk'.mapping = disk.mapping
        /\ UNCHANGED <<up, step, last_info, tx_acc, tx, revert, promised>>
        /\ \A i \in durable' : i \in durable \/ i = disk'
    BY <1>7 DEF ExecutorWrites, put, put_sync, memVars, histVars
  <2>2. MemoryIsHead' /\ RevertsNext'
    BY <1>a, <2>1 DEF OrderInv, MemoryIsHead, RevertsNext
  <2> QED BY <2>1, <2>2, <1>a, OrderFrame
<1>8. ASSUME NEW s \in ServiceStatus, Start(s) PROVE OrderInv'
  <2>1. /\ disk' = disk /\ durable' = {disk} /\ last_info' = disk.sequencer_info
        /\ tx_acc' = disk.sequencer_info.acc /\ UNCHANGED <<step, revert, promised>>
        /\ revert.step = "none" /\ step = "idle"
    BY <1>8, <1>a DEF Start, Open, histVars
  <2>2. MemoryIsHead' /\ RevertsNext'
    BY <2>1 DEF MemoryIsHead, RevertsNext
  <2> QED BY <2>1, <2>2, <1>a, OrderFrame
<1>9. ASSUME NEW o \in Order, RevertInfo(o) PROVE OrderInv'
  BY <1>9, <1>a, RevertInfoOrder
<1>10. CASE RevertRemoveTx \/ RevertRemoveMapping
  BY <1>10, <1>a, RevertRemovesOrder
<1>11. CASE RevertCrash
  <2>1. /\ disk' = disk /\ durable' = {disk} /\ revert'.step = "none" /\ promised' = promised
        /\ UNCHANGED <<up, step>> /\ ~up /\ step = "idle"
    BY <1>11, <1>a DEF RevertCrash, Recover, NoRevert, memVars, Undisturbed
  <2>2. MemoryIsHead' /\ RevertsNext'
    BY <2>1 DEF MemoryIsHead, RevertsNext
  <2> QED BY <2>1, <2>2, <1>a, OrderFrame
<1>12. CASE UNCHANGED seqVars
  <2>1. MemoryIsHead' /\ RevertsNext'
    BY <1>12, <1>a DEF seqVars, OrderInv, MemoryIsHead, RevertsNext
  <2> QED BY <1>12, <2>1, <1>a, OrderFrame DEF seqVars
<1> QED BY <1>1, <1>2, <1>3, <1>4, <1>5, <1>6, <1>7, <1>8, <1>9, <1>10, <1>11, <1>12
        DEF NextSequencer, SequenceStep, RevertStep

(* The position of the leaf proves the order that was signed, and the node *)
(* looks up the same transaction for it, in every image a crash may leave: *)
(* as long as no write failed, nothing stored is submitted again and no    *)
(* revert was cut off.                                                     *)
THEOREM SequencerProvesOrders == SpecSequencer => [](Undisturbed => OrderIsProved)
<1>1. InitSequencer => OrderInv
  <2> SUFFICES ASSUME InitSequencer PROVE OrderInv
    OBVIOUS
  <2>1. /\ disk = GenesisImage /\ durable = {GenesisImage}
        /\ GenesisImage.sequencer_info = GenesisInfo
        /\ \A h \in Hash : GenesisImage.txs[h] # None => h = Genesis
        /\ GenesisImage.txs[Genesis] = GenesisInfo
        /\ \A o \in Order : GenesisImage.mapping[o] # None => o = 0
        /\ GenesisImage.mapping[0] = Genesis
        /\ <<Genesis>> \in AccumulatorInfo /\ Genesis \in Hash
    BY MaxOrderAssumption
    DEF InitSequencer, InitDB, GenesisImage, Hash, Order, AccumulatorInfo
  <2>2. /\ Positioned(GenesisInfo, Genesis) /\ GenesisInfo.last_order = 0 /\ GenesisInfo # None
        /\ GenesisInfo.acc = <<Genesis>> /\ Extends(<<Genesis>>, <<Genesis>>)
        /\ Len(<<Genesis>>) = 1
    <3>1. GenesisInfo # None
      BY <2>1, NoneAssumption, MaxOrderAssumption DEF GenesisInfo, SequencerInfo, Order
    <3> QED BY <2>1, <3>1, ExtendsReflexive DEF Positioned, GenesisInfo
  <2>3. MemoryIsHead /\ RevertsNext /\ InfosPositioned
    BY <2>1, <2>2 DEF InitSequencer, MemoryIsHead, RevertsNext, NoRevert, InfosPositioned
  <2>4. MappedIsStored
    BY <2>1, <2>2 DEF MappedIsStored
  <2> QED BY <2>3, <2>4 DEF OrderInv
<1>2. SequencerInv /\ (Undisturbed => OrderInv) /\ [NextSequencer]_seqVars
        => (Undisturbed => OrderInv)'
  BY OrderStep
<1>3. SequencerInv /\ (Undisturbed => OrderInv) => (Undisturbed => OrderIsProved)
  <2> SUFFICES ASSUME SequencerInv, OrderInv PROVE OrderIsProved
    OBVIOUS
  <2>1. PositionProvesOrder
    BY DEF OrderInv, InfosPositioned, Positioned, PositionProvesOrder
  <2>2. MappingMatchesAccumulator
    <3> SUFFICES ASSUME NEW image \in durable, NEW o \in 0..disk.sequencer_info.last_order,
                        image.mapping[o] # None
                 PROVE  disk.sequencer_info.acc[o + 1] = image.mapping[o]
      BY OrderTypes DEF MappingMatchesAccumulator
    <3> DEFINE h == image.mapping[o]
               info == image.txs[h]
    <3>1. o \in Order /\ o <= disk.sequencer_info.last_order /\ o \in Nat
      BY OrderTypes, MaxOrderAssumption DEF SequencerInfo, Order
    <3>2. /\ info # None /\ info.last_order = o
          /\ Extends(disk.sequencer_info.acc, info.acc) /\ h \in Hash
      BY <3>1, OrderTypes DEF OrderInv, MappedIsStored
    <3>3. Len(info.acc) = o + 1 /\ info.acc[o + 1] = h
      BY <3>2 DEF OrderInv, InfosPositioned, Positioned
    <3> QED BY <3>1, <3>2, <3>3 DEF Extends
  <2> QED BY <2>1, <2>2 DEF OrderIsProved
<1> QED BY <1>1, <1>2, <1>3, SequencerInvariant, PTL DEF SpecSequencer

(* The same of the composed node.                                          *)
THEOREM NodeProvesOrders == SpecPipeline => [](Undisturbed => OrderIsProved)
BY NodeImplementsSequencer, SequencerProvesOrders, PTL

(***************************************************************************)
(* The order of execution.                                                 *)
(***************************************************************************)
\* The last order the sequencer gave.
Last == disk.sequencer_info.last_order

(* What the startup scan asks of an order.                                 *)
ExecutedIn(image, o) == image.mapping[o] # None /\ image.execution_info[image.mapping[o]] # None

(* Genesis and every order before the last are executed.                   *)
Complete(image, last) == \A o \in Order : o < last \/ o = 0 => ExecutedIn(image, o)

(* A transaction that is mapped and stored is stored with that order.      *)
StoredAtOrder(image) ==
  \A o \in Order : image.mapping[o] # None /\ image.txs[image.mapping[o]] # None =>
    image.txs[image.mapping[o]].last_order = o

(* A revert that was cut off leaves at most the order after the last one   *)
(* mapped, and there is none to revert before that order was executed.     *)
StaleNext(image, last) ==
  \A o \in Order : o > last + 1 \/ (o > last /\ ~ExecutedIn(image, last)) => image.mapping[o] = None

(* The transactions of the state that count: stored, and not reverted.     *)
Kept(image, gone) ==
  {i \in DOMAIN image.startup_info :
     image.startup_info[i] \notin gone /\ image.txs[image.startup_info[i]] # None}

\* The order of the i-th transaction of the state.
OrderOf(image, i) == image.txs[image.startup_info[i]].last_order

(* They are mapped at their orders ...                                     *)
KeptMapped(image, last, gone) ==
  \A i \in Kept(image, gone) :
    OrderOf(image, i) <= last /\ image.mapping[OrderOf(image, i)] = image.startup_info[i]

(* ... and were executed in that order.                                    *)
KeptSorted(image, gone) ==
  \A i, j \in Kept(image, gone) : i < j => OrderOf(image, i) < OrderOf(image, j)

(* An execution info is stored for a transaction of the state.             *)
InfoInState(image) ==
  \A h \in Hash : image.execution_info[h] # None => h \in Range(image.startup_info)

(* What every image a crash may leave is like.                             *)
ImageInOrder(image, last, gone) ==
  /\ Complete(image, last) /\ StoredAtOrder(image) /\ StaleNext(image, last)
  /\ KeptMapped(image, last, gone) /\ KeptSorted(image, gone) /\ InfoInState(image)

(* The order a call of `sequence' has taken and not mapped yet is nobody's.*)
OrderIsFree(image, last, gone) ==
  /\ \A o \in Order : o > last => image.mapping[o] = None
  /\ \A i \in Kept(image, gone) : OrderOf(image, i) < last

\* The same of all images, while the call works.
CallTakesOrder ==
  step \in {"save_tx", "save_mapping"} => \A image \in durable : OrderIsFree(image, Last, reverted)

(* A new order is only given once the last one is executed.                *)
HeadExecuted ==
  up /\ (\/ job.step \in {"propose", "refresh"}
         \/ serving /\ step \in {"idle", "flush", "save_info"} /\ job.step \in {"none", "sequence"})
    => ExecutedIn(disk, Last)

(* What is executed, or replayed, is the transaction of the last order.    *)
JobIsHead ==
  /\ job.step \in Executing => disk.mapping[Last] = job.tx /\ disk.txs[job.tx] # None
  /\ job.step = "sequence" => step # "idle"
  /\ replay # << >> => up /\ Len(replay) = 1 /\ replay[1] = disk.mapping[Last]
  /\ up /\ step \in {"idle", "flush", "save_info"} => last_info.last_order = Last

(* Between executions the three roots are one.                             *)
RootsAgree ==
  /\ up /\ job.step # "execution_info" => root = disk.startup_info
  /\ up /\ job.step \notin {"propose", "refresh"} => reader_root = root

(* A revert removes the transaction of the order after the last.           *)
RevertsHead == revert.step # "none" => revert.order = Last + 1 /\ revert.hash \in reverted

\* The inductive invariant, beside WholeInv.
ReplayInv ==
  /\ \A image \in durable : ImageInOrder(image, Last, reverted)
  /\ CallTakesOrder /\ HeadExecuted /\ JobIsHead /\ RootsAgree /\ RevertsHead

(* A node that is always started active, so that it replays, and none of   *)
(* whose writes returned an error; it may crash at any step, and operators *)
(* may revert.                                                             *)
OnlyCrashes == Modes \subseteq {"Active"} /\ faults = 0

(***************************************************************************)
(* The writes, on one image.                                               *)
(***************************************************************************)
(* A write to a column that none of this reads.                            *)
LEMMA SameOrder ==
  ASSUME NEW i, NEW j, NEW last, NEW gone, ImageInOrder(j, last, gone),
         i.mapping = j.mapping, i.txs = j.txs, i.startup_info = j.startup_info,
         i.execution_info = j.execution_info
  PROVE  /\ ImageInOrder(i, last, gone)
         /\ OrderIsFree(j, last, gone) => OrderIsFree(i, last, gone)
         /\ \A o : ExecutedIn(i, o) <=> ExecutedIn(j, o)
<1>0. \A o : ExecutedIn(i, o) <=> ExecutedIn(j, o)
  BY DEF ExecutedIn
<1>1. Complete(i, last) /\ StaleNext(i, last)
  BY <1>0 DEF ImageInOrder, Complete, StaleNext
<1>2. StoredAtOrder(i) /\ InfoInState(i)
  BY DEF ImageInOrder, StoredAtOrder, InfoInState
<1>3. Kept(i, gone) = Kept(j, gone) /\ \A n : OrderOf(i, n) = OrderOf(j, n)
  BY DEF Kept, OrderOf
<1>4. KeptMapped(i, last, gone) /\ KeptSorted(i, gone)
  BY <1>3 DEF ImageInOrder, KeptMapped, KeptSorted
<1>5. OrderIsFree(j, last, gone) => OrderIsFree(i, last, gone)
  BY <1>3 DEF OrderIsFree
<1> QED BY <1>0, <1>1, <1>2, <1>4, <1>5 DEF ImageInOrder

(* The types of an image's orders.                                         *)
LEMMA ImageOrders ==
  ASSUME NEW image \in Image
  PROVE  /\ \A o \in Order : o \in Nat /\ image.mapping[o] \in Hash \cup {None}
         /\ \A h \in Hash : image.txs[h] # None => image.txs[h].last_order \in Order
         /\ \A i \in DOMAIN image.startup_info : image.startup_info[i] \in Hash /\ i \in Nat
         /\ image.startup_info \in StateRoot /\ None \notin Hash
<1>1. \A o \in Order : o \in Nat /\ image.mapping[o] \in Hash \cup {None}
  BY MaxOrderAssumption DEF Image, Order
<1>2. \A h \in Hash : image.txs[h] # None => image.txs[h].last_order \in Order
  <2>1. \A h \in Hash : image.txs[h] \in SequencerInfo \cup {None}
    BY DEF Image
  <2> QED BY <2>1 DEF SequencerInfo
<1>3. image.startup_info \in StateRoot
  BY DEF Image
<1>4. \A i \in DOMAIN image.startup_info : image.startup_info[i] \in Hash /\ i \in Nat
  BY <1>3 DEF StateRoot
<1> QED BY <1>1, <1>2, <1>3, <1>4, TxAssumption DEF Hash

(* save_sequencer_info: the last order is executed, the next is free.      *)
LEMMA NextOrder ==
  ASSUME NEW image \in Image, NEW last \in Nat, NEW gone, ImageInOrder(image, last, gone),
         ExecutedIn(image, last)
  PROVE  ImageInOrder(image, last + 1, gone) /\ OrderIsFree(image, last + 1, gone)
<1>t. /\ \A o \in Order : o \in Nat
      /\ \A i \in Kept(image, gone) : OrderOf(image, i) \in Nat
  BY ImageOrders DEF Kept, OrderOf
<1>1. Complete(image, last + 1)
  BY <1>t DEF ImageInOrder, Complete
<1>2. StaleNext(image, last + 1)
  BY <1>t DEF ImageInOrder, StaleNext
<1>3. KeptMapped(image, last + 1, gone)
  BY <1>t DEF ImageInOrder, KeptMapped
<1>4. OrderIsFree(image, last + 1, gone)
  BY <1>t DEF ImageInOrder, KeptMapped, StaleNext, OrderIsFree
<1> QED BY <1>1, <1>2, <1>3, <1>4 DEF ImageInOrder

(* save_transaction, its first write: a transaction that is not in the     *)
(* state is stored with the order its call has taken.                      *)
LEMMA StoreAtFreeOrder ==
  ASSUME NEW i \in Image, NEW j \in Image, NEW last \in Order, NEW gone, NEW h \in Hash, NEW info,
         ImageInOrder(j, last, gone), OrderIsFree(j, last, gone),
         h \notin Range(j.startup_info), info # None, info.last_order = last,
         i.mapping = j.mapping, i.startup_info = j.startup_info,
         i.execution_info = j.execution_info, i.txs = [j.txs EXCEPT ![h] = info]
  PROVE  ImageInOrder(i, last, gone) /\ OrderIsFree(i, last, gone)
<1>t. /\ \A o \in Order : o \in Nat /\ j.mapping[o] \in Hash \cup {None} /\ None \notin Hash
      /\ \A n \in DOMAIN j.startup_info : j.startup_info[n] \in Hash /\ j.startup_info[n] # h
      /\ j.txs \in [Hash -> SequencerInfo \cup {None}]
  BY ImageOrders DEF Range, Image
<1>e. \A o : ExecutedIn(i, o) <=> ExecutedIn(j, o)
  BY DEF ExecutedIn
<1>x. i.txs[h] = info /\ \A g \in Hash : g # h => i.txs[g] = j.txs[g]
  BY <1>t
<1>1. Complete(i, last) /\ StaleNext(i, last)
  BY <1>e DEF ImageInOrder, Complete, StaleNext
<1>2. StoredAtOrder(i)
  <2> SUFFICES ASSUME NEW o \in Order, i.mapping[o] # None, i.txs[i.mapping[o]] # None
               PROVE  i.txs[i.mapping[o]].last_order = o
    BY DEF StoredAtOrder
  <2>1. CASE j.mapping[o] = h
    <3>1. ~(o > last)
      BY <2>1, <1>t DEF OrderIsFree
    <3>2. ~(o < last)
      <4> SUFFICES ASSUME o < last PROVE FALSE
        OBVIOUS
      <4>1. j.execution_info[h] # None
        BY <2>1 DEF ImageInOrder, Complete, ExecutedIn
      <4> QED BY <4>1 DEF ImageInOrder, InfoInState
    <3>3. o = last
      BY <3>1, <3>2, <1>t
    <3> QED BY <2>1, <3>3, <1>x
  <2>2. CASE j.mapping[o] # h
    BY <2>2, <1>t, <1>x DEF ImageInOrder, StoredAtOrder
  <2> QED BY <2>1, <2>2
<1>3. /\ Kept(i, gone) = Kept(j, gone)
      /\ \A n \in Kept(j, gone) : OrderOf(i, n) = OrderOf(j, n)
  BY <1>t, <1>x DEF Kept, OrderOf
<1>4. KeptMapped(i, last, gone) /\ KeptSorted(i, gone)
  BY <1>3 DEF ImageInOrder, KeptMapped, KeptSorted
<1>5. OrderIsFree(i, last, gone)
  BY <1>3 DEF OrderIsFree
<1>6. InfoInState(i)
  BY DEF ImageInOrder, InfoInState
<1> QED BY <1>1, <1>2, <1>4, <1>5, <1>6 DEF ImageInOrder

(* ... and its second: the order is mapped to it.                          *)
LEMMA MapFreeOrder ==
  ASSUME NEW i \in Image, NEW j \in Image, NEW last \in Order, NEW gone, NEW h \in Hash,
         ImageInOrder(j, last, gone), OrderIsFree(j, last, gone),
         last > 0, j.txs[h] # None => j.txs[h].last_order = last,
         i.txs = j.txs, i.startup_info = j.startup_info,
         i.execution_info = j.execution_info, i.mapping = [j.mapping EXCEPT ![last] = h]
  PROVE  ImageInOrder(i, last, gone)
<1>t. /\ \A o \in Order : o \in Nat /\ None \notin Hash
      /\ j.mapping \in [Order -> Hash \cup {None}]
      /\ \A n \in Kept(j, gone) : OrderOf(j, n) \in Order
  BY ImageOrders DEF Image, Kept, OrderOf
<1>x. i.mapping[last] = h /\ \A o \in Order : o # last => i.mapping[o] = j.mapping[o]
  BY <1>t
<1>e. \A o \in Order : o # last => (ExecutedIn(i, o) <=> ExecutedIn(j, o))
  BY <1>x DEF ExecutedIn
<1>1. Complete(i, last)
  BY <1>e, <1>t DEF ImageInOrder, Complete
<1>2. StaleNext(i, last)
  BY <1>x, <1>t DEF OrderIsFree, StaleNext
<1>3. StoredAtOrder(i)
  BY <1>x DEF ImageInOrder, StoredAtOrder
<1>4. Kept(i, gone) = Kept(j, gone) /\ \A n : OrderOf(i, n) = OrderOf(j, n)
  BY DEF Kept, OrderOf
<1>5. KeptSorted(i, gone) /\ InfoInState(i)
  BY <1>4 DEF ImageInOrder, KeptSorted, InfoInState
<1>6. KeptMapped(i, last, gone)
  <2> SUFFICES ASSUME NEW n \in Kept(j, gone)
               PROVE  OrderOf(j, n) <= last /\ i.mapping[OrderOf(j, n)] = i.startup_info[n]
    BY <1>4 DEF KeptMapped
  <2>1. OrderOf(j, n) < last /\ OrderOf(j, n) \in Order
    BY <1>t DEF OrderIsFree
  <2>2. OrderOf(j, n) # last /\ OrderOf(j, n) <= last
    BY <2>1, <1>t
  <2> QED BY <2>1, <2>2, <1>x DEF ImageInOrder, KeptMapped
<1> QED BY <1>1, <1>2, <1>3, <1>5, <1>6 DEF ImageInOrder

(* save_startup_info: the state grows by the transaction of the last order.*)
LEMMA ExecuteLast ==
  ASSUME NEW i \in Image, NEW j \in Image, NEW last \in Order, NEW gone, NEW h \in Hash,
         ImageInOrder(j, last, gone), j.mapping[last] = h, h \notin Range(j.startup_info),
         i.txs = j.txs, i.mapping = j.mapping, i.execution_info = j.execution_info,
         i.startup_info = Append(j.startup_info, h)
  PROVE  ImageInOrder(i, last, gone)
<1> DEFINE n == Len(j.startup_info)
<1>t. /\ \A o \in Order : o \in Nat /\ None \notin Hash
      /\ j.startup_info \in StateRoot /\ n \in Nat
      /\ \A m \in DOMAIN j.startup_info : j.startup_info[m] # h
      /\ \A m \in Kept(j, gone) : OrderOf(j, m) \in Order
  BY ImageOrders DEF Kept, OrderOf, Range, StateRoot
<1>x. /\ DOMAIN i.startup_info = 1..(n + 1) /\ DOMAIN j.startup_info = 1..n
      /\ i.startup_info[n + 1] = h
      /\ \A m \in 1..n : i.startup_info[m] = j.startup_info[m]
  BY <1>t DEF StateRoot
<1>e. \A o : ExecutedIn(i, o) <=> ExecutedIn(j, o)
  BY DEF ExecutedIn
<1>1. Complete(i, last) /\ StaleNext(i, last)
  BY <1>e DEF ImageInOrder, Complete, StaleNext
<1>2. StoredAtOrder(i)
  BY DEF ImageInOrder, StoredAtOrder
<1>3. InfoInState(i)
  <2>1. Range(j.startup_info) \subseteq Range(i.startup_info)
    BY <1>x, <1>t DEF Range
  <2> QED BY <2>1 DEF ImageInOrder, InfoInState
<1>4. /\ \A m \in Kept(i, gone) : m \in Kept(j, gone) \/ m = n + 1
      /\ \A m \in Kept(j, gone) : OrderOf(i, m) = OrderOf(j, m) /\ m \in 1..n
  <2>1. \A m \in 1..(n + 1) : m \in 1..n \/ m = n + 1
    BY <1>t
  <2> QED BY <1>x, <2>1 DEF Kept, OrderOf
<1>5. n + 1 \in Kept(i, gone) => OrderOf(i, n + 1) = last
  BY <1>x, <1>t DEF Kept, OrderOf, ImageInOrder, StoredAtOrder
<1>6. \A m \in Kept(j, gone) : OrderOf(j, m) < last
  <2> SUFFICES ASSUME NEW m \in Kept(j, gone) PROVE OrderOf(j, m) < last
    OBVIOUS
  <2>1. OrderOf(j, m) <= last /\ j.mapping[OrderOf(j, m)] = j.startup_info[m]
    BY DEF ImageInOrder, KeptMapped
  <2>2. OrderOf(j, m) # last
    BY <2>1, <1>t DEF Kept
  <2> QED BY <2>1, <2>2, <1>t
<1>7. KeptMapped(i, last, gone)
  <2> SUFFICES ASSUME NEW m \in Kept(i, gone)
               PROVE  OrderOf(i, m) <= last /\ i.mapping[OrderOf(i, m)] = i.startup_info[m]
    BY DEF KeptMapped
  <2>1. CASE m \in Kept(j, gone)
    BY <2>1, <1>4, <1>x DEF ImageInOrder, KeptMapped
  <2>2. CASE m = n + 1
    BY <2>2, <1>5, <1>x, <1>t
  <2> QED BY <2>1, <2>2, <1>4
<1>8. KeptSorted(i, gone)
  <2> SUFFICES ASSUME NEW l \in Kept(i, gone), NEW m \in Kept(i, gone), l < m
               PROVE  OrderOf(i, l) < OrderOf(i, m)
    BY DEF KeptSorted
  <2>0. l \in 1..(n + 1) /\ m \in 1..(n + 1)
    BY <1>x DEF Kept
  <2>1. l \in Kept(j, gone)
    <3>1. l # n + 1
      BY <2>0, <1>t
    <3> QED BY <3>1, <1>4
  <2>2. CASE m \in Kept(j, gone)
    BY <2>1, <2>2, <1>4 DEF ImageInOrder, KeptSorted
  <2>3. CASE m = n + 1
    BY <2>1, <2>3, <1>4, <1>5, <1>6
  <2> QED BY <2>2, <2>3, <1>4
<1> QED BY <1>1, <1>2, <1>3, <1>7, <1>8 DEF ImageInOrder

(* handle_tx_output: the execution info of a transaction of the state.     *)
LEMMA StoreExecutionInfo ==
  ASSUME NEW i \in Image, NEW j \in Image, NEW last \in Order, NEW gone, NEW h \in Hash,
         ImageInOrder(j, last, gone), h \in Range(j.startup_info),
         i.txs = j.txs, i.mapping = j.mapping, i.startup_info = j.startup_info,
         i.execution_info[h] # None, \A g \in Hash : g # h => i.execution_info[g] = j.execution_info[g]
  PROVE  ImageInOrder(i, last, gone)
<1>t. \A o \in Order : j.mapping[o] \in Hash \cup {None}
  BY ImageOrders
<1>e. \A o \in Order : ExecutedIn(j, o) => ExecutedIn(i, o)
  BY <1>t DEF ExecutedIn
<1>1. Complete(i, last) /\ StaleNext(i, last)
  BY <1>e DEF ImageInOrder, Complete, StaleNext
<1>2. StoredAtOrder(i) /\ InfoInState(i)
  BY DEF ImageInOrder, StoredAtOrder, InfoInState
<1>3. Kept(i, gone) = Kept(j, gone) /\ \A n : OrderOf(i, n) = OrderOf(j, n)
  BY DEF Kept, OrderOf
<1>4. KeptMapped(i, last, gone) /\ KeptSorted(i, gone)
  BY <1>3 DEF ImageInOrder, KeptMapped, KeptSorted
<1> QED BY <1>1, <1>2, <1>4 DEF ImageInOrder

(* A revert's first write: the last order was not executed, and is nobody's*)
(* once its transaction does not count any more.                           *)
LEMMA TakeBackLast ==
  ASSUME NEW j \in Image, NEW last \in Order, NEW gone, NEW o \in Order, NEW h \in Hash,
         ImageInOrder(j, last, gone), last > 0, j.mapping[o] = h, j.txs[h] # None,
         j.txs[h].last_order = last, j.execution_info[h] = None
  PROVE  ImageInOrder(j, last - 1, gone \cup {h})
<1>t. /\ \A p \in Order : p \in Nat /\ None \notin Hash
      /\ \A n \in Kept(j, gone) : OrderOf(j, n) \in Order
  BY ImageOrders DEF Kept, OrderOf
<1>0. o = last
  BY <1>t DEF ImageInOrder, StoredAtOrder
<1>1. ~ExecutedIn(j, last)
  BY <1>0 DEF ExecutedIn
<1>2. Complete(j, last - 1)
  BY <1>t DEF ImageInOrder, Complete
<1>3. last - 1 \in Order /\ last - 1 < last
  BY MaxOrderAssumption DEF Order
<1>4. ExecutedIn(j, last - 1)
  BY <1>3 DEF ImageInOrder, Complete
<1>5. StaleNext(j, last - 1)
  <2> SUFFICES ASSUME NEW p \in Order, p > last - 1 + 1 PROVE j.mapping[p] = None
    BY <1>4 DEF StaleNext
  <2>1. p > last
    BY <1>t
  <2> QED BY <2>1, <1>1 DEF ImageInOrder, StaleNext
<1>6. \A n \in Kept(j, gone \cup {h}) : n \in Kept(j, gone) /\ j.startup_info[n] # h
  BY DEF Kept
<1>7. KeptSorted(j, gone \cup {h})
  BY <1>6 DEF ImageInOrder, KeptSorted
<1>8. KeptMapped(j, last - 1, gone \cup {h})
  <2> SUFFICES ASSUME NEW n \in Kept(j, gone \cup {h})
               PROVE  OrderOf(j, n) <= last - 1 /\ j.mapping[OrderOf(j, n)] = j.startup_info[n]
    BY DEF KeptMapped
  <2>1. OrderOf(j, n) <= last /\ j.mapping[OrderOf(j, n)] = j.startup_info[n]
    BY <1>6 DEF ImageInOrder, KeptMapped
  <2>2. OrderOf(j, n) # last
    BY <2>1, <1>0, <1>6
  <2>3. OrderOf(j, n) \in Nat /\ last \in Nat
    BY <1>6, <1>t
  <2> QED BY <2>1, <2>2, <2>3
<1> QED BY <1>2, <1>5, <1>7, <1>8 DEF ImageInOrder

(* remove_transaction, its two removals: of what does not count any more,  *)
(* and of the order after the last.                                        *)
LEMMA RemoveReverted ==
  ASSUME NEW i \in Image, NEW j \in Image, NEW last \in Order, NEW gone,
         ImageInOrder(j, last, gone),
         i.startup_info = j.startup_info, i.execution_info = j.execution_info,
         \/ \E h \in gone : i.txs = [j.txs EXCEPT ![h] = None] /\ i.mapping = j.mapping /\ h \in Hash
         \/ i.txs = j.txs /\ i.mapping = [j.mapping EXCEPT ![last + 1] = None]
  PROVE  ImageInOrder(i, last, gone)
<1>t. /\ \A p \in Order : p \in Nat /\ None \notin Hash /\ j.mapping[p] \in Hash \cup {None}
      /\ \A n \in Kept(j, gone) : OrderOf(j, n) \in Order /\ j.startup_info[n] \in Hash
      /\ \A n \in DOMAIN j.startup_info : j.startup_info[n] \in Hash
      /\ j.txs \in [Hash -> SequencerInfo \cup {None}] /\ j.mapping \in [Order -> Hash \cup {None}]
  BY ImageOrders DEF Kept, OrderOf, Image
<1>1. CASE \E h \in gone : i.txs = [j.txs EXCEPT ![h] = None] /\ i.mapping = j.mapping /\ h \in Hash
  <2>0. PICK h \in gone : i.txs = [j.txs EXCEPT ![h] = None] /\ i.mapping = j.mapping /\ h \in Hash
    BY <1>1
  <2>1. \A g \in Hash : i.txs[g] = IF g = h THEN None ELSE j.txs[g]
    BY <2>0, <1>t
  <2>2. \A o : ExecutedIn(i, o) <=> ExecutedIn(j, o)
    BY <2>0 DEF ExecutedIn
  <2>3. Complete(i, last) /\ StaleNext(i, last)
    BY <2>0, <2>2 DEF ImageInOrder, Complete, StaleNext
  <2>4. StoredAtOrder(i) /\ InfoInState(i)
    BY <2>0, <2>1, <1>t DEF ImageInOrder, StoredAtOrder, InfoInState
  <2>5. \A n \in Kept(i, gone) : n \in Kept(j, gone) /\ OrderOf(i, n) = OrderOf(j, n)
    BY <2>0, <2>1, <1>t DEF Kept, OrderOf
  <2>6. KeptMapped(i, last, gone) /\ KeptSorted(i, gone)
    BY <2>0, <2>5 DEF ImageInOrder, KeptMapped, KeptSorted
  <2> QED BY <2>3, <2>4, <2>6 DEF ImageInOrder
<1>2. CASE i.txs = j.txs /\ i.mapping = [j.mapping EXCEPT ![last + 1] = None]
  <2>1. \A o \in Order : i.mapping[o] = IF o = last + 1 THEN None ELSE j.mapping[o]
    BY <1>2, <1>t
  <2>2. \A o \in Order : o <= last => i.mapping[o] = j.mapping[o] /\ (ExecutedIn(i, o) <=> ExecutedIn(j, o))
    BY <2>1, <1>t DEF ExecutedIn
  <2>3. Complete(i, last)
    BY <2>2, <1>t DEF ImageInOrder, Complete
  <2>4. StaleNext(i, last)
    BY <2>1, <2>2, <1>t DEF ImageInOrder, StaleNext
  <2>5. StoredAtOrder(i) /\ InfoInState(i)
    BY <1>2, <2>1 DEF ImageInOrder, StoredAtOrder, InfoInState
  <2>6. Kept(i, gone) = Kept(j, gone) /\ \A n : OrderOf(i, n) = OrderOf(j, n)
    BY <1>2 DEF Kept, OrderOf
  <2>7. KeptMapped(i, last, gone) /\ KeptSorted(i, gone)
    BY <2>2, <2>6, <1>t DEF ImageInOrder, KeptMapped, KeptSorted
  <2> QED BY <2>3, <2>4, <2>5, <2>7 DEF ImageInOrder
<1> QED BY <1>1, <1>2

(***************************************************************************)
(* The steps of the node.                                                  *)
(***************************************************************************)
(* The types the steps below use.                                          *)
LEMMA ReplayTypes ==
  ASSUME WholeInv
  PROVE  /\ disk \in Image /\ disk \in durable /\ durable \subseteq Image
         /\ Last \in Order /\ Last \in Nat /\ Last + 1 \in Nat
         /\ \A image \in durable : image.sequencer_info = disk.sequencer_info
         /\ (step # "idle" => /\ up /\ tx \in Tx /\ tx \in Hash /\ job.step = "sequence" /\ tx = job.tx
                              /\ serving)
         /\ (up => last_info \in SequencerInfo /\ last_info.last_order \in Nat)
         /\ (~up => job.step = "none" /\ step = "idle")
         /\ (revert.step # "none" => ~up /\ revert.hash \in Hash)
         /\ (job.step # "none" => job.tx \in Hash /\ (serving \/ replay # << >>))
         /\ (serving => replay = << >>)
         /\ None \notin Hash /\ faults \in Nat
<1>1. /\ disk \in Image /\ disk \in durable /\ durable \subseteq Image
      /\ \A image \in durable : image.sequencer_info = disk.sequencer_info
      /\ (up => last_info \in SequencerInfo)
      /\ (revert.step # "none" => ~up /\ revert.hash \in Hash)
      /\ faults \in Nat
  BY BoundAssumption
  DEF WholeInv, NodeInv, SequencerInv, TypeOKSequencer, TypeOKDB, CallOK, InfoSynced
<1>2. \A info \in SequencerInfo : info.last_order \in Order /\ info.last_order \in Nat
  BY MaxOrderAssumption DEF SequencerInfo, Order
<1>3. disk.sequencer_info \in SequencerInfo
  BY <1>1 DEF Image
<1>4. Last \in Order /\ Last \in Nat /\ Last + 1 \in Nat
  BY <1>2, <1>3 DEF Last
<1>5. /\ (step # "idle" => /\ up /\ tx \in Tx /\ tx \in Hash /\ job.step = "sequence" /\ tx = job.tx
                           /\ serving)
      /\ (~up => job.step = "none" /\ step = "idle")
      /\ (job.step # "none" => job.tx \in Hash /\ (serving \/ replay # << >>))
      /\ (serving => replay = << >>)
  BY DEF WholeInv, NodeInv, SequencerInv, CallOK, JobOK, JobLedger, Hash
<1> QED BY <1>1, <1>2, <1>4, <1>5, TxAssumption DEF Hash

(* A step that leaves the columns of the ledger and of the executor alone, *)
(* or falls back to an earlier image.                                      *)
LEMMA ReplayFrame ==
  ASSUME ReplayInv, Last' = Last, reverted' = reverted,
         \A i \in durable' : \E j \in durable :
           /\ i.mapping = j.mapping /\ i.txs = j.txs /\ i.startup_info = j.startup_info
           /\ i.execution_info = j.execution_info,
         step' \in {"save_tx", "save_mapping"} => step \in {"save_tx", "save_mapping"}
  PROVE  (\A image \in durable' : ImageInOrder(image, Last', reverted')) /\ CallTakesOrder'
<1>1. \A image \in durable' : ImageInOrder(image, Last, reverted)
  BY SameOrder DEF ReplayInv
<1>2. ASSUME step' \in {"save_tx", "save_mapping"}, NEW image \in durable'
      PROVE  OrderIsFree(image, Last, reverted)
  <2>1. PICK j \in durable :
           /\ image.mapping = j.mapping /\ image.txs = j.txs /\ image.startup_info = j.startup_info
           /\ image.execution_info = j.execution_info
    OBVIOUS
  <2>2. ImageInOrder(j, Last, reverted) /\ OrderIsFree(j, Last, reverted)
    BY <1>2 DEF ReplayInv, CallTakesOrder
  <2> QED BY <2>1, <2>2, SameOrder
<1> QED BY <1>1, <1>2 DEF CallTakesOrder

(* What the four other parts need to be carried over a step that does not  *)
(* touch the columns of the ledger and of the executor.                    *)
LEMMA SameDisk ==
  ASSUME disk'.mapping = disk.mapping, disk'.txs = disk.txs,
         disk'.execution_info = disk.execution_info, Last' = Last
  PROVE  ExecutedIn(disk', Last') <=> ExecutedIn(disk, Last)
BY DEF ExecutedIn

(* A request is taken, and the accumulator's nodes are flushed.            *)
LEMMA SubmitKeepsOrder ==
  ASSUME WholeInv, ReplayInv, NEW t \in Tx, Submit(t)
  PROVE  ReplayInv'
<1>a. /\ UNCHANGED <<disk, durable, up, root, reader_root, replay, serving, reverted, revert, last_info>>
      /\ step = "idle" /\ step' = "flush" /\ job.step = "none" /\ job'.step = "sequence"
      /\ up /\ serving
  BY DEF Submit, Sequence, dbVars, nodeHist
<1>b. Last' = Last
  BY <1>a DEF Last
<1>1. (\A image \in durable' : ImageInOrder(image, Last', reverted')) /\ CallTakesOrder'
  BY <1>a, <1>b, ReplayFrame
<1>2. ExecutedIn(disk, Last)
  BY <1>a DEF ReplayInv, HeadExecuted
<1>3. HeadExecuted'
  BY <1>a, <1>b, <1>2 DEF HeadExecuted
<1>4. JobIsHead'
  BY <1>a, <1>b DEF ReplayInv, JobIsHead, Executing
<1>5. RootsAgree' /\ RevertsHead'
  BY <1>a, <1>b DEF ReplayInv, RootsAgree, RevertsHead
<1> QED BY <1>1, <1>3, <1>4, <1>5 DEF ReplayInv

\* The accumulator's nodes are flushed.
LEMMA FlushKeepsOrder ==
  ASSUME WholeInv, ReplayInv, Sequencing, Flush
  PROVE  ReplayInv'
<1> DEFINE image == [disk EXCEPT !.acc_nodes = @ \cup unflushed]
<1>a. disk \in Image /\ disk \in durable
  BY ReplayTypes
<1>b. /\ image.sequencer_info = disk.sequencer_info /\ image.txs = disk.txs
      /\ image.mapping = disk.mapping /\ image.startup_info = disk.startup_info
      /\ image.execution_info = disk.execution_info
  BY <1>a DEF Image
<1>c. /\ disk' = image /\ durable' = durable \cup {image} /\ step = "flush" /\ step' = "save_info"
      /\ UNCHANGED <<up, root, reader_root, job, replay, serving, reverted, revert, last_info>>
  BY DEF Sequencing, Flush, put, execVars, nodeHist
<1> HIDE DEF image
<1>d. Last' = Last
  BY <1>b, <1>c DEF Last
<1>1. (\A i \in durable' : ImageInOrder(i, Last', reverted')) /\ CallTakesOrder'
  BY <1>a, <1>b, <1>c, <1>d, ReplayFrame
<1>2. HeadExecuted'
  BY <1>b, <1>c, <1>d, SameDisk DEF ReplayInv, HeadExecuted
<1>3. JobIsHead' /\ RootsAgree' /\ RevertsHead'
  BY <1>b, <1>c, <1>d DEF ReplayInv, JobIsHead, RootsAgree, RevertsHead
<1> QED BY <1>1, <1>2, <1>3 DEF ReplayInv

(* The next order is taken.                                                *)
LEMMA SaveInfoKeepsOrder ==
  ASSUME WholeInv, ReplayInv, Sequencing, SaveSequencerInfo
  PROVE  ReplayInv'
<1> DEFINE image == [disk EXCEPT !.sequencer_info = NewInfo]
<1>a. /\ disk \in Image /\ disk \in durable /\ Last \in Nat /\ step = "save_info"
      /\ up /\ job.step = "sequence" /\ serving /\ replay = << >> /\ revert.step = "none"
  BY ReplayTypes DEF SaveSequencerInfo
<1>b. /\ image.sequencer_info = NewInfo /\ image.txs = disk.txs
      /\ image.mapping = disk.mapping /\ image.startup_info = disk.startup_info
      /\ image.execution_info = disk.execution_info
  BY <1>a DEF Image
<1>c. /\ disk' = image /\ durable' = {image} /\ step' = "save_tx"
      /\ UNCHANGED <<up, root, reader_root, job, replay, serving, reverted, revert, last_info>>
  BY DEF Sequencing, SaveSequencerInfo, put_sync, execVars, nodeHist
<1> HIDE DEF image
<1>d. Last' = Last + 1
  <2>1. NewInfo.last_order = Last + 1
    BY DEF SaveSequencerInfo, Continuous, Last
  <2> QED BY <1>b, <1>c, <2>1 DEF Last
<1>1. ImageInOrder(disk, Last + 1, reverted) /\ OrderIsFree(disk, Last + 1, reverted)
  <2>1. ExecutedIn(disk, Last)
    BY <1>a DEF ReplayInv, HeadExecuted
  <2>2. ImageInOrder(disk, Last, reverted)
    BY <1>a DEF ReplayInv
  <2> QED BY <2>1, <2>2, <1>a, NextOrder
<1>2. ImageInOrder(image, Last + 1, reverted) /\ OrderIsFree(image, Last + 1, reverted)
  BY <1>1, <1>b, SameOrder
<1>3. (\A i \in durable' : ImageInOrder(i, Last', reverted')) /\ CallTakesOrder'
  BY <1>2, <1>c, <1>d DEF CallTakesOrder
<1>4. HeadExecuted' /\ JobIsHead' /\ RevertsHead'
  BY <1>a, <1>c DEF HeadExecuted, JobIsHead, Executing, RevertsHead
<1>5. RootsAgree'
  BY <1>b, <1>c DEF ReplayInv, RootsAgree
<1> QED BY <1>3, <1>4, <1>5 DEF ReplayInv

(* The transaction is stored with it.                                      *)
LEMMA SaveTxKeepsOrder ==
  ASSUME WholeInv, ReplayInv, Sequencing, SaveTx
  PROVE  ReplayInv'
<1> DEFINE image == [disk EXCEPT !.txs[tx] = NewInfo]
<1>a. /\ disk \in Image /\ disk \in durable /\ durable \subseteq Image /\ Last \in Order
      /\ step = "save_tx" /\ tx \in Hash /\ tx = job.tx
      /\ up /\ job.step = "sequence" /\ serving /\ replay = << >> /\ revert.step = "none"
  BY ReplayTypes DEF SaveTx
<1>b. /\ image.sequencer_info = disk.sequencer_info /\ image.txs = [disk.txs EXCEPT ![tx] = NewInfo]
      /\ image.mapping = disk.mapping /\ image.startup_info = disk.startup_info
      /\ image.execution_info = disk.execution_info
  BY <1>a DEF Image
<1>c. /\ disk' = image /\ durable' = durable \cup {image} /\ step' = "save_mapping"
      /\ UNCHANGED <<up, root, reader_root, job, replay, serving, reverted, revert, last_info>>
  BY DEF Sequencing, SaveTx, put, execVars, nodeHist
<1>i. image \in Image
  <2>1. NewInfo \in SequencerInfo
    <3>1. NewInfo = disk.sequencer_info
      BY <1>a DEF WholeInv, NodeInv, SequencerInv, MemoryExtendsStore
    <3> QED BY <1>a, <3>1 DEF Image
  <2> QED BY <1>a, <2>1 DEF Image
<1> HIDE DEF image
<1>d. Last' = Last
  BY <1>b, <1>c DEF Last
<1>e. NewInfo # None /\ NewInfo.last_order = Last
  <2>1. NewInfo = disk.sequencer_info
    BY <1>a DEF WholeInv, NodeInv, SequencerInv, MemoryExtendsStore
  <2>2. NewInfo \in SequencerInfo
    BY <1>a, <2>1 DEF Image
  <2> QED BY <2>1, <2>2, NoneAssumption DEF Last
<1>f. tx \notin Range(disk.startup_info)
  <2>1. tx \notin Range(reader_root)
    BY <1>a DEF WholeInv, ExecutorInv, JobRoots
  <2>2. reader_root = disk.startup_info
    BY <1>a DEF ReplayInv, RootsAgree
  <2> QED BY <2>1, <2>2
<1>1. /\ ImageInOrder(disk, Last, reverted) /\ OrderIsFree(disk, Last, reverted)
      /\ \A i \in durable : ImageInOrder(i, Last, reverted) /\ OrderIsFree(i, Last, reverted)
  BY <1>a DEF ReplayInv, CallTakesOrder
<1>2. ImageInOrder(image, Last, reverted) /\ OrderIsFree(image, Last, reverted)
  BY <1>1, <1>a, <1>b, <1>e, <1>f, <1>i, StoreAtFreeOrder
<1>3. (\A i \in durable' : ImageInOrder(i, Last', reverted')) /\ CallTakesOrder'
  BY <1>1, <1>2, <1>c, <1>d DEF CallTakesOrder
<1>4. HeadExecuted' /\ JobIsHead' /\ RevertsHead'
  BY <1>a, <1>c DEF HeadExecuted, JobIsHead, Executing, RevertsHead
<1>5. RootsAgree'
  BY <1>b, <1>c DEF ReplayInv, RootsAgree
<1> QED BY <1>3, <1>4, <1>5 DEF ReplayInv

(* The order is mapped, and the transaction goes to the executor.          *)
LEMMA SequencedKeepsOrder ==
  ASSUME WholeInv, ReplayInv, Sequenced
  PROVE  ReplayInv'
<1> DEFINE image == [disk EXCEPT !.mapping[NewInfo.last_order] = tx]
<1>a. /\ disk \in Image /\ disk \in durable /\ durable \subseteq Image /\ Last \in Order /\ Last \in Nat
      /\ step = "save_mapping" /\ tx \in Hash /\ tx = job.tx /\ last_info.last_order \in Nat
      /\ up /\ job.step = "sequence" /\ serving /\ replay = << >> /\ revert.step = "none"
  BY ReplayTypes DEF Sequenced, SaveMapping
<1>e. /\ NewInfo = disk.sequencer_info /\ disk.txs[tx] = NewInfo
      /\ NewInfo.last_order = Last /\ Last > 0 /\ NewInfo # None
  <2>1. NewInfo = disk.sequencer_info /\ disk.txs[tx] = NewInfo
    BY <1>a DEF WholeInv, NodeInv, SequencerInv, MemoryExtendsStore
  <2>2. NewInfo.last_order = Last /\ NewInfo.last_order = last_info.last_order + 1
    BY <2>1 DEF Last, NewInfo
  <2>3. NewInfo \in SequencerInfo
    BY <1>a, <2>1 DEF Image
  <2> QED BY <2>1, <2>2, <2>3, <1>a, NoneAssumption
<1>b. /\ image.sequencer_info = disk.sequencer_info /\ image.mapping = [disk.mapping EXCEPT ![Last] = tx]
      /\ image.txs = disk.txs /\ image.startup_info = disk.startup_info
      /\ image.execution_info = disk.execution_info /\ image \in Image
  BY <1>a, <1>e DEF Image
<1>c. /\ disk' = image /\ durable' = durable \cup {image} /\ step' = "idle"
      /\ last_info' = NewInfo /\ job' = [job EXCEPT !.step = "apply"]
      /\ UNCHANGED <<up, root, reader_root, replay, serving, reverted, revert>>
  BY DEF Sequenced, SaveMapping, put, nodeHist
<1>m. image.mapping[Last] = tx
  <2>1. disk.mapping \in [Order -> Hash \cup {None}]
    BY <1>a DEF Image
  <2> QED BY <1>a, <1>b, <2>1
<1> HIDE DEF image
<1>j. job'.step = "apply" /\ job'.tx = tx
  <2>1. job \in [step : JobStep, tx : Hash \cup {None}, base : StateRoot]
    BY DEF WholeInv, NodeInv, JobOK
  <2> QED BY <2>1, <1>a, <1>c
<1>d. Last' = Last
  BY <1>b, <1>c DEF Last
<1>1. /\ ImageInOrder(disk, Last, reverted) /\ OrderIsFree(disk, Last, reverted)
      /\ \A i \in durable : ImageInOrder(i, Last, reverted)
  BY <1>a DEF ReplayInv, CallTakesOrder
<1>2. ImageInOrder(image, Last, reverted)
  BY <1>1, <1>a, <1>b, <1>e, MapFreeOrder
<1>3. (\A i \in durable' : ImageInOrder(i, Last', reverted')) /\ CallTakesOrder'
  BY <1>1, <1>2, <1>c, <1>d DEF CallTakesOrder
<1>4. HeadExecuted' /\ RevertsHead'
  BY <1>a, <1>c, <1>j DEF HeadExecuted, RevertsHead
<1>5. JobIsHead'
  BY <1>a, <1>b, <1>c, <1>d, <1>e, <1>j, <1>m DEF JobIsHead
<1>6. RootsAgree'
  BY <1>a, <1>b, <1>c, <1>j DEF ReplayInv, RootsAgree
<1> QED BY <1>3, <1>4, <1>5, <1>6 DEF ReplayInv

(* The executor's first write is to a column of its own.                   *)
LEMMA ApplyKeepsOrder ==
  ASSUME WholeInv, ReplayInv, ApplyChangeSet
  PROVE  ReplayInv'
<1> DEFINE image == [disk EXCEPT !.state_nodes = @ \cup {NewRoot}]
<1>a. /\ disk \in Image /\ disk \in durable /\ job.step = "apply" /\ up /\ step = "idle"
      /\ job \in [step : JobStep, tx : Hash \cup {None}, base : StateRoot]
  BY ReplayTypes DEF ApplyChangeSet, WholeInv, NodeInv, JobOK
<1>b. /\ image.sequencer_info = disk.sequencer_info /\ image.txs = disk.txs
      /\ image.mapping = disk.mapping /\ image.startup_info = disk.startup_info
      /\ image.execution_info = disk.execution_info
  BY <1>a DEF Image
<1>c. /\ disk' = image /\ durable' = durable \cup {image} /\ job' = [job EXCEPT !.step = "startup_info"]
      /\ UNCHANGED <<up, step, root, reader_root, replay, serving, reverted, revert, last_info>>
  BY DEF ApplyChangeSet, put, memVars, nodeHist
<1> HIDE DEF image
<1>j. job'.step = "startup_info" /\ job'.tx = job.tx
  BY <1>a, <1>c
<1>d. Last' = Last
  BY <1>b, <1>c DEF Last
<1>1. (\A i \in durable' : ImageInOrder(i, Last', reverted')) /\ CallTakesOrder'
  BY <1>a, <1>b, <1>c, <1>d, ReplayFrame
<1>2. HeadExecuted'
  BY <1>j DEF HeadExecuted
<1>3. JobIsHead' /\ RootsAgree' /\ RevertsHead'
  BY <1>a, <1>b, <1>c, <1>d, <1>j DEF ReplayInv, JobIsHead, RootsAgree, RevertsHead, Executing
<1> QED BY <1>1, <1>2, <1>3 DEF ReplayInv

(* The startup info: the transaction of the last order enters the state.   *)
LEMMA StartupInfoKeepsOrder ==
  ASSUME WholeInv, ReplayInv, SaveStartupInfo
  PROVE  ReplayInv'
<1> DEFINE image == [disk EXCEPT !.startup_info = NewRoot]
<1>a. /\ disk \in Image /\ disk \in durable /\ job.step = "startup_info" /\ up /\ step = "idle"
      /\ Last \in Order /\ job.tx \in Hash /\ NewRoot \in StateRoot
      /\ job \in [step : JobStep, tx : Hash \cup {None}, base : StateRoot]
  BY ReplayTypes, NodeTypes DEF SaveStartupInfo, WholeInv, NodeInv, JobOK
<1>e. NewRoot = Append(disk.startup_info, job.tx) /\ job.tx \notin Range(disk.startup_info)
  <2>1. job.base = root /\ job.tx \notin Range(job.base)
    BY <1>a DEF WholeInv, ExecutorInv, JobRoots
  <2>2. root = disk.startup_info
    BY <1>a DEF ReplayInv, RootsAgree
  <2> QED BY <2>1, <2>2 DEF NewRoot
<1>b. /\ image.sequencer_info = disk.sequencer_info /\ image.txs = disk.txs
      /\ image.mapping = disk.mapping /\ image.startup_info = Append(disk.startup_info, job.tx)
      /\ image.execution_info = disk.execution_info /\ image \in Image
  BY <1>a, <1>e DEF Image
<1>c. /\ disk' = image /\ durable' = {image} /\ job' = [job EXCEPT !.step = "execution_info"]
      /\ UNCHANGED <<up, step, root, reader_root, replay, serving, reverted, revert, last_info>>
  BY DEF SaveStartupInfo, put_sync, memVars, nodeHist
<1> HIDE DEF image
<1>j. job'.step = "execution_info" /\ job'.tx = job.tx
  BY <1>a, <1>c
<1>d. Last' = Last
  BY <1>b, <1>c DEF Last
<1>1. ImageInOrder(image, Last, reverted)
  <2>1. ImageInOrder(disk, Last, reverted) /\ disk.mapping[Last] = job.tx
    BY <1>a DEF ReplayInv, JobIsHead, Executing
  <2> QED BY <2>1, <1>a, <1>b, <1>e, ExecuteLast
<1>2. (\A i \in durable' : ImageInOrder(i, Last', reverted')) /\ CallTakesOrder'
  BY <1>1, <1>a, <1>c, <1>d DEF CallTakesOrder
<1>3. HeadExecuted'
  BY <1>j DEF HeadExecuted
<1>4. JobIsHead' /\ RootsAgree' /\ RevertsHead'
  BY <1>a, <1>b, <1>c, <1>d, <1>j DEF ReplayInv, JobIsHead, RootsAgree, RevertsHead, Executing
<1> QED BY <1>2, <1>3, <1>4 DEF ReplayInv

(* The execution info: the last order counts as executed.                  *)
LEMMA ExecutionInfoKeepsOrder ==
  ASSUME WholeInv, ReplayInv, SaveExecutionInfo
  PROVE  ReplayInv'
<1> DEFINE image == [disk EXCEPT !.execution_info[job.tx] = NewRoot]
<1>a. /\ disk \in Image /\ disk \in durable /\ durable \subseteq Image
      /\ job.step = "execution_info" /\ up /\ step = "idle"
      /\ Last \in Order /\ job.tx \in Hash /\ NewRoot \in StateRoot /\ None \notin Hash
      /\ job \in [step : JobStep, tx : Hash \cup {None}, base : StateRoot]
  BY ReplayTypes, NodeTypes DEF SaveExecutionInfo, WholeInv, NodeInv, JobOK
<1>e. NewRoot # None /\ disk.startup_info = NewRoot /\ job.tx \in Range(disk.startup_info)
  <2>1. disk.startup_info = NewRoot
    BY <1>a DEF WholeInv, ExecutorInv, JobRoots
  <2>2. job.tx \in Range(NewRoot)
    BY <1>a, RootAppend DEF NewRoot
  <2> QED BY <1>a, <2>1, <2>2, NoneAssumption
<1>b. /\ image.sequencer_info = disk.sequencer_info /\ image.txs = disk.txs
      /\ image.mapping = disk.mapping /\ image.startup_info = disk.startup_info
      /\ image.execution_info = [disk.execution_info EXCEPT ![job.tx] = NewRoot] /\ image \in Image
  BY <1>a DEF Image
<1>c. /\ disk' = image /\ durable' = durable \cup {image} /\ job' = [job EXCEPT !.step = "propose"]
      /\ root' = NewRoot
      /\ UNCHANGED <<up, step, reader_root, replay, serving, reverted, revert, last_info>>
  BY DEF SaveExecutionInfo, put, memVars, nodeHist
<1> HIDE DEF image
<1>j. job'.step = "propose" /\ job'.tx = job.tx
  BY <1>a, <1>c
<1>d. Last' = Last
  BY <1>b, <1>c DEF Last
<1>m. /\ ImageInOrder(disk, Last, reverted) /\ disk.mapping[Last] = job.tx
      /\ \A i \in durable : ImageInOrder(i, Last, reverted)
  BY <1>a DEF ReplayInv, JobIsHead, Executing
<1>1. ImageInOrder(image, Last, reverted) /\ image.execution_info[job.tx] # None
  <2>1. disk.execution_info \in [Hash -> StateRoot \cup {None}]
    BY <1>a DEF Image
  <2>2. /\ image.execution_info[job.tx] # None
        /\ \A g \in Hash : g # job.tx => image.execution_info[g] = disk.execution_info[g]
    BY <2>1, <1>a, <1>b, <1>e
  <2> QED BY <2>2, <1>m, <1>a, <1>b, <1>e, StoreExecutionInfo
<1>2. (\A i \in durable' : ImageInOrder(i, Last', reverted')) /\ CallTakesOrder'
  BY <1>1, <1>m, <1>a, <1>c, <1>d DEF CallTakesOrder
<1>3. HeadExecuted'
  <2>1. ExecutedIn(image, Last)
    BY <1>1, <1>m, <1>a, <1>b DEF ExecutedIn
  <2> QED BY <2>1, <1>c, <1>d DEF HeadExecuted
<1>4. JobIsHead' /\ RevertsHead'
  BY <1>a, <1>b, <1>c, <1>d, <1>j DEF ReplayInv, JobIsHead, RevertsHead, Executing
<1>5. RootsAgree'
  BY <1>b, <1>c, <1>e, <1>j DEF RootsAgree
<1> QED BY <1>2, <1>3, <1>4, <1>5 DEF ReplayInv

(* The proposer, and the answer: no write.                                 *)
LEMMA AnswerKeepsOrder ==
  ASSUME WholeInv, ReplayInv, ProposeTransaction \/ RefreshState
  PROVE  ReplayInv'
<1>a. /\ UNCHANGED <<disk, durable, up, step, root, reverted, revert, last_info>>
      /\ up /\ job.step \in {"propose", "refresh"} /\ step = "idle"
      /\ job \in [step : JobStep, tx : Hash \cup {None}, base : StateRoot]
      /\ ExecutedIn(disk, Last) /\ (serving \/ replay # << >>) /\ (serving => replay = << >>)
  BY ReplayTypes
  DEF ProposeTransaction, RefreshState, seqVars, nodeHist, ReplayInv, HeadExecuted, WholeInv, NodeInv, JobOK
<1>b. Last' = Last
  BY <1>a DEF Last
<1>1. (\A image \in durable' : ImageInOrder(image, Last', reverted')) /\ CallTakesOrder'
  BY <1>a, <1>b, ReplayFrame
<1>2. HeadExecuted' /\ RevertsHead'
  BY <1>a, <1>b DEF ReplayInv, HeadExecuted, RevertsHead
<1>3. CASE ProposeTransaction
  <2>1. job'.step = "refresh" /\ job'.tx = job.tx /\ UNCHANGED <<reader_root, replay, serving>>
    BY <1>3, <1>a DEF ProposeTransaction
  <2>2. JobIsHead' /\ RootsAgree'
    BY <2>1, <1>a, <1>b DEF ReplayInv, JobIsHead, RootsAgree, Executing
  <2> QED BY <2>2, <1>1, <1>2 DEF ReplayInv
<1>4. CASE RefreshState
  <2>1. job'.step = "none" /\ reader_root' = NewRoot /\ root = NewRoot
    BY <1>4, <1>a DEF RefreshState, NoJob, WholeInv, ExecutorInv, JobRoots
  <2>2. replay' = << >>
    <3>1. CASE serving
      BY <1>4, <3>1, <1>a DEF RefreshState
    <3>2. CASE ~serving
      <4>1. replay' = Tail(replay) /\ Len(replay) = 1 /\ replay \in Seq(Hash)
        BY <1>4, <3>2, <1>a DEF RefreshState, ReplayInv, JobIsHead, WholeInv, NodeInv, JobOK
      <4> QED BY <4>1
    <3> QED BY <3>1, <3>2
  <2>3. JobIsHead'
    BY <2>1, <2>2, <1>a, <1>b DEF ReplayInv, JobIsHead, Executing
  <2>4. RootsAgree'
    BY <2>1, <1>a DEF ReplayInv, RootsAgree
  <2> QED BY <2>3, <2>4, <1>1, <1>2 DEF ReplayInv
<1> QED BY <1>3, <1>4

(* The process ends, in a crash, a panic or a failed replay.               *)
LEMMA ExitKeepsOrder ==
  ASSUME WholeInv, ReplayInv, up, Exit, disk' \in durable, durable' \subseteq durable
  PROVE  ReplayInv'
<1>a. /\ ~up' /\ job'.step = "none" /\ step' = "idle" /\ replay' = << >>
      /\ UNCHANGED <<reverted, revert>> /\ revert.step = "none"
  BY ReplayTypes DEF Exit, MemoryLost, NoJob, nodeHist
<1>b. Last' = Last
  BY ReplayTypes DEF Last
<1>1. (\A image \in durable' : ImageInOrder(image, Last', reverted')) /\ CallTakesOrder'
  BY <1>a, <1>b, ReplayFrame
<1>2. HeadExecuted' /\ JobIsHead' /\ RootsAgree' /\ RevertsHead'
  BY <1>a DEF HeadExecuted, JobIsHead, RootsAgree, RevertsHead, Executing
<1> QED BY <1>1, <1>2 DEF ReplayInv

(* The scan finds at most the last order.                                  *)
LEMMA ScanFindsLast ==
  ASSUME WholeInv, ReplayInv
  PROVE  /\ Unexecuted = << >> => ExecutedIn(disk, Last)
         /\ Unexecuted # << >> => Len(Unexecuted) = 1 /\ Unexecuted[1] = disk.mapping[Last]
<1>a. disk \in durable /\ Last \in Order /\ Last \in Nat
  BY ReplayTypes
<1>s. Scanned = {o \in 1..Last : \A later \in o..Last : ~ExecutedIn(disk, later)}
  BY DEF Scanned, Last, ExecutedIn
<1>u. Unexecuted = [i \in 1..Cardinality(Scanned) |-> disk.mapping[Last - i + 1]]
  BY DEF Unexecuted, Last
<1>c. \A o \in Order : o < Last \/ o = 0 => ExecutedIn(disk, o)
  BY <1>a DEF ReplayInv, ImageInOrder, Complete
<1>d. \A o \in 1..Last : o \in Order /\ o \in o..Last
  BY <1>a, MaxOrderAssumption DEF Order
<1>1. CASE ExecutedIn(disk, Last)
  <2>1. Scanned = {}
    <3> SUFFICES ASSUME NEW o \in 1..Last PROVE Last \in o..Last
      BY <1>s, <1>1
    <3> QED BY <1>a
  <2>2. Cardinality(Scanned) = 0
    BY <2>1, FS_EmptySet
  <2>3. Unexecuted = << >>
    BY <1>u, <2>2
  <2> QED BY <1>1, <2>3
<1>2. CASE ~ExecutedIn(disk, Last)
  <2>1. Last # 0
    BY <1>2, <1>c, <1>a
  <2>2. Scanned = {Last}
    <3>1. Last \in 1..Last /\ \A later \in Last..Last : later = Last
      BY <2>1, <1>a
    <3>2. Last \in Scanned
      BY <3>1, <1>2, <1>s
    <3>3. ASSUME NEW o \in Scanned PROVE o = Last
      <4>1. o \in 1..Last /\ ~ExecutedIn(disk, o)
        BY <3>3, <1>s, <1>d
      <4>2. ~(o < Last)
        BY <4>1, <1>c, <1>d
      <4> QED BY <4>1, <4>2, <1>a
    <3> QED BY <3>2, <3>3
  <2>3. Cardinality(Scanned) = 1
    BY <2>2, FS_Singleton
  <2>4. /\ DOMAIN Unexecuted = 1..1 /\ Unexecuted[1] = disk.mapping[Last - 1 + 1]
        /\ Unexecuted \in Seq({disk.mapping[Last - i + 1] : i \in 1..1})
    BY <1>u, <2>3
  <2>5. Len(Unexecuted) = 1 /\ Last - 1 + 1 = Last
    BY <2>4, <1>a
  <2> QED BY <2>4, <2>5
<1> QED BY <1>1, <1>2

(* The node starts, and has the last order to replay or to build on.       *)
LEMMA StartKeepsOrder ==
  ASSUME WholeInv, ReplayInv, StartNode("Active")
  PROVE  ReplayInv'
<1>a. /\ disk' = disk /\ durable' = {disk} /\ up' /\ UNCHANGED <<step, job, reverted, revert>>
      /\ revert.step = "none" /\ ~up /\ step = "idle" /\ job.step = "none"
      /\ root' = disk.startup_info /\ reader_root' = disk.startup_info
      /\ last_info' = disk.sequencer_info
      /\ replay' = Unexecuted /\ serving' = (replay' = << >>)
      /\ disk \in durable
  BY ReplayTypes DEF StartNode, Start, Open, nodeHist
<1>b. Last' = Last /\ last_info'.last_order = Last
  BY <1>a DEF Last
<1>1. (\A image \in durable' : ImageInOrder(image, Last', reverted')) /\ CallTakesOrder'
  BY <1>a, <1>b, ReplayFrame
<1>2. HeadExecuted'
  BY <1>a, <1>b, ScanFindsLast DEF HeadExecuted
<1>3. JobIsHead'
  BY <1>a, <1>b, ScanFindsLast DEF JobIsHead, Executing
<1>4. RootsAgree' /\ RevertsHead'
  BY <1>a DEF RootsAgree, RevertsHead
<1> QED BY <1>1, <1>2, <1>3, <1>4 DEF ReplayInv

(* The replay loop takes the transaction of the last order.                *)
LEMMA ReplayNextKeepsOrder ==
  ASSUME WholeInv, ReplayInv, ReplayNext
  PROVE  ReplayInv'
<1>a. /\ UNCHANGED <<disk, durable, up, step, root, reader_root, replay, serving, reverted, revert, last_info>>
      /\ up /\ replay # << >> /\ job.step = "none" /\ step = "idle"
      /\ job'.step = "apply" /\ job'.tx = Head(replay) /\ disk.txs[Head(replay)] # None
  BY ReplayTypes DEF ReplayNext, Replayable, seqVars, nodeHist
<1>b. Last' = Last
  BY <1>a DEF Last
<1>c. Head(replay) = disk.mapping[Last]
  <2>1. replay[1] = disk.mapping[Last]
    BY <1>a DEF ReplayInv, JobIsHead
  <2>2. replay \in Seq(Hash)
    BY DEF WholeInv, NodeInv, JobOK
  <2> QED BY <1>a, <2>1, <2>2
<1>1. (\A image \in durable' : ImageInOrder(image, Last', reverted')) /\ CallTakesOrder'
  BY <1>a, <1>b, ReplayFrame
<1>2. HeadExecuted' /\ RootsAgree' /\ RevertsHead'
  BY <1>a, <1>b DEF ReplayInv, HeadExecuted, RootsAgree, RevertsHead
<1>3. JobIsHead'
  BY <1>a, <1>b, <1>c DEF ReplayInv, JobIsHead
<1> QED BY <1>1, <1>2, <1>3 DEF ReplayInv

(* An operator takes the last order back, while the node is down.          *)
LEMMA RevertTxKeepsOrder ==
  ASSUME WholeInv, ReplayInv, NEW o \in Order, RevertTx(o)
  PROVE  ReplayInv'
<1> DEFINE h == disk.mapping[o]
           image == [disk EXCEPT !.sequencer_info =
                       [last_order |-> Last - 1, acc |-> disk.txs[disk.mapping[Last - 1]].acc]]
<1>a. /\ disk \in Image /\ disk \in durable /\ Last \in Order /\ Last \in Nat /\ ~up /\ step = "idle"
      /\ job.step = "none" /\ h \in Hash
  <2>1. h # None /\ ~up
    BY DEF RevertTx, RevertInfo
  <2>2. h \in Hash \cup {None}
    BY ReplayTypes, ImageOrders
  <2> QED BY <2>1, <2>2, ReplayTypes
<1>b. /\ image.sequencer_info.last_order = Last - 1 /\ image.txs = disk.txs
      /\ image.mapping = disk.mapping /\ image.startup_info = disk.startup_info
      /\ image.execution_info = disk.execution_info
  BY <1>a DEF Image
<1>c. /\ disk' = image /\ durable' = {image}
      /\ disk.txs[h] # None /\ disk.txs[h].last_order = Last /\ Last > 0
      /\ disk.execution_info[h] = None
      /\ revert' = [hash |-> h, order |-> Last, step |-> "remove_tx"]
      /\ reverted' = reverted \cup {h}
      /\ UNCHANGED <<up, step, job, replay>>
  BY DEF RevertTx, RevertInfo, put_sync, memVars, execVars, Last
<1> HIDE DEF image, h
<1>h. h = disk.mapping[o]
  BY DEF h
<1>d. Last' = Last - 1 /\ Last' + 1 = Last
  <2>1. Last' = Last - 1
    BY <1>b, <1>c DEF Last
  <2> QED BY <2>1, <1>a
<1>1. ImageInOrder(disk, Last - 1, reverted \cup {h})
  <2>1. ImageInOrder(disk, Last, reverted)
    BY <1>a DEF ReplayInv
  <2> QED BY <2>1, <1>a, <1>c, <1>h, TakeBackLast
<1>2. ImageInOrder(image, Last - 1, reverted \cup {h})
  BY <1>1, <1>b, SameOrder
<1>3. (\A i \in durable' : ImageInOrder(i, Last', reverted')) /\ CallTakesOrder'
  BY <1>2, <1>a, <1>c, <1>d DEF CallTakesOrder
<1>4. HeadExecuted' /\ RootsAgree'
  BY <1>a, <1>c DEF HeadExecuted, RootsAgree
<1>5. JobIsHead'
  BY <1>a, <1>c DEF JobIsHead, Executing, ReplayInv
<1>6. RevertsHead'
  BY <1>c, <1>d DEF RevertsHead
<1> QED BY <1>3, <1>4, <1>5, <1>6 DEF ReplayInv

(* The removals of a revert, and a crash while the node is down.           *)
LEMMA RevertOtherKeepsOrder ==
  ASSUME WholeInv, ReplayInv, RevertOther
  PROVE  ReplayInv'
<1>a. /\ disk \in Image /\ disk \in durable /\ durable \subseteq Image
      /\ Last \in Order /\ Last \in Nat /\ ~up /\ step = "idle" /\ job.step = "none"
      /\ (revert.step # "none" => revert.hash \in Hash) /\ replay = << >>
      /\ UNCHANGED <<up, step, job, replay, reverted, root, reader_root>>
  BY ReplayTypes
  DEF ReplayInv, JobIsHead, RevertOther, RevertRemoveTx, RevertRemoveMapping, RevertCrash, memVars, execVars, nodeHist
<1>0. \A i \in durable : ImageInOrder(i, Last, reverted)
  BY DEF ReplayInv
<1>p. ASSUME NEW image \in Image, disk' = image, durable' = durable \cup {image},
             image.sequencer_info = disk.sequencer_info, ImageInOrder(image, Last, reverted)
      PROVE  /\ \A i \in durable' : ImageInOrder(i, Last', reverted')
             /\ CallTakesOrder' /\ HeadExecuted' /\ RootsAgree' /\ Last' = Last
  <2>1. Last' = Last
    BY <1>p DEF Last
  <2> QED BY <2>1, <1>0, <1>a, <1>p DEF CallTakesOrder, HeadExecuted, RootsAgree
<1>1. CASE RevertRemoveTx
  <2> DEFINE image == [disk EXCEPT !.txs[revert.hash] = None]
  <2>1. /\ image.sequencer_info = disk.sequencer_info
        /\ image.txs = [disk.txs EXCEPT ![revert.hash] = None]
        /\ image.mapping = disk.mapping /\ image.startup_info = disk.startup_info
        /\ image.execution_info = disk.execution_info /\ image \in Image
    BY <1>a DEF Image
  <2>2. /\ disk' = image /\ durable' = durable \cup {image} /\ revert.step # "none"
        /\ revert'.order = revert.order /\ revert'.hash = revert.hash
    <3>1. revert \in RevertState
      BY DEF WholeInv, TypeOKPipeline, TypeOKSequencer
    <3> QED BY <1>1, <3>1 DEF RevertRemoveTx, put, RevertState
  <2> HIDE DEF image
  <2>3. revert.hash \in reverted /\ revert.order = Last + 1
    BY <2>2 DEF ReplayInv, RevertsHead
  <2>4. ImageInOrder(image, Last, reverted)
    BY <1>0, <1>a, <2>1, <2>2, <2>3, RemoveReverted
  <2>5. /\ \A i \in durable' : ImageInOrder(i, Last', reverted')
        /\ CallTakesOrder' /\ HeadExecuted' /\ RootsAgree' /\ Last' = Last
    BY <1>p, <2>1, <2>2, <2>4
  <2>6. JobIsHead' /\ RevertsHead'
    BY <1>a, <2>2, <2>3, <2>5 DEF JobIsHead, RevertsHead, Executing
  <2> QED BY <2>5, <2>6 DEF ReplayInv
<1>2. CASE RevertRemoveMapping
  <2> DEFINE image == [disk EXCEPT !.mapping[revert.order] = None]
  <2>0. revert.order = Last + 1
    BY <1>2 DEF ReplayInv, RevertsHead, RevertRemoveMapping
  <2>1. /\ image.sequencer_info = disk.sequencer_info
        /\ image.mapping = [disk.mapping EXCEPT ![Last + 1] = None]
        /\ image.txs = disk.txs /\ image.startup_info = disk.startup_info
        /\ image.execution_info = disk.execution_info /\ image \in Image
    BY <1>a, <2>0 DEF Image
  <2>2. disk' = image /\ durable' = durable \cup {image} /\ revert'.step = "none"
    BY <1>2 DEF RevertRemoveMapping, put, NoRevert
  <2> HIDE DEF image
  <2>4. ImageInOrder(image, Last, reverted)
    BY <1>0, <1>a, <2>1, RemoveReverted
  <2>5. /\ \A i \in durable' : ImageInOrder(i, Last', reverted')
        /\ CallTakesOrder' /\ HeadExecuted' /\ RootsAgree' /\ Last' = Last
    BY <1>p, <2>1, <2>2, <2>4
  <2>6. JobIsHead' /\ RevertsHead'
    BY <1>a, <2>2, <2>5 DEF JobIsHead, RevertsHead, Executing
  <2> QED BY <2>5, <2>6 DEF ReplayInv
<1>3. CASE RevertCrash
  <2>1. disk' \in durable /\ durable' \subseteq durable /\ revert'.step = "none"
    BY <1>3 DEF RevertCrash, Recover, NoRevert
  <2>2. Last' = Last
    BY <2>1, ReplayTypes DEF Last
  <2>3. (\A i \in durable' : ImageInOrder(i, Last', reverted')) /\ CallTakesOrder'
    BY <1>a, <2>1, <2>2, ReplayFrame
  <2>4. HeadExecuted' /\ RootsAgree' /\ JobIsHead' /\ RevertsHead'
    BY <1>a, <2>1 DEF HeadExecuted, RootsAgree, JobIsHead, RevertsHead, Executing
  <2> QED BY <2>3, <2>4 DEF ReplayInv
<1> QED BY <1>1, <1>2, <1>3 DEF RevertOther

(* The condition on the history of errors only gets weaker backwards.      *)
LEMMA FaultsGrow ==
  ASSUME WholeInv, [NextPipeline]_vars, OnlyCrashes'
  PROVE  OnlyCrashes
<1>1. faults \in Nat
  BY ReplayTypes
<1>2. faults' = faults \/ faults' = faults + 1
  BY DEF NextPipeline, PipelineStep, Submit, Sequence, Sequencing, Flush, SaveSequencerInfo, SaveTx,
     Sequenced, SaveMapping, SequenceFailed, NotContinuous, StorageError, ApplyChangeSet,
     SaveStartupInfo, SaveExecutionInfo, ProposeTransaction, RefreshState, ExecutorError,
     SystemCallPanics, NodeCrash, StartNode, Start, ReplayNext, ReplayFails, UpdateIndexer,
     IndexerError, RevertTx, RevertInfo, RevertOther, RevertRemoveTx, RevertRemoveMapping,
     RevertCrash, vars, seqVars
<1> QED BY <1>1, <1>2 DEF OnlyCrashes

(* Every step keeps the order of execution.                                *)
LEMMA ReplayStep ==
  ASSUME WholeInv, OnlyCrashes => ReplayInv, [NextPipeline]_vars
  PROVE  OnlyCrashes' => ReplayInv'
<1> SUFFICES ASSUME OnlyCrashes' PROVE ReplayInv'
  OBVIOUS
<1>a. ReplayInv /\ OnlyCrashes /\ faults' = 0 /\ faults = 0 /\ Modes \subseteq {"Active"}
  BY FaultsGrow DEF OnlyCrashes
<1>1. ASSUME NEW t \in Tx, Submit(t) PROVE ReplayInv'
  BY <1>1, <1>a, SubmitKeepsOrder
<1>2. CASE Sequencing
  BY <1>2, <1>a, FlushKeepsOrder, SaveInfoKeepsOrder, SaveTxKeepsOrder DEF Sequencing
<1>3. CASE SequenceFailed
  <2>1. ~NotContinuous
    <3> SUFFICES ASSUME NotContinuous PROVE FALSE
      OBVIOUS
    <3>1. up /\ step = "save_info" /\ ~Continuous(NewInfo)
      BY DEF NotContinuous
    <3>2. last_info.last_order = Last
      BY <1>a, <3>1 DEF ReplayInv, JobIsHead
    <3> QED BY <3>1, <3>2 DEF Continuous, NewInfo, Last
  <2> QED BY <1>3, <1>a, <2>1 DEF SequenceFailed, StorageError
<1>4. CASE Sequenced \/ ApplyChangeSet \/ SaveStartupInfo \/ SaveExecutionInfo
  BY <1>4, <1>a, SequencedKeepsOrder, ApplyKeepsOrder, StartupInfoKeepsOrder, ExecutionInfoKeepsOrder
<1>5. CASE ProposeTransaction \/ RefreshState \/ ReplayNext
  BY <1>5, <1>a, AnswerKeepsOrder, ReplayNextKeepsOrder
<1>6. CASE SystemCallPanics \/ ReplayFails \/ NodeCrash
  <2>1. disk \in durable
    BY ReplayTypes
  <2>2. up /\ Exit /\ disk' \in durable /\ durable' \subseteq durable
    BY <1>6, <2>1 DEF SystemCallPanics, ReplayFails, NodeCrash, Recover, dbVars
  <2> QED BY <2>2, <1>a, ExitKeepsOrder
<1>7. CASE ExecutorError \/ IndexerError
  BY <1>7, <1>a DEF ExecutorError, IndexerError
<1>8. ASSUME NEW s \in Modes, StartNode(s) PROVE ReplayInv'
  BY <1>8, <1>a, StartKeepsOrder
<1>9. CASE UpdateIndexer \/ UNCHANGED vars
  <2>1. /\ UNCHANGED <<disk, durable, up, step, job, root, reader_root, replay, serving, reverted,
                       revert, last_info>>
    BY <1>9 DEF UpdateIndexer, vars, seqVars, execVars, nodeHist
  <2>2. Last' = Last
    BY <2>1 DEF Last
  <2>3. (\A image \in durable' : ImageInOrder(image, Last', reverted')) /\ CallTakesOrder'
    BY <1>a, <2>1, <2>2, ReplayFrame
  <2>4. HeadExecuted' /\ JobIsHead' /\ RootsAgree' /\ RevertsHead'
    BY <1>a, <2>1, <2>2 DEF ReplayInv, HeadExecuted, JobIsHead, RootsAgree, RevertsHead
  <2> QED BY <2>3, <2>4 DEF ReplayInv
<1>10. ASSUME NEW o \in Order, RevertTx(o) PROVE ReplayInv'
  BY <1>10, <1>a, RevertTxKeepsOrder
<1>11. CASE RevertOther
  BY <1>11, <1>a, RevertOtherKeepsOrder
<1> QED BY <1>1, <1>2, <1>3, <1>4, <1>5, <1>6, <1>7, <1>8, <1>9, <1>10, <1>11
        DEF NextPipeline, PipelineStep

(* A genesis database.                                                     *)
LEMMA ReplayInit == InitPipeline => ReplayInv
<1> SUFFICES ASSUME InitPipeline PROVE ReplayInv
  OBVIOUS
<1>1. /\ disk = GenesisImage /\ durable = {disk} /\ reverted = {} /\ step = "idle" /\ job.step = "none"
      /\ replay = << >> /\ revert.step = "none" /\ last_info = GenesisInfo
      /\ root = disk.startup_info /\ reader_root = disk.startup_info
  BY DEF InitPipeline, InitSequencer, InitDB, NoJob, NoRevert
<1>2. /\ disk.sequencer_info = GenesisInfo /\ GenesisInfo.last_order = 0
      /\ disk.txs = [h \in Hash |-> IF h = Genesis THEN GenesisInfo ELSE None]
      /\ disk.mapping = [o \in Order |-> IF o = 0 THEN Genesis ELSE None]
      /\ disk.startup_info = <<Genesis>>
      /\ disk.execution_info = [h \in Hash |-> IF h = Genesis THEN <<Genesis>> ELSE None]
  BY <1>1 DEF GenesisImage, GenesisInfo
<1>3. /\ Genesis \in Hash /\ Genesis # None /\ 0 \in Order /\ Last = 0
      /\ <<Genesis>> # None /\ \A o \in Order : o \in Nat
  <2>1. <<Genesis>> \in StateRoot
    BY DEF StateRoot, Hash
  <2> QED BY <1>2, <2>1, TxAssumption, MaxOrderAssumption, NoneAssumption DEF Hash, Order, Last
<1>4. ExecutedIn(disk, 0)
  BY <1>2, <1>3 DEF ExecutedIn
<1>5. Complete(disk, 0) /\ StaleNext(disk, 0)
  BY <1>2, <1>3, <1>4 DEF Complete, StaleNext
<1>6. StoredAtOrder(disk) /\ InfoInState(disk)
  <2>1. Genesis \in Range(disk.startup_info)
    BY <1>2 DEF Range
  <2> QED BY <1>2, <1>3, <2>1 DEF StoredAtOrder, InfoInState
<1>7. DOMAIN disk.startup_info = {1} /\ disk.startup_info[1] = Genesis
  BY <1>2
<1>8. KeptMapped(disk, 0, {}) /\ KeptSorted(disk, {})
  BY <1>2, <1>3, <1>7 DEF KeptMapped, KeptSorted, Kept, OrderOf
<1>9. ImageInOrder(disk, Last, reverted)
  BY <1>1, <1>3, <1>5, <1>6, <1>8 DEF ImageInOrder
<1>10. CallTakesOrder /\ HeadExecuted /\ JobIsHead /\ RootsAgree /\ RevertsHead
  BY <1>1, <1>2, <1>3, <1>4 DEF CallTakesOrder, HeadExecuted, JobIsHead, RootsAgree, RevertsHead, Executing
<1> QED BY <1>1, <1>9, <1>10 DEF ReplayInv

(* The invariant of a node that is always started active and whose writes  *)
(* do not fail, wherever it crashes and whatever operators revert, cut off *)
(* or not.                                                                 *)
THEOREM ReplayInvariant == SpecPipeline => [](WholeInv /\ (OnlyCrashes => ReplayInv))
<1>1. InitPipeline => (OnlyCrashes => ReplayInv)
  BY ReplayInit
<1>2. WholeInv /\ (OnlyCrashes => ReplayInv) /\ [NextPipeline]_vars => (OnlyCrashes => ReplayInv)'
  BY ReplayStep
<1> QED BY <1>1, <1>2, WholeInvariant, PTL DEF SpecPipeline

(* Such a node executes in the order of the ledger.                        *)
THEOREM NodeExecutesInOrder == SpecPipeline => [](OnlyCrashes => ExecutedInOrder)
<1>1. WholeInv /\ (OnlyCrashes => ReplayInv) => (OnlyCrashes => ExecutedInOrder)
  <2> SUFFICES ASSUME WholeInv, ReplayInv PROVE ExecutedInOrder
    OBVIOUS
  <2>1. KeptSorted(disk, reverted)
    BY ReplayTypes DEF ReplayInv, ImageInOrder
  <2> QED BY <2>1 DEF KeptSorted, Kept, OrderOf, ExecutedInOrder
<1> QED BY <1>1, ReplayInvariant, PTL

(* It leaves nothing out: the startup scan may stop at the first executed  *)
(* transaction it meets.                                                   *)
THEOREM NodeSkipsNone == SpecPipeline => [](OnlyCrashes => NoneSkipped)
<1>1. WholeInv /\ (OnlyCrashes => ReplayInv) => (OnlyCrashes => NoneSkipped)
  <2> SUFFICES ASSUME WholeInv, ReplayInv PROVE NoneSkipped
    OBVIOUS
  <2>1. disk \in durable /\ Last \in Order /\ Last \in Nat
    BY ReplayTypes
  <2>2. Complete(disk, Last)
    BY <2>1 DEF ReplayInv, ImageInOrder
  <2> SUFFICES ASSUME NEW o \in 0..Last, ExecutedIn(disk, o), NEW earlier \in 0..o
               PROVE  ExecutedIn(disk, earlier)
    BY DEF NoneSkipped, ExecutedIn, Last
  <2>3. earlier \in Order /\ (earlier < Last \/ earlier = o)
    BY <2>1, MaxOrderAssumption DEF Order
  <2> QED BY <2>2, <2>3 DEF Complete
<1> QED BY <1>1, ReplayInvariant, PTL

(* process_sequenced_tx_on_startup collects what it finds from the last    *)
(* order down, and replays it in that order: there is never more than one  *)
(* transaction to replay.                                                  *)
THEOREM NodeReplaysAtMostOne == SpecPipeline => [](OnlyCrashes => Len(Unexecuted) <= 1)
<1>1. WholeInv /\ (OnlyCrashes => ReplayInv) => (OnlyCrashes => Len(Unexecuted) <= 1)
  <2> SUFFICES ASSUME WholeInv, ReplayInv PROVE Len(Unexecuted) <= 1
    OBVIOUS
  <2>1. CASE Unexecuted = << >>
    <3>1. Len(<< >>) = 0
      OBVIOUS
    <3> QED BY <2>1, <3>1
  <2>2. CASE Unexecuted # << >>
    <3>1. Len(Unexecuted) = 1
      BY <2>2, ScanFindsLast
    <3> QED BY <3>1
  <2> QED BY <2>1, <2>2
<1> QED BY <1>1, ReplayInvariant, PTL
=============================================================================
