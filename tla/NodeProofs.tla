----------------------------- MODULE NodeProofs -----------------------------
(***************************************************************************)
(* What a node has executed and told its clients no crash takes back: the  *)
(* invariants of the executor, of its readers and of the indexer, and of   *)
(* the ledger's entries of what was acknowledged.                          *)
(***************************************************************************)
EXTENDS PipelineProofs

(* The roots that no crash, storage error or retry takes back: the         *)
(* executor's and the reader's while the node runs, the startup state      *)
(* while it is down.                                                       *)
Settled == IF up THEN root ELSE disk.startup_info
\* The root readers see: the reader executor's, or after a stop the stored one.
Seen == IF up THEN reader_root ELSE disk.startup_info

\* The phases of execute_tx in which the executor's writes are under way.
Executing == {"apply", "startup_info", "execution_info", "propose", "refresh"}

(* Order 0 and nothing else is the genesis transaction's.                  *)
GenesisApart ==
  /\ \A image \in durable :
       /\ image.txs[Genesis] = GenesisInfo
       /\ \A o \in Order : o > 0 => image.mapping[o] # Genesis
  /\ revert.step # "none" => revert.hash # Genesis /\ revert.order > 0

(* A submitted job is the sequencer's call, then a stored transaction; a   *)
(* replayed one runs before the node serves.  Once the startup info is     *)
(* synced, so are the entries the sequencer wrote for the transaction.     *)
JobLedger ==
  /\ serving => replay = << >>
  /\ replay \in Seq(Tx)
  /\ job.step # "none" => job.tx \in Tx
  /\ step # "idle" => tx = job.tx /\ serving
  /\ serving /\ job.step \in Executing =>
       disk.txs[job.tx] # None /\ disk.mapping[disk.txs[job.tx].last_order] = job.tx
  /\ serving /\ job.step \in {"execution_info", "propose", "refresh"} =>
       \A image \in durable :
         /\ image.txs[job.tx] = disk.txs[job.tx]
         /\ image.mapping[disk.txs[job.tx].last_order] = job.tx

(* Every change of the startup info is synced, so all images agree on it.  *)
StartupSynced == \A image \in durable : image.startup_info = disk.startup_info

(* The reader follows the executor, which the startup state follows.       *)
RootsFollow ==
  /\ up => Extends(disk.startup_info, root) /\ Extends(root, reader_root)
  /\ IsInjective(disk.startup_info) /\ (up => IsInjective(root))

(* A job runs on the executor's root; its own root is the startup state,   *)
(* then the executor's.  What validate found of an L2 transaction is still *)
(* true when it is executed.                                               *)
JobRoots ==
  /\ job.step \in {"apply", "startup_info", "execution_info"} => job.base = root
  /\ job.step \in {"sequence", "apply"} /\ job.tx \notin L1Tx => job.tx \notin Range(job.base)
  /\ job.step \in {"startup_info", "execution_info"} => job.tx \notin Range(job.base)
  /\ job.step = "execution_info" => disk.startup_info = NewRoot
  /\ job.step \in {"propose", "refresh"} => root = NewRoot
  /\ job.step = "sequence" => job.base = root /\ job.tx \notin Range(reader_root)

(* Stored execution infos, answers, and what the indexer has or is about   *)
(* to have.                                                                *)
ExecutedSettled ==
  \A image \in durable, h \in Hash : image.execution_info[h] # None =>
    Extends(Settled, image.execution_info[h])
\* What a caller was told is in the state that readers see.
AnswersSeen == \A a \in acked : Extends(Seen, a.root) /\ a.tx \in Range(a.root)
\* What the indexer shows, or will show, is in the settled state.
IndexSettled ==
  /\ \A h \in indexed : h \in Range(Settled)
  /\ \A i \in DOMAIN index_queue : index_queue[i] \in Range(Settled)

\* The executor's part of the invariant.
ExecutorInv ==
  /\ StartupSynced /\ RootsFollow /\ JobRoots
  /\ ExecutedSettled /\ AnswersSeen /\ IndexSettled

(* No two stored transactions have the same order.                         *)
OrdersUnique ==
  \A image \in durable : \A g, h \in Hash :
    image.txs[g] # None /\ image.txs[h] # None /\ image.txs[g].last_order = image.txs[h].last_order
      => g = h

(* None is stored beyond the last order, but for the one being reverted.   *)
NothingStoredAhead ==
  /\ up => \A image \in durable, h \in Hash : image.txs[h] # None =>
             image.txs[h].last_order <= disk.sequencer_info.last_order
  /\ step = "save_tx" => \A image \in durable, h \in Hash : image.txs[h] # None =>
             image.txs[h].last_order <= last_info.last_order
  /\ ~up => \A h \in Hash :
       disk.txs[h] # None /\ disk.txs[h].last_order > disk.sequencer_info.last_order =>
         revert.step = "remove_tx" /\ disk.txs[h].last_order = revert.order

(* A revert takes back what it was asked to.                               *)
RevertOK ==
  /\ revert.step = "remove_tx" =>
       disk.txs[revert.hash] # None /\ disk.txs[revert.hash].last_order = revert.order
  /\ revert.step # "none" =>
       \A a \in acked : a.tx # revert.hash /\ a.info.last_order # revert.order

(* Every acknowledged transaction is stored and mapped at its order.       *)
AnswersKept ==
  \A a \in acked, image \in durable :
    image.txs[a.tx] = a.info /\ image.mapping[a.info.last_order] = a.tx

\* The ledger's part, which a revert that was cut off excuses.
LedgerInv == ~torn => OrdersUnique /\ NothingStoredAhead /\ RevertOK /\ AnswersKept

(* The inductive invariant of the whole node.                              *)
WholeInv ==
  /\ NodeInv /\ TypeOKPipeline /\ GenesisApart /\ JobLedger
  /\ ExecutorInv /\ LedgerInv

(***************************************************************************)
(* Facts about roots.                                                      *)
(***************************************************************************)
(* A root that extends another contains its transactions.                  *)
LEMMA ExtendsRange ==
  ASSUME NEW s \in StateRoot, NEW t \in StateRoot, Extends(t, s), NEW h, h \in Range(s)
  PROVE  h \in Range(t)
<1>1. PICK i \in 1..Len(s) : h = s[i]
  BY DEF Range, StateRoot
<1>2. i \in DOMAIN t /\ t[i] = h
  BY <1>1 DEF Extends, StateRoot
<1> QED BY <1>2 DEF Range

\* Extension of roots is reflexive.
LEMMA RootExtendsItself ==
  ASSUME NEW s \in StateRoot PROVE Extends(s, s)
BY DEF Extends, StateRoot

\* Extension of roots is transitive.
LEMMA RootExtendsTransitive ==
  ASSUME NEW s \in StateRoot, NEW t \in StateRoot, NEW u \in StateRoot,
         Extends(t, s), Extends(u, t)
  PROVE  Extends(u, s)
BY DEF Extends, StateRoot

(* What the execution of a transaction does to a root.                     *)
LEMMA RootAppend ==
  ASSUME NEW s \in StateRoot, NEW h \in Hash
  PROVE  /\ Append(s, h) \in StateRoot /\ Extends(Append(s, h), s)
         /\ h \in Range(Append(s, h))
         /\ IsInjective(s) /\ h \notin Range(s) => IsInjective(Append(s, h))
<1>1. Append(s, h) \in StateRoot /\ Extends(Append(s, h), s)
  BY DEF Extends, StateRoot
<1>2. h \in Range(Append(s, h))
  <2>1. Len(s) + 1 \in DOMAIN Append(s, h) /\ Append(s, h)[Len(s) + 1] = h
    BY DEF StateRoot
  <2> QED BY <2>1 DEF Range
<1>3. ASSUME IsInjective(s), h \notin Range(s) PROVE IsInjective(Append(s, h))
  <2>1. \A i \in 1..Len(s) : s[i] # h
    BY <1>3 DEF Range, StateRoot
  <2> QED BY <1>3, <2>1 DEF IsInjective, StateRoot
<1> QED BY <1>1, <1>2, <1>3

(***************************************************************************)
(* The genesis transaction.                                                *)
(***************************************************************************)
(* No step of the sequencer or of the operator touches its entries.        *)
LEMMA GenesisStep ==
  ASSUME SequencerInv, GenesisApart, [NextSequencer]_seqVars
  PROVE  GenesisApart'
<1>a. /\ disk \in Image /\ disk \in durable /\ durable \subseteq Image
      /\ (step # "idle" => tx \in Tx) /\ (~up => step = "idle")
      /\ (revert.step # "none" => ~up)
  BY DEF SequencerInv, TypeOKSequencer, TypeOKDB, CallOK
<1>b. Genesis \in Hash /\ Genesis \notin Tx /\ None # Genesis
  BY TxAssumption DEF Hash
<1>c. ASSUME UNCHANGED revert,
             \A i \in durable' : \E j \in durable : i.txs = j.txs /\ i.mapping = j.mapping
      PROVE  GenesisApart'
  BY <1>c DEF GenesisApart
<1>1. CASE \/ \E t \in Tx : Sequence(t) 
           \/ NotContinuous \/ StorageError \/ FaultElsewhere \/ ProcessExits \/ UNCHANGED seqVars
  BY <1>1, <1>c DEF Sequence, NotContinuous, StorageError, FaultElsewhere, ProcessExits, seqVars,
     MemoryLost, dbVars
<1>2. CASE Flush \/ SaveSequencerInfo
  <2> DEFINE image1 == [disk EXCEPT !.acc_nodes = @ \cup unflushed]
             image2 == [disk EXCEPT !.sequencer_info = NewInfo]
  <2>1. image1.txs = disk.txs /\ image1.mapping = disk.mapping
    BY <1>a DEF Image
  <2>2. image2.txs = disk.txs /\ image2.mapping = disk.mapping
    BY <1>a DEF Image
  <2>3. revert' = revert /\ \A i \in durable' : i \in durable \/ i = image1 \/ i = image2
    BY <1>2 DEF Flush, SaveSequencerInfo, put, put_sync
  <2> HIDE DEF image1, image2
  <2> QED BY <1>a, <1>c, <2>1, <2>2, <2>3
<1>3. CASE SaveTx
  <2> DEFINE image == [disk EXCEPT !.txs[tx] = NewInfo]
  <2>1. image.txs[Genesis] = disk.txs[Genesis] /\ image.mapping = disk.mapping
    BY <1>3, <1>a, <1>b DEF Image, SaveTx
  <2>2. revert' = revert /\ \A i \in durable' : i \in durable \/ i = image
    BY <1>3 DEF SaveTx, put
  <2> HIDE DEF image
  <2> QED BY <1>a, <2>1, <2>2 DEF GenesisApart
<1>4. CASE SaveMapping
  <2> DEFINE image == [disk EXCEPT !.mapping[NewInfo.last_order] = tx]
  <2>1. /\ image.txs = disk.txs
        /\ \A o \in Order : image.mapping[o] = disk.mapping[o] \/ image.mapping[o] = tx
    BY <1>a DEF Image
  <2>2. revert' = revert /\ tx # Genesis /\ \A i \in durable' : i \in durable \/ i = image
    BY <1>4, <1>a, <1>b DEF SaveMapping, put
  <2> HIDE DEF image
  <2> QED BY <1>a, <2>1, <2>2 DEF GenesisApart
<1>5. CASE Crash
  BY <1>5, <1>c DEF Crash, MemoryLost, Recover
<1>6. CASE ExecutorWrites
  BY <1>6, <1>a, <1>c DEF ExecutorWrites, put, put_sync
<1>7. CASE \E s \in ServiceStatus : Start(s)
  BY <1>7, <1>a, <1>c DEF Start, Open
<1>8. ASSUME NEW o \in Order, RevertInfo(o) PROVE GenesisApart'
  <2> DEFINE last == disk.sequencer_info.last_order
             image == [disk EXCEPT !.sequencer_info =
                         [last_order |-> last - 1, acc |-> disk.txs[disk.mapping[last - 1]].acc]]
  <2>1. image.txs = disk.txs /\ image.mapping = disk.mapping
    BY <1>a DEF Image
  <2>2. /\ durable' = {image} /\ last > 0 /\ disk.txs[disk.mapping[o]].last_order = last
        /\ revert' = [hash |-> disk.mapping[o], order |-> last, step |-> "remove_tx"]
    BY <1>8 DEF RevertInfo, put_sync
  <2>3. disk.txs[Genesis].last_order = 0
    BY <1>a DEF GenesisApart, GenesisInfo
  <2>4. revert'.hash # Genesis /\ revert'.order > 0
    BY <2>2, <2>3, SMTT(30)
  <2> HIDE DEF image, last
  <2> QED BY <1>a, <2>1, <2>2, <2>4 DEF GenesisApart
<1>9. CASE RevertRemoveTx
  <2> DEFINE image == [disk EXCEPT !.txs[revert.hash] = None]
  <2>1. image.txs[Genesis] = disk.txs[Genesis] /\ image.mapping = disk.mapping
    BY <1>9, <1>a, <1>b DEF Image, RevertRemoveTx, GenesisApart
  <2>2. /\ revert' = [revert EXCEPT !.step = "remove_mapping"] /\ revert.step # "none"
        /\ \A i \in durable' : i \in durable \/ i = image
    BY <1>9 DEF RevertRemoveTx, put
  <2>3. revert'.hash = revert.hash /\ revert'.order = revert.order
    BY <2>2 DEF SequencerInv, TypeOKSequencer, RevertState
  <2> HIDE DEF image
  <2> QED BY <1>a, <2>1, <2>2, <2>3 DEF GenesisApart
<1>10. CASE RevertRemoveMapping
  <2> DEFINE image == [disk EXCEPT !.mapping[revert.order] = None]
  <2>1. /\ image.txs = disk.txs
        /\ \A o \in Order : image.mapping[o] = disk.mapping[o] \/ image.mapping[o] = None
    BY <1>a DEF Image
  <2>2. revert'.step = "none" /\ \A i \in durable' : i \in durable \/ i = image
    BY <1>10 DEF RevertRemoveMapping, put, NoRevert
  <2> HIDE DEF image
  <2> QED BY <1>a, <1>b, <2>1, <2>2 DEF GenesisApart
<1>11. CASE RevertCrash
  BY <1>11 DEF RevertCrash, Recover, GenesisApart, NoRevert
<1> QED BY <1>1, <1>2, <1>3, <1>4, <1>5, <1>6, <1>7, <1>8, <1>9, <1>10, <1>11
        DEF NextSequencer, SequenceStep, RevertStep

(***************************************************************************)
(* The executor, its readers and the indexer.                              *)
(***************************************************************************)
(* The types the proofs below use.                                         *)
LEMMA NodeTypes ==
  ASSUME WholeInv
  PROVE  /\ disk \in Image /\ disk \in durable /\ durable \subseteq Image
         /\ disk.startup_info \in StateRoot /\ root \in StateRoot /\ reader_root \in StateRoot
         /\ Settled \in StateRoot /\ Seen \in StateRoot /\ job.base \in StateRoot
         /\ \A a \in acked : a.tx \in Tx /\ a.info \in SequencerInfo /\ a.root \in StateRoot
         /\ \A image \in durable, h \in Hash :
              image.execution_info[h] # None => image.execution_info[h] \in StateRoot
         /\ (job.step # "none" => job.tx \in Hash /\ NewRoot \in StateRoot)
<1>1. disk \in Image /\ disk \in durable /\ durable \subseteq Image
  BY DEF WholeInv, TypeOKPipeline, TypeOKSequencer, TypeOKDB
<1>2. /\ disk.startup_info \in StateRoot
      /\ \A image \in durable, h \in Hash :
              image.execution_info[h] # None => image.execution_info[h] \in StateRoot
  BY <1>1 DEF Image
<1>3. root \in StateRoot /\ reader_root \in StateRoot /\ job.base \in StateRoot
  BY DEF WholeInv, TypeOKPipeline
<1>4. Settled \in StateRoot /\ Seen \in StateRoot
  BY <1>2, <1>3 DEF Settled, Seen
<1>5. \A a \in acked : a.tx \in Tx /\ a.info \in SequencerInfo /\ a.root \in StateRoot
  BY DEF WholeInv, TypeOKPipeline
<1>6. job.step # "none" => job.tx \in Hash /\ NewRoot \in StateRoot
  BY NewRootType DEF WholeInv, NodeInv, JobOK
<1> QED BY <1>1, <1>2, <1>3, <1>4, <1>5, <1>6

(* A step that leaves the executor, its readers and their columns alone.   *)
LEMMA ExecutorFrame ==
  ASSUME WholeInv, UNCHANGED <<up, root, reader_root, indexed, index_queue>>,
         disk'.startup_info = disk.startup_info, acked' \subseteq acked,
         \A i \in durable' : \E j \in durable :
           i.startup_info = j.startup_info /\ i.execution_info = j.execution_info
  PROVE  /\ StartupSynced' /\ RootsFollow' /\ ExecutedSettled' /\ AnswersSeen' /\ IndexSettled'
         /\ Settled' = Settled /\ Seen' = Seen
<1>1. Settled' = Settled /\ Seen' = Seen
  BY DEF Settled, Seen
<1>2. StartupSynced'
  BY DEF WholeInv, ExecutorInv, StartupSynced
<1>3. RootsFollow'
  BY DEF WholeInv, ExecutorInv, RootsFollow
<1>4. ExecutedSettled'
  BY <1>1 DEF WholeInv, ExecutorInv, ExecutedSettled
<1>5. AnswersSeen'
  BY <1>1 DEF WholeInv, ExecutorInv, AnswersSeen
<1>6. IndexSettled'
  BY <1>1 DEF WholeInv, ExecutorInv, IndexSettled
<1> QED BY <1>1, <1>2, <1>3, <1>4, <1>5, <1>6

(* The writes of the sequencer and of the operator are to other columns,   *)
(* and a crash finds the startup info where it was.                        *)
LEMMA SequencerColumns ==
  ASSUME WholeInv,
         \/ \E t \in Tx : Sequence(t)
         \/ SequenceStep \/ StorageError \/ RevertStep \/ RevertCrash
  PROVE  /\ disk'.startup_info = disk.startup_info
         /\ \A i \in durable' : \E j \in durable :
              i.startup_info = j.startup_info /\ i.execution_info = j.execution_info
         /\ up' = up
<1>a. disk \in Image /\ disk \in durable
  BY NodeTypes
<1>b. ASSUME NEW image, put(image) \/ put_sync(image),
             image.startup_info = disk.startup_info, image.execution_info = disk.execution_info
      PROVE  /\ disk'.startup_info = disk.startup_info
             /\ \A i \in durable' : \E j \in durable :
                  i.startup_info = j.startup_info /\ i.execution_info = j.execution_info
  BY <1>a, <1>b DEF put, put_sync
<1>1. CASE (\E t \in Tx : Sequence(t)) \/ NotContinuous \/ StorageError
  BY <1>1 DEF Sequence, NotContinuous, StorageError, dbVars
<1>2. CASE Flush
  <2> DEFINE image == [disk EXCEPT !.acc_nodes = @ \cup unflushed]
  <2>1. image.startup_info = disk.startup_info /\ image.execution_info = disk.execution_info
    BY <1>a DEF Image
  <2>2. put(image) /\ up' = up
    BY <1>2 DEF Flush
  <2> HIDE DEF image
  <2> QED BY <1>b, <2>1, <2>2
<1>3. CASE SaveSequencerInfo
  <2> DEFINE image == [disk EXCEPT !.sequencer_info = NewInfo]
  <2>1. image.startup_info = disk.startup_info /\ image.execution_info = disk.execution_info
    BY <1>a DEF Image
  <2>2. put_sync(image) /\ up' = up
    BY <1>3 DEF SaveSequencerInfo
  <2> HIDE DEF image
  <2> QED BY <1>b, <2>1, <2>2
<1>4. CASE SaveTx
  <2> DEFINE image == [disk EXCEPT !.txs[tx] = NewInfo]
  <2>1. image.startup_info = disk.startup_info /\ image.execution_info = disk.execution_info
    BY <1>a DEF Image
  <2>2. put(image) /\ up' = up
    BY <1>4 DEF SaveTx
  <2> HIDE DEF image
  <2> QED BY <1>b, <2>1, <2>2
<1>5. CASE SaveMapping
  <2> DEFINE image == [disk EXCEPT !.mapping[NewInfo.last_order] = tx]
  <2>1. image.startup_info = disk.startup_info /\ image.execution_info = disk.execution_info
    BY <1>a DEF Image
  <2>2. put(image) /\ up' = up
    BY <1>5 DEF SaveMapping
  <2> HIDE DEF image
  <2> QED BY <1>b, <2>1, <2>2
<1>6. ASSUME NEW o \in Order, RevertInfo(o)
      PROVE  /\ disk'.startup_info = disk.startup_info
             /\ \A i \in durable' : \E j \in durable :
                  i.startup_info = j.startup_info /\ i.execution_info = j.execution_info
             /\ up' = up
  <2> DEFINE last == disk.sequencer_info.last_order
             image == [disk EXCEPT !.sequencer_info =
                         [last_order |-> last - 1, acc |-> disk.txs[disk.mapping[last - 1]].acc]]
  <2>1. image.startup_info = disk.startup_info /\ image.execution_info = disk.execution_info
    BY <1>a DEF Image
  <2>2. put_sync(image) /\ up' = up
    BY <1>6 DEF RevertInfo
  <2> HIDE DEF image
  <2> QED BY <1>b, <2>1, <2>2
<1>7. CASE RevertRemoveTx
  <2> DEFINE image == [disk EXCEPT !.txs[revert.hash] = None]
  <2>1. image.startup_info = disk.startup_info /\ image.execution_info = disk.execution_info
    BY <1>a DEF Image
  <2>2. put(image) /\ up' = up
    BY <1>7 DEF RevertRemoveTx
  <2> HIDE DEF image
  <2> QED BY <1>b, <2>1, <2>2
<1>8. CASE RevertRemoveMapping
  <2> DEFINE image == [disk EXCEPT !.mapping[revert.order] = None]
  <2>1. image.startup_info = disk.startup_info /\ image.execution_info = disk.execution_info
    BY <1>a DEF Image
  <2>2. put(image) /\ up' = up
    BY <1>8 DEF RevertRemoveMapping
  <2> HIDE DEF image
  <2> QED BY <1>b, <2>1, <2>2
<1>9. CASE RevertCrash
  BY <1>9 DEF RevertCrash, Recover, WholeInv, ExecutorInv, StartupSynced
<1> QED BY <1>1, <1>2, <1>3, <1>4, <1>5, <1>6, <1>7, <1>8, <1>9 DEF SequenceStep, RevertStep

(* The process ends, by itself or in a crash: what it had settled is in    *)
(* the startup state.                                                      *)
LEMMA ExitKeepsExecutor ==
  ASSUME WholeInv, up, Exit, disk' \in durable, durable' \subseteq durable
  PROVE  ExecutorInv'
<1> USE DEF Exit, MemoryLost, nodeHist
<1>a. disk'.startup_info = disk.startup_info
  BY DEF WholeInv, ExecutorInv, StartupSynced
<1>b. /\ Extends(disk.startup_info, root) /\ Extends(root, reader_root)
      /\ Settled = root /\ Seen = reader_root
  BY DEF WholeInv, ExecutorInv, RootsFollow, Settled, Seen
<1>c. Settled' = disk.startup_info /\ Seen' = disk.startup_info
  BY <1>a DEF Settled, Seen
<1>d. Extends(disk.startup_info, reader_root)
  BY <1>b, NodeTypes, RootExtendsTransitive
<1>1. StartupSynced'
  BY <1>a DEF WholeInv, ExecutorInv, StartupSynced
<1>2. RootsFollow'
  BY <1>a DEF WholeInv, ExecutorInv, RootsFollow
<1>3. JobRoots'
  BY DEF JobRoots, NoJob
<1>4. ExecutedSettled'
  <2> SUFFICES ASSUME NEW image \in durable', NEW h \in Hash, image.execution_info[h] # None
               PROVE  Extends(disk.startup_info, image.execution_info[h])
    BY <1>c DEF ExecutedSettled
  <2>1. Extends(root, image.execution_info[h])
    BY <1>b DEF WholeInv, ExecutorInv, ExecutedSettled
  <2> QED BY <1>b, <2>1, NodeTypes, RootExtendsTransitive
<1>5. AnswersSeen'
  <2> SUFFICES ASSUME NEW a \in acked
               PROVE  Extends(disk.startup_info, a.root) /\ a.tx \in Range(a.root)
    BY <1>c DEF AnswersSeen
  <2>1. Extends(reader_root, a.root) /\ a.tx \in Range(a.root)
    BY <1>b DEF WholeInv, ExecutorInv, AnswersSeen
  <2> QED BY <1>d, <2>1, NodeTypes, RootExtendsTransitive
<1>6. IndexSettled'
  <2>1. \A h \in indexed : h \in Range(root)
    BY <1>b DEF WholeInv, ExecutorInv, IndexSettled
  <2>2. \A h \in indexed : h \in Range(disk.startup_info)
    BY <1>b, <2>1, NodeTypes, ExtendsRange
  <2> QED BY <1>c, <2>2 DEF IndexSettled
<1> QED BY <1>1, <1>2, <1>3, <1>4, <1>5, <1>6 DEF ExecutorInv

(* The node starts: executor and reader at the startup state.              *)
LEMMA StartKeepsExecutor ==
  ASSUME WholeInv, NEW s \in Modes, StartNode(s)
  PROVE  ExecutorInv'
<1> USE DEF StartNode, Start, Open, nodeHist
<1>a. /\ Settled = disk.startup_info /\ Seen = disk.startup_info
      /\ Settled' = disk.startup_info /\ Seen' = disk.startup_info /\ disk \in durable
  BY NodeTypes DEF Settled, Seen
<1>1. StartupSynced'
  BY DEF StartupSynced
<1>2. RootsFollow'
  BY NodeTypes, RootExtendsItself DEF WholeInv, ExecutorInv, RootsFollow
<1>3. JobRoots'
  BY DEF JobRoots, WholeInv, NodeInv, JobOK
<1>4. ExecutedSettled' /\ AnswersSeen' /\ IndexSettled'
  BY <1>a DEF WholeInv, ExecutorInv, ExecutedSettled, AnswersSeen, IndexSettled
<1> QED BY <1>1, <1>2, <1>3, <1>4 DEF ExecutorInv

(* The state nodes are written: nothing that is read moves.                *)
LEMMA ApplyKeepsExecutor ==
  ASSUME WholeInv, ApplyChangeSet
  PROVE  ExecutorInv'
<1> DEFINE image == [disk EXCEPT !.state_nodes = @ \cup {NewRoot}]
<1> USE DEF ApplyChangeSet, SystemCallAborts, nodeHist
<1>a. /\ disk \in Image /\ disk \in durable
      /\ job \in [step : JobStep, tx : Tx \cup {None}, base : StateRoot]
  BY NodeTypes DEF WholeInv, TypeOKPipeline
<1>b. image.startup_info = disk.startup_info /\ image.execution_info = disk.execution_info
  BY <1>a DEF Image
<1>c. disk' = image /\ durable' = durable \cup {image}
  BY DEF put
<1> HIDE DEF image
<1>d. /\ job'.step = "startup_info" /\ job'.tx = job.tx /\ job'.base = job.base
  BY <1>a
<1>1. /\ StartupSynced' /\ RootsFollow' /\ ExecutedSettled' /\ AnswersSeen' /\ IndexSettled'
  <2>1. disk'.startup_info = disk.startup_info
    BY <1>b, <1>c
  <2>2. \A i \in durable' : \E j \in durable :
           i.startup_info = j.startup_info /\ i.execution_info = j.execution_info
    BY <1>a, <1>b, <1>c
  <2> QED BY <2>1, <2>2, ExecutorFrame
<1>2. JobRoots'
  BY <1>d DEF JobRoots, WholeInv, ExecutorInv
<1> QED BY <1>1, <1>2 DEF ExecutorInv

(* The startup info moves to the job's root, which extends the executor's. *)
LEMMA StartupInfoKeepsExecutor ==
  ASSUME WholeInv, SaveStartupInfo
  PROVE  ExecutorInv'
<1> DEFINE image == [disk EXCEPT !.startup_info = NewRoot]
<1> USE DEF SaveStartupInfo, nodeHist
<1>a. /\ disk \in Image /\ disk \in durable /\ root \in StateRoot /\ job.tx \in Hash
      /\ job \in [step : JobStep, tx : Tx \cup {None}, base : StateRoot]
      /\ job.base = root /\ job.tx \notin Range(root)
  BY NodeTypes DEF WholeInv, TypeOKPipeline, ExecutorInv, JobRoots
<1>b. image.startup_info = NewRoot /\ image.execution_info = disk.execution_info
  BY <1>a DEF Image
<1>c. disk' = image /\ durable' = {image}
  BY DEF put_sync
<1> HIDE DEF image
<1>d. /\ job'.step = "execution_info" /\ job'.tx = job.tx /\ job'.base = job.base
      /\ NewRoot' = NewRoot /\ NewRoot = Append(root, job.tx)
  BY <1>a DEF NewRoot
<1>e. Settled' = Settled /\ Seen' = Seen
  BY DEF Settled, Seen
<1>1. StartupSynced'
  BY <1>c DEF StartupSynced
<1>2. RootsFollow'
  <2>1. IsInjective(root) /\ Extends(root, reader_root)
    BY DEF WholeInv, ExecutorInv, RootsFollow
  <2>2. Extends(NewRoot, root) /\ IsInjective(NewRoot)
    BY <1>a, <1>d, <2>1, RootAppend
  <2> QED BY <1>b, <1>c, <2>1, <2>2 DEF RootsFollow
<1>3. JobRoots'
  BY <1>a, <1>b, <1>c, <1>d DEF JobRoots
<1>4. ExecutedSettled' /\ AnswersSeen' /\ IndexSettled'
  BY <1>a, <1>b, <1>c, <1>e DEF WholeInv, ExecutorInv, ExecutedSettled, AnswersSeen, IndexSettled
<1> QED BY <1>1, <1>2, <1>3, <1>4 DEF ExecutorInv

(* The execution info, and the executor moves to the startup state.        *)
LEMMA ExecutionInfoKeepsExecutor ==
  ASSUME WholeInv, SaveExecutionInfo
  PROVE  ExecutorInv'
<1> DEFINE image == [disk EXCEPT !.execution_info[job.tx] = NewRoot]
<1> USE DEF SaveExecutionInfo, nodeHist
<1>a. /\ disk \in Image /\ disk \in durable /\ durable \subseteq Image
      /\ root \in StateRoot /\ reader_root \in StateRoot /\ job.tx \in Hash
      /\ job \in [step : JobStep, tx : Tx \cup {None}, base : StateRoot]
      /\ job.base = root /\ disk.startup_info = NewRoot
  BY NodeTypes DEF WholeInv, TypeOKPipeline, ExecutorInv, JobRoots
<1>b. /\ image.startup_info = disk.startup_info
      /\ \A h \in Hash : image.execution_info[h] = IF h = job.tx THEN NewRoot
                                                   ELSE disk.execution_info[h]
  BY <1>a DEF Image
<1>c. disk' = image /\ durable' = durable \cup {image}
  BY DEF put
<1> HIDE DEF image
<1>d. /\ job'.step = "propose" /\ job'.tx = job.tx /\ job'.base = job.base
      /\ NewRoot' = NewRoot /\ NewRoot = Append(root, job.tx)
  BY <1>a DEF NewRoot
<1>e. /\ NewRoot \in StateRoot /\ Extends(NewRoot, root) /\ Extends(NewRoot, NewRoot)
  BY <1>a, <1>d, RootAppend, RootExtendsItself
<1>f. Settled' = NewRoot /\ Settled = root /\ Seen' = Seen /\ Seen = reader_root
  BY DEF Settled, Seen
<1>1. StartupSynced'
  BY <1>b, <1>c DEF WholeInv, ExecutorInv, StartupSynced
<1>2. RootsFollow'
  <2>1. Extends(root, reader_root) /\ IsInjective(disk.startup_info)
    BY DEF WholeInv, ExecutorInv, RootsFollow
  <2>2. Extends(NewRoot, reader_root)
    BY <1>a, <1>e, <2>1, RootExtendsTransitive
  <2> QED BY <1>a, <1>b, <1>c, <1>e, <2>1, <2>2 DEF RootsFollow
<1>3. JobRoots'
  BY <1>d DEF JobRoots
<1>4. ExecutedSettled'
  <2> SUFFICES ASSUME NEW i \in durable', NEW h \in Hash, i.execution_info[h] # None
               PROVE  Extends(NewRoot, i.execution_info[h])
    BY <1>f DEF ExecutedSettled
  <2>1. CASE i = image /\ h = job.tx
    BY <2>1, <1>b, <1>e
  <2>2. CASE ~(i = image /\ h = job.tx)
    <3>1. PICK j \in durable : i.execution_info[h] = j.execution_info[h]
      BY <2>2, <1>a, <1>b, <1>c
    <3>2. Extends(root, j.execution_info[h]) /\ j.execution_info[h] \in StateRoot
      BY <3>1, <1>f, NodeTypes DEF WholeInv, ExecutorInv, ExecutedSettled
    <3> QED BY <1>a, <1>e, <3>1, <3>2, RootExtendsTransitive
  <2> QED BY <2>1, <2>2
<1>5. AnswersSeen'
  BY <1>f DEF WholeInv, ExecutorInv, AnswersSeen
<1>6. IndexSettled'
  <2>1. \A h : h \in Range(root) => h \in Range(NewRoot)
    BY <1>a, <1>e, ExtendsRange
  <2> QED BY <1>f, <2>1 DEF WholeInv, ExecutorInv, IndexSettled
<1> QED BY <1>1, <1>2, <1>3, <1>4, <1>5, <1>6 DEF ExecutorInv

(* The reader moves to the executor's root, the indexer is told, and the   *)
(* submitter, if there is one, gets its answer.                            *)
LEMMA RefreshKeepsExecutor ==
  ASSUME WholeInv, RefreshState
  PROVE  ExecutorInv'
<1> USE DEF RefreshState
<1>a. /\ root \in StateRoot /\ reader_root \in StateRoot /\ job.tx \in Hash
      /\ job.base \in StateRoot /\ root = NewRoot /\ NewRoot = Append(job.base, job.tx)
      /\ index_queue \in Seq(Hash)
  BY NodeTypes DEF WholeInv, TypeOKPipeline, ExecutorInv, JobRoots, NewRoot
<1>b. /\ disk' = disk /\ durable' = durable /\ up' = up /\ root' = root /\ indexed' = indexed
  BY DEF seqVars
<1>c. Settled' = Settled /\ Settled = root /\ Seen' = root /\ Seen = reader_root
  BY <1>a, <1>b DEF Settled, Seen
<1>d. job.tx \in Range(root) /\ Extends(root, root) /\ Extends(root, reader_root)
  BY <1>a, RootAppend, RootExtendsItself DEF WholeInv, ExecutorInv, RootsFollow
<1>1. StartupSynced' /\ RootsFollow' /\ ExecutedSettled'
  BY <1>a, <1>b, <1>c, <1>d
  DEF WholeInv, ExecutorInv, StartupSynced, RootsFollow, ExecutedSettled
<1>2. JobRoots'
  BY DEF JobRoots, NoJob
<1>3. AnswersSeen'
  <2>1. \A a \in acked : Extends(root, a.root) /\ a.tx \in Range(a.root)
    <3> SUFFICES ASSUME NEW a \in acked PROVE Extends(root, a.root) /\ a.tx \in Range(a.root)
      OBVIOUS
    <3>1. Extends(reader_root, a.root) /\ a.tx \in Range(a.root) /\ a.root \in StateRoot
      BY <1>c, NodeTypes DEF WholeInv, ExecutorInv, AnswersSeen
    <3> QED BY <1>a, <1>d, <3>1, RootExtendsTransitive
  <2>2. \A a \in acked' : a \in acked \/ (a.tx = job.tx /\ a.root = root)
    BY <1>a
  <2> QED BY <1>c, <1>d, <2>1, <2>2 DEF AnswersSeen
<1>4. IndexSettled'
  <2>1. \A i \in DOMAIN index_queue : index_queue[i] \in Range(root)
    BY <1>c DEF WholeInv, ExecutorInv, IndexSettled
  <2>2. \A i \in DOMAIN index_queue' : index_queue'[i] \in Range(root)
    <3>1. CASE index_queue' = index_queue
      BY <3>1, <2>1
    <3>2. CASE index_queue' = Append(index_queue, job.tx)
      BY <3>2, <2>1, <1>a, <1>d
    <3> QED BY <3>1, <3>2
  <2> QED BY <1>b, <1>c, <2>2 DEF WholeInv, ExecutorInv, IndexSettled
<1> QED BY <1>1, <1>2, <1>3, <1>4 DEF ExecutorInv

(* Every step keeps what was executed, answered and indexed.               *)
LEMMA ExecutorStep ==
  ASSUME WholeInv, [NextPipeline]_vars
  PROVE  ExecutorInv'
<1>a. /\ disk \in durable /\ root \in StateRoot /\ reader_root \in StateRoot
      /\ job \in [step : JobStep, tx : Tx \cup {None}, base : StateRoot]
      /\ (step # "idle" => job.step = "sequence") /\ (~up => job.step = "none")
      /\ index_queue \in Seq(Hash) /\ JobRoots
  BY NodeTypes DEF WholeInv, TypeOKPipeline, NodeInv, JobOK, ExecutorInv
<1>b. ASSUME UNCHANGED <<up, root, reader_root, indexed, index_queue>>, acked' \subseteq acked,
             UNCHANGED dbVars, JobRoots'
      PROVE  ExecutorInv'
  BY <1>b, ExecutorFrame DEF dbVars, ExecutorInv
<1>c. ASSUME Exit, up, UNCHANGED dbVars PROVE ExecutorInv'
  BY <1>c, <1>a, ExitKeepsExecutor DEF dbVars
<1>1. ASSUME NEW t \in Tx, Submit(t) PROVE ExecutorInv'
  <2>1. Extends(root, reader_root)
    BY <1>1 DEF Submit, Sequence, WholeInv, ExecutorInv, RootsFollow
  <2>2. t \notin Range(reader_root)
    BY <1>1, <1>a, <2>1, ExtendsRange DEF Submit, Relayed, Validate
  <2>3. JobRoots'
    BY <1>1, <2>2 DEF Submit, Validate, JobRoots
  <2> QED BY <1>1, <1>b, <2>3 DEF Submit, Sequence, nodeHist
<1>2. CASE Sequencing
  <2>1. /\ disk'.startup_info = disk.startup_info /\ up' = up
        /\ \A i \in durable' : \E j \in durable :
             i.startup_info = j.startup_info /\ i.execution_info = j.execution_info
    BY <1>2, SequencerColumns DEF Sequencing, SequenceStep
  <2>2. UNCHANGED <<execVars, nodeHist>> /\ job.step = "sequence"
    BY <1>2, <1>a DEF Sequencing, Flush, SaveSequencerInfo, SaveTx
  <2>3. JobRoots'
    BY <2>2, <1>a DEF JobRoots, execVars
  <2> QED BY <2>1, <2>2, <2>3, ExecutorFrame DEF ExecutorInv, execVars, nodeHist
<1>3. CASE Sequenced
  <2>1. /\ disk'.startup_info = disk.startup_info /\ up' = up
        /\ \A i \in durable' : \E j \in durable :
             i.startup_info = j.startup_info /\ i.execution_info = j.execution_info
    BY <1>3, SequencerColumns DEF Sequenced, SequenceStep
  <2>2. job.step = "sequence" /\ job' = [job EXCEPT !.step = "apply"] /\ root' = root
    BY <1>3, <1>a DEF Sequenced, SaveMapping
  <2>3. job'.step = "apply" /\ job'.base = job.base /\ job'.tx = job.tx
    BY <2>2, <1>a
  <2>4. JobRoots'
    BY <2>2, <2>3, <1>a DEF JobRoots
  <2> QED BY <1>3, <2>1, <2>4, ExecutorFrame DEF Sequenced, ExecutorInv, nodeHist
<1>4. CASE SequenceFailed
  <2>1. UNCHANGED <<up, root, reader_root, indexed, index_queue, acked>> /\ UNCHANGED dbVars
    BY <1>4 DEF SequenceFailed, NotContinuous, StorageError, nodeHist
  <2>2. JobRoots'
    BY <1>4 DEF SequenceFailed, JobRoots, NoJob
  <2> QED BY <2>1, <2>2, <1>b
<1>5. CASE ApplyChangeSet \/ SaveStartupInfo \/ SaveExecutionInfo \/ RefreshState
  BY <1>5, ApplyKeepsExecutor, StartupInfoKeepsExecutor, ExecutionInfoKeepsExecutor,
     RefreshKeepsExecutor
<1>6. CASE ProposeTransaction
  <2>1. job'.step = "refresh" /\ job'.base = job.base /\ job'.tx = job.tx
    BY <1>6, <1>a DEF ProposeTransaction
  <2>2. JobRoots'
    BY <1>6, <2>1, <1>a DEF ProposeTransaction, JobRoots, NewRoot, seqVars
  <2> QED BY <1>6, <2>2, <1>b DEF ProposeTransaction, seqVars, dbVars, nodeHist
<1>7. CASE SystemCallPanics \/ ReplayFails
  BY <1>7, <1>c DEF SystemCallPanics, ReplayFails
<1>8. CASE NodeCrash
  <2>1. disk' \in durable /\ durable' \subseteq durable /\ up /\ Exit
    BY <1>8 DEF NodeCrash, Recover
  <2> QED BY <2>1, ExitKeepsExecutor
<1>9. CASE ExecutorError
  <2>1. CASE serving
    <3>1. JobRoots'
      BY <1>9, <2>1 DEF ExecutorError, JobRoots, NoJob
    <3> QED BY <1>9, <2>1, <3>1, <1>b DEF ExecutorError, nodeHist
  <2> QED BY <1>9, <2>1, <1>c DEF ExecutorError
<1>10. CASE ReplayNext
  <2>1. JobRoots'
    BY <1>10 DEF ReplayNext, Replayable, Validate, JobRoots
  <2> QED BY <1>10, <2>1, <1>b DEF ReplayNext, seqVars, dbVars, nodeHist
<1>11. ASSUME NEW s \in Modes, StartNode(s) PROVE ExecutorInv'
  BY <1>11, StartKeepsExecutor
<1>12. CASE UpdateIndexer \/ IndexerError
  <2> USE DEF UpdateIndexer, IndexerError, seqVars, dbVars, nodeHist
  <2>1. /\ UNCHANGED <<up, root, reader_root, acked, job>> /\ UNCHANGED dbVars
        /\ Settled' = Settled /\ Seen' = Seen /\ index_queue # << >>
        /\ index_queue' = Tail(index_queue)
    BY <1>12 DEF Settled, Seen
  <2>2. StartupSynced' /\ RootsFollow' /\ JobRoots' /\ ExecutedSettled' /\ AnswersSeen'
    BY <2>1 DEF WholeInv, ExecutorInv, StartupSynced, RootsFollow, JobRoots, NewRoot,
       ExecutedSettled, AnswersSeen
  <2>3. \A i \in DOMAIN index_queue : index_queue[i] \in Range(Settled)
    BY DEF WholeInv, ExecutorInv, IndexSettled
  <2>4. /\ Head(index_queue) \in Range(Settled)
        /\ \A i \in DOMAIN index_queue' : index_queue'[i] \in Range(Settled)
    BY <2>1, <2>3, <1>a
  <2>5. \A h \in indexed' : h \in indexed \/ h = Head(index_queue)
    BY <1>12
  <2>6. IndexSettled'
    BY <2>1, <2>4, <2>5 DEF WholeInv, ExecutorInv, IndexSettled
  <2> QED BY <2>2, <2>6 DEF ExecutorInv
<1>13. CASE RevertOther \/ \E o \in Order : RevertTx(o)
  <2>1. RevertStep \/ RevertCrash
    BY <1>13 DEF RevertOther, RevertTx, RevertStep
  <2>2. /\ disk'.startup_info = disk.startup_info /\ up' = up
        /\ \A i \in durable' : \E j \in durable :
             i.startup_info = j.startup_info /\ i.execution_info = j.execution_info
    BY <2>1, SequencerColumns
  <2>3. /\ UNCHANGED execVars /\ acked' \subseteq acked /\ ~up
    BY <1>13 DEF RevertOther, RevertTx, nodeHist, RevertInfo, RevertRemoveTx, RevertRemoveMapping,
       RevertCrash, WholeInv, NodeInv, SequencerInv, CallOK
  <2>4. JobRoots'
    BY <2>3, <1>a DEF execVars, JobRoots
  <2> QED BY <2>2, <2>3, <2>4, ExecutorFrame DEF ExecutorInv, execVars
<1>14. CASE UNCHANGED vars
  <2>1. JobRoots'
    BY <1>14, <1>a DEF vars, seqVars, execVars, JobRoots, NewRoot
  <2> QED BY <1>14, <2>1, <1>b DEF vars, seqVars, execVars, nodeHist, dbVars
<1> QED BY <1>1, <1>2, <1>3, <1>4, <1>5, <1>6, <1>7, <1>8, <1>9, <1>10, <1>11, <1>12, <1>13, <1>14
        DEF NextPipeline, PipelineStep

(***************************************************************************)
(* Types.                                                                  *)
(***************************************************************************)
(* Every step keeps the types of the actors and of the history.            *)
LEMMA TypesStep ==
  ASSUME WholeInv, [NextPipeline]_vars
  PROVE  TypeOKPipeline'
<1> DEFINE Job == [step : JobStep, tx : Tx \cup {None}, base : StateRoot]
           Ack == [tx : Tx, info : SequencerInfo, root : StateRoot]
           Rest == /\ root \in StateRoot /\ reader_root \in StateRoot /\ job \in Job
                   /\ replay \in Seq(Hash) /\ serving \in BOOLEAN
                   /\ buffer \in Seq(Hash) /\ index_queue \in Seq(Hash) /\ indexed \subseteq Hash
                   /\ acked \subseteq Ack /\ reverted \subseteq Tx
<1>s. TypeOKSequencer'
  BY NodeStep, NextInv DEF WholeInv, NodeInv, SequencerInv
<1>a. /\ Rest /\ << >> \in StateRoot /\ (job.step # "none" => NewRoot \in StateRoot)
      /\ (job.step # "none" => job.tx \in Tx /\ job.tx \in Hash)
      /\ disk \in Image /\ NoJob \in Job
  BY NodeTypes DEF WholeInv, TypeOKPipeline, StateRoot, NoJob, JobStep, JobLedger
<1> SUFFICES Rest'
  BY <1>s DEF TypeOKPipeline
<1>b. ASSUME Exit PROVE Rest'
  <2>1. << >> \in Seq(Hash)
    OBVIOUS
  <2> QED BY <1>b, <2>1, <1>a DEF Exit, nodeHist
<1>1. ASSUME NEW t \in Tx, Submit(t) PROVE Rest'
  BY <1>1, <1>a DEF Submit, JobStep, nodeHist
<1>2. CASE Sequencing \/ UNCHANGED vars
  BY <1>2, <1>a DEF Sequencing, execVars, nodeHist, vars
<1>3. CASE Sequenced \/ ApplyChangeSet \/ SaveStartupInfo
  <2>1. /\ \E s \in JobStep : job' = [job EXCEPT !.step = s]
        /\ UNCHANGED <<root, reader_root, replay, serving, buffer, index_queue, indexed, nodeHist>>
    BY <1>3 DEF Sequenced, ApplyChangeSet, SaveStartupInfo, JobStep
  <2> QED BY <2>1, <1>a DEF nodeHist
<1>4. CASE SequenceFailed
  BY <1>4, <1>a DEF SequenceFailed, nodeHist
<1>5. CASE SaveExecutionInfo
  BY <1>5, <1>a DEF SaveExecutionInfo, nodeHist, JobStep
<1>6. CASE ProposeTransaction
  <2>1. buffer' \in Seq(Hash)
    BY <1>6, <1>a DEF ProposeTransaction
  <2> QED BY <1>6, <2>1, <1>a DEF ProposeTransaction, nodeHist, JobStep
<1>7. CASE RefreshState
  <2>1. replay' \in Seq(Hash) /\ serving' \in BOOLEAN
    <3>1. replay' \in Seq(Hash)
      BY JobStepOK DEF WholeInv, JobOK
    <3>2. serving' = serving \/ serving' = (Len(replay) = 1)
      BY <1>7 DEF RefreshState
    <3> QED BY <3>1, <3>2, <1>a
  <2>2. index_queue' \in Seq(Hash)
    BY <1>7, <1>a DEF RefreshState
  <2>3. acked' \subseteq Ack
    <3>1. CASE ~serving
      BY <1>7, <3>1, <1>a DEF RefreshState
    <3>2. CASE serving
      <4>1. disk.txs[job.tx] \in SequencerInfo
        BY <1>7, <3>2, <1>a DEF RefreshState, WholeInv, JobLedger, Executing, Image
      <4>2. [tx |-> job.tx, info |-> disk.txs[job.tx], root |-> NewRoot] \in Ack
        BY <1>7, <4>1, <1>a DEF RefreshState
      <4> QED BY <1>7, <3>2, <4>2, <1>a DEF RefreshState
    <3> QED BY <3>1, <3>2
  <2> QED BY <1>7, <2>1, <2>2, <2>3, <1>a DEF RefreshState
<1>8. CASE SystemCallPanics \/ ReplayFails \/ NodeCrash
  BY <1>8, <1>b DEF SystemCallPanics, ReplayFails, NodeCrash
<1>9. CASE ExecutorError
  <2>1. CASE serving
    BY <1>9, <2>1, <1>a DEF ExecutorError, nodeHist
  <2> QED BY <1>9, <2>1, <1>b DEF ExecutorError
<1>10. CASE ReplayNext
  <2>1. Head(replay) \in Tx
    BY <1>10 DEF ReplayNext, WholeInv, JobLedger
  <2> QED BY <1>10, <2>1, <1>a DEF ReplayNext, nodeHist, JobStep
<1>11. ASSUME NEW s \in Modes, StartNode(s) PROVE Rest'
  <2>1. replay' \in Seq(Hash)
    BY JobStepOK DEF WholeInv, JobOK
  <2> QED BY <1>11, <2>1, <1>a, NodeTypes DEF StartNode, nodeHist
<1>12. CASE UpdateIndexer \/ IndexerError
  <2>1. Head(index_queue) \in Hash /\ Tail(index_queue) \in Seq(Hash)
    BY <1>12, <1>a DEF UpdateIndexer, IndexerError
  <2> QED BY <1>12, <2>1, <1>a DEF UpdateIndexer, IndexerError, nodeHist
<1>13. ASSUME NEW o \in Order, RevertTx(o) PROVE Rest'
  <2>1. disk.mapping[o] \in Tx
    <3>1. disk.mapping[o] \in Hash /\ disk.mapping[o] # None
      BY <1>13, <1>a DEF RevertTx, RevertInfo, Image
    <3>2. disk.txs[Genesis].last_order = 0
      BY NodeTypes DEF WholeInv, GenesisApart, GenesisInfo
    <3>3. disk.mapping[o] # Genesis
      BY <1>13, <3>2, SMTT(30) DEF RevertTx, RevertInfo
    <3> QED BY <3>1, <3>3 DEF Hash
  <2> QED BY <1>13, <2>1, <1>a DEF RevertTx, execVars
<1>14. CASE RevertOther
  BY <1>14, <1>a DEF RevertOther, execVars, nodeHist
<1> QED BY <1>1, <1>2, <1>3, <1>4, <1>5, <1>6, <1>7, <1>8, <1>9, <1>10, <1>11, <1>12, <1>13, <1>14
        DEF NextPipeline, PipelineStep

(***************************************************************************)
(* The job and the ledger.                                                 *)
(***************************************************************************)
(* The startup scan never reaches the genesis transaction.                 *)
LEMMA UnexecutedOfClients ==
  ASSUME TypeOKDB, GenesisApart, None \notin {Unexecuted[i] : i \in DOMAIN Unexecuted}
  PROVE  Unexecuted \in Seq(Tx)
<1> DEFINE last == disk.sequencer_info.last_order
<1>0. last \in Nat /\ last <= MaxOrder /\ disk \in durable
  BY MaxOrderAssumption DEF TypeOKDB, Image, SequencerInfo, Order
<1>1. IsFiniteSet(1..last) /\ Cardinality(1..last) = last
  <2>1. /\ IsFiniteSet(1..last)
        /\ Cardinality(1..last) = IF 1 > last THEN 0 ELSE last - 1 + 1
    BY <1>0, FS_Interval, SMTT(30)
  <2> QED BY <1>0, <2>1
<1>2. Cardinality(Scanned) \in Nat /\ Cardinality(Scanned) <= last
  <2>1. Scanned \subseteq 1..last
    BY DEF Scanned
  <2> QED BY <1>1, <2>1, FS_Subset, FS_CardinalityType
<1>3. \A i \in 1..Cardinality(Scanned) : Unexecuted[i] \in Tx
  <2> SUFFICES ASSUME NEW i \in 1..Cardinality(Scanned) PROVE Unexecuted[i] \in Tx
    OBVIOUS
  <2>1. Unexecuted[i] = disk.mapping[last - i + 1] /\ DOMAIN Unexecuted = 1..Cardinality(Scanned)
    BY DEF Unexecuted
  <2>2. last - i + 1 \in Order /\ last - i + 1 > 0
    BY <1>0, <1>2, MaxOrderAssumption DEF Order
  <2>3. Unexecuted[i] # Genesis
    BY <1>0, <2>1, <2>2 DEF GenesisApart
  <2>4. Unexecuted[i] \in Hash
    <3>1. disk.mapping[last - i + 1] \in Hash \cup {None}
      BY <2>2 DEF TypeOKDB, Image
    <3> QED BY <2>1, <3>1
  <2> QED BY <2>3, <2>4 DEF Hash
<1> QED BY <1>2, <1>3 DEF Unexecuted

(* Every step keeps the job and the sequencer's entries for it together.   *)
LEMMA JobLedgerStep ==
  ASSUME WholeInv, [NextPipeline]_vars
  PROVE  JobLedger'
<1>a. /\ disk \in Image /\ disk \in durable
      /\ job \in [step : JobStep, tx : Tx \cup {None}, base : StateRoot]
      /\ (step # "idle" => job.step = "sequence") /\ (~up => job.step = "none" /\ step = "idle")
      /\ (job.step # "none" => serving \/ replay # << >>)
      /\ JobLedger
  BY NodeTypes DEF WholeInv, TypeOKPipeline, NodeInv, JobOK, SequencerInv, CallOK
<1>b. << >> \in Seq(Tx)
  OBVIOUS
<1>c. ASSUME Exit PROVE JobLedger'
  BY <1>c, <1>b DEF Exit, MemoryLost, NoJob, JobLedger, Executing
<1>1. ASSUME NEW t \in Tx, Submit(t) PROVE JobLedger'
  BY <1>1, <1>a DEF Submit, Sequence, JobLedger, Executing
<1>2. CASE Sequencing
  <2>1. job.step = "sequence" /\ UNCHANGED <<job, tx, serving, replay>>
    BY <1>2, <1>a DEF Sequencing, Flush, SaveSequencerInfo, SaveTx, execVars
  <2> QED BY <1>2, <2>1, <1>a DEF JobLedger, Executing, Sequencing, Flush, SaveSequencerInfo, SaveTx
<1>3. CASE Sequenced
  <2> USE DEF Sequenced, SaveMapping
  <2>1. /\ job.step = "sequence" /\ tx = job.tx /\ serving /\ disk.txs[tx] = NewInfo /\ tx \in Tx
        /\ NewInfo \in SequencerInfo
    BY <1>3, <1>a, NewInfoType DEF JobLedger, WholeInv, NodeInv, SequencerInv, MemoryExtendsStore
  <2>2. disk' = [disk EXCEPT !.mapping[NewInfo.last_order] = tx]
    BY <1>3 DEF put
  <2>3. disk'.txs = disk.txs /\ disk'.mapping[NewInfo.last_order] = tx
    BY <2>1, <2>2, <1>a DEF Image, SequencerInfo
  <2>4. job'.step = "apply" /\ job'.tx = tx /\ step' = "idle" /\ UNCHANGED <<serving, replay>>
    BY <1>3, <1>a, <2>1
  <2> HIDE DEF Sequenced, SaveMapping
  <2> QED BY <2>1, <2>3, <2>4, <1>a, NoneAssumption DEF JobLedger, Executing
<1>4. CASE SequenceFailed
  BY <1>4, <1>a DEF SequenceFailed, NotContinuous, StorageError, NoJob, JobLedger, Executing
<1>5. CASE ApplyChangeSet
  <2> DEFINE image == [disk EXCEPT !.state_nodes = @ \cup {NewRoot}]
  <2>1. image.txs = disk.txs /\ image.mapping = disk.mapping
    BY <1>a DEF Image
  <2>2. disk' = image
    BY <1>5 DEF ApplyChangeSet, put
  <2> HIDE DEF image
  <2>3. /\ job'.step = "startup_info" /\ job.step = "apply" /\ job'.tx = job.tx
        /\ UNCHANGED <<serving, replay, step, tx>>
    BY <1>5, <1>a DEF ApplyChangeSet, memVars
  <2> QED BY <2>1, <2>2, <2>3, <1>a DEF JobLedger, Executing
<1>6. CASE SaveStartupInfo
  <2> DEFINE image == [disk EXCEPT !.startup_info = NewRoot]
  <2>1. image.txs = disk.txs /\ image.mapping = disk.mapping
    BY <1>a DEF Image
  <2>2. disk' = image /\ durable' = {image}
    BY <1>6 DEF SaveStartupInfo, put_sync
  <2> HIDE DEF image
  <2>3. /\ job'.step = "execution_info" /\ job.step = "startup_info" /\ job'.tx = job.tx
        /\ UNCHANGED <<serving, replay, step, tx>>
    BY <1>6, <1>a DEF SaveStartupInfo, memVars
  <2> QED BY <2>1, <2>2, <2>3, <1>a DEF JobLedger, Executing
<1>7. CASE SaveExecutionInfo
  <2> DEFINE image == [disk EXCEPT !.execution_info[job.tx] = NewRoot]
  <2>1. image.txs = disk.txs /\ image.mapping = disk.mapping
    BY <1>a DEF Image
  <2>2. disk' = image /\ durable' = durable \cup {image}
    BY <1>7 DEF SaveExecutionInfo, put
  <2> HIDE DEF image
  <2>3. /\ job'.step = "propose" /\ job.step = "execution_info" /\ job'.tx = job.tx
        /\ UNCHANGED <<serving, replay, step, tx>>
    BY <1>7, <1>a DEF SaveExecutionInfo, memVars
  <2> QED BY <2>1, <2>2, <2>3, <1>a DEF JobLedger, Executing
<1>8. CASE ProposeTransaction
  <2>1. /\ job'.step = "refresh" /\ job.step = "propose" /\ job'.tx = job.tx
        /\ UNCHANGED <<serving, replay, step, tx, disk, durable>>
    BY <1>8, <1>a DEF ProposeTransaction, seqVars
  <2> QED BY <2>1, <1>a DEF JobLedger, Executing
<1>9. CASE RefreshState
  <2>1. job'.step = "none" /\ step = "idle" /\ step' = step
    BY <1>9, <1>a DEF RefreshState, NoJob, seqVars
  <2>2. replay' \in Seq(Tx) /\ (serving' => replay' = << >>)
    <3>1. CASE serving
      BY <1>9, <3>1, <1>a DEF RefreshState, JobLedger
    <3>2. CASE ~serving
      <4>1. replay # << >> /\ replay \in Seq(Tx) /\ replay' = Tail(replay) /\ serving' = (Len(replay) = 1)
        BY <1>9, <3>2, <1>a DEF RefreshState, JobLedger
      <4>2. Tail(replay) \in Seq(Tx) /\ (Len(replay) = 1 => Tail(replay) = << >>)
        BY <4>1
      <4> QED BY <4>1, <4>2
    <3> QED BY <3>1, <3>2
  <2> QED BY <2>1, <2>2 DEF JobLedger, Executing
<1>10. CASE SystemCallPanics \/ ReplayFails \/ NodeCrash
  BY <1>10, <1>c DEF SystemCallPanics, ReplayFails, NodeCrash
<1>11. CASE ExecutorError
  <2>1. CASE serving
    BY <1>11, <2>1, <1>a DEF ExecutorError, memVars, NoJob, JobLedger, Executing
  <2> QED BY <1>11, <2>1, <1>c DEF ExecutorError
<1>12. CASE ReplayNext
  <2>1. Head(replay) \in Tx /\ ~serving
    BY <1>12, <1>a DEF ReplayNext, JobLedger
  <2> QED BY <1>12, <2>1, <1>a DEF ReplayNext, seqVars, JobLedger, Executing
<1>13. ASSUME NEW s \in Modes, StartNode(s) PROVE JobLedger'
  <2>1. replay' \in Seq(Tx)
    <3>1. TypeOKDB /\ GenesisApart
      BY DEF WholeInv, NodeInv, SequencerInv, TypeOKSequencer
    <3>2. s = "Active" => None \notin {Unexecuted[i] : i \in DOMAIN Unexecuted}
      BY <1>13 DEF StartNode, Range
    <3> QED BY <1>13, <1>b, <3>1, <3>2, UnexecutedOfClients DEF StartNode
  <2>2. job'.step = "none" /\ step' = "idle" /\ serving' = (replay' = << >>)
    BY <1>13, <1>a DEF StartNode, Start
  <2> QED BY <2>1, <2>2 DEF JobLedger, Executing
<1>14. CASE UpdateIndexer \/ IndexerError \/ UNCHANGED vars
  BY <1>14, <1>a DEF UpdateIndexer, IndexerError, vars, seqVars, execVars, memVars, dbVars, JobLedger
<1>15. CASE RevertOther \/ \E o \in Order : RevertTx(o)
  <2>1. job.step = "none" /\ step = "idle" /\ UNCHANGED <<job, step, serving, replay>>
    BY <1>15, <1>a DEF RevertOther, RevertTx, execVars, memVars, RevertInfo, RevertRemoveTx,
       RevertRemoveMapping, RevertCrash, WholeInv, NodeInv, SequencerInv, CallOK
  <2> QED BY <2>1, <1>a DEF JobLedger, Executing
<1> QED BY <1>1, <1>2, <1>3, <1>4, <1>5, <1>6, <1>7, <1>8, <1>9, <1>10, <1>11, <1>12, <1>13, <1>14,
           <1>15
        DEF NextPipeline, PipelineStep

(***************************************************************************)
(* The ledger's entries of what was answered.                              *)
(***************************************************************************)
(* While no revert is cut off, every step of the sequencer and of the      *)
(* operator keeps the orders of the stored transactions distinct and not   *)
(* beyond the last one.                                                    *)
StoredOrders ==
  /\ OrdersUnique /\ NothingStoredAhead
  /\ revert.step = "remove_tx" =>
       disk.txs[revert.hash] # None /\ disk.txs[revert.hash].last_order = revert.order

\* StoredOrders is kept while no revert is torn.
LEMMA StoredOrdersStep ==
  ASSUME SequencerInv, StoredOrders, [NextSequencer]_seqVars, ~torn'
  PROVE  StoredOrders'
<1>a. /\ disk \in Image /\ disk \in durable /\ durable \subseteq Image
      /\ disk.sequencer_info.last_order \in Nat
      /\ \A image \in durable : image.sequencer_info = disk.sequencer_info
      /\ (step # "idle" => up /\ tx \in Hash) /\ (revert.step # "none" => ~up /\ revert.hash \in Hash)
      /\ revert \in RevertState
      /\ \A image \in durable, h \in Hash : image.txs[h] # None =>
           image.txs[h].last_order \in Nat
  <2>1. /\ disk \in Image /\ disk \in durable /\ durable \subseteq Image
        /\ \A image \in durable : image.sequencer_info = disk.sequencer_info
        /\ (step # "idle" => up /\ tx \in Hash)
        /\ (revert.step # "none" => ~up /\ revert.hash \in Hash) /\ revert \in RevertState
    BY DEF SequencerInv, TypeOKSequencer, TypeOKDB, CallOK, InfoSynced, Hash
  <2>2. \A info \in SequencerInfo : info.last_order \in Nat
    BY DEF SequencerInfo, Order
  <2>3. \A image \in Image : /\ image.sequencer_info \in SequencerInfo
                             /\ \A h \in Hash : image.txs[h] \in SequencerInfo \cup {None}
    BY DEF Image
  <2> QED BY <2>1, <2>2, <2>3
<1>b. (step # "idle") => /\ NewInfo \in SequencerInfo /\ NewInfo # None
                         /\ NewInfo.last_order = last_info.last_order + 1
                         /\ last_info.last_order \in Nat
  BY NewInfoType, NoneAssumption DEF SequencerInv, NewInfo, CallOK, SequencerInfo, Order
(* A step that neither stores nor removes a transaction.                   *)
<1>c. ASSUME UNCHANGED <<up, revert>>, disk'.sequencer_info = disk.sequencer_info,
             disk'.txs = disk.txs, step' # "save_tx" \/ (step' = step /\ last_info' = last_info),
             \A i \in durable' : \E j \in durable : i.txs = j.txs
      PROVE  StoredOrders'
  BY <1>c DEF StoredOrders, OrdersUnique, NothingStoredAhead
<1>1. CASE \/ \E t \in Tx : Sequence(t)
           \/ NotContinuous \/ StorageError \/ FaultElsewhere \/ UNCHANGED seqVars
  BY <1>1, <1>c DEF Sequence, NotContinuous, StorageError, FaultElsewhere, seqVars, memVars, dbVars
<1>2. CASE Flush
  <2> DEFINE image == [disk EXCEPT !.acc_nodes = @ \cup unflushed]
  <2>1. image.txs = disk.txs /\ image.sequencer_info = disk.sequencer_info
    BY <1>a DEF Image
  <2>2. disk' = image /\ durable' = durable \cup {image} /\ step' = "save_info"
        /\ UNCHANGED <<up, revert>>
    BY <1>2 DEF Flush, put
  <2> HIDE DEF image
  <2> QED BY <1>a, <1>c, <2>1, <2>2
<1>3. CASE SaveSequencerInfo
  <2> DEFINE image == [disk EXCEPT !.sequencer_info = NewInfo]
  <2>1. image.txs = disk.txs /\ image.sequencer_info = NewInfo
    BY <1>a DEF Image
  <2>2. disk' = image /\ durable' = {image} /\ step # "idle" /\ step' = "save_tx"
        /\ UNCHANGED <<up, revert, last_info>>
    BY <1>3 DEF SaveSequencerInfo, put_sync
  <2>3. last_info.last_order = disk.sequencer_info.last_order
    BY <1>3, <1>a, <1>b, <2>2 DEF SaveSequencerInfo, Continuous
  <2> HIDE DEF image
  <2> QED BY <1>a, <1>b, <2>1, <2>2, <2>3 DEF StoredOrders, OrdersUnique, NothingStoredAhead
<1>4. CASE SaveTx
  <2> DEFINE image == [disk EXCEPT !.txs[tx] = NewInfo]
  <2>1. /\ image.sequencer_info = disk.sequencer_info
        /\ \A h \in Hash : image.txs[h] = IF h = tx THEN NewInfo ELSE disk.txs[h]
    BY <1>a DEF Image
  <2>2. disk' = image /\ durable' = durable \cup {image} /\ step = "save_tx" /\ step' = "save_mapping"
        /\ UNCHANGED <<up, revert>>
    BY <1>4 DEF SaveTx, put
  <2>3. disk.sequencer_info = NewInfo
    BY <2>2 DEF SequencerInv, MemoryExtendsStore
  <2> HIDE DEF image
  <2>4. \A h \in Hash : disk.txs[h] # None => disk.txs[h].last_order <= last_info.last_order
    BY <1>a, <2>2 DEF StoredOrders, NothingStoredAhead
  <2>5. OrdersUnique'
    <3>1. \A g, h \in Hash :
            image.txs[g] # None /\ image.txs[h] # None
              /\ image.txs[g].last_order = image.txs[h].last_order => g = h
      BY <1>a, <1>b, <2>1, <2>2, <2>4 DEF StoredOrders, OrdersUnique
    <3> QED BY <2>2, <3>1 DEF StoredOrders, OrdersUnique
  <2>6. NothingStoredAhead'
    BY <1>a, <1>b, <2>1, <2>2, <2>3, <2>4 DEF StoredOrders, NothingStoredAhead
  <2> QED BY <1>a, <2>2, <2>5, <2>6 DEF StoredOrders
<1>5. CASE SaveMapping
  <2> DEFINE image == [disk EXCEPT !.mapping[NewInfo.last_order] = tx]
  <2>1. image.txs = disk.txs /\ image.sequencer_info = disk.sequencer_info
    BY <1>a DEF Image
  <2>2. disk' = image /\ durable' = durable \cup {image} /\ step' = "idle"
        /\ UNCHANGED <<up, revert>>
    BY <1>5 DEF SaveMapping, put
  <2> HIDE DEF image
  <2> QED BY <1>a, <1>c, <2>1, <2>2
<1>6. CASE Crash \/ ProcessExits
  <2>1. /\ disk' \in durable /\ durable' \subseteq durable /\ up /\ up' = FALSE
        /\ step' = "idle" /\ revert' = revert
    BY <1>6, <1>a DEF Crash, ProcessExits, MemoryLost, Recover, dbVars
  <2>2. \A h \in Hash : disk'.txs[h] # None =>
          disk'.txs[h].last_order <= disk'.sequencer_info.last_order
    BY <1>a, <2>1 DEF StoredOrders, NothingStoredAhead
  <2>3. \A h \in Hash : disk'.txs[h] # None =>
          disk'.txs[h].last_order \in Nat /\ disk'.sequencer_info.last_order \in Nat
    BY <1>a, <2>1
  <2> QED BY <1>a, <2>1, <2>2, <2>3 DEF StoredOrders, OrdersUnique, NothingStoredAhead
<1>7. CASE ExecutorWrites
  BY <1>7, <1>a, <1>c DEF ExecutorWrites, put, put_sync, memVars
<1>8. ASSUME NEW s \in ServiceStatus, Start(s) PROVE StoredOrders'
  <2>1. /\ disk' = disk /\ durable' = {disk} /\ ~up /\ up' /\ step' = "idle" /\ revert.step = "none"
        /\ revert' = revert
    BY <1>8, <1>a DEF Start, Open, SequencerInv, CallOK
  <2>2. \A h \in Hash : disk.txs[h] # None =>
          disk.txs[h].last_order <= disk.sequencer_info.last_order
    BY <1>a, <2>1 DEF StoredOrders, NothingStoredAhead
  <2> QED BY <1>a, <2>1, <2>2 DEF StoredOrders, OrdersUnique, NothingStoredAhead
<1>9. ASSUME NEW o \in Order, RevertInfo(o) PROVE StoredOrders'
  <2> DEFINE last == disk.sequencer_info.last_order
             hash == disk.mapping[o]
             info == [last_order |-> last - 1, acc |-> disk.txs[disk.mapping[last - 1]].acc]
             image == [disk EXCEPT !.sequencer_info = info]
  <2>1. image.txs = disk.txs /\ image.sequencer_info.last_order = last - 1
    BY <1>a DEF Image
  <2>2. /\ disk' = image /\ durable' = {image} /\ last > 0 /\ last \in Nat
        /\ hash \in Hash /\ disk.txs[hash] # None /\ disk.txs[hash].last_order = last
        /\ revert' = [hash |-> hash, order |-> last, step |-> "remove_tx"]
        /\ ~up /\ up' = up /\ step' = step /\ step = "idle" /\ revert.step = "none"
    BY <1>9, <1>a DEF RevertInfo, put_sync, memVars, Image
  <2>3. \A h \in Hash : disk.txs[h] # None => disk.txs[h].last_order <= last
    BY <1>a, <2>2 DEF StoredOrders, NothingStoredAhead
  <2>4. \A h \in Hash : disk.txs[h] # None /\ disk.txs[h].last_order > last - 1 =>
          disk.txs[h].last_order = last
    BY <1>a, <2>2, <2>3
  <2> HIDE DEF last, image, hash
  <2> QED BY <1>a, <2>1, <2>2, <2>4 DEF StoredOrders, OrdersUnique, NothingStoredAhead
<1>10. CASE RevertRemoveTx
  <2> DEFINE image == [disk EXCEPT !.txs[revert.hash] = None]
  <2>1. /\ image.sequencer_info = disk.sequencer_info
        /\ \A h \in Hash : image.txs[h] = IF h = revert.hash THEN None ELSE disk.txs[h]
    BY <1>a DEF Image
  <2>2. /\ disk' = image /\ durable' = durable \cup {image} /\ revert.step = "remove_tx"
        /\ revert'.step = "remove_mapping" /\ ~up /\ up' = up /\ step' = step /\ step = "idle"
    BY <1>10, <1>a DEF RevertRemoveTx, put, memVars, RevertState
  <2> HIDE DEF image
  <2>3. \A h \in Hash : image.txs[h] # None =>
          ~(image.txs[h].last_order > disk.sequencer_info.last_order)
    BY <1>a, <2>1, <2>2 DEF StoredOrders, OrdersUnique, NothingStoredAhead
  <2>4. OrdersUnique'
    <3>1. \A g, h \in Hash :
            image.txs[g] # None /\ image.txs[h] # None
              /\ image.txs[g].last_order = image.txs[h].last_order => g = h
      BY <1>a, <2>1 DEF StoredOrders, OrdersUnique
    <3> QED BY <2>2, <3>1 DEF StoredOrders, OrdersUnique
  <2> QED BY <1>a, <2>1, <2>2, <2>3, <2>4 DEF StoredOrders, NothingStoredAhead
<1>11. CASE RevertRemoveMapping
  <2> DEFINE image == [disk EXCEPT !.mapping[revert.order] = None]
  <2>1. image.txs = disk.txs /\ image.sequencer_info = disk.sequencer_info
    BY <1>a DEF Image
  <2>2. /\ disk' = image /\ durable' = durable \cup {image} /\ revert.step = "remove_mapping"
        /\ revert'.step = "none" /\ ~up /\ up' = up /\ step' = step /\ step = "idle"
    BY <1>11, <1>a DEF RevertRemoveMapping, put, memVars, NoRevert
  <2> HIDE DEF image
  <2> QED BY <1>a, <2>1, <2>2 DEF StoredOrders, OrdersUnique, NothingStoredAhead
<1>12. CASE RevertCrash
  <2>1. /\ disk' = disk /\ durable' = {disk} /\ revert.step = "none" /\ revert'.step = "none"
        /\ ~up /\ up' = up /\ step' = step /\ step = "idle"
    BY <1>12, <1>a DEF RevertCrash, Recover, NoRevert, memVars
  <2> QED BY <1>a, <2>1 DEF StoredOrders, OrdersUnique, NothingStoredAhead
<1> QED BY <1>1, <1>2, <1>3, <1>4, <1>5, <1>6, <1>7, <1>8, <1>9, <1>10, <1>11, <1>12
        DEF NextSequencer, SequenceStep, RevertStep

(* A transaction that was answered is in the reader's root, and so not the *)
(* one a running call is about.                                            *)
LEMMA AnsweredIsNotCalled ==
  ASSUME WholeInv, step # "idle"
  PROVE  \A a \in acked : a.tx # tx
<1>1. up /\ job.step = "sequence" /\ tx = job.tx
  BY DEF WholeInv, NodeInv, JobOK, SequencerInv, CallOK, JobLedger
<1>2. \A a \in acked : Extends(reader_root, a.root) /\ a.tx \in Range(a.root)
  BY <1>1 DEF WholeInv, ExecutorInv, AnswersSeen, Seen
<1>3. \A a \in acked : a.tx \in Range(reader_root)
  BY <1>2, NodeTypes, ExtendsRange
<1> QED BY <1>1, <1>3 DEF WholeInv, ExecutorInv, JobRoots

(* While no revert is cut off, every step keeps the ledger's entries of    *)
(* what was answered.                                                      *)
LEMMA LedgerStep ==
  ASSUME WholeInv, [NextPipeline]_vars
  PROVE  LedgerInv'
<1> SUFFICES ASSUME ~torn' PROVE OrdersUnique' /\ NothingStoredAhead' /\ RevertOK' /\ AnswersKept'
  BY DEF LedgerInv
<1>s. [NextSequencer]_seqVars
  BY NodeStep DEF WholeInv
<1>t. ~torn
  BY <1>s DEF NextSequencer, Sequence, SequenceStep, RevertStep, Flush, SaveSequencerInfo, SaveTx,
     SaveMapping, NotContinuous, StorageError, Crash, ExecutorWrites, FaultElsewhere, ProcessExits,
     Start, RevertInfo, RevertRemoveTx, RevertRemoveMapping, RevertCrash, MemoryLost, histVars, seqVars
<1>o. StoredOrders /\ StoredOrders'
  BY <1>s, <1>t, StoredOrdersStep DEF WholeInv, NodeInv, LedgerInv, RevertOK, StoredOrders
<1> DEFINE Untouched == revert.step # "none" =>
                          \A a \in acked : a.tx # revert.hash /\ a.info.last_order # revert.order
<1> SUFFICES Untouched' /\ AnswersKept'
  BY <1>o DEF StoredOrders, RevertOK
<1>a. /\ disk \in Image /\ disk \in durable /\ durable \subseteq Image
      /\ Untouched /\ AnswersKept /\ OrdersUnique
      /\ (step # "idle" => tx \in Hash) /\ (revert.step # "none" => ~up)
      /\ revert \in RevertState
      /\ \A a \in acked : a.tx \in Hash /\ a.info \in SequencerInfo /\ a.info # None
                          /\ a.info.last_order \in Order
  BY <1>t, NodeTypes, NoneAssumption
  DEF WholeInv, LedgerInv, RevertOK, NodeInv, SequencerInv, CallOK, TypeOKSequencer, Hash,
      SequencerInfo
<1>b. (step # "idle") => NewInfo \in SequencerInfo /\ \A a \in acked : a.tx # tx
  BY NewInfoType, AnsweredIsNotCalled DEF WholeInv, NodeInv, SequencerInv
(* A step that writes elsewhere, or crashes.                               *)
<1>c. ASSUME UNCHANGED <<revert, acked>>,
             \A i \in durable' : \E j \in durable : i.txs = j.txs /\ i.mapping = j.mapping
      PROVE  Untouched' /\ AnswersKept'
  BY <1>c, <1>a DEF AnswersKept
<1>d. ASSUME UNCHANGED <<revert, acked>>, UNCHANGED dbVars PROVE Untouched' /\ AnswersKept'
  BY <1>c, <1>d DEF dbVars
<1>1. CASE (\E t \in Tx : Submit(t)) \/ SequenceFailed
  BY <1>1, <1>d DEF Submit, Sequence, SequenceFailed, NotContinuous, StorageError, nodeHist
<1>2. CASE Sequencing /\ (Flush \/ SaveSequencerInfo)
  <2> DEFINE image1 == [disk EXCEPT !.acc_nodes = @ \cup unflushed]
             image2 == [disk EXCEPT !.sequencer_info = NewInfo]
  <2>1. /\ image1.txs = disk.txs /\ image1.mapping = disk.mapping
        /\ image2.txs = disk.txs /\ image2.mapping = disk.mapping
    BY <1>a DEF Image
  <2>2. /\ revert' = revert /\ acked' = acked
        /\ \A i \in durable' : i \in durable \/ i = image1 \/ i = image2
    BY <1>2 DEF Sequencing, nodeHist, Flush, SaveSequencerInfo, put, put_sync
  <2> HIDE DEF image1, image2
  <2> QED BY <1>a, <1>c, <2>1, <2>2
<1>3. CASE Sequencing /\ SaveTx
  <2> DEFINE image == [disk EXCEPT !.txs[tx] = NewInfo]
  <2>1. /\ image.mapping = disk.mapping
        /\ \A h \in Hash : h # tx => image.txs[h] = disk.txs[h]
    BY <1>a DEF Image
  <2>2. /\ revert' = revert /\ acked' = acked /\ step # "idle"
        /\ \A i \in durable' : i \in durable \/ i = image
    BY <1>3 DEF Sequencing, nodeHist, SaveTx, put
  <2> HIDE DEF image
  <2> QED BY <1>a, <1>b, <2>1, <2>2 DEF AnswersKept
<1>4. CASE Sequenced
  <2> DEFINE image == [disk EXCEPT !.mapping[NewInfo.last_order] = tx]
  <2>1. /\ image.txs = disk.txs
        /\ \A o \in Order : o # NewInfo.last_order => image.mapping[o] = disk.mapping[o]
    BY <1>a DEF Image
  <2>2. /\ revert' = revert /\ acked' = acked /\ step # "idle"
        /\ \A i \in durable' : i \in durable \/ i = image
    BY <1>4 DEF Sequenced, nodeHist, SaveMapping, put
  <2>3. disk.txs[tx] = NewInfo /\ NewInfo # None
    BY <1>4, <1>b, NoneAssumption
    DEF Sequenced, SaveMapping, WholeInv, NodeInv, SequencerInv, MemoryExtendsStore
  <2>4. \A a \in acked : a.info.last_order # NewInfo.last_order
    BY <1>a, <1>b, <2>2, <2>3 DEF AnswersKept, OrdersUnique
  <2> HIDE DEF image
  <2> QED BY <1>a, <2>1, <2>2, <2>4 DEF AnswersKept
<1>5. CASE ApplyChangeSet \/ SaveStartupInfo \/ SaveExecutionInfo
  <2>1. ExecutorWrites
    BY <1>5, ExecutorWritesOK DEF WholeInv
  <2>2. revert' = revert /\ acked' = acked
    BY <1>5 DEF ApplyChangeSet, SaveStartupInfo, SaveExecutionInfo, nodeHist
  <2> QED BY <1>a, <1>c, <2>1, <2>2 DEF ExecutorWrites, put, put_sync
<1>6. CASE ProposeTransaction \/ ReplayNext \/ UpdateIndexer \/ IndexerError \/ UNCHANGED vars
  BY <1>6, <1>d DEF ProposeTransaction, ReplayNext, UpdateIndexer, IndexerError, vars, seqVars,
     nodeHist, dbVars
<1>7. CASE RefreshState
  <2>1. revert' = revert /\ durable' = durable /\ revert.step = "none"
    BY <1>7, <1>a DEF RefreshState, seqVars
  <2>2. \A a \in acked' : a \in acked \/ (serving /\ a.tx = job.tx /\ a.info = disk.txs[job.tx])
    BY <1>7 DEF RefreshState
  <2>3. serving => \A image \in durable : /\ image.txs[job.tx] = disk.txs[job.tx]
                                          /\ image.mapping[disk.txs[job.tx].last_order] = job.tx
    BY <1>7 DEF RefreshState, WholeInv, JobLedger
  <2> QED BY <1>a, <2>1, <2>2, <2>3 DEF AnswersKept
<1>8. CASE SystemCallPanics \/ ReplayFails \/ ExecutorError
  BY <1>8, <1>d DEF SystemCallPanics, ReplayFails, ExecutorError, Exit, MemoryLost, nodeHist
<1>9. CASE NodeCrash
  BY <1>9, <1>c DEF NodeCrash, Recover, Exit, MemoryLost, nodeHist
<1>10. ASSUME NEW s \in Modes, StartNode(s) PROVE Untouched' /\ AnswersKept'
  BY <1>10, <1>a, <1>c DEF StartNode, Start, Open, nodeHist
<1>11. ASSUME NEW o \in Order, RevertTx(o) PROVE Untouched' /\ AnswersKept'
  <2> DEFINE last == disk.sequencer_info.last_order
             hash == disk.mapping[o]
             info == [last_order |-> last - 1, acc |-> disk.txs[disk.mapping[last - 1]].acc]
             image == [disk EXCEPT !.sequencer_info = info]
  <2>1. image.txs = disk.txs /\ image.mapping = disk.mapping
    BY <1>a DEF Image
  <2>2. /\ durable' = {image} /\ hash \in Hash
        /\ disk.txs[hash] # None /\ disk.txs[hash].last_order = last
        /\ revert' = [hash |-> hash, order |-> last, step |-> "remove_tx"]
        /\ acked' = {a \in acked : a.tx # hash}
    BY <1>11, <1>a DEF RevertTx, RevertInfo, put_sync, Image
  <2> HIDE DEF last, hash, image
  <2>3. \A a \in acked : a.tx # hash => a.info.last_order # last
    BY <1>a, <2>2 DEF AnswersKept, OrdersUnique
  <2> QED BY <1>a, <2>1, <2>2, <2>3 DEF AnswersKept
<1>12. CASE RevertOther /\ RevertRemoveTx
  <2> DEFINE image == [disk EXCEPT !.txs[revert.hash] = None]
  <2>1. /\ image.mapping = disk.mapping
        /\ \A h \in Hash : h # revert.hash => image.txs[h] = disk.txs[h]
    BY <1>a DEF Image
  <2>2. /\ revert.step # "none" /\ revert'.hash = revert.hash /\ revert'.order = revert.order
        /\ acked' = acked /\ \A i \in durable' : i \in durable \/ i = image
    BY <1>12, <1>a DEF RevertOther, nodeHist, RevertRemoveTx, put, RevertState
  <2> HIDE DEF image
  <2> QED BY <1>a, <2>1, <2>2 DEF AnswersKept
<1>13. CASE RevertOther /\ RevertRemoveMapping
  <2> DEFINE image == [disk EXCEPT !.mapping[revert.order] = None]
  <2>1. /\ image.txs = disk.txs
        /\ \A o \in Order : o # revert.order => image.mapping[o] = disk.mapping[o]
    BY <1>a DEF Image
  <2>2. /\ revert.step # "none" /\ revert'.step = "none"
        /\ acked' = acked /\ \A i \in durable' : i \in durable \/ i = image
    BY <1>13 DEF RevertOther, nodeHist, RevertRemoveMapping, put, NoRevert
  <2> HIDE DEF image
  <2> QED BY <1>a, <2>1, <2>2 DEF AnswersKept
<1>14. CASE RevertOther /\ RevertCrash
  BY <1>14, <1>a DEF RevertOther, nodeHist, RevertCrash, Recover, NoRevert, AnswersKept
<1> QED BY <1>1, <1>2, <1>3, <1>4, <1>5, <1>6, <1>7, <1>8, <1>9, <1>10, <1>11, <1>12, <1>13, <1>14
        DEF NextPipeline, PipelineStep, Sequencing, RevertOther

(***************************************************************************)
(* The invariant and what follows from it.                                 *)
(***************************************************************************)
(* A genesis database, nothing answered.                                   *)
LEMMA WholeInit == InitPipeline => WholeInv
<1> SUFFICES ASSUME InitPipeline PROVE WholeInv
  OBVIOUS
<1> USE DEF InitPipeline, InitSequencer, InitDB
<1>1. NodeInv
  BY NodeInit
<1>2. /\ disk = GenesisImage /\ durable = {GenesisImage} /\ <<Genesis>> \in StateRoot
      /\ Genesis \in Hash /\ GenesisImage.startup_info = <<Genesis>>
      /\ GenesisImage.txs[Genesis] = GenesisInfo
      /\ \A h \in Hash : GenesisImage.txs[h] # None \/ GenesisImage.execution_info[h] # None
                           => h = Genesis
      /\ GenesisImage.execution_info[Genesis] = <<Genesis>>
      /\ \A o \in Order : o > 0 => GenesisImage.mapping[o] = None
      /\ GenesisImage.sequencer_info.last_order = 0 /\ GenesisInfo.last_order = 0
  BY DEF GenesisImage, GenesisInfo, StateRoot, Hash, Order
<1>3. TypeOKPipeline
  <2>1. << >> \in Seq(Hash) /\ {Genesis} \subseteq Hash /\ NoJob.step \in JobStep
    BY DEF Hash, NoJob, JobStep
  <2>2. NoJob \in [step : JobStep, tx : Tx \cup {None}, base : StateRoot]
    BY <2>1 DEF NoJob, StateRoot
  <2> QED BY <1>1, <1>2, <2>1, <2>2 DEF TypeOKPipeline, NodeInv, SequencerInv
<1>4. GenesisApart
  BY <1>2, TxAssumption DEF GenesisApart, NoRevert
<1>5. JobLedger
  BY DEF JobLedger, NoJob, Executing
<1>6. ExecutorInv
  <2>1. Settled = <<Genesis>> /\ Seen = <<Genesis>> /\ Extends(<<Genesis>>, <<Genesis>>)
    BY <1>2, RootExtendsItself DEF Settled, Seen
  <2>2. Genesis \in Range(<<Genesis>>) /\ IsInjective(<<Genesis>>)
    BY DEF Range, IsInjective
  <2>3. StartupSynced /\ RootsFollow /\ JobRoots
    BY <1>2, <2>1, <2>2 DEF StartupSynced, RootsFollow, JobRoots, NoJob
  <2>4. ExecutedSettled /\ AnswersSeen /\ IndexSettled
    BY <1>2, <2>1, <2>2 DEF ExecutedSettled, AnswersSeen, IndexSettled
  <2> QED BY <2>3, <2>4 DEF ExecutorInv
<1>7. LedgerInv
  BY <1>2 DEF LedgerInv, OrdersUnique, NothingStoredAhead, RevertOK, AnswersKept, NoRevert
<1> QED BY <1>1, <1>3, <1>4, <1>5, <1>6, <1>7 DEF WholeInv

(* The inductive invariant holds in every state of the node.               *)
THEOREM WholeInvariant == SpecPipeline => []WholeInv
<1>1. InitPipeline => WholeInv
  BY WholeInit
<1>2. WholeInv /\ [NextPipeline]_vars => WholeInv'
  <2> SUFFICES ASSUME WholeInv, [NextPipeline]_vars PROVE WholeInv'
    OBVIOUS
  <2>1. NodeInv'
    BY NodeStep, JobStepOK, NextInv DEF WholeInv, NodeInv
  <2>2. GenesisApart'
    BY NodeStep, GenesisStep DEF WholeInv, NodeInv
  <2> QED BY <2>1, <2>2, TypesStep, JobLedgerStep, ExecutorStep, LedgerStep DEF WholeInv
<1> QED BY <1>1, <1>2, PTL DEF SpecPipeline

(* Whatever fails or crashes between the writes of an execution, a stored  *)
(* execution info names the startup state or an ancestor of it.            *)
THEOREM NodeExecutedIsInState == SpecPipeline => []PipelineInv
<1>1. WholeInv => PipelineInv
  <2> SUFFICES ASSUME WholeInv PROVE ExecutedIsInState
    BY DEF WholeInv, PipelineInv
  <2> SUFFICES ASSUME NEW image \in durable, NEW h \in Hash, image.execution_info[h] # None
               PROVE  Extends(image.startup_info, image.execution_info[h])
    BY DEF ExecutedIsInState
  <2>1. image.startup_info = disk.startup_info
    BY DEF WholeInv, ExecutorInv, StartupSynced
  <2>2. Extends(Settled, image.execution_info[h]) /\ image.execution_info[h] \in StateRoot
    BY NodeTypes DEF WholeInv, ExecutorInv, ExecutedSettled
  <2>3. Extends(disk.startup_info, Settled)
    BY NodeTypes, RootExtendsItself DEF WholeInv, ExecutorInv, RootsFollow, Settled
  <2> QED BY <2>1, <2>2, <2>3, NodeTypes, RootExtendsTransitive
<1> QED BY <1>1, WholeInvariant, PTL

(* No crash, replay, retry or resubmission has a transaction's effects     *)
(* applied to the state a second time.                                     *)
THEOREM NodeNeverExecutesTwice == SpecPipeline => []NoDoubleExecution
<1>1. WholeInv => NoDoubleExecution
  BY DEF WholeInv, ExecutorInv, StartupSynced, RootsFollow, NoDoubleExecution
<1> QED BY <1>1, WholeInvariant, PTL

(* What a submitter was told, a reader was shown or the indexer stored is  *)
(* in every image a crash may leave.                                       *)
THEOREM NodeKeepsWhatWasSeen == SpecPipeline => []SeenIsKept
<1>1. WholeInv => SeenIsKept
  <2> SUFFICES ASSUME WholeInv PROVE SeenIsKept
    OBVIOUS
  <2>1. \A image \in durable : image.startup_info = disk.startup_info
    BY DEF WholeInv, ExecutorInv, StartupSynced
  <2>2. Extends(disk.startup_info, Settled) /\ Extends(Settled, Seen)
    BY NodeTypes, RootExtendsItself DEF WholeInv, ExecutorInv, RootsFollow, Settled, Seen
  <2>3. Extends(disk.startup_info, Seen)
    BY <2>2, NodeTypes, RootExtendsTransitive
  <2>4. AckedIsKept
    <3> SUFFICES ASSUME NEW a \in acked, NEW image \in durable
                 PROVE  /\ Extends(image.startup_info, a.root)
                        /\ torn \/ (image.txs[a.tx] = a.info /\ image.mapping[a.info.last_order] = a.tx)
      BY DEF AckedIsKept
    <3>1. Extends(Seen, a.root)
      BY DEF WholeInv, ExecutorInv, AnswersSeen
    <3>2. Extends(image.startup_info, a.root)
      BY <2>1, <2>3, <3>1, NodeTypes, RootExtendsTransitive
    <3> QED BY <3>2 DEF WholeInv, LedgerInv, AnswersKept
  <2>5. ReadYourWrites
    BY DEF WholeInv, ExecutorInv, RootsFollow, AnswersSeen, Seen, ReadYourWrites
  <2>6. IndexedIsDurable
    <3>1. \A h \in indexed : h \in Range(disk.startup_info)
      BY <2>2, NodeTypes, ExtendsRange DEF WholeInv, ExecutorInv, IndexSettled
    <3> QED BY <2>1, <3>1 DEF IndexedIsDurable
  <2> QED BY <2>4, <2>5, <2>6 DEF SeenIsKept
<1> QED BY <1>1, WholeInvariant, PTL
=============================================================================
