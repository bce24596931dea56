--------------------------- MODULE PipelineProofs ---------------------------
(***************************************************************************)
(* The whole node implements the sequencer's specification: what the       *)
(* pipeline, the executor, the indexer and the startup do to the shared    *)
(* database and to the process is one of the steps Sequencer allows them.  *)
(* The sequencer's theorems therefore hold of the node.                    *)
(***************************************************************************)
EXTENDS Pipeline, SequencerProofs, FiniteSetTheorems

(* What a write of the executor is made of: a root and a hash.  While the  *)
(* sequencer works on a call, the processor waits for it.                  *)
JobOK ==
  /\ step # "idle" => job.step = "sequence"
  /\ job \in [step : JobStep, tx : Hash \cup {None}, base : StateRoot]
  /\ job.step # "none" => job.tx \in Hash
  /\ job.step # "none" => serving \/ replay # << >>
  /\ ~up => job.step = "none"
  /\ root \in StateRoot /\ replay \in Seq(Hash)

\* The sequencer's invariant and the tie between a running sequence call and its job.
NodeInv == SequencerInv /\ JobOK

(* A genesis database, an idle job.                                        *)
LEMMA NodeInit == InitPipeline => NodeInv
<1> SUFFICES ASSUME InitPipeline PROVE NodeInv
  OBVIOUS
<1>1. SequencerInv
  BY InitInv DEF InitPipeline
<1>2. root \in StateRoot
  BY DEF InitPipeline, InitSequencer, InitDB, GenesisImage, StateRoot, Hash
<1>3. JobOK
  BY <1>2 DEF InitPipeline, InitSequencer, JobOK, NoJob, JobStep, StateRoot
<1> QED BY <1>1, <1>3 DEF NodeInv

(* The root an execution leads to is a state root.                         *)
LEMMA NewRootType ==
  ASSUME JobOK, job.step # "none" PROVE NewRoot \in StateRoot
BY DEF JobOK, NewRoot, StateRoot

(* What the scan at startup finds is a sequence of hashes, when every      *)
(* order it meets has one.                                                 *)
LEMMA UnexecutedType ==
  ASSUME TypeOKDB, None \notin {Unexecuted[i] : i \in DOMAIN Unexecuted}
  PROVE  Unexecuted \in Seq(Hash)
<1> DEFINE last == disk.sequencer_info.last_order
<1>0. disk.mapping \in [Order -> Hash \cup {None}] /\ last \in Order
  BY DEF TypeOKDB, Image, SequencerInfo
<1>1. last \in Nat /\ \A o \in Order : disk.mapping[o] \in Hash \cup {None}
  <2>1. last \in Nat
    BY <1>0, MaxOrderAssumption DEF Order
  <2> QED BY <1>0, <2>1
<1>2. Scanned \subseteq 1..last
  BY DEF Scanned
<1>3. IsFiniteSet(1..last) /\ Cardinality(1..last) = last
  <2>1. /\ IsFiniteSet(1..last)
        /\ Cardinality(1..last) = IF 1 > last THEN 0 ELSE last - 1 + 1
    BY <1>1, FS_Interval, SMTT(30)
  <2> QED BY <1>1, <2>1
<1>4. Cardinality(Scanned) \in Nat /\ Cardinality(Scanned) <= last
  BY <1>2, <1>3, FS_Subset, FS_CardinalityType
<1>5. \A i \in 1..Cardinality(Scanned) : last - i + 1 \in Order
  BY <1>0, <1>1, <1>4, MaxOrderAssumption DEF Order
<1>6. \A i \in 1..Cardinality(Scanned) : Unexecuted[i] \in Hash
  BY <1>1, <1>5 DEF Unexecuted
<1> QED BY <1>4, <1>6 DEF Unexecuted

(* Every step keeps the job well formed.                                   *)
LEMMA JobStepOK ==
  ASSUME NodeInv, [NextPipeline]_vars
  PROVE  JobOK'
<1> DEFINE Job == [step : JobStep, tx : Hash \cup {None}, base : StateRoot]
<1>a. /\ job \in Job /\ (job.step # "none" => job.tx \in Hash)
      /\ root \in StateRoot /\ replay \in Seq(Hash) /\ << >> \in StateRoot
      /\ (step # "idle" => job.step = "sequence") /\ (~up => step = "idle")
      /\ (job.step # "none" => serving \/ replay # << >>) /\ (~up => job.step = "none")
  BY DEF NodeInv, StateRoot, JobOK, SequencerInv, CallOK
<1>b. NoJob \in Job /\ NoJob.step = "none"
  BY <1>a DEF NoJob, JobStep
<1>c. ASSUME Exit PROVE JobOK'
  BY <1>a, <1>b, <1>c DEF Exit, MemoryLost, JobOK
<1>1. ASSUME NEW t \in Tx, Submit(t) PROVE JobOK'
  BY <1>1, <1>a DEF Submit, Sequence, Hash, JobOK, JobStep
<1>2. CASE Sequencing
  <2>1. up' = up /\ step # "idle" /\ UNCHANGED execVars
    BY <1>2 DEF Sequencing, Flush, SaveSequencerInfo, SaveTx
  <2> QED BY <2>1, <1>a DEF execVars, JobOK
<1>3. CASE Sequenced
  BY <1>3, <1>a DEF Sequenced, SaveMapping, JobOK, JobStep
<1>4. CASE SequenceFailed
  BY <1>4, <1>a, <1>b DEF SequenceFailed, NotContinuous, StorageError, JobOK
<1>5. CASE ApplyChangeSet \/ SaveStartupInfo
  BY <1>5, <1>a DEF ApplyChangeSet, SaveStartupInfo, memVars, JobOK, JobStep
<1>6. CASE SaveExecutionInfo
  BY <1>6, <1>a, NewRootType DEF SaveExecutionInfo, memVars, JobOK, JobStep, NodeInv
<1>7. CASE ProposeTransaction
  BY <1>7, <1>a DEF ProposeTransaction, seqVars, JobOK, JobStep
<1>8. CASE RefreshState
  <2>1. replay' \in Seq(Hash)
    BY <1>8, <1>a DEF RefreshState
  <2> QED BY <1>8, <1>a, <1>b, <2>1 DEF RefreshState, seqVars, JobOK
<1>9. CASE SystemCallPanics \/ ReplayFails \/ NodeCrash
  BY <1>9, <1>c DEF SystemCallPanics, ReplayFails, NodeCrash
<1>10. CASE ExecutorError
  <2>1. CASE serving
    BY <1>10, <2>1, <1>a, <1>b DEF ExecutorError, memVars, JobOK
  <2> QED BY <1>10, <1>c, <2>1 DEF ExecutorError
<1>11. CASE ReplayNext
  BY <1>11, <1>a DEF ReplayNext, seqVars, JobOK, JobStep
<1>12. ASSUME NEW s \in Modes, StartNode(s) PROVE JobOK'
  <2>1. replay' \in Seq(Hash)
    <3>1. TypeOKDB
      BY DEF NodeInv, SequencerInv, TypeOKSequencer
    <3>2. s = "Active" => None \notin {Unexecuted[i] : i \in DOMAIN Unexecuted}
      BY <1>12 DEF StartNode, Range
    <3> QED BY <1>12, <3>1, <3>2, UnexecutedType DEF StartNode
  <2>2. disk.startup_info \in StateRoot
    BY DEF NodeInv, SequencerInv, TypeOKSequencer, TypeOKDB, Image
  <2> QED BY <1>12, <1>a, <2>1, <2>2 DEF StartNode, Start, JobOK
<1>13. CASE UpdateIndexer \/ IndexerError \/ UNCHANGED vars
  BY <1>13, <1>a DEF UpdateIndexer, IndexerError, vars, execVars, seqVars, memVars, JobOK
<1>14. CASE RevertOther \/ \E o \in Order : RevertTx(o)
  BY <1>14, <1>a DEF RevertOther, RevertTx, RevertInfo, RevertRemoveTx, RevertRemoveMapping,
     RevertCrash, execVars, memVars, JobOK
<1> QED BY <1>1, <1>2, <1>3, <1>4, <1>5, <1>6, <1>7, <1>8, <1>9, <1>10, <1>11, <1>12, <1>13, <1>14
        DEF NextPipeline, PipelineStep

(* The three writes of the executor are writes of its own columns.         *)
LEMMA ExecutorWritesOK ==
  ASSUME NodeInv, ApplyChangeSet \/ SaveStartupInfo \/ SaveExecutionInfo
  PROVE  ExecutorWrites
<1>a. disk \in Image /\ up /\ job.step # "none"
  BY DEF NodeInv, SequencerInv, TypeOKSequencer, TypeOKDB, ApplyChangeSet, SaveStartupInfo,
     SaveExecutionInfo
<1>b. NewRoot \in StateRoot /\ job.tx \in Hash
  BY <1>a, NewRootType DEF NodeInv, JobOK
<1>c. /\ put(disk') \/ put_sync(disk')
      /\ UNCHANGED <<status, up, memVars, revert, faults, crashes, histVars>>
  BY DEF ApplyChangeSet, SaveStartupInfo, SaveExecutionInfo, put, put_sync
<1>d. disk' \in {[disk EXCEPT !.state_nodes = @ \cup {NewRoot}],
                 [disk EXCEPT !.startup_info = NewRoot],
                 [disk EXCEPT !.execution_info[job.tx] = NewRoot]}
  BY DEF ApplyChangeSet, SaveStartupInfo, SaveExecutionInfo, put, put_sync
<1>e. /\ disk' \in Image /\ disk'.sequencer_info = disk.sequencer_info
      /\ disk'.txs = disk.txs /\ disk'.mapping = disk.mapping
      /\ disk'.acc_nodes = disk.acc_nodes
  BY <1>a, <1>b, <1>d DEF Image
<1> QED BY <1>a, <1>c, <1>e DEF ExecutorWrites

(* Every step of the node is a step of the sequencer's specification or    *)
(* leaves its state alone.                                                 *)
LEMMA NodeStep ==
  ASSUME NodeInv, [NextPipeline]_vars
  PROVE  [NextSequencer]_seqVars
<1> USE DEF NextSequencer
<1>1. ASSUME NEW t \in Tx, Submit(t) PROVE NextSequencer
  BY <1>1 DEF Submit
<1>2. CASE Sequencing \/ Sequenced \/ SequenceFailed
  BY <1>2 DEF Sequencing, Sequenced, SequenceFailed, SequenceStep
<1>3. CASE ApplyChangeSet \/ SaveStartupInfo \/ SaveExecutionInfo
  BY <1>3, ExecutorWritesOK
<1>4. CASE ProposeTransaction \/ RefreshState \/ ReplayNext \/ UpdateIndexer \/ UNCHANGED vars
  BY <1>4 DEF ProposeTransaction, RefreshState, ReplayNext, UpdateIndexer, vars
<1>5. CASE SystemCallPanics \/ ReplayFails
  BY <1>5 DEF SystemCallPanics, ReplayFails, Exit, ProcessExits, dbVars
<1>6. CASE ExecutorError
  <2>1. CASE serving
    BY <1>6, <2>1 DEF ExecutorError, FaultElsewhere, dbVars
  <2>2. CASE ~serving
    BY <1>6, <2>2 DEF ExecutorError, Exit, ProcessExits, dbVars
  <2> QED BY <2>1, <2>2
<1>7. CASE IndexerError
  BY <1>7 DEF IndexerError, FaultElsewhere
<1>8. CASE NodeCrash
  BY <1>8 DEF NodeCrash, Exit, Crash
<1>9. ASSUME NEW s \in Modes, StartNode(s) PROVE NextSequencer
  BY <1>9, PipelineAssumption DEF StartNode
<1>10. CASE RevertOther \/ \E o \in Order : RevertTx(o)
  BY <1>10 DEF RevertOther, RevertTx, RevertStep
<1> QED BY <1>1, <1>2, <1>3, <1>4, <1>5, <1>6, <1>7, <1>8, <1>9, <1>10 DEF NextPipeline, PipelineStep

(* The sequencer's invariant, and a well-formed job, in every state.       *)
THEOREM NodeInvariant == SpecPipeline => []NodeInv
<1>1. InitPipeline => NodeInv
  BY NodeInit
<1>2. NodeInv /\ [NextPipeline]_vars => NodeInv'
  BY NodeStep, JobStepOK, NextInv DEF NodeInv
<1> QED BY <1>1, <1>2, PTL DEF SpecPipeline

(* The node, with its executor, replay, indexer and operator, implements   *)
(* the sequencer's specification.                                          *)
THEOREM NodeImplementsSequencer == SpecPipeline => SpecSequencer
<1>1. InitPipeline => InitSequencer
  BY DEF InitPipeline
<1>2. NodeInv /\ [NextPipeline]_vars => [NextSequencer]_seqVars
  BY NodeStep
<1> QED BY <1>1, <1>2, NodeInvariant, PTL DEF SpecPipeline, SpecSequencer

(* Whatever fails or crashes anywhere in the node, a signed order is kept. *)
THEOREM NodeKeepsPromises == SpecPipeline => []PromiseKept
BY NodeImplementsSequencer, SequencerKeepsPromises, PTL

(* The node implements the abstract ledger.                                *)
THEOREM NodeImplementsLedger == SpecPipeline => ImplementsLedger
BY NodeImplementsSequencer, SequencerImplementsLedger, PTL
=============================================================================
