------------------------------ MODULE Pipeline ------------------------------
(***************************************************************************)
(* The transaction pipeline of a node: PipelineProcessorActor drives the   *)
(* executor (validate), the sequencer, the executor again (execute, which  *)
(* writes the state, the startup info and the execution info), the         *)
(* proposer, the reader executor and the indexer, one transaction at a     *)
(* time; after a crash the server replays what was sequenced and not       *)
(* executed.                                                               *)
(*                                                                         *)
(* A transaction's effects are abstracted to its presence in the state     *)
(* root.  `validate' rejects an L2 transaction that a root contains (its   *)
(* sequence number is used up; executing it would not notice), and the     *)
(* system call for an L1 block or transaction that a root contains aborts, *)
(* which panics the process.                                               *)
(***************************************************************************)
EXTENDS Sequencer, Functions

CONSTANTS
  L1Block,   \* the members of L1Tx that are blocks
  Modes      \* the service statuses the operator starts the node with

ASSUME PipelineAssumption == L1Block \subseteq L1Tx /\ Modes \subseteq ServiceStatus

VARIABLES
  root,          \* ExecutorActor.root
  reader_root,   \* ReaderExecutorActor.root
  job,           \* what the processor is doing
  replay,        \* the hashes process_sequenced_tx_on_startup still has to execute
  serving,       \* the server has started and takes requests
  buffer,        \* what the proposer received since the process started
  index_queue,   \* update_indexer notifications not handled yet
  indexed,       \* the transactions in the indexer's own database
  acked,         \* history: responses returned to submitters, and not reverted
  reverted       \* history: transactions an operator reverted

execVars == <<root, reader_root, job, replay, serving, buffer, index_queue, indexed>>
nodeHist == <<acked, reverted>>
vars == <<seqVars, execVars, nodeHist>>

NoJob == [step |-> "none", tx |-> None, base |-> << >>]

InitPipeline ==
  /\ InitSequencer
  /\ root = disk.startup_info /\ reader_root = disk.startup_info
  /\ job = NoJob /\ replay = << >> /\ serving = TRUE
  /\ buffer = << >> /\ index_queue = << >> /\ indexed = {Genesis}
  /\ acked = {} /\ reverted = {}

(* ExecutorActor::validate_l2_tx against the executor's root; L1 blocks    *)
(* and transactions are not checked ("TODO we should call the contract").  *)
Validate(t) == t \in L1Tx \/ t \notin Range(root)

(* The relayer only runs in an active node, and only submits what the      *)
(* reader's state does not contain yet.                                    *)
Relayed(t) == t \in L1Tx => status = "Active" /\ t \notin Range(reader_root)

(* execute_l1_block, execute_l1_tx, execute_l2_tx: validate, then sequence.*)
Submit(t) ==
  /\ serving /\ job.step = "none"
  /\ Relayed(t) /\ Validate(t)
  /\ Sequence(t)
  /\ job' = [step |-> "sequence", tx |-> t, base |-> root]
  /\ UNCHANGED <<root, reader_root, replay, serving, buffer, index_queue, indexed, nodeHist>>

(* The sequencer works on the call ...                                     *)
Sequencing ==
  /\ Flush \/ SaveSequencerInfo \/ SaveTx
  /\ UNCHANGED <<execVars, nodeHist>>

(* ... and returns the ledger transaction ...                              *)
Sequenced ==
  /\ SaveMapping
  /\ job' = [job EXCEPT !.step = "apply"]
  /\ UNCHANGED <<root, reader_root, replay, serving, buffer, index_queue, indexed, nodeHist>>

(* ... or an error, which execute_* returns to the submitter.              *)
SequenceFailed ==
  /\ NotContinuous \/ StorageError
  /\ job' = NoJob
  /\ UNCHANGED <<root, reader_root, replay, serving, buffer, index_queue, indexed, nodeHist>>

(* The root the transaction's execution leads to.                          *)
NewRoot == Append(job.base, job.tx)

(* The system calls of an L1 block or transaction assert that the state    *)
(* does not contain it.  Nothing in the execution of an L2 transaction     *)
(* looks for it in the state: that is left to the check in Validate.       *)
SystemCallAborts == job.tx \in L1Tx /\ job.tx \in Range(job.base)

(* Mutant: the execution info is written before the startup info.          *)
ApplyChangeSet_InfoFirst ==
  /\ up /\ job.step = "apply" /\ ~SystemCallAborts
  /\ put([disk EXCEPT !.state_nodes = @ \cup {NewRoot}, !.execution_info[job.tx] = NewRoot])
  /\ job' = [job EXCEPT !.step = "startup_info"]
  /\ UNCHANGED <<status, up, memVars, revert, faults, crashes, histVars, nodeHist,
                 root, reader_root, replay, serving, buffer, index_queue, indexed>>

(* ExecutorActor::execute: MoveOS::execute_only, then the first writes of  *)
(* apply_transaction_output: the state nodes (save_events writes a column  *)
(* family nothing here reads).                                             *)
ApplyChangeSet ==
  /\ up /\ job.step = "apply" /\ ~SystemCallAborts
  /\ put([disk EXCEPT !.state_nodes = @ \cup {NewRoot}])
  /\ job' = [job EXCEPT !.step = "startup_info"]
  /\ UNCHANGED <<status, up, memVars, revert, faults, crashes, histVars, nodeHist,
                 root, reader_root, replay, serving, buffer, index_queue, indexed>>

(* Mutant: put instead of put_sync.                                        *)
SaveStartupInfo_NoSync ==
  /\ up /\ job.step = "startup_info"
  /\ put([disk EXCEPT !.startup_info = NewRoot])
  /\ job' = [job EXCEPT !.step = "execution_info"]
  /\ UNCHANGED <<status, up, memVars, revert, faults, crashes, histVars, nodeHist,
                 root, reader_root, replay, serving, buffer, index_queue, indexed>>

(* save_startup_info                                                       *)
SaveStartupInfo ==
  /\ up /\ job.step = "startup_info"
  /\ put_sync([disk EXCEPT !.startup_info = NewRoot])
  /\ job' = [job EXCEPT !.step = "execution_info"]
  /\ UNCHANGED <<status, up, memVars, revert, faults, crashes, histVars, nodeHist,
                 root, reader_root, replay, serving, buffer, index_queue, indexed>>

(* MoveOSStore::handle_tx_output, then the executor moves its root.        *)
SaveExecutionInfo ==
  /\ up /\ job.step = "execution_info"
  /\ put([disk EXCEPT !.execution_info[job.tx] = NewRoot])
  /\ root' = NewRoot
  /\ job' = [job EXCEPT !.step = "propose"]
  /\ UNCHANGED <<status, up, memVars, revert, faults, crashes, histVars, nodeHist,
                 reader_root, replay, serving, buffer, index_queue, indexed>>

(* proposer.propose_transaction                                            *)
ProposeTransaction ==
  /\ up /\ job.step = "propose"
  /\ buffer' = Append(buffer, job.tx)
  /\ job' = [job EXCEPT !.step = "refresh"]
  /\ UNCHANGED <<seqVars, nodeHist, root, reader_root, replay, serving, index_queue, indexed>>

(* Mutant: the reader is not told of the new root.                         *)
RefreshState_ReaderLeftBehind ==
  /\ up /\ job.step = "refresh"
  /\ index_queue' = IF status = "DateImportMode" THEN index_queue
                    ELSE Append(index_queue, job.tx)
  /\ job' = NoJob
  /\ IF serving
       THEN /\ acked' = acked \cup {[tx |-> job.tx, info |-> disk.txs[job.tx], root |-> NewRoot]}
            /\ UNCHANGED <<replay, serving>>
       ELSE /\ replay' = Tail(replay) /\ serving' = (Len(replay) = 1)
            /\ UNCHANGED acked
  /\ UNCHANGED <<seqVars, root, reader_root, buffer, indexed, reverted>>

(* executor.refresh_state, indexer.update_indexer (a notify, skipped in    *)
(* date import mode), and the response: to the submitter, or to the replay *)
(* loop, which starts the service after its last transaction.              *)
RefreshState ==
  /\ up /\ job.step = "refresh"
  /\ reader_root' = NewRoot
  /\ index_queue' = IF status = "DateImportMode" THEN index_queue
                    ELSE Append(index_queue, job.tx)
  /\ job' = NoJob
  /\ IF serving
       THEN /\ acked' = acked \cup {[tx |-> job.tx, info |-> disk.txs[job.tx], root |-> NewRoot]}
            /\ UNCHANGED <<replay, serving>>
       ELSE /\ replay' = Tail(replay) /\ serving' = (Len(replay) = 1)
            /\ UNCHANGED acked
  /\ UNCHANGED <<seqVars, root, buffer, indexed, reverted>>

(* Mutant: the sequencer outlives the exit and keeps its accumulator.      *)
Exit_SequencerSurvives ==
  /\ up' = FALSE
  /\ root' = << >> /\ reader_root' = << >> /\ job' = NoJob /\ replay' = << >> /\ serving' = FALSE
  /\ buffer' = << >> /\ index_queue' = << >>
  /\ UNCHANGED <<status, memVars, revert, histVars, nodeHist, indexed>>

(* The memory of the process is gone.                                      *)
Exit ==
  /\ MemoryLost
  /\ root' = << >> /\ reader_root' = << >> /\ job' = NoJob /\ replay' = << >> /\ serving' = FALSE
  /\ buffer' = << >> /\ index_queue' = << >>
  /\ UNCHANGED <<nodeHist, indexed>>

(* A write of the executor returns Err.  Serving, the submitter gets it    *)
(* and the executor keeps its old root; replaying, startup returns it.     *)
(* (The one later error of execute, reloading the natives after a gas      *)
(* schedule upgrade, is left out.)                                         *)
ExecutorError ==
  /\ up /\ job.step \in {"apply", "startup_info", "execution_info"} /\ faults < MaxFaults
  /\ faults' = faults + 1
  /\ UNCHANGED <<dbVars, crashes>>
  /\ IF serving
       THEN /\ job' = NoJob
            /\ UNCHANGED <<status, up, memVars, revert, histVars, nodeHist,
                           root, reader_root, replay, serving, buffer, index_queue, indexed>>
       ELSE Exit

(* execution_cleanup: "System call failed", the panic hook exits.          *)
SystemCallPanics ==
  /\ up /\ job.step = "apply" /\ SystemCallAborts
  /\ Exit
  /\ UNCHANGED <<dbVars, faults, crashes>>

NodeCrash ==
  /\ up /\ crashes < MaxCrashes
  /\ crashes' = crashes + 1
  /\ Recover
  /\ Exit
  /\ UNCHANGED faults

(* The scan of process_sequenced_tx_on_startup, from the last order down   *)
(* to the first executed transaction.                                      *)
Scanned ==
  LET last == disk.sequencer_info.last_order
      executed(o) == disk.mapping[o] # None /\ disk.execution_info[disk.mapping[o]] # None
  IN {o \in 1..last : \A later \in o..last : ~executed(later)}

Unexecuted == [i \in 1..Cardinality(Scanned) |-> disk.mapping[disk.sequencer_info.last_order - i + 1]]

(* Mutant: the missing hash of an order goes unnoticed.                    *)
StartNode_Unchecked(s) ==
  /\ Start(s)
  /\ root' = disk.startup_info /\ reader_root' = disk.startup_info
  /\ replay' = IF s = "Active" THEN Unexecuted ELSE << >>
  /\ serving' = (replay' = << >>)
  /\ UNCHANGED <<job, buffer, index_queue, indexed, nodeHist>>

(* Mutant: requests are taken before the replay is done.                   *)
StartNode_ServesEarly(s) ==
  /\ s = "Active" => None \notin Range(Unexecuted)
  /\ Start(s)
  /\ root' = disk.startup_info /\ reader_root' = disk.startup_info
  /\ replay' = IF s = "Active" THEN Unexecuted ELSE << >>
  /\ serving' = TRUE
  /\ UNCHANGED <<job, buffer, index_queue, indexed, nodeHist>>

(* Mutant: the replay is left out.                                         *)
StartNode_NoReplay(s) ==
  /\ Start(s)
  /\ root' = disk.startup_info /\ reader_root' = disk.startup_info
  /\ replay' = << >> /\ serving' = TRUE
  /\ UNCHANGED <<job, buffer, index_queue, indexed, nodeHist>>

(* run_start_server up to the scan.  A sequenced order without a hash      *)
(* ("The tx with order {} should exists") makes an active node give up.    *)
StartNode(s) ==
  /\ s = "Active" => None \notin Range(Unexecuted)
  /\ Start(s)
  /\ root' = disk.startup_info /\ reader_root' = disk.startup_info
  /\ replay' = IF s = "Active" THEN Unexecuted ELSE << >>
  /\ serving' = (replay' = << >>)
  /\ UNCHANGED <<job, buffer, index_queue, indexed, nodeHist>>

(* Mutant: a sequenced transaction is replayed without being validated.    *)
Replayable_Unvalidated(h) == disk.txs[h] # None /\ h \notin L1Block

(* The replay loop takes the next hash: an L2 transaction must validate,   *)
(* an L1 transaction is executed ...                                       *)
Replayable(h) == disk.txs[h] # None /\ h \notin L1Block /\ Validate(h)

ReplayNext ==
  /\ up /\ replay # << >> /\ job.step = "none"
  /\ Replayable(Head(replay))
  /\ job' = [step |-> "apply", tx |-> Head(replay), base |-> root]
  /\ UNCHANGED <<seqVars, nodeHist, root, reader_root, replay, serving, buffer, index_queue, indexed>>

(* ... anything else ends the startup: an error, or unimplemented!.        *)
ReplayFails ==
  /\ up /\ replay # << >> /\ job.step = "none"
  /\ ~Replayable(Head(replay))
  /\ Exit
  /\ UNCHANGED <<dbVars, faults, crashes>>

(* The indexer actor handles its next notification.                        *)
UpdateIndexer ==
  /\ up /\ index_queue # << >>
  /\ indexed' = indexed \cup {Head(index_queue)}
  /\ index_queue' = Tail(index_queue)
  /\ UNCHANGED <<seqVars, nodeHist, root, reader_root, job, replay, serving, buffer>>

(* It fails: the notification has no reply, so the error is dropped.       *)
IndexerError ==
  /\ up /\ index_queue # << >> /\ faults < MaxFaults
  /\ faults' = faults + 1
  /\ index_queue' = Tail(index_queue)
  /\ UNCHANGED <<dbVars, status, up, memVars, revert, crashes, histVars, nodeHist,
                 root, reader_root, job, replay, serving, buffer, indexed>>

(* `rooch db revert-tx' while the node is down.                            *)
RevertTx(o) ==
  /\ RevertInfo(o)
  /\ reverted' = reverted \cup {disk.mapping[o]}
  /\ acked' = {a \in acked : a.tx # disk.mapping[o]}
  /\ UNCHANGED execVars

RevertOther ==
  /\ RevertRemoveTx \/ RevertRemoveMapping \/ RevertCrash
  /\ UNCHANGED <<execVars, nodeHist>>

PipelineStep ==
  \/ Sequencing \/ Sequenced \/ ApplyChangeSet \/ SaveStartupInfo \/ SaveExecutionInfo
  \/ ProposeTransaction \/ RefreshState \/ SystemCallPanics \/ ReplayNext \/ ReplayFails

NextPipeline ==
  \/ \E t \in Tx : Submit(t)
  \/ PipelineStep \/ SequenceFailed \/ ExecutorError \/ NodeCrash
  \/ \E s \in Modes : StartNode(s)
  \/ UpdateIndexer \/ IndexerError
  \/ (\E o \in Order : RevertTx(o)) \/ RevertOther

SpecPipeline == InitPipeline /\ [][NextPipeline]_vars

(***************************************************************************)
(* Fairness: the actors run every message they take (PipelineStep, the     *)
(* indexer's queue), whoever supervises the node starts it again, and a    *)
(* revert the operator began runs to its end.  Nothing is assumed of       *)
(* submitters, of storage errors or of crashes.                            *)
(***************************************************************************)
FairPipeline ==
  /\ SpecPipeline
  /\ WF_vars(PipelineStep) /\ WF_vars(UpdateIndexer)
  /\ WF_vars(\E s \in Modes : StartNode(s)) /\ WF_vars(RevertOther)

(***************************************************************************)
(* Properties.                                                             *)
(***************************************************************************)
JobStep == {"none", "sequence", "apply", "startup_info", "execution_info", "propose", "refresh"}

(* The types of the node's actors and of the history.                      *)
TypeOKPipeline ==
  /\ TypeOKSequencer
  /\ root \in StateRoot /\ reader_root \in StateRoot
  /\ job \in [step : JobStep, tx : Tx \cup {None}, base : StateRoot]
  /\ replay \in Seq(Hash) /\ serving \in BOOLEAN
  /\ buffer \in Seq(Hash) /\ index_queue \in Seq(Hash) /\ indexed \subseteq Hash
  /\ acked \subseteq [tx : Tx, info : SequencerInfo, root : StateRoot]
  /\ reverted \subseteq Tx

(* No crash, replay or retry applies a transaction to the state twice.     *)
(* Execution itself does not keep an L2 transaction from running again: it *)
(* is the root that validate read, which must still be the one the state   *)
(* is built on when the sequencer has answered, and a second validation in *)
(* the replay, where a crash may have left a transaction in the state that *)
(* still counts as unexecuted.                                             *)
NoDoubleExecution == \A image \in durable : IsInjective(image.startup_info)

(* An execution info is never ahead of the state: in every image a crash   *)
(* may leave, the state a stored execution info names is the startup state *)
(* or an ancestor of it.                                                   *)
ExecutedIsInState ==
  \A image \in durable, h \in Hash : image.execution_info[h] # None =>
    Extends(image.startup_info, image.execution_info[h])

(* What a submitter was told survives: the state keeps the transaction's   *)
(* effects and the ledger keeps it at its order, through every crash,      *)
(* error and replay, until an operator reverts it.  The ledger's half does *)
(* not outlast a revert that was cut off between its writes: the           *)
(* transaction it leaves behind claims an order that is given away again,  *)
(* and a later revert of it removes the mapping of the new one.            *)
AckedIsKept ==
  \A a \in acked, image \in durable :
    /\ Extends(image.startup_info, a.root)
    /\ torn \/ (image.txs[a.tx] = a.info /\ image.mapping[a.info.last_order] = a.tx)

(* A response is only sent once the reader executor shows the transaction, *)
(* and the reader is never ahead of the writer.                            *)
ReadYourWrites ==
  up => /\ \A a \in acked : Extends(reader_root, a.root)
        /\ Extends(root, reader_root)

(* The indexer has its own database, written without waiting: it still     *)
(* never shows a transaction that a crash can take out of the state.       *)
IndexedIsDurable == \A h \in indexed, image \in durable : h \in Range(image.startup_info)

(* The durable state and the execution infos agree, with the types.        *)
PipelineInv == TypeOKPipeline /\ ExecutedIsInState

(* Whatever a submitter, a reader or the indexer has seen of an execution  *)
(* (execute_tx, refresh_state, update_indexer) no crash takes back.        *)
SeenIsKept == AckedIsKept /\ ReadYourWrites /\ IndexedIsDurable

(* Transactions are executed in the order the sequencer gave them (what an *)
(* operator reverted has given its order away, and is not counted).        *)
ExecutedInOrder ==
  LET executed == disk.startup_info
      kept(i)  == executed[i] \notin reverted /\ disk.txs[executed[i]] # None
      order(i) == disk.txs[executed[i]].last_order
  IN \A i, j \in DOMAIN executed : i < j /\ kept(i) /\ kept(j) => order(i) < order(j)

(* An executed transaction has no unexecuted one before it in the ledger:  *)
(* the startup scan may stop at the first executed transaction it meets.   *)
NoneSkipped ==
  LET executed(o) == disk.mapping[o] # None /\ disk.execution_info[disk.mapping[o]] # None
  IN \A o \in 0..disk.sequencer_info.last_order :
       executed(o) => \A earlier \in 0..o : executed(earlier)

(* The case recovery is written for: the node is down, the last sequenced  *)
(* transaction is an L2 transaction, stored, mapped and not executed.      *)
Recoverable ==
  LET last == disk.mapping[disk.sequencer_info.last_order]
  IN /\ ~up /\ last \in Tx \ L1Tx
     /\ disk.txs[last] # None /\ disk.execution_info[last] = None
     /\ last \notin Range(disk.startup_info)

(* Then the node comes back with nothing unexecuted, unless it crashes     *)
(* again on the way: between the startup info and the execution info of a  *)
(* replayed transaction that leaves an image no replay gets through, as    *)
(* the transaction is in the state and still counts as unexecuted.         *)
RecoveryCompletes ==
  \A c \in 0..MaxCrashes :
    (Recoverable /\ crashes = c) ~> (crashes > c \/ (up /\ serving /\ Unexecuted = << >>))
=============================================================================
