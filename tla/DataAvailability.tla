-------------------------- MODULE DataAvailability --------------------------
(***************************************************************************)
(* The proposer's state commitment chain (crates/rooch-proposer) and the   *)
(* DA actor with its internal DA servers (crates/rooch-da).  The pipeline  *)
(* hands every executed transaction to the proposer; a timer makes the     *)
(* proposer turn its buffer into a batch, submit it to every DA server and *)
(* append a block once enough of them accepted it.                         *)
(*                                                                         *)
(* The actors are sequential: while `propose_block' waits for the DA, the  *)
(* proposer takes no transaction and the pipeline waits in                 *)
(* propose_transaction.  Proposer, DA actor and servers are one process:   *)
(* a crash takes the blocks, the buffer and the queued batches, and leaves *)
(* what the servers' backends stored.  Transactions are numbered by order. *)
(***************************************************************************)
EXTENDS Integers, Sequences, FiniteSets

CONSTANTS
  Server,        \* the configured internal DA servers
  Celestia,      \* those of them whose backend appends blobs; the others overwrite objects
  Strategy,      \* submit_strategy: all, quorum or a number n
  SegmentSize,   \* how many transactions fit into a segment (max_segment_size)
  MaxTx,         \* bound: executed transactions
  MaxErrors,     \* bound: backend writes that fail
  MaxCrashes     \* bound: crashes of the process

ASSUME ServerAssumption == IsFiniteSet(Server) /\ Celestia \subseteq Server
ASSUME SegmentAssumption == SegmentSize \in Nat \ {0}
ASSUME StrategyAssumption == Strategy \in [kind : {"all", "quorum", "number"}, n : Nat]
ASSUME DABounds == MaxTx \in Nat /\ MaxErrors \in Nat /\ MaxCrashes \in Nat

(* calculate_submit_threshold, with adjust_submit_strategy: a number is    *)
(* brought into [1, n].                                                    *)
submit_threshold ==
  LET n == Cardinality(Server)
      within(k) == IF k <= n THEN k ELSE n
  IN CASE Strategy.kind = "all"    -> n
       [] Strategy.kind = "quorum" -> n \div 2 + 1
       [] Strategy.kind = "number" -> IF within(Strategy.n) < 1 THEN 1 ELSE within(Strategy.n)

VARIABLES
  executed,    \* transactions executed so far; the next one is executed + 1
  started,     \* `executed' when the process started
  buffer,      \* StateCommitmentChain.buffer
  blocks,      \* StateCommitmentChain.blocks, by block_number from 0 (so blocks[i] is i - 1)
  submitting,  \* is propose_block waiting for the DA actor?
  inbox,       \* per server: the batches sent to it
  written,     \* per server: segments of the head of its inbox already written
  reply,       \* per server: its answer to the batch being submitted
  store,       \* per server: the segments its backend holds
  errors, crashes,
  published    \* history: the batches that became blocks

daVars == <<executed, started, buffer, blocks, submitting, inbox, written, reply, store,
            errors, crashes, published>>

InitDA ==
  /\ submit_threshold <= Cardinality(Server)   \* DAActor::new: "not enough servers"
  /\ executed = 0 /\ started = 0
  /\ buffer = << >> /\ blocks = << >> /\ submitting = FALSE
  /\ inbox = [s \in Server |-> << >>] /\ written = [s \in Server |-> 0]
  /\ reply = [s \in Server |-> "none"]
  /\ store = [s \in Server |-> {}]
  /\ errors = 0 /\ crashes = 0 /\ published = {}

(* Mutant: the number of the last block.                                   *)
Batch_LastNumber == [block_number |-> Len(blocks) - 1, txs |-> buffer]

(* The batch built from the buffer.  Its data is the encoded transactions, *)
(* batch_hash stands for the data.                                         *)
Batch == [block_number |-> Len(blocks), txs |-> buffer]

(* chunk_bytes.chunks(max_segment_size): the chunk's k-th segment.  The    *)
(* header of the chunk, with the hash of the batch, is in segment 0.       *)
SegmentCount(b) == (Len(b.txs) + SegmentSize - 1) \div SegmentSize
Segment(b, k) ==
  LET last == SegmentCount(b) - 1
      end  == IF k = last THEN Len(b.txs) ELSE (k + 1) * SegmentSize
  IN [chunk_id       |-> b.block_number,
      segment_number |-> k,
      is_last        |-> k = last,
      batch_hash     |-> IF k = 0 THEN b.txs ELSE << >>,
      data           |-> SubSeq(b.txs, k * SegmentSize + 1, end)]
Segments(b) == {Segment(b, k) : k \in 0..(SegmentCount(b) - 1)}

(* operator.write replaces the object of that SegmentID, Backend::submit   *)
(* adds a blob.                                                            *)
Stored(s, seg) ==
  IF s \in Celestia THEN store[s] \cup {seg}
  ELSE {x \in store[s] : x.chunk_id # seg.chunk_id \/ x.segment_number # seg.segment_number}
         \cup {seg}

(* TransactionProposeMessage: the pipeline proposes the next transaction.  *)
AppendTransaction ==
  /\ ~submitting /\ executed < MaxTx
  /\ executed' = executed + 1
  /\ buffer' = Append(buffer, executed + 1)
  /\ UNCHANGED <<started, blocks, submitting, inbox, written, reply, store, errors, crashes, published>>

(* ProposeBlock, the timer's tick: a batch goes to every server.           *)
ProposeBlock ==
  /\ ~submitting /\ buffer # << >>
  /\ submitting' = TRUE
  /\ inbox' = [s \in Server |-> Append(inbox[s], Batch)]
  /\ reply' = [s \in Server |-> "pending"]
  /\ UNCHANGED <<executed, started, buffer, blocks, written, store, errors, crashes, published>>

(* Server s is done with the batch at the head of its inbox; the answer    *)
(* counts if the submission still waits for it.                            *)
Answer(s, result) ==
  /\ inbox' = [inbox EXCEPT ![s] = Tail(@)]
  /\ written' = [written EXCEPT ![s] = 0]
  /\ reply' = [reply EXCEPT ![s] = IF Len(inbox[s]) = 1 /\ @ = "pending" THEN result ELSE @]

(* Mutant: the server answers after the first segment.                     *)
WriteSegment_FirstOnly(s) ==
  /\ inbox[s] # << >>
  /\ store' = [store EXCEPT ![s] = Stored(s, Segment(Head(inbox[s]), written[s]))]
  /\ Answer(s, "ok")
  /\ UNCHANGED <<executed, started, buffer, blocks, submitting, errors, crashes, published>>

(* pub_batch: the segments are written in order, then the server answers.  *)
WriteSegment(s) ==
  /\ inbox[s] # << >>
  /\ store' = [store EXCEPT ![s] = Stored(s, Segment(Head(inbox[s]), written[s]))]
  /\ IF written[s] + 1 = SegmentCount(Head(inbox[s]))
       THEN Answer(s, "ok")
       ELSE /\ written' = [written EXCEPT ![s] = @ + 1]
            /\ UNCHANGED <<inbox, reply>>
  /\ UNCHANGED <<executed, started, buffer, blocks, submitting, errors, crashes, published>>

(* A backend write fails, and may have been stored all the same: pub_batch *)
(* returns the error and leaves the segments written so far.               *)
WriteError(s) ==
  /\ inbox[s] # << >> /\ errors < MaxErrors
  /\ errors' = errors + 1
  /\ store' \in {store, [store EXCEPT ![s] = Stored(s, Segment(Head(inbox[s]), written[s]))]}
  /\ Answer(s, "err")
  /\ UNCHANGED <<executed, started, buffer, blocks, submitting, crashes, published>>

Accepted == {s \in Server : reply[s] = "ok"}

(* Mutant: the buffer is not cleared.                                      *)
SubmitOk_BufferKept ==
  /\ submitting /\ Cardinality(Accepted) >= submit_threshold
  /\ blocks' = Append(blocks,
       [batch     |-> Batch,
        prev_root |-> IF blocks = << >> THEN 0 ELSE blocks[Len(blocks)].root,
        root      |-> buffer[Len(buffer)]])
  /\ published' = published \cup {Batch}
  /\ submitting' = FALSE
  /\ reply' = [s \in Server |-> "none"]
  /\ UNCHANGED <<executed, started, buffer, inbox, written, store, errors, crashes>>

(* submit_batch returns Ok at the threshold, without waiting for the other *)
(* servers; propose_block appends the block and clears the buffer.  A root *)
(* of the transaction accumulator is named by its last transaction.        *)
SubmitOk ==
  /\ submitting /\ Cardinality(Accepted) >= submit_threshold
  /\ blocks' = Append(blocks,
       [batch     |-> Batch,
        prev_root |-> IF blocks = << >> THEN 0 ELSE blocks[Len(blocks)].root,
        root      |-> buffer[Len(buffer)]])
  /\ buffer' = << >>
  /\ published' = published \cup {Batch}
  /\ submitting' = FALSE
  /\ reply' = [s \in Server |-> "none"]
  /\ UNCHANGED <<executed, started, inbox, written, store, errors, crashes>>

(* Mutant: a batch that failed is dropped.                                 *)
SubmitErr_Dropped ==
  /\ submitting /\ Cardinality(Accepted) < submit_threshold
  /\ \A s \in Server : reply[s] # "pending"
  /\ submitting' = FALSE
  /\ buffer' = << >>
  /\ reply' = [s \in Server |-> "none"]
  /\ UNCHANGED <<executed, started, blocks, inbox, written, store, errors, crashes, published>>

(* Mutant: the submission only fails when every server failed.             *)
SubmitErr_OnlyIfAllFailed ==
  /\ submitting /\ \A s \in Server : reply[s] = "err"
  /\ submitting' = FALSE
  /\ reply' = [s \in Server |-> "none"]
  /\ UNCHANGED <<executed, started, buffer, blocks, inbox, written, store, errors, crashes, published>>

(* Every server answered and too few accepted: the buffer stays, the next  *)
(* tick submits it again, with what was added, under the same number.      *)
SubmitErr ==
  /\ submitting /\ Cardinality(Accepted) < submit_threshold
  /\ \A s \in Server : reply[s] # "pending"
  /\ submitting' = FALSE
  /\ reply' = [s \in Server |-> "none"]
  /\ UNCHANGED <<executed, started, buffer, blocks, inbox, written, store, errors, crashes, published>>

(* The process dies and starts again: "TODO save to the storage".          *)
Restart ==
  /\ crashes < MaxCrashes
  /\ crashes' = crashes + 1
  /\ started' = executed
  /\ buffer' = << >> /\ blocks' = << >> /\ submitting' = FALSE
  /\ inbox' = [s \in Server |-> << >>] /\ written' = [s \in Server |-> 0]
  /\ reply' = [s \in Server |-> "none"]
  /\ UNCHANGED <<executed, store, errors, published>>

Submission == ProposeBlock \/ SubmitOk \/ SubmitErr

NextDA ==
  \/ AppendTransaction \/ Submission \/ Restart
  \/ \E s \in Server : WriteSegment(s) \/ WriteError(s)

SpecDA == InitDA /\ [][NextDA]_daVars

(* The timer ticks and the actors run; a backend answers every write.      *)
FairDA == SpecDA /\ WF_daVars(Submission) /\ \A s \in Server : WF_daVars(WriteSegment(s))

(***************************************************************************)
(* Properties.                                                             *)
(***************************************************************************)
Txs == 1..MaxTx
BatchType == [block_number : Nat, txs : Seq(Txs)]

(* The types of the proposer's and the servers' state.                     *)
TypeOKDA ==
  /\ executed \in 0..MaxTx /\ started \in 0..MaxTx
  /\ buffer \in Seq(Txs) /\ submitting \in BOOLEAN
  /\ blocks \in Seq([batch : BatchType, prev_root : 0..MaxTx, root : Txs])
  /\ inbox \in [Server -> Seq(BatchType)] /\ written \in [Server -> Nat]
  /\ reply \in [Server -> {"none", "pending", "ok", "err"}]
  /\ \A s \in Server : \A seg \in store[s] : seg.chunk_id \in Nat /\ seg.data \in Seq(Txs)
  /\ errors \in 0..MaxErrors /\ crashes \in 0..MaxCrashes
  /\ published \subseteq BatchType

(* A verifier that asks server s for batch b finds every segment of it.    *)
Readable(s, b) == Segments(b) \subseteq store[s]

(* "DA must ensure that ... every batch is accessible": a block of the     *)
(* commitment chain is readable from at least submit_threshold servers,    *)
(* whatever failed, was retried, or is still queued at a slow server.      *)
BlocksAvailable ==
  \A i \in DOMAIN blocks :
    Cardinality({s \in Server : Readable(s, blocks[i].batch)}) >= submit_threshold

(* The chain has every transaction proposed since the process started,     *)
(* each in one place, in order: the blocks, then the buffer, partition     *)
(* them, and every block but the first starts where its predecessor ends.  *)
ChainComplete ==
  LET covered(txs, from) == \A k \in DOMAIN txs : txs[k] = from + k
      tip == IF blocks = << >> THEN started ELSE blocks[Len(blocks)].root
  IN /\ \A i \in DOMAIN blocks :
          LET b == blocks[i]
              from == IF i = 1 THEN started ELSE blocks[i - 1].root
          IN /\ b.batch.block_number = i - 1
             /\ covered(b.batch.txs, from) /\ b.root = from + Len(b.batch.txs)
             /\ i > 1 => b.prev_root = from
     /\ covered(buffer, tip) /\ executed = tip + Len(buffer)

(* The proposer's chain and buffer (append_transaction, propose_block)     *)
(* have every transaction once, with the types.                            *)
DAInv == TypeOKDA /\ ChainComplete

(* "sequencer will keep retrying until success": a transaction that was    *)
(* proposed becomes part of a block, however often a submission failed,    *)
(* unless the process crashes, which loses the buffer.                     *)
EveryTxPublished ==
  \A t \in Txs, c \in 0..MaxCrashes :
    (started < t /\ t <= executed /\ crashes = c)
      ~> (crashes > c \/ \E b \in published : t \in {b.txs[k] : k \in DOMAIN b.txs})

(* A submission ends, so the pipeline does not wait in propose_transaction *)
(* for ever.                                                               *)
SubmissionEnds == submitting ~> ~submitting

=============================================================================
