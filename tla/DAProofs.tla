------------------------------ MODULE DAProofs ------------------------------
(***************************************************************************)
(* The commitment chain has every transaction once, and every block of it  *)
(* is readable from enough DA servers.                                     *)
(***************************************************************************)
EXTENDS DataAvailability, FiniteSetTheorems, SequenceTheorems, TLAPS

(* b is the batch of a block of the chain.                                 *)
IsBlock(b) ==
  b.block_number \in 0..(Len(blocks) - 1) /\ b = blocks[b.block_number + 1].batch

(* What server s has queued: batches of the chain, in front of the one     *)
(* being submitted, if it has not answered that one yet.                   *)
InboxOK ==
  \A s \in Server : \A k \in 1..Len(inbox[s]) :
    \/ IsBlock(inbox[s][k])
    \/ submitting /\ reply[s] = "pending" /\ k = Len(inbox[s]) /\ inbox[s][k] = Batch

(* A server answers the batch being submitted last, and once.              *)
ReplyOK ==
  \A s \in Server :
    /\ ~submitting => reply[s] = "none"
    /\ submitting => reply[s] # "none"
    /\ reply[s] = "pending" => inbox[s] # << >> /\ inbox[s][Len(inbox[s])] = Batch
    /\ reply[s] \in {"ok", "err"} => inbox[s] = << >>
    /\ reply[s] = "ok" => Readable(s, Batch)

(* The segments before the one it writes next are in its store.            *)
WrittenOK ==
  \A s \in Server :
    /\ inbox[s] = << >> => written[s] = 0
    /\ inbox[s] # << >> =>
         /\ written[s] < SegmentCount(Head(inbox[s]))
         /\ \A k \in 0..(written[s] - 1) : Segment(Head(inbox[s]), k) \in store[s]

(* No batch is empty.                                                      *)
BatchesFull ==
  /\ submitting => buffer # << >>
  /\ \A i \in 1..Len(blocks) : blocks[i].batch.txs # << >>

(* The inductive invariant.                                                *)
SubmissionInv ==
  /\ DAInv /\ InboxOK /\ ReplyOK /\ WrittenOK /\ BatchesFull /\ BlocksAvailable
  /\ DOMAIN store = Server

(***************************************************************************)
(* Segments.                                                               *)
(***************************************************************************)
(* chunks(size): at least one chunk, and every chunk but the last is full. *)
LEMMA ChunkCount ==
  ASSUME NEW n \in Nat \ {0}, NEW size \in Nat \ {0}
  PROVE  /\ (n + size - 1) \div size \in Nat \ {0}
         /\ \A k \in Nat : k < (n + size - 1) \div size - 1 => (k + 1) * size <= n
<1> DEFINE q == (n + size - 1) \div size
<1>1. q \in Int /\ q * size <= n + size - 1 /\ n + size - 1 < (q + 1) * size
  OBVIOUS
<1> HIDE DEF q
<1>2. q \in Nat \ {0}
  <2>1. CASE q <= 0
    <3>1. (q + 1) * size <= size
      BY <1>1, <2>1
    <3> QED BY <1>1, <3>1
  <2> QED BY <1>1, <2>1
<1>3. ASSUME NEW k \in Nat, k < q - 1 PROVE (k + 1) * size <= n
  <2>1. (k + 2) * size <= q * size
    BY <1>1, <1>3
  <2>2. (k + 2) * size = (k + 1) * size + size
    OBVIOUS
  <2> QED BY <1>1, <2>1, <2>2
<1> QED BY <1>2, <1>3 DEF q

(* A batch has segments, and they are made of its transactions.            *)
LEMMA SegmentType ==
  ASSUME NEW b \in BatchType, b.txs # << >>
  PROVE  /\ SegmentCount(b) \in Nat \ {0}
         /\ \A k \in 0..(SegmentCount(b) - 1) :
              /\ Segment(b, k).chunk_id = b.block_number /\ Segment(b, k).chunk_id \in Nat
              /\ Segment(b, k).segment_number = k /\ Segment(b, k).data \in Seq(Txs)
<1>1. b.txs \in Seq(Txs) /\ Len(b.txs) \in Nat \ {0} /\ b.block_number \in Nat
  BY DEF BatchType
<1>2. /\ SegmentCount(b) \in Nat \ {0}
      /\ \A k \in Nat : k < SegmentCount(b) - 1 => (k + 1) * SegmentSize <= Len(b.txs)
  BY <1>1, ChunkCount, SegmentAssumption DEF SegmentCount
<1>3. ASSUME NEW k \in 0..(SegmentCount(b) - 1)
      PROVE  Segment(b, k).data \in Seq(Txs)
  <2> DEFINE end == IF k = SegmentCount(b) - 1 THEN Len(b.txs) ELSE (k + 1) * SegmentSize
  <2>1. k * SegmentSize \in Nat /\ (k + 1) * SegmentSize \in Nat
    BY <1>2, SegmentAssumption
  <2>2. end \in Nat /\ end <= Len(b.txs)
    BY <1>1, <1>2, <2>1
  <2>3. SubSeq(b.txs, k * SegmentSize + 1, end) \in Seq(Txs)
    <3> DEFINE from == k * SegmentSize + 1
    <3>1. from \in Nat /\ from >= 1
      BY <2>1
    <3> HIDE DEF from, end
    <3>2. \A i \in from..end : b.txs[i] \in Txs
      BY <1>1, <2>2, <3>1
    <3>3. SubSeq(b.txs, from, end) \in Seq(Txs)
      BY <2>2, <3>1, <3>2, SubSeqProperties
    <3> QED BY <3>3 DEF from
  <2> QED BY <2>3 DEF Segment
<1> QED BY <1>1, <1>2, <1>3 DEF Segment

(***************************************************************************)
(* The chain.                                                              *)
(***************************************************************************)
(* What the proofs below use of the types.                                 *)
LEMMA DATypes ==
  ASSUME SubmissionInv
  PROVE  /\ buffer \in Seq(Txs) /\ Len(blocks) \in Nat /\ Batch \in BatchType
         /\ blocks \in Seq([batch : BatchType, prev_root : 0..MaxTx, root : Txs])
         /\ \A i \in 1..Len(blocks) :
              /\ blocks[i].batch \in BatchType /\ blocks[i].root \in Txs /\ blocks[i].root \in Nat
              /\ blocks[i].batch.block_number = i - 1
         /\ inbox \in [Server -> Seq(BatchType)] /\ written \in [Server -> Nat]
         /\ reply \in [Server -> {"none", "pending", "ok", "err"}]
         /\ executed \in 0..MaxTx /\ started \in 0..MaxTx /\ MaxTx \in Nat
<1>1. TypeOKDA /\ ChainComplete
  BY DEF SubmissionInv, DAInv
<1>2. buffer \in Seq(Txs) /\ blocks \in Seq([batch : BatchType, prev_root : 0..MaxTx, root : Txs])
  BY <1>1 DEF TypeOKDA
<1>3. Len(blocks) \in Nat /\ Batch \in BatchType
  BY <1>2 DEF Batch, BatchType
<1>4. \A i \in 1..Len(blocks) : blocks[i].batch \in BatchType /\ blocks[i].root \in Txs
  <2>1. \A i \in 1..Len(blocks) : blocks[i] \in [batch : BatchType, prev_root : 0..MaxTx, root : Txs]
    BY <1>2, ElementOfSeq
  <2> QED BY <2>1
<1>5. \A i \in 1..Len(blocks) : blocks[i].batch.block_number = i - 1
  BY <1>1, <1>2 DEF ChainComplete
<1> QED BY <1>1, <1>2, <1>3, <1>4, <1>5, DABounds, SMTT(30) DEF TypeOKDA, Txs

(* Where the buffer starts.                                                *)
Tip == IF blocks = << >> THEN started ELSE blocks[Len(blocks)].root

\* The buffer starts where the last block ends.
LEMMA BufferContinues ==
  ASSUME SubmissionInv
  PROVE  /\ Tip \in 0..MaxTx /\ executed = Tip + Len(buffer)
         /\ \A k \in 1..Len(buffer) : buffer[k] = Tip + k
<1>1. ChainComplete
  BY DEF SubmissionInv, DAInv
<1>2. Tip \in 0..MaxTx
  BY DATypes DEF Tip, Txs
<1>3. executed = Tip + Len(buffer)
  BY <1>1 DEF ChainComplete, Tip
<1>4. \A k \in DOMAIN buffer : buffer[k] = Tip + k
  BY <1>1 DEF ChainComplete, Tip
<1> QED BY <1>2, <1>3, <1>4, DATypes

(* A step that leaves the chain and the buffer alone.                      *)
LEMMA ChainFrame ==
  ASSUME ChainComplete, UNCHANGED <<executed, started, buffer, blocks>>
  PROVE  ChainComplete'
BY DEF ChainComplete

(* The next transaction continues the buffer.                              *)
LEMMA AppendChain ==
  ASSUME SubmissionInv, AppendTransaction
  PROVE  DAInv'
<1> USE DEF AppendTransaction
<1>1. TypeOKDA'
  <2>1. executed + 1 \in Txs /\ executed' \in 0..MaxTx
    BY DATypes DEF Txs
  <2>2. buffer' \in Seq(Txs)
    BY <2>1, DATypes
  <2> QED BY <2>1, <2>2 DEF SubmissionInv, DAInv, TypeOKDA
<1>2. ChainComplete'
  <2>1. executed' = Tip + Len(buffer')
    BY DATypes, BufferContinues DEF Txs
  <2>2. \A k \in DOMAIN buffer' : buffer'[k] = Tip + k
    <3>1. /\ buffer \in Seq(Txs) /\ Len(buffer) \in Nat /\ Tip \in Nat
          /\ executed = Tip + Len(buffer) /\ buffer' = Append(buffer, executed + 1)
          /\ \A k \in 1..Len(buffer) : buffer[k] = Tip + k
      BY DATypes, BufferContinues
    <3>2. DOMAIN buffer' = 1..(Len(buffer) + 1) /\ buffer'[Len(buffer) + 1] = Tip + (Len(buffer) + 1)
      BY <3>1
    <3>3. \A k \in 1..Len(buffer) : buffer'[k] = Tip + k
      BY <3>1
    <3>4. \A k \in DOMAIN buffer' : k \in 1..Len(buffer) \/ k = Len(buffer) + 1
      BY <3>1, <3>2
    <3> HIDE DEF AppendTransaction
    <3> QED BY <3>2, <3>3, <3>4
  <2> QED BY <2>1, <2>2 DEF ChainComplete, Tip, SubmissionInv, DAInv
<1> QED BY <1>1, <1>2 DEF DAInv

(* A block takes the buffer over.                                          *)
LEMMA SubmitChain ==
  ASSUME SubmissionInv, SubmitOk
  PROVE  DAInv'
<1> DEFINE n == Len(blocks)
           new == [batch     |-> Batch,
                   prev_root |-> IF blocks = << >> THEN 0 ELSE blocks[Len(blocks)].root,
                   root      |-> buffer[Len(buffer)]]
<1>a. /\ blocks' = Append(blocks, new) /\ buffer' = << >>
      /\ UNCHANGED <<executed, started, inbox, written, store, errors, crashes>>
      /\ published' = published \cup {Batch} /\ submitting' = FALSE
      /\ reply' = [s \in Server |-> "none"]
  BY DEF SubmitOk
<1>b. Len(buffer) \in Nat \ {0} /\ n \in Nat /\ Len(buffer) \in 1..Len(buffer)
  BY DATypes DEF SubmissionInv, BatchesFull, SubmitOk
<1>c. /\ buffer[Len(buffer)] = Tip + Len(buffer) /\ buffer[Len(buffer)] \in Txs
  <2>1. buffer[Len(buffer)] = Tip + Len(buffer)
    BY <1>b, BufferContinues
  <2>2. buffer[Len(buffer)] \in Txs
    <3>1. buffer \in Seq(Txs)
      BY DATypes
    <3> QED BY <1>b, <3>1
  <2> QED BY <2>1, <2>2
<1>d. /\ new \in [batch : BatchType, prev_root : 0..MaxTx, root : Txs]
      /\ new.batch = Batch /\ new.root = Tip + Len(buffer) /\ (n > 0 => new.prev_root = Tip)
  BY <1>b, <1>c, DATypes DEF Txs, Tip
<1> HIDE DEF new
<1>e. /\ blocks' \in Seq([batch : BatchType, prev_root : 0..MaxTx, root : Txs])
      /\ Len(blocks') = n + 1 /\ blocks'[n + 1] = new
      /\ \A i \in 1..n : blocks'[i] = blocks[i]
  BY <1>a, <1>d, DATypes
<1>1. TypeOKDA'
  <2>1. << >> \in Seq(Txs)
    OBVIOUS
  <2> QED BY <1>a, <1>e, <2>1, DATypes DEF SubmissionInv, DAInv, TypeOKDA
<1>2. ChainComplete'
  <2> DEFINE From(i) == IF i = 1 THEN started ELSE blocks[i - 1].root
             FromN(i) == IF i = 1 THEN started' ELSE blocks'[i - 1].root
             Good(b, i, from) ==
               /\ b.batch.block_number = i - 1
               /\ \A k \in DOMAIN b.batch.txs : b.batch.txs[k] = from + k
               /\ b.root = from + Len(b.batch.txs)
               /\ (i > 1 => b.prev_root = from)
  <2>1. \A i \in 1..n : Good(blocks[i], i, From(i))
    <3>1. DOMAIN blocks = 1..n
      BY DATypes
    <3>2. ChainComplete
      BY DEF SubmissionInv, DAInv
    <3> QED BY <3>1, <3>2 DEF ChainComplete
  <2>2. \A i \in 1..n : FromN(i) = From(i) /\ blocks'[i] = blocks[i]
    BY <1>a, <1>b, <1>e
  <2>3. FromN(n + 1) = Tip
    BY <1>a, <1>b, <1>e, DATypes DEF Tip
  <2>4. Good(new, n + 1, Tip)
    <3>1. Batch.block_number = n /\ Batch.txs = buffer
      BY DEF Batch
    <3>2. /\ new.batch.txs = buffer /\ new.batch.block_number = n + 1 - 1
          /\ DOMAIN buffer = 1..Len(buffer)
      BY <1>b, <1>d, <3>1, DATypes
    <3>3. \A k \in 1..Len(buffer) : buffer[k] = Tip + k
      BY BufferContinues
    <3> QED BY <1>b, <1>d, <3>2, <3>3
  <2>5. \A i \in 1..(n + 1) : Good(blocks'[i], i, FromN(i))
    <3> SUFFICES ASSUME NEW i \in 1..(n + 1) PROVE Good(blocks'[i], i, FromN(i))
      OBVIOUS
    <3>1. CASE i \in 1..n
      <4>1. Good(blocks[i], i, From(i)) /\ FromN(i) = From(i) /\ blocks'[i] = blocks[i]
        BY <3>1, <2>1, <2>2
      <4> HIDE DEF Good, From, FromN
      <4> QED BY <4>1
    <3>2. CASE i = n + 1
      <4> HIDE DEF Good, FromN
      <4> QED BY <3>2, <1>e, <2>3, <2>4
    <3> QED BY <1>b, <3>1, <3>2
  <2>6. blocks' # << >> /\ blocks'[Len(blocks')].root = Tip + Len(buffer)
    BY <1>a, <1>b, <1>d, <1>e, DATypes
  <2>7. executed' = Tip + Len(buffer) + Len(buffer')
    BY <1>a, BufferContinues, DATypes
  <2>8. DOMAIN blocks' = 1..(n + 1) /\ DOMAIN buffer' = {}
    BY <1>a, <1>e
  <2>9. \A i \in DOMAIN blocks' : Good(blocks'[i], i, FromN(i))
    <3> HIDE DEF Good, FromN
    <3> QED BY <2>5, <2>8
  <2> QED BY <1>a, <2>6, <2>7, <2>8, <2>9 DEF ChainComplete
<1> QED BY <1>1, <1>2 DEF DAInv

(* A restart begins a chain of its own, where the last one had got to.     *)
LEMMA RestartChain ==
  ASSUME SubmissionInv, Restart
  PROVE  DAInv'
<1> USE DEF Restart
<1>1. TypeOKDA'
  <2>1. /\ << >> \in Seq(Txs) /\ << >> \in Seq(BatchType)
        /\ << >> \in Seq([batch : BatchType, prev_root : 0..MaxTx, root : Txs])
    OBVIOUS
  <2>2. inbox' \in [Server -> Seq(BatchType)] /\ written' \in [Server -> Nat]
    BY <2>1
  <2>3. crashes' \in 0..MaxCrashes
    BY DABounds DEF SubmissionInv, DAInv, TypeOKDA
  <2> QED BY <2>1, <2>2, <2>3, DATypes DEF SubmissionInv, DAInv, TypeOKDA
<1>2. ChainComplete'
  BY DATypes DEF ChainComplete
<1> QED BY <1>1, <1>2 DEF DAInv

(***************************************************************************)
(* The servers.                                                            *)
(***************************************************************************)
(* Whatever a server has queued is a batch with segments; one of the chain *)
(* is known by its number.                                                 *)
LEMMA QueuedBatch ==
  ASSUME SubmissionInv, NEW s \in Server, NEW k \in 1..Len(inbox[s])
  PROVE  /\ inbox[s][k] \in BatchType /\ inbox[s][k].txs # << >>
         /\ SegmentCount(inbox[s][k]) \in Nat \ {0}
         /\ \A i \in 1..Len(blocks) :
              inbox[s][k] = blocks[i].batch \/ inbox[s][k].block_number # i - 1
<1>1. CASE IsBlock(inbox[s][k])
  <2>1. PICK j \in 1..Len(blocks) : inbox[s][k] = blocks[j].batch /\ inbox[s][k].block_number = j - 1
    <3> DEFINE n == inbox[s][k].block_number
    <3>1. n \in 0..(Len(blocks) - 1) /\ inbox[s][k] = blocks[n + 1].batch
      BY <1>1 DEF IsBlock
    <3>2. Len(blocks) \in Nat
      BY DATypes
    <3> HIDE DEF n
    <3>3. n + 1 \in 1..Len(blocks) /\ n = (n + 1) - 1
      BY <3>1, <3>2
    <3> QED BY <3>1, <3>3 DEF n
  <2>2. inbox[s][k] \in BatchType /\ inbox[s][k].txs # << >>
    BY <2>1, DATypes DEF SubmissionInv, BatchesFull
  <2>3. \A i \in 1..Len(blocks) :
          inbox[s][k] = blocks[i].batch \/ inbox[s][k].block_number # i - 1
    BY <2>1, DATypes, SMTT(30)
  <2> QED BY <2>2, <2>3, SegmentType
<1>2. CASE ~IsBlock(inbox[s][k])
  <2>1. inbox[s][k] = Batch /\ submitting
    BY <1>2 DEF SubmissionInv, InboxOK
  <2>2. inbox[s][k] \in BatchType /\ inbox[s][k].txs # << >>
    BY <2>1, DATypes DEF SubmissionInv, BatchesFull, Batch
  <2>3. \A i \in 1..Len(blocks) : inbox[s][k].block_number # i - 1
    BY <2>1, DATypes DEF Batch
  <2> QED BY <2>2, <2>3, SegmentType
<1> QED BY <1>1, <1>2

(* The first one, which the server is writing.                             *)
LEMMA QueuedHead ==
  ASSUME SubmissionInv, NEW s \in Server, inbox[s] # << >>
  PROVE  /\ inbox[s] \in Seq(BatchType) /\ Len(inbox[s]) \in Nat \ {0}
         /\ Head(inbox[s]) = inbox[s][1] /\ 1 \in 1..Len(inbox[s])
         /\ Tail(inbox[s]) \in Seq(BatchType) /\ Len(Tail(inbox[s])) = Len(inbox[s]) - 1
         /\ \A k \in 1..(Len(inbox[s]) - 1) : Tail(inbox[s])[k] = inbox[s][k + 1]
<1>1. inbox[s] \in Seq(BatchType)
  BY DATypes
<1> QED BY <1>1, HeadTailProperties

(* A write, acknowledged or not, takes no segment of the chain away, nor   *)
(* one of the batch's that was written before.                             *)
LEMMA WriteKeeps ==
  ASSUME SubmissionInv, NEW s \in Server, inbox[s] # << >>,
         store' \in {store, [store EXCEPT ![s] = Stored(s, Segment(Head(inbox[s]), written[s]))]}
  PROVE  /\ \A t \in Server : t # s => store'[t] = store[t]
         /\ \A t \in Server : \A seg \in store'[t] : seg.chunk_id \in Nat /\ seg.data \in Seq(Txs)
         /\ \A t \in Server, i \in 1..Len(blocks) :
              Readable(t, blocks[i].batch) => Segments(blocks[i].batch) \subseteq store'[t]
         /\ \A k \in 0..(written[s] - 1) : Segment(Head(inbox[s]), k) \in store'[s]
<1> DEFINE b == Head(inbox[s])
           new == Segment(b, written[s])
<1>a. /\ b \in BatchType /\ b.txs # << >>
      /\ \A i \in 1..Len(blocks) : b = blocks[i].batch \/ b.block_number # i - 1
      /\ written[s] \in Nat /\ SegmentCount(b) \in Nat \ {0} /\ written[s] < SegmentCount(b)
      /\ \A k \in 0..(written[s] - 1) : Segment(b, k) \in store[s]
  BY QueuedBatch, QueuedHead, DATypes DEF SubmissionInv, WrittenOK
<1>b. \A t \in Server : \A seg \in store[t] : seg.chunk_id \in Nat /\ seg.data \in Seq(Txs)
  BY DEF SubmissionInv, DAInv, TypeOKDA
<1> HIDE DEF b
<1>c. /\ written[s] \in 0..(SegmentCount(b) - 1)
      /\ \A k \in 0..(SegmentCount(b) - 1) :
           /\ Segment(b, k).chunk_id = b.block_number /\ Segment(b, k).chunk_id \in Nat
           /\ Segment(b, k).segment_number = k /\ Segment(b, k).data \in Seq(Txs)
  BY <1>a, SegmentType
<1>d. /\ \A t \in Server : t # s => store'[t] = store[t]
      /\ \A seg \in store'[s] : seg \in store[s] \/ seg = new
      /\ \A seg \in store[s] :
           \/ seg.chunk_id # new.chunk_id \/ seg.segment_number # new.segment_number
           \/ seg = new
           => seg \in store'[s]
  <2>1. CASE store' = store
    BY <2>1
  <2>2. CASE store' = [store EXCEPT ![s] = Stored(s, new)]
    <3>0. /\ \A seg \in Stored(s, new) : seg \in store[s] \/ seg = new
          /\ \A seg \in store[s] :
               \/ seg.chunk_id # new.chunk_id \/ seg.segment_number # new.segment_number
               \/ seg = new
               => seg \in Stored(s, new)
      BY DEF Stored
    <3>1. s \in DOMAIN store
      BY DEF SubmissionInv
    <3> QED BY <2>2, <3>0, <3>1
  <2> QED BY <2>1, <2>2 DEF b
<1>1. \A t \in Server : \A seg \in store'[t] : seg.chunk_id \in Nat /\ seg.data \in Seq(Txs)
  BY <1>b, <1>c, <1>d
<1>2. ASSUME NEW t \in Server, NEW i \in 1..Len(blocks), Readable(t, blocks[i].batch)
      PROVE  Segments(blocks[i].batch) \subseteq store'[t]
  <2>1. CASE t # s
    BY <1>2, <1>d, <2>1 DEF Readable
  <2>2. CASE t = s
    <3> SUFFICES ASSUME NEW seg \in Segments(blocks[i].batch) PROVE seg \in store'[s]
      BY <2>2
    <3>1. seg \in store[s]
      BY <1>2, <2>2 DEF Readable
    <3>2. PICK k \in 0..(SegmentCount(blocks[i].batch) - 1) : seg = Segment(blocks[i].batch, k)
      BY DEF Segments
    <3>3. CASE b = blocks[i].batch
      BY <1>c, <1>d, <3>1, <3>2, <3>3
    <3>4. CASE b.block_number # i - 1
      <4>1. seg.chunk_id = i - 1
        BY <3>2, DATypes DEF Segment
      <4> QED BY <1>c, <1>d, <3>1, <3>4, <4>1
    <3> QED BY <1>a, <3>3, <3>4
  <2> QED BY <2>1, <2>2
<1>3. ASSUME NEW k \in 0..(written[s] - 1) PROVE Segment(b, k) \in store'[s]
  <2>1. k \in 0..(SegmentCount(b) - 1) /\ k # written[s]
    BY <1>a
  <2> QED BY <1>a, <1>c, <1>d, <1>3, <2>1
<1> QED BY <1>1, <1>2, <1>3, <1>d DEF b

(* A server is done with the batch at the head of its inbox.               *)
LEMMA AnswerKeeps ==
  ASSUME SubmissionInv, NEW s \in Server, inbox[s] # << >>, NEW result \in {"ok", "err"},
         Answer(s, result), UNCHANGED <<blocks, buffer, submitting>>,
         \A t \in Server : t # s => store'[t] = store[t],
         result = "ok" => Segments(Head(inbox[s])) \subseteq store'[s]
  PROVE  /\ InboxOK' /\ ReplyOK' /\ WrittenOK'
         /\ inbox' \in [Server -> Seq(BatchType)] /\ written' \in [Server -> Nat]
         /\ reply' \in [Server -> {"none", "pending", "ok", "err"}]
<1> DEFINE q == inbox[s]
           settled == Len(q) = 1 /\ reply[s] = "pending"
<1>a. /\ q \in Seq(BatchType) /\ Len(q) \in Nat \ {0} /\ Head(q) = q[1] /\ 1 \in 1..Len(q)
      /\ Tail(q) \in Seq(BatchType) /\ Len(Tail(q)) = Len(q) - 1
      /\ \A k \in 1..(Len(q) - 1) : Tail(q)[k] = q[k + 1]
  BY QueuedHead
<1>b. /\ inbox \in [Server -> Seq(BatchType)] /\ written \in [Server -> Nat]
      /\ reply \in [Server -> {"none", "pending", "ok", "err"}]
      /\ InboxOK /\ ReplyOK /\ WrittenOK
  BY DATypes DEF SubmissionInv
<1>c. /\ inbox' = [inbox EXCEPT ![s] = Tail(q)] /\ written' = [written EXCEPT ![s] = 0]
      /\ reply' = [reply EXCEPT ![s] = IF settled THEN result ELSE reply[s]]
  BY <1>b DEF Answer
<1>d. /\ inbox'[s] = Tail(q) /\ written'[s] = 0
      /\ reply'[s] = IF settled THEN result ELSE reply[s]
      /\ \A t \in Server : t # s =>
           inbox'[t] = inbox[t] /\ written'[t] = written[t] /\ reply'[t] = reply[t]
  BY <1>b, <1>c
<1>e. /\ Batch' = Batch /\ \A b : IsBlock(b)' <=> IsBlock(b)
  BY DEF Batch, IsBlock
<1>t. /\ inbox' \in [Server -> Seq(BatchType)] /\ written' \in [Server -> Nat]
      /\ reply' \in [Server -> {"none", "pending", "ok", "err"}]
  BY <1>a, <1>b, <1>c
<1> HIDE DEF q, settled
<1>1. InboxOK'
  <2> SUFFICES ASSUME NEW t \in Server, NEW k \in 1..Len(inbox'[t])
               PROVE  \/ IsBlock(inbox'[t][k])
                      \/ submitting /\ reply'[t] = "pending" /\ k = Len(inbox'[t])
                         /\ inbox'[t][k] = Batch
    BY <1>e DEF InboxOK, IsBlock
  <2>1. CASE t # s
    BY <1>b, <1>d, <2>1 DEF InboxOK
  <2>2. CASE t = s
    <3>1. k \in 1..(Len(q) - 1) /\ inbox'[t][k] = q[k + 1] /\ k + 1 \in 1..Len(q) /\ Len(q) # 1
      BY <1>a, <1>d, <2>2, SMTT(30)
    <3>2. reply'[s] = reply[s]
      BY <1>d, <3>1 DEF settled
    <3>3. \/ IsBlock(q[k + 1])
          \/ submitting /\ reply[s] = "pending" /\ k + 1 = Len(q) /\ q[k + 1] = Batch
      BY <1>b, <3>1 DEF InboxOK, q
    <3>4. k + 1 = Len(q) => k = Len(inbox'[s])
      <4>1. Len(inbox'[s]) = Len(q) - 1
        BY <1>a, <1>d
      <4>2. Len(q) \in Nat
        BY <1>a
      <4>3. k \in Nat
        BY <3>1, <4>2
      <4> HIDE <3>1
      <4> QED BY <4>1, <4>2, <4>3
    <3> QED BY <2>2, <3>1, <3>2, <3>3, <3>4
  <2> QED BY <2>1, <2>2
<1>2. ReplyOK'
  <2> DEFINE Good(t, in, re, st) ==
               /\ ~submitting => re = "none"
               /\ submitting => re # "none"
               /\ re = "pending" => in # << >> /\ in[Len(in)] = Batch
               /\ re \in {"ok", "err"} => in = << >>
               /\ re = "ok" => Segments(Batch) \subseteq st
  <2>1. \A t \in Server : Good(t, inbox[t], reply[t], store[t])
    BY <1>b DEF ReplyOK, Readable
  <2>2. \A t \in Server : t # s => Good(t, inbox'[t], reply'[t], store'[t])
    BY <1>d, <2>1
  <2>3. Good(s, inbox'[s], reply'[s], store'[s])
    <3>1. reply[s] \in {"none", "pending"} /\ q # << >>
      BY <2>1, <1>b DEF q
    <3>2. CASE settled
      <4>1. Tail(q) = << >> /\ Head(q) = Batch /\ submitting
        BY <3>2, <1>a, <1>b DEF settled, ReplyOK, q
      <4> QED BY <1>d, <3>2, <4>1 DEF q
    <3>3. CASE ~settled
      <4>1. reply[s] = "pending" =>
              Tail(q) # << >> /\ Tail(q)[Len(Tail(q))] = q[Len(q)] /\ q[Len(q)] = Batch
        <5> SUFFICES ASSUME reply[s] = "pending"
                     PROVE  Tail(q) # << >> /\ Tail(q)[Len(Tail(q))] = q[Len(q)] /\ q[Len(q)] = Batch
          OBVIOUS
        <5>1. q[Len(q)] = Batch /\ Len(q) # 1
          BY <3>3, <1>b DEF settled, ReplyOK, q
        <5>2. Len(q) - 1 \in 1..(Len(q) - 1) /\ (Len(q) - 1) + 1 = Len(q)
          BY <1>a, <5>1
        <5>3. Tail(q)[Len(q) - 1] = q[Len(q)]
          BY <1>a, <5>2
        <5>4. Tail(q) # << >>
          BY <1>a, <5>2, SMTT(30)
        <5> QED BY <1>a, <5>1, <5>3, <5>4
      <4> QED BY <1>d, <2>1, <3>1, <3>3, <4>1
    <3> QED BY <3>2, <3>3
  <2>4. \A t \in Server : Good(t, inbox'[t], reply'[t], store'[t])
    <3> HIDE DEF Good
    <3> QED BY <2>2, <2>3
  <2> QED BY <1>e, <2>4 DEF ReplyOK, Readable
<1>3. WrittenOK'
  <2>1. ASSUME NEW t \in Server, t # s, inbox'[t] # << >>
        PROVE  /\ written'[t] < SegmentCount(Head(inbox'[t]))
               /\ \A k \in 0..(written'[t] - 1) : Segment(Head(inbox'[t]), k) \in store'[t]
    BY <1>b, <1>d, <2>1 DEF WrittenOK
  <2>2. ASSUME NEW t \in Server, t # s, inbox'[t] = << >> PROVE written'[t] = 0
    BY <1>b, <1>d, <2>2 DEF WrittenOK
  <2>3. ASSUME inbox'[s] # << >>
        PROVE  /\ written'[s] < SegmentCount(Head(inbox'[s]))
               /\ \A k \in 0..(written'[s] - 1) : Segment(Head(inbox'[s]), k) \in store'[s]
    <3>1. Len(q) - 1 \in Nat \ {0} /\ 1 \in 1..(Len(q) - 1) /\ 2 \in 1..Len(q)
      BY <1>a, <1>d, <2>3
    <3>2. Head(inbox'[s]) = q[2]
      BY <1>a, <1>d, <2>3, <3>1
    <3>3. SegmentCount(q[2]) \in Nat \ {0}
      BY <3>1, QueuedBatch DEF q
    <3>4. 0 < SegmentCount(q[2]) /\ 0..(0 - 1) = {}
      BY <3>3
    <3> QED BY <1>d, <3>2, <3>4
  <2> QED BY <1>d, <2>1, <2>2, <2>3 DEF WrittenOK
<1> QED BY <1>1, <1>2, <1>3, <1>t

(* The threshold is a number.                                              *)
LEMMA ThresholdType == submit_threshold \in Int
<1>1. Cardinality(Server) \in Nat
  BY ServerAssumption, FS_CardinalityType
<1> QED BY <1>1, StrategyAssumption DEF submit_threshold

(* Whatever keeps the segments of the chain keeps its blocks available.    *)
LEMMA AvailableKept ==
  ASSUME SubmissionInv, UNCHANGED blocks,
         \A t \in Server, i \in 1..Len(blocks) :
              Readable(t, blocks[i].batch) => Segments(blocks[i].batch) \subseteq store'[t]
  PROVE  BlocksAvailable'
<1> SUFFICES ASSUME NEW i \in 1..Len(blocks)
             PROVE  Cardinality({s \in Server : Segments(blocks[i].batch) \subseteq store'[s]})
                      >= submit_threshold
  <2>1. DOMAIN blocks' = 1..Len(blocks) /\ blocks' = blocks
    BY DATypes
  <2> QED BY <2>1, Zenon DEF BlocksAvailable, Readable
<1> DEFINE before == {s \in Server : Readable(s, blocks[i].batch)}
           after == {s \in Server : Segments(blocks[i].batch) \subseteq store'[s]}
<1>1. before \subseteq after /\ IsFiniteSet(after) /\ IsFiniteSet(before)
  BY ServerAssumption, FS_Subset
<1>2. Cardinality(before) <= Cardinality(after)
  BY <1>1, FS_Subset
<1>3. Cardinality(before) \in Nat /\ Cardinality(after) \in Nat
  BY <1>1, FS_CardinalityType
<1>4. Cardinality(before) >= submit_threshold
  BY DATypes, SMTT(30) DEF SubmissionInv, BlocksAvailable
<1> HIDE DEF before, after
<1>5. Cardinality(after) >= submit_threshold
  BY <1>2, <1>3, <1>4, ThresholdType
<1> QED BY <1>5 DEF after

(* The servers' queues do not change and the submission goes on, or has    *)
(* not begun.                                                              *)
LEMMA QueuesFrame ==
  ASSUME SubmissionInv, UNCHANGED <<blocks, submitting, inbox, written, reply, store>>,
         submitting => UNCHANGED buffer
  PROVE  InboxOK' /\ ReplyOK' /\ WrittenOK' /\ BatchesFull' /\ BlocksAvailable'
<1>1. submitting => Batch' = Batch
  BY DEF Batch
<1>2. InboxOK'
  BY <1>1 DEF SubmissionInv, InboxOK, IsBlock
<1>3. ReplyOK'
  <2>1. \A s \in Server : reply[s] # "none" => submitting
    BY DEF SubmissionInv, ReplyOK
  <2> QED BY <1>1, <2>1 DEF SubmissionInv, ReplyOK, Readable
<1>4. WrittenOK' /\ BatchesFull' /\ BlocksAvailable'
  BY DEF SubmissionInv, WrittenOK, BatchesFull, BlocksAvailable, Readable
<1> QED BY <1>2, <1>3, <1>4

(* ProposeBlock: the batch goes to the end of every queue.                 *)
LEMMA ProposeInv ==
  ASSUME SubmissionInv, ProposeBlock
  PROVE  SubmissionInv'
<1> USE DEF ProposeBlock
<1>a. /\ inbox \in [Server -> Seq(BatchType)] /\ written \in [Server -> Nat]
      /\ Batch \in BatchType /\ Batch' = Batch /\ Batch.txs # << >> /\ submitting' /\ ~submitting
      /\ UNCHANGED <<blocks, buffer, store, written>>
  BY DATypes DEF Batch
<1>b. \A s \in Server : inbox'[s] = Append(inbox[s], Batch) /\ reply'[s] = "pending"
  OBVIOUS
<1>c. \A s \in Server : /\ inbox'[s] \in Seq(BatchType) /\ Len(inbox'[s]) = Len(inbox[s]) + 1
                        /\ Len(inbox[s]) \in Nat
                        /\ inbox'[s][Len(inbox[s]) + 1] = Batch /\ inbox'[s] # << >>
                        /\ \A k \in 1..Len(inbox[s]) : inbox'[s][k] = inbox[s][k]
  BY <1>a, <1>b
<1>1. DAInv'
  <2>1. inbox' \in [Server -> Seq(BatchType)]
    BY <1>c
  <2>2. reply' \in [Server -> {"none", "pending", "ok", "err"}]
    OBVIOUS
  <2>3. TypeOKDA'
    BY <2>1, <2>2 DEF SubmissionInv, DAInv, TypeOKDA
  <2> QED BY <2>3, ChainFrame DEF SubmissionInv, DAInv
<1>2. InboxOK'
  <2> SUFFICES ASSUME NEW s \in Server, NEW k \in 1..Len(inbox'[s])
               PROVE  \/ IsBlock(inbox'[s][k])
                      \/ k = Len(inbox'[s]) /\ inbox'[s][k] = Batch
    BY <1>a, <1>b DEF InboxOK, IsBlock
  <2>1. CASE k \in 1..Len(inbox[s])
    <3>1. IsBlock(inbox[s][k])
      BY <1>a, <2>1 DEF SubmissionInv, InboxOK
    <3> QED BY <1>c, <2>1, <3>1
  <2>2. CASE k = Len(inbox[s]) + 1
    BY <1>c, <2>2
  <2> QED BY <1>c, <2>1, <2>2
<1>3. ReplyOK'
  <2>1. \A s \in Server : inbox'[s] # << >> /\ inbox'[s][Len(inbox'[s])] = Batch
    BY <1>c
  <2> QED BY <1>a, <1>b, <2>1 DEF ReplyOK
<1>4. WrittenOK'
  <2>1. ASSUME NEW s \in Server
        PROVE  /\ written[s] < SegmentCount(Head(inbox'[s]))
               /\ \A k \in 0..(written[s] - 1) : Segment(Head(inbox'[s]), k) \in store[s]
    <3>1. CASE inbox[s] = << >>
      <4>1. written[s] = 0 /\ Head(inbox'[s]) = Batch
        BY <1>b, <3>1 DEF SubmissionInv, WrittenOK
      <4>2. SegmentCount(Batch) \in Nat \ {0}
        BY <1>a, SegmentType
      <4> QED BY <4>1, <4>2
    <3>2. CASE inbox[s] # << >>
      <4>1. Head(inbox'[s]) = Head(inbox[s])
        BY <1>a, <1>b, <3>2
      <4> QED BY <3>2, <4>1 DEF SubmissionInv, WrittenOK
    <3> QED BY <3>1, <3>2
  <2> QED BY <1>a, <1>c, <2>1 DEF WrittenOK
<1>5. BatchesFull' /\ BlocksAvailable' /\ DOMAIN store' = Server
  BY <1>a DEF SubmissionInv, BatchesFull, BlocksAvailable, Readable
<1> QED BY <1>1, <1>2, <1>3, <1>4, <1>5 DEF SubmissionInv

(* pub_batch writes a segment; after the last one the batch is readable.   *)
LEMMA WriteSegmentInv ==
  ASSUME SubmissionInv, NEW s \in Server, WriteSegment(s)
  PROVE  SubmissionInv'
<1> DEFINE b == Head(inbox[s])
<1>a. /\ inbox[s] # << >>
      /\ store' = [store EXCEPT ![s] = Stored(s, Segment(b, written[s]))]
      /\ UNCHANGED <<executed, started, buffer, blocks, submitting, errors, crashes, published>>
  BY DEF WriteSegment
<1>b. /\ \A t \in Server : t # s => store'[t] = store[t]
      /\ \A t \in Server : \A seg \in store'[t] : seg.chunk_id \in Nat /\ seg.data \in Seq(Txs)
      /\ \A t \in Server, i \in 1..Len(blocks) :
              Readable(t, blocks[i].batch) => Segments(blocks[i].batch) \subseteq store'[t]
      /\ \A k \in 0..(written[s] - 1) : Segment(b, k) \in store'[s]
  BY <1>a, WriteKeeps
<1>c. DOMAIN store' = Server /\ Segment(b, written[s]) \in store'[s]
  BY <1>a DEF SubmissionInv, Stored
<1>d. /\ written[s] \in Nat /\ written[s] < SegmentCount(b) /\ SegmentCount(b) \in Nat \ {0}
      /\ written \in [Server -> Nat]
  BY <1>a, QueuedHead, QueuedBatch, DATypes DEF SubmissionInv, WrittenOK
<1>e. \A k \in 0..written[s] : Segment(b, k) \in store'[s]
  <2>1. \A k \in 0..written[s] : k \in 0..(written[s] - 1) \/ k = written[s]
    BY <1>d
  <2> QED BY <1>b, <1>c, <2>1
<1>f. BatchesFull' /\ BlocksAvailable'
  BY <1>a, <1>b, AvailableKept DEF SubmissionInv, BatchesFull
<1>g. ASSUME InboxOK', ReplyOK', WrittenOK',
             inbox' \in [Server -> Seq(BatchType)], written' \in [Server -> Nat],
             reply' \in [Server -> {"none", "pending", "ok", "err"}]
      PROVE  SubmissionInv'
  <2>1. TypeOKDA'
    BY <1>a, <1>b, <1>g DEF SubmissionInv, DAInv, TypeOKDA
  <2> QED BY <1>a, <1>c, <1>f, <1>g, <2>1, ChainFrame DEF SubmissionInv, DAInv
<1> HIDE DEF b
<1>1. CASE written[s] + 1 = SegmentCount(b)
  <2>1. Answer(s, "ok")
    BY <1>1 DEF WriteSegment, b
  <2>2. Segments(b) \subseteq store'[s]
    <3>1. 0..(SegmentCount(b) - 1) = 0..written[s]
      BY <1>1, <1>d
    <3> QED BY <1>e, <3>1 DEF Segments
  <2> QED BY <1>a, <1>b, <1>g, <2>1, <2>2, AnswerKeeps DEF b
<1>2. CASE written[s] + 1 # SegmentCount(b)
  <2>1. /\ written' = [written EXCEPT ![s] = written[s] + 1] /\ UNCHANGED <<inbox, reply>>
    BY <1>2 DEF WriteSegment, b
  <2>2. /\ written' \in [Server -> Nat] /\ written'[s] = written[s] + 1
        /\ \A t \in Server : t # s => written'[t] = written[t]
    BY <1>d, <2>1
  <2>3. Batch' = Batch /\ \A x : IsBlock(x)' <=> IsBlock(x)
    BY <1>a DEF Batch, IsBlock
  <2>4. InboxOK'
    BY <1>a, <2>1, <2>3 DEF SubmissionInv, InboxOK, IsBlock
  <2>5. ReplyOK'
    <3>1. \A t \in Server : reply[t] = "ok" => t # s
      BY <1>a DEF SubmissionInv, ReplyOK
    <3>2. \A t \in Server : reply[t] = "ok" => Segments(Batch) \subseteq store'[t]
      BY <1>b, <3>1 DEF SubmissionInv, ReplyOK, Readable
    <3> QED BY <1>a, <2>1, <2>3, <3>2 DEF SubmissionInv, ReplyOK, Readable
  <2>6. WrittenOK'
    <3>1. written[s] + 1 < SegmentCount(b) /\ (written[s] + 1) - 1 = written[s]
      BY <1>2, <1>d
    <3>2. /\ written'[s] < SegmentCount(Head(inbox[s]))
          /\ \A k \in 0..(written'[s] - 1) : Segment(Head(inbox[s]), k) \in store'[s]
      BY <1>e, <2>2, <3>1 DEF b
    <3>3. ASSUME NEW t \in Server, t # s, inbox[t] # << >>
          PROVE  /\ written'[t] < SegmentCount(Head(inbox[t]))
                 /\ \A k \in 0..(written'[t] - 1) : Segment(Head(inbox[t]), k) \in store'[t]
      BY <1>b, <2>2, <3>3 DEF SubmissionInv, WrittenOK
    <3>4. ASSUME NEW t \in Server, inbox[t] = << >> PROVE written'[t] = 0
      BY <1>a, <2>2, <3>4 DEF SubmissionInv, WrittenOK
    <3> QED BY <2>1, <3>2, <3>3, <3>4 DEF WrittenOK
  <2>7. inbox' \in [Server -> Seq(BatchType)] /\ reply' \in [Server -> {"none", "pending", "ok", "err"}]
    BY <2>1, DATypes
  <2> QED BY <1>g, <2>2, <2>4, <2>5, <2>6, <2>7
<1> QED BY <1>1, <1>2

(* A write fails, and may have been stored all the same.                   *)
LEMMA WriteErrorInv ==
  ASSUME SubmissionInv, NEW s \in Server, WriteError(s)
  PROVE  SubmissionInv'
<1>a. /\ inbox[s] # << >> /\ Answer(s, "err") /\ errors < MaxErrors /\ errors' = errors + 1
      /\ store' \in {store, [store EXCEPT ![s] = Stored(s, Segment(Head(inbox[s]), written[s]))]}
      /\ UNCHANGED <<executed, started, buffer, blocks, submitting, crashes, published>>
  BY DEF WriteError
<1>b. /\ \A t \in Server : t # s => store'[t] = store[t]
      /\ \A t \in Server : \A seg \in store'[t] : seg.chunk_id \in Nat /\ seg.data \in Seq(Txs)
      /\ \A t \in Server, i \in 1..Len(blocks) :
              Readable(t, blocks[i].batch) => Segments(blocks[i].batch) \subseteq store'[t]
  BY <1>a, WriteKeeps
<1>c. DOMAIN store' = Server
  BY <1>a DEF SubmissionInv
<1>d. BatchesFull' /\ BlocksAvailable'
  BY <1>a, <1>b, AvailableKept DEF SubmissionInv, BatchesFull
<1>e. /\ InboxOK' /\ ReplyOK' /\ WrittenOK'
      /\ inbox' \in [Server -> Seq(BatchType)] /\ written' \in [Server -> Nat]
      /\ reply' \in [Server -> {"none", "pending", "ok", "err"}]
  BY <1>a, <1>b, AnswerKeeps
<1>f. TypeOKDA'
  <2>1. errors' \in 0..MaxErrors
    BY <1>a, DABounds DEF SubmissionInv, DAInv, TypeOKDA
  <2> QED BY <1>a, <1>b, <1>e, <2>1 DEF SubmissionInv, DAInv, TypeOKDA
<1> QED BY <1>a, <1>c, <1>d, <1>e, <1>f, ChainFrame DEF SubmissionInv, DAInv

(* Enough servers accepted: the batch becomes a block, which they serve.   *)
LEMMA SubmitOkInv ==
  ASSUME SubmissionInv, SubmitOk
  PROVE  SubmissionInv'
<1> DEFINE n == Len(blocks)
           new == [batch     |-> Batch,
                   prev_root |-> IF blocks = << >> THEN 0 ELSE blocks[Len(blocks)].root,
                   root      |-> buffer[Len(buffer)]]
<1>a. /\ blocks' = Append(blocks, new) /\ submitting /\ submitting' = FALSE
      /\ UNCHANGED <<inbox, written, store>> /\ Cardinality(Accepted) >= submit_threshold
      /\ reply' = [s \in Server |-> "none"]
  BY DEF SubmitOk
<1>b. new.batch = Batch /\ n \in Nat
  BY DATypes
<1> HIDE DEF new
<1>c. /\ Len(blocks') = n + 1 /\ blocks'[n + 1] = new /\ \A i \in 1..n : blocks'[i] = blocks[i]
      /\ DOMAIN blocks' = 1..(n + 1)
  BY <1>a, DATypes
<1>d. \A i \in 1..(n + 1) : i \in 1..n \/ i = n + 1
  BY <1>b
<1>1. DAInv'
  BY SubmitChain
<1>2. InboxOK'
  <2> SUFFICES ASSUME NEW s \in Server, NEW k \in 1..Len(inbox[s])
               PROVE  /\ inbox[s][k].block_number \in 0..(Len(blocks') - 1)
                      /\ inbox[s][k] = blocks'[inbox[s][k].block_number + 1].batch
    BY <1>a DEF InboxOK, IsBlock
  <2> DEFINE x == inbox[s][k]
             m == x.block_number
  <2>1. CASE IsBlock(inbox[s][k])
    <3>1. m \in 0..(n - 1) /\ x = blocks[m + 1].batch
      BY <2>1 DEF IsBlock
    <3> HIDE DEF m, x
    <3>2. m \in 0..((n + 1) - 1) /\ m + 1 \in 1..n
      BY <1>b, <3>1
    <3>3. x = blocks'[m + 1].batch
      BY <1>c, <3>1, <3>2
    <3> QED BY <1>c, <3>2, <3>3 DEF m, x
  <2>2. CASE ~IsBlock(inbox[s][k])
    <3>1. x = Batch /\ m = n
      BY <2>2 DEF SubmissionInv, InboxOK, Batch
    <3> HIDE DEF m, x
    <3>2. m \in 0..((n + 1) - 1) /\ x = blocks'[m + 1].batch
      BY <1>b, <1>c, <3>1
    <3> QED BY <1>c, <3>2 DEF m, x
  <2> QED BY <2>1, <2>2
<1>3. ReplyOK' /\ WrittenOK' /\ DOMAIN store' = Server
  BY <1>a DEF ReplyOK, SubmissionInv, WrittenOK
<1>4. BatchesFull'
  <2>1. Batch.txs # << >>
    BY <1>a DEF SubmissionInv, BatchesFull, Batch
  <2> QED BY <1>a, <1>b, <1>c, <1>d, <2>1 DEF SubmissionInv, BatchesFull
<1>5. BlocksAvailable'
  <2> SUFFICES ASSUME NEW i \in 1..(n + 1)
               PROVE  Cardinality({s \in Server : Segments(blocks'[i].batch) \subseteq store[s]})
                        >= submit_threshold
    BY <1>a, <1>c, Zenon DEF BlocksAvailable, Readable
  <2>1. CASE i \in 1..n
    <3>1. DOMAIN blocks = 1..n
      BY DATypes
    <3>2. Cardinality({s \in Server : Segments(blocks[i].batch) \subseteq store[s]})
            >= submit_threshold
      BY <2>1, <3>1, Zenon DEF SubmissionInv, BlocksAvailable, Readable
    <3> QED BY <1>c, <2>1, <3>2
  <2>2. CASE i = n + 1
    <3> DEFINE served == {s \in Server : Segments(Batch) \subseteq store[s]}
    <3>1. Accepted \subseteq served
      BY DEF SubmissionInv, ReplyOK, Readable, Accepted
    <3>2. IsFiniteSet(served) /\ IsFiniteSet(Accepted)
      BY ServerAssumption, FS_Subset DEF Accepted
    <3>3. /\ Cardinality(Accepted) <= Cardinality(served)
          /\ Cardinality(Accepted) \in Nat /\ Cardinality(served) \in Nat
      BY <3>1, <3>2, FS_Subset, FS_CardinalityType
    <3> HIDE DEF served
    <3>4. Cardinality(served) >= submit_threshold
      BY <1>a, <3>3, ThresholdType
    <3>5. blocks'[i].batch = Batch
      BY <1>b, <1>c, <2>2
    <3> QED BY <3>4, <3>5 DEF served
  <2> QED BY <1>d, <2>1, <2>2
<1> QED BY <1>1, <1>2, <1>3, <1>4, <1>5 DEF SubmissionInv

(* Every server answered, too few accepted.                                *)
LEMMA SubmitErrInv ==
  ASSUME SubmissionInv, SubmitErr
  PROVE  SubmissionInv'
<1> USE DEF SubmitErr
<1>1. \A s \in Server : inbox[s] = << >>
  BY DATypes DEF SubmissionInv, ReplyOK
<1>2. DAInv'
  <2>1. TypeOKDA'
    BY DEF SubmissionInv, DAInv, TypeOKDA
  <2> QED BY <2>1, ChainFrame DEF SubmissionInv, DAInv
<1>3. InboxOK' /\ ReplyOK' /\ WrittenOK'
  BY <1>1 DEF InboxOK, ReplyOK, SubmissionInv, WrittenOK
<1>4. BatchesFull' /\ BlocksAvailable' /\ DOMAIN store' = Server
  BY DEF SubmissionInv, BatchesFull, BlocksAvailable, Readable
<1> QED BY <1>2, <1>3, <1>4 DEF SubmissionInv

(* The process restarts: no block, nothing queued.                         *)
LEMMA RestartInv ==
  ASSUME SubmissionInv, Restart
  PROVE  SubmissionInv'
<1>1. DAInv'
  BY RestartChain
<1>2. InboxOK' /\ ReplyOK' /\ WrittenOK'
  BY DEF Restart, InboxOK, ReplyOK, WrittenOK
<1>3. BatchesFull' /\ BlocksAvailable' /\ DOMAIN store' = Server
  BY DEF Restart, SubmissionInv, BatchesFull, BlocksAvailable
<1> QED BY <1>1, <1>2, <1>3 DEF SubmissionInv

(***************************************************************************)
(* The invariant and what follows from it.                                 *)
(***************************************************************************)
(* The inductive invariant, for any servers, strategy and segment size.    *)
THEOREM SubmissionInvariant == SpecDA => []SubmissionInv
<1>1. InitDA => SubmissionInv
  <2> SUFFICES ASSUME InitDA PROVE SubmissionInv
    OBVIOUS
  <2> USE DEF InitDA
  <2>1. TypeOKDA
    <3>1. /\ << >> \in Seq(Txs) /\ << >> \in Seq(BatchType)
          /\ << >> \in Seq([batch : BatchType, prev_root : 0..MaxTx, root : Txs])
      OBVIOUS
    <3>2. inbox \in [Server -> Seq(BatchType)]
      BY <3>1
    <3>3. written \in [Server -> Nat] /\ reply \in [Server -> {"none", "pending", "ok", "err"}]
      OBVIOUS
    <3>4. \A s \in Server : store[s] = {}
      OBVIOUS
    <3>5. executed \in 0..MaxTx /\ started \in 0..MaxTx
          /\ errors \in 0..MaxErrors /\ crashes \in 0..MaxCrashes
      BY DABounds
    <3>6. buffer \in Seq(Txs) /\ submitting \in BOOLEAN /\ published \subseteq BatchType
          /\ blocks \in Seq([batch : BatchType, prev_root : 0..MaxTx, root : Txs])
      BY <3>1
    <3> HIDE DEF InitDA
    <3> QED BY <3>2, <3>3, <3>4, <3>5, <3>6 DEF TypeOKDA
  <2>2. ChainComplete
    BY DEF ChainComplete
  <2>3. InboxOK /\ ReplyOK /\ WrittenOK /\ BatchesFull /\ BlocksAvailable /\ DOMAIN store = Server
    BY DEF InboxOK, ReplyOK, WrittenOK, BatchesFull, BlocksAvailable
  <2> QED BY <2>1, <2>2, <2>3 DEF SubmissionInv, DAInv
<1>2. SubmissionInv /\ [NextDA]_daVars => SubmissionInv'
  <2> SUFFICES ASSUME SubmissionInv, [NextDA]_daVars PROVE SubmissionInv'
    OBVIOUS
  <2>1. CASE AppendTransaction
    <3>1. InboxOK' /\ ReplyOK' /\ WrittenOK' /\ BatchesFull' /\ BlocksAvailable'
      BY <2>1, QueuesFrame DEF AppendTransaction
    <3> QED BY <2>1, <3>1, AppendChain DEF SubmissionInv, AppendTransaction
  <2>2. CASE Submission
    BY <2>2, ProposeInv, SubmitOkInv, SubmitErrInv DEF Submission
  <2>3. CASE Restart
    BY <2>3, RestartInv
  <2>4. CASE \E s \in Server : WriteSegment(s) \/ WriteError(s)
    BY <2>4, WriteSegmentInv, WriteErrorInv
  <2>5. CASE UNCHANGED daVars
    <3>1. InboxOK' /\ ReplyOK' /\ WrittenOK' /\ BatchesFull' /\ BlocksAvailable'
      BY <2>5, QueuesFrame DEF daVars
    <3>2. TypeOKDA'
      BY <2>5 DEF daVars, SubmissionInv, DAInv, TypeOKDA
    <3> QED BY <2>5, <3>1, <3>2, ChainFrame DEF SubmissionInv, DAInv, daVars
  <2> QED BY <2>1, <2>2, <2>3, <2>4, <2>5 DEF NextDA
<1> QED BY <1>1, <1>2, PTL DEF SpecDA

(* However submissions fail and are retried, the chain and the buffer have *)
(* every transaction since the start once, in order.                       *)
THEOREM ChainIsComplete == SpecDA => []DAInv
<1>1. SubmissionInv => DAInv
  BY DEF SubmissionInv
<1> QED BY <1>1, SubmissionInvariant, PTL

(* Every block of the chain stays readable from submit_threshold servers,  *)
(* although retried and late batches are written over each other.          *)
THEOREM BlocksStayAvailable == SpecDA => []BlocksAvailable
<1>1. SubmissionInv => BlocksAvailable
  BY DEF SubmissionInv
<1> QED BY <1>1, SubmissionInvariant, PTL
=============================================================================
