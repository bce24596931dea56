------------------------------ MODULE Inscriptions ------------------------------
(***************************************************************************)
(* The Bitcoin state of the node: the UTXO set, the inscriptions sealed in *)
(* it and the inscriptions that leave a transaction as fees, as the        *)
(* transactions of the blocks past the reorganisation limit are executed,  *)
(* the coinbase of a block last.                                           *)
(*                                                                         *)
(* An outpoint is <<txid, output>>, an inscription <<txid, index>>; txids  *)
(* are numbered in the order they are seen.  A satoshi is one unit.        *)
(***************************************************************************)
EXTENDS Envelope, FiniteSets

CONSTANTS
  Addresses,            \* owners of outputs
  Nobody,               \* @bitcoin_move, the owner of an output without an address
  TxOutputs,            \* the sequences of outputs a transaction may have
  CoinbaseOutputs,      \* the same, for a coinbase
  Scripts,              \* the tapscripts of the inputs
  Networks,             \* the networks to run on: [main: the Rooch chain, mainnet: Bitcoin]
  OrdinalGenesisHeight, \* ORDINAL_GENESIS_HEIGHT
  Bip34Height,          \* BIP_34_HEIGHT
  CoinValue,            \* 50 * COIN_VALUE
  HalvingInterval,      \* SUBSIDY_HALVING_INTERVAL
  FirstPostSubsidyEpoch,\* FIRST_POST_SUBSIDY_EPOCH
  UnknownValue,         \* the value of the output from before the first synchronised block
  MaxTxs,               \* bound: transactions, coinbases aside
  MaxInscriptions,      \* bound: inscriptions revealed
  MaxTemp,              \* bound: inscriptions with a temporary area at a time
  MaxHeight             \* bound: blocks

ASSUME ConstantsAssumption ==
  /\ Addresses \cap {Nobody, "0x0"} = {}
  /\ {OrdinalGenesisHeight, Bip34Height, CoinValue, FirstPostSubsidyEpoch, UnknownValue, MaxTxs,
      MaxInscriptions, MaxTemp, MaxHeight} \subseteq Nat
  /\ HalvingInterval \in Nat \ {0}
  /\ Networks \subseteq [main : BOOLEAN, mainnet : BOOLEAN]

VARIABLES
  net,      \* chain_id and network, fixed at genesis
  height,   \* of the block being processed
  utxos,    \* BitcoinUTXOStore: outpoint -> value, owner, seals
  objs,     \* InscriptionStore: inscription -> its object
  count,    \* InscriptionStore: cursed, blessed, next_sequence_number
  flotsams, \* of the block, in the field BLOCK_FLOTSAM_KEY of its object
  txs,      \* BitcoinBlockStore.txs
  fees,     \* what the transactions of the block left to its miner
  halted    \* a system call on an L1 transaction aborted

vars == <<net, height, utxos, objs, count, flotsams, txs, fees, halted>>

Unknown == <<0, 1>>

\* The owner of a frozen object.
System == "0x0"

SumTo(values, n) == FoldLeft(LAMBDA a, b : a + b, 0, SubSeq(values, 1, n))
Total(values) == SumTo(values, Len(values))
Values(outs) == [k \in DOMAIN outs |-> outs[k].value]

\* script_buf::is_op_return: such an output has no address; others without one can be spent.
is_op_return(out) == out.op_return

need_process_oridinals == net.mainnet => height >= OrdinalGenesisHeight

subsidy_by_height(h) ==
  LET epoch == h \div HalvingInterval
  IN IF epoch < FirstPostSubsidyEpoch THEN CoinValue \div 2^epoch ELSE 0

\* The place of a satoshi of the inputs in the outputs: output 0 if there is none.
Place_AtEnd(position, outs) ==
  LET hits == {k \in DOMAIN outs : SumTo(Values(outs), k) >= position}
      k == IF hits = {} THEN 0 ELSE Min(hits)
  IN [output |-> k, offset |-> IF k = 0 THEN 0 ELSE position - SumTo(Values(outs), k - 1)]

Place(position, outs) ==
  LET hits == {k \in DOMAIN outs : SumTo(Values(outs), k) > position}
      k == IF hits = {} THEN 0 ELSE Min(hits)
  IN [output |-> k, offset |-> IF k = 0 THEN 0 ELSE position - SumTo(Values(outs), k - 1)]

\* Mutant: the values of the earlier inputs are forgotten when the satoshi is a fee.
match_utxo_and_generate_sat_point_OwnInput(id, outs, values, i) ==
  LET position == SumTo(values, i - 1) + objs[id].offset
      place == Place(position, outs)
  IN [id |-> id, output |-> place.output,
      offset |-> IF place.output = 0 THEN objs[id].offset - Total(Values(outs)) ELSE place.offset]

\* Output 0 stands for the fees, and the offset is that beyond the outputs.
match_utxo_and_generate_sat_point(id, outs, values, i) ==
  LET position == SumTo(values, i - 1) + objs[id].offset
      place == Place(position, outs)
  IN [id |-> id, output |-> place.output,
      offset |-> IF place.output = 0 THEN position - Total(Values(outs)) ELSE place.offset]

\* The value of the reward before flotsam j: its own offset and those of the earlier ones.
match_coinbase_and_generate_sat_point(j, outs) ==
  LET offsets == [k \in DOMAIN flotsams |-> flotsams[k].offset]
      place == Place(subsidy_by_height(height) + SumTo(offsets, j), outs)
  IN [id |-> flotsams[j].id, output |-> IF place.output = 0 THEN 1 ELSE place.output,
      offset |-> place.offset]

--------------------------------------------------------------------------------
(* Inscribing.                                                             *)

handle_curse_inscription(envelope) ==
  \/ envelope.unrecognized_even_field \/ envelope.duplicate_field \/ envelope.incomplete_field
  \/ envelope.input # 0 \/ envelope.offset # 0
  \/ envelope.inscription.pointer # <<>> \/ envelope.pushnum \/ envelope.stutter

\* The native, on the scripts there are.
parse_inscription_from_witness == [script \in Scripts |-> from_witness(script)]

\* The inscriptions of a transaction in the order of its inputs, each with its offset.
Revealed(scripts, values) ==
  LET Found(i) ==
        LET envelopes == parse_inscription_from_witness[scripts[i]]
        IN [j \in DOMAIN envelopes |->
              LET given == envelopes[j].inscription.pointer
                  pointer == IF given = <<>> \/ given[1] >= values[i] THEN 0 ELSE given[1]
              IN [offset |-> SumTo(values, i - 1) + pointer,
                  curse |-> handle_curse_inscription(envelopes[j])]]
  IN FlattenSeq([i \in DOMAIN scripts |-> Found(i)])

\* Mutant: only the blessed ones are counted.
Counted_BlessedOnly(found) ==
  [cursed |-> count.cursed,
   blessed |-> count.blessed + Len(SelectSeq(found, LAMBDA r : ~r.curse)),
   next |-> count.next + Len(found)]

\* The counters after the inscriptions found.
Counted(found) ==
  [cursed |-> count.cursed + Len(SelectSeq(found, LAMBDA r : r.curse)),
   blessed |-> count.blessed + Len(SelectSeq(found, LAMBDA r : ~r.curse)),
   next |-> count.next + Len(found)]

\* from_transaction and process_transaction: as many outputs as inscriptions and each has its own,
\* otherwise all are at the first.  The inscription keeps its offset in either case.
Separate(found, outs) == Len(found) = Len(outs)

OutputOf(n, found, outs) == IF Separate(found, outs) THEN n ELSE 1

from_transaction(found, outs) ==
  [n \in DOMAIN found |->
     LET before == Counted(SubSeq(found, 1, n - 1))
     IN [offset |-> found[n].offset,
         owner |-> outs[OutputOf(n, found, outs)].to,
         sequence_number |-> before.next,
         inscription_number |-> IF found[n].curse THEN before.cursed + 1 ELSE before.blessed,
         is_curse |-> found[n].curse, burned |-> FALSE, temp |-> FALSE]]

process_transaction(txid, found, outs) ==
  [n \in DOMAIN found |->
     [id |-> <<txid, n - 1>>, output |-> OutputOf(n, found, outs),
      offset |-> IF Separate(found, outs) THEN 0 ELSE found[n].offset]]

--------------------------------------------------------------------------------
(* Transferring.                                                           *)

\* The object of an inscription after its satoshi is spent: moved to an output, burned in an
\* OP_RETURN one, or left to its owner until the coinbase; its temporary area is dropped.
Spent(obj, point, outs) ==
  LET moved == [obj EXCEPT !.offset = point.offset, !.temp = FALSE]
  IN IF point.output = 0 THEN [obj EXCEPT !.temp = FALSE]
     ELSE IF is_op_return(outs[point.output]) THEN [moved EXCEPT !.burned = TRUE, !.owner = System]
     ELSE [moved EXCEPT !.owner = outs[point.output].to]

\* Mutant: the owner of the first output gets all of them.
Rewarded_First(obj, point, outs) == [obj EXCEPT !.offset = point.offset, !.owner = outs[1].to]

\* The coinbase gives an inscription paid as a fee to an output of its own.
Rewarded(obj, point, outs) == [obj EXCEPT !.offset = point.offset, !.owner = outs[point.output].to]

\* handle_sat_point takes the points from the end, handle_new_utxo the seals again.
SealsOf(points, k) ==
  LET added == SelectSeq(FlattenSeq([i \in DOMAIN points |-> Reverse(points[i])]),
                         LAMBDA p : p.output = k)
  IN Reverse([n \in DOMAIN added |-> added[n].id])

\* handle_new_utxo: the outputs of a transaction, sealed with the points at each.
handle_new_utxo(txid, outs, points) ==
  [o \in {<<txid, k>> : k \in DOMAIN outs} |->
     [value |-> outs[o[2]].value, owner |-> outs[o[2]].to, seals |-> SealsOf(points, o[2])]]

Without(f, keys) == [x \in DOMAIN f \ keys |-> f[x]]

With(f, g) == [x \in DOMAIN f \cup DOMAIN g |-> IF x \in DOMAIN g THEN g[x] ELSE f[x]]

\* Mutant: a transaction's flotsams replace those of the block's earlier ones.
Left_Last(points) == SelectSeq(FlattenSeq(points), LAMBDA p : p.output = 0)

\* The flotsams of the block after a transaction, with their offsets beyond the outputs.
Left(points) == flotsams \o SelectSeq(FlattenSeq(points), LAMBDA p : p.output = 0)

--------------------------------------------------------------------------------

Init ==
  /\ net \in Networks
  /\ height = 0
  /\ utxos = <<>> /\ objs = <<>>
  /\ count = [cursed |-> 0, blessed |-> 0, next |-> 0]
  /\ flotsams = <<>> /\ txs = <<>> /\ fees = 0 /\ halted = FALSE

FreshTxid == Cardinality(DOMAIN txs) + 1

\* What a transaction of the chain may spend: outputs not spent before, other than OP_RETURN ones.
Spendable ==
  {o \in DOMAIN utxos : ~is_op_return(txs[o[1]].outs[o[2]])}
  \cup {o \in {Unknown} : \A t \in DOMAIN txs : o \notin Range(txs[t].ins)}

RealValue(o) == IF o \in DOMAIN utxos THEN utxos[o].value ELSE UnknownValue

\* process_tx: an input that is not in the store counts for nothing, and aborts on the main chain.
ProcessTx(ins, outs, scripts) ==
  LET txid == FreshTxid
      known == {i \in DOMAIN ins : ins[i] \in DOMAIN utxos}
      values == [i \in DOMAIN ins |-> IF i \in known THEN utxos[ins[i]].value ELSE 0]
      SpendUtxo(i) ==
        IF i \notin known \/ ~need_process_oridinals THEN <<>>
        ELSE LET seals == utxos[ins[i]].seals
             IN [j \in DOMAIN seals |->
                   match_utxo_and_generate_sat_point(seals[j], outs, values, i)]
      points == [i \in DOMAIN ins |-> SpendUtxo(i)]
      found == IF need_process_oridinals THEN Revealed(scripts, values) ELSE <<>>
      new == process_transaction(txid, found, outs)
      created == from_transaction(found, outs)
      moved == FlattenSeq(points)
  IN /\ ~halted
     /\ IF net.main /\ known # DOMAIN ins
        THEN halted' = TRUE /\ UNCHANGED <<utxos, objs, count, flotsams, txs, fees>>
        ELSE /\ utxos' = With(Without(utxos, Range(ins)),
                              handle_new_utxo(txid, outs, Append(points, new)))
             /\ objs' = With(With(objs,
                                  [id \in {p.id : p \in Range(moved)} |->
                                     LET p == CHOOSE p \in Range(moved) : p.id = id
                                     IN Spent(objs[id], p, outs)]),
                             [id \in {<<txid, n - 1>> : n \in DOMAIN found} |-> created[id[2] + 1]])
             /\ count' = Counted(found)
             /\ flotsams' = Left(points)
             /\ txs' = With(txs, [t \in {txid} |-> [ins |-> ins, outs |-> outs]])
             /\ fees' = fees + Total([i \in DOMAIN ins |-> RealValue(ins[i])]) - Total(Values(outs))
             /\ UNCHANGED halted
     /\ UNCHANGED <<net, height>>

\* Mutant: the inscriptions of a replaced output are dropped with it.
ProcessCoinbaseTx_SealsDropped(txid, outs) ==
  /\ ~halted
  /\ utxos' = With(utxos, handle_new_utxo(txid, outs, <<>>))
  /\ txs' = With(txs, [t \in {txid} |-> [ins |-> <<>>, outs |-> outs]])
  /\ flotsams' = <<>> /\ fees' = 0 /\ height' = height + 1
  /\ UNCHANGED <<net, count, objs, halted>>

\* process_coinbase_tx, whose txid may be that of an earlier one before BIP 34: the outputs it
\* replaces must be there, one at least, and hold no inscription.
ProcessCoinbaseTx(txid, outs) ==
  LET ordinals == need_process_oridinals
      points == [j \in DOMAIN flotsams |-> match_coinbase_and_generate_sat_point(j, outs)]
      sealed == IF ordinals THEN <<points>> ELSE <<>>
      old == {o \in DOMAIN utxos : o[1] = txid}
      replaces == ~net.mainnet \/ height < Bip34Height
      aborts == \/ \E o \in old : ~replaces \/ utxos[o].seals # <<>>
                \/ txid \in DOMAIN txs /\ old = {}
  IN /\ ~halted
     /\ IF aborts THEN halted' = TRUE /\ UNCHANGED <<height, utxos, objs, flotsams, txs, fees>>
        ELSE /\ utxos' = With(utxos, handle_new_utxo(txid, outs, sealed))
             /\ objs' = IF ~ordinals THEN objs
                        ELSE With(objs, [id \in {p.id : p \in Range(points)} |->
                               LET p == CHOOSE p \in Range(points) : p.id = id
                               IN Rewarded(objs[id], p, outs)])
             /\ txs' = With(txs, [t \in {txid} |-> [ins |-> <<>>, outs |-> outs]])
             /\ flotsams' = <<>> /\ fees' = 0 /\ height' = height + 1
             /\ UNCHANGED halted
     /\ UNCHANGED <<net, count>>

\* add_temp_state, in an L2 transaction of the owner that a module allows.
AddTempState(id) ==
  /\ objs[id].owner \in Addresses /\ ~objs[id].temp
  /\ objs' = [objs EXCEPT ![id].temp = TRUE]
  /\ UNCHANGED <<net, height, utxos, count, flotsams, txs, fees, halted>>

--------------------------------------------------------------------------------
(* The chain: transactions that spend what there is, coinbases that claim  *)
(* at most the reward.                                                     *)

Transactions == {t \in DOMAIN txs : txs[t].ins # <<>>}

Distinct(s) == \A i, j \in DOMAIN s : i # j => s[i] # s[j]

ChainTx ==
  /\ Cardinality(Transactions) < MaxTxs /\ height < MaxHeight
  /\ \E n \in 1..2 : \E ins \in [1..n -> Spendable], outs \in TxOutputs :
       /\ Distinct(ins)
       /\ Total(Values(outs)) <= Total([i \in DOMAIN ins |-> RealValue(ins[i])])
       /\ \E scripts \in [1..n -> Scripts] : ProcessTx(ins, outs, scripts)
  /\ count'.next <= MaxInscriptions

Reward == subsidy_by_height(height) + fees

ChainCoinbase ==
  /\ height < MaxHeight
  /\ \E outs \in CoinbaseOutputs :
       Total(Values(outs)) <= Reward /\ ProcessCoinbaseTx(FreshTxid, outs)

RepeatedCoinbase ==
  /\ height < MaxHeight /\ height < Bip34Height
  /\ \E t \in DOMAIN txs \ Transactions :
       Total(Values(txs[t].outs)) <= Reward /\ ProcessCoinbaseTx(t, txs[t].outs)

Next ==
  \/ ChainTx
  \/ ChainCoinbase
  \/ RepeatedCoinbase
  \/ /\ Cardinality({id \in DOMAIN objs : objs[id].temp}) < MaxTemp
     /\ \E id \in DOMAIN objs : AddTempState(id)

Spec == Init /\ [][Next]_vars

--------------------------------------------------------------------------------
(* Properties.                                                             *)

Outpoints == (0..(MaxTxs + MaxHeight)) \X (1..3)

\* The types of the state; offsets and values of the reward never go below zero.
TypeOKInscriptions ==
  /\ net \in Networks /\ height \in 0..MaxHeight /\ fees \in Nat /\ halted \in BOOLEAN
  /\ DOMAIN utxos \subseteq Outpoints
  /\ \A o \in DOMAIN utxos : utxos[o].value \in Nat /\ utxos[o].owner \in Addresses \cup {Nobody}
  /\ \A id \in DOMAIN objs :
       objs[id].offset \in Nat /\ objs[id].owner \in Addresses \cup {Nobody, System}
  /\ \A i \in DOMAIN flotsams : flotsams[i].offset \in Nat /\ flotsams[i].id \in DOMAIN objs
  /\ count \in [cursed : Nat, blessed : Nat, next : Nat]

Count(seq, x) == Len(SelectSeq(seq, LAMBDA y : y = x))

\* An inscription is in exactly one place: one seal of one output, or one flotsam of the block
\* (spend_utxo, handle_coinbase_tx, process_transaction, handle_new_utxo).
SealedOnce ==
  \A id \in DOMAIN objs :
    LET flotsam == Len(SelectSeq(flotsams, LAMBDA p : p.id = id))
        sealed == {o \in DOMAIN utxos : Count(utxos[o].seals, id) > 0}
    IN /\ Cardinality(sealed) + flotsam = 1
       /\ \A o \in sealed : Count(utxos[o].seals, id) = 1

\* The owner of an inscription that is not burned is the owner of the output it is sealed in, so
\* what moves on Bitcoin moves on Rooch (spend_utxo, handle_coinbase_tx, process_transaction).
OwnerFollows ==
  \A o \in DOMAIN utxos : \A id \in Range(utxos[o].seals) :
    ~objs[id].burned => objs[id].owner = utxos[o].owner

\* Inscriptions are numbered without gap or repetition, in all and within the blessed and the
\* cursed, which start from 0 and from 1 (from_transaction).
Numbered ==
  LET Of(curse) == {id \in DOMAIN objs : objs[id].is_curse = curse}
      Numbers(curse) == {objs[id].inscription_number : id \in Of(curse)}
  IN /\ {objs[id].sequence_number : id \in DOMAIN objs} = 0..(count.next - 1)
     /\ Cardinality(DOMAIN objs) = count.next
     /\ Numbers(FALSE) = 0..(count.blessed - 1) /\ Cardinality(Of(FALSE)) = count.blessed
     /\ Numbers(TRUE) = 1..count.cursed /\ Cardinality(Of(TRUE)) = count.cursed

\* The inscriptions, the outputs they are sealed in and the counters fit together.
InscriptionsInv == TypeOKInscriptions /\ SealedOnce /\ OwnerFollows /\ Numbered

\* The satoshis of outputs in order, each named by its output and its place in it.
Sats(outpoints, values) ==
  FlattenSeq([i \in DOMAIN outpoints |-> [k \in 1..values[i] |-> <<outpoints[i], k - 1>>]])

\* First in, first out: the satoshi an inscription is on goes where the inscription goes, to an
\* output and a place in it or to the fees (match_utxo_and_generate_sat_point).  It is asked of
\* transactions whose inputs are all known and of inscriptions within the value of their output.
SpendFollowsSat ==
  [][\A t \in DOMAIN txs' \ DOMAIN txs :
       LET tx == txs'[t]
           n == Len(tx.outs)
           before == Sats(tx.ins, [i \in DOMAIN tx.ins |-> utxos[tx.ins[i]].value])
           after == Sats([k \in 1..n |-> <<t, k>>], Values(tx.outs))
       IN (tx.ins # <<>> /\ Range(tx.ins) \subseteq DOMAIN utxos) =>
            \A i \in DOMAIN tx.ins : \A id \in Range(utxos[tx.ins[i]].seals) :
              objs[id].offset < utxos[tx.ins[i]].value =>
                LET p == CHOOSE p \in DOMAIN before : before[p] = <<tx.ins[i], objs[id].offset>>
                IN IF p <= Len(after)
                   THEN /\ id \in Range(utxos'[after[p][1]].seals)
                        /\ objs'[id].offset = after[p][2]
                   ELSE \E f \in Range(flotsams') :
                          f.id = id /\ f.offset = p - Len(after) - 1]_vars

\* What the batch script reveals is what the parser finds: the same inscriptions in order, each at
\* its place, none incomplete, unrecognized or stuttering; only metadata in chunks repeats a
\* field (append_batch_reveal_script, from_tapscript, ParsedEnvelope::from).  The parser keeps no
\* state: one state, that before the first transaction, is enough to evaluate it in.
RevealRoundTrips ==
  txs = <<>> =>
  \A x, y \in SampleInscriptions :
    LET found == from_witness(append_batch_reveal_script(<<x, y>>))
    IN /\ Len(found) = 2 /\ found[1].inscription = x /\ found[2].inscription = y
       /\ \A i \in 1..2 :
            /\ found[i].offset = i - 1 /\ ~found[i].pushnum /\ ~found[i].stutter
            /\ ~found[i].incomplete_field /\ ~found[i].unrecognized_even_field
            /\ found[i].duplicate_field <=> Len(found[i].inscription.metadata) > 1

\* Instructions after an envelope never change or hide it, as long as they can be read: the
\* envelopes of a script are a prefix of those of every well-formed script that extends it.  A
\* malformed instruction hides every envelope of its script, whichever side of them it is on
\* (from_tapscript, from_instructions; the test ignore_unparsable_scripts).
ExtensionKeepsEnvelopes ==
  txs = <<>> =>
  \A script \in ScriptsUpTo(4), token \in Tokens :
    LET longer == Append(script, token)
    IN IF WellFormed(longer) THEN IsPrefix(from_tapscript(script), from_tapscript(longer))
       ELSE from_tapscript(longer) = <<>>

\* Whatever a script holds before it, an unfinished, a broken or a stuttering envelope included,
\* an envelope is found once an instruction that pushes nothing separates the two
\* (from_instructions consumes that instruction when it gives up).
BrokenEnvelopesEnd ==
  txs = <<>> =>
  \A script \in {s \in ScriptsUpTo(5) : WellFormed(s)}, end \in {Other, Endif} :
    LET before == from_tapscript(Append(script, end))
        found == from_tapscript(Append(script, end) \o EmptyEnvelope)
    IN /\ IsPrefix(before, found) /\ Len(found) = Len(before) + 1
       /\ Last(found).offset = Len(before) /\ Last(found).payload = <<>>

\* The parser finds what was revealed, goes on finding it whatever readable instructions follow,
\* and is not thrown off by what it could not use before.
EnvelopesAreFound == RevealRoundTrips /\ ExtensionKeepsEnvelopes /\ BrokenEnvelopesEnd

\* The documented promise of the temporary area: an inscription that Bitcoin moves loses it.
\* handle_coinbase_tx moves one paid as a fee and keeps what was added since it was spent.
TempStateCleared ==
  [][\A id \in DOMAIN objs : objs'[id].owner # objs[id].owner => ~objs'[id].temp]_vars

================================================================================
