------------------------------- MODULE Ledger -------------------------------
(***************************************************************************)
(* What the sequencer promises its callers, without writes, memory, errors *)
(* or crashes: a ledger whose head (last order and accumulator) grows by   *)
(* one order at a time, never moves in a crash, and is signed at most once *)
(* per order.  An operator takes back the last order; while no such revert *)
(* was torn, what is left still extends everything signed.                 *)
(***************************************************************************)
EXTENDS Naturals, Sequences

CONSTANTS Tx, GenesisInfo

VARIABLES
  head,     \* the last order, and the accumulator as the sequence of its leaves
  signed,   \* the sequence infos given to callers and not taken back
  intact    \* no revert was cut off between its writes

ledgerVars == <<head, signed, intact>>

(* The accumulator t is a later state of s.                                *)
Grows(t, s) == Len(s) <= Len(t) /\ \A i \in 1..Len(s) : s[i] = t[i]

InitLedger == head = GenesisInfo /\ signed = {} /\ intact = TRUE

(* An order is given to t, the newest leaf; leaves of calls that failed    *)
(* may lie between it and the old head.                                    *)
AppendTx(t) ==
  /\ head'.last_order = head.last_order + 1
  /\ Grows(head'.acc, head.acc)
  /\ Len(head'.acc) > 0 /\ head'.acc[Len(head'.acc)] = t
  /\ UNCHANGED <<signed, intact>>

(* The caller gets the head, as the only one who does.                     *)
Sign(t) ==
  /\ head.acc[Len(head.acc)] = t
  /\ intact => \A p \in signed : p.info.last_order < head.last_order
  /\ signed' = signed \cup {[tx |-> t, info |-> head]}
  /\ UNCHANGED <<head, intact>>

(* The operator takes the last order back.                                 *)
TakeBack ==
  /\ head'.last_order + 1 = head.last_order
  /\ signed' = {p \in signed : p.info.last_order # head.last_order}
  /\ intact => \A p \in signed' : Grows(head'.acc, p.info.acc)
  /\ UNCHANGED intact

(* Such a revert is torn.                                                  *)
Tear == intact' = FALSE /\ UNCHANGED <<head, signed>>

NextLedger == (\E t \in Tx : AppendTx(t) \/ Sign(t)) \/ TakeBack \/ Tear

SpecLedger == InitLedger /\ [][NextLedger]_ledgerVars
=============================================================================
