----------------------------- MODULE MCInscriptions -----------------------------
EXTENDS Inscriptions

Out(value, to) == [value |-> value, to |-> to, op_return |-> FALSE]
OpReturn(value) == [value |-> value, to |-> Nobody, op_return |-> TRUE]

\* One output that leaves a fee; two that keep all, one of them without an address or burning.
MCTxOutputs ==
  {<<Out(1, "alice")>>, <<Out(2, "bob"), Out(1, Nobody)>>, <<Out(1, "alice"), OpReturn(1)>>}

MCCoinbaseOutputs == {<<Out(1, "alice"), Out(2, "bob")>>}

\* No inscription, one with a body, a batch of two of which one points at the second satoshi.
Plain == append_batch_reveal_script(<<[NoFields EXCEPT !.body = <<<<5>>>>]>>)
Batch == append_batch_reveal_script(<<NoFields, [NoFields EXCEPT !.pointer = <<1>>]>>)
MCScripts == {<<>>, Plain, Batch}

MCNetworks == {[main |-> TRUE, mainnet |-> TRUE], [main |-> FALSE, mainnet |-> FALSE]}
================================================================================
