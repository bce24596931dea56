----------------------------- MODULE MCPipeline -----------------------------
(* Instances of Pipeline for TLC.                                          *)
EXTENDS Pipeline

CONSTANTS blk, l1, l2, own

MCL1Block == {blk} \cap Tx
MCL1Tx == {blk, l1} \cap Tx
MCSequencerTx == {own} \cap Tx
=============================================================================
