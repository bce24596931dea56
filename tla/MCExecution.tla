------------------------------ MODULE MCExecution ------------------------------
EXTENDS Execution, TLC

\* The byte codes are interchangeable.
CodeSymmetry == Permutations(Codes)
================================================================================
