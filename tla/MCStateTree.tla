------------------------------ MODULE MCStateTree ------------------------------
EXTENDS StateTree

\* Nibbles of two bits, paths of three: the first two keys share two nibbles, so that chains of
\* internal nodes are built and collapsed; the others part at the first and the second nibble.
MCKeys == {<<0, 0, 1>>, <<0, 0, 2>>, <<0, 3, 0>>, <<1, 0, 0>>}
Twice == <<0, 0, 2>>

\* One key has two values.
MCValuesOf(k) == IF k = Twice THEN {1, 2} ELSE {1}
================================================================================
