---- MODULE MCObjectRuntime ----
(* Keys and plain values are interchangeable: nothing compares or orders them. *)
EXTENDS ObjectRuntime
KeysAndValues == Permutations(Keys) \cup Permutations(Plain)
====
