---------------------------- MODULE MCBufferList ----------------------------
(* Small instances of BufferList for TLC. *)
EXTENDS BufferList, TLC

(* The heap may return any free address: addresses are interchangeable. *)
Symmetry == Permutations(Nodes)
====
