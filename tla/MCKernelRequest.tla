--------------------------- MODULE MCKernelRequest ---------------------------
(* Small instances of KernelRequest for TLC. *)
EXTENDS KernelRequest, TLC

(* Threads, addresses and names are interchangeable (safety runs only). *)
Symmetry == Permutations(Threads) \cup Permutations(Privs) \cup Permutations(Names)
====
