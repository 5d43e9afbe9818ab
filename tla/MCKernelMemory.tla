---------------------------- MODULE MCKernelMemory ----------------------------
(* Small instances of KernelMemory for TLC. *)
EXTENDS KernelMemory
====
