-------------------------------- MODULE MCIsr --------------------------------
(* Small instances of Isr for TLC. *)
EXTENDS Isr
====
