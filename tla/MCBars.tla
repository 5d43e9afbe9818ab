------------------------------- MODULE MCBars -------------------------------
(* Small instances of Bars for TLC. *)
EXTENDS Bars
====
