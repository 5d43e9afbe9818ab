--------------------------- MODULE MCDeviceOperator ---------------------------
(* Small instances of DeviceOperator for TLC. *)
EXTENDS DeviceOperator

CONSTANTS a, b   \* IDs

(* Two devices of one ID with one of another between them. *)
MCIdOf  == <<a, b, a>>
MCLists == {<<b, a>>, <<a, a>>}
====
