-------------------------- MODULE MCBufferSharing --------------------------
(***************************************************************************)
(* Small instances of BufferSharing for TLC: p1 creates buffers, p2 looks  *)
(* them up.  A process that looks buffers up may close its descriptor 0,   *)
(* which multiplies its states; one such process is enough to meet the     *)
(* other's locks with and without its own.                                 *)
(***************************************************************************)
EXTENDS BufferSharing, TLC

CONSTANTS p1, p2

MCProcs == {p1, p2}

(* p1 registers too (which looks buffers up) and frees all there are; p2 may leave its behind. *)
AllOfThem ==
    [p \in MCProcs |-> IF p = p1 THEN {"alloc", "register", "freeAll"}
                                 ELSE {"lookup", "delete", "deviceDelete", "deviceKeep"}]

(* Both only delete what they have. *)
Deletes ==
    [p \in MCProcs |-> IF p = p1 THEN {"alloc", "delete", "deviceDelete"}
                                 ELSE {"lookup", "delete", "deviceDelete"}]

(* Buffer objects are interchangeable (safety runs only). *)
Symmetry == Permutations(Bufs)
====
