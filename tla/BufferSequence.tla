--------------------------- MODULE BufferSequence ---------------------------
(***************************************************************************)
(* What the buffer list of a device promises: the objects in the order in  *)
(* which they were created.  A call adds one at the end or removes one and *)
(* leaves the others, and their order, alone.                              *)
(***************************************************************************)
EXTENDS Integers, Sequences

CONSTANT Objects     \* DMABuffer objects

VARIABLE list

Listed == {list[k] : k \in DOMAIN list}

Init == list = <<>>

Add(n) == n \notin Listed /\ list' = Append(list, n)

Without(k) == [j \in 1 .. Len(list) - 1 |-> list[IF j < k THEN j ELSE j + 1]]

Remove(n) == \E k \in DOMAIN list : list[k] = n /\ list' = Without(k)

Next == \E n \in Objects : Add(n) \/ Remove(n)

Spec == Init /\ [][Next]_list
====
