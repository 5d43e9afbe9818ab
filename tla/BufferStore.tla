----------------------------- MODULE BufferStore -----------------------------
(***************************************************************************)
(* What the files "request" and "free" promise to the threads that write   *)
(* to them: a table of buffers by name, in which every write takes effect  *)
(* at one moment between its call and its return.                          *)
(***************************************************************************)

CONSTANTS Threads, Names, NULL, Kinds,
          CanFail     \* requests may be refused although the name is free

VARIABLES store,      \* name -> kind of the buffer of that name, or NULL
          write       \* thread -> the write it is in: stage, name, and kind if a request

Idle == [stage |-> "idle", name |-> NULL, kind |-> NULL]

Init ==
    /\ store = [n \in Names |-> NULL]
    /\ write = [t \in Threads |-> Idle]

(* A request has a kind, a delete has none. *)
Call(t) ==
    /\ write[t] = Idle
    /\ \E n \in Names, k \in Kinds \cup {NULL} :
          write' = [write EXCEPT ![t] = [stage |-> "called", name |-> n, kind |-> k]]
    /\ UNCHANGED store

Done(t) == write' = [write EXCEPT ![t].stage = "done"]

Request(t) ==
    /\ write[t].stage = "called" /\ write[t].kind # NULL
    /\ store[write[t].name] = NULL
    /\ store' = [store EXCEPT ![write[t].name] = write[t].kind]
    /\ Done(t)

Refuse(t) ==
    /\ write[t].stage = "called" /\ write[t].kind # NULL
    /\ store[write[t].name] # NULL \/ CanFail
    /\ Done(t)
    /\ UNCHANGED store

Delete(t) ==
    /\ write[t].stage = "called" /\ write[t].kind = NULL
    /\ store' = [store EXCEPT ![write[t].name] = NULL]
    /\ Done(t)

Return(t) ==
    /\ write[t].stage = "done"
    /\ write' = [write EXCEPT ![t] = Idle]
    /\ UNCHANGED store

Next == \E t \in Threads : Call(t) \/ Request(t) \/ Refuse(t) \/ Delete(t) \/ Return(t)

Spec == Init /\ [][Next]_<<store, write>>
====
