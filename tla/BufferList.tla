----------------------------- MODULE BufferList -----------------------------
(***************************************************************************)
(* The list of DMABuffer objects of one PciDevice, in one process: a       *)
(* doubly linked list on the heap (DMABuffer.next, .prev) whose first node *)
(* the device points to (device->dma_buffer_list).  Pointers are node      *)
(* addresses; an address is free, or holds the object of a kernel or of a  *)
(* registered user buffer.  Whether the kernel grants a request or finds a *)
(* buffer is left open here (see BufferSharing).                           *)
(***************************************************************************)
EXTENDS Integers, FiniteSets

CONSTANTS Nodes,   \* heap addresses of DMABuffer objects (bound)
          NULL,    \* the null pointer
          MaxId,   \* largest buffer ID (bound; the code uses uint64_t)
          Calls,   \* API calls the application makes
          Faults   \* {"munlock"}: munlock() of a user buffer can fail

AllListCalls == {"alloc", "register", "lookup", "delete", "deviceDelete", "freeAll"}

ASSUME ListAssumption ==
    /\ NULL \notin Nodes
    /\ MaxId \in Nat
    /\ Calls \subseteq AllListCalls
    /\ Faults \subseteq {"munlock"}

Ids == 0 .. MaxId
PDA_BUFFER_INDEX_UNDEFINED == MaxId + 1
IdArgs == Ids \cup {PDA_BUFFER_INDEX_UNDEFINED}

VARIABLES
    mem,    \* what the heap holds at an address
    next,   \* DMABuffer.next
    prev,   \* DMABuffer.prev
    index,  \* DMABuffer.index
    head,   \* device->dma_buffer_list
    call    \* the call in progress: its name and argument, the object it has
            \* created, and the cursor of its loop

vars     == <<mem, next, prev, index, head, call>>
listVars == <<mem, next, prev, index, head>>

CallOf(o, a, n, c) == [op |-> o, arg |-> a, added |-> n, cursor |-> c]
NoCall == CallOf("none", 0, NULL, NULL)

Init ==
    /\ mem   = [n \in Nodes |-> "free"]
    /\ next  = [n \in Nodes |-> NULL]
    /\ prev  = [n \in Nodes |-> NULL]
    /\ index = [n \in Nodes |-> 0]
    /\ head  = NULL
    /\ call  = NoCall

-----------------------------------------------------------------------------
(* Walking the list *)

Live == {n \in Nodes : mem[n] # "free"}

(* The nodes a loop that starts at h and follows `link' comes by. *)
Chain(h, link) ==
    {n \in Nodes : \A S \in SUBSET Nodes :
        (h \in S /\ \A x \in S : link[x] \in S \cup {NULL}) => n \in S}

(* DMABuffer_getTail and DMABuffer_getHead of a list that h belongs to. *)
IsTail(h, t) == t \in Chain(h, next) /\ next[t] = NULL
IsHead(h, t) == t \in Chain(h, prev) /\ prev[t] = NULL

(* The nodes the device's loops see, and the first of them with an index. *)
InList == IF head = NULL THEN {} ELSE Chain(head, next)

IsFirst(n, i) ==
    /\ n \in InList /\ index[n] = i
    /\ \A m \in InList : index[m] = i => m \in Chain(n, next)

DMABuffer_findNewIndex(new_index) ==
    IF new_index # PDA_BUFFER_INDEX_UNDEFINED THEN new_index
    ELSE IF head = NULL THEN 0
    ELSE 1 + (CHOOSE m \in {index[n] : n \in InList} : \A n \in InList : index[n] <= m)

(* A call that follows a stale head reads freed memory: nothing is defined. *)
HeadIsStale == head # NULL /\ head \notin Live

Return == call' = NoCall

-----------------------------------------------------------------------------
(* Adding nodes *)

(* DMABuffer_alloc, and the fields DMABuffer_new sets, of a new object at n. *)
DMABuffer_alloc(n, kind, i) ==
    /\ mem'   = [mem EXCEPT ![n] = kind]
    /\ index' = [index EXCEPT ![n] = i]

(* Bug: the new node becomes the head of the list. *)
AddNodeInFront(n) ==
    /\ head'  = n
    /\ next'  = [next EXCEPT ![n] = head]
    /\ prev'  = [x \in Nodes |-> IF x = n THEN NULL ELSE IF x = head THEN n ELSE prev[x]]

(* DMABuffer_addNode: the new node becomes the tail. *)
DMABuffer_addNode(n) ==
    \/ /\ head = NULL
       /\ head' = n
       /\ next' = [next EXCEPT ![n] = NULL]
       /\ prev' = [prev EXCEPT ![n] = NULL]
    \/ /\ head # NULL
       /\ \E t \in Nodes :
             /\ IsTail(head, t)
             /\ next' = [next EXCEPT ![n] = NULL, ![t] = n]
             /\ prev' = [prev EXCEPT ![n] = t]
       /\ UNCHANGED head

(* DMABuffer_new, once the kernel has granted the buffer. *)
DMABuffer_new(n, kind, i) == DMABuffer_alloc(n, kind, i) /\ DMABuffer_addNode(n)

(* Bug: the object keeps the index the caller passed, not the chosen one. *)
AllocKeepsArgument ==
    /\ "alloc" \in Calls /\ call.op = "none" /\ ~HeadIsStale
    /\ \E a \in IdArgs, n \in Nodes \ Live :
          DMABuffer_findNewIndex(a) \in Ids /\ DMABuffer_new(n, "kernel", a)
    /\ UNCHANGED call

(***************************************************************************)
(* PciDevice_allocDMABuffer.  One that fails adds nothing and is not a     *)
(* step.                                                                   *)
(***************************************************************************)
PciDevice_allocDMABuffer ==
    /\ "alloc" \in Calls /\ call.op = "none" /\ ~HeadIsStale
    /\ \E a \in IdArgs, n \in Nodes \ Live :
          LET i == DMABuffer_findNewIndex(a) IN i \in Ids /\ DMABuffer_new(n, "kernel", i)
    /\ UNCHANGED call

(***************************************************************************)
(* PciDevice_registerDMABuffer, up to its call of PciDevice_getDMABuffer:  *)
(* that call passes the caller's index on, and follows even if DMABuffer_  *)
(* new failed and no object was created.                                   *)
(***************************************************************************)
PciDevice_registerDMABuffer ==
    /\ "register" \in Calls /\ call.op = "none" /\ ~HeadIsStale
    /\ \E a \in IdArgs :
          \/ \E n \in Nodes \ Live : LET i == DMABuffer_findNewIndex(a) IN
                /\ i \in Ids
                /\ DMABuffer_new(n, "user", i)
                /\ call' = CallOf("register", a, n, NULL)
          \/ /\ call' = CallOf("register", a, NULL, NULL)
             /\ UNCHANGED listVars

PciDevice_getDMABuffer ==
    /\ "lookup" \in Calls /\ call.op = "none" /\ ~HeadIsStale
    /\ \E a \in IdArgs : call' = CallOf("lookup", a, NULL, NULL)
    /\ UNCHANGED listVars

(***************************************************************************)
(* Body of PciDevice_getDMABuffer: return the first node with the index;   *)
(* without one, a lookup that fails, or adds a node and starts over.       *)
(***************************************************************************)
Lookup ==
    LET i == DMABuffer_findNewIndex(call.arg) IN
    /\ call.op \in {"register", "lookup"}
    /\ \/ Return /\ UNCHANGED listVars
       \/ /\ \A n \in Nodes : ~IsFirst(n, call.arg)
          /\ i \in Ids
          /\ \E n \in Nodes \ Live : DMABuffer_new(n, "kernel", i)
          /\ UNCHANGED call

-----------------------------------------------------------------------------
(* Removing nodes *)

(* The link of `before', if there is such a node, set to `after'. *)
Unlink(link, before, after) ==
    IF before = NULL THEN link ELSE [link EXCEPT ![before] = after]

(* Bug: the successor keeps its pointer to the removed node. *)
RemoveNodeHalf(n) ==
    /\ next' = [Unlink(next, prev[n], next[n]) EXCEPT ![n] = NULL]
    /\ prev' = [prev EXCEPT ![n] = NULL]

(* DMABuffer_removeNode; what the freed node n pointed to is forgotten. *)
DMABuffer_removeNode(n) ==
    /\ next' = [Unlink(next, prev[n], next[n]) EXCEPT ![n] = NULL]
    /\ prev' = [Unlink(prev, next[n], prev[n]) EXCEPT ![n] = NULL]

(***************************************************************************)
(* DMABuffer_free: the object is unlinked and freed, whether the kernel    *)
(* removed the buffer or not; only a failing munlock leaves it as it is.   *)
(***************************************************************************)
DMABuffer_free(n) ==
    \/ /\ DMABuffer_removeNode(n)
       /\ mem'   = [mem EXCEPT ![n] = "free"]
       /\ index' = [index EXCEPT ![n] = 0]
    \/ /\ mem[n] = "user" /\ "munlock" \in Faults
       /\ UNCHANGED <<mem, next, prev, index>>

(* Bug: the head does not move when the first object goes. *)
DeleteKeepsHead ==
    /\ "delete" \in Calls /\ call.op = "none" /\ ~HeadIsStale
    /\ \E n \in Live : DMABuffer_free(n)
    /\ UNCHANGED <<head, call>>

(* Bug: deleting the first object forgets the rest of the list. *)
DeleteDropsRest ==
    /\ "delete" \in Calls /\ call.op = "none" /\ ~HeadIsStale
    /\ \E n \in Live :
          /\ head' = IF n = head THEN NULL ELSE head
          /\ DMABuffer_free(n)
    /\ UNCHANGED call

(* PciDevice_deleteDMABuffer of an object the application still has. *)
PciDevice_deleteDMABuffer ==
    /\ "delete" \in Calls /\ call.op = "none" /\ ~HeadIsStale
    /\ \E n \in Live :
          /\ head' = IF n = head THEN next[n] ELSE head
          /\ DMABuffer_free(n)
    /\ UNCHANGED call

(***************************************************************************)
(* PciDevice_delete and PciDevice_freeAllBuffers call DMABuffer_free-      *)
(* AllBuffersInt, which starts at DMABuffer_getHead of the list.           *)
(***************************************************************************)
StartFreeAll(o) ==
    /\ call.op = "none" /\ ~HeadIsStale
    /\ \/ /\ head = NULL
          /\ call' = CallOf(o, 0, NULL, NULL)
       \/ /\ head # NULL
          /\ \E t \in Nodes : IsHead(head, t) /\ call' = CallOf(o, 0, NULL, t)
    /\ UNCHANGED listVars

PciDevice_delete         == "deviceDelete" \in Calls /\ StartFreeAll("deviceDelete")
PciDevice_freeAllBuffers == "freeAll" \in Calls /\ StartFreeAll("freeAll")

(* The loop of DMABuffer_freeAllBuffersInt: next is read before the free. *)
FreeAllStep ==
    /\ call.cursor # NULL
    /\ DMABuffer_free(call.cursor)
    /\ call' = [call EXCEPT !.cursor = next[call.cursor]]
    /\ UNCHANGED head

(***************************************************************************)
(* End of the loop.  PciDevice_delete clears the list pointer (the device  *)
(* goes, and a new one starts with an empty list); PciDevice_freeAllBuffers*)
(* leaves it as it is.                                                     *)
(***************************************************************************)
FreeAllEnd ==
    /\ call.op \in {"deviceDelete", "freeAll"} /\ call.cursor = NULL
    /\ head' = IF call.op = "deviceDelete" THEN NULL ELSE head
    /\ Return
    /\ UNCHANGED <<mem, next, prev, index>>

(* With a stale list pointer the process can only end; a new one starts. *)
Exit ==
    /\ call.op = "none" /\ HeadIsStale
    /\ mem'   = [n \in Nodes |-> "free"]
    /\ next'  = [n \in Nodes |-> NULL]
    /\ prev'  = [n \in Nodes |-> NULL]
    /\ index' = [n \in Nodes |-> 0]
    /\ head'  = NULL
    /\ UNCHANGED call

-----------------------------------------------------------------------------
Next ==
    \/ PciDevice_allocDMABuffer \/ PciDevice_registerDMABuffer
    \/ PciDevice_getDMABuffer \/ Lookup
    \/ PciDevice_deleteDMABuffer
    \/ PciDevice_delete \/ PciDevice_freeAllBuffers \/ FreeAllStep \/ FreeAllEnd
    \/ Exit

Spec == Init /\ [][Next]_vars

-----------------------------------------------------------------------------
(* Properties *)

(***************************************************************************)
(* Types: pointers are null or addresses, and no object carries the        *)
(* reserved index PDA_BUFFER_INDEX_UNDEFINED.                              *)
(***************************************************************************)
TypeOK ==
    /\ mem   \in [Nodes -> {"free", "kernel", "user"}]
    /\ next  \in [Nodes -> Nodes \cup {NULL}]
    /\ prev  \in [Nodes -> Nodes \cup {NULL}]
    /\ index \in [Nodes -> Ids]
    /\ head  \in Nodes \cup {NULL}
    /\ call  \in [op : AllListCalls \cup {"none"}, arg : IdArgs,
                  added : Nodes \cup {NULL}, cursor : Nodes \cup {NULL}]

(***************************************************************************)
(* The links of the objects are inverse to each other and lead to objects  *)
(* that exist, so no step of any call reaches a freed one through them.    *)
(***************************************************************************)
LinksInverse ==
    \A n \in Live :
        /\ next[n] # NULL => next[n] \in Live /\ prev[next[n]] = n
        /\ prev[n] # NULL => prev[n] \in Live /\ next[prev[n]] = n

InFreeLoop == call.op \in {"deviceDelete", "freeAll"}

(***************************************************************************)
(* "assigned to the device during its lifetime": outside the loop that     *)
(* frees the list, the device's pointer to its list is null or the address *)
(* of an object that exists.  PciDevice_freeAllBuffers does not keep this. *)
(***************************************************************************)
HeadIsLive == ~InFreeLoop /\ head # NULL => head \in Live

(***************************************************************************)
(* Every other call keeps it, at each of its steps: a delete whose munlock *)
(* failed, after the pointer has moved on, and whatever is called later    *)
(* included.                                                               *)
(***************************************************************************)
HeadStaysLive == [][call.op # "freeAll" => HeadIsLive']_vars

Rest(n) == IF n = NULL THEN {} ELSE Chain(n, next)

(***************************************************************************)
(* Between two calls every object of a kernel buffer is in the list, so    *)
(* that PciDevice_delete will find it, unmap it and close its files; only  *)
(* a registered buffer whose munlock failed can drop out of the list.      *)
(***************************************************************************)
NoObjectLost == ~InFreeLoop /\ ~HeadIsStale => \A n \in Live \ Rest(head) : mem[n] = "user"

(* The first object the device still has.  The loop of PciDevice_delete    *)
(* gives up the ones it has come by.                                       *)
First ==
    IF head \in Live /\ (call.op = "deviceDelete" => head \in Rest(call.cursor))
    THEN head ELSE call.cursor

(* The list as the sequence of objects that a loop from there comes by. *)
AsSequence ==
    LET nth[k \in 1 .. Cardinality(Rest(First))] ==
            IF k = 1 THEN First ELSE next[nth[k - 1]]
    IN  nth

(***************************************************************************)
(* The linked list implements a sequence in creation order.                *)
(***************************************************************************)
Abs == INSTANCE BufferSequence WITH Objects <- Nodes, list <- AsSequence
RefinesSequence == Abs!Spec

====
