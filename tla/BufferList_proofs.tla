-------------------------- MODULE BufferList_proofs --------------------------
(***************************************************************************)
(* Proofs about the linked list of DMABuffer objects (BufferList), for any *)
(* number of objects, any IDs and whether or not munlock can fail.         *)
(*                                                                         *)
(* Links that are inverse to each other may still form a ring: a node that *)
(* is its own successor would be freed by the loop and then be its next    *)
(* object.  The inductive invariant therefore adds that the list has no    *)
(* ring (NoRing), what the call in progress relies on (CallOK), and that   *)
(* every object of a kernel buffer lies ahead: of the device's pointer, or *)
(* of the cursor of the loop that frees the list (KernelAhead).            *)
(*                                                                         *)
(* For the refinement of BufferSequence it is shown that a walk from the   *)
(* first object on ends (Walkable): the list is the sequence it comes by.  *)
(***************************************************************************)
EXTENDS BufferList, Sequences, FiniteSetTheorems, NaturalsInduction, SequenceTheorems,
        WellFoundedInduction, TLAPS

Pointers == Nodes \cup {NULL}

Closed(S, link) == \A x \in S : link[x] \in S \cup {NULL}

RestBy(h, link) == IF h = NULL THEN {} ELSE Chain(h, link)

-----------------------------------------------------------------------------
(* The inductive invariant *)

HeapOK ==
    /\ mem   \in [Nodes -> {"free", "kernel", "user"}]
    /\ next  \in [Nodes -> Pointers]
    /\ prev  \in [Nodes -> Pointers]
    /\ index \in [Nodes -> Ids]

CallType == [op : AllListCalls \cup {"none"}, arg : IdArgs, added : Pointers, cursor : Pointers]

(* Following next from objects leaves every set of objects. *)
NoRing == \A S \in SUBSET Live : S # {} => \E x \in S : next[x] \notin S

FreeUnlinked == \A n \in Nodes \ Live : next[n] = NULL

CallOK ==
    /\ call.cursor # NULL => InFreeLoop /\ call.cursor \in Live
    /\ call.op \in {"register", "lookup"} => ~HeadIsStale

AllAhead(h) == \A n \in Live \ RestBy(h, next) : mem[n] = "user"

KernelAhead ==
    /\ InFreeLoop => AllAhead(call.cursor)
    /\ ~InFreeLoop /\ ~HeadIsStale => AllAhead(head)

LinksOK == HeapOK /\ LinksInverse /\ NoRing /\ FreeUnlinked

IInv ==
    /\ LinksOK
    /\ head \in Pointers
    /\ call \in CallType
    /\ CallOK
    /\ KernelAhead

-----------------------------------------------------------------------------
(* Lists of links *)

(* What a walk from h comes by lies in every closed set that h lies in. *)
LEMMA ChainInClosed ==
    ASSUME NEW h, NEW link, NEW S \in SUBSET Nodes, h \in S, Closed(S, link),
           NEW n \in Chain(h, link)
    PROVE  n \in S
BY DEF Chain, Closed

LEMMA InChain ==
    ASSUME NEW h, NEW link, NEW n \in Nodes,
           \A S \in SUBSET Nodes : h \in S /\ Closed(S, link) => n \in S
    PROVE  n \in Chain(h, link)
BY DEF Chain, Closed

(* Both links of an object lead to objects. *)
LEMMA LiveClosed ==
    ASSUME LinksInverse
    PROVE  Live \in SUBSET Nodes /\ Closed(Live, next) /\ Closed(Live, prev)
BY DEF LinksInverse, Live, Closed

LEMMA NoSelf ==
    ASSUME LinksInverse, NoRing, NULL \notin Nodes, NEW n \in Live
    PROVE  next[n] # n /\ prev[n] # n
<1>1. next[n] # n
  <2>1. {n} \in SUBSET Live /\ {n} # {}  OBVIOUS
  <2>2. PICK x \in {n} : next[x] \notin {n}  BY <2>1 DEF NoRing
  <2> QED  BY <2>2
<1>2. n # NULL  BY DEF Live
<1> QED  BY <1>1, <1>2 DEF LinksInverse

(***************************************************************************)
(* DMABuffer_getHead walks back as far as it can: going on from there the  *)
(* loop comes by everything that a walk from the device's pointer does.    *)
(***************************************************************************)
LEMMA HeadSeesAll ==
    ASSUME LinksInverse, NULL \notin Nodes, NEW h \in Live, NEW t \in Nodes, IsHead(h, t)
    PROVE  t \in Live /\ \A n \in Chain(h, next) : n \in Chain(t, next)
<1>1. t \in Live  BY LiveClosed, ChainInClosed DEF IsHead
<1>2. ASSUME NEW S \in SUBSET Nodes, t \in S, Closed(S, next)
      PROVE  h \in S
  <2> DEFINE C == Live \ S
  <2>1. ASSUME NEW x \in C, prev[x] # NULL  PROVE prev[x] \in C
    <3>1. prev[x] \in Live /\ next[prev[x]] = x  BY <2>1 DEF LinksInverse
    <3>2. x # NULL  BY DEF Live
    <3> QED  BY <3>1, <3>2, <1>2 DEF Closed
  <2>2. C \in SUBSET Nodes /\ Closed(C, prev)  BY <2>1 DEF Closed, Live
  <2>3. h \notin C  BY <2>2, <1>2, ChainInClosed DEF IsHead
  <2> QED  BY <2>3
<1>3. ASSUME NEW n \in Chain(h, next)  PROVE n \in Chain(t, next)
  <2>1. n \in Nodes  BY DEF Chain
  <2>2. \A S \in SUBSET Nodes : t \in S /\ Closed(S, next) => n \in S
        BY <1>2, ChainInClosed
  <2> QED  BY <2>1, <2>2, InChain
<1> QED  BY <1>1, <1>3

-----------------------------------------------------------------------------
(* DMABuffer_addNode *)

(***************************************************************************)
(* An object added to a list whose pointer is not stale becomes its last   *)
(* one: the list is still one, and a walk from the device's pointer comes  *)
(* by all it came by before and by the new object.                         *)
(***************************************************************************)
LEMMA AddKeeps ==
    ASSUME ListAssumption, LinksOK, head \in Pointers, ~HeadIsStale, AllAhead(head),
           NEW n \in Nodes \ Live, NEW kind \in {"kernel", "user"}, NEW i \in Ids,
           DMABuffer_new(n, kind, i)
    PROVE  LinksOK' /\ head' \in Live' /\ AllAhead(head)'
<1> USE DEF Pointers
<1>1. NULL \notin Nodes /\ n \in Nodes /\ n \notin Live  BY DEF ListAssumption
<1>2. mem' = [mem EXCEPT ![n] = kind] /\ index' = [index EXCEPT ![n] = i]
      BY DEF DMABuffer_new, DMABuffer_alloc
<1>3. Live' = Live \cup {n} /\ Live \subseteq Nodes
      BY <1>1, <1>2 DEF Live, LinksOK, HeapOK
<1>4. next[n] = NULL  BY <1>1 DEF LinksOK, FreeUnlinked
<1>5. \A x \in Live : next[x] # n /\ prev[x] # n
      BY <1>1 DEF LinksOK, LinksInverse
<1>6. CASE head = NULL
  <2>1. head' = n /\ next' = [next EXCEPT ![n] = NULL] /\ prev' = [prev EXCEPT ![n] = NULL]
        BY <1>6 DEF DMABuffer_new, DMABuffer_addNode
  <2>2. HeapOK'  BY <1>2, <2>1 DEF HeapOK, LinksOK
  <2>3. LinksInverse'
        BY <1>1, <1>3, <1>5, <2>1 DEF LinksInverse, LinksOK, HeapOK
  <2>4. NoRing'
    <3> SUFFICES ASSUME NEW S \in SUBSET Live', S # {}
                 PROVE  \E x \in S : next'[x] \notin S
        BY DEF NoRing
    <3>1. CASE n \in S  BY <3>1, <1>1, <1>3, <2>1 DEF LinksOK, HeapOK
    <3>2. CASE n \notin S
      <4>1. S \in SUBSET Live  BY <3>2, <1>3
      <4>2. PICK x \in S : next[x] \notin S  BY <4>1 DEF LinksOK, NoRing
      <4> QED  BY <4>1, <4>2, <3>2, <2>1, <1>3 DEF LinksOK, HeapOK
    <3> QED  BY <3>1, <3>2
  <2>5. FreeUnlinked'  BY <1>3, <2>1 DEF FreeUnlinked, LinksOK, HeapOK
  <2>6. AllAhead(head)'
    <3>1. \A m \in Live : mem[m] = "user"  BY <1>6 DEF AllAhead, RestBy
    <3>2. n \in Chain(n, next')  BY <1>1, InChain
    <3>3. n \in RestBy(head', next')  BY <3>2, <2>1, <1>1 DEF RestBy
    <3>4. ASSUME NEW m \in Live' \ RestBy(head', next')  PROVE mem'[m] = "user"
      <4>1. m \in Live /\ m # n /\ m \in Nodes  BY <3>3, <1>3
      <4> QED  BY <4>1, <3>1, <1>2 DEF LinksOK, HeapOK
    <3> QED  BY <3>4 DEF AllAhead
  <2> QED  BY <2>1, <2>2, <2>3, <2>4, <2>5, <2>6, <1>3 DEF LinksOK
<1>7. CASE head # NULL
  <2>1. head' = head /\ head \in Live  BY <1>7 DEF DMABuffer_new, DMABuffer_addNode, HeadIsStale
  <2>2. PICK t \in Nodes : /\ IsTail(head, t)
                           /\ next' = [next EXCEPT ![n] = NULL, ![t] = n]
                           /\ prev' = [prev EXCEPT ![n] = t]
        BY <1>7 DEF DMABuffer_new, DMABuffer_addNode
  <2>3. t \in Live /\ next[t] = NULL /\ t # n
        BY <2>1, <2>2, <1>1, LiveClosed, ChainInClosed DEF IsTail, LinksOK
  <2>4. HeapOK'  BY <1>2, <2>2 DEF HeapOK, LinksOK
  <2>5. \A x \in Nodes : /\ next'[x] = IF x = t THEN n ELSE IF x = n THEN NULL ELSE next[x]
                         /\ prev'[x] = IF x = n THEN t ELSE prev[x]
        BY <2>2 DEF HeapOK, LinksOK
  <2>6. LinksInverse'
    <3> SUFFICES ASSUME NEW x \in Live'
                 PROVE  /\ next'[x] # NULL => next'[x] \in Live' /\ prev'[next'[x]] = x
                        /\ prev'[x] # NULL => prev'[x] \in Live' /\ next'[prev'[x]] = x
        BY DEF LinksInverse
    <3>1. CASE x = n  BY <3>1, <2>3, <2>5, <1>1, <1>3
    <3>2. CASE x # n
      <4>1. x \in Live /\ x \in Nodes  BY <3>2, <1>3
      <4>2. /\ next[x] # NULL => next[x] \in Live /\ prev[next[x]] = x
            /\ prev[x] # NULL => prev[x] \in Live /\ next[prev[x]] = x
            BY <4>1 DEF LinksOK, LinksInverse
      <4>3. next'[x] # NULL => next'[x] \in Live' /\ prev'[next'[x]] = x
            BY <4>1, <4>2, <3>2, <2>3, <2>5, <1>1, <1>3
      <4>4. prev'[x] # NULL => prev'[x] \in Live' /\ next'[prev'[x]] = x
        <5>1. prev'[x] = prev[x]  BY <4>1, <3>2, <2>5
        <5>2. CASE prev[x] # NULL
          <6>1. prev[x] # t  BY <5>2, <4>1, <4>2, <2>3, <1>1
          <6> QED  BY <6>1, <5>1, <4>2, <2>5, <1>1, <1>3
        <5> QED  BY <5>1, <5>2
      <4> QED  BY <4>3, <4>4
    <3> QED  BY <3>1, <3>2
  <2>7. NoRing'
    <3> SUFFICES ASSUME NEW S \in SUBSET Live', S # {}
                 PROVE  \E x \in S : next'[x] \notin S
        BY DEF NoRing
    <3>1. CASE n \in S  BY <3>1, <1>1, <1>3, <2>5, <2>3
    <3>2. CASE n \notin S
      <4>1. S \in SUBSET Live  BY <3>2, <1>3
      <4>2. PICK x \in S : next[x] \notin S  BY <4>1 DEF LinksOK, NoRing
      <4> QED  BY <4>1, <4>2, <3>2, <2>5, <1>3
    <3> QED  BY <3>1, <3>2
  <2>8. FreeUnlinked'  BY <1>3, <2>5, <2>3 DEF FreeUnlinked, LinksOK
  <2>9. AllAhead(head)'
    <3>1. ASSUME NEW S \in SUBSET Nodes, head \in S, Closed(S, next')
          PROVE  n \in S /\ Closed(S, next)
      <4>1. \A x \in S : next[x] \in S \cup {NULL}
            BY <3>1, <2>5, <2>3, <1>4 DEF Closed
      <4>2. t \in S  BY <4>1, <3>1, <2>2, ChainInClosed DEF IsTail, Closed
      <4>3. next'[t] = n  BY <2>5
      <4> QED  BY <4>1, <4>2, <4>3, <3>1, <1>1 DEF Closed
    <3>2. n \in Chain(head, next')  BY <3>1, <1>1, InChain
    <3>3. ASSUME NEW m \in Chain(head, next)  PROVE m \in Chain(head, next')
      <4>1. m \in Nodes  BY DEF Chain
      <4>2. \A S \in SUBSET Nodes : head \in S /\ Closed(S, next') => m \in S
            BY <3>1, ChainInClosed
      <4> QED  BY <4>1, <4>2, InChain
    <3>4. ASSUME NEW m \in Live' \ RestBy(head', next')  PROVE mem'[m] = "user"
      <4>1. m \notin Chain(head, next')  BY <2>1, <1>7, <3>4 DEF RestBy
      <4>2. m # n /\ m \in Live /\ m \in Nodes  BY <4>1, <3>2, <1>3
      <4>3. m \in Live \ RestBy(head, next)  BY <4>1, <4>2, <3>3, <1>7 DEF RestBy
      <4> QED  BY <4>2, <4>3, <1>2 DEF LinksOK, HeapOK, AllAhead
    <3> QED  BY <3>4 DEF AllAhead
  <2> QED  BY <2>1, <2>4, <2>6, <2>7, <2>8, <2>9, <1>3 DEF LinksOK
<1> QED  BY <1>6, <1>7

-----------------------------------------------------------------------------
(* DMABuffer_free *)

(* What DMABuffer_removeNode does to the links of every address. *)
LEMMA RemoveEffect ==
    ASSUME ListAssumption, LinksOK, NEW n \in Live, DMABuffer_removeNode(n)
    PROVE  /\ next' \in [Nodes -> Pointers] /\ prev' \in [Nodes -> Pointers]
           /\ \A x \in Nodes :
                /\ next'[x] = IF x = n THEN NULL ELSE IF x = prev[n] THEN next[n] ELSE next[x]
                /\ prev'[x] = IF x = n THEN NULL ELSE IF x = next[n] THEN prev[n] ELSE prev[x]
<1> USE DEF Pointers
<1>1. NULL \notin Nodes /\ n \in Nodes  BY DEF ListAssumption, Live
<1>2. next[n] \in Pointers /\ prev[n] \in Pointers
      BY <1>1 DEF LinksOK, HeapOK
<1>3. CASE prev[n] = NULL
  <2>1. next' = [next EXCEPT ![n] = NULL]  BY <1>3 DEF DMABuffer_removeNode, Unlink
  <2>2. CASE next[n] = NULL
    <3>1. prev' = [prev EXCEPT ![n] = NULL]  BY <2>2 DEF DMABuffer_removeNode, Unlink
    <3> QED  BY <3>1, <2>1, <2>2, <1>1, <1>3 DEF LinksOK, HeapOK
  <2>3. CASE next[n] # NULL
    <3>1. prev' = [[prev EXCEPT ![next[n]] = prev[n]] EXCEPT ![n] = NULL]
          BY <2>3 DEF DMABuffer_removeNode, Unlink
    <3> QED  BY <3>1, <2>1, <2>3, <1>1, <1>2, <1>3 DEF LinksOK, HeapOK
  <2> QED  BY <2>2, <2>3
<1>4. CASE prev[n] # NULL
  <2>1. next' = [[next EXCEPT ![prev[n]] = next[n]] EXCEPT ![n] = NULL]
        BY <1>4 DEF DMABuffer_removeNode, Unlink
  <2>2. CASE next[n] = NULL
    <3>1. prev' = [prev EXCEPT ![n] = NULL]  BY <2>2 DEF DMABuffer_removeNode, Unlink
    <3> QED  BY <3>1, <2>1, <2>2, <1>1, <1>2, <1>4 DEF LinksOK, HeapOK
  <2>3. CASE next[n] # NULL
    <3>1. prev' = [[prev EXCEPT ![next[n]] = prev[n]] EXCEPT ![n] = NULL]
          BY <2>3 DEF DMABuffer_removeNode, Unlink
    <3> QED  BY <3>1, <2>1, <2>3, <1>1, <1>2, <1>4 DEF LinksOK, HeapOK
  <2> QED  BY <2>2, <2>3
<1> QED  BY <1>3, <1>4

(***************************************************************************)
(* A walk that came by other objects than n still comes by them once n is  *)
(* unlinked: from where it started, or from the successor of n if that was *)
(* n itself.                                                               *)
(***************************************************************************)
LEMMA WalkSkips ==
    ASSUME ListAssumption, LinksOK, NEW n \in Live, DMABuffer_removeNode(n),
           NEW h \in Live, NEW m \in Chain(h, next), m # n
    PROVE  m \in RestBy(IF h = n THEN next[n] ELSE h, next')
<1>1. NULL \notin Nodes /\ n \in Nodes /\ h \in Nodes /\ h # NULL
      BY DEF ListAssumption, Live
<1>2. \A x \in Nodes : next'[x] = IF x = n THEN NULL ELSE IF x = prev[n] THEN next[n] ELSE next[x]
      BY RemoveEffect
<1>3. m \in Nodes  BY DEF Chain
<1>4. \A x \in Live : next[x] = n => x = prev[n]
      BY <1>1 DEF LinksOK, LinksInverse
<1>5. \A x \in Nodes : next[x] = n => x = prev[n]
      BY <1>1, <1>4 DEF LinksOK, FreeUnlinked
<1>6. CASE h = n
  <2>1. CASE next[n] = NULL
    <3>1. {n} \in SUBSET Nodes /\ Closed({n}, next)  BY <2>1, <1>1 DEF Closed
    <3> QED  BY <3>1, <1>6, ChainInClosed
  <2>2. CASE next[n] # NULL
    <3>1. ASSUME NEW S \in SUBSET Nodes, next[n] \in S, Closed(S, next')
          PROVE  m \in S
      <4>1. S \cup {n} \in SUBSET Nodes  BY <1>1
      <4>2. Closed(S \cup {n}, next)
        <5> SUFFICES ASSUME NEW x \in S \cup {n}  PROVE next[x] \in S \cup {n} \cup {NULL}
            BY DEF Closed
        <5>1. CASE x = n  BY <5>1, <3>1
        <5>2. CASE x # n /\ next[x] = n  BY <5>2
        <5>3. CASE x # n /\ next[x] # n
          <6>1. x \in S /\ x \in Nodes  BY <5>3
          <6>2. next'[x] \in S \cup {NULL}  BY <6>1, <3>1 DEF Closed
          <6>3. x # prev[n] \/ next[x] = NULL
            <7>1. prev[n] # NULL => next[prev[n]] = n  BY DEF LinksOK, LinksInverse
            <7> QED  BY <7>1, <5>3, <6>1, <1>1
          <6> QED  BY <6>1, <6>2, <6>3, <5>3, <1>2
        <5> QED  BY <5>1, <5>2, <5>3
      <4>3. m \in S \cup {n}  BY <4>1, <4>2, <1>6, ChainInClosed
      <4> QED  BY <4>3
    <3>2. m \in Chain(next[n], next')  BY <3>1, <1>3, InChain
    <3> QED  BY <3>2, <2>2, <1>6 DEF RestBy
  <2> QED  BY <2>1, <2>2
<1>7. CASE h # n
  <2>1. ASSUME NEW S \in SUBSET Nodes, h \in S, Closed(S, next')
        PROVE  m \in S
    <3>1. CASE prev[n] \in S
      <4>1. prev[n] # n  BY <1>1, NoSelf DEF LinksOK
      <4>2. next'[prev[n]] = next[n]  BY <4>1, <3>1, <1>2
      <4>3. next[n] \in S \cup {NULL}  BY <4>2, <3>1, <2>1 DEF Closed
      <4>4. Closed(S \cup {n}, next)
        <5> SUFFICES ASSUME NEW x \in S \cup {n}  PROVE next[x] \in S \cup {n} \cup {NULL}
            BY DEF Closed
        <5>1. CASE x = n  BY <5>1, <4>3
        <5>2. CASE x = prev[n]
              BY <5>2, <3>1, <1>1 DEF LinksOK, LinksInverse
        <5>3. CASE x # n /\ x # prev[n]
          <6>1. x \in S /\ x \in Nodes  BY <5>3
          <6>2. next'[x] = next[x]  BY <6>1, <5>3, <1>2
          <6> QED  BY <6>1, <6>2, <2>1 DEF Closed
        <5> QED  BY <5>1, <5>2, <5>3
      <4>5. S \cup {n} \in SUBSET Nodes  BY <1>1
      <4>6. m \in S \cup {n}  BY <4>4, <4>5, <2>1, ChainInClosed
      <4> QED  BY <4>6
    <3>2. CASE prev[n] \notin S
      <4> DEFINE T == S \ {n}
      <4>1. T \in SUBSET Nodes /\ h \in T  BY <1>7, <2>1
      <4>2. ASSUME NEW x \in T  PROVE next[x] \in T \cup {NULL}
        <5>1. x \in S /\ x \in Nodes /\ x # n /\ x # prev[n]  BY <3>2
        <5>2. next'[x] = next[x]  BY <5>1, <1>2
        <5>3. next[x] # n  BY <5>1, <1>5
        <5> QED  BY <5>1, <5>2, <5>3, <2>1 DEF Closed
      <4>3. Closed(T, next)  BY <4>2 DEF Closed
      <4>4. m \in T  BY <4>1, <4>3, ChainInClosed
      <4> QED  BY <4>4
    <3> QED  BY <3>1, <3>2
  <2>2. m \in Chain(h, next')  BY <2>1, <1>3, InChain
  <2> QED  BY <2>2, <1>1, <1>7 DEF RestBy
<1> QED  BY <1>6, <1>7

(* One step along the list passes over one object. *)
LEMMA WalkSteps ==
    ASSUME ListAssumption, LinksOK, NEW n \in Live, NEW m \in Chain(n, next), m # n
    PROVE  m \in RestBy(next[n], next)
<1>1. NULL \notin Nodes /\ n \in Nodes /\ m \in Nodes  BY DEF ListAssumption, Live, Chain
<1>2. CASE next[n] = NULL
  <2>1. {n} \in SUBSET Nodes /\ Closed({n}, next)  BY <1>2, <1>1 DEF Closed
  <2> QED  BY <2>1, ChainInClosed
<1>3. CASE next[n] # NULL
  <2>1. ASSUME NEW S \in SUBSET Nodes, next[n] \in S, Closed(S, next)
        PROVE  m \in S
    <3>1. S \cup {n} \in SUBSET Nodes /\ Closed(S \cup {n}, next)
          BY <2>1, <1>1 DEF Closed
    <3> QED  BY <3>1, ChainInClosed
  <2>2. m \in Chain(next[n], next)  BY <2>1, <1>1, InChain
  <2> QED  BY <2>2, <1>3 DEF RestBy
<1> QED  BY <1>2, <1>3

(* The links of the objects that remain are inverse again, and no ring. *)
LEMMA RemoveKeeps ==
    ASSUME ListAssumption, LinksOK, NEW n \in Live, DMABuffer_removeNode(n),
           mem' = [mem EXCEPT ![n] = "free"], index' = [index EXCEPT ![n] = 0]
    PROVE  LinksOK' /\ Live' = Live \ {n}
<1>1. NULL \notin Nodes /\ n \in Nodes /\ MaxId \in Nat  BY DEF ListAssumption, Live
<1>2. \A x \in Nodes :
        /\ next'[x] = IF x = n THEN NULL ELSE IF x = prev[n] THEN next[n] ELSE next[x]
        /\ prev'[x] = IF x = n THEN NULL ELSE IF x = next[n] THEN prev[n] ELSE prev[x]
      BY RemoveEffect
<1>3. Live' = Live \ {n} /\ Live \subseteq Nodes  BY <1>1 DEF Live, LinksOK, HeapOK
<1>4. 0 \in Ids  BY <1>1 DEF Ids
<1>5. HeapOK'  BY <1>1, <1>4, RemoveEffect DEF HeapOK, LinksOK
<1>6. next[n] # n /\ prev[n] # n  BY <1>1, NoSelf DEF LinksOK
<1>7. \A x \in Live :
        /\ next[x] # NULL => next[x] \in Live /\ prev[next[x]] = x
        /\ prev[x] # NULL => prev[x] \in Live /\ next[prev[x]] = x
      BY DEF LinksOK, LinksInverse
<1>8. LinksInverse'
  <2> SUFFICES ASSUME NEW x \in Live'
               PROVE  /\ next'[x] # NULL => next'[x] \in Live' /\ prev'[next'[x]] = x
                      /\ prev'[x] # NULL => prev'[x] \in Live' /\ next'[prev'[x]] = x
      BY DEF LinksInverse
  <2>1. x \in Live /\ x # n /\ x \in Nodes  BY <1>3
  <2>2. next'[x] # NULL => next'[x] \in Live' /\ prev'[next'[x]] = x
    <3>1. CASE x = prev[n]
      <4>1. next'[x] = next[n]  BY <3>1, <2>1, <1>2
      <4>2. next[n] # NULL => next[n] \in Live /\ next[n] \in Nodes  BY <1>7, <1>3
      <4>3. next[n] # NULL => prev'[next[n]] = prev[n]  BY <4>2, <1>2, <1>6
      <4> QED  BY <4>1, <4>2, <4>3, <3>1, <1>3, <1>6
    <3>2. CASE x # prev[n]
      <4>1. next'[x] = next[x]  BY <3>2, <2>1, <1>2
      <4>2. next[x] # NULL => next[x] \in Live /\ next[x] # n /\ next[x] # next[n]
            BY <3>2, <2>1, <1>7
      <4>3. next[x] # NULL => next[x] \in Nodes /\ prev'[next[x]] = prev[next[x]]
            BY <4>2, <1>2, <1>3
      <4> QED  BY <4>1, <4>2, <4>3, <2>1, <1>3, <1>7
    <3> QED  BY <3>1, <3>2
  <2>3. prev'[x] # NULL => prev'[x] \in Live' /\ next'[prev'[x]] = x
    <3>1. CASE x = next[n]
      <4>1. prev'[x] = prev[n]  BY <3>1, <2>1, <1>2
      <4>2. prev[n] # NULL => prev[n] \in Live /\ prev[n] \in Nodes  BY <1>7, <1>3
      <4>3. prev[n] # NULL => next'[prev[n]] = next[n]  BY <4>2, <1>2, <1>6
      <4> QED  BY <4>1, <4>2, <4>3, <3>1, <1>3, <1>6
    <3>2. CASE x # next[n]
      <4>1. prev'[x] = prev[x]  BY <3>2, <2>1, <1>2
      <4>2. prev[x] # NULL => prev[x] \in Live /\ prev[x] # n /\ prev[x] # prev[n]
            BY <3>2, <2>1, <1>7
      <4>3. prev[x] # NULL => prev[x] \in Nodes /\ next'[prev[x]] = next[prev[x]]
            BY <4>2, <1>2, <1>3
      <4> QED  BY <4>1, <4>2, <4>3, <2>1, <1>3, <1>7
    <3> QED  BY <3>1, <3>2
  <2> QED  BY <2>2, <2>3
<1>9. NoRing'
  <2> SUFFICES ASSUME NEW S \in SUBSET Live', S # {}
               PROVE  \E x \in S : next'[x] \notin S
      BY DEF NoRing
  <2>1. S \in SUBSET Live /\ n \notin S /\ \A x \in S : x \in Nodes  BY <1>3
  <2>2. CASE prev[n] \in S /\ next[n] \in S
    <3>1. S \cup {n} \in SUBSET Live /\ S \cup {n} # {}  BY <2>1
    <3>2. PICK x \in S \cup {n} : next[x] \notin S \cup {n}
          BY <3>1 DEF LinksOK, NoRing
    <3>3. next[prev[n]] = n  BY <2>1, <2>2, <1>1, <1>3, <1>7
    <3>4. x \in S /\ x # prev[n] /\ x # n  BY <3>2, <3>3, <2>1, <2>2
    <3>5. next'[x] = next[x]  BY <3>4, <2>1, <1>2
    <3> QED  BY <3>2, <3>4, <3>5
  <2>3. CASE prev[n] \in S /\ next[n] \notin S
        BY <2>1, <2>3, <1>2
  <2>4. CASE prev[n] \notin S
    <3>1. PICK x \in S : next[x] \notin S  BY <2>1 DEF LinksOK, NoRing
    <3> QED  BY <3>1, <2>1, <2>4, <1>2
  <2> QED  BY <2>2, <2>3, <2>4
<1>10. FreeUnlinked'
  <2> SUFFICES ASSUME NEW x \in Nodes \ Live'  PROVE next'[x] = NULL
      BY DEF FreeUnlinked
  <2>1. CASE x = n  BY <2>1, <1>2
  <2>2. CASE x # n
    <3>1. x \in Nodes /\ x \notin Live  BY <2>2, <1>3
    <3>2. x # prev[n]  BY <3>1, <1>1, <1>7
    <3> QED  BY <3>1, <3>2, <2>2, <1>2 DEF LinksOK, FreeUnlinked
  <2> QED  BY <2>1, <2>2
<1> QED  BY <1>3, <1>5, <1>8, <1>9, <1>10 DEF LinksOK

(***************************************************************************)
(* DMABuffer_free of the object n, done or refused by munlock.  If every   *)
(* object of a kernel buffer lay ahead of h, it still does; a pointer that *)
(* pointed to n must have moved on to its successor.                       *)
(***************************************************************************)
LEMMA FreeKeeps ==
    ASSUME ListAssumption, LinksOK, NEW n \in Live, DMABuffer_free(n)
    PROVE  /\ LinksOK'
           /\ Live \ {n} \subseteq Live'
           /\ next[n] \in (Live \ {n}) \cup {NULL}
           /\ \A h \in Live \cup {NULL} : AllAhead(h) =>
                 \A m \in Live' \ RestBy(IF h = n THEN next[n] ELSE h, next') : mem'[m] = "user"
<1>1. NULL \notin Nodes /\ n \in Nodes /\ n # NULL  BY DEF ListAssumption, Live
<1>2. next[n] \in (Live \ {n}) \cup {NULL}
      BY <1>1, NoSelf DEF LinksOK, LinksInverse
<1>3. CASE /\ DMABuffer_removeNode(n)
           /\ mem' = [mem EXCEPT ![n] = "free"]
           /\ index' = [index EXCEPT ![n] = 0]
  <2>1. LinksOK' /\ Live' = Live \ {n}  BY <1>3, RemoveKeeps
  <2>2. \A m \in Live' : mem'[m] = mem[m]  BY <1>3, <2>1 DEF LinksOK, HeapOK, Live
  <2>3. ASSUME NEW h \in Live \cup {NULL}, AllAhead(h),
               NEW m \in Live' \ RestBy(IF h = n THEN next[n] ELSE h, next')
        PROVE  mem'[m] = "user"
    <3>1. CASE h = NULL  BY <3>1, <2>1, <2>2, <2>3, <1>1 DEF AllAhead, RestBy
    <3>2. CASE h # NULL
      <4>1. m \notin Chain(h, next)  BY <3>2, <2>1, <1>3, WalkSkips
      <4> QED  BY <4>1, <3>2, <2>1, <2>2, <2>3 DEF AllAhead, RestBy
    <3> QED  BY <3>1, <3>2
  <2> QED  BY <2>1, <2>3, <1>2
<1>4. CASE mem[n] = "user" /\ UNCHANGED <<mem, next, prev, index>>
  <2>1. LinksOK' /\ Live' = Live
        BY <1>4 DEF LinksOK, HeapOK, LinksInverse, NoRing, FreeUnlinked, Live
  <2>2. ASSUME NEW h \in Live \cup {NULL}, AllAhead(h),
               NEW m \in Live' \ RestBy(IF h = n THEN next[n] ELSE h, next')
        PROVE  mem'[m] = "user"
    <3>1. CASE m = n  BY <3>1, <1>4
    <3>2. CASE m # n /\ h = n
      <4>1. m \notin Chain(n, next)  BY <3>2, <2>1, <1>4, WalkSteps
      <4> QED  BY <4>1, <3>2, <2>1, <2>2, <1>1, <1>4 DEF AllAhead, RestBy
    <3>3. CASE h # n  BY <3>3, <2>1, <2>2, <1>4 DEF AllAhead
    <3> QED  BY <3>1, <3>2, <3>3
  <2> QED  BY <2>1, <2>2, <1>2
<1> QED  BY <1>3, <1>4 DEF DMABuffer_free

-----------------------------------------------------------------------------
(* The invariant is inductive *)

LEMMA InitHolds == ASSUME ListAssumption, Init PROVE IInv
<1>1. Live = {}  BY DEF Init, Live
<1>2. 0 \in Ids /\ 0 \in IdArgs  BY DEF ListAssumption, Ids, IdArgs
<1>3. LinksOK
      BY <1>1, <1>2 DEF Init, LinksOK, HeapOK, LinksInverse, NoRing, FreeUnlinked, Pointers
<1>4. call \in CallType /\ call.op = "none" /\ call.cursor = NULL
      BY <1>2 DEF Init, NoCall, CallOf, CallType, Pointers
<1>5. CallOK  BY <1>4 DEF CallOK
<1>6. KernelAhead  BY <1>1 DEF KernelAhead, AllAhead
<1> QED  BY <1>3, <1>4, <1>5, <1>6 DEF Init, IInv, Pointers

(* A call that leaves the heap and the device's pointer alone. *)
LEMMA ListUnchanged ==
    ASSUME IInv, UNCHANGED listVars, call' \in CallType, CallOK', KernelAhead'
    PROVE  IInv'
BY DEF IInv, listVars, LinksOK, HeapOK, LinksInverse, NoRing, FreeUnlinked, Live

(* A new call without a loop, once it has been checked that the pointer is good. *)
LEMMA CallBegins ==
    ASSUME IInv, UNCHANGED listVars, ~InFreeLoop, ~HeadIsStale, call' \in CallType,
           call'.op \in {"none", "register", "lookup"}, call'.cursor = NULL
    PROVE  IInv'
<1>1. ~HeadIsStale' /\ ~InFreeLoop'  BY DEF listVars, HeadIsStale, Live, InFreeLoop
<1>2. CallOK'  BY <1>1 DEF CallOK
<1>3. AllAhead(head)'  BY DEF IInv, KernelAhead, AllAhead, listVars, Live
<1>4. KernelAhead'  BY <1>1, <1>3 DEF KernelAhead
<1> QED  BY <1>2, <1>4, ListUnchanged

LEMMA CallAdds ==
    ASSUME ListAssumption, IInv, ~InFreeLoop, ~HeadIsStale, call' \in CallType,
           call'.op \in {"none", "register", "lookup"}, call'.cursor = NULL,
           NEW n \in Nodes \ Live, NEW kind \in {"kernel", "user"}, NEW i \in Ids,
           DMABuffer_new(n, kind, i)
    PROVE  IInv' /\ head' \in Live'
<1>1. LinksOK' /\ head' \in Live' /\ AllAhead(head)'
      BY AddKeeps DEF IInv, KernelAhead
<1>2. ~HeadIsStale' /\ ~InFreeLoop'  BY <1>1 DEF HeadIsStale, InFreeLoop
<1>3. CallOK'  BY <1>2 DEF CallOK
<1>4. KernelAhead'  BY <1>1, <1>2 DEF KernelAhead
<1>5. head' \in Pointers  BY <1>1 DEF Live, Pointers
<1> QED  BY <1>1, <1>3, <1>4, <1>5 DEF IInv

(* A call that is not a loop has no cursor. *)
LEMMA NoCursor ==
    ASSUME IInv, ~InFreeLoop
    PROVE  call.cursor = NULL /\ call.op \notin {"deviceDelete", "freeAll"}
BY DEF IInv, CallOK, InFreeLoop

LEMMA IdleCall == ASSUME IInv, call.op = "none" PROVE ~InFreeLoop /\ call \in CallType
BY DEF InFreeLoop, IInv

LEMMA CallTypes ==
    ASSUME ListAssumption
    PROVE  /\ NoCall \in CallType /\ NoCall.op = "none" /\ NoCall.cursor = NULL
           /\ \A o \in AllListCalls, a \in IdArgs, n \in Pointers, c \in Pointers :
                 /\ CallOf(o, a, n, c) \in CallType
                 /\ CallOf(o, a, n, c).op = o
                 /\ CallOf(o, a, n, c).cursor = c
           /\ 0 \in IdArgs /\ NULL \in Pointers /\ Nodes \subseteq Pointers
<1>1. 0 \in IdArgs  BY DEF ListAssumption, Ids, IdArgs
<1> QED  BY <1>1 DEF CallType, CallOf, NoCall, Pointers

LEMMA AllocKept == ASSUME ListAssumption, IInv, PciDevice_allocDMABuffer
                   PROVE  IInv' /\ head' \in Live'
<1>1. call.op = "none" /\ ~HeadIsStale /\ call' = call  BY DEF PciDevice_allocDMABuffer
<1>2. ~InFreeLoop /\ call' \in CallType /\ call'.cursor = NULL
      BY <1>1, IdleCall, NoCursor
<1>3. PICK n \in Nodes \ Live, i \in Ids : DMABuffer_new(n, "kernel", i)
      BY DEF PciDevice_allocDMABuffer
<1> QED  BY <1>1, <1>2, <1>3, CallAdds

LEMMA RegisterKept == ASSUME ListAssumption, IInv, PciDevice_registerDMABuffer
                      PROVE  IInv' /\ (head' = NULL \/ head' \in Live')
<1>1. call.op = "none" /\ ~HeadIsStale  BY DEF PciDevice_registerDMABuffer
<1>2. ~InFreeLoop  BY <1>1, IdleCall
<1>3. "register" \in AllListCalls  BY DEF AllListCalls
<1>4. ASSUME NEW a \in IdArgs, NEW n \in Nodes \ Live, NEW i \in Ids,
             DMABuffer_new(n, "user", i), call' = CallOf("register", a, n, NULL)
      PROVE  IInv' /\ head' \in Live'
  <2>1. call' \in CallType /\ call'.op = "register" /\ call'.cursor = NULL
        BY <1>3, <1>4, CallTypes
  <2> QED  BY <2>1, <1>1, <1>2, <1>4, CallAdds
<1>5. ASSUME NEW a \in IdArgs, call' = CallOf("register", a, NULL, NULL), UNCHANGED listVars
      PROVE  IInv' /\ (head' = NULL \/ head' \in Live')
  <2>1. call' \in CallType /\ call'.op = "register" /\ call'.cursor = NULL
        BY <1>3, <1>5, CallTypes
  <2>2. IInv'  BY <2>1, <1>1, <1>2, <1>5, CallBegins
  <2> QED  BY <2>2, <1>1, <1>5 DEF HeadIsStale, listVars, Live
<1> QED  BY <1>4, <1>5 DEF PciDevice_registerDMABuffer

LEMMA GetKept == ASSUME ListAssumption, IInv, PciDevice_getDMABuffer
                 PROVE  IInv' /\ (head' = NULL \/ head' \in Live')
<1>1. call.op = "none" /\ ~HeadIsStale /\ UNCHANGED listVars  BY DEF PciDevice_getDMABuffer
<1>2. PICK a \in IdArgs : call' = CallOf("lookup", a, NULL, NULL)
      BY DEF PciDevice_getDMABuffer
<1>3. "lookup" \in AllListCalls  BY DEF AllListCalls
<1>4. call' \in CallType /\ call'.op = "lookup" /\ call'.cursor = NULL
      BY <1>2, <1>3, CallTypes
<1>5. IInv'  BY <1>1, <1>4, IdleCall, CallBegins
<1> QED  BY <1>1, <1>5 DEF HeadIsStale, listVars, Live

LEMMA LookupKept == ASSUME ListAssumption, IInv, Lookup
                    PROVE  IInv' /\ (head' = NULL \/ head' \in Live')
<1>1. call.op \in {"register", "lookup"}  BY DEF Lookup
<1>2. ~InFreeLoop /\ ~HeadIsStale  BY <1>1 DEF InFreeLoop, IInv, CallOK
<1>3. CASE Return /\ UNCHANGED listVars
  <2>1. call' \in CallType /\ call'.op = "none" /\ call'.cursor = NULL
        BY <1>3, CallTypes DEF Return
  <2>2. IInv'  BY <2>1, <1>2, <1>3, CallBegins
  <2> QED  BY <2>2, <1>2, <1>3 DEF HeadIsStale, listVars, Live
<1>4. ASSUME UNCHANGED call, NEW i \in Ids, NEW n \in Nodes \ Live, DMABuffer_new(n, "kernel", i)
      PROVE  IInv' /\ head' \in Live'
  <2>1. call' \in CallType /\ call'.op \in {"register", "lookup"} /\ call'.cursor = NULL
        BY <1>1, <1>2, <1>4, NoCursor DEF IInv
  <2> QED  BY <2>1, <1>2, <1>4, CallAdds
<1> QED  BY <1>3, <1>4 DEF Lookup

LEMMA DeleteKept == ASSUME ListAssumption, IInv, PciDevice_deleteDMABuffer
                    PROVE  IInv' /\ (head' = NULL \/ head' \in Live')
<1>1. call.op = "none" /\ ~HeadIsStale /\ call' = call  BY DEF PciDevice_deleteDMABuffer
<1>2. ~InFreeLoop /\ call' \in CallType /\ call'.cursor = NULL /\ call'.op = "none"
      BY <1>1, IdleCall, NoCursor
<1>3. PICK n \in Live : head' = (IF n = head THEN next[n] ELSE head) /\ DMABuffer_free(n)
      BY DEF PciDevice_deleteDMABuffer
<1>4. head \in Live \cup {NULL} /\ AllAhead(head)
      BY <1>1, <1>2 DEF HeadIsStale, IInv, KernelAhead
<1>5. /\ LinksOK'
      /\ Live \ {n} \subseteq Live'
      /\ next[n] \in (Live \ {n}) \cup {NULL}
      /\ \A m \in Live' \ RestBy(IF head = n THEN next[n] ELSE head, next') : mem'[m] = "user"
      BY <1>3, <1>4, FreeKeeps DEF IInv
<1>6. head' = NULL \/ head' \in Live'  BY <1>3, <1>4, <1>5
<1>7. AllAhead(head)'  BY <1>3, <1>5 DEF AllAhead
<1>8. KernelAhead'  BY <1>2, <1>7 DEF KernelAhead, InFreeLoop
<1>9. CallOK'  BY <1>2 DEF CallOK
<1>10. head' \in Pointers  BY <1>6 DEF Pointers, Live
<1> QED  BY <1>2, <1>5, <1>6, <1>8, <1>9, <1>10 DEF IInv

(* The loop starts in front of everything the device's pointer leads to. *)
LEMMA StartKept == ASSUME ListAssumption, IInv, NEW o \in {"deviceDelete", "freeAll"}, StartFreeAll(o)
                   PROVE  IInv' /\ InFreeLoop'
<1>1. call.op = "none" /\ ~HeadIsStale /\ UNCHANGED listVars  BY DEF StartFreeAll
<1>2. ~InFreeLoop  BY <1>1, IdleCall
<1>3. AllAhead(head)  BY <1>1, <1>2 DEF IInv, KernelAhead
<1>4. o \in AllListCalls /\ NULL \notin Nodes  BY DEF AllListCalls, ListAssumption
<1>5. Live' = Live /\ next' = next /\ mem' = mem  BY <1>1 DEF listVars, Live
<1>6. CASE head = NULL /\ call' = CallOf(o, 0, NULL, NULL)
  <2>1. call' \in CallType /\ call'.op = o /\ call'.cursor = NULL  BY <1>4, <1>6, CallTypes
  <2>2. InFreeLoop' /\ CallOK'  BY <2>1 DEF InFreeLoop, CallOK
  <2>3. KernelAhead'  BY <2>1, <2>2, <1>3, <1>5, <1>6 DEF KernelAhead, AllAhead
  <2> QED  BY <2>1, <2>2, <2>3, <1>1, ListUnchanged
<1>7. ASSUME head # NULL, NEW t \in Nodes, IsHead(head, t), call' = CallOf(o, 0, NULL, t)
      PROVE  IInv' /\ InFreeLoop'
  <2>1. call' \in CallType /\ call'.op = o /\ call'.cursor = t  BY <1>4, <1>7, CallTypes
  <2>2. head \in Live  BY <1>1, <1>7 DEF HeadIsStale
  <2>3. t \in Live /\ \A n \in Chain(head, next) : n \in Chain(t, next)
        BY <2>2, <1>4, <1>7, HeadSeesAll DEF IInv, LinksOK
  <2>4. InFreeLoop' /\ CallOK'  BY <2>1, <2>3, <1>5 DEF InFreeLoop, CallOK
  <2>5. t # NULL  BY <1>4
  <2>6. AllAhead(t)  BY <2>3, <2>5, <1>3, <1>7 DEF AllAhead, RestBy
  <2>7. KernelAhead'  BY <2>1, <2>4, <2>6, <1>5 DEF KernelAhead, AllAhead
  <2> QED  BY <2>1, <2>4, <2>7, <1>1, ListUnchanged
<1> QED  BY <1>6, <1>7 DEF StartFreeAll

LEMMA FreeAllStepKept == ASSUME ListAssumption, IInv, FreeAllStep
                         PROVE  IInv' /\ InFreeLoop'
<1> DEFINE c == call.cursor
<1>1. c # NULL /\ DMABuffer_free(c) /\ head' = head  BY DEF FreeAllStep
<1>2. InFreeLoop /\ c \in Live  BY <1>1 DEF IInv, CallOK
<1>3. AllAhead(c)  BY <1>2 DEF IInv, KernelAhead
<1>4. /\ LinksOK'
      /\ Live \ {c} \subseteq Live'
      /\ next[c] \in (Live \ {c}) \cup {NULL}
      /\ \A h \in Live \cup {NULL} : AllAhead(h) =>
            \A m \in Live' \ RestBy(IF h = c THEN next[c] ELSE h, next') : mem'[m] = "user"
      BY <1>1, <1>2, FreeKeeps DEF IInv
<1>5. \A m \in Live' \ RestBy(next[c], next') : mem'[m] = "user"
      BY <1>2, <1>3, <1>4
<1>6. next[c] \in Pointers  BY <1>4 DEF Live, Pointers
<1>7. call' \in CallType /\ call'.op = call.op /\ call'.cursor = next[c]
      BY <1>6 DEF FreeAllStep, IInv, CallType
<1>8. InFreeLoop'  BY <1>2, <1>7 DEF InFreeLoop
<1>9. CallOK'  BY <1>4, <1>7, <1>8 DEF CallOK, InFreeLoop
<1>10. KernelAhead'  BY <1>5, <1>7, <1>8 DEF KernelAhead, AllAhead
<1> QED  BY <1>1, <1>4, <1>7, <1>8, <1>9, <1>10 DEF IInv

(* At the end of the loop nothing lies ahead: no kernel buffer's object is left. *)
LEMMA FreeAllEndKept == ASSUME ListAssumption, IInv, FreeAllEnd
                        PROVE  IInv' /\ (call.op = "deviceDelete" => head' = NULL)
<1>1. InFreeLoop /\ call.cursor = NULL /\ call' = NoCall
      BY DEF FreeAllEnd, InFreeLoop, Return
<1>2. UNCHANGED <<mem, next, prev, index>> /\ head' = (IF call.op = "deviceDelete" THEN NULL ELSE head)
      BY DEF FreeAllEnd
<1>3. \A n \in Live : mem[n] = "user"  BY <1>1 DEF IInv, KernelAhead, AllAhead, RestBy
<1>4. call' \in CallType /\ call'.op = "none" /\ call'.cursor = NULL  BY <1>1, CallTypes
<1>5. CallOK'  BY <1>4 DEF CallOK
<1>6. Live' = Live  BY <1>2 DEF Live
<1>7. LinksOK'
      BY <1>2, <1>6 DEF IInv, LinksOK, HeapOK, LinksInverse, NoRing, FreeUnlinked
<1>8. KernelAhead'  BY <1>2, <1>3, <1>6 DEF KernelAhead, AllAhead
<1>9. head' \in Pointers  BY <1>2 DEF IInv, Pointers
<1> QED  BY <1>2, <1>4, <1>5, <1>7, <1>8, <1>9 DEF IInv

LEMMA ExitKept == ASSUME ListAssumption, IInv, Exit
                  PROVE  IInv' /\ head' = NULL
<1>1. call' = call /\ call.op = "none" /\ head' = NULL  BY DEF Exit
<1>2. ~InFreeLoop /\ call.cursor = NULL /\ call \in CallType  BY <1>1, IdleCall, NoCursor
<1>3. Live' = {}  BY DEF Exit, Live
<1>4. 0 \in Ids  BY DEF ListAssumption, Ids
<1>5. LinksOK'
      BY <1>3, <1>4 DEF Exit, LinksOK, HeapOK, LinksInverse, NoRing, FreeUnlinked, Pointers
<1>6. CallOK'  BY <1>1, <1>2 DEF CallOK
<1>7. KernelAhead'  BY <1>3 DEF KernelAhead, AllAhead
<1> QED  BY <1>1, <1>2, <1>5, <1>6, <1>7 DEF IInv, Pointers

(* Every step keeps the invariant, and only freeAll can leave a stale pointer. *)
LEMMA NextKeeps ==
    ASSUME ListAssumption, IInv, Next
    PROVE  IInv' /\ (call.op # "freeAll" => HeadIsLive')
<1> USE DEF HeadIsLive
<1>1. CASE PciDevice_allocDMABuffer  BY <1>1, AllocKept
<1>2. CASE PciDevice_registerDMABuffer  BY <1>2, RegisterKept
<1>3. CASE PciDevice_getDMABuffer  BY <1>3, GetKept
<1>4. CASE Lookup  BY <1>4, LookupKept
<1>5. CASE PciDevice_deleteDMABuffer  BY <1>5, DeleteKept
<1>6. CASE PciDevice_delete
  <2>1. StartFreeAll("deviceDelete")  BY <1>6 DEF PciDevice_delete
  <2> QED  BY <2>1, StartKept
<1>7. CASE PciDevice_freeAllBuffers
  <2>1. StartFreeAll("freeAll")  BY <1>7 DEF PciDevice_freeAllBuffers
  <2> QED  BY <2>1, StartKept
<1>8. CASE FreeAllStep  BY <1>8, FreeAllStepKept
<1>9. CASE FreeAllEnd
  <2>1. call.op \in {"deviceDelete", "freeAll"}  BY <1>9 DEF FreeAllEnd
  <2> QED  BY <2>1, <1>9, FreeAllEndKept
<1>10. CASE Exit  BY <1>10, ExitKept
<1> QED  BY <1>1, <1>2, <1>3, <1>4, <1>5, <1>6, <1>7, <1>8, <1>9, <1>10 DEF Next

LEMMA StutterKeeps == ASSUME IInv, UNCHANGED vars PROVE IInv'
<1>1. UNCHANGED listVars /\ call' = call  BY DEF vars, listVars
<1>2. Live' = Live  BY <1>1 DEF listVars, Live
<1>3. KernelAhead' /\ CallOK'
      BY <1>1, <1>2 DEF IInv, KernelAhead, CallOK, AllAhead, InFreeLoop, HeadIsStale, listVars
<1> QED  BY <1>1, <1>3, ListUnchanged DEF IInv

LEMMA Invariance == Spec => []IInv
<1>1. Init => IInv  BY ListAssumption, InitHolds
<1>2. IInv /\ [Next]_vars => IInv'  BY ListAssumption, NextKeeps, StutterKeeps
<1> QED  BY <1>1, <1>2, PTL DEF Spec

-----------------------------------------------------------------------------
(* Theorems *)

(***************************************************************************)
(* Pointers are null or addresses, and DMABuffer_new gives no object the   *)
(* reserved index PDA_BUFFER_INDEX_UNDEFINED.                              *)
(***************************************************************************)
THEOREM TypeCorrect == Spec => []TypeOK
<1>1. IInv => TypeOK  BY DEF IInv, LinksOK, HeapOK, TypeOK, CallType, Pointers
<1> QED  BY <1>1, Invariance, PTL

(***************************************************************************)
(* DMABuffer_addNode and DMABuffer_removeNode keep next and prev inverse   *)
(* to each other, and no link of an object leads to freed memory, at every *)
(* step of the loop of DMABuffer_freeAllBuffersInt included.               *)
(***************************************************************************)
THEOREM LinksStayInverse == Spec => []LinksInverse
<1>1. IInv => LinksInverse  BY DEF IInv, LinksOK
<1> QED  BY <1>1, Invariance, PTL

(***************************************************************************)
(* Whatever munlock does, between two calls every object of a kernel       *)
(* buffer can be reached from device->dma_buffer_list, so PciDevice_delete *)
(* will unmap it and close its files.                                      *)
(***************************************************************************)
THEOREM KernelBuffersListed == Spec => []NoObjectLost
<1>1. Rest(head) = RestBy(head, next)  BY DEF Rest, RestBy
<1>2. IInv => NoObjectLost
      BY <1>1 DEF IInv, KernelAhead, AllAhead, NoObjectLost
<1> QED  BY <1>2, Invariance, PTL

(***************************************************************************)
(* Only PciDevice_freeAllBuffers can leave device->dma_buffer_list         *)
(* pointing to a freed object: a delete moves it on first, also when the   *)
(* object is not freed after all, and PciDevice_delete clears it.          *)
(***************************************************************************)
THEOREM OnlyFreeAllLeavesStaleHead == Spec => HeadStaysLive
<1>1. IInv /\ [Next]_vars => [call.op # "freeAll" => HeadIsLive']_vars
      BY ListAssumption, NextKeeps
<1> QED  BY <1>1, Invariance, PTL DEF Spec, HeadStaysLive

-----------------------------------------------------------------------------
(* The list as a sequence *)

(* s is what a walk from h along next comes by, one object after the other. *)
Walk(s, h) ==
    /\ s \in Seq(Live)
    /\ h = IF Len(s) = 0 THEN NULL ELSE s[1]
    /\ \A k \in 1 .. Len(s) : next[s[k]] = IF k = Len(s) THEN NULL ELSE s[k + 1]

Elements(s) == {s[k] : k \in 1 .. Len(s)}

Without(s, k) == [j \in 1 .. Len(s) - 1 |-> s[IF j < k THEN j ELSE j + 1]]

LEMMA WalkFacts ==
    ASSUME NEW s, NEW h, Walk(s, h)
    PROVE  /\ Len(s) \in Nat /\ DOMAIN s = 1 .. Len(s)
           /\ \A k \in 1 .. Len(s) : s[k] \in Live /\ s[k] \in Nodes
BY DEF Walk, Live

(* No object comes twice: that would be a ring. *)
LEMMA WalkOnce ==
    ASSUME NoRing, NULL \notin Nodes, NEW s, NEW h, Walk(s, h),
           NEW j \in 1 .. Len(s), NEW k \in 1 .. Len(s), s[j] = s[k]
    PROVE  j = k
<1>1. ASSUME NEW a \in 1 .. Len(s), NEW b \in 1 .. Len(s), a < b, s[a] = s[b]
      PROVE  FALSE
  <2> DEFINE R == {s[i] : i \in a .. b - 1}
  <2>1. Len(s) \in Nat /\ \A i \in 1 .. Len(s) : s[i] \in Live  BY WalkFacts
  <2>2. \A i \in a .. b - 1 : i \in 1 .. Len(s) /\ i # Len(s)  BY <1>1, <2>1
  <2>3. s[a] \in R /\ R \in SUBSET Live  BY <1>1, <2>1, <2>2
  <2>4. ASSUME NEW i \in a .. b - 1  PROVE next[s[i]] \in R
    <3>1. next[s[i]] = s[i + 1]  BY <2>2 DEF Walk
    <3>2. i + 1 \in a .. b - 1 \/ i + 1 = b  BY <1>1, <2>1
    <3> QED  BY <1>1, <2>3, <3>1, <3>2
  <2>5. \A x \in R : next[x] \in R  BY <2>4
  <2> HIDE DEF R
  <2> QED  BY <2>3, <2>5 DEF NoRing
<1>2. j < k \/ k < j \/ j = k  OBVIOUS
<1> QED  BY <1>1, <1>2

(* A set of numbers that is not empty has a least one. *)
LEMMA LeastNumber ==
    ASSUME NEW S \in SUBSET Nat, S # {}
    PROVE  \E n \in S : \A x \in S : n <= x
<1>1. \A x, y \in Nat : <<x, y>> \in OpToRel(<, Nat) <=> x < y  BY DEF OpToRel
<1>2. PICK R : IsWellFoundedOn(R, Nat) /\ \A x, y \in Nat : <<x, y>> \in R <=> x < y
      BY <1>1, NatLessThanWellFounded, Zenon
<1>3. IsWellFoundedOn(R, Nat) /\ S \subseteq Nat  BY <1>2
<1>4. PICK n \in S : \A x \in S : ~ (<<x, n>> \in R)  BY <1>3, WFMin, Zenon
<1>5. \A x \in S : ~ (x < n)  BY <1>2, <1>3, <1>4, Zenon
<1> QED  BY <1>5

(* A set of numbers that holds the first of 1 .. m and with each the next holds all. *)
LEMMA UpTo ==
    ASSUME NEW m \in Nat, NEW S, m # 0 => 1 \in S,
           \A k \in 1 .. m : k # m /\ k \in S => k + 1 \in S
    PROVE  1 .. m \subseteq S
<1> SUFFICES ASSUME (1 .. m) \ S # {}  PROVE FALSE
    OBVIOUS
<1>1. (1 .. m) \ S \in SUBSET Nat  OBVIOUS
<1>2. PICK k \in (1 .. m) \ S : \A x \in (1 .. m) \ S : k <= x
      BY <1>1, LeastNumber
<1>3. k # 1 /\ k \in Nat  BY <1>2
<1>4. k - 1 \in 1 .. m /\ k - 1 \notin (1 .. m) \ S /\ k - 1 # m /\ (k - 1) + 1 = k
      BY <1>2, <1>3
<1> QED  BY <1>2, <1>4

(* A walk comes by the nodes that the device's loops see. *)
LEMMA WalkIsRest ==
    ASSUME NULL \notin Nodes, NEW s, NEW h, Walk(s, h)
    PROVE  RestBy(h, next) = Elements(s)
<1>1. /\ Len(s) \in Nat
      /\ \A k \in 1 .. Len(s) : s[k] \in Live /\ s[k] \in Nodes
      BY WalkFacts
<1>2. CASE Len(s) = 0
  BY <1>1, <1>2 DEF Walk, RestBy, Elements
<1>3. CASE Len(s) # 0
  <2>1. h = s[1] /\ h \in Nodes /\ h # NULL /\ 1 \in 1 .. Len(s)  BY <1>1, <1>3 DEF Walk
  <2>2. Elements(s) \in SUBSET Nodes /\ h \in Elements(s)  BY <1>1, <2>1 DEF Elements
  <2>3. Closed(Elements(s), next)
    <3> SUFFICES ASSUME NEW k \in 1 .. Len(s)  PROVE next[s[k]] \in Elements(s) \cup {NULL}
        BY DEF Closed, Elements
    <3>1. k # Len(s) => k + 1 \in 1 .. Len(s)  BY <1>1
    <3> QED  BY <3>1 DEF Walk, Elements
  <2>4. Chain(h, next) \subseteq Elements(s)  BY <2>2, <2>3, ChainInClosed
  <2>5. ASSUME NEW S \in SUBSET Nodes, h \in S, Closed(S, next)
        PROVE  Elements(s) \subseteq S
    <3> DEFINE K == {k \in 1 .. Len(s) : s[k] \in S}
    <3>1. 1 \in K  BY <2>1, <2>5
    <3>2. ASSUME NEW k \in 1 .. Len(s), k # Len(s), k \in K  PROVE k + 1 \in K
      <4>1. k + 1 \in 1 .. Len(s) /\ next[s[k]] = s[k + 1]  BY <1>1, <3>2 DEF Walk
      <4>2. s[k + 1] # NULL  BY <1>1, <4>1
      <4> QED  BY <2>5, <3>2, <4>1, <4>2 DEF Closed
    <3> HIDE DEF K
    <3>3. 1 .. Len(s) \subseteq K  BY <1>1, <3>1, <3>2, UpTo
    <3> QED  BY <3>3 DEF K, Elements
  <2>6. Elements(s) \subseteq Chain(h, next)  BY <2>2, <2>5, InChain
  <2> QED  BY <2>1, <2>4, <2>6 DEF RestBy
<1> QED  BY <1>2, <1>3

LEMMA WalkLength ==
    ASSUME NoRing, NULL \notin Nodes, NEW s, NEW h, Walk(s, h)
    PROVE  Cardinality(Rest(h)) = Len(s)
<1>1. Rest(h) = Elements(s)  BY WalkIsRest DEF Rest, RestBy
<1>2. Len(s) \in Nat /\ DOMAIN s = 1 .. Len(s)  BY WalkFacts
<1>3. s \in [1 .. Len(s) -> Elements(s)]  BY <1>2 DEF Elements, Walk
<1>4. \A j, k \in 1 .. Len(s) : s[j] = s[k] => j = k  BY WalkOnce
<1>5. \A x \in Elements(s) : \E k \in 1 .. Len(s) : s[k] = x  BY DEF Elements
<1>6. s \in Bijection(1 .. Len(s), Elements(s))
      BY <1>3, <1>4, <1>5 DEF Bijection, Injection, Surjection, IsInjective
<1>7. ExistsBijection(1 .. Len(s), Elements(s))  BY <1>6 DEF ExistsBijection
<1> QED  BY <1>1, <1>2, <1>7, FS_CountingElements

(* Hence it is the sequence that the list stands for. *)
LEMMA WalkIsSequence ==
    ASSUME NoRing, NULL \notin Nodes, NEW s, Walk(s, First)
    PROVE  AsSequence = s
<1> DEFINE m == Len(s)
           Eq(f) == f = [k \in 1 .. m |-> IF k = 1 THEN First ELSE next[f[k - 1]]]
<1>1. m \in Nat /\ DOMAIN s = 1 .. m /\ Cardinality(Rest(First)) = m
      BY WalkFacts, WalkLength
<1>2. AsSequence = CHOOSE f : Eq(f)  BY <1>1 DEF AsSequence
<1>3. Eq(s)
  <2>1. ASSUME NEW k \in 1 .. m  PROVE s[k] = IF k = 1 THEN First ELSE next[s[k - 1]]
    <3>1. CASE k = 1
      <4>1. Len(s) # 0  BY <1>1
      <4> QED  BY <3>1, <4>1 DEF Walk
    <3>2. CASE k # 1
      <4>1. k - 1 \in 1 .. m /\ k - 1 # m /\ (k - 1) + 1 = k  BY <1>1, <3>2
      <4> QED  BY <3>2, <4>1 DEF Walk
    <3> QED  BY <3>1, <3>2
  <2>2. s = [k \in 1 .. m |-> s[k]]  BY <1>1 DEF Walk
  <2> QED  BY <2>1, <2>2
<1>4. ASSUME NEW f, Eq(f)  PROVE f = s
  <2>1. \A k \in 1 .. m : f[k] = IF k = 1 THEN First ELSE next[f[k - 1]]  BY <1>4
  <2>2. \A k \in 1 .. m : s[k] = IF k = 1 THEN First ELSE next[s[k - 1]]  BY <1>3
  <2>3. f = [k \in 1 .. m |-> f[k]] /\ s = [k \in 1 .. m |-> s[k]]  BY <1>3, <1>4
  <2> HIDE DEF Eq
  <2> DEFINE K == {k \in 1 .. m : f[k] = s[k]}
  <2>4. m # 0 => 1 \in K  BY <1>1, <2>1, <2>2
  <2>5. ASSUME NEW k \in 1 .. m, k # m, k \in K  PROVE k + 1 \in K
    <3>1. f[k] = s[k]  BY <2>5
    <3> HIDE DEF K, m
    <3>2. k + 1 \in 1 .. m  BY <1>1, <2>5
    <3>3. k + 1 # 1 /\ (k + 1) - 1 = k  BY <1>1
    <3>4. f[k + 1] = s[k + 1]  BY <2>1, <2>2, <3>1, <3>2, <3>3
    <3> QED  BY <3>2, <3>4 DEF K
  <2> HIDE DEF K
  <2>6. 1 .. m \subseteq K  BY <1>1, <2>4, <2>5, UpTo
  <2> QED  BY <2>3, <2>6 DEF K
<1> HIDE DEF Eq
<1> QED  BY <1>2, <1>3, <1>4

(* A walk is one as long as its objects live and their links stay. *)
LEMMA SameWalk ==
    ASSUME NEW s, NEW h, Walk(s, h), \A x \in Elements(s) : x \in Live' /\ next'[x] = next[x]
    PROVE  Walk(s, h)'
<1>1. Len(s) \in Nat /\ s \in Seq(Live) /\ \A k \in 1 .. Len(s) : s[k] \in Live' /\ next'[s[k]] = next[s[k]]
      BY DEF Walk, Elements
<1>2. s \in Seq(Live')  BY <1>1
<1> QED  BY <1>1, <1>2 DEF Walk

LEMMA WithoutFacts ==
    ASSUME NEW S, NEW T, NEW s \in Seq(S), NEW k \in 1 .. Len(s),
           \A j \in 1 .. Len(s) : j # k => s[j] \in T
    PROVE  /\ Without(s, k) \in Seq(T) /\ Len(Without(s, k)) = Len(s) - 1 /\ Len(s) - 1 \in Nat
           /\ \A j \in 1 .. Len(s) - 1 : Without(s, k)[j] = IF j < k THEN s[j] ELSE s[j + 1]
<1>1. Len(s) \in Nat /\ Len(s) - 1 \in Nat  OBVIOUS
<1>2. ASSUME NEW j \in 1 .. Len(s) - 1
      PROVE  /\ j < k => j \in 1 .. Len(s) /\ j # k
             /\ ~ (j < k) => j + 1 \in 1 .. Len(s) /\ j + 1 # k
      BY <1>1
<1>3. Without(s, k) \in [1 .. Len(s) - 1 -> T]
      BY <1>2 DEF Without
<1>4. Without(s, k) \in Seq(T) /\ Len(Without(s, k)) = Len(s) - 1
      BY <1>1, <1>3
<1> QED  BY <1>1, <1>4 DEF Without

(* A walk from the second object on. *)
LEMMA WalkTail ==
    ASSUME NEW s, NEW h, Walk(s, h), h \in Live, NULL \notin Nodes
    PROVE  Len(s) # 0 /\ Walk(Without(s, 1), next[h])
<1>1. h # NULL  BY DEF Live
<1>2. Len(s) \in Nat /\ Len(s) # 0 /\ h = s[1] /\ s \in Seq(Live)  BY <1>1 DEF Walk
<1>3. 1 \in 1 .. Len(s) /\ \A k \in 1 .. Len(s) : s[k] \in Live  BY <1>2
<1> DEFINE t == Without(s, 1)
<1>4. /\ t \in Seq(Live) /\ Len(t) = Len(s) - 1
      /\ \A j \in 1 .. Len(s) - 1 : t[j] = IF j < 1 THEN s[j] ELSE s[j + 1]
      BY <1>2, <1>3, WithoutFacts
<1>5. \A j \in 1 .. Len(t) : t[j] = s[j + 1] /\ j + 1 \in 1 .. Len(s) /\ (j = Len(t) <=> j + 1 = Len(s))
      BY <1>2, <1>4
<1> HIDE DEF t
<1>6. next[h] = IF Len(t) = 0 THEN NULL ELSE t[1]
      BY <1>2, <1>3, <1>4, <1>5 DEF Walk
<1>7. ASSUME NEW j \in 1 .. Len(t)  PROVE next[t[j]] = IF j = Len(t) THEN NULL ELSE t[j + 1]
  <2>1. next[t[j]] = IF j + 1 = Len(s) THEN NULL ELSE s[(j + 1) + 1]  BY <1>5 DEF Walk
  <2>2. j # Len(t) => j + 1 \in 1 .. Len(t)  BY <1>4
  <2>3. j # Len(t) => t[j + 1] = s[(j + 1) + 1]  BY <1>5, <2>2
  <2> QED  BY <1>5, <2>1, <2>3
<1>8. Walk(t, next[h])  BY <1>4, <1>6, <1>7 DEF Walk
<1> QED  BY <1>2, <1>8 DEF t

(* Removing an object by which the walk does not come. *)
LEMMA RemoveElsewhere ==
    ASSUME ListAssumption, LinksOK, NEW n \in Live, DMABuffer_removeNode(n), Live' = Live \ {n},
           NEW s, NEW h, Walk(s, h), n \notin Elements(s)
    PROVE  Walk(s, h)'
<1>1. NULL \notin Nodes /\ n \in Nodes /\ n # NULL  BY DEF ListAssumption, Live
<1>2. \A x \in Nodes : next'[x] = IF x = n THEN NULL ELSE IF x = prev[n] THEN next[n] ELSE next[x]
      BY RemoveEffect
<1>3. Len(s) \in Nat /\ \A k \in 1 .. Len(s) : s[k] \in Live /\ s[k] \in Nodes  BY WalkFacts
<1>4. ASSUME NEW k \in 1 .. Len(s)  PROVE s[k] \in Live' /\ next'[s[k]] = next[s[k]]
  <2>1. s[k] # n /\ s[k] # NULL  BY <1>1, <1>3 DEF Elements
  <2>2. next[s[k]] # n
    <3>1. k # Len(s) => k + 1 \in 1 .. Len(s)  BY <1>3
    <3> QED  BY <1>1, <3>1 DEF Walk, Elements
  <2>3. s[k] # prev[n]  BY <1>3, <2>1, <2>2 DEF LinksOK, LinksInverse
  <2> QED  BY <1>2, <1>3, <2>1, <2>3
<1>5. \A x \in Elements(s) : x \in Live' /\ next'[x] = next[x]  BY <1>4 DEF Elements
<1> QED  BY <1>5, SameWalk

(* Removing the k-th object of a walk: the others remain, in their order. *)
LEMMA RemoveFromWalk ==
    ASSUME ListAssumption, LinksOK, NEW s, NEW h, Walk(s, h), NEW k \in 1 .. Len(s),
           DMABuffer_removeNode(s[k]), Live' = Live \ {s[k]},
           NEW g, g = IF h = s[k] THEN next[s[k]] ELSE h
    PROVE  Walk(Without(s, k), g)'
<1> DEFINE n == s[k]
           t == Without(s, k)
<1>1. /\ NULL \notin Nodes /\ Len(s) \in Nat /\ s \in Seq(Live)
      /\ \A j \in 1 .. Len(s) : s[j] \in Live /\ s[j] \in Nodes
      BY WalkFacts DEF ListAssumption, Walk
<1>2. \A x \in Nodes : next'[x] = IF x = n THEN NULL ELSE IF x = prev[n] THEN next[n] ELSE next[x]
      BY <1>1, RemoveEffect
<1>3. \A j \in 1 .. Len(s) : s[j] = n => j = k  BY <1>1, WalkOnce DEF LinksOK
<1>4. \A j \in 1 .. Len(s) : j # k => s[j] \in Live'  BY <1>1, <1>3
<1>5. /\ t \in Seq(Live') /\ Len(t) = Len(s) - 1 /\ Len(s) - 1 \in Nat
      /\ \A j \in 1 .. Len(s) - 1 : t[j] = IF j < k THEN s[j] ELSE s[j + 1]
  <2> HIDE DEF n
  <2>1. PICK T : T = Live'  OBVIOUS
  <2>2. \A j \in 1 .. Len(s) : j # k => s[j] \in T  BY <1>4, <2>1
  <2>3. /\ Without(s, k) \in Seq(T) /\ Len(Without(s, k)) = Len(s) - 1 /\ Len(s) - 1 \in Nat
        /\ \A j \in 1 .. Len(s) - 1 : Without(s, k)[j] = IF j < k THEN s[j] ELSE s[j + 1]
        BY <1>1, <2>2, WithoutFacts
  <2> QED  BY <2>1, <2>3
<1>6. \A j \in 1 .. Len(s) : next[s[j]] = IF j = Len(s) THEN NULL ELSE s[j + 1]
      BY DEF Walk
<1>7. ASSUME NEW j \in 1 .. Len(s), j # k
      PROVE  next'[s[j]] = IF j + 1 = k THEN next[n] ELSE next[s[j]]
  <2>1. s[j] # n  BY <1>3, <1>7
  <2>2. s[j] = prev[n] <=> next[s[j]] = n
    <3>1. n # NULL /\ s[j] # NULL /\ n \in Live /\ s[j] \in Live  BY <1>1
    <3> HIDE DEF n
    <3> QED  BY <3>1 DEF LinksOK, LinksInverse
  <2>3. next[s[j]] = n <=> j + 1 = k
    <3>1. CASE j = Len(s)
      <4>1. j + 1 # k  BY <1>1, <3>1
      <4> QED  BY <1>1, <1>6, <3>1, <4>1
    <3>2. CASE j # Len(s)
      <4>1. j + 1 \in 1 .. Len(s)  BY <1>1, <3>2
      <4> QED  BY <1>3, <1>6, <3>2, <4>1
    <3> QED  BY <3>1, <3>2
  <2> QED  BY <1>1, <1>2, <2>1, <2>2, <2>3
<1> HIDE DEF t, n
<1>8. next[n] = IF k = Len(s) THEN NULL ELSE s[k + 1]  BY <1>6 DEF n
<1>9. h = s[1] /\ 1 \in 1 .. Len(s) /\ (h = n <=> k = 1)
  <2>1. Len(s) # 0 /\ 1 \in 1 .. Len(s)  BY <1>1
  <2> QED  BY <1>3, <2>1 DEF Walk, n
<1>10. g = IF Len(t) = 0 THEN NULL ELSE t[1]
  <2>0. g = IF h = n THEN next[n] ELSE h  BY DEF n
  <2>1. CASE k = 1
    <3>1. Len(t) # 0 => t[1] = s[1 + 1] /\ k # Len(s)  BY <1>1, <1>5, <2>1
    <3>2. Len(t) = 0 => k = Len(s)  BY <1>1, <1>5, <2>1
    <3> QED  BY <1>8, <1>9, <2>0, <2>1, <3>1, <3>2
  <2>2. CASE k # 1
    <3>1. Len(t) # 0 /\ t[1] = s[1]  BY <1>1, <1>5, <2>2
    <3> QED  BY <1>9, <2>0, <2>2, <3>1
  <2> QED  BY <2>1, <2>2
<1>11. ASSUME NEW j \in 1 .. Len(t)  PROVE next'[t[j]] = IF j = Len(t) THEN NULL ELSE t[j + 1]
  <2>1. CASE j + 1 = k
    <3>1. j < k /\ j \in 1 .. Len(s) /\ j # k /\ (j = Len(t) <=> k = Len(s))  BY <1>1, <1>5, <2>1
    <3>2. next'[t[j]] = next[n]  BY <1>5, <1>7, <2>1, <3>1
    <3>3. j # Len(t) => t[j + 1] = s[k + 1]  BY <1>1, <1>5, <2>1
    <3> QED  BY <1>8, <3>1, <3>2, <3>3
  <2>2. CASE j + 1 < k
    <3>1. j < k /\ j \in 1 .. Len(s) /\ j # k /\ j # Len(t) /\ j # Len(s) /\ j + 1 # k
          BY <1>1, <1>5, <2>2
    <3>2. next'[t[j]] = s[j + 1]  BY <1>5, <1>6, <1>7, <3>1
    <3>3. t[j + 1] = s[j + 1]  BY <1>1, <1>5, <2>2
    <3> QED  BY <3>1, <3>2, <3>3
  <2>3. CASE ~ (j < k)
    <3>1. /\ j + 1 \in 1 .. Len(s) /\ j + 1 # k /\ (j + 1) + 1 # k
          /\ (j = Len(t) <=> j + 1 = Len(s))
          BY <1>1, <1>5, <2>3
    <3>2. next'[t[j]] = next[s[j + 1]]  BY <1>5, <1>7, <2>3, <3>1
    <3>3. j # Len(t) => t[j + 1] = s[(j + 1) + 1]  BY <1>1, <1>5, <2>3
    <3> QED  BY <1>6, <3>1, <3>2, <3>3
  <2>4. j + 1 = k \/ j + 1 < k \/ ~ (j < k)  BY <1>5
  <2> QED  BY <2>1, <2>2, <2>3, <2>4
<1>12. Walk(t, g)'  BY <1>5, <1>10, <1>11 DEF Walk
<1> QED  BY <1>12 DEF t

(* Adding an object at the end. *)
LEMMA AddToWalk ==
    ASSUME ListAssumption, LinksOK, head \in Pointers, NEW s, Walk(s, head),
           NEW n \in Nodes \ Live, DMABuffer_addNode(n), Live' = Live \cup {n}
    PROVE  Walk(Append(s, n), head)' /\ n \notin Elements(s)
<1>1. /\ NULL \notin Nodes /\ Len(s) \in Nat /\ s \in Seq(Live) /\ n # NULL
      /\ \A j \in 1 .. Len(s) : s[j] \in Live /\ s[j] \in Nodes
      BY WalkFacts DEF ListAssumption, Walk
<1>2. next \in [Nodes -> Pointers]  BY DEF LinksOK, HeapOK
<1>3. n \notin Elements(s)  BY <1>1 DEF Elements
<1> DEFINE t == Append(s, n)
<1>4. /\ t \in Seq(Live') /\ Len(t) = Len(s) + 1 /\ t[Len(s) + 1] = n
      /\ \A j \in 1 .. Len(s) : t[j] = s[j]
  <2>1. s \in Seq(Live')  BY <1>1
  <2> QED  BY <1>1, <2>1
<1> HIDE DEF t
<1>5. CASE head = NULL
  <2>1. Len(s) = 0  BY <1>1, <1>5 DEF Walk
  <2>2. head' = n /\ next'[n] = NULL  BY <1>2, <1>5 DEF DMABuffer_addNode
  <2>3. Walk(t, head)'  BY <1>4, <2>1, <2>2 DEF Walk
  <2> QED  BY <1>3, <2>3 DEF t
<1>6. CASE head # NULL
  <2>1. PICK e \in Nodes : IsTail(head, e) /\ next' = [next EXCEPT ![n] = NULL, ![e] = n] /\ head' = head
        BY <1>6 DEF DMABuffer_addNode
  <2>2. e \in Elements(s) /\ next[e] = NULL
        BY <1>1, <1>6, <2>1, WalkIsRest DEF IsTail, RestBy
  <2>3. PICK l \in 1 .. Len(s) : e = s[l]  BY <2>2 DEF Elements
  <2>4. l = Len(s)
    <3>1. l # Len(s) => l + 1 \in 1 .. Len(s)  BY <1>1
    <3> QED  BY <1>1, <2>2, <2>3, <3>1 DEF Walk
  <2>5. \A j \in 1 .. Len(s) : s[j] = e => j = Len(s)
        BY <1>1, <2>3, <2>4, WalkOnce DEF LinksOK
  <2>6. next'[n] = NULL /\ next'[e] = n /\ \A x \in Nodes : x \notin {e, n} => next'[x] = next[x]
    <3>1. e # n  BY <1>3, <2>2
    <3> QED  BY <1>2, <2>1, <3>1
  <2>7. ASSUME NEW j \in 1 .. Len(t)  PROVE next'[t[j]] = IF j = Len(t) THEN NULL ELSE t[j + 1]
    <3>1. CASE j = Len(s) + 1  BY <1>4, <2>6, <3>1
    <3>2. CASE j = Len(s)
      <4>1. t[j] = e /\ j # Len(t) /\ t[j + 1] = n  BY <1>1, <1>4, <2>3, <2>4, <3>2
      <4> QED  BY <2>6, <4>1
    <3>3. CASE j \in 1 .. Len(s) /\ j # Len(s)
      <4>1. s[j] # e /\ s[j] # n  BY <1>1, <2>5, <3>3
      <4>2. next'[s[j]] = s[j + 1]  BY <1>1, <2>6, <3>3, <4>1 DEF Walk
      <4>3. j + 1 \in 1 .. Len(s) /\ j # Len(t)  BY <1>1, <1>4, <3>3
      <4> QED  BY <1>4, <3>3, <4>2, <4>3
    <3> QED  BY <1>1, <1>4, <3>1, <3>2, <3>3
  <2>8. head' = IF Len(t) = 0 THEN NULL ELSE t[1]
    <3>1. 1 \in 1 .. Len(s) /\ Len(s) # 0 /\ Len(t) # 0  BY <1>1, <1>4, <2>3
    <3> QED  BY <1>4, <2>1, <3>1 DEF Walk
  <2>9. Walk(t, head)'  BY <1>4, <2>7, <2>8 DEF Walk
  <2> QED  BY <1>3, <2>9 DEF t
<1> QED  BY <1>5, <1>6

-----------------------------------------------------------------------------
(* The refinement, step by step *)

(* The list that the device has ends: from First on, a walk comes to an end. *)
Walkable == \E s : Walk(s, First)

Refines == Walkable' /\ [Abs!Next]_AsSequence

LEMMA SequenceOf == \A s : NoRing /\ Walk(s, First) => AsSequence = s
BY ListAssumption, WalkIsSequence DEF ListAssumption

LEMMA SequenceAfter == (\A s : NoRing /\ Walk(s, First) => AsSequence = s)'
BY SequenceOf, PTL

LEMMA StepKeeps ==
    ASSUME NoRing, NoRing', NEW s, Walk(s, First), NEW g, Walk(s, g)', First' = g
    PROVE  Refines
<1>1. Walk(s, First)'  BY DEF Walk
<1>2. AsSequence = s /\ AsSequence' = s  BY <1>1, SequenceOf, SequenceAfter
<1>3. Walkable'  BY <1>1 DEF Walkable
<1> QED  BY <1>2, <1>3 DEF Refines

LEMMA StepAdds ==
    ASSUME NoRing, NoRing', NEW s, Walk(s, First), NEW n \in Nodes, n \notin Elements(s),
           NEW g, Walk(Append(s, n), g)', First' = g
    PROVE  Refines
<1>1. Walk(Append(s, n), First)'  BY DEF Walk
<1>2. AsSequence = s /\ AsSequence' = Append(s, n)  BY <1>1, SequenceOf, SequenceAfter
<1>3. Walkable'  BY <1>1 DEF Walkable
<1>4. DOMAIN s = 1 .. Len(s)  BY WalkFacts
<1>5. Abs!Listed = Elements(s)  BY <1>2, <1>4 DEF Abs!Listed, Elements
<1>6. Abs!Add(n)  BY <1>2, <1>5 DEF Abs!Add
<1> QED  BY <1>3, <1>6 DEF Refines, Abs!Next

LEMMA StepRemoves ==
    ASSUME NoRing, NoRing', NEW s, Walk(s, First), NEW k \in 1 .. Len(s),
           NEW g, Walk(Without(s, k), g)', First' = g
    PROVE  Refines
<1>1. Walk(Without(s, k), First)'  BY DEF Walk
<1>2. AsSequence = s /\ AsSequence' = Without(s, k)  BY <1>1, SequenceOf, SequenceAfter
<1>3. Walkable'  BY <1>1 DEF Walkable
<1>4. DOMAIN s = 1 .. Len(s) /\ s[k] \in Nodes  BY WalkFacts
<1>5. Abs!Remove(s[k])  BY <1>2, <1>4 DEF Abs!Remove, Abs!Without, Without
<1> QED  BY <1>3, <1>4, <1>5 DEF Refines, Abs!Next

(* Outside the freeing loops the list starts at the device's pointer. *)
LEMMA FirstIs ==
    /\ IInv /\ ~InFreeLoop => First = IF head \in Live THEN head ELSE NULL
    /\ IInv /\ ~InFreeLoop /\ ~HeadIsStale => First = head
<1>1. IInv /\ ~InFreeLoop => call.cursor = NULL /\ call.op # "deviceDelete"  BY NoCursor
<1> QED  BY <1>1 DEF First, HeadIsStale

LEMMA FirstIsAfter ==
    /\ IInv' /\ ~InFreeLoop' => First' = IF head' \in Live' THEN head' ELSE NULL
    /\ IInv' /\ ~InFreeLoop' /\ ~HeadIsStale' => First' = head'
<1>1. (/\ IInv /\ ~InFreeLoop => First = IF head \in Live THEN head ELSE NULL
       /\ IInv /\ ~InFreeLoop /\ ~HeadIsStale => First = head)'
      BY FirstIs, PTL
<1> QED  BY <1>1

(* A step that leaves the links and the first object alone. *)
LEMMA SameList ==
    ASSUME IInv, IInv', Walkable, UNCHANGED <<mem, next>>, First' = First
    PROVE  Refines
<1>1. PICK s : Walk(s, First)  BY DEF Walkable
<1>2. NoRing /\ NoRing' /\ Live' = Live  BY DEF IInv, LinksOK, Live
<1>3. \A k \in 1 .. Len(s) : s[k] \in Live  BY <1>1, WalkFacts
<1>4. \A x \in Elements(s) : x \in Live' /\ next'[x] = next[x]
      BY <1>2, <1>3 DEF Elements
<1>5. PICK g : g = First  OBVIOUS
<1>6. Walk(s, g)  BY <1>1, <1>5
<1>7. Walk(s, g)'  BY <1>4, <1>6, SameWalk
<1> QED  BY <1>1, <1>2, <1>5, <1>7, StepKeeps

LEMMA CallAddsRefines ==
    ASSUME ListAssumption, IInv, IInv', Walkable, ~InFreeLoop, ~HeadIsStale, ~InFreeLoop',
           head' \in Live', NEW n \in Nodes \ Live, NEW kind \in {"kernel", "user"}, NEW i \in Ids,
           DMABuffer_new(n, kind, i)
    PROVE  Refines
<1>1. PICK s : Walk(s, head)  BY FirstIs DEF Walkable
<1>2. NoRing /\ NoRing' /\ LinksOK /\ head \in Pointers  BY DEF IInv, LinksOK
<1>3. Live' = Live \cup {n}
      BY <1>2 DEF DMABuffer_new, DMABuffer_alloc, Live, LinksOK, HeapOK
<1>4. Walk(Append(s, n), head)' /\ n \notin Elements(s)
      BY <1>1, <1>2, <1>3, AddToWalk DEF DMABuffer_new
<1>5. First' = head'  BY FirstIsAfter DEF HeadIsStale
<1>6. PICK g : g = head'  OBVIOUS
<1>7. Walk(Append(s, n), g)'  BY <1>4, <1>6 DEF Walk
<1>8. Walk(s, First)  BY <1>1, FirstIs
<1> QED  BY <1>2, <1>4, <1>5, <1>6, <1>7, <1>8, StepAdds

(* Calls that return, fail, or have only begun. *)
LEMMA NoListStep ==
    ASSUME IInv, IInv', Walkable, UNCHANGED listVars, ~InFreeLoop, ~InFreeLoop'
    PROVE  Refines
<1>1. UNCHANGED <<mem, next>> /\ head' = head /\ Live' = Live  BY DEF listVars, Live
<1>2. First' = First  BY <1>1, FirstIs, FirstIsAfter
<1> QED  BY <1>1, <1>2, SameList

LEMMA AddersRefine ==
    ASSUME ListAssumption, IInv, IInv', Walkable,
           \/ PciDevice_allocDMABuffer \/ PciDevice_registerDMABuffer
           \/ PciDevice_getDMABuffer \/ Lookup
    PROVE  Refines
<1>1. CASE PciDevice_allocDMABuffer
  <2>1. call.op = "none" /\ ~HeadIsStale /\ call' = call  BY <1>1 DEF PciDevice_allocDMABuffer
  <2>2. ~InFreeLoop /\ ~InFreeLoop'  BY <2>1 DEF InFreeLoop
  <2>3. PICK n \in Nodes \ Live, i \in Ids : DMABuffer_new(n, "kernel", i)
        BY <1>1 DEF PciDevice_allocDMABuffer
  <2>4. head' \in Live'  BY <1>1, AllocKept
  <2> QED  BY <2>1, <2>2, <2>3, <2>4, CallAddsRefines
<1>2. CASE PciDevice_registerDMABuffer
  <2>1. call.op = "none" /\ ~HeadIsStale /\ ~InFreeLoop
        BY <1>2 DEF PciDevice_registerDMABuffer, InFreeLoop
  <2>2. PICK a \in IdArgs :
           \/ \E n \in Nodes \ Live, i \in Ids :
                 DMABuffer_new(n, "user", i) /\ call' = CallOf("register", a, n, NULL)
           \/ call' = CallOf("register", a, NULL, NULL) /\ UNCHANGED listVars
        BY <1>2 DEF PciDevice_registerDMABuffer
  <2>3. ~InFreeLoop'  BY <2>2 DEF InFreeLoop, CallOf
  <2>4. ASSUME NEW n \in Nodes \ Live, NEW i \in Ids, DMABuffer_new(n, "user", i)
        PROVE  Refines
    <3>1. head' \in Live'
      <4>1. LinksOK /\ head \in Pointers /\ AllAhead(head)
            BY <2>1 DEF IInv, KernelAhead
      <4> QED  BY <2>1, <2>4, <4>1, AddKeeps
    <3> QED  BY <2>1, <2>3, <2>4, <3>1, CallAddsRefines
  <2> QED  BY <2>1, <2>2, <2>3, <2>4, NoListStep
<1>3. CASE PciDevice_getDMABuffer
  <2>1. ~InFreeLoop /\ ~InFreeLoop' /\ UNCHANGED listVars
        BY <1>3 DEF PciDevice_getDMABuffer, InFreeLoop, CallOf
  <2> QED  BY <2>1, NoListStep
<1>4. CASE Lookup
  <2>1. call.op \in {"register", "lookup"}  BY <1>4 DEF Lookup
  <2>2. ~InFreeLoop /\ ~HeadIsStale  BY <2>1 DEF InFreeLoop, IInv, CallOK
  <2>3. CASE Return /\ UNCHANGED listVars
    <3>1. ~InFreeLoop'  BY <2>3 DEF Return, InFreeLoop, NoCall, CallOf
    <3> QED  BY <2>2, <2>3, <3>1, NoListStep
  <2>4. ASSUME NEW n \in Nodes \ Live, NEW i \in Ids, DMABuffer_new(n, "kernel", i), call' = call
        PROVE  Refines
    <3>1. ~InFreeLoop'  BY <2>2, <2>4 DEF InFreeLoop
    <3>2. head' \in Live'
      <4>1. LinksOK /\ head \in Pointers /\ AllAhead(head)
            BY <2>2 DEF IInv, KernelAhead
      <4> QED  BY <2>2, <2>4, <4>1, AddKeeps
    <3> QED  BY <2>2, <2>4, <3>1, <3>2, CallAddsRefines
  <2> QED  BY <1>4, <2>3, <2>4 DEF Lookup
<1> QED  BY <1>1, <1>2, <1>3, <1>4

(* What DMABuffer_free does to a walk, for each outcome. *)
LEMMA FreeWalk ==
    ASSUME ListAssumption, LinksOK, NEW n \in Live, DMABuffer_free(n), NEW s, NEW h, Walk(s, h)
    PROVE  \/ /\ Live' = Live \ {n} /\ DMABuffer_removeNode(n)
              /\ n \notin Elements(s) => Walk(s, h)'
              /\ \A k \in 1 .. Len(s) : s[k] = n =>
                    \A g : g = (IF h = n THEN next[n] ELSE h) => Walk(Without(s, k), g)'
           \/ /\ Live' = Live /\ next' = next
              /\ Walk(s, h)'
              /\ h = n => Len(s) # 0 /\ \A g : g = next[n] => Walk(Without(s, 1), g)'
<1>0. NULL \notin Nodes  BY DEF ListAssumption
<1>1. CASE DMABuffer_removeNode(n) /\ mem' = [mem EXCEPT ![n] = "free"]
  <2>1. Live' = Live \ {n}  BY <1>1 DEF Live, LinksOK, HeapOK
  <2>2. n \notin Elements(s) => Walk(s, h)'  BY <1>1, <2>1, RemoveElsewhere
  <2>3. ASSUME NEW k \in 1 .. Len(s), s[k] = n,
               NEW g, g = IF h = n THEN next[n] ELSE h
        PROVE  Walk(Without(s, k), g)'
        BY <1>1, <2>1, <2>3, RemoveFromWalk
  <2> QED  BY <1>1, <2>1, <2>2, <2>3
<1>2. CASE UNCHANGED <<mem, next, prev, index>>
  <2>1. Live' = Live /\ next' = next  BY <1>2 DEF Live
  <2>2. ASSUME NEW t, NEW g, Walk(t, g)  PROVE Walk(t, g)'
    <3>1. \A x \in Elements(t) : x \in Live  BY <2>2, WalkFacts DEF Elements
    <3> QED  BY <2>1, <2>2, <3>1, SameWalk
  <2>3. h = n => Len(s) # 0 /\ Walk(Without(s, 1), next[n])  BY <1>0, WalkTail
  <2>4. ASSUME h = n, NEW g, g = next[n]  PROVE Walk(Without(s, 1), g)'
    <3>1. Walk(Without(s, 1), g)  BY <2>3, <2>4
    <3> QED  BY <2>2, <3>1
  <2> QED  BY <2>1, <2>2, <2>3, <2>4
<1> QED  BY <1>1, <1>2 DEF DMABuffer_free

LEMMA DeleteRefines ==
    ASSUME ListAssumption, IInv, IInv', Walkable, PciDevice_deleteDMABuffer
    PROVE  Refines
<1>1. call.op = "none" /\ ~HeadIsStale /\ call' = call  BY DEF PciDevice_deleteDMABuffer
<1>2. ~InFreeLoop /\ ~InFreeLoop'  BY <1>1 DEF InFreeLoop
<1>3. PICK n \in Live : head' = (IF n = head THEN next[n] ELSE head) /\ DMABuffer_free(n)
      BY DEF PciDevice_deleteDMABuffer
<1>4. head' = NULL \/ head' \in Live'  BY DeleteKept
<1>5. First = head /\ First' = head'  BY <1>1, <1>2, <1>4, FirstIs, FirstIsAfter DEF HeadIsStale
<1>6. LinksOK /\ NoRing /\ NoRing' /\ NULL \notin Nodes  BY DEF IInv, LinksOK, ListAssumption
<1>7. PICK s : Walk(s, First)  BY DEF Walkable
<1>8. PICK h : h = head  OBVIOUS
<1>9. Walk(s, h)  BY <1>5, <1>7, <1>8
<1>10. n # NULL  BY <1>6 DEF Live
<1>11. CASE /\ n \notin Elements(s) => Walk(s, h)'
            /\ \A k \in 1 .. Len(s) : s[k] = n =>
                  \A g : g = (IF h = n THEN next[n] ELSE h) => Walk(Without(s, k), g)'
  <2>1. CASE n \notin Elements(s)
    <3>1. h # n
      <4>1. Len(s) # 0 => 1 \in 1 .. Len(s)  BY <1>9, WalkFacts
      <4> QED  BY <1>9, <1>10, <2>1, <4>1 DEF Walk, Elements
    <3>2. First' = h  BY <1>3, <1>5, <1>8, <3>1
    <3> QED  BY <1>6, <1>7, <1>11, <2>1, <3>2, StepKeeps
  <2>2. CASE n \in Elements(s)
    <3>1. PICK k \in 1 .. Len(s) : s[k] = n  BY <2>2 DEF Elements
    <3>2. PICK g : g = IF h = n THEN next[n] ELSE h  OBVIOUS
    <3>3. Walk(Without(s, k), g)'  BY <1>11, <3>1, <3>2
    <3>4. First' = g  BY <1>3, <1>5, <1>8, <3>2
    <3> QED  BY <1>6, <1>7, <3>3, <3>4, StepRemoves
  <2> QED  BY <2>1, <2>2
<1>12. CASE /\ Walk(s, h)'
            /\ h = n => Len(s) # 0 /\ \A g : g = next[n] => Walk(Without(s, 1), g)'
  <2>1. CASE h # n
    <3>1. First' = h  BY <1>3, <1>5, <1>8, <2>1
    <3> QED  BY <1>6, <1>7, <1>12, <3>1, StepKeeps
  <2>2. CASE h = n
    <3>1. PICK g : g = next[n]  OBVIOUS
    <3>2. Walk(Without(s, 1), g)' /\ First' = g  BY <1>3, <1>5, <1>8, <1>12, <2>2, <3>1
    <3>3. 1 \in 1 .. Len(s)  BY <1>9, <1>12, <2>2, WalkFacts
    <3> QED  BY <1>6, <1>7, <3>2, <3>3, StepRemoves
  <2> QED  BY <2>1, <2>2
<1> QED  BY <1>3, <1>6, <1>9, <1>11, <1>12, FreeWalk

LEMMA StartRefines ==
    ASSUME ListAssumption, IInv, IInv', Walkable, NEW o \in {"deviceDelete", "freeAll"}, StartFreeAll(o)
    PROVE  Refines
<1>1. call.op = "none" /\ ~HeadIsStale /\ UNCHANGED listVars  BY DEF StartFreeAll
<1>2. ~InFreeLoop /\ NULL \notin Nodes  BY <1>1 DEF InFreeLoop, ListAssumption
<1>3. UNCHANGED <<mem, next>> /\ head' = head /\ Live' = Live  BY <1>1 DEF listVars, Live
<1>4. First = head  BY <1>1, <1>2, FirstIs
<1>5. CASE head = NULL /\ call' = CallOf(o, 0, NULL, NULL)
  <2>1. head' \notin Live' /\ call'.cursor = NULL  BY <1>2, <1>3, <1>5 DEF Live, CallOf
  <2>2. First' = First  BY <1>4, <1>5, <2>1 DEF First
  <2> QED  BY <1>3, <2>2, SameList
<1>6. ASSUME head # NULL, NEW t \in Nodes, IsHead(head, t), call' = CallOf(o, 0, NULL, t)
      PROVE  Refines
  <2>1. head \in Live  BY <1>1, <1>6 DEF HeadIsStale
  <2>2. head \in Chain(head, next)
    <3>1. head \in Nodes  BY <2>1 DEF Live
    <3> QED  BY <3>1, InChain
  <2>3. head \in Chain(t, next)  BY <1>2, <1>6, <2>1, <2>2, HeadSeesAll DEF IInv, LinksOK
  <2>4. t # NULL /\ call'.cursor = t  BY <1>2, <1>6 DEF CallOf
  <2>5. Rest(call.cursor)' = Chain(t, next')  BY <2>4 DEF Rest, Chain
  <2>6. head' \in Live' /\ head' \in Rest(call.cursor)'  BY <1>3, <2>1, <2>3, <2>5
  <2>7. First' = First  BY <1>3, <1>4, <2>6 DEF First
  <2> QED  BY <1>3, <2>7, SameList
<1> QED  BY <1>5, <1>6 DEF StartFreeAll

LEMMA EndRefines ==
    ASSUME ListAssumption, IInv, IInv', Walkable, FreeAllEnd
    PROVE  Refines
<1>1. /\ call.op \in {"deviceDelete", "freeAll"} /\ call.cursor = NULL /\ call' = NoCall
      /\ head' = (IF call.op = "deviceDelete" THEN NULL ELSE head) /\ UNCHANGED <<mem, next>>
      BY DEF FreeAllEnd, Return
<1>2. Live' = Live /\ NULL \notin Live  BY <1>1 DEF Live, ListAssumption
<1>3. call'.cursor = NULL /\ call'.op = "none"  BY <1>1 DEF NoCall, CallOf
<1>4. Rest(call.cursor) = {}  BY <1>1 DEF Rest
<1>5. First' = First  BY <1>1, <1>2, <1>3, <1>4 DEF First
<1> QED  BY <1>1, <1>5, SameList

LEMMA ExitRefines ==
    ASSUME ListAssumption, IInv, IInv', Walkable, Exit
    PROVE  Refines
<1>1. call.op = "none" /\ HeadIsStale /\ call' = call /\ head' = NULL  BY DEF Exit
<1>2. ~InFreeLoop /\ ~InFreeLoop'  BY <1>1 DEF InFreeLoop
<1>3. First = NULL  BY <1>1, <1>2, FirstIs DEF HeadIsStale
<1>4. First' = NULL  BY <1>1, <1>2, FirstIsAfter DEF HeadIsStale
<1>5. PICK s : Walk(s, First)  BY DEF Walkable
<1>6. Len(s) = 0
  <2>1. Len(s) # 0 => 1 \in 1 .. Len(s)  BY <1>5, WalkFacts
  <2>2. NULL \notin Live  BY DEF Live, ListAssumption
  <2> QED  BY <1>3, <1>5, <2>1, <2>2, WalkFacts DEF Walk
<1>7. Elements(s) = {}  BY <1>6 DEF Elements
<1>8. Walk(s, NULL)'  BY <1>3, <1>5, <1>7, SameWalk
<1>9. NoRing /\ NoRing'  BY DEF IInv, LinksOK
<1> QED  BY <1>4, <1>5, <1>8, <1>9, StepKeeps

(* From an object of a walk on, a loop comes only by later ones. *)
LEMMA LaterOnly ==
    ASSUME NULL \notin Nodes, NoRing, NEW s, NEW h, Walk(s, h), NEW k \in 1 .. Len(s), k # 1
    PROVE  h \notin Chain(s[k], next)
<1> DEFINE S == {s[j] : j \in k .. Len(s)}
<1>1. Len(s) \in Nat /\ \A j \in 1 .. Len(s) : s[j] \in Nodes  BY WalkFacts
<1>2. \A j \in k .. Len(s) : j \in 1 .. Len(s) /\ j # 1  BY <1>1
<1>3. S \in SUBSET Nodes /\ s[k] \in S  BY <1>1, <1>2
<1>4. ASSUME NEW j \in k .. Len(s)  PROVE next[s[j]] \in S \cup {NULL}
  <2>1. next[s[j]] = IF j = Len(s) THEN NULL ELSE s[j + 1]  BY <1>2 DEF Walk
  <2>2. j # Len(s) => j + 1 \in k .. Len(s)  BY <1>1
  <2> QED  BY <2>1, <2>2
<1>5. Closed(S, next)  BY <1>4 DEF Closed
<1>6. 1 \in 1 .. Len(s) /\ h = s[1]
  <2>1. 1 \in 1 .. Len(s) /\ Len(s) # 0  BY <1>1
  <2> QED  BY <2>1 DEF Walk
<1>7. h \notin S
  <2>1. \A j \in k .. Len(s) : s[j] # s[1]  BY <1>2, <1>6, WalkOnce
  <2> QED  BY <1>6, <2>1
<1> HIDE DEF S
<1> QED  BY <1>3, <1>5, <1>7, ChainInClosed

(* The loop while the device's pointer is good: it may still be before it. *)
LEMMA LoopRefinesHead ==
    ASSUME ListAssumption, IInv, IInv', Walkable, FreeAllStep,
           head \in Live, call.op = "deviceDelete" => head \in Rest(call.cursor)
    PROVE  Refines
<1>1. PICK c : c = call.cursor  OBVIOUS
<1>2. /\ c # NULL /\ DMABuffer_free(c) /\ head' = head
      /\ call'.cursor = next[c] /\ call'.op = call.op
  <2>1. call' = [call EXCEPT !.cursor = next[call.cursor]]  BY DEF FreeAllStep
  <2> QED  BY <1>1, <2>1 DEF FreeAllStep, IInv, CallType
<1>3. c \in Live  BY <1>1, <1>2 DEF IInv, CallOK
<1>4. LinksOK /\ NoRing /\ NoRing' /\ NULL \notin Nodes  BY DEF IInv, LinksOK, ListAssumption
<1>5. PICK h : h = head  OBVIOUS
<1>6. First = h  BY <1>5 DEF First
<1>7. PICK s : Walk(s, First)  BY DEF Walkable
<1>8. Walk(s, h) /\ Len(s) \in Nat  BY <1>6, <1>7, WalkFacts
<1>9. h # NULL /\ h \in Live  BY <1>4, <1>5 DEF Live
<1>10. Len(s) # 0 /\ s[1] = h /\ 1 \in 1 .. Len(s)  BY <1>8, <1>9 DEF Walk
<1>11. Rest(call.cursor) = Chain(c, next) /\ Rest(call.cursor)' = RestBy(next[c], next')
       BY <1>1, <1>2 DEF Rest, RestBy, Chain
<1>12. First' = IF h \in Live' /\ (call.op = "deviceDelete" => h \in RestBy(next[c], next'))
                THEN h ELSE next[c]
       BY <1>2, <1>5, <1>11 DEF First
<1>13. CASE /\ Live' = Live \ {c} /\ DMABuffer_removeNode(c)
            /\ c \notin Elements(s) => Walk(s, h)'
            /\ \A k \in 1 .. Len(s) : s[k] = c =>
                  \A g : g = (IF h = c THEN next[c] ELSE h) => Walk(Without(s, k), g)'
  <2>1. ASSUME h # c  PROVE First' = h
    <3>1. h \in Live'  BY <1>9, <1>13, <2>1
    <3>2. call.op = "deviceDelete" => h \in RestBy(next[c], next')
          BY <1>3, <1>4, <1>5, <1>11, <1>13, <2>1, WalkSkips
    <3> QED  BY <1>12, <3>1, <3>2
  <2>2. CASE c \notin Elements(s)
    <3>1. h # c  BY <1>10, <2>2 DEF Elements
    <3> QED  BY <1>4, <1>7, <1>13, <2>1, <2>2, <3>1, StepKeeps
  <2>3. CASE c \in Elements(s)
    <3>1. PICK k \in 1 .. Len(s) : s[k] = c  BY <2>3 DEF Elements
    <3>2. PICK g : g = IF h = c THEN next[c] ELSE h  OBVIOUS
    <3>3. Walk(Without(s, k), g)'  BY <1>13, <3>1, <3>2
    <3>4. h = c => First' = next[c]  BY <1>12, <1>13
    <3>5. First' = g  BY <2>1, <3>2, <3>4
    <3> QED  BY <1>4, <1>7, <3>3, <3>5, StepRemoves
  <2> QED  BY <2>2, <2>3
<1>14. CASE /\ Live' = Live /\ next' = next
            /\ Walk(s, h)'
            /\ h = c => Len(s) # 0 /\ \A g : g = next[c] => Walk(Without(s, 1), g)'
  <2>1. CASE call.op # "deviceDelete" \/ h # c
    <3>1. call.op = "deviceDelete" => h \in RestBy(next[c], next')
          BY <1>3, <1>5, <1>11, <1>14, <1>4, <2>1, WalkSteps
    <3>2. First' = h  BY <1>9, <1>12, <1>14, <3>1
    <3> QED  BY <1>4, <1>7, <1>14, <3>2, StepKeeps
  <2>2. CASE call.op = "deviceDelete" /\ h = c
    <3>1. h \notin RestBy(next[c], next')
      <4>1. CASE Len(s) = 1
        <5>1. next[c] = NULL  BY <1>10, <2>2, <4>1, <1>8 DEF Walk
        <5> QED  BY <5>1 DEF RestBy
      <4>2. CASE Len(s) # 1
        <5>0. PICK m \in Nat : m = Len(s)  BY <1>8
        <5>1. 2 \in 1 .. Len(s)
          <6>1. m # 0 /\ m # 1  BY <1>10, <4>2, <5>0
          <6>2. 2 \in 1 .. m  BY <6>1
          <6> QED  BY <5>0, <6>2
        <5>2. next[c] = s[2]
          <6>1. next[s[1]] = s[1 + 1]  BY <1>8, <1>10, <4>2 DEF Walk
          <6> QED  BY <1>10, <2>2, <6>1
        <5>3. h \notin Chain(s[2], next)  BY <1>4, <1>8, <5>1, LaterOnly
        <5> QED  BY <1>14, <5>2, <5>3 DEF RestBy
      <4> QED  BY <4>1, <4>2
    <3>2. PICK g : g = next[c]  OBVIOUS
    <3>3. Walk(Without(s, 1), g)' /\ First' = g  BY <1>12, <1>14, <2>2, <3>1, <3>2
    <3> QED  BY <1>4, <1>7, <1>10, <3>3, StepRemoves
  <2> QED  BY <2>1, <2>2
<1> QED  BY <1>2, <1>3, <1>4, <1>8, <1>13, <1>14, FreeWalk

(* The loop behind the device's pointer: the list starts at the cursor. *)
LEMMA LoopRefinesCursor ==
    ASSUME ListAssumption, IInv, IInv', Walkable, FreeAllStep,
           ~ (head \in Live /\ (call.op = "deviceDelete" => head \in Rest(call.cursor)))
    PROVE  Refines
<1>1. PICK c : c = call.cursor  OBVIOUS
<1>2. /\ c # NULL /\ DMABuffer_free(c) /\ head' = head
      /\ call'.cursor = next[c] /\ call'.op = call.op
  <2>1. call' = [call EXCEPT !.cursor = next[call.cursor]]  BY DEF FreeAllStep
  <2> QED  BY <1>1, <2>1 DEF FreeAllStep, IInv, CallType
<1>3. c \in Live  BY <1>1, <1>2 DEF IInv, CallOK
<1>4. LinksOK /\ NoRing /\ NoRing' /\ NULL \notin Nodes  BY DEF IInv, LinksOK, ListAssumption
<1>5. First = c  BY <1>1 DEF First
<1>6. PICK s : Walk(s, First)  BY DEF Walkable
<1>7. Walk(s, c) /\ Len(s) \in Nat  BY <1>5, <1>6, WalkFacts
<1>8. Len(s) # 0 /\ s[1] = c /\ 1 \in 1 .. Len(s)  BY <1>2, <1>7 DEF Walk
<1>9. Rest(call.cursor) = Elements(s)
      BY <1>1, <1>2, <1>4, <1>7, WalkIsRest DEF Rest, RestBy
<1>10. Elements(s) \in SUBSET Nodes /\ Closed(Elements(s), next)
  <2>1. \A k \in 1 .. Len(s) : s[k] \in Nodes /\ (k # Len(s) => k + 1 \in 1 .. Len(s))
        BY <1>7, WalkFacts
  <2>2. ASSUME NEW k \in 1 .. Len(s)  PROVE next[s[k]] \in Elements(s) \cup {NULL}
        BY <1>7, <2>1 DEF Walk, Elements
  <2> QED  BY <2>1, <2>2 DEF Closed, Elements
<1>11. c \in Elements(s) /\ next[c] \in Elements(s) \cup {NULL}
       BY <1>8, <1>10 DEF Closed, Elements
<1>12. PICK g : g = next[c]  OBVIOUS
<1>13. ASSUME Live' \subseteq Live, Closed(Elements(s), next')  PROVE First' = g
  <2>1. RestBy(next[c], next') \subseteq Elements(s)
        BY <1>10, <1>11, <1>13, ChainInClosed DEF RestBy
  <2>2. Rest(call.cursor)' = RestBy(next[c], next')  BY <1>2 DEF Rest, RestBy, Chain
  <2>3. ~ (head' \in Live' /\ (call'.op = "deviceDelete" => head' \in Rest(call.cursor)'))
        BY <1>2, <1>9, <1>13, <2>1, <2>2
  <2> QED  BY <1>2, <1>12, <2>3 DEF First
<1>14. CASE /\ Live' = Live \ {c} /\ DMABuffer_removeNode(c)
            /\ \A k \in 1 .. Len(s) : s[k] = c =>
                  \A x : x = (IF c = c THEN next[c] ELSE c) => Walk(Without(s, k), x)'
  <2>1. \A x \in Nodes : next'[x] = IF x = c THEN NULL ELSE IF x = prev[c] THEN next[c] ELSE next[x]
        BY <1>3, <1>4, <1>14, RemoveEffect
  <2>2. Closed(Elements(s), next')  BY <1>10, <1>11, <2>1 DEF Closed
  <2>3. First' = g  BY <1>13, <1>14, <2>2
  <2>4. Walk(Without(s, 1), g)'  BY <1>8, <1>12, <1>14
  <2> QED  BY <1>4, <1>6, <1>8, <2>3, <2>4, StepRemoves
<1>15. CASE /\ Live' = Live /\ next' = next
            /\ \A x : x = next[c] => Walk(Without(s, 1), x)'
  <2>1. First' = g  BY <1>10, <1>13, <1>15
  <2>2. Walk(Without(s, 1), g)'  BY <1>12, <1>15
  <2> QED  BY <1>4, <1>6, <1>8, <2>1, <2>2, StepRemoves
<1> QED  BY <1>2, <1>3, <1>4, <1>7, <1>14, <1>15, FreeWalk

LEMMA NextRefines ==
    ASSUME IInv, IInv', Walkable, [Next]_vars
    PROVE  Refines
<1> USE ListAssumption
<1>1. CASE PciDevice_allocDMABuffer \/ PciDevice_registerDMABuffer \/ PciDevice_getDMABuffer \/ Lookup
      BY <1>1, AddersRefine
<1>2. CASE PciDevice_deleteDMABuffer  BY <1>2, DeleteRefines
<1>3. CASE PciDevice_delete \/ PciDevice_freeAllBuffers
      BY <1>3, StartRefines DEF PciDevice_delete, PciDevice_freeAllBuffers
<1>4. CASE FreeAllStep  BY <1>4, LoopRefinesHead, LoopRefinesCursor
<1>5. CASE FreeAllEnd  BY <1>5, EndRefines
<1>6. CASE Exit  BY <1>6, ExitRefines
<1>7. CASE UNCHANGED vars
  <2>1. UNCHANGED <<mem, next>>  BY <1>7 DEF vars
  <2>2. First' = First  BY <1>7 DEF vars, First, Live, Rest, Chain
  <2> QED  BY <2>1, <2>2, SameList
<1> QED  BY <1>1, <1>2, <1>3, <1>4, <1>5, <1>6, <1>7 DEF Next

(***************************************************************************)
(* The linked list is a sequence in the order of creation: each call adds  *)
(* one object at the end or takes one out and leaves the others in their   *)
(* order, also where munlock fails and while DMABuffer_freeAllBuffersInt   *)
(* walks a list whose first objects the device has lost.                   *)
(***************************************************************************)
THEOREM ListIsSequence == Spec => RefinesSequence
<1>1. Init => Abs!Init /\ Walkable
  <2> SUFFICES ASSUME Init  PROVE Abs!Init /\ Walkable
      OBVIOUS
  <2>1. First = NULL  BY DEF Init, First, Live, NoCall, CallOf
  <2>2. Walk(<<>>, First)  BY <2>1 DEF Walk
  <2>3. NoRing  BY DEF Init, NoRing, Live
  <2>4. AsSequence = <<>>  BY <2>2, <2>3, SequenceOf
  <2> QED  BY <2>2, <2>4 DEF Abs!Init, Walkable
<1>2. IInv /\ IInv' /\ Walkable /\ [Next]_vars => Walkable' /\ [Abs!Next]_AsSequence
      BY NextRefines DEF Refines
<1> QED  BY <1>1, <1>2, Invariance, PTL DEF Spec, RefinesSequence, Abs!Spec

====
