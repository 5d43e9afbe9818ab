------------------------- MODULE KernelRequest_proofs -------------------------
(***************************************************************************)
(* Theorems of KernelRequest, for any threads, buffers and names: types,   *)
(* how the exclusion of the writes can end and that it never does without  *)
(* a write of the wrong size, that the kset holds complete buffers, and    *)
(* that the writes implement the atomic table of module BufferStore.       *)
(***************************************************************************)
EXTENDS KernelRequest, TLAPS

(***************************************************************************)
(* The faults under which the buffers stay complete: a sysfs file cannot   *)
(* be created.  A write of the wrong size breaks the lock, and a failed    *)
(* allocation leaves its kobject in the kset; both are in the README.      *)
(***************************************************************************)
OnlySysfs == Faults \subseteq {"sysfs"}

(* Types; and a request has its priv once it has allocated it. *)
TypeInv ==
    /\ TypeOK
    /\ \A t \in Threads : th[t].pc \in {"find", "add"} => th[t].priv \in Privs

(* A request from its call to the label exit, and a delete. *)
Requesting == {"lockReq", "kzalloc", "find", "add", "memory", "mapfile", "sgfile",
               "binfile", "exit"}
Deleting   == {"lockDel", "findDel"}

(* The steps at which the thread's buffer is in the kset and not complete. *)
Building == {"memory", "mapfile", "sgfile", "binfile", "free", "del"}

(* What the step of a write says of its arguments. *)
ArgsOK(t) ==
    /\ th[t].pc = "idle" => th[t] = Idle
    /\ th[t].pc \in Requesting => th[t].name \in Names /\ th[t].kind \in Kinds
    /\ th[t].pc \in Deleting   => th[t].name \in Names /\ th[t].kind = NULL

(* What the step of a write says of its buffer. *)
BufferOK(t) ==
    LET o == th[t].priv IN
    /\ th[t].pc \in {"find", "add"} =>
          o \in heap \ kset /\ files[o] = {}
    /\ th[t].pc \in {"memory", "mapfile", "sgfile", "binfile"} =>
          o \in heap \cap kset /\ name[o] = th[t].name /\ "sg" \notin files[o]
    /\ th[t].pc \in {"memory", "mapfile"} => files[o] = {}
    /\ th[t].pc = "sgfile" => files[o] = {"map"}
    /\ th[t].pc \in {"mapfile", "sgfile"} => pages[o] = th[t].kind
    /\ th[t].pc = "binfile" => "sysfs" \in Faults
    /\ th[t].pc = "exit" =>
          o \in heap \ kset /\ (Exists(th[t].name) \/ "sysfs" \in Faults)
    /\ th[t].pc \in {"free", "del"} => o \in kset /\ files[o] = {}
    /\ th[t].pc \notin {"hang", "oops"}

Complete(o) == o \in heap /\ pages[o] # "none" /\ files[o] = {"map", "sg"}

(* A buffer in the kset is complete, or a thread is at work on it. *)
KsetComplete ==
    \A o \in kset :
        Complete(o) \/ \E t \in Threads : th[t].pc \in Building /\ th[t].priv = o

DistinctNames == \A o, u \in kset : name[o] = name[u] => o = u

NoBadCount == \A t \in Threads : th[t].pc # "badCount"

IInv ==
    /\ TypeInv /\ NoBadCount /\ AllocFreeExclusive
    /\ \A t \in Threads : ArgsOK(t) /\ BufferOK(t)
    /\ KsetComplete /\ DistinctNames /\ reused = {}

-----------------------------------------------------------------------------
(* Goto changes one component of one thread's entry. *)
LEMMA GotoEffect ==
  ASSUME th \in [Threads -> ThreadType], NEW t \in Threads, NEW l \in PCs, Goto(t, l)
  PROVE  /\ th' \in [Threads -> ThreadType]
         /\ th'[t].pc = l /\ th'[t].name = th[t].name
         /\ th'[t].kind = th[t].kind /\ th'[t].priv = th[t].priv
         /\ \A u \in Threads \ {t} : th'[u] = th[u]
  BY DEF Goto, ThreadType

(* Take changes two. *)
LEMMA TakeEffect ==
  ASSUME th \in [Threads -> ThreadType], NEW t \in Threads, NEW l \in PCs, NEW o \in Privs,
         Take(t, o, l)
  PROVE  /\ th' \in [Threads -> ThreadType]
         /\ th'[t].pc = l /\ th'[t].name = th[t].name
         /\ th'[t].kind = th[t].kind /\ th'[t].priv = o
         /\ \A u \in Threads \ {t} : th'[u] = th[u]
  <1> DEFINE r == [th[t] EXCEPT !.pc = l, !.priv = o]
  <1>1. r \in ThreadType /\ r.pc = l /\ r.priv = o /\ r.name = th[t].name /\ r.kind = th[t].kind
    BY DEF ThreadType
  <1>2. th' = [th EXCEPT ![t] = r]
    BY DEF Take
  <1> HIDE DEF r
  <1> QED  BY <1>1, <1>2

(* A write to "free" sets two components of its thread's entry. *)
LEMMA DeleteEffect ==
  ASSUME th \in [Threads -> ThreadType], NEW t \in Threads, delete_buffer_write(t)
  PROVE  /\ th' \in [Threads -> ThreadType]
         /\ th'[t].pc = "lockDel" /\ th'[t].name \in Names
         /\ th'[t].kind = th[t].kind /\ th'[t].priv = th[t].priv
         /\ \A u \in Threads \ {t} : th'[u] = th[u]
  <1>1. PICK n \in Names : th' = [th EXCEPT ![t].pc = "lockDel", ![t].name = n]
    BY DEF delete_buffer_write
  <1>2. "lockDel" \in PCs
    BY DEF PCs
  <1> QED  BY <1>1, <1>2 DEF ThreadType

(* Idle is a thread entry. *)
LEMMA IdleType == Idle \in ThreadType /\ Idle.pc = "idle"
  BY DEF Idle, ThreadType, PCs

(* The initial state has the types. *)
LEMMA InitType == Init => TypeInv
  BY IdleType DEF Init, TypeInv, TypeOK, ThreadType

(* Every step keeps the types, whatever fails. *)
LEMMA NextType == TypeInv /\ [Next]_vars => TypeInv'
  <1> SUFFICES ASSUME TypeInv, [Next]_vars PROVE TypeInv'
    OBVIOUS
  <1>1. CASE UNCHANGED vars
    BY <1>1 DEF vars, TypeInv, TypeOK
  <1>2. ASSUME NEW t \in Threads,
               request_buffer_write(t) \/ delete_buffer_write(t) \/ Step(t)
        PROVE  TypeInv'
    <2> USE RequestAssumption, IdleType DEF TypeInv, TypeOK, bufferVars
    <2>1. CASE request_buffer_write(t)
      BY <2>1 DEF request_buffer_write, Goto, ThreadType, PCs
    <2>2. CASE delete_buffer_write(t)
      BY <2>2, DeleteEffect DEF delete_buffer_write
    <2>3. CASE mutex_lock(t)
      BY <2>3, GotoEffect DEF mutex_lock, PCs, Critical
    <2>4. CASE mutex_unlock(t)
      BY <2>4 DEF mutex_unlock, ThreadType
    <2>5. CASE Kzalloc(t)
      <3>1. "find" \in PCs /\ "exit" \in PCs
        BY DEF PCs, Critical
      <3>2. ASSUME NEW o \in Privs, Take(t, o, "find"),
                   heap' = heap \cup {o}, reused' = reused \cup ({o} \cap kset),
                   files' = [files EXCEPT ![o] = {}], pages' = [pages EXCEPT ![o] = "none"]
            PROVE  TypeInv'
        <4>1. th' \in [Threads -> ThreadType]
          BY <3>1, <3>2, TakeEffect
        <4>2. th'[t].priv = o /\ \A u \in Threads \ {t} : th'[u] = th[u]
          BY <3>1, <3>2, TakeEffect
        <4>3. /\ heap' \subseteq Privs /\ reused' \subseteq Privs
              /\ files' \in [Privs -> SUBSET {"map", "sg"}]
              /\ pages' \in [Privs -> {"none", "kernel", "user"}]
          BY <3>2 DEF ThreadType
        <4> QED  BY <2>5, <4>1, <4>2, <4>3 DEF Kzalloc
      <3>3. CASE Goto(t, "exit") /\ UNCHANGED <<heap, reused, files, pages>>
        BY <2>5, <3>1, <3>3, GotoEffect DEF Kzalloc
      <3> QED  BY <2>5, <3>2, <3>3 DEF Kzalloc
    <2>6. CASE Find(t)
      BY <2>6, GotoEffect DEF Find, PCs, Critical
    <2>7. CASE Add(t)
      <3>1. name' \in [Privs -> Names \cup {NULL}] /\ kset' \subseteq Privs
        BY <2>7 DEF Add, ThreadType
      <3> QED  BY <2>7, <3>1, GotoEffect DEF Add, PCs, Critical
    <2>8. CASE allocate_kernel_memory(t)
      BY <2>8, GotoEffect DEF allocate_kernel_memory, PCs, Critical
    <2>9. CASE allocate_user_memory(t)
      BY <2>9, GotoEffect DEF allocate_user_memory, PCs, Critical
    <2>10. CASE CreateFiles(t)
      BY <2>10, GotoEffect DEF CreateFiles, CreateFile, PCs, Critical
    <2>11. CASE ExitBinfile(t)
      <3>1. Goto(t, "exit") /\ "exit" \in PCs
        BY <2>11 DEF ExitBinfile, PCs, Critical
      <3>2. files' \in [Privs -> SUBSET {"map", "sg"}] /\ kset' \subseteq Privs
        BY <2>11 DEF ExitBinfile
      <3> QED  BY <2>11, <3>1, <3>2, GotoEffect DEF ExitBinfile
    <2>12. CASE Exit(t)
      BY <2>12, GotoEffect DEF Exit, PCs, Critical
    <2>13. CASE FindDel(t)
      <3>1. "free" \in PCs /\ "unlock" \in PCs /\ "hang" \in PCs
        BY DEF PCs, Critical
      <3>2. ASSUME NEW o \in kset, Take(t, o, "free"),
                   files' = [files EXCEPT ![o] = {}]
            PROVE  TypeInv'
        <4>1. th' \in [Threads -> ThreadType]
          BY <3>1, <3>2, TakeEffect
        <4>2. th'[t].pc = "free" /\ \A u \in Threads \ {t} : th'[u] = th[u]
          BY <3>1, <3>2, TakeEffect
        <4>3. files' \in [Privs -> SUBSET {"map", "sg"}]
          BY <3>2
        <4> QED  BY <2>13, <4>1, <4>2, <4>3 DEF FindDel
      <3>3. CASE (Goto(t, "unlock") \/ Goto(t, "hang")) /\ UNCHANGED files
        BY <2>13, <3>1, <3>3, GotoEffect DEF FindDel
      <3> QED  BY <2>13, <3>2, <3>3 DEF FindDel, Found
    <2>14. CASE Free(t)
      <3>1. Goto(t, "del") /\ "del" \in PCs
        BY <2>14 DEF Free, PCs, Critical
      <3>2. pages' \in [Privs -> {"none", "kernel", "user"}] /\ heap' \subseteq Privs
        BY <2>14 DEF Free
      <3> QED  BY <2>14, <3>1, <3>2, GotoEffect DEF Free
    <2>15. CASE Del(t)
      BY <2>15, GotoEffect DEF Del, PCs, Critical
    <2> QED  BY <1>2, <2>1, <2>2, <2>3, <2>4, <2>5, <2>6, <2>7, <2>8, <2>9, <2>10,
                <2>11, <2>12, <2>13, <2>14, <2>15 DEF Step
  <1> QED  BY <1>1, <1>2 DEF Next

(* The typing invariant is one. *)
LEMMA TypeInvariance == Spec => []TypeInv
  BY InitType, NextType, PTL DEF Spec

(***************************************************************************)
(* Every variable of the adapter keeps its type, whatever fails: above all *)
(* kobject_add is never called for a priv that kzalloc did not return.     *)
(***************************************************************************)
THEOREM TypeCorrect == Spec => []TypeOK
  <1>1. TypeInv => TypeOK
    BY DEF TypeInv
  <1> QED  BY <1>1, TypeInvariance, PTL

-----------------------------------------------------------------------------
(* Goto does not lead into the critical section, nor out of it. *)
LEMMA StaysExclusive ==
  ASSUME TypeInv, NEW t \in Threads, AllocFreeExclusive, owner' = owner,
         th'[t].pc \in Critical => th[t].pc \in Critical,
         \A u \in Threads \ {t} : th'[u] = th[u]
  PROVE  AllocFreeExclusive'
  BY DEF AllocFreeExclusive

(***************************************************************************)
(* Why the exclusion holds from one step to the next: only mutex_lock      *)
(* enters the critical section, when nobody is in it, and a thread unlocks *)
(* at its end.  A write of the wrong size unlocks what it never locked.    *)
(***************************************************************************)
LEMMA ExclusionStep ==
  ASSUME TypeInv, AllocFreeExclusive, NEW t \in Threads,
         request_buffer_write(t) \/ delete_buffer_write(t) \/ Step(t)
  PROVE  AllocFreeExclusive' \/ (th[t].pc = "badCount" /\ th'[t].pc = "idle")
  <1> USE RequestAssumption, IdleType DEF TypeInv, TypeOK, bufferVars
  <1>1. CASE request_buffer_write(t)
    <2>1. th'[t].pc \in {"lockReq", "badCount"} /\ \A u \in Threads \ {t} : th'[u] = th[u]
      BY <1>1 DEF request_buffer_write, Goto, ThreadType
    <2> QED  BY <1>1, <2>1, StaysExclusive DEF request_buffer_write, Critical
  <1>2. CASE delete_buffer_write(t)
    BY <1>2, DeleteEffect, StaysExclusive DEF delete_buffer_write, Critical
  <1>3. CASE mutex_lock(t)
    <2>1. \A u \in Threads \ {t} : th'[u] = th[u]
      BY <1>3 DEF mutex_lock, Goto
    <2> QED  BY <1>3, <2>1 DEF mutex_lock, AllocFreeExclusive
  <1>4. CASE mutex_unlock(t)
    <2>1. th'[t] = Idle /\ \A u \in Threads \ {t} : th'[u] = th[u]
      BY <1>4 DEF mutex_unlock
    <2>2. CASE th[t].pc = "badCount"
      BY <2>1, <2>2
    <2>3. CASE th[t].pc = "unlock"
      <3>1. owner = t
        BY <2>3 DEF AllocFreeExclusive, Critical
      <3> QED  BY <2>1, <3>1 DEF AllocFreeExclusive, Critical
    <2> QED  BY <1>4, <2>2, <2>3 DEF mutex_unlock
  <1>5. CASE \/ Kzalloc(t) \/ Find(t) \/ Add(t)
             \/ allocate_kernel_memory(t) \/ allocate_user_memory(t) \/ CreateFiles(t)
             \/ ExitBinfile(t) \/ Exit(t) \/ FindDel(t) \/ Free(t) \/ Del(t)
    <2>1. owner' = owner /\ th[t].pc \in Critical
      BY <1>5 DEF Kzalloc, Find, Add, allocate_kernel_memory, allocate_user_memory,
                  CreateFiles, CreateFile, ExitBinfile, Exit, FindDel, Free, Del, Critical
    <2>2. \A u \in Threads \ {t} : th'[u] = th[u]
      BY <1>5 DEF Kzalloc, Find, Add, allocate_kernel_memory, allocate_user_memory,
                  CreateFiles, CreateFile, ExitBinfile, Exit, FindDel, Free, Del, Goto, Take
    <2> QED  BY <2>1, <2>2, StaysExclusive
  <1> QED  BY <1>1, <1>2, <1>3, <1>4, <1>5 DEF Step

(***************************************************************************)
(* No failure of a write ends the exclusion of alloc_free_lock, but for    *)
(* the one path that jumps over mutex_lock to mutex_unlock: the check of   *)
(* the size of the data written to "request".                              *)
(***************************************************************************)
THEOREM ExclusionEndsOneWay == Spec => ExclusionKept
  <1>1. TypeInv /\ [Next]_vars =>
           [AllocFreeExclusive /\ ~AllocFreeExclusive' =>
               \E t \in Threads : th[t].pc = "badCount" /\ th'[t].pc = "idle"]_vars
    BY ExclusionStep DEF Next
  <1> QED  BY <1>1, TypeInvariance, PTL DEF Spec, ExclusionKept

(* A step keeps the exclusion if no write has the wrong size. *)
LEMMA RightSizeStep ==
  ASSUME "count" \notin Faults, TypeInv, NoBadCount, AllocFreeExclusive, NEW t \in Threads,
         request_buffer_write(t) \/ delete_buffer_write(t) \/ Step(t)
  PROVE  /\ NoBadCount' /\ AllocFreeExclusive'
         /\ \A u \in Threads \ {t} : th'[u] = th[u]
  <1>1. AllocFreeExclusive'
    BY ExclusionStep DEF NoBadCount
  <1>2. th'[t].pc # "badCount" /\ \A u \in Threads \ {t} : th'[u] = th[u]
    <2>0. th \in [Threads -> ThreadType] /\ kset \subseteq Privs
      BY DEF TypeInv, TypeOK
    <2>1. CASE request_buffer_write(t)
      BY <2>0, <2>1 DEF request_buffer_write
    <2>2. CASE delete_buffer_write(t)
      BY <2>0, <2>2, DeleteEffect
    <2>3. CASE mutex_unlock(t)
      BY <2>0, <2>3, IdleType DEF mutex_unlock
    <2>4. CASE Kzalloc(t) \/ FindDel(t)
      BY <2>0, <2>4, GotoEffect, TakeEffect DEF Kzalloc, FindDel, Found, PCs, Critical
    <2>5. CASE \/ mutex_lock(t) \/ Find(t) \/ Add(t)
               \/ allocate_kernel_memory(t) \/ allocate_user_memory(t) \/ CreateFiles(t)
               \/ ExitBinfile(t) \/ Exit(t) \/ Free(t) \/ Del(t)
      <3>1. PICK l \in PCs \ {"badCount"} : Goto(t, l)
        BY <2>5 DEF mutex_lock, Find, Add, allocate_kernel_memory, allocate_user_memory,
                    CreateFiles, CreateFile, ExitBinfile, Exit, Free, Del, PCs, Critical
      <3> QED  BY <2>0, <3>1, GotoEffect
    <2> QED  BY <2>1, <2>2, <2>3, <2>4, <2>5 DEF Step
  <1> QED  BY <1>1, <1>2 DEF NoBadCount

(***************************************************************************)
(* If every write has the right size, at most one thread is between        *)
(* mutex_lock and mutex_unlock, whatever else fails.                       *)
(***************************************************************************)
THEOREM WritesExclude ==
  ASSUME "count" \notin Faults
  PROVE  Spec => []AllocFreeExclusive
  <1> DEFINE Inv == TypeInv /\ NoBadCount /\ AllocFreeExclusive
  <1>1. Init => Inv
    BY InitType, IdleType DEF Init, NoBadCount, AllocFreeExclusive, Critical
  <1>2. Inv /\ [Next]_vars => Inv'
    <2> SUFFICES ASSUME Inv, [Next]_vars PROVE NoBadCount' /\ AllocFreeExclusive'
      BY NextType
    <2>1. CASE UNCHANGED vars
      BY <2>1 DEF vars, NoBadCount, AllocFreeExclusive
    <2>2. CASE Next
      BY <2>2, RightSizeStep DEF Next
    <2> QED  BY <2>1, <2>2
  <1>3. Inv => AllocFreeExclusive
    OBVIOUS
  <1> QED  BY <1>1, <1>2, <1>3, PTL DEF Spec

-----------------------------------------------------------------------------
(* The initial state satisfies the inductive invariant. *)
LEMMA InitIInv == Init => IInv
  <1> SUFFICES ASSUME Init PROVE IInv
    OBVIOUS
  <1>1. \A t \in Threads : ArgsOK(t) /\ BufferOK(t)
    BY IdleType DEF Init, ArgsOK, BufferOK, Requesting, Deleting
  <1>2. NoBadCount /\ AllocFreeExclusive /\ KsetComplete /\ DistinctNames
    BY IdleType DEF Init, NoBadCount, AllocFreeExclusive, Critical, KsetComplete, DistinctNames
  <1> QED  BY <1>1, <1>2, InitType DEF IInv, Init

(* The thread in the critical section is the only one at work on a buffer. *)
LEMMA OnlyMine ==
  ASSUME IInv, NEW t \in Threads, th[t].pc \in Critical
  PROVE  /\ \A o \in kset : Complete(o) \/ (th[t].pc \in Building /\ th[t].priv = o)
         /\ \A u \in Threads \ {t} : th[u].pc \notin Critical
  <1>1. \A u \in Threads \ {t} : th[u].pc \notin Critical
    BY DEF IInv, AllocFreeExclusive
  <1>2. Building \subseteq Critical
    BY DEF Building, Critical
  <1> QED  BY <1>1, <1>2 DEF IInv, KsetComplete

(* What a step in the critical section does cannot concern the others. *)
LEMMA OthersOK ==
  ASSUME IInv, NEW t \in Threads, th[t].pc \in Critical,
         \A u \in Threads \ {t} : th'[u] = th[u]
  PROVE  \A u \in Threads \ {t} : ArgsOK(u)' /\ BufferOK(u)'
  <1> SUFFICES ASSUME NEW u \in Threads \ {t} PROVE ArgsOK(u)' /\ BufferOK(u)'
    OBVIOUS
  <1>1. th'[u] = th[u] /\ th[u].pc \notin Critical
    BY OnlyMine
  <1>2. ArgsOK(u)'
    BY <1>1 DEF IInv, ArgsOK
  <1>3. BufferOK(u)'
    BY <1>1 DEF BufferOK, Critical
  <1> QED  BY <1>2, <1>3

(* A priv is not given out again while it is in the kset. *)
LEMMA NothingReused ==
  ASSUME IInv, NEW t \in Threads, Step(t)
  PROVE  reused' = {}
  <1>1. CASE Kzalloc(t)
    <2>1. kset \subseteq heap
      BY <1>1, OnlyMine DEF Kzalloc, Critical, Building, Complete
    <2> QED  BY <1>1, <2>1 DEF Kzalloc, IInv
  <1>2. CASE ~Kzalloc(t)
    BY <1>2 DEF Step, IInv, mutex_lock, mutex_unlock, Find, Add, allocate_kernel_memory,
                allocate_user_memory, CreateFiles, CreateFile, ExitBinfile, Exit, FindDel, Free,
                Del, bufferVars
  <1> QED  BY <1>1, <1>2

(***************************************************************************)
(* It is enough to look at the thread that takes a step in the critical    *)
(* section, at the buffers in the kset, and at their names.                *)
(***************************************************************************)
LEMMA CriticalStep ==
  ASSUME OnlySysfs, IInv, NEW t \in Threads, Step(t), th[t].pc \in Critical,
         ArgsOK(t)', BufferOK(t)',
         \A o \in kset' : Complete(o)' \/ (th'[t].pc \in Building /\ th'[t].priv = o),
         DistinctNames'
  PROVE  IInv'
  <1>1. TypeInv'
    BY NextType DEF IInv, Next
  <1>2. NoBadCount' /\ AllocFreeExclusive' /\ \A u \in Threads \ {t} : th'[u] = th[u]
    BY RightSizeStep DEF IInv, OnlySysfs
  <1>3. \A u \in Threads : ArgsOK(u)' /\ BufferOK(u)'
    BY <1>2, OthersOK
  <1>4. KsetComplete'
    BY DEF KsetComplete
  <1> QED  BY <1>1, <1>2, <1>3, <1>4, NothingReused DEF IInv

-----------------------------------------------------------------------------
(* The steps of a request up to kobject_add: the new priv is not listed. *)
LEMMA AllocateSteps ==
  ASSUME OnlySysfs, IInv, NEW t \in Threads, Kzalloc(t) \/ Find(t) \/ Add(t)
  PROVE  IInv'
  <1> DEFINE Mine == \A o \in kset' : Complete(o)' \/ (th'[t].pc \in Building /\ th'[t].priv = o)
  <1>0. /\ th[t].pc \in Critical /\ Step(t)
        /\ ArgsOK(t) /\ BufferOK(t) /\ TypeInv /\ DistinctNames
        /\ th \in [Threads -> ThreadType]
    BY DEF Kzalloc, Find, Add, Critical, Step, IInv, TypeInv, TypeOK
  <1>m. \A o \in kset : Complete(o) \/ (th[t].pc \in Building /\ th[t].priv = o)
    BY <1>0, OnlyMine
  <1> USE RequestAssumption DEF OnlySysfs
  <1>1. CASE Kzalloc(t)
    <2>1. PICK o \in Privs \ (heap \cup kset) :
             /\ heap'   = heap \cup {o}
             /\ reused' = reused \cup ({o} \cap kset)
             /\ files'  = [files EXCEPT ![o] = {}]
             /\ pages'  = [pages EXCEPT ![o] = "none"]
             /\ Take(t, o, "find")
      <3>1. kset \subseteq heap
        BY <1>1, <1>m DEF Kzalloc, Building, Complete
      <3> QED  BY <1>1, <3>1 DEF Kzalloc
    <2>2. /\ th'[t].pc = "find" /\ th'[t].priv = o
          /\ th'[t].name = th[t].name /\ th'[t].kind = th[t].kind
      BY <2>1, <1>0, TakeEffect DEF PCs, Critical
    <2>3. ArgsOK(t)'
      BY <1>0, <1>1, <2>2 DEF ArgsOK, Kzalloc, Requesting, Deleting
    <2>4. /\ kset' = kset /\ o \in heap' \ kset
          /\ files'[o] = {} /\ name' = name
          /\ \A u \in kset : files'[u] = files[u] /\ pages'[u] = pages[u]
      <3>1. kset' = kset /\ name' = name
        BY <1>1 DEF Kzalloc
      <3>2. /\ kset \subseteq Privs
            /\ files \in [Privs -> SUBSET {"map", "sg"}]
            /\ pages \in [Privs -> {"none", "kernel", "user"}]
        BY <1>0 DEF TypeInv, TypeOK
      <3>3. \A u \in kset : u \in Privs /\ u # o
        BY <3>2
      <3>4. \A u \in kset : files'[u] = files[u] /\ pages'[u] = pages[u]
        BY <2>1, <3>2, <3>3
      <3> QED  BY <2>1, <3>1, <3>2, <3>4
    <2>5. BufferOK(t)'
      BY <2>2, <2>4 DEF BufferOK
    <2>6. Mine
      BY <1>1, <1>m, <2>1, <2>4 DEF Complete, Building, Kzalloc
    <2>7. DistinctNames'
      BY <1>0, <2>4 DEF DistinctNames
    <2> QED  BY <1>0, <2>3, <2>5, <2>6, <2>7, CriticalStep
  <1>2. CASE Find(t)
    <2>1. /\ th'[t].pc \in {"add", "exit"} /\ th'[t].priv = th[t].priv
          /\ th'[t].name = th[t].name /\ th'[t].kind = th[t].kind
          /\ th'[t].pc = "exit" => Exists(th[t].name)
          /\ UNCHANGED bufferVars /\ th[t].pc = "find"
      <3>1. ~Endless /\ th[t].pc = "find" /\ UNCHANGED bufferVars
        BY <1>2, <1>m DEF Find, IInv, Endless, Building, Complete
      <3>2. Found(th[t].name) # {} => Exists(th[t].name)
        BY DEF Found, Exists
      <3>3. \/ Goto(t, "exit") /\ Exists(th[t].name)
            \/ Goto(t, "add")
        BY <1>2, <3>1, <3>2 DEF Find
      <3> QED  BY <1>0, <3>1, <3>3, GotoEffect DEF PCs, Critical
    <2>2. ArgsOK(t)'
      BY <1>0, <2>1 DEF ArgsOK, Requesting, Deleting
    <2>3. BufferOK(t)'
      BY <1>0, <2>1 DEF BufferOK, bufferVars, Exists
    <2>4. Mine /\ DistinctNames'
      BY <1>0, <1>m, <2>1 DEF bufferVars, Complete, DistinctNames, Building
    <2> QED  BY <1>0, <2>2, <2>3, <2>4, CriticalStep
  <1>3. CASE Add(t)
    <2>1. /\ th'[t].pc \in {"memory", "exit"} /\ th'[t].priv = th[t].priv
          /\ th'[t].name = th[t].name /\ th'[t].kind = th[t].kind
          /\ UNCHANGED <<heap, reused, files, pages>> /\ th[t].pc = "add"
          /\ th'[t].pc = "exit"   => UNCHANGED <<name, kset>> /\ (Exists(th[t].name) \/ "sysfs" \in Faults)
          /\ th'[t].pc = "memory" => /\ kset' = kset \cup {th[t].priv} /\ ~Exists(th[t].name)
                                      /\ name' = [name EXCEPT ![th[t].priv] = th[t].name]
      BY <1>0, <1>3, GotoEffect DEF Add, PCs, Critical
    <2>n. /\ th'[t].pc = "memory" => name'[th[t].priv] = th[t].name
          /\ \A u \in kset : name'[u] = name[u]
      <3>1. th[t].priv \in Privs \ kset /\ kset \subseteq Privs /\ name \in [Privs -> Names \cup {NULL}]
        BY <1>0, <2>1 DEF TypeInv, TypeOK, BufferOK
      <3> QED  BY <2>1, <3>1
    <2>2. ArgsOK(t)'
      BY <1>0, <2>1 DEF ArgsOK, Requesting, Deleting
    <2>3. BufferOK(t)'
      BY <1>0, <2>1, <2>n DEF BufferOK, Exists
    <2>4. Mine
      BY <1>0, <1>m, <2>1 DEF Complete, Building
    <2>5. DistinctNames'
      BY <1>0, <2>1, <2>n DEF DistinctNames, Exists, BufferOK
    <2> QED  BY <1>0, <2>2, <2>3, <2>4, <2>5, CriticalStep
  <1> QED  BY <1>1, <1>2, <1>3

(* The memory and the files of a request, one by one, up to the second file. *)
LEMMA BuildSteps ==
  ASSUME OnlySysfs, IInv, NEW t \in Threads,
         allocate_kernel_memory(t) \/ allocate_user_memory(t) \/ CreateFiles(t)
  PROVE  IInv'
  <1> DEFINE Mine == \A o \in kset' : Complete(o)' \/ (th'[t].pc \in Building /\ th'[t].priv = o)
             o == th[t].priv
  <1>0. /\ th[t].pc \in Critical /\ Step(t)
        /\ ArgsOK(t) /\ BufferOK(t) /\ TypeInv /\ DistinctNames
        /\ th \in [Threads -> ThreadType]
    BY DEF allocate_kernel_memory, allocate_user_memory, CreateFiles, Critical, Step, IInv,
           TypeInv, TypeOK
  <1>m. \A u \in kset : Complete(u) \/ (th[t].pc \in Building /\ th[t].priv = u)
    BY <1>0, OnlyMine
  <1> USE RequestAssumption DEF OnlySysfs
  <1>1. CASE allocate_kernel_memory(t) \/ allocate_user_memory(t)
    <2>1. /\ th'[t].pc = "mapfile" /\ th'[t].priv = o
          /\ th'[t].name = th[t].name /\ th'[t].kind = th[t].kind
          /\ UNCHANGED <<heap, name, kset, files>> /\ th[t].pc = "memory"
          /\ pages' = [pages EXCEPT ![o] = th[t].kind]
      BY <1>0, <1>1, GotoEffect DEF allocate_kernel_memory, allocate_user_memory, PCs, Critical
    <2>2. pages'[o] = th[t].kind /\ \A u \in kset \ {o} : pages'[u] = pages[u]
      BY <1>0, <2>1 DEF TypeInv, TypeOK, BufferOK
    <2>3. ArgsOK(t)'
      BY <1>0, <2>1 DEF ArgsOK, Requesting, Deleting
    <2>4. BufferOK(t)'
      BY <1>0, <2>1, <2>2 DEF BufferOK
    <2>5. Mine /\ DistinctNames'
      BY <1>0, <1>m, <2>1, <2>2 DEF Complete, Building, DistinctNames
    <2> QED  BY <1>0, <2>3, <2>4, <2>5, CriticalStep
  <1>2. CASE CreateFiles(t)
    <2>1. /\ th'[t].pc \in {"sgfile", "unlock", "binfile"} /\ th'[t].priv = o
          /\ th'[t].name = th[t].name /\ th'[t].kind = th[t].kind
          /\ UNCHANGED <<heap, name, kset, pages>> /\ th[t].pc \in {"mapfile", "sgfile"}
          /\ th'[t].pc = "binfile" => files' = files /\ "sysfs" \in Faults
          /\ th'[t].pc = "sgfile"  => th[t].pc = "mapfile" /\ files' = [files EXCEPT ![o] = @ \cup {"map"}]
          /\ th'[t].pc = "unlock"  => th[t].pc = "sgfile"  /\ files' = [files EXCEPT ![o] = @ \cup {"sg"}]
      BY <1>0, <1>2, GotoEffect DEF CreateFiles, CreateFile, BufferOK, PCs, Critical
    <2>2. /\ th'[t].pc = "sgfile" => files'[o] = {"map"}
          /\ th'[t].pc = "unlock" => files'[o] = {"map", "sg"}
          /\ \A u \in kset \ {o} : files'[u] = files[u]
      BY <1>0, <2>1 DEF TypeInv, TypeOK, BufferOK
    <2>3. ArgsOK(t)'
      BY <1>0, <2>1 DEF ArgsOK, Requesting, Deleting
    <2>4. BufferOK(t)'
      BY <1>0, <2>1, <2>2 DEF BufferOK
    <2>5. th'[t].pc = "unlock" => pages[o] # "none"
      BY <1>0, <2>1 DEF ArgsOK, BufferOK, Requesting
    <2>6. Mine /\ DistinctNames'
      BY <1>0, <1>m, <2>1, <2>2, <2>5 DEF Complete, Building, DistinctNames, BufferOK
    <2> QED  BY <1>0, <2>3, <2>4, <2>6, CriticalStep
  <1> QED  BY <1>1, <1>2

(* The labels exit_binfile and exit: the buffer leaves the kset, then the heap. *)
LEMMA UndoSteps ==
  ASSUME OnlySysfs, IInv, NEW t \in Threads, ExitBinfile(t) \/ Exit(t)
  PROVE  IInv'
  <1> DEFINE Mine == \A o \in kset' : Complete(o)' \/ (th'[t].pc \in Building /\ th'[t].priv = o)
             o == th[t].priv
  <1>0. /\ th[t].pc \in Critical /\ Step(t)
        /\ ArgsOK(t) /\ BufferOK(t) /\ TypeInv /\ DistinctNames
        /\ th \in [Threads -> ThreadType]
    BY DEF ExitBinfile, Exit, Critical, Step, IInv, TypeInv, TypeOK
  <1>m. \A u \in kset : Complete(u) \/ (th[t].pc \in Building /\ th[t].priv = u)
    BY <1>0, OnlyMine
  <1> USE RequestAssumption DEF OnlySysfs
  <1>1. CASE ExitBinfile(t)
    <2>1. /\ th'[t].pc = "exit" /\ th'[t].priv = o
          /\ th'[t].name = th[t].name /\ th'[t].kind = th[t].kind
          /\ UNCHANGED <<heap, name, pages>> /\ th[t].pc = "binfile"
          /\ kset' = kset \ {o} /\ files' = [files EXCEPT ![o] = {}]
      BY <1>0, <1>1, GotoEffect DEF ExitBinfile, PCs, Critical
    <2>2. \A u \in kset' : files'[u] = files[u]
      BY <1>0, <2>1 DEF TypeInv, TypeOK
    <2>3. ArgsOK(t)'
      BY <1>0, <2>1 DEF ArgsOK, Requesting, Deleting
    <2>4. "sysfs" \in Faults
      BY <1>0, <2>1 DEF BufferOK
    <2>5. BufferOK(t)'
      BY <1>0, <2>1, <2>4 DEF BufferOK
    <2>6. Mine /\ DistinctNames'
      BY <1>0, <1>m, <2>1, <2>2 DEF Complete, DistinctNames
    <2> QED  BY <1>0, <2>3, <2>5, <2>6, CriticalStep
  <1>2. CASE Exit(t)
    <2>1. /\ th'[t].pc = "unlock" /\ UNCHANGED <<name, kset, files>> /\ th[t].pc = "exit"
          /\ heap' = heap \ {o}
          /\ pages' = [u \in Privs |-> IF u = o THEN "none" ELSE pages[u]]
      BY <1>0, <1>2, GotoEffect DEF Exit, PCs, Critical
    <2>2. o \notin kset
      BY <1>0, <2>1 DEF BufferOK
    <2>3. \A u \in kset' : pages'[u] = pages[u]
      BY <1>0, <2>1, <2>2 DEF TypeInv, TypeOK
    <2>4. ArgsOK(t)' /\ BufferOK(t)'
      BY <2>1 DEF ArgsOK, BufferOK, Requesting, Deleting
    <2>5. Mine /\ DistinctNames'
      BY <1>0, <1>m, <2>1, <2>2, <2>3 DEF Complete, DistinctNames, Building
    <2> QED  BY <1>0, <2>4, <2>5, CriticalStep
  <1> QED  BY <1>1, <1>2

(* The steps of a delete, from the lookup to kobject_del. *)
LEMMA DeleteSteps ==
  ASSUME OnlySysfs, IInv, NEW t \in Threads, FindDel(t) \/ Free(t) \/ Del(t)
  PROVE  IInv'
  <1> DEFINE Mine == \A o \in kset' : Complete(o)' \/ (th'[t].pc \in Building /\ th'[t].priv = o)
  <1>0. /\ th[t].pc \in Critical /\ Step(t)
        /\ ArgsOK(t) /\ BufferOK(t) /\ TypeInv /\ DistinctNames
        /\ th \in [Threads -> ThreadType]
    BY DEF FindDel, Free, Del, Critical, Step, IInv, TypeInv, TypeOK
  <1>m. \A u \in kset : Complete(u) \/ (th[t].pc \in Building /\ th[t].priv = u)
    BY <1>0, OnlyMine
  <1>1. ASSUME FindDel(t), NEW o \in kset, files' = [files EXCEPT ![o] = {}],
               Take(t, o, "free")
        PROVE  IInv'
    <2>1. th'[t].pc = "free" /\ th'[t].priv = o
      BY <1>0, <1>1, TakeEffect DEF PCs, Critical, TypeInv, TypeOK
    <2>2. UNCHANGED <<heap, name, kset, pages>> /\ th[t].pc = "findDel"
      BY <1>1 DEF FindDel
    <2>3. files'[o] = {} /\ \A u \in kset \ {o} : files'[u] = files[u]
      BY <1>0, <1>1 DEF TypeInv, TypeOK
    <2>4. ArgsOK(t)' /\ BufferOK(t)'
      BY <2>1, <2>2, <2>3 DEF ArgsOK, BufferOK, Requesting, Deleting
    <2>5. Mine /\ DistinctNames'
      BY <1>0, <1>m, <2>1, <2>2, <2>3 DEF Complete, DistinctNames, Building
    <2> QED  BY <1>0, <2>4, <2>5, CriticalStep
  <1>2. CASE FindDel(t) /\ Goto(t, "unlock") /\ UNCHANGED files
    <2>1. th'[t].pc = "unlock" /\ UNCHANGED bufferVars /\ th[t].pc = "findDel"
      BY <1>0, <1>2, GotoEffect DEF FindDel, PCs, Critical, bufferVars
    <2>2. ArgsOK(t)' /\ BufferOK(t)'
      BY <2>1 DEF ArgsOK, BufferOK, Requesting, Deleting
    <2>3. Mine /\ DistinctNames'
      BY <1>0, <1>m, <2>1 DEF Complete, DistinctNames, Building, bufferVars
    <2> QED  BY <1>0, <2>2, <2>3, CriticalStep
  <1>3. CASE Free(t)
    <2>1. /\ th'[t].pc = "del" /\ th'[t].priv = th[t].priv
          /\ UNCHANGED <<name, kset, files>> /\ th[t].pc = "free"
          /\ heap' = heap \ {th[t].priv} /\ pages' = [pages EXCEPT ![th[t].priv] = "none"]
      BY <1>0, <1>3, GotoEffect DEF Free, PCs, Critical
    <2>2. \A u \in kset \ {th[t].priv} : pages'[u] = pages[u]
      BY <1>0, <2>1 DEF TypeInv, TypeOK
    <2>3. ArgsOK(t)' /\ BufferOK(t)'
      BY <1>0, <2>1 DEF ArgsOK, BufferOK, Requesting, Deleting
    <2>4. Mine /\ DistinctNames'
      BY <1>0, <1>m, <2>1, <2>2 DEF Complete, DistinctNames, Building
    <2> QED  BY <1>0, <2>3, <2>4, CriticalStep
  <1>4. CASE Del(t)
    <2>1. /\ th'[t].pc = "unlock" /\ th[t].pc = "del"
          /\ UNCHANGED <<heap, name, reused, files, pages>> /\ kset' = kset \ {th[t].priv}
      BY <1>0, <1>4, GotoEffect DEF Del, PCs, Critical, IInv
    <2>2. ArgsOK(t)' /\ BufferOK(t)'
      BY <2>1 DEF ArgsOK, BufferOK, Requesting, Deleting
    <2>3. Mine /\ DistinctNames'
      BY <1>0, <1>m, <2>1 DEF Complete, DistinctNames
    <2> QED  BY <1>0, <2>2, <2>3, CriticalStep
  <1>5. ASSUME FindDel(t) PROVE ~Endless
    BY <1>5, <1>m DEF FindDel, IInv, Endless, Building, Complete
  <1> QED  BY <1>1, <1>2, <1>3, <1>4, <1>5 DEF FindDel, Found

(* The calls, and the lock: the buffers stay as they are. *)
LEMMA CallAndLockSteps ==
  ASSUME OnlySysfs, IInv, NEW t \in Threads,
         request_buffer_write(t) \/ delete_buffer_write(t) \/ mutex_lock(t) \/ mutex_unlock(t)
  PROVE  IInv'
  <1> USE RequestAssumption, IdleType
  <1>0. /\ ArgsOK(t) /\ th \in [Threads -> ThreadType] /\ UNCHANGED bufferVars
    BY DEF IInv, TypeInv, TypeOK, bufferVars,
           request_buffer_write, delete_buffer_write, mutex_lock, mutex_unlock
  <1>1. TypeInv'
    BY NextType DEF IInv, Next, Step
  <1>2. NoBadCount' /\ AllocFreeExclusive' /\ \A u \in Threads \ {t} : th'[u] = th[u]
    BY RightSizeStep DEF IInv, OnlySysfs, Step
  <1>3. th[t].pc \notin Building /\ th'[t].pc \in {"idle", "lockReq", "lockDel", "kzalloc", "findDel"}
    <2>1. CASE request_buffer_write(t)
      BY <1>0, <2>1 DEF request_buffer_write, OnlySysfs, ThreadType, Building
    <2>2. CASE delete_buffer_write(t)
      BY <1>0, <2>2, DeleteEffect DEF delete_buffer_write, Building
    <2>3. CASE mutex_lock(t)
      BY <1>0, <2>3, GotoEffect DEF mutex_lock, PCs, Critical, Building
    <2>4. CASE mutex_unlock(t)
      BY <1>0, <2>4 DEF mutex_unlock, Building
    <2> QED  BY <2>1, <2>2, <2>3, <2>4
  <1>4. ArgsOK(t)'
    <2>1. CASE request_buffer_write(t)
      BY <1>0, <2>1 DEF request_buffer_write, OnlySysfs, ArgsOK, Requesting, Deleting
    <2>2. CASE delete_buffer_write(t)
      <3>1. th[t] = Idle
        BY <1>0, <2>2 DEF delete_buffer_write, ArgsOK
      <3>2. th[t].kind = NULL
        BY <3>1 DEF Idle
      <3> QED  BY <1>0, <2>2, <3>2, DeleteEffect DEF ArgsOK, Requesting, Deleting
    <2>3. CASE mutex_lock(t)
      BY <1>0, <2>3, GotoEffect DEF mutex_lock, PCs, Critical, ArgsOK, Requesting, Deleting
    <2>4. CASE mutex_unlock(t)
      BY <1>0, <2>4 DEF mutex_unlock, ArgsOK, Requesting, Deleting
    <2> QED  BY <2>1, <2>2, <2>3, <2>4
  <1>5. BufferOK(t)'
    BY <1>3 DEF BufferOK
  <1>6. \A u \in Threads \ {t} : ArgsOK(u)' /\ BufferOK(u)'
    BY <1>0, <1>2 DEF IInv, ArgsOK, BufferOK, bufferVars, Exists
  <1>7. KsetComplete' /\ DistinctNames'
    BY <1>0, <1>2, <1>3 DEF IInv, KsetComplete, DistinctNames, Complete, bufferVars
  <1> QED  BY <1>0, <1>1, <1>2, <1>4, <1>5, <1>6, <1>7 DEF IInv, bufferVars

(* Every step preserves the inductive invariant. *)
LEMMA NextIInv ==
  ASSUME OnlySysfs
  PROVE  IInv /\ [Next]_vars => IInv'
  <1>1. ASSUME IInv, UNCHANGED vars PROVE IInv'
    <2>1. \A t \in Threads : ArgsOK(t)' /\ BufferOK(t)'
      BY <1>1 DEF IInv, ArgsOK, BufferOK, Exists, vars
    <2>2. KsetComplete' /\ DistinctNames' /\ NoBadCount' /\ AllocFreeExclusive'
      BY <1>1 DEF IInv, KsetComplete, Complete, DistinctNames, NoBadCount, AllocFreeExclusive, vars
    <2> QED  BY <1>1, <2>1, <2>2, NextType DEF IInv, vars
  <1>2. ASSUME IInv, Next PROVE IInv'
    BY <1>2, CallAndLockSteps, AllocateSteps, BuildSteps, UndoSteps, DeleteSteps DEF Next, Step
  <1> QED  BY <1>1, <1>2

(* The inductive invariant is one. *)
LEMMA Invariance ==
  ASSUME OnlySysfs
  PROVE  Spec => []IInv
  BY InitIInv, NextIInv, PTL DEF Spec

(***************************************************************************)
(* If nothing fails but the creation of files, then whenever no write is   *)
(* under way every entry of the kset is a buffer of its own name with its  *)
(* memory and both files: the labels exit_binfile and exit undo a request, *)
(* and uio_pci_dma_sysfs_delete_buffer_write leaves nothing of a buffer.   *)
(***************************************************************************)
THEOREM KsetHoldsBuffers ==
  ASSUME OnlySysfs
  PROVE  Spec => []BuffersComplete
  <1>1. IInv => BuffersComplete
    <2> SUFFICES ASSUME IInv, owner = NULL
                 PROVE  (\A o \in kset : Complete(o)) /\ DistinctNames
      BY DEF BuffersComplete, Complete, DistinctNames
    <2>1. \A t \in Threads : th[t].pc \notin Building
      BY RequestAssumption DEF IInv, AllocFreeExclusive, Building, Critical
    <2> QED  BY <2>1 DEF IInv, KsetComplete
  <1> QED  BY <1>1, Invariance, PTL

-----------------------------------------------------------------------------
(* The refinement mapping, without its choice: one buffer at most has a name. *)
StoreSays ==
    \A n \in Names : /\ Usable(n) = {} => StoreOf[n] = NULL
                     /\ \A o \in Usable(n) : StoreOf[n] = pages[o]

(* The names of the kset differ, so the choice in StoreOf is none. *)
LEMMA StoreValue == IInv => StoreSays
  <1> SUFFICES ASSUME IInv, NEW n \in Names, NEW o \in Usable(n) PROVE StoreOf[n] = pages[o]
    BY DEF StoreOf, StoreSays
  <1> DEFINE c == CHOOSE u \in Usable(n) : TRUE
  <1>1. c \in Usable(n)
    OBVIOUS
  <1>2. c = o
    BY <1>1 DEF Usable, IInv, DistinctNames
  <1> QED  BY <1>2 DEF StoreOf

(* The same of the next state. *)
LEMMA StoreValueNext == IInv' => StoreSays'
  BY StoreValue, PTL

(* A step that leaves the usable buffers and their pages alone changes nothing. *)
LEMMA SameStore ==
  ASSUME IInv, IInv', \A n \in Names : Usable(n)' = Usable(n),
         \A n \in Names : \A o \in Usable(n) : pages'[o] = pages[o]
  PROVE  StoreOf' = StoreOf
  <1>1. \A n \in Names : StoreOf'[n] = StoreOf[n]
    <2> SUFFICES ASSUME NEW n \in Names PROVE StoreOf'[n] = StoreOf[n]
      OBVIOUS
    <2>1. CASE Usable(n) = {}
      BY <2>1, StoreValue, StoreValueNext DEF StoreSays
    <2>2. ASSUME NEW o \in Usable(n) PROVE StoreOf'[n] = StoreOf[n]
      BY <2>2, StoreValue, StoreValueNext DEF StoreSays
    <2> QED  BY <2>1, <2>2
  <1>2. StoreOf = [n \in Names |-> StoreOf[n]] /\ StoreOf' = [n \in Names |-> StoreOf'[n]]
    BY DEF StoreOf
  <1> QED  BY <1>1, <1>2

(* A step that changes the buffer of one name changes that entry alone. *)
LEMMA OtherNames ==
  ASSUME IInv, IInv', NEW m \in Names, NEW v,
         \A n \in Names \ {m} : Usable(n)' = Usable(n),
         \A n \in Names \ {m} : \A o \in Usable(n) : pages'[o] = pages[o],
         StoreOf'[m] = v
  PROVE  StoreOf' = [StoreOf EXCEPT ![m] = v]
  <1>1. \A n \in Names \ {m} : StoreOf'[n] = StoreOf[n]
    <2> SUFFICES ASSUME NEW n \in Names \ {m} PROVE StoreOf'[n] = StoreOf[n]
      OBVIOUS
    <2>1. CASE Usable(n) = {}
      BY <2>1, StoreValue, StoreValueNext DEF StoreSays
    <2>2. ASSUME NEW o \in Usable(n) PROVE StoreOf'[n] = StoreOf[n]
      BY <2>2, StoreValue, StoreValueNext DEF StoreSays
    <2> QED  BY <2>1, <2>2
  <1>2. StoreOf = [n \in Names |-> StoreOf[n]] /\ StoreOf' = [n \in Names |-> StoreOf'[n]]
    BY DEF StoreOf
  <1> QED  BY <1>1, <1>2

(* The stages of a write. *)
LEMMA Stages ==
  /\ Stage("idle") = "idle"
  /\ \A l \in {"free", "del", "unlock"} : Stage(l) = "done"
  /\ \A l \in (Requesting \cup Deleting) : Stage(l) = "called"
  BY DEF Stage, Requesting, Deleting

(* A thread's step changes its own entry of the abstract state alone. *)
LEMMA WriteEffect ==
  ASSUME TypeInv, TypeInv', NEW t \in Threads, \A u \in Threads \ {t} : th'[u] = th[u]
  PROVE  WriteOf' = [WriteOf EXCEPT ![t] =
            [stage |-> Stage(th'[t].pc), name |-> th'[t].name, kind |-> th'[t].kind]]
  BY DEF WriteOf

(* A step within a stage that leaves the usable buffers alone is a stutter. *)
LEMMA Stutters ==
  ASSUME IInv, IInv', NEW t \in Threads, \A u \in Threads \ {t} : th'[u] = th[u],
         Stage(th'[t].pc) = Stage(th[t].pc), th'[t].name = th[t].name, th'[t].kind = th[t].kind,
         \A n \in Names : Usable(n)' = Usable(n),
         \A n \in Names : \A o \in Usable(n) : pages'[o] = pages[o]
  PROVE  UNCHANGED <<StoreOf, WriteOf>>
  <1>1. WriteOf' = WriteOf
    BY DEF WriteOf
  <1> QED  BY <1>1, SameStore

(* The calls, the lock and the returns. *)
LEMMA RefineCalls ==
  ASSUME OnlySysfs, IInv, IInv', NEW t \in Threads,
         request_buffer_write(t) \/ delete_buffer_write(t) \/ mutex_lock(t) \/ mutex_unlock(t)
  PROVE  Abs!Call(t) \/ Abs!Return(t) \/ UNCHANGED <<StoreOf, WriteOf>>
  <1> USE RequestAssumption, Stages
  <1>0. /\ ArgsOK(t) /\ th \in [Threads -> ThreadType] /\ UNCHANGED bufferVars
        /\ TypeInv /\ TypeInv'
    BY DEF IInv, TypeInv, TypeOK, bufferVars,
           request_buffer_write, delete_buffer_write, mutex_lock, mutex_unlock
  <1>1. \A u \in Threads \ {t} : th'[u] = th[u]
    BY RightSizeStep DEF IInv, OnlySysfs, Step
  <1>2. /\ \A n \in Names : Usable(n)' = Usable(n)
        /\ \A n \in Names : \A o \in Usable(n) : pages'[o] = pages[o]
    BY <1>0 DEF bufferVars, Usable
  <1>3. StoreOf' = StoreOf
    BY <1>2, SameStore
  <1>4. CASE request_buffer_write(t)
    <2>1. PICK n \in Names, k \in Kinds :
             th' = [th EXCEPT ![t] = [pc |-> "lockReq", name |-> n, kind |-> k, priv |-> NULL]]
      BY <1>4 DEF request_buffer_write, OnlySysfs
    <2>2. WriteOf[t] = Abs!Idle
      BY <1>0, <1>4 DEF request_buffer_write, ArgsOK, WriteOf, Idle, Abs!Idle
    <2>3. WriteOf' = [WriteOf EXCEPT ![t] = [stage |-> "called", name |-> n, kind |-> k]]
      BY <1>0, <1>1, <2>1, WriteEffect DEF Requesting
    <2> QED  BY <1>3, <2>2, <2>3 DEF Abs!Call
  <1>5. CASE delete_buffer_write(t)
    <2>1. th[t] = Idle
      BY <1>0, <1>5 DEF delete_buffer_write, ArgsOK
    <2>2. WriteOf[t] = Abs!Idle
      BY <2>1 DEF WriteOf, Idle, Abs!Idle
    <2>3. th'[t].pc = "lockDel" /\ th'[t].name \in Names /\ th'[t].kind = NULL
      BY <1>0, <1>5, <2>1, DeleteEffect DEF Idle
    <2>4. WriteOf' = [WriteOf EXCEPT ![t] =
                        [stage |-> "called", name |-> th'[t].name, kind |-> NULL]]
      BY <1>0, <1>1, <2>3, WriteEffect DEF Deleting
    <2> QED  BY <1>3, <2>2, <2>3, <2>4 DEF Abs!Call
  <1>6. CASE mutex_lock(t)
    <2>1. /\ th[t].pc \in Requesting \cup Deleting /\ th'[t].pc \in Requesting \cup Deleting
          /\ th'[t].name = th[t].name /\ th'[t].kind = th[t].kind
      BY <1>0, <1>6, GotoEffect DEF mutex_lock, PCs, Critical, Requesting, Deleting
    <2> QED  BY <1>1, <1>2, <2>1, Stutters
  <1>7. CASE mutex_unlock(t)
    <2>1. WriteOf[t].stage = "done"
      BY <1>7 DEF mutex_unlock, WriteOf, IInv, NoBadCount
    <2>2. th'[t] = Idle
      BY <1>0, <1>7 DEF mutex_unlock
    <2>3. WriteOf' = [WriteOf EXCEPT ![t] = Abs!Idle]
      BY <1>0, <1>1, <2>2, WriteEffect DEF Idle, Abs!Idle
    <2> QED  BY <1>3, <2>1, <2>3 DEF Abs!Return
  <1> QED  BY <1>4, <1>5, <1>6, <1>7

(***************************************************************************)
(* A request works on a buffer that is not usable; the second file makes   *)
(* it so, and that step is the request.  The kfree at the label exit is    *)
(* the refusal: the name is taken, or a file could not be created.         *)
(***************************************************************************)
LEMMA RefineRequests ==
  ASSUME OnlySysfs, IInv, IInv', NEW t \in Threads,
         \/ Kzalloc(t) \/ Find(t) \/ Add(t)
         \/ allocate_kernel_memory(t) \/ allocate_user_memory(t) \/ CreateFiles(t)
         \/ ExitBinfile(t) \/ Exit(t)
  PROVE  Abs!Request(t) \/ Abs!Refuse(t) \/ UNCHANGED <<StoreOf, WriteOf>>
  <1> DEFINE o == th[t].priv
             n == th[t].name
             SameUsable == /\ \A m \in Names : Usable(m)' = Usable(m)
                           /\ \A m \in Names : \A u \in Usable(m) : pages'[u] = pages[u]
  <1>0. /\ ArgsOK(t) /\ BufferOK(t) /\ th \in [Threads -> ThreadType]
        /\ TypeInv /\ TypeInv' /\ TypeOK
        /\ Step(t) /\ th[t].pc \in Critical \cap Requesting
    BY DEF IInv, TypeInv, TypeOK, Kzalloc, Find, Add, allocate_kernel_memory,
           allocate_user_memory, CreateFiles, ExitBinfile, Exit, Critical, Requesting, Step
  <1>1. \A u \in Threads \ {t} : th'[u] = th[u]
    BY <1>0, RightSizeStep DEF IInv, OnlySysfs
  <1>2. /\ n \in Names /\ th[t].kind \in Kinds /\ th[t].kind # NULL
        /\ Stage(th[t].pc) = "called"
    BY <1>0, Stages, RequestAssumption DEF ArgsOK
  <1>3. WriteOf[t] = [stage |-> "called", name |-> n, kind |-> th[t].kind]
    BY <1>2 DEF WriteOf
  <1>4. ASSUME SameUsable, th'[t].pc \in Requesting, th'[t].name = n, th'[t].kind = th[t].kind
        PROVE  UNCHANGED <<StoreOf, WriteOf>>
    BY <1>1, <1>2, <1>4, Stages, Stutters
  <1>5. CASE Kzalloc(t)
    <2>1. PICK u \in Privs \ (heap \cup kset) :
             /\ heap'  = heap \cup {u}
             /\ files' = [files EXCEPT ![u] = {}]
             /\ pages' = [pages EXCEPT ![u] = "none"]
             /\ Take(t, u, "find")
             /\ kset'  = kset /\ name' = name
      <3>1. kset \subseteq heap
        BY <1>0, <1>5, OnlyMine DEF Kzalloc, Building, Complete
      <3> QED  BY <1>5, <3>1, RequestAssumption DEF Kzalloc, OnlySysfs
    <2>2. th'[t].pc = "find" /\ th'[t].name = n /\ th'[t].kind = th[t].kind
      BY <1>0, <2>1, TakeEffect DEF PCs, Critical
    <2>3. \A w \in kset : files'[w] = files[w] /\ pages'[w] = pages[w]
      BY <1>0, <2>1 DEF TypeOK
    <2>4. SameUsable
      BY <2>1, <2>3 DEF Usable
    <2> QED  BY <1>4, <2>2, <2>4 DEF Requesting
  <1>6. CASE Find(t)
    <2>1. th'[t].pc \in {"add", "exit"} /\ th'[t].name = n /\ th'[t].kind = th[t].kind
      <3>1. ~Endless
        BY <1>0, <1>6, OnlyMine DEF Find, IInv, Endless, Building, Complete
      <3> QED  BY <1>0, <1>6, <3>1, GotoEffect DEF Find, PCs, Critical
    <2>2. SameUsable
      BY <1>6 DEF Find, bufferVars, Usable
    <2> QED  BY <1>4, <2>1, <2>2 DEF Requesting
  <1>7. CASE Add(t)
    <2>1. th'[t].pc \in {"memory", "exit"} /\ th'[t].name = n /\ th'[t].kind = th[t].kind
      BY <1>0, <1>7, GotoEffect DEF Add, PCs, Critical
    <2>2. UNCHANGED <<heap, files, pages>> /\ kset \subseteq kset' /\ kset' \subseteq kset \cup {o}
      BY <1>7 DEF Add
    <2>3. files[o] = {} /\ o \notin kset
      BY <1>0, <1>7 DEF Add, BufferOK
    <2>n. \A u \in kset : name'[u] = name[u]
      <3>1. name' = name \/ name' = [name EXCEPT ![o] = n]
        BY <1>7 DEF Add
      <3> QED  BY <1>0, <2>3, <3>1 DEF TypeOK
    <2>4. SameUsable
      BY <2>2, <2>3, <2>n DEF Usable
    <2> QED  BY <1>4, <2>1, <2>4 DEF Requesting
  <1>8. CASE allocate_kernel_memory(t) \/ allocate_user_memory(t)
    <2>1. /\ th'[t].pc = "mapfile" /\ th'[t].name = n /\ th'[t].kind = th[t].kind
          /\ UNCHANGED <<heap, name, kset, files>> /\ th[t].pc = "memory"
          /\ pages' = [pages EXCEPT ![o] = th[t].kind]
      BY <1>0, <1>8, GotoEffect, RequestAssumption
      DEF allocate_kernel_memory, allocate_user_memory, PCs, Critical, OnlySysfs
    <2>2. files[o] = {} /\ \A u \in kset \ {o} : pages'[u] = pages[u]
      BY <1>0, <2>1 DEF BufferOK, TypeOK
    <2>3. SameUsable
      BY <2>1, <2>2 DEF Usable
    <2> QED  BY <1>4, <2>1, <2>3 DEF Requesting
  <1>9. CASE CreateFiles(t) /\ ~(th'[t].pc = "unlock")
    <2>1. /\ th'[t].pc \in {"sgfile", "binfile"} /\ th'[t].name = n /\ th'[t].kind = th[t].kind
          /\ UNCHANGED <<heap, name, kset, pages>> /\ th[t].pc \in {"mapfile", "sgfile"}
          /\ files' = files \/ (th[t].pc = "mapfile" /\ files' = [files EXCEPT ![o] = @ \cup {"map"}])
      BY <1>0, <1>9, GotoEffect DEF CreateFiles, CreateFile, PCs, Critical, OnlySysfs
    <2>2. /\ "sg" \notin files[o] /\ "sg" \notin files'[o] /\ o \in Privs
          /\ \A u \in kset \ {o} : files'[u] = files[u]
      BY <1>0, <2>1 DEF BufferOK, TypeOK
    <2>3. SameUsable
      BY <2>1, <2>2 DEF Usable
    <2> QED  BY <1>4, <2>1, <2>3 DEF Requesting
  <1>10. CASE CreateFiles(t) /\ th'[t].pc = "unlock"
    <2>1. /\ th'[t].name = n /\ th'[t].kind = th[t].kind
          /\ UNCHANGED <<heap, name, kset, pages>> /\ th[t].pc = "sgfile"
          /\ files' = [files EXCEPT ![o] = @ \cup {"sg"}]
      BY <1>0, <1>10, GotoEffect DEF CreateFiles, CreateFile, PCs, Critical
    <2>2. /\ o \in Privs /\ o \in heap \cap kset /\ name[o] = n /\ pages[o] = th[t].kind
          /\ files[o] = {"map"} /\ files'[o] = {"map", "sg"}
          /\ \A u \in kset \ {o} : files'[u] = files[u]
      BY <1>0, <2>1 DEF BufferOK, TypeOK
    <2>3. Usable(n) = {}
      BY <2>2 DEF Usable, IInv, DistinctNames
    <2>4. o \in Usable(n)'
      BY <2>1, <2>2 DEF Usable
    <2>5. \A m \in Names \ {n} : Usable(m)' = Usable(m)
      BY <2>1, <2>2 DEF Usable
    <2>6. StoreOf[n] = NULL /\ StoreOf'[n] = th[t].kind
      BY <1>2, <2>1, <2>2, <2>3, <2>4, StoreValue, StoreValueNext DEF StoreSays
    <2>7. StoreOf' = [StoreOf EXCEPT ![n] = th[t].kind]
      BY <1>2, <2>1, <2>5, <2>6, OtherNames
    <2>8. WriteOf' = [WriteOf EXCEPT ![t].stage = "done"]
      BY <1>0, <1>1, <1>3, <1>10, <2>1, Stages, WriteEffect DEF WriteOf
    <2>9. Abs!Request(t)
      BY <1>2, <1>3, <2>6, <2>7, <2>8 DEF Abs!Request, Abs!Done
    <2> QED  BY <2>9
  <1>11. CASE ExitBinfile(t)
    <2>1. /\ th'[t].pc = "exit" /\ th'[t].name = n /\ th'[t].kind = th[t].kind
          /\ UNCHANGED <<heap, name, pages>> /\ th[t].pc = "binfile"
          /\ kset' = kset \ {o} /\ files' = [files EXCEPT ![o] = {}]
      BY <1>0, <1>11, GotoEffect DEF ExitBinfile, PCs, Critical
    <2>2. "sg" \notin files[o] /\ \A u \in kset' : files'[u] = files[u]
      BY <1>0, <2>1 DEF BufferOK, TypeOK
    <2>3. SameUsable
      BY <2>1, <2>2 DEF Usable
    <2> QED  BY <1>4, <2>1, <2>3 DEF Requesting
  <1>12. CASE Exit(t)
    <2>1. /\ th'[t].pc = "unlock" /\ th'[t].name = n /\ th'[t].kind = th[t].kind
          /\ UNCHANGED <<name, kset, files>> /\ th[t].pc = "exit"
          /\ heap' = heap \ {o}
          /\ pages' = [u \in Privs |-> IF u = o THEN "none" ELSE pages[u]]
      BY <1>0, <1>12, GotoEffect DEF Exit, PCs, Critical
    <2>2. o \notin kset /\ \A u \in kset : pages'[u] = pages[u]
      BY <1>0, <2>1 DEF BufferOK, TypeOK
    <2>3. SameUsable
      BY <2>1, <2>2 DEF Usable
    <2>4. StoreOf' = StoreOf
      BY <2>3, SameStore
    <2>5. StoreOf[n] # NULL \/ Faults # {}
      <3>1. CASE "sysfs" \in Faults
        BY <3>1
      <3>2. ASSUME NEW u \in kset, name[u] = n PROVE StoreOf[n] # NULL
        <4>1. Complete(u)
          BY <1>0, <2>1, OnlyMine DEF Building
        <4>2. u \in Usable(n) /\ pages[u] # NULL
          BY <1>0, <3>2, <4>1, RequestAssumption DEF Complete, Usable, TypeOK
        <4> QED  BY <1>2, <4>2, StoreValue DEF StoreSays
      <3> QED  BY <1>0, <2>1, <3>1, <3>2 DEF BufferOK, Exists
    <2>6. WriteOf' = [WriteOf EXCEPT ![t].stage = "done"]
      BY <1>0, <1>1, <1>3, <2>1, Stages, WriteEffect DEF WriteOf
    <2>7. Abs!Refuse(t)
      BY <1>2, <1>3, <2>4, <2>5, <2>6 DEF Abs!Refuse, Abs!Done
    <2> QED  BY <2>7
  <1> QED  BY <1>5, <1>6, <1>7, <1>8, <1>9, <1>10, <1>11, <1>12

(* A delete happens where the files go; the rest of it nobody sees. *)
LEMMA RefineDeletes ==
  ASSUME OnlySysfs, IInv, IInv', NEW t \in Threads, FindDel(t) \/ Free(t) \/ Del(t)
  PROVE  Abs!Delete(t) \/ UNCHANGED <<StoreOf, WriteOf>>
  <1> DEFINE n == th[t].name
  <1>0. /\ ArgsOK(t) /\ BufferOK(t) /\ th \in [Threads -> ThreadType]
        /\ TypeInv /\ TypeInv' /\ TypeOK /\ DistinctNames
        /\ Step(t) /\ th[t].pc \in Critical
    BY DEF IInv, TypeInv, TypeOK, FindDel, Free, Del, Critical, Step
  <1>1. \A u \in Threads \ {t} : th'[u] = th[u]
    BY <1>0, RightSizeStep DEF IInv, OnlySysfs
  <1>2. ASSUME FindDel(t), th'[t].pc \in {"free", "unlock"}, th'[t].name = n,
               th'[t].kind = th[t].kind, StoreOf' = [StoreOf EXCEPT ![n] = NULL]
        PROVE  Abs!Delete(t)
    <2>1. n \in Names /\ th[t].kind = NULL /\ Stage(th[t].pc) = "called"
      BY <1>0, <1>2, Stages DEF FindDel, ArgsOK, Deleting
    <2>2. WriteOf[t] = [stage |-> "called", name |-> n, kind |-> NULL]
      BY <2>1 DEF WriteOf
    <2>3. WriteOf' = [WriteOf EXCEPT ![t].stage = "done"]
      BY <1>0, <1>1, <1>2, <2>1, <2>2, Stages, WriteEffect DEF WriteOf
    <2> QED  BY <1>2, <2>2, <2>3 DEF Abs!Delete, Abs!Done
  <1>3. ASSUME FindDel(t), NEW o \in kset, name[o] = n, files' = [files EXCEPT ![o] = {}],
               Take(t, o, "free")
        PROVE  Abs!Delete(t)
    <2>1. th'[t].pc = "free" /\ th'[t].name = n /\ th'[t].kind = th[t].kind
      BY <1>0, <1>3, TakeEffect DEF PCs, Critical, TypeOK
    <2>2. UNCHANGED <<heap, name, kset, pages>> /\ n \in Names
      BY <1>0, <1>3 DEF FindDel, ArgsOK, Deleting
    <2>3. files'[o] = {} /\ \A u \in kset \ {o} : files'[u] = files[u]
      BY <1>0, <1>3 DEF TypeOK
    <2>4. Usable(n)' = {}
      BY <1>0, <1>3, <2>1, <2>2, <2>3 DEF Usable, DistinctNames
    <2>5. \A m \in Names \ {n} : Usable(m)' = Usable(m)
      BY <1>3, <2>2, <2>3 DEF Usable
    <2>6. StoreOf'[n] = NULL
      BY <2>1, <2>2, <2>4, StoreValueNext DEF StoreSays
    <2>7. StoreOf' = [StoreOf EXCEPT ![n] = NULL]
      BY <2>2, <2>5, <2>6, OtherNames
    <2> QED  BY <1>2, <1>3, <2>1, <2>7
  <1>4. CASE FindDel(t) /\ NotFound(n) /\ Goto(t, "unlock") /\ UNCHANGED files
    <2>1. /\ th'[t].pc = "unlock" /\ th'[t].name = n /\ th'[t].kind = th[t].kind
          /\ UNCHANGED bufferVars /\ n \in Names
      BY <1>0, <1>4, GotoEffect DEF FindDel, PCs, Critical, bufferVars, ArgsOK, Deleting
    <2>2. kset \subseteq heap
      BY <1>0, <1>4, OnlyMine DEF FindDel, Complete, Building
    <2>3. Usable(n) = {}
      BY <1>4, <2>2 DEF NotFound, Found, Usable
    <2>4. /\ \A m \in Names : Usable(m)' = Usable(m)
          /\ \A m \in Names : \A u \in Usable(m) : pages'[u] = pages[u]
      BY <2>1 DEF bufferVars, Usable
    <2>5. StoreOf'[n] = NULL
      BY <2>1, <2>3, <2>4, StoreValueNext DEF StoreSays
    <2>6. StoreOf' = [StoreOf EXCEPT ![n] = NULL]
      BY <2>1, <2>4, <2>5, OtherNames
    <2> QED  BY <1>2, <1>4, <2>1, <2>6
  <1>5. CASE Free(t)
    <2>1. /\ th'[t].pc = "del" /\ th'[t].name = n /\ th'[t].kind = th[t].kind
          /\ UNCHANGED <<name, kset, files>> /\ th[t].pc = "free"
          /\ heap' = heap \ {th[t].priv} /\ pages' = [pages EXCEPT ![th[t].priv] = "none"]
      BY <1>0, <1>5, GotoEffect DEF Free, PCs, Critical
    <2>2. files[th[t].priv] = {} /\ \A u \in kset \ {th[t].priv} : pages'[u] = pages[u]
      BY <1>0, <2>1 DEF BufferOK, TypeOK
    <2>3. /\ \A m \in Names : Usable(m)' = Usable(m)
          /\ \A m \in Names : \A u \in Usable(m) : pages'[u] = pages[u]
      BY <2>1, <2>2 DEF Usable
    <2> QED  BY <1>1, <2>1, <2>3, Stages, Stutters
  <1>6. CASE Del(t)
    <2>1. /\ th'[t].pc = "unlock" /\ th'[t].name = n /\ th'[t].kind = th[t].kind
          /\ th[t].pc = "del"
          /\ UNCHANGED <<heap, name, reused, files, pages>> /\ kset' = kset \ {th[t].priv}
      BY <1>0, <1>6, GotoEffect DEF Del, PCs, Critical, IInv
    <2>2. files[th[t].priv] = {}
      BY <1>0, <2>1 DEF BufferOK
    <2>3. /\ \A m \in Names : Usable(m)' = Usable(m)
          /\ \A m \in Names : \A u \in Usable(m) : pages'[u] = pages[u]
      BY <2>1, <2>2 DEF Usable
    <2> QED  BY <1>1, <2>1, <2>3, Stages, Stutters
  <1>7. ASSUME FindDel(t) PROVE ~Endless
    BY <1>0, <1>7, OnlyMine DEF FindDel, IInv, Endless, Building, Complete
  <1> QED  BY <1>3, <1>4, <1>5, <1>6, <1>7 DEF FindDel, Found

(***************************************************************************)
(* If nothing fails but the creation of files, the threads that write to   *)
(* "request" and "free" cannot tell the adapter from a table in which each *)
(* write happens at one moment: the many steps under alloc_free_lock, with *)
(* their error paths, implement BufferStore.                               *)
(***************************************************************************)
THEOREM WritesAreAtomic ==
  ASSUME OnlySysfs
  PROVE  Spec => ActsAtomically
  <1>1. Init => Abs!Init
    <2> SUFFICES ASSUME Init PROVE Abs!Init
      OBVIOUS
    <2>1. StoreOf = [n \in Names |-> NULL]
      BY DEF Init, StoreOf, Usable
    <2>2. WriteOf = [t \in Threads |-> Abs!Idle]
      BY Stages DEF Init, WriteOf, Idle, Abs!Idle
    <2> QED  BY <2>1, <2>2 DEF Abs!Init
  <1>2. IInv /\ IInv' /\ [Next]_vars => [Abs!Next]_<<StoreOf, WriteOf>>
    <2> SUFFICES ASSUME IInv, IInv', [Next]_vars
                 PROVE  Abs!Next \/ UNCHANGED <<StoreOf, WriteOf>>
      OBVIOUS
    <2>1. CASE UNCHANGED vars
      BY <2>1 DEF vars, StoreOf, WriteOf, Usable
    <2>2. ASSUME NEW t \in Threads,
                 request_buffer_write(t) \/ delete_buffer_write(t) \/ Step(t)
          PROVE  Abs!Next \/ UNCHANGED <<StoreOf, WriteOf>>
      BY <2>2, RefineCalls, RefineRequests, RefineDeletes DEF Step, Abs!Next
    <2> QED  BY <2>1, <2>2 DEF Next
  <1> QED  BY <1>1, <1>2, Invariance, PTL DEF Spec, ActsAtomically, Abs!Spec

====
