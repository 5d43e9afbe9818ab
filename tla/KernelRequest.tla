---------------------------- MODULE KernelRequest ----------------------------
(***************************************************************************)
(* The kernel adapter's side of a buffer's life: the sysfs files "request" *)
(* and "free" of one device, written by several threads.  Every write runs *)
(* under the driver's mutex; the kset of buffers, their sysfs files, the   *)
(* bookkeeping structure (uio_pci_dma_private, here a priv) and the pages  *)
(* behind it change one by one, and each change can fail.                  *)
(***************************************************************************)
EXTENDS Integers

CONSTANTS Threads,   \* threads that write to "request" or "free"
          Privs,     \* kernel addresses of uio_pci_dma_private (bound)
          Names,     \* buffer names (bound)
          NULL,      \* no thread, no priv, no name
          Kinds,     \* buffers requested: "kernel" (start = 0), "user"
          Faults     \* "count": a write of the wrong size; "memory": memory for
                     \* a buffer runs out; "sysfs": a file cannot be created

ASSUME RequestAssumption ==
    /\ NULL \notin Threads \cup Privs \cup Names \cup {"none", "kernel", "user"}
    /\ Kinds \subseteq {"kernel", "user"}
    /\ Faults \subseteq {"count", "memory", "sysfs"}

VARIABLES
    owner,   \* holder of alloc_free_lock
    heap,    \* the privs that are allocated
    name,    \* the kobject's name, given by kobject_add
    kset,    \* privs whose kobject is in the kset "dma" and in sysfs
    reused,  \* privs that kzalloc has given out again while the kset's list led to
             \* them: kobject_init has made their entry lead to itself
    files,   \* the sysfs files of a priv
    pages,   \* the pages a priv holds: allocated ones, or pinned user pages
    th       \* the write a thread is in: its step, name, kind and priv

vars       == <<owner, heap, name, kset, reused, files, pages, th>>
bufferVars == <<heap, name, kset, reused, files, pages>>

(***************************************************************************)
(* The steps of a write; the lock is held in the critical ones.  Two have  *)
(* no next step: a walk of the kset that does not end ("hang", also with   *)
(* the spin lock of the list), a pointer that is NULL ("oops").            *)
(***************************************************************************)
Critical == {"kzalloc", "find", "add", "memory", "mapfile", "sgfile", "binfile",
             "exit", "findDel", "free", "del", "unlock", "hang", "oops"}
PCs == Critical \cup {"idle", "lockReq", "lockDel", "badCount"}

ThreadType == [pc   : PCs, name : Names \cup {NULL},
               kind : Kinds \cup {NULL}, priv : Privs \cup {NULL}]

Idle == [pc |-> "idle", name |-> NULL, kind |-> NULL, priv |-> NULL]

Init ==
    /\ owner = NULL
    /\ heap  = {}
    /\ name  = [o \in Privs |-> NULL]
    /\ kset  = {} /\ reused = {}
    /\ files = [o \in Privs |-> {}]
    /\ pages = [o \in Privs |-> "none"]
    /\ th    = [t \in Threads |-> Idle]

Goto(t, l)    == th' = [th EXCEPT ![t].pc = l]
Take(t, o, l) == th' = [th EXCEPT ![t] = [@ EXCEPT !.pc = l, !.priv = o]]

(* Some kobject in the kset has that name. *)
Exists(n) == \E o \in kset : name[o] = n

(***************************************************************************)
(* KSET_FIND walks the list with the list's spin lock.  It ends at a priv  *)
(* of the name, or misses it.  If the list leads to a priv given out again *)
(* the walk stays there (a priv that is being requested has no name yet);  *)
(* if it leads to one that is freed, it reads whatever is there now.       *)
(***************************************************************************)
ListFree    == \A u \in Threads : th[u].pc # "hang"
Found(n)    == {o \in kset \ reused : name[o] = n}
NotFound(n) == (Found(n) = {} /\ reused = {}) \/ ~(kset \subseteq heap)
Endless     == reused # {} \/ ~(kset \subseteq heap)

-----------------------------------------------------------------------------
(* alloc_free_lock *)

(* Bug: the lock is not waited for. *)
LockBarges(t) ==
    /\ \/ th[t].pc = "lockReq" /\ Goto(t, "kzalloc")
       \/ th[t].pc = "lockDel" /\ Goto(t, "findDel")
    /\ owner' = t
    /\ UNCHANGED bufferVars

mutex_lock(t) ==
    /\ owner = NULL
    /\ owner' = t
    /\ \/ th[t].pc = "lockReq" /\ Goto(t, "kzalloc")
       \/ th[t].pc = "lockDel" /\ Goto(t, "findDel")
    /\ UNCHANGED bufferVars

(* The kernel does not check who unlocks: the mutex is free afterwards. *)
mutex_unlock(t) ==
    /\ th[t].pc \in {"unlock", "badCount"}
    /\ owner' = NULL
    /\ th' = [th EXCEPT ![t] = Idle]
    /\ UNCHANGED bufferVars

-----------------------------------------------------------------------------
(* uio_pci_dma_sysfs_request_buffer_write *)

(* A write of the wrong size jumps to `exit' before the lock is taken. *)
request_buffer_write(t) ==
    /\ th[t].pc = "idle"
    /\ \E n \in Names, k \in Kinds :
          \/ th' = [th EXCEPT ![t] = [pc |-> "lockReq", name |-> n, kind |-> k, priv |-> NULL]]
          \/ /\ "count" \in Faults
             /\ Goto(t, "badCount")
    /\ UNCHANGED <<owner, bufferVars>>

(* Bug: the result of kzalloc is not checked. *)
KzallocUnchecked(t) ==
    /\ th[t].pc = "kzalloc"
    /\ \/ \E o \in Privs \ heap :
             /\ heap'   = heap \cup {o}
             /\ reused' = reused \cup ({o} \cap kset)
             /\ files'  = [files EXCEPT ![o] = {}]
             /\ pages'  = [pages EXCEPT ![o] = "none"]
             /\ Take(t, o, "find")
       \/ /\ "memory" \in Faults
          /\ Goto(t, "find")
          /\ UNCHANGED <<heap, reused, files, pages>>
    /\ UNCHANGED <<owner, name, kset>>

(* kzalloc and kobject_init; the address may be that of a priv freed while in the kset. *)
Kzalloc(t) ==
    /\ th[t].pc = "kzalloc"
    /\ \/ \E o \in Privs \ heap :
             /\ heap'   = heap \cup {o}
             /\ reused' = reused \cup ({o} \cap kset)
             /\ files'  = [files EXCEPT ![o] = {}]
             /\ pages'  = [pages EXCEPT ![o] = "none"]
             /\ Take(t, o, "find")
       \/ /\ "memory" \in Faults
          /\ Goto(t, "exit")
          /\ UNCHANGED <<heap, reused, files, pages>>
    /\ UNCHANGED <<owner, name, kset>>

(* KSET_FIND: "Buffer already exists!". *)
Find(t) ==
    /\ th[t].pc = "find" /\ ListFree
    /\ \/ Found(th[t].name) # {} /\ Goto(t, "exit")
       \/ NotFound(th[t].name) /\ Goto(t, "add")
       \/ Endless /\ Goto(t, "hang")
    /\ UNCHANGED <<owner, bufferVars>>

(* kobject_add: fails if sysfs has a directory of that name. *)
Add(t) ==
    /\ th[t].pc = "add" /\ ListFree
    /\ \/ /\ ~Exists(th[t].name)
          /\ name' = [name EXCEPT ![th[t].priv] = th[t].name]
          /\ kset' = kset \cup {th[t].priv}
          /\ Goto(t, "memory")
       \/ /\ Exists(th[t].name) \/ "sysfs" \in Faults
          /\ Goto(t, "exit")
          /\ UNCHANGED <<name, kset>>
    /\ UNCHANGED <<owner, heap, reused, files, pages>>

(***************************************************************************)
(* uio_pci_dma_allocate_kernel_memory: frees the chunks it has got when it *)
(* fails.  The caller leaves the kobject in the kset.                      *)
(***************************************************************************)
allocate_kernel_memory(t) ==
    LET o == th[t].priv IN
    /\ th[t].pc = "memory" /\ th[t].kind = "kernel"
    /\ \/ pages' = [pages EXCEPT ![o] = "kernel"] /\ Goto(t, "mapfile")
       \/ /\ "memory" \in Faults
          /\ pages' = [pages EXCEPT ![o] = "none"]
          /\ Goto(t, "exit")
    /\ UNCHANGED <<owner, heap, name, kset, reused, files>>

(***************************************************************************)
(* uio_pci_dma_allocate_user_memory: a failure after get_user_pages leaves *)
(* the pages pinned.  The caller leaves the kobject in the kset.           *)
(***************************************************************************)
allocate_user_memory(t) ==
    LET o == th[t].priv IN
    /\ th[t].pc = "memory" /\ th[t].kind = "user"
    /\ \/ pages' = [pages EXCEPT ![o] = "user"] /\ Goto(t, "mapfile")
       \/ /\ "memory" \in Faults
          /\ \E left \in {"none", "user"} : pages' = [pages EXCEPT ![o] = left]
          /\ Goto(t, "exit")
    /\ UNCHANGED <<owner, heap, name, kset, reused, files>>

(* sysfs_create_bin_file, for "map" and then for "sg". *)
CreateFile(t, file, then) ==
    LET o == th[t].priv IN
    /\ \/ /\ file \notin files[o]
          /\ files' = [files EXCEPT ![o] = @ \cup {file}]
          /\ Goto(t, then)
       \/ /\ file \in files[o] \/ "sysfs" \in Faults
          /\ Goto(t, "binfile")
          /\ UNCHANGED files
    /\ UNCHANGED <<owner, heap, name, kset, reused, pages>>

(***************************************************************************)
(* BIN_ATTR_PDA allocates the attributes of both files before the first is *)
(* created, and does not look at the result.                               *)
(***************************************************************************)
CreateFiles(t) ==
    \/ th[t].pc = "mapfile" /\ CreateFile(t, "map", "sgfile")
    \/ th[t].pc = "mapfile" /\ "memory" \in Faults /\ Goto(t, "oops") /\ UNCHANGED <<owner, bufferVars>>
    \/ th[t].pc = "sgfile"  /\ CreateFile(t, "sg", "unlock")

(* Bug: exit_binfile forgets kobject_del. *)
ExitBinfileKeepsEntry(t) ==
    /\ th[t].pc = "binfile" /\ ListFree
    /\ files' = [files EXCEPT ![th[t].priv] = {}]
    /\ Goto(t, "exit")
    /\ UNCHANGED <<owner, heap, name, kset, reused, pages>>

(* The label exit_binfile: the files and the kobject go, the pages do not. *)
ExitBinfile(t) ==
    /\ th[t].pc = "binfile" /\ ListFree
    /\ files' = [files EXCEPT ![th[t].priv] = {}]
    /\ kset'  = kset \ {th[t].priv}
    /\ Goto(t, "exit")
    /\ UNCHANGED <<owner, heap, name, reused, pages>>

(***************************************************************************)
(* The label exit: free_memory_lists and kfree of the priv, if there is    *)
(* one.  Pages it still holds are forgotten with the lists, not freed.     *)
(***************************************************************************)
Exit(t) ==
    /\ th[t].pc = "exit"
    /\ heap'  = heap \ {th[t].priv}
    /\ pages' = [o \in Privs |-> IF o = th[t].priv THEN "none" ELSE pages[o]]
    /\ Goto(t, "unlock")
    /\ UNCHANGED <<owner, name, kset, reused, files>>

-----------------------------------------------------------------------------
(* uio_pci_dma_sysfs_delete_buffer_write *)

delete_buffer_write(t) ==
    /\ th[t].pc = "idle"
    /\ \E n \in Names : th' = [th EXCEPT ![t].pc = "lockDel", ![t].name = n]
    /\ UNCHANGED <<owner, bufferVars>>

(* Bug: the files are left to kobject_del. *)
FindDelKeepsFiles(t) ==
    /\ th[t].pc = "findDel" /\ ListFree
    /\ \/ \E o \in Found(th[t].name) : Take(t, o, "free")
       \/ NotFound(th[t].name) /\ Goto(t, "unlock")
    /\ UNCHANGED <<owner, bufferVars>>

(* Bug: an unknown name is waited for, with the lock held. *)
FindDelWaits(t) ==
    /\ th[t].pc = "findDel" /\ ListFree
    /\ \/ \E o \in Found(th[t].name) :
             /\ files' = [files EXCEPT ![o] = {}]
             /\ Take(t, o, "free")
       \/ NotFound(th[t].name) /\ UNCHANGED <<th, files>>
    /\ UNCHANGED <<owner, heap, name, kset, reused, pages>>

(* KSET_FIND and the removal of both files; an unknown name is logged. *)
FindDel(t) ==
    /\ th[t].pc = "findDel" /\ ListFree
    /\ \/ \E o \in Found(th[t].name) :
             /\ files' = [files EXCEPT ![o] = {}]
             /\ Take(t, o, "free")
       \/ /\ NotFound(th[t].name)
          /\ Goto(t, "unlock")
          /\ UNCHANGED files
       \/ Endless /\ Goto(t, "hang") /\ UNCHANGED files
    /\ UNCHANGED <<owner, heap, name, kset, reused, pages>>

(* uio_pci_dma_free: the pages are given back, and the priv is kfree'd. *)
Free(t) ==
    /\ th[t].pc = "free"
    /\ pages' = [pages EXCEPT ![th[t].priv] = "none"]
    /\ heap'  = heap \ {th[t].priv}
    /\ Goto(t, "del")
    /\ UNCHANGED <<owner, name, kset, reused, files>>

(***************************************************************************)
(* kobject_del, of a kobject inside the priv that is freed already; it has *)
(* no effect on the list if the priv has been given out again meanwhile.   *)
(***************************************************************************)
Del(t) ==
    /\ th[t].pc = "del" /\ ListFree
    /\ kset' = kset \ ({th[t].priv} \ reused)
    /\ Goto(t, "unlock")
    /\ UNCHANGED <<owner, heap, name, reused, files, pages>>

-----------------------------------------------------------------------------
Step(t) ==
    \/ mutex_lock(t) \/ mutex_unlock(t)
    \/ Kzalloc(t) \/ Find(t) \/ Add(t)
    \/ allocate_kernel_memory(t) \/ allocate_user_memory(t) \/ CreateFiles(t)
    \/ ExitBinfile(t) \/ Exit(t)
    \/ FindDel(t) \/ Free(t) \/ Del(t)

Next == \E t \in Threads : request_buffer_write(t) \/ delete_buffer_write(t) \/ Step(t)

Spec == Init /\ [][Next]_vars

(* Linux mutexes serve their waiters in order, and the holder goes on. *)
FairSpec ==
    /\ Spec
    /\ \A t \in Threads : WF_vars(Step(t)) /\ SF_vars(mutex_lock(t))

-----------------------------------------------------------------------------
(* Properties *)

(* Types. *)
TypeOK ==
    /\ owner \in Threads \cup {NULL}
    /\ heap \subseteq Privs
    /\ name  \in [Privs -> Names \cup {NULL}]
    /\ kset \subseteq Privs /\ reused \subseteq Privs
    /\ files \in [Privs -> SUBSET {"map", "sg"}]
    /\ pages \in [Privs -> {"none", "kernel", "user"}]
    /\ th    \in [Threads -> ThreadType]

(***************************************************************************)
(* "Added locking for buffer allocation, freeing": at most one thread is   *)
(* between the lock and the unlock of a write, and it is the holder of the *)
(* lock.  Not so once a write of the wrong size has unlocked for another.  *)
(***************************************************************************)
AllocFreeExclusive ==
    \A t \in Threads : th[t].pc \in Critical => owner = t

(***************************************************************************)
(* When nobody is in a write, the kset holds complete buffers: allocated,  *)
(* with their pages and both files, and of different names.  A failure to  *)
(* create a file undoes all of this but the pages, which stay allocated    *)
(* without a buffer (module KernelMemory).                                 *)
(***************************************************************************)
BuffersComplete ==
    owner = NULL =>
        /\ \A o \in kset : o \in heap /\ pages[o] # "none" /\ files[o] = {"map", "sg"}
        /\ \A o, u \in kset : name[o] = name[u] => o = u

(***************************************************************************)
(* Whatever fails in a write, no step ends the exclusion but one: the      *)
(* unlock of a write of the wrong size, which never had the lock.          *)
(***************************************************************************)
ExclusionKept ==
    [][AllocFreeExclusive /\ ~AllocFreeExclusive' =>
          \E t \in Threads : th[t].pc = "badCount" /\ th'[t].pc = "idle"]_vars

(* A thread that never leaves the driver, and keeps the lock. *)
Stuck == \E t \in Threads : th[t].pc \in {"hang", "oops"}

(***************************************************************************)
(* Every write returns, whatever fails in it and in the others, unless a   *)
(* thread has got stuck in the driver: every path but these two releases   *)
(* the lock, and no one waits for anything else.                           *)
(***************************************************************************)
WritesReturn == \A t \in Threads : th[t].pc # "idle" ~> th[t].pc = "idle" \/ Stuck

-----------------------------------------------------------------------------
(* The abstract specification *)

(* A buffer can be used by its name from the creation of its second file to *)
(* the removal of its files.                                                *)
Usable(n) == {o \in kset \cap heap : name[o] = n /\ files[o] = {"map", "sg"}}

StoreOf == [n \in Names |-> IF Usable(n) = {} THEN NULL ELSE pages[CHOOSE o \in Usable(n) : TRUE]]

Stage(pc) == CASE pc \in {"idle", "badCount"}      -> "idle"
               [] pc \in {"free", "del", "unlock"} -> "done"
               [] OTHER                            -> "called"

WriteOf == [t \in Threads |->
              [stage |-> Stage(th[t].pc), name |-> th[t].name, kind |-> th[t].kind]]

Abs == INSTANCE BufferStore WITH
          CanFail <- Faults # {}, store <- StoreOf, write <- WriteOf

(***************************************************************************)
(* The writes to "request" and "free", each many steps that may fail, act  *)
(* on the buffers as if each happened at one moment.                       *)
(***************************************************************************)
ActsAtomically == Abs!Spec

====
