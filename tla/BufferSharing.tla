--------------------------- MODULE BufferSharing ---------------------------
(***************************************************************************)
(* How processes share the DMA buffers of one PCI device.                  *)
(*                                                                         *)
(* The kernel adapter keeps one sysfs directory per buffer (the kset "dma" *)
(* of the device).  A process asks for a buffer by writing to "request",   *)
(* removes one by writing its name to "free", and maps one by opening its  *)
(* "map" file.  Processes coordinate with flock() on the map file only: a  *)
(* mapping holds a shared lock, freeing takes the exclusive one.           *)
(*                                                                         *)
(* Granularity: one action per system call that another process can        *)
(* observe.  Each write to "request" or "free" is one action, because the  *)
(* adapter runs it under alloc_free_lock.                                  *)
(*                                                                         *)
(* Descriptor 0 is modelled by its number: alloc_fd of a buffer that was   *)
(* looked up is never set, so it is the 0 that calloc left, and closing    *)
(* the files of the buffer closes whatever descriptor 0 is.  The next      *)
(* open() then returns 0.  The application is taken to open no file.       *)
(*                                                                         *)
(* The processes register no interrupt callback: with one,                 *)
(* PciDevice_delete ends the thread that calls it, after the last step it  *)
(* has here, instead of returning (pthread_exit, pci.c:462; see Isr).      *)
(***************************************************************************)
EXTENDS Integers

CONSTANTS Procs,   \* processes that use the device
          Bufs,    \* kernel buffer objects that can ever be created (bound)
          NoBuf,   \* no buffer
          MaxId,   \* largest buffer ID (bound; the code uses uint64_t)
          Calls,   \* the API calls that each process makes
          Faults   \* environment faults: "exit" (a process dies at any point)
                   \* and "open" (pda_spinOpen gives up)

AllCalls == {"alloc", "register", "lookup", "delete",
             "deviceDelete", "deviceKeep", "freeAll"}

ASSUME SharingAssumption ==
    /\ NoBuf \notin Bufs
    /\ MaxId \in Nat
    /\ Calls \in [Procs -> SUBSET AllCalls]
    /\ Faults \subseteq {"exit", "open"}

Ids  == 0 .. MaxId
NoId == -1
PDA_BUFFER_INDEX_UNDEFINED == MaxId + 1
IdArgs == Ids \cup {PDA_BUFFER_INDEX_UNDEFINED}

VARIABLES
    reg,     \* kernel: the kset, buffer ID -> buffer object
    nameOf,  \* kernel: the name a buffer object was created under
    obj,     \* process: DMABuffer nodes in device->dma_buffer_list, by buffer
    fd,      \* process: lock held through the map_fd of such a node; "zero" if
             \* the map_fd is 0, whatever descriptor 0 is by now
    leaked,  \* process: lock held through a map_fd that no node refers to
    zero,    \* process: the open file of descriptor 0, see ZeroState
    hit,     \* process: closing alloc_fd = 0 has closed a descriptor that the
             \* library had opened itself (history)
    call     \* process: the API call in progress, see CallState

vars       == <<reg, nameOf, obj, fd, leaked, zero, hit, call>>
kernelVars == <<reg, nameOf>>
fileVars   == <<zero, hit>>
objVars    == <<obj, fd, leaked, fileVars>>

Modes == {"alloc", "register", "lookup", "one", "delete", "keep", "all", "allEmpty"}

PCs == {"idle", "lookup", "open", "flock", "mmap", "next", "tryEx",
        "openFree", "close", "write", "badWrite", "unattached", "dangling"}

(* A node of the list, by the way it came there, that maps its buffer. *)
Mapped == {"kernel", "found"}

(***************************************************************************)
(* What descriptor 0 is: nothing, the standard input, the alloc_fd of a    *)
(* request whose write failed, the free_fd of DMABuffer_free, the          *)
(* directory stream of an abandoned DMABuffer_delete_not_attached_buffers, *)
(* or the map file of a buffer; and the flock() held through it.           *)
(***************************************************************************)
ZeroState ==
    [file : {"none", "stdin", "request", "free", "dir", "map"},
     buf : Bufs \cup {NoBuf}, lock : {"closed", "open", "SH", "EX"}]

ZeroFile(f, b) == [file |-> f, buf |-> b, lock |-> "open"]

NoFile == [file |-> "none", buf |-> NoBuf, lock |-> "closed"]

(***************************************************************************)
(* The local state of a call: its next step, the buffer ID it was given    *)
(* and the one it works on, the buffer whose map file it has open, the     *)
(* lock on the map_fd of a DMABuffer under construction ("zero": see fd),  *)
(* what the call is, whether a step of it failed, whether the buffer being *)
(* freed was looked up (alloc_fd = 0), and the directory entries still to  *)
(* visit.                                                                  *)
(***************************************************************************)
CallState ==
    [pc : PCs, arg : IdArgs, id : Ids, buf : Bufs \cup {NoBuf},
     lock : {"closed", "open", "SH", "zero"}, mode : Modes, failed : BOOLEAN,
     found : BOOLEAN, todo : SUBSET Ids]

NoCall == [pc |-> "idle", arg |-> 0, id |-> 0, buf |-> NoBuf, lock |-> "closed",
           mode |-> "lookup", failed |-> FALSE, found |-> FALSE, todo |-> {}]

Init ==
    /\ reg    = [i \in Ids |-> NoBuf]
    /\ nameOf = [b \in Bufs |-> NoId]
    /\ obj    = [p \in Procs |-> [b \in Bufs |-> "none"]]
    /\ fd     = [p \in Procs |-> [b \in Bufs |-> "closed"]]
    /\ leaked = [p \in Procs |-> [b \in Bufs |-> "closed"]]
    /\ zero   = [p \in Procs |-> ZeroFile("stdin", NoBuf)]
    /\ hit    = [p \in Procs |-> FALSE]
    /\ call   = [p \in Procs |-> NoCall]

-----------------------------------------------------------------------------
(* Helpers *)

Alive(b) == \E i \in Ids : reg[i] = b

Objects(p) == {b \in Bufs : obj[p][b] # "none"}

(***************************************************************************)
(* The process sees only its own list: an index above every one in it, 0   *)
(* for an empty list, or the index the caller asked for.                   *)
(***************************************************************************)
DMABuffer_findNewIndex(p, new_index) ==
    IF new_index # PDA_BUFFER_INDEX_UNDEFINED THEN new_index
    ELSE IF Objects(p) = {} THEN 0
    ELSE 1 + (CHOOSE m \in {nameOf[b] : b \in Objects(p)} :
                 \A b \in Objects(p) : nameOf[b] <= m)

(***************************************************************************)
(* flock(): an open file description of b's map file holds a lock in       *)
(* `kinds', other than the one that asks: p's node, the DMABuffer that p   *)
(* is building, resp. p's descriptor 0 (of any file).  Descriptions        *)
(* conflict within one process as well.                                    *)
(***************************************************************************)
NodeConflict(p, b, kinds) ==
    \E q \in Procs :
        \/ q # p /\ fd[q][b] \in kinds
        \/ leaked[q][b] \in kinds
        \/ call[q].buf = b /\ call[q].lock \in kinds
        \/ zero[q].buf = b /\ zero[q].lock \in kinds

NewConflict(p, b, kinds) ==
    \E q \in Procs :
        \/ fd[q][b] \in kinds
        \/ leaked[q][b] \in kinds
        \/ q # p /\ call[q].buf = b /\ call[q].lock \in kinds
        \/ zero[q].buf = b /\ zero[q].lock \in kinds

ZeroConflict(p, kinds) ==
    LET z == zero[p] IN
    \E q \in Procs :
        \/ z.buf # NoBuf /\ fd[q][z.buf] \in kinds
        \/ z.buf # NoBuf /\ leaked[q][z.buf] \in kinds
        \/ z.buf # NoBuf /\ call[q].buf = z.buf /\ call[q].lock \in kinds
        \/ q # p /\ zero[q].file = z.file /\ zero[q].buf = z.buf /\ zero[q].lock \in kinds

(***************************************************************************)
(* open() returns the lowest free descriptor.  Opens: the file stays open, *)
(* as descriptor 0 if that is free.  Closes: descriptor 0 is closed if     *)
(* `which' says so.                                                        *)
(***************************************************************************)
ZeroIsFree(p) == zero[p].file = "none"

Opens(p, f, b) ==
    zero' = IF ZeroIsFree(p) THEN [zero EXCEPT ![p] = ZeroFile(f, b)] ELSE zero

Closes(p, which) == zero' = IF which THEN [zero EXCEPT ![p] = NoFile] ELSE zero

Return(p)  == call' = [call EXCEPT ![p] = NoCall]
Goto(p, l) == call' = [call EXCEPT ![p].pc = l]

-----------------------------------------------------------------------------
(* Kernel adapter: the two writes that change the kset *)

(***************************************************************************)
(* uio_pci_dma_request_buffer_write: the name must be new.  Memory is      *)
(* taken to suffice; a failed allocation is the subject of KernelRequest.  *)
(***************************************************************************)
request_buffer_write(i, b) ==
    /\ reg[i] = NoBuf
    /\ nameOf[b] = NoId
    /\ reg'    = [reg EXCEPT ![i] = b]
    /\ nameOf' = [nameOf EXCEPT ![b] = i]

(***************************************************************************)
(* uio_pci_dma_delete_buffer_write: remove whatever object has that name   *)
(* now.  A name that is not there is logged and reported as success.       *)
(***************************************************************************)
delete_buffer_write(i) ==
    /\ reg' = [reg EXCEPT ![i] = NoBuf]
    /\ UNCHANGED nameOf

-----------------------------------------------------------------------------
(* Allocation, registration, lookup *)

(***************************************************************************)
(* PciDevice_allocDMABuffer / PciDevice_registerDMABuffer up to the return *)
(* of DMABuffer_requestMemory.  When the request fails, a kernel buffer is *)
(* mapped nevertheless (the return codes are only added up); a user buffer *)
(* goes on to PciDevice_getDMABuffer, which is called in either case.      *)
(* alloc_fd is closed after a write that succeeds, and stays open after    *)
(* one that fails.                                                         *)
(***************************************************************************)
Request(p, a, m) ==
    LET i == DMABuffer_findNewIndex(p, a)
        c == [NoCall EXCEPT !.arg = a, !.id = i, !.mode = m]
    IN
    /\ call[p].pc = "idle"
    /\ i \in Ids
    /\ \/ /\ \E b \in Bufs : request_buffer_write(i, b)
          /\ call' = [call EXCEPT ![p] = [c EXCEPT !.pc = "open"]]
          /\ UNCHANGED zero
       \/ /\ \/ reg[i] # NoBuf /\ Opens(p, "request", NoBuf)
             \/ "open" \in Faults /\ UNCHANGED zero
          /\ call' = [call EXCEPT ![p] =
                        [c EXCEPT !.pc = IF m = "alloc" THEN "open" ELSE "lookup",
                                  !.failed = TRUE]]
          /\ UNCHANGED kernelVars
    /\ UNCHANGED <<obj, fd, leaked, hit>>

PciDevice_allocDMABuffer(p) ==
    "alloc" \in Calls[p] /\ \E a \in IdArgs : Request(p, a, "alloc")

PciDevice_registerDMABuffer(p) ==
    "register" \in Calls[p] /\ \E a \in IdArgs : Request(p, a, "register")

(* PciDevice_getDMABuffer, called by the application. *)
PciDevice_getDMABuffer(p) ==
    /\ "lookup" \in Calls[p]
    /\ call[p].pc = "idle"
    /\ \E a \in IdArgs :
          call' = [call EXCEPT ![p] = [NoCall EXCEPT !.pc = "lookup", !.arg = a]]
    /\ UNCHANGED <<kernelVars, objVars>>

(***************************************************************************)
(* Body of PciDevice_getDMABuffer: a node with that index is in the list,  *)
(* or DMABuffer_new(LOOKUP) picks an index and tests for its directory.    *)
(***************************************************************************)
Lookup(p) ==
    LET a == call[p].arg
        i == DMABuffer_findNewIndex(p, a)
        inList == \E b \in Objects(p) : nameOf[b] = a
        exists == i \in Ids /\ reg[i] # NoBuf     \* DMABuffer_exists
    IN
    /\ call[p].pc = "lookup"
    /\ \/ /\ inList \/ ~exists
          /\ Return(p)
       \/ /\ ~inList /\ exists
          /\ call' = [call EXCEPT ![p] =
                        [NoCall EXCEPT !.pc = "open", !.arg = a, !.id = i]]
    /\ UNCHANGED <<kernelVars, objVars>>

(***************************************************************************)
(* open() of the map file in DMABuffer_map.                                *)
(***************************************************************************)
MapOpen(p) ==
    LET b == reg[call[p].id] IN
    /\ call[p].pc = "open"
    /\ call[p].mode # "register"
    /\ \/ /\ b = NoBuf \/ "open" \in Faults
          /\ Return(p)
          /\ UNCHANGED zero
       \/ /\ b # NoBuf
          /\ call' = [call EXCEPT ![p].pc = "flock", ![p].buf = b,
                        ![p].lock = IF ZeroIsFree(p) THEN "zero" ELSE "open"]
          /\ Opens(p, "map", b)
    /\ UNCHANGED <<kernelVars, obj, fd, leaked, hit>>

(***************************************************************************)
(* DMABuffer_mapUser only opens the file: the node of a registered buffer  *)
(* never takes the shared lock.  The registering call then looks its own   *)
(* buffer up by the index the caller passed, whatever happened before.     *)
(***************************************************************************)
DMABuffer_mapUser(p) ==
    LET b == reg[call[p].id] IN
    /\ call[p].pc = "open"
    /\ call[p].mode = "register"
    /\ \/ /\ b = NoBuf \/ "open" \in Faults
          /\ UNCHANGED <<obj, fd, zero>>
       \/ /\ b # NoBuf
          /\ obj' = [obj EXCEPT ![p][b] = "user"]
          /\ fd'  = [fd EXCEPT ![p][b] = IF ZeroIsFree(p) THEN "zero" ELSE "open"]
          /\ Opens(p, "map", b)
    /\ Goto(p, "lookup")
    /\ UNCHANGED <<kernelVars, leaked, hit>>

(* flock(map_fd, LOCK_SH|LOCK_NB) on the DMABuffer that p builds. *)
LockedShared(p) ==
    LET z == call[p].lock = "zero" IN
    /\ call' = [call EXCEPT ![p].pc = "mmap", ![p].lock = IF z THEN "zero" ELSE "SH"]
    /\ zero' = IF z THEN [zero EXCEPT ![p].lock = "SH"] ELSE zero

NewBusy(p) ==
    IF call[p].lock = "zero" THEN ZeroConflict(p, {"EX"})
                             ELSE NewConflict(p, call[p].buf, {"EX"})

(* Bug: the error path of DMABuffer_map leaves map_fd open. *)
MapLockKeepsFile(p) ==
    /\ call[p].pc = "flock"
    /\ \/ NewBusy(p) /\ Goto(p, "idle") /\ UNCHANGED zero
       \/ ~NewBusy(p) /\ LockedShared(p)
    /\ UNCHANGED <<kernelVars, obj, fd, leaked, hit>>

(* Bug: DMABuffer_map does not take the lock. *)
MapLockSkipped(p) ==
    /\ call[p].pc = "flock"
    /\ Goto(p, "mmap")
    /\ UNCHANGED <<kernelVars, objVars>>

(* flock() fails while somebody frees the buffer: the file is closed. *)
MapLock(p) ==
    /\ call[p].pc = "flock"
    /\ \/ NewBusy(p) /\ Return(p) /\ Closes(p, call[p].lock = "zero")
       \/ ~NewBusy(p) /\ LockedShared(p)
    /\ UNCHANGED <<kernelVars, obj, fd, leaked, hit>>

(***************************************************************************)
(* stat() and mmap(): kernfs refuses a file that has been removed, so they *)
(* succeed together exactly if the opened buffer still exists.  DMABuffer_ *)
(* new then adds the node, and PciDevice_getDMABuffer starts over; after a *)
(* failed request the node is freed, and the mapping and the locked        *)
(* descriptor are left behind (a lock through descriptor 0 in `zero').     *)
(***************************************************************************)
MapMmap(p) ==
    LET b == call[p].buf IN
    /\ call[p].pc = "mmap"
    /\ \/ /\ ~Alive(b)
          /\ Return(p)
          /\ Closes(p, call[p].lock = "zero")
          /\ UNCHANGED <<obj, fd, leaked>>
       \/ /\ Alive(b) /\ call[p].failed
          /\ leaked' = IF call[p].lock = "zero" THEN leaked
                       ELSE [leaked EXCEPT ![p][b] = call[p].lock]
          /\ Return(p)
          /\ UNCHANGED <<obj, fd, zero>>
       \/ /\ Alive(b) /\ ~call[p].failed
          /\ obj'  = [obj EXCEPT ![p][b] = IF call[p].mode = "lookup" THEN "found"
                                                                     ELSE "kernel"]
          /\ fd'   = [fd EXCEPT ![p][b] = call[p].lock]
          /\ call' = [call EXCEPT ![p] = IF call[p].mode = "lookup"
                         THEN [NoCall EXCEPT !.pc = "lookup", !.arg = call[p].arg]
                         ELSE NoCall]
          /\ UNCHANGED <<leaked, zero>>
    /\ UNCHANGED <<kernelVars, hit>>

-----------------------------------------------------------------------------
(* Freeing *)

(***************************************************************************)
(* The effect of DMABuffer_closeFiles on descriptor 0, for p's node of b:  *)
(* alloc_fd is 0 if the buffer was looked up, map_fd may be 0.  Closing    *)
(* alloc_fd hits a descriptor of the library if 0 is the free_fd of this   *)
(* call, or a map_fd other than that of the node.                          *)
(***************************************************************************)
CloseZero(p, b, found) ==
    /\ Closes(p, found \/ fd[p][b] = "zero")
    /\ hit' = [hit EXCEPT ![p] = @ \/ /\ found
                                      /\ \/ zero[p].file = "free"
                                         \/ zero[p].file = "map" /\ fd[p][b] # "zero"]

(***************************************************************************)
(* DMABuffer_free of the node of b, first part: unmap (or munlock, which   *)
(* also turns the call into a PDA_DELETE), then either close the files, or *)
(* begin flock(LOCK_EX|LOCK_NB): converting a lock first gives up the old  *)
(* one, flock(2).  The node is taken off the list here: nothing looks at   *)
(* the list of the process until the call has removed it.                  *)
(***************************************************************************)
DMABuffer_free(p, b, m) ==
    LET z     == fd[p][b] = "zero"
        found == obj[p][b] = "found"
    IN
    /\ obj' = [obj EXCEPT ![p][b] = "none"]
    /\ \/ /\ obj[p][b] = "user" \/ m # "keep"
          /\ fd'   = [fd EXCEPT ![p][b] = IF z THEN "zero" ELSE "open"]
          /\ zero' = IF z /\ zero[p].lock = "SH" THEN [zero EXCEPT ![p].lock = "open"]
                                                 ELSE zero
          /\ call' = [call EXCEPT ![p].pc = "tryEx", ![p].mode = m, ![p].found = found,
                                  ![p].id = nameOf[b], ![p].buf = b]
          /\ UNCHANGED hit
       \/ /\ obj[p][b] \in Mapped /\ m = "keep"
          /\ fd'   = [fd EXCEPT ![p][b] = "closed"]
          /\ CloseZero(p, b, found)
          /\ Goto(p, "next")

PciDevice_deleteDMABuffer(p) ==
    /\ "delete" \in Calls[p]
    /\ call[p].pc = "idle"
    /\ \E b \in Objects(p) : DMABuffer_free(p, b, "one")
    /\ UNCHANGED <<kernelVars, leaked>>

(***************************************************************************)
(* PciDevice_delete with PDA_DELETE or PDA_DELETE_PERSISTANT ("keep"), and *)
(* PciDevice_freeAllBuffers: all begin by freeing the whole list.          *)
(***************************************************************************)
FreeList(p, m) ==
    /\ call[p].pc = "idle"
    /\ call' = [call EXCEPT ![p].pc = "next", ![p].mode = m]
    /\ UNCHANGED <<kernelVars, objVars>>

PciDevice_delete(p) ==
    \/ "deviceDelete" \in Calls[p] /\ FreeList(p, "delete")
    \/ "deviceKeep" \in Calls[p] /\ FreeList(p, "keep")

PciDevice_freeAllBuffers(p) ==
    /\ "freeAll" \in Calls[p]
    /\ FreeList(p, IF Objects(p) = {} THEN "allEmpty" ELSE "all")

(***************************************************************************)
(* PciDevice_freeAllBuffers leaves device->dma_buffer_list pointing to the *)
(* freed nodes: after it the process may only exit ("dangling").           *)
(***************************************************************************)
EndFreeList(p) ==
    call' = [call EXCEPT ![p] = IF @.mode = "all" THEN [NoCall EXCEPT !.pc = "dangling"]
                                                  ELSE NoCall]

(***************************************************************************)
(* DMABuffer_freeAllBuffersInt: the next node, or the end of the loop.     *)
(* PciDevice_freeAllBuffers goes on to the unattached buffers only if all  *)
(* frees succeeded.                                                        *)
(***************************************************************************)
FreeNext(p) ==
    LET unattached == call[p].mode \in {"all", "allEmpty"} /\ ~call[p].failed IN
    /\ call[p].pc = "next"
    /\ \/ \E b \in Objects(p) : DMABuffer_free(p, b, call[p].mode)
       \/ /\ Objects(p) = {} /\ unattached
          /\ call' = [call EXCEPT ![p].pc = "unattached", ![p].todo = Ids]
          /\ UNCHANGED <<obj, fd, fileVars>>
       \/ /\ Objects(p) = {} /\ ~unattached
          /\ EndFreeList(p)
          /\ UNCHANGED <<obj, fd, fileVars>>
    /\ UNCHANGED <<kernelVars, leaked>>

(* The end of DMABuffer_free, with or without an error. *)
FreeDone(p, err) ==
    call' = [call EXCEPT ![p] =
        IF @.mode = "one" THEN NoCall
        ELSE [NoCall EXCEPT !.pc = "next", !.mode = call[p].mode,
                            !.failed = call[p].failed \/ err]]

(* flock(map_fd, LOCK_EX|LOCK_NB) would fail: a lock, or no open file. *)
FreeBusy(p, kinds) ==
    IF fd[p][call[p].buf] = "zero" THEN ZeroIsFree(p) \/ ZeroConflict(p, kinds)
                                   ELSE NodeConflict(p, call[p].buf, kinds)

(* It succeeds, or fails, with `kept' left to the descriptor of the node. *)
LockedExclusive(p) ==
    LET b == call[p].buf
        z == fd[p][b] = "zero"
    IN
    /\ fd'   = IF z THEN fd ELSE [fd EXCEPT ![p][b] = "EX"]
    /\ zero' = IF z THEN [zero EXCEPT ![p].lock = "EX"] ELSE zero
    /\ Goto(p, "openFree")

LockRefused(p, kept) ==
    /\ fd' = [fd EXCEPT ![p][call[p].buf] = kept]
    /\ FreeDone(p, TRUE)
    /\ UNCHANGED zero

(* Bug: freeing is refused only if somebody else is freeing. *)
FreeTryExShared(p) ==
    /\ call[p].pc = "tryEx"
    /\ IF FreeBusy(p, {"EX"}) THEN LockRefused(p, "closed") ELSE LockedExclusive(p)
    /\ UNCHANGED <<kernelVars, obj, leaked, hit>>

(* Bug: a conversion that fails keeps the shared lock on the lost map_fd. *)
FreeTryExKeepsShared(p) ==
    /\ call[p].pc = "tryEx"
    /\ IF FreeBusy(p, {"SH", "EX"}) THEN LockRefused(p, "SH") ELSE LockedExclusive(p)
    /\ UNCHANGED <<kernelVars, obj, leaked, hit>>

(* Bug: a refused lock is tried again until it is granted. *)
FreeTryExPolls(p) ==
    /\ call[p].pc = "tryEx"
    /\ IF FreeBusy(p, {"SH", "EX"}) THEN UNCHANGED <<fd, zero, call>>
                                    ELSE LockedExclusive(p)
    /\ UNCHANGED <<kernelVars, obj, leaked, hit>>

(***************************************************************************)
(* flock(map_fd, LOCK_EX|LOCK_NB), second part.  If it fails the node is   *)
(* freed (exit_free) and its descriptor stays open, without a lock.        *)
(***************************************************************************)
FreeTryEx(p) ==
    /\ call[p].pc = "tryEx"
    /\ \/ FreeBusy(p, {"SH", "EX"}) /\ LockRefused(p, "closed")
       \/ ~FreeBusy(p, {"SH", "EX"}) /\ LockedExclusive(p)
    /\ UNCHANGED <<kernelVars, obj, leaked, hit>>

(***************************************************************************)
(* open() of the "free" attribute.  If it fails, exit_free leaves the      *)
(* descriptor behind with the exclusive lock on it.                        *)
(***************************************************************************)
FreeOpen(p) ==
    LET b == call[p].buf IN
    /\ call[p].pc = "openFree"
    /\ \/ /\ Goto(p, "close")
          /\ Opens(p, "free", NoBuf)
          /\ UNCHANGED <<fd, leaked>>
       \/ /\ "open" \in Faults
          /\ leaked' = IF fd[p][b] = "zero" THEN leaked
                       ELSE [leaked EXCEPT ![p][b] = "EX"]
          /\ fd'     = [fd EXCEPT ![p][b] = "closed"]
          /\ FreeDone(p, TRUE)
          /\ UNCHANGED zero
    /\ UNCHANGED <<kernelVars, obj, hit>>

(***************************************************************************)
(* DMABuffer_closeFiles: the exclusive lock is gone before the write, and  *)
(* with it free_fd if that is the descriptor 0 that alloc_fd names.        *)
(***************************************************************************)
DMABuffer_closeFiles(p) ==
    LET b == call[p].buf IN
    /\ call[p].pc = "close"
    /\ fd' = [fd EXCEPT ![p][b] = "closed"]
    /\ CloseZero(p, b, call[p].found)
    /\ Goto(p, IF call[p].found /\ zero[p].file = "free" THEN "badWrite" ELSE "write")
    /\ UNCHANGED <<kernelVars, obj, leaked>>

(***************************************************************************)
(* write(free_fd, name) and close(free_fd).  Without an open free_fd the   *)
(* write fails with EBADF: the node is freed, the buffer stays registered. *)
(***************************************************************************)
FreeWrite(p) ==
    /\ \/ /\ call[p].pc = "write"
          /\ delete_buffer_write(call[p].id)
          /\ FreeDone(p, FALSE)
       \/ /\ call[p].pc = "badWrite"
          /\ FreeDone(p, TRUE)
          /\ UNCHANGED kernelVars
    /\ Closes(p, zero[p].file = "free")
    /\ UNCHANGED <<obj, fd, leaked, hit>>

(***************************************************************************)
(* DMABuffer_delete_not_attached_buffers: the next directory entry, in any *)
(* order; every entry is removed, without a look at the locks.  If "free"  *)
(* cannot be opened the loop is left, and the directory stays open.        *)
(***************************************************************************)
DMABuffer_delete_not_attached_buffers(p) ==
    /\ call[p].pc = "unattached"
    /\ \/ \E i \in call[p].todo :
             /\ delete_buffer_write(i)
             /\ call' = [call EXCEPT ![p].todo = @ \ {i}]
             /\ UNCHANGED zero
       \/ /\ call[p].todo = {}
          /\ EndFreeList(p)
          /\ UNCHANGED <<kernelVars, zero>>
       \/ /\ call[p].todo # {} /\ "open" \in Faults
          /\ EndFreeList(p)
          /\ Opens(p, "dir", NoBuf)
          /\ UNCHANGED kernelVars
    /\ UNCHANGED <<obj, fd, leaked, hit>>

-----------------------------------------------------------------------------
(***************************************************************************)
(* The process ends, at any point if "exit" \in Faults: the kernel closes  *)
(* its descriptors, and buffers stay.  A new process may take its place.   *)
(***************************************************************************)
Exit(p) ==
    /\ "exit" \in Faults \/ call[p].pc = "dangling"
    /\ obj'    = [obj EXCEPT ![p] = [b \in Bufs |-> "none"]]
    /\ fd'     = [fd EXCEPT ![p] = [b \in Bufs |-> "closed"]]
    /\ leaked' = [leaked EXCEPT ![p] = [b \in Bufs |-> "closed"]]
    /\ zero'   = [zero EXCEPT ![p] = ZeroFile("stdin", NoBuf)]
    /\ hit'    = [hit EXCEPT ![p] = FALSE]
    /\ Return(p)
    /\ UNCHANGED kernelVars

(* The steps of a call in progress. *)
Step(p) ==
    \/ Lookup(p) \/ MapOpen(p) \/ DMABuffer_mapUser(p) \/ MapLock(p) \/ MapMmap(p)
    \/ FreeNext(p) \/ FreeTryEx(p) \/ FreeOpen(p) \/ DMABuffer_closeFiles(p)
    \/ FreeWrite(p) \/ DMABuffer_delete_not_attached_buffers(p)

(* The calls a process can make. *)
Call(p) ==
    \/ PciDevice_allocDMABuffer(p) \/ PciDevice_registerDMABuffer(p)
    \/ PciDevice_getDMABuffer(p) \/ PciDevice_deleteDMABuffer(p)
    \/ PciDevice_delete(p) \/ PciDevice_freeAllBuffers(p)

Next == \E p \in Procs : Call(p) \/ Step(p) \/ Exit(p)

Spec == Init /\ [][Next]_vars

(* A call that has begun is carried on by its thread. *)
Fairness == \A p \in Procs : WF_vars(Step(p))

FairSpec == Spec /\ Fairness

-----------------------------------------------------------------------------
(* Properties *)

(***************************************************************************)
(* Types; in addition a call that has returned (DMABuffer_new with an      *)
(* error included) keeps no descriptor of the buffer it was building.      *)
(***************************************************************************)
TypeOK ==
    /\ reg    \in [Ids -> Bufs \cup {NoBuf}]
    /\ nameOf \in [Bufs -> Ids \cup {NoId}]
    /\ obj    \in [Procs -> [Bufs -> {"none", "kernel", "found", "user"}]]
    /\ fd     \in [Procs -> [Bufs -> {"closed", "open", "SH", "EX", "zero"}]]
    /\ leaked \in [Procs -> [Bufs -> {"closed", "SH", "EX"}]]
    /\ zero   \in [Procs -> ZeroState]
    /\ hit    \in [Procs -> BOOLEAN]
    /\ call   \in [Procs -> CallState]
    /\ \A p \in Procs : call[p].pc = "idle" => call[p] = NoCall

(* p's descriptor 0 is b's map file, with that lock on it. *)
ZeroHolds(p, b, lock) == zero[p].file = "map" /\ zero[p].buf = b /\ zero[p].lock = lock

(***************************************************************************)
(* Every buffer that a process has mapped through DMABuffer_map is covered *)
(* by a shared lock of that very process, for as long as it is mapped;     *)
(* also if its map_fd is the descriptor 0 that an earlier delete had       *)
(* closed, until closing another looked-up buffer hits that descriptor.    *)
(***************************************************************************)
MappedHoldsLock ==
    \A p \in Procs, b \in Bufs :
        obj[p][b] \in Mapped =>
            \/ fd[p][b] = "SH"
            \/ fd[p][b] = "zero" /\ (hit[p] \/ ZeroHolds(p, b, "SH"))

(* DMABuffer_free of b is past its flock and has not closed its files. *)
Freeing(p, b) == call[p].pc \in {"openFree", "close"} /\ call[p].buf = b

(***************************************************************************)
(* "Can't free buffer because it is mapped elsewhere!": while a process is *)
(* past that flock in DMABuffer_free, no process (itself included) has the *)
(* buffer mapped, in a node, in a leaked mapping or in a DMABuffer_map     *)
(* that has passed its flock, and no other process is that far.  Not so    *)
(* for a map_fd that was 0 when closing alloc_fd = 0 hit it: that mapping  *)
(* has lost its lock, and that process locks some other file.              *)
(***************************************************************************)
FreeingIsExclusive ==
    \A p, q \in Procs, b \in Bufs :
        Freeing(p, b) /\ (fd[p][b] = "zero" => ~hit[p]) =>
            /\ obj[q][b] \in Mapped => hit[q] /\ fd[q][b] = "zero"
            /\ leaked[q][b] # "SH"
            /\ ~(call[q].buf = b /\ call[q].lock = "SH")
            /\ ~ZeroHolds(q, b, "SH")
            /\ Freeing(q, b) => q = p \/ (fd[q][b] = "zero" /\ hit[q])

(* The process is in no call and has no node, resp. lost no descriptor. *)
Quiet(p)  == call[p].pc = "idle" /\ Objects(p) = {}
NoLeak(p) ==
    /\ \A b \in Bufs : leaked[p][b] = "closed"
    /\ zero[p].lock \notin {"SH", "EX"}

(***************************************************************************)
(* The last process that deletes a buffer removes it: a delete may fail    *)
(* because others still map the buffer, yet once every process has deleted *)
(* what it had, no buffer is left in the kernel (processes that only use   *)
(* PDA_DELETE and have leaked no descriptor, and in which closing alloc_fd *)
(* = 0 has not hit a descriptor of the library: a second delete of a       *)
(* looked-up buffer closes its own free_fd, and the buffer stays).         *)
(***************************************************************************)
LastDeleterRemoves ==
    (\A p \in Procs : Quiet(p) /\ NoLeak(p) /\ ~hit[p]) =>
        \A i \in Ids : reg[i] = NoBuf

(***************************************************************************)
(* Every call returns: flock never blocks and the recursion of             *)
(* PciDevice_getDMABuffer ends.                                            *)
(***************************************************************************)
CallsReturn ==
    \A p \in Procs : call[p].pc \notin {"idle", "dangling"}
                        ~> call[p].pc \in {"idle", "dangling"}

-----------------------------------------------------------------------------
(***************************************************************************)
(* "Can't free buffer because it is mapped elsewhere!": a buffer that some *)
(* process has mapped is still there.  Not so: DMABuffer_free closes the   *)
(* locked descriptor before it writes to "free".                           *)
(***************************************************************************)
NotFreedWhileMapped ==
    \A p \in Procs, b \in Bufs : obj[p][b] \in Mapped => Alive(b)

====
