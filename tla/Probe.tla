-------------------------------- MODULE Probe --------------------------------
(***************************************************************************)
(* The adapter takes over a device (probe), step by step, and gives it up  *)
(* again (remove), while other threads already or still use the sysfs      *)
(* files that exist: "request" and "free" write under the mutex that all   *)
(* devices share, "barN" maps a register.  Each step of a probe can fail   *)
(* and jumps to a label that undoes the steps before it.                   *)
(***************************************************************************)
EXTENDS Integers, FiniteSets

CONSTANTS
    Devices,
    Threads,   \* threads that use the files
    Buffers,   \* buffers that can be requested (bound)
    NBars,     \* memory BARs of a device
    NULL       \* no thread, no device, no file

ASSUME ProbeAssumption == NBars \in Nat /\ NULL \notin Threads \cup Devices

(* The files in the directory "dma", in the order of their creation, and   *)
(* the files of the BARs.                                                  *)
DmaFile(i) == <<"dma", i>>
BarFile(i) == <<"bar", i>>
DmaFiles   == {DmaFile(i) : i \in 1 .. 4}
BarFiles   == {BarFile(i) : i \in 1 .. NBars}
Writable   == {DmaFile(1), DmaFile(2)}   \* "request" and "free"

Resources == {"attrs", "enabled", "msi", "dma_device", "kset", "regions", "names", "uio"}

VARIABLES
    dev,    \* device -> pc:      step of its probe or remove, "bound" or "unbound"
            \*           i:       which file or BAR the step is about
            \*           err:     probe's err is not 0
            \*           res:     what this (or the last) probe has acquired and
            \*                    nothing has released; a new probe starts over, and
            \*                    what is left then is lost
            \*           files:   its files that can be opened
            \*           drvdata: the driver data is dma_device (not NULL)
            \*           listed:  buffers in its kset
            \*           mem:     buffers whose memory is allocated
            \*           raced:   history: a write ended while it was not bound
    owner,  \* holder of alloc_free_lock
    th      \* the callback a thread is in

vars == <<dev, owner, th>>

Idle == [pc |-> "idle", dev |-> NULL, file |-> NULL]

Init ==
    /\ dev = [d \in Devices |->
                [pc |-> "unbound", i |-> 0, err |-> FALSE, res |-> {}, files |-> {},
                 drvdata |-> FALSE, listed |-> {}, mem |-> {}, raced |-> FALSE]]
    /\ owner = NULL
    /\ th = [t \in Threads |-> Idle]

(***************************************************************************)
(* kernfs: a file that is removed cannot be opened any more, and the       *)
(* thread that removes it goes on when its last callback has returned.     *)
(***************************************************************************)
Drained(d) == \A t \in Threads : th[t].dev = d => th[t].file \in dev[d].files

(* A step of the driver core's thread, from the step named l. *)
Step(d, l, next) ==
    /\ dev[d].pc = l /\ Drained(d)
    /\ dev' = [dev EXCEPT ![d] = next]
    /\ UNCHANGED <<owner, th>>

(* The device after a step that gets r, and after one that fails: err is   *)
(* set and the label l jumped to.                                          *)
Got(d, r, then)  == [dev[d] EXCEPT !.res = @ \cup r, !.pc = then]
Failed(d, l)     == [dev[d] EXCEPT !.err = TRUE, !.pc = l]
Jumped(d, l)     == [dev[d] EXCEPT !.pc = l]

-----------------------------------------------------------------------------
(* probe *)

(* Threads that sleep in mutex_lock are forgotten with the list of waiters. *)
Waiting == {t \in Threads : th[t].pc = "entered" /\ th[t].file \in Writable /\ owner # NULL}

(***************************************************************************)
(* mutex_init of the lock that all devices share; the four attributes.     *)
(* Their allocation is not checked: NULL is dereferenced if one fails.     *)
(***************************************************************************)
Probe(d) ==
    /\ dev[d].pc = "unbound" /\ Drained(d)
    /\ \E begun \in {[res |-> {"attrs"}, pc |-> "enable"], [res |-> {}, pc |-> "oops"]} :
          dev' = [dev EXCEPT ![d].res = begun.res, ![d].pc = begun.pc, ![d].err = FALSE]
    /\ owner' = NULL
    /\ \E asleep \in SUBSET Waiting :
          th' = [t \in Threads |-> IF t \in asleep THEN [th[t] EXCEPT !.pc = "asleep"] ELSE th[t]]

EnableDevice(d) ==
    \/ Step(d, "enable", Got(d, {"enabled"}, "interrupt"))
    \/ Step(d, "enable", Failed(d, "exit"))

(* A device without irq, or without MSI and without INTx masking, is refused. *)
SetupInterrupt(d) ==
    \/ \E r \in {{"msi"}, {}} : Step(d, "interrupt", Got(d, r, "alloc"))
    \/ Step(d, "interrupt", Failed(d, "exit"))

AllocDevice(d) ==
    \/ Step(d, "alloc", Got(d, {"dma_device"}, "masks"))
    \/ Step(d, "alloc", Failed(d, "exit"))

(* The DMA masks, then kset_create_and_add: a failure of that is not checked. *)
CreateKset(d) ==
    \/ Step(d, "masks", [Got(d, {"kset"}, "files") EXCEPT !.i = 1, !.listed = {}])
    \/ Step(d, "masks", Failed(d, "exit"))
    \/ Step(d, "masks", Jumped(d, "oops"))

(* Bug: one file too many. *)
CreateFileTooMany(d) ==
    LET i == dev[d].i IN
    \/ Step(d, "files", [dev[d] EXCEPT !.files = @ \cup {DmaFile(i)}, !.i = i + 1,
                                       !.pc = IF i = 5 THEN "regions" ELSE "files"])
    \/ Step(d, "files", Failed(d, "exit_files"))

(* sysfs_create_bin_file of the i-th file; its label undoes it. *)
CreateFile(d) ==
    LET i == dev[d].i IN
    \/ Step(d, "files", [dev[d] EXCEPT !.files = @ \cup {DmaFile(i)}, !.i = i + 1,
                                       !.pc = IF i = 4 THEN "regions" ELSE "files"])
    \/ Step(d, "files", Failed(d, "exit_files"))

(* A failure jumps over the labels of the files, and err is 0. *)
RequestRegions(d) ==
    \/ Step(d, "regions", [Got(d, {"regions"}, "bars") EXCEPT !.i = 1])
    \/ Step(d, "regions", Jumped(d, "exit"))

(* The loop over the BARs: each gets a name, allocated unchecked, and a file. *)
CreateBar(d) ==
    LET i == dev[d].i IN
    /\ i <= NBars
    /\ \/ Step(d, "bars", [Got(d, {"names"}, "bars") EXCEPT !.files = @ \cup {BarFile(i)}, !.i = i + 1])
       \/ Step(d, "bars", Got(d, {"names"}, "exit_bars"))
       \/ Step(d, "bars", Jumped(d, "oops"))

(* A failure undoes the four files only, and err is 0. *)
RegisterUio(d) ==
    /\ dev[d].i > NBars
    /\ \/ Step(d, "bars", Got(d, {"uio"}, "drvdata"))
       \/ Step(d, "bars", [dev[d] EXCEPT !.i = 4, !.pc = "exit_files"])

SetDrvdata(d) ==
    Step(d, "drvdata", [dev[d] EXCEPT !.drvdata = TRUE, !.pc = "bound"])

-----------------------------------------------------------------------------
(* The labels of probe *)

(***************************************************************************)
(* exit_bars: `for(j=i--; j>=0; j--)' with unsigned j does not end; it     *)
(* removes the file of the BAR before the failing one, again and again     *)
(* (before the first: one beyond the array).                               *)
(***************************************************************************)
ExitBars(d) ==
    Step(d, "exit_bars", [dev[d] EXCEPT !.files = @ \ {BarFile(dev[d].i - 1)}])

(* The labels of the four files: each one falls through to the next. *)
ExitFiles(d) ==
    LET i == dev[d].i IN
    Step(d, "exit_files", [dev[d] EXCEPT !.files = @ \ {DmaFile(i)}, !.i = i - 1,
                                         !.pc = IF i = 1 THEN "exit" ELSE "exit_files"])

(* Bug: the attributes are freed with dma_device. *)
ExitFreesAttrs(d) ==
    Step(d, "exit", [dev[d] EXCEPT !.res = @ \ {"dma_device", "attrs"}, !.pc = "exit_kobj"])

ExitFreesDevice(d) ==
    Step(d, "exit", [dev[d] EXCEPT !.res = @ \ {"dma_device"}, !.pc = "exit_kobj"])

(* kobject_del: the directory goes with the files that are left in it. *)
ExitDeletesKobj(d) ==
    Step(d, "exit_kobj", [dev[d] EXCEPT !.files = @ \ DmaFiles, !.pc = "exit_end"])

(* Bug: MSI stays enabled. *)
ExitKeepsMsi(d) ==
    Step(d, "exit_end", [dev[d] EXCEPT !.res = @ \ {"attrs"},
                                       !.pc = IF dev[d].err THEN "unbound" ELSE "bound"])

(***************************************************************************)
(* MSI and attributes.  The kset is not put: it stays, with what it lists, *)
(* and nothing leads to it any more.  If err is 0, the driver core takes   *)
(* the device to be bound.                                                 *)
(***************************************************************************)
ExitEnd(d) ==
    Step(d, "exit_end", [dev[d] EXCEPT !.res = @ \ {"msi", "attrs"},
                                       !.pc = IF dev[d].err THEN "unbound" ELSE "bound"])

-----------------------------------------------------------------------------
(* remove *)

(* dma_device is the driver data; NULL is dereferenced. *)
Remove(d) == Step(d, "bound", Jumped(d, IF dev[d].drvdata THEN "rm_buffers" ELSE "oops"))

(***************************************************************************)
(* uio_pci_dma_free of every buffer in the kset, under its spinlock and    *)
(* without alloc_free_lock.  The buffers stay in the list.                 *)
(***************************************************************************)
RemoveBuffers(d) ==
    Step(d, "rm_buffers", [dev[d] EXCEPT !.mem = @ \ dev[d].listed, !.pc = "rm_kobj"])

(* kobject_del *)
RemoveKobj(d) ==
    Step(d, "rm_kobj", [dev[d] EXCEPT !.files = @ \ DmaFiles, !.pc = "rm_kset"])

(* kset_unregister *)
RemoveKset(d) ==
    Step(d, "rm_kset", [dev[d] EXCEPT !.res = @ \ {"kset"}, !.listed = {}, !.i = 1, !.pc = "rm_bars"])

RemoveBar(d) ==
    LET i == dev[d].i IN
    /\ i <= NBars
    /\ Step(d, "rm_bars", [dev[d] EXCEPT !.files = @ \ {BarFile(i)}, !.i = i + 1])

(* uio_unregister_device: frees the interrupt. *)
UnregisterUio(d) ==
    /\ dev[d].i > NBars
    /\ Step(d, "rm_bars", [dev[d] EXCEPT !.res = @ \ {"names", "uio"}, !.pc = "rm_end"])

(* Interrupts, regions, device and dma_device; the core resets the driver data. *)
RemoveEnd(d) ==
    Step(d, "rm_end", [dev[d] EXCEPT !.res = @ \ {"msi", "regions", "enabled", "dma_device"},
                                     !.drvdata = FALSE, !.pc = "unbound"])

-----------------------------------------------------------------------------
(* Callbacks of the files *)

Leave(t) == th' = [th EXCEPT ![t] = Idle]

Enter(t) ==
    /\ th[t].pc = "idle"
    /\ \E d \in Devices : \E f \in dev[d].files :
          th' = [th EXCEPT ![t] = [pc |-> "entered", dev |-> d, file |-> f]]
    /\ UNCHANGED <<dev, owner>>

(* "max_payload_size" and "max_read_request_size": one register is read. *)
ReadSize(t) ==
    /\ th[t].pc = "entered" /\ th[t].file \in DmaFiles \ Writable
    /\ Leave(t)
    /\ UNCHANGED <<dev, owner>>

(* bar_mmap looks its attribute up in dma_device; -EINVAL without driver data. *)
bar_mmap(t) ==
    /\ th[t].pc = "entered" /\ th[t].file \in BarFiles
    /\ \/ dev[th[t].dev].drvdata /\ th' = [th EXCEPT ![t].pc = "inside"]
       \/ ~dev[th[t].dev].drvdata /\ Leave(t)
    /\ UNCHANGED <<dev, owner>>

(* remap_pfn_range of the register, whose place dma_device->pdev tells. *)
RemapBar(t) ==
    /\ th[t].pc = "inside" /\ th[t].file \in BarFiles
    /\ Leave(t)
    /\ UNCHANGED <<dev, owner>>

mutex_lock(t) ==
    /\ th[t].pc = "entered" /\ th[t].file \in Writable
    /\ owner = NULL
    /\ owner' = t
    /\ th' = [th EXCEPT ![t].pc = "inside"]
    /\ UNCHANGED dev

(* What a write may make of the buffers: one more, one less, or no change. *)
Written(d, f) ==
    {dev[d]} \cup
    (IF f = DmaFile(1)
     THEN {[dev[d] EXCEPT !.mem = @ \cup {b}, !.listed = @ \cup {b}] :
             b \in Buffers \ (dev[d].mem \cup dev[d].listed)}
     ELSE {[dev[d] EXCEPT !.mem = @ \ {b}, !.listed = @ \ {b}] : b \in dev[d].listed})

(* Whether probe has finished with the device and remove not begun. *)
Settled(d) == dev[d].pc = "bound" /\ dev[d].drvdata

(* Bug: a write that fails keeps the lock. *)
WriteKeepsLock(t) ==
    LET d == th[t].dev IN
    /\ th[t].pc = "inside" /\ th[t].file \in Writable
    /\ \E new \in Written(d, th[t].file) :
          /\ dev' = [dev EXCEPT ![d] = [new EXCEPT !.raced = @ \/ ~Settled(d)]]
          /\ owner' = IF new = dev[d] THEN owner ELSE NULL
    /\ Leave(t)

(***************************************************************************)
(* The rest of a write to "request" or "free", up to the unlock.  What it  *)
(* does to a buffer that remove has freed is undefined; here it finds the  *)
(* buffer as it was.                                                       *)
(***************************************************************************)
Write(t) ==
    LET d == th[t].dev IN
    /\ th[t].pc = "inside" /\ th[t].file \in Writable
    /\ \E new \in Written(d, th[t].file) :
          dev' = [dev EXCEPT ![d] = [new EXCEPT !.raced = @ \/ ~Settled(d)]]
    /\ owner' = NULL
    /\ Leave(t)

-----------------------------------------------------------------------------
Driver(d) ==
    \/ EnableDevice(d) \/ SetupInterrupt(d) \/ AllocDevice(d) \/ CreateKset(d)
    \/ CreateFile(d) \/ RequestRegions(d) \/ CreateBar(d) \/ RegisterUio(d) \/ SetDrvdata(d)
    \/ ExitBars(d) \/ ExitFiles(d) \/ ExitFreesDevice(d) \/ ExitDeletesKobj(d) \/ ExitEnd(d)
    \/ RemoveBuffers(d) \/ RemoveKobj(d) \/ RemoveKset(d) \/ RemoveBar(d)
    \/ UnregisterUio(d) \/ RemoveEnd(d)

Callback(t) == ReadSize(t) \/ bar_mmap(t) \/ RemapBar(t) \/ mutex_lock(t) \/ Write(t)

Next ==
    \/ \E d \in Devices : Probe(d) \/ Remove(d) \/ Driver(d)
    \/ \E t \in Threads : Enter(t) \/ Callback(t)

(* The thread of the driver core and those in a callback go on. *)
Fairness ==
    /\ \A d \in Devices : WF_vars(Driver(d))
    /\ \A t \in Threads : WF_vars(Callback(t)) /\ SF_vars(mutex_lock(t))

Spec == Init /\ [][Next]_vars /\ Fairness

-----------------------------------------------------------------------------
(* Properties *)

Rest == {"unbound", "bound", "exit_bars", "oops"}

(* Types; and the loops over files stay within them. *)
TypeOK ==
    /\ \A d \in Devices :
          /\ dev[d].pc \in Rest \cup
                {"enable", "interrupt", "alloc", "masks", "files", "regions", "bars", "drvdata",
                 "exit_files", "exit", "exit_kobj", "exit_end",
                 "rm_buffers", "rm_kobj", "rm_kset", "rm_bars", "rm_end"}
          /\ dev[d].i \in Nat
          /\ dev[d].res \subseteq Resources
          /\ dev[d].files \subseteq DmaFiles \cup BarFiles
          /\ {dev[d].err, dev[d].drvdata, dev[d].raced} \subseteq BOOLEAN
          /\ dev[d].listed \subseteq Buffers /\ dev[d].mem \subseteq Buffers
    /\ owner \in Threads \cup {NULL}
    /\ \A t \in Threads :
          \/ th[t] = Idle
          \/ th[t] \in [pc : {"entered", "inside", "asleep"}, dev : Devices,
                        file : DmaFiles \cup BarFiles]

(***************************************************************************)
(* A probe that reports an error, from whichever step it failed, leaves no *)
(* file, no interrupt and no region, but it leaves the device enabled and  *)
(* the kset allocated, which its labels forget; remove leaves nothing but  *)
(* the four attributes, which it forgets.  Buffers are freed with their    *)
(* device, unless some write came to its end before probe had finished or  *)
(* after remove had begun.                                                 *)
(***************************************************************************)
UnboundHasNothing ==
    \A d \in Devices : dev[d].pc = "unbound" =>
        /\ dev[d].files = {}
        /\ dev[d].res \subseteq IF dev[d].err THEN {"enabled", "kset"} ELSE {"attrs"}
        /\ ~dev[d].raced => dev[d].mem = {}

(* probe has failed without setting err, or is about to return so. *)
HalfBound(d) ==
    /\ ~dev[d].drvdata /\ ~dev[d].err
    /\ dev[d].pc \in {"exit", "exit_kobj", "exit_end", "bound", "oops"}

(***************************************************************************)
(* What a callback finds of what it uses, whatever probe or remove is      *)
(* doing.  The attribute it was called through exists: those of "dma" are  *)
(* allocated one by one, those of the BARs are part of dma_device.  (Not   *)
(* so for BARs when uio_register_device has failed.)  A BAR is mapped only *)
(* while its region is reserved for the driver and dma_device, which tells *)
(* where it is, exists.  The buffers that a write to "request" or "free"   *)
(* walks under the lock are allocated, with one exception: remove frees    *)
(* them without the lock, and until it has removed the two files and their *)
(* callbacks have returned, a write runs through freed buffers.            *)
(***************************************************************************)
CallbacksLive ==
    \A t \in Threads : th[t].pc # "idle" =>
        LET d == th[t].dev IN
        /\ th[t].file \in DmaFiles => {"attrs", "kset"} \subseteq dev[d].res
        /\ th[t].file \in BarFiles => "dma_device" \in dev[d].res \/ HalfBound(d)
        /\ th[t].file \in BarFiles /\ th[t].pc = "inside" =>
              {"dma_device", "regions"} \subseteq dev[d].res
        /\ th[t].file \in Writable /\ th[t].pc = "inside" =>
              dev[d].listed \subseteq dev[d].mem \/ dev[d].pc \in {"rm_kobj", "rm_kset"}

(* Every probe and every remove comes to an end (exit_bars does not), also *)
(* if the files that it removes are in use.                                *)
DriverReturns == \A d \in Devices : dev[d].pc \notin Rest ~> dev[d].pc \in Rest

====
