---------------------------- MODULE DeviceOperator ----------------------------
(***************************************************************************)
(* A process collects its PCI devices in a device operator, lists the IDs  *)
(* of a device's buffers, and deletes the operator.  Both collections are  *)
(* read from sysfs directories, entry by entry, while devices are bound    *)
(* and unbound and other processes request and free buffers.  Directory    *)
(* entries are numbers, in the order in which readdir returns them.        *)
(* No device of an operator has an interrupt callback: with one,           *)
(* PciDevice_delete ends the thread, and with it DeviceOperator_delete in  *)
(* the middle of its loop (pthread_exit, pci.c:462; see Isr).              *)
(***************************************************************************)
EXTENDS Integers, Sequences, FiniteSets

CONSTANTS
    NDevices,     \* PCI devices of the machine (bound)
    Ids,          \* IDs (vendor and device) they can have
    IdOf,         \* device -> its ID
    IdTable,      \* IDs the adapter knows from its id_table
    Lists,        \* lists of IDs a program passes as pci_ids (bound)
    NBuffers,     \* buffer IDs (bound)
    FirstEntries, \* initial dma_buffer_id_list_max_entries
    MaxEntries    \* how far failing calls may enlarge it (bound)

ASSUME OperatorAssumption ==
    /\ IdOf \in [1 .. NDevices -> Ids] /\ IdTable \subseteq Ids /\ Lists \subseteq Seq(Ids)
    /\ {NDevices, NBuffers} \subseteq Nat /\ FirstEntries \in Nat \ {0}

Devices == 1 .. NDevices
Names   == 1 .. NBuffers

VARIABLES
    known,    \* IDs the adapter has been told of
    bound,    \* devices that have a link in the adapter's driver directory
    buffers,  \* buffers of the listed device that have a directory in sysfs
    op,       \* the operator: "none", "ready", "failed" (delete failed)
    pci_ids,  \* the list it was made for
    devices,  \* pci_devices: PciDevice objects, as [obj, entry]
    heap,     \* PciDevice objects that are allocated
    list,     \* dma_buffer_id_list of the first device: cap (0: NULL), max, ids
    call,     \* the call: its step, index of its loop, position in the directory,
              \* the directory, and whether something failed
    stable,   \* history: devices that have been bound all the time since the search began,
              \* and were not passed over because a file of theirs could not be opened
    always,   \* history: buffers that have been there all the time since the call began
    ever      \* history: buffers that were there at some time since then

kernelVars == <<known, bound, buffers>>
opVars     == <<op, pci_ids, devices, heap>>
history    == <<stable, always, ever>>
vars       == <<kernelVars, opVars, list, call, history>>

Idle     == [pc |-> "idle", i |-> 1, at |-> 0, directory |-> "null", ret |-> "ok"]
NewList  == [cap |-> 0, max |-> FirstEntries, ids |-> <<>>]

Init ==
    /\ known = IdTable
    /\ bound \in SUBSET {e \in Devices : IdOf[e] \in IdTable}
    /\ buffers = {}
    /\ op = "none" /\ pci_ids = <<>> /\ devices = <<>> /\ heap = {}
    /\ list = NewList /\ call = Idle
    /\ stable = {} /\ always = {} /\ ever = {}

Goto(l) == call' = [call EXCEPT !.pc = l]

(* readdir: the first entry behind the position, if there is one. *)
Rest(dir)      == {e \in dir : e > call.at}
NextEntry(dir) == CHOOSE e \in Rest(dir) : \A x \in Rest(dir) : e <= x

-----------------------------------------------------------------------------
(* DeviceOperator_new *)

(* PDAInit may fail; the caller can ask for new IDs to be announced. *)
DeviceOperator_new ==
    /\ call.pc = "idle" /\ op # "ready"
    /\ \E l \in Lists, enumerate \in BOOLEAN :
          /\ pci_ids' = l
          /\ Goto(IF enumerate THEN "newid" ELSE "search")
          /\ stable' = IF enumerate THEN {} ELSE bound
    /\ op' = "none" /\ devices' = <<>> /\ list' = NewList
    /\ UNCHANGED <<kernelVars, heap, always, ever>>

(***************************************************************************)
(* An iteration over pci_ids: the write to new_id has the adapter probe    *)
(* the devices of that ID, some of which it takes.                         *)
(***************************************************************************)
NewId ==
    /\ call.pc = "newid"
    /\ \/ /\ call.i <= Len(pci_ids)
          /\ known' = known \cup {pci_ids[call.i]}
          /\ \E new \in SUBSET {e \in Devices \ bound : IdOf[e] = pci_ids[call.i]} :
                bound' = bound \cup new
          /\ call' = [call EXCEPT !.i = @ + 1]
          /\ UNCHANGED stable
       \/ /\ call.i <= Len(pci_ids)
          /\ Goto("fail")
          /\ UNCHANGED <<known, bound, stable>>
       \/ /\ call.i > Len(pci_ids)
          /\ call' = [call EXCEPT !.pc = "search", !.i = 1]
          /\ stable' = bound
          /\ UNCHANGED <<known, bound>>
    /\ UNCHANGED <<buffers, opVars, list, always, ever>>

(* Bug: the directory is read on from where the search for the last ID ended. *)
SearchContinues ==
    /\ call.pc = "search"
    /\ \/ /\ call.i <= Len(pci_ids)
          /\ call' = [call EXCEPT !.pc = "readdir", !.directory = "open"]
          /\ UNCHANGED op
       \/ /\ call.i <= Len(pci_ids)
          /\ call' = [call EXCEPT !.pc = "fail", !.directory = "null"]
          /\ UNCHANGED op
       \/ /\ call.i > Len(pci_ids)
          /\ op' = "ready" /\ call' = Idle
    /\ UNCHANGED <<kernelVars, pci_ids, devices, heap, list, history>>

(* The search for one ID of the list; after the last one the call returns. *)
Search ==
    /\ call.pc = "search"
    /\ \/ /\ call.i <= Len(pci_ids)
          /\ call' = [call EXCEPT !.pc = "readdir", !.at = 0, !.directory = "open"]
          /\ UNCHANGED op
       \/ /\ call.i <= Len(pci_ids)
          /\ call' = [call EXCEPT !.pc = "fail", !.directory = "null"]
          /\ UNCHANGED op
       \/ /\ call.i > Len(pci_ids)
          /\ op' = "ready" /\ call' = Idle
    /\ UNCHANGED <<kernelVars, pci_ids, devices, heap, list, history>>

ReadDir ==
    /\ call.pc = "readdir"
    /\ \/ /\ Rest(bound) # {}
          /\ call' = [call EXCEPT !.pc = "vendor", !.at = NextEntry(bound)]
       \/ /\ Rest(bound) = {}
          /\ call' = [call EXCEPT !.pc = "search", !.i = @ + 1, !.directory = "closed"]
    /\ UNCHANGED <<kernelVars, opVars, list, history>>

(* Bug: the file is opened again until it can be. *)
OpenVendorRetries ==
    /\ call.pc = "vendor"
    /\ Goto(IF call.at \in bound THEN "device" ELSE "vendor")
    /\ UNCHANGED <<kernelVars, opVars, list, history>>

(***************************************************************************)
(* lstat of the link and fopen of "vendor".  An entry for which either     *)
(* fails is passed over without an error: a link that is gone, but also a  *)
(* bound device, for want of a descriptor or of memory.                    *)
(***************************************************************************)
OpenVendor ==
    /\ call.pc = "vendor"
    /\ \/ call.at \in bound /\ Goto("device") /\ UNCHANGED stable
       \/ /\ Goto("readdir")
          /\ stable' = stable \ {e \in {call.at} : IdOf[e] = pci_ids[call.i]}
    /\ UNCHANGED <<kernelVars, opVars, list, always, ever>>

(* fopen of "device", both reads and the comparison; any failure ends the call. *)
OpenDevice ==
    /\ call.pc = "device"
    /\ \/ call.at \in bound /\ IdOf[call.at] = pci_ids[call.i] /\ Goto("create")
       \/ call.at \in bound /\ IdOf[call.at] # pci_ids[call.i] /\ Goto("readdir")
       \/ Goto("fail")
    /\ UNCHANGED <<kernelVars, opVars, list, history>>

(***************************************************************************)
(* PciDevice_new_op: checks that the device is still the adapter's, and    *)
(* allocates an object; the operator counts it when that succeeded.        *)
(***************************************************************************)
PciDevice_new_op ==
    /\ call.pc = "create"
    /\ \/ /\ call.at \in bound
          /\ LET obj == CHOOSE o \in 1 .. Cardinality(heap) + 1 : o \notin heap IN
             /\ devices' = Append(devices, [obj |-> obj, entry |-> call.at])
             /\ heap' = heap \cup {obj}
          /\ Goto("readdir")
       \/ Goto("fail") /\ UNCHANGED <<devices, heap>>
    /\ UNCHANGED <<kernelVars, op, pci_ids, list, history>>

(* Bug: an operator that cannot be completed is dropped. *)
FailDropsOperator ==
    /\ call.pc = "fail"
    /\ op' = "none" /\ devices' = <<>> /\ list' = NewList
    /\ call' = Idle /\ pci_ids' = <<>> /\ stable' = {}
    /\ UNCHANGED <<kernelVars, heap, always, ever>>

(***************************************************************************)
(* deviceoperatornew_return: the directory is closed unless it is NULL,    *)
(* and DeviceOperator_delete deletes the devices made so far, which have   *)
(* no buffers yet, and the operator.                                       *)
(***************************************************************************)
Fail ==
    /\ call.pc = "fail"
    /\ op' = "none" /\ devices' = <<>> /\ list' = NewList
    /\ heap' = heap \ {devices[n].obj : n \in DOMAIN devices}
    /\ call' = Idle /\ pci_ids' = <<>> /\ stable' = {}
    /\ UNCHANGED <<kernelVars, always, ever>>

-----------------------------------------------------------------------------
(* DeviceOperator_delete *)

DeviceOperator_delete ==
    /\ call.pc = "idle" /\ op = "ready"
    /\ Goto("delete")
    /\ list' = NewList
    /\ stable' = {} /\ always' = {} /\ ever' = {}
    /\ UNCHANGED <<kernelVars, opVars>>

(***************************************************************************)
(* The loop up to the first NULL: PciDevice_delete frees the object,       *)
(* whether or not its buffers could be freed.  If one could not, the       *)
(* operator stays, and so do its pointers.                                 *)
(***************************************************************************)
Delete ==
    /\ call.pc = "delete"
    /\ \/ /\ call.i <= Len(devices)
          /\ heap' = heap \ {devices[call.i].obj}
          /\ \E ret \in {call.ret, "error"} : call' = [call EXCEPT !.i = @ + 1, !.ret = ret]
          /\ UNCHANGED op
       \/ /\ call.i > Len(devices)
          /\ op' = (IF call.ret = "ok" THEN "none" ELSE "failed")
          /\ call' = Idle
          /\ UNCHANGED heap
    /\ UNCHANGED <<kernelVars, pci_ids, devices, list, history>>

-----------------------------------------------------------------------------
(* PciDevice_getListOfBuffers, of the first device *)

Listing == {"list", "opendir", "listdir", "grow"}

PciDevice_getListOfBuffers ==
    /\ call.pc = "idle" /\ op = "ready" /\ devices # <<>>
    /\ call' = [Idle EXCEPT !.pc = "list", !.directory = "uninitialized"]
    /\ list' = [list EXCEPT !.ids = <<>>]
    /\ stable' = {} /\ always' = buffers /\ ever' = buffers
    /\ UNCHANGED <<kernelVars, opVars>>

(* The label exit: the array goes, the directory is closed, 0 is returned. *)
ExitList == call' = Idle /\ list' = [list EXCEPT !.cap = 0, !.ids = <<>>]

(* The process ends: closedir of an uninitialized pointer. *)
ProcessEnds ==
    /\ op' = "none" /\ devices' = <<>> /\ heap' = {}
    /\ list' = NewList /\ call' = Idle

(* malloc of the array on the first call, and after a call that failed. *)
AllocList ==
    /\ call.pc = "list"
    /\ \/ list.cap # 0 /\ Goto("opendir") /\ UNCHANGED <<op, devices, heap, list>>
       \/ /\ list.cap = 0 /\ Goto("opendir")
          /\ list' = [list EXCEPT !.cap = list.max]
          /\ UNCHANGED <<op, devices, heap>>
       \/ list.cap = 0 /\ ExitList /\ UNCHANGED <<op, devices, heap>>
       \/ list.cap = 0 /\ ProcessEnds
    /\ UNCHANGED <<kernelVars, pci_ids, history>>

OpenList ==
    /\ call.pc = "opendir"
    /\ \/ call' = [call EXCEPT !.pc = "listdir", !.directory = "open"] /\ UNCHANGED list
       \/ ExitList
    /\ UNCHANGED <<kernelVars, opVars, history>>

Stored(n) == [list EXCEPT !.ids = Append(@, n)]

(* Bug: the array grows when it has overflowed. *)
ListDirGrowsLate ==
    /\ call.pc = "listdir" /\ Rest(buffers) # {}
    /\ LET n == NextEntry(buffers) IN
       /\ call' = [call EXCEPT !.at = n, !.pc = IF Len(list.ids) > list.max THEN "grow" ELSE "listdir"]
       /\ list' = IF Len(list.ids) > list.max THEN list ELSE Stored(n)
    /\ UNCHANGED <<kernelVars, opVars, history>>

(* An entry is stored; the array is enlarged first if it is full. *)
ListDir ==
    /\ call.pc = "listdir" /\ Rest(buffers) # {}
    /\ LET n == NextEntry(buffers) IN
       /\ call' = [call EXCEPT !.at = n, !.pc = IF Len(list.ids) >= list.max THEN "grow" ELSE "listdir"]
       /\ list' = IF Len(list.ids) >= list.max THEN list ELSE Stored(n)
    /\ UNCHANGED <<kernelVars, opVars, history>>

(* Bug: the entry for which the array was enlarged is not stored. *)
GrowSkipsEntry ==
    /\ call.pc = "grow"
    /\ \/ Goto("listdir") /\ list' = [list EXCEPT !.max = 2 * @, !.cap = 2 * list.max]
       \/ /\ call' = Idle
          /\ 2 * list.max <= MaxEntries
          /\ list' = [max |-> 2 * list.max, cap |-> 0, ids |-> <<>>]
    /\ UNCHANGED <<kernelVars, opVars, history>>

(* Twice the entries; if there is no memory, max_entries is doubled already. *)
Grow ==
    /\ call.pc = "grow"
    /\ \/ /\ Goto("listdir")
          /\ list' = [Stored(call.at) EXCEPT !.max = 2 * @, !.cap = 2 * list.max]
       \/ /\ call' = Idle
          /\ 2 * list.max <= MaxEntries
          /\ list' = [max |-> 2 * list.max, cap |-> 0, ids |-> <<>>]
    /\ UNCHANGED <<kernelVars, opVars, history>>

EndList ==
    /\ call.pc = "listdir" /\ Rest(buffers) = {}
    /\ call' = Idle
    /\ UNCHANGED <<kernelVars, opVars, list, history>>

-----------------------------------------------------------------------------
(* The kernel and other processes *)

Searching == {"search", "readdir", "vendor", "device", "create"}

(***************************************************************************)
(* A change that no step of the process could notice is left to the next   *)
(* state in which one can: devices come and go until the operator is       *)
(* ready, buffers while it is.                                             *)
(***************************************************************************)
Bind ==
    /\ op # "ready"
    /\ \E e \in Devices \ bound : IdOf[e] \in known /\ bound' = bound \cup {e}
    /\ UNCHANGED <<known, buffers, opVars, list, call, history>>

Unbind ==
    /\ op # "ready"
    /\ \E e \in bound : bound' = bound \ {e} /\ stable' = stable \ {e}
    /\ UNCHANGED <<known, buffers, opVars, list, call, always, ever>>

RequestBuffer ==
    /\ op = "ready" /\ call.pc # "delete"
    /\ \E n \in Names \ buffers :
          /\ buffers' = buffers \cup {n}
          /\ ever' = IF call.pc \in Listing THEN ever \cup {n} ELSE ever
    /\ UNCHANGED <<known, bound, opVars, list, call, stable, always>>

FreeBuffer ==
    /\ op = "ready" /\ call.pc # "delete"
    /\ \E n \in buffers :
          /\ buffers' = buffers \ {n}
          /\ always' = IF call.pc \in Listing THEN always \ {n} ELSE always
    /\ UNCHANGED <<known, bound, opVars, list, call, stable, ever>>

-----------------------------------------------------------------------------
Step ==
    \/ NewId \/ Search \/ ReadDir \/ OpenVendor \/ OpenDevice \/ PciDevice_new_op \/ Fail
    \/ Delete
    \/ AllocList \/ OpenList \/ ListDir \/ Grow \/ EndList

Next ==
    \/ DeviceOperator_new \/ DeviceOperator_delete \/ PciDevice_getListOfBuffers
    \/ Step
    \/ Bind \/ Unbind \/ RequestBuffer \/ FreeBuffer

(* The thread that has called is scheduled; none of its system calls blocks. *)
Spec == Init /\ [][Next]_vars /\ WF_vars(Step)

-----------------------------------------------------------------------------
(* Properties *)

(* Types; and the array of a device has room for the IDs stored in it. *)
TypeOK ==
    /\ known \subseteq Ids /\ bound \subseteq Devices /\ buffers \subseteq Names
    /\ op \in {"none", "ready", "failed"} /\ pci_ids \in Seq(Ids)
    /\ devices \in Seq([obj : Nat, entry : Devices]) /\ heap \subseteq Nat
    /\ list.ids \in Seq(Names) /\ list.max \in Nat /\ list.cap \in {0, list.max}
    /\ Len(list.ids) <= list.cap
    /\ call.pc \in {"idle", "newid", "fail", "delete"} \cup Searching \cup Listing
    /\ call.directory \in {"null", "open", "closed", "uninitialized"}
    /\ stable \subseteq Devices /\ always \subseteq Names /\ ever \subseteq Names

Times(x, s) == Cardinality({n \in DOMAIN s : s[n] = x})

Entries == [n \in DOMAIN devices |-> devices[n].entry]

(***************************************************************************)
(* "A DeviceOperator object handles all PCI devices with the given IDs":   *)
(* it has every device of a listed ID that was bound during the search,    *)
(* once per mention of the ID, and no device of another ID; a device that  *)
(* comes or goes meanwhile is not found more often than that.  The search  *)
(* is silent about a device whose vendor file it could not open when its   *)
(* ID was the one looked for: such a device may be missing, no other.      *)
(***************************************************************************)
FindsDevices ==
    op = "ready" =>
        \A e \in Devices :
            /\ Times(e, Entries) <= Times(IdOf[e], pci_ids)
            /\ e \in stable => Times(e, Entries) = Times(IdOf[e], pci_ids)

(***************************************************************************)
(* What DeviceOperator_getPciDevice hands out exists, and nothing else     *)
(* does: a call that fails leaves no PciDevice behind, and a delete that   *)
(* fails has deleted all of them.  The directory that the error path of    *)
(* DeviceOperator_new closes is open or NULL, whichever round it ends.     *)
(***************************************************************************)
ObjectsAccounted ==
    /\ op = "ready" /\ call.pc # "delete" => heap = {devices[n].obj : n \in DOMAIN devices}
    /\ op # "ready" /\ call.pc = "idle" => heap = {}
    /\ \A m, n \in DOMAIN devices : devices[m].obj = devices[n].obj => m = n
    /\ call.pc = "fail" => call.directory \in {"open", "null"}

(***************************************************************************)
(* "List the IDs of all buffers available in the system": an ID returned   *)
(* was there at some time during the call, none is returned twice, and one *)
(* that was there all the time is returned.                                *)
(***************************************************************************)
ListsBuffers ==
    call.pc = "idle" /\ op = "ready" /\ list.cap # 0 =>
        /\ \A n \in Names : Times(n, list.ids) <= 1
        /\ \A n \in always : Times(n, list.ids) = 1
        /\ \A n \in Names \ ever : Times(n, list.ids) = 0

(* Every call returns, however often devices and buffers come and go. *)
CallsEnd == call.pc # "idle" ~> call.pc = "idle"

====
