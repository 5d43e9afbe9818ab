# Verification of the Portable Driver Architecture (PDA)

PDA gives user programs direct access to PCI devices: BARs, interrupts and DMA
buffers. It has two halves. A kernel module, the *adapter*
(`src/patches/linux_uio/uio_pci_dma.c`), owns the devices and exposes everything
through sysfs and UIO. A C library (`src/src`, `src/arch/linux_x86_uio`) opens,
writes, locks and maps those files. DMA buffers are persistent: they belong to
the kernel, outlive the process that made them and are shared by name (a number)
between processes.

This directory holds TLA+ models of the parts that carry this logic, TLC runs on
small instances, and TLAPS proofs.

## Inventory

| Part | State | Operations | Interacts with |
|---|---|---|---|
| Device operator (`device_operator.c`, `device_operator_inc.c`) | array of `PciDevice` | new, delete, get device | creates and deletes devices |
| PCI device (`pci.c`, `pci_inc.c`) | BAR tables, list pointer `dma_buffer_list`, callback, ISR thread, ID list | getBar, alloc/register/get/delete buffer, freeAllBuffers, registerISR, killISR, getListOfBuffers | all other parts |
| DMA buffer (`dma_buffer.c`, `dma_buffer_inc.c`) | list links, index, mapping, descriptors, scatter/gather list | new, map, free, addNode, removeNode, loadSGList, coalesce, wrapMap | adapter, through `request`, `free`, `map`, `sg`; other processes, through `flock` |
| BAR (`bar.c`, `bar_inc.c`) | mapping of one register | new, delete, accessors | device |
| Adapter: buffers (`uio_pci_dma.c`) | kset of buffers, bookkeeping structures, pages, one global mutex | request write, free write, map, map sg | library, kernel allocator, IOMMU |
| Adapter: devices (`uio_pci_dma.c`) | UIO device, sysfs files, regions, MSI state, driver data | probe, remove, irqhandler, bar_mmap, size files | PCI core, UIO, threads in the callbacks |
| Debugging, versions, module loading | none | printing, string comparison, `modprobe` | none |

What is hard here:

* **Several processes, one lock protocol.** A mapping holds a shared `flock` on the
  buffer's `map` file, freeing takes the exclusive one. The name of the buffer,
  the file behind it and the kernel object are three different things, and they
  can change between any two system calls. Processes may die in between.
* **Error paths.** Most functions add up return codes and go on, or jump to a
  label that undoes some of what was done. Partial failures leave descriptors,
  list entries, directories or pages behind.
* **Pointers.** The device points into a doubly linked list from which objects
  are taken by the application, by loops and by failing calls.
* **Interrupts.** The handler masks a line, a thread unmasks it; an interrupt may
  fall anywhere. The thread is cancelled, never joined.
* **Coming and going.** The adapter takes over and gives up devices while threads use the
  files it has made so far; the library reads directories whose entries appear and
  disappear.
* **In-place algorithms.** Coalescing of the scatter/gather list; classification
  of the BARs from two sources.

The correctness properties of each part are listed with the runs below; the
places where the code is exposed are the `hazards` of `PROJECT.json`.

## Modules

| Module | Models | Used by |
|---|---|---|
| `BufferSharing` | buffer calls of several processes: locks, descriptors, the kset | `MCBufferSharing`, `BufferSharing_proofs` |
| `BufferList` | the linked list of one device in one process | `MCBufferList`, `BufferList_proofs` |
| `BufferSequence` | what that list promises: a sequence of objects | instantiated by `BufferList` |
| `SGList` | loading and coalescing of a scatter/gather list | `MCSGList`, `SGList_proofs`; its conversion by `KernelMemory_proofs` |
| `KernelRequest` | the adapter's `request` and `free` callbacks, several threads | `MCKernelRequest`, `KernelRequest_proofs` |
| `BufferStore` | what these callbacks promise: a table of buffers, atomic writes | instantiated by `KernelRequest` |
| `KernelMemory` | the pages of a buffer, kernel or registered, and its mapping, wrapped or not | `MCKernelMemory`, `KernelMemory_proofs` |
| `Probe` | the adapter's probe, remove and the callbacks that run meanwhile | `MCProbe`, `Probe_proofs` |
| `DeviceOperator` | device operator and list of buffer IDs | `MCDeviceOperator`, `DeviceOperator_proofs` |
| `Isr` | device, handler, ISR thread, application | `MCIsr`, `PciDevice_proofs` |
| `Bars` | classification, correction and mapping of BARs | `MCBars`, `PciDevice_proofs` |

`BufferSharing` and `KernelRequest` meet at the two writes. In `BufferSharing` each
is one step, because the adapter runs it under `alloc_free_lock`; `KernelRequest`
opens this step up, and shows under which faults it is one: it implements `BufferStore`,
where a request or a delete is one step (`ActsAtomically`). `BufferSharing` and `BufferList` are two
views of the library's buffer calls: the first keeps all that other processes can
see and reduces the list to the set of its objects; the second keeps the pointers
and leaves open what the kernel answers. `KernelMemory` opens the allocation of
`KernelRequest` up once more, for one buffer; its `scatter` is what `SGList` loads
(`ListLeadsToMapping` puts the two together). `Probe`
surrounds `KernelRequest`: there a whole write between lock and unlock is one step, and the
question is what is still there when it runs. The devices `DeviceOperator` finds are those
`Probe` has bound.

### BufferSharing

State: `reg` is the kset (ID to kernel object), `nameOf` the name an object was made
under, `obj`, `fd` and `leaked` are per process the `DMABuffer` objects, the locks on
their descriptors, and locks on descriptors nobody refers to any more; `call` is the
call in progress. `fd = "closed"` includes a descriptor that is open without a lock
and without an object: it affects nobody.

One descriptor is modelled by its number. `internal` comes from `calloc`, and only
`DMABuffer_requestMemory` sets its `alloc_fd`; a buffer that was looked up (kind `"found"`)
therefore has `alloc_fd = 0`, which `DMABuffer_closeFiles` closes. `zero` says what
descriptor 0 of a process is: standard input at first, nothing after such a close
(`CloseZero`), then what the next `open` returns (`Opens`): a `map` file, whose lock is then in
`zero` and whose object has `fd = "zero"`, `free`, or the `request` of a write that failed.
`hit` records that such a close has closed a descriptor the library itself had opened. If that
is the `free_fd` of the same delete, the write that follows fails (`badWrite`). The
application is taken to open no files of its own.

One action is one system call that others can observe. `DMABuffer_new` is `Request`
(`write` to `request`), then `MapOpen`, `MapLock`, `MapMmap` (or `DMABuffer_mapUser`);
`PciDevice_getDMABuffer` is `Lookup` followed by the same steps and by itself.
`DMABuffer_free` is `DMABuffer_free` (unmapping, and giving up the shared lock, which
Linux does before it tries the exclusive one), `FreeTryEx`, `FreeOpen`,
`DMABuffer_closeFiles`, `FreeWrite`. `FreeNext` is the loop over the list and
`DMABuffer_delete_not_attached_buffers` the loop over the directory. `Exit` is the end
of a process at any point.

No process has registered an interrupt callback: with one, `PciDevice_delete` ends the calling
thread after the steps it has here (`pci.c:462`; `Isr`).

External: `flock(2)` (`NodeConflict`, `NewConflict`, `ZeroConflict`), the choice of the lowest
free descriptor by `open(2)`, and kernfs, which refuses `mmap` of a file that has been removed.

### BufferList

Heap addresses `Nodes` hold objects (`mem`) with `next`, `prev`, `index`; `head` is
`device->dma_buffer_list`; `call` is the call in progress, with the cursor of its loop.
`Chain` is the set of nodes a loop over the list visits, defined without recursion as
the least set closed under the link. The only failing free that keeps an object is
the one of a registered buffer whose `munlock` fails. A call that follows a stale list
pointer has no defined result; the model lets the process end there (`Exit`).

### SGList

The C lists are arrays with pointers along the array, hence sequences. `Merge` is one
iteration of the pass, `EndPass` its end, `Copy` the copy into the smaller array and the
recursive call. The conversion loop's running sum (`Sum`) and the copying loop (`Copied`) are
functions of the number of iterations, defined by recursion; both loops touch nothing another
thread sees.

### KernelRequest

`owner` is `alloc_free_lock`, `heap` the allocated `uio_pci_dma_private` structures,
`kset`, `files` and `pages` what the kernel has of each. Each action is one kernel call
of a write, with its failure. `mutex_unlock` frees the mutex whoever calls it, as the
kernel's does. After a structure has been freed while listed, `KSET_FIND` may miss
(`NotFound`): the list then leads through foreign memory. `kzalloc` may also give that very
structure out again (`reused`): `kobject_init` has linked its list entry to itself, and a walk
that comes there does not end (`Endless`), with the spin lock and the mutex held (`hang`). The
attributes of the two files are allocated without a check; if that fails the thread dies in the
driver with the mutex held (`oops`).

The refinement of `BufferStore`: a buffer is in the store while it is listed and has both
files; a request takes effect with its second file (or is refused with its return), a
delete when it removes the files. Writes of the wrong size do not exist in the abstract
specification, and `RequestFiles` has none.

### KernelMemory

`held` are the pages the driver has, `pinned` those of a user of which the buffer has a
reference, `bus` what the device reaches at which address (the identity without an IOMMU),
`sg` and `scatter` the two lists of the buffer, `vma` what the process sees from `buffer->map`
on, page by page. `alloc_pages` is one iteration of the allocation loop, `program_iommu` and
`SortAndConvert` the rest of the request (the kernel's `sort` is not stable: any sorted
permutation of the list may result); `allocate_user_memory`, `program_iommu` and `Convert`
are a registration, whose list is not sorted. `free_kernel_memory` and `free_user_memory` are
one iteration of a freeing loop, `remap_pfn_range` one of the mapping loop. A page of others
is simply not in `held`, so a block the model does not choose stands for one that is taken.

`DMABuffer_wrapMap` maps a kernel buffer again, with twice its length, or once if that fails
(`MapFails`); a registered one is moved (`mremap`), so that its own pages come first in `vma`, and
mapped once behind itself.

`lost` is what failed requests leave for good: `lost.pages`, the pages of a buffer whose file
`map` or `sg` could not be created (`exit_binfile` frees the lists and no page), and `lost.refs`,
the pages of a registration that failed there or after `get_user_pages`, of which nobody gives the
references back. `pinned` is what the present buffer has.

External: `dma_map_sg`, which follows the kernel's DMA API: any addresses, and up to
`MaxMerge` consecutive entries in one segment, recorded in the first entries of the list;
kernfs, which ends user mappings of a removed file and lets no `mmap` overlap the removal.

### Probe

`dev[d]` is what the driver has of a device: the step of probe or remove it is in (`pc`, `i`),
the acquired resources, the sysfs files that can be opened, whether the driver data is set,
the buffers that are listed and those that have memory. `owner` is `alloc_free_lock`, which is
global and initialized by every probe. One action is one acquisition or one label: a
failing step goes to the label the code jumps to, with `err` as the code leaves it. `th[t]` is
a thread in the callback of a file: `Enter` opens, `mutex_lock` and `Write` are a write to
`request` or `free`, `bar_mmap` and `RemapBar` the mapping of a BAR, `ReadSize` a read of a size.
`res` is what the present or the last probe has acquired: what a failed probe forgets (the
kset, the enabled device) stays in it until the device is probed again. An allocation that the
code does not check and that fails ends in `oops`.

External: kernfs. A removed file cannot be entered, and who removes it goes on when the
last callback has returned (`Drained`). `mutex_init` forgets the waiters of the mutex.

### DeviceOperator

Directory entries are numbers in the order of `readdir`; `bound` and `buffers` are the two
directories, which the kernel and other processes change between any two steps. `devices` is
the operator's array, `heap` the `PciDevice` objects that are allocated, `list` the array of
IDs of a device (`cap` 0 is `NULL`). One action is one system call of the loop or one
iteration. The jump over the initialization of `directory` in `PciDevice_getListOfBuffers` makes
the error path close an undefined pointer: the process goes on, or ends (`ProcessEnds`).
Changes of a directory that no step could notice are left to the next state in which one can.
`OpenVendor` passes an entry over when `lstat` or `fopen` fails, because the device is gone or for
any other reason; `stable` holds the devices that stayed bound and were not passed over while
their ID was searched for. No device has an interrupt callback: with one, the first
`PciDevice_delete` ends the thread in the middle of `DeviceOperator_delete` (`pci.c:462`; `Isr`).

### Isr

`asserted` is the interrupt signal, `masked` the INTx disable bit, `count` and `seen`
UIO's event counters. The callback is assumed to serve everything the device has
raised so far, which is what makes the line go down. A cancelled thread ends at its next
system call; a `read` that has its answer may still return (`ReadEvent`). `late` counts the
callbacks that begin after the cancellation.

### Bars

A register is represented by its four low bits, where bit 3 stands for the address;
`Layouts` are the layouts the PCI specification allows, including virtual, unassigned
and reserved registers. The loops run one register per action. libpci may not list the device
at all (`unlisted`): then the initialization succeeds without any size, and no BAR can be mapped.
The errors for a malformed bus ID (`pci.c:275`) are left out: the ID comes from sysfs.

## Runs

Every property of a passing run has a mutant in `PROJECT.json`, a plausible bug that
makes TLC find it violated.

| Run | Checks | Shows |
|---|---|---|
| `SharingSafety` | `TypeOK`, `MappedHoldsLock`, `FreeingIsExclusive` | all calls of two processes, with crashes and failing opens: mappings are locked, the holder of the exclusive lock is alone, but for a descriptor 0 that was closed by mistake (`hit`) (1.9 million states) |
| `SharingDelete` | `LastDeleterRemoves`, `CallsReturn` | overlapping deletes may fail, yet the last one removes the buffer, unless it has closed its own `free_fd` (`hit`); every call returns (170 000 states) |
| `ListLinks` | `TypeOK`, `LinksInverse`, `NoObjectLost`, `HeadStaysLive`, `RefinesSequence` | links are inverse and lead to objects that exist; the list is a sequence in creation order and loses no kernel buffer; only `PciDevice_freeAllBuffers` leaves the list pointer dangling |
| `SGCoalesce` | `TypeOK`, `SameTranslation`, `FullyCoalesced`, `MergingEnds` | the list keeps every byte's address, and merging ends with one entry per run |
| `RequestFiles` | `BuffersComplete`, `ActsAtomically` | file errors leave no listed buffer behind (pages: `MemoryViews`); the writes of three threads act as if each happened at one moment |
| `RequestReturns` | `TypeOK`, `ExclusionKept`, `WritesReturn` | every write returns unless a thread is stuck in the driver, in an endless `KSET_FIND` or after an unchecked allocation; only the unlock of a wrong write ends the exclusion (340 000 states) |
| `MemoryViews` | `TypeOK`, `NothingKept`, `FreesOwnPages`, `ViewsAgree`, `UnmappedBeforeFreed` | deletes, and requests that fail while they get their memory, give all pages back, each once; what a failed file or registration leaves is exactly `lost`; process and device see the same page at every offset, in both halves of a wrapped mapping, of kernel and of registered memory (5.9 million states) |
| `ProbeRemove` | `TypeOK`, `UnboundHasNothing`, `CallbacksLive`, `DriverReturns` | an unbound device has no file, interrupt or region, only what the code is known to forget (kset and enabled device after a failed probe, attributes after remove); callbacks find their attribute, their kset or region, and a write finds allocated buffers except while remove is taking them away; probe and remove end although files are in use, `exit_bars` and `oops` excepted (41 000 states) |
| `OperatorFinds` | `TypeOK`, `FindsDevices`, `ObjectsAccounted`, `ListsBuffers`, `CallsEnd` | every device that stays and whose `vendor` can be opened, and every buffer that stays, is found, none too often; error paths lose no object and close no directory twice; calls end (204 000 states) |
| `IsrDelivers` | `IsrTypeOK`, `MaskedIsReported`, `LateCallbackOnce`, `NoLostInterrupt`, `StopsWhenKilled` | no line stays masked while the thread waits; an interrupt reaches the callback; a cancelled thread stops, after one late callback at most |
| `BarsInit` | `TypeOK`, `MatchesLayout` | types, sizes and mappings of the BARs are those of the device (no sizes if libpci does not list it); the classification refuses a device only for a reserved register |

One run ends in a violation of a sentence in the repository (quoted in the `findings` of
`PROJECT.json`):

| Run | Property | What TLC finds |
|---|---|---|
| `SharingFreedMapped` | `NotFreedWhileMapped` | a lookup slips in between the close of the locked descriptor and the write to `free` |

### Observations

The models also contain these behaviours of the code, for which no run is kept:

* `DMABuffer_mapUser` takes no lock: a process that looked a registered buffer up can
  remove it while its owner uses it (`dma_buffer_inc.c:184`).
* `PDA_BUFFER_INDEX_UNDEFINED` yields an ID that is free in the caller's own list, not in
  the system (`dma_buffer_inc.c:407`); `PciDevice_registerDMABuffer` then looks its object
  up under the reserved index and does not find it (`pci.c:609`).
* An allocation of an ID in use maps the existing buffer and drops the object with the
  locked descriptor; later deletes of that buffer fail (`dma_buffer_inc.c:570`).
  `LastDeleterRemoves` excludes this with `NoLeak`.
* `alloc_fd` of a looked-up buffer is 0, and freeing the buffer closes descriptor 0
  (`dma_buffer_inc.c:329`, `:817`). The next delete of a looked-up buffer gets 0 as its `free_fd`,
  closes it before it writes to it, and the write fails: the buffer stays registered with
  nobody having it (`:892`, `:894`). With more buffers the 0 can be the `map_fd` of another one:
  its mapping loses its lock, and a later `flock` on 0 locks the file that was opened since.
  `hit` in the properties of `BufferSharing` names these cases; without `~hit[p]` TLC finds
  `LastDeleterRemoves` violated with two processes and two buffers.
* A request that runs out of memory leaves its kobject in the kset, in a freed structure
  (`uio_pci_dma.c:564`). `BuffersComplete` is therefore checked without that fault. When `kzalloc`
  gives the structure out again, `KSET_FIND` runs in a circle with both locks held
  (`uio_pci_dma.c:544`), and no write returns any more: `Stuck` in `WritesReturn`.
* The attributes of a buffer's files (`uio_pci_dma.h:272`), those of probe (`uio_pci_dma.c:262`), the
  kset (`:319`) and the names of the BARs are allocated without a check, for a buffer with the mutex
  held.
* `PciDevice_freeAllBuffers` leaves the list pointer of the device on a freed object
  (`pci.c:626`): the exception in `HeadStaysLive`. A write to `request` of the wrong size unlocks
  the mutex another thread holds (`uio_pci_dma.c:527`): the exception in `ExclusionKept`.
* `exit_binfile` frees no pages, and a failing registration puts none back and leaves the
  device's addresses mapped (`uio_pci_dma.c:597`, `:741`, `:766`): `lost` in `NothingKept`.
* A delete frees the structure that contains the kobject before `kobject_del` (`uio_pci_dma.c:992`);
  `KSET_FIND` takes a reference nobody gives back (`uio_pci_dma.h:259`).
* If `dma_map_sg` merges entries, the driver keeps only the number of segments: it frees that
  many chunks and loses the others, and maps as many pages behind an entry's first page as
  the segment has, whoever owns them (`uio_pci_dma.c:677`, `:1067`, `:1169`). With `MaxMerge = 2`
  TLC refutes `NothingKept` and `ViewsAgree`; `MemoryViews` has `MaxMerge = 1`, a platform
  without merging.
* A request whose `convert_sg` fails frees its pages without `dma_unmap_sg`: the device keeps
  addresses of pages that are free (`uio_pci_dma.c:892`). `UnmappedBeforeFreed` speaks of deletes.
* The callback can run after `PciDevice_killISR`; `PciDevice_delete` with a callback set
  ends the calling thread, also inside `DeviceOperator_delete`, whose other devices then stay;
  after a failed registration it cancels a null handle (`pci.c:512`, `:462`, `:489`).
* `Probe`: every probe initializes `alloc_free_lock` (`uio_pci_dma.c:259`). With two devices TLC
  finds, in ten states, a writer to the first one whose lock a probe of the second has taken
  away; threads that wait for the lock may be forgotten (`asleep`). The run has one device, and
  the exclusion of writes is the subject of `KernelRequest`.
* `Probe`: when `pci_request_regions` or `uio_register_device` fails, `err` is 0 (`uio_pci_dma.c:343`,
  `:379`): probe has freed its structure and reports success, and `remove` dereferences `NULL`
  (`oops`). After the second failure the files of the BARs are left, with attributes in freed
  memory, and so are the regions: the exception in `CallbacksLive`.
* `Probe`: the loop of `exit_bars` (`uio_pci_dma.c:388`) does not end; a failed probe leaves the
  device enabled and never puts its kset (`:406`); `remove` does not free the four attributes.
  `remove` frees list nodes while it iterates over them, under a spinlock and
  without `alloc_free_lock` (`:445`): a write that is inside then walks and may free kobjects that
  are freed already (the exception in `CallbacksLive`), and one that ends after it leaves its buffer
  allocated (`raced` in `UnboundHasNothing`).
* `DeviceOperator`: a device whose `vendor` cannot be opened is passed over silently, one whose
  `device` cannot be opened fails the call (`device_operator_inc.c:302`, `:314`); `fp_device` is left open
  when `vendor` is short (`:322`); the array of devices has no bound check (`:349`); a device is
  listed once per mention of its ID. `DeviceOperator_delete` that fails has freed the devices and
  keeps the pointers: a second call frees them again (`device_operator.c:102`).
* `PciDevice_getListOfBuffers`: `directory` is uninitialized when the first `malloc` fails
  (`pci_inc.c:600`); the debug output reads one entry past the last one (`pci_inc.c:643`).
* Wrap mapping: after a failed double mapping `map_two` is computed from `MAP_FAILED`
  (`dma_buffer_inc.c:969`); a second `DMABuffer_wrapMap` of a registered buffer leaves the earlier
  second half mapped; the area of `memalign` is free when `mremap` takes it (`dma_buffer_inc.c:1093`);
  a failing `mremap` loses the pointer to the user's memory (`dma_buffer_inc.c:1039`).

### Bounds

* `BufferSharing`: two processes, two IDs and two kernel objects. An object is created
  once, so with two of them an ID can be freed and taken again by a second object
  while a process still holds the first one's file: the case that separates name,
  file and object. One process allocates, registers and frees all, the other looks up and
  deletes (in `SharingDelete` both delete): only looked-up
  buffers close descriptor 0, and what a process does with its descriptor 0 no other sees but
  through locks. Keeping a buffer (`deviceKeep`) and looking both up again is enough for a
  close to hit the `map_fd` of the other buffer; two looked-up buffers are enough for it to hit a
  `free_fd`. With all calls in both processes the run does not end within minutes; the
  proofs have no such bound. Locks relate pairs of processes; the proofs remove that bound too. The
  recursion of `PciDevice_getDMABuffer` is bounded by the number of buffers; that the
  kernel holds finitely many of them is what `CallsReturn` rests on.
* `BufferList`: four objects give a list with two inner nodes next to each other; two
  IDs, so that several objects share an index and others do not.
* `SGList`: up to five chunks of up to two pages, anywhere in seven pages, in any order:
  a run of five takes three passes, and runs of odd length occur behind each other.
* `KernelRequest`: three threads (one in the critical section, one waiting, one
  with a wrong write) and three structures; the liveness run has two of each, and one
  name, which both threads compete for, with every fault.
* `KernelMemory`: pages of two bytes and requests of one to nine, so that sizes are and are
  not multiples of a page; five pages and a largest order of one give lists of three chunks
  of two sizes, in five pages and at five device addresses, in every order; registered memory
  has up to three pages, anywhere, in any order. The buffer is mapped, unmapped and wrapped any number of times.
  Failed requests leave at most one device address (`MaxStale`) and one page or reference
  (`MaxLost`) behind, so that later buffers have to do without it.
* `Probe`: one device (see the observations), two BARs, so that the loops have a first and a
  last, two threads, one of which waits for the other, and two buffers.
* `DeviceOperator`: three devices, two of the same ID, one of an ID the adapter learns only
  from the process; lists with different IDs and with the same one twice. The array of IDs
  starts with one entry instead of 256 and is enlarged for the second of two buffers (three
  buffers, 1.4 million states, pass as well).
* `Isr`: four interrupts, enough for one at each step of the thread's loop. With MSI and
  without.
* `Bars`: four registers, so that two 64-bit BARs or one at each place fit; the upper
  halves look like every kind of register.

### Fairness

* `BufferSharing`: weak fairness of the steps of a call: its thread is scheduled, and
  none of its system calls blocks (`LOCK_NB`). Nothing is assumed about new calls.
* `SGList`: weak fairness of the loop.
* `KernelRequest`: weak fairness of a write's steps, strong fairness of `mutex_lock`:
  Linux mutexes hand over to their waiters in order. A thread that hangs or has died in the
  driver takes no step and keeps the mutex, so `RequestReturns` does not check for deadlock.
* `Isr`: weak fairness of the handler, of the thread's steps that do not fail, of the
  cancellation, and of `PciDevice_delete`: the thread goes on, and is never saved by an error.
  The device need not interrupt again, and the application need not call anything, so
  these runs, like `BarsInit`, do not check for deadlock.
* `Probe`: weak fairness of the driver core's thread inside probe or remove and of threads in
  a callback, strong fairness of `mutex_lock` as in `KernelRequest`. Nobody has to probe,
  remove or open. After `oops` or in `exit_bars` nothing more can happen to the device, so the
  run does not check for deadlock.
* `DeviceOperator`: weak fairness of the steps of a call; directories are finite.

Symmetry is used in runs that check invariants and action properties only.

## Proofs

Each theorem holds for every value of the constants that its module's `ASSUME` admits (sets
of known calls and faults, `NULL` apart from what it stands for, sizes that are numbers),
unless a hypothesis is named below. Every proof follows the same pattern: an inductive
invariant `IInv`, checked by TLC first, one lemma per action or group of like actions, and
the properties as consequences. Facts about operators are lemmas of their own, before the steps.

| Module | Theorem | Property |
|---|---|---|
| `BufferSharing_proofs` | `TypeCorrect`, `MappingIsLocked`, `ExclusiveFree` | `TypeOK`, `MappedHoldsLock`, `FreeingIsExclusive` |
| | `LastDeleteRemoves`, assuming `OnlyDeletes` | `LastDeleterRemoves` |
| `BufferList_proofs` | `TypeCorrect`, `LinksStayInverse`, `KernelBuffersListed`, `OnlyFreeAllLeavesStaleHead`, `ListIsSequence` | `TypeOK`, `LinksInverse`, `NoObjectLost`, `HeadStaysLive`, `RefinesSequence` |
| `KernelRequest_proofs` | `TypeCorrect`, `ExclusionEndsOneWay` | `TypeOK`, `ExclusionKept` |
| | `WritesExclude`, assuming no write of the wrong size | two writes are never in the critical section |
| | `KsetHoldsBuffers`, `WritesAreAtomic`, assuming `OnlySysfs` | `BuffersComplete`, `ActsAtomically` |
| `KernelMemory_proofs` | `WithdrawnBeforeFreed` | `UnmappedBeforeFreed` |
| | `TypeCorrect`, `AllGivenBack`, `OnlyOwnPagesFreed`, `SamePageOnBothSides`, assuming `MaxMerge = 1` | `TypeOK`, `NothingKept`, `FreesOwnPages`, `ViewsAgree` |
| | `ListLeadsToMapping`, assuming `MaxMerge = 1` | the list that `SGList` loads leads the device to the pages of the mapping |
| `SGList_proofs` | `TypeCorrect`, `TranslationKept`, `OneEntryPerRun` | `TypeOK`, `SameTranslation`, `FullyCoalesced` |
| | `MergingAdvances` | every step of the merging brings it closer to its end |
| `Probe_proofs` | `TypeCorrect`, `NothingLeft`, `CallbacksFindState` | `TypeOK`, `UnboundHasNothing`, `CallbacksLive` |
| `DeviceOperator_proofs` | `TypeCorrect`, `SearchFindsDevices`, `NoObjectLeaks`, `ListIsComplete` | `TypeOK`, `FindsDevices`, `ObjectsAccounted`, `ListsBuffers` |
| `PciDevice_proofs` | `BarsTypeCorrect`, `BarsAreTheDevices` | `TypeOK`, `MatchesLayout` of `Bars` |
| | `IsrTypeCorrect`, `LineNotStuck`, `OneLateCallback` | `IsrTypeOK`, `MaskedIsReported`, `LateCallbackOnce` of `Isr` |

`PciDevice_proofs` extends both modules that model a part of a `PciDevice`; for this, the names that
every specification has carry the prefix `Isr` in `Isr` (`IsrSpec`, `IsrTypeOK`).

The hypotheses are those of the runs that check the properties (the last one admits
registered buffers as well):

* `OnlySysfs` (`KernelRequest`): only the creation of a file fails. A failed allocation
  leaves a freed structure in the kset, and a write of the wrong size unlocks the mutex of
  another thread (see the observations).
* `MaxMerge = 1` (`KernelMemory`): `dma_map_sg` merges nothing. If it does, the driver loses
  pages, and TLC refutes `NothingKept` and `ViewsAgree`.
* `OnlyDeletes` (`BufferSharing`): processes delete what they have. A process that dies, that
  keeps its buffers when it deletes its device, or that cannot open the adapter's files
  leaves buffers behind; one that calls `PciDevice_freeAllBuffers` is left with a stale list,
  with which it can delete nothing more.

The inductive invariants, and why they are needed:

* **BufferSharing.** `FreeingIsExclusive` is held up by `LockExclusion`: an exclusive lock of an
  object excludes *every* other lock, in each of the four places a process can have one
  (`Places`: the descriptor of an object, one nobody refers to, one under construction, and
  descriptor 0). To keep it, one needs to know when a lock is taken. `RowOK` says so for one
  process: which descriptor a call has at which step (`CallRecOK`), that mappings are locked
  (`Covered`) and the object being freed is unmapped, then locked (`FreesLocked`), and what
  descriptor 0 is: the file of the one object whose `map_fd` is 0, or of the mapping under
  construction, as long as there was no hit (`Genuine`, `Building`). A step changes the row
  of one process and the kset; `RowStep` reduces every action to its row. `NamesOK`
  makes the ID that is written to `free` one. For the last deleter there is a second invariant,
  `OwnerInv`: as long as there was no hit, every registered buffer is tended by some
  process, one that has an object or a lost descriptor of it or is in a call about to make or to
  free one (`Tended`). A failed exclusive lock passes the duty on to the process whose lock was in
  the way, which by `LocalRow` still uses or frees the buffer.
* **BufferList.** Inverse links may still form a ring, on which a loop would come back to a
  freed object. `NoRing` says that following `next` leaves every set of objects, and
  `KernelAhead` that every object of a kernel buffer lies ahead of the device's pointer, or of
  the cursor of the loop that frees the list. `Chain`, a least closed set, needs no recursion.
  For the refinement a second invariant, `Walkable`: a walk from `First` ends. Such a walk
  comes by no object twice (`NoRing`), by those of `Rest` and no other, and so is the sequence
  `AsSequence` defines by recursion; lemmas say what adding and removing do to it, for an
  object in the walk and for one that is not, because a failed `munlock` took it out before.
* **KernelRequest.** Under `OnlySysfs` no structure is freed while listed, so none is given out
  again (`NothingReused`) and every `KSET_FIND` ends. `AllocFreeExclusive` makes the thread in the critical section the only one
  at work on a buffer; `BufferOK` says what of heap, kset, pages and files its buffer has at
  each step; every other buffer in the kset is complete (`KsetComplete`), and names are
  distinct. The refinement follows from these: each step is a stutter of `BufferStore` but the
  creation of the second file, the removal of the files, and refused returns.
* **KernelMemory.** `KernelOK` and `UserOK` say that the driver holds the pages of the entries
  that the freeing loop has not reached, apart from those that are lost (`Own`); `Separate`
  that entries share no page, so a block is freed once; that the length of an entry is a power of two gives back the order of the
  block. `SizeOK` relates the entries to the size of the buffer, `DeviceOK` the addresses of
  the device to the pages, and `MapOK` how far the mapping loop has come: `Passed(h)`, the list
  `h` times and the entries before the cursor once more; `Shown`, what is mapped so far is in
  the order of the list. Sorting permutes the entries before either side has seen them: the
  lemmas on sorted permutations carry each part over. `AddressInv` alone gives
  `UnmappedBeforeFreed`, with merging too.
* **SGList.** `SameTranslation` is not inductive: a merge is right only because the swallowed entry
  also follows in the user's mapping. `ListGrouped` says where every entry of the list comes from:
  entry `k` stands for the kernel's entries `f[k]` to `f[k + 1] - 1`, a group of adjacent ones,
  begins at the bus address of the first and at its offset, and is as long as all together; an
  empty group is an entry that was swallowed. A merge joins two groups, the copy drops the empty
  ones. `EntriesCounted` (`new_number_entries` is the number of entries that are not empty) makes the
  copy fit; `PassOK` says that nothing in front of the cursor has been merged in this pass, so that
  an entry never meets a swallowed successor, and that as long as nothing has been merged nothing behind
  the cursor is adjacent: a pass without change ends the merging, and then groups are the
  maximal runs. The recursive functions `Sum` and `Copied` satisfy their equations by a lemma
  (`RecursiveFunction`): a function given by a first value and a step exists.
* **KernelMemory and SGList.** `ListLeadsToMapping` needs no further invariant. `TranslationIs`: what
  `Converted` makes of the exposed list is, page by page, the device pointer of `KernelMemory`,
  to which `ViewsAgree` applies. The theorem also establishes `SGAssumption` for the exposed list
  (it is not empty, and no entry is), so that `TranslationKept` carries the result over to
  the list the application gets after coalescing. `KernelMemory` measures lengths in pages,
  and `SGList` in any unit.
* **Probe.** `ResOK` and `FilesOK` list, for each step and label, the resources and files a
  device may have there; `BuffersOK` does so for its buffers unless a write has overlapped
  probe or remove. `FileLive`, a file that can be opened has what its callbacks use, with
  `CallOK` for threads inside: removing a resource needs that no file of it is left and,
  by `Drained`, no thread in one.
* **DeviceOperator.** Both loops read a directory that changes under them, so the invariant
  counts: each device has been found as often as its ID was mentioned up to the present round,
  this one included if the position has passed it (`FoundOK`); the array holds what stayed up
  to the position, once (`ListedOK`).
* **Isr.** `MaskedIsReported` is inductive beside the types, among them that the thread has
  never seen more events than were counted. `LateIsPastRead` says where the thread is after
  a late callback: on the way to the `pwrite` that ends it.
* **Bars.** `ClassifyOK`: the types behind the loop's index are right, and the index is at an upper
  half only if the register of the lower half read zero; `LibpciOK` for the second loop,
  `FreshOK` and `MappedOK` for what is not yet, and already, mapped.

Induction over numbers (the places in a walk, the offsets of a list, the powers of two) goes
through lemmas on sets of numbers, `UpTo` in `BufferList_proofs` and `SGList_proofs`, `Induction` in
`KernelMemory_proofs`: a set that contains 0 and the successor of each of its members contains
every number. They rest on the least element of a set, from the library's well-founded orders.

Model-checked only: liveness (`CallsReturn`, `MergingEnds`, `WritesReturn`,
`NoLostInterrupt`, `StopsWhenKilled`, `DriverReturns`, `CallsEnd`), which is out of the prover's
reach. Of `MergingEnds`, the part that is a safety property is proved: by `MergingAdvances` each
step ends the call, shortens the list, or moves the cursor on or from it to the copy, and neither
the list nor the cursor can do so for ever. Of `NotFreedWhileMapped` TLC has a counterexample.

## Not modelled

* *Accessors of a mapped BAR* (`bar.c`): single memory accesses without state. The library's side
  of the *payload and read request sizes*: one number, read once.
* *PDAInit, versions, modprobe, debug output*: I/O and string formatting. In `DeviceOperator`,
  `PDAInit` is a call that may fail.
* *Dead code*: `DMABuffer_check_persistant` and `DMABuffer_delete` have no caller, `kernelWrapMap` is
  never reached.
* Builds of the adapter without `UIO_PDA_IOMMU` or with the page fault handler.
* Inside the modelled parts: path names and formatting; failing `calloc` in the library;
  reference counts of kobjects; the reuse of memory that was freed too early, in the kernel
  and in the heap of a process, but for the listed structures of `KernelRequest`; descriptors that
  the application opens; the wrap-around of 64-bit IDs; more than `PDA_MAX_PCI_DEVICES` devices.

## Plan

The parts of the inventory are modelled, every invariant and every action property that a passing run
checks is proved, and so are the two refinements. What could follow:

1. Measures like that of `MergingAdvances` for the loops of `BufferSharing` and `DeviceOperator`, whose
   ends are only model-checked.
2. A composition of `Probe` with `KernelRequest`: which of a write's steps may meet a `remove`.
3. Builds of the adapter without `UIO_PDA_IOMMU`.
