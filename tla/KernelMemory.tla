---------------------------- MODULE KernelMemory ----------------------------
(***************************************************************************)
(* The memory of one buffer in the adapter: chunks of physical pages that  *)
(* it allocates, or the pages of a user's own memory; made known to the    *)
(* device (dma_map_sg), exposed as a scatter list, mapped into user space  *)
(* once or twice in a row, and freed; one action per iteration of a loop.  *)
(* Lengths are in pages, only the requested size is in bytes.               *)
(* Requests and frees run under alloc_free_lock, and kernfs lets no mmap   *)
(* callback run while the file "map" is being removed: the operations on   *)
(* one buffer do not overlap.                                              *)
(***************************************************************************)
EXTENDS Integers, Sequences, FiniteSets, Functions

CONSTANTS
    NPages,      \* pages of physical memory (bound)
    NBus,        \* pages of the device's address space behind an IOMMU (bound)
    MaxSize,     \* largest request for kernel memory, in bytes (bound)
    MaxUser,     \* largest memory of a user that is registered, in bytes (bound)
    PAGE_SIZE,
    MAX_ORDER,   \* largest order alloc_pages serves (MAX_PAGE_ORDER)
    MaxStale,    \* device addresses that failed requests leave behind (bound)
    MaxLost,     \* pages that failed requests leave behind (bound)
    MaxMerge     \* entries that dma_map_sg puts into one segment; 1: it never merges

ASSUME MemoryAssumption ==
    /\ {NPages, NBus, MaxSize, MaxUser, PAGE_SIZE, MaxMerge} \subseteq Nat \ {0}
    /\ {MAX_ORDER, MaxStale, MaxLost} \subseteq Nat

Pages == 0 .. NPages - 1

VARIABLES
    iommu,     \* the platform translates the device's addresses
    bus,       \* device address -> physical page
    held,      \* pages allocated by the driver; all others are none of its business
    reserved,  \* pages with PG_reserved
    lost,      \* of failed requests (history): pages still allocated, pages of a
               \* user's still referenced, though no structure names them any more
    kind,      \* "kernel" (priv->start is 0) or "user"
    size,      \* priv->size
    sg,        \* priv->sg, as far as it has been filled
    length,    \* priv->length
    old_length,\* priv->old_length
    scatter,   \* priv->scatter, what the file "sg" shows; <<>> is NULL
    page_list, \* priv->page_list: the user's pages
    pinned,    \* pages of which this buffer has a reference
    left,      \* pages_left of the allocation
    order,     \* order of the allocation
    cursor,    \* entry at which the loop of free or map stands
    request,   \* size of the user's mapping
    vma,       \* what the process sees from buffer->map on: the page behind each page
    wrap,      \* the mmap under way is DMABuffer_wrapMap's: "double", "single"; "no"
    pc         \* "idle" (no buffer), "chunks", "sort", "ready", "map",
               \* "undo" (failed request), "free" (delete)

privVars == <<kind, size, sg, length, old_length, scatter, page_list, pinned>>
userVars == <<page_list, pinned>>
mapVars  == <<request, vma, wrap>>
vars == <<iommu, lost, bus, held, reserved, privVars, left, order, cursor, request, vma, wrap, pc>>

Init ==
    /\ iommu \in BOOLEAN
    /\ bus = IF iommu THEN <<>> ELSE [p \in Pages |-> p]
    /\ held = {} /\ reserved = {} /\ lost = [pages |-> {}, refs |-> {}]
    /\ kind = "kernel" /\ page_list = <<>> /\ pinned = {}
    /\ size = 0 /\ sg = <<>> /\ length = 0 /\ old_length = 0 /\ scatter = <<>>
    /\ left = 0 /\ order = 0 /\ cursor = 1
    /\ request = 0 /\ vma = <<>> /\ wrap = "no"
    /\ pc = "idle"

-----------------------------------------------------------------------------
(* Allocation *)

(* 1 << n, the pages of a block of order n. *)
Pow2[n \in Nat] == IF n = 0 THEN 1 ELSE 2 * Pow2[n - 1]

(* The smallest order whose blocks hold n bytes. *)
get_order(n) == CHOOSE o \in 0 .. n : /\ PAGE_SIZE * Pow2[o] >= n
                                      /\ o > 0 => PAGE_SIZE * Pow2[o - 1] < n

Block(page, n) == page .. page + n - 1

(***************************************************************************)
(* uio_pci_dma_allocate_kernel_memory up to its loop.  A request of no     *)
(* bytes, or one for which there is no room for priv->sg, changes nothing. *)
(***************************************************************************)
allocate_kernel_memory ==
    /\ pc = "idle"
    /\ \E n \in 1 .. MaxSize :
          /\ left'  = (n + PAGE_SIZE - 1) \div PAGE_SIZE
          /\ size'  = left' * PAGE_SIZE
          /\ order' = IF get_order(size') > MAX_ORDER THEN MAX_ORDER ELSE get_order(size')
    /\ kind' = "kernel" /\ length' = 0
    /\ pc' = "chunks"
    /\ UNCHANGED <<iommu, lost, bus, held, reserved, sg, old_length, scatter, userVars, cursor, mapVars>>

(* Bound on the pages and references that failed requests leave behind. *)
LostBound(more) == Cardinality(lost.pages \cup lost.refs \cup more) <= MaxLost

(***************************************************************************)
(* exit: the chunks a request for kernel memory has got so far are freed   *)
(* again; a registration that fails does not return the pages it has got.  *)
(***************************************************************************)
Undo == LostBound(pinned) /\ pc' = "undo" /\ cursor' = 1

(* The order goes down until a chunk fits into what is left. *)
FittingOrder ==
    CHOOSE x \in 0 .. order : Pow2[x] <= left /\ (x < order => Pow2[x + 1] > left)

(***************************************************************************)
(* An iteration of the allocation loop.  alloc_pages returns an aligned    *)
(* block of pages that nobody has, or fails.                               *)
(***************************************************************************)
alloc_pages ==
    /\ pc = "chunks" /\ left > 0
    /\ LET o == FittingOrder IN
       \/ \E page \in Pages :
             /\ page % Pow2[o] = 0 /\ Block(page, Pow2[o]) \subseteq Pages \ (held \cup lost.refs)
             /\ held'     = held \cup Block(page, Pow2[o])
             /\ reserved' = reserved \cup Block(page, Pow2[o])
             /\ sg' = Append(sg, [page |-> page, length |-> Pow2[o], dma |-> 0, dma_len |-> 0])
             /\ length' = length + 1
             /\ left'   = left - Pow2[o]
             /\ order'  = o
             /\ UNCHANGED <<cursor, pc>>
       \/ Undo /\ UNCHANGED <<held, reserved, sg, length, left, order>>
    /\ UNCHANGED <<iommu, lost, bus, kind, size, old_length, scatter, userVars, mapVars>>

(***************************************************************************)
(* uio_pci_dma_allocate_user_memory up to program_iommu: get_user_pages    *)
(* takes a reference of the pages behind the user's memory, of all or, as  *)
(* far as it gets, of the first ones; a list of entries of one page each.  *)
(* Memory that is empty or not aligned to a page changes nothing.          *)
(***************************************************************************)
allocate_user_memory ==
    /\ pc = "idle"
    /\ \E m \in 1 .. MaxUser :
       LET n == (m + PAGE_SIZE - 1) \div PAGE_SIZE IN
       \E area \in Injection(1 .. n, Pages \ held) :
          /\ size' = n * PAGE_SIZE /\ length' = n
          /\ \/ /\ page_list' = area
                /\ sg' = [k \in 1 .. n |-> [page |-> area[k], length |-> 1, dma |-> 0, dma_len |-> 0]]
                /\ vma' = area /\ request' = size'
                /\ pc' = "chunks"
             \/ /\ \E j \in 0 .. n : page_list' = SubSeq(area, 1, j) /\ LostBound(Range(page_list'))
                /\ pc' = "undo"
                /\ UNCHANGED <<sg, vma, request>>
          /\ pinned' = {page_list'[k] : k \in DOMAIN page_list'}
    /\ kind' = "user"
    /\ UNCHANGED <<iommu, lost, bus, held, reserved, old_length, scatter, left, order, cursor, wrap>>

-----------------------------------------------------------------------------
(* The device's view *)

(* Which segment of the device's list each entry goes to. *)
Segmentations ==
    {s \in [1 .. length -> 1 .. length] :
        /\ s[1] = 1
        /\ \A k \in 1 .. length - 1 : s[k + 1] \in {s[k], s[k] + 1}
        /\ \A k \in 1 .. length : Cardinality({j \in 1 .. length : s[j] = s[k]}) <= MaxMerge
        /\ ~iommu => s[length] = length}

(* Device addresses of the segments; physical ones without an IOMMU. *)
Placements(s) ==
    IF iommu THEN [1 .. s[length] -> 0 .. NBus - 1]
             ELSE {[k \in 1 .. length |-> sg[k].page]}

(* Pages of the segment of entry k that lie before it. *)
Before(s, k) ==
    LET sum[j \in 0 .. k - 1] ==
            IF j = 0 THEN 0 ELSE sum[j - 1] + (IF s[j] = s[k] THEN sg[j].length ELSE 0)
    IN  sum[k - 1]

SegmentLength(s, i) ==
    LET last == CHOOSE k \in 1 .. length : s[k] = i /\ (k < length => s[k + 1] # i)
    IN  Before(s, last) + sg[last].length

(***************************************************************************)
(* dma_map_sg: consecutive entries may become one segment of consecutive   *)
(* device addresses; the k-th segment is recorded in the k-th entry.       *)
(***************************************************************************)
dma_map_sg(s, at) ==
    LET segment(i) == Block(at[i], SegmentLength(s, i))
        entry(k)   == Block(at[s[k]] + Before(s, k), sg[k].length)
        mapped     == UNION {entry(k) : k \in 1 .. length}
        target(x)  == LET k == CHOOSE k \in 1 .. length : x \in entry(k)
                      IN  sg[k].page + (x - at[s[k]] - Before(s, k))
    IN
    /\ iommu =>
          /\ \A i \in 1 .. s[length] : segment(i) \subseteq (0 .. NBus - 1) \ DOMAIN bus
          /\ \A i, j \in 1 .. s[length] : i # j => segment(i) \cap segment(j) = {}
    /\ sg' = [k \in 1 .. length |->
                IF k <= s[length]
                THEN [sg[k] EXCEPT !.dma = at[k], !.dma_len = SegmentLength(s, k)]
                ELSE sg[k]]
    /\ bus' = IF iommu
              THEN [x \in DOMAIN bus \cup mapped |-> IF x \in mapped THEN target(x) ELSE bus[x]]
              ELSE bus

(* program_iommu, called when all pages are allocated. *)
program_iommu ==
    /\ pc = "chunks" /\ left = 0
    /\ \/ /\ \E s \in Segmentations : \E at \in Placements(s) :
                dma_map_sg(s, at) /\ length' = s[length]
          /\ old_length' = length
          /\ pc' = "sort"
          /\ UNCHANGED cursor
       \/ Undo /\ UNCHANGED <<bus, sg, length, old_length>>
    /\ UNCHANGED <<iommu, lost, held, reserved, kind, size, scatter, userVars, left, order, mapVars>>

(* sort(priv->sg, priv->length, ...): whole entries, by device address. *)
Sorted ==
    {[k \in 1 .. Len(sg) |-> IF k <= length THEN sg[p[k]] ELSE sg[k]] :
        p \in {p \in Bijection(1 .. length, 1 .. length) :
                 \A j, k \in 1 .. length : j < k => sg[p[j]].dma <= sg[p[k]].dma}}

(* convert_sg: the copy of the first entries that user space may see. *)
convert_sg(s) ==
    [k \in 1 .. length |-> [page_link |-> s[k].page, length |-> s[k].dma_len, dma |-> s[k].dma]]

(* Bound on the device addresses that failed requests leave behind. *)
StaleBound == iommu => Cardinality(DOMAIN bus) <= MaxStale

(***************************************************************************)
(* The end of the allocation: sort the list and copy it.  A failure of the *)
(* copy frees the pages, and leaves them known to the device.              *)
(***************************************************************************)
SortAndConvert ==
    /\ pc = "sort" /\ kind = "kernel"
    /\ sg' \in Sorted
    /\ \/ scatter' = convert_sg(sg') /\ pc' = "ready" /\ UNCHANGED cursor
       \/ StaleBound /\ Undo /\ UNCHANGED scatter
    /\ UNCHANGED <<iommu, lost, bus, held, reserved, kind, size, length, old_length, userVars, left, order, mapVars>>

(* Bug: the list of a registered buffer is sorted as well. *)
ConvertSorts ==
    /\ pc = "sort" /\ kind = "user"
    /\ sg' \in Sorted
    /\ \/ scatter' = convert_sg(sg') /\ pc' = "ready" /\ UNCHANGED cursor
       \/ StaleBound /\ Undo /\ UNCHANGED scatter
    /\ UNCHANGED <<iommu, lost, bus, held, reserved, kind, size, length, old_length, userVars, left, order, mapVars>>

(* The end of a registration: the list is copied in the order of the user's pages. *)
Convert ==
    /\ pc = "sort" /\ kind = "user"
    /\ \/ scatter' = convert_sg(sg) /\ pc' = "ready" /\ UNCHANGED cursor
       \/ StaleBound /\ Undo /\ UNCHANGED scatter
    /\ UNCHANGED <<iommu, lost, bus, held, reserved, kind, size, sg, length, old_length, userVars, left, order, mapVars>>

-----------------------------------------------------------------------------
(* Freeing *)

(* Bug: the device keeps its addresses. *)
FreeWithoutUnmap ==
    /\ pc = "ready"
    /\ vma' = <<>>
    /\ pc' = "free" /\ cursor' = 1
    /\ UNCHANGED <<iommu, lost, bus, held, reserved, privVars, left, order, request, wrap>>

(***************************************************************************)
(* uio_pci_dma_free, called by the write to "free": the removal of "map"   *)
(* ends the user's mapping, dma_unmap_sg withdraws the device's addresses. *)
(***************************************************************************)
uio_pci_dma_free ==
    LET unmapped == UNION {Block(sg[k].dma, sg[k].dma_len) : k \in 1 .. old_length} IN
    /\ pc = "ready"
    /\ vma' = <<>>
    /\ bus' = IF iommu THEN [x \in DOMAIN bus \ unmapped |-> bus[x]] ELSE bus
    /\ pc' = "free" /\ cursor' = 1
    /\ UNCHANGED <<iommu, lost, held, reserved, privVars, left, order, request, wrap>>

(* Bug: every block is as large as the whole buffer. *)
FreedBySize(e) == Block(e.page, Pow2[get_order(size)])

(* Pages that __free_pages releases for an entry. *)
FreedBy(e) == Block(e.page, Pow2[get_order(e.length * PAGE_SIZE)])

(* uio_pci_dma_free_kernel_memory, one entry. *)
free_kernel_memory ==
    /\ kind = "kernel" /\ pc \in {"undo", "free"} /\ cursor <= length
    /\ reserved' = reserved \ Block(sg[cursor].page, sg[cursor].length)
    /\ held' = held \ FreedBy(sg[cursor])
    /\ cursor' = cursor + 1
    /\ UNCHANGED <<iommu, lost, bus, privVars, left, order, mapVars, pc>>

(* uio_pci_dma_free_user_memory, one page. *)
free_user_memory ==
    /\ kind = "user" /\ pc = "free" /\ cursor <= size \div PAGE_SIZE
    /\ pinned' = pinned \ {page_list[cursor]}
    /\ cursor' = cursor + 1
    /\ UNCHANGED <<iommu, lost, bus, held, reserved, kind, size, sg, length, old_length, scatter,
                   page_list, left, order, mapVars, pc>>

(* Bug: the loop of the free ends one page too early. *)
FreedEarly ==
    \/ kind = "kernel" /\ pc \in {"undo", "free"} /\ cursor > length
    \/ kind = "user" /\ pc = "free" /\ cursor >= size \div PAGE_SIZE
    \/ kind = "user" /\ pc = "undo"

(* The loop of the free has ended; a failed registration runs none. *)
Freed ==
    \/ kind = "kernel" /\ pc \in {"undo", "free"} /\ cursor > length
    \/ kind = "user" /\ pc = "free" /\ cursor > size \div PAGE_SIZE
    \/ kind = "user" /\ pc = "undo"

(***************************************************************************)
(* free_memory_lists and kfree(priv): nobody names pages and the refs of   *)
(* this buffer that are left.                                              *)
(***************************************************************************)
FreeLists(pages, refs) ==
    /\ lost' = [pages |-> lost.pages \cup pages, refs |-> lost.refs \cup refs]
    /\ pinned' = pinned \ refs
    /\ kind' = "kernel" /\ page_list' = <<>>
    /\ size' = 0 /\ sg' = <<>> /\ length' = 0 /\ old_length' = 0 /\ scatter' = <<>>
    /\ left' = 0 /\ order' = 0 /\ cursor' = 1 /\ request' = 0 /\ vma' = <<>>
    /\ pc' = "idle"
    /\ UNCHANGED <<iommu, bus, held, reserved, wrap>>

(***************************************************************************)
(* The end of a delete and of a failed request: the references that a      *)
(* failed registration has taken stay.                                     *)
(***************************************************************************)
free_memory_lists ==
    Freed /\ FreeLists({}, IF pc = "undo" THEN pinned ELSE {})

(***************************************************************************)
(* exit_binfile: memory and lists are complete, but the file "map" or "sg" *)
(* cannot be created.  The lists are freed, and nothing else: the pages    *)
(* stay allocated or referenced, and known to the device.                  *)
(***************************************************************************)
exit_binfile ==
    /\ pc = "sort" /\ StaleBound
    /\ LostBound(held \cup pinned)
    /\ FreeLists(held \ lost.pages, pinned)

-----------------------------------------------------------------------------
(* Mapping into user space *)

(* The first pages of the mapping: the user's own memory, if it was registered. *)
OwnView == IF kind = "user" /\ vma # <<>> THEN SubSeq(vma, 1, size \div PAGE_SIZE)
           ELSE <<>>

(* mmap of "map", as DMABuffer_map does it. *)
StartMap ==
    /\ pc = "ready" /\ kind = "kernel" /\ vma = <<>>
    /\ request' = size
    /\ cursor' = 1
    /\ pc' = "map"
    /\ UNCHANGED <<iommu, lost, bus, held, reserved, privVars, left, order, vma, wrap>>

(***************************************************************************)
(* DMABuffer_wrapMap: a kernel buffer is unmapped and mapped with twice    *)
(* its length, a user's memory is moved to where there is room (mremap)    *)
(* and "map" mapped behind it.  The move may fail, and the pointer to the  *)
(* memory is lost then.                                                    *)
(***************************************************************************)
DMABuffer_wrapMap ==
    /\ pc = "ready"
    /\ \/ /\ kind = "user" => vma # <<>>
          /\ vma' = OwnView /\ request' = 2 * size
          /\ cursor' = 1 /\ wrap' = "double"
          /\ pc' = "map"
       \/ /\ kind = "user"
          /\ vma' = <<>> /\ request' = 0
          /\ UNCHANGED <<cursor, wrap, pc>>
    /\ UNCHANGED <<iommu, lost, bus, held, reserved, privVars, left, order>>

(* Bug: the list is not started again at the buffer's end. *)
RemapRunsOn ==
    /\ pc = "map" /\ Len(vma) * PAGE_SIZE < request
    /\ vma' = vma \o [k \in 1 .. sg[cursor].dma_len |-> sg[cursor].page + k - 1]
    /\ cursor' = cursor + 1
    /\ UNCHANGED <<iommu, lost, bus, held, reserved, privVars, left, order, request, wrap, pc>>

(***************************************************************************)
(* An iteration of uio_pci_dma_map: remap_pfn_range of an entry, as long   *)
(* as it is for the device, and back to the first one at the buffer's end. *)
(* If it fails, so does mmap (MapFails).                                   *)
(***************************************************************************)
remap_pfn_range ==
    /\ pc = "map" /\ Len(vma) * PAGE_SIZE < request
    /\ vma' = vma \o [k \in 1 .. sg[cursor].dma_len |-> sg[cursor].page + k - 1]
    /\ cursor' = IF (Len(vma') * PAGE_SIZE) % size = 0 THEN 1 ELSE cursor + 1
    /\ UNCHANGED <<iommu, lost, bus, held, reserved, privVars, left, order, request, wrap, pc>>

EndMap ==
    /\ pc = "map" /\ Len(vma) * PAGE_SIZE >= request
    /\ cursor' = 1 /\ wrap' = "no"
    /\ pc' = "ready"
    /\ UNCHANGED <<iommu, lost, bus, held, reserved, privVars, left, order, request, vma>>

(***************************************************************************)
(* mmap fails, or a second half is not where it should be and is unmapped  *)
(* again.  A kernel buffer that cannot be mapped twice is mapped once.     *)
(***************************************************************************)
MapFails ==
    /\ pc = "map"
    /\ vma' = OwnView /\ cursor' = 1
    /\ \/ /\ kind = "kernel" /\ wrap = "double"
          /\ request' = size /\ wrap' = "single"
          /\ UNCHANGED pc
       \/ /\ kind = "user" \/ wrap # "double"
          /\ request' = Len(vma') * PAGE_SIZE /\ wrap' = "no"
          /\ pc' = "ready"
    /\ UNCHANGED <<iommu, lost, bus, held, reserved, privVars, left, order>>

(* DMABuffer_free: what was mapped from the file; a user's memory stays. *)
munmap ==
    /\ pc = "ready" /\ vma # OwnView
    /\ vma' = OwnView /\ request' = Len(vma') * PAGE_SIZE
    /\ UNCHANGED <<iommu, lost, bus, held, reserved, privVars, left, order, cursor, wrap, pc>>

-----------------------------------------------------------------------------
Next ==
    \/ allocate_kernel_memory \/ alloc_pages \/ allocate_user_memory
    \/ program_iommu \/ SortAndConvert \/ Convert
    \/ uio_pci_dma_free \/ free_kernel_memory \/ free_user_memory \/ free_memory_lists
    \/ exit_binfile
    \/ StartMap \/ DMABuffer_wrapMap \/ remap_pfn_range \/ EndMap \/ MapFails \/ munmap

Spec == Init /\ [][Next]_vars

-----------------------------------------------------------------------------
(* Properties *)

Chunk == [page : Pages, length : Nat, dma : Nat, dma_len : Nat]

(***************************************************************************)
(* Types; and the mapping loop stays in the list: it wraps at the last     *)
(* entry, never after it.                                                  *)
(***************************************************************************)
TypeOK ==
    /\ iommu \in BOOLEAN
    /\ \A x \in DOMAIN bus : bus[x] \in Pages
    /\ held \subseteq Pages /\ reserved \subseteq Pages
    /\ lost \in [pages : SUBSET Pages, refs : SUBSET Pages]
    /\ sg \in Seq(Chunk)
    /\ scatter \in Seq([page_link : Pages, length : Nat, dma : Nat])
    /\ kind \in {"kernel", "user"} /\ page_list \in Seq(Pages) /\ pinned \subseteq Pages
    /\ {size, length, old_length, left, order, request} \subseteq Nat
    /\ vma \in Seq(Pages) /\ wrap \in {"no", "double", "single"}
    /\ pc \in {"idle", "chunks", "sort", "ready", "map", "undo", "free"}
    /\ pc = "map" => cursor \in DOMAIN scatter

(***************************************************************************)
(* After every delete, and after every request that fails while it gets    *)
(* its memory, the driver has given back the pages it has allocated, none  *)
(* of them still marked as reserved, and its references: what it still has *)
(* are the pages of requests that failed after that, in the creation of    *)
(* their files.  (Of a registration that fails all references stay, and    *)
(* are in lost: the code has no put_page there.)                           *)
(***************************************************************************)
NothingKept ==
    pc = "idle" => held = lost.pages /\ reserved = lost.pages /\ pinned = {}

(***************************************************************************)
(* The freeing loop, which derives page and order of a block from a list   *)
(* that was filled in one order and sorted into another, releases only     *)
(* pages of this buffer that the driver still has, and a page of the       *)
(* user's only once.                                                       *)
(***************************************************************************)
FreesOwnPages ==
    pc \in {"undo", "free"} /\ ~Freed =>
        IF kind = "kernel" THEN FreedBy(sg[cursor]) \subseteq held \ lost.pages
                           ELSE page_list[cursor] \in pinned

(* The device address of page u of the buffer, as DMABuffer_loadSGList     *)
(* reads it off the exposed list.                                          *)
DevicePointer(u) ==
    LET start[k \in 1 .. Len(scatter)] ==
            IF k = 1 THEN 0 ELSE start[k - 1] + scatter[k - 1].length
        k == CHOOSE k \in DOMAIN scatter : start[k] <= u /\ u < start[k] + scatter[k].length
    IN  scatter[k].dma + (u - start[k])

(***************************************************************************)
(* "User space pointer to the entry", "Device pointer to the entry": at    *)
(* every offset the process and the device see the same page, one of the   *)
(* driver's or of those it has a reference of, in both halves of a wrapped *)
(* mapping, of allocated and of registered memory.                         *)
(***************************************************************************)
ViewsAgree ==
    pc = "ready" /\ vma # <<>> =>
        /\ Len(vma) * PAGE_SIZE = request /\ request \in {size, 2 * size}
        /\ \A u \in 1 .. Len(vma) :
              /\ vma[u] \in held \cup pinned
              /\ vma[u] = bus[DevicePointer((u - 1) % (size \div PAGE_SIZE))]

(***************************************************************************)
(* From before a delete frees the first page, none of the addresses that   *)
(* were exposed for the device leads anywhere.                             *)
(***************************************************************************)
UnmappedBeforeFreed ==
    iommu /\ pc = "free" =>
        \A k \in DOMAIN scatter : Block(scatter[k].dma, scatter[k].length) \cap DOMAIN bus = {}

====
