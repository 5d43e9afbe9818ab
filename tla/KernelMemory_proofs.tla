------------------------- MODULE KernelMemory_proofs -------------------------
(***************************************************************************)
(* Theorems of KernelMemory, for any memory, page size, requests and       *)
(* orders of blocks: a delete withdraws the addresses before it frees, and *)
(* if dma_map_sg does not merge, all pages come back, each once, and the   *)
(* process sees at every offset the page that the device reaches.          *)
(***************************************************************************)
EXTENDS KernelMemory, FiniteSetTheorems, NaturalsInduction, SequenceTheorems,
        WellFoundedInduction, TLAPS

-----------------------------------------------------------------------------
(* Arithmetic *)

(* A set of numbers that is not empty has a least one. *)
LEMMA LeastNumber ==
    ASSUME NEW S \in SUBSET Nat, S # {}
    PROVE  \E n \in S : \A x \in S : n <= x
  <1>1. \A x, y \in Nat : <<x, y>> \in OpToRel(<, Nat) <=> x < y
    BY DEF OpToRel
  <1>2. PICK R : IsWellFoundedOn(R, Nat) /\ \A x, y \in Nat : <<x, y>> \in R <=> x < y
    BY <1>1, NatLessThanWellFounded, Zenon
  <1>3. IsWellFoundedOn(R, Nat) /\ S \subseteq Nat
    BY <1>2
  <1>4. PICK n \in S : \A x \in S : ~ (<<x, n>> \in R)
    BY <1>3, WFMin, Zenon
  <1>5. \A x \in S : ~ (x < n)
    BY <1>2, <1>3, <1>4, Zenon
  <1> QED  BY <1>5

(* Hence, if a set of numbers holds 0 and with a number its successor, it holds all. *)
LEMMA Induction ==
    ASSUME NEW S, 0 \in S, \A n \in Nat : n \in S => n + 1 \in S
    PROVE  Nat \subseteq S
  <1> SUFFICES ASSUME Nat \ S # {} PROVE FALSE
    OBVIOUS
  <1>1. PICK n \in Nat \ S : \A x \in Nat \ S : n <= x
    BY LeastNumber
  <1>2. n # 0 /\ n - 1 \in Nat /\ n - 1 \notin Nat \ S
    BY <1>1
  <1> QED  BY <1>1, <1>2

(* The equation of Pow2, up to m. *)
PowersUpTo(f, m) ==
    f \in [0 .. m -> Nat] /\ \A n \in 0 .. m : f[n] = IF n = 0 THEN 1 ELSE 2 * f[n - 1]

(* The recursive definition has a solution. *)
LEMMA PowersExist ==
    \E F : F = [n \in Nat |-> IF n = 0 THEN 1 ELSE 2 * F[n - 1]]
  <1> DEFINE S == {m \in Nat : \E f : PowersUpTo(f, m)}
  <1>1. 0 \in S
    <2>1. PowersUpTo([n \in 0 .. 0 |-> 1], 0)
      BY DEF PowersUpTo
    <2> QED  BY <2>1
  <1>2. ASSUME NEW m \in Nat, m \in S PROVE m + 1 \in S
    <2>1. PICK f : PowersUpTo(f, m)
      BY <1>2
    <2> DEFINE g == [n \in 0 .. m + 1 |-> IF n = m + 1 THEN 2 * f[m] ELSE f[n]]
    <2>2. f \in [0 .. m -> Nat] /\ f[m] \in Nat
      BY <2>1 DEF PowersUpTo
    <2>3. g \in [0 .. m + 1 -> Nat]
      BY <2>2
    <2>4. ASSUME NEW n \in 0 .. m + 1 PROVE g[n] = IF n = 0 THEN 1 ELSE 2 * g[n - 1]
      <3>1. CASE n = m + 1
        BY <3>1, <2>2
      <3>2. CASE n # m + 1
        <4>1. n \in 0 .. m /\ g[n] = f[n] /\ (n # 0 => n - 1 \in 0 .. m + 1 /\ n - 1 # m + 1)
          BY <3>2
        <4>2. n # 0 => g[n - 1] = f[n - 1]
          BY <4>1
        <4> QED  BY <4>1, <4>2, <2>1 DEF PowersUpTo
      <3> QED  BY <3>1, <3>2
    <2> HIDE DEF g
    <2>5. PowersUpTo(g, m + 1)
      BY <2>3, <2>4 DEF PowersUpTo
    <2> QED  BY <2>5
  <1>3. \A m \in Nat : \E f : PowersUpTo(f, m)
    <2> HIDE DEF S
    <2>1. Nat \subseteq S
      BY <1>1, <1>2, Induction
    <2> QED  BY <2>1 DEF S
  <1>4. ASSUME NEW m \in Nat, NEW l \in Nat, NEW f, NEW g, PowersUpTo(f, m), PowersUpTo(g, l)
        PROVE  \A n \in Nat : n <= m /\ n <= l => f[n] = g[n]
    <2> DEFINE T == {n \in Nat : n <= m /\ n <= l => f[n] = g[n]}
    <2>1. 0 \in T
      BY <1>4 DEF PowersUpTo
    <2>2. ASSUME NEW n \in Nat, n \in T PROVE n + 1 \in T
      <3> SUFFICES ASSUME n + 1 <= m, n + 1 <= l PROVE f[n + 1] = g[n + 1]
        OBVIOUS
      <3>1. f[n] = g[n] /\ n + 1 \in 0 .. m /\ n + 1 \in 0 .. l /\ n + 1 # 0 /\ (n + 1) - 1 = n
        BY <2>2
      <3>2. f[n + 1] = 2 * f[n]
        BY <1>4, <3>1 DEF PowersUpTo
      <3>3. g[n + 1] = 2 * g[n]
        BY <1>4, <3>1 DEF PowersUpTo
      <3> QED  BY <3>1, <3>2, <3>3
    <2> HIDE DEF T
    <2>3. Nat \subseteq T
      BY <2>1, <2>2, Induction
    <2> QED  BY <2>3 DEF T
  <1> DEFINE h(m) == CHOOSE f : PowersUpTo(f, m)
             F == [n \in Nat |-> h(n)[n]]
  <1>5. \A m \in Nat : PowersUpTo(h(m), m)
    BY <1>3
  <1> HIDE DEF h
  <1>6. ASSUME NEW n \in Nat PROVE F[n] = IF n = 0 THEN 1 ELSE 2 * F[n - 1]
    <2>1. h(n)[n] = IF n = 0 THEN 1 ELSE 2 * h(n)[n - 1]
      BY <1>5 DEF PowersUpTo
    <2>2. n # 0 => n - 1 \in Nat /\ n - 1 <= n /\ n - 1 <= n - 1
      OBVIOUS
    <2>3. n # 0 => h(n)[n - 1] = h(n - 1)[n - 1]
      BY <1>4, <1>5, <2>2
    <2> QED  BY <2>1, <2>2, <2>3
  <1> HIDE DEF F
  <1>7. F = [n \in Nat |-> IF n = 0 THEN 1 ELSE 2 * F[n - 1]]
    <2>1. F = [n \in Nat |-> F[n]]
      BY DEF F
    <2> QED  BY <1>6, <2>1
  <1> QED  BY <1>7

LEMMA Pow2Equation == Pow2[0] = 1 /\ \A n \in Nat : Pow2[n + 1] = 2 * Pow2[n]
  <1>1. Pow2 = [n \in Nat |-> IF n = 0 THEN 1 ELSE 2 * Pow2[n - 1]]
    BY PowersExist DEF Pow2
  <1>2. \A n \in Nat : Pow2[n] = IF n = 0 THEN 1 ELSE 2 * Pow2[n - 1]
    BY <1>1
  <1>3. \A n \in Nat : n + 1 \in Nat /\ n + 1 # 0 /\ (n + 1) - 1 = n
    OBVIOUS
  <1>4. Pow2[0] = 1
    BY <1>2
  <1>5. \A n \in Nat : Pow2[n + 1] = 2 * Pow2[n]
    <2> TAKE n \in Nat
    <2>1. Pow2[n + 1] = 2 * Pow2[(n + 1) - 1]
      BY <1>2, <1>3
    <2> QED  BY <1>3, <2>1
  <1> QED  BY <1>4, <1>5

LEMMA Pow2Nat == \A n \in Nat : Pow2[n] \in Nat \ {0} /\ Pow2[n] > n
  <1> DEFINE S == {n \in Nat : Pow2[n] \in Nat \ {0} /\ Pow2[n] > n}
  <1>1. 0 \in S
    BY Pow2Equation
  <1>2. ASSUME NEW n \in Nat, n \in S PROVE n + 1 \in S
    BY <1>2, Pow2Equation
  <1> HIDE DEF S
  <1>3. Nat \subseteq S
    BY <1>1, <1>2, Induction
  <1> QED  BY <1>3 DEF S

LEMMA Pow2Increases == \A m, n \in Nat : m < n => Pow2[m] < Pow2[n]
  <1> SUFFICES ASSUME NEW m \in Nat PROVE \A n \in Nat : m < n => Pow2[m] < Pow2[n]
    OBVIOUS
  <1> DEFINE S == {n \in Nat : m < n => Pow2[m] < Pow2[n]}
  <1>1. 0 \in S
    OBVIOUS
  <1>2. ASSUME NEW n \in Nat, n \in S PROVE n + 1 \in S
    <2>1. Pow2[m] \in Nat /\ Pow2[n] \in Nat \ {0} /\ Pow2[n + 1] = 2 * Pow2[n]
      BY Pow2Equation, Pow2Nat
    <2>2. m < n + 1 => m < n \/ m = n
      OBVIOUS
    <2> QED  BY <1>2, <2>1, <2>2
  <1> HIDE DEF S
  <1>3. Nat \subseteq S
    BY <1>1, <1>2, Induction
  <1> QED  BY <1>3 DEF S

(* get_order finds an order, and the order of a block of Pow2[x] pages is x. *)
LEMMA GetOrder ==
    /\ \A n \in Nat : get_order(n) \in Nat
    /\ \A x \in Nat : get_order(Pow2[x] * PAGE_SIZE) = x
  <1> DEFINE Is(n, o) == /\ PAGE_SIZE * Pow2[o] >= n
                         /\ o > 0 => PAGE_SIZE * Pow2[o - 1] < n
  <1>1. PAGE_SIZE \in Nat \ {0}
    BY MemoryAssumption
  <1>2. ASSUME NEW n \in Nat PROVE \E o \in 0 .. n : Is(n, o)
    <2> DEFINE S == {o \in Nat : PAGE_SIZE * Pow2[o] >= n}
    <2>1. Pow2[n] \in Nat /\ Pow2[n] > n
      BY Pow2Nat
    <2>2. n \in S
      BY <1>1, <2>1
    <2>3. PICK o \in S : \A x \in S : o <= x
      BY <2>2, LeastNumber
    <2>4. o \in 0 .. n
      BY <2>2, <2>3
    <2>5. o > 0 => PAGE_SIZE * Pow2[o - 1] < n
      <3> HAVE o > 0
      <3>1. o - 1 \in Nat /\ ~ (o <= o - 1)
        BY <2>4
      <3>2. Pow2[o - 1] \in Nat /\ PAGE_SIZE * Pow2[o - 1] \in Nat
        BY <1>1, <3>1, Pow2Nat
      <3>3. ~ (PAGE_SIZE * Pow2[o - 1] >= n)
        BY <2>3, <3>1
      <3> QED  BY <3>2, <3>3
    <2> QED  BY <2>3, <2>4, <2>5
  <1>3. ASSUME NEW n \in Nat PROVE get_order(n) \in 0 .. n /\ Is(n, get_order(n))
    BY <1>2, <1>3 DEF get_order
  <1>4. ASSUME NEW x \in Nat PROVE get_order(Pow2[x] * PAGE_SIZE) = x
    <2> DEFINE n == Pow2[x] * PAGE_SIZE
               o == get_order(n)
    <2>1. Pow2[x] \in Nat \ {0} /\ n \in Nat
      BY <1>1, Pow2Nat
    <2>2. o \in Nat /\ PAGE_SIZE * Pow2[o] >= n /\ (o > 0 => PAGE_SIZE * Pow2[o - 1] < n)
      BY <1>3, <2>1
    <2> HIDE DEF o
    <2>3. ~ (o < x)
      <3> SUFFICES ASSUME o < x PROVE FALSE
        OBVIOUS
      <3>1. Pow2[o] < Pow2[x] /\ Pow2[o] \in Nat
        BY <2>2, Pow2Increases, Pow2Nat
      <3>2. PAGE_SIZE * Pow2[o] < PAGE_SIZE * Pow2[x]
        BY <1>1, <2>1, <3>1
      <3> QED  BY <1>1, <2>1, <2>2, <3>1, <3>2
    <2>4. ~ (o > x)
      <3> SUFFICES ASSUME o > x PROVE FALSE
        OBVIOUS
      <3>1. o - 1 \in Nat /\ (x < o - 1 \/ x = o - 1) /\ o > 0
        BY <2>2
      <3>2. Pow2[x] <= Pow2[o - 1] /\ Pow2[o - 1] \in Nat
        BY <2>1, <3>1, Pow2Increases, Pow2Nat
      <3>3. PAGE_SIZE * Pow2[x] <= PAGE_SIZE * Pow2[o - 1]
        BY <1>1, <2>1, <3>2
      <3> QED  BY <1>1, <2>1, <2>2, <3>1, <3>2, <3>3
    <2> QED  BY <2>2, <2>3, <2>4 DEF o
  <1> QED  BY <1>3, <1>4

(* The allocation loop finds an order of which a block fits. *)
LEMMA FittingOrderIs ==
    ASSUME order \in Nat, left \in Nat \ {0}
    PROVE  FittingOrder \in Nat /\ Pow2[FittingOrder] <= left
  <1> DEFINE S == {y \in Nat : y <= order /\ Pow2[order - y] <= left}
  <1>1. order \in S
    BY Pow2Equation
  <1>2. PICK y \in S : \A z \in S : y <= z
    BY <1>1, LeastNumber
  <1> DEFINE x == order - y
  <1>3. x \in 0 .. order /\ Pow2[x] <= left
    BY <1>2
  <1>4. x < order => Pow2[x + 1] > left
    <2> HAVE x < order
    <2>1. y - 1 \in Nat /\ y - 1 <= order /\ order - (y - 1) = x + 1 /\ ~ (y <= y - 1) /\ x + 1 \in Nat
      BY <1>2, <1>3
    <2>2. ~ (Pow2[x + 1] <= left)
      BY <1>2, <2>1
    <2>3. Pow2[x + 1] \in Nat
      BY <2>1, Pow2Nat
    <2> QED  BY <2>2, <2>3
  <1> HIDE DEF x
  <1>5. FittingOrder \in 0 .. order /\ Pow2[FittingOrder] <= left
    BY <1>3, <1>4 DEF FittingOrder
  <1> QED  BY <1>5

(* A size that is rounded up to pages has at least one. *)
LEMMA RoundedUp ==
    ASSUME NEW m \in Nat \ {0}
    PROVE  (m + PAGE_SIZE - 1) \div PAGE_SIZE \in Nat \ {0}
  <1>1. PAGE_SIZE \in Nat \ {0}
    BY MemoryAssumption
  <1>2. m + PAGE_SIZE - 1 \in Nat /\ m + PAGE_SIZE - 1 >= PAGE_SIZE
    BY <1>1
  <1>3. \A a \in Nat : a >= PAGE_SIZE => a \div PAGE_SIZE \in Nat \ {0}
    BY <1>1
  <1> QED  BY <1>2, <1>3

-----------------------------------------------------------------------------
(***************************************************************************)
(* The addresses of the device.  The exposed list shows the first entries  *)
(* of priv->sg, also if dma_map_sg has merged entries; dma_unmap_sg goes   *)
(* over at least as many (old_length).                                     *)
(***************************************************************************)
ListOK ==
    /\ length \in Nat
    /\ pc = "chunks" => left # 0 \/ length # 0
    /\ pc \in {"sort", "ready", "map", "free"} =>
          old_length \in Nat /\ length # 0 /\ length <= old_length

ExposedOK ==
    pc \in {"ready", "map", "free"} => scatter = convert_sg(sg)

WithdrawnOK ==
    pc = "free" /\ iommu =>
        \A k \in 1 .. length : Block(sg[k].dma, sg[k].dma_len) \cap DOMAIN bus = {}

AddressInv == ListOK /\ ExposedOK /\ WithdrawnOK

LEMMA InitAddress == Init => AddressInv
  BY DEF Init, AddressInv, ListOK, ExposedOK, WithdrawnOK

(* Requests: a list that is handed to dma_map_sg is not empty. *)
LEMMA AllocateAddress ==
    ASSUME AddressInv,
           allocate_kernel_memory \/ alloc_pages \/ allocate_user_memory
    PROVE  AddressInv'
  <1> USE DEF AddressInv, ListOK
  <1>1. CASE allocate_kernel_memory
    <2>1. left' # 0
      BY <1>1, RoundedUp DEF allocate_kernel_memory
    <2> QED  BY <1>1, <2>1 DEF allocate_kernel_memory, ExposedOK, WithdrawnOK
  <1>2. CASE alloc_pages
    <2>1. \/ pc' = "undo" /\ length' = length
          \/ pc' = "chunks" /\ length' = length + 1
      BY <1>2 DEF alloc_pages, Undo
    <2>2. length' \in Nat /\ pc' \in {"chunks", "undo"} /\ (pc' = "chunks" => length' # 0)
      BY <2>1
    <2> QED  BY <2>2 DEF ExposedOK, WithdrawnOK
  <1>3. CASE allocate_user_memory
    <2>1. length' \in Nat \ {0} /\ pc' \in {"chunks", "undo"}
      BY <1>3, RoundedUp DEF allocate_user_memory
    <2> QED  BY <2>1 DEF ExposedOK, WithdrawnOK
  <1> QED  BY <1>1, <1>2, <1>3

(* dma_map_sg returns at most as many segments as there are entries. *)
LEMMA ProgramAddress == ASSUME AddressInv, program_iommu PROVE AddressInv'
  <1> USE DEF AddressInv, ListOK
  <1>1. length \in Nat \ {0} /\ length \in 1 .. length
    BY DEF program_iommu
  <1>2. CASE pc' = "sort"
    <2>1. PICK s \in Segmentations : length' = s[length]
      BY <1>2 DEF program_iommu, Undo
    <2>2. length' \in 1 .. length
      BY <1>1, <2>1 DEF Segmentations
    <2>3. old_length' = length
      BY <1>2 DEF program_iommu, Undo
    <2> QED  BY <1>1, <1>2, <2>2, <2>3 DEF ExposedOK, WithdrawnOK
  <1>3. CASE pc' # "sort"
    <2>1. pc' = "undo" /\ length' = length
      BY <1>3 DEF program_iommu, Undo
    <2> QED  BY <2>1 DEF ExposedOK, WithdrawnOK
  <1> QED  BY <1>2, <1>3

(* What is exposed is the list that the buffer keeps. *)
LEMMA ConvertAddress == ASSUME AddressInv, SortAndConvert \/ Convert PROVE AddressInv'
  <1> USE DEF AddressInv, ListOK
  <1>1. /\ pc = "sort" /\ pc' \in {"ready", "undo"} /\ length' = length /\ old_length' = old_length
        /\ pc' = "ready" => scatter' = convert_sg(sg')
    BY DEF SortAndConvert, Convert, Undo
  <1>2. pc' = "ready" => scatter' = convert_sg(sg)'
    BY <1>1 DEF convert_sg
  <1> QED  BY <1>1, <1>2 DEF ExposedOK, WithdrawnOK

(* dma_unmap_sg withdraws the addresses of every entry that is exposed. *)
LEMMA FreeAddress ==
    ASSUME AddressInv,
           \/ uio_pci_dma_free \/ free_kernel_memory \/ free_user_memory
           \/ free_memory_lists \/ exit_binfile
    PROVE  AddressInv'
  <1> USE DEF AddressInv, ListOK
  <1>1. CASE uio_pci_dma_free
    <2>1. pc = "ready" /\ pc' = "free" /\ UNCHANGED <<iommu, privVars>>
      BY <1>1 DEF uio_pci_dma_free
    <2>2. WithdrawnOK'
      <3> SUFFICES ASSUME iommu', NEW k \in 1 .. length'
                   PROVE  Block(sg'[k].dma, sg'[k].dma_len) \cap DOMAIN bus' = {}
        BY DEF WithdrawnOK, Block
      <3>1. sg' = sg /\ iommu /\ k \in 1 .. old_length
        BY <2>1 DEF privVars
      <3>2. DOMAIN bus' = DOMAIN bus \ UNION {Block(sg[j].dma, sg[j].dma_len) : j \in 1 .. old_length}
        BY <1>1, <3>1 DEF uio_pci_dma_free
      <3> HIDE DEF ListOK, AddressInv
      <3> QED  BY <3>1, <3>2
    <2> QED  BY <2>1, <2>2 DEF privVars, ExposedOK, convert_sg
  <1>2. CASE free_kernel_memory
    BY <1>2 DEF free_kernel_memory, privVars, ExposedOK, WithdrawnOK, convert_sg, Block
  <1>3. CASE free_user_memory
    BY <1>3 DEF free_user_memory, ExposedOK, WithdrawnOK, convert_sg, Block
  <1>4. CASE free_memory_lists \/ exit_binfile
    <2>1. pc' = "idle" /\ length' = 0
      BY <1>4 DEF free_memory_lists, exit_binfile, FreeLists
    <2> QED  BY <2>1 DEF ExposedOK, WithdrawnOK
  <1> QED  BY <1>1, <1>2, <1>3, <1>4

(* Mapping into user space changes nothing of this. *)
LEMMA MapAddress ==
    ASSUME AddressInv,
           StartMap \/ DMABuffer_wrapMap \/ remap_pfn_range \/ EndMap \/ MapFails \/ munmap
    PROVE  AddressInv'
  <1>1. pc \in {"ready", "map"} /\ pc' \in {"ready", "map"} /\ UNCHANGED privVars
    BY DEF StartMap, DMABuffer_wrapMap, remap_pfn_range, EndMap, MapFails, munmap
  <1> QED  BY <1>1 DEF privVars, AddressInv, ListOK, ExposedOK, WithdrawnOK, convert_sg

LEMMA NextAddress == AddressInv /\ [Next]_vars => AddressInv'
  <1> SUFFICES ASSUME AddressInv, [Next]_vars PROVE AddressInv'
    OBVIOUS
  <1>1. CASE Next
    BY <1>1, AllocateAddress, ProgramAddress, ConvertAddress, FreeAddress, MapAddress DEF Next
  <1>2. CASE UNCHANGED vars
    BY <1>2 DEF vars, privVars, AddressInv, ListOK, ExposedOK, WithdrawnOK, convert_sg, Block
  <1> QED  BY <1>1, <1>2

(***************************************************************************)
(* A delete withdraws every address that the file "sg" has exposed for the *)
(* device before it frees the first page, however dma_map_sg has merged.   *)
(***************************************************************************)
THEOREM WithdrawnBeforeFreed == Spec => []UnmappedBeforeFreed
  <1>1. AddressInv => UnmappedBeforeFreed
    <2> SUFFICES ASSUME AddressInv, iommu, pc = "free", NEW k \in DOMAIN scatter
                 PROVE  Block(scatter[k].dma, scatter[k].length) \cap DOMAIN bus = {}
      BY DEF UnmappedBeforeFreed
    <2>1. scatter = convert_sg(sg)
      BY DEF AddressInv, ExposedOK
    <2>2. k \in 1 .. length /\ scatter[k].dma = sg[k].dma /\ scatter[k].length = sg[k].dma_len
      BY <2>1 DEF convert_sg
    <2> QED  BY <2>2 DEF AddressInv, WithdrawnOK
  <1> QED  BY <1>1, InitAddress, NextAddress, PTL DEF Spec

-----------------------------------------------------------------------------
(***************************************************************************)
(* Lists of entries: the pages of entry k of list l, and how many lie      *)
(* before it in the list.  Separate entries have no page in common.        *)
(***************************************************************************)
Span(l, k)   == Block(l[k].page, l[k].length)
Offset(l, k) == Cardinality(UNION {Span(l, j) : j \in 1 .. k - 1})

Separate(l) ==
    /\ \A k \in 1 .. Len(l) : l[k].length # 0 /\ Span(l, k) \subseteq Pages
    /\ \A j, k \in 1 .. Len(l) : j # k => Span(l, j) \cap Span(l, k) = {}

LEMMA ChunkFields ==
    ASSUME NEW l \in Seq(Chunk), NEW k \in 1 .. Len(l)
    PROVE  /\ l[k] \in Chunk /\ l[k].page \in Pages /\ l[k].page \in Nat /\ l[k].length \in Nat
           /\ l[k].dma \in Nat /\ l[k].dma_len \in Nat
  <1>1. l[k] \in Chunk
    OBVIOUS
  <1>2. Pages \subseteq Nat
    BY MemoryAssumption DEF Pages
  <1> QED  BY <1>1, <1>2 DEF Chunk

LEMMA OffsetStep ==
    ASSUME NEW l \in Seq(Chunk), Separate(l), NEW k \in 1 .. Len(l) + 1
    PROVE  /\ Offset(l, 1) = 0 /\ Offset(l, k) \in Nat
           /\ k <= Len(l) => Offset(l, k + 1) = Offset(l, k) + l[k].length
  <1> DEFINE U(n) == UNION {Span(l, j) : j \in 1 .. n - 1}
  <1>0. Len(l) \in Nat
    OBVIOUS
  <1>1. U(1) = {}
    OBVIOUS
  <1>2. IsFiniteSet(Pages)
    BY MemoryAssumption, FS_Interval DEF Pages
  <1>3. \A n \in 1 .. Len(l) + 1 : IsFiniteSet(U(n))
    <2> TAKE n \in 1 .. Len(l) + 1
    <2>1. \A j \in 1 .. n - 1 : j \in 1 .. Len(l)
      BY <1>0
    <2>2. U(n) \subseteq Pages
      BY <2>1 DEF Separate
    <2> QED  BY <1>2, <2>2, FS_Subset
  <1>4. ASSUME k <= Len(l) PROVE Offset(l, k + 1) = Offset(l, k) + l[k].length
    <2>1. k \in 1 .. Len(l) /\ k + 1 \in 1 .. Len(l) + 1
      BY <1>0, <1>4
    <2>2. \A j : j \in 1 .. (k + 1) - 1 <=> (j \in 1 .. k - 1 \/ j = k)
      BY <2>1
    <2>3. U(k + 1) = U(k) \cup Span(l, k)
      BY <2>2
    <2>4. \A j \in 1 .. k - 1 : j \in 1 .. Len(l) /\ j # k
      BY <2>1
    <2>5. U(k) \cap Span(l, k) = {}
      BY <2>1, <2>4 DEF Separate
    <2>6. IsFiniteSet(Span(l, k)) /\ Cardinality(Span(l, k)) = l[k].length
      <3>1. l[k].page \in Int /\ l[k].length \in Nat /\ l[k].length # 0
        BY <2>1, ChunkFields DEF Separate
      <3>2. Span(l, k) = l[k].page .. l[k].page + l[k].length - 1
        BY DEF Span, Block
      <3>3. \A a \in Int : \A n \in Nat \ {0} :
                IsFiniteSet(a .. a + n - 1) /\ Cardinality(a .. a + n - 1) = n
        <4> TAKE a \in Int, n \in Nat \ {0}
        <4>1. a + n - 1 \in Int /\ ~ (a > a + n - 1) /\ (a + n - 1) - a + 1 = n
          OBVIOUS
        <4> QED  BY <4>1, FS_Interval
      <3> QED  BY <3>1, <3>2, <3>3
    <2> HIDE DEF U
    <2>7. Cardinality(U(k + 1)) = Cardinality(U(k)) + Cardinality(Span(l, k)) - Cardinality({})
      BY <1>3, <2>1, <2>3, <2>5, <2>6, FS_Union
    <2>8. Cardinality({}) = 0 /\ Cardinality(U(k)) \in Nat /\ l[k].length \in Nat
      BY <1>3, <2>1, FS_EmptySet, FS_CardinalityType, ChunkFields
    <2> QED  BY <2>6, <2>7, <2>8 DEF Offset, U
  <1> HIDE DEF U
  <1>5. Cardinality(U(1)) = 0 /\ Cardinality(U(k)) \in Nat
    BY <1>1, <1>3, FS_EmptySet, FS_CardinalityType
  <1> QED  BY <1>4, <1>5 DEF Offset, U

(* The pages of an entry lie before those of a later one. *)
LEMMA OffsetsIncrease ==
    ASSUME NEW l \in Seq(Chunk), Separate(l), NEW j \in 1 .. Len(l), NEW k \in 1 .. Len(l) + 1, j < k
    PROVE  Offset(l, j) + l[j].length <= Offset(l, k)
  <1> DEFINE S == {n \in Nat : n \in j + 1 .. Len(l) + 1 => Offset(l, j) + l[j].length <= Offset(l, n)}
  <1>0. Len(l) \in Nat /\ j \in Nat /\ l[j].length \in Nat
    BY ChunkFields
  <1>1. 0 \in S
    BY <1>0
  <1>2. ASSUME NEW n \in Nat, n \in S PROVE n + 1 \in S
    <2> SUFFICES ASSUME n + 1 \in j + 1 .. Len(l) + 1
                 PROVE  Offset(l, j) + l[j].length <= Offset(l, n + 1)
      OBVIOUS
    <2>1. n \in 1 .. Len(l) /\ n \in 1 .. Len(l) + 1 /\ n <= Len(l) /\ j \in 1 .. Len(l) + 1
      BY <1>0
    <2>2. Offset(l, n + 1) = Offset(l, n) + l[n].length /\ Offset(l, n) \in Nat /\ l[n].length \in Nat
      BY <2>1, OffsetStep, ChunkFields
    <2>3. Offset(l, j) \in Nat
      BY <2>1, OffsetStep
    <2>4. n = j \/ n \in j + 1 .. Len(l) + 1
      BY <1>0
    <2>5. n # j => Offset(l, j) + l[j].length <= Offset(l, n)
      BY <1>2, <2>4
    <2> HIDE DEF S
    <2> QED  BY <1>0, <2>2, <2>3, <2>5
  <1> HIDE DEF S
  <1>3. k \in S
    <2>1. Nat \subseteq S
      BY <1>1, <1>2, Induction
    <2>2. k \in Nat
      BY <1>0
    <2> QED  BY <2>1, <2>2
  <1>4. k \in j + 1 .. Len(l) + 1
    BY <1>0
  <1> QED  BY <1>3, <1>4 DEF S

(* Every page of the list belongs to an entry. *)
LEMMA OffsetsCover ==
    ASSUME NEW l \in Seq(Chunk), Separate(l), NEW w \in Nat, w < Offset(l, Len(l) + 1)
    PROVE  \E k \in 1 .. Len(l) : Offset(l, k) <= w /\ w < Offset(l, k) + l[k].length
  <1> DEFINE S == {n \in Nat : n \in 1 .. Len(l) + 1 /\ w < Offset(l, n)}
  <1>1. Len(l) \in Nat /\ Len(l) + 1 \in S
    OBVIOUS
  <1>2. PICK n \in S : \A x \in S : n <= x
    BY <1>1, LeastNumber
  <1>3. n # 1 /\ n \in 1 .. Len(l) + 1
    BY <1>1, <1>2, OffsetStep
  <1>4. n - 1 \in 1 .. Len(l) /\ n - 1 \in 1 .. Len(l) + 1 /\ n - 1 <= Len(l) /\ (n - 1) + 1 = n
    BY <1>1, <1>3
  <1>5. Offset(l, n) = Offset(l, n - 1) + l[n - 1].length /\ Offset(l, n - 1) \in Nat
    BY <1>4, OffsetStep
  <1>6. n - 1 \notin S
    BY <1>2, <1>4
  <1>7. ~ (w < Offset(l, n - 1)) /\ w < Offset(l, n)
    BY <1>2, <1>4, <1>6
  <1> QED  BY <1>4, <1>5, <1>7

(* Two lists with the same pages, such as one before and after dma_map_sg. *)
LEMMA SamePages ==
    ASSUME NEW l \in Seq(Chunk), NEW m \in Seq(Chunk), Separate(l), Len(m) = Len(l),
           \A k \in 1 .. Len(l) : m[k].page = l[k].page /\ m[k].length = l[k].length
    PROVE  Separate(m) /\ \A k \in 1 .. Len(l) + 1 : Offset(m, k) = Offset(l, k)
  <1>1. \A k \in 1 .. Len(l) : Span(m, k) = Span(l, k)
    BY DEF Span
  <1>2. Separate(m)
    BY <1>1 DEF Separate
  <1>3. ASSUME NEW k \in 1 .. Len(l) + 1 PROVE Offset(m, k) = Offset(l, k)
    <2>1. \A j \in 1 .. k - 1 : j \in 1 .. Len(l)
      OBVIOUS
    <2> HIDE DEF Span
    <2>2. {Span(m, j) : j \in 1 .. k - 1} = {Span(l, j) : j \in 1 .. k - 1}
      BY <1>1, <2>1
    <2> QED  BY <2>2 DEF Offset
  <1> QED  BY <1>2, <1>3

(* A list and a permutation of it. *)
LEMMA PermutedPages ==
    ASSUME NEW l \in Seq(Chunk), NEW m \in Seq(Chunk), Separate(l), Len(m) = Len(l),
           NEW p \in Bijection(1 .. Len(l), 1 .. Len(l)), \A k \in 1 .. Len(l) : m[k] = l[p[k]]
    PROVE  /\ Separate(m) /\ Offset(m, Len(l) + 1) = Offset(l, Len(l) + 1)
           /\ UNION {Span(m, k) : k \in 1 .. Len(l)} = UNION {Span(l, k) : k \in 1 .. Len(l)}
  <1>1. /\ \A k \in 1 .. Len(l) : p[k] \in 1 .. Len(l)
        /\ \A j, k \in 1 .. Len(l) : j # k => p[j] # p[k]
        /\ \A k \in 1 .. Len(l) : \E j \in 1 .. Len(l) : p[j] = k
    BY DEF Bijection, Injection, Surjection, IsInjective
  <1>2. \A k \in 1 .. Len(l) : Span(m, k) = Span(l, p[k])
    BY DEF Span
  <1> HIDE DEF Span
  <1>3. Separate(m)
    <2>1. ASSUME NEW k \in 1 .. Len(l) PROVE m[k].length # 0 /\ Span(m, k) \subseteq Pages
      <3>1. p[k] \in 1 .. Len(l) /\ m[k] = l[p[k]] /\ Span(m, k) = Span(l, p[k])
        BY <1>1, <1>2
      <3> QED  BY <3>1 DEF Separate
    <2>2. ASSUME NEW j \in 1 .. Len(l), NEW k \in 1 .. Len(l), j # k
          PROVE  Span(m, j) \cap Span(m, k) = {}
      <3>1. p[j] \in 1 .. Len(l) /\ p[k] \in 1 .. Len(l) /\ p[j] # p[k]
        BY <1>1, <2>2
      <3>2. Span(l, p[j]) \cap Span(l, p[k]) = {}
        BY <3>1 DEF Separate
      <3> QED  BY <1>2, <3>2
    <2> QED  BY <2>1, <2>2 DEF Separate
  <1>4. {Span(m, k) : k \in 1 .. Len(l)} = {Span(l, k) : k \in 1 .. Len(l)}
    <2>1. ASSUME NEW x \in {Span(m, k) : k \in 1 .. Len(l)} PROVE x \in {Span(l, k) : k \in 1 .. Len(l)}
      BY <1>1, <1>2
    <2>2. ASSUME NEW k \in 1 .. Len(l) PROVE Span(l, k) \in {Span(m, j) : j \in 1 .. Len(l)}
      <3>1. PICK j \in 1 .. Len(l) : p[j] = k
        BY <1>1
      <3>2. Span(m, j) = Span(l, k)
        BY <1>2, <3>1
      <3> QED  BY <3>2
    <2> QED  BY <2>1, <2>2
  <1>5. (Len(l) + 1) - 1 = Len(l)
    OBVIOUS
  <1>6. Offset(m, Len(l) + 1) = Offset(l, Len(l) + 1)
    BY <1>4, <1>5 DEF Offset
  <1> QED  BY <1>3, <1>4, <1>6

(* An entry of pages that are not in the list yet is added. *)
Extended(m, l, e) ==
    /\ m \in Seq(Chunk) /\ Len(m) = Len(l) + 1 /\ Separate(m)
    /\ Offset(m, Len(m) + 1) = Offset(l, Len(l) + 1) + e.length
    /\ \A k \in 1 .. Len(l) : m[k] = l[k]
    /\ m[Len(l) + 1] = e
    /\ UNION {Span(m, k) : k \in 1 .. Len(m)} =
          (UNION {Span(l, k) : k \in 1 .. Len(l)}) \cup Block(e.page, e.length)

LEMMA AppendedPages ==
    ASSUME NEW l \in Seq(Chunk), Separate(l), NEW e \in Chunk, e.length # 0,
           Block(e.page, e.length) \subseteq Pages \ UNION {Span(l, k) : k \in 1 .. Len(l)}
    PROVE  Extended(Append(l, e), l, e)
  <1> DEFINE m == Append(l, e)
             n == Len(l)
  <1>1. m \in Seq(Chunk) /\ n \in Nat /\ Len(m) = n + 1 /\ m[n + 1] = e /\ \A k \in 1 .. n : m[k] = l[k]
    OBVIOUS
  <1> HIDE DEF m
  <1>2. Span(m, n + 1) = Block(e.page, e.length) /\ \A k \in 1 .. n : Span(m, k) = Span(l, k)
    BY <1>1 DEF Span
  <1> HIDE DEF Span
  <1>3. \A k : k \in 1 .. n + 1 <=> (k \in 1 .. n \/ k = n + 1)
    BY <1>1
  <1>4. Separate(m)
    <2>1. \A k \in 1 .. n + 1 : m[k].length # 0 /\ Span(m, k) \subseteq Pages
      BY <1>1, <1>2, <1>3 DEF Separate
    <2>2. \A k \in 1 .. n : Span(m, k) \cap Span(m, n + 1) = {}
      BY <1>2
    <2>3. \A j, k \in 1 .. n : j # k => Span(m, j) \cap Span(m, k) = {}
      BY <1>2 DEF Separate
    <2> QED  BY <1>1, <1>3, <2>1, <2>2, <2>3 DEF Separate
  <1>5. \A k \in 1 .. (n + 1) - 1 : k \in 1 .. n
    BY <1>1
  <1>6. (n + 1) - 1 = n
    BY <1>1
  <1>7. {Span(m, k) : k \in 1 .. n} = {Span(l, k) : k \in 1 .. n}
    BY <1>2
  <1>8. Offset(m, n + 1) = Offset(l, n + 1)
    BY <1>6, <1>7 DEF Offset
  <1>9. n + 1 \in 1 .. Len(m) + 1 /\ n + 1 <= Len(m)
    BY <1>1
  <1>10. Offset(m, (n + 1) + 1) = Offset(m, n + 1) + m[n + 1].length
    BY <1>1, <1>4, <1>9, OffsetStep
  <1>11. UNION {Span(m, k) : k \in 1 .. n + 1} =
            (UNION {Span(l, k) : k \in 1 .. n}) \cup Block(e.page, e.length)
    <2>1. UNION {Span(m, k) : k \in 1 .. n + 1} =
             (UNION {Span(m, k) : k \in 1 .. n}) \cup Span(m, n + 1)
      BY <1>3
    <2> QED  BY <1>2, <1>7, <2>1
  <1> QED  BY <1>1, <1>4, <1>8, <1>10, <1>11 DEF m, Extended

(* In a list of single pages the offset is the index. *)
LEMMA SinglePages ==
    ASSUME NEW l \in Seq(Chunk), Separate(l), \A k \in 1 .. Len(l) : l[k].length = 1
    PROVE  \A k \in 1 .. Len(l) + 1 : Offset(l, k) = k - 1
  <1> DEFINE S == {n \in Nat : n <= Len(l) => Offset(l, n + 1) = n}
  <1>0. Len(l) \in Nat
    OBVIOUS
  <1>1. 0 \in S
    BY <1>0, OffsetStep
  <1>2. ASSUME NEW n \in Nat, n \in S PROVE n + 1 \in S
    <2> SUFFICES ASSUME n + 1 <= Len(l) PROVE Offset(l, (n + 1) + 1) = n + 1
      OBVIOUS
    <2>1. n + 1 \in 1 .. Len(l) /\ n + 1 \in 1 .. Len(l) + 1
      BY <1>0
    <2> QED  BY <1>2, <2>1, OffsetStep
  <1> HIDE DEF S
  <1>3. Nat \subseteq S
    BY <1>1, <1>2, Induction
  <1>4. \A k \in 1 .. Len(l) + 1 : k - 1 \in Nat /\ k - 1 <= Len(l) /\ (k - 1) + 1 = k
    BY <1>0
  <1> QED  BY <1>3, <1>4 DEF S

-----------------------------------------------------------------------------
(* dma_map_sg without merging *)

(* Every entry is a segment of its own. *)
LEMMA OwnSegments ==
    ASSUME MaxMerge = 1, length \in Nat \ {0}, NEW s \in Segmentations
    PROVE  \A k \in 1 .. length : s[k] = k
  <1>1. /\ s \in [1 .. length -> 1 .. length] /\ s[1] = 1
        /\ \A k \in 1 .. length - 1 : s[k + 1] \in {s[k], s[k] + 1}
        /\ \A k \in 1 .. length : Cardinality({j \in 1 .. length : s[j] = s[k]}) <= 1
    BY DEF Segmentations
  <1>2. ASSUME NEW k \in 1 .. length - 1 PROVE s[k + 1] # s[k]
    <2> SUFFICES ASSUME s[k + 1] = s[k] PROVE FALSE
      OBVIOUS
    <2> DEFINE T == {j \in 1 .. length : s[j] = s[k]}
    <2>1. k \in 1 .. length /\ k + 1 \in 1 .. length /\ k # k + 1
      OBVIOUS
    <2>2. IsFiniteSet(T)
      <3>1. IsFiniteSet(1 .. length) /\ T \subseteq 1 .. length
        BY FS_Interval
      <3> QED  BY <3>1, FS_Subset
    <2>3. {k, k + 1} \subseteq T
      BY <2>1
    <2>4. IsFiniteSet({k}) /\ Cardinality({k}) = 1
      BY FS_Singleton
    <2>5. Cardinality({k} \cup {k + 1}) = 2
      BY <2>1, <2>4, FS_AddElement
    <2>6. {k} \cup {k + 1} \subseteq T
      BY <2>3
    <2> HIDE DEF T
    <2>7. Cardinality({k} \cup {k + 1}) <= Cardinality(T)
      BY <2>2, <2>6, FS_Subset
    <2>8. Cardinality(T) <= 1
      BY <1>1, <2>1 DEF T
    <2>9. Cardinality(T) \in Nat
      BY <2>2, FS_CardinalityType
    <2> QED  BY <2>5, <2>7, <2>8, <2>9
  <1> DEFINE S == {k \in Nat : k + 1 <= length => s[k + 1] = k + 1}
  <1>3. 0 \in S
    BY <1>1
  <1>4. ASSUME NEW k \in Nat, k \in S PROVE k + 1 \in S
    <2> SUFFICES ASSUME (k + 1) + 1 <= length PROVE s[(k + 1) + 1] = (k + 1) + 1
      OBVIOUS
    <2>1. k + 1 \in 1 .. length - 1 /\ s[k + 1] = k + 1
      BY <1>4
    <2> QED  BY <1>1, <1>2, <2>1
  <1> HIDE DEF S
  <1>5. Nat \subseteq S
    BY <1>3, <1>4, Induction
  <1>6. \A k \in 1 .. length : k - 1 \in Nat /\ (k - 1) + 1 = k /\ k <= length
    OBVIOUS
  <1> QED  BY <1>5, <1>6 DEF S

(* So nothing of the segment lies before the entry, and it is as long. *)
LEMMA OwnBefore ==
    ASSUME length \in Nat \ {0}, NEW s, \A k \in 1 .. length : s[k] = k, NEW k \in 1 .. length
    PROVE  Before(s, k) = 0
  <1> DEFINE g(f, j) == IF j = 0 THEN 0 ELSE f[j - 1] + (IF s[j] = s[k] THEN sg[j].length ELSE 0)
             sum == CHOOSE f : f = [j \in 0 .. k - 1 |-> g(f, j)]
             zero == [j \in 0 .. k - 1 |-> 0]
  <1>1. \A j \in 1 .. k - 1 : s[j] # s[k]
    OBVIOUS
  <1>2. zero = [j \in 0 .. k - 1 |-> g(zero, j)]
    <2>1. \A j \in 0 .. k - 1 : g(zero, j) = 0
      <3> TAKE j \in 0 .. k - 1
      <3>1. j # 0 => j \in 1 .. k - 1 /\ j - 1 \in 0 .. k - 1
        OBVIOUS
      <3> QED  BY <1>1, <3>1
    <2> QED  BY <2>1
  <1>3. sum = [j \in 0 .. k - 1 |-> g(sum, j)]
    BY <1>2
  <1> HIDE DEF sum
  <1> DEFINE S == {j \in Nat : j <= k - 1 => sum[j] = 0}
  <1>4. 0 \in S
    BY <1>3
  <1>5. ASSUME NEW j \in Nat, j \in S PROVE j + 1 \in S
    <2> SUFFICES ASSUME j + 1 <= k - 1 PROVE sum[j + 1] = 0
      OBVIOUS
    <2>1. j + 1 \in 1 .. k - 1 /\ j + 1 \in 0 .. k - 1 /\ j + 1 # 0 /\ (j + 1) - 1 = j /\ sum[j] = 0
      BY <1>5
    <2> QED  BY <1>1, <1>3, <2>1
  <1> HIDE DEF S
  <1>6. k - 1 \in Nat /\ k - 1 \in S
    <2>1. Nat \subseteq S
      BY <1>4, <1>5, Induction
    <2> QED  BY <2>1
  <1>7. sum[k - 1] = 0
    BY <1>6 DEF S
  <1> QED  BY <1>7 DEF sum, Before

LEMMA OwnLength ==
    ASSUME length \in Nat \ {0}, NEW s, \A k \in 1 .. length : s[k] = k, NEW k \in 1 .. length,
           sg[k].length \in Nat
    PROVE  SegmentLength(s, k) = sg[k].length
  <1> DEFINE last == CHOOSE j \in 1 .. length : s[j] = k /\ (j < length => s[j + 1] # k)
  <1>1. k < length => k + 1 \in 1 .. length /\ k + 1 # k
    OBVIOUS
  <1>2. s[k] = k /\ (k < length => s[k + 1] # k)
    BY <1>1
  <1>3. last \in 1 .. length /\ s[last] = k
    BY <1>2
  <1>4. last = k
    BY <1>3
  <1>5. SegmentLength(s, k) = Before(s, last) + sg[last].length
    BY DEF SegmentLength
  <1> HIDE DEF last
  <1> QED  BY <1>4, <1>5, OwnBefore

(***************************************************************************)
(* Then the list has the same pages as before, with addresses at which the *)
(* device reaches them.                                                    *)
(***************************************************************************)
LEMMA DeviceReaches ==
    ASSUME MaxMerge = 1, length \in Nat \ {0}, sg \in Seq(Chunk), Len(sg) = length, Separate(sg),
           iommu \in BOOLEAN, \A x \in DOMAIN bus : bus[x] \in Pages,
           ~iommu => bus = [p \in Pages |-> p],
           NEW s \in Segmentations, NEW at \in Placements(s), dma_map_sg(s, at)
    PROVE  /\ s[length] = length
           /\ sg' \in Seq(Chunk) /\ Len(sg') = length
           /\ \A k \in 1 .. length :
                 /\ sg'[k].page = sg[k].page /\ sg'[k].length = sg[k].length
                 /\ sg'[k].dma_len = sg[k].length
                 /\ \A o \in 0 .. sg[k].length - 1 :
                       /\ sg'[k].dma + o \in DOMAIN bus'
                       /\ bus'[sg'[k].dma + o] = sg[k].page + o
           /\ \A x \in DOMAIN bus' : bus'[x] \in Pages
           /\ ~iommu => bus' = bus
  <1>1. /\ \A k \in 1 .. length : s[k] = k
        /\ s[length] = length
    BY OwnSegments
  <1>2. \A k \in 1 .. length :
            /\ sg[k] \in Chunk /\ sg[k].page \in Nat /\ sg[k].length \in Nat /\ sg[k].length # 0
            /\ Before(s, k) = 0 /\ SegmentLength(s, k) = sg[k].length
    BY <1>1, ChunkFields, OwnBefore, OwnLength DEF Separate
  <1>3. /\ \A k \in 1 .. length : at[k] \in Nat
        /\ ~iommu => \A k \in 1 .. length : at[k] = sg[k].page
    <2>1. NBus \in Nat
      BY MemoryAssumption
    <2>2. CASE iommu
      <3>1. at \in [1 .. length -> 0 .. NBus - 1]
        BY <1>1, <2>2 DEF Placements
      <3> QED  BY <2>1, <2>2, <3>1
    <2>3. CASE ~iommu
      BY <1>2, <2>3 DEF Placements
    <2> QED  BY <2>2, <2>3
  <1>4. sg' = [k \in 1 .. length |-> [sg[k] EXCEPT !.dma = at[k], !.dma_len = sg[k].length]]
    <2>1. sg' = [k \in 1 .. length |->
                    IF k <= s[length]
                    THEN [sg[k] EXCEPT !.dma = at[k], !.dma_len = SegmentLength(s, k)]
                    ELSE sg[k]]
      BY DEF dma_map_sg
    <2>2. \A k \in 1 .. length : k <= s[length]
      BY <1>1
    <2> QED  BY <1>2, <2>1, <2>2
  <1>5. \A k \in 1 .. length :
            /\ sg'[k] = [sg[k] EXCEPT !.dma = at[k], !.dma_len = sg[k].length]
            /\ sg'[k] \in Chunk
            /\ sg'[k].page = sg[k].page /\ sg'[k].length = sg[k].length
            /\ sg'[k].dma = at[k] /\ sg'[k].dma_len = sg[k].length
    <2> TAKE k \in 1 .. length
    <2>1. sg'[k] = [sg[k] EXCEPT !.dma = at[k], !.dma_len = sg[k].length]
      BY <1>4
    <2> QED  BY <1>2, <1>3, <2>1 DEF Chunk
  <1>6. sg' \in Seq(Chunk) /\ Len(sg') = length
    <2>1. sg' \in [1 .. length -> Chunk]
      BY <1>4, <1>5
    <2> QED  BY <2>1
  <1>9. ASSUME NEW k \in 1 .. length, NEW o \in 0 .. sg[k].length - 1
        PROVE  sg[k].page + o \in Pages
    <2>1. sg[k].page + o \in Span(sg, k)
      BY <1>2, <1>9 DEF Span, Block
    <2> QED  BY <2>1 DEF Separate
  <1>7. CASE ~iommu
    <2>1. bus' = bus /\ bus = [p \in Pages |-> p]
      BY <1>7 DEF dma_map_sg
    <2>2. ASSUME NEW k \in 1 .. length, NEW o \in 0 .. sg[k].length - 1
          PROVE  sg'[k].dma + o \in DOMAIN bus' /\ bus'[sg'[k].dma + o] = sg[k].page + o
      BY <1>3, <1>5, <1>7, <1>9, <2>1
    <2> QED  BY <1>1, <1>5, <1>6, <2>1, <2>2
  <1>8. CASE iommu
    <2> DEFINE e(k) == Block(at[s[k]] + Before(s, k), sg[k].length)
               m == UNION {e(k) : k \in 1 .. length}
               t(x) == LET k == CHOOSE k \in 1 .. length : x \in e(k)
                       IN  sg[k].page + (x - at[s[k]] - Before(s, k))
    <2>1. bus' = [x \in DOMAIN bus \cup m |-> IF x \in m THEN t(x) ELSE bus[x]]
      BY <1>8 DEF dma_map_sg
    <2>2. \A i, j \in 1 .. length : i # j => Block(at[i], sg[i].length) \cap Block(at[j], sg[j].length) = {}
      <3>1. \A i, j \in 1 .. s[length] :
                i # j => Block(at[i], SegmentLength(s, i)) \cap Block(at[j], SegmentLength(s, j)) = {}
        BY <1>8 DEF dma_map_sg
      <3> TAKE i, j \in 1 .. length
      <3>2. SegmentLength(s, i) = sg[i].length /\ SegmentLength(s, j) = sg[j].length
        BY <1>2
      <3>3. i \in 1 .. s[length] /\ j \in 1 .. s[length]
        BY <1>1
      <3>4. i # j => Block(at[i], SegmentLength(s, i)) \cap Block(at[j], SegmentLength(s, j)) = {}
        BY <3>1, <3>3, Zenon
      <3> QED  BY <3>2, <3>4, Zenon
    <2>3. \A k \in 1 .. length : e(k) = Block(at[k], sg[k].length)
      BY <1>1, <1>2, <1>3
    <2>4. ASSUME NEW k \in 1 .. length, NEW o \in 0 .. sg[k].length - 1
          PROVE  /\ at[k] + o \in m
                 /\ t(at[k] + o) = sg[k].page + o /\ sg[k].page + o \in Pages
      <3>1. at[k] + o \in Block(at[k], sg[k].length)
        BY <1>2, <1>3, <2>4 DEF Block
      <3>2. at[k] + o \in e(k)
        BY <2>3, <3>1
      <3>3. \A j \in 1 .. length : at[k] + o \in e(j) => j = k
        BY <2>2, <2>3, <3>2
      <3> DEFINE c == CHOOSE j \in 1 .. length : at[k] + o \in e(j)
      <3>4. c = k
        BY <3>2, <3>3
      <3>5. t(at[k] + o) = sg[c].page + ((at[k] + o) - at[s[c]] - Before(s, c))
        OBVIOUS
      <3> HIDE DEF c
      <3>6. t(at[k] + o) = sg[k].page + ((at[k] + o) - at[k] - 0)
        BY <1>1, <1>2, <3>4, <3>5
      <3> HIDE DEF t, e
      <3>7. t(at[k] + o) = sg[k].page + o
        BY <1>2, <1>3, <2>4, <3>6
      <3>8. sg[k].page + o \in Pages
        BY <1>9
      <3>9. at[k] + o \in m
        BY <3>2
      <3> QED  BY <3>7, <3>8, <3>9
    <2>5. ASSUME NEW x \in m
          PROVE  \E k \in 1 .. length : \E o \in 0 .. sg[k].length - 1 : x = at[k] + o
      <3>1. PICK k \in 1 .. length : x \in Block(at[k], sg[k].length)
        BY <2>3
      <3>2. x - at[k] \in 0 .. sg[k].length - 1 /\ x = at[k] + (x - at[k])
        BY <1>2, <1>3, <3>1 DEF Block
      <3> QED  BY <3>2
    <2> HIDE DEF t, m, e
    <2>6. \A x \in DOMAIN bus' : bus'[x] \in Pages
      BY <2>1, <2>4, <2>5
    <2>7. ASSUME NEW k \in 1 .. length, NEW o \in 0 .. sg[k].length - 1
          PROVE  at[k] + o \in DOMAIN bus' /\ bus'[at[k] + o] = sg[k].page + o
      BY <2>1, <2>4
    <2>8. ASSUME NEW k \in 1 .. length, NEW o \in 0 .. sg[k].length - 1
          PROVE  sg'[k].dma + o \in DOMAIN bus' /\ bus'[sg'[k].dma + o] = sg[k].page + o
      <3>1. sg'[k].dma = at[k]
        BY <1>5
      <3>2. at[k] + o \in DOMAIN bus' /\ bus'[at[k] + o] = sg[k].page + o
        BY <2>7
      <3> QED  BY <3>1, <3>2
    <2> QED  BY <1>1, <1>5, <1>6, <1>8, <2>6, <2>8
  <1> QED  BY <1>7, <1>8

-----------------------------------------------------------------------------
(***************************************************************************)
(* The pages.  From here on dma_map_sg merges nothing (MaxMerge = 1), as   *)
(* the driver assumes.  The pages of the buffer, those among them that the *)
(* driver has allocated, and the entry from which on a loop that frees     *)
(* them has still to go.                                                   *)
(***************************************************************************)
Count == size \div PAGE_SIZE
Own   == held \ lost.pages
From  == IF pc \in {"undo", "free"} THEN cursor ELSE 1

TypeInv ==
    /\ iommu \in BOOLEAN
    /\ \A x \in DOMAIN bus : bus[x] \in Pages
    /\ sg \in Seq(Chunk) /\ scatter \in Seq([page_link : Pages, length : Nat, dma : Nat])
    /\ kind \in {"kernel", "user"} /\ page_list \in Seq(Pages) /\ pinned \subseteq Pages
    /\ size \in Nat /\ length \in Nat /\ old_length \in Nat /\ left \in Nat
    /\ order \in Nat /\ request \in Nat /\ cursor \in Nat \ {0}
    /\ vma \in Seq(Pages) /\ wrap \in {"no", "double", "single"}
    /\ pc \in {"idle", "chunks", "sort", "ready", "map", "undo", "free"}
    /\ held \subseteq Pages /\ reserved = held
    /\ lost \in [pages : SUBSET Pages, refs : SUBSET Pages] /\ lost.pages \subseteq held

(* Of allocated memory the driver holds the blocks that it has not freed yet. *)
KernelOK ==
    kind = "kernel" =>
        /\ length = Len(sg) /\ pinned = {}
        /\ \A k \in 1 .. Len(sg) : \E x \in 0 .. sg[k].length : sg[k].length = Pow2[x]
        /\ Own = UNION {Span(sg, k) : k \in From .. Len(sg)}
        /\ pc \in {"undo", "free"} => cursor <= length + 1

(* Of registered memory it has a reference of each page that it has not put back yet. *)
UserOK ==
    kind = "user" =>
        /\ Own = {}
        /\ \A j, k \in 1 .. Len(page_list) : page_list[j] = page_list[k] => j = k
        /\ pc # "undo" =>
              /\ pinned = {page_list[k] : k \in From .. Len(page_list)}
              /\ Len(page_list) = Count /\ length = Count /\ Len(sg) = Count
              /\ \A k \in 1 .. Len(sg) : sg[k].page = page_list[k] /\ sg[k].length = 1
              /\ pc = "free" => cursor <= Count + 1

IdleOK ==
    pc = "idle" => kind = "kernel" /\ sg = <<>> /\ left = 0 /\ vma = <<>>

(* The entries cover the buffer, except for the pages that are still to be allocated. *)
SizeOK ==
    /\ pc \in {"chunks", "sort", "ready", "map", "free"} => Count # 0 /\ size = Count * PAGE_SIZE
    /\ pc = "chunks" => Offset(sg, Len(sg) + 1) + left = Count
    /\ pc \in {"sort", "ready", "map"} => left = 0 /\ Offset(sg, Len(sg) + 1) = Count

(* The device reaches each page of an entry at the address that the entry shows. *)
DeviceOK ==
    /\ ~iommu => bus = [p \in Pages |-> p]
    /\ pc \in {"sort", "ready", "map"} =>
          \A k \in 1 .. Len(sg) :
              /\ sg[k].dma_len = sg[k].length
              /\ \A o \in 0 .. sg[k].length - 1 :
                    sg[k].dma + o \in DOMAIN bus /\ bus[sg[k].dma + o] = sg[k].page + o

(* What of the buffer is mapped shows it in the order of the list. *)
Shown ==
    \A u \in 1 .. Len(vma) : \A k \in 1 .. Len(sg) : \A o \in 0 .. sg[k].length - 1 :
        u \in {Offset(sg, k) + o + 1, Count + Offset(sg, k) + o + 1} => vma[u] = sg[k].page + o

(* The loop has passed the list h times, and the entries before cursor once more. *)
Passed(h) ==
    /\ Len(vma) = h * Count + Offset(sg, cursor)
    /\ h * size <= request
    /\ h * size = request => cursor = 1
    /\ kind = "user" => h # 0

MapOK ==
    /\ pc \in {"chunks", "sort"} => vma = IF kind = "user" THEN page_list ELSE <<>>
    /\ pc \in {"chunks", "sort", "ready"} /\ vma # <<>> =>
          Len(vma) \in {Count, 2 * Count} /\ Len(vma) * PAGE_SIZE = request
    /\ pc \in {"ready", "map"} => Shown
    /\ pc = "map" => /\ cursor \in 1 .. Len(sg)
                     /\ request \in {size, 2 * size} /\ (kind = "user" => request = 2 * size)
                     /\ \E h \in 0 .. 2 : Passed(h)

IInv ==
    /\ TypeInv /\ AddressInv
    /\ Separate(sg) /\ KernelOK /\ UserOK /\ IdleOK /\ SizeOK /\ DeviceOK /\ MapOK

-----------------------------------------------------------------------------
(* The steps *)

LEMMA Multiples ==
    /\ \A n \in Nat : n * PAGE_SIZE \in Nat /\ (n * PAGE_SIZE) \div PAGE_SIZE = n
    /\ \A m, n \in Nat : m * PAGE_SIZE = n * PAGE_SIZE => m = n
    /\ \A m, n \in Nat : m < n => m * PAGE_SIZE < n * PAGE_SIZE
  <1>1. PAGE_SIZE \in Nat \ {0}
    BY MemoryAssumption
  <1>2. \A n \in Nat : n * PAGE_SIZE \in Nat /\ (n * PAGE_SIZE) \div PAGE_SIZE = n
    BY <1>1
  <1>3. \A m, n \in Nat : m < n => m * PAGE_SIZE < n * PAGE_SIZE
    BY <1>1
  <1>4. \A m, n \in Nat : m * PAGE_SIZE = n * PAGE_SIZE => m = n
    BY <1>2
  <1> QED  BY <1>2, <1>3, <1>4

LEMMA CountNat == ASSUME size \in Nat PROVE Count \in Nat
  BY MemoryAssumption DEF Count

LEMMA EmptyList == Separate(<<>>) /\ Offset(<<>>, 1) = 0 /\ <<>> \in Seq(Chunk) /\ Len(<<>>) = 0
  <1>1. <<>> \in Seq(Chunk) /\ Len(<<>>) = 0
    OBVIOUS
  <1>2. Separate(<<>>)
    BY <1>1 DEF Separate
  <1>3. Offset(<<>>, 1) = 0
    <2>1. 1 \in 1 .. Len(<<>>) + 1
      BY <1>1
    <2> QED  BY <1>1, <1>2, <2>1, OffsetStep
  <1> QED  BY <1>1, <1>2, <1>3

LEMMA InitIInv == Init => IInv
  <1> SUFFICES ASSUME Init PROVE IInv
    OBVIOUS
  <1>1. TypeInv
    <2>1. \A x \in DOMAIN bus : bus[x] \in Pages
      BY DEF Init
    <2>2. <<>> \in Seq(Chunk) /\ <<>> \in Seq(Pages) /\ <<>> \in Seq([page_link : Pages, length : Nat, dma : Nat])
      BY EmptySeq
    <2> QED  BY <2>1, <2>2 DEF Init, TypeInv
  <1>2. Separate(sg)
    BY EmptyList DEF Init
  <1>3. KernelOK /\ UserOK /\ IdleOK
    BY EmptyList DEF Init, KernelOK, Own, UserOK, IdleOK, From
  <1>4. SizeOK /\ DeviceOK /\ MapOK
    BY DEF Init, SizeOK, DeviceOK, MapOK
  <1> QED  BY <1>1, <1>2, <1>3, <1>4, InitAddress DEF IInv

LEMMA AllocateStep == ASSUME IInv, allocate_kernel_memory PROVE IInv'
  <1> DEFINE idle == /\ kind = "kernel" /\ sg = <<>> /\ vma = <<>>
                     /\ Own = {} /\ pinned = {}
  <1>1. TypeInv /\ AddressInv /\ idle
    BY EmptyList DEF IInv, IdleOK, KernelOK, Own, From, allocate_kernel_memory
  <1>2. /\ left' \in Nat \ {0} /\ size' = left' * PAGE_SIZE /\ order' \in Nat
        /\ kind' = "kernel" /\ length' = 0 /\ pc' = "chunks"
        /\ UNCHANGED <<iommu, lost, bus, held, reserved, sg, old_length, scatter, userVars, cursor, mapVars>>
    <2>1. PICK n \in 1 .. MaxSize :
             /\ left'  = (n + PAGE_SIZE - 1) \div PAGE_SIZE
             /\ size'  = left' * PAGE_SIZE
             /\ order' = IF get_order(size') > MAX_ORDER THEN MAX_ORDER ELSE get_order(size')
      BY DEF allocate_kernel_memory
    <2>2. left' \in Nat \ {0}
      BY <2>1, RoundedUp
    <2>3. size' \in Nat
      BY <2>1, <2>2, Multiples
    <2>4. order' \in Nat
      BY <2>1, <2>3, GetOrder, MemoryAssumption
    <2> QED  BY <2>1, <2>2, <2>4 DEF allocate_kernel_memory
  <1>3. AddressInv'
    BY <1>1, AllocateAddress
  <1>4. Count' = left' /\ size' \in Nat
    BY <1>2, Multiples DEF Count
  <1>5. TypeInv'
    BY <1>1, <1>2, <1>4 DEF TypeInv, userVars, mapVars
  <1>6. Separate(sg)' /\ Offset(sg, Len(sg) + 1)' = 0
    BY <1>1, <1>2, EmptyList
  <1>7. KernelOK' /\ UserOK' /\ IdleOK'
    BY <1>1, <1>2, EmptyList DEF KernelOK, Own, UserOK, IdleOK, From, userVars, mapVars
  <1>8. SizeOK'
    BY <1>2, <1>4, <1>6 DEF SizeOK
  <1>9. DeviceOK' /\ MapOK'
    BY <1>1, <1>2 DEF IInv, DeviceOK, MapOK, mapVars
  <1> QED  BY <1>3, <1>5, <1>6, <1>7, <1>8, <1>9 DEF IInv

LEMMA AllocPagesStep == ASSUME IInv, alloc_pages PROVE IInv'
  <1>1. /\ TypeInv /\ AddressInv /\ Separate(sg) /\ KernelOK /\ UserOK /\ SizeOK /\ DeviceOK /\ MapOK
        /\ pc = "chunks" /\ left \in Nat \ {0} /\ kind = "kernel"
        /\ UNCHANGED <<iommu, lost, bus, kind, size, old_length, scatter, userVars, mapVars>>
    <2>1. pc = "chunks" /\ left \in Nat \ {0}
          /\ UNCHANGED <<iommu, lost, bus, kind, size, old_length, scatter, userVars, mapVars>>
      BY DEF IInv, TypeInv, alloc_pages
    <2>2. kind # "user"
      <3> SUFFICES ASSUME kind = "user" PROVE FALSE
        OBVIOUS
      <3>1. sg \in Seq(Chunk) /\ Separate(sg) /\ Len(sg) = Count /\ \A k \in 1 .. Len(sg) : sg[k].length = 1
        BY <2>1 DEF IInv, TypeInv, UserOK, Own
      <3>2. Len(sg) + 1 \in 1 .. Len(sg) + 1
        BY <3>1
      <3>3. Offset(sg, Len(sg) + 1) = Len(sg)
        BY <3>1, <3>2, SinglePages
      <3> QED  BY <2>1, <3>1, <3>3 DEF IInv, SizeOK
    <2> QED  BY <2>1, <2>2 DEF IInv, TypeInv
  <1>2. AddressInv'
    BY <1>1, AllocateAddress
  <1>3. Count' = Count
    BY <1>1 DEF Count
  <1>4. CASE Undo /\ UNCHANGED <<held, reserved, sg, length, left, order>>
    <2>1. TypeInv'
      BY <1>1, <1>4 DEF TypeInv, Undo, userVars, mapVars
    <2>2. KernelOK'
      <3>1. From = 1 /\ From' = 1
        BY <1>1, <1>4 DEF From, Undo
      <3>2. Len(sg) \in Nat
        BY <1>1 DEF TypeInv
      <3> QED  BY <1>1, <1>4, <3>1, <3>2 DEF KernelOK, Own, Undo, userVars
    <2>3. UserOK' /\ IdleOK' /\ SizeOK' /\ MapOK'
      BY <1>1, <1>4 DEF UserOK, Own, IdleOK, SizeOK, MapOK, Undo
    <2>4. Separate(sg)' /\ DeviceOK'
      BY <1>1, <1>4 DEF Undo, DeviceOK
    <2> QED  BY <1>2, <2>1, <2>2, <2>3, <2>4 DEF IInv
  <1>5. CASE ~ (Undo /\ UNCHANGED <<held, reserved, sg, length, left, order>>)
    <2> DEFINE o == FittingOrder
               b == Pow2[o]
    <2>1. PICK page \in Pages :
             /\ Block(page, b) \subseteq Pages \ (held \cup lost.refs)
             /\ held'     = held \cup Block(page, b)
             /\ reserved' = reserved \cup Block(page, b)
             /\ sg' = Append(sg, [page |-> page, length |-> b, dma |-> 0, dma_len |-> 0])
             /\ length' = length + 1
             /\ left'   = left - b
             /\ order'  = o
             /\ UNCHANGED <<cursor, pc>>
      BY <1>5 DEF alloc_pages
    <2>2. o \in Nat /\ b \in Nat \ {0} /\ b <= left /\ o < b
      BY <1>1, FittingOrderIs, Pow2Nat DEF TypeInv
    <2> DEFINE e == [page |-> page, length |-> b, dma |-> 0, dma_len |-> 0]
               all == UNION {Span(sg, k) : k \in 1 .. Len(sg)}
               n == Len(sg)
    <2>3. Own = all /\ pinned = {} /\ length = n /\ n \in Nat /\ sg \in Seq(Chunk)
      BY <1>1 DEF KernelOK, Own, From, TypeInv
    <2> HIDE DEF o, b
    <2>4. e \in Chunk /\ e.length # 0 /\ e.length = b /\ e.page = page
      BY <2>2 DEF Chunk
    <2> HIDE DEF e
    <2>5. Block(e.page, e.length) \subseteq Pages \ all
      BY <2>1, <2>3, <2>4 DEF Own
    <2>6. /\ sg' \in Seq(Chunk) /\ Len(sg') = n + 1 /\ Separate(sg')
          /\ Offset(sg', Len(sg') + 1) = Offset(sg, n + 1) + b
          /\ \A k \in 1 .. n : sg'[k] = sg[k]
          /\ sg'[n + 1] = e
          /\ UNION {Span(sg', k) : k \in 1 .. Len(sg')} = all \cup Block(page, b)
      <3>1. sg' = Append(sg, e)
        BY <2>1 DEF e
      <3>2. Extended(Append(sg, e), sg, e)
        <4>1. /\ sg \in Seq(Chunk) /\ Separate(sg) /\ e \in Chunk /\ e.length # 0
              /\ Block(e.page, e.length) \subseteq Pages \ UNION {Span(sg, k) : k \in 1 .. Len(sg)}
          BY <1>1, <2>3, <2>4, <2>5, Zenon
        <4> QED  BY <4>1, AppendedPages, Zenon
      <3>3. Extended(sg', sg, e)
        BY <3>1, <3>2
      <3> QED  BY <2>4, <3>3 DEF Extended
    <2>7. TypeInv'
      <3>1. length' \in Nat /\ left' \in Nat /\ order' \in Nat
        BY <1>1, <2>1, <2>2 DEF TypeInv
      <3>2. held' \subseteq Pages /\ reserved' = held' /\ lost'.pages \subseteq held'
        BY <1>1, <2>1 DEF TypeInv
      <3> QED  BY <1>1, <2>1, <2>6, <3>1, <3>2 DEF TypeInv, userVars, mapVars
    <2>8. KernelOK'
      <3>1. From' = 1
        BY <1>1, <2>1 DEF From
      <3>2. ASSUME NEW k \in 1 .. n + 1
            PROVE  \E x \in 0 .. sg'[k].length : sg'[k].length = Pow2[x]
        <4>1. CASE k = n + 1
          <5>1. sg'[k].length = b /\ b = Pow2[o] /\ o \in 0 .. b
            BY <2>2, <2>4, <2>6, <4>1 DEF b
          <5> QED  BY <5>1
        <4>2. CASE k # n + 1
          <5>1. k \in 1 .. n
            BY <2>3, <4>2
          <5> QED  BY <1>1, <2>6, <5>1 DEF KernelOK, Own
        <4> QED  BY <4>1, <4>2
      <3>3. Own' = UNION {Span(sg', k) : k \in From' .. Len(sg')}
        <4>1. Own' = Own \cup Block(page, b)
          <5>1. lost' = lost /\ lost.pages \subseteq held
            BY <1>1 DEF TypeInv
          <5> QED  BY <2>1, <5>1 DEF Own
        <4> QED  BY <2>3, <2>6, <3>1, <4>1
      <3>4. length' = Len(sg') /\ pinned' = {}
        BY <1>1, <2>1, <2>3, <2>6 DEF userVars
      <3>5. pc' = "chunks"
        BY <1>1, <2>1
      <3> QED  BY <2>6, <3>2, <3>3, <3>4, <3>5 DEF KernelOK, Own, Span, Block
    <2>9. SizeOK'
      <3>1. Offset(sg, n + 1) \in Nat /\ Offset(sg, n + 1) + left = Count /\ Count # 0
            /\ size = Count * PAGE_SIZE
        <4>1. n + 1 \in 1 .. Len(sg) + 1
          BY <2>3
        <4> QED  BY <1>1, <2>3, <4>1, OffsetStep DEF SizeOK
      <3>2. Offset(sg', Len(sg') + 1) + left' = Count
        BY <1>1, <2>1, <2>2, <2>6, <3>1
      <3> QED  BY <1>1, <1>3, <2>1, <3>1, <3>2 DEF SizeOK, Offset, Span, Block
    <2>10. UserOK' /\ IdleOK' /\ DeviceOK' /\ MapOK'
      BY <1>1, <2>1 DEF UserOK, Own, IdleOK, DeviceOK, MapOK, mapVars
    <2>11. Separate(sg)'
      BY <2>6
    <2> QED  BY <1>2, <2>7, <2>8, <2>9, <2>10, <2>11 DEF IInv
  <1> QED  BY <1>4, <1>5

LEMMA AllocateUserStep == ASSUME IInv, allocate_user_memory PROVE IInv'
  <1>1. /\ TypeInv /\ AddressInv /\ DeviceOK /\ pc = "idle" /\ left = 0
        /\ sg = <<>> /\ vma = <<>> /\ Own = {}
    BY EmptyList DEF IInv, IdleOK, KernelOK, Own, From, allocate_user_memory
  <1>2. PICK m \in 1 .. MaxUser :
           \E area \in Injection(1 .. (m + PAGE_SIZE - 1) \div PAGE_SIZE, Pages \ held) :
              LET n == (m + PAGE_SIZE - 1) \div PAGE_SIZE IN
              /\ size' = n * PAGE_SIZE /\ length' = n
              /\ \/ /\ page_list' = area
                    /\ sg' = [k \in 1 .. n |-> [page |-> area[k], length |-> 1, dma |-> 0, dma_len |-> 0]]
                    /\ vma' = area /\ request' = size'
                    /\ pc' = "chunks"
                 \/ /\ \E j \in 0 .. n : page_list' = SubSeq(area, 1, j) /\ LostBound(Range(page_list'))
                    /\ pc' = "undo"
                    /\ UNCHANGED <<sg, vma, request>>
              /\ pinned' = {page_list'[k] : k \in DOMAIN page_list'}
    BY DEF allocate_user_memory
  <1> DEFINE n == (m + PAGE_SIZE - 1) \div PAGE_SIZE
  <1>3. PICK area \in Injection(1 .. n, Pages \ held) :
              /\ size' = n * PAGE_SIZE /\ length' = n
              /\ \/ /\ page_list' = area
                    /\ sg' = [k \in 1 .. n |-> [page |-> area[k], length |-> 1, dma |-> 0, dma_len |-> 0]]
                    /\ vma' = area /\ request' = size'
                    /\ pc' = "chunks"
                 \/ /\ \E j \in 0 .. n : page_list' = SubSeq(area, 1, j) /\ LostBound(Range(page_list'))
                    /\ pc' = "undo"
                    /\ UNCHANGED <<sg, vma, request>>
              /\ pinned' = {page_list'[k] : k \in DOMAIN page_list'}
    BY <1>2
  <1>4. n \in Nat \ {0}
    BY RoundedUp
  <1> HIDE DEF n
  <1>5. /\ area \in Seq(Pages) /\ Len(area) = n
        /\ \A j, k \in 1 .. n : area[j] = area[k] => j = k
        /\ \A k \in 1 .. n : area[k] \in Pages
    <2>1. area \in [1 .. n -> Pages \ held] /\ \A j, k \in 1 .. n : area[j] = area[k] => j = k
      BY DEF Injection, IsInjective
    <2> QED  BY <1>4, <2>1
  <1>6. Count' = n /\ size' \in Nat
    BY <1>3, <1>4, Multiples DEF Count
  <1>7. /\ kind' = "user"
        /\ UNCHANGED <<iommu, lost, bus, held, reserved, old_length, scatter, left, order, cursor, wrap>>
    BY DEF allocate_user_memory
  <1>8. AddressInv'
    BY <1>1, AllocateAddress
  <1>9. CASE pc' = "chunks"
    <2>1. /\ page_list' = area /\ vma' = area /\ request' = size'
          /\ sg' = [k \in 1 .. n |-> [page |-> area[k], length |-> 1, dma |-> 0, dma_len |-> 0]]
          /\ pinned' = {area[k] : k \in DOMAIN area}
      BY <1>3, <1>9
    <2>2. \A k \in 1 .. n : sg'[k] \in Chunk /\ sg'[k].page = area[k] /\ sg'[k].length = 1
      BY <1>5, <2>1 DEF Chunk
    <2>3. sg' \in Seq(Chunk) /\ Len(sg') = n
      <3>1. sg' \in [1 .. n -> Chunk]
        BY <2>1, <2>2
      <3> QED  BY <1>4, <3>1
    <2>4. Separate(sg')
      <3>1. \A k \in 1 .. n : Span(sg', k) = {area[k]}
        <4> TAKE k \in 1 .. n
        <4>1. area[k] \in Int
          BY <1>5, MemoryAssumption DEF Pages
        <4> QED  BY <2>2, <4>1 DEF Span, Block
      <3> QED  BY <1>5, <2>2, <2>3, <3>1 DEF Separate
    <2>5. Offset(sg', Len(sg') + 1) = n
      <3>1. Len(sg') + 1 \in 1 .. Len(sg') + 1
        BY <1>4, <2>3
      <3>2. Offset(sg', Len(sg') + 1) = (Len(sg') + 1) - 1
        BY <2>2, <2>3, <2>4, <3>1, SinglePages
      <3> QED  BY <1>4, <2>3, <3>2
    <2>6. TypeInv'
      BY <1>1, <1>3, <1>4, <1>5, <1>6, <1>7, <1>9, <2>1, <2>3 DEF TypeInv
    <2>7. UserOK'
      <3>1. From' = 1 /\ DOMAIN area = 1 .. Len(page_list')
        BY <1>5, <1>9, <2>1 DEF From
      <3> QED  BY <1>1, <1>3, <1>5, <1>6, <1>7, <1>9, <2>1, <2>2, <2>3, <3>1 DEF UserOK, Own
    <2>8. SizeOK'
      BY <1>1, <1>3, <1>4, <1>6, <1>7, <1>9, <2>5 DEF SizeOK, Offset, Span, Block
    <2>9. KernelOK' /\ IdleOK' /\ DeviceOK' /\ MapOK'
      BY <1>1, <1>3, <1>5, <1>6, <1>7, <1>9, <2>1 DEF KernelOK, Own, IdleOK, DeviceOK, MapOK
    <2> QED  BY <1>8, <2>4, <2>6, <2>7, <2>8, <2>9 DEF IInv
  <1>10. CASE pc' = "undo"
    <2>1. (\E j \in 0 .. n : page_list' = SubSeq(area, 1, j)) /\ UNCHANGED <<sg, vma, request>>
      BY <1>3, <1>10
    <2>2. PICK j \in 0 .. n : page_list' = SubSeq(area, 1, j)
      BY <2>1
    <2>3. /\ page_list' \in Seq(Pages)
          /\ \A i, k \in 1 .. Len(page_list') : page_list'[i] = page_list'[k] => i = k
      BY <1>4, <1>5, <2>2
    <2>4. TypeInv'
      BY <1>1, <1>3, <1>4, <1>6, <1>7, <1>10, <2>1, <2>3 DEF TypeInv
    <2>5. Separate(sg)' /\ UserOK'
      BY <1>1, <1>7, <1>10, <2>1, <2>3, EmptyList DEF UserOK, Own
    <2>6. KernelOK' /\ IdleOK' /\ SizeOK' /\ DeviceOK' /\ MapOK'
      BY <1>1, <1>7, <1>10 DEF KernelOK, Own, IdleOK, SizeOK, DeviceOK, MapOK
    <2> QED  BY <1>8, <2>4, <2>5, <2>6 DEF IInv
  <1> QED  BY <1>3, <1>9, <1>10

(* The list that is exposed has the types of the file "sg". *)
LEMMA ConvertType ==
    ASSUME NEW l \in Seq(Chunk), length = Len(l)
    PROVE  convert_sg(l) \in Seq([page_link : Pages, length : Nat, dma : Nat])
  <1>1. \A k \in 1 .. length : l[k].page \in Pages /\ l[k].dma_len \in Nat /\ l[k].dma \in Nat
    BY ChunkFields
  <1>2. convert_sg(l) \in [1 .. length -> [page_link : Pages, length : Nat, dma : Nat]]
    BY <1>1 DEF convert_sg
  <1>3. \A R : \A n \in Nat : \A f \in [1 .. n -> R] : f \in Seq(R)
    OBVIOUS
  <1>4. length \in Nat
    OBVIOUS
  <1> QED  BY <1>2, <1>3, <1>4, Zenon

LEMMA ProgramStep == ASSUME MaxMerge = 1, IInv, program_iommu PROVE IInv'
  <1>1. /\ TypeInv /\ AddressInv /\ Separate(sg) /\ KernelOK /\ UserOK /\ SizeOK /\ DeviceOK /\ MapOK
        /\ pc = "chunks" /\ left = 0 /\ length = Len(sg) /\ length \in Nat \ {0} /\ From = 1
        /\ UNCHANGED <<iommu, lost, held, reserved, kind, size, scatter, userVars, left, order, mapVars>>
    BY DEF IInv, TypeInv, KernelOK, Own, UserOK, AddressInv, ListOK, From, program_iommu
  <1>2. AddressInv'
    BY <1>1, ProgramAddress
  <1>3. Count' = Count /\ Count \in Nat
    BY <1>1, CountNat DEF Count, TypeInv
  <1>4. CASE Undo /\ UNCHANGED <<bus, sg, length, old_length>>
    <2>1. TypeInv'
      BY <1>1, <1>4 DEF TypeInv, Undo, userVars, mapVars
    <2>2. KernelOK'
      <3>1. From' = 1
        BY <1>4 DEF From, Undo
      <3> QED  BY <1>1, <1>4, <3>1 DEF KernelOK, Own, Undo, userVars
    <2>3. UserOK' /\ IdleOK' /\ SizeOK' /\ MapOK'
      BY <1>1, <1>4 DEF UserOK, Own, IdleOK, SizeOK, MapOK, Undo, userVars
    <2>4. Separate(sg)' /\ DeviceOK'
      BY <1>1, <1>4 DEF Undo, DeviceOK
    <2> QED  BY <1>2, <2>1, <2>2, <2>3, <2>4 DEF IInv
  <1>5. CASE pc' = "sort"
    <2>1. PICK s \in Segmentations : \E at \in Placements(s) : dma_map_sg(s, at) /\ length' = s[length]
      BY <1>5 DEF program_iommu, Undo
    <2>2. PICK at \in Placements(s) : dma_map_sg(s, at) /\ length' = s[length]
      BY <2>1
    <2>3. old_length' = length /\ UNCHANGED cursor
      BY <1>5 DEF program_iommu, Undo
    <2>4. /\ iommu \in BOOLEAN /\ sg \in Seq(Chunk) /\ \A x \in DOMAIN bus : bus[x] \in Pages
          /\ ~iommu => bus = [p \in Pages |-> p]
      BY <1>1, Zenon DEF TypeInv, DeviceOK
    <2>5. /\ length' = length
          /\ sg' \in Seq(Chunk) /\ Len(sg') = length
          /\ \A k \in 1 .. length :
                /\ sg'[k].page = sg[k].page /\ sg'[k].length = sg[k].length
                /\ sg'[k].dma_len = sg[k].length
                /\ \A o \in 0 .. sg[k].length - 1 :
                      /\ sg'[k].dma + o \in DOMAIN bus'
                      /\ bus'[sg'[k].dma + o] = sg[k].page + o
          /\ \A x \in DOMAIN bus' : bus'[x] \in Pages
          /\ ~iommu => bus' = bus
      BY <1>1, <2>2, <2>4, DeviceReaches
    <2>6. Separate(sg') /\ \A k \in 1 .. length + 1 : Offset(sg', k) = Offset(sg, k)
      BY <1>1, <2>4, <2>5, SamePages
    <2>7. TypeInv'
      BY <1>1, <1>5, <2>3, <2>5 DEF TypeInv, userVars, mapVars
    <2>8. \A k \in 1 .. length : Span(sg', k) = Span(sg, k)
      BY <2>5 DEF Span
    <2>9. KernelOK'
      <3> SUFFICES ASSUME kind = "kernel" PROVE KernelOK'
        BY <1>1 DEF KernelOK, Own
      <3>1. From' = 1
        BY <1>5 DEF From
      <3>2. Own' = UNION {Span(sg', k) : k \in From' .. Len(sg')}
        <4>1. Own = UNION {Span(sg, k) : k \in 1 .. length} /\ Own' = Own
          BY <1>1 DEF KernelOK, Own
        <4>2. {Span(sg', k) : k \in 1 .. length} = {Span(sg, k) : k \in 1 .. length}
          BY <2>8
        <4> QED  BY <1>1, <2>5, <3>1, <4>1, <4>2
      <3>3. \A k \in 1 .. Len(sg') : \E x \in 0 .. sg'[k].length : sg'[k].length = Pow2[x]
        BY <1>1, <2>5 DEF KernelOK, Own
      <3>4. length' = Len(sg') /\ pinned' = {}
        BY <1>1, <2>5 DEF KernelOK, Own, userVars
      <3> QED  BY <1>5, <3>2, <3>3, <3>4 DEF KernelOK, Span, Block
    <2>10. UserOK'
      <3>1. From' = 1
        BY <1>5 DEF From
      <3> QED  BY <1>1, <1>3, <1>5, <2>5, <3>1 DEF UserOK, Own, userVars
    <2>11. SizeOK'
      <3>1. Offset(sg', Len(sg') + 1) = Offset(sg, Len(sg) + 1) /\ Offset(sg, Len(sg) + 1) \in Nat
        <4>1. length + 1 \in 1 .. Len(sg) + 1 /\ length + 1 \in 1 .. length + 1
          BY <1>1
        <4> QED  BY <1>1, <2>4, <2>5, <2>6, <4>1, OffsetStep
      <3>2. Offset(sg', Len(sg') + 1) = Count /\ Count # 0 /\ size = Count * PAGE_SIZE
        BY <1>1, <3>1 DEF SizeOK
      <3> QED  BY <1>1, <1>3, <1>5, <3>2 DEF SizeOK, Offset, Span, Block
    <2>12. DeviceOK'
      <3>1. ~iommu' => bus' = [p \in Pages |-> p]
        BY <1>1, <2>4, <2>5, Zenon
      <3> QED  BY <2>5, <3>1 DEF DeviceOK
    <2>13. IdleOK' /\ MapOK'
      BY <1>1, <1>3, <1>5 DEF IdleOK, MapOK, userVars, mapVars
    <2> QED  BY <1>2, <2>6, <2>7, <2>9, <2>10, <2>11, <2>12, <2>13 DEF IInv
  <1> QED  BY <1>4, <1>5 DEF program_iommu

LEMMA SortStep == ASSUME IInv, SortAndConvert PROVE IInv'
  <1>1. /\ TypeInv /\ AddressInv /\ Separate(sg) /\ KernelOK /\ SizeOK /\ DeviceOK /\ MapOK
        /\ pc = "sort" /\ kind = "kernel" /\ length = Len(sg) /\ From = 1
        /\ sg \in Seq(Chunk) /\ Len(sg) \in Nat /\ vma = <<>> /\ pinned = {}
        /\ UNCHANGED <<iommu, lost, bus, held, reserved, kind, size, length, old_length, userVars, left,
                       order, mapVars>>
    BY DEF IInv, TypeInv, KernelOK, Own, From, MapOK, SortAndConvert
  <1> DEFINE n == Len(sg)
  <1>2. PICK p \in Bijection(1 .. length, 1 .. length) :
           sg' = [k \in 1 .. Len(sg) |-> IF k <= length THEN sg[p[k]] ELSE sg[k]]
    BY DEF SortAndConvert, Sorted
  <1>3. \A k \in 1 .. n : p[k] \in 1 .. n
    BY <1>1, <1>2 DEF Bijection, Injection
  <1>4. sg' \in Seq(Chunk) /\ Len(sg') = n /\ \A k \in 1 .. n : sg'[k] = sg[p[k]]
    <2>1. sg' = [k \in 1 .. n |-> sg[p[k]]]
      BY <1>1, <1>2
    <2>2. sg' \in [1 .. n -> Chunk]
      BY <1>1, <1>3, <2>1
    <2> QED  BY <1>1, <2>1, <2>2
  <1>5. /\ Separate(sg') /\ Offset(sg', n + 1) = Offset(sg, n + 1)
        /\ UNION {Span(sg', k) : k \in 1 .. n} = UNION {Span(sg, k) : k \in 1 .. n}
    <2>1. p \in Bijection(1 .. Len(sg), 1 .. Len(sg))
      BY <1>1, <1>2
    <2> QED  BY <1>1, <1>4, <2>1, PermutedPages
  <1>6. AddressInv'
    BY <1>1, ConvertAddress
  <1>7. \/ scatter' = convert_sg(sg') /\ pc' = "ready" /\ UNCHANGED cursor
        \/ pc' = "undo" /\ cursor' = 1 /\ UNCHANGED scatter
    BY DEF SortAndConvert, Undo
  <1>8. TypeInv'
    <2>1. convert_sg(sg') \in Seq([page_link : Pages, length : Nat, dma : Nat])
      BY <1>1, <1>4, ConvertType
    <2>2. scatter' \in Seq([page_link : Pages, length : Nat, dma : Nat])
      BY <1>1, <1>7, <2>1 DEF TypeInv
    <2> QED  BY <1>1, <1>4, <1>7, <2>2 DEF TypeInv, userVars, mapVars
  <1>9. From' = 1
    BY <1>7 DEF From
  <1>10. KernelOK'
    <2>1. Own' = UNION {Span(sg', k) : k \in From' .. Len(sg')}
      <3>1. Own' = Own
        BY <1>1 DEF Own
      <3> QED  BY <1>1, <1>4, <1>5, <1>9, <3>1 DEF KernelOK
    <2>2. \A k \in 1 .. n : \E x \in 0 .. sg'[k].length : sg'[k].length = Pow2[x]
      BY <1>1, <1>3, <1>4 DEF KernelOK, Own
    <2>3. length' = Len(sg') /\ pinned' = {} /\ (pc' \in {"undo", "free"} => cursor' <= length' + 1)
      BY <1>1, <1>4, <1>7 DEF userVars
    <2> QED  BY <1>4, <2>1, <2>2, <2>3 DEF KernelOK, Span, Block
  <1>11. SizeOK'
    <2>1. Count' = Count
      BY <1>1 DEF Count
    <2>2. Offset(sg', Len(sg') + 1) = Count /\ left = 0 /\ Count # 0 /\ size = Count * PAGE_SIZE
      BY <1>1, <1>4, <1>5 DEF SizeOK
    <2> QED  BY <1>1, <1>7, <2>1, <2>2 DEF SizeOK, Offset, Span, Block
  <1>12. DeviceOK'
    <2>1. ~iommu' => bus' = [q \in Pages |-> q]
      BY <1>1, Zenon DEF DeviceOK
    <2>2. \A k \in 1 .. n :
              /\ sg[p[k]].dma_len = sg[p[k]].length
              /\ \A o \in 0 .. sg[p[k]].length - 1 :
                    sg[p[k]].dma + o \in DOMAIN bus /\ bus[sg[p[k]].dma + o] = sg[p[k]].page + o
      BY <1>1, <1>3 DEF DeviceOK
    <2> QED  BY <1>1, <1>4, <2>1, <2>2 DEF DeviceOK
  <1>13. UserOK' /\ IdleOK' /\ MapOK'
    BY <1>1, <1>7 DEF UserOK, Own, IdleOK, MapOK, Shown, mapVars
  <1> QED  BY <1>5, <1>6, <1>8, <1>10, <1>11, <1>12, <1>13 DEF IInv

(* The list of a registered buffer is in the order of the user's pages. *)
LEMMA ConvertStep == ASSUME IInv, Convert PROVE IInv'
  <1>1. /\ TypeInv /\ AddressInv /\ Separate(sg) /\ UserOK /\ SizeOK /\ DeviceOK /\ MapOK
        /\ pc = "sort" /\ kind = "user" /\ From = 1
        /\ length = Len(sg) /\ Len(sg) = Count /\ Len(page_list) = Count
        /\ sg \in Seq(Chunk) /\ Len(sg) \in Nat /\ vma = page_list
        /\ UNCHANGED <<iommu, lost, bus, held, reserved, kind, size, sg, length, old_length, userVars, left,
                       order, mapVars>>
    BY DEF IInv, TypeInv, UserOK, Own, From, MapOK, Convert
  <1>2. AddressInv'
    BY <1>1, ConvertAddress
  <1>3. \/ scatter' = convert_sg(sg) /\ pc' = "ready" /\ UNCHANGED cursor
        \/ pc' = "undo" /\ cursor' = 1 /\ UNCHANGED scatter
    BY DEF Convert, Undo
  <1>4. TypeInv'
    <2>1. convert_sg(sg) \in Seq([page_link : Pages, length : Nat, dma : Nat])
      BY <1>1, ConvertType
    <2>2. scatter' \in Seq([page_link : Pages, length : Nat, dma : Nat])
      BY <1>1, <1>3, <2>1 DEF TypeInv
    <2> QED  BY <1>1, <1>3, <2>2 DEF TypeInv, userVars, mapVars
  <1>5. Count' = Count /\ From' = 1
    BY <1>1, <1>3 DEF Count, From
  <1>6. UserOK'
    BY <1>1, <1>3, <1>5 DEF UserOK, Own, userVars
  <1>7. Shown
    <2> SUFFICES ASSUME NEW u \in 1 .. Len(vma), NEW k \in 1 .. Len(sg), NEW o \in 0 .. sg[k].length - 1,
                        u \in {Offset(sg, k) + o + 1, Count + Offset(sg, k) + o + 1}
                 PROVE  vma[u] = sg[k].page + o
      BY DEF Shown
    <2>1. \A j \in 1 .. Len(sg) : sg[j].length = 1 /\ sg[j].page = page_list[j]
      BY <1>1 DEF UserOK, Own
    <2>2. k \in 1 .. Len(sg) + 1
      BY <1>1
    <2>3. Offset(sg, k) = k - 1
      BY <1>1, <2>1, <2>2, SinglePages
    <2>4. o = 0 /\ u = k
      BY <1>1, <2>1, <2>3
    <2>5. sg[k].page \in Nat
      BY <1>1, ChunkFields
    <2> QED  BY <1>1, <2>1, <2>4, <2>5
  <1>8. SizeOK'
    BY <1>1, <1>3, <1>5 DEF SizeOK
  <1>9. DeviceOK'
    BY <1>1, Zenon DEF DeviceOK
  <1>10. MapOK'
    <2>1. Shown'
      BY <1>1, <1>5, <1>7 DEF Shown, mapVars
    <2> QED  BY <1>1, <1>3, <1>5, <2>1 DEF MapOK, mapVars
  <1>11. KernelOK' /\ IdleOK' /\ Separate(sg)'
    BY <1>1, <1>3 DEF KernelOK, Own, IdleOK
  <1> QED  BY <1>2, <1>4, <1>6, <1>8, <1>9, <1>10, <1>11 DEF IInv

(* The order of a block that is freed is the one with which it was allocated. *)
LEMMA FreedBySpan ==
    ASSUME KernelOK, kind = "kernel", NEW k \in 1 .. Len(sg)
    PROVE  FreedBy(sg[k]) = Span(sg, k)
  <1>1. PICK x \in 0 .. sg[k].length : sg[k].length = Pow2[x]
    BY DEF KernelOK, Own
  <1>2. x \in Nat
    BY <1>1
  <1>3. get_order(sg[k].length * PAGE_SIZE) = x
    BY <1>1, <1>2, GetOrder
  <1> QED  BY <1>1, <1>3 DEF FreedBy, Span

LEMMA FreeStep == ASSUME IInv, uio_pci_dma_free PROVE IInv'
  <1>1. /\ TypeInv /\ AddressInv /\ Separate(sg) /\ KernelOK /\ UserOK /\ SizeOK /\ DeviceOK
        /\ pc = "ready" /\ pc' = "free" /\ cursor' = 1 /\ vma' = <<>>
        /\ UNCHANGED <<iommu, lost, held, reserved, privVars, left, order, request, wrap>>
    BY DEF IInv, uio_pci_dma_free
  <1>2. AddressInv'
    BY <1>1, FreeAddress
  <1>3. /\ \A x \in DOMAIN bus' : bus'[x] \in Pages
        /\ ~iommu => bus' = bus
    <2> DEFINE gone == UNION {Block(sg[k].dma, sg[k].dma_len) : k \in 1 .. old_length}
    <2>1. bus' = IF iommu THEN [x \in DOMAIN bus \ gone |-> bus[x]] ELSE bus
      BY DEF uio_pci_dma_free
    <2>2. \A x \in DOMAIN bus : bus[x] \in Pages
      BY <1>1 DEF TypeInv
    <2> HIDE DEF gone
    <2> QED  BY <2>1, <2>2
  <1>4. TypeInv'
    BY <1>1, <1>3, EmptySeq DEF TypeInv, privVars
  <1>5. From = 1 /\ From' = 1 /\ Count' = Count
    BY <1>1 DEF From, Count, privVars
  <1>6. Separate(sg)' /\ KernelOK' /\ UserOK'
    <2>1. Separate(sg)'
      BY <1>1 DEF privVars
    <2>2. KernelOK'
      BY <1>1, <1>5 DEF KernelOK, Own, privVars, TypeInv
    <2>3. UserOK'
      BY <1>1, <1>5, CountNat DEF UserOK, Own, privVars, TypeInv
    <2> QED  BY <2>1, <2>2, <2>3
  <1>7. IdleOK' /\ SizeOK' /\ MapOK'
    BY <1>1, <1>5 DEF IdleOK, SizeOK, MapOK, privVars
  <1>8. DeviceOK'
    <2>1. ~iommu' => bus' = [p \in Pages |-> p]
      BY <1>1, <1>3, Zenon DEF DeviceOK
    <2> QED  BY <1>1, <2>1 DEF DeviceOK
  <1> QED  BY <1>2, <1>4, <1>6, <1>7, <1>8 DEF IInv

LEMMA FreeKernelStep == ASSUME IInv, free_kernel_memory PROVE IInv'
  <1>1. /\ TypeInv /\ AddressInv /\ Separate(sg) /\ KernelOK /\ DeviceOK /\ SizeOK
        /\ kind = "kernel" /\ pc \in {"undo", "free"} /\ cursor <= length /\ cursor' = cursor + 1
        /\ cursor \in Nat \ {0} /\ length = Len(sg) /\ Len(sg) \in Nat
        /\ UNCHANGED <<iommu, lost, bus, privVars, left, order, mapVars, pc>>
    BY DEF IInv, TypeInv, KernelOK, Own, free_kernel_memory
  <1>2. AddressInv'
    BY <1>1, FreeAddress
  <1>3. cursor \in 1 .. Len(sg)
    BY <1>1
  <1>4. reserved' = reserved \ Span(sg, cursor) /\ held' = held \ Span(sg, cursor)
    BY <1>1, <1>3, FreedBySpan DEF free_kernel_memory, Span
  <1>5. TypeInv'
    <2>1. Span(sg, cursor) \subseteq Own
      BY <1>1, <1>3 DEF KernelOK, From
    <2>2. lost.pages \subseteq held \ Span(sg, cursor)
      BY <1>1, <2>1 DEF TypeInv, Own
    <2> QED  BY <1>1, <1>4, <2>2 DEF TypeInv, privVars, mapVars
  <1>6. KernelOK'
    <2>1. From = cursor /\ From' = cursor + 1 /\ sg' = sg
      BY <1>1 DEF From, privVars
    <2>2. Own = UNION {Span(sg, k) : k \in cursor .. Len(sg)} /\ Own' = Own \ Span(sg, cursor)
      BY <1>1, <1>4, <2>1 DEF KernelOK, Own
    <2>3. \A k \in cursor + 1 .. Len(sg) :
              k \in 1 .. Len(sg) /\ k \in cursor .. Len(sg) /\ k # cursor
      BY <1>1
    <2>4. \A k \in cursor .. Len(sg) : k = cursor \/ k \in cursor + 1 .. Len(sg)
      BY <1>1
    <2>5. \A k \in cursor + 1 .. Len(sg) : Span(sg, k) \cap Span(sg, cursor) = {}
      BY <1>1, <1>3, <2>3 DEF Separate
    <2>6. ASSUME NEW x PROVE x \in Own \ Span(sg, cursor) <=>
                               x \in UNION {Span(sg, k) : k \in cursor + 1 .. Len(sg)}
      <3>1. ASSUME x \in Own \ Span(sg, cursor)
            PROVE  x \in UNION {Span(sg, k) : k \in cursor + 1 .. Len(sg)}
        <4>1. PICK k \in cursor .. Len(sg) : x \in Span(sg, k)
          BY <2>2, <3>1
        <4>2. k \in cursor + 1 .. Len(sg)
          BY <2>4, <3>1, <4>1
        <4> QED  BY <4>1, <4>2
      <3>2. ASSUME x \in UNION {Span(sg, k) : k \in cursor + 1 .. Len(sg)}
            PROVE  x \in Own \ Span(sg, cursor)
        <4>1. PICK k \in cursor + 1 .. Len(sg) : x \in Span(sg, k)
          BY <3>2
        <4>2. x \in Own
          BY <2>2, <2>3, <4>1
        <4>3. x \notin Span(sg, cursor)
          BY <2>5, <4>1
        <4> QED  BY <4>2, <4>3
      <3> QED  BY <3>1, <3>2
    <2>7. Own' = UNION {Span(sg', k) : k \in From' .. Len(sg')}
      <3>1. Own \ Span(sg, cursor) = UNION {Span(sg, k) : k \in cursor + 1 .. Len(sg)}
        BY <2>6
      <3> QED  BY <2>1, <2>2, <3>1
    <2>8. cursor' <= length' + 1
      BY <1>1 DEF privVars
    <2> QED  BY <1>1, <2>7, <2>8 DEF KernelOK, privVars, Span, Block
  <1>7. Separate(sg)' /\ DeviceOK' /\ SizeOK'
    <2>1. Separate(sg)'
      BY <1>1 DEF privVars
    <2>2. DeviceOK'
      BY <1>1, Zenon DEF DeviceOK, privVars
    <2>3. SizeOK'
      BY <1>1 DEF SizeOK, Count, privVars
    <2> QED  BY <2>1, <2>2, <2>3
  <1>8. UserOK' /\ IdleOK' /\ MapOK'
    BY <1>1 DEF UserOK, Own, IdleOK, MapOK, privVars
  <1> QED  BY <1>2, <1>5, <1>6, <1>7, <1>8 DEF IInv

LEMMA FreeUserStep == ASSUME IInv, free_user_memory PROVE IInv'
  <1>1. /\ TypeInv /\ AddressInv /\ Separate(sg) /\ UserOK /\ DeviceOK /\ SizeOK
        /\ kind = "user" /\ pc = "free" /\ cursor <= Count /\ cursor' = cursor + 1
        /\ cursor \in Nat \ {0} /\ Count \in Nat /\ Len(page_list) = Count
        /\ pinned' = pinned \ {page_list[cursor]}
        /\ UNCHANGED <<iommu, lost, bus, held, reserved, kind, size, sg, length, old_length, scatter,
                       page_list, left, order, mapVars, pc>>
    BY CountNat DEF IInv, TypeInv, UserOK, Own, Count, free_user_memory
  <1>2. AddressInv'
    BY <1>1, FreeAddress
  <1>3. TypeInv'
    BY <1>1 DEF TypeInv, mapVars
  <1>4. UserOK'
    <2>1. From = cursor /\ From' = cursor + 1 /\ Count' = Count
      BY <1>1 DEF From, Count
    <2>2. pinned = {page_list[k] : k \in cursor .. Count}
      BY <1>1, <2>1 DEF UserOK, Own
    <2>3. \A k : k \in cursor .. Count <=> (k = cursor \/ k \in cursor + 1 .. Count)
      BY <1>1
    <2>4. \A k \in cursor + 1 .. Count : page_list[k] # page_list[cursor]
      <3>1. \A k \in cursor + 1 .. Count : k \in 1 .. Count /\ k # cursor /\ cursor \in 1 .. Count
        BY <1>1
      <3> QED  BY <1>1, <3>1 DEF UserOK, Own
    <2>5. pinned' = {page_list[k] : k \in cursor + 1 .. Count}
      BY <1>1, <2>2, <2>3, <2>4
    <2>6. cursor' <= Count' + 1
      BY <1>1, <2>1
    <2> QED  BY <1>1, <2>1, <2>5, <2>6 DEF UserOK, Own
  <1>5. Separate(sg)' /\ DeviceOK' /\ SizeOK'
    <2>1. DeviceOK'
      BY <1>1, Zenon DEF DeviceOK
    <2> QED  BY <1>1, <2>1 DEF SizeOK, Count
  <1>6. KernelOK' /\ IdleOK' /\ MapOK'
    BY <1>1 DEF KernelOK, Own, IdleOK, MapOK
  <1> QED  BY <1>2, <1>3, <1>4, <1>5, <1>6 DEF IInv

(* Lists are freed: what is left of the buffer is recorded as lost. *)
LEMMA ListsFreed ==
    ASSUME IInv, NEW pages, NEW refs, FreeLists(pages, refs), AddressInv',
           pages \subseteq held, Own \subseteq pages, refs \subseteq Pages, pinned \subseteq refs
    PROVE  IInv'
  <1>1. /\ TypeInv /\ DeviceOK
        /\ lost' = [pages |-> lost.pages \cup pages, refs |-> lost.refs \cup refs]
        /\ pinned' = pinned \ refs
        /\ kind' = "kernel" /\ page_list' = <<>>
        /\ size' = 0 /\ sg' = <<>> /\ length' = 0 /\ old_length' = 0 /\ scatter' = <<>>
        /\ left' = 0 /\ order' = 0 /\ cursor' = 1 /\ request' = 0 /\ vma' = <<>>
        /\ pc' = "idle"
        /\ UNCHANGED <<iommu, bus, held, reserved, wrap>>
    BY DEF IInv, FreeLists
  <1>2. pinned' = {} /\ Own' = {}
    BY <1>1 DEF Own
  <1>3. /\ lost' \in [pages : SUBSET Pages, refs : SUBSET Pages] /\ lost'.pages \subseteq held'
    BY <1>1 DEF TypeInv
  <1>4. TypeInv'
    <2>1. <<>> \in Seq(Chunk) /\ <<>> \in Seq(Pages) /\ <<>> \in Seq([page_link : Pages, length : Nat, dma : Nat])
      BY EmptySeq
    <2> QED  BY <1>1, <1>2, <1>3, <2>1 DEF TypeInv
  <1>5. Separate(sg)' /\ KernelOK' /\ UserOK' /\ IdleOK'
    BY <1>1, <1>2, EmptyList DEF KernelOK, UserOK, IdleOK, From
  <1>6. DeviceOK'
    <2>1. ~iommu' => bus' = [p \in Pages |-> p]
      BY <1>1, Zenon DEF DeviceOK
    <2> QED  BY <1>1, <2>1 DEF DeviceOK
  <1>7. SizeOK' /\ MapOK'
    BY <1>1 DEF SizeOK, MapOK
  <1> QED  BY <1>4, <1>5, <1>6, <1>7 DEF IInv

LEMMA FreeListsStep == ASSUME IInv, free_memory_lists PROVE IInv'
  <1>1. TypeInv /\ AddressInv /\ KernelOK /\ UserOK /\ Freed
    BY DEF IInv, free_memory_lists
  <1>2. AddressInv'
    BY <1>1, FreeAddress
  <1>3. Own = {} /\ (pc # "undo" => pinned = {})
    <2>1. CASE kind = "kernel"
      <3>1. pc \in {"undo", "free"} /\ cursor > length /\ length = Len(sg) /\ From = cursor
        BY <1>1, <2>1 DEF Freed, KernelOK, From
      <3>2. cursor .. Len(sg) = {}
        BY <1>1, <3>1 DEF TypeInv
      <3> QED  BY <1>1, <2>1, <3>1, <3>2 DEF KernelOK
    <2>2. CASE kind = "user"
      <3>1. Own = {}
        BY <1>1, <2>2 DEF UserOK
      <3>2. CASE pc = "undo"
        BY <3>1, <3>2
      <3>3. CASE pc = "free" /\ cursor > Count
        <4>1. cursor .. Len(page_list) = {}
          BY <1>1, <2>2, <3>3, CountNat DEF UserOK, TypeInv
        <4>2. pinned = {}
          BY <1>1, <2>2, <3>3, <4>1 DEF UserOK, From
        <4> QED  BY <3>1, <4>2
      <3> QED  BY <1>1, <2>2, <3>2, <3>3 DEF Freed, Count
    <2> QED  BY <1>1, <2>1, <2>2 DEF TypeInv
  <1>4. PICK refs : refs = IF pc = "undo" THEN pinned ELSE {}
    OBVIOUS
  <1>5. FreeLists({}, refs) /\ refs \subseteq Pages /\ pinned \subseteq refs /\ Own \subseteq {}
    BY <1>1, <1>3, <1>4 DEF free_memory_lists, TypeInv
  <1> QED  BY <1>2, <1>5, ListsFreed

LEMMA ExitBinfileStep == ASSUME IInv, exit_binfile PROVE IInv'
  <1>1. TypeInv /\ AddressInv
    BY DEF IInv
  <1>2. AddressInv'
    BY <1>1, FreeAddress
  <1>3. FreeLists(Own, pinned) /\ Own \subseteq held /\ pinned \subseteq Pages
    BY <1>1 DEF exit_binfile, Own, TypeInv
  <1> QED  BY <1>2, <1>3, ListsFreed

-----------------------------------------------------------------------------
(* Mapping into user space *)

(* The list covers the pages of the buffer, one after the other. *)
LEMMA Covered ==
    ASSUME IInv, pc \in {"ready", "map"}
    PROVE  /\ Count \in Nat \ {0} /\ size = Count * PAGE_SIZE /\ size \in Nat \ {0}
           /\ sg \in Seq(Chunk) /\ Len(sg) \in Nat \ {0} /\ length = Len(sg) /\ Separate(sg)
           /\ Offset(sg, 1) = 0 /\ Offset(sg, Len(sg) + 1) = Count
           /\ \A k \in 1 .. Len(sg) :
                 /\ sg[k].length \in Nat \ {0} /\ sg[k].dma_len = sg[k].length
                 /\ Offset(sg, k) \in Nat /\ Offset(sg, k + 1) = Offset(sg, k) + sg[k].length
                 /\ Offset(sg, k) + sg[k].length <= Count
  <1>1. /\ sg \in Seq(Chunk) /\ Len(sg) \in Nat /\ Separate(sg) /\ length = Len(sg) /\ length # 0
        /\ size \in Nat
    BY DEF IInv, TypeInv, KernelOK, Own, UserOK, AddressInv, ListOK
  <1>2. Count \in Nat \ {0} /\ size = Count * PAGE_SIZE /\ Offset(sg, Len(sg) + 1) = Count
    BY <1>1, CountNat DEF IInv, SizeOK
  <1>3. size \in Nat \ {0}
    <2>1. 0 < Count /\ 0 \in Nat
      BY <1>2
    <2>2. 0 * PAGE_SIZE < Count * PAGE_SIZE
      BY <1>2, <2>1, Multiples
    <2> QED  BY <1>1, <1>2, <2>2, MemoryAssumption
  <1>4. 1 \in 1 .. Len(sg) + 1
    BY <1>1
  <1>5. Offset(sg, 1) = 0
    BY <1>1, <1>4, OffsetStep
  <1>6. ASSUME NEW k \in 1 .. Len(sg)
        PROVE  /\ sg[k].length \in Nat \ {0} /\ sg[k].dma_len = sg[k].length
               /\ Offset(sg, k) \in Nat /\ Offset(sg, k + 1) = Offset(sg, k) + sg[k].length
               /\ Offset(sg, k) + sg[k].length <= Count
    <2>1. k \in 1 .. Len(sg) + 1 /\ k <= Len(sg) /\ Len(sg) + 1 \in 1 .. Len(sg) + 1 /\ k < Len(sg) + 1
      BY <1>1
    <2>2. sg[k].length \in Nat \ {0}
      BY <1>1, ChunkFields DEF Separate
    <2>3. Offset(sg, k) \in Nat /\ Offset(sg, k + 1) = Offset(sg, k) + sg[k].length
      BY <1>1, <2>1, OffsetStep
    <2>4. Offset(sg, k) + sg[k].length <= Count
      BY <1>1, <1>2, <2>1, OffsetsIncrease
    <2>5. sg[k].dma_len = sg[k].length
      BY <1>1 DEF IInv, DeviceOK
    <2> QED  BY <2>2, <2>3, <2>4, <2>5
  <1> QED  BY <1>1, <1>2, <1>3, <1>5, <1>6

(* A page of the buffer belongs to one entry only. *)
LEMMA OneEntry ==
    ASSUME NEW l \in Seq(Chunk), Separate(l), NEW j \in 1 .. Len(l), NEW k \in 1 .. Len(l),
           NEW a \in 0 .. l[j].length - 1, NEW b \in 0 .. l[k].length - 1,
           Offset(l, j) + a = Offset(l, k) + b
    PROVE  j = k /\ a = b
  <1>1. j \in 1 .. Len(l) + 1 /\ k \in 1 .. Len(l) + 1
    OBVIOUS
  <1>2. Offset(l, j) \in Nat /\ Offset(l, k) \in Nat /\ l[j].length \in Nat /\ l[k].length \in Nat
    BY <1>1, OffsetStep, ChunkFields
  <1>3. ~ (j < k)
    <2> SUFFICES ASSUME j < k PROVE FALSE
      OBVIOUS
    <2>1. Offset(l, j) + l[j].length <= Offset(l, k)
      BY <1>1, OffsetsIncrease
    <2> QED  BY <1>2, <2>1
  <1>4. ~ (k < j)
    <2> SUFFICES ASSUME k < j PROVE FALSE
      OBVIOUS
    <2>1. Offset(l, k) + l[k].length <= Offset(l, j)
      BY <1>1, OffsetsIncrease
    <2> QED  BY <1>2, <2>1
  <1>5. j = k
    BY <1>3, <1>4
  <1> QED  BY <1>2, <1>5

(* The size of the mapping, in bytes, is a multiple of the buffer's at the end of a pass only. *)
LEMMA EndOfPass ==
    ASSUME NEW c \in Nat \ {0}, NEW h \in 0 .. 1, NEW y \in 1 .. c
    PROVE  ((h * c + y) * PAGE_SIZE) % (c * PAGE_SIZE) = 0 <=> y = c
  <1>1. PAGE_SIZE \in Nat \ {0}
    BY MemoryAssumption
  <1> DEFINE s == c * PAGE_SIZE
             z == y * PAGE_SIZE
  <1>2. s \in Nat \ {0} /\ z \in Nat \ {0}
    BY <1>1
  <1>3. (h * c + y) * PAGE_SIZE = h * s + z
    <2>1. CASE h = 0
      BY <1>1, <2>1
    <2>2. CASE h = 1
      BY <1>1, <2>2
    <2> QED  BY <2>1, <2>2
  <1>4. y # c => z < s
    BY <1>1, Multiples
  <1>5. y = c => z = s
    OBVIOUS
  <1> HIDE DEF s, z
  <1>6. CASE y = c
    <2>1. h * s + z = (h + 1) * s /\ h + 1 \in Nat
      BY <1>2, <1>5, <1>6
    <2>2. \A q \in Nat : (q * s) % s = 0
      BY <1>2
    <2> QED  BY <1>3, <1>6, <2>1, <2>2 DEF s
  <1>7. CASE y # c
    <2>1. \A q \in Nat : \A r \in 0 .. s - 1 : (q * s + r) % s = r
      BY <1>2
    <2>2. h \in Nat /\ z \in 0 .. s - 1
      BY <1>2, <1>4, <1>7
    <2>3. (h * s + z) % s = z
      BY <2>1, <2>2
    <2> QED  BY <1>2, <1>3, <1>7, <2>3 DEF s
  <1> QED  BY <1>6, <1>7

(* A mapping step leaves the buffer alone; what it maps is all there is to check. *)
LEMMA MapFrame ==
    ASSUME IInv, pc \in {"ready", "map"}, pc' \in {"ready", "map"}, AddressInv', MapOK',
           UNCHANGED <<iommu, lost, bus, held, reserved, privVars, left, order>>,
           cursor' \in Nat \ {0}, request' \in Nat, vma' \in Seq(Pages), wrap' \in {"no", "double", "single"}
    PROVE  IInv'
  <1>1. Count' = Count /\ From = 1 /\ From' = 1
    BY DEF Count, From, privVars
  <1>2. TypeInv'
    BY DEF IInv, TypeInv, privVars
  <1>3. Separate(sg)' /\ KernelOK' /\ UserOK'
    <2>1. Separate(sg)'
      BY DEF IInv, privVars
    <2>2. KernelOK'
      BY <1>1 DEF IInv, KernelOK, Own, privVars
    <2>3. UserOK'
      BY <1>1 DEF IInv, UserOK, Own, privVars
    <2> QED  BY <2>1, <2>2, <2>3
  <1>4. IdleOK' /\ SizeOK'
    BY <1>1 DEF IInv, IdleOK, SizeOK, privVars
  <1>5. DeviceOK'
    <2>1. ~iommu' => bus' = [p \in Pages |-> p]
      BY Zenon DEF IInv, DeviceOK
    <2>2. sg' = sg /\ bus' = bus
      BY DEF privVars
    <2> QED  BY <2>1, <2>2 DEF IInv, DeviceOK
  <1> QED  BY <1>2, <1>3, <1>4, <1>5 DEF IInv

(***************************************************************************)
(* The own memory of a user, which a mapping from the file never replaces; *)
(* it shows the buffer's pages, as every prefix of a mapping does.         *)
(***************************************************************************)
LEMMA OwnPages ==
    ASSUME IInv, pc \in {"ready", "map"}
    PROVE  /\ OwnView \in Seq(Pages) /\ Len(OwnView) <= Len(vma)
           /\ \A u \in 1 .. Len(OwnView) : OwnView[u] = vma[u]
           /\ IF kind = "user" /\ vma # <<>> THEN Len(OwnView) = Count ELSE OwnView = <<>>
  <1>1. vma \in Seq(Pages) /\ Len(vma) \in Nat /\ Count \in Nat \ {0}
    BY Covered DEF IInv, TypeInv
  <1>2. CASE kind = "user" /\ vma # <<>>
    <2>1. Len(vma) >= Count
      <3>1. CASE pc = "ready"
        BY <1>1, <1>2, <3>1 DEF IInv, MapOK
      <3>2. CASE pc = "map"
        <4>1. PICK h \in 0 .. 2 : Passed(h)
          BY <3>2 DEF IInv, MapOK
        <4>2. cursor \in 1 .. Len(sg)
          BY <3>2 DEF IInv, MapOK
        <4>3. Len(vma) = h * Count + Offset(sg, cursor) /\ h \in 1 .. 2 /\ Offset(sg, cursor) \in Nat
          BY <1>2, <4>1, <4>2, Covered DEF Passed
        <4>4. CASE h = 1
          BY <1>1, <4>3, <4>4
        <4>5. CASE h = 2
          BY <1>1, <4>3, <4>5
        <4> QED  BY <4>3, <4>4, <4>5
      <3> QED  BY <3>1, <3>2
    <2>2. OwnView = SubSeq(vma, 1, Count)
      BY <1>2 DEF OwnView, Count
    <2>3. \A s \in Seq(Pages) : \A n \in Nat : n <= Len(s) =>
              /\ SubSeq(s, 1, n) \in Seq(Pages) /\ Len(SubSeq(s, 1, n)) = n
              /\ \A u \in 1 .. n : SubSeq(s, 1, n)[u] = s[u]
      OBVIOUS
    <2> QED  BY <1>1, <1>2, <2>1, <2>2, <2>3
  <1>3. CASE ~ (kind = "user" /\ vma # <<>>)
    <2>1. OwnView = <<>>
      BY <1>3 DEF OwnView
    <2> QED  BY <1>1, <1>3, <2>1
  <1> QED  BY <1>2, <1>3

LEMMA OwnShown ==
    ASSUME IInv, pc \in {"ready", "map"}, vma' = OwnView, UNCHANGED privVars
    PROVE  Shown'
  <1>1. Shown /\ sg' = sg /\ Count' = Count
    BY DEF IInv, MapOK, privVars, Count
  <1>2. \A u \in 1 .. Len(vma') : u \in 1 .. Len(vma) /\ vma'[u] = vma[u]
    BY OwnPages DEF IInv, TypeInv
  <1> QED  BY <1>1, <1>2 DEF Shown


(* A kernel buffer is mapped from its first page on, a user's memory continued. *)
LEMMA StartsMap ==
    ASSUME IInv, pc \in {"ready", "map"}, UNCHANGED privVars, pc' = "map", vma' = OwnView, cursor' = 1,
           \/ kind = "kernel" /\ request' \in {size, 2 * size}
           \/ kind = "user" /\ vma # <<>> /\ request' = 2 * size
    PROVE  MapOK'
  <1>1. Shown'
    BY OwnShown
  <1>2. Count' = Count /\ sg' = sg /\ size' = size /\ kind' = kind
    BY DEF Count, privVars
  <1>3. Count \in Nat \ {0} /\ size \in Nat \ {0} /\ Offset(sg, 1) = 0 /\ Len(sg) \in Nat \ {0}
    BY Covered
  <1>4. \E h \in 0 .. 2 : Passed(h)'
    <2>1. CASE kind = "kernel"
      <3>1. vma' = <<>> /\ Len(vma') = 0
        BY <2>1, OwnPages
      <3>2. Passed(0)'
        BY <1>2, <1>3, <2>1, <3>1 DEF Passed
      <3> QED  BY <3>2
    <2>2. CASE kind = "user"
      <3>1. Len(vma') = Count
        BY <2>2, OwnPages
      <3>2. Passed(1)'
        BY <1>2, <1>3, <2>2, <3>1 DEF Passed
      <3> QED  BY <3>2
    <2> QED  BY <2>1, <2>2
  <1> QED  BY <1>1, <1>2, <1>3, <1>4 DEF MapOK

(* A mapping that has failed or ended shows the own memory of the user, or nothing. *)
LEMMA EndsMap ==
    ASSUME IInv, pc \in {"ready", "map"}, UNCHANGED privVars, pc' = "ready",
           vma' = OwnView, request' = Len(vma') * PAGE_SIZE
    PROVE  MapOK'
  <1>1. Shown'
    BY OwnShown
  <1>2. Count' = Count
    BY DEF Count, privVars
  <1>3. vma' # <<>> => Len(vma') = Count
    BY OwnPages
  <1> QED  BY <1>1, <1>2, <1>3 DEF MapOK

LEMMA StartMapStep == ASSUME IInv, StartMap PROVE IInv'
  <1>1. AddressInv'
    BY MapAddress DEF IInv
  <1>2. MapOK'
    <2>1. vma' = OwnView
      BY DEF StartMap, OwnView
    <2> QED  BY <2>1, StartsMap DEF StartMap
  <1> QED  BY <1>1, <1>2, MapFrame DEF StartMap, IInv, TypeInv

LEMMA WrapMapStep == ASSUME IInv, DMABuffer_wrapMap PROVE IInv'
  <1>1. AddressInv'
    BY MapAddress DEF IInv
  <1>2. TypeInv
    BY DEF IInv
  <1>3. CASE vma' = OwnView /\ request' = 2 * size /\ cursor' = 1 /\ wrap' = "double" /\ pc' = "map" /\ (kind = "user" => vma # <<>>)
    <2>1. MapOK'
      BY <1>2, <1>3, StartsMap DEF DMABuffer_wrapMap, TypeInv
    <2>2. OwnView \in Seq(Pages)
      BY OwnPages DEF DMABuffer_wrapMap
    <2> QED  BY <1>1, <1>2, <1>3, <2>1, <2>2, MapFrame DEF DMABuffer_wrapMap, TypeInv
  <1>4. CASE vma' = <<>> /\ request' = 0 /\ UNCHANGED <<cursor, wrap, pc>>
    <2>1. MapOK'
      <3>1. Shown'
        BY <1>4 DEF Shown
      <3> QED  BY <1>4, <3>1 DEF MapOK, DMABuffer_wrapMap
    <2> QED  BY <1>1, <1>2, <1>4, <2>1, MapFrame, EmptySeq DEF DMABuffer_wrapMap, TypeInv
  <1> QED  BY <1>3, <1>4 DEF DMABuffer_wrapMap

LEMMA MapFailsStep == ASSUME IInv, MapFails PROVE IInv'
  <1>1. AddressInv'
    BY MapAddress DEF IInv
  <1>2. TypeInv /\ pc = "map" /\ vma' = OwnView /\ cursor' = 1 /\ OwnView \in Seq(Pages)
        /\ UNCHANGED <<iommu, lost, bus, held, reserved, privVars, left, order>>
    BY OwnPages DEF IInv, MapFails
  <1>3. CASE kind = "kernel" /\ request' = size /\ wrap' = "single" /\ UNCHANGED pc
    <2>1. MapOK'
      BY <1>2, <1>3, StartsMap
    <2> QED  BY <1>1, <1>2, <1>3, <2>1, MapFrame DEF TypeInv
  <1>4. CASE request' = Len(vma') * PAGE_SIZE /\ wrap' = "no" /\ pc' = "ready"
    <2>1. MapOK'
      BY <1>2, <1>4, EndsMap
    <2>2. request' \in Nat
      BY <1>2, <1>4, Multiples
    <2> QED  BY <1>1, <1>2, <1>4, <2>1, <2>2, MapFrame
  <1> QED  BY <1>3, <1>4 DEF MapFails

LEMMA MunmapStep == ASSUME IInv, munmap PROVE IInv'
  <1>1. AddressInv'
    BY MapAddress DEF IInv
  <1>2. TypeInv /\ pc = "ready" /\ vma' = OwnView /\ OwnView \in Seq(Pages)
        /\ request' = Len(vma') * PAGE_SIZE
        /\ UNCHANGED <<iommu, lost, bus, held, reserved, privVars, left, order, cursor, wrap, pc>>
    BY OwnPages DEF IInv, munmap
  <1>3. MapOK'
    BY <1>2, EndsMap
  <1>4. request' \in Nat
    BY <1>2, Multiples
  <1> QED  BY <1>1, <1>2, <1>3, <1>4, MapFrame DEF TypeInv

(* Where the loop stands: short of the end of the mapping in a pass, at it after the last one. *)
LEMMA EndMapStep == ASSUME IInv, EndMap PROVE IInv'
  <1>1. AddressInv'
    BY MapAddress DEF IInv
  <1>2. TypeInv /\ MapOK /\ pc = "map" /\ pc' = "ready" /\ cursor' = 1 /\ wrap' = "no"
        /\ Len(vma) * PAGE_SIZE >= request
        /\ UNCHANGED <<iommu, lost, bus, held, reserved, privVars, left, order, request, vma>>
    BY DEF IInv, EndMap
  <1>3. PICK h \in 0 .. 2 : Passed(h)
    BY <1>2 DEF MapOK
  <1>4. cursor \in 1 .. Len(sg) /\ request \in {size, 2 * size}
    BY <1>2 DEF MapOK
  <1>5. /\ Count \in Nat \ {0} /\ size = Count * PAGE_SIZE /\ Offset(sg, 1) = 0
        /\ Offset(sg, cursor) \in Nat /\ Offset(sg, cursor) < Count
    <2>1. /\ Count \in Nat \ {0} /\ size = Count * PAGE_SIZE /\ Offset(sg, 1) = 0
          /\ Offset(sg, cursor) \in Nat /\ sg[cursor].length \in Nat \ {0}
          /\ Offset(sg, cursor) + sg[cursor].length <= Count
      BY <1>2, <1>4, Covered
    <2> QED  BY <2>1
  <1>6. Len(vma) = h * Count + Offset(sg, cursor) /\ h * size <= request
        /\ (h * size = request => cursor = 1)
    BY <1>3 DEF Passed
  <1>7. h * size = request
    <2>1. Len(vma) < (h + 1) * Count /\ (h + 1) * Count \in Nat /\ Len(vma) \in Nat
      <3>1. h * Count \in Nat /\ (h + 1) * Count = h * Count + Count
        BY <1>3, <1>5
      <3> QED  BY <1>5, <1>6, <3>1
    <2>2. Len(vma) * PAGE_SIZE < ((h + 1) * Count) * PAGE_SIZE
      BY <2>1, Multiples
    <2>3. ((h + 1) * Count) * PAGE_SIZE = (h + 1) * size
      BY <1>5, MemoryAssumption
    <2>4. request < (h + 1) * size
      <3>1. request \in Nat /\ Len(vma) * PAGE_SIZE \in Nat /\ (h + 1) * size \in Nat
        BY <1>2, <1>3, <2>1, Multiples DEF TypeInv
      <3> QED  BY <1>2, <2>2, <2>3, <3>1
    <2>5. size \in Nat \ {0}
      BY <1>2, Covered
    <2>6. CASE h = 0
      BY <1>4, <2>4, <2>5, <2>6
    <2>7. CASE h = 1
      BY <1>4, <2>4, <2>5, <2>7
    <2>8. CASE h = 2
      BY <1>4, <1>6, <2>4, <2>5, <2>8
    <2> QED  BY <2>6, <2>7, <2>8
  <1>8. Len(vma) \in {Count, 2 * Count} /\ Len(vma) * PAGE_SIZE = request
    <2>1. Len(vma) = h * Count
      BY <1>3, <1>5, <1>6, <1>7
    <2>2. size \in Nat \ {0}
      BY <1>2, Covered
    <2>3. h \in 1 .. 2
      BY <1>3, <1>4, <1>7, <2>2
    <2>4. (h * Count) * PAGE_SIZE = h * size
      BY <1>3, <1>5, MemoryAssumption
    <2>5. Len(vma) \in {Count, 2 * Count}
      BY <1>5, <2>1, <2>3
    <2> QED  BY <1>7, <2>1, <2>4, <2>5
  <1>9. MapOK'
    <2>1. Count' = Count
      BY <1>2 DEF Count, privVars
    <2>2. Shown'
      BY <1>2, <2>1 DEF MapOK, Shown, privVars
    <2> QED  BY <1>2, <1>8, <2>1, <2>2 DEF MapOK
  <1> QED  BY <1>1, <1>2, <1>9, MapFrame DEF TypeInv


LEMMA Beyond ==
    ASSUME NEW a \in Nat, NEW b \in Nat, NEW u \in 1 .. a + b, u \notin 1 .. a
    PROVE  u - a \in 1 .. b /\ u = a + (u - a)
  OBVIOUS

LEMMA RemapStep == ASSUME IInv, remap_pfn_range PROVE IInv'
  <1> DEFINE e == sg[cursor]
             y == Offset(sg, cursor) + e.length
             new == [k \in 1 .. e.length |-> e.page + k - 1]
  <1>1. AddressInv'
    BY MapAddress DEF IInv
  <1>2. TypeInv /\ MapOK /\ Shown /\ pc = "map" /\ pc' = "map" /\ Len(vma) * PAGE_SIZE < request
        /\ UNCHANGED <<iommu, lost, bus, held, reserved, privVars, left, order, request, wrap>>
    BY DEF IInv, MapOK, remap_pfn_range
  <1>3. /\ cursor \in 1 .. Len(sg) /\ request \in {size, 2 * size} /\ (kind = "user" => request = 2 * size)
    BY <1>2 DEF MapOK
  <1>4. PICK h \in 0 .. 2 : Passed(h)
    BY <1>2 DEF MapOK
  <1>5. /\ Count \in Nat \ {0} /\ size \in Nat \ {0} /\ size = Count * PAGE_SIZE
        /\ sg \in Seq(Chunk) /\ Separate(sg) /\ Len(sg) \in Nat \ {0}
        /\ Offset(sg, 1) = 0 /\ Offset(sg, Len(sg) + 1) = Count
    BY <1>2, Covered
  <1>6. /\ e.length \in Nat \ {0} /\ e.dma_len = e.length
        /\ Offset(sg, cursor) \in Nat /\ Offset(sg, cursor + 1) = y /\ y <= Count
    BY <1>2, <1>3, Covered
  <1>7. e.page \in Nat /\ Span(sg, cursor) \subseteq Pages
    BY <1>3, <1>5, ChunkFields DEF Separate
  <1>8. vma' = vma \o new
    BY <1>6 DEF remap_pfn_range
  <1>9. /\ vma' \in Seq(Pages) /\ Len(vma') = Len(vma) + e.length /\ Len(vma) \in Nat
        /\ \A u \in 1 .. Len(vma) : vma'[u] = vma[u]
        /\ \A i \in 1 .. e.length : vma'[Len(vma) + i] = e.page + i - 1
    <2>1. \A k \in 1 .. e.length : e.page + k - 1 \in Pages
      <3> TAKE k \in 1 .. e.length
      <3>1. e.page + k - 1 \in e.page .. e.page + e.length - 1
        BY <1>6, <1>7
      <3> QED  BY <1>7, <3>1 DEF Span, Block
    <2>2. new \in [1 .. e.length -> Pages]
      BY <2>1
    <2>3. \A R : \A n \in Nat : \A f \in [1 .. n -> R] : f \in Seq(R) /\ Len(f) = n
      OBVIOUS
    <2>4. e.length \in Nat
      BY <1>6
    <2>5. new \in Seq(Pages) /\ Len(new) = e.length
      BY <2>2, <2>3, <2>4, Zenon
    <2>6. \A i \in 1 .. e.length : new[i] = e.page + i - 1
      OBVIOUS
    <2> HIDE DEF new, e
    <2>7. vma \in Seq(Pages)
      BY <1>2 DEF TypeInv
    <2> QED  BY <1>8, <2>4, <2>5, <2>6, <2>7
  <1>10. /\ Len(vma) = h * Count + Offset(sg, cursor) /\ h * size <= request
         /\ (h * size = request => cursor = 1) /\ (kind = "user" => h # 0)
    BY <1>4 DEF Passed
  <1>11. h * size < request /\ h \in 0 .. 1
    <2>1. h * size # request
      <3> SUFFICES ASSUME h * size = request PROVE FALSE
        OBVIOUS
      <3>1. Len(vma) = h * Count
        BY <1>4, <1>5, <1>10
      <3>2. (h * Count) * PAGE_SIZE = h * size
        BY <1>4, <1>5, MemoryAssumption
      <3>3. request \in Nat
        BY <1>2 DEF TypeInv
      <3> QED  BY <1>2, <3>1, <3>2, <3>3
    <2>2. h = 2 => h * size >= request
      BY <1>3, <1>5
    <2>3. h * size \in Nat /\ request \in Nat
      BY <1>2, <1>4, <1>5 DEF TypeInv
    <2> QED  BY <1>4, <1>10, <2>1, <2>2, <2>3
  <1>12. Len(vma') = h * Count + y /\ y \in 1 .. Count
    <2> HIDE DEF e
    <2>1. h * Count \in Nat
      BY <1>5, <1>11
    <2>2. \A m, a, l, n \in Nat : n = m + a => n + l = m + (a + l)
      OBVIOUS
    <2>3. Len(vma) + e.length = h * Count + y
      BY <1>6, <1>9, <1>10, <2>1, <2>2
    <2> QED  BY <1>5, <1>6, <1>9, <2>3
  <1>13. cursor' = IF y = Count THEN 1 ELSE cursor + 1
    <2>1. cursor' = IF (Len(vma') * PAGE_SIZE) % size = 0 THEN 1 ELSE cursor + 1
      BY DEF remap_pfn_range
    <2> HIDE DEF y
    <2>2. ((h * Count + y) * PAGE_SIZE) % (Count * PAGE_SIZE) = 0 <=> y = Count
      <3>1. Count \in Nat \ {0} /\ h \in 0 .. 1 /\ y \in 1 .. Count
        BY <1>5, <1>11, <1>12
      <3> QED  BY <3>1, EndOfPass, Zenon
    <2> QED  BY <1>5, <1>12, <2>1, <2>2
  <1>14. y = Count <=> cursor = Len(sg)
    <2>1. cursor = Len(sg) => y = Count
      BY <1>5, <1>6
    <2>2. ASSUME cursor # Len(sg) PROVE y < Count
      <3>1. cursor + 1 \in 1 .. Len(sg)
        BY <1>3, <1>5, <2>2
      <3>2. sg[cursor + 1].length \in Nat \ {0} /\ Offset(sg, cursor + 1) + sg[cursor + 1].length <= Count
        BY <1>2, <3>1, Covered
      <3> QED  BY <1>5, <1>6, <3>2
    <2> QED  BY <1>5, <1>6, <2>1, <2>2
  <1>15. Count' = Count /\ sg' = sg /\ size' = size /\ kind' = kind /\ request' = request
    BY <1>2 DEF Count, privVars
  <1>16. Shown'
    <2> SUFFICES ASSUME NEW u \in 1 .. Len(vma'), NEW k \in 1 .. Len(sg), NEW o \in 0 .. sg[k].length - 1,
                        u \in {Offset(sg, k) + o + 1, Count + Offset(sg, k) + o + 1}
                 PROVE  vma'[u] = sg[k].page + o
      BY <1>15 DEF Shown
    <2>1. CASE u \in 1 .. Len(vma)
      BY <1>2, <1>9, <2>1 DEF Shown
    <2>2. CASE u \notin 1 .. Len(vma)
      <3> DEFINE i == u - Len(vma)
      <3>1. i \in 1 .. e.length /\ u = Len(vma) + i
        <4>1. Len(vma) \in Nat /\ e.length \in Nat /\ u \in 1 .. Len(vma) + e.length
          BY <1>6, <1>9
        <4> QED  BY <2>2, <4>1, Beyond
      <3>2. vma'[u] = e.page + i - 1
        BY <1>9, <3>1
      <3>3. /\ sg[k].length \in Nat \ {0} /\ Offset(sg, k) \in Nat /\ Offset(sg, k) + sg[k].length <= Count
        BY <1>2, Covered
      <3> HIDE DEF i, e
      <3>4. Offset(sg, cursor) + i <= Count /\ Offset(sg, k) + o + 1 <= Count
        <4>1. \A a, l, c \in Nat : \A x \in 1 .. l : a + l <= c => a + x <= c
          OBVIOUS
        <4>2. o + 1 \in 1 .. sg[k].length
          BY <3>3
        <4>3. \A a \in Nat : \A z \in 0 .. sg[k].length - 1 : a + (z + 1) = a + z + 1
          BY <3>3
        <4>4. Offset(sg, k) + (o + 1) <= Count
          BY <1>5, <3>3, <4>1, <4>2
        <4> QED  BY <1>5, <1>6, <3>1, <3>3, <4>1, <4>3, <4>4
      <3>5. Offset(sg, cursor) + (i - 1) = Offset(sg, k) + o /\ i - 1 \in 0 .. e.length - 1
        <4>1. i \in Nat /\ o \in Nat
          BY <3>1, <3>3
        <4>2. u = h * Count + Offset(sg, cursor) + i
          BY <1>10, <3>1
        <4>3. \A a, b, c, l \in Nat : \A x \in 1 .. l : \A z \in Nat :
                 /\ a + x <= c /\ b + z + 1 <= c
                 /\ \/ 0 * c + a + x \in {b + z + 1, c + b + z + 1}
                    \/ 1 * c + a + x \in {b + z + 1, c + b + z + 1}
                 => a + (x - 1) = b + z /\ x - 1 \in 0 .. l - 1
          OBVIOUS
        <4>4. \/ 0 * Count + Offset(sg, cursor) + i \in {Offset(sg, k) + o + 1, Count + Offset(sg, k) + o + 1}
              \/ 1 * Count + Offset(sg, cursor) + i \in {Offset(sg, k) + o + 1, Count + Offset(sg, k) + o + 1}
          <5>1. h = 0 \/ h = 1
            BY <1>11
          <5> QED  BY <4>2, <5>1
        <4> QED  BY <1>5, <1>6, <3>1, <3>3, <3>4, <4>1, <4>3, <4>4
      <3>6. cursor = k /\ i - 1 = o
        BY <1>3, <1>5, <3>5, OneEntry DEF e
      <3> QED  BY <1>7, <3>1, <3>2, <3>6 DEF e
    <2> QED  BY <2>1, <2>2
  <1> HIDE DEF y
  <1>17. cursor' \in 1 .. Len(sg) /\ \E g \in 0 .. 2 : Passed(g)'
    <2>1. CASE y = Count
      <3>1. cursor' = 1
        BY <1>13, <2>1
      <3>2. (h + 1) * size <= request
        <4>1. CASE h = 0
          BY <1>3, <1>5, <4>1
        <4>2. CASE h = 1
          BY <1>3, <1>5, <1>11, <4>2
        <4> QED  BY <1>11, <4>1, <4>2
      <3>3. Len(vma') = (h + 1) * Count + Offset(sg, 1)
        BY <1>5, <1>11, <1>12, <2>1
      <3>4. Passed(h + 1)'
        BY <1>11, <1>15, <3>1, <3>2, <3>3 DEF Passed
      <3>5. h + 1 \in 0 .. 2
        BY <1>11
      <3> QED  BY <1>5, <3>1, <3>4, <3>5
    <2>2. CASE y # Count
      <3>1. cursor' = cursor + 1 /\ cursor + 1 \in 1 .. Len(sg)
        BY <1>3, <1>5, <1>13, <1>14, <2>2
      <3>2. h * size # request /\ h * size <= request
        BY <1>2, <1>5, <1>11 DEF TypeInv
      <3>3. Len(vma') = h * Count + Offset(sg, cursor + 1)
        BY <1>6, <1>12
      <3>4. Passed(h)'
        BY <1>10, <1>15, <3>1, <3>2, <3>3 DEF Passed
      <3> QED  BY <1>4, <3>1, <3>4
    <2> QED  BY <2>1, <2>2
  <1>18. MapOK'
    BY <1>2, <1>3, <1>15, <1>16, <1>17 DEF MapOK
  <1>19. cursor' \in Nat \ {0}
    BY <1>5, <1>17
  <1> QED  BY <1>1, <1>2, <1>9, <1>18, <1>19, MapFrame DEF TypeInv

-----------------------------------------------------------------------------
(* The theorems about the pages *)

LEMMA NextIInv == ASSUME MaxMerge = 1, IInv, [Next]_vars PROVE IInv'
  <1>1. CASE Next
    BY <1>1, AllocateStep, AllocPagesStep, AllocateUserStep, ProgramStep, SortStep, ConvertStep,
       FreeStep, FreeKernelStep, FreeUserStep, FreeListsStep, ExitBinfileStep, StartMapStep, WrapMapStep, RemapStep,
       EndMapStep, MapFailsStep, MunmapStep DEF Next
  <1>2. CASE UNCHANGED vars
    <2>1. Count' = Count /\ From' = From
      BY <1>2 DEF vars, privVars, Count, From
    <2>2. TypeInv' /\ AddressInv'
      BY <1>2, NextAddress DEF vars, privVars, IInv, TypeInv
    <2>3. Separate(sg)' /\ KernelOK' /\ UserOK' /\ IdleOK' /\ SizeOK'
      BY <1>2, <2>1 DEF vars, privVars, IInv, KernelOK, Own, UserOK, IdleOK, SizeOK
    <2>4. DeviceOK'
      <3>1. ~iommu' => bus' = [p \in Pages |-> p]
        BY <1>2, Zenon DEF IInv, DeviceOK, vars
      <3> QED  BY <1>2, <3>1 DEF vars, privVars, IInv, DeviceOK
    <2>5. MapOK'
      BY <1>2, <2>1 DEF vars, privVars, IInv, MapOK, Shown, Passed
    <2> QED  BY <2>2, <2>3, <2>4, <2>5 DEF IInv
  <1> QED  BY <1>1, <1>2

LEMMA Invariance == ASSUME MaxMerge = 1 PROVE Spec => []IInv
  BY InitIInv, NextIInv, PTL DEF Spec


(***************************************************************************)
(* If dma_map_sg does not merge entries: the types, and the mapping loop   *)
(* never runs past the last entry of the list.                             *)
(***************************************************************************)
THEOREM TypeCorrect == ASSUME MaxMerge = 1 PROVE Spec => []TypeOK
  <1>1. IInv => TypeOK
    <2> SUFFICES ASSUME IInv PROVE TypeOK
      OBVIOUS
    <2>1. TypeInv
      BY DEF IInv
    <2>2. held \subseteq Pages /\ reserved \subseteq Pages /\ pinned \subseteq Pages
      BY <2>1 DEF TypeInv
    <2>3. ASSUME pc = "map" PROVE cursor \in DOMAIN scatter
      <3>1. scatter = convert_sg(sg) /\ cursor \in 1 .. Len(sg)
        BY <2>3 DEF IInv, AddressInv, ExposedOK, MapOK
      <3>2. length = Len(sg)
        BY <2>3, Covered
      <3> QED  BY <3>1, <3>2 DEF convert_sg
    <2> QED  BY <2>1, <2>2, <2>3 DEF TypeInv, TypeOK
  <1> QED  BY <1>1, Invariance, PTL

(***************************************************************************)
(* If dma_map_sg does not merge entries: between the requests and deletes  *)
(* the driver holds the pages of requests that failed to create their      *)
(* files, and no other page, reserved page or reference of a buffer.       *)
(***************************************************************************)
THEOREM AllGivenBack == ASSUME MaxMerge = 1 PROVE Spec => []NothingKept
  <1>1. IInv => NothingKept
    <2> SUFFICES ASSUME IInv, pc = "idle"
                 PROVE  held = lost.pages /\ reserved = lost.pages /\ pinned = {}
      BY DEF NothingKept
    <2>1. kind = "kernel" /\ sg = <<>> /\ Len(sg) = 0 /\ From = 1
      BY DEF IInv, IdleOK, From
    <2>2. From .. Len(sg) = {}
      BY <2>1
    <2>3. Own = UNION {Span(sg, k) : k \in From .. Len(sg)} /\ pinned = {}
      BY <2>1 DEF IInv, KernelOK
    <2>4. Own = {} /\ reserved = held /\ lost.pages \subseteq held
      BY <2>2, <2>3 DEF IInv, TypeInv
    <2> QED  BY <2>3, <2>4 DEF Own
  <1> QED  BY <1>1, Invariance, PTL

(***************************************************************************)
(* If dma_map_sg does not merge entries: the pages that __free_pages is    *)
(* called with are the driver's at that time, and the loop of a registered *)
(* buffer puts back a reference that it has.                               *)
(***************************************************************************)
THEOREM OnlyOwnPagesFreed == ASSUME MaxMerge = 1 PROVE Spec => []FreesOwnPages
  <1>1. IInv => FreesOwnPages
    <2> SUFFICES ASSUME IInv, pc \in {"undo", "free"}, ~Freed
                 PROVE  IF kind = "kernel" THEN FreedBy(sg[cursor]) \subseteq Own
                                           ELSE page_list[cursor] \in pinned
      BY DEF FreesOwnPages, Own
    <2>1. TypeInv /\ KernelOK /\ UserOK /\ From = cursor /\ cursor \in Nat \ {0}
      BY DEF IInv, From, TypeInv
    <2>2. CASE kind = "kernel"
      <3>1. length = Len(sg) /\ Own = UNION {Span(sg, k) : k \in From .. Len(sg)}
        BY <2>1, <2>2 DEF KernelOK
      <3>2. cursor \in From .. Len(sg) /\ cursor \in 1 .. Len(sg)
        BY <2>1, <2>2, <3>1 DEF Freed, TypeInv
      <3>3. FreedBy(sg[cursor]) = Span(sg, cursor)
        BY <2>1, <2>2, <3>2, FreedBySpan
      <3> QED  BY <2>2, <3>1, <3>2, <3>3
    <2>3. CASE kind = "user"
      <3>1. pc = "free" /\ cursor <= Count
        BY <2>1, <2>3, CountNat DEF Freed, Count, TypeInv
      <3>2. pinned = {page_list[k] : k \in From .. Len(page_list)} /\ Len(page_list) = Count
        BY <2>1, <2>3, <3>1 DEF UserOK, Own
      <3>3. cursor \in From .. Len(page_list)
        BY <2>1, <3>1, <3>2, CountNat DEF TypeInv
      <3> QED  BY <2>3, <3>2, <3>3
    <2> QED  BY <2>1, <2>2, <2>3 DEF TypeInv
  <1> QED  BY <1>1, Invariance, PTL

(* The exposed list leads to the address of each page of each entry. *)
LEMMA PointerIs ==
    ASSUME IInv, pc \in {"ready", "map"}, NEW j \in 1 .. Len(sg), NEW o \in 0 .. sg[j].length - 1
    PROVE  DevicePointer(Offset(sg, j) + o) = sg[j].dma + o
  <1> DEFINE N == Len(sg)
             u == Offset(sg, j) + o
             g(f, k) == IF k = 1 THEN 0 ELSE f[k - 1] + scatter[k - 1].length
             start == CHOOSE f : f = [k \in 1 .. Len(scatter) |-> g(f, k)]
             off == [k \in 1 .. Len(scatter) |-> Offset(sg, k)]
  <1>1. /\ sg \in Seq(Chunk) /\ Separate(sg) /\ N \in Nat \ {0} /\ length = N /\ Offset(sg, 1) = 0
        /\ \A k \in 1 .. N : /\ sg[k].length \in Nat \ {0} /\ sg[k].dma_len = sg[k].length
                             /\ Offset(sg, k) \in Nat /\ Offset(sg, k + 1) = Offset(sg, k) + sg[k].length
    BY Covered
  <1>2. scatter = [k \in 1 .. N |-> [page_link |-> sg[k].page, length |-> sg[k].dma_len, dma |-> sg[k].dma]]
    BY <1>1 DEF IInv, AddressInv, ExposedOK, convert_sg
  <1>3. DOMAIN scatter = 1 .. N /\ Len(scatter) = N
    <2>1. scatter \in Seq([page_link : Pages, length : Nat, dma : Nat])
      BY DEF IInv, TypeInv
    <2>2. DOMAIN scatter = 1 .. N /\ DOMAIN scatter = 1 .. Len(scatter) /\ Len(scatter) \in Nat
      BY <1>2, <2>1
    <2> QED  BY <1>1, <2>2
  <1>4. \A k \in 1 .. N : scatter[k].length = sg[k].length /\ scatter[k].dma = sg[k].dma
    BY <1>1, <1>2
  <1> HIDE DEF N
  <1>5. off = [k \in 1 .. Len(scatter) |-> g(off, k)]
    <2>1. \A k \in 1 .. N : g(off, k) = Offset(sg, k)
      <3> TAKE k \in 1 .. N
      <3>1. k # 1 => k - 1 \in 1 .. N /\ (k - 1) + 1 = k
        BY <1>1
      <3> QED  BY <1>1, <1>3, <1>4, <3>1
    <2> QED  BY <1>3, <2>1
  <1>6. start = [k \in 1 .. Len(scatter) |-> g(start, k)]
    BY <1>5
  <1> HIDE DEF start, off
  <1> DEFINE S == {n \in Nat : n + 1 \in 1 .. N => start[n + 1] = Offset(sg, n + 1)}
  <1>7. 0 \in S
    BY <1>1, <1>3, <1>6
  <1>8. ASSUME NEW n \in Nat, n \in S PROVE n + 1 \in S
    <2> SUFFICES ASSUME (n + 1) + 1 \in 1 .. N PROVE start[(n + 1) + 1] = Offset(sg, (n + 1) + 1)
      OBVIOUS
    <2>1. n + 1 \in 1 .. N /\ start[n + 1] = Offset(sg, n + 1) /\ (n + 1) + 1 # 1 /\ ((n + 1) + 1) - 1 = n + 1
      BY <1>1, <1>8
    <2>2. start[(n + 1) + 1] = start[n + 1] + scatter[n + 1].length
      BY <1>3, <1>6, <2>1
    <2> QED  BY <1>1, <1>4, <2>1, <2>2
  <1> HIDE DEF S
  <1>9. \A k \in 1 .. N : start[k] = Offset(sg, k)
    <2> TAKE k \in 1 .. N
    <2>1. k - 1 \in Nat /\ (k - 1) + 1 = k
      BY <1>1
    <2>2. Nat \subseteq S
      BY <1>7, <1>8, Induction
    <2> QED  BY <2>1, <2>2 DEF S
  <1> DEFINE P(k) == start[k] <= u /\ u < start[k] + scatter[k].length
             c == CHOOSE k \in DOMAIN scatter : P(k)
  <1>10. j \in 1 .. N /\ o \in Nat /\ o < sg[j].length /\ Offset(sg, j) \in Nat
    BY <1>1 DEF N
  <1>11. P(j)
    BY <1>1, <1>4, <1>9, <1>10
  <1>12. c \in 1 .. N /\ P(c)
    <2> HIDE DEF P
    <2> QED  BY <1>3, <1>10, <1>11
  <1> HIDE DEF c
  <1>13. c = j /\ u - Offset(sg, c) = o
    <2> DEFINE b == u - Offset(sg, c)
    <2>1. /\ start[c] = Offset(sg, c) /\ scatter[c].length = sg[c].length
          /\ Offset(sg, c) \in Nat /\ sg[c].length \in Nat \ {0}
      BY <1>1, <1>4, <1>9, <1>12
    <2>2. b \in 0 .. sg[c].length - 1 /\ Offset(sg, j) + o = Offset(sg, c) + b
      BY <1>10, <1>12, <2>1
    <2>3. c \in 1 .. Len(sg) /\ j \in 1 .. Len(sg)
      BY <1>12 DEF N
    <2> HIDE DEF b
    <2>4. j = c /\ o = b
      BY <1>1, <2>2, <2>3, OneEntry
    <2> QED  BY <2>4 DEF b
  <1>14. DevicePointer(u) = scatter[c].dma + (u - start[c])
    BY DEF DevicePointer, start, c
  <1> QED  BY <1>4, <1>9, <1>12, <1>13, <1>14

(***************************************************************************)
(* If dma_map_sg does not merge entries: at every offset of a mapping, of  *)
(* both halves of a wrapped one, the process sees the page that the device *)
(* reaches through the exposed list, and it is one that the driver holds.  *)
(***************************************************************************)
THEOREM SamePageOnBothSides == ASSUME MaxMerge = 1 PROVE Spec => []ViewsAgree
  <1>1. IInv => ViewsAgree
    <2> SUFFICES ASSUME IInv, pc = "ready", vma # <<>>
                 PROVE  /\ Len(vma) * PAGE_SIZE = request /\ request \in {size, 2 * size}
                        /\ \A u \in 1 .. Len(vma) :
                              /\ vma[u] \in held \cup pinned
                              /\ vma[u] = bus[DevicePointer((u - 1) % Count)]
      BY DEF ViewsAgree, Count
    <2>1. /\ Count \in Nat \ {0} /\ size = Count * PAGE_SIZE /\ sg \in Seq(Chunk) /\ Separate(sg)
          /\ Offset(sg, Len(sg) + 1) = Count
      BY Covered
    <2>2. Len(vma) \in {Count, 2 * Count} /\ Len(vma) * PAGE_SIZE = request /\ Shown
      BY DEF IInv, MapOK
    <2>3. request \in {size, 2 * size}
      <3>1. \A n \in Nat : (2 * n) * PAGE_SIZE = 2 * (n * PAGE_SIZE)
        BY MemoryAssumption
      <3> QED  BY <2>1, <2>2, <3>1
    <2>4. ASSUME NEW u \in 1 .. Len(vma)
          PROVE  vma[u] \in held \cup pinned /\ vma[u] = bus[DevicePointer((u - 1) % Count)]
      <3> DEFINE w == (u - 1) % Count
      <3>1. w \in Nat /\ w < Count /\ u \in {w + 1, Count + w + 1}
        <4>1. \A n \in Nat \ {0} : \A x \in 0 .. n - 1 : x % n = x
          OBVIOUS
        <4>2. \A n \in Nat \ {0} : \A x \in 0 .. n - 1 : (n + x) % n = x
          OBVIOUS
        <4>3. u - 1 \in 0 .. Count - 1 \/ u - 1 - Count \in 0 .. Count - 1
          BY <2>1, <2>2
        <4>4. CASE u - 1 \in 0 .. Count - 1
          <5>1. w = u - 1
            BY <2>1, <4>1, <4>4
          <5> QED  BY <2>1, <4>4, <5>1
        <4>5. CASE u - 1 - Count \in 0 .. Count - 1
          <5>1. (Count + (u - 1 - Count)) % Count = u - 1 - Count
            BY <2>1, <4>2, <4>5
          <5>2. Count + (u - 1 - Count) = u - 1
            BY <2>1
          <5>3. w = u - 1 - Count
            BY <5>1, <5>2
          <5> QED  BY <2>1, <4>5, <5>3
        <4> QED  BY <4>3, <4>4, <4>5
      <3> HIDE DEF w
      <3>2. PICK k \in 1 .. Len(sg) : Offset(sg, k) <= w /\ w < Offset(sg, k) + sg[k].length
        BY <2>1, <3>1, OffsetsCover
      <3> DEFINE o == w - Offset(sg, k)
      <3>3. Offset(sg, k) \in Nat /\ sg[k].length \in Nat \ {0}
        BY Covered
      <3>4. o \in 0 .. sg[k].length - 1 /\ w = Offset(sg, k) + o
        BY <3>1, <3>2, <3>3
      <3> HIDE DEF o
      <3>5. vma[u] = sg[k].page + o
        <4>1. u \in {Offset(sg, k) + o + 1, Count + Offset(sg, k) + o + 1}
          BY <2>1, <3>1, <3>3, <3>4
        <4> QED  BY <2>2, <3>4, <4>1 DEF Shown
      <3>6. bus[sg[k].dma + o] = sg[k].page + o
        BY <3>4 DEF IInv, DeviceOK
      <3>7. DevicePointer(w) = sg[k].dma + o
        BY <3>4, PointerIs
      <3>8. sg[k].page + o \in held \cup pinned
        <4>1. sg[k].page + o \in Span(sg, k)
          <5>1. sg[k].page \in Nat
            BY <2>1, ChunkFields
          <5>2. \A a, n \in Nat : \A x \in 0 .. n - 1 : a + x \in a .. a + n - 1
            OBVIOUS
          <5>3. sg[k].page + o \in sg[k].page .. sg[k].page + sg[k].length - 1
            BY <3>3, <3>4, <5>1, <5>2
          <5> QED  BY <5>3 DEF Span, Block
        <4>2. From = 1
          BY DEF From
        <4>3. CASE kind = "kernel"
          BY <4>1, <4>2, <4>3 DEF IInv, KernelOK, Own
        <4>4. CASE kind = "user"
          <5>1. /\ pinned = {page_list[i] : i \in 1 .. Len(page_list)}
                /\ Len(page_list) = Len(sg) /\ sg[k].page = page_list[k] /\ sg[k].length = 1
            BY <4>2, <4>4 DEF IInv, UserOK, Own
          <5>2. sg[k].page \in Nat /\ o = 0
            BY <2>1, <3>4, <5>1, ChunkFields
          <5>3. sg[k].page + o = page_list[k]
            BY <5>1, <5>2
          <5> QED  BY <5>1, <5>3
        <4> QED  BY <4>3, <4>4 DEF IInv, TypeInv
      <3> QED  BY <3>5, <3>6, <3>7, <3>8 DEF w
    <2> QED  BY <2>2, <2>3, <2>4
  <1> QED  BY <1>1, Invariance, PTL

-----------------------------------------------------------------------------
(***************************************************************************)
(* The list in user space (SGList).  What DMABuffer_loadSGList reads of    *)
(* the exposed list, and which page of the buffer the list that it builds  *)
(* shows at which device address.  Of SGList only the definitions of the   *)
(* conversion are used here.                                               *)
(***************************************************************************)
SG == INSTANCE SGList WITH Scatters <- {}, Faults <- {}, sglist <- <<>>, entries <- 0

Exposed == [k \in DOMAIN scatter |-> [d |-> scatter[k].dma, length |-> scatter[k].length]]

LoadedTranslation == SG!Translation(SG!Converted(Exposed))

(* A number whose successor is at most n is at most n. *)
LEMMA Predecessor ==
    ASSUME NEW n \in Nat, NEW k \in Nat, k + 1 \in 0 .. n
    PROVE  k \in 0 .. n /\ k + 1 \in 1 .. n /\ k + 1 # 0 /\ (k + 1) - 1 = k
  OBVIOUS

(* The function off solves the equation of the sum. *)
SolvesSum(N, e, off) ==
    /\ N \in Nat /\ Len(e) = N
    /\ off \in [0 .. N -> Nat] /\ off[0] = 0
    /\ \A k \in 1 .. N : off[k] = off[k - 1] + e[k].length

(* A function that solves the equation of the sum is the sum. *)
LEMMA SumIs ==
    ASSUME NEW N, NEW e, NEW off, SolvesSum(N, e, off)
    PROVE  \A k \in 0 .. N : SG!Sum(e)[k] = off[k]
  <1> DEFINE g(f, k) == IF k = 0 THEN 0 ELSE f[k - 1] + e[k].length
             Is(f) == f = [k \in 0 .. Len(e) |-> g(f, k)]
  <1>0. /\ N \in Nat /\ Len(e) = N
        /\ off \in [0 .. N -> Nat] /\ off[0] = 0
        /\ \A k \in 1 .. N : off[k] = off[k - 1] + e[k].length
    BY DEF SolvesSum
  <1>1. Is(off)
    <2>1. \A k \in 0 .. N : off[k] = g(off, k)
      BY <1>0
    <2>2. off = [k \in 0 .. N |-> off[k]]
      BY <1>0
    <2> QED  BY <1>0, <2>1, <2>2
  <1>2. SG!Sum(e) = CHOOSE f : Is(f)
    BY DEF SG!Sum
  <1>3. PICK m : m = SG!Sum(e)
    OBVIOUS
  <1>4. m = [k \in 0 .. N |-> g(m, k)]
    BY <1>0, <1>1, <1>2, <1>3
  <1> DEFINE S == {k \in Nat : k \in 0 .. N => m[k] = off[k]}
  <1>5. 0 \in S
    BY <1>0, <1>4
  <1>6. ASSUME NEW k \in Nat, k \in S PROVE k + 1 \in S
    <2> SUFFICES ASSUME k + 1 \in 0 .. N PROVE m[k + 1] = off[k + 1]
      OBVIOUS
    <2>0. k \in 0 .. N => m[k] = off[k]
      BY <1>6
    <2> HIDE DEF S
    <2>1. k \in 0 .. N /\ k + 1 \in 1 .. N /\ k + 1 # 0 /\ (k + 1) - 1 = k /\ m[k] = off[k]
      <3>1. k \in 0 .. N /\ k + 1 \in 1 .. N /\ k + 1 # 0 /\ (k + 1) - 1 = k
        BY <1>0, Predecessor
      <3> QED  BY <2>0, <3>1
    <2>2. m[k + 1] = m[k] + e[k + 1].length
      BY <1>4, <2>1
    <2>3. off[k + 1] = off[k] + e[k + 1].length
      BY <1>0, <2>1
    <2> QED  BY <2>1, <2>2, <2>3
  <1> HIDE DEF S
  <1>7. Nat \subseteq S
    BY <1>5, <1>6, Induction
  <1> QED  BY <1>0, <1>3, <1>7 DEF S

(* The exposed list is one that SGList may start from: not empty, and no entry is. *)
LEMMA ExposedIs ==
    ASSUME IInv, pc \in {"ready", "map"}
    PROVE  /\ Exposed \in Seq(SG!Entry) /\ Len(Exposed) = Len(sg) /\ Exposed # <<>>
           /\ DOMAIN Exposed = 1 .. Len(sg)
           /\ \A k \in 1 .. Len(sg) : Exposed[k].d = sg[k].dma /\ Exposed[k].length = sg[k].length
  <1>1. PICK N \in Nat \ {0} : N = Len(sg) /\ length = N
    BY Covered
  <1>2. scatter = [k \in 1 .. N |-> [page_link |-> sg[k].page, length |-> sg[k].dma_len, dma |-> sg[k].dma]]
    BY <1>1 DEF IInv, AddressInv, ExposedOK, convert_sg
  <1>3. \A k \in 1 .. N : sg[k].length \in Nat /\ sg[k].dma_len = sg[k].length /\ sg[k].dma \in Nat
    BY <1>1, Covered, ChunkFields
  <1>4. PICK e : e = Exposed
    OBVIOUS
  <1>5. e = [k \in 1 .. N |-> [d |-> sg[k].dma, length |-> sg[k].length]]
    BY <1>2, <1>3, <1>4 DEF Exposed
  <1>6. e \in [1 .. N -> SG!Entry]
    BY <1>3, <1>5 DEF SG!Entry
  <1>7. e \in Seq(SG!Entry) /\ Len(e) = N /\ DOMAIN e = 1 .. N
    BY <1>6
  <1>8. e # <<>>
    BY <1>7
  <1> QED  BY <1>1, <1>4, <1>5, <1>7, <1>8

(* The two descriptions of what user space reads off the exposed list agree. *)
LEMMA TranslationIs ==
    ASSUME IInv, pc \in {"ready", "map"}
    PROVE  LoadedTranslation = {<<w, DevicePointer(w)>> : w \in 0 .. Count - 1}
  <1>1. PICK N \in Nat \ {0} : N = Len(sg)
    BY Covered
  <1>2. /\ Offset(sg, 1) = 0 /\ Offset(sg, N + 1) = Count /\ Count \in Nat \ {0}
        /\ sg \in Seq(Chunk) /\ Separate(sg)
        /\ \A k \in 1 .. N : /\ sg[k].length \in Nat \ {0} /\ Offset(sg, k) \in Nat
                             /\ Offset(sg, k + 1) = Offset(sg, k) + sg[k].length
                             /\ Offset(sg, k) + sg[k].length <= Count
    BY <1>1, Covered
  <1>3. PICK e : e = Exposed
    OBVIOUS
  <1>4. /\ Len(e) = N
        /\ \A k \in 1 .. N : e[k].d = sg[k].dma /\ e[k].length = sg[k].length
    BY <1>1, <1>3, ExposedIs
  <1> DEFINE off == [k \in 0 .. N |-> Offset(sg, k + 1)]
  <1>5. /\ off \in [0 .. N -> Nat] /\ off[0] = 0
        /\ \A k \in 1 .. N : off[k] = off[k - 1] + e[k].length /\ off[k - 1] = Offset(sg, k)
    <2>1. \A k \in 0 .. N : Offset(sg, k + 1) \in Nat
      <3> TAKE k \in 0 .. N
      <3>1. k + 1 \in 1 .. N \/ k + 1 = N + 1
        OBVIOUS
      <3> QED  BY <1>2, <3>1
    <2>2. off \in [0 .. N -> Nat]
      BY <2>1
    <2>3. 0 \in 0 .. N /\ 0 + 1 = 1
      OBVIOUS
    <2>4. off[0] = 0
      BY <1>2, <2>3
    <2>5. ASSUME NEW k \in 1 .. N PROVE off[k] = off[k - 1] + e[k].length /\ off[k - 1] = Offset(sg, k)
      <3>1. k \in 0 .. N /\ k - 1 \in 0 .. N /\ (k - 1) + 1 = k
        OBVIOUS
      <3>2. off[k] = Offset(sg, k + 1) /\ off[k - 1] = Offset(sg, k)
        BY <3>1
      <3> QED  BY <1>2, <1>4, <3>2
    <2> QED  BY <2>2, <2>4, <2>5
  <1> HIDE DEF off
  <1>6. \A k \in 0 .. N : SG!Sum(e)[k] = off[k]
    <2>1. PICK o : o = off
      OBVIOUS
    <2>2. o \in [0 .. N -> Nat]
      BY <1>5, <2>1
    <2>3. o[0] = 0
      BY <1>5, <2>1
    <2>4. \A k \in 1 .. N : o[k] = o[k - 1] + e[k].length
      BY <1>5, <2>1
    <2>5. N \in Nat /\ Len(e) = N
      BY <1>4
    <2>6. SolvesSum(N, e, o)
      BY <2>2, <2>3, <2>4, <2>5 DEF SolvesSum
    <2>7. \A k \in 0 .. N : SG!Sum(e)[k] = o[k]
      BY <2>6, SumIs
    <2> QED  BY <2>1, <2>7
  <1>7. PICK c : c = SG!Converted(e)
    OBVIOUS
  <1>8. /\ DOMAIN c = 1 .. N
        /\ \A k \in 1 .. N : c[k].d = sg[k].dma /\ c[k].length = sg[k].length /\ c[k].u = Offset(sg, k)
    <2>1. \A k \in 1 .. N : SG!Offset(e)[k] = Offset(sg, k)
      <3> TAKE k \in 1 .. N
      <3>1. k - 1 \in 0 .. N
        OBVIOUS
      <3>2. SG!Offset(e)[k] = SG!Sum(e)[k - 1]
        BY <1>4 DEF SG!Offset
      <3> QED  BY <1>5, <1>6, <3>1, <3>2
    <2>2. c = [k \in 1 .. N |-> [d |-> e[k].d, length |-> e[k].length, u |-> SG!Offset(e)[k]]]
      BY <1>4, <1>7 DEF SG!Converted
    <2> QED  BY <1>4, <2>1, <2>2
  <1>9. PICK T : T = SG!Translation(c)
    OBVIOUS
  <1>10. \A p : p \in T <=> \E k \in 1 .. N : \E x \in 0 .. sg[k].length - 1 :
                                p = <<Offset(sg, k) + x, sg[k].dma + x>>
    BY <1>8, <1>9 DEF SG!Translation
  <1>11. \A k \in 1 .. N : \A x \in 0 .. sg[k].length - 1 :
             DevicePointer(Offset(sg, k) + x) = sg[k].dma + x
    BY <1>1, PointerIs
  <1>12. ASSUME NEW p \in T PROVE p \in {<<w, DevicePointer(w)>> : w \in 0 .. Count - 1}
    <2>0. PICK k \in 1 .. N : \E x \in 0 .. sg[k].length - 1 :
                                 p = <<Offset(sg, k) + x, sg[k].dma + x>>
      BY <1>10
    <2>1. PICK x : x \in 0 .. sg[k].length - 1 /\ p = <<Offset(sg, k) + x, sg[k].dma + x>>
      BY <2>0
    <2>2. PICK a \in Nat, z \in Nat : a = Offset(sg, k) /\ z = sg[k].length /\ a + z <= Count
      BY <1>2
    <2>3. x \in 0 .. z - 1
      BY <2>1, <2>2
    <2>4. a + x \in 0 .. Count - 1
      <3>1. PICK n \in Nat : n = Count
        BY <1>2
      <3>2. a + z <= n
        BY <2>2, <3>1
      <3>3. x \in Nat /\ x < z
        BY <2>3
      <3>4. a + x \in Nat /\ a + x < n
        BY <3>2, <3>3
      <3>5. a + x \in 0 .. n - 1
        BY <3>4
      <3> QED  BY <3>1, <3>5
    <2>5. p = <<a + x, DevicePointer(a + x)>>
      BY <1>11, <2>1, <2>2
    <2> QED  BY <2>4, <2>5
  <1>13. ASSUME NEW w \in 0 .. Count - 1 PROVE <<w, DevicePointer(w)>> \in T
    <2>1. w \in Nat /\ w < Offset(sg, Len(sg) + 1)
      BY <1>1, <1>2
    <2>2. PICK k \in 1 .. N : Offset(sg, k) <= w /\ w < Offset(sg, k) + sg[k].length
      BY <1>1, <1>2, <2>1, OffsetsCover
    <2>3. PICK a \in Nat, z \in Nat : a = Offset(sg, k) /\ z = sg[k].length /\ a <= w /\ w < a + z
      BY <1>2, <2>2
    <2>4. PICK x \in 0 .. z - 1 : w = a + x
      <3>1. w - a \in 0 .. z - 1 /\ w = a + (w - a)
        BY <2>1, <2>3
      <3> QED  BY <3>1
    <2>5. x \in 0 .. sg[k].length - 1 /\ w = Offset(sg, k) + x
      BY <2>3, <2>4
    <2>6. DevicePointer(w) = sg[k].dma + x
      BY <1>11, <2>5
    <2> QED  BY <1>10, <2>5, <2>6
  <1> QED  BY <1>3, <1>7, <1>9, <1>12, <1>13 DEF LoadedTranslation

(***************************************************************************)
(* "User space pointer to the entry", "Device pointer to the entry", for   *)
(* the list that DMABuffer_loadSGList builds and that coalescing keeps     *)
(* equivalent to it: it can be built (SGList's assumption), and gives each *)
(* page of the mapping, in either half, exactly one device address, behind *)
(* which is the page that the process sees.                                *)
(***************************************************************************)
LoadedListAgrees ==
    pc = "ready" =>
        /\ Exposed \in Seq(SG!Entry) /\ Exposed # <<>>
        /\ \A k \in DOMAIN Exposed : Exposed[k].length > 0
        /\ \A u \in 1 .. Len(vma) : \E a :
              /\ \A d : <<(u - 1) % Count, d>> \in LoadedTranslation <=> d = a
              /\ vma[u] = bus[a]

(***************************************************************************)
(* If dma_map_sg does not merge entries: what the adapter exposes and what *)
(* user space makes of it lead the device to the pages of the mapping.     *)
(***************************************************************************)
THEOREM ListLeadsToMapping == ASSUME MaxMerge = 1 PROVE Spec => []LoadedListAgrees
  <1>1. IInv /\ ViewsAgree => LoadedListAgrees
    <2> SUFFICES ASSUME IInv, ViewsAgree, pc = "ready" PROVE LoadedListAgrees
      BY DEF LoadedListAgrees
    <2>1. PICK N \in Nat : N = Len(sg)
      BY Covered
    <2>2. PICK e : e = Exposed
      OBVIOUS
    <2>3. /\ e \in Seq(SG!Entry) /\ e # <<>> /\ DOMAIN e = 1 .. N
          /\ \A k \in 1 .. N : e[k].length = sg[k].length
      BY <2>1, <2>2, ExposedIs
    <2>4. \A k \in 1 .. N : sg[k].length \in Nat \ {0}
      BY <2>1, Covered
    <2>5. \A k \in DOMAIN e : e[k].length > 0
      BY <2>3, <2>4
    <2>6. ASSUME NEW u \in 1 .. Len(vma)
          PROVE  \E a : /\ \A d : <<(u - 1) % Count, d>> \in LoadedTranslation <=> d = a
                        /\ vma[u] = bus[a]
      <3>1. PICK w, a : w = (u - 1) % Count /\ a = DevicePointer(w)
        OBVIOUS
      <3>2. vma # <<>> /\ Len(vma) \in Nat
        BY DEF IInv, TypeInv
      <3>3. vma[u] = bus[a]
        BY <3>1, <3>2 DEF ViewsAgree, Count
      <3>4. w \in 0 .. Count - 1
        <4>1. PICK n \in Nat \ {0} : n = Count
          BY Covered
        <4>2. u - 1 \in Nat
          BY <3>2
        <4>3. \A y \in Nat : y % n \in 0 .. n - 1
          OBVIOUS
        <4> QED  BY <3>1, <4>1, <4>2, <4>3
      <3>5. LoadedTranslation = {<<x, DevicePointer(x)>> : x \in 0 .. Count - 1}
        BY TranslationIs
      <3>6. \A d : <<w, d>> \in LoadedTranslation <=> d = a
        BY <3>1, <3>4, <3>5
      <3> QED  BY <3>1, <3>3, <3>6
    <2> QED  BY <2>2, <2>3, <2>5, <2>6 DEF LoadedListAgrees
  <1> QED  BY <1>1, Invariance, SamePageOnBothSides, PTL

====
