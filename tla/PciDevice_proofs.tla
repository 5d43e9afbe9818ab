--------------------------- MODULE PciDevice_proofs ---------------------------
(***************************************************************************)
(* Theorems about the two parts of a PciDevice that have a state of their  *)
(* own.  Of Bars, for any number of registers, any contents of upper       *)
(* halves and any faults: the two loops stay within the arrays, and the    *)
(* BARs that result are those of the device.  Of Isr, for any number of    *)
(* interrupts, any calls of the application and any faults: the types,     *)
(* that a masked line has its event on the way, and that a stopped thread  *)
(* begins at most one more callback.                                       *)
(***************************************************************************)
EXTENDS Bars, Isr, TLAPS

-----------------------------------------------------------------------------
(* The base address registers: the inductive invariant *)

(* What an initialized device has for register n. *)
TypeRight(n) == bar_types[n] = TypeOfKind(layout[n].kind)
SizeRight(n) == bar_sizes[n] = IF layout[n].kind \in {"mem32", "mem64"} /\ ~unlisted
                               THEN layout[n].size ELSE 0

(***************************************************************************)
(* The classification is right behind the loop's index, which is never at  *)
(* the upper half of a BAR that it has recognized: at an upper half it can *)
(* only be if the registers of the BAR read zero.                          *)
(***************************************************************************)
ClassifyOK ==
    pc = "classify" =>
        /\ \A n \in Numbers : n < i => TypeRight(n) /\ layout[n].kind # "reserved"
        /\ i \in Numbers /\ layout[i].kind = "upper" => layout[i].reg = 0

(* The second loop has every type right before it sets the first size. *)
LibpciOK ==
    pc = "libpci" => \A n \in Numbers :
        /\ TypeRight(n) /\ layout[n].kind # "reserved"
        /\ n < i => SizeRight(n)
        /\ n >= i => bar_sizes[n] = 0

(* Until then there is neither a size nor a mapped BAR. *)
FreshOK ==
    /\ bar_init => pc = "idle" /\ \A n \in Numbers : TypeRight(n) /\ SizeRight(n)
    /\ pc # "libpci" /\ ~bar_init => \A n \in Numbers : bar_sizes[n] = 0
    /\ ~bar_init => bar = [n \in Numbers |-> NoBar]
    /\ failed => \E n \in Numbers : layout[n].kind = "reserved"
    /\ unlisted => bar_init

(* A Bar object is that of a memory BAR of the device. *)
MappedRight(n) ==
    /\ layout[n].kind \in {"mem32", "mem64"}
    /\ bar[n].low = Address(layout[n].reg)
    /\ bar[n].high = IF layout[n].kind = "mem64" THEN layout[n + 1].reg ELSE 0
    /\ bar[n].size = layout[n].size

MappedOK == \A n \in Numbers : bar[n] # NoBar => MappedRight(n)

IInv ==
    /\ TypeOK /\ layout \in Layouts
    /\ ClassifyOK /\ LibpciOK /\ FreshOK /\ MappedOK

-----------------------------------------------------------------------------
(* The registers *)

(* What a register of each kind contains, and what libpci knows of it. *)
SlotOK(x) ==
    \/ x.kind = "none" /\ x.reg = 0 /\ x.base = 0 /\ x.size = 0
    \/ x.kind = "io" /\ x.reg \in {1, 9} /\ x.base = x.reg /\ x.size = 1
    \/ x.kind = "unassigned" /\ x.reg = 0 /\ x.base = 0 /\ x.size = 1
    \/ x.kind = "mem32" /\ x.reg = 8 /\ x.base = 8 /\ x.size = 1
    \/ x.kind = "mem64" /\ x.reg \in {4, 12} /\ x.base = x.reg /\ x.size = 2
    \/ x.kind = "virtual" /\ x.reg = 0 /\ x.base = 8 /\ x.size = 1
    \/ x.kind = "virtual64" /\ x.reg = 0 /\ x.base = 12 /\ x.size = 2
    \/ x.kind = "reserved" /\ x.reg = 10 /\ x.base = 10 /\ x.size = 1
    \/ x.kind = "upper" /\ x.reg \in 0 .. 15 /\ x.base = 0 /\ x.size = 0

LEMMA LayoutSlots ==
    ASSUME layout \in Layouts, NEW n \in Numbers
    PROVE  /\ SlotOK(layout[n])
           /\ layout[n].kind = "upper" =>
                 n > 0 /\ n - 1 \in Numbers /\ layout[n - 1].kind \in {"mem64", "virtual64"}
           /\ layout[n].kind = "upper" /\ layout[n - 1].kind = "virtual64" => layout[n].reg = 0
           /\ layout[n].kind \in {"mem64", "virtual64"} =>
                 n + 1 \in Numbers /\ layout[n + 1].kind = "upper"
  <1>1. layout \in [Numbers -> LowerSlots \cup UpperSlots]
    BY DEF Layouts
  <1>2. \A m \in Numbers :
            /\ layout[m].kind = "upper" <=> m > 0 /\ layout[m - 1].kind \in {"mem64", "virtual64"}
            /\ layout[m].kind = "upper" /\ layout[m - 1].kind = "virtual64" => layout[m].reg = 0
            /\ layout[m].kind \in {"mem64", "virtual64"} => m + 1 \in Numbers
    BY DEF Layouts
  <1>3. \A x \in LowerSlots : SlotOK(x)
    BY DEF LowerSlots, Slot, SlotOK
  <1>4. \A x \in UpperSlots : SlotOK(x)
    BY BarsAssumption DEF UpperSlots, Slot, SlotOK
  <1>5. SlotOK(layout[n])
    BY <1>1, <1>3, <1>4
  <1>6. n > 0 => n - 1 \in Numbers
    BY BarsAssumption DEF Numbers
  <1>7. layout[n].kind \in {"mem64", "virtual64"} =>
            n + 1 \in Numbers /\ layout[n + 1].kind = "upper"
    <2> HAVE layout[n].kind \in {"mem64", "virtual64"}
    <2>1. n + 1 \in Numbers
      BY <1>2
    <2>2. n + 1 > 0 /\ (n + 1) - 1 = n
      BY BarsAssumption DEF Numbers
    <2> QED  BY <1>2, <2>1, <2>2
  <1> QED  BY <1>2, <1>5, <1>6, <1>7

(***************************************************************************)
(* What the code's tests see in a register of each kind: the memory BARs   *)
(* of 64 bits are recognized by their width, a reserved one as well.       *)
(***************************************************************************)
LEMMA SlotTests ==
    ASSUME NEW x, SlotOK(x)
    PROVE  /\ x.kind \in {"none", "unassigned", "virtual", "virtual64"} => x.reg = 0
           /\ x.kind = "io" => IsIO(x.reg) /\ x.reg # 0
           /\ x.kind = "mem32" => ~IsIO(x.reg) /\ Width(x.reg) = 0 /\ x.reg # 0
           /\ x.kind = "mem64" => ~IsIO(x.reg) /\ Width(x.reg) = 4 /\ x.reg # 0
           /\ x.kind = "reserved" => ~IsIO(x.reg) /\ Width(x.reg) = 2 /\ x.reg # 0
           /\ x.kind \in {"io", "mem32", "mem64", "reserved"} => x.base = x.reg
           /\ x.kind \in {"none", "unassigned", "upper"} => x.base = 0
           /\ x.kind \in {"virtual", "virtual64"} => x.base # 0
           /\ x.reg \in 0 .. 15 /\ x.size \in 0 .. 2 /\ Address(x.reg) \in 0 .. 15
           /\ x.kind \in {"none", "io", "unassigned", "mem32", "mem64", "virtual", "virtual64",
                          "reserved", "upper"}
  BY DEF SlotOK, IsIO, Width, Address

(* A register that reads zero is neither I/O nor wide. *)
LEMMA ZeroTests == ~IsIO(0) /\ Width(0) = 0
  BY DEF IsIO, Width

-----------------------------------------------------------------------------
(* The steps *)

(* The initial state satisfies the inductive invariant. *)
LEMMA InitIInv == Init => IInv
  <1> SUFFICES ASSUME Init PROVE IInv
    OBVIOUS
  <1>1. i \in 0 .. PDA_MAX_PCI_32_BARS
    BY BarsAssumption DEF Init
  <1>2. bar_sizes \in [Numbers -> 0 .. 2] /\ NoBar \in [type : BarTypes, size : 0 .. 2, low : 0 .. 15, high : 0 .. 15]
    BY DEF Init, NoBar, BarTypes
  <1>3. TypeOK
    BY <1>1, <1>2, Zenon DEF Init, TypeOK, BarTypes
  <1>4. ClassifyOK /\ LibpciOK /\ FreshOK /\ MappedOK
    BY DEF Init, ClassifyOK, LibpciOK, FreshOK, MappedOK
  <1> QED  BY <1>3, <1>4 DEF Init, IInv

(* A register of any kind but "mem64", given its type by the first loop. *)
LEMMA ClassifyOne ==
    ASSUME IInv, pc = "classify", i \in Numbers, NEW t \in BarTypes,
           t = TypeOfKind(layout[i].kind), layout[i].kind \notin {"mem64", "reserved"},
           SetType(t), UNCHANGED <<layout, bar_sizes, bar, bar_init, unlisted>>
    PROVE  IInv'
  <1> USE DEF IInv
  <1>1. TypeOK'
    <2>1. i' \in 0 .. PDA_MAX_PCI_32_BARS /\ bar_types' \in [Numbers -> BarTypes]
      BY BarsAssumption DEF TypeOK, SetType, Numbers
    <2> QED  BY <2>1 DEF TypeOK, SetType
  <1>2. ClassifyOK'
    <2>1. ASSUME NEW n \in Numbers, n < i'
          PROVE  TypeRight(n)' /\ layout'[n].kind # "reserved"
      <3>1. n < i \/ n = i
        BY <2>1, BarsAssumption DEF SetType, Numbers
      <3> QED  BY <3>1 DEF SetType, TypeRight, TypeOK, ClassifyOK
    <2>2. ASSUME i' \in Numbers, layout'[i'].kind = "upper"
          PROVE  layout'[i'].reg = 0
      <3>1. i' - 1 = i
        BY BarsAssumption DEF SetType, Numbers
      <3>2. layout[i'].kind = "upper" /\ layout[i].kind = "virtual64"
        BY <2>2, <3>1, LayoutSlots
      <3> QED  BY <2>2, <3>1, <3>2, LayoutSlots
    <2> QED  BY <2>1, <2>2 DEF ClassifyOK
  <1>3. LibpciOK' /\ FreshOK' /\ MappedOK'
    BY DEF SetType, LibpciOK, FreshOK, MappedOK, MappedRight
  <1> QED  BY <1>1, <1>2, <1>3

(***************************************************************************)
(* An iteration of the first loop.  The width tells a 64-bit BAR, which is *)
(* never the last register, and the loop goes past both halves.            *)
(***************************************************************************)
LEMMA ClassifyStep == IInv /\ PciDevice_classify_bars => IInv'
  <1> SUFFICES ASSUME IInv, PciDevice_classify_bars PROVE IInv'
    OBVIOUS
  <1> DEFINE k == layout[i].kind
             r == layout[i].reg
  <1>1. pc = "classify" /\ i \in Numbers
        /\ UNCHANGED <<layout, bar_sizes, bar, bar_init, unlisted>>
    BY BarsAssumption DEF PciDevice_classify_bars, IInv, TypeOK, Numbers
  <1>2. SlotOK(layout[i])
    BY <1>1, LayoutSlots DEF IInv
  <1>3. k = "upper" => r = 0
    BY <1>1 DEF IInv, ClassifyOK
  <1> HIDE DEF k, r
  <1>4. /\ k \in {"none", "unassigned", "virtual", "virtual64", "upper"} <=> r = 0
        /\ k = "io" <=> IsIO(r)
        /\ k = "mem32" <=> r # 0 /\ ~IsIO(r) /\ Width(r) = 0
        /\ k = "mem64" <=> ~IsIO(r) /\ Width(r) = 4
        /\ k = "reserved" <=> ~IsIO(r) /\ Width(r) \in {2, 6}
    BY <1>2, <1>3, SlotTests, ZeroTests DEF k, r
  <1>5. CASE r = 0 /\ SetType("NOT_MAPPED")
    <2>1. "NOT_MAPPED" = TypeOfKind(layout[i].kind) /\ layout[i].kind \notin {"mem64", "reserved"}
      BY <1>4, <1>5 DEF TypeOfKind, k
    <2> QED  BY <1>1, <1>5, <2>1, ClassifyOne DEF BarTypes
  <1>6. CASE IsIO(r) /\ SetType("IO")
    <2>1. "IO" = TypeOfKind(layout[i].kind) /\ layout[i].kind \notin {"mem64", "reserved"}
      BY <1>4, <1>6 DEF TypeOfKind, k
    <2> QED  BY <1>1, <1>6, <2>1, ClassifyOne DEF BarTypes
  <1>7. CASE r # 0 /\ ~IsIO(r) /\ Width(r) = 0 /\ SetType("BAR32")
    <2>1. "BAR32" = TypeOfKind(layout[i].kind) /\ layout[i].kind \notin {"mem64", "reserved"}
      BY <1>4, <1>7 DEF TypeOfKind, k
    <2> QED  BY <1>1, <1>7, <2>1, ClassifyOne DEF BarTypes
  <1>8. CASE /\ ~IsIO(r) /\ Width(r) = 4
             /\ bar_types' = [bar_types EXCEPT ![i] = "BAR64", ![i + 1] = "NOT_MAPPED"]
             /\ i' = i + 2
             /\ UNCHANGED <<pc, failed>>
    <2>1. layout[i].kind = "mem64"
      BY <1>4, <1>8 DEF k
    <2>2. i + 1 \in Numbers /\ layout[i + 1].kind = "upper"
      BY <1>1, <2>1, LayoutSlots DEF IInv
    <2>3. bar_types' \in [Numbers -> BarTypes]
      BY <1>8 DEF IInv, TypeOK, BarTypes
    <2>4. TypeOK'
      <3>1. i' \in 0 .. PDA_MAX_PCI_32_BARS
        BY <1>8, <2>2, <1>1, BarsAssumption DEF Numbers
      <3> QED  BY <1>1, <1>8, <2>3, <3>1 DEF IInv, TypeOK
    <2>5. ClassifyOK'
      <3>1. ASSUME NEW n \in Numbers, n < i'
            PROVE  TypeRight(n)' /\ layout'[n].kind # "reserved"
        <4>1. n < i \/ n = i \/ n = i + 1
          BY <3>1, <1>8, <1>1, BarsAssumption DEF Numbers
        <4>2. i \in Int
          BY <1>1, BarsAssumption DEF Numbers
        <4>3. CASE n < i
          <5>1. n # i /\ n # i + 1
            BY <4>2, <4>3
          <5> QED  BY <5>1, <4>3, <1>1, <1>8 DEF IInv, TypeOK, TypeRight, ClassifyOK
        <4>4. CASE n = i
          <5>1. i # i + 1
            BY <4>2
          <5>2. bar_types'[n] = "BAR64"
            BY <5>1, <4>4, <1>1, <1>8, <2>2 DEF IInv, TypeOK
          <5> QED  BY <5>2, <4>4, <1>1, <2>1 DEF TypeRight, TypeOfKind
        <4>5. CASE n = i + 1
          <5>1. bar_types'[n] = "NOT_MAPPED"
            BY <4>5, <1>1, <1>8, <2>2 DEF IInv, TypeOK
          <5> QED  BY <5>1, <4>5, <1>1, <2>2 DEF TypeRight, TypeOfKind
        <4> QED  BY <4>1, <4>3, <4>4, <4>5
      <3>2. ASSUME i' \in Numbers, layout'[i'].kind = "upper" PROVE FALSE
        <4>1. i' - 1 = i + 1
          BY <1>1, <1>8, BarsAssumption DEF Numbers
        <4> QED  BY <3>2, <4>1, <1>1, <2>2, LayoutSlots DEF IInv
      <3> QED  BY <3>1, <3>2 DEF ClassifyOK
    <2>6. LibpciOK' /\ FreshOK' /\ MappedOK'
      BY <1>1, <1>8 DEF IInv, LibpciOK, FreshOK, MappedOK, MappedRight
    <2> QED  BY <1>1, <2>4, <2>5, <2>6 DEF IInv
  <1>9. CASE /\ ~IsIO(r) /\ Width(r) \in {2, 6}
             /\ pc' = "idle" /\ failed' = TRUE
             /\ UNCHANGED <<bar_types, i>>
    <2>1. layout[i].kind = "reserved"
      BY <1>4, <1>9 DEF k
    <2>2. TypeOK'
      BY <1>1, <1>9 DEF IInv, TypeOK
    <2>3. ClassifyOK' /\ LibpciOK' /\ MappedOK'
      BY <1>1, <1>9 DEF IInv, ClassifyOK, LibpciOK, MappedOK, MappedRight
    <2>4. FreshOK'
      BY <1>1, <1>9, <2>1 DEF IInv, FreshOK
    <2> QED  BY <1>1, <2>2, <2>3, <2>4 DEF IInv
  <1> QED  BY <1>5, <1>6, <1>7, <1>8, <1>9 DEF PciDevice_classify_bars, Reserved, r

(* The calls and the ends of the loops. *)
LEMMA ControlStep == IInv /\ (PciDevice_init_bars \/ EndClassify \/ EndInit) => IInv'
  <1> SUFFICES ASSUME IInv, PciDevice_init_bars \/ EndClassify \/ EndInit PROVE IInv'
    OBVIOUS
  <1>1. 0 \in 0 .. PDA_MAX_PCI_32_BARS /\ \A n \in Numbers : n \in Int /\ n >= 0 /\ n < PDA_MAX_PCI_32_BARS
    BY BarsAssumption DEF Numbers
  <1>2. CASE PciDevice_init_bars
    <2>1. CASE pc' = "classify"
      <3>1. TypeOK'
        BY <1>1, <1>2, <2>1 DEF PciDevice_init_bars, IInv, TypeOK
      <3>2. ClassifyOK'
        <4>1. i' = 0 /\ layout' = layout
          BY <1>2, <2>1 DEF PciDevice_init_bars
        <4>2. 0 \in Numbers => layout[0].kind # "upper"
          BY LayoutSlots DEF IInv
        <4> QED  BY <4>1, <4>2, <1>1 DEF ClassifyOK
      <3>3. LibpciOK' /\ FreshOK' /\ MappedOK'
        BY <1>2, <2>1 DEF PciDevice_init_bars, IInv, LibpciOK, FreshOK, MappedOK, MappedRight
      <3> QED  BY <1>2, <3>1, <3>2, <3>3 DEF PciDevice_init_bars, IInv
    <2>2. CASE UNCHANGED <<pc, i, failed>>
      BY <1>2, <2>2 DEF PciDevice_init_bars, IInv, TypeOK, ClassifyOK, LibpciOK, FreshOK,
                        MappedOK, MappedRight, TypeRight, SizeRight
    <2> QED  BY <1>2, <2>1, <2>2 DEF PciDevice_init_bars
  <1>3. CASE EndClassify
    <2>1. TypeOK'
      BY <1>1, <1>3 DEF EndClassify, IInv, TypeOK
    <2>2. LibpciOK'
      <3> SUFFICES ASSUME pc' = "libpci" PROVE LibpciOK'
        BY DEF LibpciOK
      <3>1. \A n \in Numbers : n < i
        BY <1>1, <1>3, BarsAssumption DEF EndClassify, IInv, TypeOK
      <3>2. ~bar_init
        BY <1>3 DEF EndClassify, IInv, FreshOK
      <3> QED  BY <1>1, <1>3, <3>1, <3>2 DEF EndClassify, IInv, ClassifyOK, FreshOK, LibpciOK,
                                            TypeRight
    <2>3. ClassifyOK' /\ MappedOK'
      BY <1>3 DEF EndClassify, IInv, ClassifyOK, MappedOK, MappedRight
    <2>4. ASSUME pc' = "libpci" PROVE FreshOK'
      BY <1>3, <2>4 DEF EndClassify, IInv, FreshOK
    <2>5. ASSUME pc' = "idle" PROVE FreshOK'
      <3>1. \A n \in Numbers : n < i
        BY <1>1, <1>3, BarsAssumption DEF EndClassify, IInv, TypeOK
      <3>2. \A n \in Numbers : TypeRight(n)' /\ bar_sizes'[n] = 0
        BY <1>3, <3>1 DEF EndClassify, IInv, ClassifyOK, FreshOK, TypeRight
      <3>3. bar_init' /\ unlisted' /\ failed' = failed /\ layout' = layout
        BY <1>3, <2>5 DEF EndClassify
      <3> QED  BY <2>5, <3>2, <3>3 DEF IInv, FreshOK, SizeRight
    <2>6. FreshOK'
      BY <1>3, <2>4, <2>5 DEF EndClassify
    <2> QED  BY <1>3, <2>1, <2>2, <2>3, <2>6 DEF EndClassify, IInv
  <1>4. CASE EndInit
    <2>1. TypeOK'
      BY <1>4 DEF EndInit, IInv, TypeOK
    <2>2. FreshOK'
      <3>1. \A n \in Numbers : n < i
        BY <1>1, <1>4, BarsAssumption DEF EndInit, IInv, TypeOK
      <3> QED  BY <1>4, <3>1 DEF EndInit, IInv, LibpciOK, FreshOK, TypeRight, SizeRight
    <2>3. ClassifyOK' /\ LibpciOK' /\ MappedOK'
      BY <1>4 DEF EndInit, IInv, ClassifyOK, LibpciOK, MappedOK, MappedRight
    <2> QED  BY <1>4, <2>1, <2>2, <2>3 DEF EndInit, IInv
  <1> QED  BY <1>2, <1>3, <1>4

(***************************************************************************)
(* An iteration of the second loop: libpci's address confirms the type of  *)
(* every register, and it leaves the size of a virtual one at zero.        *)
(***************************************************************************)
LEMMA LibpciStep == IInv /\ PciDevice_invoke_libpci => IInv'
  <1> SUFFICES ASSUME IInv, PciDevice_invoke_libpci PROVE IInv'
    OBVIOUS
  <1> DEFINE k == layout[i].kind
             b == layout[i].base
             r == layout[i].reg
  <1>1. /\ pc = "libpci" /\ i \in Numbers /\ i' = i + 1
        /\ UNCHANGED <<layout, bar, bar_init, pc, failed, unlisted>>
    BY BarsAssumption DEF PciDevice_invoke_libpci, IInv, TypeOK, Numbers
  <1>2. SlotOK(layout[i]) /\ k # "reserved" /\ bar_types[i] = TypeOfKind(k) /\ bar_sizes[i] = 0
    BY <1>1, LayoutSlots DEF IInv, LibpciOK, TypeRight, TypeOK, Numbers
  <1>3. bar_types \in [Numbers -> BarTypes] /\ bar_sizes \in [Numbers -> 0 .. 2]
    BY DEF IInv, TypeOK
  <1>4. layout[i].size \in 0 .. 2
    BY <1>2, SlotTests
  <1>5. bar_types' = bar_types /\ bar_sizes' = [bar_sizes EXCEPT ![i] =
                IF k \in {"mem32", "mem64"} THEN layout[i].size ELSE 0]
    <2>1. CASE b # 0 /\ r = 0
      <3>1. bar_types' = [bar_types EXCEPT ![i] = "NOT_MAPPED"] /\ bar_sizes' = bar_sizes
        BY <2>1 DEF PciDevice_invoke_libpci
      <3>2. k \in {"virtual", "virtual64"}
        BY <1>2, <2>1, SlotTests
      <3> QED  BY <1>1, <1>2, <1>3, <3>1, <3>2 DEF TypeOfKind
    <2>2. CASE b = 0 \/ r # 0
      <3> k \in {"none", "unassigned", "upper", "io", "mem32", "mem64"} /\ ~Reserved(b)
        BY <1>2, <2>2, SlotTests, ZeroTests DEF Reserved
      <3>1. bar_types' = Corrected(b) /\ PciDevice_invoke_libpci_set_barsize(Corrected(b))
        BY <2>2 DEF PciDevice_invoke_libpci
      <3>2. Corrected(b) = bar_types
        <4>1. CASE b = 0
          <5>1. k \in {"none", "unassigned", "upper"}
            BY <1>2, <4>1, SlotTests
          <5>2. bar_types[i] = "NOT_MAPPED"
            BY <1>2, <5>1 DEF TypeOfKind
          <5> QED  BY <1>1, <1>3, <4>1, <5>2 DEF Corrected
        <4>2. CASE b # 0
          <5>1. k \in {"io", "mem32", "mem64"} /\ b = r
            BY <1>2, <2>2, <4>2, SlotTests
          <5>2. CASE k = "io"
            BY <1>1, <1>2, <1>3, <4>2, <5>1, <5>2, SlotTests DEF Corrected, TypeOfKind
          <5>3. CASE k = "mem32"
            BY <1>1, <1>2, <1>3, <4>2, <5>1, <5>3, SlotTests DEF Corrected, TypeOfKind
          <5>4. CASE k = "mem64"
            BY <1>1, <1>2, <1>3, <4>2, <5>1, <5>4, SlotTests DEF Corrected, TypeOfKind
          <5> QED  BY <5>1, <5>2, <5>3, <5>4
        <4> QED  BY <4>1, <4>2
      <3>3. bar_types[i] \in {"BAR32", "BAR64"} <=> k \in {"mem32", "mem64"}
        BY <1>2 DEF TypeOfKind
      <3> QED  BY <3>1, <3>2, <3>3 DEF PciDevice_invoke_libpci_set_barsize
    <2> QED  BY <2>1, <2>2
  <1> HIDE DEF k, b, r
  <1>6. TypeOK'
    <2>1. i' \in 0 .. PDA_MAX_PCI_32_BARS
      BY <1>1, BarsAssumption DEF Numbers
    <2>2. bar_sizes' \in [Numbers -> 0 .. 2]
      BY <1>1, <1>3, <1>4, <1>5
    <2> QED  BY <1>1, <1>5, <2>1, <2>2 DEF IInv, TypeOK
  <1>7. LibpciOK'
    <2> SUFFICES ASSUME NEW n \in Numbers
                 PROVE  /\ TypeRight(n)' /\ layout'[n].kind # "reserved"
                        /\ n < i' => SizeRight(n)'
                        /\ n >= i' => bar_sizes'[n] = 0
      BY DEF LibpciOK
    <2>1. TypeRight(n)' /\ layout'[n].kind # "reserved"
      BY <1>1, <1>5 DEF IInv, LibpciOK, TypeRight
    <2>2. (n < i' <=> n < i \/ n = i) /\ (n >= i' => n >= i /\ n # i)
      BY <1>1, BarsAssumption DEF Numbers
    <2>3. n = i => SizeRight(n)'
      <3>1. ~unlisted'
        BY <1>1 DEF IInv, FreshOK
      <3> QED  BY <1>1, <1>3, <1>5, <3>1 DEF SizeRight, k
    <2>4. n # i => bar_sizes'[n] = bar_sizes[n]
      BY <1>3, <1>5
    <2>5. n < i /\ n # i => SizeRight(n)'
      BY <1>1, <2>4 DEF IInv, LibpciOK, SizeRight
    <2> QED  BY <1>1, <2>1, <2>2, <2>3, <2>4, <2>5 DEF IInv, LibpciOK
  <1>8. ClassifyOK' /\ FreshOK' /\ MappedOK'
    BY <1>1 DEF IInv, ClassifyOK, FreshOK, MappedOK, MappedRight
  <1> QED  BY <1>1, <1>6, <1>7, <1>8 DEF IInv

(* A Bar object is made of types and sizes that are right. *)
LEMMA GetBarStep == IInv /\ PciDevice_getBar => IInv'
  <1> SUFFICES ASSUME IInv, PciDevice_getBar PROVE IInv'
    OBVIOUS
  <1>1. UNCHANGED <<layout, bar_types, bar_sizes, bar_init, i, pc, failed, unlisted>> /\ bar_init
    BY DEF PciDevice_getBar
  <1>2. CASE bar' = bar
    BY <1>1, <1>2 DEF IInv, TypeOK, ClassifyOK, LibpciOK, FreshOK, MappedOK, MappedRight,
                      TypeRight, SizeRight
  <1>3. CASE bar' # bar
    <2>1. PICK n \in Numbers : /\ bar_types[n] \in {"BAR32", "BAR64"} /\ bar_sizes[n] # 0
                               /\ bar' = [bar EXCEPT ![n] = Bar_new(n, PhysicalAddress(n))]
      BY <1>3 DEF PciDevice_getBar
    <2>2. TypeRight(n) /\ SizeRight(n) /\ SlotOK(layout[n])
      BY <1>1, LayoutSlots DEF IInv, FreshOK
    <2>3. layout[n].kind \in {"mem32", "mem64"}
      BY <2>1, <2>2, SlotTests DEF TypeRight, TypeOfKind
    <2>4. bar_types[n] = "BAR64" <=> layout[n].kind = "mem64"
      BY <2>2, <2>3 DEF TypeRight, TypeOfKind
    <2>5. layout[n].kind = "mem64" => layout[n + 1].reg \in 0 .. 15
      BY LayoutSlots, SlotTests DEF IInv
    <2>6. Address(layout[n].reg) \in 0 .. 15 /\ layout[n].size \in 0 .. 2
      BY <2>2, SlotTests
    <2>7. Bar_new(n, PhysicalAddress(n)) =
             [type |-> bar_types[n], size |-> layout[n].size, low |-> Address(layout[n].reg),
              high |-> IF layout[n].kind = "mem64" THEN layout[n + 1].reg ELSE 0]
      BY <2>1, <2>2, <2>3, <2>4 DEF Bar_new, PhysicalAddress, SizeRight
    <2>8. bar \in [Numbers -> [type : BarTypes, size : 0 .. 2, low : 0 .. 15, high : 0 .. 15]]
      BY DEF IInv, TypeOK
    <2>9. TypeOK'
      <3>1. bar' \in [Numbers -> [type : BarTypes, size : 0 .. 2, low : 0 .. 15, high : 0 .. 15]]
        BY <2>1, <2>5, <2>6, <2>7, <2>8 DEF BarTypes
      <3> QED  BY <1>1, <3>1 DEF IInv, TypeOK
    <2>10. MappedOK'
      <3> SUFFICES ASSUME NEW m \in Numbers, bar'[m] # NoBar PROVE MappedRight(m)'
        BY DEF MappedOK
      <3>1. CASE m = n
        <4>1. bar'[m] = Bar_new(n, PhysicalAddress(n))
          BY <2>1, <2>8, <3>1
        <4> QED  BY <1>1, <2>3, <2>7, <3>1, <4>1 DEF MappedRight
      <3>2. CASE m # n
        <4>1. bar'[m] = bar[m]
          BY <2>1, <2>8, <3>2
        <4> QED  BY <1>1, <4>1 DEF IInv, MappedOK, MappedRight
      <3> QED  BY <3>1, <3>2
    <2>11. ClassifyOK' /\ LibpciOK' /\ FreshOK'
      BY <1>1 DEF IInv, ClassifyOK, LibpciOK, FreshOK, TypeRight, SizeRight
    <2> QED  BY <1>1, <2>9, <2>10, <2>11 DEF IInv
  <1> QED  BY <1>2, <1>3

(* Every step preserves the inductive invariant. *)
LEMMA NextIInv == IInv /\ [Next]_vars => IInv'
  <1> SUFFICES ASSUME IInv, [Next]_vars PROVE IInv'
    OBVIOUS
  <1>1. CASE Next
    BY <1>1, ClassifyStep, ControlStep, LibpciStep, GetBarStep DEF Next
  <1>2. CASE UNCHANGED vars
    BY <1>2 DEF vars, IInv, TypeOK, ClassifyOK, LibpciOK, FreshOK, MappedOK, MappedRight,
                TypeRight, SizeRight
  <1> QED  BY <1>1, <1>2

(* Hence it holds in every reachable state. *)
LEMMA Invariance == Spec => []IInv
  BY InitIInv, NextIInv, PTL DEF Spec

-----------------------------------------------------------------------------
(***************************************************************************)
(* The indices of the loops of PciDevice_classify_bars and of              *)
(* PciDevice_invoke_libpci, which skip the upper half of a 64-bit BAR or   *)
(* write to it, stay within the arrays.                                    *)
(***************************************************************************)
THEOREM BarsTypeCorrect == Spec => []TypeOK
  BY Invariance, PTL DEF IInv

(***************************************************************************)
(* What PciDevice_init_bars reads from two sources, and PciDevice_getBar   *)
(* maps, is what the device has, for any device; only the sizes are        *)
(* missing, and nothing can be mapped, if libpci does not list it.         *)
(***************************************************************************)
THEOREM BarsAreTheDevices == Spec => []MatchesLayout
  <1>1. IInv => MatchesLayout
    BY DEF IInv, FreshOK, MappedOK, MappedRight, TypeRight, SizeRight, MatchesLayout
  <1> QED  BY <1>1, Invariance, PTL

-----------------------------------------------------------------------------
(* Interrupts: the inductive invariant *)

(* Only a registered callback has a thread, so no thread is started twice. *)
ThreadRegistered == isr # "none" => interrupt

(***************************************************************************)
(* Where the thread can be once a callback began after the cancellation:   *)
(* past read(), on the way to the pwrite that ends it.                     *)
(***************************************************************************)
LateIsPastRead ==
    /\ late \in {0, 1}
    /\ late = 1 => cancelled /\ isr \in {"call", "enable", "exited"}

IsrIInv ==
    /\ IsrTypeOK /\ ThreadRegistered /\ MaskedIsReported /\ LateIsPastRead

-----------------------------------------------------------------------------
(* The initial state satisfies the inductive invariant. *)
LEMMA IsrInitIInv == IsrInit => IsrIInv
  <1> SUFFICES ASSUME IsrInit PROVE IsrIInv
    OBVIOUS
  <1>1. IsrTypeOK
    <2>1. raised \in 0 .. MaxEvents /\ count \in Nat /\ seen \in 0 .. count /\ late \in Nat
      BY IsrAssumption DEF IsrInit
    <2> QED  BY <2>1, Zenon DEF IsrInit, IsrTypeOK
  <1>2. ThreadRegistered /\ MaskedIsReported /\ LateIsPastRead
    BY DEF IsrInit, ThreadRegistered, MaskedIsReported, LateIsPastRead
  <1> QED  BY <1>1, <1>2 DEF IsrIInv

(* The device and the adapter: counting an event makes the count differ    *)
(* from the one that any process has seen.                                 *)
LEMMA KernelStep == IsrIInv /\ (Raise \/ irqhandler) => IsrIInv'
  <1> SUFFICES ASSUME IsrIInv, Raise \/ irqhandler PROVE IsrIInv'
    OBVIOUS
  <1> USE DEF IsrIInv, IsrTypeOK, ThreadRegistered, MaskedIsReported,
             LateIsPastRead, deviceVars
  <1>1. CASE Raise
    BY <1>1, IsrAssumption DEF Raise
  <1>2. CASE irqhandler
    BY <1>2 DEF irqhandler
  <1> QED  BY <1>1, <1>2

(***************************************************************************)
(* The ISR thread.  Only EnableInterrupt enters the read, with the line    *)
(* unmasked; only ReadEvent counts a late callback, and no step leads from *)
(* there back to the read, as EnableInterrupt is a cancellation point.     *)
(***************************************************************************)
LEMMA ThreadStep == IsrIInv /\ IsrThread => IsrIInv'
  <1> SUFFICES ASSUME IsrIInv, IsrThread PROVE IsrIInv'
    OBVIOUS
  <1> USE DEF IsrIInv, IsrTypeOK, ThreadRegistered, MaskedIsReported,
             LateIsPastRead, kernelVars, deviceVars
  <1>1. CASE ReadCommand
    BY <1>1 DEF ReadCommand
  <1>2. CASE EnableInterrupt
    BY <1>2 DEF EnableInterrupt
  <1>3. CASE ReadEvent
    BY <1>3 DEF ReadEvent
  <1>4. CASE Callback
    BY <1>4 DEF Callback
  <1>5. CASE Cancel
    BY <1>5 DEF Cancel
  <1> QED  BY <1>1, <1>2, <1>3, <1>4, <1>5 DEF IsrThread

(***************************************************************************)
(* The application.  device->interrupt stays set, so that a registration   *)
(* finds no thread, and none of whose callbacks could have been late.      *)
(***************************************************************************)
LEMMA ApplicationStep ==
    IsrIInv /\ (\/ PciDevice_registerISR \/ PciDevice_killISR
                \/ PciDevice_delete \/ FreeDevice) => IsrIInv'
  <1> SUFFICES ASSUME IsrIInv,
                      \/ PciDevice_registerISR \/ PciDevice_killISR
                      \/ PciDevice_delete \/ FreeDevice
               PROVE  IsrIInv'
    OBVIOUS
  <1> USE DEF IsrIInv, IsrTypeOK, ThreadRegistered, MaskedIsReported,
             LateIsPastRead, kernelVars, deviceVars
  <1>1. CASE PciDevice_registerISR
    <2>1. isr = "none" /\ late = 0
      BY <1>1 DEF PciDevice_registerISR
    <2>2. isr_init' \in BOOLEAN
      <3>1. isr_init' = TRUE \/ isr_init' = isr_init
        BY <1>1, Zenon DEF PciDevice_registerISR, PciDevice_isr_init
      <3> QED  BY <3>1, Zenon
    <2>3. seen' \in 0 .. count
      BY <1>1 DEF PciDevice_registerISR, PciDevice_isr_init
    <2>4. isr' \in {"none", "start"} /\ interrupt' = TRUE
      BY <1>1, <2>1 DEF PciDevice_registerISR
    <2> QED  BY <1>1, <2>1, <2>2, <2>3, <2>4 DEF PciDevice_registerISR
  <1>2. CASE PciDevice_killISR
    BY <1>2 DEF PciDevice_killISR
  <1>3. CASE PciDevice_delete
    BY <1>3 DEF PciDevice_delete
  <1>4. CASE FreeDevice
    BY <1>4 DEF FreeDevice
  <1> QED  BY <1>1, <1>2, <1>3, <1>4

(* Every step preserves the inductive invariant. *)
LEMMA IsrNextIInv == IsrIInv /\ [IsrNext]_isrVars => IsrIInv'
  <1>1. IsrIInv /\ UNCHANGED isrVars => IsrIInv'
    BY DEF IsrIInv, IsrTypeOK, ThreadRegistered, MaskedIsReported, LateIsPastRead, isrVars
  <1> QED  BY <1>1, KernelStep, ThreadStep, ApplicationStep DEF IsrNext

(* The inductive invariant is one. *)
LEMMA IsrInvariance == IsrSpec => []IsrIInv
  BY IsrInitIInv, IsrNextIInv, PTL DEF IsrSpec

-----------------------------------------------------------------------------
(* Every variable keeps its type, and a process has never seen more events *)
(* of the UIO file than the adapter's irqhandler has reported to it.       *)
THEOREM IsrTypeCorrect == IsrSpec => []IsrTypeOK
  <1>1. IsrIInv => IsrTypeOK
    BY DEF IsrIInv
  <1> QED  BY <1>1, IsrInvariance, PTL

(***************************************************************************)
(* A thread that waits in read() with its line masked by irqhandler has an *)
(* event to read: pci_check_and_mask_intx never disables a line for good.  *)
(***************************************************************************)
THEOREM LineNotStuck == IsrSpec => []MaskedIsReported
  <1>1. IsrIInv => MaskedIsReported
    BY DEF IsrIInv
  <1> QED  BY <1>1, IsrInvariance, PTL

(***************************************************************************)
(* After pthread_cancel in PciDevice_killISR or PciDevice_delete the       *)
(* thread calls the callback at most once more, for any number of          *)
(* interrupts and however often it is cancelled.                           *)
(***************************************************************************)
THEOREM OneLateCallback == IsrSpec => []LateCallbackOnce
  <1>1. IsrIInv => LateCallbackOnce
    BY DEF IsrIInv, LateIsPastRead, LateCallbackOnce
  <1> QED  BY <1>1, IsrInvariance, PTL

====
