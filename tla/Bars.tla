-------------------------------- MODULE Bars --------------------------------
(***************************************************************************)
(* The base address registers of a device: PciDevice_init_bars classifies  *)
(* them from the configuration space and then corrects types and sizes     *)
(* with what libpci knows; PciDevice_getBar maps a BAR once and keeps it.  *)
(*                                                                         *)
(* A register is modelled by its four low bits: bit 0 is set for I/O, bits *)
(* 1 and 2 are the width, and bit 3 stands for the whole address.          *)
(***************************************************************************)
EXTENDS Integers

CONSTANTS PDA_MAX_PCI_32_BARS,  \* number of registers (6 in the code)
          UpperRegs,            \* contents of the upper half of a 64-bit BAR (bound)
          Faults                \* "open": pda_spinOpen gives up; "mmap": mmap fails

ASSUME BarsAssumption ==
    /\ PDA_MAX_PCI_32_BARS \in Nat \ {0}
    /\ UpperRegs \subseteq 0 .. 15
    /\ Faults \subseteq {"open", "mmap"}

Numbers == 0 .. PDA_MAX_PCI_32_BARS - 1

BarTypes == {"NOT_MAPPED", "IO", "BAR32", "BAR64"}

-----------------------------------------------------------------------------
(***************************************************************************)
(* The device and libpci (external).  A slot is a register in the          *)
(* configuration space, and libpci's base_addr and size for it.  libpci    *)
(* has no address for an upper half; the register of a virtual BAR reads   *)
(* zero and its address is known to the kernel only.                       *)
(***************************************************************************)
Slot(k, r, b, s) == [kind |-> k, reg |-> r, base |-> b, size |-> s]

LowerSlots ==
    { Slot("none", 0, 0, 0), Slot("io", 1, 1, 1), Slot("io", 9, 9, 1),
      Slot("unassigned", 0, 0, 1), Slot("mem32", 8, 8, 1),
      Slot("mem64", 4, 4, 2), Slot("mem64", 12, 12, 2),
      Slot("virtual", 0, 8, 1), Slot("virtual64", 0, 12, 2),
      Slot("reserved", 10, 10, 1) }

UpperSlots == {Slot("upper", r, 0, 0) : r \in UpperRegs \cup {0}}

Layouts ==
    {l \in [Numbers -> LowerSlots \cup UpperSlots] :
        \A n \in Numbers :
            /\ l[n].kind = "upper" <=> n > 0 /\ l[n - 1].kind \in {"mem64", "virtual64"}
            /\ l[n].kind = "upper" /\ l[n - 1].kind = "virtual64" => l[n].reg = 0
            /\ l[n].kind \in {"mem64", "virtual64"} => n + 1 \in Numbers}

VARIABLES
    layout,     \* the device; never changes
    bar_types,  \* device->bar_types
    bar_sizes,  \* device->bar_sizes
    bar,        \* device->bar: the mapped BARs
    bar_init,   \* device->bar_init
    i,          \* loop variable of the two loops
    pc,         \* "idle", "classify", "libpci"
    failed,     \* the last PciDevice_classify_bars returned an error
    unlisted    \* history: libpci's scan did not have the device

vars == <<layout, bar_types, bar_sizes, bar, bar_init, i, pc, failed, unlisted>>

NoBar == [type |-> "NOT_MAPPED", size |-> 0, low |-> 0, high |-> 0]

Init ==
    /\ layout \in Layouts
    /\ bar_types = [n \in Numbers |-> "NOT_MAPPED"]
    /\ bar_sizes = [n \in Numbers |-> 0]
    /\ bar = [n \in Numbers |-> NoBar]
    /\ bar_init = FALSE /\ failed = FALSE /\ unlisted = FALSE
    /\ i = 0
    /\ pc = "idle"

-----------------------------------------------------------------------------
(* PciDevice_init_bars: open and read the configuration space. *)
PciDevice_init_bars ==
    /\ pc = "idle" /\ ~bar_init
    /\ \/ pc' = "classify" /\ i' = 0 /\ failed' = FALSE
       \/ "open" \in Faults /\ UNCHANGED <<pc, i, failed>>
    /\ UNCHANGED <<layout, bar_types, bar_sizes, bar, bar_init, unlisted>>

IsIO(r)     == r % 2 = 1
Width(r)    == (r % 8) - (r % 2)
Reserved(r) == ~IsIO(r) /\ Width(r) \in {2, 6}

(* Set bar_types[i], and go on with the next register. *)
SetType(t) ==
    /\ bar_types' = [bar_types EXCEPT ![i] = t]
    /\ i' = i + 1
    /\ UNCHANGED <<pc, failed>>

(* Bug: the upper half of a 64-bit BAR is classified like a BAR. *)
ClassifyUpperHalf ==
    LET r == layout[i].reg IN
    /\ pc = "classify" /\ i < PDA_MAX_PCI_32_BARS
    /\ \/ r = 0 /\ SetType("NOT_MAPPED")
       \/ IsIO(r) /\ SetType("IO")
       \/ r # 0 /\ ~IsIO(r) /\ Width(r) = 0 /\ SetType("BAR32")
       \/ ~IsIO(r) /\ Width(r) = 4 /\ SetType("BAR64")
       \/ /\ Reserved(r)
          /\ pc' = "idle" /\ failed' = TRUE
          /\ UNCHANGED <<bar_types, i>>
    /\ UNCHANGED <<layout, bar_sizes, bar, bar_init, unlisted>>

(***************************************************************************)
(* An iteration of PciDevice_classify_bars.  A 64-bit BAR takes its        *)
(* successor with it; a width that is reserved makes the whole call fail.  *)
(***************************************************************************)
PciDevice_classify_bars ==
    LET r == layout[i].reg IN
    /\ pc = "classify" /\ i < PDA_MAX_PCI_32_BARS
    /\ \/ r = 0 /\ SetType("NOT_MAPPED")
       \/ IsIO(r) /\ SetType("IO")
       \/ r # 0 /\ ~IsIO(r) /\ Width(r) = 0 /\ SetType("BAR32")
       \/ /\ ~IsIO(r) /\ Width(r) = 4
          /\ bar_types' = [bar_types EXCEPT ![i] = "BAR64", ![i + 1] = "NOT_MAPPED"]
          /\ i' = i + 2
          /\ UNCHANGED <<pc, failed>>
       \/ /\ Reserved(r)
          /\ pc' = "idle" /\ failed' = TRUE
          /\ UNCHANGED <<bar_types, i>>
    /\ UNCHANGED <<layout, bar_sizes, bar, bar_init, unlisted>>

(***************************************************************************)
(* libpci scans the buses.  If it does not list the device, nothing more   *)
(* is done, and the initialization has succeeded: all sizes are zero.  (A  *)
(* malformed bus ID, which is an error, cannot come here: the ID is made   *)
(* by a format, or is a directory entry that has been parsed by one.)      *)
(***************************************************************************)
EndClassify ==
    /\ pc = "classify" /\ i >= PDA_MAX_PCI_32_BARS
    /\ \/ pc' = "libpci" /\ i' = 0 /\ UNCHANGED <<bar_init, unlisted>>
       \/ pc' = "idle" /\ bar_init' = TRUE /\ unlisted' = TRUE /\ UNCHANGED i
    /\ UNCHANGED <<layout, bar_types, bar_sizes, bar, failed>>

(* Register i gets its size if its type, now t[i], is that of a memory BAR. *)
PciDevice_invoke_libpci_set_barsize(t) ==
    bar_sizes' = [bar_sizes EXCEPT
        ![i] = IF t[i] \in {"BAR32", "BAR64"} THEN layout[i].size ELSE 0]

(* What libpci's base address says of register i, given the types so far. *)
Corrected(b) ==
    IF b = 0 THEN [bar_types EXCEPT ![i] = "NOT_MAPPED"]
    ELSE IF IsIO(b) THEN [bar_types EXCEPT ![i] = "IO"]
    ELSE IF Width(b) = 0 THEN [bar_types EXCEPT ![i] = "BAR32"]
    ELSE IF Reserved(b) \/ bar_types[i] = "BAR64" THEN bar_types
    ELSE [bar_types EXCEPT ![i] = "BAR64", ![i + 1] = "NOT_MAPPED"]

(***************************************************************************)
(* An iteration of the loop of PciDevice_invoke_libpci.  A register that   *)
(* reads zero while libpci has an address is virtual and stays unmapped;   *)
(* every other type is corrected, and the size is set, unless the width is *)
(* reserved.                                                               *)
(***************************************************************************)
PciDevice_invoke_libpci ==
    LET b == layout[i].base IN
    /\ pc = "libpci" /\ i < PDA_MAX_PCI_32_BARS
    /\ \/ /\ b # 0 /\ layout[i].reg = 0
          /\ bar_types' = [bar_types EXCEPT ![i] = "NOT_MAPPED"]
          /\ UNCHANGED bar_sizes
       \/ /\ b = 0 \/ layout[i].reg # 0
          /\ bar_types' = Corrected(b)
          /\ IF Reserved(b) THEN UNCHANGED bar_sizes
             ELSE PciDevice_invoke_libpci_set_barsize(Corrected(b))
    /\ i' = i + 1
    /\ UNCHANGED <<layout, bar, bar_init, pc, failed, unlisted>>

EndInit ==
    /\ pc = "libpci" /\ i >= PDA_MAX_PCI_32_BARS
    /\ pc' = "idle" /\ bar_init' = TRUE
    /\ UNCHANGED <<layout, bar_types, bar_sizes, bar, i, failed, unlisted>>

-----------------------------------------------------------------------------
(* The address part of a register: everything but the flags. *)
Address(r) == r - (r % 8)

PhysicalAddress(n) ==
    [low  |-> Address(layout[n].reg),
     high |-> IF bar_types[n] = "BAR64" THEN layout[n + 1].reg ELSE 0]

(* The object Bar_new makes for register n. *)
Bar_new(n, a) ==
    [type |-> bar_types[n], size |-> bar_sizes[n], low |-> a.low, high |-> a.high]

(* Bug: the high word is shifted twice. *)
GetBarShiftsTwice ==
    /\ pc = "idle" /\ bar_init
    /\ \E n \in Numbers :
          /\ bar[n] = NoBar /\ bar_types[n] \in {"BAR32", "BAR64"} /\ bar_sizes[n] # 0
          /\ bar' = [bar EXCEPT ![n] =
                Bar_new(n, [PhysicalAddress(n) EXCEPT !.high = 16 * @])]
    /\ UNCHANGED <<layout, bar_types, bar_sizes, bar_init, i, pc, failed, unlisted>>

(***************************************************************************)
(* PciDevice_getBar of a register that has no Bar object: Bar_new opens    *)
(* and maps the BAR's file; if that fails, as it must for a BAR whose size *)
(* is not known, nothing is kept.                                          *)
(***************************************************************************)
PciDevice_getBar ==
    /\ pc = "idle" /\ bar_init
    /\ \E n \in Numbers :
          /\ bar[n] = NoBar /\ bar_types[n] \in {"BAR32", "BAR64"}
          /\ \/ bar_sizes[n] # 0 /\ bar' = [bar EXCEPT ![n] = Bar_new(n, PhysicalAddress(n))]
             \/ (bar_sizes[n] = 0 \/ Faults # {}) /\ UNCHANGED bar
    /\ UNCHANGED <<layout, bar_types, bar_sizes, bar_init, i, pc, failed, unlisted>>

Next ==
    \/ PciDevice_init_bars \/ PciDevice_classify_bars \/ EndClassify
    \/ PciDevice_invoke_libpci \/ EndInit
    \/ PciDevice_getBar

Spec == Init /\ [][Next]_vars

-----------------------------------------------------------------------------
(* Properties *)

(* Types; the loops stay within the arrays of PDA_MAX_PCI_32_BARS elements. *)
TypeOK ==
    /\ bar_types \in [Numbers -> BarTypes]
    /\ bar_sizes \in [Numbers -> 0 .. 2]
    /\ bar \in [Numbers -> [type : BarTypes, size : 0 .. 2, low : 0 .. 15, high : 0 .. 15]]
    /\ {bar_init, failed, unlisted} \subseteq BOOLEAN
    /\ i \in 0 .. PDA_MAX_PCI_32_BARS
    /\ pc \in {"idle", "classify", "libpci"}

TypeOfKind(k) ==
    CASE k = "io" -> "IO" [] k = "mem32" -> "BAR32" [] k = "mem64" -> "BAR64"
      [] OTHER -> "NOT_MAPPED"

(***************************************************************************)
(* The BARs are those of the device.  Once initialized, every register has *)
(* the type it has in the device: the upper half of a 64-bit BAR is no BAR *)
(* whatever it contains, nor is a virtual or an unassigned one; a memory   *)
(* BAR, and nothing else, has its size, unless libpci did not list the     *)
(* device.  The classification refuses a device for a reserved register,   *)
(* never for the contents of an upper half.  What is mapped is a memory    *)
(* BAR, at its whole 64-bit address and with its size.                     *)
(***************************************************************************)
MatchesLayout ==
    /\ bar_init => \A n \in Numbers :
          /\ bar_types[n] = TypeOfKind(layout[n].kind)
          /\ bar_sizes[n] = IF layout[n].kind \in {"mem32", "mem64"} /\ ~unlisted
                            THEN layout[n].size ELSE 0
    /\ failed => \E n \in Numbers : layout[n].kind = "reserved"
    /\ \A n \in Numbers : bar[n] # NoBar =>
          /\ layout[n].kind \in {"mem32", "mem64"}
          /\ bar[n].low = Address(layout[n].reg)
          /\ bar[n].high = IF layout[n].kind = "mem64" THEN layout[n + 1].reg ELSE 0
          /\ bar[n].size = layout[n].size

====
