------------------------ MODULE DeviceOperator_proofs ------------------------
(***************************************************************************)
(* Proofs about the device operator and the list of buffer IDs             *)
(* (DeviceOperator), for any devices, IDs, lists of IDs and buffers.       *)
(*                                                                         *)
(* Both loops read a directory that changes under them.  The inductive     *)
(* invariant says how far they have come: each device has been found as    *)
(* often as its ID was mentioned up to the present round, this round       *)
(* included if the position has passed it (FoundOK); the array holds what  *)
(* was there all the time up to the position, once (ListedOK).  CallOK and *)
(* ObjectsOK tie the call's step to the operator's objects and directory.  *)
(***************************************************************************)
EXTENDS DeviceOperator, FiniteSetTheorems, SequenceTheorems, TLAPS

-----------------------------------------------------------------------------
(* Directories and sequences *)

(* A set of numbers that is not empty has a least one. *)
LEMMA Least ==
    ASSUME NEW S \in SUBSET Nat, S # {}
    PROVE  \E e \in S : \A x \in S : e <= x
<1>1. \A x, y \in Nat : <<x, y>> \in OpToRel(<, Nat) <=> x < y  BY DEF OpToRel
<1>2. PICK less : /\ \A x, y \in Nat : <<x, y>> \in less <=> x < y
                  /\ IsWellFoundedOn(less, Nat)
      BY <1>1, NatLessThanWellFounded, Zenon
<1>3. IsWellFoundedOn(less, Nat) /\ S \subseteq Nat  BY <1>2
<1>4. PICK e \in S : \A x \in S : ~ (<<x, e>> \in less)  BY <1>3, WFMin, Zenon
<1>5. \A x \in S : ~ (x < e)  BY <1>2, <1>3, <1>4, Zenon
<1> QED  BY <1>5

(* readdir returns the first entry behind the position. *)
LEMMA NextEntryIs ==
    ASSUME NEW dir \in SUBSET Nat, Rest(dir) # {}
    PROVE  /\ NextEntry(dir) \in dir /\ NextEntry(dir) > call.at
           /\ \A x \in dir : x > call.at => NextEntry(dir) <= x
<1>1. Rest(dir) \in SUBSET Nat  BY DEF Rest
<1>2. \E e \in Rest(dir) : \A x \in Rest(dir) : e <= x  BY <1>1, Least
<1>3. NextEntry(dir) \in Rest(dir) /\ \A x \in Rest(dir) : NextEntry(dir) <= x
      BY <1>2 DEF NextEntry
<1> QED  BY <1>3 DEF Rest

(* How often an element is in a sequence, and in a longer one. *)
LEMMA TimesNat == ASSUME NEW T, NEW s \in Seq(T), NEW x PROVE Times(x, s) \in Nat
<1>1. IsFiniteSet(DOMAIN s)  BY FS_Interval
<1>2. {n \in DOMAIN s : s[n] = x} \in SUBSET (DOMAIN s)  OBVIOUS
<1> QED  BY <1>1, <1>2, FS_Subset, FS_CardinalityType DEF Times

LEMMA TimesAppend ==
    ASSUME NEW T, NEW s \in Seq(T), NEW y \in T, NEW x
    PROVE  Times(x, Append(s, y)) = Times(x, s) + (IF x = y THEN 1 ELSE 0)
<1> DEFINE a == Append(s, y)
           A == {n \in DOMAIN s : s[n] = x}
           B == {n \in DOMAIN a : a[n] = x}
<1>1. IsFiniteSet(DOMAIN s)  BY FS_Interval
<1>2. IsFiniteSet(A) /\ Cardinality(A) \in Nat
      BY <1>1, FS_Subset, FS_CardinalityType
<1>3. /\ Len(s) \in Nat /\ DOMAIN s = 1 .. Len(s) /\ DOMAIN a = 1 .. Len(s) + 1
      /\ \A n \in DOMAIN s : a[n] = s[n]
      /\ a[Len(s) + 1] = y
      BY AppendProperties
<1>4. Times(x, a) = Cardinality(B) /\ Times(x, s) = Cardinality(A)  BY DEF Times
<1>5. x = y => B = A \cup {Len(s) + 1} /\ Len(s) + 1 \notin A  BY <1>3
<1>6. x # y => B = A  BY <1>3
<1>7. x = y => Cardinality(B) = Cardinality(A) + 1  BY <1>2, <1>5, FS_AddElement
<1> HIDE DEF A, B
<1> QED  BY <1>2, <1>4, <1>6, <1>7

(* A sequence without repetition has each of its elements once. *)
LEMMA TimesOnce ==
    ASSUME NEW T, NEW s \in Seq(T), \A m, n \in DOMAIN s : s[m] = s[n] => m = n, NEW x
    PROVE  Times(x, s) = IF \E n \in DOMAIN s : s[n] = x THEN 1 ELSE 0
<1> DEFINE A == {n \in DOMAIN s : s[n] = x}
<1>1. ASSUME NEW n \in DOMAIN s, s[n] = x  PROVE Times(x, s) = 1
  <2>1. A = {n}  BY <1>1
  <2> QED  BY <2>1, FS_Singleton DEF Times
<1>2. ASSUME ~ \E n \in DOMAIN s : s[n] = x  PROVE Times(x, s) = 0
  <2>1. A = {}  BY <1>2
  <2> QED  BY <2>1, FS_EmptySet DEF Times
<1> QED  BY <1>1, <1>2

(* There is always an address for another object. *)
LEMMA FreshObject ==
    ASSUME NEW H \in SUBSET Nat, IsFiniteSet(H)
    PROVE  LET obj == CHOOSE o \in 1 .. Cardinality(H) + 1 : o \notin H
           IN  obj \in Nat /\ obj \notin H
<1> DEFINE c == Cardinality(H)
<1>1. c \in Nat  BY FS_CardinalityType
<1>2. \E o \in 1 .. c + 1 : o \notin H
  <2> SUFFICES ASSUME 1 .. c + 1 \in SUBSET H  PROVE FALSE  OBVIOUS
  <2>1. Cardinality(1 .. c + 1) <= c  BY FS_Subset
  <2>2. Cardinality(1 .. c + 1) = c + 1  BY <1>1, FS_Interval
  <2> QED  BY <1>1, <2>1, <2>2
<1> QED  BY <1>1, <1>2

(* How often x is among the first k elements of s. *)
CountTo(x, s, k) == Cardinality({n \in DOMAIN s : n <= k /\ s[n] = x})

LEMMA CountToNat ==
    ASSUME NEW T, NEW s \in Seq(T), NEW x, NEW k \in Int
    PROVE  /\ CountTo(x, s, k) \in Nat
           /\ k = 0 => CountTo(x, s, k) = 0
           /\ k >= Len(s) => CountTo(x, s, k) = Times(x, s)
<1> DEFINE A == {n \in DOMAIN s : n <= k /\ s[n] = x}
<1>1. IsFiniteSet(DOMAIN s)  BY FS_Interval
<1>2. A \in SUBSET (DOMAIN s)  OBVIOUS
<1>3. Cardinality(A) \in Nat  BY <1>1, <1>2, FS_Subset, FS_CardinalityType
<1>4. k = 0 => A = {}  OBVIOUS
<1>5. k >= Len(s) => A = {n \in DOMAIN s : s[n] = x}  OBVIOUS
<1> QED  BY <1>3, <1>4, <1>5, FS_EmptySet DEF CountTo, Times

(* One more mention is counted when it comes. *)
LEMMA CountToStep ==
    ASSUME NEW T, NEW s \in Seq(T), NEW x, NEW k \in DOMAIN s
    PROVE  CountTo(x, s, k) = CountTo(x, s, k - 1) + (IF s[k] = x THEN 1 ELSE 0)
<1> DEFINE A == {n \in DOMAIN s : n <= k - 1 /\ s[n] = x}
           B == {n \in DOMAIN s : n <= k /\ s[n] = x}
<1>1. IsFiniteSet(DOMAIN s)  BY FS_Interval
<1>2. IsFiniteSet(A) /\ Cardinality(A) \in Nat
      BY <1>1, FS_Subset, FS_CardinalityType
<1>3. s[k] = x => B = A \cup {k} /\ k \notin A  OBVIOUS
<1>4. s[k] # x => B = A  OBVIOUS
<1>5. s[k] = x => Cardinality(B) = Cardinality(A) + 1  BY <1>2, <1>3, FS_AddElement
<1>6. CountTo(x, s, k) = Cardinality(B) /\ CountTo(x, s, k - 1) = Cardinality(A)  BY DEF CountTo
<1> HIDE DEF A, B
<1> QED  BY <1>2, <1>4, <1>5, <1>6

-----------------------------------------------------------------------------
(* The inductive invariant *)

Pcs == {"idle", "newid", "fail", "delete"} \cup Searching \cup Listing

CallType == [pc : Pcs, i : Nat \ {0}, at : Nat,
             directory : {"null", "open", "closed", "uninitialized"}, ret : {"ok", "error"}]
ListType == [cap : Nat, max : Nat \ {0}, ids : Seq(Names)]
Object   == [obj : Nat, entry : Devices]

TypeInv ==
    /\ known \in SUBSET Ids /\ bound \in SUBSET Devices /\ buffers \in SUBSET Names
    /\ op \in {"none", "ready", "failed"} /\ pci_ids \in Seq(Ids)
    /\ devices \in Seq(Object) /\ heap \in SUBSET Nat
    /\ stable \in SUBSET Devices /\ always \in SUBSET Names /\ ever \in SUBSET Names
    /\ call \in CallType

(* The array of a device has room for the IDs stored in it. *)
ArrayOK ==
    /\ list \in ListType
    /\ list.cap \in {0, list.max}
    /\ Len(list.ids) <= list.cap

(* What a call relies on at each of its steps. *)
CallOK ==
    /\ call.pc = "idle" => call = Idle
    /\ call.pc \in {"newid", "fail"} \cup Searching => op = "none" /\ list.cap = 0
    /\ call.pc \in {"delete"} \cup Listing => op = "ready"
    /\ call.pc = "newid" => call.directory = "null" /\ devices = <<>>
    /\ call.pc \in Searching \ {"search"} => call.directory = "open" /\ call.i \in DOMAIN pci_ids
    /\ call.pc \in {"vendor", "device", "create"} => call.at \in Devices
    /\ call.pc = "create" => IdOf[call.at] = pci_ids[call.i]
    /\ call.pc = "fail" => call.directory \in {"open", "null"}
    /\ call.pc \in {"opendir", "listdir", "grow"} => list.cap = list.max

ObjectsOK ==
    /\ IsFiniteSet(heap)
    /\ \A m, n \in DOMAIN devices : devices[m].obj = devices[n].obj => m = n
    /\ IF op # "ready" /\ call.pc = "idle" THEN heap = {}
       ELSE heap = {devices[n].obj :
                      n \in {k \in DOMAIN devices : call.pc = "delete" => k >= call.i}}

(* The search for the ID of this round has come by e, one way or the other. *)
Passed(e) ==
    \/ call.pc = "readdir" /\ e <= call.at
    \/ call.pc \in {"vendor", "device", "create"} /\ e < call.at

Found(e) == Times(e, Entries)
Due(e)   == CountTo(IdOf[e], pci_ids, IF Passed(e) THEN call.i ELSE call.i - 1)

FoundOK ==
    /\ call.pc \in Searching =>
          /\ stable \subseteq bound
          /\ \A e \in Devices : Found(e) <= Due(e) /\ (e \in stable => Found(e) = Due(e))
    /\ FindsDevices

IsListed(n) == \E k \in DOMAIN list.ids : list.ids[k] = n

Listed == call.pc = "idle" /\ op = "ready" /\ list.cap # 0

ListedOK ==
    /\ call.pc \in Listing => always \subseteq buffers /\ buffers \subseteq ever
    /\ call.pc \in Listing \/ Listed =>
          /\ \A m, n \in DOMAIN list.ids : list.ids[m] = list.ids[n] => m = n
          /\ \A n \in Names : IsListed(n) => n \in ever
    /\ call.pc \in {"list", "opendir"} => list.ids = <<>> /\ call.at = 0
    /\ call.pc = "listdir" =>
          \A n \in Names : /\ IsListed(n) => n <= call.at
                           /\ n \in always /\ n <= call.at => IsListed(n)
    /\ call.pc = "grow" =>
          /\ call.at \in ever
          /\ \A n \in Names : /\ IsListed(n) => n < call.at
                              /\ n \in always /\ n < call.at => IsListed(n)
    /\ Listed => \A n \in always : IsListed(n)

IInv == TypeInv /\ ArrayOK /\ CallOK /\ ObjectsOK /\ FoundOK /\ ListedOK

-----------------------------------------------------------------------------
(* What a step leaves alone *)

LEMMA IdleIs ==
    /\ Idle \in CallType /\ Idle.pc = "idle" /\ Idle.i = 1 /\ Idle.at = 0
    /\ Idle.directory = "null" /\ Idle.ret = "ok"
BY DEF Idle, CallType, Pcs

LEMMA NewListIs ==
    ASSUME OperatorAssumption
    PROVE  /\ NewList \in ListType /\ NewList.cap = 0
           /\ NewList.max = FirstEntries /\ NewList.ids = <<>>
BY DEF NewList, ListType, OperatorAssumption

(* No listing is under way, and none has been completed. *)
LEMMA NothingListed ==
    ASSUME call'.pc \notin Listing, ~Listed'
    PROVE  ListedOK'
BY DEF ListedOK, Listing

(* No search is under way. *)
LEMMA FoundStays ==
    ASSUME FoundOK, call'.pc \notin Searching, UNCHANGED <<op, pci_ids, devices>>,
           stable' \subseteq stable
    PROVE  FoundOK'
BY DEF FoundOK, FindsDevices, Entries

LEMMA ObjectsStay ==
    ASSUME ObjectsOK, UNCHANGED <<op, devices, heap>>,
           call.pc # "delete", call'.pc # "delete",
           op # "ready" => (call.pc = "idle" <=> call'.pc = "idle")
    PROVE  ObjectsOK'
BY DEF ObjectsOK

(* The array has not changed. *)
LEMMA ArrayStays == ASSUME ArrayOK, list' = list PROVE ArrayOK'
BY DEF ArrayOK

LEMMA ArrayNew ==
    ASSUME OperatorAssumption, list' = NewList
    PROVE  ArrayOK' /\ list'.cap = 0
BY NewListIs DEF ArrayOK

(* No device has been found yet. *)
LEMMA NoneFound ==
    ASSUME devices' = <<>>, NEW e \in Devices
    PROVE  Found(e)' = 0
<1>1. {n \in DOMAIN Entries' : Entries'[n] = e} = {}  BY DEF Entries
<1> QED  BY <1>1, FS_EmptySet DEF Found, Times

LEMMA EntriesType ==
    ASSUME TypeInv
    PROVE  /\ Entries \in Seq(Devices) /\ DOMAIN Entries = DOMAIN devices
           /\ Len(Entries) = Len(devices)
<1>1. devices \in Seq(Object) /\ Len(devices) \in Nat /\ DOMAIN devices = 1 .. Len(devices)
      BY DEF TypeInv
<1>2. \A n \in DOMAIN devices : devices[n].entry \in Devices
  <2>1. \A n \in DOMAIN devices : devices[n] \in Object  BY <1>1, ElementOfSeq
  <2> QED  BY <2>1 DEF Object
<1>3. Entries \in [1 .. Len(devices) -> Devices]  BY <1>1, <1>2 DEF Entries
<1> QED  BY <1>1, <1>3, SeqDef

(* A device is due as often as its ID was mentioned so far. *)
LEMMA DueIs ==
    ASSUME TypeInv, NEW e \in Devices
    PROVE  /\ Due(e) \in Nat
           /\ Found(e) \in Nat
           /\ CountTo(IdOf[e], pci_ids, call.i) \in Nat
           /\ CountTo(IdOf[e], pci_ids, call.i - 1) \in Nat
           /\ call.i \in DOMAIN pci_ids =>
                 CountTo(IdOf[e], pci_ids, call.i) = CountTo(IdOf[e], pci_ids, call.i - 1)
                     + (IF pci_ids[call.i] = IdOf[e] THEN 1 ELSE 0)
<1>1. call.i \in Int /\ call.i - 1 \in Int /\ pci_ids \in Seq(Ids)  BY DEF TypeInv, CallType
<1>2. /\ CountTo(IdOf[e], pci_ids, call.i) \in Nat
      /\ CountTo(IdOf[e], pci_ids, call.i - 1) \in Nat
      BY <1>1, CountToNat
<1>3. Due(e) \in Nat  BY <1>2 DEF Due
<1>4. Entries \in Seq(Devices)  BY EntriesType
<1>5. Found(e) \in Nat  BY <1>4, TimesNat DEF Found
<1>6. call.i \in DOMAIN pci_ids =>
        CountTo(IdOf[e], pci_ids, call.i) = CountTo(IdOf[e], pci_ids, call.i - 1)
            + (IF pci_ids[call.i] = IdOf[e] THEN 1 ELSE 0)
      BY <1>1, CountToStep
<1> QED  BY <1>2, <1>3, <1>5, <1>6

-----------------------------------------------------------------------------
(* The steps of DeviceOperator_new *)

LEMMA NewKept == ASSUME OperatorAssumption, IInv, DeviceOperator_new PROVE IInv'
<1> USE DEF IInv
<1>1. /\ call = Idle /\ op # "ready" /\ op' = "none" /\ devices' = <<>> /\ list' = NewList
      /\ UNCHANGED <<known, bound, buffers, heap, always, ever>>
      BY DEF DeviceOperator_new, CallOK, kernelVars
<1>2. PICK l \in Lists, enumerate \in BOOLEAN :
        /\ pci_ids' = l
        /\ call' = [call EXCEPT !.pc = IF enumerate THEN "newid" ELSE "search"]
        /\ stable' = IF enumerate THEN {} ELSE bound
      BY DEF DeviceOperator_new, Goto
<1>3. /\ call' \in CallType /\ call'.i = 1 /\ call'.directory = "null"
      /\ call'.pc = IF enumerate THEN "newid" ELSE "search"
      BY <1>1, <1>2, IdleIs DEF CallType, Pcs, Searching
<1>4. pci_ids' \in Seq(Ids)  BY <1>2 DEF OperatorAssumption
<1>5. TypeInv'  BY <1>1, <1>2, <1>3, <1>4 DEF TypeInv
<1>6. ArrayOK' /\ list'.cap = 0  BY <1>1, ArrayNew
<1>7. CallOK'  BY <1>1, <1>3, <1>6 DEF CallOK, Searching, Listing
<1>8. ObjectsOK'  BY <1>1, <1>3, IdleIs DEF ObjectsOK
<1>9. FoundOK'
  <2>1. \A e \in Devices : Found(e)' = 0  BY <1>1, NoneFound
  <2>2. \A e \in Devices : Due(e)' \in Nat
    <3> TAKE e \in Devices
    <3> QED  BY <1>3, <1>4, CountToNat DEF Due
  <2>3. ASSUME call'.pc \in Searching, NEW e \in Devices  PROVE Due(e)' = 0
    <3>1. ~Passed(e)' /\ call'.i - 1 = 0  BY <1>3 DEF Passed
    <3>2. Due(e)' = CountTo(IdOf[e], pci_ids', 0)  BY <3>1 DEF Due
    <3> QED  BY <3>2, <1>4, CountToNat
  <2>4. call'.pc \in Searching => stable' \subseteq bound'
        BY <1>1, <1>2, <1>3 DEF Searching
  <2> QED  BY <2>1, <2>2, <2>3, <2>4, <1>1 DEF FoundOK, FindsDevices
<1>10. ListedOK'  BY <1>3, <1>6, NothingListed DEF Listed, Listing
<1> QED  BY <1>5, <1>6, <1>7, <1>8, <1>9, <1>10

LEMMA NewIdKept == ASSUME OperatorAssumption, IInv, NewId PROVE IInv'
<1> USE DEF IInv
<1>1. /\ call.pc = "newid" /\ UNCHANGED <<buffers, op, pci_ids, devices, heap, list, always, ever>>
      BY DEF NewId, opVars
<1>2. op = "none" /\ list.cap = 0 /\ call.directory = "null" /\ devices = <<>>
      BY <1>1 DEF CallOK
<1>3. ArrayOK' /\ list'.cap = 0  BY <1>1, <1>2, ArrayStays
<1>4. CASE /\ call.i <= Len(pci_ids)
           /\ known' = known \cup {pci_ids[call.i]}
           /\ \E new \in SUBSET {e \in Devices \ bound : IdOf[e] = pci_ids[call.i]} :
                 bound' = bound \cup new
           /\ call' = [call EXCEPT !.i = @ + 1]
           /\ UNCHANGED stable
  <2>1. call' \in CallType /\ call'.pc = "newid" /\ call'.directory = "null"
    <3>1. call \in CallType /\ call.i + 1 \in Nat \ {0}  BY DEF TypeInv, CallType
    <3>2. call' = [call EXCEPT !.i = @ + 1]  BY <1>4
    <3> QED  BY <3>1, <3>2, <1>1, <1>2 DEF CallType
  <2>2. call.i \in DOMAIN pci_ids  BY <1>4 DEF TypeInv, CallType
  <2>3. pci_ids[call.i] \in Ids  BY <2>2, ElementOfSeq DEF TypeInv
  <2>4. TypeInv'  BY <1>1, <1>4, <2>1, <2>3 DEF TypeInv
  <2>5. CallOK'  BY <1>1, <1>2, <2>1, <1>3 DEF CallOK, Searching, Listing
  <2>6. ObjectsOK'  BY <1>1, <2>1, ObjectsStay
  <2>7. FoundOK'  BY <1>1, <1>4, <2>1, FoundStays DEF Searching
  <2>8. ListedOK'  BY <2>1, NothingListed DEF Listed, Listing
  <2> QED  BY <1>3, <2>4, <2>5, <2>6, <2>7, <2>8
<1>5. CASE Goto("fail") /\ UNCHANGED <<known, bound, stable>>
  <2>1. call' \in CallType /\ call'.pc = "fail" /\ call'.directory = "null"
        BY <1>1, <1>2, <1>5 DEF TypeInv, CallType, Goto, Pcs
  <2>4. TypeInv'  BY <1>1, <1>5, <2>1 DEF TypeInv
  <2>5. CallOK'  BY <1>1, <1>2, <2>1, <1>3 DEF CallOK, Searching, Listing
  <2>6. ObjectsOK'  BY <1>1, <2>1, ObjectsStay
  <2>7. FoundOK'  BY <1>1, <1>5, <2>1, FoundStays DEF Searching
  <2>8. ListedOK'  BY <2>1, NothingListed DEF Listed, Listing
  <2> QED  BY <1>3, <2>4, <2>5, <2>6, <2>7, <2>8
<1>6. CASE /\ call' = [call EXCEPT !.pc = "search", !.i = 1]
           /\ stable' = bound
           /\ UNCHANGED <<known, bound>>
  <2>1. call' \in CallType /\ call'.pc = "search" /\ call'.i = 1
    <3>1. "search" \in Pcs /\ 1 \in Nat \ {0} /\ call \in CallType
          BY DEF Pcs, Searching, TypeInv
    <3>2. call' = [call EXCEPT !.pc = "search", !.i = 1]  BY <1>6
    <3> QED  BY <3>1, <3>2 DEF CallType
  <2>4. TypeInv'  BY <1>1, <1>6, <2>1 DEF TypeInv
  <2>5. CallOK'  BY <1>1, <1>2, <2>1, <1>3 DEF CallOK, Searching, Listing
  <2>6. ObjectsOK'  BY <1>1, <2>1, ObjectsStay
  <2>7. FoundOK'
    <3>1. \A e \in Devices : Found(e)' = 0  BY <1>1, <1>2, NoneFound
    <3>2. ASSUME NEW e \in Devices  PROVE Due(e)' = 0
      <4>1. ~Passed(e)' /\ call'.i - 1 = 0  BY <2>1 DEF Passed
      <4>2. Due(e)' = CountTo(IdOf[e], pci_ids', 0)  BY <4>1 DEF Due
      <4> QED  BY <4>2, <2>4, CountToNat DEF TypeInv
    <3> QED  BY <3>1, <3>2, <1>1, <1>2, <1>6 DEF FoundOK, FindsDevices
  <2>8. ListedOK'  BY <2>1, NothingListed DEF Listed, Listing
  <2> QED  BY <1>3, <2>4, <2>5, <2>6, <2>7, <2>8
<1> QED  BY <1>4, <1>5, <1>6 DEF NewId

(* A step that changes nothing but the call's position, and what is stable. *)
LEMMA SearchMoves ==
    ASSUME OperatorAssumption, IInv, call.pc \in Searching,
           UNCHANGED <<kernelVars, opVars, list, always, ever>>, stable' \subseteq stable,
           call' \in CallType, call'.pc \in Searching, CallOK',
           \A e \in Devices : Due(e)' >= Due(e) /\ (e \in stable' => Due(e)' = Due(e))
    PROVE  IInv'
<1> USE DEF IInv
<1>1. TypeInv'  BY DEF TypeInv, kernelVars, opVars
<1>2. ArrayOK'  BY ArrayStays
<1>3. ObjectsOK'  BY ObjectsStay DEF opVars, Searching
<1>4. FoundOK'
  <2>1. op' = "none" /\ stable' \subseteq stable /\ bound' = bound
        BY DEF CallOK, opVars, kernelVars
  <2>2. \A e \in Devices : Found(e)' = Found(e)  BY DEF Found, Entries, opVars
  <2>3. \A e \in Devices : Found(e) \in Nat /\ Due(e) \in Nat  BY DueIs
  <2>4. \A e \in Devices : Due(e)' \in Nat
    <3> TAKE e \in Devices
    <3>1. call'.i \in Int /\ pci_ids' \in Seq(Ids)  BY <1>1 DEF TypeInv, CallType
    <3> QED  BY <3>1, CountToNat DEF Due
  <2>5. \A e \in Devices : Found(e) <= Due(e) /\ (e \in stable => Found(e) = Due(e))
        BY DEF FoundOK
  <2>6. \A e \in Devices : Found(e)' <= Due(e)' /\ (e \in stable' => Found(e)' = Due(e)')
        BY <2>1, <2>2, <2>3, <2>4, <2>5
  <2>7. stable' \subseteq bound'  BY <2>1 DEF FoundOK
  <2>8. FindsDevices'  BY <2>1 DEF FindsDevices
  <2> QED  BY <2>6, <2>7, <2>8 DEF FoundOK
<1>5. ListedOK'  BY NothingListed DEF Listed, Listing, Searching
<1> QED  BY <1>1, <1>2, <1>3, <1>4, <1>5

(* A step of the search that gives up. *)
LEMMA SearchFails ==
    ASSUME OperatorAssumption, IInv, call.pc \in Searching,
           UNCHANGED <<kernelVars, opVars, list, history>>,
           call' \in CallType, call'.pc = "fail", call'.directory \in {"open", "null"}
    PROVE  IInv'
<1> USE DEF IInv
<1>1. TypeInv'  BY DEF TypeInv, kernelVars, opVars, history
<1>2. ArrayOK'  BY ArrayStays
<1>3. ObjectsOK'  BY ObjectsStay DEF opVars, Searching
<1>4. FoundOK'  BY FoundStays DEF opVars, history, Searching
<1>5. CallOK'  BY DEF CallOK, opVars, Searching, Listing
<1>6. ListedOK'  BY NothingListed DEF Listed, Listing
<1> QED  BY <1>1, <1>2, <1>3, <1>4, <1>5, <1>6

LEMMA SearchKept == ASSUME OperatorAssumption, IInv, Search PROVE IInv'
<1>1. /\ call.pc = "search" /\ call \in CallType /\ op = "none" /\ list.cap = 0
      /\ UNCHANGED <<kernelVars, pci_ids, devices, heap, list, history>>
      BY DEF Search, IInv, TypeInv, CallOK, Searching
<1>2. pci_ids \in Seq(Ids) /\ call.i \in Nat \ {0}  BY <1>1 DEF IInv, TypeInv, CallType
<1>3. CASE /\ call.i <= Len(pci_ids)
           /\ call' = [call EXCEPT !.pc = "readdir", !.at = 0, !.directory = "open"]
           /\ UNCHANGED op
  <2>1. call' = [call EXCEPT !.pc = "readdir", !.at = 0, !.directory = "open"] /\ "readdir" \in Pcs
        BY <1>3 DEF Pcs, Searching
  <2>2. /\ call' \in CallType /\ call'.pc = "readdir" /\ call'.at = 0 /\ call'.i = call.i
        /\ call'.directory = "open"
        BY <2>1, <1>1 DEF CallType
  <2>3. UNCHANGED <<kernelVars, opVars, list, history>>  BY <1>1, <1>3 DEF opVars
  <2>4. CallOK'  BY <1>1, <1>2, <1>3, <2>2, <2>3 DEF CallOK, Searching, Listing, opVars
  <2>5. \A e \in Devices : ~Passed(e) /\ ~Passed(e)'
        BY <1>1, <2>2 DEF Passed, Devices, OperatorAssumption
  <2>6. \A e \in Devices : Due(e)' = Due(e) /\ Due(e) \in Nat
        BY <2>2, <2>5, <1>1, DueIs DEF Due, IInv
  <2> QED  BY <1>1, <2>2, <2>3, <2>4, <2>6, SearchMoves DEF Searching, history
<1>4. CASE call' = [call EXCEPT !.pc = "fail", !.directory = "null"] /\ UNCHANGED op
  <2>1. call' = [call EXCEPT !.pc = "fail", !.directory = "null"] /\ "fail" \in Pcs  BY <1>4 DEF Pcs
  <2>2. call' \in CallType /\ call'.pc = "fail" /\ call'.directory = "null"
        BY <2>1, <1>1 DEF CallType
  <2> QED  BY <1>1, <1>4, <2>2, SearchFails DEF Searching, opVars
<1>5. CASE call.i > Len(pci_ids) /\ op' = "ready" /\ call' = Idle
  <2> USE DEF IInv
  <2>1. call' \in CallType /\ call'.pc = "idle"  BY <1>5, IdleIs
  <2>2. TypeInv'  BY <1>1, <1>5, <2>1 DEF TypeInv, kernelVars, history
  <2>3. ArrayOK'  BY <1>1, ArrayStays
  <2>4. CallOK'  BY <1>5, <2>1 DEF CallOK, Searching, Listing
  <2>5. ObjectsOK'  BY <1>1, <1>5, <2>1 DEF ObjectsOK
  <2>6. FindsDevices'
    <3> SUFFICES ASSUME NEW e \in Devices
                 PROVE  /\ Times(e, Entries)' <= Times(IdOf[e], pci_ids)'
                        /\ e \in stable' => Times(e, Entries)' = Times(IdOf[e], pci_ids)'
        BY DEF FindsDevices
    <3>1. Times(e, Entries)' = Found(e) /\ stable' = stable /\ pci_ids' = pci_ids
          BY <1>1 DEF Found, Entries, history
    <3>2. Due(e) = CountTo(IdOf[e], pci_ids, call.i - 1)  BY <1>1 DEF Due, Passed
    <3>3. call.i - 1 \in Int /\ call.i - 1 >= Len(pci_ids)  BY <1>2, <1>5
    <3>4. Due(e) = Times(IdOf[e], pci_ids)  BY <3>2, <3>3, <1>2, CountToNat
    <3> QED  BY <3>1, <3>4, <1>1 DEF FoundOK, Searching
  <2>7. FoundOK'  BY <2>1, <2>6 DEF FoundOK, Searching
  <2>8. ListedOK'  BY <1>1, <2>1, NothingListed DEF Listed, Listing
  <2> QED  BY <2>2, <2>3, <2>4, <2>5, <2>7, <2>8
<1> QED  BY <1>3, <1>4, <1>5 DEF Search

LEMMA ReadDirKept == ASSUME OperatorAssumption, IInv, ReadDir PROVE IInv'
<1>1. /\ call.pc = "readdir" /\ call \in CallType
      /\ UNCHANGED <<kernelVars, opVars, list, history>>
      BY DEF ReadDir, IInv, TypeInv
<1>2. /\ bound \in SUBSET Devices /\ bound \in SUBSET Nat /\ stable \subseteq bound
      /\ op = "none" /\ list.cap = 0 /\ call.directory = "open" /\ call.i \in DOMAIN pci_ids
      /\ call.at \in Nat /\ call.i \in Nat \ {0} /\ pci_ids \in Seq(Ids)
      BY <1>1 DEF IInv, TypeInv, CallType, CallOK, FoundOK, Searching, Devices, OperatorAssumption
<1>3. ASSUME Rest(bound) # {}, call' = [call EXCEPT !.pc = "vendor", !.at = NextEntry(bound)]
      PROVE  IInv'
  <2> DEFINE n == NextEntry(bound)
  <2>1. n \in bound /\ n > call.at /\ \A x \in bound : x > call.at => n <= x
        BY <1>2, <1>3, NextEntryIs
  <2>2. n \in Devices /\ n \in Nat  BY <2>1, <1>2
  <2> HIDE DEF n
  <2>3. call' = [call EXCEPT !.pc = "vendor", !.at = n] /\ "vendor" \in Pcs
        BY <1>3 DEF Pcs, Searching, n
  <2>4. /\ call' \in CallType /\ call'.pc = "vendor" /\ call'.at = n /\ call'.i = call.i
        /\ call'.directory = "open"
        BY <2>2, <2>3, <1>1, <1>2 DEF CallType
  <2>5. CallOK'  BY <1>1, <1>2, <2>2, <2>4 DEF CallOK, Searching, Listing, opVars
  <2>6. ASSUME NEW e \in Devices
        PROVE  Due(e)' >= Due(e) /\ (e \in stable => Due(e)' = Due(e))
    <3>1. e \in Int  BY DEF Devices, OperatorAssumption
    <3>2. Passed(e) => Passed(e)'  BY <3>1, <2>1, <2>2, <2>4, <1>1, <1>2 DEF Passed
    <3>3. e \in stable => (Passed(e) <=> Passed(e)')
          BY <3>1, <2>1, <2>2, <2>4, <1>1, <1>2 DEF Passed
    <3>4. /\ CountTo(IdOf[e], pci_ids, call.i) \in Nat
          /\ CountTo(IdOf[e], pci_ids, call.i - 1) \in Nat
          /\ CountTo(IdOf[e], pci_ids, call.i) >= CountTo(IdOf[e], pci_ids, call.i - 1)
          BY <1>2, DueIs DEF IInv
    <3>5. call'.i = call.i /\ pci_ids' = pci_ids  BY <2>4, <1>1 DEF opVars
    <3>6. Due(e)' = CountTo(IdOf[e], pci_ids, IF Passed(e)' THEN call.i ELSE call.i - 1)
          BY <3>5 DEF Due
    <3>7. Due(e) = CountTo(IdOf[e], pci_ids, IF Passed(e) THEN call.i ELSE call.i - 1)  BY DEF Due
    <3> QED  BY <3>2, <3>3, <3>4, <3>6, <3>7
  <2> QED  BY <1>1, <2>4, <2>5, <2>6, SearchMoves DEF Searching, history
<1>4. ASSUME Rest(bound) = {}, call' = [call EXCEPT !.pc = "search", !.i = @ + 1, !.directory = "closed"]
      PROVE  IInv'
  <2>1. call' = [call EXCEPT !.pc = "search", !.i = call.i + 1, !.directory = "closed"] /\ "search" \in Pcs
        BY <1>4 DEF Pcs, Searching
  <2>2. call' \in CallType /\ call'.pc = "search" /\ call'.i = call.i + 1
    <3>1. call.i + 1 \in Nat \ {0}  BY <1>2
    <3> QED  BY <2>1, <1>1, <3>1 DEF CallType
  <2>3. CallOK'  BY <1>1, <1>2, <2>2 DEF CallOK, Searching, Listing, opVars
  <2>4. ASSUME NEW e \in Devices
        PROVE  Due(e)' >= Due(e) /\ (e \in stable => Due(e)' = Due(e))
    <3>1. e \in Int  BY DEF Devices, OperatorAssumption
    <3>2. e \in stable => Passed(e)
          BY <3>1, <1>1, <1>2, <1>4 DEF Passed, Rest
    <3>3. /\ CountTo(IdOf[e], pci_ids, call.i) \in Nat
          /\ CountTo(IdOf[e], pci_ids, call.i - 1) \in Nat
          /\ CountTo(IdOf[e], pci_ids, call.i) >= CountTo(IdOf[e], pci_ids, call.i - 1)
          BY <1>2, DueIs DEF IInv
    <3>4. ~Passed(e)' /\ call'.i - 1 = call.i /\ pci_ids' = pci_ids
          BY <2>2, <1>1, <1>2 DEF Passed, opVars
    <3>5. Due(e)' = CountTo(IdOf[e], pci_ids, call.i)  BY <3>4 DEF Due
    <3>6. Due(e) = CountTo(IdOf[e], pci_ids, IF Passed(e) THEN call.i ELSE call.i - 1)  BY DEF Due
    <3> QED  BY <3>2, <3>3, <3>5, <3>6
  <2> QED  BY <1>1, <2>2, <2>3, <2>4, SearchMoves DEF Searching, history
<1> QED  BY <1>3, <1>4 DEF ReadDir

(* The entry the search is at, while it looks at it. *)
LEMMA AtEntry ==
    ASSUME OperatorAssumption, IInv, call.pc \in {"vendor", "device", "create"}
    PROVE  /\ call \in CallType /\ call.at \in Devices /\ call.i \in DOMAIN pci_ids
           /\ pci_ids \in Seq(Ids) /\ call.i \in Nat \ {0}
           /\ op = "none" /\ list.cap = 0 /\ call.directory = "open" /\ stable \subseteq bound
           /\ \A e \in Devices : e \in Int
BY DEF IInv, TypeInv, CallType, CallOK, FoundOK, Searching, Devices, OperatorAssumption

(* What is due once the search goes on behind the entry. *)
LEMMA DueBehind ==
    ASSUME OperatorAssumption, IInv, call.pc \in {"vendor", "device", "create"},
           call'.pc = "readdir", call'.i = call.i, call'.at = call.at, pci_ids' = pci_ids,
           NEW e \in Devices
    PROVE  Due(e)' = Due(e) + (IF e = call.at /\ IdOf[e] = pci_ids[call.i] THEN 1 ELSE 0)
<1>1. e \in Int /\ call.at \in Int /\ call.i \in DOMAIN pci_ids
      BY AtEntry
<1>2. Passed(e)' <=> Passed(e) \/ e = call.at  BY <1>1 DEF Passed
<1>3. e = call.at => ~Passed(e)  BY <1>1 DEF Passed
<1>4. /\ CountTo(IdOf[e], pci_ids, call.i) \in Nat
      /\ CountTo(IdOf[e], pci_ids, call.i - 1) \in Nat
      /\ CountTo(IdOf[e], pci_ids, call.i) = CountTo(IdOf[e], pci_ids, call.i - 1)
                     + (IF pci_ids[call.i] = IdOf[e] THEN 1 ELSE 0)
      BY <1>1, DueIs DEF IInv
<1>5. Due(e)' = CountTo(IdOf[e], pci_ids, IF Passed(e)' THEN call.i ELSE call.i - 1)  BY DEF Due
<1>6. Due(e) = CountTo(IdOf[e], pci_ids, IF Passed(e) THEN call.i ELSE call.i - 1)  BY DEF Due
<1>7. CASE e = call.at
  <2>1. Due(e)' = CountTo(IdOf[e], pci_ids, call.i)  BY <1>2, <1>5, <1>7
  <2>2. Due(e) = CountTo(IdOf[e], pci_ids, call.i - 1)  BY <1>3, <1>6, <1>7
  <2> QED  BY <2>1, <2>2, <1>4, <1>7
<1>8. CASE e # call.at
  <2>1. Due(e)' = Due(e)  BY <1>2, <1>5, <1>6, <1>8
  <2>2. Due(e) \in Nat  BY DueIs DEF IInv
  <2> QED  BY <2>1, <2>2, <1>8
<1> QED  BY <1>7, <1>8

(* The search passes over an entry that it does not want, or cannot open. *)
LEMMA PassesOver ==
    ASSUME OperatorAssumption, IInv, call.pc \in {"vendor", "device"}, Goto("readdir"),
           UNCHANGED <<kernelVars, opVars, list, always, ever>>, stable' \subseteq stable,
           call.at \notin stable' \/ IdOf[call.at] # pci_ids[call.i]
    PROVE  IInv'
<1>1. /\ call \in CallType /\ call.i \in DOMAIN pci_ids /\ op = "none" /\ list.cap = 0
      /\ call.directory = "open"
      BY AtEntry
<1>2. call' = [call EXCEPT !.pc = "readdir"] /\ "readdir" \in Pcs  BY DEF Goto, Pcs, Searching
<1>3. /\ call' \in CallType /\ call'.pc = "readdir" /\ call'.at = call.at /\ call'.i = call.i
      /\ call'.directory = "open"
      BY <1>1, <1>2 DEF CallType
<1>4. CallOK'  BY <1>1, <1>3 DEF CallOK, Searching, Listing, opVars
<1>5. ASSUME NEW e \in Devices
      PROVE  Due(e)' >= Due(e) /\ (e \in stable' => Due(e)' = Due(e))
  <2>1. Due(e)' = Due(e) + (IF e = call.at /\ IdOf[e] = pci_ids[call.i] THEN 1 ELSE 0)
        BY <1>3, DueBehind DEF opVars
  <2>2. Due(e) \in Nat  BY DueIs DEF IInv
  <2> QED  BY <2>1, <2>2
<1> QED  BY <1>3, <1>4, <1>5, SearchMoves DEF Searching, history

LEMMA OpenVendorKept == ASSUME OperatorAssumption, IInv, OpenVendor PROVE IInv'
<1>1. call.pc = "vendor" /\ UNCHANGED <<kernelVars, opVars, list, always, ever>>  BY DEF OpenVendor
<1>2. /\ call \in CallType /\ call.i \in DOMAIN pci_ids /\ op = "none" /\ list.cap = 0
      /\ call.directory = "open" /\ stable \subseteq bound /\ call.at \in Devices
      BY <1>1, AtEntry
<1>3. CASE Goto("device") /\ UNCHANGED stable
  <2>1. call' = [call EXCEPT !.pc = "device"] /\ "device" \in Pcs
        BY <1>3 DEF Goto, Pcs, Searching
  <2>2. /\ call' \in CallType /\ call'.pc = "device" /\ call'.at = call.at /\ call'.i = call.i
        /\ call'.directory = "open"
        BY <2>1, <1>2 DEF CallType
  <2>3. CallOK'  BY <1>1, <1>2, <2>2 DEF CallOK, Searching, Listing, opVars
  <2>4. ASSUME NEW e \in Devices  PROVE Due(e)' >= Due(e) /\ Due(e)' = Due(e)
    <3>1. Passed(e)' <=> Passed(e)  BY <2>2, <1>1 DEF Passed
    <3>2. Due(e)' = Due(e) /\ Due(e) \in Nat  BY <3>1, <2>2, <1>1, DueIs DEF Due, opVars, IInv
    <3> QED  BY <3>2
  <2> QED  BY <1>1, <1>3, <2>2, <2>3, <2>4, SearchMoves DEF Searching
<1>4. CASE Goto("readdir") /\ stable' = stable \ {e \in {call.at} : IdOf[e] = pci_ids[call.i]}
  <2>1. stable' \subseteq stable /\ (call.at \notin stable' \/ IdOf[call.at] # pci_ids[call.i])
        BY <1>4
  <2> QED  BY <1>1, <1>4, <2>1, PassesOver
<1> QED  BY <1>3, <1>4 DEF OpenVendor

LEMMA OpenDeviceKept == ASSUME OperatorAssumption, IInv, OpenDevice PROVE IInv'
<1>1. call.pc = "device" /\ UNCHANGED <<kernelVars, opVars, list, history>>  BY DEF OpenDevice
<1>2. /\ call \in CallType /\ call.i \in DOMAIN pci_ids /\ op = "none" /\ list.cap = 0
      /\ call.directory = "open" /\ stable \subseteq bound /\ call.at \in Devices
      BY <1>1, AtEntry
<1>3. CASE IdOf[call.at] = pci_ids[call.i] /\ Goto("create")
  <2>1. call' = [call EXCEPT !.pc = "create"] /\ "create" \in Pcs
        BY <1>3 DEF Goto, Pcs, Searching
  <2>2. /\ call' \in CallType /\ call'.pc = "create" /\ call'.at = call.at /\ call'.i = call.i
        /\ call'.directory = "open"
        BY <2>1, <1>2 DEF CallType
  <2>3. CallOK'  BY <1>1, <1>2, <1>3, <2>2 DEF CallOK, Searching, Listing, opVars
  <2>4. ASSUME NEW e \in Devices  PROVE Due(e)' >= Due(e) /\ Due(e)' = Due(e)
    <3>1. Passed(e)' <=> Passed(e)  BY <2>2, <1>1 DEF Passed
    <3>2. Due(e)' = Due(e) /\ Due(e) \in Nat  BY <3>1, <2>2, <1>1, DueIs DEF Due, opVars, IInv
    <3> QED  BY <3>2
  <2> QED  BY <1>1, <2>2, <2>3, <2>4, SearchMoves DEF Searching, history
<1>4. CASE IdOf[call.at] # pci_ids[call.i] /\ Goto("readdir")
      BY <1>1, <1>4, PassesOver DEF history
<1>5. CASE Goto("fail")
  <2>1. call' = [call EXCEPT !.pc = "fail"] /\ "fail" \in Pcs  BY <1>5 DEF Goto, Pcs
  <2>2. call' \in CallType /\ call'.pc = "fail" /\ call'.directory = "open"
        BY <2>1, <1>2 DEF CallType
  <2> QED  BY <1>1, <2>2, SearchFails DEF Searching
<1> QED  BY <1>3, <1>4, <1>5 DEF OpenDevice

(* The object that the operator counts is a new one, and found once more. *)
LEMMA NewObject ==
    ASSUME OperatorAssumption, IInv, NEW at \in Devices, NEW obj \in Nat \ heap,
           devices' = Append(devices, [obj |-> obj, entry |-> at]), heap' = heap \cup {obj},
           heap = {devices[n].obj : n \in DOMAIN devices}
    PROVE  /\ devices' \in Seq(Object) /\ heap' \in SUBSET Nat /\ IsFiniteSet(heap')
           /\ heap' = {devices'[n].obj : n \in DOMAIN devices'}
           /\ \A m, n \in DOMAIN devices' : devices'[m].obj = devices'[n].obj => m = n
           /\ \A e \in Devices : Found(e)' = Found(e) + (IF e = at THEN 1 ELSE 0)
<1> DEFINE new == [obj |-> obj, entry |-> at]
<1>1. new \in Object /\ new.obj = obj /\ new.entry = at  BY DEF Object
<1>2. devices \in Seq(Object) /\ heap \in SUBSET Nat  BY DEF IInv, TypeInv
<1>3. IsFiniteSet(heap) /\ \A m, n \in DOMAIN devices : devices[m].obj = devices[n].obj => m = n
      BY DEF IInv, ObjectsOK
<1> HIDE DEF new
<1>4. devices' = Append(devices, new)  BY DEF new
<1>5. /\ devices' \in Seq(Object) /\ Len(devices) \in Nat
      /\ DOMAIN devices = 1 .. Len(devices) /\ DOMAIN devices' = 1 .. Len(devices) + 1
      /\ \A n \in DOMAIN devices : devices'[n] = devices[n]
      /\ devices'[Len(devices) + 1] = new
      BY <1>1, <1>2, <1>4, AppendProperties
<1>6. heap' \in SUBSET Nat /\ IsFiniteSet(heap')  BY <1>2, <1>3, FS_AddElement
<1>7. \A n \in DOMAIN devices : devices[n].obj \in heap  OBVIOUS
<1>8. DOMAIN devices' = DOMAIN devices \cup {Len(devices) + 1} /\ Len(devices) + 1 \notin DOMAIN devices
      BY <1>5
<1>9. heap' = {devices'[n].obj : n \in DOMAIN devices'}  BY <1>1, <1>5, <1>8
<1>10. ASSUME NEW m \in DOMAIN devices', NEW n \in DOMAIN devices', devices'[m].obj = devices'[n].obj
       PROVE  m = n
       BY <1>1, <1>3, <1>5, <1>7, <1>8, <1>10
<1>11. ASSUME NEW e \in Devices  PROVE Found(e)' = Found(e) + (IF e = at THEN 1 ELSE 0)
  <2>1. Entries \in Seq(Devices) /\ Len(Entries) = Len(devices) /\ DOMAIN Entries = DOMAIN devices
        BY EntriesType DEF IInv
  <2> DEFINE a == Append(Entries, at)
  <2>2. /\ DOMAIN a = 1 .. Len(devices) + 1
        /\ \A n \in DOMAIN Entries : a[n] = Entries[n]
        /\ a[Len(devices) + 1] = at
        BY <2>1, <1>5, AppendProperties
  <2>3. \A n \in DOMAIN devices : Entries[n] = devices[n].entry  BY DEF Entries
  <2>4. \A n \in DOMAIN devices' : Entries'[n] = devices'[n].entry /\ DOMAIN Entries' = DOMAIN devices'
        BY DEF Entries
  <2>5. Entries' = [n \in DOMAIN devices' |-> devices'[n].entry]  BY DEF Entries
  <2>6. a = [n \in DOMAIN a |-> a[n]]
    <3>1. a \in Seq(Devices)  BY <2>1, AppendProperties
    <3> HIDE DEF a
    <3> QED  BY <3>1
  <2>7. Entries' = a  BY <2>1, <2>2, <2>3, <2>5, <2>6, <1>1, <1>5, <1>8
  <2> QED  BY <2>1, <2>7, TimesAppend DEF Found
<1> QED  BY <1>5, <1>6, <1>9, <1>10, <1>11

LEMMA CreateKept == ASSUME OperatorAssumption, IInv, PciDevice_new_op PROVE IInv'
<1>1. call.pc = "create" /\ UNCHANGED <<kernelVars, op, pci_ids, list, history>>
      BY DEF PciDevice_new_op
<1>2. /\ call \in CallType /\ call.i \in DOMAIN pci_ids /\ op = "none" /\ list.cap = 0
      /\ call.directory = "open" /\ stable \subseteq bound /\ call.at \in Devices
      /\ IdOf[call.at] = pci_ids[call.i]
      BY <1>1, AtEntry DEF IInv, CallOK
<1>3. CASE Goto("fail") /\ UNCHANGED <<devices, heap>>
  <2>1. call' = [call EXCEPT !.pc = "fail"] /\ "fail" \in Pcs  BY <1>3 DEF Goto, Pcs
  <2>2. call' \in CallType /\ call'.pc = "fail" /\ call'.directory = "open"
        BY <2>1, <1>2 DEF CallType
  <2> QED  BY <1>1, <1>3, <2>2, SearchFails DEF Searching, opVars
<1>4. CASE /\ LET obj == CHOOSE o \in 1 .. Cardinality(heap) + 1 : o \notin heap IN
                /\ devices' = Append(devices, [obj |-> obj, entry |-> call.at])
                /\ heap' = heap \cup {obj}
           /\ Goto("readdir")
  <2> DEFINE obj == CHOOSE o \in 1 .. Cardinality(heap) + 1 : o \notin heap
  <2>1. obj \in Nat \ heap  BY FreshObject DEF IInv, TypeInv, ObjectsOK
  <2>2. devices' = Append(devices, [obj |-> obj, entry |-> call.at]) /\ heap' = heap \cup {obj}
        BY <1>4
  <2> HIDE DEF obj
  <2>3. heap = {devices[n].obj : n \in DOMAIN devices}  BY <1>1 DEF IInv, ObjectsOK
  <2>4. /\ devices' \in Seq(Object) /\ heap' \in SUBSET Nat /\ IsFiniteSet(heap')
        /\ heap' = {devices'[n].obj : n \in DOMAIN devices'}
        /\ \A m, n \in DOMAIN devices' : devices'[m].obj = devices'[n].obj => m = n
        /\ \A e \in Devices : Found(e)' = Found(e) + (IF e = call.at THEN 1 ELSE 0)
        BY <2>1, <2>2, <2>3, <1>2, NewObject
  <2>5. call' = [call EXCEPT !.pc = "readdir"] /\ "readdir" \in Pcs  BY <1>4 DEF Goto, Pcs, Searching
  <2>6. /\ call' \in CallType /\ call'.pc = "readdir" /\ call'.at = call.at /\ call'.i = call.i
        /\ call'.directory = "open"
        BY <2>5, <1>2 DEF CallType
  <2> USE DEF IInv
  <2>7. TypeInv'  BY <1>1, <2>4, <2>6 DEF TypeInv, kernelVars, history
  <2>8. ArrayOK'  BY <1>1, ArrayStays
  <2>9. CallOK'  BY <1>1, <1>2, <2>6 DEF CallOK, Searching, Listing
  <2>10. ObjectsOK'  BY <2>4, <2>6 DEF ObjectsOK
  <2>11. ASSUME NEW e \in Devices
         PROVE  Found(e)' <= Due(e)' /\ (e \in stable' => Found(e)' = Due(e)')
    <3>1. Due(e)' = Due(e) + (IF e = call.at /\ IdOf[e] = pci_ids[call.i] THEN 1 ELSE 0)
          BY <1>1, <2>6, DueBehind
    <3>2. Due(e)' = Due(e) + (IF e = call.at THEN 1 ELSE 0)  BY <3>1, <1>2
    <3>3. Found(e)' = Found(e) + (IF e = call.at THEN 1 ELSE 0)  BY <2>4
    <3>4. Due(e) \in Nat /\ Found(e) \in Nat  BY DueIs
    <3>5. Found(e) <= Due(e) /\ (e \in stable => Found(e) = Due(e))  BY <1>1 DEF FoundOK, Searching
    <3>6. stable' = stable  BY <1>1 DEF history
    <3> HIDE DEF IInv
    <3> QED  BY <3>2, <3>3, <3>4, <3>5, <3>6
  <2>12. FoundOK'  BY <1>1, <1>2, <2>11 DEF FoundOK, FindsDevices, history, kernelVars
  <2>13. ListedOK'  BY <2>6, NothingListed DEF Listed, Listing
  <2> QED  BY <2>7, <2>8, <2>9, <2>10, <2>12, <2>13
<1> QED  BY <1>3, <1>4 DEF PciDevice_new_op

(* The operator is gone, or was never completed: so are its objects. *)
LEMMA FailKept == ASSUME OperatorAssumption, IInv, Fail PROVE IInv'
<1> USE DEF IInv
<1>1. /\ call.pc = "fail" /\ op' = "none" /\ devices' = <<>> /\ list' = NewList /\ call' = Idle
      /\ pci_ids' = <<>> /\ stable' = {} /\ UNCHANGED <<known, bound, buffers, always, ever>>
      /\ heap' = heap \ {devices[n].obj : n \in DOMAIN devices}
      BY DEF Fail, kernelVars
<1>2. heap = {devices[n].obj : n \in DOMAIN devices}  BY <1>1 DEF ObjectsOK
<1>3. heap' = {}  BY <1>1, <1>2
<1>4. call' \in CallType /\ call'.pc = "idle"  BY <1>1, IdleIs
<1>5. TypeInv'
  <2>1. pci_ids' \in Seq(Ids) /\ devices' \in Seq(Object)  BY <1>1, EmptySeq
  <2> QED  BY <2>1, <1>1, <1>3, <1>4 DEF TypeInv
<1>6. ArrayOK' /\ list'.cap = 0  BY <1>1, ArrayNew
<1>7. CallOK'  BY <1>1, <1>4 DEF CallOK, Searching, Listing
<1>8. ObjectsOK'
  <2>1. IsFiniteSet(heap')  BY <1>3, FS_EmptySet
  <2>2. DOMAIN devices' = {}  BY <1>1
  <2> QED  BY <2>1, <2>2, <1>1, <1>3, <1>4 DEF ObjectsOK
<1>9. FoundOK'  BY <1>1, <1>4 DEF FoundOK, FindsDevices, Searching
<1>10. ListedOK'  BY <1>4, <1>6, NothingListed DEF Listed, Listing
<1> QED  BY <1>5, <1>6, <1>7, <1>8, <1>9, <1>10

-----------------------------------------------------------------------------
(* DeviceOperator_delete *)

LEMMA DeleteBegins == ASSUME OperatorAssumption, IInv, DeviceOperator_delete PROVE IInv'
<1> USE DEF IInv
<1>1. /\ call = Idle /\ op = "ready" /\ Goto("delete") /\ list' = NewList
      /\ UNCHANGED <<known, bound, buffers, op, pci_ids, devices, heap>>
      /\ stable' = {} /\ always' = {} /\ ever' = {}
      BY DEF DeviceOperator_delete, CallOK, kernelVars, opVars
<1>2. call' = [call EXCEPT !.pc = "delete"] /\ "delete" \in Pcs /\ call \in CallType
      BY <1>1 DEF Goto, Pcs, TypeInv
<1>3. call' \in CallType /\ call'.pc = "delete" /\ call'.i = call.i  BY <1>2 DEF CallType
<1>4. call.pc = "idle" /\ call.i = 1  BY <1>1, IdleIs
<1>5. TypeInv'  BY <1>1, <1>3 DEF TypeInv
<1>6. ArrayOK' /\ list'.cap = 0  BY <1>1, ArrayNew
<1>7. CallOK'  BY <1>1, <1>3 DEF CallOK, Searching, Listing
<1>8. ObjectsOK'
  <2>1. \A k \in DOMAIN devices : k >= 1  BY DEF TypeInv
  <2>2. {k \in DOMAIN devices' : call'.pc = "delete" => k >= call'.i}
          = {k \in DOMAIN devices : call.pc = "delete" => k >= call.i}
        BY <2>1, <1>1, <1>3, <1>4
  <2> QED  BY <2>2, <1>1, <1>3 DEF ObjectsOK
<1>9. FoundOK'  BY <1>1, <1>3, FoundStays DEF Searching
<1>10. ListedOK'  BY <1>3, NothingListed DEF Listed, Listing
<1> QED  BY <1>5, <1>6, <1>7, <1>8, <1>9, <1>10

LEMMA DeleteKept == ASSUME OperatorAssumption, IInv, Delete PROVE IInv'
<1> USE DEF IInv
<1>1. /\ call.pc = "delete" /\ call \in CallType /\ op = "ready"
      /\ UNCHANGED <<known, bound, buffers, pci_ids, devices, list, stable, always, ever>>
      BY DEF Delete, TypeInv, CallOK, kernelVars, history
<1>2. ArrayOK'  BY <1>1, ArrayStays
<1>3. call.i \in Nat \ {0} /\ DOMAIN devices = 1 .. Len(devices) /\ Len(devices) \in Nat
      BY <1>1 DEF CallType, TypeInv
<1>4. heap = {devices[n].obj : n \in {k \in DOMAIN devices : k >= call.i}} /\ IsFiniteSet(heap)
      BY <1>1 DEF ObjectsOK
<1>5. ASSUME call.i <= Len(devices), heap' = heap \ {devices[call.i].obj}, UNCHANGED op,
             NEW ret \in {call.ret, "error"}, call' = [call EXCEPT !.i = @ + 1, !.ret = ret]
      PROVE  IInv'
  <2>1. /\ call' = [call EXCEPT !.i = call.i + 1, !.ret = ret] /\ call.i + 1 \in Nat \ {0}
        /\ ret \in {"ok", "error"}
        BY <1>1, <1>3, <1>5 DEF CallType
  <2>2. call' \in CallType /\ call'.pc = "delete" /\ call'.i = call.i + 1
        BY <2>1, <1>1 DEF CallType
  <2>3. TypeInv'  BY <1>1, <1>5, <2>2 DEF TypeInv
  <2>4. CallOK'  BY <1>1, <1>5, <2>2 DEF CallOK, Searching, Listing
  <2>5. ObjectsOK'
    <3>1. \A m, n \in DOMAIN devices : devices[m].obj = devices[n].obj => m = n  BY DEF ObjectsOK
    <3>2. IsFiniteSet(heap')  BY <1>4, <1>5, FS_RemoveElement
    <3>3. {k \in DOMAIN devices : k >= call.i} = {k \in DOMAIN devices : k >= call.i + 1} \cup {call.i}
          BY <1>3, <1>5
    <3>4. call.i \in DOMAIN devices /\ call.i \notin {k \in DOMAIN devices : k >= call.i + 1}
          BY <1>3, <1>5
    <3>5. heap' = {devices[n].obj : n \in {k \in DOMAIN devices : k >= call.i + 1}}
          BY <3>1, <3>3, <3>4, <1>4, <1>5
    <3> QED  BY <3>1, <3>2, <3>5, <2>2, <1>1, <1>5 DEF ObjectsOK
  <2>6. FoundOK'  BY <1>1, <1>5, <2>2, FoundStays DEF Searching
  <2>7. ListedOK'  BY <2>2, NothingListed DEF Listed, Listing
  <2> QED  BY <1>2, <2>3, <2>4, <2>5, <2>6, <2>7
<1>6. CASE /\ call.i > Len(devices)
           /\ op' = (IF call.ret = "ok" THEN "none" ELSE "failed")
           /\ call' = Idle
           /\ UNCHANGED heap
  <2>1. call' \in CallType /\ call'.pc = "idle"  BY <1>6, IdleIs
  <2>2. op' \in {"none", "failed"}  BY <1>6
  <2>3. TypeInv'  BY <1>1, <1>6, <2>1, <2>2 DEF TypeInv
  <2>4. CallOK'  BY <1>6, <2>1 DEF CallOK, Searching, Listing
  <2>5. heap' = {}
    <3>1. {k \in DOMAIN devices : k >= call.i} = {}  BY <1>3, <1>6
    <3> QED  BY <3>1, <1>4, <1>6
  <2>6. ObjectsOK'  BY <1>1, <1>4, <1>6, <2>1, <2>2, <2>5 DEF ObjectsOK
  <2>7. FoundOK'  BY <2>1, <2>2 DEF FoundOK, FindsDevices, Searching
  <2>8. ListedOK'  BY <2>1, <2>2, NothingListed DEF Listed, Listing
  <2> QED  BY <1>2, <2>3, <2>4, <2>6, <2>7, <2>8
<1> QED  BY <1>5, <1>6 DEF Delete

-----------------------------------------------------------------------------
(* PciDevice_getListOfBuffers *)

(* A step of a listing leaves the operator and its objects alone. *)
LEMMA ListMoves ==
    ASSUME OperatorAssumption, IInv, op = "ready", call.pc # "delete",
           UNCHANGED <<kernelVars, opVars>>, stable' \subseteq stable,
           always' \in SUBSET Names, ever' \in SUBSET Names,
           call' \in CallType, call'.pc \in Listing \/ call' = Idle,
           call'.pc \in {"opendir", "listdir", "grow"} => list'.cap = list'.max,
           ArrayOK', ListedOK'
    PROVE  IInv'
<1> USE DEF IInv
<1>1. call'.pc \in Listing \cup {"idle"} /\ op' = "ready"  BY IdleIs DEF opVars
<1>2. TypeInv'  BY DEF TypeInv, kernelVars, opVars
<1>3. CallOK'  BY <1>1 DEF CallOK, Searching, Listing
<1>4. ObjectsOK'  BY <1>1, ObjectsStay DEF opVars, Listing
<1>5. FoundOK'  BY <1>1, FoundStays DEF opVars, Searching, Listing
<1> QED  BY <1>2, <1>3, <1>4, <1>5

LEMMA ListBegins == ASSUME OperatorAssumption, IInv, PciDevice_getListOfBuffers PROVE IInv'
<1>1. /\ call = Idle /\ op = "ready" /\ call' = [Idle EXCEPT !.pc = "list", !.directory = "uninitialized"]
      /\ list' = [list EXCEPT !.ids = <<>>] /\ UNCHANGED <<kernelVars, opVars>>
      /\ stable' = {} /\ always' = buffers /\ ever' = buffers
      BY DEF PciDevice_getListOfBuffers, IInv, CallOK
<1>2. "list" \in Pcs /\ Idle \in CallType /\ Idle.at = 0 /\ call.pc = "idle"
      BY <1>1, IdleIs DEF Pcs, Listing
<1>3. call' \in CallType /\ call'.pc = "list" /\ call'.at = 0  BY <1>1, <1>2 DEF CallType
<1>4. list \in ListType /\ list.cap \in {0, list.max}  BY DEF IInv, ArrayOK
<1>5. <<>> \in Seq(Names) /\ Len(<<>>) = 0  BY EmptySeq
<1>6. list' \in ListType /\ list'.cap = list.cap /\ list'.max = list.max /\ list'.ids = <<>>
      BY <1>1, <1>4, <1>5 DEF ListType
<1>7. ArrayOK'  BY <1>4, <1>5, <1>6 DEF ArrayOK, ListType
<1>8. DOMAIN list'.ids = {}  BY <1>6
<1>9. ListedOK'
      BY <1>1, <1>3, <1>6, <1>8 DEF ListedOK, IsListed, Listing, Listed, kernelVars
<1> QED  BY <1>1, <1>2, <1>3, <1>7, <1>9, ListMoves DEF IInv, TypeInv, Listing, kernelVars

LEMMA ExitListKept ==
    ASSUME OperatorAssumption, IInv, call.pc \in Listing, ExitList,
           UNCHANGED <<kernelVars, opVars, history>>
    PROVE  IInv'
<1>1. list \in ListType /\ op = "ready" /\ call.pc # "delete"
      BY DEF IInv, ArrayOK, CallOK, Listing
<1>2. <<>> \in Seq(Names) /\ Len(<<>>) = 0  BY EmptySeq
<1>3. list' = [list EXCEPT !.cap = 0, !.ids = <<>>] /\ call' = Idle  BY DEF ExitList
<1>4. list' \in ListType /\ list'.cap = 0 /\ list'.ids = <<>>  BY <1>1, <1>2, <1>3 DEF ListType
<1>5. call' \in CallType /\ call'.pc = "idle"  BY <1>3, IdleIs
<1>6. ArrayOK'  BY <1>2, <1>4 DEF ArrayOK
<1>7. ListedOK'  BY <1>4, <1>5, NothingListed DEF Listed, Listing
<1> QED  BY <1>1, <1>3, <1>5, <1>6, <1>7, ListMoves DEF IInv, TypeInv, history

LEMMA AllocListKept == ASSUME OperatorAssumption, IInv, AllocList PROVE IInv'
<1>1. call.pc = "list" /\ UNCHANGED <<kernelVars, pci_ids, history>>  BY DEF AllocList
<1>2. /\ list \in ListType /\ list.cap \in {0, list.max} /\ Len(list.ids) <= list.cap
      /\ op = "ready" /\ call \in CallType
      BY <1>1 DEF IInv, ArrayOK, CallOK, Listing, TypeInv
<1>3. ASSUME Goto("opendir"), UNCHANGED <<op, devices, heap>>, list' \in ListType,
             list'.cap = list'.max, list'.ids = list.ids, ArrayOK'
      PROVE  IInv'
  <2>1. call' = [call EXCEPT !.pc = "opendir"] /\ "opendir" \in Pcs  BY <1>3 DEF Goto, Pcs, Listing
  <2>2. call' \in CallType /\ call'.pc = "opendir" /\ call'.at = call.at  BY <2>1, <1>2 DEF CallType
  <2>3. ListedOK'
        BY <1>1, <1>3, <2>2 DEF IInv, ListedOK, IsListed, Listing, Listed, kernelVars, history
  <2> QED  BY <1>1, <1>2, <1>3, <2>2, <2>3, ListMoves DEF IInv, TypeInv, history, opVars, Listing
<1>4. CASE list.cap # 0 /\ Goto("opendir") /\ UNCHANGED <<op, devices, heap, list>>
      BY <1>2, <1>3, <1>4, ArrayStays DEF IInv
<1>5. CASE /\ list.cap = 0 /\ Goto("opendir") /\ list' = [list EXCEPT !.cap = list.max]
           /\ UNCHANGED <<op, devices, heap>>
  <2>1. /\ list' \in ListType /\ list'.cap = list.max /\ list'.max = list.max
        /\ list'.ids = list.ids /\ list.max \in Nat
        BY <1>2, <1>5 DEF ListType
  <2>2. ArrayOK'  BY <2>1, <1>2, <1>5 DEF ArrayOK, ListType
  <2> QED  BY <2>1, <2>2, <1>3, <1>5
<1>6. CASE ExitList /\ UNCHANGED <<op, devices, heap>>
      BY <1>1, <1>6, ExitListKept DEF opVars, Listing
<1>7. CASE ProcessEnds
  <2> USE DEF IInv
  <2>1. op' = "none" /\ devices' = <<>> /\ heap' = {} /\ list' = NewList /\ call' = Idle
        BY <1>7 DEF ProcessEnds
  <2>2. call' \in CallType /\ call'.pc = "idle"  BY <2>1, IdleIs
  <2>3. TypeInv'
    <3>1. devices' \in Seq(Object)  BY <2>1, EmptySeq
    <3> QED  BY <3>1, <2>1, <2>2, <1>1 DEF TypeInv, kernelVars, history
  <2>4. ArrayOK' /\ list'.cap = 0  BY <2>1, ArrayNew
  <2>5. CallOK'  BY <2>1, <2>2 DEF CallOK, Searching, Listing
  <2>6. ObjectsOK'
    <3>1. IsFiniteSet(heap')  BY <2>1, FS_EmptySet
    <3>2. DOMAIN devices' = {}  BY <2>1
    <3> QED  BY <3>1, <3>2, <2>1, <2>2 DEF ObjectsOK
  <2>7. FoundOK'  BY <2>1, <2>2 DEF FoundOK, FindsDevices, Searching
  <2>8. ListedOK'  BY <2>2, <2>4, NothingListed DEF Listed, Listing
  <2> QED  BY <2>3, <2>4, <2>5, <2>6, <2>7, <2>8
<1> QED  BY <1>4, <1>5, <1>6, <1>7 DEF AllocList

LEMMA OpenListKept == ASSUME OperatorAssumption, IInv, OpenList PROVE IInv'
<1>1. call.pc = "opendir" /\ UNCHANGED <<kernelVars, opVars, history>>  BY DEF OpenList
<1>2. /\ list.ids = <<>> /\ call.at = 0 /\ op = "ready" /\ call \in CallType
      /\ list.cap = list.max
      BY <1>1 DEF IInv, CallOK, Listing, TypeInv, ListedOK
<1>3. CASE call' = [call EXCEPT !.pc = "listdir", !.directory = "open"] /\ UNCHANGED list
  <2>1. call' = [call EXCEPT !.pc = "listdir", !.directory = "open"] /\ "listdir" \in Pcs
        BY <1>3 DEF Pcs, Listing
  <2>2. call' \in CallType /\ call'.pc = "listdir" /\ call'.at = 0  BY <2>1, <1>2 DEF CallType
  <2>3. \A n \in Names : n > 0  BY DEF Names, OperatorAssumption
  <2>4. \A n \in Names : ~(n <= 0)  BY <2>3 DEF Names, OperatorAssumption
  <2>5. DOMAIN list.ids = {}  BY <1>2
  <2>6. ListedOK'
        BY <1>1, <1>2, <1>3, <2>2, <2>4, <2>5
        DEF IInv, ListedOK, IsListed, Listing, Listed, kernelVars, history
  <2> QED  BY <1>1, <1>2, <1>3, <2>2, <2>6, ArrayStays, ListMoves
           DEF IInv, TypeInv, history, Listing
<1>4. CASE ExitList  BY <1>1, <1>4, ExitListKept DEF Listing
<1> QED  BY <1>3, <1>4 DEF OpenList

(* An ID that is not in the array yet is stored behind the others. *)
LEMMA StoresId ==
    ASSUME list.ids \in Seq(Names), NEW n \in Names, ~IsListed(n),
           list'.ids = Append(list.ids, n),
           \A j, k \in DOMAIN list.ids : list.ids[j] = list.ids[k] => j = k
    PROVE  /\ list'.ids \in Seq(Names) /\ Len(list'.ids) = Len(list.ids) + 1
           /\ \A j, k \in DOMAIN list'.ids : list'.ids[j] = list'.ids[k] => j = k
           /\ \A x : IsListed(x)' <=> IsListed(x) \/ x = n
<1> DEFINE s == list.ids
           a == list'.ids
<1>1. /\ a \in Seq(Names) /\ Len(a) = Len(s) + 1 /\ Len(s) \in Nat
      /\ DOMAIN s = 1 .. Len(s) /\ DOMAIN a = 1 .. Len(s) + 1
      /\ \A k \in DOMAIN s : a[k] = s[k]
      /\ a[Len(s) + 1] = n
      BY AppendProperties
<1>2. \A x : IsListed(x) <=> \E k \in DOMAIN s : s[k] = x  BY DEF IsListed
<1>3. \A x : IsListed(x)' <=> \E k \in DOMAIN a : a[k] = x  BY DEF IsListed
<1> HIDE DEF s, a
<1>4. DOMAIN a = DOMAIN s \cup {Len(s) + 1} /\ Len(s) + 1 \notin DOMAIN s  BY <1>1
<1>5. \A x : IsListed(x)' <=> IsListed(x) \/ x = n  BY <1>1, <1>2, <1>3, <1>4
<1>6. ASSUME NEW j \in DOMAIN a, NEW k \in DOMAIN a, a[j] = a[k]  PROVE j = k
  <2>1. \A i, l \in DOMAIN s : s[i] = s[l] => i = l  BY DEF s
  <2>2. \A i \in DOMAIN s : s[i] # n  BY <1>2
  <2> QED  BY <1>1, <1>4, <1>6, <2>1, <2>2
<1> QED  BY <1>1, <1>5, <1>6 DEF s, a

LEMMA ListDirKept == ASSUME OperatorAssumption, IInv, ListDir PROVE IInv'
<1>1. call.pc = "listdir" /\ Rest(buffers) # {} /\ UNCHANGED <<kernelVars, opVars, history>>
      BY DEF ListDir
<1>2. /\ list \in ListType /\ list.cap = list.max /\ Len(list.ids) <= list.cap
      /\ op = "ready" /\ call \in CallType /\ call.at \in Nat
      /\ always \subseteq buffers /\ buffers \subseteq ever /\ buffers \in SUBSET Names
      /\ \A j, k \in DOMAIN list.ids : list.ids[j] = list.ids[k] => j = k
      /\ \A x \in Names : IsListed(x) => x \in ever
      /\ \A x \in Names : IsListed(x) => x <= call.at
      /\ \A x \in Names : x \in always /\ x <= call.at => IsListed(x)
      BY <1>1 DEF IInv, ArrayOK, CallOK, Listing, TypeInv, ListedOK, CallType
<1>3. \A x \in Names : x \in Nat  BY DEF Names, OperatorAssumption
<1> DEFINE n == NextEntry(buffers)
<1>4. n \in buffers /\ n > call.at /\ \A x \in buffers : x > call.at => n <= x
  <2>1. buffers \in SUBSET Nat  BY <1>2, <1>3
  <2> QED  BY <2>1, <1>1, NextEntryIs
<1>5. /\ call' = [call EXCEPT !.at = n, !.pc = IF Len(list.ids) >= list.max THEN "grow" ELSE "listdir"]
      /\ list' = IF Len(list.ids) >= list.max THEN list ELSE Stored(n)
      BY DEF ListDir
<1> HIDE DEF n
<1>6. n \in Names /\ n \in Nat /\ n \in ever  BY <1>2, <1>3, <1>4
<1>7. {"grow", "listdir"} \subseteq Pcs  BY DEF Pcs, Listing
<1>8. \A x \in Names : (x \in always /\ x < n => IsListed(x)) /\ (IsListed(x) => x < n)
      BY <1>2, <1>3, <1>4, <1>6
<1>9. always' = always /\ ever' = ever /\ buffers' = buffers /\ op' = op
      BY <1>1 DEF history, kernelVars, opVars
<1>10. CASE Len(list.ids) >= list.max
  <2>1. call' = [call EXCEPT !.at = n, !.pc = "grow"] /\ list' = list  BY <1>5, <1>10
  <2>2. call' \in CallType /\ call'.pc = "grow" /\ call'.at = n
        BY <2>1, <1>2, <1>6, <1>7 DEF CallType
  <2>3. \A x : IsListed(x)' <=> IsListed(x)  BY <2>1 DEF IsListed
  <2>4. ListedOK'
        BY <1>2, <1>6, <1>8, <1>9, <2>1, <2>2, <2>3 DEF ListedOK, Listing, Listed
  <2> QED  BY <1>1, <1>2, <2>1, <2>2, <2>4, ArrayStays, ListMoves DEF IInv, TypeInv, history, Listing
<1>11. CASE ~(Len(list.ids) >= list.max)
  <2>1. call' = [call EXCEPT !.at = n, !.pc = "listdir"] /\ list' = [list EXCEPT !.ids = Append(list.ids, n)]
        BY <1>5, <1>11 DEF Stored
  <2>2. call' \in CallType /\ call'.pc = "listdir" /\ call'.at = n
        BY <2>1, <1>2, <1>6, <1>7 DEF CallType
  <2>3. list.ids \in Seq(Names) /\ list.max \in Nat \ {0}  BY <1>2 DEF ListType
  <2>4. Append(list.ids, n) \in Seq(Names)  BY <2>3, <1>6, AppendProperties
  <2>5. /\ list' \in ListType /\ list'.cap = list.cap /\ list'.max = list.max
        /\ list'.ids = Append(list.ids, n)
        BY <2>1, <2>4, <1>2 DEF ListType
  <2>6. ~IsListed(n)  BY <1>6, <1>8
  <2>7. /\ Len(list'.ids) = Len(list.ids) + 1
        /\ \A j, k \in DOMAIN list'.ids : list'.ids[j] = list'.ids[k] => j = k
        /\ \A x : IsListed(x)' <=> IsListed(x) \/ x = n
        BY <2>3, <2>5, <2>6, <1>2, <1>6, StoresId
  <2>8. ArrayOK'
    <3>1. Len(list.ids) \in Nat  BY <2>3
    <3> QED  BY <3>1, <2>3, <2>5, <2>7, <1>2, <1>11 DEF ArrayOK
  <2>9. \A x \in Names : (x \in always /\ x <= n => IsListed(x)') /\ (IsListed(x)' => x <= n)
        BY <2>7, <1>3, <1>6, <1>8
  <2>10. ListedOK'
         BY <1>2, <1>6, <1>9, <2>2, <2>7, <2>9 DEF ListedOK, Listing, Listed
  <2> QED  BY <1>1, <1>2, <2>2, <2>5, <2>8, <2>10, ListMoves DEF IInv, TypeInv, history, Listing
<1> QED  BY <1>10, <1>11

LEMMA GrowKept == ASSUME OperatorAssumption, IInv, Grow PROVE IInv'
<1>1. call.pc = "grow" /\ UNCHANGED <<kernelVars, opVars, history>>  BY DEF Grow
<1>2. /\ list \in ListType /\ list.cap = list.max /\ Len(list.ids) <= list.cap
      /\ op = "ready" /\ call \in CallType
      /\ always \subseteq buffers /\ buffers \subseteq ever /\ ever \in SUBSET Names
      /\ \A j, k \in DOMAIN list.ids : list.ids[j] = list.ids[k] => j = k
      /\ \A x \in Names : IsListed(x) => x \in ever
      /\ call.at \in ever
      /\ \A x \in Names : IsListed(x) => x < call.at
      /\ \A x \in Names : x \in always /\ x < call.at => IsListed(x)
      BY <1>1 DEF IInv, ArrayOK, CallOK, Listing, TypeInv, ListedOK, CallType
<1>3. call.at \in Names /\ \A x \in Names : x \in Nat
  <2>1. call.at \in Names  BY <1>2
  <2>2. \A x \in Names : x \in Nat  BY DEF Names, OperatorAssumption
  <2> QED  BY <2>1, <2>2
<1>4. /\ list.ids \in Seq(Names) /\ list.max \in Nat \ {0} /\ 2 * list.max \in Nat \ {0}
      /\ Len(list.ids) \in Nat
      BY <1>2 DEF ListType
<1>5. always' = always /\ ever' = ever /\ buffers' = buffers /\ op' = op
      BY <1>1 DEF history, kernelVars, opVars
<1>6. CASE Goto("listdir") /\ list' = [Stored(call.at) EXCEPT !.max = 2 * @, !.cap = 2 * list.max]
  <2>1. call' = [call EXCEPT !.pc = "listdir"] /\ "listdir" \in Pcs  BY <1>6 DEF Goto, Pcs, Listing
  <2>2. call' \in CallType /\ call'.pc = "listdir" /\ call'.at = call.at
        BY <2>1, <1>2 DEF CallType
  <2>3. Append(list.ids, call.at) \in Seq(Names)  BY <1>3, <1>4, AppendProperties
  <2> DEFINE stored == Stored(call.at)
  <2>4. /\ stored \in ListType /\ stored.cap = list.cap /\ stored.max = list.max
        /\ stored.ids = Append(list.ids, call.at)
        BY <2>3, <1>2 DEF ListType, Stored
  <2>5. list' = [stored EXCEPT !.max = 2 * stored.max, !.cap = 2 * list.max]  BY <1>6
  <2> HIDE DEF stored
  <2>6. /\ list' \in ListType /\ list'.cap = 2 * list.max /\ list'.max = 2 * list.max
        /\ list'.ids = Append(list.ids, call.at)
        BY <2>4, <2>5, <1>4 DEF ListType
  <2>7. ~IsListed(call.at)  BY <1>2, <1>3
  <2>8. /\ Len(list'.ids) = Len(list.ids) + 1
        /\ \A j, k \in DOMAIN list'.ids : list'.ids[j] = list'.ids[k] => j = k
        /\ \A x : IsListed(x)' <=> IsListed(x) \/ x = call.at
        BY <2>6, <2>7, <1>2, <1>3, <1>4, StoresId
  <2>9. ArrayOK'  BY <2>6, <2>8, <1>2, <1>4 DEF ArrayOK
  <2>10. \A x \in Names : /\ x \in always /\ x <= call.at => IsListed(x)'
                          /\ IsListed(x)' => x <= call.at
        BY <2>8, <1>2, <1>3
  <2>11. ListedOK'
         BY <1>2, <1>5, <2>2, <2>8, <2>10 DEF ListedOK, Listing, Listed
  <2> QED  BY <1>1, <1>2, <2>2, <2>6, <2>9, <2>11, ListMoves DEF IInv, TypeInv, history, Listing
<1>7. CASE call' = Idle /\ list' = [max |-> 2 * list.max, cap |-> 0, ids |-> <<>>]
  <2>1. call' \in CallType /\ call'.pc = "idle"  BY <1>7, IdleIs
  <2>2. <<>> \in Seq(Names) /\ Len(<<>>) = 0  BY EmptySeq
  <2>3. list' \in ListType /\ list'.cap = 0 /\ list'.ids = <<>>  BY <2>2, <1>4, <1>7 DEF ListType
  <2>4. ArrayOK'  BY <2>2, <2>3 DEF ArrayOK
  <2>5. ListedOK'  BY <2>1, <2>3, NothingListed DEF Listed, Listing
  <2> QED  BY <1>1, <1>2, <1>7, <2>1, <2>4, <2>5, ListMoves DEF IInv, TypeInv, history, Listing
<1> QED  BY <1>6, <1>7 DEF Grow

LEMMA EndListKept == ASSUME OperatorAssumption, IInv, EndList PROVE IInv'
<1>1. /\ call.pc = "listdir" /\ Rest(buffers) = {} /\ call' = Idle
      /\ UNCHANGED <<kernelVars, opVars, list, history>>
      BY DEF EndList
<1>2. call' \in CallType /\ call'.pc = "idle"  BY <1>1, IdleIs
<1>3. /\ op = "ready" /\ call.at \in Nat /\ always \subseteq buffers /\ buffers \in SUBSET Names
      BY <1>1 DEF IInv, CallOK, Listing, TypeInv, ListedOK, CallType
<1>4. \A x \in Names : x \in Nat  BY DEF Names, OperatorAssumption
<1>5. \A x \in always : x \in Names /\ x <= call.at  BY <1>1, <1>3, <1>4 DEF Rest
<1>6. \A x \in always : IsListed(x)  BY <1>1, <1>5 DEF IInv, ListedOK
<1>7. ListedOK'
  <2>1. /\ \A j, k \in DOMAIN list.ids : list.ids[j] = list.ids[k] => j = k
        /\ \A x \in Names : IsListed(x) => x \in ever
        BY <1>1 DEF IInv, ListedOK, Listing
  <2>2. \A x : IsListed(x)' <=> IsListed(x)  BY <1>1 DEF IsListed
  <2>3. list' = list /\ always' = always /\ ever' = ever  BY <1>1 DEF history
  <2> QED  BY <2>1, <2>2, <2>3, <1>2, <1>6 DEF ListedOK, Listing, Listed
<1> QED  BY <1>1, <1>2, <1>3, <1>7, ArrayStays, ListMoves DEF IInv, TypeInv, history

-----------------------------------------------------------------------------
(* The kernel and other processes *)

(* A device comes or goes while there is no operator that is ready. *)
LEMMA BoundChanges ==
    ASSUME OperatorAssumption, IInv, op # "ready", bound' \in SUBSET Devices,
           stable' \subseteq stable, stable \subseteq bound => stable' \subseteq bound',
           UNCHANGED <<known, buffers, opVars, list, call, always, ever>>
    PROVE  IInv'
<1> USE DEF IInv
<1>1. TypeInv'  BY DEF TypeInv, opVars
<1>2. ArrayOK'  BY ArrayStays
<1>3. CallOK'  BY DEF CallOK, opVars
<1>4. ObjectsOK'  BY DEF ObjectsOK, opVars
<1>5. FoundOK'
  <2>1. \A e \in Devices : Found(e)' = Found(e) /\ Due(e)' = Due(e)
        BY DEF Found, Due, Passed, Entries, opVars
  <2> QED  BY <2>1 DEF FoundOK, FindsDevices, opVars
<1>6. ListedOK'
  <2>1. call'.pc \notin Listing /\ ~Listed'  BY DEF CallOK, Listing, Listed, opVars
  <2> QED  BY <2>1, NothingListed
<1> QED  BY <1>1, <1>2, <1>3, <1>4, <1>5, <1>6

(* A buffer comes or goes while the operator is ready. *)
LEMMA BuffersChange ==
    ASSUME OperatorAssumption, IInv, op = "ready", buffers' \in SUBSET Names,
           always' \subseteq always, ever \subseteq ever', ever' \in SUBSET Names,
           call.pc \in Listing => always' \subseteq buffers' /\ buffers' \subseteq ever',
           UNCHANGED <<known, bound, opVars, list, call, stable>>
    PROVE  IInv'
<1> USE DEF IInv
<1>1. TypeInv'  BY DEF TypeInv, opVars
<1>2. ArrayOK'  BY ArrayStays
<1>3. CallOK'  BY DEF CallOK, opVars
<1>4. ObjectsOK'  BY DEF ObjectsOK, opVars
<1>5. FoundOK'
  <2>1. call'.pc \notin Searching  BY DEF CallOK, Searching
  <2> QED  BY <2>1, FoundStays DEF opVars
<1>6. ListedOK'
  <2>1. \A x : IsListed(x)' <=> IsListed(x)  BY DEF IsListed
  <2>2. Listed' <=> Listed  BY DEF Listed, opVars
  <2>3. CASE call.pc \notin Listing /\ ~Listed  BY <2>2, <2>3, NothingListed
  <2>4. CASE call.pc \in Listing \/ Listed  BY <2>1, <2>2, <2>4 DEF ListedOK
  <2> QED  BY <2>3, <2>4
<1> QED  BY <1>1, <1>2, <1>3, <1>4, <1>5, <1>6

LEMMA KernelKept ==
    ASSUME OperatorAssumption, IInv, Bind \/ Unbind \/ RequestBuffer \/ FreeBuffer
    PROVE  IInv'
<1>1. /\ bound \in SUBSET Devices /\ buffers \in SUBSET Names /\ ever \in SUBSET Names
      /\ call.pc \in Listing => always \subseteq buffers /\ buffers \subseteq ever
      BY DEF IInv, TypeInv, ListedOK
<1>2. CASE Bind
  <2>1. /\ op # "ready" /\ UNCHANGED <<known, buffers, opVars, list, call, history>>
        BY <1>2 DEF Bind
  <2>2. PICK e \in Devices : bound' = bound \cup {e}  BY <1>2 DEF Bind
  <2>3. bound' \in SUBSET Devices /\ bound \subseteq bound'  BY <2>2, <1>1
  <2> QED  BY <2>1, <2>3, BoundChanges DEF history
<1>3. CASE Unbind
  <2>1. /\ op # "ready" /\ UNCHANGED <<known, buffers, opVars, list, call, always, ever>>
        BY <1>3 DEF Unbind
  <2>2. PICK e \in bound : bound' = bound \ {e} /\ stable' = stable \ {e}  BY <1>3 DEF Unbind
  <2>3. /\ bound' \in SUBSET Devices /\ stable' \subseteq stable
        /\ stable \subseteq bound => stable' \subseteq bound'
        BY <2>2, <1>1
  <2> QED  BY <2>1, <2>3, BoundChanges
<1>4. CASE RequestBuffer
  <2>1. /\ op = "ready" /\ UNCHANGED <<known, bound, opVars, list, call, stable, always>>
        BY <1>4 DEF RequestBuffer
  <2>2. PICK n \in Names : /\ buffers' = buffers \cup {n}
                           /\ ever' = IF call.pc \in Listing THEN ever \cup {n} ELSE ever
        BY <1>4 DEF RequestBuffer
  <2>3. /\ buffers' \in SUBSET Names /\ ever \subseteq ever' /\ ever' \in SUBSET Names
        /\ call.pc \in Listing => always \subseteq buffers' /\ buffers' \subseteq ever'
        BY <2>2, <1>1
  <2> QED  BY <2>1, <2>3, BuffersChange
<1>5. CASE FreeBuffer
  <2>1. /\ op = "ready" /\ UNCHANGED <<known, bound, opVars, list, call, stable, ever>>
        BY <1>5 DEF FreeBuffer
  <2>2. PICK n \in buffers : /\ buffers' = buffers \ {n}
                             /\ always' = IF call.pc \in Listing THEN always \ {n} ELSE always
        BY <1>5 DEF FreeBuffer
  <2>3. /\ buffers' \in SUBSET Names /\ always' \subseteq always
        /\ call.pc \in Listing => always' \subseteq buffers' /\ buffers' \subseteq ever
        BY <2>2, <1>1
  <2> QED  BY <2>1, <2>3, <1>1, BuffersChange
<1> QED  BY <1>2, <1>3, <1>4, <1>5

-----------------------------------------------------------------------------
(* The invariant is inductive *)

LEMMA InitHolds == ASSUME OperatorAssumption, Init PROVE IInv
<1>1. call = Idle /\ call \in CallType /\ call.pc = "idle"  BY IdleIs DEF Init
<1>2. TypeInv
  <2>1. pci_ids \in Seq(Ids) /\ devices \in Seq(Object)  BY EmptySeq DEF Init
  <2> QED  BY <2>1, <1>1 DEF Init, TypeInv, OperatorAssumption
<1>3. ArrayOK /\ list.cap = 0
  <2>1. list = NewList  BY DEF Init
  <2> QED  BY <2>1, NewListIs DEF ArrayOK
<1>4. CallOK  BY <1>1 DEF CallOK, Searching, Listing
<1>5. ObjectsOK
  <2>1. IsFiniteSet(heap)  BY FS_EmptySet DEF Init
  <2>2. DOMAIN devices = {}  BY DEF Init
  <2> QED  BY <2>1, <2>2, <1>1 DEF ObjectsOK, Init
<1>6. FoundOK  BY <1>1 DEF FoundOK, FindsDevices, Searching, Init
<1>7. ListedOK  BY <1>1, <1>3 DEF ListedOK, Listing, Listed
<1> QED  BY <1>2, <1>3, <1>4, <1>5, <1>6, <1>7 DEF IInv

LEMMA NextKeeps == ASSUME OperatorAssumption, IInv, Next PROVE IInv'
<1>1. CASE DeviceOperator_new  BY <1>1, NewKept
<1>2. CASE DeviceOperator_delete  BY <1>2, DeleteBegins
<1>3. CASE PciDevice_getListOfBuffers  BY <1>3, ListBegins
<1>4. CASE Step
  <2>1. CASE NewId  BY <2>1, NewIdKept
  <2>2. CASE Search  BY <2>2, SearchKept
  <2>3. CASE ReadDir  BY <2>3, ReadDirKept
  <2>4. CASE OpenVendor  BY <2>4, OpenVendorKept
  <2>5. CASE OpenDevice  BY <2>5, OpenDeviceKept
  <2>6. CASE PciDevice_new_op  BY <2>6, CreateKept
  <2>7. CASE Fail  BY <2>7, FailKept
  <2>8. CASE Delete  BY <2>8, DeleteKept
  <2>9. CASE AllocList  BY <2>9, AllocListKept
  <2>10. CASE OpenList  BY <2>10, OpenListKept
  <2>11. CASE ListDir  BY <2>11, ListDirKept
  <2>12. CASE Grow  BY <2>12, GrowKept
  <2>13. CASE EndList  BY <2>13, EndListKept
  <2> QED  BY <1>4, <2>1, <2>2, <2>3, <2>4, <2>5, <2>6, <2>7, <2>8, <2>9, <2>10, <2>11,
              <2>12, <2>13 DEF Step
<1>5. CASE Bind \/ Unbind \/ RequestBuffer \/ FreeBuffer  BY <1>5, KernelKept
<1> QED  BY <1>1, <1>2, <1>3, <1>4, <1>5 DEF Next

LEMMA StutterKeeps == ASSUME IInv, UNCHANGED vars PROVE IInv'
<1> USE DEF vars, kernelVars, opVars, history
<1>1. TypeInv' /\ ArrayOK' /\ CallOK' /\ ObjectsOK'
      BY DEF IInv, TypeInv, ArrayOK, CallOK, ObjectsOK
<1>2. FoundOK'
  <2>1. \A e \in Devices : Found(e)' = Found(e) /\ Due(e)' = Due(e)
        BY DEF Found, Due, Passed, Entries
  <2>2. FindsDevices'  BY DEF IInv, FoundOK, FindsDevices, Entries
  <2> QED  BY <2>1, <2>2 DEF IInv, FoundOK
<1>3. ListedOK'
  <2>1. \A x : IsListed(x)' <=> IsListed(x)  BY DEF IsListed
  <2>2. Listed' <=> Listed  BY DEF Listed
  <2> QED  BY <2>1, <2>2 DEF IInv, ListedOK
<1> QED  BY <1>1, <1>2, <1>3 DEF IInv

LEMMA Invariance == Spec => []IInv
<1>1. Init => IInv  BY OperatorAssumption, InitHolds
<1>2. IInv /\ [Next]_vars => IInv'  BY OperatorAssumption, NextKeeps, StutterKeeps
<1> QED  BY <1>1, <1>2, PTL DEF Spec

-----------------------------------------------------------------------------
(* Theorems *)

(***************************************************************************)
(* Every variable keeps its type, and PciDevice_getListOfBuffers stores no *)
(* ID behind the end of the array, however many buffers are added while it *)
(* reads the directory.                                                    *)
(***************************************************************************)
THEOREM TypeCorrect == Spec => []TypeOK
<1>1. IInv => TypeOK
      BY DEF IInv, TypeInv, ArrayOK, TypeOK, CallType, ListType, Pcs, Object
<1> QED  BY <1>1, Invariance, PTL

(***************************************************************************)
(* DeviceOperator_new finds every device that stays bound as often as its  *)
(* ID is listed, except one whose vendor file it could not open at its     *)
(* turn, and no device more often, for any number of devices, any list of  *)
(* IDs, and whatever the kernel binds and unbinds meanwhile.               *)
(***************************************************************************)
THEOREM SearchFindsDevices == Spec => []FindsDevices
<1>1. IInv => FindsDevices  BY DEF IInv, FoundOK
<1> QED  BY <1>1, Invariance, PTL

(***************************************************************************)
(* The PciDevice objects that exist are the ones the operator hands out:   *)
(* the error path of DeviceOperator_new and a DeviceOperator_delete that   *)
(* fails leave none behind, and no object is handed out twice.             *)
(***************************************************************************)
THEOREM NoObjectLeaks == Spec => []ObjectsAccounted
<1>1. IInv => ObjectsAccounted
  <2> SUFFICES ASSUME IInv  PROVE ObjectsAccounted  OBVIOUS
  <2>1. call.pc # "delete" => {k \in DOMAIN devices : call.pc = "delete" => k >= call.i} = DOMAIN devices
        OBVIOUS
  <2> QED  BY <2>1 DEF IInv, ObjectsOK, CallOK, ObjectsAccounted
<1> QED  BY <1>1, Invariance, PTL

(***************************************************************************)
(* PciDevice_getListOfBuffers returns each buffer that stays once, and     *)
(* none that was never there, for any number of buffers and however often  *)
(* the array had to grow.                                                  *)
(***************************************************************************)
THEOREM ListIsComplete == Spec => []ListsBuffers
<1>1. IInv => ListsBuffers
  <2> SUFFICES ASSUME IInv, Listed
               PROVE  /\ \A n \in Names : Times(n, list.ids) <= 1
                      /\ \A n \in always : Times(n, list.ids) = 1
                      /\ \A n \in Names \ ever : Times(n, list.ids) = 0
      BY DEF ListsBuffers, Listed
  <2>1. list.ids \in Seq(Names) /\ always \in SUBSET Names
        BY DEF IInv, ArrayOK, ListType, TypeInv
  <2>2. \A m, n \in DOMAIN list.ids : list.ids[m] = list.ids[n] => m = n
        BY DEF IInv, ListedOK
  <2>3. \A n \in Names : Times(n, list.ids) = IF IsListed(n) THEN 1 ELSE 0
        BY <2>1, <2>2, TimesOnce DEF IsListed
  <2>4. /\ \A n \in always : IsListed(n)
        /\ \A n \in Names : IsListed(n) => n \in ever
        BY DEF IInv, ListedOK
  <2> QED  BY <2>1, <2>3, <2>4
<1> QED  BY <1>1, Invariance, PTL

====
