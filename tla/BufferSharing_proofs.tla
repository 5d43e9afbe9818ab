----------------------- MODULE BufferSharing_proofs ------------------------
(***************************************************************************)
(* Theorems of BufferSharing, for any processes, buffers, IDs, calls and   *)
(* faults: the types, that a mapping is covered by its shared lock, and    *)
(* that the process that frees a buffer has it to itself, each as long as  *)
(* closing alloc_fd = 0 has not hit the descriptor in question; and, for   *)
(* processes that delete what they made, that the last one removes it.     *)
(*                                                                         *)
(* A step of one process replaces its row of each variable, so that the    *)
(* invariant is made of what holds of one process (RowOK) and of flock's   *)
(* exclusion between all places that hold a lock.                          *)
(***************************************************************************)
EXTENDS BufferSharing, TLAPS

ObjKinds  == {"none", "kernel", "found", "user"}
FdKinds   == {"closed", "open", "SH", "EX", "zero"}
LostKinds == {"closed", "SH", "EX"}
Locks     == {"SH", "EX"}

(* The positions in DMABuffer_free at which the map file is open. *)
FreeingPCs == {"tryEx", "openFree", "close"}

(* What the position of a call says about the descriptor it works with. *)
CallRecOK(c) ==
    /\ c \in CallState
    /\ c.pc = "idle"  => c = NoCall
    /\ c.pc = "flock" => c.buf \in Bufs /\ c.lock \in {"open", "zero"}
    /\ c.pc = "mmap"  => c.buf \in Bufs /\ c.lock \in {"SH", "zero"}
    /\ c.lock # "closed" => c.pc \in {"flock", "mmap"}
    /\ c.pc \in FreeingPCs => c.buf \in Bufs

(* Descriptor 0 is the map file of one buffer, or no map file. *)
ZeroOK(z) ==
    /\ z \in ZeroState
    /\ z.file = "map" => z.buf \in Bufs
    /\ z.file # "map" => z.buf = NoBuf
    /\ z.file = "none" => z.lock = "closed"

(* A mapping has its lock (MappedHoldsLock for one process). *)
Covered(o, f, z, h) ==
    \A b \in Bufs : o[b] \in Mapped =>
        \/ f[b] = "SH"
        \/ f[b] = "zero" /\ (h \/ (z.file = "map" /\ z.buf = b /\ z.lock = "SH"))

(* Without a hit at most one map_fd is 0, and descriptor 0 is its file. *)
Genuine(f, z, h, c) ==
    ~h => \A b \in Bufs : f[b] = "zero" => z.file = "map" /\ z.buf = b /\ c.lock # "zero"

(* Descriptor 0 under construction belongs to the call. *)
Building(z, c) ==
    c.lock = "zero" =>
        /\ z.file = "map" /\ z.buf = c.buf
        /\ z.lock = IF c.pc = "mmap" THEN "SH" ELSE "open"

(* The node that DMABuffer_free works on is unmapped, then locked. *)
FreesLocked(o, f, z, h, c) ==
    /\ c.pc \in FreeingPCs =>
          /\ o[c.buf] = "none"
          /\ c.pc = "tryEx" => f[c.buf] \in {"open", "zero"}
          /\ c.pc # "tryEx" => f[c.buf] = "EX" \/ (f[c.buf] = "zero" /\ z.lock = "EX")
    /\ c.pc = "badWrite" => h

RowOK(o, f, z, h, c) ==
    /\ CallRecOK(c) /\ ZeroOK(z)
    /\ Covered(o, f, z, h) /\ Genuine(f, z, h, c) /\ Building(z, c) /\ FreesLocked(o, f, z, h, c)

Rows == \A p \in Procs : RowOK(obj[p], fd[p], zero[p], hit[p], call[p])

(* A buffer that is registered, or that a node refers to, has a name. *)
NamesOK ==
    /\ \A i \in Ids : reg[i] # NoBuf => nameOf[reg[i]] \in Ids
    /\ \A p \in Procs, b \in Bufs : obj[p][b] # "none" => nameOf[b] \in Ids

(* The places of a process that can hold a lock on b, and what they hold. *)
Places == {"node", "lost", "new", "zero"}

RowLock(f, l, z, c, b, x) ==
    IF x = "node" THEN f[b]
    ELSE IF x = "lost" THEN l[b]
    ELSE IF x = "new" THEN IF c.buf = b THEN c.lock ELSE "closed"
    ELSE IF z.buf = b THEN z.lock ELSE "closed"

LockAt(p, b, x) == RowLock(fd[p], leaked[p], zero[p], call[p], b, x)

(* flock(): an exclusive lock excludes every other lock on the buffer. *)
LockExclusion ==
    \A p, q \in Procs, b \in Bufs, x, y \in Places :
        LockAt(p, b, x) = "EX" /\ LockAt(q, b, y) \in Locks => p = q /\ x = y

IInv == TypeOK /\ Rows /\ NamesOK /\ LockExclusion

(* The two ways in which a step may change the kset, and a step that does not. *)
KernelStep ==
    \/ UNCHANGED kernelVars
    \/ \E i \in Ids, b \in Bufs : request_buffer_write(i, b)
    \/ \E i \in Ids : delete_buffer_write(i)

(* A step of p: its rows become these, the others stay. *)
Replaced(p, o, f, l, z, h, c) ==
    /\ obj'    = [obj EXCEPT ![p] = o]
    /\ fd'     = [fd EXCEPT ![p] = f]
    /\ leaked' = [leaked EXCEPT ![p] = l]
    /\ zero'   = [zero EXCEPT ![p] = z]
    /\ hit'    = [hit EXCEPT ![p] = h]
    /\ call'   = [call EXCEPT ![p] = c]

(* Nobody holds the exclusive lock on b; only p may hold a lock on it. *)
NoExclusive(b)  == \A q \in Procs, y \in Places : LockAt(q, b, y) # "EX"
NoOther(p, b)   == \A q \in Procs, y \in Places : LockAt(q, b, y) \in Locks => q = p

(* Every lock of the new rows of p was there before, or is granted by flock. *)
Granted(p, f, l, z, c) ==
    \A b \in Bufs, x \in Places :
        \/ RowLock(f, l, z, c, b, x) \notin Locks
        \/ RowLock(f, l, z, c, b, x) = LockAt(p, b, x)
        \/ RowLock(f, l, z, c, b, x) = "SH" /\ NoExclusive(b)
        \/ /\ RowLock(f, l, z, c, b, x) = "EX" /\ NoOther(p, b)
           /\ \A y \in Places \ {x} : RowLock(f, l, z, c, b, y) \notin Locks

-----------------------------------------------------------------------------
(* A process without a call satisfies its part of the invariant. *)
LEMMA NoCallOK == NoCall \in CallState /\ CallRecOK(NoCall) /\ NoCall.lock = "closed"
                    /\ NoCall.pc \notin FreeingPCs \cup {"badWrite"}
  BY SharingAssumption DEF NoCall, CallState, PCs, Modes, Ids, IdArgs, CallRecOK, FreeingPCs

(* What open() and close() make of descriptor 0. *)
LEMMA FilesOK ==
  /\ ZeroOK(NoFile) /\ NoFile.buf = NoBuf /\ NoFile.lock = "closed" /\ NoFile.file = "none"
  /\ \A k \in {"stdin", "request", "free", "dir"} :
        LET z == ZeroFile(k, NoBuf) IN ZeroOK(z) /\ z.buf = NoBuf /\ z.lock = "open" /\ z.file = k
  /\ \A b \in Bufs :
        LET z == ZeroFile("map", b) IN ZeroOK(z) /\ z.buf = b /\ z.lock = "open" /\ z.file = "map"
  BY DEF ZeroOK, ZeroFile, NoFile, ZeroState

(* So does a process that has nothing open but its standard input. *)
LEMMA FreshRow ==
  ASSUME NEW o, NEW f, \A b \in Bufs : o[b] = "none" /\ f[b] = "closed"
  PROVE  RowOK(o, f, ZeroFile("stdin", NoBuf), FALSE, NoCall)
  BY NoCallOK, FilesOK DEF RowOK, Covered, Mapped, Genuine, Building, FreesLocked

(* The initial state satisfies the inductive invariant. *)
LEMMA InitIInv == Init => IInv
  <1> USE SharingAssumption DEF Init
  <1> SUFFICES ASSUME Init PROVE IInv
    OBVIOUS
  <1>1. TypeOK
    BY NoCallOK, FilesOK DEF TypeOK, ZeroOK
  <1>2. Rows
    <2> SUFFICES ASSUME NEW p \in Procs PROVE RowOK(obj[p], fd[p], zero[p], hit[p], call[p])
      BY DEF Rows
    <2>1. /\ \A b \in Bufs : obj[p][b] = "none" /\ fd[p][b] = "closed"
          /\ zero[p] = ZeroFile("stdin", NoBuf) /\ hit[p] = FALSE /\ call[p] = NoCall
      OBVIOUS
    <2> QED BY <2>1, FreshRow
  <1>3. NamesOK
    BY DEF NamesOK
  <1>4. LockExclusion
    BY NoCallOK DEF LockExclusion, LockAt, RowLock, Places, ZeroFile
  <1> QED BY <1>1, <1>2, <1>3, <1>4 DEF IInv

(* The kernel's writes keep the registry typed and every name known. *)
LEMMA KernelStepOK ==
  ASSUME TypeOK, NamesOK, KernelStep
  PROVE  /\ reg' \in [Ids -> Bufs \cup {NoBuf}]
         /\ nameOf' \in [Bufs -> Ids \cup {NoId}]
         /\ \A i \in Ids : reg'[i] # NoBuf => nameOf'[reg'[i]] \in Ids
         /\ \A b \in Bufs : nameOf[b] \in Ids => nameOf'[b] \in Ids
  <1> USE SharingAssumption
  <1>1. CASE UNCHANGED kernelVars
    BY <1>1 DEF kernelVars, TypeOK, NamesOK
  <1>2. CASE \E i \in Ids, b \in Bufs : request_buffer_write(i, b)
    BY <1>2 DEF request_buffer_write, TypeOK, NamesOK
  <1>3. CASE \E i \in Ids : delete_buffer_write(i)
    BY <1>3 DEF delete_buffer_write, TypeOK, NamesOK
  <1> QED BY <1>1, <1>2, <1>3 DEF KernelStep

(* The rows after a step of p. *)
LEMMA RowsAfter ==
  ASSUME TypeOK, NEW p \in Procs, NEW o, NEW f, NEW l, NEW z, NEW h, NEW c,
         Replaced(p, o, f, l, z, h, c)
  PROVE  /\ obj'[p] = o /\ fd'[p] = f /\ leaked'[p] = l
         /\ zero'[p] = z /\ hit'[p] = h /\ call'[p] = c
         /\ \A q \in Procs : q # p =>
               /\ obj'[q] = obj[q] /\ fd'[q] = fd[q] /\ leaked'[q] = leaked[q]
               /\ zero'[q] = zero[q] /\ hit'[q] = hit[q] /\ call'[q] = call[q]
  BY DEF Replaced, TypeOK

(***************************************************************************)
(* A step that changes the rows of one process, and the kset.              *)
(***************************************************************************)
LEMMA RowStep ==
  ASSUME IInv, NEW p \in Procs, NEW o \in [Bufs -> ObjKinds], NEW f \in [Bufs -> FdKinds],
         NEW l \in [Bufs -> LostKinds], NEW z, NEW h \in BOOLEAN, NEW c,
         Replaced(p, o, f, l, z, h, c), KernelStep, RowOK(o, f, z, h, c),
         \A b \in Bufs : o[b] # "none" => nameOf[b] \in Ids,
         Granted(p, f, l, z, c)
  PROVE  IInv'
  <1>1. TypeOK /\ Rows /\ NamesOK /\ LockExclusion
    BY DEF IInv
  <1>2. /\ obj'[p] = o /\ fd'[p] = f /\ leaked'[p] = l
        /\ zero'[p] = z /\ hit'[p] = h /\ call'[p] = c
    BY <1>1, RowsAfter
  <1>3. \A q \in Procs : q # p =>
           /\ obj'[q] = obj[q] /\ fd'[q] = fd[q] /\ leaked'[q] = leaked[q]
           /\ zero'[q] = zero[q] /\ hit'[q] = hit[q] /\ call'[q] = call[q]
    BY <1>1, RowsAfter
  <1>4. /\ reg' \in [Ids -> Bufs \cup {NoBuf}] /\ nameOf' \in [Bufs -> Ids \cup {NoId}]
        /\ \A i \in Ids : reg'[i] # NoBuf => nameOf'[reg'[i]] \in Ids
        /\ \A b \in Bufs : nameOf[b] \in Ids => nameOf'[b] \in Ids
    BY <1>1, KernelStepOK
  <1>5. c \in CallState /\ z \in ZeroState /\ (c.pc = "idle" => c = NoCall)
    BY DEF RowOK, CallRecOK, ZeroOK
  <1>6. TypeOK'
    <2>1. /\ obj' \in [Procs -> [Bufs -> {"none", "kernel", "found", "user"}]]
          /\ fd' \in [Procs -> [Bufs -> {"closed", "open", "SH", "EX", "zero"}]]
          /\ leaked' \in [Procs -> [Bufs -> {"closed", "SH", "EX"}]]
      BY <1>1 DEF Replaced, TypeOK, ObjKinds, FdKinds, LostKinds
    <2>2. zero' \in [Procs -> ZeroState] /\ hit' \in [Procs -> BOOLEAN] /\ call' \in [Procs -> CallState]
      BY <1>1, <1>5 DEF Replaced, TypeOK
    <2>3. \A q \in Procs : call'[q].pc = "idle" => call'[q] = NoCall
      BY <1>1, <1>2, <1>3, <1>5 DEF TypeOK
    <2> QED BY <1>4, <2>1, <2>2, <2>3 DEF TypeOK
  <1>7. Rows'
    <2> SUFFICES ASSUME NEW q \in Procs
                 PROVE  RowOK(obj'[q], fd'[q], zero'[q], hit'[q], call'[q])
      BY DEF Rows
    <2>1. CASE q = p
      BY <1>2, <2>1
    <2>2. CASE q # p
      BY <1>1, <1>3, <2>2 DEF Rows
    <2> QED BY <2>1, <2>2
  <1>8. NamesOK'
    <2>1. ASSUME NEW q \in Procs, NEW b \in Bufs, obj'[q][b] # "none" PROVE nameOf'[b] \in Ids
      BY <1>1, <1>2, <1>3, <1>4, <2>1 DEF NamesOK
    <2> QED BY <1>4, <2>1 DEF NamesOK
  <1>9. LockExclusion'
    <2>1. \A b \in Bufs, x \in Places : LockAt(p, b, x)' = RowLock(f, l, z, c, b, x)
      BY <1>2 DEF LockAt, RowLock
    <2>2. \A q \in Procs, b \in Bufs, x \in Places : q # p => LockAt(q, b, x)' = LockAt(q, b, x)
      BY <1>3 DEF LockAt, RowLock
    <2> SUFFICES ASSUME NEW r \in Procs, NEW q \in Procs, NEW b \in Bufs,
                        NEW x \in Places, NEW y \in Places,
                        LockAt(r, b, x)' = "EX", LockAt(q, b, y)' \in Locks
                 PROVE  r = q /\ x = y
      BY DEF LockExclusion
    <2>3. CASE r # p /\ q # p
      BY <1>1, <2>2, <2>3 DEF LockExclusion
    <2>4. CASE r = p /\ q # p
      <3>1. LockAt(p, b, x) = "EX" \/ NoOther(p, b)
        BY <2>1, <2>4 DEF Granted, Locks
      <3>2. LockAt(q, b, y) \in Locks
        BY <2>2, <2>4
      <3> QED BY <1>1, <2>4, <3>1, <3>2 DEF LockExclusion, NoOther
    <2>5. CASE r # p /\ q = p
      <3>1. LockAt(r, b, x) = "EX"
        BY <2>2, <2>5
      <3>2. LockAt(p, b, y) \in Locks \/ NoExclusive(b) \/ NoOther(p, b)
        BY <2>1, <2>5 DEF Granted
      <3> QED BY <1>1, <2>5, <3>1, <3>2 DEF LockExclusion, NoExclusive, NoOther, Locks
    <2>6. CASE r = p /\ q = p
      <3> SUFFICES ASSUME x # y PROVE FALSE
        BY <2>6
      <3>1. \/ LockAt(p, b, x) = "EX"
            \/ \A w \in Places \ {x} : RowLock(f, l, z, c, b, w) \notin Locks
        BY <2>1, <2>6 DEF Granted, Locks
      <3>2. RowLock(f, l, z, c, b, y) \in Locks
        BY <2>1, <2>6
      <3>3. LockAt(p, b, x) = "EX"
        BY <3>1, <3>2
      <3>4. \/ LockAt(p, b, y) \in Locks \/ NoExclusive(b)
            \/ \A w \in Places \ {y} : RowLock(f, l, z, c, b, w) \notin Locks
        BY <3>2 DEF Granted
      <3>5. RowLock(f, l, z, c, b, x) \in Locks
        BY <2>1, <2>6 DEF Locks
      <3> QED BY <1>1, <3>3, <3>4, <3>5 DEF LockExclusion, NoExclusive
    <2> QED BY <2>3, <2>4, <2>5, <2>6
  <1> QED BY <1>6, <1>7, <1>8, <1>9 DEF IInv

(* What the invariant says of one process. *)
LEMMA RowParts ==
  ASSUME IInv, NEW p \in Procs
  PROVE  /\ CallRecOK(call[p]) /\ call[p] \in CallState /\ ZeroOK(zero[p])
         /\ Covered(obj[p], fd[p], zero[p], hit[p]) /\ Genuine(fd[p], zero[p], hit[p], call[p])
         /\ Building(zero[p], call[p]) /\ FreesLocked(obj[p], fd[p], zero[p], hit[p], call[p])
         /\ obj[p] \in [Bufs -> ObjKinds] /\ fd[p] \in [Bufs -> FdKinds]
         /\ leaked[p] \in [Bufs -> LostKinds] /\ hit[p] \in BOOLEAN
         /\ \A b \in Bufs : obj[p][b] # "none" => nameOf[b] \in Ids
  BY DEF IInv, Rows, RowOK, TypeOK, CallRecOK, NamesOK, ObjKinds, FdKinds, LostKinds

(* A row that a step leaves alone. *)
LEMMA SameRows ==
  ASSUME TypeOK, NEW p \in Procs
  PROVE  /\ obj = [obj EXCEPT ![p] = obj[p]] /\ fd = [fd EXCEPT ![p] = fd[p]]
         /\ leaked = [leaked EXCEPT ![p] = leaked[p]] /\ zero = [zero EXCEPT ![p] = zero[p]]
         /\ hit = [hit EXCEPT ![p] = hit[p]] /\ call = [call EXCEPT ![p] = call[p]]
  BY DEF TypeOK

(* A change of descriptor 0 that no node notices, and that takes no lock. *)
ZeroLeft(p, z) ==
    \/ z = zero[p]
    \/ ZeroOK(z) /\ z.buf = NoBuf /\ (zero[p].file # "map" \/ call[p].lock = "zero")

(* A call that has no map file open. *)
Plain(c) == CallRecOK(c) /\ c.lock = "closed" /\ c.pc \notin FreeingPCs \cup {"badWrite"}

LEMMA PlainCallOK ==
  ASSUME NEW c \in CallState, c.lock = "closed",
         c.pc \in {"lookup", "open", "next", "write", "unattached", "dangling"}
  PROVE  Plain(c)
  BY DEF Plain, CallRecOK, FreeingPCs

LEMMA NoCallPlain == Plain(NoCall)
  BY NoCallOK DEF Plain

(* A step that changes the kset, the call of p and its descriptor 0, and takes no lock. *)
LEMMA CallStepIInv ==
  ASSUME IInv, NEW p \in Procs, NEW z, NEW c, Plain(c), ZeroLeft(p, z),
         zero' = [zero EXCEPT ![p] = z], call' = [call EXCEPT ![p] = c],
         UNCHANGED <<obj, fd, leaked, hit>>, KernelStep
  PROVE  IInv'
  <1>1. /\ CallRecOK(call[p]) /\ ZeroOK(zero[p])
        /\ Covered(obj[p], fd[p], zero[p], hit[p]) /\ Genuine(fd[p], zero[p], hit[p], call[p])
        /\ obj[p] \in [Bufs -> ObjKinds] /\ fd[p] \in [Bufs -> FdKinds]
        /\ leaked[p] \in [Bufs -> LostKinds] /\ hit[p] \in BOOLEAN
        /\ \A b \in Bufs : obj[p][b] # "none" => nameOf[b] \in Ids
    BY RowParts
  <1>2. Replaced(p, obj[p], fd[p], leaked[p], z, hit[p], c)
    <2>1. TypeOK
      BY DEF IInv
    <2> QED BY <2>1, SameRows DEF Replaced
  <1>3. ZeroOK(z)
    BY <1>1 DEF ZeroLeft
  <1>4. z = zero[p] \/ \A b \in Bufs : fd[p][b] = "zero" => hit[p]
    BY <1>1 DEF ZeroLeft, Genuine
  <1>5. Covered(obj[p], fd[p], z, hit[p])
    BY <1>1, <1>4 DEF Covered
  <1>6. Genuine(fd[p], z, hit[p], c)
    BY <1>1, <1>4 DEF Genuine, Plain
  <1>7. Building(z, c) /\ FreesLocked(obj[p], fd[p], z, hit[p], c)
    BY DEF Building, FreesLocked, Plain
  <1>8. RowOK(obj[p], fd[p], z, hit[p], c)
    BY <1>3, <1>5, <1>6, <1>7 DEF RowOK, Plain
  <1>9. Granted(p, fd[p], leaked[p], z, c)
    <2>1. \A b \in Bufs : z = zero[p] \/ z.buf # b
      BY SharingAssumption DEF ZeroLeft
    <2>2. \A b \in Bufs, x \in Places :
             \/ RowLock(fd[p], leaked[p], z, c, b, x) \notin Locks
             \/ RowLock(fd[p], leaked[p], z, c, b, x) = LockAt(p, b, x)
      BY <2>1 DEF RowLock, LockAt, Locks, Plain, Places
    <2> QED BY <2>2 DEF Granted
  <1> QED BY <1>1, <1>2, <1>8, <1>9, RowStep

(* The effect of Opens and Closes on descriptor 0, where no map file is opened. *)
LEMMA ZeroStays ==
  ASSUME IInv, NEW p \in Procs, UNCHANGED zero
  PROVE  \E z : zero' = [zero EXCEPT ![p] = z] /\ ZeroLeft(p, z)
  <1>1. TypeOK
    BY DEF IInv
  <1> QED BY <1>1, SameRows DEF ZeroLeft

LEMMA OpensOther ==
  ASSUME IInv, NEW p \in Procs, NEW k \in {"request", "free", "dir"}, Opens(p, k, NoBuf)
  PROVE  \E z : zero' = [zero EXCEPT ![p] = z] /\ ZeroLeft(p, z)
  <1>1. CASE ZeroIsFree(p)
    <2> DEFINE z == ZeroFile(k, NoBuf)
    <2>1. zero' = [zero EXCEPT ![p] = z]
      BY <1>1 DEF Opens
    <2>2. ZeroOK(z) /\ z.buf = NoBuf /\ zero[p].file # "map"
      BY <1>1, FilesOK DEF ZeroIsFree
    <2> HIDE DEF z
    <2> QED BY <2>1, <2>2 DEF ZeroLeft
  <1>2. CASE ~ZeroIsFree(p)
    BY <1>2, ZeroStays DEF Opens
  <1> QED BY <1>1, <1>2

LEMMA ClosesOther ==
  ASSUME IInv, NEW p \in Procs, NEW w \in BOOLEAN, Closes(p, w),
         w => zero[p].file # "map" \/ call[p].lock = "zero"
  PROVE  \E z : zero' = [zero EXCEPT ![p] = z] /\ ZeroLeft(p, z)
  <1>1. CASE w
    <2>1. zero' = [zero EXCEPT ![p] = NoFile]
      BY <1>1 DEF Closes
    <2>2. ZeroLeft(p, NoFile)
      BY <1>1, FilesOK DEF ZeroLeft
    <2> QED BY <2>1, <2>2
  <1>2. CASE ~w
    BY <1>2, ZeroStays DEF Closes
  <1> QED BY <1>1, <1>2

-----------------------------------------------------------------------------
(* Allocation and registration of a buffer. *)
LEMMA RequestIInv ==
  ASSUME IInv, NEW p \in Procs, NEW a \in IdArgs, NEW m \in {"alloc", "register"},
         Request(p, a, m)
  PROVE  IInv'
  <1> DEFINE i == DMABuffer_findNewIndex(p, a)
             c == [NoCall EXCEPT !.arg = a, !.id = i, !.mode = m]
             c1 == [c EXCEPT !.pc = "open"]
             c2 == [c EXCEPT !.pc = IF m = "alloc" THEN "open" ELSE "lookup", !.failed = TRUE]
  <1>1. i \in Ids /\ UNCHANGED <<obj, fd, leaked, hit>>
    BY DEF Request
  <1>2. KernelStep
    BY DEF Request, KernelStep
  <1>3. call' = [call EXCEPT ![p] = c1] \/ call' = [call EXCEPT ![p] = c2]
    BY DEF Request
  <1>7. UNCHANGED zero \/ Opens(p, "request", NoBuf)
    BY DEF Request
  <1> HIDE DEF i
  <1>4. c1 \in CallState /\ c2 \in CallState
    BY <1>1, NoCallOK DEF CallState, PCs, Modes
  <1>5. /\ c1.lock = "closed" /\ c1.pc = "open"
        /\ c2.lock = "closed" /\ c2.pc \in {"open", "lookup"}
    BY DEF NoCall
  <1>6. Plain(c1) /\ Plain(c2)
    BY <1>4, <1>5, PlainCallOK
  <1>8. PICK z : zero' = [zero EXCEPT ![p] = z] /\ ZeroLeft(p, z)
    BY <1>7, ZeroStays, OpensOther
  <1> HIDE DEF c1, c2
  <1> QED BY <1>1, <1>2, <1>3, <1>6, <1>8, CallStepIInv

(* Lookup of a buffer, from the application and within the call. *)
LEMMA LookupIInv ==
  ASSUME IInv, NEW p \in Procs, PciDevice_getDMABuffer(p) \/ Lookup(p)
  PROVE  IInv'
  <1>1. KernelStep /\ UNCHANGED <<obj, fd, leaked, hit>> /\ UNCHANGED zero
    BY DEF PciDevice_getDMABuffer, Lookup, KernelStep, objVars, fileVars
  <1>7. PICK z : zero' = [zero EXCEPT ![p] = z] /\ ZeroLeft(p, z)
    BY <1>1, ZeroStays
  <1>2. CASE call' = [call EXCEPT ![p] = NoCall]
    BY <1>1, <1>2, <1>7, NoCallPlain, CallStepIInv
  <1>3. CASE \E a \in IdArgs :
                call' = [call EXCEPT ![p] = [NoCall EXCEPT !.pc = "lookup", !.arg = a]]
    <2> PICK a \in IdArgs :
                call' = [call EXCEPT ![p] = [NoCall EXCEPT !.pc = "lookup", !.arg = a]]
      BY <1>3
    <2> DEFINE c == [NoCall EXCEPT !.pc = "lookup", !.arg = a]
    <2>1. c \in CallState
      BY NoCallOK DEF CallState, PCs
    <2>2. c.lock = "closed" /\ c.pc = "lookup"
      BY DEF NoCall
    <2>3. Plain(c)
      BY <2>1, <2>2, PlainCallOK
    <2> HIDE DEF c
    <2>4. call' = [call EXCEPT ![p] = c]
      BY DEF c
    <2> QED BY <1>1, <1>7, <2>3, <2>4, CallStepIInv
  <1>4. CASE \E a \in IdArgs, i \in Ids :
                call' = [call EXCEPT ![p] = [NoCall EXCEPT !.pc = "open", !.arg = a, !.id = i]]
    <2> PICK a \in IdArgs, i \in Ids :
                call' = [call EXCEPT ![p] = [NoCall EXCEPT !.pc = "open", !.arg = a, !.id = i]]
      BY <1>4
    <2> DEFINE c == [NoCall EXCEPT !.pc = "open", !.arg = a, !.id = i]
    <2>1. c \in CallState
      BY NoCallOK DEF CallState, PCs
    <2>2. c.lock = "closed" /\ c.pc = "open"
      BY DEF NoCall
    <2>3. Plain(c)
      BY <2>1, <2>2, PlainCallOK
    <2> HIDE DEF c
    <2>4. call' = [call EXCEPT ![p] = c]
      BY DEF c
    <2> QED BY <1>1, <1>7, <2>3, <2>4, CallStepIInv
  <1>5. CASE PciDevice_getDMABuffer(p)
    BY <1>3, <1>5 DEF PciDevice_getDMABuffer
  <1>6. CASE Lookup(p)
    <2> DEFINE i == DMABuffer_findNewIndex(p, call[p].arg)
    <2>1. call[p].arg \in IdArgs
      BY DEF IInv, TypeOK, CallState
    <2>2. \/ call' = [call EXCEPT ![p] = NoCall]
          \/ i \in Ids /\ call' = [call EXCEPT ![p] =
                            [NoCall EXCEPT !.pc = "open", !.arg = call[p].arg, !.id = i]]
      BY <1>6 DEF Lookup, Return
    <2> HIDE DEF i
    <2> QED BY <1>2, <1>4, <2>1, <2>2
  <1> QED BY <1>5, <1>6

(* The places that a lock request looks at: all but the one that asks. *)
LEMMA Conflicts ==
  ASSUME IInv, NEW p \in Procs, NEW b \in Bufs, NEW kinds \in SUBSET Locks
  PROVE  /\ ~NewConflict(p, b, kinds) =>
               \A q \in Procs, y \in Places : LockAt(q, b, y) \in kinds => q = p /\ y = "new"
         /\ ~NodeConflict(p, b, kinds) =>
               \A q \in Procs, y \in Places : LockAt(q, b, y) \in kinds => q = p /\ y = "node"
         /\ ~ZeroConflict(p, kinds) /\ zero[p].buf = b =>
               \A q \in Procs, y \in Places : LockAt(q, b, y) \in kinds => q = p /\ y = "zero"
  <1>1. "closed" \notin kinds /\ b # NoBuf
    BY SharingAssumption DEF Locks
  <1>2. ~NewConflict(p, b, kinds) =>
               \A q \in Procs, y \in Places : LockAt(q, b, y) \in kinds => q = p /\ y = "new"
    BY <1>1 DEF NewConflict, LockAt, RowLock, Places
  <1>3. ~NodeConflict(p, b, kinds) =>
               \A q \in Procs, y \in Places : LockAt(q, b, y) \in kinds => q = p /\ y = "node"
    BY <1>1 DEF NodeConflict, LockAt, RowLock, Places
  <1>4. ASSUME ~ZeroConflict(p, kinds), zero[p].buf = b, NEW q \in Procs, NEW y \in Places,
               LockAt(q, b, y) \in kinds
        PROVE  q = p /\ y = "zero"
    <2>1. y \notin {"node", "lost", "new"}
      BY <1>1, <1>4 DEF ZeroConflict, LockAt, RowLock
    <2>2. zero[q].buf = b /\ zero[q].lock \in kinds /\ y = "zero"
      BY <1>1, <1>4, <2>1 DEF LockAt, RowLock, Places
    <2>3. zero[q].file = "map" /\ zero[p].file = "map"
      <3>1. ZeroOK(zero[q]) /\ ZeroOK(zero[p])
        BY RowParts
      <3> QED BY <1>1, <1>4, <2>2, <3>1 DEF ZeroOK
    <2> QED BY <1>4, <2>2, <2>3 DEF ZeroConflict
  <1> QED BY <1>2, <1>3, <1>4

(* open() of the map file. *)
LEMMA MapOpenIInv ==
  ASSUME IInv, NEW p \in Procs, MapOpen(p)
  PROVE  IInv'
  <1> DEFINE b == reg[call[p].id]
             k == IF ZeroIsFree(p) THEN "zero" ELSE "open"
             c == [call[p] EXCEPT !.pc = "flock", !.buf = b, !.lock = k]
             z == IF ZeroIsFree(p) THEN ZeroFile("map", b) ELSE zero[p]
  <1>1. KernelStep /\ UNCHANGED <<obj, fd, leaked, hit>> /\ TypeOK /\ call[p].pc = "open"
    BY DEF MapOpen, KernelStep, IInv
  <1>2. CASE Return(p) /\ UNCHANGED zero
    BY <1>1, <1>2, NoCallPlain, ZeroStays, CallStepIInv DEF Return
  <1>3. CASE b # NoBuf /\ call' = [call EXCEPT ![p] = c] /\ Opens(p, "map", b)
    <2>1. call[p] \in CallState /\ b \in Bufs
      BY <1>1, <1>3 DEF TypeOK, CallState
    <2>2. zero' = [zero EXCEPT ![p] = z]
      BY <1>1, <1>3, SameRows DEF Opens
    <2> HIDE DEF b
    <2>3. /\ c \in CallState /\ c.pc = "flock" /\ c.buf = b /\ c.lock = k
          /\ k = (IF ZeroIsFree(p) THEN "zero" ELSE "open")
      BY <2>1 DEF CallState, PCs
    <2> HIDE DEF c, k
    <2>4. Replaced(p, obj[p], fd[p], leaked[p], z, hit[p], c)
      BY <1>1, <1>3, <2>2, SameRows DEF Replaced
    <2>5. /\ CallRecOK(call[p]) /\ ZeroOK(zero[p])
          /\ Covered(obj[p], fd[p], zero[p], hit[p]) /\ Genuine(fd[p], zero[p], hit[p], call[p])
          /\ obj[p] \in [Bufs -> ObjKinds] /\ fd[p] \in [Bufs -> FdKinds]
          /\ leaked[p] \in [Bufs -> LostKinds] /\ hit[p] \in BOOLEAN
          /\ \A d \in Bufs : obj[p][d] # "none" => nameOf[d] \in Ids
      BY RowParts
    <2>6. CallRecOK(c)
      BY <2>1, <2>3 DEF CallRecOK, FreeingPCs
    <2>7. ZeroIsFree(p) => z.file = "map" /\ z.buf = b /\ z.lock = "open" /\ ZeroOK(z)
      BY <2>1, FilesOK
    <2>8. ~ZeroIsFree(p) => z = zero[p]
      OBVIOUS
    <2> HIDE DEF z
    <2>9. ZeroIsFree(p) => \A d \in Bufs : fd[p][d] = "zero" => hit[p]
      BY <2>5 DEF Genuine, ZeroIsFree
    <2>10. ZeroOK(z) /\ Covered(obj[p], fd[p], z, hit[p])
      BY <2>5, <2>7, <2>8, <2>9 DEF Covered
    <2>11. Genuine(fd[p], z, hit[p], c)
      BY <2>3, <2>5, <2>8, <2>9 DEF Genuine
    <2>12. Building(z, c) /\ FreesLocked(obj[p], fd[p], z, hit[p], c)
      BY <2>3, <2>7 DEF Building, FreesLocked, FreeingPCs
    <2>13. RowOK(obj[p], fd[p], z, hit[p], c)
      BY <2>6, <2>10, <2>11, <2>12 DEF RowOK
    <2>14. Granted(p, fd[p], leaked[p], z, c)
      <3>1. \A d \in Bufs, x \in Places :
               \/ RowLock(fd[p], leaked[p], z, c, d, x) \notin Locks
               \/ RowLock(fd[p], leaked[p], z, c, d, x) = LockAt(p, d, x)
        BY <2>3, <2>7, <2>8 DEF RowLock, LockAt, Locks, Places
      <3> QED BY <3>1 DEF Granted
    <2> QED BY <1>1, <2>4, <2>5, <2>13, <2>14, RowStep
  <1> QED BY <1>2, <1>3 DEF MapOpen

(* DMABuffer_mapUser adds a node without a lock. *)
LEMMA MapUserIInv ==
  ASSUME IInv, NEW p \in Procs, DMABuffer_mapUser(p)
  PROVE  IInv'
  <1> DEFINE b == reg[call[p].id]
             k == IF ZeroIsFree(p) THEN "zero" ELSE "open"
             c == [call[p] EXCEPT !.pc = "lookup"]
             z == IF ZeroIsFree(p) THEN ZeroFile("map", b) ELSE zero[p]
             o == [obj[p] EXCEPT ![b] = "user"]
             f == [fd[p] EXCEPT ![b] = k]
  <1>1. /\ call' = [call EXCEPT ![p] = c] /\ UNCHANGED <<leaked, hit>> /\ TypeOK /\ KernelStep
        /\ call[p].pc = "open"
    BY DEF DMABuffer_mapUser, Goto, IInv, KernelStep
  <1>2. call[p] \in CallState /\ CallRecOK(call[p]) /\ call[p].id \in Ids
    BY RowParts DEF CallState
  <1>3. c \in CallState /\ c.pc = "lookup" /\ c.lock = "closed"
    BY <1>1, <1>2 DEF CallState, PCs, CallRecOK
  <1>4. Plain(c)
    BY <1>3, PlainCallOK
  <1> HIDE DEF c
  <1>6. CASE UNCHANGED <<obj, fd, zero>>
    BY <1>1, <1>4, <1>6, ZeroStays, CallStepIInv
  <1>7. CASE /\ b # NoBuf
             /\ obj' = [obj EXCEPT ![p] = o] /\ fd' = [fd EXCEPT ![p] = f] /\ Opens(p, "map", b)
    <2>1. b \in Bufs /\ nameOf[b] \in Ids
      BY <1>1, <1>2, <1>7 DEF IInv, TypeOK, NamesOK
    <2>2. zero' = [zero EXCEPT ![p] = z]
      BY <1>1, <1>7, SameRows DEF Opens
    <2>3. Replaced(p, o, f, leaked[p], z, hit[p], c)
      BY <1>1, <1>7, <2>2, SameRows DEF Replaced
    <2>5. /\ CallRecOK(call[p]) /\ ZeroOK(zero[p])
          /\ Covered(obj[p], fd[p], zero[p], hit[p]) /\ Genuine(fd[p], zero[p], hit[p], call[p])
          /\ obj[p] \in [Bufs -> ObjKinds] /\ fd[p] \in [Bufs -> FdKinds]
          /\ leaked[p] \in [Bufs -> LostKinds] /\ hit[p] \in BOOLEAN
          /\ \A d \in Bufs : obj[p][d] # "none" => nameOf[d] \in Ids
      BY RowParts
    <2> HIDE DEF b
    <2>4. k \in FdKinds /\ k = (IF ZeroIsFree(p) THEN "zero" ELSE "open")
      BY DEF FdKinds
    <2> HIDE DEF k
    <2>6. /\ o \in [Bufs -> ObjKinds] /\ f \in [Bufs -> FdKinds]
          /\ \A d \in Bufs : o[d] = (IF d = b THEN "user" ELSE obj[p][d])
          /\ \A d \in Bufs : f[d] = (IF d = b THEN k ELSE fd[p][d])
      BY <2>4, <2>5 DEF ObjKinds
    <2>7. ZeroIsFree(p) => z.file = "map" /\ z.buf = b /\ z.lock = "open" /\ ZeroOK(z)
      BY <2>1, FilesOK
    <2>8. ~ZeroIsFree(p) => z = zero[p]
      OBVIOUS
    <2> HIDE DEF z, o, f
    <2>9. ZeroIsFree(p) => \A d \in Bufs : fd[p][d] = "zero" => hit[p]
      BY <2>5 DEF Genuine, ZeroIsFree
    <2>10. ZeroOK(z) /\ Covered(o, f, z, hit[p])
      BY <2>5, <2>6, <2>7, <2>8, <2>9 DEF Covered, Mapped
    <2>11. Genuine(f, z, hit[p], c)
      BY <1>3, <2>4, <2>5, <2>6, <2>7, <2>8, <2>9 DEF Genuine
    <2>12. Building(z, c) /\ FreesLocked(o, f, z, hit[p], c)
      BY <1>3 DEF Building, FreesLocked, FreeingPCs
    <2>13. RowOK(o, f, z, hit[p], c)
      BY <1>4, <2>10, <2>11, <2>12 DEF RowOK, Plain
    <2>14. Granted(p, f, leaked[p], z, c)
      <3>1. \A d \in Bufs, x \in Places :
               \/ RowLock(f, leaked[p], z, c, d, x) \notin Locks
               \/ RowLock(f, leaked[p], z, c, d, x) = LockAt(p, d, x)
        BY <1>3, <2>4, <2>6, <2>7, <2>8 DEF RowLock, LockAt, Locks, Places
      <3> QED BY <3>1 DEF Granted
    <2>15. \A d \in Bufs : o[d] # "none" => nameOf[d] \in Ids
      BY <2>1, <2>5, <2>6
    <2> QED BY <1>1, <2>3, <2>5, <2>6, <2>13, <2>14, <2>15, RowStep
  <1> QED BY <1>6, <1>7 DEF DMABuffer_mapUser

(* flock(LOCK_SH) on the file under construction. *)
LEMMA MapLockIInv ==
  ASSUME IInv, NEW p \in Procs, MapLock(p)
  PROVE  IInv'
  <1> DEFINE b == call[p].buf
             k == IF call[p].lock = "zero" THEN "zero" ELSE "SH"
             c == [call[p] EXCEPT !.pc = "mmap", !.lock = k]
             z == IF call[p].lock = "zero" THEN [zero[p] EXCEPT !.lock = "SH"] ELSE zero[p]
  <1>1. KernelStep /\ UNCHANGED <<obj, fd, leaked, hit>> /\ TypeOK /\ call[p].pc = "flock"
    BY DEF MapLock, KernelStep, IInv
  <1>2. CASE Return(p) /\ Closes(p, call[p].lock = "zero")
    <2>1. (call[p].lock = "zero") \in BOOLEAN
      OBVIOUS
    <2>2. PICK y : zero' = [zero EXCEPT ![p] = y] /\ ZeroLeft(p, y)
      BY <1>2, <2>1, ClosesOther
    <2> QED BY <1>1, <1>2, <2>2, NoCallPlain, CallStepIInv DEF Return
  <1>3. CASE ~NewBusy(p) /\ LockedShared(p)
    <2>1. /\ CallRecOK(call[p]) /\ call[p] \in CallState /\ ZeroOK(zero[p])
          /\ Covered(obj[p], fd[p], zero[p], hit[p]) /\ Genuine(fd[p], zero[p], hit[p], call[p])
          /\ Building(zero[p], call[p])
          /\ obj[p] \in [Bufs -> ObjKinds] /\ fd[p] \in [Bufs -> FdKinds]
          /\ leaked[p] \in [Bufs -> LostKinds] /\ hit[p] \in BOOLEAN
          /\ \A d \in Bufs : obj[p][d] # "none" => nameOf[d] \in Ids
      BY RowParts
    <2>2. call' = [call EXCEPT ![p] = c] /\ zero' = [zero EXCEPT ![p] = z]
      BY <1>1, <1>3, SameRows DEF LockedShared
    <2>3. Replaced(p, obj[p], fd[p], leaked[p], z, hit[p], c)
      BY <1>1, <2>2, SameRows DEF Replaced
    <2>4. /\ c \in CallState /\ c.pc = "mmap" /\ c.buf = b /\ c.lock = k
      BY <2>1 DEF CallState, PCs
    <2>5. b \in Bufs /\ call[p].lock \in {"open", "zero"}
      BY <1>1, <2>1 DEF CallRecOK
    <2>6. CallRecOK(c)
      BY <2>4, <2>5 DEF CallRecOK, FreeingPCs
    <2>7. /\ z.file = zero[p].file /\ z.buf = zero[p].buf
          /\ z.lock = (IF call[p].lock = "zero" THEN "SH" ELSE zero[p].lock)
          /\ ZeroOK(z)
      BY <2>1 DEF ZeroOK, ZeroState, Building
    <2>8. NoExclusive(b)
      <3>1. CASE call[p].lock = "zero"
        <4>1. ~ZeroConflict(p, {"EX"}) /\ zero[p].buf = b /\ zero[p].lock = "open"
          BY <1>1, <1>3, <2>1, <3>1 DEF NewBusy, Building
        <4>2. \A q \in Procs, y \in Places : LockAt(q, b, y) \in {"EX"} => q = p /\ y = "zero"
          BY <2>5, <4>1, Conflicts DEF Locks
        <4> QED BY <4>1, <4>2 DEF NoExclusive, LockAt, RowLock
      <3>2. CASE call[p].lock # "zero"
        <4>1. ~NewConflict(p, b, {"EX"})
          BY <1>3, <3>2 DEF NewBusy
        <4>2. \A q \in Procs, y \in Places : LockAt(q, b, y) \in {"EX"} => q = p /\ y = "new"
          BY <2>5, <4>1, Conflicts DEF Locks
        <4> QED BY <2>5, <3>2, <4>2 DEF NoExclusive, LockAt, RowLock
      <3> QED BY <3>1, <3>2
    <2>9. k \in {"zero", "SH"} /\ (k = "zero" <=> call[p].lock = "zero")
      OBVIOUS
    <2> HIDE DEF c, z, b, k
    <2>10. Covered(obj[p], fd[p], z, hit[p])
      BY <2>1, <2>7 DEF Covered
    <2>11. Genuine(fd[p], z, hit[p], c)
      BY <2>1, <2>4, <2>7, <2>9 DEF Genuine
    <2>12. Building(z, c)
      BY <2>1, <2>4, <2>7, <2>9 DEF Building, b
    <2>13. FreesLocked(obj[p], fd[p], z, hit[p], c)
      BY <2>4 DEF FreesLocked, FreeingPCs
    <2>14. RowOK(obj[p], fd[p], z, hit[p], c)
      BY <2>6, <2>7, <2>10, <2>11, <2>12, <2>13 DEF RowOK
    <2>15. Granted(p, fd[p], leaked[p], z, c)
      <3>1. \A d \in Bufs, x \in Places :
               \/ RowLock(fd[p], leaked[p], z, c, d, x) \notin Locks
               \/ RowLock(fd[p], leaked[p], z, c, d, x) = LockAt(p, d, x)
               \/ RowLock(fd[p], leaked[p], z, c, d, x) = "SH" /\ d = b
        BY <2>1, <2>4, <2>7, <2>9 DEF RowLock, LockAt, Locks, Places, Building, b
      <3> QED BY <2>8, <3>1 DEF Granted
    <2> QED BY <1>1, <2>1, <2>3, <2>14, <2>15, RowStep
  <1> QED BY <1>2, <1>3 DEF MapLock

(* mmap(): the new node, or the leaked descriptor, keeps the shared lock. *)
LEMMA MapMmapIInv ==
  ASSUME IInv, NEW p \in Procs, MapMmap(p)
  PROVE  IInv'
  <1> DEFINE b == call[p].buf
             n == IF call[p].mode = "lookup" THEN "found" ELSE "kernel"
  <1>1. KernelStep /\ UNCHANGED hit /\ TypeOK /\ call[p].pc = "mmap"
    BY DEF MapMmap, KernelStep, IInv
  <1>2. /\ CallRecOK(call[p]) /\ call[p] \in CallState /\ ZeroOK(zero[p])
        /\ Covered(obj[p], fd[p], zero[p], hit[p]) /\ Genuine(fd[p], zero[p], hit[p], call[p])
        /\ Building(zero[p], call[p])
        /\ obj[p] \in [Bufs -> ObjKinds] /\ fd[p] \in [Bufs -> FdKinds]
        /\ leaked[p] \in [Bufs -> LostKinds] /\ hit[p] \in BOOLEAN
        /\ \A d \in Bufs : obj[p][d] # "none" => nameOf[d] \in Ids
    BY RowParts
  <1>3. b \in Bufs /\ call[p].lock \in {"SH", "zero"} /\ call[p].arg \in IdArgs
    BY <1>1, <1>2 DEF CallRecOK, CallState
  <1>4. call[p].lock = "zero" => zero[p].file = "map" /\ zero[p].buf = b /\ zero[p].lock = "SH"
    BY <1>1, <1>2 DEF Building
  <1>5. NoExclusive(b)
    <2>1. \E x \in Places : LockAt(p, b, x) = "SH"
      <3>1. CASE call[p].lock = "SH"
        <4>1. LockAt(p, b, "new") = "SH"
          BY <3>1 DEF LockAt, RowLock
        <4> QED BY <4>1 DEF Places
      <3>2. CASE call[p].lock = "zero"
        <4>1. LockAt(p, b, "zero") = "SH"
          BY <1>4, <3>2 DEF LockAt, RowLock
        <4> QED BY <4>1 DEF Places
      <3> QED BY <1>3, <3>1, <3>2
    <2> QED BY <1>3, <2>1 DEF IInv, LockExclusion, NoExclusive, Locks
  <1>6. CASE Return(p) /\ Closes(p, call[p].lock = "zero") /\ UNCHANGED <<obj, fd, leaked>>
    <2>1. (call[p].lock = "zero") \in BOOLEAN
      OBVIOUS
    <2>2. PICK y : zero' = [zero EXCEPT ![p] = y] /\ ZeroLeft(p, y)
      BY <1>6, <2>1, ClosesOther
    <2> QED BY <1>1, <1>6, <2>2, NoCallPlain, CallStepIInv DEF Return
  <1>7. CASE /\ leaked' = IF call[p].lock = "zero" THEN leaked
                          ELSE [leaked EXCEPT ![p][b] = call[p].lock]
             /\ Return(p) /\ UNCHANGED <<obj, fd, zero>>
    <2> DEFINE l == IF call[p].lock = "zero" THEN leaked[p] ELSE [leaked[p] EXCEPT ![b] = "SH"]
    <2>1. Replaced(p, obj[p], fd[p], l, zero[p], hit[p], NoCall)
      <3>1. leaked' = [leaked EXCEPT ![p] = l]
        BY <1>1, <1>3, <1>7, SameRows
      <3> QED BY <1>1, <1>7, <3>1, SameRows DEF Replaced, Return
    <2>2. /\ l \in [Bufs -> LostKinds]
          /\ \A d \in Bufs : l[d] = leaked[p][d] \/ (l[d] = "SH" /\ d = b)
      BY <1>2, <1>3 DEF LostKinds
    <2> HIDE DEF l
    <2>3. Genuine(fd[p], zero[p], hit[p], NoCall)
      BY <1>2, NoCallOK DEF Genuine
    <2>4. Building(zero[p], NoCall) /\ FreesLocked(obj[p], fd[p], zero[p], hit[p], NoCall)
      BY NoCallOK DEF Building, FreesLocked
    <2>5. RowOK(obj[p], fd[p], zero[p], hit[p], NoCall)
      BY <1>2, <2>3, <2>4, NoCallOK DEF RowOK
    <2>6. Granted(p, fd[p], l, zero[p], NoCall)
      <3>1. \A d \in Bufs, x \in Places :
               \/ RowLock(fd[p], l, zero[p], NoCall, d, x) \notin Locks
               \/ RowLock(fd[p], l, zero[p], NoCall, d, x) = LockAt(p, d, x)
               \/ RowLock(fd[p], l, zero[p], NoCall, d, x) = "SH" /\ d = b
        BY <2>2, NoCallOK DEF RowLock, LockAt, Locks, Places
      <3> QED BY <1>5, <3>1 DEF Granted
    <2> QED BY <1>1, <1>2, <2>1, <2>2, <2>5, <2>6, RowStep
  <1>8. CASE /\ Alive(b)
             /\ obj'  = [obj EXCEPT ![p][b] = n]
             /\ fd'   = [fd EXCEPT ![p][b] = call[p].lock]
             /\ call' = [call EXCEPT ![p] = IF call[p].mode = "lookup"
                            THEN [NoCall EXCEPT !.pc = "lookup", !.arg = call[p].arg]
                            ELSE NoCall]
             /\ UNCHANGED <<leaked, zero>>
    <2> DEFINE c1 == [NoCall EXCEPT !.pc = "lookup", !.arg = call[p].arg]
               c  == IF call[p].mode = "lookup" THEN c1 ELSE NoCall
               o  == [obj[p] EXCEPT ![b] = n]
               f  == [fd[p] EXCEPT ![b] = call[p].lock]
    <2>1. c1 \in CallState /\ c1.lock = "closed" /\ c1.pc = "lookup"
      BY <1>3, NoCallOK DEF CallState, PCs
    <2>2. Plain(c1)
      BY <2>1, PlainCallOK
    <2> HIDE DEF c1
    <2>3. Plain(c)
      BY <2>2, NoCallPlain
    <2>4. nameOf[b] \in Ids
      BY <1>3, <1>8, SharingAssumption DEF IInv, Alive, NamesOK
    <2>5. call' = [call EXCEPT ![p] = c]
      BY <1>8 DEF c1
    <2> HIDE DEF c
    <2>6. Replaced(p, o, f, leaked[p], zero[p], hit[p], c)
      BY <1>1, <1>8, <2>5, SameRows DEF Replaced
    <2>7. n \in Mapped /\ n \in ObjKinds
      BY DEF Mapped, ObjKinds
    <2> HIDE DEF n
    <2>8. /\ o \in [Bufs -> ObjKinds] /\ f \in [Bufs -> FdKinds]
          /\ \A d \in Bufs : o[d] = (IF d = b THEN n ELSE obj[p][d])
          /\ \A d \in Bufs : f[d] = (IF d = b THEN call[p].lock ELSE fd[p][d])
      BY <1>2, <1>3, <2>7 DEF FdKinds
    <2> HIDE DEF o, f
    <2>9. Covered(o, f, zero[p], hit[p])
      BY <1>2, <1>3, <1>4, <2>8 DEF Covered
    <2>10. Genuine(f, zero[p], hit[p], c)
      <3> SUFFICES ASSUME ~hit[p], NEW d \in Bufs, f[d] = "zero"
                   PROVE  zero[p].file = "map" /\ zero[p].buf = d /\ c.lock # "zero"
        BY DEF Genuine
      <3>1. c.lock # "zero"
        BY <2>3 DEF Plain
      <3>2. CASE d = b
        BY <1>4, <2>8, <3>1, <3>2
      <3>3. CASE d # b
        BY <1>2, <2>8, <3>1, <3>3 DEF Genuine
      <3> QED BY <3>2, <3>3
    <2>11. Building(zero[p], c) /\ FreesLocked(o, f, zero[p], hit[p], c)
      BY <2>3 DEF Building, FreesLocked, Plain
    <2>12. RowOK(o, f, zero[p], hit[p], c)
      BY <1>2, <2>3, <2>9, <2>10, <2>11 DEF RowOK, Plain
    <2>13. Granted(p, f, leaked[p], zero[p], c)
      <3>1. \A d \in Bufs, x \in Places :
               \/ RowLock(f, leaked[p], zero[p], c, d, x) \notin Locks
               \/ RowLock(f, leaked[p], zero[p], c, d, x) = LockAt(p, d, x)
               \/ RowLock(f, leaked[p], zero[p], c, d, x) = "SH" /\ d = b
        BY <1>3, <2>3, <2>8 DEF RowLock, LockAt, Locks, Places, Plain
      <3> QED BY <1>5, <3>1 DEF Granted
    <2>14. \A d \in Bufs : o[d] # "none" => nameOf[d] \in Ids
      BY <1>2, <2>4, <2>8
    <2> QED BY <1>1, <1>2, <2>6, <2>8, <2>12, <2>13, <2>14, RowStep
  <1> QED BY <1>6, <1>7, <1>8 DEF MapMmap

-----------------------------------------------------------------------------
(* DMABuffer_free gives up the shared lock of the node it unmaps. *)
LEMMA FreeIInv ==
  ASSUME IInv, NEW p \in Procs, NEW b \in Objects(p), NEW m \in Modes,
         call[p].pc \in {"idle", "next"},
         DMABuffer_free(p, b, m), UNCHANGED <<kernelVars, leaked>>
  PROVE  IInv'
  <1> DEFINE o == [obj[p] EXCEPT ![b] = "none"]
  <1>1. TypeOK /\ KernelStep /\ b \in Bufs /\ nameOf[b] \in Ids
    BY DEF IInv, KernelStep, Objects, NamesOK
  <1>2. /\ CallRecOK(call[p]) /\ call[p] \in CallState /\ ZeroOK(zero[p])
        /\ Covered(obj[p], fd[p], zero[p], hit[p]) /\ Genuine(fd[p], zero[p], hit[p], call[p])
        /\ obj[p] \in [Bufs -> ObjKinds] /\ fd[p] \in [Bufs -> FdKinds]
        /\ leaked[p] \in [Bufs -> LostKinds] /\ hit[p] \in BOOLEAN
        /\ \A d \in Bufs : obj[p][d] # "none" => nameOf[d] \in Ids
    BY RowParts
  <1>3. call[p].lock = "closed"
    BY <1>2 DEF CallRecOK
  <1>4. /\ o \in [Bufs -> ObjKinds] /\ obj' = [obj EXCEPT ![p] = o]
        /\ \A d \in Bufs : o[d] = (IF d = b THEN "none" ELSE obj[p][d])
    BY <1>1, <1>2 DEF DMABuffer_free, ObjKinds
  <1> HIDE DEF o
  <1>5. \A d \in Bufs : o[d] # "none" => nameOf[d] \in Ids
    BY <1>2, <1>4
  <1>6. CASE /\ fd'   = [fd EXCEPT ![p][b] = IF fd[p][b] = "zero" THEN "zero" ELSE "open"]
             /\ zero' = IF fd[p][b] = "zero" /\ zero[p].lock = "SH"
                        THEN [zero EXCEPT ![p].lock = "open"] ELSE zero
             /\ call' = [call EXCEPT ![p].pc = "tryEx", ![p].mode = m,
                                     ![p].found = (obj[p][b] = "found"),
                                     ![p].id = nameOf[b], ![p].buf = b]
             /\ UNCHANGED hit
    <2> DEFINE f == [fd[p] EXCEPT ![b] = IF fd[p][b] = "zero" THEN "zero" ELSE "open"]
               z == IF fd[p][b] = "zero" /\ zero[p].lock = "SH"
                    THEN [zero[p] EXCEPT !.lock = "open"] ELSE zero[p]
               c == [call[p] EXCEPT !.pc = "tryEx", !.mode = m, !.found = (obj[p][b] = "found"),
                                    !.id = nameOf[b], !.buf = b]
    <2>1. Replaced(p, o, f, leaked[p], z, hit[p], c)
      <3>1. zero' = [zero EXCEPT ![p] = z]
        BY <1>1, <1>6, SameRows
      <3>2. fd' = [fd EXCEPT ![p] = f] /\ call' = [call EXCEPT ![p] = c]
        BY <1>6
      <3>3. leaked' = [leaked EXCEPT ![p] = leaked[p]] /\ hit' = [hit EXCEPT ![p] = hit[p]]
        BY <1>1, <1>6, SameRows
      <3> HIDE DEF f, c, z
      <3> QED BY <1>4, <3>1, <3>2, <3>3 DEF Replaced
    <2>2. c \in CallState /\ c.pc = "tryEx" /\ c.lock = "closed" /\ c.buf = b
      BY <1>1, <1>2, <1>3 DEF CallState, PCs
    <2>3. CallRecOK(c)
      BY <1>1, <2>2 DEF CallRecOK
    <2>4. /\ f \in [Bufs -> FdKinds] /\ f[b] \in {"zero", "open"}
          /\ f[b] = "zero" <=> fd[p][b] = "zero"
          /\ \A d \in Bufs : d # b => f[d] = fd[p][d]
      BY <1>1, <1>2 DEF FdKinds
    <2>5. /\ z.file = zero[p].file /\ z.buf = zero[p].buf
          /\ z.lock = zero[p].lock \/ (z.lock = "open" /\ fd[p][b] = "zero" /\ z.file # "none")
          /\ z \in ZeroState
      BY <1>2 DEF ZeroOK, ZeroState
    <2> HIDE DEF c, f, z
    <2>6. ZeroOK(z)
      BY <1>2, <2>5 DEF ZeroOK
    <2>7. Covered(o, f, z, hit[p])
      <3> SUFFICES ASSUME NEW d \in Bufs, o[d] \in Mapped, f[d] # "SH"
                   PROVE  f[d] = "zero" /\ (hit[p] \/ (z.file = "map" /\ z.buf = d /\ z.lock = "SH"))
        BY DEF Covered
      <3>1. d # b /\ obj[p][d] \in Mapped /\ f[d] = fd[p][d]
        BY <1>4, <2>4 DEF Mapped
      <3>2. f[d] = "zero" /\ (hit[p] \/ (zero[p].file = "map" /\ zero[p].buf = d /\ zero[p].lock = "SH"))
        BY <1>2, <3>1 DEF Covered
      <3>3. hit[p] \/ fd[p][b] # "zero"
        BY <1>1, <1>2, <3>1, <3>2 DEF Genuine
      <3> QED BY <2>5, <3>2, <3>3
    <2>8. Genuine(f, z, hit[p], c)
      BY <1>2, <2>2, <2>4, <2>5 DEF Genuine
    <2>9. Building(z, c) /\ FreesLocked(o, f, z, hit[p], c)
      BY <1>1, <1>4, <2>2, <2>4 DEF Building, FreesLocked, FreeingPCs
    <2>10. RowOK(o, f, z, hit[p], c)
      BY <2>3, <2>6, <2>7, <2>8, <2>9 DEF RowOK
    <2>11. Granted(p, f, leaked[p], z, c)
      <3>1. \A d \in Bufs, x \in Places :
               \/ RowLock(f, leaked[p], z, c, d, x) \notin Locks
               \/ RowLock(f, leaked[p], z, c, d, x) = LockAt(p, d, x)
        BY <2>2, <2>4, <2>5 DEF RowLock, LockAt, Locks, Places
      <3> QED BY <3>1 DEF Granted
    <2> QED BY <1>1, <1>2, <1>4, <1>5, <2>1, <2>4, <2>10, <2>11, RowStep
  <1>7. CASE /\ fd' = [fd EXCEPT ![p][b] = "closed"]
             /\ CloseZero(p, b, obj[p][b] = "found") /\ Goto(p, "next")
    <2> DEFINE f == [fd[p] EXCEPT ![b] = "closed"]
               w == obj[p][b] = "found" \/ fd[p][b] = "zero"
               z == IF w THEN NoFile ELSE zero[p]
               h == hit[p] \/ /\ obj[p][b] = "found"
                              /\ \/ zero[p].file = "free"
                                 \/ zero[p].file = "map" /\ fd[p][b] # "zero"
               c == [call[p] EXCEPT !.pc = "next"]
    <2>1. Replaced(p, o, f, leaked[p], z, h, c)
      <3>1. zero' = [zero EXCEPT ![p] = z] /\ hit' = [hit EXCEPT ![p] = h]
        BY <1>1, <1>7, SameRows DEF CloseZero, Closes
      <3> QED BY <1>1, <1>4, <1>7, <3>1, SameRows DEF Replaced, Goto
    <2>2. c \in CallState /\ c.pc = "next" /\ c.lock = "closed"
      BY <1>2, <1>3 DEF CallState, PCs
    <2>3. Plain(c)
      BY <2>2, PlainCallOK
    <2>4. /\ f \in [Bufs -> FdKinds] /\ f[b] = "closed" /\ \A d \in Bufs : d # b => f[d] = fd[p][d]
      BY <1>1, <1>2 DEF FdKinds
    <2>5. ZeroOK(z) /\ (z = zero[p] \/ (z.buf = NoBuf /\ w))
      BY <1>2, FilesOK
    <2>6. \A d \in Bufs \ {b} : fd[p][d] = "zero" => h \/ z = zero[p]
      BY <1>1, <1>2 DEF Genuine
    <2>12. h \in BOOLEAN /\ (hit[p] => h)
      BY <1>2
    <2> HIDE DEF c, f, z, h, w
    <2>7. Covered(o, f, z, h)
      <3> SUFFICES ASSUME NEW d \in Bufs, o[d] \in Mapped, f[d] # "SH"
                   PROVE  f[d] = "zero" /\ (h \/ (z.file = "map" /\ z.buf = d /\ z.lock = "SH"))
        BY DEF Covered
      <3>1. d # b /\ obj[p][d] \in Mapped /\ f[d] = fd[p][d]
        BY <1>4, <2>4 DEF Mapped
      <3> QED BY <1>2, <2>6, <2>12, <3>1 DEF Covered
    <2>8. Genuine(f, z, h, c)
      <3> SUFFICES ASSUME ~h, NEW d \in Bufs, f[d] = "zero"
                   PROVE  z.file = "map" /\ z.buf = d /\ c.lock # "zero"
        BY DEF Genuine
      <3>1. d # b /\ fd[p][d] = "zero" /\ z = zero[p] /\ ~hit[p]
        BY <2>4, <2>6, <2>12
      <3> QED BY <1>2, <2>2, <3>1 DEF Genuine
    <2>9. Building(z, c) /\ FreesLocked(o, f, z, h, c)
      BY <2>2 DEF Building, FreesLocked, FreeingPCs
    <2>10. RowOK(o, f, z, h, c)
      BY <2>3, <2>5, <2>7, <2>8, <2>9 DEF RowOK, Plain
    <2>11. Granted(p, f, leaked[p], z, c)
      <3>1. \A d \in Bufs : z = zero[p] \/ z.buf # d
        BY <2>5, SharingAssumption
      <3>2. \A d \in Bufs, x \in Places :
               \/ RowLock(f, leaked[p], z, c, d, x) \notin Locks
               \/ RowLock(f, leaked[p], z, c, d, x) = LockAt(p, d, x)
        BY <2>2, <2>4, <3>1 DEF RowLock, LockAt, Locks, Places
      <3> QED BY <3>2 DEF Granted
    <2> QED BY <1>1, <1>2, <1>4, <1>5, <2>1, <2>4, <2>10, <2>11, <2>12, RowStep
  <1> QED BY <1>6, <1>7 DEF DMABuffer_free

(* Freeing the list: its start, the next node, and its end. *)
LEMMA FreeListIInv ==
  ASSUME IInv, NEW p \in Procs, NEW m \in Modes, FreeList(p, m)
  PROVE  IInv'
  <1> DEFINE c == [call[p] EXCEPT !.pc = "next", !.mode = m]
  <1>1. /\ call[p].pc = "idle" /\ KernelStep /\ UNCHANGED <<obj, fd, leaked, hit>> /\ UNCHANGED zero
        /\ call' = [call EXCEPT ![p] = c]
    BY DEF FreeList, KernelStep, objVars, fileVars
  <1>2. call[p] \in CallState /\ call[p].lock = "closed"
    BY <1>1, RowParts DEF CallRecOK
  <1>3. c \in CallState /\ c.pc = "next" /\ c.lock = "closed"
    BY <1>2 DEF CallState, PCs
  <1>4. Plain(c)
    BY <1>3, PlainCallOK
  <1> HIDE DEF c
  <1> QED BY <1>1, <1>4, ZeroStays, CallStepIInv

LEMMA EndFreeListIInv ==
  ASSUME IInv, NEW p \in Procs, EndFreeList(p), NEW z, ZeroLeft(p, z),
         zero' = [zero EXCEPT ![p] = z], UNCHANGED <<kernelVars, obj, fd, leaked, hit>>
  PROVE  IInv'
  <1> DEFINE c1 == [NoCall EXCEPT !.pc = "dangling"]
             c  == IF call[p].mode = "all" THEN c1 ELSE NoCall
  <1>1. c1 \in CallState /\ c1.pc = "dangling" /\ c1.lock = "closed"
    BY NoCallOK DEF CallState, PCs
  <1>2. Plain(c1)
    BY <1>1, PlainCallOK
  <1> HIDE DEF c1
  <1>3. Plain(c)
    BY <1>2, NoCallPlain
  <1>4. call' = [call EXCEPT ![p] = c]
    BY DEF EndFreeList, c1
  <1> HIDE DEF c
  <1> QED BY <1>3, <1>4, CallStepIInv DEF KernelStep

LEMMA FreeNextIInv ==
  ASSUME IInv, NEW p \in Procs, FreeNext(p)
  PROVE  IInv'
  <1>1. /\ call[p].pc = "next" /\ UNCHANGED <<kernelVars, leaked>> /\ KernelStep
        /\ call[p] \in CallState /\ call[p].mode \in Modes /\ call[p].lock = "closed"
    BY RowParts DEF FreeNext, KernelStep, CallRecOK, CallState
  <1>2. CASE \E b \in Objects(p) : DMABuffer_free(p, b, call[p].mode)
    BY <1>1, <1>2, FreeIInv
  <1>3. CASE /\ call' = [call EXCEPT ![p].pc = "unattached", ![p].todo = Ids]
             /\ UNCHANGED <<obj, fd, fileVars>>
    <2> DEFINE c == [call[p] EXCEPT !.pc = "unattached", !.todo = Ids]
    <2>1. c \in CallState /\ c.pc = "unattached" /\ c.lock = "closed"
      BY <1>1 DEF CallState, PCs
    <2>2. Plain(c)
      BY <2>1, PlainCallOK
    <2>3. call' = [call EXCEPT ![p] = c]
      BY <1>3
    <2> HIDE DEF c
    <2> QED BY <1>1, <1>3, <2>2, <2>3, ZeroStays, CallStepIInv DEF fileVars
  <1>4. CASE EndFreeList(p) /\ UNCHANGED <<obj, fd, fileVars>>
    BY <1>1, <1>4, ZeroStays, EndFreeListIInv DEF fileVars
  <1> QED BY <1>2, <1>3, <1>4 DEF FreeNext

(* The record FreeDone builds. *)
LEMMA FreeDoneOK ==
  ASSUME IInv, NEW p \in Procs, NEW err \in BOOLEAN, FreeDone(p, err)
  PROVE  \E c : call' = [call EXCEPT ![p] = c] /\ Plain(c)
  <1> DEFINE c1 == [NoCall EXCEPT !.pc = "next", !.mode = call[p].mode,
                                  !.failed = call[p].failed \/ err]
             c  == IF call[p].mode = "one" THEN NoCall ELSE c1
  <1>1. call[p].mode \in Modes /\ call[p].failed \in BOOLEAN
    BY DEF IInv, TypeOK, CallState
  <1>2. c1 \in CallState /\ c1.pc = "next" /\ c1.lock = "closed"
    BY <1>1, NoCallOK DEF CallState, PCs
  <1>3. Plain(c1)
    BY <1>2, PlainCallOK
  <1> HIDE DEF c1
  <1>4. Plain(c)
    BY <1>3, NoCallPlain
  <1>5. call' = [call EXCEPT ![p] = c]
    BY DEF FreeDone, c1
  <1> HIDE DEF c
  <1> QED BY <1>4, <1>5

(***************************************************************************)
(* A step within DMABuffer_free: the position and the record of the call.  *)
(***************************************************************************)
LEMMA FreeingCall ==
  ASSUME IInv, NEW p \in Procs, call[p].pc \in FreeingPCs
  PROVE  /\ call[p].buf \in Bufs /\ obj[p][call[p].buf] = "none" /\ call[p].lock = "closed"
         /\ call[p].pc = "tryEx" => fd[p][call[p].buf] \in {"open", "zero"}
         /\ call[p].pc # "tryEx" =>
               fd[p][call[p].buf] = "EX" \/ (fd[p][call[p].buf] = "zero" /\ zero[p].lock = "EX")
         /\ \A t \in FreeingPCs \cup {"write", "badWrite"} :
               LET c == [call[p] EXCEPT !.pc = t] IN
               CallRecOK(c) /\ c.lock = "closed" /\ c.buf = call[p].buf /\ c.pc = t
  <1>1. /\ CallRecOK(call[p]) /\ call[p] \in CallState
        /\ FreesLocked(obj[p], fd[p], zero[p], hit[p], call[p])
    BY RowParts
  <1>2. /\ call[p].buf \in Bufs /\ obj[p][call[p].buf] = "none" /\ call[p].lock = "closed"
        /\ call[p].pc = "tryEx" => fd[p][call[p].buf] \in {"open", "zero"}
        /\ call[p].pc # "tryEx" =>
              fd[p][call[p].buf] = "EX" \/ (fd[p][call[p].buf] = "zero" /\ zero[p].lock = "EX")
    BY <1>1 DEF CallRecOK, FreesLocked, FreeingPCs
  <1>3. ASSUME NEW t \in FreeingPCs \cup {"write", "badWrite"}
        PROVE  LET c == [call[p] EXCEPT !.pc = t] IN
               CallRecOK(c) /\ c.lock = "closed" /\ c.buf = call[p].buf /\ c.pc = t
    <2> DEFINE c == [call[p] EXCEPT !.pc = t]
    <2>1. c \in CallState /\ c.pc = t /\ c.lock = call[p].lock /\ c.buf = call[p].buf
      BY <1>1 DEF CallState, PCs, FreeingPCs
    <2>2. CallRecOK(c)
      BY <1>2, <2>1 DEF CallRecOK, FreeingPCs
    <2> QED BY <1>2, <2>1, <2>2
  <1> QED BY <1>2, <1>3

(* A flock(LOCK_EX) that fails: the node is gone, with what its descriptor held. *)
LEMMA RefusedIInv ==
  ASSUME IInv, NEW p \in Procs, call[p].pc = "tryEx", LockRefused(p, "closed"),
         UNCHANGED <<kernelVars, obj, leaked, hit>>
  PROVE  IInv'
  <1> DEFINE b == call[p].buf
             f == [fd[p] EXCEPT ![b] = "closed"]
  <1>1. TypeOK /\ KernelStep /\ fd' = [fd EXCEPT ![p] = f] /\ UNCHANGED zero
    BY DEF IInv, KernelStep, LockRefused
  <1>2. /\ CallRecOK(call[p]) /\ call[p] \in CallState /\ ZeroOK(zero[p])
        /\ Covered(obj[p], fd[p], zero[p], hit[p]) /\ Genuine(fd[p], zero[p], hit[p], call[p])
        /\ obj[p] \in [Bufs -> ObjKinds] /\ fd[p] \in [Bufs -> FdKinds]
        /\ leaked[p] \in [Bufs -> LostKinds] /\ hit[p] \in BOOLEAN
        /\ \A d \in Bufs : obj[p][d] # "none" => nameOf[d] \in Ids
    BY RowParts
  <1>3. b \in Bufs /\ obj[p][b] = "none"
    BY FreeingCall DEF FreeingPCs
  <1>4. PICK c : call' = [call EXCEPT ![p] = c] /\ Plain(c)
    BY FreeDoneOK DEF LockRefused
  <1>5. /\ f \in [Bufs -> FdKinds] /\ f[b] = "closed" /\ \A d \in Bufs : d # b => f[d] = fd[p][d]
    BY <1>2, <1>3 DEF FdKinds
  <1>6. Replaced(p, obj[p], f, leaked[p], zero[p], hit[p], c)
    BY <1>1, <1>4, SameRows DEF Replaced
  <1> HIDE DEF f, b
  <1>7. Covered(obj[p], f, zero[p], hit[p])
    BY <1>2, <1>3, <1>5 DEF Covered, Mapped
  <1>8. Genuine(f, zero[p], hit[p], c)
    BY <1>2, <1>4, <1>5 DEF Genuine, Plain
  <1>9. Building(zero[p], c) /\ FreesLocked(obj[p], f, zero[p], hit[p], c)
    BY <1>4 DEF Building, FreesLocked, Plain
  <1>10. RowOK(obj[p], f, zero[p], hit[p], c)
    BY <1>2, <1>4, <1>7, <1>8, <1>9 DEF RowOK, Plain
  <1>11. Granted(p, f, leaked[p], zero[p], c)
    <2>1. \A d \in Bufs, x \in Places :
             \/ RowLock(f, leaked[p], zero[p], c, d, x) \notin Locks
             \/ RowLock(f, leaked[p], zero[p], c, d, x) = LockAt(p, d, x)
      BY <1>4, <1>5 DEF RowLock, LockAt, Locks, Places, Plain
    <2> QED BY <2>1 DEF Granted
  <1> QED BY <1>1, <1>2, <1>5, <1>6, <1>10, <1>11, RowStep

(* A flock(LOCK_EX) that succeeds, on the buffer's file or on descriptor 0. *)
LEMMA LockedIInv ==
  ASSUME IInv, NEW p \in Procs, call[p].pc = "tryEx", ~FreeBusy(p, {"SH", "EX"}),
         LockedExclusive(p), UNCHANGED <<kernelVars, obj, leaked, hit>>
  PROVE  IInv'
  <1> DEFINE b == call[p].buf
             own == fd[p][b] # "zero"
             f == IF own THEN [fd[p] EXCEPT ![b] = "EX"] ELSE fd[p]
             z == IF own THEN zero[p] ELSE [zero[p] EXCEPT !.lock = "EX"]
             c == [call[p] EXCEPT !.pc = "openFree"]
  <1>1. TypeOK /\ KernelStep
    BY DEF IInv, KernelStep
  <1>2. /\ CallRecOK(call[p]) /\ call[p] \in CallState /\ ZeroOK(zero[p])
        /\ Covered(obj[p], fd[p], zero[p], hit[p]) /\ Genuine(fd[p], zero[p], hit[p], call[p])
        /\ obj[p] \in [Bufs -> ObjKinds] /\ fd[p] \in [Bufs -> FdKinds]
        /\ leaked[p] \in [Bufs -> LostKinds] /\ hit[p] \in BOOLEAN
        /\ \A d \in Bufs : obj[p][d] # "none" => nameOf[d] \in Ids
    BY RowParts
  <1>3. /\ b \in Bufs /\ obj[p][b] = "none" /\ fd[p][b] \in {"open", "zero"}
        /\ CallRecOK(c) /\ c.lock = "closed" /\ c.buf = b /\ c.pc = "openFree"
    <2>1. call[p].pc \in FreeingPCs /\ "openFree" \in FreeingPCs
      BY DEF FreeingPCs
    <2>2. b \in Bufs /\ obj[p][b] = "none" /\ fd[p][b] \in {"open", "zero"}
      BY <2>1, FreeingCall
    <2>3. CallRecOK(c) /\ c.lock = "closed" /\ c.buf = b /\ c.pc = "openFree"
      BY <2>1, FreeingCall
    <2> QED BY <2>2, <2>3
  <1>4. Replaced(p, obj[p], f, leaked[p], z, hit[p], c)
    <2>1. fd' = [fd EXCEPT ![p] = f] /\ zero' = [zero EXCEPT ![p] = z]
      BY <1>1, SameRows DEF LockedExclusive
    <2>2. call' = [call EXCEPT ![p] = c]
      BY DEF LockedExclusive, Goto
    <2> QED BY <1>1, <2>1, <2>2, SameRows DEF Replaced
  <1>5. /\ f \in [Bufs -> FdKinds] /\ \A d \in Bufs : d # b => f[d] = fd[p][d]
        /\ f[b] = IF own THEN "EX" ELSE "zero"
    BY <1>2, <1>3 DEF FdKinds
  <1>6. ~own => zero[p].file # "none"
    BY DEF FreeBusy, ZeroIsFree
  <1>7. /\ z.file = zero[p].file /\ z.buf = zero[p].buf
        /\ z.lock = IF own THEN zero[p].lock ELSE "EX"
        /\ ZeroOK(z)
    BY <1>2, <1>6 DEF ZeroOK, ZeroState
  <1>8. Granted(p, f, leaked[p], z, c)
    <2>1. CASE own
      <3>1. \A q \in Procs, y \in Places : LockAt(q, b, y) \in {"SH", "EX"} => q = p /\ y = "node"
        BY <1>3, <2>1, Conflicts DEF FreeBusy, Locks
      <3>2. LockAt(p, b, "node") \notin Locks
        BY <1>3, <2>1 DEF LockAt, RowLock, Locks
      <3>3. NoOther(p, b) /\ \A y \in Places : LockAt(p, b, y) \notin Locks
        BY <3>1, <3>2 DEF NoOther, Locks
      <3> HIDE DEF f, z, c, b
      <3>4. \A d \in Bufs, x \in Places :
               \/ RowLock(f, leaked[p], z, c, d, x) \notin Locks
               \/ RowLock(f, leaked[p], z, c, d, x) = LockAt(p, d, x)
               \/ RowLock(f, leaked[p], z, c, d, x) = "EX" /\ d = b /\ x = "node"
        BY <1>3, <1>5, <1>7, <2>1 DEF RowLock, LockAt, Locks, Places
      <3>5. \A y \in Places \ {"node"} : RowLock(f, leaked[p], z, c, b, y) \notin Locks
        BY <1>3, <1>7, <2>1, <3>3 DEF RowLock, LockAt, Locks, Places
      <3> QED BY <3>3, <3>4, <3>5 DEF Granted
    <2>2. CASE ~own
      <3>1. ASSUME NEW e \in Bufs, zero[p].buf = e, LockAt(p, e, "zero") # "EX"
            PROVE  /\ NoOther(p, e)
                   /\ \A y \in Places \ {"zero"} : LockAt(p, e, y) \notin Locks
        <4>1. ~ZeroConflict(p, {"SH", "EX"})
          BY <2>2 DEF FreeBusy
        <4>2. \A q \in Procs, y \in Places : LockAt(q, e, y) \in {"SH", "EX"} => q = p /\ y = "zero"
          BY <3>1, <4>1, Conflicts DEF Locks
        <4> QED BY <4>2 DEF NoOther, Locks
      <3> HIDE DEF f, z, c, b
      <3>2. \A d \in Bufs : f[d] = fd[p][d]
        BY <1>3, <1>5, <2>2
      <3>3. \A d \in Bufs, x \in Places :
               \/ RowLock(f, leaked[p], z, c, d, x) \notin Locks
               \/ RowLock(f, leaked[p], z, c, d, x) = LockAt(p, d, x)
               \/ /\ RowLock(f, leaked[p], z, c, d, x) = "EX" /\ d = zero[p].buf /\ x = "zero"
                  /\ LockAt(p, d, "zero") # "EX"
        BY <1>3, <1>7, <2>2, <3>2 DEF RowLock, LockAt, Locks, Places
      <3>4. \A d \in Bufs, y \in Places \ {"zero"} :
               LockAt(p, d, y) \notin Locks => RowLock(f, leaked[p], z, c, d, y) \notin Locks
        BY <1>3, <3>2 DEF RowLock, LockAt, Locks, Places
      <3> QED BY <3>1, <3>3, <3>4 DEF Granted
    <2> QED BY <2>1, <2>2
  <1> HIDE DEF f, z, c, b
  <1>9. Covered(obj[p], f, z, hit[p])
    <2> SUFFICES ASSUME NEW d \in Bufs, obj[p][d] \in Mapped, f[d] # "SH"
                 PROVE  f[d] = "zero" /\ (hit[p] \/ (z.file = "map" /\ z.buf = d /\ z.lock = "SH"))
      BY DEF Covered
    <2>1. d # b /\ f[d] = fd[p][d]
      BY <1>3, <1>5 DEF Mapped
    <2>2. f[d] = "zero" /\ (hit[p] \/ (zero[p].file = "map" /\ zero[p].buf = d /\ zero[p].lock = "SH"))
      BY <1>2, <2>1 DEF Covered
    <2>3. hit[p] \/ own
      BY <1>2, <1>3, <2>1, <2>2 DEF Genuine
    <2> QED BY <1>7, <2>2, <2>3
  <1>10. Genuine(f, z, hit[p], c)
    BY <1>2, <1>3, <1>5, <1>7 DEF Genuine
  <1>11. Building(z, c) /\ FreesLocked(obj[p], f, z, hit[p], c)
    BY <1>3, <1>5, <1>7 DEF Building, FreesLocked, FreeingPCs
  <1>12. RowOK(obj[p], f, z, hit[p], c)
    BY <1>3, <1>7, <1>9, <1>10, <1>11 DEF RowOK
  <1> QED BY <1>1, <1>2, <1>4, <1>5, <1>8, <1>12, RowStep

LEMMA FreeTryExIInv ==
  ASSUME IInv, NEW p \in Procs, FreeTryEx(p)
  PROVE  IInv'
  BY RefusedIInv, LockedIInv DEF FreeTryEx

(* open() of "free": descriptor 0 may become free_fd; a failure loses the locked map_fd. *)
LEMMA FreeOpenIInv ==
  ASSUME IInv, NEW p \in Procs, FreeOpen(p)
  PROVE  IInv'
  <1> DEFINE b == call[p].buf
  <1>1. TypeOK /\ KernelStep /\ UNCHANGED <<obj, hit>>
    BY DEF IInv, KernelStep, FreeOpen
  <1>2. /\ CallRecOK(call[p]) /\ call[p] \in CallState /\ ZeroOK(zero[p])
        /\ Covered(obj[p], fd[p], zero[p], hit[p]) /\ Genuine(fd[p], zero[p], hit[p], call[p])
        /\ obj[p] \in [Bufs -> ObjKinds] /\ fd[p] \in [Bufs -> FdKinds]
        /\ leaked[p] \in [Bufs -> LostKinds] /\ hit[p] \in BOOLEAN
        /\ \A d \in Bufs : obj[p][d] # "none" => nameOf[d] \in Ids
    BY RowParts
  <1>3. call[p].pc \in FreeingPCs /\ call[p].pc # "tryEx" /\ "close" \in FreeingPCs
    BY DEF FreeingPCs, FreeOpen
  <1>4. /\ b \in Bufs /\ obj[p][b] = "none" /\ call[p].lock = "closed"
        /\ fd[p][b] = "EX" \/ (fd[p][b] = "zero" /\ zero[p].lock = "EX")
    BY <1>3, FreeingCall
  <1>5. CASE Goto(p, "close") /\ Opens(p, "free", NoBuf) /\ UNCHANGED <<fd, leaked>>
    <2> DEFINE c == [call[p] EXCEPT !.pc = "close"]
               z == IF ZeroIsFree(p) THEN ZeroFile("free", NoBuf) ELSE zero[p]
    <2>1. CallRecOK(c) /\ c.lock = "closed" /\ c.buf = b /\ c.pc = "close"
      BY <1>3, FreeingCall
    <2>2. Replaced(p, obj[p], fd[p], leaked[p], z, hit[p], c)
      <3>1. zero' = [zero EXCEPT ![p] = z]
        BY <1>1, <1>5, SameRows DEF Opens
      <3> QED BY <1>1, <1>5, <3>1, SameRows DEF Replaced, Goto
    <2>3. z = zero[p] \/ (ZeroOK(z) /\ z.buf = NoBuf /\ zero[p].file = "none" /\ zero[p].lock = "closed")
      BY <1>2, FilesOK DEF ZeroIsFree, ZeroOK
    <2> HIDE DEF c, z, b
    <2>4. Covered(obj[p], fd[p], z, hit[p])
      BY <1>2, <2>3 DEF Covered
    <2>5. Genuine(fd[p], z, hit[p], c)
      BY <1>2, <2>1, <2>3 DEF Genuine
    <2>6. Building(z, c) /\ FreesLocked(obj[p], fd[p], z, hit[p], c)
      BY <1>4, <2>1, <2>3 DEF Building, FreesLocked, FreeingPCs
    <2>7. RowOK(obj[p], fd[p], z, hit[p], c)
      BY <1>2, <2>1, <2>3, <2>4, <2>5, <2>6 DEF RowOK
    <2>8. Granted(p, fd[p], leaked[p], z, c)
      <3>1. \A d \in Bufs : z = zero[p] \/ z.buf # d
        BY <2>3, SharingAssumption
      <3>2. \A d \in Bufs, x \in Places :
               \/ RowLock(fd[p], leaked[p], z, c, d, x) \notin Locks
               \/ RowLock(fd[p], leaked[p], z, c, d, x) = LockAt(p, d, x)
        BY <2>1, <3>1 DEF RowLock, LockAt, Locks, Places
      <3> QED BY <3>2 DEF Granted
    <2> QED BY <1>1, <1>2, <2>2, <2>7, <2>8, RowStep
  <1>6. CASE /\ leaked' = IF fd[p][b] = "zero" THEN leaked ELSE [leaked EXCEPT ![p][b] = "EX"]
             /\ fd' = [fd EXCEPT ![p][b] = "closed"]
             /\ FreeDone(p, TRUE) /\ UNCHANGED zero
    <2> DEFINE f == [fd[p] EXCEPT ![b] = "closed"]
               l == IF fd[p][b] = "zero" THEN leaked[p] ELSE [leaked[p] EXCEPT ![b] = "EX"]
    <2>1. PICK c : call' = [call EXCEPT ![p] = c] /\ Plain(c)
      BY <1>6, FreeDoneOK
    <2>2. Replaced(p, obj[p], f, l, zero[p], hit[p], c)
      <3>1. leaked' = [leaked EXCEPT ![p] = l] /\ fd' = [fd EXCEPT ![p] = f]
        BY <1>1, <1>6, SameRows
      <3> QED BY <1>1, <1>6, <2>1, <3>1, SameRows DEF Replaced
    <2>3. /\ f \in [Bufs -> FdKinds] /\ f[b] = "closed" /\ \A d \in Bufs : d # b => f[d] = fd[p][d]
      BY <1>2, <1>4 DEF FdKinds
    <2>4. /\ l \in [Bufs -> LostKinds]
          /\ \A d \in Bufs : l[d] = leaked[p][d] \/ (l[d] = "EX" /\ d = b /\ fd[p][b] = "EX")
      BY <1>2, <1>4 DEF LostKinds
    <2> HIDE DEF f, l, b
    <2>5. Covered(obj[p], f, zero[p], hit[p])
      BY <1>2, <1>4, <2>3 DEF Covered, Mapped
    <2>6. Genuine(f, zero[p], hit[p], c)
      BY <1>2, <2>1, <2>3 DEF Genuine, Plain
    <2>7. Building(zero[p], c) /\ FreesLocked(obj[p], f, zero[p], hit[p], c)
      BY <2>1 DEF Building, FreesLocked, Plain
    <2>8. RowOK(obj[p], f, zero[p], hit[p], c)
      BY <1>2, <2>1, <2>5, <2>6, <2>7 DEF RowOK, Plain
    <2>9. Granted(p, f, l, zero[p], c)
      <3>1. fd[p][b] = "EX" =>
               NoOther(p, b) /\ \A y \in Places \ {"node"} : LockAt(p, b, y) \notin Locks
        <4> SUFFICES ASSUME fd[p][b] = "EX"
                     PROVE  NoOther(p, b) /\ \A y \in Places \ {"node"} : LockAt(p, b, y) \notin Locks
          OBVIOUS
        <4>1. LockAt(p, b, "node") = "EX" /\ "node" \in Places
          BY DEF LockAt, RowLock, Places
        <4>2. \A q \in Procs, y \in Places : LockAt(q, b, y) \in Locks => q = p /\ y = "node"
          BY <1>4, <4>1 DEF IInv, LockExclusion
        <4> QED BY <4>2 DEF NoOther
      <3>2. \A d \in Bufs, x \in Places :
               \/ RowLock(f, l, zero[p], c, d, x) \notin Locks
               \/ RowLock(f, l, zero[p], c, d, x) = LockAt(p, d, x)
               \/ /\ RowLock(f, l, zero[p], c, d, x) = "EX" /\ d = b /\ x = "lost"
                  /\ fd[p][b] = "EX"
        BY <2>1, <2>3, <2>4 DEF RowLock, LockAt, Locks, Places, Plain
      <3>3. fd[p][b] = "EX" =>
               \A y \in Places \ {"lost"} : RowLock(f, l, zero[p], c, b, y) \notin Locks
        <4>1. RowLock(f, l, zero[p], c, b, "node") \notin Locks
          BY <2>3 DEF RowLock, Locks
        <4>2. RowLock(f, l, zero[p], c, b, "new") \notin Locks
          BY <2>1 DEF RowLock, Locks, Plain
        <4>3. RowLock(f, l, zero[p], c, b, "zero") = LockAt(p, b, "zero")
          BY DEF RowLock, LockAt
        <4> QED BY <3>1, <4>1, <4>2, <4>3 DEF Places
      <3> QED BY <3>1, <3>2, <3>3 DEF Granted
    <2> QED BY <1>1, <1>2, <2>2, <2>3, <2>4, <2>8, <2>9, RowStep
  <1> QED BY <1>5, <1>6 DEF FreeOpen

(* DMABuffer_closeFiles closes map_fd, and descriptor 0 if alloc_fd is 0. *)
LEMMA CloseFilesIInv ==
  ASSUME IInv, NEW p \in Procs, DMABuffer_closeFiles(p)
  PROVE  IInv'
  <1> DEFINE b == call[p].buf
             t == IF call[p].found /\ zero[p].file = "free" THEN "badWrite" ELSE "write"
             f == [fd[p] EXCEPT ![b] = "closed"]
             w == call[p].found \/ fd[p][b] = "zero"
             z == IF w THEN NoFile ELSE zero[p]
             h == hit[p] \/ /\ call[p].found
                            /\ \/ zero[p].file = "free"
                               \/ zero[p].file = "map" /\ fd[p][b] # "zero"
             c == [call[p] EXCEPT !.pc = t]
  <1>1. TypeOK /\ KernelStep /\ UNCHANGED <<obj, leaked>>
    BY DEF IInv, KernelStep, DMABuffer_closeFiles
  <1>2. /\ CallRecOK(call[p]) /\ call[p] \in CallState /\ ZeroOK(zero[p])
        /\ Covered(obj[p], fd[p], zero[p], hit[p]) /\ Genuine(fd[p], zero[p], hit[p], call[p])
        /\ obj[p] \in [Bufs -> ObjKinds] /\ fd[p] \in [Bufs -> FdKinds]
        /\ leaked[p] \in [Bufs -> LostKinds] /\ hit[p] \in BOOLEAN
        /\ \A d \in Bufs : obj[p][d] # "none" => nameOf[d] \in Ids
    BY RowParts
  <1>3. call[p].pc \in FreeingPCs /\ t \in {"write", "badWrite"}
    BY DEF FreeingPCs, DMABuffer_closeFiles
  <1>4. b \in Bufs /\ obj[p][b] = "none"
    BY <1>3, FreeingCall
  <1>5. CallRecOK(c) /\ c.lock = "closed" /\ c.pc = t
    <2> HIDE DEF t
    <2> QED BY <1>3, FreeingCall
  <1>6. Replaced(p, obj[p], f, leaked[p], z, h, c)
    <2>1. zero' = [zero EXCEPT ![p] = z] /\ hit' = [hit EXCEPT ![p] = h]
      BY <1>1, SameRows DEF CloseZero, Closes, DMABuffer_closeFiles
    <2>2. fd' = [fd EXCEPT ![p] = f] /\ call' = [call EXCEPT ![p] = c]
      BY DEF DMABuffer_closeFiles, Goto
    <2>3. obj' = [obj EXCEPT ![p] = obj[p]] /\ leaked' = [leaked EXCEPT ![p] = leaked[p]]
      BY <1>1, SameRows
    <2> HIDE DEF f, z, h, c
    <2> QED BY <2>1, <2>2, <2>3 DEF Replaced
  <1>7. /\ f \in [Bufs -> FdKinds] /\ f[b] = "closed" /\ \A d \in Bufs : d # b => f[d] = fd[p][d]
    BY <1>2, <1>4 DEF FdKinds
  <1>8. ZeroOK(z) /\ (z = zero[p] \/ z.buf = NoBuf)
    BY <1>2, FilesOK
  <1>9. \A d \in Bufs \ {b} : fd[p][d] = "zero" => h \/ z = zero[p]
    BY <1>2, <1>4 DEF Genuine
  <1>10. h \in BOOLEAN /\ (hit[p] => h) /\ (t = "badWrite" => h)
    BY <1>2
  <1> HIDE DEF c, f, z, h, w, t, b
  <1>11. Covered(obj[p], f, z, h)
    <2> SUFFICES ASSUME NEW d \in Bufs, obj[p][d] \in Mapped, f[d] # "SH"
                 PROVE  f[d] = "zero" /\ (h \/ (z.file = "map" /\ z.buf = d /\ z.lock = "SH"))
      BY DEF Covered
    <2>1. d # b /\ f[d] = fd[p][d]
      BY <1>4, <1>7 DEF Mapped
    <2> QED BY <1>2, <1>9, <1>10, <2>1 DEF Covered
  <1>12. Genuine(f, z, h, c)
    <2> SUFFICES ASSUME ~h, NEW d \in Bufs, f[d] = "zero"
                 PROVE  z.file = "map" /\ z.buf = d /\ c.lock # "zero"
      BY DEF Genuine
    <2>1. d # b /\ fd[p][d] = "zero" /\ z = zero[p] /\ ~hit[p]
      BY <1>7, <1>9, <1>10
    <2> QED BY <1>2, <1>5, <2>1 DEF Genuine
  <1>13. Building(z, c) /\ FreesLocked(obj[p], f, z, h, c)
    BY <1>3, <1>5, <1>10 DEF Building, FreesLocked, FreeingPCs
  <1>14. RowOK(obj[p], f, z, h, c)
    BY <1>5, <1>8, <1>11, <1>12, <1>13 DEF RowOK
  <1>15. Granted(p, f, leaked[p], z, c)
    <2>1. \A d \in Bufs : z = zero[p] \/ z.buf # d
      BY <1>8, SharingAssumption
    <2>2. \A d \in Bufs, x \in Places :
             \/ RowLock(f, leaked[p], z, c, d, x) \notin Locks
             \/ RowLock(f, leaked[p], z, c, d, x) = LockAt(p, d, x)
      BY <1>5, <1>7, <2>1 DEF RowLock, LockAt, Locks, Places
    <2> QED BY <2>2 DEF Granted
  <1> QED BY <1>1, <1>2, <1>6, <1>7, <1>10, <1>14, <1>15, RowStep

(* The write to "free", which fails if closing alloc_fd = 0 closed free_fd. *)
LEMMA FreeWriteIInv ==
  ASSUME IInv, NEW p \in Procs, FreeWrite(p)
  PROVE  IInv'
  <1>1. call[p].id \in Ids
    BY DEF IInv, TypeOK, CallState
  <1>2. KernelStep /\ UNCHANGED <<obj, fd, leaked, hit>>
    BY <1>1 DEF FreeWrite, KernelStep
  <1>3. PICK c : call' = [call EXCEPT ![p] = c] /\ Plain(c)
    <2>1. FreeDone(p, FALSE) \/ FreeDone(p, TRUE)
      BY DEF FreeWrite
    <2> QED BY <2>1, FreeDoneOK
  <1>4. PICK z : zero' = [zero EXCEPT ![p] = z] /\ ZeroLeft(p, z)
    <2> DEFINE w == zero[p].file = "free"
    <2>1. w \in BOOLEAN /\ Closes(p, w) /\ (w => zero[p].file # "map")
      BY DEF FreeWrite
    <2> HIDE DEF w
    <2> QED BY <2>1, ClosesOther
  <1> QED BY <1>2, <1>3, <1>4, CallStepIInv

(* The removal of the buffers nobody has attached. *)
LEMMA UnattachedIInv ==
  ASSUME IInv, NEW p \in Procs, DMABuffer_delete_not_attached_buffers(p)
  PROVE  IInv'
  <1>1. /\ call[p].pc = "unattached" /\ UNCHANGED <<obj, fd, leaked, hit>>
        /\ call[p] \in CallState /\ call[p].lock = "closed" /\ call[p].todo \in SUBSET Ids
    BY RowParts DEF DMABuffer_delete_not_attached_buffers, CallRecOK, CallState
  <1>2. ASSUME NEW i \in call[p].todo, delete_buffer_write(i),
               call' = [call EXCEPT ![p].todo = @ \ {i}], UNCHANGED zero
        PROVE  IInv'
    <2> DEFINE c == [call[p] EXCEPT !.todo = @ \ {i}]
    <2>1. c \in CallState /\ c.pc = "unattached" /\ c.lock = "closed"
      BY <1>1 DEF CallState
    <2>2. Plain(c)
      BY <2>1, PlainCallOK
    <2>3. call' = [call EXCEPT ![p] = c]
      BY <1>2
    <2>4. KernelStep
      BY <1>1, <1>2 DEF KernelStep
    <2> HIDE DEF c
    <2> QED BY <1>1, <1>2, <2>2, <2>3, <2>4, ZeroStays, CallStepIInv
  <1>3. CASE EndFreeList(p) /\ UNCHANGED <<kernelVars, zero>>
    BY <1>1, <1>3, ZeroStays, EndFreeListIInv
  <1>4. CASE EndFreeList(p) /\ Opens(p, "dir", NoBuf) /\ UNCHANGED kernelVars
    BY <1>1, <1>4, OpensOther, EndFreeListIInv
  <1> QED BY <1>2, <1>3, <1>4 DEF DMABuffer_delete_not_attached_buffers

-----------------------------------------------------------------------------
(* The end of a process. *)
LEMMA ExitIInv ==
  ASSUME IInv, NEW p \in Procs, Exit(p)
  PROVE  IInv'
  <1> DEFINE o == [b \in Bufs |-> "none"]
             f == [b \in Bufs |-> "closed"]
             z == ZeroFile("stdin", NoBuf)
  <1>1. KernelStep /\ Replaced(p, o, f, f, z, FALSE, NoCall)
    BY DEF Exit, KernelStep, Replaced, Return
  <1>2. /\ o \in [Bufs -> ObjKinds] /\ f \in [Bufs -> FdKinds] /\ f \in [Bufs -> LostKinds]
        /\ \A b \in Bufs : o[b] = "none" /\ f[b] = "closed"
    BY DEF ObjKinds, FdKinds, LostKinds
  <1> HIDE DEF o, f
  <1>3. RowOK(o, f, z, FALSE, NoCall)
    BY <1>2, FreshRow
  <1>4. z.lock = "open"
    BY FilesOK
  <1> HIDE DEF z
  <1>5. Granted(p, f, f, z, NoCall)
    <2>1. \A b \in Bufs, x \in Places : RowLock(f, f, z, NoCall, b, x) \notin Locks
      BY <1>2, <1>4, NoCallOK DEF RowLock, Locks, Places
    <2> QED BY <2>1 DEF Granted
  <1> QED BY <1>1, <1>2, <1>3, <1>5, RowStep

(* Every step preserves the inductive invariant. *)
LEMMA NextIInv == IInv /\ [Next]_vars => IInv'
  <1> SUFFICES ASSUME IInv, [Next]_vars PROVE IInv'
    OBVIOUS
  <1>1. CASE UNCHANGED vars
    BY <1>1 DEF vars, IInv, TypeOK, Rows, NamesOK, LockExclusion, LockAt
  <1>2. ASSUME NEW p \in Procs, Call(p) PROVE IInv'
    <2>1. ASSUME NEW m \in {"alloc", "register"}, \E a \in IdArgs : Request(p, a, m) PROVE IInv'
      BY <2>1, RequestIInv
    <2>2. CASE PciDevice_allocDMABuffer(p) \/ PciDevice_registerDMABuffer(p)
      BY <2>1, <2>2 DEF PciDevice_allocDMABuffer, PciDevice_registerDMABuffer
    <2>3. CASE PciDevice_getDMABuffer(p)
      BY <2>3, LookupIInv
    <2>4. CASE PciDevice_deleteDMABuffer(p)
      <3>1. "one" \in Modes
        BY DEF Modes
      <3> QED BY <2>4, <3>1, FreeIInv DEF PciDevice_deleteDMABuffer
    <2>5. CASE PciDevice_delete(p) \/ PciDevice_freeAllBuffers(p)
      BY <2>5, FreeListIInv DEF PciDevice_delete, PciDevice_freeAllBuffers, Modes
    <2> QED BY <1>2, <2>2, <2>3, <2>4, <2>5 DEF Call
  <1>3. ASSUME NEW p \in Procs, Step(p) PROVE IInv'
    BY <1>3, LookupIInv, MapOpenIInv, MapUserIInv, MapLockIInv, MapMmapIInv, FreeNextIInv,
       FreeTryExIInv, FreeOpenIInv, CloseFilesIInv, FreeWriteIInv, UnattachedIInv DEF Step
  <1>4. ASSUME NEW p \in Procs, Exit(p) PROVE IInv'
    BY <1>4, ExitIInv
  <1> QED BY <1>1, <1>2, <1>3, <1>4 DEF Next

LEMMA SpecIInv == Spec => []IInv
  BY InitIInv, NextIInv, PTL DEF Spec

(***************************************************************************)
(* Type correctness of the sharing protocol, and: a call that returns      *)
(* leaves no half-built DMABuffer with an open map file behind.            *)
(***************************************************************************)
THEOREM TypeCorrect == Spec => []TypeOK
  BY SpecIInv, PTL DEF IInv

(***************************************************************************)
(* Every mapping made by DMABuffer_map is covered by a shared lock on its  *)
(* own map file, for any number of processes and buffers and for every     *)
(* call, crash and failing open(); the one exception is a map_fd that is 0 *)
(* in a process where closing alloc_fd = 0 has hit a descriptor.           *)
(***************************************************************************)
THEOREM MappingIsLocked == Spec => []MappedHoldsLock
  <1>1. IInv => MappedHoldsLock
    BY DEF IInv, Rows, RowOK, Covered, MappedHoldsLock, ZeroHolds
  <1> QED BY <1>1, SpecIInv, PTL

(* A process past the flock of DMABuffer_free has the lock, on b unless 0 was hit. *)
LEMMA FreeingHolds ==
  ASSUME IInv, NEW p \in Procs, NEW b \in Bufs, Freeing(p, b), fd[p][b] = "zero" => ~hit[p]
  PROVE  \E x \in Places : LockAt(p, b, x) = "EX"
  <1>1. call[p].pc \in FreeingPCs /\ call[p].pc # "tryEx" /\ call[p].buf = b
    BY DEF Freeing, FreeingPCs
  <1>2. fd[p][b] = "EX" \/ (fd[p][b] = "zero" /\ zero[p].lock = "EX")
    BY <1>1, FreeingCall
  <1>3. CASE fd[p][b] = "EX"
    <2>1. LockAt(p, b, "node") = "EX"
      BY <1>3 DEF LockAt, RowLock
    <2> QED BY <2>1 DEF Places
  <1>4. CASE fd[p][b] = "zero" /\ zero[p].lock = "EX"
    <2>1. zero[p].buf = b
      BY <1>4, RowParts DEF Genuine
    <2>2. LockAt(p, b, "zero") = "EX"
      BY <1>4, <2>1 DEF LockAt, RowLock
    <2> QED BY <2>2 DEF Places
  <1> QED BY <1>2, <1>3, <1>4

(***************************************************************************)
(* While DMABuffer_free is between its flock and closing the file, nobody  *)
(* has the buffer mapped and nobody else is freeing it; the one exception  *)
(* are map_fds that are 0 in a process where closing alloc_fd = 0 has hit  *)
(* a descriptor.                                                           *)
(***************************************************************************)
THEOREM ExclusiveFree == Spec => []FreeingIsExclusive
  <1>1. IInv => FreeingIsExclusive
    <2> SUFFICES ASSUME IInv, NEW p \in Procs, NEW q \in Procs, NEW b \in Bufs,
                        Freeing(p, b), fd[p][b] = "zero" => ~hit[p]
                 PROVE  /\ obj[q][b] \in Mapped => hit[q] /\ fd[q][b] = "zero"
                        /\ leaked[q][b] # "SH"
                        /\ ~(call[q].buf = b /\ call[q].lock = "SH")
                        /\ ~ZeroHolds(q, b, "SH")
                        /\ Freeing(q, b) => q = p \/ (fd[q][b] = "zero" /\ hit[q])
      BY DEF FreeingIsExclusive
    <2>1. PICK x \in Places : LockAt(p, b, x) = "EX"
      BY FreeingHolds
    <2>2. \A y \in Places : LockAt(q, b, y) # "SH"
      BY <2>1 DEF IInv, LockExclusion, Locks
    <2>3. /\ LockAt(q, b, "node") = fd[q][b] /\ LockAt(q, b, "lost") = leaked[q][b]
          /\ call[q].buf = b => LockAt(q, b, "new") = call[q].lock
          /\ zero[q].buf = b => LockAt(q, b, "zero") = zero[q].lock
      BY DEF LockAt, RowLock
    <2>4. /\ fd[q][b] # "SH" /\ leaked[q][b] # "SH" /\ ~(call[q].buf = b /\ call[q].lock = "SH")
          /\ ~(zero[q].buf = b /\ zero[q].lock = "SH")
      BY <2>2, <2>3 DEF Places
    <2>5. obj[q][b] \in Mapped => hit[q] /\ fd[q][b] = "zero"
      BY <2>4, RowParts DEF Covered
    <2>6. ASSUME Freeing(q, b), ~(fd[q][b] = "zero" /\ hit[q]) PROVE q = p
      <3>1. PICK y \in Places : LockAt(q, b, y) = "EX"
        BY <2>6, FreeingHolds
      <3> QED BY <2>1, <3>1 DEF IInv, LockExclusion, Locks
    <2> QED BY <2>4, <2>5, <2>6 DEF ZeroHolds
  <1> QED BY <1>1, SpecIInv, PTL

-----------------------------------------------------------------------------
(***************************************************************************)
(* Who sees to it that a buffer is removed.  For processes that delete     *)
(* what they no longer need (no PDA_DELETE_PERSISTANT; freeAllBuffers ends *)
(* a process), that do not die, and can open the adapter's files.          *)
(***************************************************************************)
OnlyDeletes == Faults = {} /\ \A p \in Procs : Calls[p] \cap {"deviceKeep", "freeAll"} = {}

(* Closing alloc_fd = 0 has hit no descriptor of the library yet. *)
NoHit == \A p \in Procs : ~hit[p]

(***************************************************************************)
(* A process with these rows will remove b, registered as i, or find out   *)
(* that another process does: it has a node, a lost descriptor or a lock   *)
(* of the buffer, or is in a call that is about to make a node of it or to *)
(* free it.                                                                *)
(***************************************************************************)
TendsRow(o, l, z, c, i, b) ==
    \/ o[b] # "none"
    \/ l[b] # "closed"
    \/ z.buf = b /\ z.lock \in Locks
    \/ c.pc \in {"open", "write"} /\ c.id = i
    \/ c.pc \in {"flock", "mmap"} \cup FreeingPCs /\ c.buf = b

Tends(p, i) == TendsRow(obj[p], leaked[p], zero[p], call[p], i, reg[i])

Tended == \A i \in Ids : reg[i] # NoBuf => \E p \in Procs : Tends(p, i)

RegNames == \A i \in Ids : reg[i] # NoBuf => nameOf[reg[i]] = i

(* What a process locks it uses or is freeing; and the calls it never makes. *)
LocalRow(o, f, c) ==
    /\ \A b \in Bufs : f[b] = "SH" => o[b] # "none"
    /\ \A b \in Bufs : f[b] = "EX" => c.pc \in FreeingPCs /\ c.buf = b
    /\ c.mode \notin {"keep", "all", "allEmpty"}
    /\ c.pc \notin {"unattached", "dangling"}

(* What it frees it will free by its name. *)
NamedOK(c) == c.pc \in FreeingPCs => c.id = nameOf[c.buf]

OwnerInv ==
    /\ RegNames
    /\ \A p \in Procs : LocalRow(obj[p], fd[p], call[p]) /\ NamedOK(call[p])
    /\ NoHit => Tended

(* A step of p leaves the names of the buffers that have one. *)
LEMMA NamesKept ==
  ASSUME TypeOK, RegNames, KernelStep
  PROVE  RegNames' /\ \A b \in Bufs : nameOf[b] \in Ids => nameOf'[b] = nameOf[b]
  <1>0. NoId \notin Ids /\ NoBuf \notin Bufs
    BY SharingAssumption DEF NoId, Ids
  <1>1. CASE UNCHANGED kernelVars
    BY <1>1 DEF kernelVars, RegNames
  <1>2. CASE \E i \in Ids, b \in Bufs : request_buffer_write(i, b)
    <2>1. PICK i \in Ids, b \in Bufs : request_buffer_write(i, b)
      BY <1>2
    <2>2. \A c \in Bufs : nameOf'[c] = IF c = b THEN i ELSE nameOf[c]
      BY <2>1 DEF request_buffer_write, TypeOK
    <2>3. \A j \in Ids : reg'[j] = IF j = i THEN b ELSE reg[j]
      BY <2>1 DEF request_buffer_write, TypeOK
    <2>4. \A j \in Ids : reg[j] # b
      BY <1>0, <2>1 DEF request_buffer_write, RegNames
    <2>5. nameOf[b] = NoId
      BY <2>1 DEF request_buffer_write
    <2> QED BY <1>0, <2>2, <2>3, <2>4, <2>5 DEF RegNames, TypeOK
  <1>3. CASE \E i \in Ids : delete_buffer_write(i)
    <2>1. PICK i \in Ids : delete_buffer_write(i)
      BY <1>3
    <2>2. nameOf' = nameOf /\ \A j \in Ids : reg'[j] = IF j = i THEN NoBuf ELSE reg[j]
      BY <2>1 DEF delete_buffer_write, TypeOK
    <2> QED BY <2>2 DEF RegNames
  <1> QED BY <1>1, <1>2, <1>3 DEF KernelStep

(***************************************************************************)
(* What a step of p to the rows o, l, z, c must do about the buffers: tend *)
(* a new one, and forget none that no other process tends.                 *)
(***************************************************************************)
KeepsTended(p, o, l, z, c) ==
    \A i \in Ids : reg'[i] # NoBuf =>
        IF reg'[i] = reg[i]
        THEN Tends(p, i) => \/ TendsRow(o, l, z, c, i, reg[i])
                            \/ \E q \in Procs \ {p} : Tends(q, i)
        ELSE TendsRow(o, l, z, c, i, reg'[i])

LEMMA OwnerStep ==
  ASSUME IInv, OwnerInv, NEW p \in Procs, NEW o, NEW f, NEW l, NEW z, NEW h, NEW c,
         Replaced(p, o, f, l, z, h, c), KernelStep, LocalRow(o, f, c), hit[p] => h,
         c.pc \in FreeingPCs => c.buf \in Bufs /\ nameOf[c.buf] \in Ids /\ c.id = nameOf[c.buf],
         NoHit /\ ~h => KeepsTended(p, o, l, z, c)
  PROVE  OwnerInv'
  <1>1. TypeOK /\ RegNames
    BY DEF IInv, OwnerInv
  <1>2. /\ obj'[p] = o /\ fd'[p] = f /\ leaked'[p] = l
        /\ zero'[p] = z /\ hit'[p] = h /\ call'[p] = c
    BY <1>1, RowsAfter
  <1>3. \A q \in Procs : q # p =>
           /\ obj'[q] = obj[q] /\ fd'[q] = fd[q] /\ leaked'[q] = leaked[q]
           /\ zero'[q] = zero[q] /\ hit'[q] = hit[q] /\ call'[q] = call[q]
    BY <1>1, RowsAfter
  <1>4. RegNames' /\ \A b \in Bufs : nameOf[b] \in Ids => nameOf'[b] = nameOf[b]
    BY <1>1, NamesKept
  <1>5. ASSUME NEW q \in Procs PROVE (LocalRow(obj[q], fd[q], call[q]) /\ NamedOK(call[q]))'
    <2>1. CASE q = p
      BY <1>2, <1>4, <2>1 DEF LocalRow, NamedOK
    <2>2. CASE q # p
      <3>1. LocalRow(obj[q], fd[q], call[q]) /\ NamedOK(call[q])
        BY DEF OwnerInv
      <3>2. call[q].pc \in FreeingPCs => call[q].buf \in Bufs /\ call[q].id \in Ids
        BY RowParts DEF CallRecOK, CallState
      <3>3. call[q].pc \in FreeingPCs => nameOf'[call[q].buf] = nameOf[call[q].buf]
        BY <1>4, <3>1, <3>2 DEF NamedOK
      <3> QED BY <1>3, <2>2, <3>1, <3>3 DEF LocalRow, NamedOK
    <2> QED BY <2>1, <2>2
  <1>6. ASSUME NoHit' PROVE Tended'
    <2>1. NoHit /\ ~h
      BY <1>2, <1>3, <1>6 DEF NoHit
    <2> SUFFICES ASSUME NEW i \in Ids, reg'[i] # NoBuf PROVE \E q \in Procs : Tends(q, i)'
      BY DEF Tended
    <2>2. Tends(p, i)' <=> TendsRow(o, l, z, c, i, reg'[i])
      BY <1>2 DEF Tends
    <2>3. CASE reg'[i] # reg[i]
      BY <2>1, <2>2, <2>3 DEF KeepsTended
    <2>4. CASE reg'[i] = reg[i]
      <3>1. ASSUME NEW q \in Procs \ {p}, Tends(q, i) PROVE Tends(q, i)'
        BY <1>3, <2>4, <3>1 DEF Tends
      <3>2. PICK q \in Procs : Tends(q, i)
        BY <2>1, <2>4 DEF OwnerInv, Tended
      <3>3. CASE q # p
        BY <3>1, <3>2, <3>3
      <3>4. CASE q = p
        <4>1. TendsRow(o, l, z, c, i, reg[i]) \/ \E r \in Procs \ {p} : Tends(r, i)
          BY <2>1, <2>4, <3>2, <3>4 DEF KeepsTended
        <4> QED BY <2>2, <2>4, <3>1, <4>1
      <3> QED BY <3>3, <3>4
    <2> QED BY <2>3, <2>4
  <1> QED BY <1>4, <1>5, <1>6 DEF OwnerInv

(* A lock that stands in the way belongs to somebody who tends the buffer. *)
LEMMA LockIsTended ==
  ASSUME IInv, OwnerInv, NEW q \in Procs, NEW i \in Ids, reg[i] \in Bufs, NEW y \in Places,
         LockAt(q, reg[i], y) \in Locks
  PROVE  Tends(q, i)
  <1>1. call[q].lock # "EX" /\ (call[q].lock = "SH" => call[q].pc = "mmap")
    BY RowParts DEF CallRecOK, CallState
  <1>2. LocalRow(obj[q], fd[q], call[q])
    BY DEF OwnerInv
  <1>3. CASE y = "node"
    BY <1>2, <1>3 DEF LockAt, RowLock, Locks, LocalRow, Tends, TendsRow
  <1>4. CASE y = "lost"
    BY <1>4 DEF LockAt, RowLock, Locks, Tends, TendsRow
  <1>5. CASE y = "new"
    BY <1>1, <1>5 DEF LockAt, RowLock, Locks, Tends, TendsRow
  <1>6. CASE y = "zero"
    BY <1>6 DEF LockAt, RowLock, Locks, Tends, TendsRow
  <1> QED BY <1>3, <1>4, <1>5, <1>6 DEF Places

(* The holder of a lock that flock() runs into. *)
LEMMA Holder ==
  ASSUME NEW p \in Procs, NEW b \in Bufs, NEW kinds, NEW x,
         \/ x = "new" /\ NewConflict(p, b, kinds)
         \/ x = "node" /\ NodeConflict(p, b, kinds)
         \/ x = "zero" /\ zero[p].buf = b /\ ZeroConflict(p, kinds)
  PROVE  \E q \in Procs, y \in Places : LockAt(q, b, y) \in kinds /\ (q # p \/ y # x)
  <1>1. \A q \in Procs :
           /\ LockAt(q, b, "node") = fd[q][b] /\ LockAt(q, b, "lost") = leaked[q][b]
           /\ call[q].buf = b => LockAt(q, b, "new") = call[q].lock
           /\ zero[q].buf = b => LockAt(q, b, "zero") = zero[q].lock
    BY DEF LockAt, RowLock
  <1>2. {"node", "lost", "new", "zero"} \subseteq Places
    BY DEF Places
  <1>3. CASE x = "new" /\ NewConflict(p, b, kinds)
    BY <1>1, <1>2, <1>3 DEF NewConflict
  <1>4. CASE x = "node" /\ NodeConflict(p, b, kinds)
    BY <1>1, <1>2, <1>4 DEF NodeConflict
  <1>5. CASE x = "zero" /\ zero[p].buf = b /\ ZeroConflict(p, kinds)
    BY <1>1, <1>2, <1>5 DEF ZeroConflict
  <1> QED BY <1>3, <1>4, <1>5

(***************************************************************************)
(* A process that runs into a lock on b, other than through x itself, may  *)
(* forget b: another process tends it, or p does through a descriptor that *)
(* it keeps.                                                               *)
(***************************************************************************)
LEMMA Refused ==
  ASSUME IInv, OwnerInv, NEW p \in Procs, NEW i \in Ids, reg[i] \in Bufs,
         NEW q \in Procs, NEW y \in Places, LockAt(q, reg[i], y) \in Locks,
         q # p \/ y \in {"lost", "zero"}, NEW z, z = zero[p] \/ q # p \/ y # "zero", NEW c
  PROVE  TendsRow(obj[p], leaked[p], z, c, i, reg[i]) \/ \E r \in Procs \ {p} : Tends(r, i)
  <1>1. CASE q # p
    BY <1>1, LockIsTended
  <1>2. CASE q = p /\ y = "lost"
    BY <1>2 DEF LockAt, RowLock, Locks, TendsRow
  <1>3. CASE q = p /\ y = "zero"
    BY <1>3 DEF LockAt, RowLock, Locks, TendsRow
  <1> QED BY <1>1, <1>2, <1>3

(* The call c is about to make a node of b, registered as i, or to free it. *)
CallTends(c, i, b) ==
    \/ c.pc \in {"open", "write"} /\ c.id = i
    \/ c.pc \in {"flock", "mmap"} \cup FreeingPCs /\ c.buf = b

(* No lock that descriptor 0 holds on a registered buffer is given up. *)
ZeroKeeps(p, z) ==
    \A i \in Ids : reg[i] # NoBuf /\ zero[p].buf = reg[i] /\ zero[p].lock \in Locks => z = zero[p]

LEMMA SameKeeps ==
  ASSUME IInv, NEW p \in Procs, UNCHANGED zero
  PROVE  \E z : zero' = [zero EXCEPT ![p] = z] /\ ZeroKeeps(p, z)
  <1>1. TypeOK
    BY DEF IInv
  <1> QED BY <1>1, SameRows DEF ZeroKeeps

LEMMA OpensKeeps ==
  ASSUME IInv, NEW p \in Procs, NEW k, NEW b, Opens(p, k, b)
  PROVE  \E z : zero' = [zero EXCEPT ![p] = z] /\ ZeroKeeps(p, z)
  <1>1. CASE ZeroIsFree(p)
    <2> DEFINE z == ZeroFile(k, b)
    <2>1. zero' = [zero EXCEPT ![p] = z]
      BY <1>1 DEF Opens
    <2>2. zero[p].lock = "closed"
      BY <1>1, RowParts DEF ZeroIsFree, ZeroOK
    <2>3. ZeroKeeps(p, z)
      BY <2>2 DEF ZeroKeeps, Locks
    <2> HIDE DEF z
    <2> QED BY <2>1, <2>3
  <1>2. CASE ~ZeroIsFree(p)
    BY <1>2, SameKeeps DEF Opens
  <1> QED BY <1>1, <1>2

LEMMA ClosesKeeps ==
  ASSUME IInv, NEW p \in Procs, NEW w \in BOOLEAN, Closes(p, w),
         w => \A i \in Ids : ~(reg[i] # NoBuf /\ zero[p].buf = reg[i] /\ zero[p].lock \in Locks)
  PROVE  \E z : zero' = [zero EXCEPT ![p] = z] /\ ZeroKeeps(p, z)
  <1>1. CASE w
    <2>1. zero' = [zero EXCEPT ![p] = NoFile] /\ ZeroKeeps(p, NoFile)
      BY <1>1 DEF Closes, ZeroKeeps
    <2> QED BY <2>1
  <1>2. CASE ~w
    BY <1>2, SameKeeps DEF Closes
  <1> QED BY <1>1, <1>2

(* A step that changes the kset, the call of p and its descriptor 0. *)
LEMMA CallOwner ==
  ASSUME IInv, OwnerInv, NEW p \in Procs, NEW z, NEW c,
         zero' = [zero EXCEPT ![p] = z], call' = [call EXCEPT ![p] = c],
         UNCHANGED <<obj, fd, leaked, hit>>, KernelStep, ZeroKeeps(p, z),
         call[p].pc \notin FreeingPCs, c.pc \notin FreeingPCs \cup {"unattached", "dangling"},
         c.mode \notin {"keep", "all", "allEmpty"},
         \A i \in Ids : reg'[i] # NoBuf =>
             IF reg'[i] = reg[i]
             THEN NoHit /\ CallTends(call[p], i, reg[i]) =>
                     \/ TendsRow(obj[p], leaked[p], z, c, i, reg[i])
                     \/ \E q \in Procs \ {p} : Tends(q, i)
             ELSE CallTends(c, i, reg'[i])
  PROVE  OwnerInv'
  <1>1. TypeOK /\ LocalRow(obj[p], fd[p], call[p])
    BY DEF IInv, OwnerInv
  <1>2. Replaced(p, obj[p], fd[p], leaked[p], z, hit[p], c)
    BY <1>1, SameRows DEF Replaced
  <1>3. LocalRow(obj[p], fd[p], c)
    BY <1>1 DEF LocalRow
  <1>4. NoHit => KeepsTended(p, obj[p], leaked[p], z, c)
    <2> SUFFICES ASSUME NoHit, NEW i \in Ids, reg'[i] # NoBuf
                 PROVE  IF reg'[i] = reg[i]
                        THEN Tends(p, i) => \/ TendsRow(obj[p], leaked[p], z, c, i, reg[i])
                                            \/ \E q \in Procs \ {p} : Tends(q, i)
                        ELSE TendsRow(obj[p], leaked[p], z, c, i, reg'[i])
      BY DEF KeepsTended
    <2>1. CASE reg'[i] # reg[i]
      BY <2>1 DEF CallTends, TendsRow
    <2>2. CASE reg'[i] = reg[i]
      <3>1. CASE CallTends(call[p], i, reg[i])
        BY <2>2, <3>1
      <3>2. CASE zero[p].buf = reg[i] /\ zero[p].lock \in Locks
        BY <2>2, <3>2 DEF ZeroKeeps, TendsRow
      <3>3. CASE obj[p][reg[i]] # "none" \/ leaked[p][reg[i]] # "closed"
        BY <2>2, <3>3 DEF TendsRow
      <3> QED BY <2>2, <3>1, <3>2, <3>3 DEF Tends, TendsRow, CallTends
    <2> QED BY <2>1, <2>2
  <1> QED BY <1>2, <1>3, <1>4, OwnerStep

LEMMA NoCallOwner ==
    /\ NoCall.pc = "idle" /\ NoCall.mode = "lookup"
    /\ NoCall.pc \notin FreeingPCs \cup {"unattached", "dangling"}
  BY DEF NoCall, FreeingPCs

(* A position at which a call tends nothing. *)
LEMMA NothingTended ==
  ASSUME NEW c, NEW i, NEW b, c.pc \in {"idle", "lookup", "next"}
  PROVE  ~CallTends(c, i, b) /\ c.pc \notin FreeingPCs
  BY DEF CallTends, FreeingPCs

LEMMA RequestOwner ==
  ASSUME OnlyDeletes, IInv, OwnerInv, NEW p \in Procs, NEW a \in IdArgs,
         NEW m \in {"alloc", "register"}, Request(p, a, m)
  PROVE  OwnerInv'
  <1> DEFINE i == DMABuffer_findNewIndex(p, a)
             c1 == [NoCall EXCEPT !.arg = a, !.id = i, !.mode = m]
  <1>1. i \in Ids /\ call[p].pc = "idle" /\ UNCHANGED <<obj, fd, leaked, hit>>
    BY DEF Request
  <1>2. PICK z : zero' = [zero EXCEPT ![p] = z] /\ ZeroKeeps(p, z)
    <2>1. UNCHANGED zero \/ Opens(p, "request", NoBuf)
      BY DEF Request
    <2> QED BY <2>1, SameKeeps, OpensKeeps
  <1>3. call[p].pc \notin FreeingPCs /\ \A j, b : ~CallTends(call[p], j, b)
    BY <1>1, NothingTended
  <1> HIDE DEF i
  <1>4. CASE /\ \E b \in Bufs : request_buffer_write(i, b)
             /\ call' = [call EXCEPT ![p] = [c1 EXCEPT !.pc = "open"]]
    <2> DEFINE c == [c1 EXCEPT !.pc = "open"]
    <2>1. c.pc = "open" /\ c.mode = m /\ c.id = i
      BY DEF NoCall
    <2>2. KernelStep
      BY <1>1, <1>4 DEF KernelStep
    <2>3. \A j \in Ids : reg'[j] = reg[j] \/ j = i
      BY <1>4 DEF request_buffer_write, IInv, TypeOK
    <2>4. call' = [call EXCEPT ![p] = c]
      BY <1>4
    <2> HIDE DEF c
    <2>5. \A j \in Ids : reg'[j] # reg[j] => CallTends(c, j, reg'[j])
      BY <2>1, <2>3 DEF CallTends
    <2>6. c.pc \notin FreeingPCs \cup {"unattached", "dangling"} /\ c.mode \notin {"keep", "all", "allEmpty"}
      BY <2>1 DEF FreeingPCs
    <2> QED BY <1>1, <1>2, <1>3, <2>2, <2>4, <2>5, <2>6, CallOwner
  <1>5. CASE /\ call' = [call EXCEPT ![p] =
                        [c1 EXCEPT !.pc = IF m = "alloc" THEN "open" ELSE "lookup", !.failed = TRUE]]
             /\ UNCHANGED kernelVars
    <2> DEFINE c == [c1 EXCEPT !.pc = IF m = "alloc" THEN "open" ELSE "lookup", !.failed = TRUE]
    <2>1. c.pc \in {"open", "lookup"} /\ c.mode = m
      BY DEF NoCall
    <2>2. KernelStep /\ reg' = reg
      BY <1>5 DEF KernelStep, kernelVars
    <2>4. call' = [call EXCEPT ![p] = c]
      BY <1>5
    <2> HIDE DEF c
    <2>6. c.pc \notin FreeingPCs \cup {"unattached", "dangling"} /\ c.mode \notin {"keep", "all", "allEmpty"}
      BY <2>1 DEF FreeingPCs
    <2> QED BY <1>1, <1>2, <1>3, <2>2, <2>4, <2>6, CallOwner
  <1> QED BY <1>4, <1>5 DEF Request, i

LEMMA LookupOwner ==
  ASSUME OnlyDeletes, IInv, OwnerInv, NEW p \in Procs, PciDevice_getDMABuffer(p) \/ Lookup(p)
  PROVE  OwnerInv'
  <1>1. /\ call[p].pc \in {"idle", "lookup"} /\ UNCHANGED kernelVars
        /\ UNCHANGED <<obj, fd, leaked, hit>> /\ UNCHANGED zero
    BY DEF PciDevice_getDMABuffer, Lookup, objVars, fileVars
  <1>2. \E c : call' = [call EXCEPT ![p] = c] /\ c.pc \in {"idle", "lookup", "open"} /\ c.mode = "lookup"
    <2>1. CASE PciDevice_getDMABuffer(p)
      <3>1. PICK a \in IdArgs : call' = [call EXCEPT ![p] = [NoCall EXCEPT !.pc = "lookup", !.arg = a]]
        BY <2>1 DEF PciDevice_getDMABuffer
      <3> DEFINE c == [NoCall EXCEPT !.pc = "lookup", !.arg = a]
      <3>2. c.pc = "lookup" /\ c.mode = "lookup" /\ call' = [call EXCEPT ![p] = c]
        BY <3>1 DEF NoCall
      <3> HIDE DEF c
      <3> QED BY <3>2
    <2>2. CASE Lookup(p)
      <3>1. \/ Return(p)
            \/ \E a, i : call' = [call EXCEPT ![p] = [NoCall EXCEPT !.pc = "open", !.arg = a, !.id = i]]
        BY <2>2 DEF Lookup
      <3>2. CASE Return(p)
        BY <3>2, NoCallOwner DEF Return
      <3>3. CASE \E a, i : call' = [call EXCEPT ![p] = [NoCall EXCEPT !.pc = "open", !.arg = a, !.id = i]]
        <4>1. PICK a, i : call' = [call EXCEPT ![p] = [NoCall EXCEPT !.pc = "open", !.arg = a, !.id = i]]
          BY <3>3
        <4> DEFINE c == [NoCall EXCEPT !.pc = "open", !.arg = a, !.id = i]
        <4>2. c.pc = "open" /\ c.mode = "lookup" /\ call' = [call EXCEPT ![p] = c]
          BY <4>1 DEF NoCall
        <4> HIDE DEF c
        <4> QED BY <4>2
      <3> QED BY <3>1, <3>2, <3>3
    <2> QED BY <2>1, <2>2
  <1>3. PICK c : call' = [call EXCEPT ![p] = c] /\ c.pc \in {"idle", "lookup", "open"} /\ c.mode = "lookup"
    BY <1>2
  <1>4. KernelStep /\ reg' = reg
    BY <1>1 DEF KernelStep, kernelVars
  <1>5. PICK z : zero' = [zero EXCEPT ![p] = z] /\ ZeroKeeps(p, z)
    BY <1>1, SameKeeps
  <1>6. call[p].pc \notin FreeingPCs /\ \A j, b : ~CallTends(call[p], j, b)
    BY <1>1, NothingTended
  <1>7. c.pc \notin FreeingPCs \cup {"unattached", "dangling"} /\ c.mode \notin {"keep", "all", "allEmpty"}
    BY <1>3 DEF FreeingPCs
  <1> QED BY <1>1, <1>3, <1>4, <1>5, <1>6, <1>7, CallOwner

LEMMA MapOpenOwner ==
  ASSUME OnlyDeletes, IInv, OwnerInv, NEW p \in Procs, MapOpen(p)
  PROVE  OwnerInv'
  <1>1. /\ call[p].pc = "open" /\ KernelStep /\ reg' = reg /\ UNCHANGED <<obj, fd, leaked, hit>>
        /\ call[p].pc \notin FreeingPCs
    BY DEF MapOpen, KernelStep, kernelVars, FreeingPCs
  <1>2. call[p] \in CallState /\ call[p].mode \notin {"keep", "all", "allEmpty"}
    BY DEF IInv, TypeOK, OwnerInv, LocalRow
  <1>3. \A i \in Ids : \A b : CallTends(call[p], i, b) => i = call[p].id
    BY <1>1 DEF CallTends, FreeingPCs
  <1>4. PICK z : zero' = [zero EXCEPT ![p] = z] /\ ZeroKeeps(p, z)
    <2>1. UNCHANGED zero \/ Opens(p, "map", reg[call[p].id])
      BY DEF MapOpen
    <2> QED BY <2>1, SameKeeps, OpensKeeps
  <1>5. CASE reg[call[p].id] = NoBuf /\ Return(p)
    BY <1>1, <1>3, <1>4, <1>5, NoCallOwner, CallOwner DEF Return
  <1>6. CASE call' = [call EXCEPT ![p].pc = "flock", ![p].buf = reg[call[p].id],
                                  ![p].lock = IF ZeroIsFree(p) THEN "zero" ELSE "open"]
    <2> DEFINE c == [call[p] EXCEPT !.pc = "flock", !.buf = reg[call[p].id],
                                    !.lock = IF ZeroIsFree(p) THEN "zero" ELSE "open"]
    <2>1. c.pc = "flock" /\ c.buf = reg[call[p].id] /\ c.mode = call[p].mode
      BY <1>2 DEF CallState
    <2>2. call' = [call EXCEPT ![p] = c]
      BY <1>6 DEF IInv, TypeOK
    <2> HIDE DEF c
    <2>3. c.mode \notin {"keep", "all", "allEmpty"} /\ c.pc \notin FreeingPCs \cup {"unattached", "dangling"}
      BY <1>2, <2>1 DEF FreeingPCs
    <2>4. \A i \in Ids : CallTends(call[p], i, reg[i]) => TendsRow(obj[p], leaked[p], z, c, i, reg[i])
      BY <1>3, <2>1 DEF TendsRow
    <2> QED BY <1>1, <1>4, <2>2, <2>3, <2>4, CallOwner
  <1> QED BY <1>5, <1>6 DEF MapOpen, OnlyDeletes

LEMMA MapLockOwner ==
  ASSUME OnlyDeletes, IInv, OwnerInv, NEW p \in Procs, MapLock(p)
  PROVE  OwnerInv'
  <1> DEFINE b == call[p].buf
  <1>1. /\ call[p].pc = "flock" /\ KernelStep /\ reg' = reg /\ UNCHANGED <<obj, fd, leaked, hit>>
        /\ call[p].pc \notin FreeingPCs /\ TypeOK
    BY DEF MapLock, KernelStep, kernelVars, FreeingPCs, IInv
  <1>2. /\ call[p] \in CallState /\ CallRecOK(call[p]) /\ Building(zero[p], call[p])
        /\ call[p].mode \notin {"keep", "all", "allEmpty"}
        /\ \A d \in Bufs : fd[p][d] # "EX"
    BY <1>1, RowParts DEF OwnerInv, LocalRow
  <1>3. b \in Bufs /\ call[p].lock \in {"open", "zero"}
    BY <1>1, <1>2 DEF CallRecOK
  <1>4. call[p].lock = "zero" => zero[p].buf = b /\ zero[p].lock = "open"
    BY <1>1, <1>2 DEF Building
  <1>5. CASE NewBusy(p) /\ Return(p) /\ Closes(p, call[p].lock = "zero")
    <2> DEFINE w == call[p].lock = "zero"
    <2>1. w \in BOOLEAN /\ Closes(p, w) /\ (w => zero[p].lock \notin Locks)
      BY <1>4, <1>5 DEF Locks
    <2>2. PICK z : zero' = [zero EXCEPT ![p] = z] /\ ZeroKeeps(p, z)
      <3> HIDE DEF w
      <3> QED BY <2>1, ClosesKeeps
    <2>3. PICK q \in Procs, y \in Places :
             /\ LockAt(q, b, y) = "EX"
             /\ q # p \/ y # (IF w THEN "zero" ELSE "new")
      <3>1. w => ZeroConflict(p, {"EX"})
        BY <1>5 DEF NewBusy
      <3>2. ~w => NewConflict(p, b, {"EX"})
        BY <1>5 DEF NewBusy
      <3> DEFINE x == IF w THEN "zero" ELSE "new"
      <3>3. \/ x = "new" /\ NewConflict(p, b, {"EX"})
            \/ x = "zero" /\ zero[p].buf = b /\ ZeroConflict(p, {"EX"})
        BY <1>4, <3>1, <3>2
      <3>4. PICK q \in Procs, y \in Places : LockAt(q, b, y) \in {"EX"} /\ (q # p \/ y # x)
        <4> HIDE DEF x, w, b
        <4> QED BY <1>3, <3>3, Holder
      <3> QED BY <3>4
    <2>4. ASSUME NEW i \in Ids, reg[i] # NoBuf, CallTends(call[p], i, reg[i])
          PROVE  \/ TendsRow(obj[p], leaked[p], z, NoCall, i, reg[i])
                 \/ \E r \in Procs \ {p} : Tends(r, i)
      <3>1. reg[i] = b
        BY <1>1, <2>4 DEF CallTends
      <3>2. LockAt(q, reg[i], y) \in Locks
        BY <2>3, <3>1 DEF Locks
      <3>3. q = p => y \in {"lost", "zero"}
        <4>1. LockAt(p, b, "node") # "EX"
          BY <1>2, <1>3 DEF LockAt, RowLock
        <4>2. LockAt(p, b, "new") # "EX"
          BY <1>3 DEF LockAt, RowLock
        <4> QED BY <2>3, <4>1, <4>2 DEF Places
      <3>4. q = p /\ y = "zero" => z = zero[p]
        <4> SUFFICES ASSUME q = p, y = "zero" PROVE z = zero[p]
          OBVIOUS
        <4>1. zero[p].buf = reg[i] /\ zero[p].lock \in Locks
          BY <2>3, <3>1 DEF LockAt, RowLock, Locks
        <4> QED BY <2>2, <2>4, <4>1 DEF ZeroKeeps
      <3> QED BY <1>3, <3>1, <3>2, <3>3, <3>4, Refused
    <2> QED BY <1>1, <1>5, <2>2, <2>4, NoCallOwner, CallOwner DEF Return
  <1>6. CASE LockedShared(p)
    <2> DEFINE lk == IF call[p].lock = "zero" THEN "zero" ELSE "SH"
               c == [call[p] EXCEPT !.pc = "mmap", !.lock = lk]
    <2>1. c.pc = "mmap" /\ c.buf = b /\ c.mode = call[p].mode
      BY <1>2 DEF CallState
    <2>2. call' = [call EXCEPT ![p] = c]
      BY <1>1, <1>6 DEF LockedShared, TypeOK
    <2> HIDE DEF c
    <2>3. PICK z : zero' = [zero EXCEPT ![p] = z] /\ ZeroKeeps(p, z)
      <3>1. CASE call[p].lock = "zero"
        <4> DEFINE z == [zero[p] EXCEPT !.lock = "SH"]
        <4>1. zero' = [zero EXCEPT ![p] = z]
          BY <1>6, <3>1 DEF LockedShared
        <4>2. ZeroKeeps(p, z)
          BY <1>4, <3>1 DEF ZeroKeeps, Locks
        <4> HIDE DEF z
        <4> QED BY <4>1, <4>2
      <3>2. CASE call[p].lock # "zero"
        BY <1>6, <3>2, SameKeeps DEF LockedShared
      <3> QED BY <3>1, <3>2
    <2>4. c.mode \notin {"keep", "all", "allEmpty"} /\ c.pc \notin FreeingPCs \cup {"unattached", "dangling"}
      BY <1>2, <2>1 DEF FreeingPCs
    <2>5. \A i \in Ids : CallTends(call[p], i, reg[i]) => TendsRow(obj[p], leaked[p], z, c, i, reg[i])
      BY <1>1, <2>1 DEF TendsRow, CallTends
    <2> QED BY <1>1, <2>2, <2>3, <2>4, <2>5, CallOwner
  <1> QED BY <1>5, <1>6 DEF MapLock

(***************************************************************************)
(* A step that changes what p has of buffer b, its descriptor 0 and its    *)
(* call; and what it must observe: p frees what it locks exclusively, and  *)
(* if it no longer tends b, another process does.                          *)
(***************************************************************************)
OtherNodes(p, b, o, f, l) ==
    \A d \in Bufs \ {b} : o[d] = obj[p][d] /\ f[d] = fd[p][d] /\ l[d] = leaked[p][d]

NodeLocal(b, o, f, c) ==
    /\ f[b] = "SH" => o[b] # "none"
    /\ f[b] = "EX" => c.pc \in FreeingPCs
    /\ c.pc \notin {"unattached", "dangling"} /\ c.mode \notin {"keep", "all", "allEmpty"}
    /\ c.pc \in FreeingPCs => c.buf = b /\ c.id = nameOf[b] /\ nameOf[b] \in Ids

NodeTended(p, b, o, l, z, c) ==
    /\ \A i \in Ids : CallTends(call[p], i, reg[i]) => reg[i] \in {NoBuf, b}
    /\ \A i \in Ids : reg[i] \notin {NoBuf, b} /\ zero[p].buf = reg[i] /\ zero[p].lock \in Locks
                         => z = zero[p]
    /\ \A i \in Ids : reg[i] = b => \/ TendsRow(o, l, z, c, i, b)
                                    \/ \E q \in Procs \ {p} : Tends(q, i)

LEMMA NodeOwner ==
  ASSUME IInv, OwnerInv, NEW p \in Procs, NEW b \in Bufs, NEW o, NEW f, NEW l, NEW z, NEW h, NEW c,
         Replaced(p, o, f, l, z, h, c), UNCHANGED kernelVars, hit[p] => h,
         OtherNodes(p, b, o, f, l), NodeLocal(b, o, f, c),
         call[p].pc \in FreeingPCs => call[p].buf = b,
         NoHit /\ ~h => NodeTended(p, b, o, l, z, c)
  PROVE  OwnerInv'
  <1>1. LocalRow(obj[p], fd[p], call[p]) /\ KernelStep /\ reg' = reg
    BY DEF OwnerInv, KernelStep, kernelVars
  <1>2. LocalRow(o, f, c)
    <2>1. ASSUME NEW d \in Bufs, f[d] = "EX" PROVE c.pc \in FreeingPCs /\ c.buf = d
      <3>1. CASE d = b
        BY <2>1, <3>1 DEF NodeLocal
      <3>2. CASE d # b
        BY <1>1, <2>1, <3>2 DEF LocalRow, OtherNodes
      <3> QED BY <3>1, <3>2
    <2>2. ASSUME NEW d \in Bufs, f[d] = "SH" PROVE o[d] # "none"
      BY <1>1, <2>2 DEF LocalRow, OtherNodes, NodeLocal
    <2> QED BY <2>1, <2>2 DEF LocalRow, NodeLocal
  <1>3. NoHit /\ ~h => KeepsTended(p, o, l, z, c)
    <2> SUFFICES ASSUME NoHit, ~h, NEW i \in Ids, reg[i] # NoBuf, Tends(p, i)
                 PROVE  TendsRow(o, l, z, c, i, reg[i]) \/ \E q \in Procs \ {p} : Tends(q, i)
      BY <1>1 DEF KeepsTended
    <2>1. CASE reg[i] = b
      BY <2>1 DEF NodeTended
    <2>2. CASE reg[i] # b
      <3>1. reg[i] \in Bufs
        BY DEF IInv, TypeOK
      <3>2. ~CallTends(call[p], i, reg[i])
        BY <2>2 DEF NodeTended
      <3>3. CASE obj[p][reg[i]] # "none" \/ leaked[p][reg[i]] # "closed"
        BY <2>2, <3>1, <3>3 DEF OtherNodes, TendsRow
      <3>4. CASE zero[p].buf = reg[i] /\ zero[p].lock \in Locks
        BY <2>2, <3>4 DEF NodeTended, TendsRow
      <3> QED BY <3>2, <3>3, <3>4 DEF Tends, TendsRow, CallTends
    <2> QED BY <2>1, <2>2
  <1> QED BY <1>1, <1>2, <1>3, OwnerStep DEF NodeLocal

LEMMA MapUserOwner ==
  ASSUME OnlyDeletes, IInv, OwnerInv, NEW p \in Procs, DMABuffer_mapUser(p)
  PROVE  OwnerInv'
  <1> DEFINE b == reg[call[p].id]
             c == [call[p] EXCEPT !.pc = "lookup"]
             k == IF ZeroIsFree(p) THEN "zero" ELSE "open"
  <1>1. /\ call[p].pc = "open" /\ UNCHANGED kernelVars /\ UNCHANGED <<leaked, hit>> /\ TypeOK
        /\ call[p] \in CallState /\ call[p].mode \notin {"keep", "all", "allEmpty"}
        /\ call[p].pc \notin FreeingPCs
    BY DEF DMABuffer_mapUser, IInv, TypeOK, OwnerInv, LocalRow, FreeingPCs
  <1>2. call' = [call EXCEPT ![p] = c] /\ c.pc = "lookup" /\ c.mode = call[p].mode
    BY <1>1 DEF DMABuffer_mapUser, Goto, TypeOK, CallState
  <1>3. /\ c.mode \notin {"keep", "all", "allEmpty"} /\ KernelStep /\ reg' = reg
        /\ c.pc \notin FreeingPCs \cup {"unattached", "dangling"}
    BY <1>1, <1>2 DEF KernelStep, kernelVars, FreeingPCs
  <1> HIDE DEF c
  <1>4. \A i \in Ids : \A d : CallTends(call[p], i, d) => i = call[p].id
    BY <1>1 DEF CallTends, FreeingPCs
  <1>5. CASE b = NoBuf /\ UNCHANGED <<obj, fd, zero>>
    <2>1. PICK z : zero' = [zero EXCEPT ![p] = z] /\ ZeroKeeps(p, z)
      BY <1>5, SameKeeps
    <2> QED BY <1>1, <1>2, <1>3, <1>4, <1>5, <2>1, CallOwner
  <1>6. CASE /\ b # NoBuf /\ obj' = [obj EXCEPT ![p][b] = "user"] /\ fd' = [fd EXCEPT ![p][b] = k]
             /\ Opens(p, "map", b)
    <2> DEFINE o == [obj[p] EXCEPT ![b] = "user"]
               f == [fd[p] EXCEPT ![b] = k]
    <2>1. b \in Bufs
      BY <1>1, <1>6 DEF TypeOK, CallState
    <2>2. PICK z : zero' = [zero EXCEPT ![p] = z] /\ ZeroKeeps(p, z)
      BY <1>6, OpensKeeps
    <2>3. \A i \in Ids : \A d : CallTends(call[p], i, d) => reg[i] = b
      BY <1>4
    <2>4. obj[p] \in [Bufs -> ObjKinds] /\ fd[p] \in [Bufs -> FdKinds]
      BY RowParts
    <2>5. Replaced(p, o, f, leaked[p], z, hit[p], c)
      BY <1>1, <1>2, <1>6, <2>2, SameRows DEF Replaced
    <2>6. /\ OtherNodes(p, b, o, f, leaked[p]) /\ o[b] = "user" /\ f[b] = k
      BY <2>1, <2>4 DEF OtherNodes
    <2> HIDE DEF o, f, b
    <2>7. NodeLocal(b, o, f, c)
      BY <1>3, <2>6 DEF NodeLocal
    <2>8. NodeTended(p, b, o, leaked[p], z, c)
      BY <2>2, <2>3, <2>6 DEF NodeTended, ZeroKeeps, TendsRow
    <2> QED BY <1>1, <2>1, <2>5, <2>6, <2>7, <2>8, NodeOwner
  <1> QED BY <1>5, <1>6 DEF DMABuffer_mapUser, OnlyDeletes

LEMMA MapMmapOwner ==
  ASSUME OnlyDeletes, IInv, OwnerInv, NEW p \in Procs, MapMmap(p)
  PROVE  OwnerInv'
  <1> DEFINE b == call[p].buf
             again == [NoCall EXCEPT !.pc = "lookup", !.arg = call[p].arg]
  <1>1. /\ call[p].pc = "mmap" /\ UNCHANGED kernelVars /\ TypeOK /\ KernelStep /\ reg' = reg
        /\ UNCHANGED hit /\ call[p].pc \notin FreeingPCs
    BY DEF MapMmap, IInv, KernelStep, kernelVars, FreeingPCs
  <1>2. /\ CallRecOK(call[p]) /\ Building(zero[p], call[p])
        /\ obj[p] \in [Bufs -> ObjKinds] /\ fd[p] \in [Bufs -> FdKinds] /\ leaked[p] \in [Bufs -> LostKinds]
        /\ LocalRow(obj[p], fd[p], call[p])
    BY RowParts DEF OwnerInv
  <1>3. /\ b \in Bufs /\ call[p].lock \in {"SH", "zero"}
        /\ call[p].lock = "zero" => zero[p].buf = b /\ zero[p].lock = "SH"
    BY <1>1, <1>2 DEF CallRecOK, Building
  <1>4. \A i \in Ids : CallTends(call[p], i, reg[i]) => reg[i] = b
    BY <1>1 DEF CallTends, FreeingPCs
  <1>5. CASE ~Alive(b) /\ Return(p) /\ Closes(p, call[p].lock = "zero") /\ UNCHANGED <<obj, fd, leaked>>
    <2> DEFINE w == call[p].lock = "zero"
    <2>1. \A i \in Ids : reg[i] # b
      BY <1>5 DEF Alive
    <2>2. PICK z : zero' = [zero EXCEPT ![p] = z] /\ ZeroKeeps(p, z)
      <3>1. w \in BOOLEAN /\ Closes(p, w) /\ (w => zero[p].buf = b)
        BY <1>3, <1>5
      <3> HIDE DEF w, b
      <3> QED BY <2>1, <3>1, ClosesKeeps
    <2> QED BY <1>1, <1>4, <1>5, <2>1, <2>2, NoCallOwner, CallOwner DEF Return
  <1>6. CASE /\ leaked' = IF call[p].lock = "zero" THEN leaked
                          ELSE [leaked EXCEPT ![p][b] = call[p].lock]
             /\ Return(p) /\ UNCHANGED <<obj, fd, zero>>
    <2> DEFINE l == IF call[p].lock = "zero" THEN leaked[p] ELSE [leaked[p] EXCEPT ![b] = "SH"]
    <2>1. Replaced(p, obj[p], fd[p], l, zero[p], hit[p], NoCall)
      <3>1. leaked' = [leaked EXCEPT ![p] = l]
        BY <1>1, <1>3, <1>6, SameRows
      <3> HIDE DEF l
      <3> QED BY <1>1, <1>6, <3>1, SameRows DEF Replaced, Return
    <2>2. OtherNodes(p, b, obj[p], fd[p], l) /\ (call[p].lock # "zero" => l[b] = "SH")
      BY <1>2, <1>3 DEF OtherNodes
    <2> HIDE DEF l, b
    <2>3. NodeLocal(b, obj[p], fd[p], NoCall)
      BY <1>1, <1>2, <1>3, NoCallOwner DEF NodeLocal, LocalRow
    <2>4. NodeTended(p, b, obj[p], l, zero[p], NoCall)
      BY <1>3, <1>4, <2>2 DEF NodeTended, TendsRow, Locks
    <2> QED BY <1>1, <1>3, <2>1, <2>2, <2>3, <2>4, NodeOwner
  <1>7. ASSUME NEW n \in {"found", "kernel"},
               obj' = [obj EXCEPT ![p][b] = n], fd' = [fd EXCEPT ![p][b] = call[p].lock],
               call' = [call EXCEPT ![p] = IF call[p].mode = "lookup" THEN again ELSE NoCall],
               UNCHANGED <<leaked, zero>>
        PROVE  OwnerInv'
    <2> DEFINE c == IF call[p].mode = "lookup" THEN again ELSE NoCall
               o == [obj[p] EXCEPT ![b] = n]
               f == [fd[p] EXCEPT ![b] = call[p].lock]
    <2>1. again.pc = "lookup" /\ again.mode = "lookup"
      BY DEF NoCall
    <2>2. c.pc \in {"idle", "lookup"} /\ c.mode = "lookup"
      <3> HIDE DEF again
      <3> QED BY <2>1, NoCallOwner
    <2>3. call' = [call EXCEPT ![p] = c]
      BY <1>7
    <2> HIDE DEF c
    <2>4. Replaced(p, o, f, leaked[p], zero[p], hit[p], c)
      BY <1>1, <1>7, <2>3, SameRows DEF Replaced
    <2>5. OtherNodes(p, b, o, f, leaked[p]) /\ o[b] = n /\ f[b] = call[p].lock
      BY <1>2, <1>3 DEF OtherNodes
    <2> HIDE DEF o, f, b
    <2>6. NodeLocal(b, o, f, c)
      BY <1>3, <1>7, <2>2, <2>5 DEF NodeLocal, FreeingPCs
    <2>7. NodeTended(p, b, o, leaked[p], zero[p], c)
      BY <1>4, <1>7, <2>5 DEF NodeTended, TendsRow
    <2> QED BY <1>1, <1>3, <2>4, <2>5, <2>6, <2>7, NodeOwner
  <1>8. (IF call[p].mode = "lookup" THEN "found" ELSE "kernel") \in {"found", "kernel"}
    OBVIOUS
  <1> QED BY <1>5, <1>6, <1>7, <1>8 DEF MapMmap

(* DMABuffer_free takes the node off the list and goes on to free the buffer. *)
LEMMA FreeOwner ==
  ASSUME OnlyDeletes, IInv, OwnerInv, NEW p \in Procs, NEW b \in Objects(p), NEW m \in {"one", call[p].mode},
         call[p].pc \in {"idle", "next"}, DMABuffer_free(p, b, m), UNCHANGED <<kernelVars, leaked>>
  PROVE  OwnerInv'
  <1> DEFINE c == [call[p] EXCEPT !.pc = "tryEx", !.mode = m, !.found = (obj[p][b] = "found"),
                                  !.id = nameOf[b], !.buf = b]
             o == [obj[p] EXCEPT ![b] = "none"]
             f == [fd[p] EXCEPT ![b] = IF fd[p][b] = "zero" THEN "zero" ELSE "open"]
             z == IF fd[p][b] = "zero" /\ zero[p].lock = "SH"
                  THEN [zero[p] EXCEPT !.lock = "open"] ELSE zero[p]
  <1>1. /\ TypeOK /\ call[p] \in CallState /\ LocalRow(obj[p], fd[p], call[p]) /\ b \in Bufs
        /\ nameOf[b] \in Ids
    BY DEF IInv, TypeOK, OwnerInv, Objects, NamesOK
  <1>2. m \notin {"keep", "all", "allEmpty"}
    BY <1>1 DEF LocalRow
  <1>3. /\ Genuine(fd[p], zero[p], hit[p], call[p])
        /\ obj[p] \in [Bufs -> ObjKinds] /\ fd[p] \in [Bufs -> FdKinds]
    BY RowParts
  <1>4. Replaced(p, o, f, leaked[p], z, hit[p], c)
    <2>1. zero' = [zero EXCEPT ![p] = z]
      BY <1>1, <1>2, SameRows DEF DMABuffer_free
    <2>2. fd' = [fd EXCEPT ![p] = f] /\ call' = [call EXCEPT ![p] = c] /\ obj' = [obj EXCEPT ![p] = o]
      BY <1>2 DEF DMABuffer_free
    <2>3. leaked' = [leaked EXCEPT ![p] = leaked[p]] /\ hit' = [hit EXCEPT ![p] = hit[p]]
      BY <1>1, <1>2, SameRows DEF DMABuffer_free
    <2> HIDE DEF o, f, c, z
    <2> QED BY <2>1, <2>2, <2>3 DEF Replaced
  <1>5. c.pc = "tryEx" /\ c.mode = m /\ c.id = nameOf[b] /\ c.buf = b
    BY <1>1 DEF CallState
  <1>6. OtherNodes(p, b, o, f, leaked[p]) /\ f[b] \in {"zero", "open"}
    BY <1>1, <1>3 DEF OtherNodes
  <1>7. z = zero[p] \/ fd[p][b] = "zero"
    OBVIOUS
  <1> HIDE DEF c, o, f, z
  <1>8. NodeLocal(b, o, f, c)
    BY <1>1, <1>2, <1>5, <1>6 DEF NodeLocal
  <1>9. ~hit[p] => NodeTended(p, b, o, leaked[p], z, c)
    <2>1. ~hit[p] /\ z # zero[p] => zero[p].buf = b
      BY <1>1, <1>3, <1>7 DEF Genuine
    <2>2. \A i \in Ids : ~CallTends(call[p], i, reg[i])
      BY NothingTended
    <2>3. \A i \in Ids : TendsRow(o, leaked[p], z, c, i, b)
      BY <1>5 DEF TendsRow, FreeingPCs
    <2> QED BY <2>1, <2>2, <2>3 DEF NodeTended
  <1>10. call[p].pc \notin FreeingPCs
    BY DEF FreeingPCs
  <1> QED BY <1>1, <1>4, <1>6, <1>8, <1>9, <1>10, NodeOwner

LEMMA FreeListOwner ==
  ASSUME OnlyDeletes, IInv, OwnerInv, NEW p \in Procs, FreeList(p, "delete")
  PROVE  OwnerInv'
  <1> DEFINE c == [call[p] EXCEPT !.pc = "next", !.mode = "delete"]
  <1>1. /\ call[p].pc = "idle" /\ UNCHANGED <<obj, fd, leaked, hit>> /\ UNCHANGED zero
        /\ KernelStep /\ reg' = reg
    BY DEF FreeList, KernelStep, kernelVars, objVars, fileVars
  <1>2. call \in [Procs -> CallState] /\ call' = [call EXCEPT ![p].pc = "next", ![p].mode = "delete"]
    BY DEF FreeList, IInv, TypeOK
  <1>3. c.pc = "next" /\ c.mode = "delete" /\ call' = [call EXCEPT ![p] = c]
    BY <1>2 DEF CallState
  <1> HIDE DEF c
  <1>4. PICK z : zero' = [zero EXCEPT ![p] = z] /\ ZeroKeeps(p, z)
    BY <1>1, SameKeeps
  <1>5. call[p].pc \notin FreeingPCs /\ \A j, b : ~CallTends(call[p], j, b)
    BY <1>1, NothingTended
  <1>6. c.pc \notin FreeingPCs \cup {"unattached", "dangling"} /\ c.mode \notin {"keep", "all", "allEmpty"}
    BY <1>3 DEF FreeingPCs
  <1> QED BY <1>1, <1>3, <1>4, <1>5, <1>6, CallOwner

LEMMA FreeNextOwner ==
  ASSUME OnlyDeletes, IInv, OwnerInv, NEW p \in Procs, FreeNext(p)
  PROVE  OwnerInv'
  <1>1. /\ call[p].pc = "next" /\ UNCHANGED <<kernelVars, leaked>> /\ KernelStep /\ reg' = reg
        /\ call[p].mode \notin {"keep", "all", "allEmpty"}
    BY DEF FreeNext, KernelStep, kernelVars, OwnerInv, LocalRow
  <1>2. CASE \E b \in Objects(p) : DMABuffer_free(p, b, call[p].mode)
    BY <1>1, <1>2, FreeOwner
  <1>3. CASE EndFreeList(p) /\ UNCHANGED <<obj, fd, fileVars>>
    <2>1. call' = [call EXCEPT ![p] = NoCall] /\ UNCHANGED <<obj, fd, leaked, hit>> /\ UNCHANGED zero
      BY <1>1, <1>3 DEF EndFreeList, IInv, TypeOK, fileVars
    <2>2. PICK z : zero' = [zero EXCEPT ![p] = z] /\ ZeroKeeps(p, z)
      BY <2>1, SameKeeps
    <2>3. call[p].pc \notin FreeingPCs /\ \A j, b : ~CallTends(call[p], j, b)
      BY <1>1, NothingTended
    <2> QED BY <1>1, <2>1, <2>2, <2>3, NoCallOwner, CallOwner
  <1> QED BY <1>1, <1>2, <1>3 DEF FreeNext

(* After DMABuffer_free the loop goes on, or the call returns. *)
LEMMA FreeDoneOwner ==
  ASSUME IInv, OwnerInv, NEW p \in Procs, NEW err \in BOOLEAN, FreeDone(p, err)
  PROVE  \E c : /\ call' = [call EXCEPT ![p] = c] /\ c.pc \in {"idle", "next"}
                /\ c.mode \notin {"keep", "all", "allEmpty"}
                /\ c.pc \notin FreeingPCs \cup {"unattached", "dangling"}
  <1> DEFINE c1 == [NoCall EXCEPT !.pc = "next", !.mode = call[p].mode,
                                  !.failed = call[p].failed \/ err]
             c  == IF call[p].mode = "one" THEN NoCall ELSE c1
  <1>1. call[p].mode \notin {"keep", "all", "allEmpty"}
    BY DEF OwnerInv, LocalRow
  <1>2. c1.pc = "next" /\ c1.mode = call[p].mode
    BY DEF NoCall
  <1>3. call' = [call EXCEPT ![p] = c]
    BY DEF FreeDone
  <1> HIDE DEF c1
  <1>4. c.pc \in {"idle", "next"} /\ c.mode \notin {"keep", "all", "allEmpty"}
    BY <1>1, <1>2, NoCallOwner
  <1> HIDE DEF c
  <1>5. c.pc \notin FreeingPCs \cup {"unattached", "dangling"}
    BY <1>4 DEF FreeingPCs
  <1> QED BY <1>3, <1>4, <1>5

(* What the owner's invariant says of a process within DMABuffer_free. *)
LEMMA FreeingOwner ==
  ASSUME IInv, OwnerInv, NEW p \in Procs, call[p].pc \in FreeingPCs
  PROVE  /\ call[p].id = nameOf[call[p].buf] /\ nameOf[call[p].buf] \in Ids
         /\ call[p].mode \notin {"keep", "all", "allEmpty"}
         /\ \A i \in Ids : CallTends(call[p], i, reg[i]) => reg[i] = call[p].buf
         /\ \A i \in Ids : reg[i] = call[p].buf => i = call[p].id
  <1>1. call[p].id = nameOf[call[p].buf] /\ call[p].id \in Ids /\ call[p].buf \in Bufs
    BY RowParts, FreeingCall DEF OwnerInv, NamedOK, CallState
  <1>2. call[p].mode \notin {"keep", "all", "allEmpty"}
    BY DEF OwnerInv, LocalRow
  <1>3. \A i \in Ids : CallTends(call[p], i, reg[i]) => reg[i] = call[p].buf
    BY DEF CallTends, FreeingPCs
  <1>4. \A i \in Ids : reg[i] = call[p].buf => i = call[p].id
    BY <1>1, SharingAssumption DEF OwnerInv, RegNames
  <1> QED BY <1>1, <1>2, <1>3, <1>4

(* A process that does not get the exclusive lock leaves the buffer to the one that has a lock. *)
LEMMA RefusedOwner ==
  ASSUME IInv, OwnerInv, NEW p \in Procs, call[p].pc = "tryEx", FreeBusy(p, {"SH", "EX"}),
         LockRefused(p, "closed"), UNCHANGED <<kernelVars, obj, leaked, hit>>
  PROVE  OwnerInv'
  <1> DEFINE b == call[p].buf
             f == [fd[p] EXCEPT ![b] = "closed"]
  <1>1. TypeOK /\ call[p].pc \in FreeingPCs /\ UNCHANGED zero
    BY DEF IInv, FreeingPCs, LockRefused
  <1>2. /\ b \in Bufs /\ call[p].lock = "closed" /\ fd[p][b] \in {"open", "zero"}
        /\ \A i \in Ids : CallTends(call[p], i, reg[i]) => reg[i] = b
    BY <1>1, FreeingCall, FreeingOwner
  <1>3. fd[p] \in [Bufs -> FdKinds] /\ Genuine(fd[p], zero[p], hit[p], call[p])
    BY RowParts
  <1>4. PICK c : /\ call' = [call EXCEPT ![p] = c] /\ c.pc \in {"idle", "next"}
                 /\ c.mode \notin {"keep", "all", "allEmpty"}
                 /\ c.pc \notin FreeingPCs \cup {"unattached", "dangling"}
    BY FreeDoneOwner DEF LockRefused
  <1>5. Replaced(p, obj[p], f, leaked[p], zero[p], hit[p], c)
    <2>1. fd' = [fd EXCEPT ![p] = f]
      BY DEF LockRefused
    <2> QED BY <1>1, <1>4, <2>1, SameRows DEF Replaced
  <1>6. OtherNodes(p, b, obj[p], f, leaked[p]) /\ f[b] = "closed"
    BY <1>2, <1>3 DEF OtherNodes
  <1>7. ASSUME ~hit[p], NEW i \in Ids, reg[i] = b
        PROVE  TendsRow(obj[p], leaked[p], zero[p], c, i, b) \/ \E r \in Procs \ {p} : Tends(r, i)
    <2> DEFINE x == IF fd[p][b] = "zero" THEN "zero" ELSE "node"
    <2>1. \/ x = "node" /\ NodeConflict(p, b, {"SH", "EX"})
          \/ x = "zero" /\ zero[p].buf = b /\ ZeroConflict(p, {"SH", "EX"})
      BY <1>2, <1>3, <1>7 DEF FreeBusy, Genuine, ZeroIsFree
    <2>2. PICK q \in Procs, y \in Places : LockAt(q, b, y) \in {"SH", "EX"} /\ (q # p \/ y # x)
      <3> HIDE DEF x, b
      <3> QED BY <1>2, <2>1, Holder
    <2>3. q = p => y \in {"lost", "zero"}
      <3>1. LockAt(p, b, "node") \notin {"SH", "EX"}
        BY <1>2 DEF LockAt, RowLock
      <3>2. LockAt(p, b, "new") \notin {"SH", "EX"}
        BY <1>2 DEF LockAt, RowLock
      <3> QED BY <2>2, <3>1, <3>2 DEF Places
    <2>4. LockAt(q, reg[i], y) \in Locks /\ reg[i] \in Bufs
      BY <1>2, <1>7, <2>2 DEF Locks
    <2> HIDE DEF f, b, x
    <2> QED BY <1>7, <2>3, <2>4, Refused
  <1> HIDE DEF f, b
  <1>8. NodeLocal(b, obj[p], f, c)
    BY <1>4, <1>6 DEF NodeLocal
  <1>9. NoHit => NodeTended(p, b, obj[p], leaked[p], zero[p], c)
    BY <1>2, <1>7 DEF NodeTended, NoHit
  <1>10. call[p].buf = b
    BY DEF b
  <1> QED BY <1>2, <1>5, <1>6, <1>8, <1>9, <1>10, NodeOwner

(* A process that gets it goes on to free the buffer. *)
LEMMA LockedOwner ==
  ASSUME IInv, OwnerInv, NEW p \in Procs, call[p].pc = "tryEx", LockedExclusive(p),
         UNCHANGED <<kernelVars, obj, leaked, hit>>
  PROVE  OwnerInv'
  <1> DEFINE b == call[p].buf
             own == fd[p][b] # "zero"
             f == IF own THEN [fd[p] EXCEPT ![b] = "EX"] ELSE fd[p]
             z == IF own THEN zero[p] ELSE [zero[p] EXCEPT !.lock = "EX"]
             c == [call[p] EXCEPT !.pc = "openFree"]
  <1>1. TypeOK /\ call[p].pc \in FreeingPCs
    BY DEF IInv, FreeingPCs
  <1>2. /\ b \in Bufs /\ call[p].id = nameOf[b] /\ nameOf[b] \in Ids
        /\ call[p].mode \notin {"keep", "all", "allEmpty"}
        /\ \A i \in Ids : CallTends(call[p], i, reg[i]) => reg[i] = b
    BY <1>1, FreeingCall, FreeingOwner
  <1>3. /\ fd[p] \in [Bufs -> FdKinds] /\ Genuine(fd[p], zero[p], hit[p], call[p])
        /\ call[p] \in CallState
    BY RowParts
  <1>4. c.pc = "openFree" /\ c.mode = call[p].mode /\ c.id = call[p].id /\ c.buf = b
    BY <1>3 DEF CallState
  <1>5. Replaced(p, obj[p], f, leaked[p], z, hit[p], c)
    <2>1. fd' = [fd EXCEPT ![p] = f] /\ zero' = [zero EXCEPT ![p] = z]
      BY <1>1, SameRows DEF LockedExclusive
    <2>2. call' = [call EXCEPT ![p] = c]
      BY DEF LockedExclusive, Goto
    <2>3. /\ obj' = [obj EXCEPT ![p] = obj[p]] /\ leaked' = [leaked EXCEPT ![p] = leaked[p]]
          /\ hit' = [hit EXCEPT ![p] = hit[p]]
      BY <1>1, SameRows
    <2> HIDE DEF f, z, c
    <2> QED BY <2>1, <2>2, <2>3 DEF Replaced
  <1>6. OtherNodes(p, b, obj[p], f, leaked[p]) /\ f[b] \in {"EX", "zero"}
    BY <1>2, <1>3 DEF OtherNodes
  <1>7. z = zero[p] \/ ~own
    OBVIOUS
  <1>8. ~hit[p] => NodeTended(p, b, obj[p], leaked[p], z, c)
    <2>1. ~hit[p] /\ z # zero[p] => zero[p].buf = b
      BY <1>2, <1>3, <1>7 DEF Genuine
    <2> HIDE DEF f, z, c, b
    <2>2. \A i \in Ids : TendsRow(obj[p], leaked[p], z, c, i, b)
      BY <1>4 DEF TendsRow, FreeingPCs
    <2> QED BY <1>2, <2>1, <2>2 DEF NodeTended
  <1>9. NodeLocal(b, obj[p], f, c)
    <2> HIDE DEF f, z, c, b
    <2> QED BY <1>2, <1>4, <1>6 DEF NodeLocal, FreeingPCs
  <1> HIDE DEF f, z, c
  <1> QED BY <1>2, <1>5, <1>6, <1>8, <1>9, NodeOwner

LEMMA TryExOwner ==
  ASSUME OnlyDeletes, IInv, OwnerInv, NEW p \in Procs, FreeTryEx(p)
  PROVE  OwnerInv'
  BY RefusedOwner, LockedOwner DEF FreeTryEx

(* open("free") does not fail. *)
LEMMA FreeOpenOwner ==
  ASSUME OnlyDeletes, IInv, OwnerInv, NEW p \in Procs, FreeOpen(p)
  PROVE  OwnerInv'
  <1> DEFINE b == call[p].buf
             c == [call[p] EXCEPT !.pc = "close"]
  <1>1. /\ TypeOK /\ call[p].pc \in FreeingPCs /\ UNCHANGED kernelVars /\ UNCHANGED <<obj, fd, leaked, hit>>
        /\ Goto(p, "close") /\ Opens(p, "free", NoBuf)
    BY DEF IInv, FreeingPCs, FreeOpen, OnlyDeletes
  <1>2. /\ b \in Bufs /\ obj[p][b] = "none" /\ call[p].id = nameOf[b] /\ nameOf[b] \in Ids
        /\ call[p].mode \notin {"keep", "all", "allEmpty"}
        /\ \A i \in Ids : CallTends(call[p], i, reg[i]) => reg[i] = b
    BY <1>1, FreeingCall, FreeingOwner
  <1>3. LocalRow(obj[p], fd[p], call[p]) /\ call[p] \in CallState
    BY RowParts DEF OwnerInv
  <1>4. c.pc = "close" /\ c.mode = call[p].mode /\ c.id = call[p].id /\ c.buf = b
    BY <1>3 DEF CallState
  <1>5. PICK z : zero' = [zero EXCEPT ![p] = z] /\ ZeroKeeps(p, z)
    BY <1>1, OpensKeeps
  <1>6. Replaced(p, obj[p], fd[p], leaked[p], z, hit[p], c)
    BY <1>1, <1>5, SameRows DEF Replaced, Goto
  <1> HIDE DEF c, b
  <1>7. OtherNodes(p, b, obj[p], fd[p], leaked[p])
    BY DEF OtherNodes
  <1>8. NodeLocal(b, obj[p], fd[p], c)
    BY <1>2, <1>3, <1>4 DEF NodeLocal, LocalRow, FreeingPCs
  <1>9. NodeTended(p, b, obj[p], leaked[p], z, c)
    <2>1. \A i \in Ids : TendsRow(obj[p], leaked[p], z, c, i, b)
      BY <1>4 DEF TendsRow, FreeingPCs
    <2> QED BY <1>2, <1>5, <2>1 DEF NodeTended, ZeroKeeps
  <1> QED BY <1>1, <1>2, <1>6, <1>7, <1>8, <1>9, NodeOwner DEF b

(* The files are closed before the write; without a hit, free_fd stays open. *)
LEMMA CloseOwner ==
  ASSUME OnlyDeletes, IInv, OwnerInv, NEW p \in Procs, DMABuffer_closeFiles(p)
  PROVE  OwnerInv'
  <1> DEFINE b == call[p].buf
             t == IF call[p].found /\ zero[p].file = "free" THEN "badWrite" ELSE "write"
             f == [fd[p] EXCEPT ![b] = "closed"]
             w == call[p].found \/ fd[p][b] = "zero"
             z == IF w THEN NoFile ELSE zero[p]
             h == hit[p] \/ /\ call[p].found
                            /\ \/ zero[p].file = "free"
                               \/ zero[p].file = "map" /\ fd[p][b] # "zero"
             c == [call[p] EXCEPT !.pc = t]
  <1>1. TypeOK /\ call[p].pc \in FreeingPCs /\ UNCHANGED kernelVars /\ UNCHANGED <<obj, leaked>>
    BY DEF IInv, FreeingPCs, DMABuffer_closeFiles
  <1>2. /\ b \in Bufs /\ call[p].id = nameOf[b] /\ nameOf[b] \in Ids
        /\ call[p].mode \notin {"keep", "all", "allEmpty"}
        /\ \A i \in Ids : CallTends(call[p], i, reg[i]) => reg[i] = b
        /\ \A i \in Ids : reg[i] = b => i = call[p].id
    BY <1>1, FreeingCall, FreeingOwner
  <1>3. /\ fd[p] \in [Bufs -> FdKinds] /\ Genuine(fd[p], zero[p], hit[p], call[p])
        /\ call[p] \in CallState /\ ZeroOK(zero[p]) /\ hit[p] \in BOOLEAN
    BY RowParts
  <1>4. t \in {"write", "badWrite"} /\ c.pc = t /\ c.mode = call[p].mode /\ c.id = call[p].id
    BY <1>3 DEF CallState
  <1>5. Replaced(p, obj[p], f, leaked[p], z, h, c)
    <2>1. zero' = [zero EXCEPT ![p] = z] /\ hit' = [hit EXCEPT ![p] = h]
      BY <1>1, SameRows DEF CloseZero, Closes, DMABuffer_closeFiles
    <2>2. fd' = [fd EXCEPT ![p] = f] /\ call' = [call EXCEPT ![p] = c]
      BY DEF DMABuffer_closeFiles, Goto
    <2>3. obj' = [obj EXCEPT ![p] = obj[p]] /\ leaked' = [leaked EXCEPT ![p] = leaked[p]]
      BY <1>1, SameRows
    <2> HIDE DEF f, z, h, c
    <2> QED BY <2>1, <2>2, <2>3 DEF Replaced
  <1>6. OtherNodes(p, b, obj[p], f, leaked[p]) /\ f[b] = "closed"
    BY <1>2, <1>3 DEF OtherNodes
  <1>7. ~h => ~hit[p] /\ t = "write" /\ (w => zero[p].file # "map" \/ fd[p][b] = "zero")
    OBVIOUS
  <1>8. ~h /\ w => zero[p].buf \in {NoBuf, b}
    BY <1>2, <1>3, <1>7 DEF Genuine, ZeroOK
  <1>9. w \/ z = zero[p]
    OBVIOUS
  <1>10. hit[p] => h
    OBVIOUS
  <1>11. call[p].buf = b
    OBVIOUS
  <1> HIDE DEF c, f, z, h, w, t, b
  <1>12. NodeLocal(b, obj[p], f, c)
    BY <1>2, <1>4, <1>6 DEF NodeLocal, FreeingPCs
  <1>13. ~h => NodeTended(p, b, obj[p], leaked[p], z, c)
    <2> SUFFICES ASSUME ~h PROVE NodeTended(p, b, obj[p], leaked[p], z, c)
      OBVIOUS
    <2>1. \A i \in Ids : reg[i] = b => TendsRow(obj[p], leaked[p], z, c, i, b)
      BY <1>2, <1>4, <1>7 DEF TendsRow
    <2> QED BY <1>2, <1>8, <1>9, <2>1 DEF NodeTended
  <1> QED BY <1>1, <1>2, <1>5, <1>6, <1>10, <1>11, <1>12, <1>13, NodeOwner

(* The write removes the buffer, or free_fd was hit. *)
LEMMA WriteOwner ==
  ASSUME OnlyDeletes, IInv, OwnerInv, NEW p \in Procs, FreeWrite(p)
  PROVE  OwnerInv'
  <1>1. /\ call[p].pc \in {"write", "badWrite"} /\ UNCHANGED <<obj, fd, leaked, hit>>
        /\ call[p].id \in Ids /\ call[p].pc \notin FreeingPCs
    BY DEF FreeWrite, IInv, TypeOK, CallState, FreeingPCs
  <1>2. KernelStep
    BY <1>1 DEF KernelStep, FreeWrite
  <1>3. PICK c : /\ call' = [call EXCEPT ![p] = c] /\ c.pc \in {"idle", "next"}
                 /\ c.mode \notin {"keep", "all", "allEmpty"}
                 /\ c.pc \notin FreeingPCs \cup {"unattached", "dangling"}
    <2>1. FreeDone(p, FALSE) \/ FreeDone(p, TRUE)
      BY DEF FreeWrite
    <2> QED BY <2>1, FreeDoneOwner
  <1>4. PICK z : zero' = [zero EXCEPT ![p] = z] /\ ZeroKeeps(p, z)
    <2> DEFINE w == zero[p].file = "free"
    <2>1. w \in BOOLEAN /\ Closes(p, w) /\ (w => zero[p].buf = NoBuf)
      BY RowParts DEF FreeWrite, ZeroOK
    <2> HIDE DEF w
    <2> QED BY <2>1, ClosesKeeps
  <1>5. \A i \in Ids : reg'[i] # NoBuf => reg'[i] = reg[i]
    BY <1>1 DEF FreeWrite, delete_buffer_write, kernelVars, IInv, TypeOK
  <1>6. ASSUME NEW i \in Ids, reg'[i] # NoBuf, NoHit, CallTends(call[p], i, reg[i]) PROVE FALSE
    <2>1. call[p].pc = "write"
      <3>1. call[p].pc = "badWrite" => hit[p]
        BY RowParts DEF FreesLocked
      <3> QED BY <1>1, <1>6, <3>1 DEF NoHit
    <2>2. call[p].id = i
      BY <1>6, <2>1 DEF CallTends, FreeingPCs
    <2>3. reg'[i] = NoBuf
      BY <2>1, <2>2 DEF FreeWrite, delete_buffer_write, IInv, TypeOK
    <2> QED BY <1>6, <2>3
  <1> QED BY <1>1, <1>2, <1>3, <1>4, <1>5, <1>6, CallOwner

LEMMA NextOwner ==
  ASSUME OnlyDeletes, IInv, OwnerInv, [Next]_vars
  PROVE  OwnerInv'
  <1>1. CASE UNCHANGED vars
    BY <1>1 DEF vars, OwnerInv, Tended, Tends, RegNames, NamedOK, NoHit
  <1>2. ASSUME NEW p \in Procs, Call(p) PROVE OwnerInv'
    <2>1. CASE PciDevice_allocDMABuffer(p) \/ PciDevice_registerDMABuffer(p)
      BY <2>1, RequestOwner DEF PciDevice_allocDMABuffer, PciDevice_registerDMABuffer
    <2>2. CASE PciDevice_getDMABuffer(p)
      BY <2>2, LookupOwner
    <2>3. CASE PciDevice_deleteDMABuffer(p)
      BY <2>3, FreeOwner DEF PciDevice_deleteDMABuffer
    <2>4. CASE PciDevice_delete(p) \/ PciDevice_freeAllBuffers(p)
      BY <2>4, FreeListOwner DEF PciDevice_delete, PciDevice_freeAllBuffers, OnlyDeletes
    <2> QED BY <1>2, <2>1, <2>2, <2>3, <2>4 DEF Call
  <1>3. ASSUME NEW p \in Procs, Step(p) PROVE OwnerInv'
    <2>1. ~DMABuffer_delete_not_attached_buffers(p)
      BY DEF OwnerInv, LocalRow, DMABuffer_delete_not_attached_buffers
    <2> QED BY <1>3, <2>1, LookupOwner, MapOpenOwner, MapUserOwner, MapLockOwner, MapMmapOwner,
               FreeNextOwner, TryExOwner, FreeOpenOwner, CloseOwner, WriteOwner DEF Step
  <1>4. ASSUME NEW p \in Procs, Exit(p) PROVE OwnerInv'
    BY <1>4 DEF Exit, OnlyDeletes, OwnerInv, LocalRow
  <1> QED BY <1>1, <1>2, <1>3, <1>4 DEF Next

(***************************************************************************)
(* If no process dies or keeps its buffers (PDA_DELETE_PERSISTANT), and    *)
(* the adapter's files can be opened: however the deletes of any number of *)
(* processes overlap and fail, the last of them removes the buffer from    *)
(* the kernel, as long as closing alloc_fd = 0 of a looked-up buffer has   *)
(* hit no descriptor of the library in any process.                        *)
(***************************************************************************)
THEOREM LastDeleteRemoves == ASSUME OnlyDeletes PROVE Spec => []LastDeleterRemoves
  <1>1. Init => OwnerInv
    BY NoCallOwner DEF Init, OwnerInv, Tended, RegNames, LocalRow, NamedOK
  <1>2. OwnerInv /\ IInv => LastDeleterRemoves
    <2> SUFFICES ASSUME OwnerInv, IInv, \A p \in Procs : Quiet(p) /\ NoLeak(p) /\ ~hit[p],
                        NEW i \in Ids, reg[i] # NoBuf
                 PROVE  FALSE
      BY DEF LastDeleterRemoves
    <2>1. PICK p \in Procs : Tends(p, i)
      BY DEF OwnerInv, Tended, NoHit
    <2>2. reg[i] \in Bufs
      BY DEF IInv, TypeOK
    <2> QED BY <2>1, <2>2 DEF Tends, TendsRow, Quiet, NoLeak, Objects, FreeingPCs, Locks
  <1> QED BY <1>1, <1>2, NextOwner, SpecIInv, PTL DEF Spec

====
