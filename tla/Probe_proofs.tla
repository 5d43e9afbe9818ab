----------------------------- MODULE Probe_proofs -----------------------------
(***************************************************************************)
(* Theorems of Probe, for any devices, threads, buffers and number of      *)
(* BARs: types, what a device without driver keeps of it, and what the     *)
(* callbacks of the sysfs files find.                                      *)
(***************************************************************************)
EXTENDS Probe, TLAPS

Files == DmaFiles \cup BarFiles

(* The steps of probe up to the regions, the labels, and the steps of remove. *)
Early  == {"enable", "interrupt", "alloc", "masks", "files", "regions"}
Labels == {"exit_files", "exit", "exit_kobj", "exit_end"}
Removing == {"rm_buffers", "rm_kobj", "rm_kset", "rm_bars", "rm_end"}
PCs    == Rest \cup Early \cup Labels \cup Removing \cup {"bars", "drvdata"}

DevType == [pc : PCs, i : Nat, err : BOOLEAN, res : SUBSET Resources, files : SUBSET Files,
            drvdata : BOOLEAN, listed : SUBSET Buffers, mem : SUBSET Buffers, raced : BOOLEAN]

(* The loops stay within their files. *)
IndexOK(r) ==
    /\ r.pc \in {"files", "exit_files"} => r.i \in 1 .. 4
    /\ r.pc \in {"bars", "rm_bars"} => r.i >= 1

(* err is set by a failure and seen at the labels; driver data comes last. *)
FlagsOK(r) ==
    /\ r.err => r.pc \in Labels \cup {"unbound"}
    /\ r.drvdata => r.pc \in Removing \cup {"bound"}
    /\ r.pc \in Removing => r.drvdata

(* The files of a device, step by step. *)
FilesOK(r) ==
    /\ r.pc \in {"unbound", "enable", "interrupt", "alloc", "masks", "rm_end"} => r.files = {}
    /\ r.pc \in {"files", "regions"} \/ r.err => r.files \subseteq DmaFiles
    /\ r.pc \in {"exit_end", "rm_kset", "rm_bars"} => r.files \cap DmaFiles = {}
    /\ ~r.drvdata /\ r.pc = "bound" => r.files \cap DmaFiles = {}
    /\ r.pc = "rm_bars" => r.files \subseteq {BarFile(j) : j \in r.i .. NBars}

(* What is acquired, step by step. *)
ResOK(r) ==
    /\ r.pc = "unbound" => r.res \subseteq IF r.err THEN {"enabled", "kset"} ELSE {"attrs"}
    /\ r.pc \in Early \/ r.err => r.res \subseteq {"attrs", "enabled", "msi", "dma_device", "kset"}
    /\ r.err /\ r.pc \in {"exit_kobj", "exit_end"} => "dma_device" \notin r.res
    /\ r.pc \in Early \cup Labels \cup {"bars", "drvdata", "exit_bars"} => "attrs" \in r.res
    /\ r.pc = "files" \/ r.files \cap DmaFiles # {} => {"attrs", "kset"} \subseteq r.res
    /\ r.pc \in {"masks", "files", "regions", "bars", "drvdata"} => "dma_device" \in r.res
    /\ r.pc \in {"bars", "drvdata"} \/ r.drvdata => {"dma_device", "regions"} \subseteq r.res
    /\ r.pc \in {"rm_bars", "rm_end"} => "kset" \notin r.res
    /\ r.pc = "rm_end" => r.res \cap {"names", "uio"} = {}

(* The buffers in the list are allocated until remove frees them; those of *)
(* a device on which no write came too early or too late are all known.    *)
BuffersOK(r) ==
    /\ r.pc \notin {"rm_kobj", "rm_kset"} => r.listed \subseteq r.mem
    /\ ~r.raced =>
        /\ r.pc \in {"bound", "oops", "rm_buffers"} => r.mem = r.listed
        /\ r.pc \notin {"bound", "oops", "rm_buffers"} => r.mem = {}
        /\ r.pc \notin {"bound", "oops", "rm_buffers", "rm_kobj", "rm_kset"} => r.listed = {}

DevOK(r) ==
    r \in DevType /\ IndexOK(r) /\ FlagsOK(r) /\ FilesOK(r) /\ ResOK(r) /\ BuffersOK(r)

ThType == {Idle} \cup [pc : {"entered", "inside", "asleep"}, dev : Devices, file : Files]

(* What a thread in a callback finds in its device. *)
CallOK(c, r) ==
    /\ c.file \in DmaFiles => {"attrs", "kset"} \subseteq r.res
    /\ c.file \in BarFiles =>
          \/ "dma_device" \in r.res
          \/ ~r.drvdata /\ ~r.err /\ r.pc \in {"exit", "exit_kobj", "exit_end", "bound", "oops"}
    /\ c.file \in BarFiles /\ c.pc = "inside" => r.drvdata

(* A file that can be opened has what its callbacks use. *)
FileLive(r) == \A f \in r.files : CallOK([pc |-> "entered", file |-> f], r)

IInv ==
    /\ dev \in [Devices -> DevType] /\ \A d \in Devices : DevOK(dev[d]) /\ FileLive(dev[d])
    /\ owner \in Threads \cup {NULL}
    /\ th \in [Threads -> ThType]
    /\ \A t \in Threads : th[t].pc # "idle" => CallOK(th[t], dev[th[t].dev])

(***************************************************************************)
(* A step of the driver from r to n: the device stays consistent, its      *)
(* files live, and so do the callbacks of the files that r has.            *)
(***************************************************************************)
Kept(r, n) ==
    /\ DevOK(n) /\ FileLive(n)
    /\ \A c \in ThType : c.file \in r.files /\ CallOK(c, r) => CallOK(c, n)

-----------------------------------------------------------------------------
(* The files of a device differ. *)
LEMMA FileFacts ==
  /\ \A k \in 1 .. 4 : DmaFile(k) \in DmaFiles
  /\ \A k \in 1 .. NBars : BarFile(k) \in BarFiles
  /\ \A f \in DmaFiles : f \notin BarFiles
  /\ \A k \in Int : BarFile(k) \notin DmaFiles
  BY DEF DmaFile, BarFile, DmaFiles, BarFiles

(* EnableDevice, SetupInterrupt and AllocDevice get something. *)
LEMMA AcquireKept ==
  ASSUME NEW r, DevOK(r), FileLive(r), NEW p, NEW x,
         \/ r.pc = "enable" /\ p = "interrupt" /\ x = {"enabled"}
         \/ r.pc = "interrupt" /\ p = "alloc" /\ x \in {{"msi"}, {}}
         \/ r.pc = "alloc" /\ p = "masks" /\ x = {"dma_device"}
  PROVE  Kept(r, [r EXCEPT !.res = @ \cup x, !.pc = p])
  <1> DEFINE n == [r EXCEPT !.res = @ \cup x, !.pc = p]
  <1>0. /\ n \in DevType
        /\ n.pc = p /\ n.i = r.i /\ n.err = r.err /\ n.res = r.res \cup x
        /\ n.files = r.files /\ n.drvdata = r.drvdata /\ n.listed = r.listed /\ n.mem = r.mem
        /\ n.raced = r.raced
    BY DEF DevOK, DevType, PCs, Rest, Early, Labels, Removing, Resources
  <1> HIDE DEF n
  <1>a. DevOK(n)
    BY <1>0 DEF DevOK, IndexOK, FlagsOK, FilesOK, ResOK, BuffersOK, Early, Labels, Removing
  <1>b. FileLive(n) /\ \A c \in ThType : c.file \in r.files /\ CallOK(c, r) => CallOK(c, n)
    BY <1>0 DEF FileLive, CallOK, DevOK, FlagsOK, FilesOK, ResOK, Early, Labels, Removing
  <1>c. Kept(r, n)
    BY <1>a, <1>b DEF Kept
  <1> QED  BY <1>c DEF n

(* A failure before the first file. *)
LEMMA FailKept ==
  ASSUME NEW r, DevOK(r), FileLive(r), r.pc \in {"enable", "interrupt", "alloc", "masks"}
  PROVE  Kept(r, [r EXCEPT !.err = TRUE, !.pc = "exit"])
  <1> DEFINE n == [r EXCEPT !.err = TRUE, !.pc = "exit"]
  <1>0. /\ n \in DevType
        /\ n.pc = "exit" /\ n.i = r.i /\ n.err = TRUE /\ n.res = r.res /\ n.files = r.files
        /\ n.drvdata = r.drvdata /\ n.listed = r.listed /\ n.mem = r.mem /\ n.raced = r.raced
    BY DEF DevOK, DevType, PCs, Rest, Early, Labels, Removing, Resources
  <1> HIDE DEF n
  <1>a. DevOK(n)
    BY <1>0 DEF DevOK, IndexOK, FlagsOK, FilesOK, ResOK, BuffersOK, Early, Labels, Removing
  <1>b. FileLive(n) /\ \A c \in ThType : c.file \in r.files /\ CallOK(c, r) => CallOK(c, n)
    BY <1>0 DEF FileLive, CallOK, DevOK, FlagsOK, FilesOK, ResOK, Early, Labels, Removing
  <1>c. Kept(r, n)
    BY <1>a, <1>b DEF Kept
  <1> QED  BY <1>c DEF n

(* CreateKset. *)
LEMMA KsetKept ==
  ASSUME NEW r, DevOK(r), FileLive(r), r.pc = "masks"
  PROVE  Kept(r, [[r EXCEPT !.res = @ \cup {"kset"}, !.pc = "files"] EXCEPT !.i = 1, !.listed = {}])
  <1> DEFINE n == [[r EXCEPT !.res = @ \cup {"kset"}, !.pc = "files"] EXCEPT !.i = 1, !.listed = {}]
  <1>0. /\ n \in DevType
        /\ n.pc = "files" /\ n.i = 1 /\ n.err = r.err /\ n.res = r.res \cup {"kset"}
        /\ n.files = r.files /\ n.drvdata = r.drvdata /\ n.listed = {} /\ n.mem = r.mem
        /\ n.raced = r.raced
    BY DEF DevOK, DevType, PCs, Rest, Early, Labels, Removing, Resources
  <1> HIDE DEF n
  <1>a. DevOK(n)
    BY <1>0 DEF DevOK, IndexOK, FlagsOK, FilesOK, ResOK, BuffersOK, Early, Labels, Removing
  <1>b. FileLive(n) /\ \A c \in ThType : c.file \in r.files /\ CallOK(c, r) => CallOK(c, n)
    BY <1>0 DEF FileLive, CallOK, DevOK, FlagsOK, FilesOK, ResOK, Early, Labels, Removing
  <1>c. Kept(r, n)
    BY <1>a, <1>b DEF Kept
  <1> QED  BY <1>c DEF n

(* An allocation of CreateKset or CreateBar that is not checked fails. *)
LEMMA OopsKept ==
  ASSUME NEW r, DevOK(r), FileLive(r), r.pc \in {"masks", "bars"}
  PROVE  Kept(r, [r EXCEPT !.pc = "oops"])
  <1> DEFINE n == [r EXCEPT !.pc = "oops"]
  <1>0. /\ n \in DevType
        /\ n.pc = "oops" /\ n.i = r.i /\ n.err = r.err /\ n.res = r.res /\ n.files = r.files
        /\ n.drvdata = r.drvdata /\ n.listed = r.listed /\ n.mem = r.mem /\ n.raced = r.raced
    BY DEF DevOK, DevType, PCs, Rest, Early, Labels, Removing, Resources
  <1> HIDE DEF n
  <1>a. DevOK(n)
    BY <1>0 DEF DevOK, IndexOK, FlagsOK, FilesOK, ResOK, BuffersOK, Early, Labels, Removing
  <1>b. FileLive(n) /\ \A c \in ThType : c.file \in r.files /\ CallOK(c, r) => CallOK(c, n)
    BY <1>0 DEF FileLive, CallOK, DevOK, FlagsOK, FilesOK, ResOK, Early, Labels, Removing
  <1>c. Kept(r, n)
    BY <1>a, <1>b DEF Kept
  <1> QED  BY <1>c DEF n

(* CreateFile of the k-th file. *)
LEMMA FileKept ==
  ASSUME NEW r, DevOK(r), FileLive(r), r.pc = "files",
         NEW f \in DmaFiles, NEW k \in Nat, k = r.i + 1, NEW p \in PCs,
         p = IF r.i = 4 THEN "regions" ELSE "files"
  PROVE  Kept(r, [r EXCEPT !.files = @ \cup {f}, !.i = k, !.pc = p])
  <1> DEFINE n == [r EXCEPT !.files = @ \cup {f}, !.i = k, !.pc = p]
  <1>0. /\ n \in DevType
        /\ n.pc = p /\ n.i = k /\ n.err = r.err /\ n.res = r.res
        /\ n.files = r.files \cup {f} /\ n.drvdata = r.drvdata /\ n.listed = r.listed
        /\ n.mem = r.mem /\ n.raced = r.raced
    BY DEF DevOK, DevType, PCs, Rest, Early, Labels, Removing, Resources, Files
  <1> HIDE DEF n
  <1>a. DevOK(n)
    BY <1>0 DEF DevOK, IndexOK, FlagsOK, FilesOK, ResOK, BuffersOK, Early, Labels, Removing
  <1>b. FileLive(n) /\ \A c \in ThType : c.file \in r.files /\ CallOK(c, r) => CallOK(c, n)
    BY <1>0, FileFacts DEF FileLive, CallOK, DevOK, FlagsOK, FilesOK, ResOK, Early, Labels, Removing
  <1>c. Kept(r, n)
    BY <1>a, <1>b DEF Kept
  <1> QED  BY <1>c DEF n

(* CreateFile that fails. *)
LEMMA FileFailKept ==
  ASSUME NEW r, DevOK(r), FileLive(r), r.pc = "files"
  PROVE  Kept(r, [r EXCEPT !.err = TRUE, !.pc = "exit_files"])
  <1> DEFINE n == [r EXCEPT !.err = TRUE, !.pc = "exit_files"]
  <1>0. /\ n \in DevType
        /\ n.pc = "exit_files" /\ n.i = r.i /\ n.err = TRUE /\ n.res = r.res
        /\ n.files = r.files /\ n.drvdata = r.drvdata /\ n.listed = r.listed /\ n.mem = r.mem
        /\ n.raced = r.raced
    BY DEF DevOK, DevType, PCs, Rest, Early, Labels, Removing, Resources
  <1> HIDE DEF n
  <1>a. DevOK(n)
    BY <1>0 DEF DevOK, IndexOK, FlagsOK, FilesOK, ResOK, BuffersOK, Early, Labels, Removing
  <1>b. FileLive(n) /\ \A c \in ThType : c.file \in r.files /\ CallOK(c, r) => CallOK(c, n)
    BY <1>0 DEF FileLive, CallOK, DevOK, FlagsOK, FilesOK, ResOK, Early, Labels, Removing
  <1>c. Kept(r, n)
    BY <1>a, <1>b DEF Kept
  <1> QED  BY <1>c DEF n

(* RequestRegions. *)
LEMMA RegionsKept ==
  ASSUME NEW r, DevOK(r), FileLive(r), r.pc = "regions"
  PROVE  Kept(r, [[r EXCEPT !.res = @ \cup {"regions"}, !.pc = "bars"] EXCEPT !.i = 1])
  <1> DEFINE n == [[r EXCEPT !.res = @ \cup {"regions"}, !.pc = "bars"] EXCEPT !.i = 1]
  <1>0. /\ n \in DevType
        /\ n.pc = "bars" /\ n.i = 1 /\ n.err = r.err /\ n.res = r.res \cup {"regions"}
        /\ n.files = r.files /\ n.drvdata = r.drvdata /\ n.listed = r.listed /\ n.mem = r.mem
        /\ n.raced = r.raced
    BY DEF DevOK, DevType, PCs, Rest, Early, Labels, Removing, Resources
  <1> HIDE DEF n
  <1>a. DevOK(n)
    BY <1>0 DEF DevOK, IndexOK, FlagsOK, FilesOK, ResOK, BuffersOK, Early, Labels, Removing
  <1>b. FileLive(n) /\ \A c \in ThType : c.file \in r.files /\ CallOK(c, r) => CallOK(c, n)
    BY <1>0 DEF FileLive, CallOK, DevOK, FlagsOK, FilesOK, ResOK, Early, Labels, Removing
  <1>c. Kept(r, n)
    BY <1>a, <1>b DEF Kept
  <1> QED  BY <1>c DEF n

(* RequestRegions that fails, without err. *)
LEMMA JumpKept ==
  ASSUME NEW r, DevOK(r), FileLive(r), r.pc = "regions"
  PROVE  Kept(r, [r EXCEPT !.pc = "exit"])
  <1> DEFINE n == [r EXCEPT !.pc = "exit"]
  <1>0. /\ n \in DevType
        /\ n.pc = "exit" /\ n.i = r.i /\ n.err = r.err /\ n.res = r.res /\ n.files = r.files
        /\ n.drvdata = r.drvdata /\ n.listed = r.listed /\ n.mem = r.mem /\ n.raced = r.raced
    BY DEF DevOK, DevType, PCs, Rest, Early, Labels, Removing, Resources
  <1> HIDE DEF n
  <1>a. DevOK(n)
    BY <1>0 DEF DevOK, IndexOK, FlagsOK, FilesOK, ResOK, BuffersOK, Early, Labels, Removing
  <1>b. FileLive(n) /\ \A c \in ThType : c.file \in r.files /\ CallOK(c, r) => CallOK(c, n)
    BY <1>0 DEF FileLive, CallOK, DevOK, FlagsOK, FilesOK, ResOK, Early, Labels, Removing
  <1>c. Kept(r, n)
    BY <1>a, <1>b DEF Kept
  <1> QED  BY <1>c DEF n

(* CreateBar of the k-th BAR. *)
LEMMA BarKept ==
  ASSUME NEW r, DevOK(r), FileLive(r), r.pc = "bars",
         NEW f \in BarFiles, NEW k \in Nat, k = r.i + 1
  PROVE  Kept(r, [[r EXCEPT !.res = @ \cup {"names"}, !.pc = "bars"]
                    EXCEPT !.files = @ \cup {f}, !.i = k])
  <1> DEFINE n == [[r EXCEPT !.res = @ \cup {"names"}, !.pc = "bars"]
                    EXCEPT !.files = @ \cup {f}, !.i = k]
  <1>0. /\ n \in DevType
        /\ n.pc = "bars" /\ n.i = k /\ n.err = r.err /\ n.res = r.res \cup {"names"}
        /\ n.files = r.files \cup {f} /\ n.drvdata = r.drvdata /\ n.listed = r.listed
        /\ n.mem = r.mem /\ n.raced = r.raced
    BY DEF DevOK, DevType, PCs, Rest, Early, Labels, Removing, Resources, Files
  <1> HIDE DEF n
  <1>a. DevOK(n)
    <2>1. IndexOK(n)
      BY <1>0 DEF DevOK, DevType, IndexOK
    <2>2. FlagsOK(n) /\ FilesOK(n) /\ BuffersOK(n)
      BY <1>0 DEF DevOK, FilesOK, FlagsOK, BuffersOK, Removing, Labels
    <2>3. ResOK(n)
      BY <1>0, FileFacts DEF DevOK, FlagsOK, FilesOK, ResOK, Early, Labels, Removing
    <2> QED  BY <1>0, <2>1, <2>2, <2>3 DEF DevOK
  <1>b. FileLive(n) /\ \A c \in ThType : c.file \in r.files /\ CallOK(c, r) => CallOK(c, n)
    BY <1>0, FileFacts DEF FileLive, CallOK, DevOK, FlagsOK, FilesOK, ResOK, Early, Labels, Removing
  <1>c. Kept(r, n)
    BY <1>a, <1>b DEF Kept
  <1> QED  BY <1>c DEF n

(* CreateBar that fails. *)
LEMMA BarFailKept ==
  ASSUME NEW r, DevOK(r), FileLive(r), r.pc = "bars"
  PROVE  Kept(r, [r EXCEPT !.res = @ \cup {"names"}, !.pc = "exit_bars"])
  <1> DEFINE n == [r EXCEPT !.res = @ \cup {"names"}, !.pc = "exit_bars"]
  <1>0. /\ n \in DevType
        /\ n.pc = "exit_bars" /\ n.i = r.i /\ n.err = r.err /\ n.res = r.res \cup {"names"}
        /\ n.files = r.files /\ n.drvdata = r.drvdata /\ n.listed = r.listed /\ n.mem = r.mem
        /\ n.raced = r.raced
    BY DEF DevOK, DevType, PCs, Rest, Early, Labels, Removing, Resources
  <1> HIDE DEF n
  <1>a. DevOK(n)
    BY <1>0 DEF DevOK, IndexOK, FlagsOK, FilesOK, ResOK, BuffersOK, Early, Labels, Removing
  <1>b. FileLive(n) /\ \A c \in ThType : c.file \in r.files /\ CallOK(c, r) => CallOK(c, n)
    BY <1>0 DEF FileLive, CallOK, DevOK, FlagsOK, FilesOK, ResOK, Early, Labels, Removing
  <1>c. Kept(r, n)
    BY <1>a, <1>b DEF Kept
  <1> QED  BY <1>c DEF n

(* RegisterUio. *)
LEMMA UioKept ==
  ASSUME NEW r, DevOK(r), FileLive(r), r.pc = "bars"
  PROVE  Kept(r, [r EXCEPT !.res = @ \cup {"uio"}, !.pc = "drvdata"])
  <1> DEFINE n == [r EXCEPT !.res = @ \cup {"uio"}, !.pc = "drvdata"]
  <1>0. /\ n \in DevType
        /\ n.pc = "drvdata" /\ n.i = r.i /\ n.err = r.err /\ n.res = r.res \cup {"uio"}
        /\ n.files = r.files /\ n.drvdata = r.drvdata /\ n.listed = r.listed /\ n.mem = r.mem
        /\ n.raced = r.raced
    BY DEF DevOK, DevType, PCs, Rest, Early, Labels, Removing, Resources
  <1> HIDE DEF n
  <1>a. DevOK(n)
    BY <1>0 DEF DevOK, IndexOK, FlagsOK, FilesOK, ResOK, BuffersOK, Early, Labels, Removing
  <1>b. FileLive(n) /\ \A c \in ThType : c.file \in r.files /\ CallOK(c, r) => CallOK(c, n)
    BY <1>0 DEF FileLive, CallOK, DevOK, FlagsOK, FilesOK, ResOK, Early, Labels, Removing
  <1>c. Kept(r, n)
    BY <1>a, <1>b DEF Kept
  <1> QED  BY <1>c DEF n

(* RegisterUio that fails, without err: the files of the BARs stay. *)
LEMMA UioFailKept ==
  ASSUME NEW r, DevOK(r), FileLive(r), r.pc = "bars"
  PROVE  Kept(r, [r EXCEPT !.i = 4, !.pc = "exit_files"])
  <1> DEFINE n == [r EXCEPT !.i = 4, !.pc = "exit_files"]
  <1>0. /\ n \in DevType
        /\ n.pc = "exit_files" /\ n.i = 4 /\ n.err = r.err /\ n.res = r.res
        /\ n.files = r.files /\ n.drvdata = r.drvdata /\ n.listed = r.listed /\ n.mem = r.mem
        /\ n.raced = r.raced
    BY DEF DevOK, DevType, PCs, Rest, Early, Labels, Removing, Resources
  <1> HIDE DEF n
  <1>a. DevOK(n)
    BY <1>0 DEF DevOK, IndexOK, FlagsOK, FilesOK, ResOK, BuffersOK, Early, Labels, Removing
  <1>b. FileLive(n) /\ \A c \in ThType : c.file \in r.files /\ CallOK(c, r) => CallOK(c, n)
    BY <1>0 DEF FileLive, CallOK, DevOK, FlagsOK, FilesOK, ResOK, Early, Labels, Removing
  <1>c. Kept(r, n)
    BY <1>a, <1>b DEF Kept
  <1> QED  BY <1>c DEF n

(* SetDrvdata. *)
LEMMA DrvdataKept ==
  ASSUME NEW r, DevOK(r), FileLive(r), r.pc = "drvdata"
  PROVE  Kept(r, [r EXCEPT !.drvdata = TRUE, !.pc = "bound"])
  <1> DEFINE n == [r EXCEPT !.drvdata = TRUE, !.pc = "bound"]
  <1>0. /\ n \in DevType
        /\ n.pc = "bound" /\ n.i = r.i /\ n.err = r.err /\ n.res = r.res /\ n.files = r.files
        /\ n.drvdata = TRUE /\ n.listed = r.listed /\ n.mem = r.mem /\ n.raced = r.raced
    BY DEF DevOK, DevType, PCs, Rest, Early, Labels, Removing, Resources
  <1> HIDE DEF n
  <1>a. DevOK(n)
    BY <1>0 DEF DevOK, IndexOK, FlagsOK, FilesOK, ResOK, BuffersOK, Early, Labels, Removing
  <1>b. FileLive(n) /\ \A c \in ThType : c.file \in r.files /\ CallOK(c, r) => CallOK(c, n)
    BY <1>0 DEF FileLive, CallOK, DevOK, FlagsOK, FilesOK, ResOK, Early, Labels, Removing
  <1>c. Kept(r, n)
    BY <1>a, <1>b DEF Kept
  <1> QED  BY <1>c DEF n

(* ExitBars. *)
LEMMA ExitBarsKept ==
  ASSUME NEW r, DevOK(r), FileLive(r), r.pc = "exit_bars", NEW f
  PROVE  Kept(r, [r EXCEPT !.files = @ \ {f}])
  <1> DEFINE n == [r EXCEPT !.files = @ \ {f}]
  <1>0. /\ n \in DevType
        /\ n.pc = r.pc /\ n.i = r.i /\ n.err = r.err /\ n.res = r.res
        /\ n.files = r.files \ {f} /\ n.drvdata = r.drvdata /\ n.listed = r.listed
        /\ n.mem = r.mem /\ n.raced = r.raced
    BY DEF DevOK, DevType, PCs, Rest, Early, Labels, Removing, Resources
  <1> HIDE DEF n
  <1>a. DevOK(n)
    BY <1>0 DEF DevOK, IndexOK, FlagsOK, FilesOK, ResOK, BuffersOK, Early, Labels, Removing
  <1>b. FileLive(n) /\ \A c \in ThType : c.file \in r.files /\ CallOK(c, r) => CallOK(c, n)
    BY <1>0 DEF FileLive, CallOK, DevOK, FlagsOK, FilesOK, ResOK, Early, Labels, Removing
  <1>c. Kept(r, n)
    BY <1>a, <1>b DEF Kept
  <1> QED  BY <1>c DEF n

(* ExitFiles. *)
LEMMA ExitFilesKept ==
  ASSUME NEW r, DevOK(r), FileLive(r), r.pc = "exit_files",
         NEW f, NEW k \in Nat, k = r.i - 1, NEW p \in PCs,
         p = IF r.i = 1 THEN "exit" ELSE "exit_files"
  PROVE  Kept(r, [r EXCEPT !.files = @ \ {f}, !.i = k, !.pc = p])
  <1> DEFINE n == [r EXCEPT !.files = @ \ {f}, !.i = k, !.pc = p]
  <1>0. /\ n \in DevType
        /\ n.pc = p /\ n.i = k /\ n.err = r.err /\ n.res = r.res /\ n.files = r.files \ {f}
        /\ n.drvdata = r.drvdata /\ n.listed = r.listed /\ n.mem = r.mem /\ n.raced = r.raced
    BY DEF DevOK, DevType, PCs, Rest, Early, Labels, Removing, Resources
  <1> HIDE DEF n
  <1>a. DevOK(n)
    BY <1>0 DEF DevOK, IndexOK, FlagsOK, FilesOK, ResOK, BuffersOK, Early, Labels, Removing
  <1>b. FileLive(n) /\ \A c \in ThType : c.file \in r.files /\ CallOK(c, r) => CallOK(c, n)
    BY <1>0 DEF FileLive, CallOK, DevOK, FlagsOK, FilesOK, ResOK, Early, Labels, Removing
  <1>c. Kept(r, n)
    BY <1>a, <1>b DEF Kept
  <1> QED  BY <1>c DEF n

(* ExitFreesDevice: after a failure with err no BAR has a file; without, the *)
(* device is half bound.                                                     *)
LEMMA ExitDeviceKept ==
  ASSUME NEW r, DevOK(r), FileLive(r), r.pc = "exit"
  PROVE  Kept(r, [r EXCEPT !.res = @ \ {"dma_device"}, !.pc = "exit_kobj"])
  <1> DEFINE n == [r EXCEPT !.res = @ \ {"dma_device"}, !.pc = "exit_kobj"]
  <1>0. /\ n \in DevType
        /\ n.pc = "exit_kobj" /\ n.i = r.i /\ n.err = r.err /\ n.res = r.res \ {"dma_device"}
        /\ n.files = r.files /\ n.drvdata = r.drvdata /\ n.listed = r.listed /\ n.mem = r.mem
        /\ n.raced = r.raced
    BY DEF DevOK, DevType, PCs, Rest, Early, Labels, Removing, Resources
  <1> HIDE DEF n
  <1>a. DevOK(n)
    BY <1>0 DEF DevOK, IndexOK, FlagsOK, FilesOK, ResOK, BuffersOK, Early, Labels, Removing
  <1>b. FileLive(n) /\ \A c \in ThType : c.file \in r.files /\ CallOK(c, r) => CallOK(c, n)
    BY <1>0, FileFacts DEF FileLive, CallOK, DevOK, FlagsOK, FilesOK, ResOK, Early, Labels, Removing
  <1>c. Kept(r, n)
    BY <1>a, <1>b DEF Kept
  <1> QED  BY <1>c DEF n

(* ExitDeletesKobj. *)
LEMMA ExitKobjKept ==
  ASSUME NEW r, DevOK(r), FileLive(r), r.pc = "exit_kobj"
  PROVE  Kept(r, [r EXCEPT !.files = @ \ DmaFiles, !.pc = "exit_end"])
  <1> DEFINE n == [r EXCEPT !.files = @ \ DmaFiles, !.pc = "exit_end"]
  <1>0. /\ n \in DevType
        /\ n.pc = "exit_end" /\ n.i = r.i /\ n.err = r.err /\ n.res = r.res
        /\ n.files = r.files \ DmaFiles /\ n.drvdata = r.drvdata /\ n.listed = r.listed
        /\ n.mem = r.mem /\ n.raced = r.raced
    BY DEF DevOK, DevType, PCs, Rest, Early, Labels, Removing, Resources
  <1> HIDE DEF n
  <1>a. DevOK(n)
    BY <1>0 DEF DevOK, IndexOK, FlagsOK, FilesOK, ResOK, BuffersOK, Early, Labels, Removing
  <1>b. FileLive(n) /\ \A c \in ThType : c.file \in r.files /\ CallOK(c, r) => CallOK(c, n)
    BY <1>0 DEF FileLive, CallOK, DevOK, FlagsOK, FilesOK, ResOK, Early, Labels, Removing
  <1>c. Kept(r, n)
    BY <1>a, <1>b DEF Kept
  <1> QED  BY <1>c DEF n

(* ExitEnd: the directory is gone, and with it the users of the attributes. *)
LEMMA ExitEndKept ==
  ASSUME NEW r, DevOK(r), FileLive(r), r.pc = "exit_end"
  PROVE  Kept(r, [r EXCEPT !.res = @ \ {"msi", "attrs"},
                             !.pc = IF r.err THEN "unbound" ELSE "bound"])
  <1> DEFINE n == [r EXCEPT !.res = @ \ {"msi", "attrs"},
                             !.pc = IF r.err THEN "unbound" ELSE "bound"]
  <1>0. /\ n \in DevType
        /\ n.pc = (IF r.err THEN "unbound" ELSE "bound") /\ n.i = r.i /\ n.err = r.err
        /\ n.res = r.res \ {"msi", "attrs"} /\ n.files = r.files
        /\ n.drvdata = r.drvdata /\ n.listed = r.listed /\ n.mem = r.mem /\ n.raced = r.raced
    BY DEF DevOK, DevType, PCs, Rest, Early, Labels, Removing, Resources
  <1> HIDE DEF n
  <1>a. DevOK(n)
    BY <1>0 DEF DevOK, IndexOK, FlagsOK, FilesOK, ResOK, BuffersOK, Early, Labels, Removing
  <1>b. FileLive(n) /\ \A c \in ThType : c.file \in r.files /\ CallOK(c, r) => CallOK(c, n)
    BY <1>0, FileFacts DEF FileLive, CallOK, DevOK, FlagsOK, FilesOK, ResOK, Early, Labels, Removing
  <1>c. Kept(r, n)
    BY <1>a, <1>b DEF Kept
  <1> QED  BY <1>c DEF n

(* Remove. *)
LEMMA RemoveKept ==
  ASSUME NEW r, DevOK(r), FileLive(r), r.pc = "bound"
  PROVE  Kept(r, [r EXCEPT !.pc = IF r.drvdata THEN "rm_buffers" ELSE "oops"])
  <1> DEFINE n == [r EXCEPT !.pc = IF r.drvdata THEN "rm_buffers" ELSE "oops"]
  <1>0. /\ n \in DevType
        /\ n.pc = (IF r.drvdata THEN "rm_buffers" ELSE "oops") /\ n.i = r.i /\ n.err = r.err
        /\ n.res = r.res /\ n.files = r.files /\ n.drvdata = r.drvdata /\ n.listed = r.listed
        /\ n.mem = r.mem /\ n.raced = r.raced
    BY DEF DevOK, DevType, PCs, Rest, Early, Labels, Removing, Resources
  <1> HIDE DEF n
  <1>a. DevOK(n)
    BY <1>0 DEF DevOK, IndexOK, FlagsOK, FilesOK, ResOK, BuffersOK, Early, Labels, Removing
  <1>b. FileLive(n) /\ \A c \in ThType : c.file \in r.files /\ CallOK(c, r) => CallOK(c, n)
    BY <1>0 DEF FileLive, CallOK, DevOK, FlagsOK, FilesOK, ResOK, Early, Labels, Removing
  <1>c. Kept(r, n)
    BY <1>a, <1>b DEF Kept
  <1> QED  BY <1>c DEF n

(* RemoveBuffers. *)
LEMMA RmBuffersKept ==
  ASSUME NEW r, DevOK(r), FileLive(r), r.pc = "rm_buffers"
  PROVE  Kept(r, [r EXCEPT !.mem = @ \ r.listed, !.pc = "rm_kobj"])
  <1> DEFINE n == [r EXCEPT !.mem = @ \ r.listed, !.pc = "rm_kobj"]
  <1>0. /\ n \in DevType
        /\ n.pc = "rm_kobj" /\ n.i = r.i /\ n.err = r.err /\ n.res = r.res
        /\ n.files = r.files /\ n.drvdata = r.drvdata /\ n.listed = r.listed
        /\ n.mem = r.mem \ r.listed /\ n.raced = r.raced
    BY DEF DevOK, DevType, PCs, Rest, Early, Labels, Removing, Resources
  <1> HIDE DEF n
  <1>a. DevOK(n)
    BY <1>0 DEF DevOK, IndexOK, FlagsOK, FilesOK, ResOK, BuffersOK, Early, Labels, Removing
  <1>b. FileLive(n) /\ \A c \in ThType : c.file \in r.files /\ CallOK(c, r) => CallOK(c, n)
    BY <1>0 DEF FileLive, CallOK, DevOK, FlagsOK, FilesOK, ResOK, Early, Labels, Removing
  <1>c. Kept(r, n)
    BY <1>a, <1>b DEF Kept
  <1> QED  BY <1>c DEF n

(* RemoveKobj. *)
LEMMA RmKobjKept ==
  ASSUME NEW r, DevOK(r), FileLive(r), r.pc = "rm_kobj"
  PROVE  Kept(r, [r EXCEPT !.files = @ \ DmaFiles, !.pc = "rm_kset"])
  <1> DEFINE n == [r EXCEPT !.files = @ \ DmaFiles, !.pc = "rm_kset"]
  <1>0. /\ n \in DevType
        /\ n.pc = "rm_kset" /\ n.i = r.i /\ n.err = r.err /\ n.res = r.res
        /\ n.files = r.files \ DmaFiles /\ n.drvdata = r.drvdata /\ n.listed = r.listed
        /\ n.mem = r.mem /\ n.raced = r.raced
    BY DEF DevOK, DevType, PCs, Rest, Early, Labels, Removing, Resources
  <1> HIDE DEF n
  <1>a. DevOK(n)
    BY <1>0 DEF DevOK, IndexOK, FlagsOK, FilesOK, ResOK, BuffersOK, Early, Labels, Removing
  <1>b. FileLive(n) /\ \A c \in ThType : c.file \in r.files /\ CallOK(c, r) => CallOK(c, n)
    BY <1>0 DEF FileLive, CallOK, DevOK, FlagsOK, FilesOK, ResOK, Early, Labels, Removing
  <1>c. Kept(r, n)
    BY <1>a, <1>b DEF Kept
  <1> QED  BY <1>c DEF n

(* RemoveKset: the directory is gone, and with it the users of the kset. *)
LEMMA RmKsetKept ==
  ASSUME NEW r, DevOK(r), FileLive(r), r.pc = "rm_kset"
  PROVE  Kept(r, [r EXCEPT !.res = @ \ {"kset"}, !.listed = {}, !.i = 1, !.pc = "rm_bars"])
  <1> DEFINE n == [r EXCEPT !.res = @ \ {"kset"}, !.listed = {}, !.i = 1, !.pc = "rm_bars"]
  <1>0. /\ n \in DevType
        /\ n.pc = "rm_bars" /\ n.i = 1 /\ n.err = r.err /\ n.res = r.res \ {"kset"}
        /\ n.files = r.files /\ n.drvdata = r.drvdata /\ n.listed = {} /\ n.mem = r.mem
        /\ n.raced = r.raced
    BY DEF DevOK, DevType, PCs, Rest, Early, Labels, Removing, Resources
  <1> HIDE DEF n
  <1>1. n.files \subseteq {BarFile(j) : j \in 1 .. NBars}
    BY <1>0 DEF DevOK, DevType, Files, BarFiles, FilesOK
  <1>a. DevOK(n)
    BY <1>0, <1>1 DEF DevOK, IndexOK, FlagsOK, FilesOK, ResOK, BuffersOK, Early, Labels, Removing
  <1>b. FileLive(n) /\ \A c \in ThType : c.file \in r.files /\ CallOK(c, r) => CallOK(c, n)
    BY <1>0, FileFacts DEF FileLive, CallOK, DevOK, FlagsOK, FilesOK, ResOK, Early, Labels, Removing
  <1>c. Kept(r, n)
    BY <1>a, <1>b DEF Kept
  <1> QED  BY <1>c DEF n

(* RemoveBar. *)
LEMMA RmBarKept ==
  ASSUME NEW r, DevOK(r), FileLive(r), r.pc = "rm_bars", NEW k \in Nat, k = r.i + 1
  PROVE  Kept(r, [r EXCEPT !.files = @ \ {BarFile(r.i)}, !.i = k])
  <1> DEFINE n == [r EXCEPT !.files = @ \ {BarFile(r.i)}, !.i = k]
  <1>0. /\ n \in DevType
        /\ n.pc = r.pc /\ n.i = k /\ n.err = r.err /\ n.res = r.res
        /\ n.files = r.files \ {BarFile(r.i)} /\ n.drvdata = r.drvdata /\ n.listed = r.listed
        /\ n.mem = r.mem /\ n.raced = r.raced
    BY DEF DevOK, DevType, PCs, Rest, Early, Labels, Removing, Resources
  <1> HIDE DEF n
  <1>1. n.files \subseteq {BarFile(j) : j \in n.i .. NBars}
    BY <1>0, ProbeAssumption DEF DevOK, DevType, FilesOK
  <1>a. DevOK(n)
    <2>1. IndexOK(n)
      BY <1>0 DEF DevOK, DevType, IndexOK
    <2>2. FilesOK(n)
      BY <1>0, <1>1 DEF DevOK, FilesOK, FlagsOK, Labels
    <2>3. FlagsOK(n) /\ ResOK(n) /\ BuffersOK(n)
      BY <1>0 DEF DevOK, FlagsOK, ResOK, BuffersOK, Early, Labels, Removing
    <2> QED  BY <1>0, <2>1, <2>2, <2>3 DEF DevOK
  <1>b. FileLive(n) /\ \A c \in ThType : c.file \in r.files /\ CallOK(c, r) => CallOK(c, n)
    BY <1>0 DEF FileLive, CallOK, DevOK, FlagsOK, FilesOK, ResOK, Early, Labels, Removing
  <1>c. Kept(r, n)
    BY <1>a, <1>b DEF Kept
  <1> QED  BY <1>c DEF n

(* UnregisterUio: the loop has removed the file of every BAR. *)
LEMMA RmUioKept ==
  ASSUME NEW r, DevOK(r), FileLive(r), r.pc = "rm_bars", r.i > NBars
  PROVE  Kept(r, [r EXCEPT !.res = @ \ {"names", "uio"}, !.pc = "rm_end"])
  <1> DEFINE n == [r EXCEPT !.res = @ \ {"names", "uio"}, !.pc = "rm_end"]
  <1>0. /\ n \in DevType
        /\ n.pc = "rm_end" /\ n.i = r.i /\ n.err = r.err /\ n.res = r.res \ {"names", "uio"}
        /\ n.files = r.files /\ n.drvdata = r.drvdata /\ n.listed = r.listed /\ n.mem = r.mem
        /\ n.raced = r.raced
    BY DEF DevOK, DevType, PCs, Rest, Early, Labels, Removing, Resources
  <1> HIDE DEF n
  <1>1. r.files = {}
    BY ProbeAssumption DEF DevOK, DevType, FilesOK
  <1>a. DevOK(n)
    BY <1>0, <1>1 DEF DevOK, IndexOK, FlagsOK, FilesOK, ResOK, BuffersOK, Early, Labels, Removing
  <1>b. FileLive(n) /\ \A c \in ThType : c.file \in r.files /\ CallOK(c, r) => CallOK(c, n)
    BY <1>0 DEF FileLive, CallOK, DevOK, FlagsOK, FilesOK, ResOK, Early, Labels, Removing
  <1>c. Kept(r, n)
    BY <1>a, <1>b DEF Kept
  <1> QED  BY <1>c DEF n

(* RemoveEnd. *)
LEMMA RmEndKept ==
  ASSUME NEW r, DevOK(r), FileLive(r), r.pc = "rm_end"
  PROVE  Kept(r, [r EXCEPT !.res = @ \ {"msi", "regions", "enabled", "dma_device"},
                             !.drvdata = FALSE, !.pc = "unbound"])
  <1> DEFINE n == [r EXCEPT !.res = @ \ {"msi", "regions", "enabled", "dma_device"},
                             !.drvdata = FALSE, !.pc = "unbound"]
  <1>0. /\ n \in DevType
        /\ n.pc = "unbound" /\ n.i = r.i /\ n.err = r.err
        /\ n.res = r.res \ {"msi", "regions", "enabled", "dma_device"} /\ n.files = r.files
        /\ n.drvdata = FALSE /\ n.listed = r.listed /\ n.mem = r.mem /\ n.raced = r.raced
    BY DEF DevOK, DevType, PCs, Rest, Early, Labels, Removing, Resources
  <1> HIDE DEF n
  <1>a. DevOK(n)
    BY <1>0 DEF DevOK, DevType, IndexOK, FlagsOK, FilesOK, ResOK, BuffersOK, Early, Labels, Removing,
                Resources
  <1>b. FileLive(n) /\ \A c \in ThType : c.file \in r.files /\ CallOK(c, r) => CallOK(c, n)
    BY <1>0 DEF FileLive, CallOK, DevOK, FlagsOK, FilesOK, ResOK, Early, Labels, Removing
  <1>c. Kept(r, n)
    BY <1>a, <1>b DEF Kept
  <1> QED  BY <1>c DEF n

(* Probe. *)
LEMMA ProbeKept ==
  ASSUME NEW r, DevOK(r), FileLive(r), r.pc = "unbound", NEW p, NEW x,
         (p = "enable" /\ x = {"attrs"}) \/ (p = "oops" /\ x = {})
  PROVE  Kept(r, [r EXCEPT !.res = x, !.pc = p, !.err = FALSE])
  <1> DEFINE n == [r EXCEPT !.res = x, !.pc = p, !.err = FALSE]
  <1>0. /\ n \in DevType
        /\ n.pc = p /\ n.i = r.i /\ n.err = FALSE /\ n.res = x
        /\ n.files = r.files /\ n.drvdata = r.drvdata /\ n.listed = r.listed /\ n.mem = r.mem
        /\ n.raced = r.raced
    BY DEF DevOK, DevType, PCs, Rest, Early, Labels, Removing, Resources
  <1> HIDE DEF n
  <1>a. DevOK(n)
    BY <1>0 DEF DevOK, IndexOK, FlagsOK, FilesOK, ResOK, BuffersOK, Early, Labels, Removing
  <1>b. FileLive(n) /\ \A c \in ThType : c.file \in r.files /\ CallOK(c, r) => CallOK(c, n)
    BY <1>0 DEF FileLive, CallOK, DevOK, FlagsOK, FilesOK, ResOK, Early, Labels, Removing
  <1>c. Kept(r, n)
    BY <1>a, <1>b DEF Kept
  <1> QED  BY <1>c DEF n

-----------------------------------------------------------------------------
(* A thread in a callback has a device and one of its files. *)
LEMMA InCallback ==
  ASSUME NEW c \in ThType, c.pc # "idle"
  PROVE  c \in [pc : {"entered", "inside", "asleep"}, dev : Devices, file : Files]
  BY DEF ThType, Idle

(* The initial state satisfies the inductive invariant. *)
LEMMA InitIInv == Init => IInv
  <1> SUFFICES ASSUME Init PROVE IInv
    OBVIOUS
  <1> DEFINE r == [pc |-> "unbound", i |-> 0, err |-> FALSE, res |-> {}, files |-> {},
                   drvdata |-> FALSE, listed |-> {}, mem |-> {}, raced |-> FALSE]
  <1>1. r \in DevType
    BY DEF DevType, PCs, Rest
  <1>2. DevOK(r) /\ FileLive(r)
    BY <1>1 DEF DevOK, IndexOK, FlagsOK, FilesOK, ResOK, BuffersOK, FileLive, Early, Labels, Removing
  <1>3. dev \in [Devices -> DevType] /\ \A d \in Devices : DevOK(dev[d]) /\ FileLive(dev[d])
    <2> HIDE DEF r
    <2>1. dev = [d \in Devices |-> r]
      BY DEF Init, r
    <2> QED  BY <1>1, <1>2, <2>1
  <1>4. th \in [Threads -> ThType] /\ \A t \in Threads : th[t].pc = "idle"
    BY DEF Init, ThType, Idle
  <1> QED  BY <1>3, <1>4 DEF IInv, Init

(***************************************************************************)
(* A step of the driver waits for the callbacks of the files it has        *)
(* removed, so those it meets are of files that still exist.               *)
(***************************************************************************)
LEMMA StepKeeps ==
  ASSUME IInv, NEW d \in Devices, NEW l, NEW n, Step(d, l, n), Kept(dev[d], n)
  PROVE  IInv'
  <1>1. dev' = [dev EXCEPT ![d] = n] /\ UNCHANGED <<owner, th>> /\ Drained(d)
    BY DEF Step
  <1>2. n \in DevType /\ DevOK(n) /\ FileLive(n)
    BY DEF Kept, DevOK
  <1>3. dev' \in [Devices -> DevType] /\ \A e \in Devices : DevOK(dev'[e]) /\ FileLive(dev'[e])
    BY <1>1, <1>2 DEF IInv
  <1>4. ASSUME NEW t \in Threads, th[t].pc # "idle" PROVE CallOK(th[t], dev'[th[t].dev])
    <2>1. th[t] \in ThType /\ th[t].dev \in Devices /\ CallOK(th[t], dev[th[t].dev])
      BY <1>4, InCallback DEF IInv
    <2>2. CASE th[t].dev = d
      <3>1. th[t].file \in dev[d].files
        BY <1>1, <2>2 DEF Drained
      <3>2. CallOK(th[t], n)
        BY <2>1, <2>2, <3>1 DEF Kept
      <3>3. dev'[d] = n
        BY <1>1 DEF IInv
      <3> QED  BY <2>2, <3>2, <3>3
    <2>3. CASE th[t].dev # d
      <3>1. dev'[th[t].dev] = dev[th[t].dev]
        BY <1>1, <2>1, <2>3 DEF IInv
      <3> QED  BY <2>1, <3>1
    <2> QED  BY <2>2, <2>3
  <1> QED  BY <1>1, <1>3, <1>4 DEF IInv

(* The steps of probe. *)
LEMMA ProbeSteps ==
  ASSUME IInv, NEW d \in Devices,
         \/ EnableDevice(d) \/ SetupInterrupt(d) \/ AllocDevice(d) \/ CreateKset(d)
         \/ CreateFile(d) \/ RequestRegions(d) \/ CreateBar(d) \/ RegisterUio(d) \/ SetDrvdata(d)
  PROVE  IInv'
  <1>0. DevOK(dev[d]) /\ FileLive(dev[d]) /\ dev[d].i \in Nat
    BY DEF IInv, DevOK, DevType
  <1>1. CASE EnableDevice(d)
    <2>1. dev[d].pc = "enable" => Kept(dev[d], Got(d, {"enabled"}, "interrupt"))
      BY <1>0, AcquireKept DEF Got
    <2>2. dev[d].pc = "enable" => Kept(dev[d], Failed(d, "exit"))
      BY <1>0, FailKept DEF Failed
    <2> QED  BY <1>1, <2>1, <2>2, StepKeeps DEF EnableDevice, Step
  <1>2. CASE SetupInterrupt(d)
    <2>1. dev[d].pc = "interrupt" => \A x \in {{"msi"}, {}} : Kept(dev[d], Got(d, x, "alloc"))
      BY <1>0, AcquireKept DEF Got
    <2>2. dev[d].pc = "interrupt" => Kept(dev[d], Failed(d, "exit"))
      BY <1>0, FailKept DEF Failed
    <2> QED  BY <1>2, <2>1, <2>2, StepKeeps DEF SetupInterrupt, Step
  <1>3. CASE AllocDevice(d)
    <2>1. dev[d].pc = "alloc" => Kept(dev[d], Got(d, {"dma_device"}, "masks"))
      BY <1>0, AcquireKept DEF Got
    <2>2. dev[d].pc = "alloc" => Kept(dev[d], Failed(d, "exit"))
      BY <1>0, FailKept DEF Failed
    <2> QED  BY <1>3, <2>1, <2>2, StepKeeps DEF AllocDevice, Step
  <1>4. CASE CreateKset(d)
    <2>1. dev[d].pc = "masks" => Kept(dev[d], [Got(d, {"kset"}, "files") EXCEPT !.i = 1, !.listed = {}])
      BY <1>0, KsetKept DEF Got
    <2>2. dev[d].pc = "masks" => Kept(dev[d], Failed(d, "exit"))
      BY <1>0, FailKept DEF Failed
    <2>3. dev[d].pc = "masks" => Kept(dev[d], Jumped(d, "oops"))
      BY <1>0, OopsKept DEF Jumped
    <2> QED  BY <1>4, <2>1, <2>2, <2>3, StepKeeps DEF CreateKset, Step
  <1>5. CASE CreateFile(d)
    <2> DEFINE k == dev[d].i
    <2>1. ASSUME dev[d].pc = "files"
          PROVE  Kept(dev[d], [dev[d] EXCEPT !.files = @ \cup {DmaFile(k)}, !.i = k + 1,
                                             !.pc = IF k = 4 THEN "regions" ELSE "files"])
      <3>1. k \in 1 .. 4 /\ DmaFile(k) \in DmaFiles /\ k + 1 \in Nat
        BY <1>0, <2>1, FileFacts DEF DevOK, IndexOK
      <3>2. (IF k = 4 THEN "regions" ELSE "files") \in PCs
        BY DEF PCs, Early
      <3> QED  BY <1>0, <2>1, <3>1, <3>2, FileKept
    <2>2. dev[d].pc = "files" => Kept(dev[d], Failed(d, "exit_files"))
      BY <1>0, FileFailKept DEF Failed
    <2> QED  BY <1>5, <2>1, <2>2, StepKeeps DEF CreateFile, Step
  <1>6. CASE RequestRegions(d)
    <2>1. dev[d].pc = "regions" => Kept(dev[d], [Got(d, {"regions"}, "bars") EXCEPT !.i = 1])
      BY <1>0, RegionsKept DEF Got
    <2>2. dev[d].pc = "regions" => Kept(dev[d], Jumped(d, "exit"))
      BY <1>0, JumpKept DEF Jumped
    <2> QED  BY <1>6, <2>1, <2>2, StepKeeps DEF RequestRegions, Step
  <1>7. CASE CreateBar(d)
    <2> DEFINE k == dev[d].i
    <2>1. ASSUME dev[d].pc = "bars"
          PROVE  Kept(dev[d], [Got(d, {"names"}, "bars")
                                 EXCEPT !.files = @ \cup {BarFile(k)}, !.i = k + 1])
      <3>1. k \in 1 .. NBars /\ BarFile(k) \in BarFiles /\ k + 1 \in Nat
        BY <1>0, <1>7, <2>1, ProbeAssumption, FileFacts DEF DevOK, IndexOK, CreateBar
      <3> QED  BY <1>0, <2>1, <3>1, BarKept DEF Got
    <2>2. dev[d].pc = "bars" => Kept(dev[d], Got(d, {"names"}, "exit_bars"))
      BY <1>0, BarFailKept DEF Got
    <2>3. dev[d].pc = "bars" => Kept(dev[d], Jumped(d, "oops"))
      BY <1>0, OopsKept DEF Jumped
    <2> QED  BY <1>7, <2>1, <2>2, <2>3, StepKeeps DEF CreateBar, Step
  <1>8. CASE RegisterUio(d)
    <2>1. dev[d].pc = "bars" => Kept(dev[d], Got(d, {"uio"}, "drvdata"))
      BY <1>0, UioKept DEF Got
    <2>2. dev[d].pc = "bars" => Kept(dev[d], [dev[d] EXCEPT !.i = 4, !.pc = "exit_files"])
      BY <1>0, UioFailKept
    <2> QED  BY <1>8, <2>1, <2>2, StepKeeps DEF RegisterUio, Step
  <1>9. CASE SetDrvdata(d)
    <2>1. dev[d].pc = "drvdata" => Kept(dev[d], [dev[d] EXCEPT !.drvdata = TRUE, !.pc = "bound"])
      BY <1>0, DrvdataKept
    <2> QED  BY <1>9, <2>1, StepKeeps DEF SetDrvdata, Step
  <1> QED  BY <1>1, <1>2, <1>3, <1>4, <1>5, <1>6, <1>7, <1>8, <1>9

(* The labels of probe. *)
LEMMA LabelSteps ==
  ASSUME IInv, NEW d \in Devices,
         ExitBars(d) \/ ExitFiles(d) \/ ExitFreesDevice(d) \/ ExitDeletesKobj(d) \/ ExitEnd(d)
  PROVE  IInv'
  <1>0. DevOK(dev[d]) /\ FileLive(dev[d]) /\ dev[d].i \in Nat
    BY DEF IInv, DevOK, DevType
  <1>1. CASE ExitBars(d)
    BY <1>0, <1>1, ExitBarsKept, StepKeeps DEF ExitBars, Step
  <1>2. CASE ExitFiles(d)
    <2> DEFINE k == dev[d].i
    <2>1. ASSUME dev[d].pc = "exit_files"
          PROVE  Kept(dev[d], [dev[d] EXCEPT !.files = @ \ {DmaFile(k)}, !.i = k - 1,
                                             !.pc = IF k = 1 THEN "exit" ELSE "exit_files"])
      <3>1. k - 1 \in Nat
        BY <1>0, <2>1 DEF DevOK, IndexOK
      <3>2. (IF k = 1 THEN "exit" ELSE "exit_files") \in PCs
        BY DEF PCs, Labels
      <3> QED  BY <1>0, <2>1, <3>1, <3>2, ExitFilesKept
    <2> QED  BY <1>2, <2>1, StepKeeps DEF ExitFiles, Step
  <1>3. CASE ExitFreesDevice(d)
    BY <1>0, <1>3, ExitDeviceKept, StepKeeps DEF ExitFreesDevice, Step
  <1>4. CASE ExitDeletesKobj(d)
    BY <1>0, <1>4, ExitKobjKept, StepKeeps DEF ExitDeletesKobj, Step
  <1>5. CASE ExitEnd(d)
    BY <1>0, <1>5, ExitEndKept, StepKeeps DEF ExitEnd, Step
  <1> QED  BY <1>1, <1>2, <1>3, <1>4, <1>5

(* The steps of remove. *)
LEMMA RemoveSteps ==
  ASSUME IInv, NEW d \in Devices,
         \/ Remove(d) \/ RemoveBuffers(d) \/ RemoveKobj(d) \/ RemoveKset(d)
         \/ RemoveBar(d) \/ UnregisterUio(d) \/ RemoveEnd(d)
  PROVE  IInv'
  <1>0. DevOK(dev[d]) /\ FileLive(dev[d]) /\ dev[d].i \in Nat
    BY DEF IInv, DevOK, DevType
  <1>1. CASE Remove(d)
    <2>1. dev[d].pc = "bound" =>
             Kept(dev[d], Jumped(d, IF dev[d].drvdata THEN "rm_buffers" ELSE "oops"))
      BY <1>0, RemoveKept DEF Jumped
    <2> QED  BY <1>1, <2>1, StepKeeps DEF Remove, Step
  <1>2. CASE RemoveBuffers(d)
    BY <1>0, <1>2, RmBuffersKept, StepKeeps DEF RemoveBuffers, Step
  <1>3. CASE RemoveKobj(d)
    BY <1>0, <1>3, RmKobjKept, StepKeeps DEF RemoveKobj, Step
  <1>4. CASE RemoveKset(d)
    BY <1>0, <1>4, RmKsetKept, StepKeeps DEF RemoveKset, Step
  <1>5. CASE RemoveBar(d)
    <2> DEFINE k == dev[d].i
    <2>1. ASSUME dev[d].pc = "rm_bars"
          PROVE  Kept(dev[d], [dev[d] EXCEPT !.files = @ \ {BarFile(k)}, !.i = k + 1])
      <3>1. k + 1 \in Nat
        BY <1>0
      <3> QED  BY <1>0, <2>1, <3>1, RmBarKept
    <2> QED  BY <1>5, <2>1, StepKeeps DEF RemoveBar, Step
  <1>6. CASE UnregisterUio(d)
    BY <1>0, <1>6, RmUioKept, StepKeeps DEF UnregisterUio, Step
  <1>7. CASE RemoveEnd(d)
    BY <1>0, <1>7, RmEndKept, StepKeeps DEF RemoveEnd, Step
  <1> QED  BY <1>1, <1>2, <1>3, <1>4, <1>5, <1>6, <1>7

(* A probe begins: mutex_init forgets who waits for the lock, who sleeps on. *)
LEMMA ProbeBegins ==
  ASSUME IInv, NEW d \in Devices, Probe(d)
  PROVE  IInv'
  <1>a. PICK begun \in {[res |-> {"attrs"}, pc |-> "enable"], [res |-> {}, pc |-> "oops"]} :
           dev' = [dev EXCEPT ![d].res = begun.res, ![d].pc = begun.pc, ![d].err = FALSE]
    BY DEF Probe
  <1> DEFINE n == [dev[d] EXCEPT !.res = begun.res, !.pc = begun.pc, !.err = FALSE]
  <1>0. DevOK(dev[d]) /\ FileLive(dev[d]) /\ dev \in [Devices -> DevType] /\ th \in [Threads -> ThType]
    BY DEF IInv
  <1>1. dev[d].pc = "unbound" /\ Drained(d) /\ dev' = [dev EXCEPT ![d] = n] /\ owner' = NULL
    <2>1. dev' = [dev EXCEPT ![d] = n]
      BY <1>0, <1>a
    <2> QED  BY <2>1 DEF Probe
  <1>2. Kept(dev[d], n)
    <2>1. \/ begun.pc = "enable" /\ begun.res = {"attrs"}
          \/ begun.pc = "oops" /\ begun.res = {}
      OBVIOUS
    <2> QED  BY <1>0, <1>1, <2>1, ProbeKept
  <1> HIDE DEF n
  <1>3. n \in DevType /\ DevOK(n) /\ FileLive(n)
    BY <1>2 DEF Kept, DevOK
  <1>4. dev' \in [Devices -> DevType] /\ \A e \in Devices : DevOK(dev'[e]) /\ FileLive(dev'[e])
    BY <1>0, <1>1, <1>3 DEF IInv
  <1>5. PICK asleep \in SUBSET Waiting :
           th' = [t \in Threads |-> IF t \in asleep THEN [th[t] EXCEPT !.pc = "asleep"] ELSE th[t]]
    BY DEF Probe
  <1>6. ASSUME NEW t \in Threads
        PROVE  /\ th'[t] \in ThType /\ th'[t].dev = th[t].dev /\ th'[t].file = th[t].file
               /\ th'[t].pc = th[t].pc \/ (th[t].pc # "idle" /\ th'[t].pc = "asleep")
    <2>1. CASE t \in asleep
      <3>1. th[t].pc = "entered" /\ th'[t] = [th[t] EXCEPT !.pc = "asleep"]
        BY <1>5, <2>1 DEF Waiting
      <3>2. th[t] \in [pc : {"entered", "inside", "asleep"}, dev : Devices, file : Files]
        BY <1>0, <3>1, InCallback
      <3> QED  BY <3>1, <3>2 DEF ThType
    <2>2. CASE t \notin asleep
      BY <1>0, <1>5, <2>2
    <2> QED  BY <2>1, <2>2
  <1>7. th' \in [Threads -> ThType]
    BY <1>5, <1>6
  <1>8. ASSUME NEW t \in Threads, th'[t].pc # "idle" PROVE CallOK(th'[t], dev'[th'[t].dev])
    <2>1. th[t].pc # "idle"
      BY <1>6, <1>8
    <2>2. th[t].dev \in Devices /\ th[t].dev # d
      <3>1. th[t] \in [pc : {"entered", "inside", "asleep"}, dev : Devices, file : Files]
        BY <1>0, <2>1, InCallback
      <3>2. dev[d].files = {}
        BY <1>0, <1>1 DEF DevOK, FilesOK
      <3> QED  BY <1>1, <3>1, <3>2 DEF Drained
    <2>3. CallOK(th[t], dev[th[t].dev]) /\ dev'[th[t].dev] = dev[th[t].dev]
      BY <1>0, <1>1, <2>1, <2>2 DEF IInv
    <2> QED  BY <1>6, <1>8, <2>3 DEF CallOK
  <1> QED  BY <1>1, <1>4, <1>7, <1>8 DEF IInv

(* A thread enters, goes on in, or leaves a callback; the devices stay. *)
LEMMA ThreadKeeps ==
  ASSUME IInv, NEW t \in Threads, NEW c \in ThType, th' = [th EXCEPT ![t] = c], dev' = dev,
         owner' \in Threads \cup {NULL}, c.pc # "idle" => CallOK(c, dev[c.dev])
  PROVE  IInv'
  <1>1. th' \in [Threads -> ThType] /\ th'[t] = c /\ \A u \in Threads \ {t} : th'[u] = th[u]
    BY DEF IInv
  <1>2. \A u \in Threads : th'[u].pc # "idle" => CallOK(th'[u], dev'[th'[u].dev])
    BY <1>1 DEF IInv
  <1> QED  BY <1>1, <1>2 DEF IInv

(* The callbacks, up to the writes. *)
LEMMA CallbackSteps ==
  ASSUME IInv, NEW t \in Threads,
         Enter(t) \/ ReadSize(t) \/ bar_mmap(t) \/ RemapBar(t) \/ mutex_lock(t)
  PROVE  IInv'
  <1>0. /\ dev \in [Devices -> DevType] /\ \A d \in Devices : DevOK(dev[d]) /\ FileLive(dev[d])
        /\ th \in [Threads -> ThType] /\ owner \in Threads \cup {NULL}
        /\ th[t].pc # "idle" => CallOK(th[t], dev[th[t].dev])
    BY DEF IInv
  <1>1. Idle \in ThType /\ Idle.pc = "idle"
    BY DEF ThType, Idle
  <1>2. ASSUME Leave(t), dev' = dev, owner' = owner PROVE IInv'
    BY <1>0, <1>1, <1>2, ThreadKeeps DEF Leave
  <1>3. CASE Enter(t)
    <2>0. PICK d \in Devices : \E f \in dev[d].files :
             th' = [th EXCEPT ![t] = [pc |-> "entered", dev |-> d, file |-> f]]
      BY <1>3 DEF Enter
    <2>1. PICK f \in dev[d].files :
             th' = [th EXCEPT ![t] = [pc |-> "entered", dev |-> d, file |-> f]]
      BY <2>0
    <2> DEFINE c == [pc |-> "entered", dev |-> d, file |-> f]
    <2>2. f \in Files
      BY <1>0 DEF DevType
    <2>3. c \in ThType
      BY <2>2 DEF ThType
    <2>4. CallOK(c, dev[d])
      BY <1>0 DEF FileLive, CallOK
    <2> QED  BY <1>0, <1>3, <2>1, <2>3, <2>4, ThreadKeeps DEF Enter
  <1>4. ASSUME th[t].pc = "entered", th' = [th EXCEPT ![t].pc = "inside"], dev' = dev,
               owner' \in Threads \cup {NULL},
               th[t].file \in BarFiles => dev[th[t].dev].drvdata
        PROVE  IInv'
    <2> DEFINE c == [th[t] EXCEPT !.pc = "inside"]
    <2>1. th[t] \in [pc : {"entered", "inside", "asleep"}, dev : Devices, file : Files]
      BY <1>0, <1>4, InCallback
    <2>2. c \in ThType /\ c.pc = "inside" /\ c.dev = th[t].dev /\ c.file = th[t].file
      BY <2>1 DEF ThType
    <2>3. th' = [th EXCEPT ![t] = c]
      BY <1>4
    <2> HIDE DEF c
    <2>4. CallOK(c, dev[c.dev])
      BY <1>0, <1>4, <2>2 DEF CallOK
    <2> QED  BY <1>4, <2>2, <2>3, <2>4, ThreadKeeps
  <1>5. CASE ReadSize(t)
    BY <1>2, <1>5 DEF ReadSize
  <1>6. CASE bar_mmap(t)
    BY <1>0, <1>2, <1>4, <1>6 DEF bar_mmap
  <1>7. CASE RemapBar(t)
    BY <1>2, <1>7 DEF RemapBar
  <1>8. CASE mutex_lock(t)
    <2>1. th[t].file \notin BarFiles
      BY <1>8, FileFacts DEF mutex_lock, Writable
    <2> QED  BY <1>4, <1>8, <2>1 DEF mutex_lock
  <1> QED  BY <1>3, <1>5, <1>6, <1>7, <1>8

(* A write changes the buffers of the device, both lists alike. *)
LEMMA WrittenFields ==
  ASSUME NEW d, dev[d] \in DevType, NEW f, NEW new \in Written(d, f)
  PROVE  /\ new \in DevType
         /\ new.pc = dev[d].pc /\ new.i = dev[d].i /\ new.err = dev[d].err
         /\ new.res = dev[d].res /\ new.files = dev[d].files /\ new.drvdata = dev[d].drvdata
         /\ new.raced = dev[d].raced
         /\ dev[d].mem = dev[d].listed => new.mem = new.listed
         /\ dev[d].listed \subseteq dev[d].mem => new.listed \subseteq new.mem
  <1> DEFINE Goal ==
         /\ new \in DevType
         /\ new.pc = dev[d].pc /\ new.i = dev[d].i /\ new.err = dev[d].err
         /\ new.res = dev[d].res /\ new.files = dev[d].files /\ new.drvdata = dev[d].drvdata
         /\ new.raced = dev[d].raced
         /\ dev[d].mem = dev[d].listed => new.mem = new.listed
         /\ dev[d].listed \subseteq dev[d].mem => new.listed \subseteq new.mem
  <1>1. CASE new = dev[d]
    BY <1>1
  <1>2. ASSUME NEW b \in Buffers, new = [dev[d] EXCEPT !.mem = @ \cup {b}, !.listed = @ \cup {b}]
        PROVE  Goal
    BY <1>2 DEF DevType
  <1>3. ASSUME NEW b \in Buffers, new = [dev[d] EXCEPT !.mem = @ \ {b}, !.listed = @ \ {b}]
        PROVE  Goal
    BY <1>3 DEF DevType
  <1>4. dev[d].listed \subseteq Buffers
    BY DEF DevType
  <1>5. \/ new = dev[d]
        \/ \E b \in Buffers : new = [dev[d] EXCEPT !.mem = @ \cup {b}, !.listed = @ \cup {b}]
        \/ \E b \in Buffers : new = [dev[d] EXCEPT !.mem = @ \ {b}, !.listed = @ \ {b}]
    BY <1>4, Zenon DEF Written
  <1> QED  BY <1>1, <1>2, <1>3, <1>5

(* A write ends.  If it was neither early nor late, both lists still agree. *)
LEMMA WriteStep ==
  ASSUME IInv, NEW t \in Threads, Write(t)
  PROVE  IInv'
  <1> DEFINE d == th[t].dev
             r == dev[d]
  <1>0. /\ dev \in [Devices -> DevType] /\ th \in [Threads -> ThType]
        /\ th[t].pc = "inside" /\ owner' = NULL /\ th' = [th EXCEPT ![t] = Idle]
    BY DEF IInv, Write, Leave
  <1>1. d \in Devices
    BY <1>0, InCallback
  <1>2. r \in DevType /\ DevOK(r) /\ FileLive(r)
    BY <1>0, <1>1 DEF IInv
  <1>3. PICK new \in Written(d, th[t].file) :
           dev' = [dev EXCEPT ![d] = [new EXCEPT !.raced = @ \/ ~Settled(d)]]
    BY DEF Write
  <1>4. /\ new \in DevType
        /\ new.pc = r.pc /\ new.i = r.i /\ new.err = r.err /\ new.res = r.res
        /\ new.files = r.files /\ new.drvdata = r.drvdata /\ new.raced = r.raced
        /\ r.mem = r.listed => new.mem = new.listed
        /\ r.listed \subseteq r.mem => new.listed \subseteq new.mem
    BY <1>2, WrittenFields
  <1> DEFINE n == [new EXCEPT !.raced = @ \/ ~Settled(d)]
  <1>5. /\ n \in DevType
        /\ n.pc = r.pc /\ n.i = r.i /\ n.err = r.err /\ n.res = r.res
        /\ n.files = r.files /\ n.drvdata = r.drvdata
        /\ n.mem = new.mem /\ n.listed = new.listed
    BY <1>4 DEF DevType
  <1>6. ~n.raced => ~r.raced /\ r.pc = "bound"
    <2>1. n.raced = (new.raced \/ ~Settled(d))
      BY <1>4 DEF DevType
    <2> QED  BY <1>4, <2>1 DEF Settled
  <1>7. dev' = [dev EXCEPT ![d] = n]
    BY <1>3
  <1> HIDE DEF n
  <1>8. DevOK(n)
    <2>1. IndexOK(n) /\ FlagsOK(n) /\ FilesOK(n) /\ ResOK(n)
      BY <1>2, <1>5 DEF DevOK, IndexOK, FlagsOK, FilesOK, ResOK
    <2>2. BuffersOK(n)
      BY <1>2, <1>4, <1>5, <1>6 DEF DevOK, BuffersOK
    <2> QED  BY <1>5, <2>1, <2>2 DEF DevOK
  <1>9. FileLive(n) /\ \A c \in ThType : CallOK(c, r) => CallOK(c, n)
    BY <1>2, <1>5 DEF FileLive, CallOK
  <1>10. /\ dev' \in [Devices -> DevType] /\ dev'[d] = n
         /\ \A e \in Devices \ {d} : dev'[e] = dev[e]
    BY <1>0, <1>1, <1>5, <1>7
  <1>11. \A e \in Devices : DevOK(dev'[e]) /\ FileLive(dev'[e])
    BY <1>8, <1>9, <1>10 DEF IInv
  <1>12. /\ th' \in [Threads -> ThType] /\ th'[t].pc = "idle"
         /\ \A u \in Threads \ {t} : th'[u] = th[u]
    BY <1>0 DEF ThType, Idle
  <1>13. ASSUME NEW u \in Threads, th'[u].pc # "idle" PROVE CallOK(th'[u], dev'[th'[u].dev])
    <2>1. u # t /\ th'[u] = th[u]
      BY <1>12, <1>13
    <2>2. th[u] \in ThType /\ th[u].dev \in Devices /\ CallOK(th[u], dev[th[u].dev])
      BY <1>0, <1>13, <2>1, InCallback DEF IInv
    <2>3. CASE th[u].dev = d
      BY <1>9, <1>10, <2>1, <2>2, <2>3
    <2>4. CASE th[u].dev # d
      BY <1>10, <2>1, <2>2, <2>4
    <2> QED  BY <2>3, <2>4
  <1> QED  BY <1>0, <1>10, <1>11, <1>12, <1>13 DEF IInv

(* Every step preserves the inductive invariant. *)
LEMMA NextIInv == IInv /\ [Next]_vars => IInv'
  <1> SUFFICES ASSUME IInv, [Next]_vars PROVE IInv'
    OBVIOUS
  <1>1. CASE UNCHANGED vars
    BY <1>1 DEF vars, IInv
  <1>2. ASSUME NEW d \in Devices, Probe(d) \/ Remove(d) \/ Driver(d) PROVE IInv'
    BY <1>2, ProbeBegins, ProbeSteps, LabelSteps, RemoveSteps DEF Driver
  <1>3. ASSUME NEW t \in Threads, Enter(t) \/ Callback(t) PROVE IInv'
    BY <1>3, CallbackSteps, WriteStep DEF Callback
  <1> QED  BY <1>1, <1>2, <1>3 DEF Next

(* The inductive invariant is one. *)
LEMMA Invariance == Spec => []IInv
  BY InitIInv, NextIInv, PTL DEF Spec

-----------------------------------------------------------------------------
(***************************************************************************)
(* Types of the adapter's state; above all, the loops over the files of    *)
(* probe and of its labels touch the four files and the BARs there are.    *)
(***************************************************************************)
THEOREM TypeCorrect == Spec => []TypeOK
  <1>1. IInv => TypeOK
    <2> SUFFICES ASSUME IInv PROVE TypeOK
      OBVIOUS
    <2>1. ASSUME NEW d \in Devices
          PROVE  /\ dev[d].pc \in PCs /\ dev[d].i \in Nat
                 /\ dev[d].res \subseteq Resources /\ dev[d].files \subseteq DmaFiles \cup BarFiles
                 /\ {dev[d].err, dev[d].drvdata, dev[d].raced} \subseteq BOOLEAN
                 /\ dev[d].listed \subseteq Buffers /\ dev[d].mem \subseteq Buffers
      <3>1. dev[d] \in DevType
        BY DEF IInv
      <3> QED  BY <3>1 DEF DevType, Files
    <2>2. \A t \in Threads : \/ th[t] = Idle
                             \/ th[t] \in [pc : {"entered", "inside", "asleep"}, dev : Devices,
                                           file : DmaFiles \cup BarFiles]
      BY DEF IInv, ThType, Files
    <2> QED  BY <2>1, <2>2 DEF TypeOK, IInv, PCs, Early, Labels, Removing
  <1> QED  BY <1>1, Invariance, PTL

(***************************************************************************)
(* A probe that reports an error, from wherever it failed, leaves only the *)
(* enabled device and its kset, remove only the four attributes; the       *)
(* memory of the buffers is freed with the device unless a write of        *)
(* "request" or "free" overlapped with probe or remove.                    *)
(***************************************************************************)
THEOREM NothingLeft == Spec => []UnboundHasNothing
  <1>1. IInv => UnboundHasNothing
    BY DEF IInv, DevOK, FilesOK, ResOK, BuffersOK, UnboundHasNothing
  <1> QED  BY <1>1, Invariance, PTL

(***************************************************************************)
(* A thread in a callback of a sysfs file finds the attribute, the kset,   *)
(* the reserved region and dma_device that it uses, whatever probe and     *)
(* remove of its or of another device are doing; a write finds the buffers *)
(* allocated unless remove has freed them and not yet seen the write end.  *)
(***************************************************************************)
THEOREM CallbacksFindState == Spec => []CallbacksLive
  <1>1. IInv => CallbacksLive
    <2> SUFFICES ASSUME IInv, NEW t \in Threads, th[t].pc # "idle"
                 PROVE  LET d == th[t].dev IN
                        /\ th[t].file \in DmaFiles => {"attrs", "kset"} \subseteq dev[d].res
                        /\ th[t].file \in BarFiles => "dma_device" \in dev[d].res \/ HalfBound(d)
                        /\ th[t].file \in BarFiles /\ th[t].pc = "inside" =>
                              {"dma_device", "regions"} \subseteq dev[d].res
                        /\ th[t].file \in Writable /\ th[t].pc = "inside" =>
                              \/ dev[d].listed \subseteq dev[d].mem
                              \/ dev[d].pc \in {"rm_kobj", "rm_kset"}
      BY DEF CallbacksLive
    <2>1. th[t].dev \in Devices
      BY InCallback DEF IInv
    <2>2. CallOK(th[t], dev[th[t].dev]) /\ ResOK(dev[th[t].dev]) /\ BuffersOK(dev[th[t].dev])
      BY <2>1 DEF IInv, DevOK
    <2> QED  BY <2>2 DEF CallOK, ResOK, BuffersOK, HalfBound
  <1> QED  BY <1>1, Invariance, PTL

====
