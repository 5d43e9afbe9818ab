------------------------------- MODULE SGList -------------------------------
(***************************************************************************)
(* The scatter/gather list of one buffer in user space: DMABuffer_getSG-   *)
(* List loads the kernel's list on first use, gives every entry its place  *)
(* in the user's mapping, and merges entries that are adjacent on the bus. *)
(*                                                                         *)
(* The C lists are arrays whose next and prev pointers follow the array,   *)
(* so a list is a sequence.  Merging runs in place, in passes: one action  *)
(* is one iteration of the pass, or the copy into a smaller array.         *)
(***************************************************************************)
EXTENDS Integers, Sequences, FiniteSets

CONSTANTS Scatters,  \* the scatter lists the kernel may expose (bound)
          Faults     \* {"load"}: open, stat, mmap, calloc, munmap or close fails

Entry == [d : Nat, length : Nat]

ASSUME SGAssumption ==
    /\ \A s \in Scatters : /\ s \in Seq(Entry) /\ s # <<>>
                           /\ \A k \in DOMAIN s : s[k].length > 0
    /\ Faults \subseteq {"load"}

VARIABLES
    scatter,   \* kernel: the list behind the file "sg"; never changes
    sglist,    \* DMABuffer.sglist; <<>> is NULL
    cursor,    \* sgtmp of the merging loop, as an array index
    entries,   \* new_number_entries
    pc         \* "idle", "merge", "copy", "error"

vars == <<scatter, sglist, cursor, entries, pc>>

Init ==
    /\ scatter \in Scatters
    /\ sglist = <<>>
    /\ cursor = 1
    /\ entries = 0
    /\ pc = "idle"

-----------------------------------------------------------------------------
(* Bytes in the first k entries. *)
Sum(s) ==
    LET sum[k \in 0 .. Len(s)] == IF k = 0 THEN 0 ELSE sum[k - 1] + s[k].length
    IN  sum

(* Bytes in front of entry k: userspace_iterator when the loop is there. *)
Offset(s) == [k \in 1 .. Len(s) |-> Sum(s)[k - 1]]

(* The conversion loop of DMABuffer_loadSGList; u counts from the mapping. *)
Converted(s) ==
    [k \in 1 .. Len(s) |-> [d |-> s[k].d, length |-> s[k].length, u |-> Offset(s)[k]]]

(***************************************************************************)
(* DMABuffer_getSGList without a list, up to the first coalescing pass.    *)
(* A failed load leaves no list behind, and the next call tries again.     *)
(* With a list the call changes nothing.                                   *)
(***************************************************************************)
DMABuffer_loadSGList ==
    /\ pc = "idle" /\ sglist = <<>>
    /\ \/ /\ sglist'  = Converted(scatter)
          /\ cursor'  = 1
          /\ entries' = Len(scatter)
          /\ pc' = "merge"
       \/ "load" \in Faults /\ UNCHANGED <<sglist, cursor, entries, pc>>
    /\ UNCHANGED scatter

(* Bug: the successor's length is not cleared, so it stays in the list. *)
MergeKeepsSuccessor ==
    LET n == cursor + 1 IN
    /\ pc = "merge" /\ cursor <= Len(sglist)
    /\ IF /\ sglist[cursor].length # 0 /\ n <= Len(sglist)
          /\ sglist[cursor].d + sglist[cursor].length = sglist[n].d
       THEN /\ sglist'  = [sglist EXCEPT ![cursor].length = @ + sglist[n].length]
            /\ entries' = entries - 1
       ELSE UNCHANGED <<sglist, entries>>
    /\ cursor' = n
    /\ UNCHANGED <<scatter, pc>>

(* Bug: entries are taken to be adjacent if they are in order. *)
MergeAscending ==
    LET n == cursor + 1 IN
    /\ pc = "merge" /\ cursor <= Len(sglist)
    /\ IF /\ sglist[cursor].length # 0 /\ n <= Len(sglist)
          /\ sglist[cursor].d + sglist[cursor].length <= sglist[n].d
       THEN /\ sglist'  = [sglist EXCEPT ![cursor].length = @ + sglist[n].length,
                                         ![n].length = 0]
            /\ entries' = entries - 1
       ELSE UNCHANGED <<sglist, entries>>
    /\ cursor' = n
    /\ UNCHANGED <<scatter, pc>>

(* The entry at the cursor swallows its successor, or is skipped. *)
Adjacent(k) ==
    /\ sglist[k].length # 0 /\ k < Len(sglist)
    /\ sglist[k].d + sglist[k].length = sglist[k + 1].d

Merge ==
    /\ pc = "merge" /\ cursor <= Len(sglist)
    /\ \/ /\ Adjacent(cursor)
          /\ sglist' = [sglist EXCEPT ![cursor].length = @ + sglist[cursor + 1].length,
                                      ![cursor + 1].length = 0]
          /\ entries' = entries - 1
       \/ ~Adjacent(cursor) /\ UNCHANGED <<sglist, entries>>
    /\ cursor' = cursor + 1
    /\ UNCHANGED <<scatter, pc>>

(* What the copying loop has put into the new array after k entries. *)
Copied(s) ==
    LET new[k \in 0 .. Len(s)] ==
            IF k = 0 THEN <<>>
            ELSE IF s[k].length = 0 THEN new[k - 1] ELSE Append(new[k - 1], s[k])
    IN  new

(* Bug: one pass is taken to be enough. *)
EndPassStops ==
    /\ pc = "merge" /\ cursor > Len(sglist)
    /\ pc' = "idle"
    /\ sglist' = Copied(sglist)[Len(sglist)]
    /\ cursor' = 1
    /\ UNCHANGED <<scatter, entries>>

(* Bug: the recursion is entered whether or not the pass changed anything. *)
EndPassAlways ==
    /\ pc = "merge" /\ cursor > Len(sglist)
    /\ pc' = "copy"
    /\ UNCHANGED <<scatter, sglist, cursor, entries>>

(* End of a pass: done if it changed nothing. *)
EndPass ==
    /\ pc = "merge" /\ cursor > Len(sglist)
    /\ pc' = IF entries = Len(sglist) THEN "idle" ELSE "copy"
    /\ UNCHANGED <<scatter, sglist, cursor, entries>>

(***************************************************************************)
(* Copy what is left into an array of new_number_entries elements, and     *)
(* start over.  The copy happens before its size is checked.               *)
(***************************************************************************)
Copy ==
    LET new == Copied(sglist)[Len(sglist)] IN
    /\ pc = "copy"
    /\ \/ /\ Len(new) = entries
          /\ sglist' = new
          /\ cursor' = 1
          /\ pc' = "merge"
       \/ /\ Len(new) # entries
          /\ pc' = "error"
          /\ UNCHANGED <<sglist, cursor>>
    /\ UNCHANGED <<scatter, entries>>

(* DMABuffer_getSGList of a buffer that has its list: it is returned. *)
DMABuffer_getSGList ==
    /\ pc = "idle" /\ sglist # <<>>
    /\ UNCHANGED vars

Next == DMABuffer_loadSGList \/ Merge \/ EndPass \/ Copy \/ DMABuffer_getSGList

Spec == Init /\ [][Next]_vars

(* The thread that merges goes on. *)
FairSpec == Spec /\ WF_vars(Merge \/ EndPass \/ Copy)

-----------------------------------------------------------------------------
(* Properties *)

(* Which byte of the user's mapping is at which bus address. *)
Translation(s) ==
    UNION {{<<s[k].u + x, s[k].d + x>> : x \in 0 .. s[k].length - 1} : k \in DOMAIN s}

(***************************************************************************)
(* Types, and the copy fits: the array allocated for new_number_entries    *)
(* elements is never written past its end, and "Invalid Number of          *)
(* entries!" is never reported.                                            *)
(***************************************************************************)
TypeOK ==
    /\ scatter \in Seq(Entry)
    /\ sglist \in Seq([d : Nat, length : Nat, u : Nat])
    /\ cursor \in 1 .. Len(sglist) + 1
    /\ entries \in 0 .. Len(scatter)
    /\ pc \in {"idle", "merge", "copy"}

(***************************************************************************)
(* At every point of the merging, aborted or not, the list describes the   *)
(* whole buffer, byte by byte as the kernel's list does.                   *)
(***************************************************************************)
SameTranslation ==
    sglist # <<>> => Translation(sglist) = Translation(Converted(scatter))

(* Where a maximal run of adjacent entries begins in s. *)
RunStarts(s) ==
    {k \in DOMAIN s : k = 1 \/ s[k - 1].d + s[k - 1].length # s[k].d}

(***************************************************************************)
(* "Coalesce the sg-list to reduce the amount of memory needed on the      *)
(* device": the list an application gets has exactly one entry per maximal *)
(* run of adjacent entries, in the kernel's order, starting where the run  *)
(* starts.                                                                 *)
(***************************************************************************)
FullyCoalesced ==
    pc = "idle" /\ sglist # <<>> =>
        /\ Len(sglist) = Cardinality(RunStarts(scatter))
        /\ \A k \in DOMAIN sglist :
              \E r \in RunStarts(scatter) :
                  /\ Cardinality({x \in RunStarts(scatter) : x <= r}) = k
                  /\ sglist[k].d = scatter[r].d
                  /\ sglist[k].u = Offset(scatter)[r]

(* The recursion ends: a list that is being merged is finished at last. *)
MergingEnds == pc # "idle" ~> pc = "idle"

====
