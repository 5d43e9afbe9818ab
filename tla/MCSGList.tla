------------------------------ MODULE MCSGList ------------------------------
(* Small instances of SGList for TLC. *)
EXTENDS SGList, SequencesExt

CONSTANTS MaxEntries,  \* longest scatter list
          MaxLength,   \* longest chunk, in pages
          MaxAddr      \* largest bus address, in pages

Chunks == [d : 0 .. MaxAddr, length : 1 .. MaxLength]

(* Chunks are disjoint; a registered buffer's list is in no order. *)
MCScatters ==
    {s \in SeqOf(Chunks, MaxEntries) \ {<<>>} :
        \A j, k \in DOMAIN s :
            j # k => s[j].d + s[j].length <= s[k].d \/ s[k].d + s[k].length <= s[j].d}
====
