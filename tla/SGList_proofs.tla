---------------------------- MODULE SGList_proofs ----------------------------
(***************************************************************************)
(* Theorems of SGList, for any scatter lists: merging keeps the types and  *)
(* fits the new array, the list describes the buffer as the kernel's does  *)
(* at every point of it, and in the end there is one entry per maximal run *)
(* of adjacent entries.                                                    *)
(***************************************************************************)
EXTENDS SGList, FiniteSetTheorems, NaturalsInduction, SequenceTheorems,
        WellFoundedInduction, TLAPS

-----------------------------------------------------------------------------
(* Numbers and recursion *)

(* A set of numbers that is not empty has a least one. *)
LEMMA LeastNumber ==
    ASSUME NEW S \in SUBSET Nat, S # {}
    PROVE  \E n \in S : \A x \in S : n <= x
  <1>1. \A x, y \in Nat : <<x, y>> \in OpToRel(<, Nat) <=> x < y
    BY DEF OpToRel
  <1>2. PICK R : IsWellFoundedOn(R, Nat) /\ \A x, y \in Nat : <<x, y>> \in R <=> x < y
    BY <1>1, NatLessThanWellFounded, Zenon
  <1>3. IsWellFoundedOn(R, Nat) /\ S \subseteq Nat
    BY <1>2
  <1>4. PICK n \in S : \A x \in S : ~ (<<x, n>> \in R)
    BY <1>3, WFMin, Zenon
  <1>5. \A x \in S : ~ (x < n)
    BY <1>2, <1>3, <1>4, Zenon
  <1> QED  BY <1>5

(* Hence a set that holds a and, below n, with a number its successor holds a .. n. *)
LEMMA UpTo ==
    ASSUME NEW a \in Nat, NEW n \in Nat, NEW S, a \in S,
           \A k \in a .. n : k < n /\ k \in S => k + 1 \in S
    PROVE  a .. n \subseteq S
  <1> SUFFICES ASSUME (a .. n) \ S # {} PROVE FALSE
    OBVIOUS
  <1>1. (a .. n) \ S \in SUBSET Nat
    OBVIOUS
  <1>2. PICK k \in (a .. n) \ S : \A x \in (a .. n) \ S : k <= x
    BY <1>1, LeastNumber, Zenon
  <1>3. k \in a .. n /\ k # a /\ k - 1 \in a .. n /\ k - 1 < n /\ ~ (k <= k - 1)
    BY <1>2
  <1>4. k - 1 \in S
    BY <1>2, <1>3
  <1>5. (k - 1) + 1 = k
    BY <1>3
  <1>6. (k - 1) + 1 \in S
    BY <1>3, <1>4
  <1> QED  BY <1>2, <1>5, <1>6

(* A value between the first and the last of a function is between two neighbours. *)
LEMMA Located ==
    ASSUME NEW a \in Nat, NEW b \in Nat, NEW g, \A k \in a .. b : g[k] \in Nat,
           NEW v \in Nat, a <= b, g[a] <= v, v < g[b]
    PROVE  \E k \in a .. b - 1 : g[k] <= v /\ v < g[k + 1]
  <1> SUFFICES ASSUME \A k \in a .. b - 1 : g[k] <= v => ~ (v < g[k + 1]) PROVE FALSE
    OBVIOUS
  <1> DEFINE S == {k \in a .. b : g[k] <= v}
  <1>1. a \in S
    OBVIOUS
  <1>2. ASSUME NEW k \in a .. b, k < b /\ k \in S PROVE k + 1 \in S
    <2>1. k \in a .. b - 1 /\ k + 1 \in a .. b /\ g[k] <= v
      BY <1>2
    <2>2. ~ (v < g[k + 1]) /\ g[k + 1] \in Nat
      BY <2>1
    <2> QED  BY <2>1, <2>2
  <1> HIDE DEF S
  <1>3. a .. b \subseteq S
    BY <1>1, <1>2, UpTo
  <1>4. b \in S
    BY <1>3
  <1> QED  BY <1>4 DEF S

(* A function that increases from each argument to the next increases. *)
LEMMA Increasing ==
    ASSUME NEW n \in Nat, NEW g, \A k \in 1 .. n : g[k] \in Nat,
           \A k \in 1 .. n : k < n => g[k] < g[k + 1]
    PROVE  \A j, k \in 1 .. n : j < k => g[j] < g[k]
  <1> SUFFICES ASSUME NEW j \in 1 .. n PROVE \A k \in 1 .. n : j < k => g[j] < g[k]
    OBVIOUS
  <1> DEFINE S == {k \in j .. n : j < k => g[j] < g[k]}
  <1>1. j \in S
    OBVIOUS
  <1>2. ASSUME NEW k \in j .. n, k < n /\ k \in S PROVE k + 1 \in S
    <2>1. k \in 1 .. n /\ k + 1 \in 1 .. n /\ k + 1 \in j .. n
      BY <1>2
    <2>2. g[j] \in Nat /\ g[k] \in Nat /\ g[k + 1] \in Nat /\ g[k] < g[k + 1]
      BY <1>2, <2>1
    <2>3. k = j \/ g[j] < g[k]
      BY <1>2
    <2>4. g[j] < g[k + 1]
      BY <2>2, <2>3
    <2> QED  BY <2>1, <2>4
  <1> HIDE DEF S
  <1>3. j .. n \subseteq S
    <2>1. j \in Nat
      OBVIOUS
    <2> QED  BY <1>1, <1>2, <2>1, UpTo
  <1> QED  BY <1>3 DEF S

(* The function f begins with v and goes on with the step G. *)
Recursion(f, n, v, G) == f[0] = v /\ \A k \in 1 .. n : f[k] = G[<<k, f[k - 1]>>]

(* A function defined by recursion over 0 .. n, whose step G maps into V, exists. *)
LEMMA RecursiveFunction ==
    ASSUME NEW n \in Nat, NEW V, NEW v \in V, NEW G \in [(1 .. n) \X V -> V]
    PROVE  \E f \in [0 .. n -> V] : Recursion(f, n, v, G)
  <1> DEFINE Prefix(f, m) == /\ f \in [0 .. m -> V] /\ f[0] = v
                           /\ \A k \in 1 .. m : f[k] = G[<<k, f[k - 1]>>]
             S == {m \in 0 .. n : \E f : Prefix(f, m)}
  <1>1. 0 \in S
    <2>1. Prefix([k \in 0 .. 0 |-> v], 0) /\ 0 \in 0 .. n
      OBVIOUS
    <2> HIDE DEF Prefix
    <2> QED  BY <2>1
  <1>2. ASSUME NEW m \in 0 .. n, m < n /\ m \in S PROVE m + 1 \in S
    <2>1. PICK f : Prefix(f, m)
      BY <1>2
    <2> DEFINE w == G[<<m + 1, f[m]>>]
               g == [k \in 0 .. m + 1 |-> IF k = m + 1 THEN w ELSE f[k]]
    <2>2. f[m] \in V /\ m + 1 \in 1 .. n /\ m + 1 \in 0 .. n
      BY <1>2, <2>1
    <2>3. w \in V
      BY <2>2
    <2>4. \A k \in 0 .. m : f[k] \in V /\ k # m + 1 /\ k \in 0 .. m + 1
      BY <2>1
    <2>5. \A k \in 0 .. m : g[k] = f[k]
      BY <2>4
    <2>6. g[m + 1] = w
      OBVIOUS
    <2>7. g \in [0 .. m + 1 -> V]
      <3>1. \A k \in 0 .. m + 1 : k # m + 1 => k \in 0 .. m
        OBVIOUS
      <3>2. \A k \in 0 .. m + 1 : (IF k = m + 1 THEN w ELSE f[k]) \in V
        BY <2>3, <2>4, <3>1
      <3> HIDE DEF w
      <3> QED  BY <3>2
    <2>8. ASSUME NEW k \in 1 .. m + 1 PROVE g[k] = G[<<k, g[k - 1]>>]
      <3>1. k - 1 \in 0 .. m /\ g[k - 1] = f[k - 1]
        BY <2>5
      <3>2. CASE k = m + 1
        <4>1. k - 1 = m
          BY <3>2
        <4> HIDE DEF g
        <4> QED  BY <2>6, <3>1, <3>2, <4>1
      <3>3. CASE k # m + 1
        <4>1. k \in 1 .. m /\ k \in 0 .. m
          BY <3>3
        <4>2. g[k] = f[k]
          BY <2>5, <4>1
        <4> HIDE DEF g
        <4> QED  BY <2>1, <3>1, <4>1, <4>2
      <3> QED  BY <3>2, <3>3
    <2>9. g[0] = v
      BY <2>1, <2>5
    <2> HIDE DEF g, w
    <2>10. Prefix(g, m + 1)
      BY <2>7, <2>8, <2>9
    <2> QED  BY <2>2, <2>10
  <1>3. 0 .. n \subseteq S
    <2> HIDE DEF S
    <2> QED  BY <1>1, <1>2, UpTo
  <1>4. n \in S
    BY <1>3
  <1> QED  BY <1>4 DEF Recursion

-----------------------------------------------------------------------------
(* The inductive invariant *)

Node == [d : Nat, length : Nat, u : Nat]

(* Bytes in front of entry i, and behind the last entry all bytes of s. *)
Off(s) == [i \in 1 .. Len(s) + 1 |-> Sum(s)[i - 1]]

(***************************************************************************)
(* The list's entry e stands for the entries a .. b - 1 of s, which are    *)
(* adjacent.  If there are none, only its length matters: it is zero, and  *)
(* where it points to is left over from an entry that was swallowed.       *)
(***************************************************************************)
Group(s, e, a, b) ==
    /\ a <= b
    /\ e.length = Off(s)[b] - Off(s)[a]
    /\ a < b => /\ e.d = s[a].d /\ e.u = Off(s)[a]
                /\ \A i \in a .. b - 1 : s[i].d = e.d + (Off(s)[i] - Off(s)[a])

(* Entry k of the list l stands for the entries f[k] .. f[k + 1] - 1 of s. *)
Bounds(s, l) == [1 .. Len(l) + 1 -> 1 .. Len(s) + 1]

Grouped(s, l, f) ==
    /\ f[1] = 1
    /\ \A k \in 1 .. Len(l) : Group(s, l[k], f[k], f[k + 1])

(* The list is the kernel's, split into groups. *)
ListGrouped ==
    sglist # <<>> => \E f \in Bounds(scatter, sglist) :
                         Grouped(scatter, sglist, f) /\ f[Len(sglist) + 1] = Len(scatter) + 1

Nonzero(l) == {k \in 1 .. Len(l) : l[k].length # 0}

(* The number of entries that are left is kept right while entries are merged. *)
EntriesCounted == sglist # <<>> => entries = Cardinality(Nonzero(sglist))

(* Where the passes are: in front of the cursor nothing is merged yet. *)
PassOK ==
    /\ sglist = <<>> => pc = "idle" /\ cursor = 1 /\ entries = 0
    /\ pc = "merge" => \A k \in 1 .. Len(sglist) : k > cursor => sglist[k].length # 0
    /\ pc = "idle" /\ sglist # <<>> => entries = Len(sglist) /\ cursor = Len(sglist) + 1
    /\ pc # "copy" /\ entries = Len(sglist) =>
          \A k \in 1 .. Len(sglist) : k < cursor => ~Adjacent(k)
    /\ pc = "copy" => entries # Len(sglist)

IInv ==
    /\ TypeOK /\ scatter \in Scatters /\ Len(sglist) <= Len(scatter)
    /\ ListGrouped /\ EntriesCounted /\ PassOK

-----------------------------------------------------------------------------
(* The bytes in front of an entry *)

(* The recursive definition of the sum has a solution, which Sum is. *)
LEMMA SumEquation ==
    ASSUME NEW s \in Seq(Entry)
    PROVE  /\ Sum(s) \in [0 .. Len(s) -> Nat] /\ Sum(s)[0] = 0
           /\ \A k \in 1 .. Len(s) : Sum(s)[k] = Sum(s)[k - 1] + s[k].length
  <1> DEFINE n == Len(s)
             Is(f) == f = [k \in 0 .. n |-> IF k = 0 THEN 0 ELSE f[k - 1] + s[k].length]
             G == [p \in (1 .. n) \X Nat |-> p[2] + s[p[1]].length]
  <1>1. n \in Nat /\ \A k \in 1 .. n : s[k].length \in Nat
    <2>1. Len(s) \in Nat /\ \A k \in 1 .. Len(s) : s[k] \in Entry
      OBVIOUS
    <2> QED  BY <2>1 DEF Entry
  <1>2. G \in [(1 .. n) \X Nat -> Nat]
    BY <1>1
  <1>3. PICK f \in [0 .. n -> Nat] : Recursion(f, n, 0, G)
    <2>1. 0 \in Nat
      OBVIOUS
    <2> HIDE DEF G, n
    <2> QED  BY <1>1, <1>2, <2>1, RecursiveFunction
  <1>4. \A k \in 1 .. n : k - 1 \in 0 .. n /\ f[k - 1] \in Nat /\ f[k] = f[k - 1] + s[k].length
    <2> TAKE k \in 1 .. n
    <2>1. k - 1 \in 0 .. n
      BY <1>1
    <2>2. f[k - 1] \in Nat
      BY <1>3, <2>1
    <2>3. \A p \in (1 .. n) \X Nat : G[p] = p[2] + s[p[1]].length
      OBVIOUS
    <2>4. <<k, f[k - 1]>> \in (1 .. n) \X Nat
      BY <2>2
    <2> HIDE DEF G
    <2> QED  BY <1>3, <2>1, <2>2, <2>3, <2>4 DEF Recursion
  <1>5. Is(f)
    <2>1. f = [k \in 0 .. n |-> f[k]]
      BY <1>3
    <2>2. \A k \in 0 .. n : f[k] = IF k = 0 THEN 0 ELSE f[k - 1] + s[k].length
      BY <1>1, <1>3, <1>4 DEF Recursion
    <2> QED  BY <2>1, <2>2
  <1>6. Sum(s) = CHOOSE g : Is(g)
    BY DEF Sum
  <1>7. Is(Sum(s))
    BY <1>5, <1>6
  <1>8. PICK g : g = Sum(s)
    OBVIOUS
  <1>9. g[0] = 0 /\ \A k \in 1 .. n : g[k] = g[k - 1] + s[k].length
    BY <1>1, <1>7, <1>8
  <1>10. \A k \in 0 .. n : g[k] \in Nat
    <2> DEFINE S == {k \in 0 .. n : g[k] \in Nat}
    <2>1. 0 \in S
      BY <1>1, <1>9
    <2>2. ASSUME NEW k \in 0 .. n, k < n /\ k \in S PROVE k + 1 \in S
      <3>1. k + 1 \in 1 .. n /\ k + 1 \in 0 .. n /\ (k + 1) - 1 = k
        BY <1>1, <2>2
      <3>2. g[k + 1] = g[k] + s[k + 1].length
        BY <1>9, <3>1
      <3> QED  BY <1>1, <2>2, <3>1, <3>2
    <2> HIDE DEF S
    <2>3. 0 .. n \subseteq S
      BY <1>1, <2>1, <2>2, UpTo
    <2> QED  BY <2>3 DEF S
  <1>11. g \in [0 .. n -> Nat]
    BY <1>7, <1>8, <1>10
  <1> QED  BY <1>8, <1>9, <1>11

(* What the kernel exposes is a list of entries that are not empty. *)
LEMMA ScatterFacts ==
    ASSUME NEW s \in Scatters
    PROVE  /\ s \in Seq(Entry) /\ Len(s) \in Nat \ {0} /\ DOMAIN s = 1 .. Len(s)
           /\ \A i \in 1 .. Len(s) : /\ s[i] \in Entry /\ s[i].d \in Nat
                                     /\ s[i].length \in Nat \ {0}
  <1>1. s \in Seq(Entry) /\ s # <<>> /\ \A k \in DOMAIN s : s[k].length > 0
    BY SGAssumption
  <1>2. Len(s) \in Nat /\ DOMAIN s = 1 .. Len(s) /\ \A i \in 1 .. Len(s) : s[i] \in Entry
    BY <1>1
  <1>3. Len(s) # 0
    BY <1>1
  <1> QED  BY <1>1, <1>2, <1>3 DEF Entry

(* Offsets increase, from 0, by the length of an entry. *)
LEMMA OffFacts ==
    ASSUME NEW s \in Scatters
    PROVE  /\ Off(s) \in [1 .. Len(s) + 1 -> Nat] /\ Off(s)[1] = 0
           /\ \A i \in 1 .. Len(s) : Off(s)[i + 1] = Off(s)[i] + s[i].length
           /\ \A i \in 1 .. Len(s) : Offset(s)[i] = Off(s)[i]
           /\ \A i, j \in 1 .. Len(s) + 1 : i < j => Off(s)[i] < Off(s)[j]
  <1>1. PICK n \in Nat : n = Len(s)
    BY ScatterFacts
  <1>2. PICK m : m = Sum(s)
    OBVIOUS
  <1>3. m \in [0 .. n -> Nat] /\ m[0] = 0 /\ \A k \in 1 .. n : m[k] = m[k - 1] + s[k].length
    BY <1>1, <1>2, ScatterFacts, SumEquation
  <1>4. Off(s) = [i \in 1 .. n + 1 |-> m[i - 1]] /\ Offset(s) = [i \in 1 .. n |-> m[i - 1]]
    BY <1>1, <1>2 DEF Off, Offset
  <1>5. PICK o : o = Off(s)
    OBVIOUS
  <1>6. o \in [1 .. n + 1 -> Nat] /\ o[1] = 0
    BY <1>3, <1>4, <1>5
  <1>7. \A i \in 1 .. n : o[i + 1] = o[i] + s[i].length
    <2> TAKE i \in 1 .. n
    <2>1. o[i] = m[i - 1] /\ o[i + 1] = m[i]
      BY <1>4, <1>5
    <2> QED  BY <1>3, <2>1
  <1>8. \A i \in 1 .. n : Offset(s)[i] = o[i]
    BY <1>4, <1>5
  <1>9. \A k \in 1 .. n + 1 : k < n + 1 => o[k] < o[k + 1]
    <2> TAKE k \in 1 .. n + 1
    <2> HAVE k < n + 1
    <2>1. k \in 1 .. n /\ o[k] \in Nat /\ s[k].length \in Nat \ {0}
      BY <1>1, <1>6, ScatterFacts
    <2> QED  BY <1>7, <2>1
  <1>10. \A i, j \in 1 .. n + 1 : i < j => o[i] < o[j]
    <2>1. \A k \in 1 .. n + 1 : o[k] \in Nat
      BY <1>6
    <2>2. n + 1 \in Nat
      OBVIOUS
    <2> QED  BY <1>9, <2>1, <2>2, Increasing
  <1> QED  BY <1>1, <1>5, <1>6, <1>7, <1>8, <1>10

-----------------------------------------------------------------------------
(* Groups of entries *)

(* Every entry has its type, and is empty if and only if it stands for nothing. *)
LEMMA GroupFacts ==
    ASSUME NEW s \in Scatters, NEW e \in Node,
           NEW a \in 1 .. Len(s) + 1, NEW b \in 1 .. Len(s) + 1, Group(s, e, a, b)
    PROVE  (e.length = 0 <=> a = b) /\ (e.length # 0 <=> a < b)
  <1>1. PICK o : o = Off(s)
    OBVIOUS
  <1>2. o[a] \in Nat /\ o[b] \in Nat /\ (a < b => o[a] < o[b])
    BY <1>1, OffFacts
  <1>3. a <= b /\ e.length = o[b] - o[a] /\ a \in Nat /\ b \in Nat
    BY <1>1, ScatterFacts DEF Group
  <1> QED  BY <1>2, <1>3

(* The list that is loaded has one group per entry. *)
LEMMA ConvertedGrouped ==
    ASSUME NEW s \in Scatters
    PROVE  /\ Converted(s) \in Seq(Node) /\ Len(Converted(s)) = Len(s)
           /\ \A k \in 1 .. Len(s) : /\ Converted(s)[k].length = s[k].length
                                     /\ Converted(s)[k].d = s[k].d
                                     /\ Converted(s)[k].u = Off(s)[k]
           /\ \E f \in Bounds(s, Converted(s)) :
                  Grouped(s, Converted(s), f) /\ f[Len(s) + 1] = Len(s) + 1
  <1>1. PICK n \in Nat \ {0} : n = Len(s)
    BY ScatterFacts
  <1>2. PICK o : o = Off(s)
    OBVIOUS
  <1>3. /\ o \in [1 .. n + 1 -> Nat]
        /\ \A i \in 1 .. n : o[i + 1] = o[i] + s[i].length
        /\ \A i \in 1 .. n : Offset(s)[i] = o[i]
    BY <1>1, <1>2, OffFacts
  <1>4. \A i \in 1 .. n : s[i].d \in Nat /\ s[i].length \in Nat
    BY <1>1, ScatterFacts
  <1>5. PICK l : l = Converted(s)
    OBVIOUS
  <1>6. l = [k \in 1 .. n |-> [d |-> s[k].d, length |-> s[k].length, u |-> o[k]]]
    BY <1>1, <1>3, <1>5 DEF Converted
  <1>7. \A k \in 1 .. n : l[k] \in Node
    BY <1>3, <1>4, <1>6 DEF Node
  <1>8. l \in Seq(Node) /\ Len(l) = n
    <2>1. l \in [1 .. n -> Node]
      BY <1>6, <1>7
    <2> QED  BY <2>1
  <1>9. \A k \in 1 .. n : l[k].length = s[k].length /\ l[k].d = s[k].d /\ l[k].u = o[k]
    BY <1>6
  <1> DEFINE f == [k \in 1 .. n + 1 |-> k]
  <1>10. f \in Bounds(s, l) /\ f[1] = 1 /\ f[n + 1] = n + 1
    BY <1>1, <1>8 DEF Bounds
  <1>11. ASSUME NEW k \in 1 .. n PROVE Group(s, l[k], f[k], f[k + 1])
    <2>1. f[k] = k /\ f[k + 1] = k + 1
      OBVIOUS
    <2>2. o[k] \in Nat /\ s[k].length \in Nat /\ o[k + 1] = o[k] + s[k].length /\ s[k].d \in Nat
      BY <1>3, <1>4
    <2>3. k .. (k + 1) - 1 = {k}
      OBVIOUS
    <2>4. \A i \in k .. (k + 1) - 1 : s[i].d = l[k].d + (o[i] - o[k])
      BY <1>9, <2>2, <2>3
    <2>5. k <= k + 1 /\ l[k].length = o[k + 1] - o[k] /\ l[k].d = s[k].d /\ l[k].u = o[k]
      BY <1>9, <2>2
    <2> HIDE DEF f
    <2> QED  BY <1>2, <2>1, <2>4, <2>5 DEF Group
  <1>12. Grouped(s, l, f)
    BY <1>8, <1>10, <1>11 DEF Grouped
  <1> HIDE DEF f
  <1> QED  BY <1>1, <1>2, <1>5, <1>8, <1>9, <1>10, <1>12

(***************************************************************************)
(* However the entries of the kernel's list are grouped: a byte of a group *)
(* is a byte of one of its entries, at the same place of the user's        *)
(* mapping and at the same bus address, and conversely.                    *)
(***************************************************************************)
LEMMA GroupedTranslation ==
    ASSUME NEW s \in Scatters, NEW l \in Seq(Node), NEW f \in Bounds(s, l),
           Grouped(s, l, f), f[Len(l) + 1] = Len(s) + 1
    PROVE  Translation(l) = Translation(Converted(s))
  <1>1. PICK n \in Nat \ {0} : n = Len(s)
    BY ScatterFacts
  <1>2. PICK o : o = Off(s)
    OBVIOUS
  <1>3. /\ o \in [1 .. n + 1 -> Nat]
        /\ \A i \in 1 .. n : o[i + 1] = o[i] + s[i].length
        /\ \A i, j \in 1 .. n + 1 : i < j => o[i] < o[j]
    BY <1>1, <1>2, OffFacts
  <1>4. \A i \in 1 .. n : s[i].d \in Nat /\ s[i].length \in Nat
    BY <1>1, ScatterFacts
  <1>5. PICK c : c = Converted(s)
    OBVIOUS
  <1>6. /\ c \in Seq(Node) /\ Len(c) = n
        /\ \A k \in 1 .. n : c[k].length = s[k].length /\ c[k].d = s[k].d /\ c[k].u = o[k]
    BY <1>1, <1>2, <1>5, ConvertedGrouped
  <1>7. PICK m \in Nat : m = Len(l)
    OBVIOUS
  <1>8. /\ f \in [1 .. m + 1 -> 1 .. n + 1] /\ f[1] = 1 /\ f[m + 1] = n + 1
        /\ \A k \in 1 .. m : Group(s, l[k], f[k], f[k + 1])
    BY <1>1, <1>7 DEF Bounds, Grouped
  <1>9. DOMAIN l = 1 .. m /\ DOMAIN c = 1 .. n /\ \A k \in 1 .. m : l[k] \in Node
    BY <1>6, <1>7
  <1>10. ASSUME NEW p \in Translation(l) PROVE p \in Translation(c)
    <2>1. PICK k \in 1 .. m : p \in {<<l[k].u + x, l[k].d + x>> : x \in 0 .. l[k].length - 1}
      BY <1>9 DEF Translation
    <2>2. PICK x : x \in 0 .. l[k].length - 1 /\ p = <<l[k].u + x, l[k].d + x>>
      BY <2>1
    <2>3. PICK a \in 1 .. n + 1, b \in 1 .. n + 1 : a = f[k] /\ b = f[k + 1]
      <3>1. k \in 1 .. m + 1 /\ k + 1 \in 1 .. m + 1
        OBVIOUS
      <3> QED  BY <1>8, <3>1
    <2>4. Group(s, l[k], a, b)
      BY <1>8, <2>3
    <2>5. l[k].length \in Nat /\ l[k].d \in Nat /\ x \in Nat /\ x < l[k].length /\ l[k].length # 0
      <3>1. l[k].length \in Nat /\ l[k].d \in Nat
        BY <1>9 DEF Node
      <3>2. PICK z \in Nat : z = l[k].length
        BY <3>1
      <3>3. x \in 0 .. z - 1
        BY <2>2, <3>2
      <3>4. x \in Nat /\ x < z /\ z # 0
        BY <3>3
      <3> QED  BY <3>1, <3>2, <3>4
    <2>6. a < b
      BY <1>1, <1>9, <2>4, <2>5, GroupFacts
    <2>7. /\ l[k].length = o[b] - o[a] /\ l[k].u = o[a]
          /\ \A i \in a .. b - 1 : s[i].d = l[k].d + (o[i] - o[a])
      BY <1>2, <2>4, <2>6 DEF Group
    <2>8. o[a] \in Nat /\ o[b] \in Nat
      BY <1>3
    <2>9. PICK i \in a .. b - 1 : o[i] <= o[a] + x /\ o[a] + x < o[i + 1]
      <3>1. PICK v \in Nat : v = o[a] + x
        BY <2>5, <2>8
      <3>2. o[a] <= v /\ v < o[b]
        BY <2>5, <2>7, <2>8, <3>1
      <3>3. a \in Nat /\ b \in Nat /\ a <= b
        BY <2>6
      <3>4. \A j \in a .. b : o[j] \in Nat
        BY <1>3
      <3>5. \E j \in a .. b - 1 : o[j] <= v /\ v < o[j + 1]
        BY <3>2, <3>3, <3>4, Located
      <3> QED  BY <3>1, <3>5
    <2>10. i \in 1 .. n /\ i + 1 \in 1 .. n + 1
      OBVIOUS
    <2>11. /\ s[i].d = l[k].d + (o[i] - o[a]) /\ o[i] \in Nat /\ s[i].length \in Nat
           /\ o[i + 1] = o[i] + s[i].length
      <3>1. s[i].d = l[k].d + (o[i] - o[a])
        BY <2>7
      <3>2. o[i] \in Nat
        BY <1>3, <2>10
      <3> QED  BY <1>3, <1>4, <2>10, <3>1, <3>2
    <2>12. PICK oa \in Nat, oi \in Nat, z \in Nat, ld \in Nat :
               oa = o[a] /\ oi = o[i] /\ z = s[i].length /\ ld = l[k].d
      BY <2>5, <2>8, <2>11
    <2>13. PICK y \in 0 .. z - 1 : oa + x = oi + y /\ ld + x = (ld + (oi - oa)) + y
      <3>1. oi <= oa + x /\ oa + x < oi + z
        BY <2>9, <2>11, <2>12
      <3>2. x \in Nat
        BY <2>5
      <3>3. (oa + x) - oi \in 0 .. z - 1
        BY <3>1, <3>2
      <3>4. /\ oa + x = oi + ((oa + x) - oi)
            /\ ld + x = (ld + (oi - oa)) + ((oa + x) - oi)
        BY <3>2
      <3> QED  BY <3>3, <3>4
    <2>14. l[k].u + x = c[i].u + y /\ l[k].d + x = c[i].d + y
      BY <1>6, <2>7, <2>10, <2>11, <2>12, <2>13
    <2>15. p = <<c[i].u + y, c[i].d + y>> /\ y \in 0 .. c[i].length - 1
      BY <1>6, <2>2, <2>10, <2>12, <2>14
    <2> QED  BY <1>9, <2>10, <2>15 DEF Translation
  <1>11. ASSUME NEW p \in Translation(c) PROVE p \in Translation(l)
    <2>1. PICK i \in 1 .. n : p \in {<<c[i].u + y, c[i].d + y>> : y \in 0 .. c[i].length - 1}
      BY <1>9 DEF Translation
    <2>2. PICK y : y \in 0 .. s[i].length - 1 /\ p = <<o[i] + y, s[i].d + y>>
      BY <1>6, <2>1
    <2>3. PICK k \in 1 .. m : f[k] <= i /\ i < f[k + 1]
      <3>1. \A j \in 1 .. m + 1 : f[j] \in Nat
        BY <1>8
      <3>2. 1 \in Nat /\ m + 1 \in Nat /\ 1 <= m + 1 /\ i \in Nat /\ f[1] <= i /\ i < f[m + 1]
        BY <1>8
      <3>3. \E j \in 1 .. (m + 1) - 1 : f[j] <= i /\ i < f[j + 1]
        BY <3>1, <3>2, Located
      <3> QED  BY <3>3
    <2>4. PICK a \in 1 .. n + 1, b \in 1 .. n + 1 : a = f[k] /\ b = f[k + 1]
      <3>1. k \in 1 .. m + 1 /\ k + 1 \in 1 .. m + 1
        OBVIOUS
      <3> QED  BY <1>8, <3>1
    <2>5. a <= i /\ i < b /\ i \in a .. b - 1 /\ a < b
      BY <2>3, <2>4
    <2>6. /\ l[k].length = o[b] - o[a] /\ l[k].u = o[a]
          /\ s[i].d = l[k].d + (o[i] - o[a])
      BY <1>2, <1>8, <2>4, <2>5 DEF Group
    <2>7. /\ o[a] \in Nat /\ o[b] \in Nat /\ o[i] \in Nat /\ s[i].length \in Nat
          /\ o[i + 1] = o[i] + s[i].length /\ l[k].d \in Nat
      <3>1. o[a] \in Nat /\ o[b] \in Nat /\ i \in 1 .. n + 1 /\ i + 1 \in 1 .. n + 1
        BY <1>3
      <3>2. o[i] \in Nat
        BY <1>3, <3>1
      <3>3. l[k].d \in Nat
        BY <1>9 DEF Node
      <3> QED  BY <1>3, <1>4, <3>1, <3>2, <3>3
    <2>8. o[a] <= o[i] /\ o[i + 1] <= o[b]
      <3>1. a = i \/ a < i
        BY <2>5
      <3>2. i + 1 = b \/ i + 1 < b
        BY <2>5
      <3>3. i \in 1 .. n + 1 /\ i + 1 \in 1 .. n + 1
        OBVIOUS
      <3>4. a < i => o[a] < o[i]
        BY <1>3, <3>3
      <3>5. i + 1 < b => o[i + 1] < o[b]
        BY <1>3, <3>3
      <3> QED  BY <2>7, <3>1, <3>2, <3>4, <3>5
    <2>9. PICK oa \in Nat, ob \in Nat, oi \in Nat, z \in Nat, ld \in Nat :
              /\ oa = o[a] /\ ob = o[b] /\ oi = o[i] /\ z = s[i].length /\ ld = l[k].d
              /\ oa <= oi /\ oi + z <= ob
      BY <2>7, <2>8
    <2>10. y \in 0 .. z - 1
      BY <2>2, <2>9
    <2>11. PICK x \in 0 .. (ob - oa) - 1 : oi + y = oa + x /\ (ld + (oi - oa)) + y = ld + x
      <3>1. oa <= oi /\ oi + z <= ob
        BY <2>9
      <3>2. y \in Nat /\ y < z
        BY <2>10
      <3>3. (oi - oa) + y \in 0 .. (ob - oa) - 1
        BY <3>1, <3>2
      <3>4. oi + y = oa + ((oi - oa) + y) /\ (ld + (oi - oa)) + y = ld + ((oi - oa) + y)
        BY <3>2
      <3> QED  BY <3>3, <3>4
    <2>12. x \in 0 .. l[k].length - 1 /\ o[i] + y = l[k].u + x /\ s[i].d + y = l[k].d + x
      BY <2>6, <2>9, <2>11
    <2>13. p = <<l[k].u + x, l[k].d + x>> /\ k \in DOMAIN l
      BY <1>9, <2>2, <2>12
    <2> QED  BY <2>12, <2>13 DEF Translation
  <1> QED  BY <1>5, <1>10, <1>11

-----------------------------------------------------------------------------
(* Merging and copying *)

(* The list l after the entry c has swallowed its successor. *)
Merged(l, c) == [l EXCEPT ![c].length = @ + l[c + 1].length, ![c + 1].length = 0]

LEMMA MergedFacts ==
    ASSUME NEW l \in Seq(Node), NEW c \in 1 .. Len(l), c < Len(l)
    PROVE  /\ Merged(l, c) \in Seq(Node) /\ Len(Merged(l, c)) = Len(l)
           /\ Merged(l, c)[c].length = l[c].length + l[c + 1].length
           /\ Merged(l, c)[c].d = l[c].d /\ Merged(l, c)[c].u = l[c].u
           /\ Merged(l, c)[c + 1].length = 0
           /\ \A k \in 1 .. Len(l) : k # c /\ k # c + 1 => Merged(l, c)[k] = l[k]
  <1>1. PICK n \in Nat : n = Len(l)
    OBVIOUS
  <1>2. l \in [1 .. n -> Node] /\ c \in 1 .. n /\ c + 1 \in 1 .. n
    BY <1>1
  <1>3. PICK x \in Node, y \in Node : x = l[c] /\ y = l[c + 1]
    BY <1>2
  <1>4. PICK x2 : x2 = [x EXCEPT !.length = x.length + y.length]
    OBVIOUS
  <1>5. PICK y2 : y2 = [y EXCEPT !.length = 0]
    OBVIOUS
  <1>6. /\ x2 \in Node /\ x2.length = x.length + y.length /\ x2.d = x.d /\ x2.u = x.u
        /\ y2 \in Node /\ y2.length = 0
    <2>1. /\ x.length \in Nat /\ x.d \in Nat /\ x.u \in Nat
          /\ y.length \in Nat /\ y.d \in Nat /\ y.u \in Nat
          /\ x = [d |-> x.d, length |-> x.length, u |-> x.u]
          /\ y = [d |-> y.d, length |-> y.length, u |-> y.u]
      BY DEF Node
    <2>2. PICK z \in Nat : z = x.length + y.length
      BY <2>1
    <2>3. x2 = [d |-> x.d, length |-> z, u |-> x.u] /\ y2 = [d |-> y.d, length |-> 0, u |-> y.u]
      BY <1>4, <1>5, <2>1, <2>2
    <2> QED  BY <2>1, <2>2, <2>3 DEF Node
  <1>7. PICK l2 : l2 = Merged(l, c)
    OBVIOUS
  <1>8. l2 = [l EXCEPT ![c] = x2, ![c + 1] = y2]
    BY <1>2, <1>3, <1>4, <1>5, <1>7 DEF Merged
  <1>9. l2 \in [1 .. n -> Node] /\ l2[c] = x2 /\ l2[c + 1] = y2
    BY <1>2, <1>6, <1>8
  <1>10. \A k \in 1 .. n : k # c /\ k # c + 1 => l2[k] = l[k]
    BY <1>2, <1>8
  <1>11. l2 \in Seq(Node) /\ Len(l2) = n
    BY <1>9
  <1> QED  BY <1>1, <1>3, <1>6, <1>7, <1>9, <1>10, <1>11

(***************************************************************************)
(* The entry that swallows its successor stands for both groups: they are  *)
(* adjacent.  The successor's group is empty.                              *)
(***************************************************************************)
LEMMA MergedGrouped ==
    ASSUME NEW s \in Scatters, NEW l \in Seq(Node), NEW f \in Bounds(s, l),
           Grouped(s, l, f), f[Len(l) + 1] = Len(s) + 1,
           NEW c \in 1 .. Len(l), c < Len(l), l[c].length # 0,
           l[c].d + l[c].length = l[c + 1].d
    PROVE  \E g \in Bounds(s, Merged(l, c)) :
               Grouped(s, Merged(l, c), g) /\ g[Len(l) + 1] = Len(s) + 1
  <1>1. PICK n \in Nat \ {0} : n = Len(s)
    BY ScatterFacts
  <1>2. PICK o : o = Off(s)
    OBVIOUS
  <1>3. o \in [1 .. n + 1 -> Nat]
    BY <1>1, <1>2, OffFacts
  <1>4. PICK m \in Nat : m = Len(l)
    OBVIOUS
  <1>5. /\ f \in [1 .. m + 1 -> 1 .. n + 1] /\ f[1] = 1 /\ f[m + 1] = n + 1
        /\ \A k \in 1 .. m : Group(s, l[k], f[k], f[k + 1])
    BY <1>1, <1>4 DEF Bounds, Grouped
  <1>6. PICK l2 : l2 = Merged(l, c)
    OBVIOUS
  <1>7. /\ l2 \in Seq(Node) /\ Len(l2) = m
        /\ l2[c].length = l[c].length + l[c + 1].length /\ l2[c].d = l[c].d /\ l2[c].u = l[c].u
        /\ l2[c + 1].length = 0
        /\ \A k \in 1 .. m : k # c /\ k # c + 1 => l2[k] = l[k]
    BY <1>4, <1>6, MergedFacts
  <1>8. c \in 1 .. m /\ c + 1 \in 1 .. m /\ c + 2 \in 1 .. m + 1 /\ c \in 1 .. m + 1
        /\ c + 1 \in 1 .. m + 1 /\ (c + 1) + 1 = c + 2
    BY <1>4
  <1>9. PICK a \in 1 .. n + 1, b \in 1 .. n + 1, e \in 1 .. n + 1 :
            a = f[c] /\ b = f[c + 1] /\ e = f[c + 2]
    BY <1>5, <1>8
  <1>10. Group(s, l[c], a, b) /\ Group(s, l[c + 1], b, e)
    BY <1>5, <1>8, <1>9
  <1>11. a < b /\ b <= e
    <2>1. l[c] \in Node
      BY <1>4, <1>8
    <2> QED  BY <1>1, <1>9, <1>10, <2>1, GroupFacts DEF Group
  <1>12. /\ l[c].length = o[b] - o[a] /\ l[c].d = s[a].d /\ l[c].u = o[a]
         /\ \A i \in a .. b - 1 : s[i].d = l[c].d + (o[i] - o[a])
    BY <1>2, <1>10, <1>11 DEF Group
  <1>13. /\ l[c + 1].length = o[e] - o[b]
         /\ \A i \in b .. e - 1 : s[i].d = l[c + 1].d + (o[i] - o[b])
    <2>1. l[c + 1].length = o[e] - o[b]
      BY <1>2, <1>10 DEF Group
    <2>2. ASSUME NEW i \in b .. e - 1 PROVE s[i].d = l[c + 1].d + (o[i] - o[b])
      <3>1. b < e
        OBVIOUS
      <3> QED  BY <1>2, <1>10, <3>1 DEF Group
    <2> QED  BY <2>1, <2>2
  <1>14. PICK oa \in Nat, ob \in Nat, oe \in Nat, ld \in Nat :
             oa = o[a] /\ ob = o[b] /\ oe = o[e] /\ ld = l[c].d
    <2>1. o[a] \in Nat /\ o[b] \in Nat /\ o[e] \in Nat
      BY <1>3
    <2>2. l[c] \in Node
      BY <1>4, <1>8
    <2> QED  BY <2>1, <2>2 DEF Node
  <1>15. Group(s, l2[c], a, e)
    <2>1. a <= e /\ a < e
      BY <1>11
    <2>2. l2[c].length = o[e] - o[a]
      <3>1. (ob - oa) + (oe - ob) = oe - oa
        OBVIOUS
      <3> QED  BY <1>7, <1>12, <1>13, <1>14, <3>1
    <2>3. ASSUME NEW i \in a .. e - 1 PROVE s[i].d = l2[c].d + (o[i] - o[a])
      <3>1. CASE i \in a .. b - 1
        BY <1>7, <1>12, <3>1
      <3>2. CASE i \notin a .. b - 1
        <4>1. i \in b .. e - 1 /\ i \in 1 .. n + 1
          BY <1>11, <3>2
        <4>2. PICK oi \in Nat : oi = o[i]
          BY <1>3, <4>1
        <4>3. s[i].d = (ld + (ob - oa)) + (oi - ob)
          BY <1>12, <1>13, <1>14, <4>1, <4>2
        <4>4. (ld + (ob - oa)) + (oi - ob) = ld + (oi - oa)
          OBVIOUS
        <4> QED  BY <1>7, <1>14, <4>2, <4>3, <4>4
      <3> QED  BY <3>1, <3>2
    <2>4. l2[c].d = s[a].d /\ l2[c].u = o[a]
      BY <1>7, <1>12
    <2> QED  BY <1>2, <2>1, <2>2, <2>3, <2>4 DEF Group
  <1>16. Group(s, l2[c + 1], e, e)
    <2>1. l2[c + 1].length = o[e] - o[e] /\ e <= e /\ ~ (e < e)
      BY <1>7, <1>14
    <2> QED  BY <1>2, <2>1 DEF Group
  <1> DEFINE g == [k \in 1 .. m + 1 |-> IF k = c + 1 THEN e ELSE f[k]]
  <1>17. g \in [1 .. m + 1 -> 1 .. n + 1] /\ g[1] = 1 /\ g[m + 1] = n + 1
    <2>1. \A k \in 1 .. m + 1 : (IF k = c + 1 THEN e ELSE f[k]) \in 1 .. n + 1
      BY <1>5
    <2>2. 1 # c + 1 /\ m + 1 # c + 1 /\ 1 \in 1 .. m + 1 /\ m + 1 \in 1 .. m + 1
      BY <1>8
    <2> QED  BY <1>5, <2>1, <2>2
  <1>18. \A k \in 1 .. m + 1 : k # c + 1 => g[k] = f[k]
    OBVIOUS
  <1>19. g[c] = a /\ g[c + 1] = e /\ g[c + 2] = e
    BY <1>8, <1>9
  <1> HIDE DEF g
  <1>20. ASSUME NEW k \in 1 .. m PROVE Group(s, l2[k], g[k], g[k + 1])
    <2>1. CASE k = c
      BY <1>15, <1>19, <2>1
    <2>2. CASE k = c + 1
      BY <1>8, <1>16, <1>19, <2>2
    <2>3. CASE k # c /\ k # c + 1
      <3>1. k \in 1 .. m + 1 /\ k + 1 \in 1 .. m + 1 /\ k + 1 # c + 1
        BY <2>3
      <3>2. g[k] = f[k] /\ g[k + 1] = f[k + 1]
        BY <1>18, <2>3, <3>1
      <3> QED  BY <1>5, <1>7, <2>3, <3>2
    <2> QED  BY <2>1, <2>2, <2>3
  <1>21. g \in Bounds(s, l2) /\ Grouped(s, l2, g) /\ g[m + 1] = n + 1
    BY <1>1, <1>7, <1>17, <1>20 DEF Bounds, Grouped
  <1> QED  BY <1>1, <1>4, <1>6, <1>21

(* The entries that are left, and how many they are. *)
LEMMA MergedNonzero ==
    ASSUME NEW l \in Seq(Node), NEW c \in 1 .. Len(l), c < Len(l), l[c].length # 0
    PROVE  Nonzero(Merged(l, c)) = Nonzero(l) \ {c + 1}
  <1>1. PICK l2 : l2 = Merged(l, c)
    OBVIOUS
  <1>2. PICK n \in Nat : n = Len(l)
    OBVIOUS
  <1>3. /\ Len(l2) = n /\ l2[c].length = l[c].length + l[c + 1].length
        /\ l2[c + 1].length = 0
        /\ \A k \in 1 .. n : k # c /\ k # c + 1 => l2[k] = l[k]
    BY <1>1, <1>2, MergedFacts
  <1>4. l2[c].length # 0
    <2>1. c \in 1 .. n /\ c + 1 \in 1 .. n /\ l \in [1 .. n -> Node]
      BY <1>2
    <2>2. l[c].length \in Nat /\ l[c + 1].length \in Nat
      BY <2>1 DEF Node
    <2> QED  BY <1>3, <2>2
  <1>5. ASSUME NEW k \in 1 .. n PROVE l2[k].length # 0 <=> l[k].length # 0 /\ k # c + 1
    <2>1. CASE k = c
      BY <1>4, <2>1
    <2>2. CASE k = c + 1
      BY <1>3, <2>2
    <2>3. CASE k # c /\ k # c + 1
      BY <1>3, <2>3
    <2> QED  BY <2>1, <2>2, <2>3
  <1> QED  BY <1>1, <1>2, <1>3, <1>5 DEF Nonzero

LEMMA NonzeroCount ==
    ASSUME NEW l \in Seq(Node)
    PROVE  /\ IsFiniteSet(Nonzero(l)) /\ Cardinality(Nonzero(l)) \in 0 .. Len(l)
           /\ Cardinality(Nonzero(l)) = Len(l) => Nonzero(l) = 1 .. Len(l)
  <1>1. PICK n \in Nat : n = Len(l)
    OBVIOUS
  <1>2. IsFiniteSet(1 .. n) /\ Cardinality(1 .. n) = n
    BY FS_Interval
  <1>3. Nonzero(l) \subseteq 1 .. n
    BY <1>1 DEF Nonzero
  <1>4. /\ IsFiniteSet(Nonzero(l)) /\ Cardinality(Nonzero(l)) <= n
        /\ Cardinality(Nonzero(l)) = n => Nonzero(l) = 1 .. n
    BY <1>2, <1>3, FS_Subset
  <1>5. Cardinality(Nonzero(l)) \in Nat
    BY <1>4, FS_CardinalityType
  <1> QED  BY <1>1, <1>4, <1>5

(* The recursive definition of the copying loop has a solution, which Copied is. *)
LEMMA CopiedEquation ==
    ASSUME NEW l \in Seq(Node)
    PROVE  /\ Copied(l)[0] = <<>>
           /\ \A k \in 1 .. Len(l) :
                 Copied(l)[k] = IF l[k].length = 0 THEN Copied(l)[k - 1]
                                ELSE Append(Copied(l)[k - 1], l[k])
  <1> DEFINE n == Len(l)
             Is(f) == f = [k \in 0 .. n |->
                             IF k = 0 THEN <<>>
                             ELSE IF l[k].length = 0 THEN f[k - 1] ELSE Append(f[k - 1], l[k])]
             G == [p \in (1 .. n) \X Seq(Node) |->
                       IF l[p[1]].length = 0 THEN p[2] ELSE Append(p[2], l[p[1]])]
  <1>1. n \in Nat /\ \A k \in 1 .. n : l[k] \in Node
    OBVIOUS
  <1>2. G \in [(1 .. n) \X Seq(Node) -> Seq(Node)]
    <2>1. ASSUME NEW p \in (1 .. n) \X Seq(Node)
          PROVE  (IF l[p[1]].length = 0 THEN p[2] ELSE Append(p[2], l[p[1]])) \in Seq(Node)
      <3>1. p[1] \in 1 .. n /\ p[2] \in Seq(Node)
        OBVIOUS
      <3>2. l[p[1]] \in Node
        BY <1>1, <3>1
      <3>3. Append(p[2], l[p[1]]) \in Seq(Node)
        BY <3>1, <3>2
      <3> QED  BY <3>1, <3>3
    <2> QED  BY <2>1
  <1>3. PICK f \in [0 .. n -> Seq(Node)] : Recursion(f, n, <<>>, G)
    <2>1. <<>> \in Seq(Node)
      OBVIOUS
    <2> HIDE DEF G, n
    <2> QED  BY <1>1, <1>2, <2>1, RecursiveFunction
  <1>4. \A k \in 1 .. n :
            f[k] = IF l[k].length = 0 THEN f[k - 1] ELSE Append(f[k - 1], l[k])
    <2> TAKE k \in 1 .. n
    <2>1. k - 1 \in 0 .. n
      BY <1>1
    <2>2. f[k - 1] \in Seq(Node)
      BY <1>3, <2>1
    <2>3. \A x \in 1 .. n : \A y \in Seq(Node) :
              G[<<x, y>>] = IF l[x].length = 0 THEN y ELSE Append(y, l[x])
      OBVIOUS
    <2> HIDE DEF G
    <2>4. G[<<k, f[k - 1]>>] = IF l[k].length = 0 THEN f[k - 1] ELSE Append(f[k - 1], l[k])
      BY <2>2, <2>3
    <2> QED  BY <1>3, <2>4 DEF Recursion
  <1>5. Is(f)
    <2>1. f = [k \in 0 .. n |-> f[k]]
      BY <1>3
    <2>2. \A k \in 0 .. n : f[k] = IF k = 0 THEN <<>> ELSE
              IF l[k].length = 0 THEN f[k - 1] ELSE Append(f[k - 1], l[k])
      <3> TAKE k \in 0 .. n
      <3>1. k # 0 => k \in 1 .. n
        BY <1>1
      <3>2. f[0] = <<>>
        BY <1>3 DEF Recursion
      <3> QED  BY <1>4, <3>1, <3>2
    <2> QED  BY <2>1, <2>2
  <1>6. Copied(l) = CHOOSE g : Is(g)
    BY DEF Copied
  <1>7. Is(Copied(l))
    BY <1>5, <1>6
  <1>8. PICK g : g = Copied(l)
    OBVIOUS
  <1>9. 0 \in 0 .. n /\ \A k \in 1 .. n : k \in 0 .. n /\ k # 0
    BY <1>1
  <1>10. \A k \in 0 .. n : g[k] = IF k = 0 THEN <<>> ELSE
            IF l[k].length = 0 THEN g[k - 1] ELSE Append(g[k - 1], l[k])
    BY <1>7, <1>8
  <1> QED  BY <1>8, <1>9, <1>10

(***************************************************************************)
(* What has been copied after the first k entries: c, in the groups g that *)
(* end where the group of entry k does, as many entries as are not empty.  *)
(***************************************************************************)
CopyRight(s, l, f, k, c) ==
    /\ c \in Seq(Node) /\ Nonzero(c) = 1 .. Len(c)
    /\ Len(c) = Cardinality({j \in 1 .. k : l[j].length # 0})
    /\ \E g \in Bounds(s, c) : Grouped(s, c, g) /\ g[Len(c) + 1] = f[k + 1]

(* An entry is copied: it comes behind the groups that there are. *)
LEMMA CopyOne ==
    ASSUME NEW s \in Scatters, NEW c \in Seq(Node), NEW e \in Node, e.length # 0,
           NEW g \in Bounds(s, c), Grouped(s, c, g),
           NEW b \in 1 .. Len(s) + 1, Group(s, e, g[Len(c) + 1], b),
           Nonzero(c) = 1 .. Len(c)
    PROVE  /\ Append(c, e) \in Seq(Node) /\ Len(Append(c, e)) = Len(c) + 1
           /\ Nonzero(Append(c, e)) = 1 .. Len(c) + 1
           /\ \E h \in Bounds(s, Append(c, e)) :
                  Grouped(s, Append(c, e), h) /\ h[Len(c) + 2] = b
  <1>1. PICK m \in Nat : m = Len(c)
    OBVIOUS
  <1>2. PICK l : l = Append(c, e)
    OBVIOUS
  <1>3. l \in Seq(Node) /\ Len(l) = m + 1 /\ l[m + 1] = e /\ \A k \in 1 .. m : l[k] = c[k]
    BY <1>1, <1>2
  <1>4. \A k \in 1 .. m + 1 : k \in 1 .. m \/ k = m + 1
    OBVIOUS
  <1>5. Nonzero(l) = 1 .. m + 1
    <2>1. \A k \in 1 .. m : c[k].length # 0
      BY <1>1 DEF Nonzero
    <2>2. \A k \in 1 .. m + 1 : l[k].length # 0
      BY <1>3, <1>4, <2>1
    <2> QED  BY <1>3, <2>2 DEF Nonzero
  <1>6. PICK n \in Nat : n = Len(s)
    BY ScatterFacts
  <1>7. /\ g \in [1 .. m + 1 -> 1 .. n + 1] /\ g[1] = 1
        /\ \A k \in 1 .. m : Group(s, c[k], g[k], g[k + 1])
    BY <1>1, <1>6 DEF Bounds, Grouped
  <1> DEFINE h == [k \in 1 .. m + 2 |-> IF k = m + 2 THEN b ELSE g[k]]
  <1>8. h[m + 2] = b
    OBVIOUS
  <1>9. \A k \in 1 .. m + 1 : h[k] = g[k]
    OBVIOUS
  <1>10. h \in [1 .. m + 2 -> 1 .. n + 1]
    <2>1. \A k \in 1 .. m + 2 : (IF k = m + 2 THEN b ELSE g[k]) \in 1 .. n + 1
      BY <1>6, <1>7
    <2> QED  BY <2>1
  <1> HIDE DEF h
  <1>11. ASSUME NEW k \in 1 .. m + 1 PROVE Group(s, l[k], h[k], h[k + 1])
    <2>1. CASE k \in 1 .. m
      <3>1. k \in 1 .. m + 1 /\ k + 1 \in 1 .. m + 1
        BY <2>1
      <3>2. h[k] = g[k] /\ h[k + 1] = g[k + 1] /\ l[k] = c[k]
        BY <1>3, <1>9, <2>1, <3>1
      <3> QED  BY <1>7, <2>1, <3>2
    <2>2. CASE k = m + 1
      <3>1. k + 1 = m + 2 /\ h[k] = g[m + 1] /\ l[k] = e
        BY <1>3, <1>9, <2>2
      <3> QED  BY <1>1, <1>8, <3>1
    <2> QED  BY <1>4, <2>1, <2>2
  <1>12. (m + 1) + 1 = m + 2 /\ h[1] = 1
    BY <1>7, <1>9
  <1>13. h \in Bounds(s, l) /\ Grouped(s, l, h)
    BY <1>3, <1>6, <1>10, <1>11, <1>12 DEF Bounds, Grouped
  <1> QED  BY <1>1, <1>2, <1>3, <1>5, <1>8, <1>13

(* Copying the whole list keeps the groups and leaves the empty ones out. *)
LEMMA CopiedGrouped ==
    ASSUME NEW s \in Scatters, NEW l \in Seq(Node), NEW f \in Bounds(s, l), Grouped(s, l, f)
    PROVE  CopyRight(s, l, f, Len(l), Copied(l)[Len(l)])
  <1>1. PICK n \in Nat : n = Len(l)
    OBVIOUS
  <1>2. PICK N \in Nat : N = Len(s)
    BY ScatterFacts
  <1>3. /\ f \in [1 .. n + 1 -> 1 .. N + 1] /\ f[1] = 1
        /\ \A k \in 1 .. n : Group(s, l[k], f[k], f[k + 1])
    BY <1>1, <1>2 DEF Bounds, Grouped
  <1>4. PICK new : new = Copied(l)
    OBVIOUS
  <1>5. /\ new[0] = <<>>
        /\ \A k \in 1 .. n : new[k] = IF l[k].length = 0 THEN new[k - 1] ELSE Append(new[k - 1], l[k])
    BY <1>1, <1>4, CopiedEquation
  <1> DEFINE S == {k \in 0 .. n : CopyRight(s, l, f, k, new[k])}
  <1>6. 0 \in S
    <2>1. {j \in 1 .. 0 : l[j].length # 0} = {}
      OBVIOUS
    <2>2. Cardinality({j \in 1 .. 0 : l[j].length # 0}) = 0
      BY <2>1, FS_EmptySet
    <2>3. <<>> \in Seq(Node) /\ Len(<<>>) = 0 /\ 1 .. Len(<<>>) = {} /\ 0 + 1 = 1
      OBVIOUS
    <2>4. Nonzero(<<>>) = 1 .. Len(<<>>)
      BY <2>3 DEF Nonzero
    <2> DEFINE g == [k \in 1 .. 1 |-> 1]
    <2>5. g \in Bounds(s, <<>>) /\ g[1] = 1
      BY <1>2, <2>3 DEF Bounds
    <2> HIDE DEF g
    <2>6. Grouped(s, <<>>, g) /\ g[Len(<<>>) + 1] = f[0 + 1]
      BY <1>3, <2>3, <2>5 DEF Grouped
    <2>7. CopyRight(s, l, f, 0, <<>>)
      BY <2>2, <2>3, <2>4, <2>5, <2>6 DEF CopyRight
    <2> QED  BY <1>5, <2>7
  <1>7. ASSUME NEW k \in 0 .. n, k < n /\ k \in S PROVE k + 1 \in S
    <2>1. PICK q \in 1 .. n : q = k + 1
      BY <1>7
    <2>2. q - 1 = k /\ k \in Nat /\ q \in 1 .. n + 1 /\ q + 1 \in 1 .. n + 1 /\ q \in 0 .. n
      BY <2>1
    <2>3. PICK c : c = new[k]
      OBVIOUS
    <2>4. /\ c \in Seq(Node) /\ Nonzero(c) = 1 .. Len(c)
          /\ Len(c) = Cardinality({j \in 1 .. k : l[j].length # 0})
      BY <1>7, <2>3 DEF CopyRight
    <2>5. PICK g \in Bounds(s, c) : Grouped(s, c, g) /\ g[Len(c) + 1] = f[q]
      BY <1>7, <2>1, <2>3 DEF CopyRight
    <2>6. Group(s, l[q], f[q], f[q + 1]) /\ f[q] \in 1 .. N + 1 /\ f[q + 1] \in 1 .. N + 1
      BY <1>3, <2>2
    <2>7. l[q] \in Node
      BY <1>1
    <2>8. 1 .. q = (1 .. k) \cup {q} /\ q \notin 1 .. k
      BY <2>1, <2>2
    <2>9. PICK A : A = {j \in 1 .. k : l[j].length # 0}
      OBVIOUS
    <2>10. IsFiniteSet(A) /\ q \notin A
      <3>1. IsFiniteSet(1 .. k)
        BY <2>2, FS_Interval
      <3> QED  BY <2>8, <2>9, <3>1, FS_Subset
    <2>11. CASE l[q].length = 0
      <3>1. new[q] = c
        BY <1>5, <2>2, <2>3, <2>11
      <3>2. f[q] = f[q + 1]
        BY <1>2, <2>6, <2>7, <2>11, GroupFacts
      <3>3. {j \in 1 .. q : l[j].length # 0} = A
        BY <2>8, <2>9, <2>11
      <3>4. CopyRight(s, l, f, q, new[q])
        BY <2>4, <2>5, <2>9, <3>1, <3>2, <3>3 DEF CopyRight
      <3> QED  BY <2>1, <2>2, <3>4
    <2>12. CASE l[q].length # 0
      <3>1. PICK d : d = Append(c, l[q])
        OBVIOUS
      <3>2. new[q] = d
        BY <1>5, <2>2, <2>3, <2>12, <3>1
      <3>3. PICK b \in 1 .. N + 1 : b = f[q + 1]
        BY <2>6
      <3>4. Group(s, l[q], g[Len(c) + 1], b)
        BY <2>5, <2>6, <3>3
      <3>5. /\ d \in Seq(Node) /\ Len(d) = Len(c) + 1 /\ Nonzero(d) = 1 .. Len(c) + 1
            /\ \E h \in Bounds(s, d) : Grouped(s, d, h) /\ h[Len(c) + 2] = b
        BY <1>2, <2>4, <2>5, <2>7, <2>12, <3>1, <3>3, <3>4, CopyOne
      <3>6. {j \in 1 .. q : l[j].length # 0} = A \cup {q}
        BY <2>8, <2>9, <2>12
      <3>7. Cardinality(A \cup {q}) = Cardinality(A) + 1
        BY <2>10, FS_AddElement
      <3>8. Len(d) = Cardinality({j \in 1 .. q : l[j].length # 0})
        BY <2>4, <2>9, <3>5, <3>6, <3>7
      <3>9. Len(d) + 1 = Len(c) + 2
        BY <2>4, <3>5
      <3>10. CopyRight(s, l, f, q, d)
        BY <3>3, <3>5, <3>8, <3>9 DEF CopyRight
      <3> QED  BY <2>1, <2>2, <3>2, <3>10
    <2> QED  BY <2>11, <2>12
  <1> HIDE DEF S
  <1>8. 0 .. n \subseteq S
    BY <1>6, <1>7, UpTo
  <1>9. n \in S
    BY <1>8
  <1> QED  BY <1>1, <1>4, <1>9 DEF S

-----------------------------------------------------------------------------
(* Runs of adjacent entries *)

Values(g, n) == {g[k] : k \in 1 .. n}

(* The values of an increasing function up to its k-th are k values. *)
LEMMA CountUpTo ==
    ASSUME NEW n \in Nat, NEW g, \A k \in 1 .. n : g[k] \in Nat,
           \A j, k \in 1 .. n : j < k => g[j] < g[k],
           NEW k \in 1 .. n
    PROVE  Cardinality({x \in Values(g, n) : x <= g[k]}) = k
  <1> DEFINE T == {x \in Values(g, n) : x <= g[k]}
             b == [j \in 1 .. k |-> g[j]]
  <1>1. \A j \in 1 .. k : j \in 1 .. n /\ g[j] \in Nat /\ (j = k \/ j < k)
    OBVIOUS
  <1>2. \A j \in 1 .. k : g[j] \in T
    <2> TAKE j \in 1 .. k
    <2>1. g[j] \in Values(g, n)
      BY <1>1 DEF Values
    <2>2. g[j] = g[k] \/ g[j] < g[k]
      BY <1>1
    <2> QED  BY <1>1, <2>1, <2>2
  <1>3. \A x \in T : \E j \in 1 .. k : x = g[j]
    <2> TAKE x \in T
    <2>1. PICK j \in 1 .. n : x = g[j]
      BY DEF Values
    <2>2. ~ (k < j)
      <3> SUFFICES ASSUME k < j PROVE FALSE
        OBVIOUS
      <3>1. g[k] < g[j] /\ g[j] <= g[k] /\ g[k] \in Nat /\ g[j] \in Nat
        BY <2>1
      <3> QED  BY <3>1
    <2>3. j \in 1 .. k
      BY <2>2
    <2> QED  BY <2>1, <2>3
  <1>4. \A i, j \in 1 .. k : i # j => g[i] # g[j]
    <2> TAKE i \in 1 .. k, j \in 1 .. k
    <2> HAVE i # j
    <2>1. i < j \/ j < i
      OBVIOUS
    <2>2. i \in 1 .. n /\ j \in 1 .. n /\ g[i] \in Nat /\ g[j] \in Nat
      BY <1>1
    <2>3. g[i] < g[j] \/ g[j] < g[i]
      BY <2>1, <2>2
    <2> QED  BY <2>2, <2>3
  <1> HIDE DEF T
  <1>5. b \in [1 .. k -> T] /\ \A j \in 1 .. k : b[j] = g[j]
    BY <1>2
  <1> HIDE DEF b
  <1>6. b \in Bijection(1 .. k, T)
    <2>1. \A i, j \in 1 .. k : b[i] = b[j] => i = j
      BY <1>4, <1>5
    <2>2. \A x \in T : \E j \in 1 .. k : b[j] = x
      BY <1>3, <1>5
    <2> QED  BY <1>5, <2>1, <2>2 DEF Bijection, Injection, Surjection, IsInjective
  <1>7. ExistsBijection(1 .. k, T) /\ k \in Nat
    BY <1>6 DEF ExistsBijection
  <1>8. Cardinality(T) = k
    BY <1>7, FS_CountingElements
  <1> QED  BY <1>8 DEF T

(***************************************************************************)
(* A list without empty and without adjacent entries has one group per     *)
(* maximal run: within a group the entries are adjacent, and between two   *)
(* groups they are not.                                                    *)
(***************************************************************************)
LEMMA GroupsAreRuns ==
    ASSUME NEW s \in Scatters, NEW l \in Seq(Node), NEW f \in Bounds(s, l),
           Grouped(s, l, f), f[Len(l) + 1] = Len(s) + 1, Nonzero(l) = 1 .. Len(l),
           \A k \in 1 .. Len(l) : k < Len(l) => l[k].d + l[k].length # l[k + 1].d
    PROVE  /\ Len(l) = Cardinality(RunStarts(s))
           /\ \A k \in 1 .. Len(l) :
                 /\ f[k] \in RunStarts(s)
                 /\ Cardinality({x \in RunStarts(s) : x <= f[k]}) = k
                 /\ l[k].d = s[f[k]].d /\ l[k].u = Offset(s)[f[k]]
  <1>1. PICK n \in Nat \ {0} : n = Len(s) /\ DOMAIN s = 1 .. n
    BY ScatterFacts
  <1>2. PICK o : o = Off(s)
    OBVIOUS
  <1>3. /\ o \in [1 .. n + 1 -> Nat]
        /\ \A i \in 1 .. n : o[i + 1] = o[i] + s[i].length
        /\ \A i \in 1 .. n : Offset(s)[i] = o[i]
    BY <1>1, <1>2, OffFacts
  <1>4. \A i \in 1 .. n : s[i].d \in Nat /\ s[i].length \in Nat
    BY <1>1, ScatterFacts
  <1>5. PICK m \in Nat : m = Len(l)
    OBVIOUS
  <1>6. /\ f \in [1 .. m + 1 -> 1 .. n + 1] /\ f[1] = 1 /\ f[m + 1] = n + 1
        /\ \A k \in 1 .. m : Group(s, l[k], f[k], f[k + 1])
    BY <1>1, <1>5 DEF Bounds, Grouped
  <1>7. \A k \in 1 .. m : l[k] \in Node /\ l[k].length # 0
    BY <1>5 DEF Nonzero
  <1>8. ASSUME NEW k \in 1 .. m
        PROVE  /\ f[k] \in 1 .. n + 1 /\ f[k + 1] \in 1 .. n + 1 /\ f[k] < f[k + 1]
               /\ l[k].length = o[f[k + 1]] - o[f[k]] /\ l[k].d \in Nat
               /\ l[k].d = s[f[k]].d /\ l[k].u = o[f[k]]
               /\ \A i \in f[k] .. f[k + 1] - 1 : s[i].d = l[k].d + (o[i] - o[f[k]])
    <2>1. k \in 1 .. m + 1 /\ k + 1 \in 1 .. m + 1
      OBVIOUS
    <2>2. PICK a \in 1 .. n + 1, b \in 1 .. n + 1 : a = f[k] /\ b = f[k + 1]
      BY <1>6, <2>1
    <2>3. Group(s, l[k], a, b) /\ l[k] \in Node /\ l[k].length # 0
      BY <1>6, <1>7, <2>2
    <2>4. a < b
      BY <1>1, <2>2, <2>3, GroupFacts
    <2>5. l[k].d \in Nat
      BY <2>3 DEF Node
    <2> QED  BY <1>2, <2>2, <2>3, <2>4, <2>5 DEF Group
  <1>9. \A j, k \in 1 .. m + 1 : j < k => f[j] < f[k]
    <2>1. \A k \in 1 .. m + 1 : f[k] \in Nat
      BY <1>6
    <2>2. \A k \in 1 .. m + 1 : k < m + 1 => k \in 1 .. m
      OBVIOUS
    <2>3. \A k \in 1 .. m + 1 : k < m + 1 => f[k] < f[k + 1]
      BY <1>8, <2>2
    <2>4. m + 1 \in Nat
      OBVIOUS
    <2> QED  BY <2>1, <2>3, <2>4, Increasing
  <1>10. \A k \in 1 .. m : f[k] \in 1 .. n
    BY <1>8
  (* Within the group of k the entries r - 1 and r are adjacent, and its last *)
  (* entry ends where the whole group does.                                   *)
  <1>11. ASSUME NEW k \in 1 .. m, NEW r \in 1 .. n + 1, f[k] < r, r <= f[k + 1]
         PROVE  r - 1 \in 1 .. n /\ s[r - 1].d + s[r - 1].length = l[k].d + (o[r] - o[f[k]])
    <2>1. PICK a \in 1 .. n + 1, b \in 1 .. n + 1 : a = f[k] /\ b = f[k + 1]
      BY <1>8
    <2>2. PICK q \in 1 .. n : q = r - 1 /\ r = q + 1 /\ q \in a .. b - 1
      BY <1>11, <2>1
    <2>3. s[q].d = l[k].d + (o[q] - o[a])
      BY <1>8, <2>1, <2>2
    <2>4. PICK oq \in Nat, oa \in Nat, z \in Nat, ld \in Nat :
              oq = o[q] /\ oa = o[a] /\ z = s[q].length /\ ld = l[k].d
      <3>1. q \in 1 .. n + 1
        OBVIOUS
      <3>2. o[q] \in Nat /\ o[a] \in Nat
        BY <1>3, <3>1
      <3>3. s[q].length \in Nat /\ l[k].d \in Nat
        BY <1>4, <1>8
      <3> QED  BY <3>2, <3>3
    <2>5. o[r] = oq + z
      BY <1>3, <2>2, <2>4
    <2>6. (ld + (oq - oa)) + z = ld + ((oq + z) - oa)
      OBVIOUS
    <2>7. s[q].d + s[q].length = l[k].d + (o[r] - o[a])
      BY <2>3, <2>4, <2>5, <2>6
    <2> QED  BY <2>1, <2>2, <2>7
  <1>12. ASSUME NEW k \in 1 .. m PROVE f[k] \in RunStarts(s)
    <2>1. CASE k = 1
      BY <1>1, <1>6, <2>1 DEF RunStarts
    <2>2. CASE k # 1
      <3>1. PICK j \in 1 .. m : k = j + 1 /\ j < m
        BY <2>2
      <3>2. PICK r \in 1 .. n : r = f[k]
        BY <1>10
      <3>3. f[j] < r /\ r <= f[j + 1] /\ r \in 1 .. n + 1
        BY <1>8, <3>1, <3>2
      <3>4. s[r - 1].d + s[r - 1].length = l[j].d + (o[r] - o[f[j]])
        BY <1>11, <3>3
      <3>5. l[j].length = o[r] - o[f[j]] /\ l[k].d = s[r].d
        BY <1>8, <3>1, <3>2
      <3>6. l[j].d + l[j].length # l[j + 1].d
        BY <1>5, <3>1
      <3>7. s[r - 1].d + s[r - 1].length # s[r].d
        BY <3>1, <3>4, <3>5, <3>6
      <3> QED  BY <1>1, <3>2, <3>7 DEF RunStarts
    <2> QED  BY <2>1, <2>2
  <1>13. ASSUME NEW r \in RunStarts(s) PROVE \E k \in 1 .. m : r = f[k]
    <2>1. r \in 1 .. n /\ (r = 1 \/ s[r - 1].d + s[r - 1].length # s[r].d)
      BY <1>1 DEF RunStarts
    <2>2. PICK k \in 1 .. m : f[k] <= r /\ r < f[k + 1]
      <3>1. \A j \in 1 .. m + 1 : f[j] \in Nat
        BY <1>6
      <3>2. 1 \in Nat /\ m + 1 \in Nat /\ 1 <= m + 1 /\ r \in Nat /\ f[1] <= r /\ r < f[m + 1]
        BY <1>6, <2>1
      <3>3. \E j \in 1 .. (m + 1) - 1 : f[j] <= r /\ r < f[j + 1]
        BY <3>1, <3>2, Located
      <3> QED  BY <3>3
    <2>3. CASE f[k] = r
      BY <2>3
    <2>4. CASE f[k] # r
      <3>1. f[k] \in Nat /\ f[k] < r /\ r <= f[k + 1] /\ r \in 1 .. n + 1 /\ f[k + 1] \in Nat
        <4>1. f[k] \in 1 .. n + 1 /\ f[k + 1] \in 1 .. n + 1
          BY <1>8
        <4> QED  BY <2>1, <2>2, <2>4, <4>1
      <3>2. s[r - 1].d + s[r - 1].length = l[k].d + (o[r] - o[f[k]])
        BY <1>11, <3>1
      <3>3. r \in f[k] .. f[k + 1] - 1
        BY <2>2, <3>1
      <3>4. s[r].d = l[k].d + (o[r] - o[f[k]])
        BY <1>8, <3>3
      <3>5. r # 1
        <4>1. f[k] \in 1 .. n + 1
          BY <1>8
        <4> QED  BY <2>1, <3>1, <4>1
      <3> QED  BY <2>1, <3>2, <3>4, <3>5
    <2> QED  BY <2>3, <2>4
  <1>14. \A x : x \in RunStarts(s) <=> \E k \in 1 .. m : x = f[k]
    BY <1>12, <1>13
  <1>15. \A k \in 1 .. m : f[k] \in Nat
    BY <1>10
  <1>16. \A j, k \in 1 .. m : j < k => f[j] < f[k]
    BY <1>9
  <1>17. \A k \in 1 .. m : Cardinality({x \in RunStarts(s) : x <= f[k]}) = k
    <2>1. RunStarts(s) = Values(f, m)
      BY <1>14 DEF Values
    <2>2. \A k \in 1 .. m : Cardinality({x \in Values(f, m) : x <= f[k]}) = k
      BY <1>15, <1>16, CountUpTo
    <2> QED  BY <2>1, <2>2
  <1>18. m = Cardinality(RunStarts(s))
    <2>1. m # 0 /\ m \in 1 .. m
      BY <1>6
    <2>2. \A x \in RunStarts(s) : x <= f[m]
      <3> TAKE x \in RunStarts(s)
      <3>1. PICK k \in 1 .. m : x = f[k]
        BY <1>13
      <3>2. k = m \/ k < m
        OBVIOUS
      <3>3. f[k] = f[m] \/ f[k] < f[m]
        BY <1>16, <2>1, <3>2
      <3> QED  BY <1>15, <2>1, <3>1, <3>3
    <2>3. {x \in RunStarts(s) : x <= f[m]} = RunStarts(s)
      BY <2>2
    <2> QED  BY <1>17, <2>1, <2>3
  <1>19. \A k \in 1 .. m : l[k].d = s[f[k]].d /\ l[k].u = Offset(s)[f[k]]
    BY <1>3, <1>8, <1>10
  <1> QED  BY <1>5, <1>12, <1>17, <1>18, <1>19

-----------------------------------------------------------------------------
(* The initial state and the steps *)

(* What the invariant says of a list that has been loaded. *)
LEMMA IInvFacts ==
    ASSUME IInv
    PROVE  /\ scatter \in Scatters /\ sglist \in Seq(Node) /\ Len(sglist) \in Nat
           /\ Len(scatter) \in Nat \ {0} /\ Len(sglist) <= Len(scatter)
           /\ cursor \in 1 .. Len(sglist) + 1 /\ cursor \in Nat
           /\ entries \in 0 .. Len(scatter) /\ pc \in {"idle", "merge", "copy"}
           /\ \A k \in 1 .. Len(sglist) : /\ sglist[k] \in Node /\ sglist[k].length \in Nat
                                          /\ sglist[k].d \in Nat
  <1>1. /\ scatter \in Scatters /\ sglist \in Seq(Node) /\ Len(sglist) <= Len(scatter)
        /\ cursor \in 1 .. Len(sglist) + 1
        /\ entries \in 0 .. Len(scatter) /\ pc \in {"idle", "merge", "copy"}
    BY DEF IInv, TypeOK, Node
  <1>2. Len(sglist) \in Nat /\ \A k \in 1 .. Len(sglist) : sglist[k] \in Node
    BY <1>1
  <1>3. cursor \in Nat
    BY <1>1, <1>2
  <1>4. Len(scatter) \in Nat \ {0}
    BY <1>1, ScatterFacts
  <1> QED  BY <1>1, <1>2, <1>3, <1>4 DEF Node

LEMMA InitIInv == Init => IInv
  <1> SUFFICES ASSUME Init PROVE IInv
    OBVIOUS
  <1>1. scatter \in Scatters /\ sglist = <<>> /\ cursor = 1 /\ entries = 0 /\ pc = "idle"
    BY DEF Init
  <1>2. scatter \in Seq(Entry) /\ Len(scatter) \in Nat
    BY <1>1, ScatterFacts
  <1>3. Len(sglist) = 0 /\ sglist \in Seq([d : Nat, length : Nat, u : Nat])
    BY <1>1
  <1>4. TypeOK
    BY <1>1, <1>2, <1>3 DEF TypeOK
  <1>5. PassOK
    BY <1>1, <1>3 DEF PassOK
  <1>6. ListGrouped /\ EntriesCounted
    BY <1>1 DEF ListGrouped, EntriesCounted
  <1> QED  BY <1>1, <1>2, <1>3, <1>4, <1>5, <1>6 DEF IInv

(* The list is loaded: every entry is a group of its own. *)
LEMMA LoadStep == IInv /\ DMABuffer_loadSGList => IInv'
  <1> SUFFICES ASSUME IInv, DMABuffer_loadSGList PROVE IInv'
    OBVIOUS
  <1>1. CASE UNCHANGED vars
    BY <1>1 DEF vars, IInv, TypeOK, ListGrouped, EntriesCounted, PassOK, Adjacent
  <1>2. CASE /\ sglist' = Converted(scatter) /\ cursor' = 1 /\ entries' = Len(scatter)
             /\ pc' = "merge" /\ scatter' = scatter
    <2>1. PICK s \in Scatters : s = scatter
      BY IInvFacts
    <2>2. PICK n \in Nat \ {0} : n = Len(s)
      BY ScatterFacts
    <2>3. PICK l : l = Converted(s)
      OBVIOUS
    <2>4. /\ l \in Seq(Node) /\ Len(l) = n
          /\ \A k \in 1 .. n : l[k].length = s[k].length
          /\ \E f \in Bounds(s, l) : Grouped(s, l, f) /\ f[n + 1] = n + 1
      BY <2>2, <2>3, ConvertedGrouped
    <2>5. \A k \in 1 .. n : l[k].length # 0
      BY <2>2, <2>4, ScatterFacts
    <2>6. Nonzero(l) = 1 .. n
      BY <2>4, <2>5 DEF Nonzero
    <2>7. Cardinality(Nonzero(l)) = n
      BY <2>6, FS_Interval
    <2>8. /\ scatter' = s /\ sglist' = l /\ cursor' = 1 /\ entries' = n /\ pc' = "merge"
      BY <1>2, <2>1, <2>2, <2>3
    <2>9. s \in Seq(Entry) /\ l # <<>>
      BY <2>2, <2>4, ScatterFacts
    <2>10. TypeOK'
      BY <2>2, <2>4, <2>8, <2>9 DEF TypeOK, Node
    <2>11. ListGrouped'
      BY <2>2, <2>4, <2>8 DEF ListGrouped
    <2>12. EntriesCounted'
      BY <2>7, <2>8 DEF EntriesCounted
    <2>13. PassOK'
      BY <2>4, <2>5, <2>8, <2>9 DEF PassOK
    <2> QED  BY <2>2, <2>4, <2>8, <2>10, <2>11, <2>12, <2>13 DEF IInv
  <1> QED  BY <1>1, <1>2 DEF DMABuffer_loadSGList, vars

(***************************************************************************)
(* One iteration of a pass.  The successor of the cursor's entry cannot be *)
(* one that was swallowed before, so each merge takes one off the count.   *)
(***************************************************************************)
LEMMA MergeStep == IInv /\ Merge => IInv'
  <1> SUFFICES ASSUME IInv, Merge PROVE IInv'
    OBVIOUS
  <1>1. PICK s \in Scatters, l \in Seq(Node), n \in Nat : s = scatter /\ l = sglist /\ n = Len(l)
    BY IInvFacts
  <1>2. PICK c \in 1 .. n : c = cursor
    BY <1>1, IInvFacts DEF Merge
  <1>3. PICK N \in Nat \ {0} : N = Len(s) /\ n <= N
    BY <1>1, IInvFacts
  <1>4. pc = "merge" /\ pc' = "merge" /\ scatter' = s /\ cursor' = c + 1
    BY <1>1, <1>2 DEF Merge
  <1>5. l # <<>> /\ n # 0
    BY <1>1, <1>2
  <1>6. PICK f \in Bounds(s, l) : Grouped(s, l, f) /\ f[n + 1] = N + 1
    BY <1>1, <1>3, <1>5 DEF IInv, ListGrouped
  <1>7. entries = Cardinality(Nonzero(l))
    BY <1>1, <1>5 DEF IInv, EntriesCounted
  <1>8. \A k \in 1 .. n : k > c => l[k].length # 0
    BY <1>1, <1>2, <1>4 DEF IInv, PassOK
  <1>9. scatter' \in Seq(Entry)
    BY <1>4, ScatterFacts
  <1>10. CASE ~Adjacent(cursor) /\ UNCHANGED <<sglist, entries>>
    <2>1. sglist' = l /\ entries' = entries
      BY <1>1, <1>10
    <2>2. TypeOK'
      <3>1. entries \in 0 .. N /\ l \in Seq([d : Nat, length : Nat, u : Nat])
        BY <1>1, <1>3, IInvFacts DEF Node
      <3>2. c + 1 \in 1 .. n + 1
        OBVIOUS
      <3> QED  BY <1>1, <1>3, <1>4, <1>9, <2>1, <3>1, <3>2 DEF TypeOK
    <2>3. ListGrouped' /\ EntriesCounted'
      BY <1>1, <1>3, <1>4, <1>6, <1>7, <2>1 DEF ListGrouped, EntriesCounted
    <2>4. PassOK'
      <3>1. \A k \in 1 .. n : k > c + 1 => l[k].length # 0
        BY <1>8
      <3>2. ASSUME entries = n, NEW k \in 1 .. n, k < c + 1 PROVE ~Adjacent(k)'
        <4>1. ~Adjacent(k)
          <5>1. CASE k = c
            BY <1>2, <1>10, <5>1
          <5>2. CASE k # c
            <6>1. k < c
              BY <3>2, <5>2
            <6> QED  BY <1>1, <1>2, <1>4, <3>2, <6>1 DEF IInv, PassOK
          <5> QED  BY <5>1, <5>2
        <4> QED  BY <1>1, <2>1, <4>1 DEF Adjacent
      <3> QED  BY <1>1, <1>4, <1>5, <2>1, <3>1, <3>2 DEF PassOK
    <2> QED  BY <1>1, <1>3, <1>4, <2>1, <2>2, <2>3, <2>4 DEF IInv
  <1>11. CASE Adjacent(cursor) /\ entries' = entries - 1 /\ sglist' = Merged(l, c)
    <2>1. c < n /\ l[c].length # 0 /\ l[c].d + l[c].length = l[c + 1].d
      BY <1>1, <1>2, <1>11 DEF Adjacent
    <2>2. PICK l2 : l2 = Merged(l, c)
      OBVIOUS
    <2>3. /\ l2 \in Seq(Node) /\ Len(l2) = n
          /\ \A k \in 1 .. n : k # c /\ k # c + 1 => l2[k] = l[k]
      BY <1>1, <2>1, <2>2, MergedFacts
    <2>4. \E g \in Bounds(s, l2) : Grouped(s, l2, g) /\ g[n + 1] = N + 1
      BY <1>1, <1>3, <1>6, <2>1, <2>2, MergedGrouped
    <2>5. Nonzero(l2) = Nonzero(l) \ {c + 1}
      BY <1>1, <2>1, <2>2, MergedNonzero
    <2>6. c + 1 \in Nonzero(l)
      BY <1>1, <1>8, <2>1 DEF Nonzero
    <2>7. Cardinality(Nonzero(l2)) = Cardinality(Nonzero(l)) - 1
      BY <2>5, <2>6, NonzeroCount, FS_RemoveElement
    <2>8. /\ Cardinality(Nonzero(l2)) \in 0 .. n /\ Cardinality(Nonzero(l2)) # n
      <3>1. Cardinality(Nonzero(l2)) \in 0 .. n /\ Cardinality(Nonzero(l)) \in 0 .. n
        BY <1>1, <2>3, NonzeroCount
      <3> QED  BY <2>7, <3>1
    <2>9. sglist' = l2 /\ entries' = Cardinality(Nonzero(l2))
      BY <1>7, <1>11, <2>2, <2>7
    <2>10. l2 # <<>>
      BY <1>5, <2>3
    <2>11. TypeOK'
      <3>1. c + 1 \in 1 .. n + 1 /\ Cardinality(Nonzero(l2)) \in 0 .. N
        BY <1>3, <2>8
      <3> QED  BY <1>3, <1>4, <1>9, <2>3, <2>9, <3>1 DEF TypeOK, Node
    <2>12. ListGrouped' /\ EntriesCounted'
      BY <1>3, <1>4, <2>3, <2>4, <2>9 DEF ListGrouped, EntriesCounted
    <2>13. PassOK'
      <3>1. \A k \in 1 .. n : k > c + 1 => l2[k].length # 0
        BY <1>8, <2>3
      <3> QED  BY <1>4, <2>3, <2>8, <2>9, <2>10, <3>1 DEF PassOK
    <2> QED  BY <1>3, <1>4, <2>3, <2>9, <2>11, <2>12, <2>13 DEF IInv
  <1> QED  BY <1>1, <1>2, <1>10, <1>11 DEF Merge, Merged

(* The end of a pass: if it changed nothing, no two entries are adjacent. *)
LEMMA EndPassStep == IInv /\ EndPass => IInv'
  <1> SUFFICES ASSUME IInv, EndPass PROVE IInv'
    OBVIOUS
  <1>1. /\ pc = "merge" /\ cursor > Len(sglist) /\ pc' \in {"idle", "copy"}
        /\ pc' = "idle" <=> entries = Len(sglist)
        /\ UNCHANGED <<scatter, sglist, cursor, entries>>
    BY DEF EndPass
  <1>2. cursor = Len(sglist) + 1
    BY <1>1, IInvFacts
  <1>3. sglist # <<>>
    BY <1>1 DEF IInv, PassOK
  <1>4. TypeOK' /\ ListGrouped' /\ EntriesCounted'
    BY <1>1 DEF IInv, TypeOK, ListGrouped, EntriesCounted
  <1>5. PassOK'
    BY <1>1, <1>2, <1>3 DEF IInv, PassOK, Adjacent
  <1> QED  BY <1>1, <1>4, <1>5 DEF IInv

(***************************************************************************)
(* The copy: it has as many entries as were counted, so that it fits the   *)
(* new array and is not refused; and it has at least one.                  *)
(***************************************************************************)
LEMMA CopyStep == IInv /\ Copy => IInv'
  <1> SUFFICES ASSUME IInv, Copy PROVE IInv'
    OBVIOUS
  <1>1. PICK s \in Scatters, l \in Seq(Node), n \in Nat : s = scatter /\ l = sglist /\ n = Len(l)
    BY IInvFacts
  <1>2. PICK N \in Nat \ {0} : N = Len(s) /\ n <= N
    BY <1>1, IInvFacts
  <1>3. pc = "copy"
    BY DEF Copy
  <1>4. l # <<>>
    BY <1>1, <1>3 DEF IInv, PassOK
  <1>5. PICK f \in Bounds(s, l) : Grouped(s, l, f) /\ f[n + 1] = N + 1
    BY <1>1, <1>2, <1>4 DEF IInv, ListGrouped
  <1>6. entries = Cardinality(Nonzero(l))
    BY <1>1, <1>4 DEF IInv, EntriesCounted
  <1>7. PICK l2 : l2 = Copied(l)[n]
    OBVIOUS
  <1>8. CopyRight(s, l, f, n, l2)
    BY <1>1, <1>5, <1>7, CopiedGrouped
  <1>9. l2 \in Seq(Node) /\ Nonzero(l2) = 1 .. Len(l2) /\ Len(l2) = entries
    BY <1>1, <1>6, <1>8 DEF CopyRight, Nonzero
  <1>10. PICK m \in Nat : m = Len(l2)
    BY <1>9
  <1>11. PICK g \in Bounds(s, l2) : Grouped(s, l2, g) /\ g[m + 1] = N + 1
    BY <1>5, <1>8, <1>10 DEF CopyRight
  <1>12. m # 0 /\ l2 # <<>>
    <2>1. g[1] = 1
      BY <1>11 DEF Grouped
    <2>2. m # 0
      BY <1>11, <2>1
    <2> QED  BY <1>10, <2>2
  <1>13. m <= n
    BY <1>1, <1>6, <1>9, <1>10, NonzeroCount
  <1>14. /\ scatter' = s /\ sglist' = l2 /\ cursor' = 1 /\ entries' = m /\ pc' = "merge"
    BY <1>1, <1>7, <1>9, <1>10 DEF Copy
  <1>15. Cardinality(Nonzero(l2)) = m
    BY <1>9, <1>10, FS_Interval
  <1>16. TypeOK'
    <2>1. s \in Seq(Entry) /\ m \in 0 .. N /\ 1 \in 1 .. m + 1
      BY <1>2, <1>13, ScatterFacts
    <2> QED  BY <1>2, <1>9, <1>10, <1>14, <2>1 DEF TypeOK, Node
  <1>17. ListGrouped' /\ EntriesCounted'
    BY <1>2, <1>10, <1>11, <1>14, <1>15 DEF ListGrouped, EntriesCounted
  <1>18. PassOK'
    <2>1. \A k \in 1 .. m : l2[k].length # 0
      BY <1>9, <1>10 DEF Nonzero
    <2> QED  BY <1>10, <1>12, <1>14, <2>1 DEF PassOK
  <1> QED  BY <1>2, <1>10, <1>13, <1>14, <1>16, <1>17, <1>18 DEF IInv

(* Every step preserves the inductive invariant. *)
LEMMA NextIInv == IInv /\ [Next]_vars => IInv'
  <1>1. IInv /\ UNCHANGED vars => IInv'
    BY DEF vars, IInv, TypeOK, ListGrouped, EntriesCounted, PassOK, Adjacent
  <1> QED  BY <1>1, LoadStep, MergeStep, EndPassStep, CopyStep DEF Next, DMABuffer_getSGList

(* Hence it holds in every reachable state. *)
LEMMA Invariance == Spec => []IInv
  BY InitIInv, NextIInv, PTL DEF Spec

-----------------------------------------------------------------------------
(***************************************************************************)
(* The types, and that merging keeps the number of entries right: what     *)
(* DMABuffer_coalesqueSGlist copies is as long as the array it allocates   *)
(* for it, and "Invalid Number of entries!" is not reported, for any list. *)
(***************************************************************************)
THEOREM TypeCorrect == Spec => []TypeOK
  <1>1. IInv => TypeOK
    BY DEF IInv
  <1> QED  BY <1>1, Invariance, PTL

(***************************************************************************)
(* In every state of DMABuffer_coalesqueSGlist the list gives every byte   *)
(* of the mapping the bus address that the kernel's list gives it, however *)
(* the kernel's entries lie.                                               *)
(***************************************************************************)
THEOREM TranslationKept == Spec => []SameTranslation
  <1>1. IInv => SameTranslation
    <2> SUFFICES ASSUME IInv, sglist # <<>>
                 PROVE  Translation(sglist) = Translation(Converted(scatter))
      BY DEF SameTranslation
    <2>1. PICK f \in Bounds(scatter, sglist) :
              Grouped(scatter, sglist, f) /\ f[Len(sglist) + 1] = Len(scatter) + 1
      BY DEF IInv, ListGrouped
    <2> QED  BY <2>1, IInvFacts, GroupedTranslation
  <1> QED  BY <1>1, Invariance, PTL

(***************************************************************************)
(* The list that DMABuffer_getSGList returns has one entry per maximal run *)
(* of adjacent entries of the kernel's list, for lists of any length: the  *)
(* recursion does not stop while two entries can be merged.                *)
(***************************************************************************)
THEOREM OneEntryPerRun == Spec => []FullyCoalesced
  <1>1. IInv => FullyCoalesced
    <2> SUFFICES ASSUME IInv, pc = "idle", sglist # <<>> PROVE FullyCoalesced
      BY DEF FullyCoalesced
    <2>1. PICK s \in Scatters, l \in Seq(Node), n \in Nat : s = scatter /\ l = sglist /\ n = Len(l)
      BY IInvFacts
    <2>2. PICK f \in Bounds(s, l) : Grouped(s, l, f) /\ f[n + 1] = Len(s) + 1
      BY <2>1 DEF IInv, ListGrouped
    <2>3. entries = n /\ cursor = n + 1 /\ entries = Cardinality(Nonzero(l))
      BY <2>1 DEF IInv, PassOK, EntriesCounted
    <2>4. Nonzero(l) = 1 .. n
      BY <2>1, <2>3, NonzeroCount
    <2>5. \A k \in 1 .. n : k < n => l[k].d + l[k].length # l[k + 1].d
      <3> TAKE k \in 1 .. n
      <3>1. l[k].length # 0
        BY <2>4 DEF Nonzero
      <3>2. k < n + 1
        OBVIOUS
      <3>3. ~Adjacent(k)
        BY <2>1, <2>3, <3>2 DEF IInv, PassOK
      <3> QED  BY <2>1, <3>1, <3>3 DEF Adjacent
    <2>6. /\ n = Cardinality(RunStarts(s))
          /\ \A k \in 1 .. n : /\ f[k] \in RunStarts(s)
                               /\ Cardinality({x \in RunStarts(s) : x <= f[k]}) = k
                               /\ l[k].d = s[f[k]].d /\ l[k].u = Offset(s)[f[k]]
      <3>1. /\ f[Len(l) + 1] = Len(s) + 1 /\ Nonzero(l) = 1 .. Len(l)
            /\ \A k \in 1 .. Len(l) : k < Len(l) => l[k].d + l[k].length # l[k + 1].d
        BY <2>1, <2>2, <2>4, <2>5
      <3>2. /\ Len(l) = Cardinality(RunStarts(s))
            /\ \A k \in 1 .. Len(l) : /\ f[k] \in RunStarts(s)
                                       /\ Cardinality({x \in RunStarts(s) : x <= f[k]}) = k
                                       /\ l[k].d = s[f[k]].d /\ l[k].u = Offset(s)[f[k]]
        BY <2>2, <3>1, GroupsAreRuns
      <3> QED  BY <2>1, <3>2
    <2>7. DOMAIN sglist = 1 .. n
      BY <2>1
    <2> QED  BY <2>1, <2>6, <2>7 DEF FullyCoalesced
  <1> QED  BY <1>1, Invariance, PTL

(***************************************************************************)
(* What a step of DMABuffer_coalesqueSGlist achieves: the call returns,    *)
(* the list has become shorter, or within the pass over the same list the  *)
(* cursor moves on to the end.  The cursor and the list's length being     *)
(* bounded, this is why the recursion ends.                                *)
(***************************************************************************)
Advance ==
    pc # "idle" =>
        \/ pc' = "idle"
        \/ Len(sglist') < Len(sglist)
        \/ /\ Len(sglist') = Len(sglist) /\ pc = "merge"
           /\ pc' = "copy" \/ (cursor < cursor' /\ cursor' <= Len(sglist') + 1)

(* Every step of the merging advances it: no pass is entered in vain. *)
THEOREM MergingAdvances == Spec => [][Advance]_vars
  <1>1. IInv /\ Next => Advance
    <2> SUFFICES ASSUME IInv, Next, pc # "idle" PROVE Advance
      BY DEF Advance
    <2>1. CASE Merge
      <3>1. PICK l \in Seq(Node), n \in Nat : l = sglist /\ n = Len(l)
        BY IInvFacts
      <3>2. PICK c \in 1 .. n : c = cursor
        BY <2>1, <3>1, IInvFacts DEF Merge
      <3>3. pc = "merge" /\ cursor' = c + 1 /\ c < c + 1 /\ c + 1 <= n + 1
        BY <2>1, <3>2 DEF Merge
      <3>4. CASE sglist' = sglist
        BY <3>1, <3>2, <3>3, <3>4 DEF Advance
      <3>5. CASE Adjacent(cursor) /\ sglist' = Merged(l, c)
        <4>1. c < n
          BY <3>1, <3>2, <3>5 DEF Adjacent
        <4>2. Len(sglist') = n
          BY <3>1, <3>5, <4>1, MergedFacts
        <4> QED  BY <3>1, <3>2, <3>3, <4>2 DEF Advance
      <3> QED  BY <2>1, <3>1, <3>2, <3>4, <3>5 DEF Merge, Merged
    <2>2. CASE EndPass
      BY <2>2 DEF EndPass, Advance
    <2>3. CASE Copy
      <3>1. IInv'
        BY <2>3, CopyStep
      <3>2. pc = "copy" /\ entries # Len(sglist) /\ sglist # <<>>
        BY <2>3 DEF Copy, IInv, PassOK
      <3>3. entries = Cardinality(Nonzero(sglist)) /\ sglist \in Seq(Node)
        BY <3>2, IInvFacts DEF IInv, EntriesCounted
      <3>4. entries \in 0 .. Len(sglist) /\ Len(sglist) \in Nat
        BY <3>3, NonzeroCount
      <3>5. pc' # "error"
        BY <3>1 DEF IInv, TypeOK
      <3>6. Len(sglist') = entries
        BY <2>3, <3>5 DEF Copy
      <3>7. Len(sglist') < Len(sglist)
        BY <3>2, <3>4, <3>6
      <3> QED  BY <3>7 DEF Advance
    <2> QED  BY <2>1, <2>2, <2>3 DEF Next, DMABuffer_loadSGList, DMABuffer_getSGList
  <1>2. IInv /\ [Next]_vars => [Advance]_vars
    BY <1>1
  <1> QED  BY <1>2, Invariance, PTL DEF Spec

====
