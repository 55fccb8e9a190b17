---------------------------- MODULE FlashFsProofs ----------------------------
(***************************************************************************)
(* The file store stays formatted, whatever the lengths of files and pages *)
(* and however often power fails; and where no length makes mm_set write   *)
(* beyond the page, its calls are atomic and write to one page only.       *)
(***************************************************************************)
EXTENDS FlashFs, WellFoundedInduction, TLAPS

(* Induction, as the search for a least counterexample.                    *)
LEMMA NatRel ==
  \E R : /\ IsWellFoundedOn(R, Nat)
         /\ \A x, y \in Nat : <<y, x>> \in R <=> y < x
<1> DEFINE R == OpToRel(<, Nat)
<1>1. IsWellFoundedOn(R, Nat) BY NatLessThanWellFounded
<1>2. \A x, y \in Nat : <<y, x>> \in R <=> y < x BY DEF OpToRel
<1> HIDE DEF R
<1> QED BY <1>1, <1>2

(* A set of natural numbers that is not empty has a least member.          *)
LEMMA Least ==
  ASSUME NEW T \in SUBSET Nat, T # {}
  PROVE  \E x \in T : \A y \in T : x <= y
<1>1. PICK R : /\ IsWellFoundedOn(R, Nat)
               /\ \A x, y \in Nat : <<y, x>> \in R <=> y < x
  BY NatRel
<1>2. IsWellFoundedOn(R, Nat) BY <1>1
<1>3. PICK x \in T : \A y \in T : ~ (<<y, x>> \in R) BY <1>2, WFMin
<1>4. ASSUME NEW y \in T PROVE x <= y
  <2>1. ~(y < x) BY <1>1, <1>3
  <2> QED BY <2>1
<1> QED BY <1>4

(* What holds of 0 and passes from each number below n to the next holds   *)
(* up to n.                                                                *)
LEMMA Induction ==
  ASSUME NEW T, NEW n \in Nat, 0 \in T, \A m \in 0 .. n - 1 : m \in T => m + 1 \in T
  PROVE  \A m \in 0 .. n : m \in T
<1> DEFINE B == {m \in 0 .. n : m \notin T}
<1> SUFFICES ASSUME B # {} PROVE FALSE OBVIOUS
<1>1. B \in SUBSET Nat OBVIOUS
<1>2. PICK m \in B : \A y \in B : m <= y BY <1>1, Least
<1>3. m \in 0 .. n /\ m # 0 /\ m \notin T BY <1>2
<1>4. m - 1 \in 0 .. n - 1 /\ m - 1 \in 0 .. n /\ (m - 1) + 1 = m /\ ~(m <= m - 1) BY <1>3
<1>5. m - 1 \in T BY <1>2, <1>4
<1> QED BY <1>3, <1>4, <1>5

(* A running sum is a function.                                            *)
Sums(g, n, x, d) == g = [k \in 0 .. n |-> IF k = 0 THEN x ELSE g[k - 1] + d[k]]

(* For any lengths d there are the addresses that start at x and advance   *)
(* by them.                                                                *)
LEMMA RunningSum ==
  ASSUME NEW n \in Nat, NEW x, NEW d
  PROVE  \E g : Sums(g, n, x, d)
<1> DEFINE Total(h, j) == IF j = 0 THEN x ELSE h[j - 1] + d[j]
           Defined(m) == \E h : h = [j \in 0 .. m |-> Total(h, j)]
           T == {m \in 0 .. n : Defined(m)}
<1>1. 0 \in T
  <2> DEFINE g == [k \in 0 .. 0 |-> x]
  <2>1. \A k \in 0 .. 0 : Total(g, k) = x OBVIOUS
  <2>2. g = [k \in 0 .. 0 |-> Total(g, k)] BY <2>1
  <2>3. Defined(0) BY <2>2
  <2> HIDE DEF Defined
  <2> QED BY <2>3
<1>2. ASSUME NEW m \in 0 .. n - 1, m \in T PROVE m + 1 \in T
  <2>1. PICK g : g = [k \in 0 .. m |-> Total(g, k)] BY <1>2
  <2> DEFINE h == [k \in 0 .. m + 1 |-> IF k = m + 1 THEN g[m] + d[m + 1] ELSE g[k]]
  <2>2. ASSUME NEW k \in 0 .. m + 1 PROVE h[k] = Total(h, k)
    <3>1. CASE k = m + 1
      <4>1. h[k] = g[m] + d[m + 1] BY <3>1
      <4>2. m \in 0 .. m + 1 /\ m # m + 1 /\ k - 1 = m /\ k # 0 BY <3>1
      <4>3. h[k - 1] = g[m] BY <4>2
      <4> HIDE DEF h
      <4> QED BY <3>1, <4>1, <4>2, <4>3
    <3>2. CASE k # m + 1
      <4>1. k \in 0 .. m BY <3>2
      <4>2. h[k] = Total(g, k) BY <2>1, <3>2, <4>1
      <4>3. CASE k = 0 BY <4>2, <4>3
      <4>4. CASE k # 0
        <5>1. k - 1 \in 0 .. m + 1 /\ k - 1 # m + 1 BY <4>1, <4>4
        <5>2. h[k - 1] = g[k - 1] BY <5>1
        <5> HIDE DEF h
        <5> QED BY <4>2, <4>4, <5>2
      <4> QED BY <4>3, <4>4
    <3> QED BY <3>1, <3>2
  <2>3. h = [k \in 0 .. m + 1 |-> h[k]] OBVIOUS
  <2> HIDE DEF h
  <2>4. h = [k \in 0 .. m + 1 |-> Total(h, k)] BY <2>2, <2>3
  <2>5. m + 1 \in 0 .. n OBVIOUS
  <2> HIDE DEF Total
  <2> QED BY <2>4, <2>5
<1> HIDE DEF Defined
<1>3. \A m \in 0 .. n : m \in T
  <2> HIDE DEF T
  <2> QED BY <1>1, <1>2, Induction
<1>4. Defined(n) BY <1>3
<1> QED BY <1>4 DEF Defined, Sums

(* The library's Min of a set of natural numbers is its least member.      *)
LEMMA MinIsLeast ==
  ASSUME NEW T \in SUBSET Nat, T # {}
  PROVE  Min(T) \in T /\ \A y \in T : Min(T) <= y
BY Least DEF Min

-----------------------------------------------------------------------------
(* A page has room for its marker and an item.                             *)
LEMMA PageFacts ==
  /\ PageLen \in Nat /\ PageLen >= 5
  /\ Base(1) = 0 /\ End(1) = PageLen /\ Base(2) = PageLen /\ End(2) = 2 * PageLen
  /\ Addr = 0 .. 2 * PageLen - 1
  /\ \A p \in Page : Base(p) \in Addr /\ Base(p) + QWORD_LEN \in Nat
                     /\ End(p) = Base(p) + PageLen /\ End(p) \in Nat
<1>1. PageLen \in Nat /\ PageLen >= 5
  BY PageAssumption DEF QWORD_LEN, MIN_FILE_LEN, ITEM_HEADER_SZ
<1>2. /\ Base(1) = 0 /\ End(1) = PageLen /\ Base(2) = PageLen /\ End(2) = 2 * PageLen
  BY <1>1 DEF Base, End
<1> QED BY <1>1, <1>2 DEF Page, Addr, QWORD_LEN

(* The identifier of an id cell and the file of a meta cell are ones the   *)
(* store has.                                                              *)
LEMMA CellKinds ==
  ASSUME NEW c \in Cell
  PROVE  /\ c.is = "id" => c.id \in Ids /\ c = Id(c.id)
         /\ c.is = "meta" => c.file \in Files
<1>1. CASE c \in {Erased, Zero, Mixed, Marker} BY <1>1 DEF Erased, Zero, Mixed, Marker
<1>2. CASE c \in {Id(i) : i \in Ids} BY <1>2 DEF Id
<1>3. CASE c \in {Meta(v) : v \in Files} BY <1>3 DEF Meta
<1>4. CASE c \in UNION {{Data(v, k) : k \in 1 .. FileLen[v]} : v \in Files}
  BY <1>4 DEF Data
<1> QED BY <1>1, <1>2, <1>3, <1>4 DEF Cell

(* An item lies in the flash, header and file.                             *)
LEMMA ItemFacts ==
  ASSUME NEW f \in [Addr -> Cell], NEW p \in Page, NEW o \in Nat,
         o < End(p) - MIN_FILE_LEN, is_item(f, p, o)
  PROVE  /\ o \in Addr /\ o + 1 \in Addr /\ f[o].id \in Ids /\ f[o + 1].file \in Files
         /\ ItemLen(f, o) \in Nat /\ ItemLen(f, o) >= MIN_FILE_LEN
         /\ o + ItemLen(f, o) <= 2 * PageLen
<1>1. o \in Addr /\ o + 1 \in Addr
  BY PageFacts DEF MIN_FILE_LEN, ITEM_HEADER_SZ, Page
<1>2. f[o].is = "id" /\ f[o + 1].is = "meta" BY DEF is_item
<1>3. f[o].id \in Ids /\ f[o + 1].file \in Files BY <1>1, <1>2, CellKinds
<1> DEFINE l == FileLen[f[o + 1].file]
<1>4. l \in Nat /\ l >= 1 BY <1>3, FilesAssumption
<1>5. \A k \in 1 .. l : o + ITEM_HEADER_SZ + k - 1 \in Addr BY DEF is_item
<1> HIDE DEF l
<1>6. o + ITEM_HEADER_SZ + l - 1 \in Addr BY <1>4, <1>5
<1>7. ItemLen(f, o) = 2 + l BY DEF ItemLen, l, ITEM_HEADER_SZ
<1>8. o + 2 + l - 1 <= 2 * PageLen - 1 BY <1>4, <1>6, PageFacts DEF ITEM_HEADER_SZ
<1> QED BY <1>1, <1>3, <1>4, <1>7, <1>8, PageFacts DEF MIN_FILE_LEN, ITEM_HEADER_SZ

-----------------------------------------------------------------------------
(* The search for items: the first one at or after an offset, the offset   *)
(* behind it, and what the search finds from there.                        *)
First(f, p, from) == Min(Stops(f, p, from))
(* Where the scan goes on after the item it found.                         *)
Behind(f, p, from) == First(f, p, from) + ItemLen(f, First(f, p, from))
(* One step of the scan: the first item from this offset on, and what the  *)
(* scan finds behind it.                                                   *)
Row(f, p, ids, g, from) ==
  IF Stops(f, p, from) = {} THEN << >>
  ELSE (IF f[First(f, p, from)].id \in ids THEN <<First(f, p, from)>> ELSE << >>)
         \o g[Behind(f, p, from)]

(* Where mm_get_next finds an item, it is one of the page, not before      *)
(* from, and what is behind it is farther on.                              *)
LEMMA FirstFacts ==
  ASSUME NEW f \in [Addr -> Cell], NEW p \in Page, NEW from \in Nat,
         Stops(f, p, from) # {}
  PROVE  /\ First(f, p, from) \in Nat /\ from <= First(f, p, from)
         /\ First(f, p, from) < End(p) - MIN_FILE_LEN /\ is_item(f, p, First(f, p, from))
         /\ Behind(f, p, from) \in from + 1 .. 2 * PageLen
<1>1. Stops(f, p, from) \in SUBSET Nat BY PageFacts DEF Stops
<1>2. First(f, p, from) \in Stops(f, p, from) BY <1>1, MinIsLeast DEF First
<1> DEFINE o == First(f, p, from)
<1> HIDE DEF o
<1>3. /\ o \in Nat /\ from <= o /\ o <= End(p) - MIN_FILE_LEN - 1 /\ is_item(f, p, o)
  BY <1>1, <1>2, PageFacts DEF Stops, o
<1>4. o < End(p) - MIN_FILE_LEN BY <1>3, PageFacts DEF MIN_FILE_LEN, ITEM_HEADER_SZ
<1>5. /\ ItemLen(f, o) \in Nat /\ ItemLen(f, o) >= MIN_FILE_LEN /\ o + ItemLen(f, o) <= 2 * PageLen
  BY <1>3, <1>4, ItemFacts
<1>6. o + ItemLen(f, o) \in from + 1 .. 2 * PageLen
  BY <1>3, <1>5, PageFacts DEF MIN_FILE_LEN, ITEM_HEADER_SZ
<1> QED BY <1>3, <1>4, <1>6 DEF o, Behind

(* The recursion of Items ends: it is a function.                          *)
LEMMA ItemsFunction ==
  ASSUME NEW f \in [Addr -> Cell], NEW p \in Page, NEW ids
  PROVE  \E g : g = [from \in 0 .. 3 * PageLen |-> Row(f, p, ids, g, from)]
<1> DEFINE N == 3 * PageLen
           Defined(m) == \E g : g = [from \in N - m + 1 .. N |-> Row(f, p, ids, g, from)]
           T == {m \in 0 .. N + 1 : ~Defined(m)}
<1>1. N \in Nat /\ 2 * PageLen <= N BY PageFacts
<1> HIDE DEF N
<1>2. Defined(0)
  <2> DEFINE e == [from \in {} |-> 0]
  <2>1. N - 0 + 1 .. N = {} BY <1>1
  <2>2. e = [from \in N - 0 + 1 .. N |-> Row(f, p, ids, e, from)] BY <2>1
  <2> QED BY <2>2
<1>3. ASSUME NEW m \in 0 .. N, Defined(m) PROVE Defined(m + 1)
  <2>1. PICK g : g = [from \in N - m + 1 .. N |-> Row(f, p, ids, g, from)] BY <1>3
  <2> DEFINE x == N - m
             h == [from \in x .. N |-> IF from = x THEN Row(f, p, ids, g, from) ELSE g[from]]
  <2>2. x \in Nat /\ x = N - (m + 1) + 1 /\ x + 1 = N - m + 1 /\ x <= N BY <1>1
  <2> HIDE DEF x
  <2>3. ASSUME NEW from \in x .. N PROVE Row(f, p, ids, h, from) = Row(f, p, ids, g, from)
    <3>1. CASE Stops(f, p, from) = {} BY <3>1 DEF Row
    <3>2. CASE Stops(f, p, from) # {}
      <4>1. from \in Nat BY <2>2
      <4>2. Behind(f, p, from) \in from + 1 .. 2 * PageLen BY <3>2, <4>1, FirstFacts
      <4>3. Behind(f, p, from) \in x .. N /\ Behind(f, p, from) # x
        BY <1>1, <2>2, <4>1, <4>2, PageFacts
      <4>4. h[Behind(f, p, from)] = g[Behind(f, p, from)] BY <4>3
      <4> HIDE DEF h
      <4> QED BY <3>2, <4>4 DEF Row
    <3> QED BY <3>1, <3>2
  <2>4. ASSUME NEW from \in x .. N PROVE h[from] = Row(f, p, ids, g, from)
    <3>1. CASE from = x BY <3>1
    <3>2. CASE from # x
      <4>1. from \in N - m + 1 .. N BY <1>1, <2>2, <3>2
      <4>2. g[from] = Row(f, p, ids, g, from) BY <2>1, <4>1
      <4> QED BY <3>2, <4>2
    <3> QED BY <3>1, <3>2
  <2>5. h = [from \in x .. N |-> h[from]] OBVIOUS
  <2> HIDE DEF h
  <2>6. h = [from \in x .. N |-> Row(f, p, ids, h, from)] BY <2>3, <2>4, <2>5
  <2> QED BY <2>2, <2>6
<1> HIDE DEF Defined
<1>4. T = {}
  <2> SUFFICES ASSUME T # {} PROVE FALSE OBVIOUS
  <2>1. T \in SUBSET Nat BY <1>1
  <2>2. PICK m \in T : \A y \in T : m <= y BY <2>1, Least
  <2>3. m \in 0 .. N + 1 /\ ~Defined(m) /\ m # 0 BY <1>2, <2>2
  <2>4. m - 1 \in 0 .. N /\ (m - 1) + 1 = m /\ ~(m <= m - 1) BY <1>1, <2>3
  <2>5. m - 1 \in 0 .. N + 1 BY <1>1, <2>4
  <2>6. Defined(m - 1) BY <2>2, <2>4, <2>5
  <2> QED BY <1>3, <2>3, <2>4, <2>6
<1>5. Defined(N + 1) BY <1>1, <1>4
<1>6. N - (N + 1) + 1 = 0 BY <1>1
<1> QED BY <1>5, <1>6 DEF Defined, N

(* Items found in a row, from an offset on, none inside another.           *)
InRow(f, p, ids, from, s) ==
  /\ s \in Seq(Nat)
  /\ \A k \in 1 .. Len(s) : /\ from <= s[k] /\ s[k] < End(p) - MIN_FILE_LEN
                            /\ is_item(f, p, s[k]) /\ f[s[k]].id \in ids
  /\ \A k \in 1 .. Len(s) : k + 1 <= Len(s) => s[k] + ItemLen(f, s[k]) <= s[k + 1]

(* An item before a row of items makes a longer row of items.              *)
LEMMA RowGrows ==
  ASSUME NEW f, NEW p, NEW ids, NEW from \in Nat, NEW o \in Nat, NEW next \in Nat, NEW s,
         InRow(f, p, ids, next, s), from <= o, o < End(p) - MIN_FILE_LEN, is_item(f, p, o),
         o + ItemLen(f, o) = next, from <= next
  PROVE  /\ InRow(f, p, ids, from, << >> \o s)
         /\ f[o].id \in ids => InRow(f, p, ids, from, <<o>> \o s)
<1> DEFINE r == <<o>> \o s  n == Len(s)
<1>1. s \in Seq(Nat) /\ n \in Nat BY DEF InRow
<1>2. /\ r \in Seq(Nat) /\ Len(r) = n + 1 /\ r[1] = o
      /\ \A k \in 2 .. n + 1 : r[k] = s[k - 1]
  BY <1>1
<1>3. /\ \A k \in 1 .. n : /\ next <= s[k] /\ s[k] < End(p) - MIN_FILE_LEN
                            /\ is_item(f, p, s[k]) /\ f[s[k]].id \in ids
      /\ \A k \in 1 .. n : k + 1 <= n => s[k] + ItemLen(f, s[k]) <= s[k + 1]
      /\ \A k \in 1 .. n : s[k] \in Nat
  BY <1>1 DEF InRow
<1>0. << >> \o s = s BY <1>1
<1> HIDE DEF r, n
<1>4. ASSUME f[o].id \in ids, NEW k \in 1 .. n + 1
      PROVE  /\ from <= r[k] /\ r[k] < End(p) - MIN_FILE_LEN
             /\ is_item(f, p, r[k]) /\ f[r[k]].id \in ids
  <2>1. CASE k = 1 BY <1>2, <1>4, <2>1
  <2>2. CASE k # 1
    <3>1. k \in 2 .. n + 1 /\ k - 1 \in 1 .. n BY <1>1, <2>2
    <3>2. next <= s[k - 1] /\ s[k - 1] \in Nat BY <1>3, <3>1
    <3>3. from <= s[k - 1] BY <3>2
    <3> QED BY <1>2, <1>3, <3>1, <3>3
  <2> QED BY <2>1, <2>2
<1>5. ASSUME NEW k \in 1 .. n + 1, k + 1 <= n + 1
      PROVE  r[k] + ItemLen(f, r[k]) <= r[k + 1]
  <2>1. k + 1 \in 2 .. n + 1 /\ k \in 1 .. n /\ (k + 1) - 1 = k BY <1>1, <1>5
  <2>2. r[k + 1] = s[k] BY <1>2, <2>1
  <2>3. CASE k = 1 BY <1>2, <1>3, <2>1, <2>2, <2>3
  <2>4. CASE k # 1
    <3>1. k \in 2 .. n + 1 /\ k - 1 \in 1 .. n /\ (k - 1) + 1 = k /\ k <= n BY <1>1, <2>1, <2>4
    <3>2. r[k] = s[k - 1] BY <1>2, <3>1
    <3>3. s[k - 1] + ItemLen(f, s[k - 1]) <= s[k] BY <1>3, <3>1
    <3> QED BY <2>2, <3>2, <3>3
  <2> QED BY <2>3, <2>4
<1>6. InRow(f, p, ids, from, s)
  <2>1. \A k \in 1 .. n : from <= s[k] BY <1>3
  <2> QED BY <1>1, <1>3, <2>1 DEF InRow, n
<1> QED BY <1>0, <1>2, <1>4, <1>5, <1>6 DEF InRow, r

(* What mm_get_next finds from any offset on is a row of items, none       *)
(* inside another.                                                         *)
LEMMA TailsInRow ==
  ASSUME NEW f \in [Addr -> Cell], NEW p \in Page, NEW ids, NEW g,
         g = [from \in 0 .. 3 * PageLen |-> Row(f, p, ids, g, from)],
         NEW x \in 0 .. 3 * PageLen
  PROVE  InRow(f, p, ids, x, g[x])
<1> DEFINE N == 3 * PageLen
           T == {m \in 0 .. N : ~InRow(f, p, ids, N - m, g[N - m])}
<1>1. N \in Nat /\ 2 * PageLen <= N BY PageFacts
<1>2. g = [from \in 0 .. N |-> Row(f, p, ids, g, from)] /\ x \in 0 .. N OBVIOUS
<1> HIDE DEF N
<1>4. T = {}
  <2> SUFFICES ASSUME T # {} PROVE FALSE OBVIOUS
  <2>1. T \in SUBSET Nat BY <1>1
  <2>2. PICK m \in T : \A y \in T : m <= y BY <2>1, Least
  <2> DEFINE from == N - m  next == Behind(f, p, from)  o == First(f, p, from)
  <2>3. from \in 0 .. N /\ from \in Nat /\ m \in Nat /\ m <= N BY <1>1, <2>2
  <2>4. ~InRow(f, p, ids, from, g[from]) BY <2>2
  <2>5. g[from] = Row(f, p, ids, g, from) BY <1>2, <2>3
  <2>6. CASE Stops(f, p, from) = {}
    <3>1. g[from] = << >> BY <2>5, <2>6 DEF Row
    <3>2. InRow(f, p, ids, from, << >>) BY DEF InRow
    <3> QED BY <2>4, <3>1, <3>2
  <2>7. CASE Stops(f, p, from) # {}
    <3>1. g[from] = (IF f[o].id \in ids THEN <<o>> ELSE << >>) \o g[next]
      BY <2>5, <2>7 DEF Row
    <3>2. /\ o \in Nat /\ from <= o /\ o < End(p) - MIN_FILE_LEN /\ is_item(f, p, o)
          /\ next \in from + 1 .. 2 * PageLen
      BY <2>3, <2>7, FirstFacts
    <3>3. o + ItemLen(f, o) = next BY DEF Behind
    <3> HIDE DEF next, o
    <3>4. /\ N - next \in 0 .. N /\ N - (N - next) = next /\ ~(m <= N - next)
          /\ from <= next /\ next \in Nat
      BY <1>1, <2>3, <3>2, PageFacts
    <3>5. InRow(f, p, ids, next, g[next])
      <4>1. N - next \notin T BY <2>2, <3>4
      <4> QED BY <3>4, <4>1
    <3>6. /\ InRow(f, p, ids, from, << >> \o g[next])
          /\ f[o].id \in ids => InRow(f, p, ids, from, <<o>> \o g[next])
      <4> HIDE DEF from
      <4> QED BY <2>3, <3>2, <3>3, <3>4, <3>5, RowGrows
    <3> QED BY <2>4, <3>1, <3>6
  <2> QED BY <2>6, <2>7
<1>5. N - x \in 0 .. N /\ N - (N - x) = x BY <1>1, <1>2
<1> QED BY <1>4, <1>5

(* What a scan of a whole page finds is a row of items, none inside        *)
(* another.                                                                *)
LEMMA ItemsInRow ==
  ASSUME NEW f \in [Addr -> Cell], NEW p \in Page, NEW ids
  PROVE  InRow(f, p, ids, Base(p) + QWORD_LEN, Items(f, p, ids))
<1> DEFINE N == 3 * PageLen
           g == CHOOSE h : h = [from \in 0 .. N |-> Row(f, p, ids, h, from)]
<1>1. g = [from \in 0 .. N |-> Row(f, p, ids, g, from)] BY ItemsFunction
<1>2. Items(f, p, ids) = g[Base(p) + QWORD_LEN] BY Zenon DEF Items, Row, First, Behind
<1> HIDE DEF g
<1>3. Base(p) + QWORD_LEN \in 0 .. N BY PageFacts DEF QWORD_LEN, Page
<1> QED BY <1>1, <1>2, <1>3, TailsInRow

-----------------------------------------------------------------------------
(* What a call finds.                                                      *)
LEMMA ActivePage ==
  ASSUME NEW f
  PROVE  LET p == mm_get_active_page(f)
         IN  /\ p \in {0, 1, 2} /\ (p # 0 => p \in Page /\ f[Base(p)] = Marker)
             /\ p = 0 <=> \A r \in Page : f[Base(r)] # Marker
BY DEF mm_get_active_page, Page

(* What mm_get_file_address finds are items of the asked identifier behind *)
(* the marker of the active page.                                          *)
LEMMA FoundFacts ==
  ASSUME NEW f \in [Addr -> Cell], NEW i, NEW p, p = mm_get_active_page(f)
  PROVE  /\ Found(f, i) \in Seq(Nat)
         /\ Found(f, i) # << >> => p \in Page
         /\ \A k \in 1 .. Len(Found(f, i)) :
              LET o == Found(f, i)[k]
              IN  /\ Base(p) < o /\ f[o + 1].file \in Files /\ f[o].id = i
                  /\ ItemLen(f, o) \in Nat /\ ItemLen(f, o) >= MIN_FILE_LEN
<1>1. CASE p = 0
  <2>1. Found(f, i) = << >> BY <1>1 DEF Found
  <2> QED BY <2>1
<1>2. CASE p # 0
  <2>1. p \in Page BY <1>2, ActivePage
  <2>2. Found(f, i) = Items(f, p, {i}) BY <1>2 DEF Found
  <2> DEFINE s == Items(f, p, {i})
  <2>3. InRow(f, p, {i}, Base(p) + QWORD_LEN, s) BY <2>1, ItemsInRow
  <2> HIDE DEF s
  <2>4. ASSUME NEW k \in 1 .. Len(s)
        PROVE  LET o == s[k]
               IN  /\ Base(p) < o /\ f[o + 1].file \in Files /\ f[o].id = i
                   /\ ItemLen(f, o) \in Nat /\ ItemLen(f, o) >= MIN_FILE_LEN
    <3> DEFINE o == s[k]
    <3>1. /\ o \in Nat /\ Base(p) + QWORD_LEN <= o /\ o < End(p) - MIN_FILE_LEN
          /\ is_item(f, p, o) /\ f[o].id \in {i}
      BY <2>3 DEF InRow
    <3> HIDE DEF o
    <3>2. Base(p) < o BY <2>1, <3>1, PageFacts DEF QWORD_LEN
    <3>3. /\ f[o + 1].file \in Files /\ ItemLen(f, o) \in Nat /\ ItemLen(f, o) >= MIN_FILE_LEN
      BY <2>1, <3>1, ItemFacts
    <3> QED BY <3>1, <3>2, <3>3 DEF o
  <2> QED BY <2>1, <2>2, <2>3, <2>4 DEF InRow, s
<1> QED BY <1>1, <1>2

(* mm_get returns a file of the store or none, and none where it found no  *)
(* item.                                                                   *)
LEMMA GetTyped ==
  ASSUME NEW f \in [Addr -> Cell], NEW i
  PROVE  /\ mm_get(f, i) \in File
         /\ mm_get(f, i) # NoFile => Found(f, i) # << >>
<1> DEFINE s == Found(f, i)
<1>1. CASE s = << >> BY <1>1 DEF mm_get, File
<1>2. CASE s # << >>
  <2>1. s \in Seq(Nat) BY FoundFacts
  <2> HIDE DEF s
  <2>2. Len(s) \in 1 .. Len(s) BY <1>2, <2>1
  <2>3. f[Last(s) + 1].file \in Files BY <2>2, FoundFacts DEF s, Last
  <2>4. mm_get(f, i) \in {f[Last(s) + 1].file, NoFile} BY Zenon DEF mm_get, s
  <2> QED BY <1>2, <2>3, <2>4 DEF File, s
<1> QED BY <1>1, <1>2

(* The end of the last item is on the page, behind the marker, or further. *)
LEMMA EmptyBeyond ==
  ASSUME NEW f \in [Addr -> Cell], NEW p \in Page, p = mm_get_active_page(f)
  PROVE  Empty(f) \in Nat /\ Base(p) < Empty(f)
<1> DEFINE s == Items(f, p, Ids)
<1>1. InRow(f, p, Ids, Base(p) + QWORD_LEN, s) BY ItemsInRow
<1>2. Empty(f) = IF s = << >> THEN Base(p) + QWORD_LEN ELSE Last(s) + ItemLen(f, Last(s))
  BY DEF Empty
<1> HIDE DEF s
<1>3. CASE s = << >> BY <1>2, <1>3, PageFacts DEF QWORD_LEN
<1>4. CASE s # << >>
  <2>1. s \in Seq(Nat) BY <1>1 DEF InRow
  <2>2. Len(s) \in 1 .. Len(s) BY <1>4, <2>1
  <2> DEFINE o == Last(s)
  <2>3. /\ o \in Nat /\ Base(p) + QWORD_LEN <= o /\ o < End(p) - MIN_FILE_LEN /\ is_item(f, p, o)
    BY <1>1, <2>1, <2>2 DEF InRow, Last
  <2> HIDE DEF o
  <2>4. ItemLen(f, o) \in Nat BY <2>3, ItemFacts
  <2>5. o + ItemLen(f, o) \in Nat /\ Base(p) < o + ItemLen(f, o)
    BY <2>3, <2>4, PageFacts DEF QWORD_LEN
  <2> QED BY <1>2, <1>4, <2>5 DEF o
<1> QED BY <1>3, <1>4

-----------------------------------------------------------------------------
(* Operations that leave the marker of page p alone.                       *)
Apart(p, o) == Base(p) \notin o.addr .. o.addr + Len(o.cells) - 1
(* Operations that all leave the marker of page p alone.                   *)
AllApart(p, s) == s \in Seq(Operation) /\ \A k \in 1 .. Len(s) : Apart(p, s[k])

(* Two lists of operations that leave the marker of page p alone, joined,  *)
(* leave it alone.                                                         *)
LEMMA ApartJoined ==
  ASSUME NEW p, NEW s, NEW t, AllApart(p, s), AllApart(p, t)
  PROVE  AllApart(p, s \o t)
<1> DEFINE r == s \o t  m == Len(s)  n == Len(t)
<1>1. s \in Seq(Operation) /\ t \in Seq(Operation) BY DEF AllApart
<1>2. /\ r \in Seq(Operation) /\ m \in Nat /\ n \in Nat /\ Len(r) = m + n
      /\ \A k \in 1 .. m + n : r[k] = IF k <= m THEN s[k] ELSE t[k - m]
  BY <1>1
<1>4. \A j \in 1 .. n : Apart(p, t[j]) BY DEF AllApart
<1>5. \A k \in 1 .. m : Apart(p, s[k]) BY DEF AllApart
<1> HIDE DEF r, m, n
<1>6. ASSUME NEW k \in 1 .. m + n PROVE Apart(p, r[k])
  <2>1. CASE k <= m
    <3>1. k \in 1 .. m BY <1>2, <2>1
    <3> QED BY <1>2, <1>5, <2>1, <3>1
  <2>2. CASE ~(k <= m)
    <3>1. k - m \in 1 .. n BY <1>2, <2>2
    <3> QED BY <1>2, <1>4, <2>2, <3>1
  <2> QED BY <2>1, <2>2
<1> QED BY <1>2, <1>6 DEF AllApart, r

(* A pair is two single lists joined.                                      *)
LEMMA Pair == ASSUME NEW x, NEW y PROVE <<x>> \o <<y>> = <<x, y>>
<1> DEFINE r == <<x>> \o <<y>>
<1>1. Len(<<x>>) = 1 /\ Len(<<y>>) = 1 OBVIOUS
<1>2. r = [k \in 1 .. 2 |-> IF k <= 1 THEN <<x>>[k] ELSE <<y>>[k - 1]] BY <1>1
<1>3. r = [k \in 1 .. 2 |-> <<x, y>>[k]]
  <2>1. ASSUME NEW k \in 1 .. 2 PROVE (IF k <= 1 THEN <<x>>[k] ELSE <<y>>[k - 1]) = <<x, y>>[k]
    <3>1. CASE k = 1 BY <3>1
    <3>2. CASE k = 2 BY <3>2
    <3> QED BY <3>1, <3>2
  <2> QED BY <1>2, <2>1
<1>4. <<x, y>> = [k \in 1 .. 2 |-> <<x, y>>[k]] OBVIOUS
<1> QED BY <1>3, <1>4

(* A list of one operation that leaves the marker of page p alone.         *)
LEMMA ApartOne ==
  ASSUME NEW p, NEW o \in Operation, Apart(p, o)
  PROVE  AllApart(p, <<o>>)
<1>1. <<o>> \in Seq(Operation) /\ Len(<<o>>) = 1 /\ <<o>>[1] = o OBVIOUS
<1>2. \A k \in 1 .. 1 : k = 1 OBVIOUS
<1> QED BY <1>1, <1>2 DEF AllApart

(* A list of no operation leaves the marker of page p alone.               *)
LEMMA ApartNone == ASSUME NEW p PROVE AllApart(p, << >>)
BY DEF AllApart

(* A write behind the marker.                                              *)
LEMMA WriteApart ==
  ASSUME NEW p \in Page, NEW a \in Nat, NEW cells \in Seq(Cell), Base(p) < a
  PROVE  Write(a, cells) \in Operation /\ Apart(p, Write(a, cells))
<1>1. Write(a, cells) \in Operation BY DEF Write, Operation
<1>2. Len(cells) \in Nat /\ Base(p) \in Nat BY PageFacts
<1> QED BY <1>1, <1>2 DEF Write, Apart

(* n zero cells are a sequence of n cells.                                 *)
LEMMA ZerosTyped ==
  ASSUME NEW n \in Nat
  PROVE  Zeros(n) \in Seq(Cell) /\ Len(Zeros(n)) = n
BY DEF Zeros, Cell

(* The operations of a call lie behind the marker of the active page.      *)
LEMMA DuplicatesApart ==
  ASSUME NEW f \in [Addr -> Cell], NEW i, NEW p \in Page, p = mm_get_active_page(f)
  PROVE  AllApart(p, Duplicates(f, i))
<1> DEFINE s == Found(f, i)  n == Len(s)
<1>1. s \in Seq(Nat) /\ n \in Nat BY FoundFacts
<1>2. ASSUME NEW k \in 1 .. n
      PROVE  /\ Write(s[k], Zeros(ItemLen(f, s[k]))) \in Operation
             /\ Apart(p, Write(s[k], Zeros(ItemLen(f, s[k]))))
  <2> DEFINE o == s[k]
  <2>1. o \in Nat BY <1>1
  <2>2. Base(p) < o /\ ItemLen(f, o) \in Nat BY FoundFacts
  <2> HIDE DEF o
  <2> QED BY <2>1, <2>2, ZerosTyped, WriteApart DEF o
<1>3. Duplicates(f, i) = [k \in 1 .. n - 1 |-> Write(s[k], Zeros(ItemLen(f, s[k])))]
  BY DEF Duplicates
<1> DEFINE d == [k \in 1 .. n - 1 |-> Write(s[k], Zeros(ItemLen(f, s[k])))]
           W(k) == Write(s[k], Zeros(ItemLen(f, s[k])))
<1>4. ASSUME NEW k \in 1 .. n - 1 PROVE W(k) \in Operation /\ Apart(p, W(k)) /\ d[k] = W(k)
  <2>1. k \in 1 .. n BY <1>1
  <2> QED BY <1>2, <2>1
<1>5. PICK m \in Nat : 1 .. n - 1 = 1 .. m
  <2>1. CASE n = 0 BY <2>1
  <2>2. CASE n # 0 BY <1>1, <2>2
  <2> QED BY <2>1, <2>2
<1> HIDE DEF s, n
<1>6. d \in Seq(Operation) /\ Len(d) = m
  <2>1. d = [k \in 1 .. m |-> W(k)] BY <1>5
  <2>2. \A k \in 1 .. m : W(k) \in Operation BY <1>4, <1>5
  <2> HIDE DEF d, W
  <2> QED BY <2>1, <2>2
<1> HIDE DEF d
<1>7. AllApart(p, d) BY <1>4, <1>5, <1>6 DEF AllApart
<1> QED BY <1>3, <1>7 DEF d

(* The header and the file mm_set writes.                                  *)
LEMMA NewItemTyped ==
  ASSUME NEW i \in Ids, NEW v \in Files
  PROVE  /\ <<Id(i), Meta(v)>> \in Seq(Cell)
         /\ [k \in 1 .. FileLen[v] |-> Data(v, k)] \in Seq(Cell)
<1>1. Id(i) \in Cell /\ Meta(v) \in Cell BY DEF Cell
<1>2. \A k \in 1 .. FileLen[v] : Data(v, k) \in Cell BY DEF Cell
<1>3. FileLen[v] \in Nat BY FilesAssumption
<1> QED BY <1>1, <1>2, <1>3

(* A write behind the marker of page p leaves the marker alone.            *)
LEMMA ApartWrite ==
  ASSUME NEW p \in Page, NEW a \in Nat, NEW cells \in Seq(Cell), Base(p) < a
  PROVE  AllApart(p, <<Write(a, cells)>>)
BY WriteApart, ApartOne

(* The item mm_get uses, the last one found, lies behind the marker.       *)
LEMMA LastFound ==
  ASSUME NEW f \in [Addr -> Cell], NEW i, NEW p \in Page, p = mm_get_active_page(f),
         Found(f, i) # << >>
  PROVE  /\ Last(Found(f, i)) \in Nat /\ Base(p) < Last(Found(f, i))
         /\ ItemLen(f, Last(Found(f, i))) \in Nat
<1> DEFINE s == Found(f, i)
<1>1. s \in Seq(Nat) BY FoundFacts
<1>2. Len(s) \in 1 .. Len(s) BY <1>1
<1>3. LET o == s[Len(s)] IN Base(p) < o /\ ItemLen(f, o) \in Nat BY <1>2, FoundFacts
<1>4. s[Len(s)] \in Nat BY <1>1, <1>2
<1> QED BY <1>3, <1>4 DEF Last

(* Every write of mm_set lies behind the marker of the active page.        *)
LEMMA SetApart ==
  ASSUME NEW f \in [Addr -> Cell], NEW i \in Ids, NEW v \in Files,
         NEW p \in Page, p = mm_get_active_page(f)
  PROVE  AllApart(p, mm_set(f, i, v))
<1> DEFINE at   == Empty(f)
           head == Write(at, <<Id(i), Meta(v)>>)
           body == Write(at + ITEM_HEADER_SZ, [k \in 1 .. FileLen[v] |-> Data(v, k)])
           old  == IF Found(f, i) = << >> THEN << >>
                   ELSE << Write(Last(Found(f, i)), Zeros(ITEM_HEADER_SZ)) >>
<1>1. at \in Nat /\ Base(p) < at BY EmptyBeyond
<1>2. at + ITEM_HEADER_SZ \in Nat /\ Base(p) < at + ITEM_HEADER_SZ
  <2> HIDE DEF at
  <2> QED BY <1>1, PageFacts DEF ITEM_HEADER_SZ
<1>3. mm_set(f, i, v) = Duplicates(f, i) \o <<head, body>> \o old BY DEF mm_set
<1> HIDE DEF at
<1>4. AllApart(p, <<head>>) BY <1>1, NewItemTyped, ApartWrite
<1>5. AllApart(p, <<body>>) BY <1>2, NewItemTyped, ApartWrite
<1>6. AllApart(p, old)
  <2>1. CASE Found(f, i) = << >> BY <2>1, ApartNone
  <2>2. CASE Found(f, i) # << >>
    <3>1. Zeros(ITEM_HEADER_SZ) \in Seq(Cell) BY ZerosTyped DEF ITEM_HEADER_SZ
    <3>2. Last(Found(f, i)) \in Nat /\ Base(p) < Last(Found(f, i)) BY <2>2, LastFound
    <3>3. AllApart(p, << Write(Last(Found(f, i)), Zeros(ITEM_HEADER_SZ)) >>)
      BY <3>1, <3>2, ApartWrite
    <3> QED BY <2>2, <3>3
  <2> QED BY <2>1, <2>2
<1> HIDE DEF head, body, old
<1>7. <<head>> \o <<body>> = <<head, body>> BY Pair
<1>8. AllApart(p, <<head, body>>) BY <1>4, <1>5, <1>7, ApartJoined
<1>9. AllApart(p, Duplicates(f, i)) BY DuplicatesApart
<1>10. AllApart(p, Duplicates(f, i) \o <<head, body>>) BY <1>8, <1>9, ApartJoined
<1> QED BY <1>3, <1>6, <1>10, ApartJoined

(* Every write of mm_invalidate lies behind the marker of the active page. *)
LEMMA InvalidateApart ==
  ASSUME NEW f \in [Addr -> Cell], NEW i, NEW p \in Page, p = mm_get_active_page(f),
         Found(f, i) # << >>
  PROVE  AllApart(p, mm_invalidate(f, i))
<1> DEFINE o == Last(Found(f, i))
<1>1. o \in Nat /\ Base(p) < o /\ ItemLen(f, o) \in Nat BY LastFound
<1>2. mm_invalidate(f, i) = Duplicates(f, i) \o << Write(o, Zeros(ItemLen(f, o))) >>
  BY DEF mm_invalidate
<1> HIDE DEF o
<1>3. AllApart(p, << Write(o, Zeros(ItemLen(f, o))) >>) BY <1>1, ZerosTyped, ApartWrite
<1> QED BY <1>2, <1>3, DuplicatesApart, ApartJoined

-----------------------------------------------------------------------------
(* Turning the pages: the active page p is copied behind the marker of the *)
(* other page q.                                                           *)
LEMMA OtherPage ==
  ASSUME NEW p \in Page, NEW f \in [Addr -> Cell]
  PROVE  LET q == 3 - p
             e == Done(f, Erase(q), PageLen)
         IN  /\ q \in Page /\ e \in [Addr -> Cell] /\ Base(p) \in Nat /\ Base(q) \in Nat
             /\ \A a \in Base(p) .. End(p) - 1 : e[a] = f[a]
             /\ q = 1 => Base(q) = 0 /\ Base(p) = PageLen
             /\ q = 2 => Base(q) = PageLen /\ Base(p) = 0
             /\ Erase(q) \in Operation /\ Apart(p, Erase(q))
<1> DEFINE q == 3 - p  o == Erase(q)  e == Done(f, o, PageLen)
<1>1. /\ q \in Page /\ (q = 1 => p = 2) /\ (q = 2 => p = 1) BY DEF Page
<1>2. /\ Base(p) \in Nat /\ Base(q) \in Nat
      /\ q = 1 => Base(q) = 0 /\ Base(p) = PageLen
      /\ q = 2 => Base(q) = PageLen /\ Base(p) = 0
  BY <1>1, PageFacts
<1> HIDE DEF q
<1>3. /\ o.op = "erase" /\ o.addr = Base(q) /\ o.cells = [k \in 1 .. PageLen |-> Erased]
      /\ o = [op |-> "erase", addr |-> Base(q), cells |-> o.cells]
  BY DEF Erase
<1>4. o.cells \in Seq(Cell) /\ Len(o.cells) = PageLen
  <2>1. Erased \in Cell BY DEF Cell
  <2>2. PageLen \in Nat BY PageFacts
  <2> DEFINE c == [k \in 1 .. PageLen |-> Erased]
  <2>3. c \in Seq(Cell) /\ Len(c) = PageLen BY <2>1, <2>2
  <2>4. o.cells = c BY <1>3
  <2> HIDE DEF o, c
  <2> QED BY <2>3, <2>4
<1> HIDE DEF o
<1>5. o \in Operation BY <1>2, <1>3, <1>4 DEF Operation
<1>6. Base(p) .. End(p) - 1 \subseteq Addr BY PageFacts DEF Page
<1>7. \A a \in Base(p) .. End(p) - 1 : a \notin Base(q) .. Base(q) + PageLen - 1
  <2>1. PageLen \in Nat /\ End(p) = Base(p) + PageLen BY PageFacts
  <2>2. q = 1 \/ q = 2 BY <1>1 DEF Page
  <2> QED BY <1>2, <2>1, <2>2
<1>8. Apart(p, o)
  <2>1. Base(p) \in Base(p) .. End(p) - 1 BY PageFacts
  <2> QED BY <1>3, <1>4, <1>7, <2>1 DEF Apart
<1>9. \A a \in Base(p) .. End(p) - 1 : e[a] = f[a]
  BY <1>3, <1>6, <1>7 DEF Done
<1>10. \A a \in Addr : e[a] \in {Erased, f[a]} BY <1>3 DEF Done
<1>11. e \in [Addr -> Cell]
  <2>1. e = [a \in Addr |-> e[a]] BY DEF Done
  <2>2. \A a \in Addr : e[a] \in Cell BY <1>10 DEF Cell
  <2> HIDE DEF e
  <2> QED BY <2>1, <2>2
<1> QED BY <1>1, <1>2, <1>5, <1>8, <1>9, <1>11 DEF q, o

(* The items of a page that is kept while the other one is erased.         *)
LEMMA KeptItems ==
  ASSUME NEW p \in Page, NEW f \in [Addr -> Cell], NEW s,
         s = Items(Done(f, Erase(3 - p), PageLen), p, Ids)
  PROVE  /\ s \in Seq(Nat)
         /\ \A k \in 1 .. Len(s) :
              /\ Base(p) + QWORD_LEN <= s[k] /\ s[k] \in Nat
              /\ ItemLen(f, s[k]) \in Nat
              /\ s[k] + ItemLen(f, s[k]) <= 2 * PageLen
              /\ k + 1 <= Len(s) => s[k] + ItemLen(f, s[k]) <= s[k + 1]
<1> DEFINE e == Done(f, Erase(3 - p), PageLen)
<1>1. e \in [Addr -> Cell] /\ \A a \in Base(p) .. End(p) - 1 : e[a] = f[a] BY OtherPage
<1>2. s = Items(e, p, Ids) OBVIOUS
<1> HIDE DEF e
<1>3. InRow(e, p, Ids, Base(p) + QWORD_LEN, s) BY <1>1, <1>2, ItemsInRow
<1>4. s \in Seq(Nat) BY <1>3 DEF InRow
<1>5. ASSUME NEW k \in 1 .. Len(s)
      PROVE  /\ Base(p) + QWORD_LEN <= s[k] /\ s[k] \in Nat
             /\ ItemLen(f, s[k]) \in Nat /\ s[k] + ItemLen(f, s[k]) <= 2 * PageLen
             /\ ItemLen(f, s[k]) = ItemLen(e, s[k])
  <2> DEFINE o == s[k]
  <2>1. /\ o \in Nat /\ Base(p) + QWORD_LEN <= o /\ o < End(p) - MIN_FILE_LEN
        /\ is_item(e, p, o)
    BY <1>3, <1>4 DEF InRow
  <2> HIDE DEF o
  <2>2. o + 1 \in Base(p) .. End(p) - 1
    BY <2>1, PageFacts DEF QWORD_LEN, MIN_FILE_LEN, ITEM_HEADER_SZ
  <2>3. ItemLen(f, o) = ItemLen(e, o) BY <1>1, <2>2 DEF ItemLen
  <2>4. ItemLen(e, o) \in Nat /\ o + ItemLen(e, o) <= 2 * PageLen
    BY <1>1, <2>1, ItemFacts
  <2> QED BY <2>1, <2>3, <2>4 DEF o
<1>6. ASSUME NEW k \in 1 .. Len(s), k + 1 <= Len(s)
      PROVE  s[k] + ItemLen(f, s[k]) <= s[k + 1]
  <2>1. s[k] + ItemLen(e, s[k]) <= s[k + 1] BY <1>3, <1>6 DEF InRow
  <2> QED BY <1>5, <2>1
<1> QED BY <1>4, <1>5, <1>6

(* Where they are copied to: nearer to the base of the other page than     *)
(* they were to the base of theirs.                                        *)
LEMMA CopyAddresses ==
  ASSUME NEW b \in Nat, NEW c \in Nat, NEW n \in Nat,
         NEW s, NEW d, NEW to,
         \A k \in 1 .. n : s[k] \in Nat /\ d[k] \in Nat /\ b + 1 <= s[k],
         \A k \in 1 .. n : k + 1 <= n => s[k] + d[k] <= s[k + 1],
         to = [k \in 0 .. n |-> IF k = 0 THEN c + 1 ELSE to[k - 1] + d[k]]
  PROVE  \A k \in 1 .. n : /\ to[k - 1] \in Nat /\ c < to[k - 1]
                            /\ to[k - 1] + b <= s[k] + c
<1> DEFINE T == {k \in 0 .. n : /\ to[k] \in Nat /\ c < to[k]
                                /\ k + 1 <= n => to[k] + b <= s[k + 1] + c}
<1>1. 0 \in T
  <2>1. to[0] = c + 1 OBVIOUS
  <2>2. 0 + 1 <= n => b + 1 <= s[0 + 1] OBVIOUS
  <2>3. 0 + 1 <= n => s[0 + 1] \in Nat OBVIOUS
  <2> QED BY <2>1, <2>2, <2>3
<1>2. ASSUME NEW k \in 0 .. n - 1, k \in T PROVE k + 1 \in T
  <2>1. k + 1 \in 0 .. n /\ k + 1 \in 1 .. n /\ k + 1 # 0 /\ (k + 1) - 1 = k OBVIOUS
  <2>2. to[k + 1] = to[k] + d[k + 1] BY <2>1
  <2>3. /\ s[k + 1] \in Nat /\ d[k + 1] \in Nat BY <2>1
  <2>4. to[k] \in Nat /\ c < to[k] /\ to[k] + b <= s[k + 1] + c BY <1>2, <2>1
  <2>5. ASSUME (k + 1) + 1 <= n PROVE to[k + 1] + b <= s[(k + 1) + 1] + c
    <3>1. s[k + 1] + d[k + 1] <= s[(k + 1) + 1] BY <2>1, <2>5
    <3>2. (k + 1) + 1 \in 1 .. n BY <2>1, <2>5
    <3>3. s[(k + 1) + 1] \in Nat BY <3>2
    <3> DEFINE x == to[k]  y == s[k + 1]  z == d[k + 1]  w == s[(k + 1) + 1]
    <3>4. /\ x \in Nat /\ y \in Nat /\ z \in Nat /\ w \in Nat /\ to[k + 1] = x + z
          /\ x + b <= y + c /\ y + z <= w
      BY <2>2, <2>3, <2>4, <3>1, <3>3
    <3> HIDE DEF x, y, z, w
    <3>5. x + z + b <= w + c BY <3>4
    <3> QED BY <3>4, <3>5 DEF w
  <2>6. to[k + 1] \in Nat /\ c < to[k + 1] BY <2>2, <2>3, <2>4
  <2> QED BY <2>1, <2>5, <2>6
<1>3. ASSUME NEW k \in 1 .. n
      PROVE  to[k - 1] \in Nat /\ c < to[k - 1] /\ to[k - 1] + b <= s[k] + c
  <2>1. k - 1 \in 0 .. n /\ (k - 1) + 1 = k /\ k <= n OBVIOUS
  <2>2. k - 1 \in T
    <3>1. \A j \in 0 .. n - 1 : j \in T => j + 1 \in T BY <1>2
    <3> HIDE DEF T
    <3>2. \A j \in 0 .. n : j \in T BY <1>1, <3>1, Induction
    <3> QED BY <2>1, <3>2
  <2> QED BY <2>1, <2>2
<1> QED BY <1>3

(* What mm_turn_page does: it erases q, copies the items of p one behind   *)
(* the other, marks q and unmarks p.                                       *)
CopyOf(f, o, a, w) ==
  /\ w \in Operation /\ w.op = "write" /\ w.addr = a /\ Len(w.cells) = ItemLen(f, o)
  /\ \A j \in 1 .. ItemLen(f, o) : w.cells[j] = f[o + j - 1]

(* The addresses mm_turn_page copies to: the items one behind the other on *)
(* the other page, none farther on than its original.                      *)
Placed(f, p, s, to) ==
  /\ to[0] = Base(3 - p) + 1
  /\ \A k \in 1 .. Len(s) :
       /\ to[k] = to[k - 1] + ItemLen(f, s[k])
       /\ to[k - 1] \in Nat /\ Base(3 - p) < to[k - 1]
       /\ to[k - 1] + Base(p) <= s[k] + Base(3 - p)

(* What mm_turn_page does: it erases the other page, copies the items      *)
(* found in order, none farther behind its marker than the original, marks *)
(* the other page and unmarks this one.                                    *)
LEMMA TurnPlan ==
  ASSUME NEW f \in [Addr -> Cell], mm_get_active_page(f) # 0
  PROVE  LET p == mm_get_active_page(f)
             q == 3 - p
         IN  \E s, to, c :
               /\ mm_turn_page(f) = <<Erase(q)>> \o c
                    \o << Write(Base(q), <<Marker>>), Write(Base(p), <<Zero>>) >>
               /\ s = Items(Done(f, Erase(q), PageLen), p, Ids)
               /\ Placed(f, p, s, to)
               /\ AllApart(p, c) /\ Len(c) = Len(s)
               /\ \A k \in 1 .. Len(s) : CopyOf(f, s[k], to[k - 1], c[k])
<1> DEFINE p == mm_get_active_page(f)
           q == 3 - p
           s == Items(Done(f, Erase(q), PageLen), p, Ids)
           to == CHOOSE h : h = [k \in 0 .. Len(s) |->
                   IF k = 0 THEN Base(q) + QWORD_LEN ELSE h[k - 1] + ItemLen(f, s[k])]
           Copy(k) == Write(to[k - 1], [j \in 1 .. ItemLen(f, s[k]) |-> f[s[k] + j - 1]])
           copies == [k \in 1 .. Len(s) |-> Copy(k)]
           tail == << Write(Base(q), <<Marker>>), Write(Base(p), <<Zero>>) >>
<1>1. mm_turn_page(f) = <<Erase(q)>> \o copies \o tail BY Zenon DEF mm_turn_page
<1>0. p \in Page BY ActivePage
<1> HIDE DEF p
<1>2. /\ s \in Seq(Nat)
      /\ \A k \in 1 .. Len(s) :
           /\ Base(p) + QWORD_LEN <= s[k] /\ s[k] \in Nat
           /\ ItemLen(f, s[k]) \in Nat
           /\ s[k] + ItemLen(f, s[k]) <= 2 * PageLen
           /\ k + 1 <= Len(s) => s[k] + ItemLen(f, s[k]) <= s[k + 1]
  BY <1>0, KeptItems
<1>3. /\ q \in Page /\ Base(p) \in Nat /\ Base(q) \in Nat
      /\ q = 1 => Base(q) = 0 /\ Base(p) = PageLen
      /\ q = 2 => Base(q) = PageLen /\ Base(p) = 0
      /\ Erase(q) \in Operation /\ Apart(p, Erase(q))
  BY <1>0, OtherPage
<1> DEFINE n == Len(s)  d == [k \in 1 .. n |-> ItemLen(f, s[k])]
<1>4. n \in Nat BY <1>2
<1>5. to = [k \in 0 .. n |-> IF k = 0 THEN Base(q) + 1 ELSE to[k - 1] + d[k]]
  <2> DEFINE Body(h, k) == IF k = 0 THEN Base(q) + QWORD_LEN ELSE h[k - 1] + ItemLen(f, s[k])
  <2>1. \E h : h = [k \in 0 .. n |-> IF k = 0 THEN Base(q) + 1 ELSE h[k - 1] + d[k]]
    <3> DEFINE x == Base(q) + 1
    <3> HIDE DEF n, d, x
    <3>1. \E h : Sums(h, n, x, d) BY <1>4, RunningSum
    <3> QED BY <3>1 DEF Sums, x
  <2>2. ASSUME NEW h, NEW k \in 0 .. n
        PROVE  (IF k = 0 THEN Base(q) + 1 ELSE h[k - 1] + d[k]) = Body(h, k)
    <3>1. CASE k = 0 BY <3>1 DEF QWORD_LEN
    <3>2. CASE k # 0
      <4>1. k \in 1 .. n BY <1>4, <3>2
      <4>2. d[k] = ItemLen(f, s[k]) BY <4>1
      <4> QED BY <3>2, <4>2
    <3> QED BY <3>1, <3>2
  <2>3. ASSUME NEW h
        PROVE  [k \in 0 .. n |-> IF k = 0 THEN Base(q) + 1 ELSE h[k - 1] + d[k]]
                 = [k \in 0 .. n |-> Body(h, k)]
    BY <2>2
  <2>4. \E h : h = [k \in 0 .. n |-> Body(h, k)]
    <3>1. PICK h : h = [k \in 0 .. n |-> IF k = 0 THEN Base(q) + 1 ELSE h[k - 1] + d[k]]
      BY <2>1
    <3>2. h = [k \in 0 .. n |-> Body(h, k)]
      <4> HIDE DEF Body, n, d
      <4> QED BY <2>3, <3>1
    <3> QED BY <3>2
  <2>5. to = CHOOSE h : h = [k \in 0 .. n |-> Body(h, k)] OBVIOUS
  <2> HIDE DEF Body, to
  <2>6. to = [k \in 0 .. n |-> Body(to, k)] BY <2>4, <2>5
  <2> QED BY <2>3, <2>6
<1> HIDE DEF s, to, q
<1>6. ASSUME NEW k \in 1 .. n
      PROVE  to[k - 1] \in Nat /\ Base(q) < to[k - 1] /\ to[k - 1] + Base(p) <= s[k] + Base(q)
  <2>1. /\ \A j \in 1 .. n : s[j] \in Nat /\ d[j] \in Nat /\ Base(p) + 1 <= s[j]
        /\ \A j \in 1 .. n : j + 1 <= n => s[j] + d[j] <= s[j + 1]
    BY <1>2 DEF QWORD_LEN
  <2> DEFINE b == Base(p)  c == Base(q)
  <2>2. b \in Nat /\ c \in Nat BY <1>3
  <2> HIDE DEF d, n, b, c
  <2>3. /\ \A j \in 1 .. n : s[j] \in Nat /\ d[j] \in Nat /\ b + 1 <= s[j]
        /\ to = [j \in 0 .. n |-> IF j = 0 THEN c + 1 ELSE to[j - 1] + d[j]]
    BY <1>5, <2>1 DEF b, c
  <2>4. \A j \in 1 .. n : to[j - 1] \in Nat /\ c < to[j - 1] /\ to[j - 1] + b <= s[j] + c
    BY <1>4, <2>1, <2>2, <2>3, CopyAddresses
  <2> QED BY <2>4 DEF b, c
<1>7. ASSUME NEW k \in 1 .. n
      PROVE  /\ Copy(k) \in Operation /\ Apart(p, Copy(k))
             /\ CopyOf(f, s[k], to[k - 1], Copy(k))
  <2> DEFINE o == s[k]  l == ItemLen(f, o)  a == to[k - 1]
             c == [j \in 1 .. l |-> f[o + j - 1]]
  <2>1. /\ o \in Nat /\ l \in Nat /\ a \in Nat /\ Base(q) < a /\ a + Base(p) <= o + Base(q)
        /\ o + l <= 2 * PageLen
    BY <1>2, <1>6
  <2> HIDE DEF o, l, a
  <2>2. \A j \in 1 .. l : f[o + j - 1] \in Cell
    <3>1. \A j \in 1 .. l : o + j - 1 \in Addr BY <2>1, PageFacts
    <3> QED BY <3>1
  <2>3. c \in Seq(Cell) /\ Len(c) = l
    <3> DEFINE C(j) == f[o + j - 1]
    <3>1. c = [j \in 1 .. l |-> C(j)] /\ \A j \in 1 .. l : C(j) \in Cell BY <2>2
    <3> HIDE DEF C, c
    <3> QED BY <2>1, <3>1
  <2>4. Copy(k) = Write(a, c) BY DEF o, l, a
  <2> HIDE DEF c
  <2>5. Write(a, c) \in Operation BY <2>1, <2>3 DEF Write, Operation
  <2>6. Base(p) \notin a .. a + l - 1
    <3>1. PageLen \in Nat /\ (q = 1 \/ q = 2) BY <1>3, PageFacts DEF Page
    <3> QED BY <1>3, <2>1, <3>1
  <2>7. Apart(p, Write(a, c)) BY <2>3, <2>6 DEF Write, Apart
  <2>8. /\ Write(a, c).op = "write" /\ Write(a, c).addr = a /\ Write(a, c).cells = c
        /\ \A j \in 1 .. l : c[j] = f[o + j - 1]
    BY DEF Write, c
  <2>9. CopyOf(f, o, a, Write(a, c)) BY <2>3, <2>5, <2>8 DEF CopyOf, l
  <2> HIDE DEF Copy
  <2> QED BY <2>4, <2>5, <2>7, <2>9 DEF o, a
<1>8. AllApart(p, copies) /\ Len(copies) = n /\ \A k \in 1 .. n : copies[k] = Copy(k)
  <2>1. copies = [k \in 1 .. n |-> Copy(k)] OBVIOUS
  <2> HIDE DEF Copy, copies, n
  <2>2. copies \in Seq(Operation) /\ Len(copies) = n BY <1>4, <1>7, <2>1
  <2>3. \A k \in 1 .. n : Apart(p, copies[k]) BY <1>7, <2>1
  <2> QED BY <2>1, <2>2, <2>3 DEF AllApart
<1>9. Placed(f, p, s, to)
  <2>1. to[0] = Base(q) + 1
    <3>1. 0 \in 0 .. n BY <1>4
    <3> HIDE DEF n
    <3> QED BY <1>5, <3>1
  <2>2. ASSUME NEW k \in 1 .. n PROVE to[k] = to[k - 1] + ItemLen(f, s[k])
    <3>1. k \in 0 .. n /\ k # 0 BY <1>4
    <3>2. d[k] = ItemLen(f, s[k]) OBVIOUS
    <3> HIDE DEF n, d
    <3> QED BY <1>5, <3>1, <3>2
  <2> QED BY <1>6, <2>1, <2>2 DEF Placed, q
<1> HIDE DEF copies, tail, Copy
<1>10. \A k \in 1 .. n : CopyOf(f, s[k], to[k - 1], copies[k]) BY <1>7, <1>8
<1> QED BY <1>1, <1>8, <1>9, <1>10 DEF tail, q, p, s

(* All that mm_turn_page does before it marks the other page leaves this   *)
(* page's marker alone.                                                    *)
LEMMA TurnOperations ==
  ASSUME NEW f \in [Addr -> Cell], mm_get_active_page(f) # 0
  PROVE  LET p == mm_get_active_page(f)
         IN  \E r : /\ AllApart(p, r)
                    /\ mm_turn_page(f)
                         = r \o << Write(Base(3 - p), <<Marker>>), Write(Base(p), <<Zero>>) >>
<1> DEFINE p == mm_get_active_page(f)  q == 3 - p
           tail == << Write(Base(q), <<Marker>>), Write(Base(p), <<Zero>>) >>
<1>1. PICK c : mm_turn_page(f) = <<Erase(q)>> \o c \o tail /\ AllApart(p, c) BY TurnPlan
<1>2. p \in Page BY ActivePage
<1> HIDE DEF p
<1>3. Erase(q) \in Operation /\ Apart(p, Erase(q)) BY <1>2, OtherPage
<1> HIDE DEF q, tail
<1>4. AllApart(p, <<Erase(q)>> \o c) BY <1>1, <1>3, ApartOne, ApartJoined
<1> QED BY <1>1, <1>4 DEF tail, q, p

-----------------------------------------------------------------------------
(* One operation, whole or cut short, and the markers.                     *)
LEMMA DoneTyped ==
  ASSUME NEW f \in [Addr -> Cell], NEW o \in Operation, NEW n \in 0 .. Len(o.cells)
  PROVE  Done(f, o, n) \in [Addr -> Cell]
<1> DEFINE e == Done(f, o, n)
<1>1. o.addr \in Nat /\ o.cells \in Seq(Cell) /\ Len(o.cells) \in Nat BY DEF Operation
<1>2. ASSUME NEW a \in Addr PROVE e[a] \in Cell
  <2>1. CASE a \in o.addr .. o.addr + n - 1 /\ InRegion(o)
    <3>1. CASE o.op = "erase" BY <2>1, <3>1 DEF Done, Cell
    <3>2. CASE o.op # "erase"
      <4> DEFINE x == o.cells[a - o.addr + 1]
      <4>1. a - o.addr + 1 \in 1 .. Len(o.cells)
        <5> DEFINE l == Len(o.cells)  at == o.addr
        <5>1. l \in Nat /\ at \in Nat /\ n \in 0 .. l /\ a \in at .. at + n - 1 BY <1>1, <2>1
        <5> HIDE DEF l, at
        <5>2. a - at + 1 \in 1 .. l BY <5>1
        <5> QED BY <5>2 DEF l, at
      <4>2. x \in Cell BY <1>1, <4>1
      <4>3. e[a] = Program(f[a], x) BY <2>1, <3>2 DEF Done
      <4> HIDE DEF x, e
      <4>4. e[a] \in {x, Zero, Mixed} BY <4>3, Zenon DEF Program
      <4> QED BY <4>2, <4>4 DEF Cell
    <3> QED BY <3>1, <3>2
  <2>2. CASE ~(a \in o.addr .. o.addr + n - 1 /\ InRegion(o)) BY <2>2 DEF Done
  <2> QED BY <2>1, <2>2
<1>3. e = [a \in Addr |-> e[a]] BY DEF Done
<1> HIDE DEF e
<1> QED BY <1>2, <1>3 DEF e

(* An operation that leaves the marker of page p alone, cut short          *)
(* anywhere, does not change it.                                           *)
LEMMA DoneApart ==
  ASSUME NEW f, NEW o \in Operation, NEW n \in 0 .. Len(o.cells), NEW p \in Page, Apart(p, o)
  PROVE  Done(f, o, n)[Base(p)] = f[Base(p)]
<1>1. o.addr \in Nat /\ Len(o.cells) \in Nat BY DEF Operation
<1>2. Base(p) \in Addr /\ Base(p) \in Nat BY PageFacts
<1>3. Base(p) \notin o.addr .. o.addr + n - 1 BY <1>1, <1>2 DEF Apart
<1> QED BY <1>2, <1>3 DEF Done

(* The first of some operations left, and the rest of them.                *)
LEMMA HeadTail ==
  ASSUME NEW s \in Seq(Operation), s # << >>
  PROVE  /\ Len(s) \in Nat /\ Len(s) >= 1 /\ Head(s) = s[1] /\ Head(s) \in Operation
         /\ Tail(s) \in Seq(Operation) /\ Len(Tail(s)) = Len(s) - 1
         /\ \A k \in 1 .. Len(s) - 1 : Tail(s)[k] = s[k + 1]
OBVIOUS

(* An operation may be cut short after all its cells, which is to do it    *)
(* whole.                                                                  *)
LEMMA WholeOperation ==
  ASSUME NEW o \in Operation
  PROVE  Len(o.cells) \in Nat /\ Len(o.cells) \in 0 .. Len(o.cells)
BY DEF Operation

(* What is left of a call: mm_set, mm_invalidate, and the duplicates       *)
(* mm_find_field zeroes; mm_turn_page; mm_flash_format.                    *)
Calling(f, s) == \E p \in Page : f[Base(p)] = Marker /\ AllApart(p, s)

(* What is left of a turn from page p to page q: copies, the new marker,   *)
(* and the unmarking of p, which is the last.                              *)
TurningTo(p, q, f, s) ==
  LET n == Len(s)
  IN  /\ f[Base(p)] = Marker
      /\ n >= 1 /\ s[n] = Write(Base(p), <<Zero>>)
      /\ n = 1 => f[Base(q)] = Marker
      /\ n > 1 => s[n - 1] = Write(Base(q), <<Marker>>)
      /\ \A k \in 1 .. n - 2 : Apart(p, s[k])

Turning(f, s) == \E p \in Page : TurningTo(p, 3 - p, f, s)

(* What is left of mm_flash_format while no page is active.                *)
Formatting(f, s) ==
  /\ mm_get_active_page(f) = 0
  /\ \/ s = mm_flash_format
     \/ s = << Erase(1), Write(Base(1), <<Marker>>) >>
     \/ s = << Write(Base(1), <<Marker>>) >>

(* An operation of a call that stays behind the marker, whole or cut       *)
(* short, leaves a page active, and the rest of the call stays behind the  *)
(* marker.                                                                 *)
LEMMA CallStep ==
  ASSUME NEW f, NEW s, s # << >>, Calling(f, s), NEW n \in 0 .. Len(Head(s).cells)
  PROVE  /\ Calling(Done(f, Head(s), n), Tail(s))
         /\ mm_get_active_page(Done(f, Head(s), n)) # 0
<1>1. PICK p \in Page : f[Base(p)] = Marker /\ AllApart(p, s) BY DEF Calling
<1>2. s \in Seq(Operation) BY <1>1 DEF AllApart
<1>3. /\ Len(s) \in Nat /\ Len(s) >= 1 /\ Head(s) = s[1] /\ Head(s) \in Operation
      /\ Tail(s) \in Seq(Operation) /\ Len(Tail(s)) = Len(s) - 1
      /\ \A k \in 1 .. Len(s) - 1 : Tail(s)[k] = s[k + 1]
  BY <1>2, HeadTail
<1>4. Apart(p, Head(s)) BY <1>1, <1>3 DEF AllApart
<1>5. Done(f, Head(s), n)[Base(p)] = Marker BY <1>1, <1>3, <1>4, DoneApart
<1>6. ASSUME NEW k \in 1 .. Len(Tail(s)) PROVE Apart(p, Tail(s)[k])
  <2>1. k \in 1 .. Len(s) - 1 /\ k + 1 \in 1 .. Len(s) BY <1>3
  <2> QED BY <1>1, <1>3, <2>1 DEF AllApart
<1>7. AllApart(p, Tail(s)) BY <1>3, <1>6 DEF AllApart
<1> QED BY <1>5, <1>7, ActivePage DEF Calling

(* The new page is active before the old one is made passive.              *)
LEMMA TurnStep ==
  ASSUME NEW f, NEW s \in Seq(Operation), s # << >>, Turning(f, s),
         NEW n \in 0 .. Len(Head(s).cells)
  PROVE  LET e == Done(f, Head(s), n)
         IN  /\ mm_get_active_page(e) # 0
             /\ Verified(e, Head(s)) => Tail(s) = << >> \/ Turning(e, Tail(s))
<1> DEFINE e == Done(f, Head(s), n)  m == Len(s)  o == Head(s)  r == Tail(s)
<1>1. PICK p \in Page : TurningTo(p, 3 - p, f, s) BY DEF Turning
<1> DEFINE q == 3 - p
<1>2. q \in Page /\ Base(p) \in Nat /\ Base(q) \in Nat /\ Base(p) # Base(q)
  BY PageFacts DEF Page
<1>3. /\ m \in Nat /\ m >= 1 /\ o = s[1] /\ o \in Operation
      /\ r \in Seq(Operation) /\ Len(r) = m - 1
      /\ \A k \in 1 .. m - 1 : r[k] = s[k + 1]
  BY HeadTail
<1>4. /\ f[Base(p)] = Marker /\ s[m] = Write(Base(p), <<Zero>>)
      /\ m = 1 => f[Base(q)] = Marker
      /\ m > 1 => s[m - 1] = Write(Base(q), <<Marker>>)
      /\ \A k \in 1 .. m - 2 : Apart(p, s[k])
  BY <1>1 DEF TurningTo
<1>5. n \in 0 .. Len(o.cells) OBVIOUS
<1> HIDE DEF m, o, r, q
<1>6. CASE m = 1
  <2>1. o = Write(Base(p), <<Zero>>) BY <1>3, <1>4, <1>6
  <2>2. Apart(q, o) BY <1>2, <2>1 DEF Apart, Write
  <2>3. e[Base(q)] = Marker BY <1>2, <1>3, <1>4, <1>5, <1>6, <2>2, DoneApart DEF o
  <2>4. r = << >> BY <1>3, <1>6
  <2> QED BY <1>2, <2>3, <2>4, ActivePage DEF r
<1>7. CASE m > 1
  <2>1. Apart(p, o)
    <3>1. CASE m = 2
      <4>1. o = Write(Base(q), <<Marker>>) BY <1>3, <1>4, <3>1
      <4> QED BY <1>2, <4>1 DEF Apart, Write
    <3>2. CASE m # 2
      <4>1. 1 \in 1 .. m - 2 BY <1>3, <1>7, <3>2
      <4> QED BY <1>3, <1>4, <4>1
    <3> QED BY <3>1, <3>2
  <2>2. e[Base(p)] = Marker BY <1>3, <1>4, <1>5, <2>1, DoneApart DEF o
  <2>3. mm_get_active_page(e) # 0 BY <2>2, ActivePage
  <2>4. ASSUME Verified(e, o) PROVE TurningTo(p, q, e, r)
    <3>1. Len(r) >= 1 /\ r[Len(r)] = Write(Base(p), <<Zero>>)
      <4>1. m - 1 \in 1 .. m - 1 /\ (m - 1) + 1 = m BY <1>3, <1>7
      <4> QED BY <1>3, <1>4, <1>7, <4>1
    <3>2. ASSUME Len(r) = 1 PROVE e[Base(q)] = Marker
      <4>1. m = 2
        <5>1. m - 1 = 1 /\ m \in Nat BY <1>3, <3>2
        <5> QED BY <5>1
      <4>2. o = Write(Base(q), <<Marker>>) BY <1>3, <1>4, <4>1
      <4>3. o.addr = Base(q) /\ o.cells = <<Marker>> BY <4>2 DEF Write
      <4>4. Len(o.cells) = 1 /\ o.cells[1] = Marker BY <4>3
      <4> HIDE DEF e
      <4>5. e[o.addr + 1 - 1] = o.cells[1] BY <2>4, <4>4 DEF Verified
      <4> QED BY <1>2, <4>3, <4>4, <4>5
    <3>3. ASSUME Len(r) > 1 PROVE r[Len(r) - 1] = Write(Base(q), <<Marker>>)
      <4>1. Len(r) - 1 \in 1 .. m - 1 /\ (Len(r) - 1) + 1 = m - 1 BY <1>3, <3>3
      <4> QED BY <1>3, <1>4, <1>7, <4>1
    <3>4. ASSUME NEW k \in 1 .. Len(r) - 2 PROVE Apart(p, r[k])
      <4>1. k \in 1 .. m - 1 /\ k + 1 \in 1 .. m - 2 BY <1>3
      <4> QED BY <1>3, <1>4, <4>1
    <3> HIDE DEF e
    <3> QED BY <2>2, <3>1, <3>2, <3>3, <3>4 DEF TurningTo
  <2> HIDE DEF e
  <2>5. Verified(e, o) => Turning(e, r) BY <2>4 DEF Turning, q
  <2> QED BY <2>3, <2>5 DEF e, o, r
<1> QED BY <1>3, <1>6, <1>7

(* No page is active until the last operation of mm_flash_format.          *)
LEMMA FormatStep ==
  ASSUME NEW f \in [Addr -> Cell], NEW s, s # << >>, Formatting(f, s)
  PROVE  Tail(s) = << >> \/ Formatting(Done(f, Head(s), Len(Head(s).cells)), Tail(s))
<1> DEFINE e == Done(f, Head(s), Len(Head(s).cells))
           w == Write(Base(2), <<Zero>>)  x == Erase(1)  m == Write(Base(1), <<Marker>>)
<1>1. f[Base(1)] # Marker /\ f[Base(2)] # Marker
  BY ActivePage DEF Formatting, Page
<1>2. PageLen \in Nat /\ PageLen >= 5 /\ Base(1) = 0 /\ Base(2) = PageLen
      /\ 0 \in Addr /\ PageLen \in Addr
  BY PageFacts
<1>3. CASE s = mm_flash_format
  <2>1. s = <<w, x, m>> BY <1>3 DEF mm_flash_format
  <2> HIDE DEF w, x, m
  <2>2. Head(s) = w /\ Tail(s) = <<x, m>> BY <2>1
  <2>3. e[0] = f[0]
    <3>1. 0 \notin PageLen .. PageLen + 1 - 1 BY <1>2
    <3>2. w.addr = PageLen /\ Len(w.cells) = 1 BY <1>2 DEF w, Write
    <3> QED BY <1>2, <2>2, <3>1, <3>2 DEF Done
  <2>4. e[PageLen] # Marker
    <3>1. w.addr = PageLen /\ w.cells = <<Zero>> /\ w.op = "write" BY <1>2 DEF w, Write
    <3>2. PageLen \in PageLen .. PageLen + 1 - 1 /\ PageLen - PageLen + 1 = 1 BY <1>2
    <3>3. Len(w.cells) = 1 /\ w.cells[1] = Zero BY <3>1
    <3>4. e[PageLen] \in {f[PageLen], Program(f[PageLen], Zero)}
      BY <1>2, <2>2, <3>1, <3>2, <3>3 DEF Done
    <3>5. Program(f[PageLen], Zero) = Zero BY Zenon DEF Program
    <3>6. Zero # Marker BY DEF Zero, Marker
    <3> QED BY <1>1, <1>2, <3>4, <3>5, <3>6
  <2>5. mm_get_active_page(e) = 0
    <3> HIDE DEF e
    <3> QED BY <1>1, <1>2, <2>3, <2>4 DEF mm_get_active_page
  <2> QED BY <2>2, <2>5 DEF Formatting, x, m
<1>4. CASE s = <<x, m>>
  <2> HIDE DEF x, m
  <2>2. Head(s) = x /\ Tail(s) = <<m>> BY <1>4
  <2>3. x.addr = 0 /\ Len(x.cells) = PageLen /\ x.op = "erase" BY <1>2 DEF x, Erase
  <2>4. e[0] # Marker
    <3>1. e[0] \in {f[0], Erased} BY <1>2, <2>2, <2>3 DEF Done
    <3>2. Erased # Marker BY DEF Erased, Marker
    <3> QED BY <1>1, <1>2, <3>1, <3>2
  <2>5. e[PageLen] = f[PageLen]
    <3>1. PageLen \notin 0 .. 0 + PageLen - 1 BY <1>2
    <3> QED BY <1>2, <2>2, <2>3, <3>1 DEF Done
  <2>6. mm_get_active_page(e) = 0
    <3> HIDE DEF e
    <3> QED BY <1>1, <1>2, <2>4, <2>5 DEF mm_get_active_page
  <2> QED BY <2>2, <2>6 DEF Formatting, m
<1>5. CASE s = <<m>>
  <2> HIDE DEF m
  <2> QED BY <1>5
<1> QED BY <1>3, <1>4, <1>5 DEF Formatting

(* The members of two sequences joined.                                    *)
LEMMA Joined ==
  ASSUME NEW S, NEW s \in Seq(S), NEW t \in Seq(S)
  PROVE  /\ s \o t \in Seq(S) /\ Len(s \o t) = Len(s) + Len(t)
         /\ \A k \in 1 .. Len(s) + Len(t) :
              (s \o t)[k] = IF k <= Len(s) THEN s[k] ELSE t[k - Len(s)]
OBVIOUS

(* mm_turn_page, before its first operation, is a turn.                    *)
LEMMA TurnStarts ==
  ASSUME NEW f \in [Addr -> Cell], mm_get_active_page(f) # 0
  PROVE  mm_turn_page(f) \in Seq(Operation) /\ Turning(f, mm_turn_page(f))
<1> DEFINE p == mm_get_active_page(f)
           x == Write(Base(3 - p), <<Marker>>)  y == Write(Base(p), <<Zero>>)
           s == mm_turn_page(f)
<1>1. PICK r : AllApart(p, r) /\ s = r \o <<x, y>> BY TurnOperations
<1>2. p \in Page /\ f[Base(p)] = Marker BY ActivePage
<1> HIDE DEF p, s
<1>3. x \in Operation /\ y \in Operation
  <2>1. Base(p) \in Nat /\ Base(3 - p) \in Nat BY <1>2, PageFacts DEF Page
  <2>2. <<Marker>> \in Seq(Cell) /\ <<Zero>> \in Seq(Cell) BY DEF Cell
  <2> QED BY <2>1, <2>2 DEF Write, Operation
<1> HIDE DEF x, y
<1>4. r \in Seq(Operation) /\ Len(r) \in Nat /\ \A k \in 1 .. Len(r) : Apart(p, r[k])
  BY <1>1 DEF AllApart
<1>5. /\ s \in Seq(Operation) /\ Len(s) = Len(r) + 2
      /\ \A k \in 1 .. Len(r) : s[k] = r[k]
      /\ s[Len(r) + 1] = x /\ s[Len(r) + 2] = y
  <2> DEFINE u == <<x, y>>
  <2>1. u \in Seq(Operation) /\ Len(u) = 2 /\ u[1] = x /\ u[2] = y BY <1>3
  <2>2. s = r \o u BY <1>1
  <2> HIDE DEF u
  <2>8. r \o u \in Seq(Operation) /\ Len(r \o u) = Len(r) + Len(u) BY <1>4, <2>1, Joined
  <2>3. s \in Seq(Operation) /\ Len(s) = Len(r) + 2 BY <2>1, <2>2, <2>8
  <2>9. \A k \in 1 .. Len(r) + Len(u) :
          (r \o u)[k] = IF k <= Len(r) THEN r[k] ELSE u[k - Len(r)]
    BY <1>4, <2>1, Joined, Zenon
  <2>4. \A k \in 1 .. Len(r) + 2 : s[k] = IF k <= Len(r) THEN r[k] ELSE u[k - Len(r)]
    BY <2>1, <2>2, <2>9, Zenon
  <2>5. \A k \in 1 .. Len(r) : s[k] = r[k] BY <1>4, <2>4
  <2>6. s[Len(r) + 1] = u[1]
    <3>1. Len(r) + 1 \in 1 .. Len(r) + 2 /\ (Len(r) + 1) - Len(r) = 1 BY <1>4
    <3> QED BY <1>4, <2>4, <3>1
  <2>7. s[Len(r) + 2] = u[2]
    <3>1. Len(r) + 2 \in 1 .. Len(r) + 2 /\ (Len(r) + 2) - Len(r) = 2 BY <1>4
    <3> QED BY <1>4, <2>4, <3>1
  <2> QED BY <2>1, <2>3, <2>5, <2>6, <2>7
<1>6. TurningTo(p, 3 - p, f, s) BY <1>2, <1>4, <1>5 DEF TurningTo, x, y
<1> QED BY <1>2, <1>5, <1>6 DEF Turning, s

(* mm_flash_format, before its first operation, is a format of pages that  *)
(* are not active.                                                         *)
LEMMA FormatStarts ==
  ASSUME NEW f \in [Addr -> Cell], mm_get_active_page(f) = 0
  PROVE  mm_flash_format \in Seq(Operation) /\ Formatting(f, mm_flash_format)
<1> DEFINE w == Write(Base(2), <<Zero>>)  x == Erase(1)  m == Write(Base(1), <<Marker>>)
<1>1. w \in Operation /\ m \in Operation
  <2>1. Base(1) \in Nat /\ Base(2) \in Nat BY PageFacts
  <2>2. <<Marker>> \in Seq(Cell) /\ <<Zero>> \in Seq(Cell) BY DEF Cell
  <2> QED BY <2>1, <2>2 DEF Write, Operation
<1>2. x \in Operation
  <2>1. 2 \in Page /\ 3 - 2 = 1 BY DEF Page
  <2> QED BY <2>1, OtherPage
<1>3. mm_flash_format = <<w, x, m>> BY DEF mm_flash_format
<1> HIDE DEF w, x, m
<1>4. mm_flash_format \in Seq(Operation) BY <1>1, <1>2, <1>3
<1> QED BY <1>4 DEF Formatting

-----------------------------------------------------------------------------
(* Whatever is left to do, a page stays active that is active.             *)
Marked ==
  \/ todo = << >>
  \/ Calling(flash, todo)
  \/ Turning(flash, todo)
  \/ Formatting(flash, todo)

(* mm_set changes no cell when it is called, and what it has left stays    *)
(* behind the marker.                                                      *)
LEMMA StartSetMarked ==
  ASSUME TypeOK, NEW i \in Ids, NEW v \in Files, StartSet(i, v)
  PROVE  /\ flash' = flash /\ fails' = fails
         /\ todo' \in Seq(Operation) /\ call' \in Call /\ failed' \in BOOLEAN
         /\ todo' = << >> \/ Calling(flash, todo')
<1> DEFINE p == mm_get_active_page(flash)
<1>1. flash \in [Addr -> Cell] /\ view[i] = mm_get(flash, i) BY DEF TypeOK, view
<1>2. p # 0 => p \in Page /\ flash[Base(p)] = Marker BY ActivePage
<1>3. view[i] \in File /\ (view[i] # NoFile => Found(flash, i) # << >>) BY <1>1, GetTyped
<1>4. [id |-> i, old |-> view[i], new |-> v, ret |-> "busy"] \in Call BY <1>3 DEF Call, File
<1>5. CASE view[i] = v
  <2>1. Found(flash, i) # << >> BY <1>3, <1>5, FilesAssumption
  <2>2. p # 0 BY <2>1 DEF Found
  <2>3. AllApart(p, Duplicates(flash, i)) BY <1>1, <1>2, <2>2, DuplicatesApart
  <2>4. /\ flash' = flash /\ fails' = fails /\ failed' = FALSE /\ todo' = Duplicates(flash, i)
        /\ call' = [id |-> i, old |-> view[i], new |-> v, ret |-> "busy"]
    BY <1>5 DEF StartSet, Start
  <2> QED BY <1>2, <1>4, <2>2, <2>3, <2>4 DEF Calling, AllApart
<1>6. CASE view[i] # v
  <2> DEFINE refused == FindFails(flash, i) \/ ~HasSpace(flash, FileLen[v])
  <2>1. /\ flash' = flash /\ fails' = fails /\ failed' = refused
        /\ todo' = IF refused THEN << >> ELSE mm_set(flash, i, v)
        /\ call' = [id |-> i, old |-> view[i], new |-> v, ret |-> "busy"]
    BY <1>6, Zenon DEF StartSet, Start
  <2>2. refused \in BOOLEAN OBVIOUS
  <2>3. p = 0 => refused BY DEF FindFails
  <2> HIDE DEF refused
  <2>4. CASE refused BY <1>4, <2>1, <2>2, <2>4
  <2>5. CASE ~refused
    <3>1. AllApart(p, mm_set(flash, i, v)) BY <1>1, <1>2, <2>3, <2>5, SetApart
    <3> QED BY <1>2, <1>4, <2>1, <2>2, <2>3, <2>5, <3>1 DEF Calling, AllApart
  <2> QED BY <2>4, <2>5
<1> QED BY <1>5, <1>6

(* Every step, cut short by a power failure or not, keeps Marked.          *)
LEMMA MarkedInductive ==
  ASSUME TypeOK, Marked, [Next]_vars
  PROVE  TypeOK' /\ Marked'
<1> DEFINE p == mm_get_active_page(flash)
<1>1. flash \in [Addr -> Cell] /\ todo \in Seq(Operation) BY DEF TypeOK
<1>2. p # 0 => p \in Page /\ flash[Base(p)] = Marker BY ActivePage
<1>3. << >> \in Seq(Operation) OBVIOUS
<1>4. ASSUME NEW i \in Ids, NEW v \in Files, Set(i, v) PROVE TypeOK' /\ Marked'
  <2>1. mode' = mode /\ StartSet(i, v) BY <1>4 DEF Set
  <2> QED BY <2>1, StartSetMarked DEF TypeOK, Marked
<1>5. ASSUME NEW i \in Ids, Invalidate(i) PROVE TypeOK' /\ Marked'
  <2> DEFINE refused == ~CanZero(Last(mm_invalidate(flash, i)))
  <2>1. /\ flash' = flash /\ fails' = fails /\ mode' = mode /\ failed' = refused
        /\ todo' = IF refused THEN << >> ELSE mm_invalidate(flash, i)
        /\ call' = [id |-> i, old |-> view[i], new |-> NoFile, ret |-> "busy"]
        /\ view[i] # NoFile
    BY <1>5, Zenon DEF Invalidate, Start
  <2>2. refused \in BOOLEAN OBVIOUS
  <2> HIDE DEF refused
  <2>3. view[i] = mm_get(flash, i) BY DEF view
  <2>4. view[i] \in File /\ Found(flash, i) # << >> BY <1>1, <2>1, <2>3, GetTyped
  <2>5. call' \in Call BY <2>1, <2>4 DEF Call, File
  <2>6. p # 0 BY <2>4 DEF Found
  <2>7. AllApart(p, mm_invalidate(flash, i)) BY <1>1, <1>2, <2>4, <2>6, InvalidateApart
  <2>8. CASE refused BY <2>1, <2>2, <2>5, <2>8 DEF TypeOK, Marked
  <2>9. CASE ~refused
    <3>1. todo' = mm_invalidate(flash, i) BY <2>1, <2>9
    <3>2. Calling(flash, todo') BY <1>2, <2>6, <2>7, <3>1 DEF Calling
    <3>3. todo' \in Seq(Operation) BY <2>7, <3>1 DEF AllApart
    <3> QED BY <2>1, <2>2, <2>5, <3>2, <3>3 DEF TypeOK, Marked
  <2> QED BY <2>8, <2>9
<1>6. ASSUME NEW i \in Ids, Get(i) PROVE TypeOK' /\ Marked'
  <2>1. /\ flash' = flash /\ fails' = fails /\ mode' = mode /\ failed' = FALSE
        /\ call' = NoCall /\ todo' = Duplicates(flash, i) /\ p # 0
    BY <1>6 DEF Get, FindFails
  <2>2. AllApart(p, todo') BY <1>1, <1>2, <2>1, DuplicatesApart
  <2>3. Calling(flash, todo') /\ todo' \in Seq(Operation)
    BY <1>2, <2>1, <2>2 DEF Calling, AllApart
  <2> QED BY <2>1, <2>3 DEF TypeOK, Marked
<1>7. ASSUME Maintain PROVE TypeOK' /\ Marked'
  <2>1. /\ flash' = flash /\ fails' = fails /\ mode' = mode /\ failed' = FALSE
        /\ call' = NoCall /\ todo' = mm_turn_page(flash) /\ p # 0
    BY <1>7 DEF Maintain
  <2>2. todo' \in Seq(Operation) /\ Turning(flash, todo') BY <1>1, <2>1, TurnStarts
  <2> QED BY <2>1, <2>2 DEF TypeOK, Marked
<1>8. ASSUME Return PROVE TypeOK' /\ Marked'
  <2>1. /\ flash' = flash /\ fails' = fails /\ mode' = mode /\ failed' = FALSE /\ todo' = todo
        /\ todo = << >> /\ call' \in Result
    BY <1>8 DEF Return, Result
  <2> QED BY <2>1 DEF TypeOK, Marked, Call
<1>9. ASSUME FlashOperation PROVE TypeOK' /\ Marked'
  <2> DEFINE o == Head(todo)
  <2>1. /\ todo # << >> /\ flash' = Done(flash, o, Len(o.cells))
        /\ failed' = ~Verified(flash', o)
        /\ todo' = IF failed' THEN << >> ELSE Tail(todo)
        /\ call' = call /\ mode' = mode /\ fails' = fails
    BY <1>9 DEF FlashOperation
  <2>2. o \in Operation /\ Tail(todo) \in Seq(Operation) BY <1>1, <2>1, HeadTail
  <2>3. Len(o.cells) \in 0 .. Len(o.cells) BY <2>2, WholeOperation
  <2>4. flash' \in [Addr -> Cell] BY <1>1, <2>1, <2>2, <2>3, DoneTyped
  <2>5. failed' \in BOOLEAN BY <2>1
  <2>6. TypeOK' BY <2>1, <2>2, <2>4, <2>5 DEF TypeOK
  <2>7. CASE failed' BY <2>1, <2>6, <2>7 DEF Marked
  <2>8. CASE ~failed'
    <3>1. todo' = Tail(todo) /\ Verified(Done(flash, o, Len(o.cells)), o) BY <2>1, <2>8
    <3>2. CASE Calling(flash, todo)
      <4>1. Calling(flash', todo') BY <2>1, <2>3, <3>1, <3>2, CallStep
      <4> QED BY <2>6, <4>1 DEF Marked
    <3>3. CASE Turning(flash, todo)
      <4>1. todo' = << >> \/ Turning(flash', todo') BY <1>1, <2>1, <2>3, <3>1, <3>3, TurnStep
      <4> QED BY <2>6, <4>1 DEF Marked
    <3>4. CASE Formatting(flash, todo)
      <4>1. todo' = << >> \/ Formatting(flash', todo') BY <1>1, <2>1, <3>1, <3>4, FormatStep
      <4> QED BY <2>6, <4>1 DEF Marked
    <3> QED BY <2>1, <3>2, <3>3, <3>4 DEF Marked
  <2> QED BY <2>7, <2>8
<1>10. ASSUME PowerFail PROVE TypeOK' /\ Marked'
  <2>1. /\ fails > 0 /\ fails' = fails - 1 /\ mode' = "off" /\ todo' = << >>
        /\ call' = NoCall /\ failed' = FALSE
    BY <1>10 DEF PowerFail
  <2>2. fails' \in 0 .. PowerFails BY <2>1, PowerFailsAssumption DEF TypeOK
  <2>3. flash' \in [Addr -> Cell]
    <3>1. CASE todo = << >> BY <1>1, <1>10, <3>1 DEF PowerFail
    <3>2. CASE todo # << >>
      <4>1. PICK n \in 0 .. Len(Head(todo).cells) - 1 : flash' = Done(flash, Head(todo), n)
        BY <1>10, <3>2 DEF PowerFail
      <4>2. Head(todo) \in Operation BY <1>1, <3>2, HeadTail
      <4>3. Len(Head(todo).cells) \in Nat BY <4>2, WholeOperation
      <4>4. n \in 0 .. Len(Head(todo).cells) BY <4>3
      <4> QED BY <1>1, <4>1, <4>2, <4>4, DoneTyped
    <3> QED BY <3>1, <3>2
  <2>4. todo' \in Seq(Operation) BY <1>3, <2>1
  <2>5. TypeOK' BY <2>1, <2>2, <2>3, <2>4 DEF TypeOK
  <2>6. Marked' BY <2>1 DEF Marked
  <2> QED BY <2>5, <2>6
<1>11. ASSUME PowerOn PROVE TypeOK' /\ Marked'
  <2>1. /\ flash' = flash /\ fails' = fails /\ mode' = "init" /\ failed' = failed /\ call' = call
        /\ todo' = IF p = 0 THEN mm_flash_format ELSE << >>
    BY <1>11 DEF PowerOn
  <2>2. todo' = << >> \/ Formatting(flash, todo') BY <1>1, <2>1, FormatStarts
  <2>3. todo' \in Seq(Operation) BY <1>1, <1>3, <2>1, FormatStarts
  <2> HIDE DEF p
  <2>4. TypeOK' BY <2>1, <2>3 DEF TypeOK
  <2>5. Marked' BY <2>1, <2>2 DEF Marked
  <2> QED BY <2>4, <2>5
<1>12. ASSUME NEW v \in Files, CountReboot(v) PROVE TypeOK' /\ Marked'
  <2>1. mode' = "run" /\ StartSet(RebootCnt, v) BY <1>12 DEF CountReboot
  <2> QED BY <2>1, IdsAssumption, StartSetMarked DEF TypeOK, Marked
<1>13. CASE UNCHANGED vars BY <1>13 DEF vars, TypeOK, Marked
<1> QED
  BY <1>4, <1>5, <1>6, <1>7, <1>8, <1>9, <1>10, <1>11, <1>12, <1>13 DEF Next

(* Marked holds of the pages a device starts with.                         *)
LEMMA MarkedInit == ASSUME Init PROVE TypeOK /\ Marked
<1>1. flash \in [Addr -> Cell] BY DEF Init, Cell
<1>2. todo = << >> /\ call = NoCall /\ failed = FALSE /\ mode = "off" /\ fails = PowerFails
  BY DEF Init
<1>3. todo \in Seq(Operation) BY <1>2
<1>4. fails \in 0 .. PowerFails BY <1>2, PowerFailsAssumption
<1>5. TypeOK BY <1>1, <1>2, <1>3, <1>4 DEF TypeOK
<1> QED BY <1>2, <1>5 DEF Marked

(* The flash holds cells and the operations left of a call are operations  *)
(* on them: no length in an item header takes a read or a write of         *)
(* flash_fs.c outside what was written there.                              *)
THEOREM FlashTypeCorrect == Spec => []TypeOK
<1>1. TypeOK /\ Marked /\ [Next]_vars => (TypeOK /\ Marked)' BY MarkedInductive
<1>2. Init => TypeOK /\ Marked BY MarkedInit
<1> QED BY <1>1, <1>2, PTL DEF Spec

(* The flash changes by the next operation only, whole or cut short.       *)
LEMMA FlashChanges ==
  ASSUME TypeOK, [Next]_vars
  PROVE  \/ flash' = flash
         \/ todo # << >> /\ \E n \in 0 .. Len(Head(todo).cells) : flash' = Done(flash, Head(todo), n)
<1> DEFINE o == Head(todo)
<1>1. flash \in [Addr -> Cell] /\ todo \in Seq(Operation) BY DEF TypeOK
<1>2. todo # << >> => Len(o.cells) \in Nat BY <1>1, HeadTail, WholeOperation
<1>3. CASE FlashOperation
  <2>1. todo # << >> /\ flash' = Done(flash, o, Len(o.cells)) BY <1>3 DEF FlashOperation
  <2>2. Len(o.cells) \in 0 .. Len(o.cells) BY <1>2, <2>1
  <2> HIDE DEF o
  <2> QED BY <2>1, <2>2 DEF o
<1>4. CASE PowerFail
  <2>1. CASE todo = << >> BY <1>4, <2>1 DEF PowerFail
  <2>2. CASE todo # << >>
    <3>1. PICK n \in 0 .. Len(o.cells) - 1 : flash' = Done(flash, o, n)
      BY <1>4, <2>2 DEF PowerFail
    <3>2. n \in 0 .. Len(o.cells) BY <1>2, <2>2
    <3> HIDE DEF o
    <3> QED BY <2>2, <3>1, <3>2 DEF o
  <2> QED BY <2>1, <2>2
<1>5. CASE ~FlashOperation /\ ~PowerFail
  BY <1>5 DEF Next, Set, Invalidate, Get, Maintain, Return, PowerOn, CountReboot, StartSet,
     Start, vars
<1> QED BY <1>3, <1>4, <1>5

(* Once the store is formatted a page is active at every moment, whatever  *)
(* the files, the pages and the moments at which power fails: mm_turn_page *)
(* marks the new page before it makes the old one passive, and no other    *)
(* call writes to the marker of the active page.                           *)
THEOREM StaysFormattedHolds == Spec => StaysFormatted
<1>1. ASSUME TypeOK, Marked, [Next]_vars, mm_get_active_page(flash) # 0
      PROVE  mm_get_active_page(flash)' # 0
  <2> DEFINE o == Head(todo)
  <2>1. \/ flash' = flash
        \/ todo # << >> /\ \E n \in 0 .. Len(o.cells) : flash' = Done(flash, o, n)
    BY <1>1, FlashChanges
  <2>2. CASE flash' = flash BY <1>1, <2>2
  <2>3. ASSUME todo # << >>, NEW n \in 0 .. Len(o.cells), flash' = Done(flash, o, n)
        PROVE  mm_get_active_page(flash)' # 0
    <3>1. todo \in Seq(Operation) BY <1>1 DEF TypeOK
    <3>2. CASE Calling(flash, todo)
      <4>1. mm_get_active_page(Done(flash, o, n)) # 0 BY <2>3, <3>2, CallStep
      <4> QED BY <2>3, <4>1
    <3>3. CASE Turning(flash, todo)
      <4>1. mm_get_active_page(Done(flash, o, n)) # 0 BY <2>3, <3>1, <3>3, TurnStep
      <4> QED BY <2>3, <4>1
    <3>4. CASE Formatting(flash, todo) BY <1>1, <3>4 DEF Formatting
    <3> QED BY <1>1, <2>3, <3>2, <3>3, <3>4 DEF Marked
  <2> QED BY <2>1, <2>2, <2>3
<1>2. TypeOK /\ Marked /\ [Next]_vars => (TypeOK /\ Marked)' BY MarkedInductive
<1>3. Init => TypeOK /\ Marked BY MarkedInit
<1> DEFINE Kept == mm_get_active_page(flash) # 0 => mm_get_active_page(flash)' # 0
<1>4. TypeOK /\ Marked /\ [Next]_vars => [Kept]_vars BY <1>1
<1>5. Spec => [][Kept]_vars
  <2> HIDE DEF Kept
  <2> QED BY <1>2, <1>3, <1>4, PTL DEF Spec
<1> QED BY <1>5 DEF StaysFormatted

-----------------------------------------------------------------------------
(* The offsets of a page's items, of those with one identifier, the last   *)
(* of these, and the file that is in it.                                   *)
Offsets(f, p)      == Stops(f, p, Base(p) + QWORD_LEN)
Named(f, p, i)     == {o \in Offsets(f, p) : f[o].id = i}
(* The last item of an identifier, which is the one in force, and the file *)
(* that a page shows for it.                                               *)
Newest(f, p, i, o) == o \in Named(f, p, i) /\ \A x \in Named(f, p, i) : x <= o
Shows(f, p, i, v)  ==
  \/ Named(f, p, i) = {} /\ v = NoFile
  \/ \E o : Newest(f, p, i, o) /\ v = f[o + 1].file

(* Where items may start: behind the marker, and far enough from the end   *)
(* of the page.                                                            *)
LEMMA OffsetFacts ==
  ASSUME NEW f \in [Addr -> Cell], NEW p \in Page
  PROVE  /\ Offsets(f, p) \in SUBSET Nat
         /\ \A o : o \in Offsets(f, p) <=>
              o \in Nat /\ Base(p) < o /\ o < End(p) - MIN_FILE_LEN /\ is_item(f, p, o)
<1> DEFINE b == Base(p)  e == End(p)
<1>1. b \in Nat /\ e \in Nat BY PageFacts
<1>2. \A o : o \in Offsets(f, p) <=> o \in b + 1 .. e - 3 - 1 /\ is_item(f, p, o)
  BY DEF Offsets, Stops, QWORD_LEN, MIN_FILE_LEN, ITEM_HEADER_SZ
<1> HIDE DEF b, e
<1>3. \A o : o \in b + 1 .. e - 3 - 1 <=> o \in Nat /\ b < o /\ o < e - 3 BY <1>1
<1> QED BY <1>2, <1>3 DEF b, e, MIN_FILE_LEN, ITEM_HEADER_SZ

(* No item begins inside another.                                          *)
LEMMA Disjoint ==
  ASSUME NEW f \in [Addr -> Cell], NEW p \in Page,
         NEW o \in Offsets(f, p), NEW x \in Offsets(f, p), o < x
  PROVE  o + ItemLen(f, o) <= x
<1>1. /\ o \in Nat /\ x \in Nat /\ o < End(p) - MIN_FILE_LEN /\ x < End(p) - MIN_FILE_LEN
      /\ is_item(f, p, o) /\ is_item(f, p, x)
  BY OffsetFacts
<1>2. /\ o \in Addr /\ o + 1 \in Addr /\ f[o + 1].file \in Files
      /\ ItemLen(f, o) \in Nat
  BY <1>1, ItemFacts
<1> SUFFICES ASSUME x < o + ItemLen(f, o) PROVE FALSE BY <1>1, <1>2
<1> DEFINE v == f[o + 1].file  l == FileLen[v]
<1>3. l \in Nat /\ ItemLen(f, o) = 2 + l
  BY <1>2, FilesAssumption DEF ItemLen, ITEM_HEADER_SZ
<1>4. f[x].is = "id" /\ f[o + 1].is = "meta" BY <1>1 DEF is_item
<1>5. CASE x = o + 1 BY <1>4, <1>5
<1>6. CASE x # o + 1
  <2>1. \A k \in 1 .. l : f[o + ITEM_HEADER_SZ + k - 1] = Data(v, k) BY <1>1 DEF is_item
  <2> HIDE DEF l, v
  <2>2. x - o - 1 \in 1 .. l /\ o + ITEM_HEADER_SZ + (x - o - 1) - 1 = x
    BY <1>1, <1>3, <1>6 DEF ITEM_HEADER_SZ
  <2>3. f[x] = Data(v, x - o - 1) BY <2>1, <2>2
  <2> QED BY <1>4, <2>3 DEF Data
<1> QED BY <1>5, <1>6

(* The calls of mm_get_next find every item.                               *)
LEMMA AllFound ==
  ASSUME NEW f \in [Addr -> Cell], NEW p \in Page, NEW ids,
         NEW o \in Offsets(f, p), f[o].id \in ids
  PROVE  \E k \in 1 .. Len(Items(f, p, ids)) : Items(f, p, ids)[k] = o
<1> DEFINE N == 3 * PageLen
           g == CHOOSE h : h = [from \in 0 .. N |-> Row(f, p, ids, h, from)]
           In(s) == s \in Seq(Nat) /\ \E k \in 1 .. Len(s) : s[k] = o
           T == {m \in 0 .. N : N - m <= o /\ Base(p) < N - m /\ ~In(g[N - m])}
<1>1. N \in Nat /\ 2 * PageLen <= N BY PageFacts
<1>2. g = [from \in 0 .. N |-> Row(f, p, ids, g, from)] BY ItemsFunction
<1>3. Items(f, p, ids) = g[Base(p) + QWORD_LEN] BY Zenon DEF Items, Row, First, Behind
<1>4. o \in Nat /\ Base(p) < o /\ Base(p) \in Nat BY OffsetFacts, PageFacts
<1>5. o < 2 * PageLen
  <2>1. o < End(p) - MIN_FILE_LEN BY OffsetFacts
  <2> QED BY <1>4, <2>1, PageFacts DEF MIN_FILE_LEN, ITEM_HEADER_SZ, Page
<1> HIDE DEF N, g
<1>6. T = {}
  <2> SUFFICES ASSUME T # {} PROVE FALSE OBVIOUS
  <2>1. T \in SUBSET Nat BY <1>1
  <2>2. PICK m \in T : \A y \in T : m <= y BY <2>1, Least
  <2> DEFINE from == N - m  next == Behind(f, p, from)  x == First(f, p, from)
  <2>3. from \in 0 .. N /\ from \in Nat /\ m \in Nat /\ m <= N /\ from <= o /\ Base(p) < from
    BY <1>1, <2>2
  <2>4. ~In(g[from]) BY <2>2
  <2>5. g[from] = Row(f, p, ids, g, from) BY <1>2, <2>3
  <2>6. o \in Stops(f, p, from)
    <3>1. is_item(f, p, o) /\ o < End(p) - MIN_FILE_LEN BY OffsetFacts
    <3> HIDE DEF from
    <3>2. o \in from .. End(p) - MIN_FILE_LEN - 1
      BY <1>4, <2>3, <3>1, PageFacts DEF MIN_FILE_LEN, ITEM_HEADER_SZ
    <3> QED BY <3>1, <3>2 DEF Stops
  <2>7. g[from] = (IF f[x].id \in ids THEN <<x>> ELSE << >>) \o g[next]
    BY <2>5, <2>6 DEF Row
  <2>8. /\ x \in Nat /\ from <= x /\ x < End(p) - MIN_FILE_LEN /\ is_item(f, p, x)
        /\ next \in from + 1 .. 2 * PageLen /\ x <= o
    <3>1. Stops(f, p, from) # {} BY <2>6
    <3>2. Stops(f, p, from) \in SUBSET Nat BY <2>3, PageFacts DEF Stops
    <3>3. x <= o BY <2>6, <3>1, <3>2, MinIsLeast DEF First
    <3> QED BY <2>3, <3>1, <3>3, FirstFacts
  <2>9. next = x + ItemLen(f, x) BY DEF Behind
  <2>14. next \in 0 .. N /\ next \in Nat
    <3> HIDE DEF next, from, x
    <3> QED BY <1>1, <2>3, <2>8, PageFacts
  <2>10. InRow(f, p, ids, next, g[next]) BY <1>1, <1>2, <2>14, TailsInRow DEF N
  <2>11. g[next] \in Seq(Nat) BY <2>10 DEF InRow
  <2> HIDE DEF next, x, from
  <2>12. CASE x = o
    <3>1. g[from] = <<o>> \o g[next] BY <2>7, <2>12
    <3>2. (<<o>> \o g[next]) \in Seq(Nat) /\ (<<o>> \o g[next])[1] = o
          /\ 1 \in 1 .. Len(<<o>> \o g[next])
      BY <1>4, <2>11
    <3> QED BY <2>4, <3>1, <3>2
  <2>13. CASE x # o
    <3>1. x < o BY <1>4, <2>8, <2>13
    <3>2. x \in Offsets(f, p) BY <1>4, <2>3, <2>8, OffsetFacts
    <3>3. next <= o BY <2>9, <3>1, <3>2, Disjoint
    <3>4. N - next \in 0 .. N /\ N - (N - next) = next /\ ~(m <= N - next) /\ Base(p) < next
      BY <1>1, <1>4, <2>3, <2>8, <2>14 DEF from
    <3>5. In(g[next])
      <4>1. N - next \notin T BY <2>2, <3>4
      <4> QED BY <3>3, <3>4, <4>1
    <3>6. PICK k \in 1 .. Len(g[next]) : g[next][k] = o BY <3>5
    <3> DEFINE t == g[next]  h == IF f[x].id \in ids THEN <<x>> ELSE << >>
    <3>7. h \in Seq(Nat) /\ t \in Seq(Nat) /\ g[from] = h \o t /\ Len(h) \in {0, 1}
          /\ k \in 1 .. Len(t) /\ t[k] = o
      BY <2>7, <2>8, <2>11, <3>6
    <3> HIDE DEF t, h, In, T
    <3>10. Len(h) \in Nat /\ Len(t) \in Nat BY <3>7
    <3> DEFINE lh == Len(h)  lt == Len(t)
    <3>11. lh \in Nat /\ lt \in Nat /\ k \in 1 .. lt BY <3>7, <3>10
    <3> HIDE DEF lh, lt
    <3>12. lh + k \in 1 .. lh + lt /\ ~(lh + k <= lh) /\ lh + k - lh = k BY <3>11
    <3>9. Len(h) \in Nat /\ Len(t) \in Nat /\ Len(h) + k \in 1 .. Len(h) + Len(t)
          /\ ~(Len(h) + k <= Len(h)) /\ Len(h) + k - Len(h) = k
      BY <3>10, <3>12 DEF lh, lt
    <3>8. h \o t \in Seq(Nat) /\ Len(h) + k \in 1 .. Len(h \o t) /\ (h \o t)[Len(h) + k] = t[k]
      BY <3>7, <3>9, Joined
    <3> QED BY <2>4, <3>7, <3>8 DEF In
  <2> QED BY <2>12, <2>13
<1> DEFINE x == Base(p) + QWORD_LEN
<1> HIDE DEF T, In
<1>9. x = Base(p) + 1 BY DEF QWORD_LEN
<1>10. x \in Nat /\ x <= 2 * PageLen BY <1>9, PageFacts DEF Page
<1> HIDE DEF x
<1>7. x \in Nat /\ x <= N /\ N - x \in 0 .. N /\ N - (N - x) = x /\ x <= o /\ Base(p) < x
  BY <1>1, <1>4, <1>9, <1>10, PageFacts
<1>8. In(g[x]) BY <1>6, <1>7 DEF T
<1> QED BY <1>3, <1>8 DEF x, In

(* A row of items is in ascending order.                                   *)
LEMMA Ascending ==
  ASSUME NEW f \in [Addr -> Cell], NEW p \in Page, NEW ids, NEW from \in Nat, NEW s,
         InRow(f, p, ids, from, s),
         NEW k \in 1 .. Len(s), NEW j \in 1 .. Len(s), k < j
  PROVE  s[k] < s[j]
<1> DEFINE n == Len(s)  T == {m \in 0 .. n - k : m = 0 \/ s[k] < s[k + m]}
<1>1. s \in Seq(Nat) /\ n \in Nat BY DEF InRow
<1>2. \A m \in 1 .. n : s[m] \in Nat BY <1>1
<1>3. ASSUME NEW m \in 1 .. n, m + 1 <= n PROVE s[m] < s[m + 1]
  <2> DEFINE o == s[m]
  <2>1. /\ o \in Nat /\ o < End(p) - MIN_FILE_LEN /\ is_item(f, p, o)
        /\ o + ItemLen(f, o) <= s[m + 1]
    BY <1>2, <1>3 DEF InRow
  <2> HIDE DEF o
  <2>2. ItemLen(f, o) \in Nat /\ ItemLen(f, o) >= 3
    BY <2>1, ItemFacts DEF MIN_FILE_LEN, ITEM_HEADER_SZ
  <2>3. m + 1 \in 1 .. n BY <1>1, <1>3
  <2>4. s[m + 1] \in Nat BY <1>2, <2>3
  <2>5. o < s[m + 1] BY <2>1, <2>2, <2>4
  <2> QED BY <2>5 DEF o
<1> HIDE DEF n
<1>4. n - k \in Nat BY <1>1 DEF n
<1>5. ASSUME NEW m \in 0 .. (n - k) - 1, m \in T PROVE m + 1 \in T
  <2>1. k + m \in 1 .. n /\ (k + m) + 1 <= n /\ k + (m + 1) = (k + m) + 1
        /\ m + 1 \in 0 .. n - k /\ (k + m) + 1 \in 1 .. n /\ k \in 1 .. n
    BY <1>1, <1>5 DEF n
  <2>2. s[k + m] < s[(k + m) + 1] BY <1>3, <2>1
  <2>3. m = 0 => k + m = k BY <2>1
  <2>4. s[k] \in Nat /\ s[k + m] \in Nat /\ s[(k + m) + 1] \in Nat BY <1>2, <2>1
  <2>5. m = 0 \/ s[k] < s[k + m] BY <1>5
  <2>6. s[k] < s[(k + m) + 1] BY <2>2, <2>3, <2>4, <2>5
  <2> QED BY <2>1, <2>6
<1>6. 0 \in T BY <1>4
<1> HIDE DEF T
<1>7. \A m \in 0 .. n - k : m \in T BY <1>4, <1>5, <1>6, Induction
<1>8. j - k \in 0 .. n - k /\ k + (j - k) = j /\ j - k # 0 BY <1>1 DEF n
<1>9. j - k \in T BY <1>7, <1>8
<1> QED BY <1>8, <1>9 DEF T

-----------------------------------------------------------------------------
(* The search for an identifier returns its items, the newest last.        *)
LEMMA FoundNamed ==
  ASSUME NEW f \in [Addr -> Cell], NEW i, NEW p \in Page, p = mm_get_active_page(f)
  PROVE  LET s == Found(f, i)
         IN  /\ s \in Seq(Nat) /\ Len(s) \in Nat
             /\ \A k \in 1 .. Len(s) : s[k] \in Named(f, p, i)
             /\ \A k, j \in 1 .. Len(s) : k < j => s[k] < s[j]
             /\ \A o \in Named(f, p, i) : \E k \in 1 .. Len(s) : s[k] = o
             /\ s = << >> <=> Named(f, p, i) = {}
             /\ s # << >> => Newest(f, p, i, Last(s))
<1> DEFINE s == Found(f, i)
<1>1. s = Items(f, p, {i}) BY DEF Found, Page
<1>2. InRow(f, p, {i}, Base(p) + QWORD_LEN, s) BY <1>1, ItemsInRow
<1>3. ASSUME NEW o \in Named(f, p, i) PROVE \E k \in 1 .. Len(s) : s[k] = o
  <2> HIDE DEF s
  <2>1. o \in Offsets(f, p) BY DEF Named
  <2>2. PICK ids : ids = {i} OBVIOUS
  <2>3. f[o].id \in ids BY <2>2 DEF Named
  <2>4. \E k \in 1 .. Len(Items(f, p, ids)) : Items(f, p, ids)[k] = o BY <2>1, <2>3, AllFound
  <2>5. s = Items(f, p, ids) BY <1>1, <2>2
  <2> QED BY <2>4, <2>5
<1> HIDE DEF s
<1>4. s \in Seq(Nat) /\ Len(s) \in Nat BY <1>2 DEF InRow
<1>5. ASSUME NEW k \in 1 .. Len(s) PROVE s[k] \in Named(f, p, i) /\ s[k] \in Nat
  <2>1. /\ s[k] \in Nat /\ Base(p) + QWORD_LEN <= s[k] /\ s[k] < End(p) - MIN_FILE_LEN
        /\ is_item(f, p, s[k]) /\ f[s[k]].id = i
    BY <1>2, <1>4 DEF InRow
  <2>2. Base(p) < s[k] BY <2>1, PageFacts DEF QWORD_LEN
  <2> QED BY <2>1, <2>2, OffsetFacts DEF Named
<1>6. Base(p) + QWORD_LEN \in Nat BY PageFacts
<1>7. \A k, j \in 1 .. Len(s) : k < j => s[k] < s[j] BY <1>2, <1>6, Ascending
<1>8. s = << >> <=> Named(f, p, i) = {}
  <2>1. s = << >> => Named(f, p, i) = {} BY <1>3
  <2>2. s # << >> => 1 \in 1 .. Len(s) BY <1>4
  <2> QED BY <1>5, <2>1, <2>2
<1>9. ASSUME s # << >> PROVE Newest(f, p, i, Last(s))
  <2> DEFINE n == Len(s)
  <2>1. n \in 1 .. n /\ n \in Nat BY <1>4, <1>9
  <2>2. ASSUME NEW x \in Named(f, p, i) PROVE x <= s[n]
    <3>1. PICK k \in 1 .. n : s[k] = x BY <1>3
    <3>2. k = n \/ k < n BY <2>1
    <3> QED BY <1>5, <1>7, <2>1, <3>1, <3>2
  <2> QED BY <1>5, <2>1, <2>2 DEF Newest, Last
<1> QED BY <1>3, <1>4, <1>5, <1>7, <1>8, <1>9 DEF s

(* What a page shows is one file, or none; and mm_get returns it, since    *)
(* every duplicate can be zeroed.                                          *)
LEMMA OneShown ==
  ASSUME NEW f \in [Addr -> Cell], NEW p \in Page, NEW i, NEW v, NEW w,
         Shows(f, p, i, v), Shows(f, p, i, w)
  PROVE  v = w
<1>1. \A o \in Named(f, p, i) : o \in Nat BY OffsetFacts DEF Named
<1>2. CASE Named(f, p, i) = {} BY <1>2 DEF Shows, Newest
<1>3. CASE Named(f, p, i) # {}
  <2>1. PICK o : Newest(f, p, i, o) /\ v = f[o + 1].file BY <1>3 DEF Shows
  <2>2. PICK x : Newest(f, p, i, x) /\ w = f[x + 1].file BY <1>3 DEF Shows
  <2>3. o \in Nat /\ x \in Nat /\ x <= o /\ o <= x BY <1>1, <2>1, <2>2 DEF Newest
  <2>4. o = x BY <2>3
  <2> QED BY <2>1, <2>2, <2>4
<1> QED BY <1>2, <1>3

(* mm_flash_zero takes every item.                                         *)
Zeroable == \A v \in Files : ITEM_HEADER_SZ + FileLen[v] <= MAX_FLASH_ZERO_SIZE

(* The file mm_get returns is the one the page shows: that of the          *)
(* identifier's last item.                                                 *)
LEMMA GetShows ==
  ASSUME Zeroable, NEW f \in [Addr -> Cell], NEW i, NEW p \in Page,
         p = mm_get_active_page(f)
  PROVE  Shows(f, p, i, mm_get(f, i))
<1> DEFINE s == Found(f, i)
<1>1. /\ s \in Seq(Nat) /\ Len(s) \in Nat
      /\ s = << >> <=> Named(f, p, i) = {}
      /\ s # << >> => Newest(f, p, i, Last(s))
  BY FoundNamed
<1>2. \A k \in 1 .. Len(s) : ItemLen(f, s[k]) <= MAX_FLASH_ZERO_SIZE
  BY FoundFacts DEF Zeroable, ItemLen
<1>3. \A k \in 1 .. Len(s) - 1 : ItemLen(f, s[k]) <= MAX_FLASH_ZERO_SIZE
  <2>1. \A k \in 1 .. Len(s) - 1 : k \in 1 .. Len(s) BY <1>1
  <2> HIDE DEF s
  <2> QED BY <1>2, <2>1
<1>4. mm_get(f, i) = IF s # << >> /\ \A k \in 1 .. Len(s) - 1 : ItemLen(f, s[k]) <= MAX_FLASH_ZERO_SIZE
                     THEN f[Last(s) + 1].file ELSE NoFile
  BY DEF mm_get
<1> HIDE DEF s
<1>5. mm_get(f, i) = IF s # << >> THEN f[Last(s) + 1].file ELSE NoFile
  BY <1>3, <1>4
<1> QED BY <1>1, <1>5 DEF Shows

(* The file a page shows is the one mm_get returns.                        *)
LEMMA ShowsGet ==
  ASSUME Zeroable, NEW f \in [Addr -> Cell], NEW i, NEW p \in Page,
         p = mm_get_active_page(f), NEW v, Shows(f, p, i, v)
  PROVE  mm_get(f, i) = v
BY GetShows, OneShown

(* Without an active page nothing is found.                                *)
LEMMA GetNone ==
  ASSUME NEW f, NEW i, mm_get_active_page(f) = 0
  PROVE  mm_get(f, i) = NoFile
<1>1. Found(f, i) = << >> BY DEF Found
<1> QED BY <1>1 DEF mm_get

(* An offset within a page is an address of the flash.                     *)
LEMMA OnPage ==
  ASSUME NEW p \in Page, NEW a \in Nat, Base(p) <= a, a < End(p)
  PROVE  a \in Addr
<1>1. p \in {1, 2} BY DEF Page
<1> QED BY <1>1, PageFacts

-----------------------------------------------------------------------------
(* Page 2 begins with no part of a file, so items end where their page     *)
(* does; a file's first cell has a header before it.                       *)
Fenced(f) == f[Base(2)].is # "data"

(* Before the first cell of any file there is a header written, or a part  *)
(* of one: no scan runs into a file.                                       *)
Headed(f, p) ==
  \A a \in Base(p) + 1 .. End(p) - 3 :
    Erased \in {f[a], f[a + 1]} => \A v \in Files : f[a + 2] # Data(v, 1)

(* What is at an offset, in cells.                                         *)
Holds(f, p, o, v) ==
  /\ o \in Nat /\ Base(p) < o /\ o < End(p) - MIN_FILE_LEN
  /\ v \in Files /\ FileLen[v] \in Nat /\ FileLen[v] >= 1
  /\ o + 2 + FileLen[v] <= End(p)
  /\ f[o].id \in Ids /\ f[o] = Id(f[o].id) /\ f[o + 1].is = "meta" /\ f[o + 1].file = v
  /\ \A k \in 1 .. FileLen[v] : f[o + 1 + k] = Data(v, k)

(* An item is an identifier, its length and check, and all cells of its    *)
(* file.                                                                   *)
LEMMA CellsOfItem ==
  ASSUME NEW f \in [Addr -> Cell], NEW p \in Page, Fenced(f), NEW o \in Offsets(f, p)
  PROVE  /\ Holds(f, p, o, f[o + 1].file)
         /\ ItemLen(f, o) = 2 + FileLen[f[o + 1].file]
<1> DEFINE v == f[o + 1].file  l == FileLen[v]
<1>1. o \in Nat /\ Base(p) < o /\ o < End(p) - MIN_FILE_LEN /\ is_item(f, p, o)
  BY OffsetFacts
<1>2. /\ o \in Addr /\ o + 1 \in Addr /\ f[o].id \in Ids /\ v \in Files
      /\ f[o].is = "id" /\ f[o + 1].is = "meta"
  BY <1>1, ItemFacts DEF is_item
<1>3. f[o] = Id(f[o].id) BY <1>2, CellKinds
<1>4. l \in Nat /\ l >= 1 BY <1>2, FilesAssumption
<1>5. ItemLen(f, o) = 2 + l BY DEF ItemLen, ITEM_HEADER_SZ
<1>6. /\ l < End(p) - o
      /\ \A k \in 1 .. l : o + 2 + k - 1 \in Addr /\ f[o + 2 + k - 1] = Data(v, k)
  BY <1>1 DEF is_item, ITEM_HEADER_SZ
<1> HIDE DEF l, v
<1>7. \A k \in 1 .. l : f[o + 1 + k] = Data(v, k)
  <2>1. \A k \in 1 .. l : o + 2 + k - 1 = o + 1 + k BY <1>1, <1>4
  <2> QED BY <1>6, <2>1
<1>8. o + 2 + l <= End(p)
  <2> SUFFICES ASSUME ~(o + 2 + l <= End(p)) PROVE FALSE OBVIOUS
  <2>1. o + 1 + l = End(p) BY <1>1, <1>4, <1>6, PageFacts
  <2>2. l \in 1 .. l /\ o + 2 + l - 1 = End(p) BY <1>1, <1>4, <2>1
  <2>3. End(p) \in Addr /\ f[End(p)] = Data(v, l) BY <1>6, <2>2
  <2>4. p = 1 /\ End(p) = Base(2) BY <2>3, PageFacts DEF Page
  <2> QED BY <2>3, <2>4 DEF Fenced, Data
<1> QED BY <1>1, <1>2, <1>3, <1>4, <1>5, <1>7, <1>8 DEF Holds, l, v

(* An identifier, a length and check and all cells of the file are an      *)
(* item.                                                                   *)
LEMMA ItemOfCells ==
  ASSUME NEW f \in [Addr -> Cell], NEW p \in Page, NEW o, NEW v, Holds(f, p, o, v)
  PROVE  o \in Offsets(f, p) /\ ItemLen(f, o) = 2 + FileLen[v]
<1> DEFINE l == FileLen[v]
<1>1. /\ o \in Nat /\ Base(p) < o /\ o < End(p) - MIN_FILE_LEN /\ f[o + 1].file = v
      /\ l \in Nat /\ l >= 1 /\ o + 2 + l <= End(p) /\ f[o].is = "id" /\ f[o + 1].is = "meta"
      /\ \A k \in 1 .. l : f[o + 1 + k] = Data(v, k)
  BY DEF Holds, Id
<1>2. ItemLen(f, o) = 2 + l BY <1>1 DEF ItemLen, ITEM_HEADER_SZ
<1> HIDE DEF l
<1>3. l < End(p) - o BY <1>1, PageFacts
<1>4. \A k \in 1 .. l : o + 2 + k - 1 \in Addr /\ o + 2 + k - 1 = o + 1 + k
  BY <1>1, PageFacts DEF Page
<1>5. is_item(f, p, o) BY <1>1, <1>3, <1>4 DEF is_item, l, ITEM_HEADER_SZ
<1> QED BY <1>1, <1>2, <1>5, OffsetFacts DEF l

(* An item is kept where its cells are.                                    *)
LEMMA KeptItem ==
  ASSUME NEW f \in [Addr -> Cell], NEW e \in [Addr -> Cell], NEW p \in Page, Fenced(f),
         NEW o \in Offsets(f, p),
         \A a \in o .. o + ItemLen(f, o) - 1 : e[a] = f[a]
  PROVE  /\ o \in Offsets(e, p) /\ e[o] = f[o] /\ e[o + 1] = f[o + 1]
         /\ ItemLen(e, o) = ItemLen(f, o)
<1> DEFINE v == f[o + 1].file  l == FileLen[v]
<1>1. Holds(f, p, o, v) /\ ItemLen(f, o) = 2 + l BY CellsOfItem
<1>2. o \in Nat /\ l \in Nat BY <1>1 DEF Holds
<1> HIDE DEF l
<1>3. /\ o \in o .. o + ItemLen(f, o) - 1 /\ o + 1 \in o .. o + ItemLen(f, o) - 1
      /\ \A k \in 1 .. l : o + 1 + k \in o .. o + ItemLen(f, o) - 1
  BY <1>1, <1>2
<1>4. e[o] = f[o] /\ e[o + 1] = f[o + 1] /\ \A k \in 1 .. l : e[o + 1 + k] = f[o + 1 + k]
  BY <1>3
<1>5. Holds(e, p, o, v) BY <1>1, <1>4 DEF Holds, l
<1> QED BY <1>1, <1>4, <1>5, ItemOfCells DEF l

(* A write within a page, whole or cut short.                              *)
InPage(p, w) ==
  /\ w \in Operation /\ w.op = "write"
  /\ Base(p) < w.addr /\ w.addr + Len(w.cells) <= End(p)

(* Programming a cell gives the new value, zero or a mixture, never an     *)
(* erased cell; the new value where the cell was erased.                   *)
LEMMA Programs ==
  ASSUME NEW c, NEW x
  PROVE  /\ Program(c, x) \in {x, Zero, Mixed}
         /\ c = Erased => Program(c, x) = x
         /\ x = Zero => Program(c, x) = Zero
         /\ x # Erased => Program(c, x) # Erased
         /\ x \notin {Zero, Mixed} /\ Program(c, x) = x => c \in {Erased, x}
<1>1. Zero # Erased /\ Mixed # Erased BY DEF Zero, Mixed, Erased
<1>2. CASE c \in {Erased, x} 
  <2>2. Zero \in {c, x} => x = Zero BY <1>1, <1>2
  <2>1. Program(c, x) = x BY <1>2, <2>2 DEF Program
  <2> QED BY <1>2, <2>1
<1>3. CASE c \notin {Erased, x} /\ Zero \in {c, x}
  <2>1. Program(c, x) = Zero BY <1>3 DEF Program
  <2> QED BY <1>1, <1>3, <2>1
<1>4. CASE c \notin {Erased, x} /\ Zero \notin {c, x}
  <2>1. Program(c, x) = Mixed BY <1>4 DEF Program
  <2> QED BY <1>1, <1>4, <2>1
<1> QED BY <1>2, <1>3, <1>4

(* A write within a page, cut short anywhere, changes cells of the page    *)
(* behind its marker and nothing else.                                     *)
LEMMA WriteIn ==
  ASSUME NEW f \in [Addr -> Cell], NEW p \in Page, NEW w, InPage(p, w),
         NEW n \in 0 .. Len(w.cells)
  PROVE  LET e == Done(f, w, n)
         IN  /\ InRegion(w) /\ e \in [Addr -> Cell]
             /\ \A a \in Addr : e[a] = IF a \in w.addr .. w.addr + n - 1
                                       THEN Program(f[a], w.cells[a - w.addr + 1]) ELSE f[a]
             /\ \A q \in Page : e[Base(q)] = f[Base(q)]
             /\ mm_get_active_page(e) = mm_get_active_page(f)
             /\ Fenced(f) => Fenced(e)
<1> DEFINE e == Done(f, w, n)
<1>1. /\ w \in Operation /\ w.op = "write" /\ w.addr \in Nat /\ Len(w.cells) \in Nat
      /\ Base(p) < w.addr /\ w.addr + Len(w.cells) <= End(p)
  BY DEF InPage, Operation
<1>2. InRegion(w) BY <1>1, PageFacts DEF InRegion, Page
<1>3. e \in [Addr -> Cell] BY <1>1, DoneTyped
<1>4. \A a \in Addr : e[a] = IF a \in w.addr .. w.addr + n - 1
                             THEN Program(f[a], w.cells[a - w.addr + 1]) ELSE f[a]
  BY <1>1, <1>2 DEF Done
<1> HIDE DEF e
<1>5. ASSUME NEW q \in Page PROVE e[Base(q)] = f[Base(q)]
  <2>1. Base(q) \in Addr BY PageFacts
  <2>2. ~(Base(q) \in w.addr .. w.addr + n - 1)
    <3> DEFINE a == w.addr  l == Len(w.cells)
    <3>1. a \in Nat /\ l \in Nat /\ n \in 0 .. l /\ Base(p) < a /\ a + l <= End(p) BY <1>1
    <3> HIDE DEF a, l
    <3>3. p \in {1, 2} /\ q \in {1, 2} BY DEF Page
    <3> DEFINE z == Base(q)
    <3>4. z \in Nat /\ (z <= Base(p) \/ End(p) <= z) BY <3>3, PageFacts
    <3>5. Base(p) \in Nat /\ End(p) \in Nat BY PageFacts
    <3> HIDE DEF z
    <3>2. ~(z \in a .. a + n - 1) BY <3>1, <3>4, <3>5
    <3> QED BY <3>2 DEF a, z
  <2> QED BY <1>4, <2>1, <2>2
<1>6. 1 \in Page /\ 2 \in Page BY DEF Page
<1>7. mm_get_active_page(e) = mm_get_active_page(f) BY <1>5, <1>6 DEF mm_get_active_page
<1>8. Fenced(f) => Fenced(e) BY <1>5, <1>6 DEF Fenced
<1> QED BY <1>2, <1>3, <1>4, <1>5, <1>7, <1>8 DEF e

(* A write that puts the first cell of a file only behind a written header *)
(* leaves every file in the page with a header before it.                  *)
LEMMA HeadedKept ==
  ASSUME NEW f \in [Addr -> Cell], NEW p \in Page, NEW w, InPage(p, w), Headed(f, p),
         NEW n \in 0 .. Len(w.cells),
         \A k \in 1 .. Len(w.cells) :
           /\ w.cells[k] # Erased
           /\ (\E v \in Files : w.cells[k] = Data(v, 1)) =>
                k = 1 /\ f[w.addr - 1] # Erased /\ f[w.addr - 2] # Erased
  PROVE  Headed(Done(f, w, n), p)
<1> DEFINE e == Done(f, w, n)  at == w.addr  l == Len(w.cells)
<1>1. \A a \in Addr : e[a] = IF a \in at .. at + n - 1
                             THEN Program(f[a], w.cells[a - at + 1]) ELSE f[a]
  BY WriteIn
<1>2. at \in Nat /\ l \in Nat /\ n \in 0 .. l BY DEF InPage, Operation
<1> HIDE DEF e
<1>3. ASSUME NEW a \in Addr, e[a] = Erased PROVE f[a] = Erased
  <2>1. CASE a \in at .. at + n - 1
    <3>1. a - at + 1 \in 1 .. l
      <4> HIDE DEF at, l
      <4> QED BY <1>2, <2>1
    <3> QED BY <1>1, <1>3, <2>1, <3>1, Programs
  <2> QED BY <1>1, <1>3, <2>1
<1>4. ASSUME NEW a \in Base(p) + 1 .. End(p) - 3, Erased \in {e[a], e[a + 1]},
             NEW v \in Files, e[a + 2] = Data(v, 1)
      PROVE  FALSE
  <2>1. a \in Addr /\ a + 1 \in Addr /\ a + 2 \in Addr /\ a \in Nat BY PageFacts DEF Page
  <2>2. Erased \in {f[a], f[a + 1]} BY <1>3, <1>4, <2>1
  <2>3. f[a + 2] # Data(v, 1) BY <2>2 DEF Headed
  <2>4. a + 2 \in at .. at + n - 1 BY <1>1, <1>4, <2>1, <2>3
  <2>5. (a + 2) - at + 1 \in 1 .. l
    <3> HIDE DEF at, l
    <3> QED BY <1>2, <2>1, <2>4
  <2> DEFINE x == w.cells[(a + 2) - at + 1]
  <2>6. Program(f[a + 2], x) = Data(v, 1) BY <1>1, <1>4, <2>1, <2>4
  <2>7. x = Data(v, 1)
    <3> HIDE DEF x
    <3>1. Data(v, 1) # Zero /\ Data(v, 1) # Mixed BY DEF Data, Zero, Mixed
    <3> QED BY <2>6, <3>1, Programs
  <2>8. (a + 2) - at + 1 = 1 /\ f[at - 1] # Erased /\ f[at - 2] # Erased BY <2>5, <2>7
  <2> HIDE DEF at
  <2>9. at - 1 = a + 1 /\ at - 2 = a BY <1>2, <2>1, <2>8
  <2> QED BY <2>2, <2>8, <2>9
<1> QED BY <1>4 DEF Headed, e

-----------------------------------------------------------------------------
(* An item whose first cells are zeroed is gone, and no other.             *)
LEMMA ZerosInPage ==
  ASSUME NEW f \in [Addr -> Cell], NEW p \in Page, Fenced(f), NEW o \in Offsets(f, p),
         NEW m \in 1 .. ItemLen(f, o)
  PROVE  /\ InPage(p, Write(o, Zeros(m))) /\ Len(Write(o, Zeros(m)).cells) = m
         /\ \A k \in 1 .. m : Write(o, Zeros(m)).cells[k] = Zero
<1>1. Holds(f, p, o, f[o + 1].file) /\ ItemLen(f, o) = 2 + FileLen[f[o + 1].file]
  BY CellsOfItem
<1>2. o \in Nat /\ Base(p) < o /\ o + ItemLen(f, o) <= End(p) /\ ItemLen(f, o) \in Nat
  BY <1>1 DEF Holds
<1>3. m \in Nat /\ o + m <= End(p) BY <1>2, PageFacts
<1>4. Zeros(m) \in Seq(Cell) /\ Len(Zeros(m)) = m BY <1>3, ZerosTyped
<1>5. \A k \in 1 .. m : Zeros(m)[k] = Zero BY DEF Zeros
<1> QED BY <1>2, <1>3, <1>4, <1>5 DEF InPage, Write, Operation

(* Zeros written over an item from its start change exactly the cells they *)
(* reach.                                                                  *)
LEMMA ZeroedCells ==
  ASSUME NEW f \in [Addr -> Cell], NEW p \in Page, Fenced(f), NEW o \in Offsets(f, p),
         NEW m \in 1 .. ItemLen(f, o), NEW n \in 0 .. m
  PROVE  LET e == Done(f, Write(o, Zeros(m)), n)
         IN  /\ e \in [Addr -> Cell] /\ Fenced(e)
             /\ \A a \in Addr : e[a] = IF a \in o .. o + n - 1 THEN Zero ELSE f[a]
             /\ mm_get_active_page(e) = mm_get_active_page(f)
             /\ Headed(f, p) => Headed(e, p)
<1> DEFINE w == Write(o, Zeros(m))  e == Done(f, w, n)
<1>1. InPage(p, w) /\ Len(w.cells) = m /\ \A k \in 1 .. m : w.cells[k] = Zero
  BY ZerosInPage
<1>2. w.addr = o BY DEF Write
<1>3. o \in Nat BY OffsetFacts
<1> HIDE DEF w
<1>4. /\ e \in [Addr -> Cell] /\ Fenced(e)
      /\ mm_get_active_page(e) = mm_get_active_page(f)
      /\ \A a \in Addr : e[a] = IF a \in o .. o + n - 1
                                THEN Program(f[a], w.cells[a - o + 1]) ELSE f[a]
  BY <1>1, <1>2, WriteIn
<1>5. ASSUME NEW a \in o .. o + n - 1 PROVE w.cells[a - o + 1] = Zero
  <2>1. a - o + 1 \in 1 .. m BY <1>3
  <2> QED BY <1>1, <2>1
<1>6. \A a \in Addr : e[a] = IF a \in o .. o + n - 1 THEN Zero ELSE f[a]
  BY <1>4, <1>5, Programs
<1>7. Headed(f, p) => Headed(e, p)
  <2>1. \A v : Zero # Erased /\ Zero # Data(v, 1) BY DEF Zero, Erased, Data
  <2> QED BY <1>1, <2>1, HeadedKept
<1> QED BY <1>4, <1>6, <1>7 DEF w

(* An item with the same header and length in both.                        *)
SameItem(f, e, x) == e[x] = f[x] /\ e[x + 1] = f[x + 1] /\ ItemLen(e, x) = ItemLen(f, x)

(* An item whose first cell is zeroed is gone, and no other item appears   *)
(* or changes.                                                             *)
LEMMA OneGone ==
  ASSUME NEW f \in [Addr -> Cell], NEW p \in Page, Fenced(f), NEW o \in Offsets(f, p),
         NEW m \in 1 .. ItemLen(f, o), NEW n \in 1 .. m
  PROVE  LET e == Done(f, Write(o, Zeros(m)), n)
         IN  /\ Offsets(e, p) = Offsets(f, p) \ {o}
             /\ \A x \in Offsets(e, p) : SameItem(f, e, x)
<1> DEFINE e == Done(f, Write(o, Zeros(m)), n)
<1>1. n \in 0 .. m OBVIOUS
<1>2. /\ e \in [Addr -> Cell] /\ Fenced(e)
      /\ \A a \in Addr : e[a] = IF a \in o .. o + n - 1 THEN Zero ELSE f[a]
  BY <1>1, ZeroedCells
<1>3. Holds(f, p, o, f[o + 1].file) /\ ItemLen(f, o) = 2 + FileLen[f[o + 1].file]
  BY CellsOfItem
<1>4. /\ o \in Nat /\ Base(p) < o /\ o + ItemLen(f, o) <= End(p) /\ ItemLen(f, o) \in Nat
      /\ o \in Addr
  <2>1. /\ o \in Nat /\ Base(p) < o /\ FileLen[f[o + 1].file] \in Nat
        /\ o + 2 + FileLen[f[o + 1].file] <= End(p)
    BY <1>3 DEF Holds
  <2> DEFINE l == FileLen[f[o + 1].file]
  <2>4. l \in Nat /\ o + 2 + l <= End(p) BY <2>1
  <2> HIDE DEF e, l
  <2>5. Base(p) <= o /\ o < End(p) /\ o + (2 + l) <= End(p) BY <2>1, <2>4, PageFacts
  <2>2. Base(p) <= o /\ o < End(p) /\ o + (2 + FileLen[f[o + 1].file]) <= End(p)
    BY <2>5 DEF l
  <2>3. o \in Addr BY <2>1, <2>2, OnPage
  <2> QED BY <1>3, <2>1, <2>2, <2>3
<1> HIDE DEF e
<1>5. ASSUME NEW x \in Offsets(e, p) PROVE x \in Offsets(f, p) /\ x # o /\ SameItem(f, e, x)
  <2> DEFINE v == e[x + 1].file  l == FileLen[v]
  <2>1. Holds(e, p, x, v) /\ ItemLen(e, x) = 2 + l BY <1>2, CellsOfItem
  <2>2. /\ x \in Nat /\ Base(p) < x /\ l \in Nat /\ x + 2 + l <= End(p)
        /\ e[x] = Id(e[x].id) /\ e[x + 1].is = "meta"
        /\ \A k \in 1 .. l : e[x + 1 + k] = Data(v, k)
    BY <2>1 DEF Holds
  <2> HIDE DEF l, v
  <2>3. \A a \in x .. x + (2 + l) - 1 : a \in Addr BY <2>2, PageFacts DEF Page
  <2>4. \A a \in x .. x + (2 + l) - 1 : e[a] # Zero
    <3> SUFFICES ASSUME NEW a \in x .. x + (2 + l) - 1 PROVE e[a] # Zero OBVIOUS
    <3>1. CASE a = x BY <2>2, <3>1 DEF Id, Zero
    <3>2. CASE a = x + 1 BY <2>2, <3>2 DEF Zero
    <3>3. CASE a # x /\ a # x + 1
      <4>1. a - x - 1 \in 1 .. l /\ x + 1 + (a - x - 1) = a BY <2>2, <3>3
      <4>2. e[a] = Data(v, a - x - 1) BY <2>2, <4>1
      <4> QED BY <4>2 DEF Data, Zero
    <3> QED BY <3>1, <3>2, <3>3
  <2>5. \A a \in x .. x + (2 + l) - 1 : f[a] = e[a] BY <1>2, <2>3, <2>4
  <2>6. \A a \in x .. x + ItemLen(e, x) - 1 : f[a] = e[a] BY <2>1, <2>5 DEF l
  <2>7. x \in Offsets(f, p) /\ f[x] = e[x] /\ f[x + 1] = e[x + 1] /\ ItemLen(f, x) = ItemLen(e, x)
    BY <1>2, <2>6, KeptItem
  <2>8. x # o
    <3>1. o \in o .. o + n - 1 BY <1>4
    <3>2. e[o] = Zero BY <1>2, <1>4, <3>1
    <3> QED BY <2>2, <3>2 DEF Id, Zero
  <2> QED BY <2>7, <2>8 DEF SameItem
<1>6. ASSUME NEW x \in Offsets(f, p), x # o PROVE x \in Offsets(e, p)
  <2>1. x \in Nat /\ ItemLen(f, x) \in Nat /\ x + ItemLen(f, x) <= End(p)
    <3>1. Holds(f, p, x, f[x + 1].file) /\ ItemLen(f, x) = 2 + FileLen[f[x + 1].file]
      BY CellsOfItem
    <3> QED BY <3>1 DEF Holds
  <2>2. (o < x => o + ItemLen(f, o) <= x) /\ (x < o => x + ItemLen(f, x) <= o) BY Disjoint
  <2>3. o < x \/ x < o BY <1>4, <1>6, <2>1
  <2>4. ASSUME NEW a \in x .. x + ItemLen(f, x) - 1 PROVE e[a] = f[a]
    <3> DEFINE l == ItemLen(f, o)  z == ItemLen(f, x)
    <3>1. /\ l \in Nat /\ z \in Nat /\ m \in 1 .. l /\ a \in x .. x + z - 1
          /\ x + z <= End(p) /\ (o + l <= x \/ x + z <= o)
      BY <1>4, <2>1, <2>2, <2>3
    <3> HIDE DEF l, z
    <3>4. Base(p) < x BY OffsetFacts
    <3>5. a \in Nat /\ Base(p) <= a /\ a < End(p) BY <2>1, <3>1, <3>4, PageFacts
    <3>2. a \in Addr BY <3>5, OnPage
    <3>3. ~(a \in o .. o + n - 1) BY <1>4, <2>1, <3>1
    <3> QED BY <1>2, <3>2, <3>3
  <2> QED BY <1>2, <2>4, KeptItem
<1> QED BY <1>5, <1>6 DEF e

(* An operation cut short before its first cell changes nothing.           *)
LEMMA DoneNothing ==
  ASSUME NEW f \in [Addr -> Cell], NEW o \in Operation
  PROVE  Done(f, o, 0) = f
<1>1. o.addr \in Nat BY DEF Operation
<1>2. \A a \in Addr : ~(a \in o.addr .. o.addr + 0 - 1) BY <1>1 DEF Addr
<1>3. Done(f, o, 0) = [a \in Addr |-> f[a]] BY <1>2 DEF Done
<1> QED BY <1>3

(* Zeros read back as zeros: zeroing an item cannot fail.                  *)
LEMMA ZerosVerified ==
  ASSUME NEW f \in [Addr -> Cell], NEW p \in Page, Fenced(f), NEW o \in Offsets(f, p),
         NEW m \in 1 .. ItemLen(f, o)
  PROVE  Verified(Done(f, Write(o, Zeros(m)), m), Write(o, Zeros(m)))
<1> DEFINE w == Write(o, Zeros(m))  e == Done(f, w, m)
<1>1. /\ InPage(p, w) /\ Len(w.cells) = m /\ w.addr = o
      /\ \A k \in 1 .. m : w.cells[k] = Zero
  BY ZerosInPage DEF Write
<1>2. m \in 0 .. m OBVIOUS
<1>3. \A a \in Addr : e[a] = IF a \in o .. o + m - 1 THEN Zero ELSE f[a]
  BY <1>2, ZeroedCells
<1>4. InRegion(w) BY <1>1, <1>2, WriteIn
<1>5. o \in Nat BY OffsetFacts
<1> HIDE DEF e, w
<1>6. ASSUME NEW k \in 1 .. m PROVE e[o + k - 1] = Zero
  <2>1. o + k - 1 \in o .. o + m - 1 BY <1>5
  <2>2. o + k - 1 \in Addr
    <3>1. o + m <= End(p) /\ Base(p) < o BY <1>1 DEF InPage
    <3>2. m \in Nat /\ Base(p) \in Nat /\ End(p) \in Nat
      BY <1>1, PageFacts DEF InPage, Operation
    <3> DEFINE y == o + k - 1
    <3>3. y \in Nat /\ Base(p) <= y /\ y < End(p) BY <1>5, <3>1, <3>2
    <3> HIDE DEF y
    <3>4. y \in Addr BY <3>3, OnPage
    <3> QED BY <3>4 DEF y
  <2> QED BY <1>3, <2>1, <2>2
<1>7. Verified(e, w) BY <1>1, <1>4, <1>6 DEF Verified
<1> QED BY <1>7 DEF e, w

-----------------------------------------------------------------------------
(* A page goes on showing what it shows while its newest items stay and    *)
(* none is added.                                                          *)
Keeps(f, e, p, i) == \A v : Shows(f, p, i, v) => Shows(e, p, i, v)

(* A page keeps showing a file when no item of the identifier is added and *)
(* the last one stays.                                                     *)
LEMMA KeepsNewest ==
  ASSUME NEW f, NEW e, NEW p, NEW i,
         \A x \in Named(e, p, i) : x \in Named(f, p, i),
         \A o : Newest(f, p, i, o) => o \in Named(e, p, i) /\ e[o + 1] = f[o + 1]
  PROVE  Keeps(f, e, p, i)
<1> SUFFICES ASSUME NEW v, Shows(f, p, i, v) PROVE Shows(e, p, i, v) BY DEF Keeps
<1>1. CASE Named(f, p, i) = {} /\ v = NoFile BY <1>1 DEF Shows
<1>2. CASE \E o : Newest(f, p, i, o) /\ v = f[o + 1].file
  <2>1. PICK o : Newest(f, p, i, o) /\ v = f[o + 1].file BY <1>2
  <2>2. Newest(e, p, i, o) /\ e[o + 1] = f[o + 1] BY <2>1 DEF Newest
  <2> QED BY <2>1, <2>2 DEF Shows
<1> QED BY <1>1, <1>2 DEF Shows

(* An operation that zeroes an item before the newest.                     *)
Zaps(f, p, i, w) ==
  \E o \in Named(f, p, i) :
    /\ \E x \in Named(f, p, i) : o < x
    /\ \E m \in 1 .. ItemLen(f, o) : w = Write(o, Zeros(m))

(* Zeroing an older item of an identifier, cut short anywhere, changes no  *)
(* file shown and leaves the other items to be zeroed as they were.        *)
LEMMA ZapKeeps ==
  ASSUME NEW f \in [Addr -> Cell], NEW p \in Page, Fenced(f), NEW i, NEW w, Zaps(f, p, i, w),
         NEW n \in 0 .. Len(w.cells)
  PROVE  LET e == Done(f, w, n)
         IN  /\ InPage(p, w) /\ \A j : Keeps(f, e, p, j)
             /\ n = Len(w.cells) => Verified(e, w)
             /\ \A u : Zaps(f, p, i, u) /\ u.addr # w.addr => Zaps(e, p, i, u)
<1>a. PICK o \in Named(f, p, i), x \in Named(f, p, i) :
        o < x /\ \E m \in 1 .. ItemLen(f, o) : w = Write(o, Zeros(m))
  BY DEF Zaps
<1>1. PICK m \in 1 .. ItemLen(f, o) : o < x /\ w = Write(o, Zeros(m)) BY <1>a
<1> DEFINE e == Done(f, w, n)
<1>2. /\ InPage(p, w) /\ Len(w.cells) = m /\ w.addr = o
      /\ \A k \in 1 .. m : w.cells[k] = Zero
  BY <1>1, ZerosInPage DEF Named, Write
<1>3. /\ e \in [Addr -> Cell] /\ Fenced(e)
      /\ \A a \in Addr : e[a] = IF a \in o .. o + n - 1 THEN Zero ELSE f[a]
  BY <1>1, <1>2, ZeroedCells DEF Named
<1>0. /\ \A y : y \in Offsets(f, p) => y \in Nat
      /\ o \in Offsets(f, p) /\ x \in Offsets(f, p) /\ f[o].id = i /\ f[x].id = i
  BY OffsetFacts DEF Named
<1>4. CASE n = 0
  <2>1. e = f BY <1>2, <1>4, DoneNothing DEF InPage
  <2>2. m # 0 BY <1>1
  <2> QED BY <1>2, <1>4, <2>1, <2>2 DEF Keeps
<1>5. CASE n # 0
  <2>1. n \in 1 .. m BY <1>2, <1>5
  <2>2. Offsets(e, p) = Offsets(f, p) \ {o} /\ \A y \in Offsets(e, p) : SameItem(f, e, y)
    BY <1>0, <1>1, <2>1, OneGone
  <2>3. ASSUME NEW j PROVE Named(e, p, j) = Named(f, p, j) \ {o}
    BY <2>2 DEF Named, SameItem
  <2>4. ASSUME NEW j, NEW y, Newest(f, p, j, y) PROVE y \in Named(e, p, j) /\ e[y + 1] = f[y + 1]
    <3>1. y # o
      <4> SUFFICES ASSUME y = o PROVE FALSE OBVIOUS
      <4>1. j = i BY <1>0, <2>4 DEF Newest, Named
      <4>2. x <= o BY <2>4, <4>1 DEF Newest
      <4> QED BY <1>0, <1>1, <4>2
    <3>2. y \in Named(e, p, j) BY <2>3, <2>4, <3>1 DEF Newest
    <3> QED BY <2>2, <3>2 DEF Named, SameItem
  <2>5. \A j : Keeps(f, e, p, j)
    <3> SUFFICES ASSUME NEW j PROVE Keeps(f, e, p, j) OBVIOUS
    <3>1. \A y \in Named(e, p, j) : y \in Named(f, p, j) BY <2>3
    <3> QED BY <2>4, <3>1, KeepsNewest
  <2>6. n = m => Verified(e, w) BY <1>0, <1>1, <1>2, ZerosVerified
  <2>7. ASSUME NEW u, Zaps(f, p, i, u), u.addr # w.addr PROVE Zaps(e, p, i, u)
    <3>a. PICK y \in Named(f, p, i), z \in Named(f, p, i) :
            y < z /\ \E r \in 1 .. ItemLen(f, y) : u = Write(y, Zeros(r))
      BY <2>7 DEF Zaps
    <3>1. PICK r \in 1 .. ItemLen(f, y) : y < z /\ u = Write(y, Zeros(r)) BY <3>a
    <3>2. y # o BY <1>2, <2>7, <3>1 DEF Write
    <3>3. y \in Named(e, p, i) BY <2>3, <3>2
    <3>4. ItemLen(e, y) = ItemLen(f, y) BY <2>2, <3>3 DEF Named, SameItem
    <3>5. \E h \in Named(e, p, i) : y < h
      <4>1. CASE z # o BY <2>3, <3>1, <4>1
      <4>2. CASE z = o
        <5>1. y < x /\ x # o BY <1>0, <1>1, <3>1, <4>2 DEF Named
        <5> QED BY <2>3, <5>1
      <4> QED BY <4>1, <4>2
    <3> QED BY <3>1, <3>3, <3>4, <3>5 DEF Zaps
  <2> HIDE DEF e
  <2> QED BY <1>2, <2>5, <2>6, <2>7 DEF e
<1> QED BY <1>4, <1>5

-----------------------------------------------------------------------------
(* The two writes of mm_set, where the page has room for the item behind   *)
(* its items.                                                              *)
Header(at, i, v) == Write(at, <<Id(i), Meta(v)>>)
Body(at, v)      == Write(at + ITEM_HEADER_SZ, [k \in 1 .. FileLen[v] |-> Data(v, k)])

(* Cells behind all items for a header and file v, where mm_get_next       *)
(* looks.                                                                  *)
Room(f, p, at, v) ==
  /\ at \in Nat /\ Base(p) < at /\ at < End(p) - MIN_FILE_LEN
  /\ v \in Files /\ at + 2 + FileLen[v] <= End(p)
  /\ \A o \in Offsets(f, p) : o + ItemLen(f, o) <= at

(* A header alone makes no item: where a file would follow it, it has been *)
(* written before.                                                         *)
LEMMA HeaderStep ==
  ASSUME NEW f \in [Addr -> Cell], NEW p \in Page, Fenced(f), Headed(f, p),
         NEW i \in Ids, NEW v, NEW at, Room(f, p, at, v), NEW n \in 0 .. 2
  PROVE  LET w == Header(at, i, v)
             e == Done(f, w, n)
         IN  /\ InPage(p, w) /\ Len(w.cells) = 2 /\ w.addr = at
             /\ Headed(e, p)
             /\ Offsets(e, p) = Offsets(f, p) /\ \A x \in Offsets(f, p) : SameItem(f, e, x)
             /\ n = 2 /\ Verified(e, w) => e[at] = Id(i) /\ e[at + 1] = Meta(v)
<1> DEFINE w == Header(at, i, v)  e == Done(f, w, n)
<1>1. /\ at \in Nat /\ Base(p) < at /\ at < End(p) - 3
      /\ v \in Files /\ \A o \in Offsets(f, p) : o + ItemLen(f, o) <= at
  BY DEF Room, MIN_FILE_LEN, ITEM_HEADER_SZ
<1>2. /\ w = [op |-> "write", addr |-> at, cells |-> <<Id(i), Meta(v)>>]
      /\ w.addr = at /\ w.cells = <<Id(i), Meta(v)>> /\ w.op = "write"
      /\ Len(w.cells) = 2 /\ w.cells[1] = Id(i) /\ w.cells[2] = Meta(v)
  BY DEF Header, Write
<1> HIDE DEF w
<1>3. InPage(p, w)
  <2>1. <<Id(i), Meta(v)>> \in Seq(Cell) BY <1>1, NewItemTyped
  <2>2. w \in Operation BY <1>1, <1>2, <2>1 DEF Operation
  <2>3. at + 2 <= End(p) BY <1>1, PageFacts
  <2> QED BY <1>1, <1>2, <2>2, <2>3 DEF InPage
<1>4. Headed(e, p)
  <2>1. \A k \in 1 .. 2 : k = 1 \/ k = 2 OBVIOUS
  <2>2. \A y : \A k \in 1 .. 2 : w.cells[k] # Erased /\ w.cells[k] # Data(y, 1)
    BY <1>2, <2>1 DEF Id, Meta, Erased, Data
  <2> QED BY <1>2, <1>3, <2>2, HeadedKept
<1>5. n \in 0 .. Len(w.cells) BY <1>2
<1>6. /\ e \in [Addr -> Cell] /\ Fenced(e)
      /\ \A a \in Addr : e[a] = IF a \in at .. at + n - 1
                                THEN Program(f[a], w.cells[a - at + 1]) ELSE f[a]
  <2>1. /\ e \in [Addr -> Cell] /\ Fenced(e)
        /\ \A a \in Addr : e[a] = IF a \in w.addr .. w.addr + n - 1
                                  THEN Program(f[a], w.cells[a - w.addr + 1]) ELSE f[a]
    BY <1>3, <1>5, WriteIn
  <2> HIDE DEF e
  <2> QED BY <1>2, <2>1
<1>7. at \in Addr /\ at + 1 \in Addr /\ at + 2 \in Addr
  <2>1. Base(p) <= at + 1 /\ at + 1 < End(p) /\ Base(p) <= at + 2 /\ at + 2 < End(p)
        /\ Base(p) <= at /\ at < End(p) /\ at + 1 \in Nat /\ at + 2 \in Nat
    BY <1>1, PageFacts
  <2> QED BY <1>1, <2>1, OnPage
<1>8. n # 0 => e[at] = Program(f[at], Id(i))
  <2>1. n # 0 => at \in at .. at + n - 1 /\ at - at + 1 = 1 BY <1>1
  <2> QED BY <1>2, <1>6, <1>7, <2>1
<1>9. n = 2 => e[at + 1] = Program(f[at + 1], Meta(v))
  <2>1. n = 2 => at + 1 \in at .. at + n - 1 /\ (at + 1) - at + 1 = 2 BY <1>1
  <2> QED BY <1>2, <1>6, <1>7, <2>1
<1>10. \A a \in Addr : (a = at => n = 0) /\ (a = at + 1 => n # 2) => e[a] = f[a]
  <2>1. ASSUME NEW a \in Addr, (a = at => n = 0) /\ (a = at + 1 => n # 2)
        PROVE ~(a \in at .. at + n - 1)
    BY <1>1, <2>1 DEF Addr
  <2> QED BY <1>6, <2>1
<1> HIDE DEF e
<1>11. ASSUME NEW x \in Offsets(f, p) PROVE x \in Offsets(e, p) /\ SameItem(f, e, x)
  <2> DEFINE l == ItemLen(f, x)
  <2>1. /\ x \in Nat /\ l \in Nat /\ x + l <= at /\ Base(p) < x /\ x + l <= End(p)
    <3>1. Holds(f, p, x, f[x + 1].file) /\ l = 2 + FileLen[f[x + 1].file]
      BY CellsOfItem
    <3> QED BY <1>1, <3>1 DEF Holds
  <2>2. ASSUME NEW a \in x .. x + l - 1 PROVE e[a] = f[a]
    <3> HIDE DEF l
    <3>1. a # at /\ a # at + 1 /\ a \in Nat /\ Base(p) <= a /\ a < End(p)
      BY <1>1, <2>1, PageFacts
    <3> QED BY <1>10, <3>1, OnPage
  <2> QED BY <1>6, <2>2, KeptItem DEF SameItem
<1>12. ASSUME NEW x \in Offsets(e, p) PROVE x \in Offsets(f, p)
  <2> DEFINE u == e[x + 1].file  l == FileLen[u]
  <2>1. Holds(e, p, x, u) /\ ItemLen(e, x) = 2 + l BY <1>6, CellsOfItem
  <2>2. /\ x \in Nat /\ Base(p) < x /\ u \in Files /\ l \in Nat /\ l >= 1 /\ x + 2 + l <= End(p)
        /\ e[x] = Id(e[x].id) /\ e[x + 1].is = "meta"
        /\ \A k \in 1 .. l : e[x + 1 + k] = Data(u, k)
    BY <2>1 DEF Holds
  <2> HIDE DEF l, u
  <2>3. ASSUME x = at PROVE e[at] = f[at] /\ e[at + 1] = f[at + 1]
    <3>1. e[at + 2] = Data(u, 1)
      <4>1. 1 \in 1 .. l /\ at + 1 + 1 = at + 2 BY <1>1, <2>2
      <4> QED BY <2>2, <2>3, <4>1
    <3>2. f[at + 2] = Data(u, 1)
      <4>1. at + 2 # at /\ at + 2 # at + 1 BY <1>1
      <4> QED BY <1>7, <1>10, <3>1, <4>1
    <3>3. f[at] # Erased /\ f[at + 1] # Erased
      <4>1. at \in Base(p) + 1 .. End(p) - 3 BY <1>1, PageFacts
      <4> QED BY <2>2, <3>2, <4>1 DEF Headed
    <3>4. n # 0 => f[at] = e[at]
      <4>1. ASSUME n # 0 PROVE e[at] = Id(i)
        <5>1. e[at] \in {Id(i), Zero, Mixed} BY <1>8, <4>1, Programs
        <5>2. e[at].is = "id" BY <2>2, <2>3 DEF Id
        <5> QED BY <5>1, <5>2 DEF Zero, Mixed
      <4>2. Id(i) \notin {Zero, Mixed} BY DEF Id, Zero, Mixed
      <4> QED BY <1>8, <3>3, <4>1, <4>2, Programs
    <3>5. n = 2 => f[at + 1] = e[at + 1]
      <4>1. ASSUME n = 2 PROVE e[at + 1] = Meta(v)
        <5>1. e[at + 1] \in {Meta(v), Zero, Mixed} BY <1>9, <4>1, Programs
        <5>2. e[at + 1].is = "meta" BY <2>2, <2>3
        <5> QED BY <5>1, <5>2 DEF Zero, Mixed
      <4>2. Meta(v) \notin {Zero, Mixed} BY DEF Meta, Zero, Mixed
      <4> QED BY <1>9, <3>3, <4>1, <4>2, Programs
    <3>6. n = 0 => e[at] = f[at] BY <1>1, <1>7, <1>10
    <3>7. n # 2 => e[at + 1] = f[at + 1] BY <1>1, <1>7, <1>10
    <3> QED BY <3>4, <3>5, <3>6, <3>7
  <2>4. ASSUME NEW a \in x .. x + (2 + l) - 1 PROVE f[a] = e[a]
    <3>1. a \in Nat /\ a \in Addr
      <4>1. a \in Nat /\ Base(p) <= a /\ a < End(p) BY <2>2, PageFacts
      <4> QED BY <4>1, OnPage
    <3>2. CASE a = x
      <4>1. e[a].is = "id" BY <2>2, <3>2 DEF Id
      <4>2. a # at + 1 \/ n # 2
        <5> SUFFICES ASSUME a = at + 1, n = 2 PROVE FALSE OBVIOUS
        <5>1. e[a] \in {Meta(v), Zero, Mixed} BY <1>9, Programs
        <5> QED BY <4>1, <5>1 DEF Meta, Zero, Mixed
      <4> QED BY <1>1, <1>10, <2>3, <3>1, <3>2, <4>2
    <3>3. CASE a = x + 1
      <4>1. e[a].is = "meta" BY <2>2, <3>3
      <4>2. a # at \/ n = 0
        <5> SUFFICES ASSUME a = at, n # 0 PROVE FALSE OBVIOUS
        <5>1. e[a] \in {Id(i), Zero, Mixed} BY <1>8, Programs
        <5> QED BY <4>1, <5>1 DEF Id, Zero, Mixed
      <4>3. a = at + 1 => x = at BY <1>1, <2>2, <3>3
      <4> QED BY <1>1, <1>10, <2>3, <3>1, <3>3, <4>2, <4>3
    <3>4. CASE a # x /\ a # x + 1
      <4>1. a - x - 1 \in 1 .. l /\ x + 1 + (a - x - 1) = a BY <2>2, <3>1, <3>4
      <4> DEFINE k == a - x - 1
      <4>5. e[x + 1 + k] = Data(u, k) BY <2>2, <4>1
      <4>6. x + 1 + k = a BY <4>1
      <4> HIDE DEF k
      <4>2. e[a].is = "data" BY <4>5, <4>6 DEF Data
      <4>3. a # at \/ n = 0
        <5> SUFFICES ASSUME a = at, n # 0 PROVE FALSE OBVIOUS
        <5>1. e[a] \in {Id(i), Zero, Mixed} BY <1>8, Programs
        <5> QED BY <4>2, <5>1 DEF Id, Zero, Mixed
      <4>4. a # at + 1 \/ n # 2
        <5> SUFFICES ASSUME a = at + 1, n = 2 PROVE FALSE OBVIOUS
        <5>1. e[a] \in {Meta(v), Zero, Mixed} BY <1>9, Programs
        <5> QED BY <4>2, <5>1 DEF Meta, Zero, Mixed
      <4> QED BY <1>10, <3>1, <4>3, <4>4
    <3> QED BY <3>2, <3>3, <3>4
  <2>5. \A a \in x .. x + ItemLen(e, x) - 1 : f[a] = e[a] BY <2>1, <2>4 DEF l
  <2> QED BY <1>6, <2>5, KeptItem
<1>13. ASSUME n = 2, Verified(e, w) PROVE e[at] = Id(i) /\ e[at + 1] = Meta(v)
  <2>1. \A k \in 1 .. 2 : e[at + k - 1] = w.cells[k] BY <1>2, <1>13 DEF Verified
  <2>2. at + 1 - 1 = at /\ at + 2 - 1 = at + 1 BY <1>1
  <2> QED BY <1>2, <2>1, <2>2
<1> QED BY <1>2, <1>3, <1>4, <1>11, <1>12, <1>13 DEF e, w

(* The file behind its header makes the item, once it is whole.            *)
LEMMA BodyStep ==
  ASSUME NEW f \in [Addr -> Cell], NEW p \in Page, Fenced(f), Headed(f, p),
         NEW i \in Ids, NEW v, NEW at, Room(f, p, at, v),
         f[at] = Id(i), f[at + 1] = Meta(v), NEW n \in 0 .. FileLen[v]
  PROVE  LET w == Body(at, v)
             e == Done(f, w, n)
         IN  /\ InPage(p, w) /\ Len(w.cells) = FileLen[v]
             /\ Headed(e, p)
             /\ \A x \in Offsets(f, p) : x \in Offsets(e, p) /\ SameItem(f, e, x)
             /\ \A x \in Offsets(e, p) : x \in Offsets(f, p) \/ x = at
             /\ e[at] = Id(i) /\ e[at + 1] = Meta(v)
             /\ n = FileLen[v] => (Verified(e, w) <=> at \in Offsets(e, p))
<1> DEFINE w == Body(at, v)  e == Done(f, w, n)  l == FileLen[v]  b == at + 2
<1>1. /\ at \in Nat /\ Base(p) < at /\ at < End(p) - 3 /\ at < End(p) - MIN_FILE_LEN
      /\ v \in Files /\ l \in Nat /\ l >= 1 /\ at + 2 + l <= End(p)
      /\ \A o \in Offsets(f, p) : o + ItemLen(f, o) <= at
  BY FilesAssumption DEF Room, MIN_FILE_LEN, ITEM_HEADER_SZ
<1> DEFINE cells == [k \in 1 .. l |-> Data(v, k)]
<1>2. cells \in Seq(Cell) /\ Len(cells) = l /\ \A k \in 1 .. l : cells[k] = Data(v, k)
  BY <1>1, NewItemTyped
<1>3. /\ w = [op |-> "write", addr |-> b, cells |-> cells]
      /\ w.addr = b /\ w.cells = cells /\ w.op = "write"
  BY DEF Body, Write, ITEM_HEADER_SZ
<1> HIDE DEF w, l, cells
<1>4. InPage(p, w) /\ Len(w.cells) = l
  <2>1. w \in Operation BY <1>1, <1>2, <1>3 DEF Operation
  <2>2. Base(p) < b /\ b + l <= End(p) BY <1>1, PageFacts
  <2> HIDE DEF b
  <2> QED BY <1>2, <1>3, <2>1, <2>2 DEF InPage
<1>5. Headed(e, p)
  <2>1. \A k \in 1 .. l : w.cells[k] = Data(v, k) BY <1>2, <1>3
  <2>2. b - 1 = at + 1 /\ b - 2 = at BY <1>1
  <2>3. f[w.addr - 1] # Erased /\ f[w.addr - 2] # Erased
    BY <1>3, <2>2 DEF Id, Meta, Erased
  <2>4. ASSUME NEW k \in 1 .. l
        PROVE  w.cells[k] # Erased /\ \A y : w.cells[k] = Data(y, 1) => k = 1
    <3> DEFINE c == w.cells[k]
    <3>3. c = Data(v, k) BY <2>1, <2>4
    <3> HIDE DEF c
    <3>1. c.is = "data" /\ c.at = k BY <3>3 DEF Data
    <3>2. \A y : Data(y, 1).at = 1 BY DEF Data
    <3>4. c # Erased /\ \A y : c = Data(y, 1) => k = 1 BY <3>1, <3>2 DEF Erased
    <3> QED BY <3>4 DEF c
  <2> HIDE DEF b
  <2> QED BY <1>4, <2>3, <2>4, HeadedKept DEF l
<1>6. /\ e \in [Addr -> Cell] /\ Fenced(e)
      /\ \A a \in Addr : e[a] = IF a \in b .. b + n - 1
                                THEN Program(f[a], cells[a - b + 1]) ELSE f[a]
  <2>1. n \in 0 .. Len(w.cells) BY <1>4 DEF l
  <2>2. /\ e \in [Addr -> Cell] /\ Fenced(e)
        /\ \A a \in Addr : e[a] = IF a \in w.addr .. w.addr + n - 1
                                  THEN Program(f[a], w.cells[a - w.addr + 1]) ELSE f[a]
    BY <1>4, <2>1, WriteIn
  <2> HIDE DEF e, b
  <2> QED BY <1>3, <2>2
<1>7. n \in Nat /\ n <= l BY <1>1 DEF l
<1>8. InRegion(w) BY <1>4, WriteIn, <1>7, <1>1
<1> HIDE DEF e
<1>9. \A a \in Addr : ~(a \in b .. b + n - 1) => e[a] = f[a] BY <1>6
<1>10. ASSUME NEW a \in Addr, a \in b .. b + n - 1
       PROVE  e[a] \in {Data(v, a - b + 1), Zero, Mixed}
  <2>1. a - b + 1 \in 1 .. l /\ a \in b .. b + n - 1
    <3>1. b \in Nat /\ l \in Nat BY <1>1
    <3> HIDE DEF b
    <3> QED BY <1>7, <1>10, <3>1
  <2>2. cells[a - b + 1] = Data(v, a - b + 1) BY <1>2, <2>1
  <2> HIDE DEF b
  <2> QED BY <1>6, <1>10, <2>2, Programs
<1>11. ASSUME NEW x \in Offsets(f, p) PROVE x \in Offsets(e, p) /\ SameItem(f, e, x)
  <2> DEFINE m == ItemLen(f, x)
  <2>1. x \in Nat /\ m \in Nat /\ x + m <= at /\ Base(p) < x
    <3>1. Holds(f, p, x, f[x + 1].file) /\ m = 2 + FileLen[f[x + 1].file]
      BY CellsOfItem
    <3> QED BY <1>1, <3>1 DEF Holds
  <2>2. ASSUME NEW a \in x .. x + m - 1 PROVE e[a] = f[a]
    <3> HIDE DEF m
    <3>1. ~(a \in b .. b + n - 1) /\ a \in Nat /\ Base(p) <= a /\ a < End(p)
      BY <1>1, <1>7, <2>1, PageFacts
    <3> QED BY <1>9, <3>1, OnPage
  <2> QED BY <1>6, <2>2, KeptItem DEF SameItem
<1>12. ASSUME NEW x \in Offsets(e, p), x # at PROVE x \in Offsets(f, p)
  <2> DEFINE u == e[x + 1].file  m == FileLen[u]
  <2>1. Holds(e, p, x, u) /\ ItemLen(e, x) = 2 + m BY <1>6, CellsOfItem
  <2>2. /\ x \in Nat /\ Base(p) < x /\ u \in Files /\ m \in Nat /\ m >= 1 /\ x + 2 + m <= End(p)
        /\ e[x].is = "id" /\ e[x + 1].is = "meta"
        /\ \A k \in 1 .. m : e[x + 1 + k] = Data(u, k)
    BY <2>1 DEF Holds, Id
  <2> HIDE DEF m, u
  <2>5. x \in Nat /\ Base(p) < x /\ m \in Nat /\ x + 2 + m <= End(p) BY <2>2
  <2>3. ASSUME NEW a \in x .. x + (2 + m) - 1 PROVE f[a] = e[a]
    <3>1. a \in Nat /\ a \in Addr
      <4>1. a \in Nat /\ Base(p) <= a /\ a < End(p)
        <5> HIDE DEF b
        <5> QED BY <2>5, PageFacts
      <4> QED BY <4>1, OnPage
    <3> SUFFICES ASSUME a \in b .. b + n - 1 PROVE FALSE BY <1>9, <3>1
    <3>2. e[a] \in {Data(v, a - b + 1), Zero, Mixed} BY <1>10, <3>1
    <3> HIDE DEF b
    <3>3. a # x /\ a # x + 1 BY <2>2, <3>2 DEF Data, Zero, Mixed
    <3> DEFINE k == a - x - 1
    <3>4. k \in 1 .. m /\ x + 1 + k = a BY <2>2, <3>1, <3>3
    <3>5. e[x + 1 + k] = Data(u, k) BY <2>2, <3>4
    <3> HIDE DEF k
    <3>6. e[a] = Data(u, k) BY <3>4, <3>5
    <3>7. k = a - b + 1 BY <3>2, <3>6 DEF Data, Zero, Mixed
    <3>8. b = at + 2 BY DEF b
    <3> QED BY <1>1, <1>12, <2>2, <3>1, <3>4, <3>7, <3>8
  <2>4. \A a \in x .. x + ItemLen(e, x) - 1 : f[a] = e[a] BY <2>1, <2>3 DEF m
  <2> QED BY <1>6, <2>4, KeptItem
<1>13. e[at] = Id(i) /\ e[at + 1] = Meta(v)
  <2>1. at \in Nat /\ Base(p) <= at /\ at < End(p) /\ at + 1 \in Nat /\ Base(p) <= at + 1
        /\ at + 1 < End(p) /\ ~(at \in b .. b + n - 1) /\ ~(at + 1 \in b .. b + n - 1)
    BY <1>1, <1>7, PageFacts
  <2>2. at \in Addr /\ at + 1 \in Addr BY <2>1, OnPage
  <2> QED BY <1>9, <2>1, <2>2
<1>14. ASSUME n = l PROVE Verified(e, w) <=> at \in Offsets(e, p)
  <2>1. Verified(e, w) <=> \A k \in 1 .. l : e[b + k - 1] = Data(v, k)
    <3>1. Verified(e, w) <=> \A k \in 1 .. l : e[b + k - 1] = cells[k]
      BY <1>3, <1>4, <1>8 DEF Verified
    <3> QED BY <1>2, <3>1
  <2>2. \A k \in 1 .. l : b + k - 1 = at + 1 + k BY <1>1
  <2>3. Verified(e, w) <=> \A k \in 1 .. l : e[at + 1 + k] = Data(v, k) BY <2>1, <2>2
  <2>4. Id(i).id = i /\ Meta(v).is = "meta" /\ Meta(v).file = v BY DEF Id, Meta
  <2>5. ASSUME \A k \in 1 .. l : e[at + 1 + k] = Data(v, k) PROVE at \in Offsets(e, p)
    <3>1. Holds(e, p, at, v) BY <1>1, <1>13, <2>4, <2>5 DEF Holds, l
    <3> QED BY <1>6, <3>1, ItemOfCells
  <2>6. ASSUME at \in Offsets(e, p) PROVE \A k \in 1 .. l : e[at + 1 + k] = Data(v, k)
    <3>1. Holds(e, p, at, e[at + 1].file) BY <1>6, <2>6, CellsOfItem
    <3>2. e[at + 1].file = v BY <1>13, <2>4
    <3> QED BY <3>1, <3>2 DEF Holds, l
  <2> QED BY <2>3, <2>5, <2>6
<1> QED BY <1>4, <1>5, <1>11, <1>12, <1>13, <1>14 DEF e, w, l

-----------------------------------------------------------------------------
(* Zeroing duplicates, one after another.                                  *)
AllZaps(f, p, i, d) ==
  /\ d \in Seq(Operation)
  /\ \A k \in 1 .. Len(d) : Zaps(f, p, i, d[k])
  /\ \A k, j \in 1 .. Len(d) : k # j => d[k].addr # d[j].addr

(* Zeroing an older item removes that item and no other; the newest is not *)
(* the one removed.                                                        *)
LEMMA ZapRemoves ==
  ASSUME NEW f \in [Addr -> Cell], NEW p \in Page, Fenced(f), NEW i, NEW w, Zaps(f, p, i, w),
         NEW n \in 0 .. Len(w.cells)
  PROVE  LET e == Done(f, w, n)
         IN  /\ e \in [Addr -> Cell] /\ Fenced(e)
             /\ mm_get_active_page(e) = mm_get_active_page(f)
             /\ Headed(f, p) => Headed(e, p)
             /\ n = Len(w.cells) => /\ Offsets(e, p) = Offsets(f, p) \ {w.addr}
                                    /\ \A x \in Offsets(e, p) : SameItem(f, e, x)
             /\ \A o : Newest(f, p, i, o) => o # w.addr
<1>a. PICK o \in Named(f, p, i), x \in Named(f, p, i) :
        o < x /\ \E m \in 1 .. ItemLen(f, o) : w = Write(o, Zeros(m))
  BY DEF Zaps
<1>1. PICK m \in 1 .. ItemLen(f, o) : o < x /\ w = Write(o, Zeros(m)) BY <1>a
<1>2. o \in Offsets(f, p) /\ x \in Offsets(f, p) BY DEF Named
<1>3. o \in Nat /\ x \in Nat BY <1>2, OffsetFacts
<1>4. Len(w.cells) = m /\ w.addr = o BY <1>1, <1>2, ZerosInPage DEF Write
<1>5. n \in 0 .. m /\ (n = m => n \in 1 .. m) BY <1>4
<1>6. \A y : Newest(f, p, i, y) => y # o
  <2>1. \A y : Newest(f, p, i, y) => x <= y BY DEF Newest
  <2> QED BY <1>1, <1>3, <2>1
<1> QED BY <1>1, <1>2, <1>4, <1>5, <1>6, ZeroedCells, OneGone

(* After the first of some older items is zeroed, the rest are older items *)
(* still.                                                                  *)
LEMMA ZapsStep ==
  ASSUME NEW f \in [Addr -> Cell], NEW p \in Page, Fenced(f), NEW i, NEW d,
         AllZaps(f, p, i, d), d # << >>
  PROVE  LET w == Head(d)
             e == Done(f, w, Len(w.cells))
         IN  Zaps(f, p, i, w) /\ AllZaps(e, p, i, Tail(d))
<1> DEFINE w == Head(d)  e == Done(f, w, Len(w.cells))  r == Tail(d)
<1>1. /\ d \in Seq(Operation)
      /\ \A k \in 1 .. Len(d) : Zaps(f, p, i, d[k])
      /\ \A k, j \in 1 .. Len(d) : k # j => d[k].addr # d[j].addr
  BY DEF AllZaps
<1>2. /\ Len(d) \in Nat /\ Len(d) >= 1 /\ w = d[1] /\ w \in Operation
      /\ r \in Seq(Operation) /\ Len(r) = Len(d) - 1
      /\ \A k \in 1 .. Len(d) - 1 : r[k] = d[k + 1]
  BY <1>1, HeadTail
<1>3. Len(w.cells) \in 0 .. Len(w.cells) BY <1>2, WholeOperation
<1> HIDE DEF w, r
<1>4. 1 \in 1 .. Len(d) BY <1>2
<1>5. Zaps(f, p, i, w) BY <1>1, <1>2, <1>4
<1>6. \A u : Zaps(f, p, i, u) /\ u.addr # w.addr => Zaps(e, p, i, u) BY <1>3, <1>5, ZapKeeps
<1> HIDE DEF e
<1> DEFINE n == Len(d)
<1>7. n \in Nat /\ n >= 1 /\ Len(r) = n - 1 BY <1>2
<1> HIDE DEF n
<1>8. ASSUME NEW k \in 1 .. n - 1 PROVE k + 1 \in 1 .. n /\ k + 1 # 1 /\ k \in Int BY <1>7
<1>9. \A k \in 1 .. n - 1 : Zaps(e, p, i, r[k])
  BY <1>1, <1>2, <1>4, <1>6, <1>8 DEF n
<1>10. \A k, j \in 1 .. n - 1 : k # j => r[k].addr # r[j].addr
  <2> SUFFICES ASSUME NEW k \in 1 .. n - 1, NEW j \in 1 .. n - 1, k # j
               PROVE  r[k].addr # r[j].addr
    OBVIOUS
  <2>1. k + 1 \in 1 .. n /\ j + 1 \in 1 .. n /\ k + 1 # j + 1 BY <1>8
  <2>2. d[k + 1].addr # d[j + 1].addr BY <1>1, <2>1 DEF n
  <2> QED BY <1>2, <2>2 DEF n
<1>11. AllZaps(e, p, i, r) BY <1>2, <1>7, <1>9, <1>10 DEF AllZaps
<1> QED BY <1>5, <1>11 DEF w, e, r

(* The first of two lists of operations joined is the first of the first   *)
(* list.                                                                   *)
LEMMA HeadJoined ==
  ASSUME NEW s \in Seq(Operation), NEW t \in Seq(Operation), s # << >>
  PROVE  Head(s \o t) = Head(s) /\ Tail(s \o t) = Tail(s) \o t
OBVIOUS

(* Nothing joined with a list is the list.                                 *)
LEMMA NoneJoined == ASSUME NEW t \in Seq(Operation) PROVE << >> \o t = t
OBVIOUS

(* The room for a new item stays free while items only disappear.          *)
LEMMA RoomKept ==
  ASSUME NEW f, NEW e, NEW p, NEW at, NEW v, Room(f, p, at, v),
         Offsets(e, p) \subseteq Offsets(f, p),
         \A x \in Offsets(e, p) : SameItem(f, e, x)
  PROVE  Room(e, p, at, v)
<1>1. \A o \in Offsets(e, p) : o + ItemLen(e, o) <= at BY DEF Room, SameItem
<1> QED BY <1>1 DEF Room

(* The newest item of an identifier stays the newest while others          *)
(* disappear.                                                              *)
LEMMA NewestKept ==
  ASSUME NEW f, NEW e, NEW p, NEW i, NEW o, Newest(f, p, i, o), o \in Offsets(e, p),
         Offsets(e, p) \subseteq Offsets(f, p),
         \A x \in Offsets(e, p) : SameItem(f, e, x)
  PROVE  Newest(e, p, i, o)
BY DEF Newest, Named, SameItem

-----------------------------------------------------------------------------
(* What is left of an update of c.id from c.old to c.new on page p: the    *)
(* file shown changes when the body of the new item is whole, or when the  *)
(* last item is zeroed.                                                    *)
Olds(f, p, i, s) ==
  \/ Named(f, p, i) = {} /\ s = << >>
  \/ \E o : Newest(f, p, i, o) /\ s = <<Write(o, Zeros(ITEM_HEADER_SZ))>>

(* What an update has left: the new file is shown, and old items are       *)
(* zeroed.                                                                 *)
Updated(f, p, c, t) == AllZaps(f, p, c.id, t) /\ Shows(f, p, c.id, c.new)

(* What a set has left before its header: duplicates to be zeroed, header, *)
(* file, and the old items.                                                *)
Adding(f, p, c, t) ==
  \E d, s, at :
    /\ AllZaps(f, p, c.id, d) /\ Olds(f, p, c.id, s) /\ Room(f, p, at, c.new)
    /\ t = d \o (<<Header(at, c.id, c.new), Body(at, c.new)>> \o s)

(* What a set has left with its header written: the file and the old       *)
(* items.                                                                  *)
Filling(f, p, c, t) ==
  \E s, at :
    /\ Olds(f, p, c.id, s) /\ Room(f, p, at, c.new)
    /\ f[at] = Id(c.id) /\ f[at + 1] = Meta(c.new)
    /\ t = <<Body(at, c.new)>> \o s

(* What an invalidation has left: duplicates to be zeroed, and the item in *)
(* force.                                                                  *)
Dropping(f, p, c, t) ==
  /\ c.new = NoFile
  /\ \E d, o :
       /\ AllZaps(f, p, c.id, d) /\ Newest(f, p, c.id, o)
       /\ \A y \in Named(f, p, c.id) : y = o \/ \E k \in 1 .. Len(d) : d[k].addr = y
       /\ t = d \o <<Write(o, Zeros(ItemLen(f, o)))>>

(* What an update has left, at any moment between its call and its return. *)
Updating(f, p, c, t) ==
  \/ Updated(f, p, c, t)
  \/ Shows(f, p, c.id, c.old) /\ (Adding(f, p, c, t) \/ Filling(f, p, c, t) \/ Dropping(f, p, c, t))

(* What a step of it, whole or cut short, does to the page.                *)
Safe(f, e, p, w) ==
  /\ InPage(p, w) /\ e \in [Addr -> Cell] /\ Fenced(e) /\ Headed(e, p)
  /\ mm_get_active_page(e) = mm_get_active_page(f)

(* A step shows every other identifier the same, and this one the same or  *)
(* the new file in place of the old.                                       *)
Shown(f, e, p, c) ==
  /\ \A j : j # c.id => Keeps(f, e, p, j)
  /\ \/ Keeps(f, e, p, c.id)
     \/ Shows(f, p, c.id, c.old) /\ Shows(e, p, c.id, c.new)

(* A page with the same items shows the same files, has the same older     *)
(* items and the same room.                                                *)
LEMMA SameShown ==
  ASSUME NEW f, NEW e, NEW p, Offsets(e, p) = Offsets(f, p),
         \A x \in Offsets(f, p) : SameItem(f, e, x)
  PROVE  /\ \A j : Keeps(f, e, p, j)
         /\ \A j, s : Olds(f, p, j, s) => Olds(e, p, j, s)
         /\ \A at, v : Room(f, p, at, v) => Room(e, p, at, v)
<1>1. ASSUME NEW j PROVE Named(e, p, j) = Named(f, p, j) BY DEF Named, SameItem
<1>2. ASSUME NEW j, NEW o, Newest(f, p, j, o) PROVE Newest(e, p, j, o) /\ e[o + 1] = f[o + 1]
  BY <1>1, <1>2 DEF Newest, Named, SameItem
<1>3. ASSUME NEW j PROVE Keeps(f, e, p, j)
  <2>1. \A o : Newest(f, p, j, o) => o \in Named(e, p, j) /\ e[o + 1] = f[o + 1]
    BY <1>2 DEF Newest
  <2> QED BY <1>1, <2>1, KeepsNewest
<1>4. \A j, s : Olds(f, p, j, s) => Olds(e, p, j, s) BY <1>1, <1>2 DEF Olds
<1> QED BY <1>3, <1>4, RoomKept

(* The zeroing of all items of an identifier is a list of operations that  *)
(* zero older items, once a newer item is there.                           *)
LEMMA OldsTyped ==
  ASSUME NEW f \in [Addr -> Cell], NEW p \in Page, Fenced(f), NEW i, NEW s, Olds(f, p, i, s)
  PROVE  /\ s \in Seq(Operation)
         /\ \A e \in [Addr -> Cell] :
              (/\ Fenced(e) /\ \E x \in Named(e, p, i) : \A o \in Named(f, p, i) : o < x
               /\ \A o \in Named(f, p, i) : o \in Named(e, p, i))
              => AllZaps(e, p, i, s)
<1>1. CASE s = << >> BY <1>1 DEF AllZaps
<1>2. ASSUME NEW o, Newest(f, p, i, o), s = <<Write(o, Zeros(ITEM_HEADER_SZ))>>
      PROVE  /\ s \in Seq(Operation)
             /\ \A e \in [Addr -> Cell] :
                  (/\ Fenced(e) /\ \E x \in Named(e, p, i) : \A y \in Named(f, p, i) : y < x
                   /\ \A y \in Named(f, p, i) : y \in Named(e, p, i))
                  => AllZaps(e, p, i, s)
  <2> DEFINE w == Write(o, Zeros(ITEM_HEADER_SZ))
  <2>1. ASSUME NEW e \in [Addr -> Cell], Fenced(e), o \in Named(e, p, i)
        PROVE  /\ ITEM_HEADER_SZ \in 1 .. ItemLen(e, o) /\ w \in Operation
    <3>1. o \in Offsets(e, p) BY <2>1 DEF Named
    <3>2. ItemLen(e, o) \in Nat /\ ItemLen(e, o) >= 3
      BY <3>1, OffsetFacts, ItemFacts DEF MIN_FILE_LEN, ITEM_HEADER_SZ
    <3>3. ITEM_HEADER_SZ \in 1 .. ItemLen(e, o) BY <3>2 DEF ITEM_HEADER_SZ
    <3> QED BY <2>1, <3>1, <3>3, ZerosInPage DEF InPage
  <2>2. o \in Named(f, p, i) BY <1>2 DEF Newest
  <2>3. w \in Operation BY <2>1, <2>2
  <2>4. ASSUME NEW e \in [Addr -> Cell], Fenced(e),
               \E x \in Named(e, p, i) : \A y \in Named(f, p, i) : y < x,
               \A y \in Named(f, p, i) : y \in Named(e, p, i)
        PROVE  AllZaps(e, p, i, s)
    <3>1. o \in Named(e, p, i) /\ \E x \in Named(e, p, i) : o < x BY <2>2, <2>4
    <3>2. ITEM_HEADER_SZ \in 1 .. ItemLen(e, o) BY <2>1, <2>4, <3>1
    <3>3. Zaps(e, p, i, w) BY <3>1, <3>2 DEF Zaps
    <3> HIDE DEF w
    <3>4. s = <<w>> BY <1>2 DEF w
    <3>5. <<w>> \in Seq(Operation) /\ Len(<<w>>) = 1 /\ <<w>>[1] = w BY <2>3
    <3> QED BY <3>3, <3>4, <3>5 DEF AllZaps
  <2> HIDE DEF w
  <2>5. <<w>> \in Seq(Operation) BY <2>3
  <2> QED BY <1>2, <2>4, <2>5 DEF w
<1> QED BY <1>1, <1>2 DEF Olds

(* A set whose new item is in force zeroes the old ones: no step changes a *)
(* file shown.                                                             *)
LEMMA UpdatedStep ==
  ASSUME NEW f \in [Addr -> Cell], NEW p \in Page, Fenced(f), Headed(f, p), NEW c, NEW t,
         Updated(f, p, c, t), t # << >>, NEW n \in 0 .. Len(Head(t).cells)
  PROVE  LET w == Head(t)
             e == Done(f, w, n)
         IN  /\ Safe(f, e, p, w) /\ Shown(f, e, p, c)
             /\ n = Len(w.cells) => Verified(e, w) /\ Updated(e, p, c, Tail(t))
<1> DEFINE w == Head(t)  e == Done(f, w, n)
<1>1. AllZaps(f, p, c.id, t) /\ Shows(f, p, c.id, c.new) BY DEF Updated
<1>2. Zaps(f, p, c.id, w) /\ AllZaps(Done(f, w, Len(w.cells)), p, c.id, Tail(t))
  BY <1>1, ZapsStep
<1>3. /\ InPage(p, w) /\ \A j : Keeps(f, e, p, j)
      /\ n = Len(w.cells) => Verified(e, w)
  BY <1>2, ZapKeeps
<1>4. /\ e \in [Addr -> Cell] /\ Fenced(e)
      /\ mm_get_active_page(e) = mm_get_active_page(f) /\ Headed(e, p)
  BY <1>2, ZapRemoves
<1>5. Safe(f, e, p, w) BY <1>3, <1>4 DEF Safe
<1> HIDE DEF e
<1>6. Shown(f, e, p, c) BY <1>3, Zenon DEF Shown
<1>7. n = Len(w.cells) => Updated(e, p, c, Tail(t)) BY <1>1, <1>2, <1>3 DEF Updated, Keeps, e
<1> QED BY <1>3, <1>5, <1>6, <1>7 DEF e

(* A set that has not yet written its header: no step, cut short or not,   *)
(* changes a file shown, and the header written it is ready for the file.  *)
LEMMA AddingStep ==
  ASSUME NEW f \in [Addr -> Cell], NEW p \in Page, Fenced(f), Headed(f, p),
         NEW c, c.id \in Ids, NEW t, Shows(f, p, c.id, c.old),
         Adding(f, p, c, t), t # << >>, NEW n \in 0 .. Len(Head(t).cells)
  PROVE  LET w == Head(t)
             e == Done(f, w, n)
         IN  /\ Safe(f, e, p, w) /\ Shown(f, e, p, c) /\ Shows(e, p, c.id, c.old)
             /\ n = Len(w.cells) /\ Verified(e, w) =>
                  Adding(e, p, c, Tail(t)) \/ Filling(e, p, c, Tail(t))
<1> DEFINE w == Head(t)  e == Done(f, w, n)  i == c.id  v == c.new
<1>a. PICK d : \E s, at :
        /\ AllZaps(f, p, i, d) /\ Olds(f, p, i, s) /\ Room(f, p, at, v)
        /\ t = d \o (<<Header(at, i, v), Body(at, v)>> \o s)
  BY DEF Adding
<1>b. PICK s, at :
        /\ AllZaps(f, p, i, d) /\ Olds(f, p, i, s) /\ Room(f, p, at, v)
        /\ t = d \o (<<Header(at, i, v), Body(at, v)>> \o s)
  BY <1>a
<1> DEFINE h == Header(at, i, v)  b == Body(at, v)  r == <<h, b>> \o s
<1>1. s \in Seq(Operation) /\ h \in Operation /\ b \in Operation /\ Len(h.cells) = 2
  <2>1. s \in Seq(Operation) BY <1>b, OldsTyped
  <2>2. InPage(p, h) /\ Len(h.cells) = 2
    <3>1. 0 \in 0 .. 2 OBVIOUS
    <3> QED BY <1>b, <3>1, HeaderStep
  <2>3. b \in Operation
    <3>1. v \in Files /\ at \in Nat BY <1>b DEF Room
    <3>2. at + ITEM_HEADER_SZ \in Nat BY <3>1 DEF ITEM_HEADER_SZ
    <3> QED BY <3>1, <3>2, NewItemTyped DEF Body, Write, Operation
  <2> QED BY <2>1, <2>2, <2>3 DEF InPage
<1>2. AllZaps(f, p, i, d) /\ d \in Seq(Operation) BY <1>b DEF AllZaps
<1> HIDE DEF h, b
<1>3. r \in Seq(Operation) /\ Head(r) = h /\ Tail(r) = <<b>> \o s BY <1>1
<1>4. t = d \o r BY <1>b DEF h, b
<1> HIDE DEF r
<1>5. CASE d = << >>
  <2>1. t = r /\ w = h /\ Tail(t) = <<b>> \o s BY <1>3, <1>4, <1>5, NoneJoined
  <2>2. n \in 0 .. 2 BY <1>1, <2>1
  <2> HIDE DEF w
  <2>3. /\ InPage(p, h) /\ Headed(Done(f, h, n), p)
        /\ Offsets(Done(f, h, n), p) = Offsets(f, p)
        /\ \A x \in Offsets(f, p) : SameItem(f, Done(f, h, n), x)
        /\ n = 2 /\ Verified(Done(f, h, n), h) =>
             Done(f, h, n)[at] = Id(i) /\ Done(f, h, n)[at + 1] = Meta(v)
    BY <1>b, <2>2, HeaderStep DEF h
  <2>4. n \in 0 .. Len(h.cells) BY <1>1, <2>2
  <2>5. /\ Done(f, h, n) \in [Addr -> Cell] /\ Fenced(Done(f, h, n))
        /\ mm_get_active_page(Done(f, h, n)) = mm_get_active_page(f)
    BY <2>3, <2>4, WriteIn
  <2>6. e = Done(f, h, n) BY <2>1
  <2> HIDE DEF e
  <2>7. Safe(f, e, p, w) BY <2>1, <2>3, <2>5, <2>6 DEF Safe
  <2>8. (\A j : Keeps(f, e, p, j)) /\ Olds(e, p, i, s) /\ Room(e, p, at, v)
    BY <1>b, <2>3, <2>6, SameShown
  <2>9. Shown(f, e, p, c) /\ Shows(e, p, i, c.old)
    <3>1. Keeps(f, e, p, i) BY <2>8
    <3> QED BY <2>8, <3>1, Zenon DEF Shown, Keeps
  <2>10. n = Len(w.cells) /\ Verified(e, w) => Filling(e, p, c, Tail(t))
    BY <1>1, <2>1, <2>3, <2>6, <2>8 DEF Filling, b
  <2> QED BY <2>7, <2>9, <2>10 DEF e, w
<1>6. CASE d # << >>
  <2>1. w = Head(d) /\ Tail(t) = Tail(d) \o r BY <1>2, <1>3, <1>4, <1>6, HeadJoined
  <2> HIDE DEF w
  <2>2. n \in 0 .. Len(w.cells) BY DEF w
  <2>3. Zaps(f, p, i, w) /\ AllZaps(Done(f, w, Len(w.cells)), p, i, Tail(d))
    BY <1>2, <1>6, <2>1, ZapsStep
  <2>4. InPage(p, w) /\ \A j : Keeps(f, e, p, j) BY <2>2, <2>3, ZapKeeps
  <2>5. /\ e \in [Addr -> Cell] /\ Fenced(e)
        /\ mm_get_active_page(e) = mm_get_active_page(f) /\ Headed(e, p)
        /\ n = Len(w.cells) => /\ Offsets(e, p) = Offsets(f, p) \ {w.addr}
                               /\ \A x \in Offsets(e, p) : SameItem(f, e, x)
        /\ \A o : Newest(f, p, i, o) => o # w.addr
    BY <2>2, <2>3, ZapRemoves
  <2>6. n = Len(w.cells) => AllZaps(e, p, i, Tail(d)) BY <2>3
  <2> HIDE DEF e
  <2>7. Safe(f, e, p, w) BY <2>4, <2>5 DEF Safe
  <2>8. Shown(f, e, p, c) /\ Shows(e, p, i, c.old)
    <3>1. Keeps(f, e, p, i) BY <2>4
    <3> QED BY <2>4, <3>1, Zenon DEF Shown, Keeps
  <2>9. ASSUME n = Len(w.cells) PROVE Adding(e, p, c, Tail(t))
    <3>1. Offsets(e, p) \subseteq Offsets(f, p) /\ \A x \in Offsets(e, p) : SameItem(f, e, x)
      BY <2>5, <2>9
    <3>2. Room(e, p, at, v) BY <1>b, <3>1, RoomKept
    <3>3. Olds(e, p, i, s)
      <4>1. CASE Named(f, p, i) = {} /\ s = << >>
        BY <3>1, <4>1 DEF Olds, Named, SameItem
      <4>2. ASSUME NEW o, Newest(f, p, i, o), s = <<Write(o, Zeros(ITEM_HEADER_SZ))>>
            PROVE  Olds(e, p, i, s)
        <5>1. o \in Offsets(e, p) BY <2>5, <2>9, <4>2 DEF Newest, Named
        <5>2. Newest(e, p, i, o) BY <3>1, <4>2, <5>1, NewestKept
        <5> QED BY <4>2, <5>2 DEF Olds
      <4> QED BY <1>b, <4>1, <4>2 DEF Olds
    <3> QED BY <2>1, <2>6, <2>9, <3>2, <3>3 DEF Adding, r, h, b
  <2> QED BY <2>7, <2>8, <2>9 DEF e, w
<1> QED BY <1>5, <1>6

(* The write of the file is the moment a set takes effect: cut short, the  *)
(* old file is shown or the new one, whole and verified, the new one;      *)
(* failed, the old one.                                                    *)
LEMMA FillingStep ==
  ASSUME NEW f \in [Addr -> Cell], NEW p \in Page, Fenced(f), Headed(f, p),
         NEW c, c.id \in Ids, NEW t, Shows(f, p, c.id, c.old),
         Filling(f, p, c, t), NEW n \in 0 .. Len(Head(t).cells)
  PROVE  LET w == Head(t)
             e == Done(f, w, n)
         IN  /\ Safe(f, e, p, w) /\ Shown(f, e, p, c)
             /\ n = Len(w.cells) => IF Verified(e, w) THEN Updated(e, p, c, Tail(t))
                                    ELSE Shows(e, p, c.id, c.old)
<1> DEFINE w == Head(t)  e == Done(f, w, n)  i == c.id  v == c.new
<1>b. PICK s, at :
        /\ Olds(f, p, i, s) /\ Room(f, p, at, v) /\ f[at] = Id(i) /\ f[at + 1] = Meta(v)
        /\ t = <<Body(at, v)>> \o s
  BY DEF Filling
<1> DEFINE b == Body(at, v)
<1>1. s \in Seq(Operation) BY <1>b, OldsTyped
<1>2. b \in Operation /\ v \in Files /\ at \in Nat
  <2>1. v \in Files /\ at \in Nat BY <1>b DEF Room
  <2>2. at + ITEM_HEADER_SZ \in Nat BY <2>1 DEF ITEM_HEADER_SZ
  <2> QED BY <2>1, <2>2, NewItemTyped DEF Body, Write, Operation
<1> HIDE DEF b
<1>3. w = b /\ Tail(t) = s BY <1>1, <1>2, <1>b DEF b
<1>4. Len(b.cells) = FileLen[v] /\ FileLen[v] \in Nat
  <2>1. FileLen[v] \in Nat BY <1>2, FilesAssumption
  <2>2. b.cells = [k \in 1 .. FileLen[v] |-> Data(v, k)] BY DEF b, Body, Write
  <2> QED BY <2>1, <2>2
<1>5. n \in 0 .. FileLen[v] BY <1>3, <1>4
<1>6. e = Done(f, b, n) BY <1>3
<1> HIDE DEF e, w
<1>7. /\ InPage(p, b) /\ Headed(e, p)
      /\ \A x \in Offsets(f, p) : x \in Offsets(e, p) /\ SameItem(f, e, x)
      /\ \A x \in Offsets(e, p) : x \in Offsets(f, p) \/ x = at
      /\ e[at] = Id(i) /\ e[at + 1] = Meta(v)
      /\ n = FileLen[v] => (Verified(e, b) <=> at \in Offsets(e, p))
  BY <1>b, <1>5, <1>6, BodyStep DEF b
<1>8. /\ e \in [Addr -> Cell] /\ Fenced(e)
      /\ mm_get_active_page(e) = mm_get_active_page(f)
  BY <1>4, <1>5, <1>6, <1>7, WriteIn
<1>9. Safe(f, e, p, w) BY <1>3, <1>7, <1>8 DEF Safe
<1>10. ASSUME at \notin Offsets(e, p) PROVE Shown(f, e, p, c) /\ Shows(e, p, i, c.old)
  <2>1. Offsets(e, p) = Offsets(f, p) BY <1>7, <1>10
  <2>2. \A j : Keeps(f, e, p, j) BY <1>7, <2>1, SameShown
  <2>3. Keeps(f, e, p, i) BY <2>2
  <2> QED BY <2>2, <2>3, Zenon DEF Shown, Keeps
<1>11. ASSUME at \in Offsets(e, p) PROVE Shown(f, e, p, c) /\ Updated(e, p, c, s)
  <2>1. \A o \in Offsets(f, p) : o < at
    <3> SUFFICES ASSUME NEW o \in Offsets(f, p) PROVE o < at OBVIOUS
    <3>1. o + ItemLen(f, o) <= at BY <1>b DEF Room
    <3>2. o \in Nat /\ ItemLen(f, o) \in Nat /\ ItemLen(f, o) >= 3
      BY OffsetFacts, ItemFacts DEF MIN_FILE_LEN, ITEM_HEADER_SZ
    <3> QED BY <1>2, <3>1, <3>2
  <2>2. Id(i).id = i /\ Meta(v).file = v BY DEF Id, Meta
  <2>3. \A j : Named(e, p, j) = Named(f, p, j) \cup {x \in {at} : j = i}
    BY <1>7, <1>11, <2>2 DEF Named, SameItem
  <2>4. at \in Named(e, p, i) /\ \A y \in Named(e, p, i) : y <= at
    <3>1. at \in Named(e, p, i) BY <2>3
    <3>2. ASSUME NEW y \in Named(e, p, i) PROVE y <= at
      <4>1. y = at \/ y \in Offsets(f, p) BY <2>3 DEF Named
      <4>2. y \in Offsets(f, p) => y \in Nat /\ y < at BY <2>1, OffsetFacts
      <4> QED BY <1>2, <4>1, <4>2
    <3> QED BY <3>1, <3>2
  <2>5. Shows(e, p, i, v) BY <1>7, <2>2, <2>4 DEF Shows, Newest
  <2>6. ASSUME NEW j, j # i PROVE Keeps(f, e, p, j)
    <3>1. Named(e, p, j) = Named(f, p, j) BY <2>3, <2>6
    <3>2. \A o : Newest(f, p, j, o) => o \in Named(e, p, j) /\ e[o + 1] = f[o + 1]
      BY <1>7, <3>1 DEF Newest, Named, SameItem
    <3> QED BY <3>1, <3>2, KeepsNewest
  <2>7. Shown(f, e, p, c) BY <2>5, <2>6 DEF Shown
  <2>8. AllZaps(e, p, i, s)
    <3>1. \A o \in Named(f, p, i) : o < at /\ o \in Named(e, p, i) BY <2>1, <2>3 DEF Named
    <3> QED BY <1>b, <1>8, <2>4, <3>1, OldsTyped
  <2> QED BY <2>5, <2>7, <2>8 DEF Updated
<1>12. n = Len(w.cells) => IF Verified(e, w) THEN Updated(e, p, c, Tail(t))
                           ELSE Shows(e, p, c.id, c.old)
  BY <1>3, <1>4, <1>7, <1>10, <1>11
<1> QED BY <1>9, <1>10, <1>11, <1>12 DEF e, w

(* The zeroing of an identifier's last item is the moment mm_invalidate    *)
(* takes effect: cut short before its first cell the old file is shown,    *)
(* and none after.                                                         *)
LEMMA DroppingStep ==
  ASSUME NEW f \in [Addr -> Cell], NEW p \in Page, Fenced(f), Headed(f, p),
         NEW c, c.id \in Ids, NEW t, Shows(f, p, c.id, c.old),
         Dropping(f, p, c, t), NEW n \in 0 .. Len(Head(t).cells)
  PROVE  LET w == Head(t)
             e == Done(f, w, n)
         IN  /\ Safe(f, e, p, w) /\ Shown(f, e, p, c)
             /\ n = Len(w.cells) =>
                  /\ Verified(e, w)
                  /\ \/ Updated(e, p, c, Tail(t))
                     \/ Shows(e, p, c.id, c.old) /\ Dropping(e, p, c, Tail(t))
<1> DEFINE w == Head(t)  e == Done(f, w, n)  i == c.id
<1>a. c.new = NoFile /\ \E d, o :
        /\ AllZaps(f, p, i, d) /\ Newest(f, p, i, o)
        /\ \A y \in Named(f, p, i) : y = o \/ \E k \in 1 .. Len(d) : d[k].addr = y
        /\ t = d \o <<Write(o, Zeros(ItemLen(f, o)))>>
  BY DEF Dropping
<1>b. PICK d, o :
        /\ AllZaps(f, p, i, d) /\ Newest(f, p, i, o)
        /\ \A y \in Named(f, p, i) : y = o \/ \E k \in 1 .. Len(d) : d[k].addr = y
        /\ t = d \o <<Write(o, Zeros(ItemLen(f, o)))>>
  BY <1>a
<1> DEFINE z == Write(o, Zeros(ItemLen(f, o)))
<1>1. o \in Offsets(f, p) /\ f[o].id = i BY <1>b DEF Newest, Named
<1>2. ItemLen(f, o) \in Nat /\ ItemLen(f, o) >= 3 /\ o \in Nat
  BY <1>1, OffsetFacts, ItemFacts DEF MIN_FILE_LEN, ITEM_HEADER_SZ
<1>3. ItemLen(f, o) \in 1 .. ItemLen(f, o) BY <1>2
<1>4. InPage(p, z) /\ Len(z.cells) = ItemLen(f, o) /\ z.addr = o
  BY <1>1, <1>3, ZerosInPage DEF Write
<1>5. AllZaps(f, p, i, d) /\ d \in Seq(Operation) BY <1>b DEF AllZaps
<1>6. z \in Operation BY <1>4 DEF InPage
<1> HIDE DEF z
<1>7. <<z>> \in Seq(Operation) /\ Head(<<z>>) = z /\ Tail(<<z>>) = << >> BY <1>6
<1>8. t = d \o <<z>> BY <1>b DEF z
<1>9. CASE d = << >>
  <2>1. t = <<z>> /\ w = z /\ Tail(t) = << >> BY <1>7, <1>8, <1>9, NoneJoined
  <2>2. n \in 0 .. ItemLen(f, o) BY <1>4, <2>1
  <2>3. e = Done(f, z, n) BY <2>1
  <2> HIDE DEF e, w
  <2>4. /\ e \in [Addr -> Cell] /\ Fenced(e) /\ Headed(e, p)
        /\ mm_get_active_page(e) = mm_get_active_page(f)
    BY <1>1, <1>3, <2>2, <2>3, ZeroedCells DEF z
  <2>5. Safe(f, e, p, w) BY <1>4, <2>1, <2>4 DEF Safe
  <2>6. CASE n = 0
    <3>1. e = f BY <1>6, <2>3, <2>6, DoneNothing
    <3>2. (\A j : Keeps(f, e, p, j)) /\ Keeps(f, e, p, i) BY <3>1 DEF Keeps
    <3>3. Shown(f, e, p, c) BY <3>2, Zenon DEF Shown
    <3>4. n # Len(w.cells) BY <1>2, <1>4, <2>1, <2>6
    <3> QED BY <2>5, <3>3, <3>4 DEF e, w
  <2>7. CASE n # 0
    <3>1. n \in 1 .. ItemLen(f, o) BY <2>2, <2>7
    <3>2. Offsets(e, p) = Offsets(f, p) \ {o} /\ \A x \in Offsets(e, p) : SameItem(f, e, x)
      BY <1>1, <1>3, <2>3, <3>1, OneGone DEF z
    <3>3. \A j : Named(e, p, j) = Named(f, p, j) \ {o} BY <3>2 DEF Named, SameItem
    <3>4. \A k \in 1 .. Len(d) : FALSE BY <1>9
    <3>5. Named(f, p, i) \subseteq {o} BY <1>b, <3>4
    <3>6. Named(e, p, i) = {} BY <3>3, <3>5
    <3>7. Shows(e, p, i, c.new) BY <1>a, <3>6 DEF Shows
    <3>8. ASSUME NEW j, j # i PROVE Keeps(f, e, p, j)
      <4>1. Named(e, p, j) = Named(f, p, j) BY <1>1, <3>3, <3>8 DEF Named
      <4>2. \A x : Newest(f, p, j, x) => x \in Named(e, p, j) /\ e[x + 1] = f[x + 1]
        BY <3>2, <4>1 DEF Newest, Named, SameItem
      <4> QED BY <4>1, <4>2, KeepsNewest
    <3>9. Shown(f, e, p, c) BY <3>7, <3>8 DEF Shown
    <3>10. ASSUME n = Len(w.cells) PROVE Verified(e, w)
      <4>1. n = ItemLen(f, o) BY <1>4, <2>1, <3>10
      <4> QED BY <1>1, <1>3, <2>1, <2>3, <4>1, ZerosVerified DEF z
    <3>11. AllZaps(e, p, i, << >>) BY DEF AllZaps
    <3>12. Updated(e, p, c, Tail(t)) BY <2>1, <3>7, <3>11 DEF Updated
    <3> QED BY <2>5, <3>9, <3>10, <3>12 DEF e, w
  <2> QED BY <2>6, <2>7
<1>10. CASE d # << >>
  <2>1. w = Head(d) /\ Tail(t) = Tail(d) \o <<z>> BY <1>5, <1>7, <1>8, <1>10, HeadJoined
  <2> HIDE DEF w
  <2>2. n \in 0 .. Len(w.cells) BY DEF w
  <2>3. Zaps(f, p, i, w) /\ AllZaps(Done(f, w, Len(w.cells)), p, i, Tail(d))
    BY <1>5, <1>10, <2>1, ZapsStep
  <2>4. /\ InPage(p, w) /\ \A j : Keeps(f, e, p, j)
        /\ n = Len(w.cells) => Verified(e, w)
    BY <2>2, <2>3, ZapKeeps
  <2>5. /\ e \in [Addr -> Cell] /\ Fenced(e)
        /\ mm_get_active_page(e) = mm_get_active_page(f) /\ Headed(e, p)
        /\ n = Len(w.cells) => /\ Offsets(e, p) = Offsets(f, p) \ {w.addr}
                               /\ \A x \in Offsets(e, p) : SameItem(f, e, x)
        /\ \A x : Newest(f, p, i, x) => x # w.addr
    BY <2>2, <2>3, ZapRemoves
  <2>6. n = Len(w.cells) => AllZaps(e, p, i, Tail(d)) BY <2>3
  <2> HIDE DEF e
  <2>7. Safe(f, e, p, w) BY <2>4, <2>5 DEF Safe
  <2>8. Shown(f, e, p, c) /\ Shows(e, p, i, c.old)
    <3>1. Keeps(f, e, p, i) BY <2>4
    <3> QED BY <2>4, <3>1, Zenon DEF Shown, Keeps
  <2>9. ASSUME n = Len(w.cells) PROVE Dropping(e, p, c, Tail(t))
    <3>1. Offsets(e, p) = Offsets(f, p) \ {w.addr} /\ \A x \in Offsets(e, p) : SameItem(f, e, x)
      BY <2>5, <2>9
    <3>2. o \in Offsets(e, p) BY <1>1, <1>b, <2>5, <3>1
    <3>3. Newest(e, p, i, o) BY <1>b, <3>1, <3>2, NewestKept
    <3>4. ItemLen(e, o) = ItemLen(f, o) BY <3>1, <3>2 DEF SameItem
    <3>5. ASSUME NEW y \in Named(e, p, i), y # o
          PROVE  \E k \in 1 .. Len(Tail(d)) : Tail(d)[k].addr = y
      <4>1. y \in Named(f, p, i) /\ y # w.addr BY <3>1 DEF Named, SameItem
      <4>2. PICK k \in 1 .. Len(d) : d[k].addr = y BY <1>b, <3>5, <4>1
      <4>3. /\ Len(d) \in Nat /\ w = d[1] /\ Len(Tail(d)) = Len(d) - 1
            /\ \A m \in 1 .. Len(d) - 1 : Tail(d)[m] = d[m + 1]
        BY <1>5, <1>10, <2>1, HeadTail
      <4>4. k # 1 BY <4>1, <4>2, <4>3
      <4>5. k - 1 \in 1 .. Len(d) - 1 /\ (k - 1) + 1 = k BY <4>3, <4>4
      <4> QED BY <4>2, <4>3, <4>5
    <3> QED BY <1>a, <2>1, <2>6, <2>9, <3>3, <3>4, <3>5 DEF Dropping, z
  <2> QED BY <2>4, <2>7, <2>8, <2>9 DEF e, w
<1> QED BY <1>9, <1>10

(* No operation of a set or an invalidation, cut short anywhere, shows     *)
(* anything but the old file or the new one; other identifiers keep        *)
(* theirs; and an operation that verified leaves a shorter update of the   *)
(* same kind.                                                              *)
LEMMA UpdateStep ==
  ASSUME NEW f \in [Addr -> Cell], NEW p \in Page, Fenced(f), Headed(f, p),
         NEW c, c.id \in Ids, NEW t, Updating(f, p, c, t), t # << >>,
         NEW n \in 0 .. Len(Head(t).cells)
  PROVE  LET w == Head(t)
             e == Done(f, w, n)
         IN  /\ Safe(f, e, p, w) /\ Shown(f, e, p, c)
             /\ n = Len(w.cells) => IF Verified(e, w) THEN Updating(e, p, c, Tail(t))
                                    ELSE Shows(e, p, c.id, c.old)
<1> DEFINE w == Head(t)  e == Done(f, w, n)
<1> HIDE DEF w, e
<1>1. CASE Updated(f, p, c, t)
  <2>1. /\ Safe(f, e, p, w) /\ Shown(f, e, p, c)
        /\ n = Len(w.cells) => Verified(e, w) /\ Updated(e, p, c, Tail(t))
    BY <1>1, UpdatedStep DEF w, e
  <2> QED BY <2>1 DEF Updating, w, e
<1>2. CASE Shows(f, p, c.id, c.old) /\ Adding(f, p, c, t)
  <2>1. /\ Safe(f, e, p, w) /\ Shown(f, e, p, c) /\ Shows(e, p, c.id, c.old)
        /\ n = Len(w.cells) /\ Verified(e, w) =>
             Adding(e, p, c, Tail(t)) \/ Filling(e, p, c, Tail(t))
    BY <1>2, AddingStep DEF w, e
  <2> QED BY <2>1 DEF Updating, w, e
<1>3. CASE Shows(f, p, c.id, c.old) /\ Filling(f, p, c, t)
  <2>1. /\ Safe(f, e, p, w) /\ Shown(f, e, p, c)
        /\ n = Len(w.cells) => IF Verified(e, w) THEN Updated(e, p, c, Tail(t))
                               ELSE Shows(e, p, c.id, c.old)
    BY <1>3, FillingStep DEF w, e
  <2> QED BY <2>1 DEF Updating, w, e
<1>4. CASE Shows(f, p, c.id, c.old) /\ Dropping(f, p, c, t)
  <2>1. /\ Safe(f, e, p, w) /\ Shown(f, e, p, c)
        /\ n = Len(w.cells) =>
             /\ Verified(e, w)
             /\ \/ Updated(e, p, c, Tail(t))
                \/ Shows(e, p, c.id, c.old) /\ Dropping(e, p, c, Tail(t))
    BY <1>4, DroppingStep DEF w, e
  <2> QED BY <2>1 DEF Updating, w, e
<1> QED BY <1>1, <1>2, <1>3, <1>4 DEF Updating

-----------------------------------------------------------------------------
(* How the calls begin.                                                    *)
LEMMA EmptyBehind ==
  ASSUME NEW f \in [Addr -> Cell], NEW p \in Page, p = mm_get_active_page(f)
  PROVE  \A o \in Offsets(f, p) : o + ItemLen(f, o) <= Empty(f)
<1> DEFINE s == Items(f, p, Ids)  n == Len(s)
<1>1. InRow(f, p, Ids, Base(p) + QWORD_LEN, s) BY ItemsInRow
<1>2. Empty(f) = IF s = << >> THEN Base(p) + QWORD_LEN ELSE Last(s) + ItemLen(f, Last(s))
  BY DEF Empty
<1>3. s \in Seq(Nat) /\ n \in Nat BY <1>1 DEF InRow
<1> SUFFICES ASSUME NEW o \in Offsets(f, p) PROVE o + ItemLen(f, o) <= Empty(f)
  OBVIOUS
<1>4. o \in Nat /\ o \in Addr /\ f[o].id \in Ids /\ ItemLen(f, o) \in Nat
  <2>1. o \in Nat /\ o < End(p) - MIN_FILE_LEN /\ is_item(f, p, o) BY OffsetFacts
  <2> QED BY <2>1, ItemFacts
<1>5. PICK k \in 1 .. n : s[k] = o BY <1>4, AllFound
<1> HIDE DEF s
<1>6. n \in 1 .. n /\ s # << >> /\ Last(s) = s[n] BY <1>3, <1>5 DEF Last
<1>7. Empty(f) = s[n] + ItemLen(f, s[n]) BY <1>2, <1>6
<1>8. CASE k = n BY <1>4, <1>5, <1>7, <1>8
<1>9. CASE k # n
  <2>1. k < n BY <1>3, <1>9
  <2>2. Base(p) + QWORD_LEN \in Nat BY PageFacts
  <2>3. s[k] < s[n] BY <1>1, <1>6, <2>1, <2>2, Ascending
  <2>4. s[n] \in Offsets(f, p)
    <3>1. /\ Base(p) + QWORD_LEN <= s[n] /\ s[n] < End(p) - MIN_FILE_LEN
          /\ is_item(f, p, s[n])
      BY <1>1, <1>6 DEF InRow
    <3>2. s[n] \in Nat BY <1>3, <1>6
    <3>3. Base(p) < s[n] BY <3>1, <3>2, PageFacts DEF QWORD_LEN
    <3> QED BY <3>1, <3>2, <3>3, OffsetFacts
  <2>5. o + ItemLen(f, o) <= s[n] BY <1>5, <2>3, <2>4, Disjoint
  <2>6. s[n] \in Nat /\ ItemLen(f, s[n]) \in Nat
    <3>1. s[n] \in Nat /\ s[n] < End(p) - MIN_FILE_LEN /\ is_item(f, p, s[n])
      BY <2>4, OffsetFacts
    <3> QED BY <3>1, ItemFacts
  <2> QED BY <1>4, <1>7, <2>5, <2>6
<1> QED BY <1>8, <1>9

(* The duplicates mm_get zeroes are the items older than the last one      *)
(* found, and all of them.                                                 *)
LEMMA DuplicatesZap ==
  ASSUME NEW f \in [Addr -> Cell], NEW i, NEW p \in Page, p = mm_get_active_page(f)
  PROVE  /\ AllZaps(f, p, i, Duplicates(f, i))
         /\ \A y \in Named(f, p, i) :
              \/ y = Last(Found(f, i))
              \/ \E k \in 1 .. Len(Duplicates(f, i)) : Duplicates(f, i)[k].addr = y
<1> DEFINE s == Found(f, i)  d == Duplicates(f, i)  n == Len(s)
<1>1. /\ s \in Seq(Nat) /\ n \in Nat
      /\ \A k \in 1 .. n : s[k] \in Named(f, p, i)
      /\ \A k, j \in 1 .. n : k < j => s[k] < s[j]
      /\ \A o \in Named(f, p, i) : \E k \in 1 .. n : s[k] = o
  BY FoundNamed
<1>2. AllApart(p, d) BY DuplicatesApart
<1>3. d \in Seq(Operation) BY <1>2 DEF AllApart
<1>4. d = [k \in 1 .. n - 1 |-> Write(s[k], Zeros(ItemLen(f, s[k])))] BY DEF Duplicates
<1> HIDE DEF s, d
<1>5. Len(d) \in Nat /\ DOMAIN d = 1 .. Len(d) BY <1>3
<1>6. DOMAIN d = 1 .. n - 1 BY <1>4
<1>7. 1 .. Len(d) = 1 .. n - 1 BY <1>5, <1>6
<1>8. ASSUME NEW k \in 1 .. n - 1
      PROVE  /\ k \in 1 .. n /\ k + 1 \in 1 .. n /\ k < k + 1
             /\ d[k] = Write(s[k], Zeros(ItemLen(f, s[k]))) /\ d[k].addr = s[k]
             /\ s[k] \in Nat
  BY <1>1, <1>4 DEF Write
<1>9. ASSUME NEW k \in 1 .. n - 1 PROVE Zaps(f, p, i, d[k])
  <2>1. s[k] \in Named(f, p, i) /\ s[k + 1] \in Named(f, p, i) /\ s[k] < s[k + 1]
    BY <1>1, <1>8
  <2>2. ItemLen(f, s[k]) \in 1 .. ItemLen(f, s[k])
    <3>1. s[k] \in Nat /\ s[k] < End(p) - MIN_FILE_LEN /\ is_item(f, p, s[k])
      BY <2>1, OffsetFacts DEF Named
    <3>2. ItemLen(f, s[k]) \in Nat /\ ItemLen(f, s[k]) >= 3
      BY <3>1, ItemFacts DEF MIN_FILE_LEN, ITEM_HEADER_SZ
    <3> QED BY <3>2
  <2> QED BY <1>8, <2>1, <2>2 DEF Zaps
<1>10. ASSUME NEW k \in 1 .. n - 1, NEW j \in 1 .. n - 1, k # j PROVE d[k].addr # d[j].addr
  <2>1. k < j \/ j < k BY <1>1, <1>10
  <2>2. (k < j => s[k] < s[j]) /\ (j < k => s[j] < s[k]) BY <1>1, <1>8
  <2> QED BY <1>8, <2>1, <2>2
<1>11. AllZaps(f, p, i, d) BY <1>3, <1>7, <1>9, <1>10 DEF AllZaps
<1>12. ASSUME NEW y \in Named(f, p, i), y # Last(s)
       PROVE  \E k \in 1 .. Len(d) : d[k].addr = y
  <2>1. PICK k \in 1 .. n : s[k] = y BY <1>1
  <2>2. k # n BY <1>12, <2>1 DEF Last
  <2>3. k \in 1 .. n - 1 BY <1>1, <2>2
  <2> QED BY <1>7, <1>8, <2>1, <2>3
<1> QED BY <1>11, <1>12 DEF s, d

(* Joining lists of operations is associative.                             *)
LEMMA JoinedTwice ==
  ASSUME NEW s \in Seq(Operation), NEW t \in Seq(Operation), NEW u \in Seq(Operation)
  PROVE  (s \o t) \o u = s \o (t \o u)
OBVIOUS

(* mm_set, called where there is room, zeroes duplicates, writes header    *)
(* and file behind all items, then zeroes the old items.                   *)
LEMMA SetStarts ==
  ASSUME NEW f \in [Addr -> Cell], NEW p \in Page, p = mm_get_active_page(f), Fenced(f),
         NEW i \in Ids, NEW v, Room(f, p, Empty(f), v),
         NEW c, c.id = i, c.new = v
  PROVE  Adding(f, p, c, mm_set(f, i, v))
<1> DEFINE at == Empty(f)  h == Header(at, i, v)  b == Body(at, v)  d == Duplicates(f, i)
           s == IF Found(f, i) = << >> THEN << >>
                ELSE << Write(Last(Found(f, i)), Zeros(ITEM_HEADER_SZ)) >>
<1>1. mm_set(f, i, v) = d \o << h, b >> \o s BY DEF mm_set, Header, Body
<1>2. Olds(f, p, i, s) BY FoundNamed DEF Olds
<1>3. s \in Seq(Operation) BY <1>2, OldsTyped
<1>4. AllZaps(f, p, i, d) BY DuplicatesZap
<1>5. d \in Seq(Operation) BY <1>4 DEF AllZaps
<1>6. v \in Files /\ at \in Nat BY DEF Room
<1>7. h \in Operation /\ b \in Operation
  <2>1. at + ITEM_HEADER_SZ \in Nat BY <1>6 DEF ITEM_HEADER_SZ
  <2> QED BY <1>6, <2>1, NewItemTyped DEF Header, Body, Write, Operation
<1> HIDE DEF at, h, b, d, s
<1>8. mm_set(f, i, v) = d \o (<< h, b >> \o s) BY <1>1, <1>3, <1>5, <1>7, JoinedTwice
<1> QED BY <1>2, <1>4, <1>8 DEF Adding, h, b, at

(* mm_invalidate zeroes the duplicates first and the item in force last.   *)
LEMMA InvalidateStarts ==
  ASSUME NEW f \in [Addr -> Cell], NEW p \in Page, p = mm_get_active_page(f),
         NEW i \in Ids, Found(f, i) # << >>,
         NEW c, c.id = i, c.new = NoFile
  PROVE  Dropping(f, p, c, mm_invalidate(f, i))
<1> DEFINE o == Last(Found(f, i))  d == Duplicates(f, i)
<1>1. mm_invalidate(f, i) = d \o << Write(o, Zeros(ItemLen(f, o))) >> BY DEF mm_invalidate
<1>2. Newest(f, p, i, o) BY FoundNamed
<1>3. /\ AllZaps(f, p, i, d)
      /\ \A y \in Named(f, p, i) : y = o \/ \E k \in 1 .. Len(d) : d[k].addr = y
  BY DuplicatesZap
<1> HIDE DEF o, d
<1> QED BY <1>1, <1>2, <1>3 DEF Dropping

(* Under Fits, where HasSpace lets mm_set begin, the header and the file   *)
(* fit between the last item and the end of the page, where mm_get_next    *)
(* looks.                                                                  *)
LEMMA FitsRoom ==
  ASSUME flash \in [Addr -> Cell], Fits, NEW p \in Page, p = mm_get_active_page(flash),
         NEW v \in Files, HasSpace(flash, FileLen[v])
  PROVE  Room(flash, p, Empty(flash), v)
<1> DEFINE at == Empty(flash)
<1>1. End(p) - at >= 2 + FileLen[v] /\ End(p) - at > MIN_FILE_LEN
  BY DEF Fits, RemSpace, ITEM_HEADER_SZ, Page
<1>2. at \in Nat /\ Base(p) < at BY EmptyBeyond
<1>3. \A o \in Offsets(flash, p) : o + ItemLen(flash, o) <= at BY EmptyBehind
<1>4. FileLen[v] \in Nat /\ End(p) \in Nat BY FilesAssumption, PageFacts
<1> DEFINE l == FileLen[v]
<1> HIDE DEF at, l
<1>5. at < End(p) - MIN_FILE_LEN /\ at + 2 + l <= End(p)
  BY <1>1, <1>2, <1>4 DEF MIN_FILE_LEN, ITEM_HEADER_SZ, l
<1> QED BY <1>2, <1>3, <1>5 DEF Room, at, l

-----------------------------------------------------------------------------
(* Turning the pages: behind its marker, page p stays as it is while its   *)
(* items are copied.                                                       *)
PageKept(f, e, p) == \A a \in Base(p) + 1 .. End(p) - 1 : e[a] = f[a]

(* An item ends on the page it starts on.                                  *)
LEMMA ItemInPage ==
  ASSUME NEW f \in [Addr -> Cell], NEW p \in Page, Fenced(f), NEW o \in Offsets(f, p)
  PROVE  /\ o \in Nat /\ Base(p) < o /\ ItemLen(f, o) \in Nat /\ ItemLen(f, o) >= 3
         /\ o + ItemLen(f, o) <= End(p)
         /\ o .. o + ItemLen(f, o) - 1 \subseteq Base(p) + 1 .. End(p) - 1
<1> DEFINE l == FileLen[f[o + 1].file]
<1>1. Holds(f, p, o, f[o + 1].file) /\ ItemLen(f, o) = 2 + l BY CellsOfItem
<1>2. o \in Nat /\ Base(p) < o /\ l \in Nat /\ l >= 1 /\ o + 2 + l <= End(p)
  BY <1>1 DEF Holds
<1> HIDE DEF l
<1> DEFINE m == ItemLen(f, o)
<1>3. m = 2 + l BY <1>1
<1> HIDE DEF m
<1>4. m \in Nat /\ m >= 3 /\ o + m <= End(p) BY <1>2, <1>3
<1>5. Base(p) \in Nat /\ End(p) \in Nat BY PageFacts
<1>6. o .. o + m - 1 \subseteq Base(p) + 1 .. End(p) - 1 BY <1>2, <1>4, <1>5
<1> QED BY <1>2, <1>4, <1>6 DEF m

(* A page none of whose cells changes has the same items and shows the     *)
(* same files.                                                             *)
LEMMA SamePage ==
  ASSUME NEW f \in [Addr -> Cell], NEW e \in [Addr -> Cell], NEW p \in Page,
         Fenced(f), Fenced(e), PageKept(f, e, p)
  PROVE  /\ Offsets(e, p) = Offsets(f, p)
         /\ \A x \in Offsets(f, p) : SameItem(f, e, x)
         /\ \A i : Keeps(f, e, p, i)
         /\ Headed(f, p) => Headed(e, p)
<1>1. ASSUME NEW x \in Offsets(f, p) PROVE x \in Offsets(e, p) /\ SameItem(f, e, x)
  <2>1. \A a \in x .. x + ItemLen(f, x) - 1 : e[a] = f[a] BY ItemInPage DEF PageKept
  <2> QED BY <2>1, KeptItem DEF SameItem
<1>2. ASSUME NEW x \in Offsets(e, p) PROVE x \in Offsets(f, p)
  <2>1. \A a \in x .. x + ItemLen(e, x) - 1 : f[a] = e[a] BY ItemInPage DEF PageKept
  <2> QED BY <2>1, KeptItem
<1>3. Offsets(e, p) = Offsets(f, p) BY <1>1, <1>2
<1>4. ASSUME Headed(f, p) PROVE Headed(e, p)
  <2>1. \A a \in Base(p) + 1 .. End(p) - 3 : e[a] = f[a] /\ e[a + 1] = f[a + 1] /\ e[a + 2] = f[a + 2]
    <3> SUFFICES ASSUME NEW a \in Base(p) + 1 .. End(p) - 3
                 PROVE  e[a] = f[a] /\ e[a + 1] = f[a + 1] /\ e[a + 2] = f[a + 2]
      OBVIOUS
    <3>1. /\ a \in Base(p) + 1 .. End(p) - 1 /\ a + 1 \in Base(p) + 1 .. End(p) - 1
          /\ a + 2 \in Base(p) + 1 .. End(p) - 1
      BY PageFacts
    <3> QED BY <3>1 DEF PageKept
  <2> QED BY <1>4, <2>1 DEF Headed
<1> QED BY <1>1, <1>3, <1>4, SameShown

(* All items of the page, in their order.                                  *)
Listing(f, p, s) ==
  /\ s \in Seq(Nat)
  /\ \A k \in 1 .. Len(s) : s[k] \in Offsets(f, p)
  /\ \A k, j \in 1 .. Len(s) : k < j => s[k] < s[j]
  /\ \A o \in Offsets(f, p) : \E k \in 1 .. Len(s) : s[k] = o

(* A scan of a page finds all items of the page, in order.                 *)
LEMMA ItemsListing ==
  ASSUME NEW f \in [Addr -> Cell], NEW p \in Page
  PROVE  Listing(f, p, Items(f, p, Ids))
<1> DEFINE s == Items(f, p, Ids)
<1>1. InRow(f, p, Ids, Base(p) + QWORD_LEN, s) BY ItemsInRow
<1>2. ASSUME NEW o \in Offsets(f, p) PROVE \E k \in 1 .. Len(s) : s[k] = o
  <2>1. o \in Nat /\ o < End(p) - MIN_FILE_LEN /\ is_item(f, p, o) BY OffsetFacts
  <2>2. f[o].id \in Ids BY <2>1, ItemFacts
  <2> QED BY <2>2, AllFound
<1> HIDE DEF s
<1>3. s \in Seq(Nat) BY <1>1 DEF InRow
<1>4. ASSUME NEW k \in 1 .. Len(s) PROVE s[k] \in Offsets(f, p)
  <2>1. /\ s[k] \in Nat /\ Base(p) + QWORD_LEN <= s[k] /\ s[k] < End(p) - MIN_FILE_LEN
        /\ is_item(f, p, s[k])
    BY <1>1, <1>3 DEF InRow
  <2>2. Base(p) < s[k] BY <2>1, PageFacts DEF QWORD_LEN
  <2> QED BY <2>1, <2>2, OffsetFacts
<1>5. Base(p) + QWORD_LEN \in Nat BY PageFacts
<1>6. \A k, j \in 1 .. Len(s) : k < j => s[k] < s[j] BY <1>1, <1>5, Ascending
<1> QED BY <1>2, <1>3, <1>4, <1>6 DEF Listing, s

(* The addresses mm_turn_page copies to ascend and stay on the other page. *)
LEMMA PlacedOrder ==
  ASSUME NEW f \in [Addr -> Cell], NEW p \in Page, Fenced(f), NEW s, Listing(f, p, s),
         NEW to, Placed(f, p, s, to)
  PROVE  /\ \A k \in 0 .. Len(s) : to[k] \in Nat
         /\ \A k, j \in 0 .. Len(s) : k <= j => to[k] <= to[j]
         /\ \A k \in 1 .. Len(s) : to[k] <= End(3 - p)
<1> DEFINE n == Len(s)  q == 3 - p
<1>1. n \in Nat /\ q \in Page BY DEF Listing, Page
<1>2. \A k \in 1 .. n : ItemLen(f, s[k]) \in Nat /\ s[k] \in Nat /\ s[k] + ItemLen(f, s[k]) <= End(p)
  BY ItemInPage DEF Listing
<1>3. /\ to[0] = Base(q) + 1
      /\ \A k \in 1 .. n : /\ to[k] = to[k - 1] + ItemLen(f, s[k])
                           /\ to[k - 1] \in Nat /\ Base(q) < to[k - 1]
                           /\ to[k - 1] + Base(p) <= s[k] + Base(q)
  BY DEF Placed
<1>4. /\ Base(q) \in Nat /\ Base(p) \in Nat /\ End(p) = Base(p) + PageLen /\ End(p) \in Nat
      /\ End(q) = Base(q) + PageLen /\ PageLen \in Nat
  BY <1>1, PageFacts
<1> HIDE DEF n, q
<1>5. ASSUME NEW k \in 0 .. n PROVE to[k] \in Nat
  <2>1. k = 0 \/ k \in 1 .. n BY <1>1
  <2>2. CASE k = 0 BY <1>3, <1>4, <2>2
  <2>3. CASE k \in 1 .. n BY <1>2, <1>3, <2>3
  <2> QED BY <2>1, <2>2, <2>3
<1>6. ASSUME NEW k \in 1 .. n PROVE to[k] <= End(q)
  <2> DEFINE x == to[k - 1]  l == ItemLen(f, s[k])  o == s[k]
  <2>1. /\ to[k] = x + l /\ x \in Nat /\ l \in Nat /\ o \in Nat /\ x + Base(p) <= o + Base(q)
        /\ o + l <= End(p)
    BY <1>2, <1>3
  <2> HIDE DEF x, l, o
  <2> QED BY <1>4, <2>1
<1>7. ASSUME NEW k \in 0 .. n, NEW j \in 0 .. n, k <= j PROVE to[k] <= to[j]
  <2> DEFINE T == {m \in 0 .. n - k : to[k] <= to[k + m]}
  <2>1. n - k \in Nat /\ k + 0 = k /\ 0 \in 0 .. n - k BY <1>1
  <2>2. 0 \in T BY <1>5, <2>1
  <2>3. ASSUME NEW m \in 0 .. (n - k) - 1, m \in T PROVE m + 1 \in T
    <3>1. /\ m + 1 \in 0 .. n - k /\ k + (m + 1) \in 1 .. n /\ k + (m + 1) - 1 = k + m
          /\ k + m \in 0 .. n /\ k + (m + 1) \in 0 .. n
      BY <1>1
    <3>2. to[k + (m + 1)] = to[k + m] + ItemLen(f, s[k + (m + 1)]) BY <1>3, <3>1
    <3>3. ItemLen(f, s[k + (m + 1)]) \in Nat BY <1>2, <3>1
    <3>4. to[k] <= to[k + m] BY <2>3
    <3>5. to[k] \in Nat /\ to[k + m] \in Nat BY <1>5, <3>1
    <3> DEFINE x == to[k + m]  y == to[k + (m + 1)]  z == ItemLen(f, s[k + (m + 1)])
    <3>6. y = x + z /\ z \in Nat /\ to[k] <= x /\ to[k] \in Nat /\ x \in Nat
      BY <3>2, <3>3, <3>4, <3>5
    <3> HIDE DEF x, y, z
    <3>7. to[k] <= y BY <3>6
    <3> QED BY <3>1, <3>7 DEF y
  <2> HIDE DEF T
  <2>4. \A m \in 0 .. n - k : m \in T BY <2>1, <2>2, <2>3, Induction
  <2>5. j - k \in 0 .. n - k /\ k + (j - k) = j BY <1>1, <1>7
  <2> QED BY <2>4, <2>5 DEF T
<1> QED BY <1>5, <1>6, <1>7 DEF n, q

(* The first m items have been copied, and nothing is behind them.         *)
Copied(f, p, s, to, m) ==
  /\ m \in 0 .. Len(s)
  /\ \A k \in 1 .. m : \A j \in 0 .. ItemLen(f, s[k]) - 1 : f[to[k - 1] + j] = f[s[k] + j]
  /\ \A a \in to[m] .. End(3 - p) - 1 : f[a] = Erased

(* The copy of an item, cut short anywhere, does not change the active     *)
(* page; whole, one item more is copied.                                   *)
LEMMA CopyStep ==
  ASSUME NEW f \in [Addr -> Cell], NEW p \in Page, Fenced(f), NEW s, Listing(f, p, s),
         NEW to, Placed(f, p, s, to), NEW m, Copied(f, p, s, to, m), m + 1 <= Len(s),
         NEW w, CopyOf(f, s[m + 1], to[m], w), NEW n \in 0 .. Len(w.cells)
  PROVE  LET e == Done(f, w, n)
         IN  /\ InPage(3 - p, w) /\ e \in [Addr -> Cell] /\ Fenced(e) /\ PageKept(f, e, p)
             /\ mm_get_active_page(e) = mm_get_active_page(f)
             /\ n = Len(w.cells) => Copied(e, p, s, to, m + 1)
<1> DEFINE e == Done(f, w, n)  N == Len(s)  q == 3 - p  o == s[m + 1]  l == ItemLen(f, o)
           x == to[m]
<1>1. N \in Nat /\ m \in 0 .. N /\ m + 1 \in 1 .. N /\ q \in Page /\ m \in Nat
      /\ (m + 1) - 1 = m
  <2>1. N \in Nat /\ m \in 0 .. N BY DEF Listing, Copied
  <2> QED BY <2>1 DEF Page
<1>2. /\ o \in Offsets(f, p) /\ o \in Nat /\ Base(p) < o /\ l \in Nat /\ l >= 3 /\ o + l <= End(p)
      /\ o .. o + l - 1 \subseteq Base(p) + 1 .. End(p) - 1
  BY <1>1, ItemInPage DEF Listing
<1>3. /\ \A k \in 0 .. N : to[k] \in Nat
      /\ \A k, j \in 0 .. N : k <= j => to[k] <= to[j]
      /\ \A k \in 1 .. N : to[k] <= End(q)
  BY PlacedOrder
<1>4. x \in Nat /\ to[m + 1] = x + l /\ Base(q) < x /\ x + l <= End(q)
  <2>1. to[m + 1] = to[(m + 1) - 1] + ItemLen(f, s[m + 1]) /\ Base(q) < to[(m + 1) - 1]
    BY <1>1 DEF Placed
  <2> QED BY <1>1, <1>3, <2>1
<1>5. /\ w \in Operation /\ w.op = "write" /\ w.addr = x /\ Len(w.cells) = l
      /\ \A j \in 1 .. l : w.cells[j] = f[o + j - 1]
  BY DEF CopyOf
<1>6. InPage(q, w) BY <1>4, <1>5 DEF InPage
<1>7. /\ e \in [Addr -> Cell] /\ Fenced(e)
      /\ mm_get_active_page(e) = mm_get_active_page(f)
      /\ \A a \in Addr : e[a] = IF a \in w.addr .. w.addr + n - 1
                                THEN Program(f[a], w.cells[a - w.addr + 1]) ELSE f[a]
  BY <1>1, <1>6, WriteIn
<1>8. /\ Base(q) \in Nat /\ Base(p) \in Nat /\ End(p) \in Nat /\ End(q) \in Nat
      /\ (End(p) <= Base(q) \/ End(q) <= Base(p))
  BY PageFacts DEF Page
<1>9. n \in 0 .. l BY <1>5
<1> HIDE DEF e, q, x, l, o, N
<1>10. \A a \in Addr : e[a] = IF a \in x .. x + n - 1
                              THEN Program(f[a], w.cells[a - x + 1]) ELSE f[a]
  BY <1>5, <1>7
<1>11. PageKept(f, e, p)
  <2> SUFFICES ASSUME NEW a \in Base(p) + 1 .. End(p) - 1 PROVE e[a] = f[a] BY DEF PageKept
  <2>1. a \in Nat /\ Base(p) <= a /\ a < End(p) /\ ~(a \in x .. x + n - 1)
    BY <1>2, <1>4, <1>8, <1>9
  <2>2. a \in Addr BY <2>1, OnPage
  <2> QED BY <1>10, <2>1, <2>2
<1>12. ASSUME n = l PROVE Copied(e, p, s, to, m + 1)
  <2>1. \A k \in 1 .. N : ItemLen(e, s[k]) = ItemLen(f, s[k])
    <3>1. \A y \in Offsets(f, p) : SameItem(f, e, y) BY <1>7, <1>11, SamePage
    <3> QED BY <3>1 DEF Listing, SameItem, N
  <2>2. ASSUME NEW a \in x + l .. End(q) - 1 PROVE e[a] = Erased
    <3>1. a \in Nat /\ Base(q) <= a /\ a < End(q) /\ ~(a \in x .. x + n - 1) /\ a \in x .. End(q) - 1
      BY <1>2, <1>4, <1>8, <1>12
    <3>2. a \in Addr BY <1>1, <3>1, OnPage
    <3>3. f[a] = Erased BY <3>1 DEF Copied, x, q
    <3> QED BY <1>10, <3>1, <3>2, <3>3
  <2>3. ASSUME NEW j \in 0 .. l - 1 PROVE e[x + j] = e[o + j]
    <3> DEFINE a == x + j  b == o + j
    <3>1. /\ a \in Nat /\ Base(q) <= a /\ a < End(q) /\ a \in x .. x + n - 1
          /\ a \in x .. End(q) - 1 /\ a - x + 1 = j + 1 /\ j + 1 \in 1 .. l /\ o + (j + 1) - 1 = b
          /\ b \in o .. o + l - 1
      BY <1>2, <1>4, <1>8, <1>12
    <3> HIDE DEF a, b
    <3>2. a \in Addr BY <1>1, <3>1, OnPage
    <3>3. f[a] = Erased BY <3>1 DEF Copied, x, q
    <3>4. w.cells[a - x + 1] = f[b] BY <1>5, <3>1
    <3>5. e[a] = f[b] BY <1>10, <3>1, <3>2, <3>3, <3>4, Programs
    <3>6. e[b] = f[b] BY <1>2, <1>11, <3>1 DEF PageKept
    <3> QED BY <3>5, <3>6 DEF a, b
  <2>4. ASSUME NEW k \in 1 .. m, NEW j \in 0 .. ItemLen(f, s[k]) - 1
        PROVE  e[to[k - 1] + j] = e[s[k] + j]
    <3> DEFINE y == to[k - 1]  z == ItemLen(f, s[k])  u == s[k]
    <3>1. k \in 1 .. N /\ k \in 0 .. N /\ m \in 0 .. N /\ k - 1 \in 0 .. N /\ k <= m BY <1>1
    <3>2. y \in Nat /\ to[k] = y + z /\ Base(q) < y /\ to[k] <= to[m] /\ to[k] \in Nat
      BY <1>3, <3>1 DEF Placed, N, q
    <3>3. z \in Nat /\ u \in Nat /\ u .. u + z - 1 \subseteq Base(p) + 1 .. End(p) - 1
      BY <3>1, ItemInPage DEF Listing, N
    <3>4. y + z <= x BY <3>2 DEF x
    <3>5. f[y + j] = f[u + j] BY DEF Copied
    <3>6. j \in 0 .. z - 1 OBVIOUS
    <3> HIDE DEF y, z, u
    <3>7. y + j \in Nat /\ Base(q) <= y + j /\ y + j < End(q) /\ ~(y + j \in x .. x + n - 1)
      <4>1. j \in Int /\ 0 <= j /\ j < z BY <3>3, <3>6
      <4>2. y + j \in Nat /\ y + j < x /\ Base(q) < y + j BY <1>4, <1>8, <3>2, <3>3, <3>4, <4>1
      <4> QED BY <1>2, <1>4, <1>8, <1>9, <4>2
    <3>8. y + j \in Addr BY <1>1, <3>7, OnPage
    <3>9. e[y + j] = f[y + j] BY <1>10, <3>7, <3>8
    <3>10. u + j \in u .. u + z - 1 BY <3>3, <3>6
    <3>11. e[u + j] = f[u + j] BY <1>11, <3>3, <3>10 DEF PageKept
    <3> QED BY <3>5, <3>9, <3>11 DEF y, u
  <2>5. \A k \in 1 .. m + 1 : k \in 1 .. m \/ k = m + 1 BY <1>1
  <2>6. \A k \in 1 .. m + 1 : \A j \in 0 .. ItemLen(e, s[k]) - 1 : e[to[k - 1] + j] = e[s[k] + j]
    <3> SUFFICES ASSUME NEW k \in 1 .. m + 1, NEW j \in 0 .. ItemLen(e, s[k]) - 1
                 PROVE  e[to[k - 1] + j] = e[s[k] + j]
      OBVIOUS
    <3>1. k \in 1 .. N BY <1>1
    <3>2. j \in 0 .. ItemLen(f, s[k]) - 1 BY <2>1, <3>1
    <3>3. CASE k \in 1 .. m BY <2>4, <3>2, <3>3
    <3>4. CASE k = m + 1
      <4>1. s[k] = o /\ to[k - 1] = x BY <1>1, <3>4 DEF o, x
      <4> QED BY <2>3, <3>2, <4>1 DEF l
    <3> QED BY <2>5, <3>3, <3>4
  <2> QED BY <1>1, <1>4, <2>2, <2>6 DEF Copied, N, q
<1> QED BY <1>5, <1>6, <1>7, <1>11, <1>12 DEF e, q, l

(* What is written on the other page is a cell of a copy.                  *)
LEMMA Located ==
  ASSUME NEW f \in [Addr -> Cell], NEW p \in Page, Fenced(f), NEW s, Listing(f, p, s),
         NEW to, Placed(f, p, s, to), Copied(f, p, s, to, Len(s)),
         NEW a \in Nat, Base(3 - p) < a, a < End(3 - p), f[a] # Erased
  PROVE  \E k \in 1 .. Len(s) : \E j \in 0 .. ItemLen(f, s[k]) - 1 :
           a = to[k - 1] + j /\ f[a] = f[s[k] + j]
<1> DEFINE n == Len(s)  q == 3 - p  T == {k \in 0 .. n : a < to[k]}
<1>1. n \in Nat BY DEF Listing
<1>2. /\ \A k \in 0 .. n : to[k] \in Nat
      /\ to[0] = Base(q) + 1
  BY PlacedOrder DEF Placed
<1>3. Base(q) \in Nat /\ End(q) \in Nat BY PageFacts DEF Page
<1>4. ~(to[n] <= a)
  <2> SUFFICES ASSUME to[n] <= a PROVE FALSE OBVIOUS
  <2>1. n \in 0 .. n BY <1>1
  <2>2. a \in to[n] .. End(q) - 1 BY <1>2, <1>3, <2>1
  <2> QED BY <2>2 DEF Copied
<1>5. n \in 0 .. n /\ a < to[n] BY <1>1, <1>2, <1>4
<1>6. T # {} /\ T \in SUBSET Nat BY <1>5
<1>7. PICK k \in T : \A y \in T : k <= y BY <1>6, Least
<1>8. k \in 0 .. n /\ a < to[k] /\ k # 0 BY <1>2, <1>3
<1>9. k \in 1 .. n /\ k - 1 \in 0 .. n /\ ~(k <= k - 1) BY <1>1, <1>8
<1>10. ~(a < to[k - 1]) BY <1>7, <1>9
<1> HIDE DEF T, q, n
<1>11. to[k] = to[k - 1] + ItemLen(f, s[k]) BY <1>9 DEF Placed, n
<1>12. ItemLen(f, s[k]) \in Nat BY <1>9, ItemInPage DEF Listing, n
<1> DEFINE x == to[k - 1]  l == ItemLen(f, s[k])  j == a - x
<1>13. x \in Nat /\ l \in Nat /\ a < x + l /\ x <= a BY <1>2, <1>8, <1>9, <1>10, <1>11, <1>12
<1> HIDE DEF x, l
<1>14. j \in 0 .. l - 1 /\ a = x + j BY <1>13
<1> HIDE DEF j
<1>15. f[x + j] = f[s[k] + j] BY <1>9, <1>14 DEF Copied, x, l, n
<1> QED BY <1>9, <1>14, <1>15 DEF x, l, n

(* When all items are copied, each is an item of the other page too, with  *)
(* the same identifier and file.                                           *)
LEMMA CopiedItem ==
  ASSUME NEW f \in [Addr -> Cell], NEW p \in Page, Fenced(f), NEW s, Listing(f, p, s),
         NEW to, Placed(f, p, s, to), Copied(f, p, s, to, Len(s)), NEW k \in 1 .. Len(s)
  PROVE  /\ to[k - 1] \in Offsets(f, 3 - p)
         /\ f[to[k - 1]] = f[s[k]] /\ f[to[k - 1] + 1] = f[s[k] + 1]
<1> DEFINE q == 3 - p  o == s[k]  x == to[k - 1]  v == f[o + 1].file  l == FileLen[v]
<1>1. q \in Page /\ k \in 0 .. Len(s) BY DEF Page
<1>2. o \in Offsets(f, p) BY DEF Listing
<1>3. Holds(f, p, o, v) /\ ItemLen(f, o) = 2 + l BY <1>2, CellsOfItem
<1>4. /\ o \in Nat /\ o < End(p) - MIN_FILE_LEN /\ v \in Files /\ l \in Nat /\ l >= 1
      /\ o + 2 + l <= End(p) /\ f[o].id \in Ids /\ f[o] = Id(f[o].id)
      /\ f[o + 1].is = "meta" /\ \A j \in 1 .. l : f[o + 1 + j] = Data(v, j)
  BY <1>3 DEF Holds
<1>5. x \in Nat /\ Base(q) < x /\ x + Base(p) <= o + Base(q) BY DEF Placed
<1>6. \A j \in 0 .. ItemLen(f, o) - 1 : f[x + j] = f[o + j] BY DEF Copied
<1>7. /\ End(p) = Base(p) + PageLen /\ End(q) = Base(q) + PageLen /\ PageLen \in Nat
      /\ Base(p) \in Nat /\ Base(q) \in Nat
  BY <1>1, PageFacts
<1> HIDE DEF q, o, x, l, v
<1>8. \A j \in 0 .. 1 + l : f[x + j] = f[o + j]
  <2>1. 0 .. 1 + l = 0 .. (2 + l) - 1 BY <1>4
  <2> QED BY <1>3, <1>6, <2>1
<1>9. f[x] = f[o] /\ f[x + 1] = f[o + 1]
  <2>1. 0 \in 0 .. 1 + l /\ 1 \in 0 .. 1 + l /\ x + 0 = x /\ o + 0 = o BY <1>4, <1>5
  <2> QED BY <1>8, <2>1
<1>10. ASSUME NEW j \in 1 .. l PROVE f[x + 1 + j] = Data(v, j)
  <2>1. 1 + j \in 0 .. 1 + l /\ x + (1 + j) = x + 1 + j /\ o + (1 + j) = o + 1 + j
    BY <1>4, <1>5
  <2> QED BY <1>4, <1>8, <2>1
<1>11. x < End(q) - MIN_FILE_LEN /\ x + 2 + l <= End(q)
  BY <1>4, <1>5, <1>7 DEF MIN_FILE_LEN, ITEM_HEADER_SZ
<1>12. f[x + 1].file = v BY <1>9 DEF v
<1>13. Holds(f, q, x, v) BY <1>4, <1>5, <1>9, <1>10, <1>11, <1>12 DEF Holds, l
<1>14. x \in Offsets(f, q) BY <1>1, <1>13, ItemOfCells
<1> QED BY <1>9, <1>14 DEF x, q, o

(* The copy shows what the page shows.                                     *)
LEMMA CopyShows ==
  ASSUME NEW f \in [Addr -> Cell], NEW p \in Page, Fenced(f), NEW s, Listing(f, p, s),
         NEW to, Placed(f, p, s, to), Copied(f, p, s, to, Len(s))
  PROVE  /\ \A i, v : Shows(f, p, i, v) => Shows(f, 3 - p, i, v)
         /\ Headed(f, 3 - p)
<1> DEFINE q == 3 - p  n == Len(s)
<1>1. q \in Page /\ n \in Nat BY DEF Page, Listing
<1>2. ASSUME NEW k \in 1 .. n, NEW j \in 0 .. ItemLen(f, s[k]) - 1
      PROVE  /\ j = 0 => f[s[k] + j].is = "id"
             /\ j = 1 => f[s[k] + j].is = "meta"
             /\ j > 1 => f[s[k] + j] = Data(f[s[k] + 1].file, j - 1)
  <2> DEFINE o == s[k]  v == f[o + 1].file  l == FileLen[v]
  <2>1. o \in Offsets(f, p) BY DEF Listing
  <2>2. Holds(f, p, o, v) /\ ItemLen(f, o) = 2 + l BY <2>1, CellsOfItem
  <2>3. /\ o \in Nat /\ l \in Nat /\ f[o].is = "id" /\ f[o + 1].is = "meta"
        /\ \A m \in 1 .. l : f[o + 1 + m] = Data(v, m)
    BY <2>2 DEF Holds, Id
  <2>4. j \in 0 .. (2 + l) - 1 BY <2>2
  <2> HIDE DEF o, v, l
  <2>5. j = 0 => o + j = o BY <2>3
  <2>6. ASSUME j > 1 PROVE f[o + j] = Data(v, j - 1)
    <3>1. j - 1 \in 1 .. l /\ o + 1 + (j - 1) = o + j BY <2>3, <2>4, <2>6
    <3> QED BY <2>3, <3>1
  <2> QED BY <2>3, <2>5, <2>6 DEF o, v
<1>3. ASSUME NEW x \in Offsets(f, q) PROVE \E k \in 1 .. n : x = to[k - 1]
  <2>1. x \in Nat /\ Base(q) < x /\ x < End(q) /\ f[x].is = "id"
    <3>1. x \in Nat /\ Base(q) < x /\ x < End(q) - 3 /\ is_item(f, q, x)
      BY <1>1, OffsetFacts DEF MIN_FILE_LEN, ITEM_HEADER_SZ
    <3>2. End(q) \in Nat BY <1>1, PageFacts
    <3> HIDE DEF q
    <3>3. x < End(q) BY <3>1, <3>2
    <3> QED BY <3>1, <3>3 DEF is_item
  <2>2. f[x] # Erased BY <2>1 DEF Erased
  <2>3. PICK k \in 1 .. n : \E j \in 0 .. ItemLen(f, s[k]) - 1 :
          x = to[k - 1] + j /\ f[x] = f[s[k] + j]
    BY <2>1, <2>2, Located
  <2>4. PICK j \in 0 .. ItemLen(f, s[k]) - 1 : x = to[k - 1] + j /\ f[x] = f[s[k] + j]
    BY <2>3
  <2>5. j = 0
    <3>1. j = 0 \/ j = 1 \/ j > 1 OBVIOUS
    <3> DEFINE c == f[s[k] + j]
    <3>2. c.is = "id" BY <2>1, <2>4
    <3>3. /\ j = 1 => c.is = "meta"
          /\ j > 1 => c = Data(f[s[k] + 1].file, j - 1)
      BY <1>2
    <3> HIDE DEF c
    <3>4. j > 1 => c.is = "data" BY <3>3 DEF Data
    <3> QED BY <3>1, <3>2, <3>3, <3>4
  <2>6. to[k - 1] \in Nat BY DEF Placed
  <2> QED BY <2>4, <2>5, <2>6
<1>4. ASSUME NEW k \in 1 .. n
      PROVE  to[k - 1] \in Offsets(f, q) /\ f[to[k - 1]] = f[s[k]] /\ f[to[k - 1] + 1] = f[s[k] + 1]
  BY CopiedItem
<1>5. ASSUME NEW i, NEW v, Shows(f, p, i, v) PROVE Shows(f, q, i, v)
  <2>1. ASSUME NEW x \in Named(f, q, i) PROVE \E k \in 1 .. n : x = to[k - 1] /\ s[k] \in Named(f, p, i)
    <3>1. PICK k \in 1 .. n : x = to[k - 1] BY <1>3 DEF Named
    <3>2. s[k] \in Offsets(f, p) BY DEF Listing
    <3> HIDE DEF q
    <3>3. f[s[k]].id = i BY <1>4, <3>1 DEF Named
    <3> QED BY <3>1, <3>2, <3>3 DEF Named
  <2>2. CASE Named(f, p, i) = {} /\ v = NoFile
    <3>1. Named(f, q, i) = {} BY <2>1, <2>2
    <3> QED BY <2>2, <3>1 DEF Shows
  <2>3. ASSUME NEW o, Newest(f, p, i, o), v = f[o + 1].file PROVE Shows(f, q, i, v)
    <3>1. o \in Offsets(f, p) /\ f[o].id = i BY <2>3 DEF Newest, Named
    <3>2. PICK k \in 1 .. n : s[k] = o BY <3>1 DEF Listing
    <3> DEFINE y == to[k - 1]
    <3>3. y \in Offsets(f, q) /\ f[y] = f[o] /\ f[y + 1] = f[o + 1] BY <1>4, <3>2
    <3>4. y \in Named(f, q, i) BY <3>1, <3>3 DEF Named
    <3>5. ASSUME NEW x \in Named(f, q, i) PROVE x <= y
      <4>1. PICK j \in 1 .. n : x = to[j - 1] /\ s[j] \in Named(f, p, i) BY <2>1
      <4>2. s[j] <= s[k] BY <2>3, <3>2, <4>1 DEF Newest
      <4>3. ~(k < j)
        <5> SUFFICES ASSUME k < j PROVE FALSE OBVIOUS
        <5>1. s[k] < s[j] /\ s[k] \in Nat /\ s[j] \in Nat BY DEF Listing
        <5> QED BY <4>2, <5>1
      <4>4. j - 1 \in 0 .. n /\ k - 1 \in 0 .. n /\ j - 1 <= k - 1 BY <1>1, <4>3
      <4>5. to[j - 1] <= to[k - 1] BY <4>4, PlacedOrder
      <4> QED BY <4>1, <4>5
    <3> HIDE DEF y
    <3> QED BY <2>3, <3>3, <3>4, <3>5 DEF Shows, Newest
  <2> QED BY <1>5, <2>2, <2>3 DEF Shows
<1>6. ASSUME NEW a \in Base(q) + 1 .. End(q) - 3, Erased \in {f[a], f[a + 1]},
             NEW v \in Files, f[a + 2] = Data(v, 1)
      PROVE  FALSE
  <2>1. a \in Nat /\ a + 2 \in Nat /\ Base(q) < a + 2 /\ a + 2 < End(q) BY <1>1, PageFacts
  <2>2. f[a + 2] # Erased BY <1>6 DEF Data, Erased
  <2>3. PICK k \in 1 .. n : \E j \in 0 .. ItemLen(f, s[k]) - 1 :
          a + 2 = to[k - 1] + j /\ f[a + 2] = f[s[k] + j]
    BY <2>1, <2>2, Located
  <2>4. PICK j \in 0 .. ItemLen(f, s[k]) - 1 : a + 2 = to[k - 1] + j /\ f[a + 2] = f[s[k] + j]
    BY <2>3
  <2>5. f[s[k] + j].is = "data" /\ f[s[k] + j].at = 1 BY <1>6, <2>4 DEF Data
  <2>6. j = 2
    <3>1. j = 0 \/ j = 1 \/ j > 1 OBVIOUS
    <3>2. j # 0 /\ j # 1 BY <1>2, <2>5
    <3>3. f[s[k] + j] = Data(f[s[k] + 1].file, j - 1) BY <1>2, <3>1, <3>2
    <3>4. j - 1 = 1 BY <2>5, <3>3 DEF Data
    <3> QED BY <3>4
  <2>7. to[k - 1] \in Nat BY DEF Placed
  <2>8. a = to[k - 1] BY <2>1, <2>4, <2>6, <2>7
  <2>9. f[a] = f[s[k]] /\ f[a + 1] = f[s[k] + 1] BY <1>4, <2>8
  <2>10. f[s[k]].is = "id" /\ f[s[k] + 1].is = "meta"
    <3>1. s[k] \in Offsets(f, p) BY DEF Listing
    <3> QED BY <3>1, OffsetFacts DEF is_item
  <2> QED BY <1>6, <2>9, <2>10 DEF Erased
<1>7. Headed(f, q) BY <1>6 DEF Headed
<1> QED BY <1>5, <1>7

-----------------------------------------------------------------------------
(* What a step that no caller sees does.                                   *)
Sound(f) ==
  /\ f \in [Addr -> Cell] /\ Fenced(f)
  /\ \A p \in Page : p = mm_get_active_page(f) => Headed(f, p)

(* No mm_get can tell the two flashes apart.                               *)
Unseen(f, e) == \A i : mm_get(e, i) = mm_get(f, i)

(* While the active page keeps showing the same files, mm_get returns the  *)
(* same.                                                                   *)
LEMMA KeepsUnseen ==
  ASSUME Zeroable, NEW f \in [Addr -> Cell], NEW e \in [Addr -> Cell],
         NEW p \in Page, p = mm_get_active_page(f), p = mm_get_active_page(e),
         \A i : Keeps(f, e, p, i)
  PROVE  Unseen(f, e)
<1> SUFFICES ASSUME NEW i PROVE mm_get(e, i) = mm_get(f, i) BY DEF Unseen
<1>1. Shows(f, p, i, mm_get(f, i)) BY GetShows
<1>2. Keeps(f, e, p, i) OBVIOUS
<1>3. Shows(e, p, i, mm_get(f, i)) BY <1>1, <1>2 DEF Keeps
<1> QED BY <1>3, ShowsGet

(* A write of one cell is done or not; where it is done and verified the   *)
(* cell holds the value.                                                   *)
LEMMA OneCell ==
  ASSUME NEW f \in [Addr -> Cell], NEW a \in Addr, NEW c \in Cell, NEW n \in 0 .. 1
  PROVE  LET w == Write(a, <<c>>)
             e == Done(f, w, n)
         IN  /\ w \in Operation /\ Len(w.cells) = 1 /\ e \in [Addr -> Cell]
             /\ n = 0 => e = f
             /\ n = 1 => \A b \in Addr : e[b] = IF b = a THEN Program(f[a], c) ELSE f[b]
             /\ n = 1 /\ Verified(e, w) => e[a] = c
<1> DEFINE w == Write(a, <<c>>)  e == Done(f, w, n)
<1>1. /\ w = [op |-> "write", addr |-> a, cells |-> <<c>>]
      /\ w.op = "write" /\ w.addr = a /\ w.cells = <<c>> /\ Len(w.cells) = 1 /\ w.cells[1] = c
  BY DEF Write
<1>2. a \in Nat /\ a + 1 <= 2 * PageLen BY PageFacts
<1> HIDE DEF w
<1>3. w \in Operation
  <2>1. <<c>> \in Seq(Cell) OBVIOUS
  <2> QED BY <1>1, <1>2, <2>1 DEF Operation
<1>4. n \in 0 .. Len(w.cells) BY <1>1
<1>5. e \in [Addr -> Cell] BY <1>3, <1>4, DoneTyped
<1>6. n = 0 => e = f BY <1>3, DoneNothing
<1>7. InRegion(w) BY <1>1, <1>2 DEF InRegion
<1>8. ASSUME n = 1, NEW b \in Addr PROVE e[b] = IF b = a THEN Program(f[a], c) ELSE f[b]
  <2>1. e[b] = IF b \in a .. a + n - 1 THEN Program(f[b], w.cells[b - a + 1]) ELSE f[b]
    BY <1>1, <1>7 DEF Done
  <2>2. b \in a .. a + n - 1 <=> b = a BY <1>2, <1>8 DEF Addr
  <2>3. a - a + 1 = 1 BY <1>2
  <2> QED BY <1>1, <2>1, <2>2, <2>3
<1>9. ASSUME Verified(e, w) PROVE e[a] = c
  <2>1. 1 \in 1 .. Len(w.cells) /\ a + 1 - 1 = a BY <1>1, <1>2
  <2> HIDE DEF e
  <2>2. e[w.addr + 1 - 1] = w.cells[1] BY <1>9, <2>1 DEF Verified
  <2> QED BY <1>1, <2>1, <2>2
<1> QED BY <1>1, <1>3, <1>5, <1>6, <1>8, <1>9 DEF w

(* Where a turn of the pages stands.                                       *)
Copying(f, p, t) ==
  \E s, to, m :
    /\ Listing(f, p, s) /\ Placed(f, p, s, to) /\ Copied(f, p, s, to, m)
    /\ t \in Seq(Operation) /\ Len(t) = Len(s) - m + 2
    /\ \A k \in 1 .. Len(s) - m : CopyOf(f, s[m + k], to[m + k - 1], t[k])
    /\ t[Len(s) - m + 1] = Write(Base(3 - p), <<Marker>>)
    /\ t[Len(s) - m + 2] = Write(Base(p), <<Zero>>)

(* The last operation of a turn: both pages are marked, and the other      *)
(* shows all that this one shows.                                          *)
Unmarking(f, p, t) ==
  /\ t = << Write(Base(p), <<Zero>>) >>
  /\ \A r \in Page : f[Base(r)] = Marker
  /\ \A i, v : Shows(f, p, i, v) => Shows(f, 3 - p, i, v)
  /\ Headed(f, 3 - p)

(* What is left of mm_turn_page at any moment.                             *)
TurningNow(f, t) ==
  \E p \in Page : \/ p = mm_get_active_page(f) /\ (t = mm_turn_page(f) \/ Copying(f, p, t))
                  \/ Unmarking(f, p, t)

(* An erase cut short leaves the page erased up to where it was cut.       *)
LEMMA ErasePage ==
  ASSUME NEW f \in [Addr -> Cell], NEW q \in Page, NEW n \in 0 .. PageLen
  PROVE  LET w == Erase(q)
             e == Done(f, w, n)
         IN  /\ w \in Operation /\ Len(w.cells) = PageLen /\ e \in [Addr -> Cell]
             /\ \A a \in Addr : e[a] = IF a \in Base(q) .. Base(q) + n - 1 THEN Erased ELSE f[a]
<1> DEFINE w == Erase(q)  e == Done(f, w, n)  c == [k \in 1 .. PageLen |-> Erased]
<1>1. PageLen \in Nat /\ Base(q) \in Nat /\ Base(q) + PageLen <= 2 * PageLen
  BY PageFacts DEF Page
<1>2. c \in Seq(Cell) /\ Len(c) = PageLen BY <1>1 DEF Cell
<1>3. /\ w = [op |-> "erase", addr |-> Base(q), cells |-> c]
      /\ w.op = "erase" /\ w.addr = Base(q) /\ w.cells = c
  BY DEF Erase
<1> HIDE DEF w, c
<1>4. w \in Operation /\ Len(w.cells) = PageLen BY <1>1, <1>2, <1>3 DEF Operation
<1>5. InRegion(w) BY <1>1, <1>2, <1>3 DEF InRegion
<1>6. \A a \in Addr : e[a] = IF a \in Base(q) .. Base(q) + n - 1 THEN Erased ELSE f[a]
  BY <1>3, <1>5 DEF Done
<1>7. e \in [Addr -> Cell] BY <1>4, DoneTyped
<1> QED BY <1>4, <1>6, <1>7 DEF w

(* The copy to make of an item stays the same while its page does not      *)
(* change.                                                                 *)
LEMMA CopyOfKept ==
  ASSUME NEW f \in [Addr -> Cell], NEW e \in [Addr -> Cell], NEW p \in Page,
         Fenced(f), Fenced(e), PageKept(f, e, p),
         NEW o \in Offsets(f, p), NEW a, NEW w, CopyOf(f, o, a, w)
  PROVE  CopyOf(e, o, a, w)
<1> DEFINE l == ItemLen(f, o)
<1>1. /\ o \in Nat /\ l \in Nat /\ o .. o + l - 1 \subseteq Base(p) + 1 .. End(p) - 1
  BY ItemInPage
<1>2. ItemLen(e, o) = l BY SamePage DEF SameItem
<1> HIDE DEF l
<1>3. \A j \in 1 .. l : o + j - 1 \in o .. o + l - 1 BY <1>1
<1>4. \A j \in 1 .. l : e[o + j - 1] = f[o + j - 1] BY <1>1, <1>3 DEF PageKept
<1> QED BY <1>2, <1>4 DEF CopyOf, l

(* The items to copy and their addresses stay the same while the active    *)
(* page does not change.                                                   *)
LEMMA PlanKept ==
  ASSUME NEW f \in [Addr -> Cell], NEW e \in [Addr -> Cell], NEW p \in Page,
         Fenced(f), Fenced(e), PageKept(f, e, p),
         NEW s, Listing(f, p, s), NEW to, Placed(f, p, s, to)
  PROVE  Listing(e, p, s) /\ Placed(e, p, s, to)
<1>1. Offsets(e, p) = Offsets(f, p) /\ \A x \in Offsets(f, p) : SameItem(f, e, x)
  BY SamePage
<1>2. Listing(e, p, s) BY <1>1 DEF Listing
<1>3. \A k \in 1 .. Len(s) : ItemLen(e, s[k]) = ItemLen(f, s[k])
  BY <1>1 DEF Listing, SameItem
<1>4. Placed(e, p, s, to) BY <1>3 DEF Placed
<1> QED BY <1>2, <1>4

(* The erase that begins mm_turn_page, cut short or whole, changes no      *)
(* mm_get; whole, it leaves the copying.                                   *)
LEMMA EraseStep ==
  ASSUME Zeroable, NEW f, Sound(f), NEW p \in Page, p = mm_get_active_page(f),
         NEW t, t = mm_turn_page(f), NEW n \in 0 .. Len(Head(t).cells)
  PROVE  LET e == Done(f, Head(t), n)
         IN  /\ t # << >> /\ Sound(e) /\ Unseen(f, e)
             /\ n = Len(Head(t).cells) => Copying(e, p, Tail(t)) /\ p = mm_get_active_page(e)
<1> DEFINE q == 3 - p  w == Erase(q)  e == Done(f, w, n)  E == Done(f, w, PageLen)
           y == Write(Base(q), <<Marker>>)  z == Write(Base(p), <<Zero>>)
<1>0. f \in [Addr -> Cell] /\ Fenced(f) /\ Headed(f, p) BY DEF Sound
<1>1. PICK s, to, c :
        /\ t = <<w>> \o c \o << y, z >> /\ s = Items(E, p, Ids) /\ Placed(f, p, s, to)
        /\ AllApart(p, c) /\ Len(c) = Len(s)
        /\ \A k \in 1 .. Len(s) : CopyOf(f, s[k], to[k - 1], c[k])
  <2>1. p # 0 BY DEF Page
  <2> QED BY <1>0, <2>1, TurnPlan
<1>2. q \in Page /\ PageLen \in Nat /\ PageLen \in 0 .. PageLen BY PageFacts DEF Page
<1>3. w \in Operation /\ Len(w.cells) = PageLen
  BY <1>0, <1>2, ErasePage
<1>4. y \in Operation /\ z \in Operation
  <2>1. Base(p) \in Addr /\ Base(q) \in Addr /\ Marker \in Cell /\ Zero \in Cell /\ 1 \in 0 .. 1
    BY <1>2, PageFacts DEF Cell
  <2> QED BY <1>0, <2>1, OneCell
<1>5. c \in Seq(Operation) BY <1>1 DEF AllApart
<1> HIDE DEF q, w, y, z
<1> DEFINE r == c \o << y, z >>  N == Len(c)
<1>6. /\ t # << >> /\ Head(t) = w /\ Tail(t) = r /\ r \in Seq(Operation)
      /\ N \in Nat /\ Len(r) = N + 2 /\ r[N + 1] = y /\ r[N + 2] = z
      /\ \A k \in 1 .. N : r[k] = c[k]
  <2>1. <<w>> \in Seq(Operation) /\ << y, z >> \in Seq(Operation) /\ Len(<< y, z >>) = 2
        /\ <<w>> # << >> /\ Head(<<w>>) = w /\ Tail(<<w>>) = << >>
        /\ << y, z >>[1] = y /\ << y, z >>[2] = z
    BY <1>3, <1>4
  <2> DEFINE yz == << y, z >>
  <2>2. yz \in Seq(Operation) /\ Len(yz) = 2 /\ yz[1] = y /\ yz[2] = z BY <2>1
  <2> HIDE DEF yz
  <2>3. /\ r = c \o yz /\ c \o yz \in Seq(Operation) /\ Len(c \o yz) = N + 2
        /\ \A k \in 1 .. N + 2 : (c \o yz)[k] = IF k <= N THEN c[k] ELSE yz[k - N]
    BY <1>5, <2>2, Joined DEF yz
  <2>4. N \in Nat BY <1>5
  <2> HIDE DEF r
  <2>5. /\ r \in Seq(Operation) /\ Len(r) = N + 2
        /\ \A k \in 1 .. N + 2 : r[k] = IF k <= N THEN c[k] ELSE yz[k - N]
    BY <2>3
  <2>6. t = <<w>> \o r BY <1>1, <1>5, <2>1, JoinedTwice DEF r
  <2>7. Head(t) = w /\ Tail(t) = << >> \o r BY <2>1, <2>5, <2>6, HeadJoined
  <2>8. Tail(t) = r BY <2>5, <2>7, NoneJoined
  <2>9. t # << >> BY <2>1, <2>5, <2>6
  <2> HIDE DEF N
  <2>10. /\ N + 1 \in 1 .. N + 2 /\ N + 2 \in 1 .. N + 2 /\ N + 1 - N = 1 /\ N + 2 - N = 2
         /\ ~(N + 1 <= N) /\ ~(N + 2 <= N)
         /\ \A k \in 1 .. N : k \in 1 .. N + 2 /\ k <= N
    BY <2>4
  <2>11. r[N + 1] = yz[1]
    <3> DEFINE x == N + 1
    <3>1. x \in 1 .. N + 2 /\ ~(x <= N) /\ x - N = 1 BY <2>4
    <3> HIDE DEF x
    <3>2. r[x] = yz[x - N] BY <2>5, <3>1
    <3>3. r[x] = yz[1] BY <3>1, <3>2
    <3> QED BY <3>3 DEF x
  <2>12. r[N + 2] = yz[2]
    <3> DEFINE x == N + 2
    <3>1. x \in 1 .. N + 2 /\ ~(x <= N) /\ x - N = 2 BY <2>4
    <3> HIDE DEF x
    <3>2. r[x] = yz[x - N] BY <2>5, <3>1
    <3>3. r[x] = yz[2] BY <3>1, <3>2
    <3> QED BY <3>3 DEF x
  <2>13. \A k \in 1 .. N : r[k] = c[k] BY <2>5, <2>10
  <2> QED BY <2>2, <2>4, <2>5, <2>7, <2>8, <2>9, <2>11, <2>12, <2>13
<1>7. n \in 0 .. PageLen BY <1>3, <1>6
<1>8. /\ e \in [Addr -> Cell]
      /\ \A a \in Addr : e[a] = IF a \in Base(q) .. Base(q) + n - 1 THEN Erased ELSE f[a]
  BY <1>0, <1>2, <1>7, ErasePage DEF w
<1> HIDE DEF e, r, N
<1>9. /\ Base(p) \in Addr /\ Base(q) \in Addr /\ Base(p) \in Nat /\ Base(q) \in Nat
      /\ End(q) = Base(q) + PageLen /\ (End(p) <= Base(q) \/ End(q) <= Base(p))
      /\ Base(p) + PageLen = End(p) /\ PageLen >= 5
      /\ p \in {1, 2} /\ q \in {1, 2} /\ p # q
  BY <1>2, PageFacts DEF q, Page
<1>10. e[Base(p)] = f[Base(p)] /\ e[Base(q)] \in {f[Base(q)], Erased}
  <2>1. ~(Base(p) \in Base(q) .. Base(q) + n - 1) BY <1>2, <1>7, <1>9
  <2> QED BY <1>8, <1>9, <2>1
<1>11. PageKept(f, e, p)
  <2> SUFFICES ASSUME NEW a \in Base(p) + 1 .. End(p) - 1 PROVE e[a] = f[a] BY DEF PageKept
  <2>1. a \in Nat /\ Base(p) <= a /\ a < End(p) /\ ~(a \in Base(q) .. Base(q) + n - 1)
    BY <1>2, <1>7, <1>9
  <2>2. a \in Addr BY <2>1, OnPage
  <2> QED BY <1>8, <2>1, <2>2
<1>12. Fenced(e)
  <2>1. p = 2 \/ q = 2 BY <1>9
  <2>2. e[Base(2)] = f[Base(2)] \/ e[Base(2)] = Erased BY <1>10, <2>1
  <2> QED BY <1>0, <2>2 DEF Fenced, Erased
<1>13. p = mm_get_active_page(e)
  <2>1. f[Base(p)] = Marker BY ActivePage DEF Page
  <2>2. p = 2 => q = 1 /\ f[Base(1)] # Marker BY <1>9 DEF mm_get_active_page
  <2>3. Erased # Marker BY DEF Erased, Marker
  <2>4. p = 2 => e[Base(1)] # Marker BY <1>10, <2>2, <2>3
  <2> QED BY <1>9, <1>10, <2>1, <2>4 DEF mm_get_active_page
<1>14. /\ Offsets(e, p) = Offsets(f, p) /\ \A x \in Offsets(f, p) : SameItem(f, e, x)
       /\ Headed(e, p) /\ \A i : Keeps(f, e, p, i)
  BY <1>0, <1>8, <1>11, <1>12, SamePage
<1>15. Sound(e) BY <1>8, <1>12, <1>13, <1>14 DEF Sound
<1>16. Unseen(f, e) BY <1>0, <1>8, <1>13, <1>14, KeepsUnseen
<1>17. ASSUME n = Len(w.cells) PROVE Copying(e, p, r)
  <2>1. n = PageLen BY <1>3, <1>17
  <2>2. s = Items(e, p, Ids) BY <1>1, <2>1 DEF e
  <2>3. Listing(e, p, s) BY <1>8, <2>2, ItemsListing
  <2>4. \A k \in 1 .. Len(s) : s[k] \in Offsets(f, p) /\ ItemLen(e, s[k]) = ItemLen(f, s[k])
    BY <1>14, <2>3 DEF Listing, SameItem
  <2>5. Placed(e, p, s, to) BY <1>1, <2>4 DEF Placed
  <2>6. Copied(e, p, s, to, 0)
    <3>1. Len(s) \in Nat BY <2>3 DEF Listing
    <3>2. to[0] = Base(q) + 1 BY <1>1 DEF Placed, q
    <3>3. ASSUME NEW a \in to[0] .. End(q) - 1 PROVE e[a] = Erased
      <4>1. a \in Nat /\ Base(q) <= a /\ a < End(q) /\ a \in Base(q) .. Base(q) + n - 1
        BY <1>2, <1>9, <2>1, <3>2
      <4>2. a \in Addr BY <1>2, <4>1, OnPage
      <4> QED BY <1>8, <4>1, <4>2
    <3>4. \A k \in 1 .. 0 : FALSE OBVIOUS
    <3> QED BY <3>1, <3>3, <3>4 DEF Copied, q
  <2>7. ASSUME NEW k \in 1 .. Len(s) PROVE CopyOf(e, s[k], to[k - 1], c[k])
    BY <1>0, <1>1, <1>8, <1>11, <1>12, <2>4, CopyOfKept
  <2>8. N = Len(s) BY <1>1 DEF N
  <2>9. /\ Len(s) \in Nat /\ Len(r) = Len(s) - 0 + 2
        /\ r[Len(s) - 0 + 1] = y /\ r[Len(s) - 0 + 2] = z
    <3>1. Len(s) \in Nat BY <1>6, <2>8
    <3>2. Len(s) - 0 = Len(s) BY <3>1
    <3> QED BY <1>6, <2>8, <3>1, <3>2
  <2>10. ASSUME NEW k \in 1 .. Len(s) - 0 PROVE CopyOf(e, s[0 + k], to[0 + k - 1], r[k])
    <3>1. k \in 1 .. Len(s) /\ 0 + k = k /\ k \in 1 .. N BY <2>8, <2>9
    <3>2. r[k] = c[k] BY <1>6, <3>1
    <3> QED BY <2>7, <3>1, <3>2
  <2> QED BY <1>6, <2>3, <2>5, <2>6, <2>9, <2>10 DEF Copying, y, z, q
<1> QED BY <1>6, <1>13, <1>15, <1>16, <1>17 DEF e

(* What is left of a copying after its first copy is a copying of one item *)
(* less.                                                                   *)
LEMMA RestOfPlan ==
  ASSUME NEW f, NEW s, NEW to, NEW N \in Nat, NEW m \in Nat, m < N,
         NEW t \in Seq(Operation), Len(t) = N - m + 2,
         \A k \in 1 .. N - m : CopyOf(f, s[m + k], to[m + k - 1], t[k]),
         NEW r \in Seq(Operation), Len(r) = Len(t) - 1,
         \A k \in 1 .. Len(t) - 1 : r[k] = t[k + 1],
         NEW M, M = m + 1
  PROVE  /\ Len(r) = N - M + 2
         /\ \A k \in 1 .. N - M : CopyOf(f, s[M + k], to[M + k - 1], r[k])
         /\ r[N - M + 1] = t[N - m + 1] /\ r[N - M + 2] = t[N - m + 2]
<1>1. \A k \in 1 .. N - m + 1 : r[k] = t[k + 1]
  <2>1. N - m + 2 - 1 = N - m + 1 OBVIOUS
  <2>2. 1 .. Len(t) - 1 = 1 .. N - m + 1 BY <2>1
  <2> QED BY <2>2
<1>2. Len(r) = N - M + 2 OBVIOUS
<1>3. ASSUME NEW k \in 1 .. N - M PROVE CopyOf(f, s[M + k], to[M + k - 1], r[k])
  <2>1. PICK j : j = k + 1 OBVIOUS
  <2>2. k \in 1 .. N - m + 1 /\ j \in 1 .. N - m /\ m + j = M + k BY <2>1
  <2>3. r[k] = t[j] BY <1>1, <2>1, <2>2
  <2>4. CopyOf(f, s[m + j], to[m + j - 1], t[j]) BY <2>2
  <2> QED BY <2>2, <2>3, <2>4
<1>4. r[N - M + 1] = t[N - m + 1] /\ r[N - M + 2] = t[N - m + 2]
  <2>1. PICK a : a = N - M + 1 OBVIOUS
  <2>2. a \in 1 .. N - m + 1 /\ a + 1 \in 1 .. N - m + 1 BY <2>1
  <2>3. r[a] = t[a + 1] BY <1>1, <2>2
  <2>4. PICK b : b = a + 1 OBVIOUS
  <2>5. r[b] = t[b + 1] BY <1>1, <2>2, <2>4
  <2>6. a + 1 = N - m + 1 /\ b = N - M + 2 /\ b + 1 = N - m + 2 BY <2>1, <2>4
  <2> QED BY <2>1, <2>3, <2>5, <2>6
<1> QED BY <1>2, <1>3, <1>4

(* A copy of mm_turn_page, and the write of its new marker, cut short or   *)
(* whole, change no mm_get: until the old page is unmarked both show the   *)
(* same.                                                                   *)
LEMMA CopyingStep ==
  ASSUME Zeroable, NEW f, Sound(f), NEW p \in Page, p = mm_get_active_page(f),
         NEW t, Copying(f, p, t), NEW n \in 0 .. Len(Head(t).cells)
  PROVE  LET w == Head(t)
             e == Done(f, w, n)
         IN  /\ Sound(e) /\ Unseen(f, e)
             /\ n = Len(w.cells) /\ Verified(e, w) => TurningNow(e, Tail(t))
<1> DEFINE q == 3 - p  w == Head(t)  e == Done(f, w, n)  r == Tail(t)
<1>0. f \in [Addr -> Cell] /\ Fenced(f) /\ Headed(f, p) BY DEF Sound
<1>a. PICK s, to, m :
        /\ Listing(f, p, s) /\ Placed(f, p, s, to) /\ Copied(f, p, s, to, m)
        /\ t \in Seq(Operation) /\ Len(t) = Len(s) - m + 2
        /\ \A k \in 1 .. Len(s) - m : CopyOf(f, s[m + k], to[m + k - 1], t[k])
        /\ t[Len(s) - m + 1] = Write(Base(q), <<Marker>>)
        /\ t[Len(s) - m + 2] = Write(Base(p), <<Zero>>)
  BY DEF Copying
<1> DEFINE N == Len(s)
<1>1. N \in Nat /\ m \in 0 .. N /\ m \in Nat BY <1>a DEF Listing, Copied
<1>2. t # << >> BY <1>1, <1>a
<1>3. /\ w = t[1] /\ w \in Operation /\ r \in Seq(Operation) /\ Len(r) = Len(t) - 1
      /\ \A k \in 1 .. Len(t) - 1 : r[k] = t[k + 1]
  BY <1>2, <1>a, HeadTail
<1>4. n \in 0 .. Len(w.cells) OBVIOUS
<1>5. q \in Page /\ p \in {1, 2} /\ q \in {1, 2} /\ p # q BY DEF Page
<1> HIDE DEF e, w, r, q
<1>6. CASE m # N
  <2>1. m + 1 <= N /\ 1 \in 1 .. N - m /\ m + 1 - 1 = m /\ m + 1 \in 1 .. N BY <1>1, <1>6
  <2>2. CopyOf(f, s[m + 1], to[m], w) BY <1>3, <1>a, <2>1
  <2>3. /\ InPage(q, w) /\ e \in [Addr -> Cell] /\ Fenced(e) /\ PageKept(f, e, p)
        /\ mm_get_active_page(e) = mm_get_active_page(f)
        /\ n = Len(w.cells) => Copied(e, p, s, to, m + 1)
    BY <1>0, <1>4, <1>a, <2>1, <2>2, CopyStep DEF e, q
  <2>4. (\A i : Keeps(f, e, p, i)) /\ Headed(e, p) BY <1>0, <2>3, SamePage
  <2>5. Sound(e) BY <2>3, <2>4 DEF Sound
  <2>6. Unseen(f, e) BY <1>0, <2>3, <2>4, KeepsUnseen
  <2>7. ASSUME n = Len(w.cells) PROVE Copying(e, p, r)
    <3>1. Listing(e, p, s) /\ Placed(e, p, s, to) BY <1>0, <1>a, <2>3, PlanKept
    <3>2. \A k \in 1 .. N : s[k] \in Offsets(f, p) BY <1>a DEF Listing
    <3>3. PICK M : M = m + 1 OBVIOUS
    <3>4. M \in 0 .. N /\ M \in Nat BY <1>1, <2>1, <3>3
    <3>5. /\ Len(r) = N - M + 2
          /\ \A k \in 1 .. N - M : CopyOf(f, s[M + k], to[M + k - 1], r[k])
          /\ r[N - M + 1] = t[N - m + 1] /\ r[N - M + 2] = t[N - m + 2]
      <4>1. PICK K : K = N OBVIOUS
      <4>2. K \in Nat /\ m \in Nat /\ m < K BY <1>1, <2>1, <4>1
      <4>3. t \in Seq(Operation) /\ Len(t) = K - m + 2 BY <1>a, <4>1
      <4>4. \A k \in 1 .. K - m : CopyOf(f, s[m + k], to[m + k - 1], t[k]) BY <1>a, <4>1
      <4>5. r \in Seq(Operation) /\ Len(r) = Len(t) - 1
            /\ \A k \in 1 .. Len(t) - 1 : r[k] = t[k + 1]
        BY <1>3
      <4>6. /\ Len(r) = K - M + 2
            /\ \A k \in 1 .. K - M : CopyOf(f, s[M + k], to[M + k - 1], r[k])
            /\ r[K - M + 1] = t[K - m + 1] /\ r[K - M + 2] = t[K - m + 2]
        <5> HIDE DEF N
        <5> QED BY <3>3, <4>2, <4>3, <4>4, <4>5, RestOfPlan
      <4> QED BY <4>1, <4>6
    <3>6. ASSUME NEW k \in 1 .. N - M PROVE CopyOf(e, s[M + k], to[M + k - 1], r[k])
      <4>1. M + k \in 1 .. N BY <1>1, <3>4
      <4>2. s[M + k] \in Offsets(f, p) BY <3>2, <4>1
      <4> QED BY <1>0, <2>3, <3>5, <4>2, CopyOfKept
    <3>7. r[N - M + 1] = Write(Base(q), <<Marker>>) /\ r[N - M + 2] = Write(Base(p), <<Zero>>)
      BY <1>a, <3>5
    <3>8. Copied(e, p, s, to, M) BY <2>3, <2>7, <3>3
    <3> QED BY <1>3, <3>1, <3>5, <3>6, <3>7, <3>8 DEF Copying, q
  <2> QED BY <2>3, <2>5, <2>6, <2>7 DEF TurningNow, e, w, r
<1>7. CASE m = N
  <2>1. w = Write(Base(q), <<Marker>>) /\ r = << Write(Base(p), <<Zero>>) >>
    <3>1. N - m + 1 = 1 /\ N - m + 2 = 2 BY <1>1, <1>7
    <3>2. w = Write(Base(q), <<Marker>>) BY <1>3, <1>a, <3>1
    <3>3. Len(r) = 1 /\ r[1] = Write(Base(p), <<Zero>>)
      <4>1. Len(t) = 2 /\ 1 \in 1 .. Len(t) - 1 BY <1>a, <3>1
      <4>2. r[1] = t[2] BY <1>3, <4>1
      <4> QED BY <1>3, <1>a, <3>1, <4>1, <4>2
    <3>4. r = << r[1] >> BY <1>3, <3>3
    <3> QED BY <3>2, <3>3, <3>4
  <2>2. Base(q) \in Addr /\ Base(p) \in Addr /\ Marker \in Cell BY <1>5, PageFacts DEF Cell
  <2>3. Len(w.cells) = 1 BY <2>1 DEF Write
  <2>4. n \in 0 .. 1 BY <1>4, <2>3
  <2>5. /\ e \in [Addr -> Cell]
        /\ n = 0 => e = f
        /\ n = 1 => \A b \in Addr : e[b] = IF b = Base(q) THEN Program(f[Base(q)], Marker) ELSE f[b]
        /\ n = 1 /\ Verified(e, w) => e[Base(q)] = Marker
    BY <1>0, <2>1, <2>2, <2>4, OneCell DEF e
  <2>6. CASE n = 0
    <3>1. Unseen(f, e) BY <2>5, <2>6 DEF Unseen
    <3> QED BY <2>3, <2>5, <2>6, <3>1 DEF e, w
  <2>7. CASE n = 1
    <3>1. e[Base(q)] \in {Marker, Zero, Mixed} /\ e[Base(p)] = f[Base(p)]
      <4>1. Base(p) # Base(q) BY <1>5, PageFacts
      <4> QED BY <2>2, <2>5, <2>7, <4>1, Programs
    <3>2. ASSUME NEW u \in Page PROVE PageKept(f, e, u) /\ PageKept(e, f, u)
      <4> SUFFICES ASSUME NEW a \in Base(u) + 1 .. End(u) - 1 PROVE e[a] = f[a]
        BY DEF PageKept
      <4>1. a \in Nat /\ Base(u) <= a /\ a < End(u) /\ a # Base(q)
        <5>1. a \in Nat /\ Base(u) < a /\ a < End(u) /\ Base(u) \in Nat BY PageFacts
        <5>2. u \in {1, 2} BY DEF Page
        <5>3. Base(q) <= Base(u) \/ End(u) <= Base(q)
          <6>1. u = q \/ (u = 1 /\ q = 2) \/ (u = 2 /\ q = 1) BY <1>5, <5>2
          <6>2. Base(u) <= Base(u) BY <5>1
          <6> QED BY <6>1, <6>2, PageFacts
        <5>4. Base(q) \in Nat /\ End(u) \in Nat BY <1>5, PageFacts
        <5> QED BY <5>1, <5>3, <5>4
      <4>2. a \in Addr BY <4>1, OnPage
      <4> QED BY <2>5, <2>7, <4>1, <4>2
    <3>3. Fenced(e)
      <4>1. e[Base(2)] \in {Marker, Zero, Mixed, f[Base(2)]} BY <1>5, <3>1
      <4> QED BY <1>0, <4>1 DEF Fenced, Marker, Zero, Mixed
    <3>4. (\A i, v : Shows(f, p, i, v) => Shows(f, q, i, v)) /\ Headed(f, q)
      BY <1>0, <1>7, <1>a, CopyShows DEF q
    <3>5. \A u \in Page : /\ \A i : Keeps(f, e, u, i) /\ Keeps(e, f, u, i)
                          /\ Headed(f, u) => Headed(e, u)
      BY <1>0, <2>5, <3>2, <3>3, SamePage
    <3>6. Headed(e, p) /\ Headed(e, q) BY <1>0, <1>5, <3>4, <3>5
    <3>7. \A u \in Page : Headed(e, u)
      <4>1. \A u \in Page : u = p \/ u = q BY <1>5 DEF Page
      <4> QED BY <3>6, <4>1
    <3>8. Sound(e) BY <2>5, <3>3, <3>7 DEF Sound
    <3>9. f[Base(p)] = Marker BY ActivePage DEF Page
    <3>10. mm_get_active_page(e) \in {p, q}
      <4>1. p = 1 \/ (p = 2 /\ q = 1) BY <1>5
      <4> QED BY <3>1, <3>9, <4>1 DEF mm_get_active_page
    <3>11. Unseen(f, e)
      <4>1. CASE mm_get_active_page(e) = p BY <1>0, <2>5, <3>5, <4>1, KeepsUnseen
      <4>2. CASE mm_get_active_page(e) = q
        <5> SUFFICES ASSUME NEW i PROVE mm_get(e, i) = mm_get(f, i) BY DEF Unseen
        <5>1. Shows(f, p, i, mm_get(f, i)) BY <1>0, GetShows
        <5>2. Shows(f, q, i, mm_get(f, i)) BY <3>4, <5>1
        <5>3. Keeps(f, e, q, i) BY <1>5, <3>5
        <5>4. Shows(e, q, i, mm_get(f, i)) BY <5>2, <5>3 DEF Keeps
        <5> QED BY <1>5, <2>5, <4>2, <5>4, ShowsGet
      <4> QED BY <3>10, <4>1, <4>2
    <3>12. ASSUME Verified(e, w) PROVE Unmarking(e, p, r)
      <4>1. e[Base(q)] = Marker BY <2>5, <2>7, <3>12
      <4>2. \A u \in Page : e[Base(u)] = Marker
        <5>1. \A u \in Page : u = p \/ u = q BY <1>5 DEF Page
        <5> QED BY <3>1, <3>9, <4>1, <5>1
      <4>3. ASSUME NEW i, NEW v, Shows(e, p, i, v) PROVE Shows(e, q, i, v)
        <5>1. Keeps(e, f, p, i) /\ Keeps(f, e, q, i) BY <1>5, <3>5
        <5> QED BY <3>4, <4>3, <5>1 DEF Keeps
      <4> QED BY <2>1, <3>6, <4>2, <4>3 DEF Unmarking, q
    <3> QED BY <3>8, <3>11, <3>12 DEF TurningNow, e, w, r
  <2> QED BY <2>4, <2>6, <2>7
<1> QED BY <1>6, <1>7

(* A change of one page's marker leaves both pages as they are behind it.  *)
LEMMA MarkerOnly ==
  ASSUME NEW f \in [Addr -> Cell], NEW e \in [Addr -> Cell], NEW r \in Page,
         \A a \in Addr : a # Base(r) => e[a] = f[a]
  PROVE  \A u \in Page : PageKept(f, e, u) /\ PageKept(e, f, u)
<1> SUFFICES ASSUME NEW u \in Page, NEW a \in Base(u) + 1 .. End(u) - 1 PROVE e[a] = f[a]
  BY DEF PageKept
<1>0. u \in {1, 2} /\ r \in {1, 2} BY DEF Page
<1>1. a \in Nat /\ Base(u) < a /\ a < End(u) /\ Base(u) \in Nat BY PageFacts
<1>2. Base(r) <= Base(u) \/ End(u) <= Base(r)
  <2>1. u = r \/ (u = 1 /\ r = 2) \/ (u = 2 /\ r = 1) BY <1>0
  <2>2. Base(u) <= Base(u) BY <1>1
  <2> QED BY <2>1, <2>2, PageFacts
<1>3. Base(r) \in Nat /\ End(u) \in Nat BY PageFacts
<1>4. a # Base(r) /\ Base(u) <= a BY <1>1, <1>2, <1>3
<1>5. a \in Addr BY <1>1, <1>4, OnPage
<1> QED BY <1>4, <1>5

(* The last write of a turn makes the old page passive.                    *)
LEMMA UnmarkStep ==
  ASSUME Zeroable, NEW f, Sound(f), NEW p \in Page, NEW t, Unmarking(f, p, t),
         NEW n \in 0 .. Len(Head(t).cells)
  PROVE  LET w == Head(t)
             e == Done(f, w, n)
         IN  /\ Sound(e) /\ Unseen(f, e) /\ t # << >> /\ w \in Operation
             /\ n = Len(w.cells) => Tail(t) = << >>
<1> DEFINE q == 3 - p  w == Write(Base(p), <<Zero>>)  e == Done(f, w, n)
<1>0. f \in [Addr -> Cell] /\ Fenced(f) BY DEF Sound
<1>1. /\ t = <<w>> /\ t # << >> /\ Head(t) = w /\ Tail(t) = << >>
      /\ \A r \in Page : f[Base(r)] = Marker
      /\ \A i, v : Shows(f, p, i, v) => Shows(f, q, i, v)
      /\ Headed(f, q)
  BY DEF Unmarking
<1>2. p \in {1, 2} /\ q \in Page /\ q \in {1, 2} /\ p # q BY DEF Page
<1>3. Base(p) \in Addr /\ Zero \in Cell BY <1>2, PageFacts DEF Cell
<1>4. Len(w.cells) = 1 BY DEF Write
<1>5. n \in 0 .. 1 BY <1>1, <1>4
<1>6. /\ w \in Operation /\ e \in [Addr -> Cell]
      /\ n = 0 => e = f
      /\ n = 1 => \A b \in Addr : e[b] = IF b = Base(p) THEN Program(f[Base(p)], Zero) ELSE f[b]
  BY <1>0, <1>3, <1>5, OneCell
<1> HIDE DEF e, w, q
<1>7. CASE n = 0
  <2>1. Unseen(f, e) BY <1>6, <1>7 DEF Unseen
  <2> QED BY <1>1, <1>6, <1>7, <2>1 DEF e
<1>8. CASE n = 1
  <2>1. \A a \in Addr : a # Base(p) => e[a] = f[a] BY <1>6, <1>8
  <2>2. \A u \in Page : PageKept(f, e, u) /\ PageKept(e, f, u)
    BY <1>0, <1>6, <2>1, MarkerOnly
  <2>3. e[Base(p)] = Zero BY <1>3, <1>6, <1>8, Programs
  <2>4. e[Base(q)] = Marker
    <3>1. Base(q) \in Addr /\ Base(p) # Base(q) BY <1>2, PageFacts
    <3> QED BY <1>1, <1>2, <2>1, <3>1
  <2>5. Zero # Marker BY DEF Zero, Marker
  <2>6. mm_get_active_page(e) = q /\ mm_get_active_page(f) = 1
    <3>1. (p = 1 /\ q = 2) \/ (p = 2 /\ q = 1) BY <1>2
    <3>2. f[Base(1)] = Marker BY <1>1 DEF Page
    <3>3. mm_get_active_page(f) = 1 BY <3>2 DEF mm_get_active_page
    <3> HIDE DEF mm_get_active_page
    <3>4. CASE p = 1 /\ q = 2
      <4>1. e[Base(1)] # Marker /\ e[Base(2)] = Marker BY <2>3, <2>4, <2>5, <3>4
      <4> QED BY <3>3, <3>4, <4>1 DEF mm_get_active_page
    <3>5. CASE p = 2 /\ q = 1
      <4>1. e[Base(1)] = Marker BY <2>4, <3>5
      <4> QED BY <3>3, <3>5, <4>1 DEF mm_get_active_page
    <3> QED BY <3>1, <3>4, <3>5
  <2>7. Fenced(e)
    <3>1. e[Base(2)] \in {Zero, Marker} BY <1>2, <2>3, <2>4
    <3> QED BY <3>1 DEF Fenced, Zero, Marker
  <2>8. (\A i : Keeps(f, e, q, i)) /\ Headed(e, q)
    BY <1>0, <1>1, <1>2, <1>6, <2>2, <2>7, SamePage
  <2>9. Sound(e) BY <1>6, <2>6, <2>7, <2>8 DEF Sound
  <2>10. Unseen(f, e)
    <3>1. CASE q = 1 BY <1>0, <1>2, <1>6, <2>6, <2>8, <3>1, KeepsUnseen
    <3>2. CASE p = 1
      <4> SUFFICES ASSUME NEW i PROVE mm_get(e, i) = mm_get(f, i) BY DEF Unseen
      <4>1. Shows(f, p, i, mm_get(f, i)) BY <1>0, <2>6, <3>2, GetShows
      <4>2. Shows(f, q, i, mm_get(f, i)) BY <1>1, <4>1
      <4>3. Keeps(f, e, q, i) BY <2>8
      <4>4. Shows(e, q, i, mm_get(f, i)) BY <4>2, <4>3 DEF Keeps
      <4> QED BY <1>2, <1>6, <2>6, <4>4, ShowsGet
    <3> QED BY <1>2, <3>1, <3>2
  <2> QED BY <1>1, <1>6, <2>9, <2>10 DEF e
<1> QED BY <1>5, <1>7, <1>8

(* One operation of a turn, whole or cut short, changes nothing that a     *)
(* caller sees.                                                            *)
LEMMA TurningStep ==
  ASSUME Zeroable, NEW f, Sound(f), NEW t, TurningNow(f, t),
         NEW n \in 0 .. Len(Head(t).cells)
  PROVE  LET w == Head(t)
             e == Done(f, w, n)
         IN  /\ Sound(e) /\ Unseen(f, e)
             /\ n = Len(w.cells) /\ Verified(e, w) => Tail(t) = << >> \/ TurningNow(e, Tail(t))
<1> DEFINE w == Head(t)  e == Done(f, w, n)
<1> HIDE DEF w, e
<1>1. PICK p \in Page : \/ p = mm_get_active_page(f) /\ (t = mm_turn_page(f) \/ Copying(f, p, t))
                        \/ Unmarking(f, p, t)
  BY DEF TurningNow
<1>2. CASE p = mm_get_active_page(f) /\ t = mm_turn_page(f)
  <2>1. /\ Sound(e) /\ Unseen(f, e)
        /\ n = Len(w.cells) => Copying(e, p, Tail(t)) /\ p = mm_get_active_page(e)
    BY <1>2, EraseStep DEF e, w
  <2> QED BY <2>1 DEF TurningNow, e, w
<1>3. CASE p = mm_get_active_page(f) /\ Copying(f, p, t)
  BY <1>3, CopyingStep DEF e, w
<1>4. CASE Unmarking(f, p, t)
  BY <1>4, UnmarkStep DEF e, w
<1> QED BY <1>1, <1>2, <1>3, <1>4

-----------------------------------------------------------------------------
(* Where formatting stands.                                                *)
FormatNow(f, t) ==
  /\ mm_get_active_page(f) = 0
  /\ \/ t = mm_flash_format
     \/ t = << Erase(1), Write(Base(1), <<Marker>>) >>
     \/ /\ t = << Write(Base(1), <<Marker>>) >>
        /\ \A a \in Addr : a < End(1) => f[a] = Erased

(* Without an active page mm_get finds nothing, before or after.           *)
LEMMA NoneUnseen ==
  ASSUME NEW f, NEW e, mm_get_active_page(f) = 0, mm_get_active_page(e) = 0
  PROVE  Unseen(f, e)
BY GetNone DEF Unseen

(* Pages of which none is active are sound: only an active page owes its   *)
(* files headers.                                                          *)
LEMMA NoneSound ==
  ASSUME NEW f \in [Addr -> Cell], Fenced(f), mm_get_active_page(f) = 0
  PROVE  Sound(f)
<1>1. \A p \in Page : p # 0 BY DEF Page
<1> QED BY <1>1 DEF Sound

(* mm_get_active_page finds none exactly where neither page has its        *)
(* marker.                                                                 *)
LEMMA NoActivePage ==
  ASSUME NEW f
  PROVE  mm_get_active_page(f) = 0 <=> f[Base(1)] # Marker /\ f[Base(2)] # Marker
BY DEF mm_get_active_page

(* An operation of mm_flash_format, which begins only where no page is     *)
(* active, changes no mm_get: the page it marks is empty.                  *)
LEMMA FormatNowStep ==
  ASSUME Zeroable, NEW f, Sound(f), NEW t, FormatNow(f, t),
         NEW n \in 0 .. Len(Head(t).cells)
  PROVE  LET w == Head(t)
             e == Done(f, w, n)
         IN  /\ Sound(e) /\ Unseen(f, e)
             /\ n = Len(w.cells) => Tail(t) = << >> \/ FormatNow(e, Tail(t))
<1> DEFINE y == Write(Base(2), <<Zero>>)  z == Write(Base(1), <<Marker>>)
           w == Head(t)  e == Done(f, w, n)
<1>0. f \in [Addr -> Cell] /\ Fenced(f) BY DEF Sound
<1>1. f[Base(1)] # Marker /\ f[Base(2)] # Marker /\ mm_get_active_page(f) = 0
  BY NoActivePage DEF FormatNow
<1>2. /\ Base(1) \in Addr /\ Base(2) \in Addr /\ Base(1) # Base(2)
      /\ Base(1) \in Nat /\ End(1) \in Nat /\ Base(1) + PageLen = End(1) /\ End(1) = Base(2)
      /\ PageLen \in Nat
  BY PageFacts
<1>3. 1 \in Page /\ Zero \in Cell /\ Marker \in Cell /\ Zero # Marker /\ Erased # Marker
  BY DEF Page, Cell, Zero, Marker, Erased
<1>4. CASE t = mm_flash_format
  <2>1. t = <<y, Erase(1), z>> /\ w = y /\ Tail(t) = <<Erase(1), z>>
    BY <1>4 DEF mm_flash_format
  <2>2. Len(w.cells) = 1 /\ n \in 0 .. 1 BY <2>1 DEF Write
  <2> HIDE DEF w, e, y, z
  <2>3. /\ e \in [Addr -> Cell]
        /\ n = 0 => e = f
        /\ n = 1 => \A b \in Addr : e[b] = IF b = Base(2) THEN Program(f[Base(2)], Zero) ELSE f[b]
    BY <1>0, <1>2, <1>3, <2>1, <2>2, OneCell DEF e, y
  <2>4. e[Base(1)] = f[Base(1)] /\ e[Base(2)] \in {f[Base(2)], Zero}
    BY <1>2, <2>2, <2>3, Programs
  <2>5. mm_get_active_page(e) = 0 BY <1>1, <1>3, <2>4, NoActivePage
  <2>6. Fenced(e) BY <1>0, <2>4 DEF Fenced, Zero
  <2>7. Sound(e) BY <2>3, <2>5, <2>6, NoneSound
  <2>8. Unseen(f, e) BY <1>1, <2>5, NoneUnseen
  <2>9. FormatNow(e, Tail(t)) BY <2>1, <2>5 DEF FormatNow, z
  <2> QED BY <2>7, <2>8, <2>9 DEF e, w
<1>5. CASE t = << Erase(1), z >>
  <2>1. w = Erase(1) /\ Tail(t) = << z >> BY <1>5
  <2> HIDE DEF w, e, y, z
  <2>2. Len(Erase(1).cells) = PageLen BY <1>0, <1>2, <1>3, ErasePage
  <2>3. n \in 0 .. PageLen BY <2>1, <2>2 DEF w
  <2>4. /\ e \in [Addr -> Cell]
        /\ \A a \in Addr : e[a] = IF a \in Base(1) .. Base(1) + n - 1 THEN Erased ELSE f[a]
    BY <1>0, <1>3, <2>1, <2>3, ErasePage DEF e
  <2>5. ~(Base(2) \in Base(1) .. Base(1) + n - 1) BY <1>2, <2>3
  <2>6. e[Base(1)] \in {f[Base(1)], Erased} /\ e[Base(2)] = f[Base(2)] BY <1>2, <2>4, <2>5
  <2>7. mm_get_active_page(e) = 0 BY <1>1, <1>3, <2>6, NoActivePage
  <2>8. Fenced(e) BY <1>0, <2>6 DEF Fenced
  <2>9. Sound(e) BY <2>4, <2>7, <2>8, NoneSound
  <2>10. Unseen(f, e) BY <1>1, <2>7, NoneUnseen
  <2>11. ASSUME n = Len(w.cells) PROVE FormatNow(e, Tail(t))
    <3>1. n = PageLen BY <2>1, <2>2, <2>11
    <3>2. ASSUME NEW a \in Addr, a < End(1) PROVE e[a] = Erased
      <4>1. a \in Nat /\ Base(1) <= a BY PageFacts DEF Addr, Base
      <4>2. a \in Base(1) .. Base(1) + n - 1 BY <1>2, <3>1, <3>2, <4>1
      <4> QED BY <2>4, <4>2
    <3> QED BY <2>1, <2>7, <3>2 DEF FormatNow, z
  <2> QED BY <2>9, <2>10, <2>11 DEF e, w
<1>6. CASE t = << z >> /\ \A a \in Addr : a < End(1) => f[a] = Erased
  <2>1. w = z /\ Tail(t) = << >> BY <1>6
  <2>a. Len(z.cells) = 1 BY DEF Write
  <2>b. n \in 0 .. Len(w.cells) OBVIOUS
  <2> HIDE DEF w, e, y, z
  <2>2. Len(w.cells) = 1 /\ n \in 0 .. 1 BY <2>1, <2>a, <2>b
  <2>3. /\ e \in [Addr -> Cell]
        /\ n = 0 => e = f
        /\ n = 1 => \A b \in Addr : e[b] = IF b = Base(1) THEN Program(f[Base(1)], Marker) ELSE f[b]
    BY <1>0, <1>2, <1>3, <2>1, <2>2, OneCell DEF e, z
  <2>4. CASE n = 0
    <3>1. Unseen(f, e) BY <2>3, <2>4 DEF Unseen
    <3> QED BY <2>1, <2>3, <2>4, <3>1 DEF e, w
  <2>5. CASE n = 1
    <3>1. e[Base(1)] = Marker
      <4>1. f[Base(1)] = Erased
        <5>1. Base(1) < End(1) BY <1>2, PageFacts
        <5> QED BY <1>2, <1>6, <5>1
      <4> QED BY <1>2, <2>3, <2>5, <4>1, Programs
    <3>2. mm_get_active_page(e) = 1 BY <3>1 DEF mm_get_active_page
    <3>3. ASSUME NEW a \in Nat, Base(1) < a, a < End(1) PROVE e[a] = Erased
      <4>1. a \in Addr /\ a # Base(1) BY <1>2, <1>3, <3>3, OnPage
      <4> QED BY <1>6, <2>3, <2>5, <3>3, <4>1
    <3>4. Fenced(e)
      <4>1. e[Base(2)] = f[Base(2)] BY <1>2, <2>3, <2>5
      <4> QED BY <1>0, <4>1 DEF Fenced
    <3>5. Headed(e, 1)
      <4> SUFFICES ASSUME NEW a \in Base(1) + 1 .. End(1) - 3, NEW v \in Files
                   PROVE  e[a + 2] # Data(v, 1)
        BY DEF Headed
      <4>1. a + 2 \in Nat /\ Base(1) < a + 2 /\ a + 2 < End(1) BY <1>2
      <4>2. e[a + 2] = Erased BY <3>3, <4>1
      <4> QED BY <4>2 DEF Erased, Data
    <3>6. Sound(e) BY <2>3, <3>2, <3>4, <3>5 DEF Sound
    <3>7. Unseen(f, e)
      <4> SUFFICES ASSUME NEW i PROVE mm_get(e, i) = mm_get(f, i) BY DEF Unseen
      <4>1. Offsets(e, 1) = {}
        <5> SUFFICES ASSUME NEW o \in Offsets(e, 1) PROVE FALSE OBVIOUS
        <5>1. o \in Nat /\ Base(1) < o /\ o < End(1) - MIN_FILE_LEN /\ e[o].is = "id"
          BY <1>3, <2>3, OffsetFacts DEF is_item
        <5>2. o < End(1) BY <1>2, <5>1 DEF MIN_FILE_LEN, ITEM_HEADER_SZ
        <5>3. e[o] = Erased BY <3>3, <5>1, <5>2
        <5> QED BY <5>1, <5>3 DEF Erased
      <4>2. Shows(e, 1, i, NoFile) BY <4>1 DEF Shows, Named
      <4>3. mm_get(e, i) = NoFile BY <1>3, <2>3, <3>2, <4>2, ShowsGet
      <4> QED BY <1>1, <4>3, GetNone
    <3> QED BY <2>1, <3>6, <3>7 DEF e, w
  <2> QED BY <2>2, <2>4, <2>5
<1>7. \/ t = mm_flash_format \/ t = << Erase(1), z >>
      \/ t = << z >> /\ \A a \in Addr : a < End(1) => f[a] = Erased
  BY DEF FormatNow
<1> QED BY <1>4, <1>5, <1>6, <1>7

-----------------------------------------------------------------------------
(* What is left to do in any state: of a call, or of the work that no      *)
(* caller sees.                                                            *)
Serving(f, t, c, x) ==
  IF x THEN t = << >> /\ mm_get(f, c.id) = c.old
  ELSE \E p \in Page : p = mm_get_active_page(f) /\ Updating(f, p, c, t)

(* What mm_get has left: older items of an identifier to be zeroed.        *)
Getting(f, t) == \E p \in Page : p = mm_get_active_page(f) /\ \E i : AllZaps(f, p, i, t)

(* What a call of the task, or of mm_get, has left: nothing of it is seen. *)
Tidying(f, t) == t = << >> \/ Getting(f, t) \/ TurningNow(f, t) \/ FormatNow(f, t)

(* A set that has not written its file has an operation left.              *)
LEMMA LongerJoined ==
  ASSUME NEW d \in Seq(Operation), NEW s \in Seq(Operation), NEW h, NEW b
  PROVE  d \o (<<h, b>> \o s) # << >> /\ <<b>> \o s # << >>
<1> DEFINE S == Operation \cup {h, b}
<1>1. d \in Seq(S) /\ s \in Seq(S) /\ <<h, b>> \in Seq(S) /\ <<b>> \in Seq(S) OBVIOUS
<1>2. Len(<<h, b>>) = 2 /\ Len(<<b>>) = 1 OBVIOUS
<1> HIDE DEF S
<1>3. PICK u : u = <<h, b>> OBVIOUS
<1>4. u \o s \in Seq(S) /\ Len(u \o s) = 2 + Len(s) BY <1>1, <1>2, <1>3
<1>5. Len(d \o (u \o s)) = Len(d) + (2 + Len(s)) BY <1>1, <1>4
<1>6. Len(<<b>> \o s) = 1 + Len(s) BY <1>1, <1>2
<1>7. Len(d) \in Nat /\ Len(s) \in Nat BY <1>1
<1>8. d \o (u \o s) # << >> BY <1>5, <1>7
<1>9. <<b>> \o s # << >> BY <1>6, <1>7
<1> QED BY <1>3, <1>8, <1>9

(* An update with nothing left shows the new file.                         *)
LEMMA UpdateDone ==
  ASSUME NEW f \in [Addr -> Cell], NEW p \in Page, Fenced(f), NEW c, Updating(f, p, c, << >>)
  PROVE  Shows(f, p, c.id, c.new)
<1>1. CASE Updated(f, p, c, << >>) BY <1>1 DEF Updated
<1>2. CASE Adding(f, p, c, << >>)
  <2>1. PICK d, s, at :
          /\ AllZaps(f, p, c.id, d) /\ Olds(f, p, c.id, s)
          /\ << >> = d \o (<<Header(at, c.id, c.new), Body(at, c.new)>> \o s)
    BY <1>2 DEF Adding
  <2> DEFINE h == Header(at, c.id, c.new)  b == Body(at, c.new)
  <2>2. s \in Seq(Operation) /\ d \in Seq(Operation) BY <2>1, OldsTyped DEF AllZaps
  <2>3. << >> = d \o (<<h, b>> \o s) BY <2>1
  <2> HIDE DEF h, b
  <2> QED BY <2>2, <2>3, LongerJoined
<1>3. CASE Filling(f, p, c, << >>)
  <2>1. PICK s, at : Olds(f, p, c.id, s) /\ << >> = <<Body(at, c.new)>> \o s
    BY <1>3 DEF Filling
  <2> DEFINE b == Body(at, c.new)
  <2>2. s \in Seq(Operation) /\ << >> = <<b>> \o s BY <2>1, OldsTyped
  <2> HIDE DEF b
  <2> QED BY <2>2, LongerJoined
<1>4. CASE Dropping(f, p, c, << >>)
  <2>1. PICK d, o : AllZaps(f, p, c.id, d) /\ << >> = d \o <<Write(o, Zeros(ItemLen(f, o)))>>
    BY <1>4 DEF Dropping
  <2>2. d \in Seq(Operation) BY <2>1 DEF AllZaps
  <2>3. Len(d \o <<Write(o, Zeros(ItemLen(f, o)))>>) = Len(d) + 1 /\ Len(d) \in Nat BY <2>2
  <2> QED BY <2>1, <2>3
<1> QED BY <1>1, <1>2, <1>3, <1>4 DEF Updating

(* The duplicates mm_get zeroes change no mm_get.                          *)
LEMMA GettingStep ==
  ASSUME Zeroable, NEW f, Sound(f), NEW t, t # << >>, Getting(f, t),
         NEW n \in 0 .. Len(Head(t).cells)
  PROVE  LET w == Head(t)
             e == Done(f, w, n)
         IN  /\ Sound(e) /\ Unseen(f, e)
             /\ n = Len(w.cells) => Getting(e, Tail(t))
<1> DEFINE w == Head(t)  e == Done(f, w, n)
<1>0. f \in [Addr -> Cell] /\ Fenced(f) BY DEF Sound
<1>a. PICK p \in Page : p = mm_get_active_page(f) /\ \E i : AllZaps(f, p, i, t)
  BY DEF Getting
<1>1. PICK i : p = mm_get_active_page(f) /\ AllZaps(f, p, i, t) BY <1>a
<1>2. Headed(f, p) BY <1>1 DEF Sound
<1>3. Zaps(f, p, i, w) BY <1>0, <1>1, ZapsStep
<1>4. \A j : Keeps(f, e, p, j) BY <1>0, <1>3, ZapKeeps
<1>5. /\ e \in [Addr -> Cell] /\ Fenced(e) /\ Headed(e, p)
      /\ mm_get_active_page(e) = mm_get_active_page(f)
  BY <1>0, <1>2, <1>3, ZapRemoves
<1>6. n = Len(w.cells) => AllZaps(e, p, i, Tail(t)) BY <1>0, <1>1, ZapsStep
<1> HIDE DEF w, e
<1>7. Sound(e) BY <1>1, <1>5 DEF Sound
<1>8. Unseen(f, e) BY <1>0, <1>1, <1>4, <1>5, KeepsUnseen
<1>9. n = Len(w.cells) => Getting(e, Tail(t)) BY <1>1, <1>5, <1>6 DEF Getting
<1> QED BY <1>7, <1>8, <1>9 DEF e, w

(* No operation of mm_get, mm_turn_page or mm_flash_format, whole or cut   *)
(* short anywhere, changes what mm_get returns.                            *)
LEMMA TidyingStep ==
  ASSUME Zeroable, NEW f, Sound(f), NEW t, t # << >>, Tidying(f, t),
         NEW n \in 0 .. Len(Head(t).cells)
  PROVE  LET w == Head(t)
             e == Done(f, w, n)
         IN  /\ Sound(e) /\ Unseen(f, e)
             /\ n = Len(w.cells) /\ Verified(e, w) => Tidying(e, Tail(t))
<1> DEFINE w == Head(t)  e == Done(f, w, n)
<1> HIDE DEF w, e
<1>1. CASE Getting(f, t)
  <2>1. Sound(e) /\ Unseen(f, e) /\ (n = Len(w.cells) => Getting(e, Tail(t)))
    BY <1>1, GettingStep DEF e, w
  <2> QED BY <2>1 DEF Tidying, e, w
<1>2. CASE TurningNow(f, t)
  <2>1. /\ Sound(e) /\ Unseen(f, e)
        /\ n = Len(w.cells) /\ Verified(e, w) => Tail(t) = << >> \/ TurningNow(e, Tail(t))
    BY <1>2, TurningStep DEF e, w
  <2> QED BY <2>1 DEF Tidying, e, w
<1>3. CASE FormatNow(f, t)
  <2>1. /\ Sound(e) /\ Unseen(f, e)
        /\ n = Len(w.cells) => Tail(t) = << >> \/ FormatNow(e, Tail(t))
    BY <1>3, FormatNowStep DEF e, w
  <2> QED BY <2>1 DEF Tidying, e, w
<1> QED BY <1>1, <1>2, <1>3 DEF Tidying

(* A step of a call: its file is the old one or the new one afterwards,    *)
(* the old one when the write failed, and every other file is what it was. *)
LEMMA ServingStep ==
  ASSUME Zeroable, NEW f, Sound(f), NEW t, t # << >>, NEW c, c.id \in Ids, NEW x,
         Serving(f, t, c, x), NEW n \in 0 .. Len(Head(t).cells)
  PROVE  LET w == Head(t)
             e == Done(f, w, n)
         IN  /\ ~x /\ Sound(e)
             /\ \A j : j # c.id => mm_get(e, j) = mm_get(f, j)
             /\ mm_get(e, c.id) = mm_get(f, c.id) \/ mm_get(e, c.id) = c.new
             /\ \E p \in Page : p = mm_get_active_page(f) /\ InPage(p, w)
             /\ n = Len(w.cells) =>
                  IF Verified(e, w) THEN Serving(e, Tail(t), c, FALSE)
                  ELSE Serving(e, << >>, c, TRUE)
<1> DEFINE w == Head(t)  e == Done(f, w, n)
<1>0. f \in [Addr -> Cell] /\ Fenced(f) BY DEF Sound
<1>1. ~x BY DEF Serving
<1>2. PICK p \in Page : p = mm_get_active_page(f) /\ Updating(f, p, c, t) BY <1>1 DEF Serving
<1>3. Headed(f, p) BY <1>2 DEF Sound
<1> HIDE DEF w, e
<1>4. /\ Safe(f, e, p, w) /\ Shown(f, e, p, c)
      /\ n = Len(w.cells) => IF Verified(e, w) THEN Updating(e, p, c, Tail(t))
                             ELSE Shows(e, p, c.id, c.old)
  BY <1>0, <1>2, <1>3, UpdateStep DEF w, e
<1>5. /\ InPage(p, w) /\ e \in [Addr -> Cell] /\ Fenced(e) /\ Headed(e, p)
      /\ p = mm_get_active_page(e)
  BY <1>2, <1>4 DEF Safe
<1>6. Sound(e) BY <1>5 DEF Sound
<1>7. ASSUME NEW j, Keeps(f, e, p, j) PROVE mm_get(e, j) = mm_get(f, j)
  <2>1. Shows(f, p, j, mm_get(f, j)) BY <1>0, <1>2, GetShows
  <2>2. Shows(e, p, j, mm_get(f, j)) BY <1>7, <2>1 DEF Keeps
  <2> QED BY <1>5, <2>2, ShowsGet
<1>8. \A j : j # c.id => mm_get(e, j) = mm_get(f, j) BY <1>4, <1>7 DEF Shown
<1>9. mm_get(e, c.id) = mm_get(f, c.id) \/ mm_get(e, c.id) = c.new
  <2>1. CASE Keeps(f, e, p, c.id) BY <1>7, <2>1
  <2>2. CASE Shows(e, p, c.id, c.new) BY <1>5, <2>2, ShowsGet
  <2> QED BY <1>4, <2>1, <2>2 DEF Shown
<1>10. ASSUME n = Len(w.cells)
       PROVE  IF Verified(e, w) THEN Serving(e, Tail(t), c, FALSE) ELSE Serving(e, << >>, c, TRUE)
  <2>1. CASE Verified(e, w)
    <3>1. Updating(e, p, c, Tail(t)) BY <1>4, <1>10, <2>1
    <3> QED BY <1>5, <2>1, <3>1 DEF Serving
  <2>2. CASE ~Verified(e, w)
    <3>1. Shows(e, p, c.id, c.old) BY <1>4, <1>10, <2>2
    <3>2. mm_get(e, c.id) = c.old BY <1>5, <3>1, ShowsGet
    <3> QED BY <2>2, <3>2 DEF Serving
  <2> QED BY <2>1, <2>2
<1> QED BY <1>1, <1>2, <1>5, <1>6, <1>8, <1>9, <1>10 DEF e, w

-----------------------------------------------------------------------------
(* The flash is sound and what is left of the call fits what it shows.     *)
Working ==
  /\ Sound(flash)
  /\ mode # "run" => call = NoCall
  /\ mode = "off" => todo = << >>
  /\ Busy => Serving(flash, todo, call, failed)
  /\ ~Busy => Tidying(flash, todo)

(* Where no mm_get changes, neither does the map the store shows.          *)
LEMMA ViewKept == ASSUME Unseen(flash, flash') PROVE view' = view
BY DEF view, Unseen

(* A call in progress is about one of the identifiers.                     *)
LEMMA BusyCall ==
  ASSUME TypeOK, Busy
  PROVE  call \in [id : Ids, old : File, new : File, ret : {"busy"}] /\ call.id \in Ids
<1>1. call \in [id : Ids, old : File, new : File, ret : {"busy"}]
  BY DEF TypeOK, Busy, Call, Result
<1> QED BY <1>1

(* The record of a call that has just begun.                               *)
LEMMA Began ==
  ASSUME NEW i \in Ids, NEW o \in File, NEW v \in File,
         call' = [id |-> i, old |-> o, new |-> v, ret |-> "busy"]
  PROVE  Busy' /\ call'.id = i /\ call'.old = o /\ call'.new = v
<1>1. call' \in Call BY DEF Call
<1>2. call' # NoCall BY <1>1, NoCallAssumption
<1> QED BY <1>2 DEF Busy

(* mm_set, called where the pages fit, begins a call of the abstract store *)
(* and has an update to do.                                                *)
LEMMA StartSetServes ==
  ASSUME Zeroable, TypeOK, Working, Fits, ~Busy, NEW i \in Ids, NEW v \in Files, StartSet(i, v)
  PROVE  /\ flash' = flash /\ Busy' /\ Serving(flash', todo', call', failed')
         /\ KV!Begin(i, v)
<1> DEFINE p == mm_get_active_page(flash)  c == call'
<1>1. flash \in [Addr -> Cell] /\ Fenced(flash) BY DEF Working, Sound
<1>2. view[i] = mm_get(flash, i) /\ mm_get(flash, i) \in File
      /\ (mm_get(flash, i) # NoFile => Found(flash, i) # << >>)
  BY <1>1, GetTyped DEF view
<1>3. p # 0 => p \in Page BY ActivePage
<1>4. v \in File BY DEF File
<1>5. CASE view[i] = v
  <2>1. /\ flash' = flash /\ failed' = FALSE /\ todo' = Duplicates(flash, i)
        /\ c = [id |-> i, old |-> view[i], new |-> v, ret |-> "busy"]
    BY <1>5 DEF StartSet, Start
  <2>2. Busy' /\ c.id = i /\ c.new = v BY <1>2, <1>4, <2>1, Began
  <2>3. p # 0 BY <1>2, <1>5, FilesAssumption DEF Found
  <2>4. AllZaps(flash, p, i, todo') BY <1>1, <1>3, <2>1, <2>3, DuplicatesZap
  <2>5. Shows(flash, p, i, v) BY <1>1, <1>2, <1>3, <1>5, <2>3, GetShows
  <2> HIDE DEF p, c
  <2>6. Updating(flash, p, c, todo') BY <2>2, <2>4, <2>5 DEF Updating, Updated
  <2>7. Serving(flash, todo', c, FALSE) BY <1>3, <2>3, <2>6 DEF Serving, p
  <2>8. view' = view BY <2>1 DEF view
  <2>9. KV!Begin(i, v) BY <2>1, <2>8 DEF KV!Begin, KV!Busy, Busy, c
  <2> QED BY <2>1, <2>2, <2>7, <2>9 DEF c
<1>6. CASE view[i] # v
  <2> DEFINE refused == FindFails(flash, i) \/ ~HasSpace(flash, FileLen[v])
  <2>1. /\ flash' = flash /\ failed' = refused
        /\ todo' = IF refused THEN << >> ELSE mm_set(flash, i, v)
        /\ c = [id |-> i, old |-> view[i], new |-> v, ret |-> "busy"]
    BY <1>6, Zenon DEF StartSet, Start
  <2>2. Busy' /\ c.id = i /\ c.new = v /\ c.old = mm_get(flash, i) BY <1>2, <1>4, <2>1, Began
  <2>3. ~refused => p # 0 /\ HasSpace(flash, FileLen[v]) BY DEF FindFails
  <2>4. refused \in BOOLEAN OBVIOUS
  <2> HIDE DEF refused
  <2>5. Serving(flash, todo', c, failed')
    <3>1. CASE refused
      <4>1. failed' = TRUE /\ todo' = << >> BY <2>1, <2>4, <3>1
      <4> HIDE DEF c
      <4> QED BY <2>2, <4>1 DEF Serving
    <3>2. CASE ~refused
      <4>1. failed' = FALSE /\ todo' = mm_set(flash, i, v) BY <2>1, <2>4, <3>2
      <4>2. p \in Page /\ HasSpace(flash, FileLen[v]) BY <1>3, <2>3, <3>2
      <4>3. Room(flash, p, Empty(flash), v) BY <1>1, <4>2, FitsRoom
      <4> HIDE DEF c
      <4>4. Adding(flash, p, c, todo') BY <1>1, <2>2, <4>1, <4>2, <4>3, SetStarts
      <4>5. Shows(flash, p, i, mm_get(flash, i)) BY <1>1, <4>2, GetShows
      <4>6. Updating(flash, p, c, todo') BY <2>2, <4>4, <4>5 DEF Updating
      <4> QED BY <4>1, <4>2, <4>6 DEF Serving
    <3> QED BY <3>1, <3>2
  <2>6. view' = view BY <2>1 DEF view
  <2>7. KV!Begin(i, v)
    <3>1. call' = [id |-> i, old |-> view[i], new |-> v, ret |-> "busy"] BY <2>1
    <3> QED BY <2>6, <3>1 DEF KV!Begin, KV!Busy, Busy
  <2> QED BY <2>1, <2>2, <2>5, <2>7
<1> QED BY <1>5, <1>6

(* mm_invalidate begins a call of the abstract store and has an update to  *)
(* do.                                                                     *)
LEMMA InvalidateServes ==
  ASSUME Zeroable, TypeOK, Working, NEW i \in Ids, Invalidate(i)
  PROVE  /\ flash' = flash /\ Busy' /\ Serving(flash', todo', call', failed')
         /\ KV!Begin(i, NoFile)
<1> DEFINE p == mm_get_active_page(flash)  c == call'
           refused == ~CanZero(Last(mm_invalidate(flash, i)))
<1>1. flash \in [Addr -> Cell] /\ Fenced(flash) BY DEF Working, Sound
<1>2. /\ flash' = flash /\ failed' = refused
      /\ todo' = IF refused THEN << >> ELSE mm_invalidate(flash, i)
      /\ c = [id |-> i, old |-> view[i], new |-> NoFile, ret |-> "busy"]
      /\ view[i] # NoFile /\ ~Busy
  BY Zenon DEF Invalidate, Start, Idle
<1>3. view[i] = mm_get(flash, i) /\ mm_get(flash, i) \in File /\ Found(flash, i) # << >>
  BY <1>1, <1>2, GetTyped DEF view
<1>4. p \in Page BY <1>3, ActivePage DEF Found
<1>5. NoFile \in File BY DEF File
<1>6. Busy' /\ c.id = i /\ c.new = NoFile /\ c.old = mm_get(flash, i)
  BY <1>2, <1>3, <1>5, Began
<1>7. refused \in BOOLEAN OBVIOUS
<1> HIDE DEF refused
<1>8. Serving(flash, todo', c, failed')
  <2>1. CASE refused
    <3>1. failed' = TRUE /\ todo' = << >> BY <1>2, <1>7, <2>1
    <3> HIDE DEF c
    <3> QED BY <1>6, <3>1 DEF Serving
  <2>2. CASE ~refused
    <3>1. failed' = FALSE /\ todo' = mm_invalidate(flash, i) BY <1>2, <1>7, <2>2
    <3> HIDE DEF c
    <3>2. Dropping(flash, p, c, todo') BY <1>1, <1>3, <1>4, <1>6, <3>1, InvalidateStarts
    <3>3. Shows(flash, p, i, mm_get(flash, i)) BY <1>1, <1>4, GetShows
    <3>4. Updating(flash, p, c, todo') BY <1>6, <3>2, <3>3 DEF Updating
    <3> QED BY <1>4, <3>1, <3>4 DEF Serving
  <2> QED BY <2>1, <2>2
<1>9. view' = view BY <1>2 DEF view
<1>10. KV!Begin(i, NoFile)
  <2>1. call' = [id |-> i, old |-> view[i], new |-> NoFile, ret |-> "busy"] BY <1>2
  <2> QED BY <1>2, <1>9, <2>1 DEF KV!Begin, KV!Busy, Busy
<1> QED BY <1>2, <1>6, <1>8, <1>10

(* A flash operation of a call, whole or cut short, leaves the store as it *)
(* was or with the request applied.                                        *)
LEMMA ViewServed ==
  ASSUME Zeroable, TypeOK, Working, Busy, todo # << >>,
         NEW n \in 0 .. Len(Head(todo).cells), flash' = Done(flash, Head(todo), n)
  PROVE  /\ ~failed /\ Sound(flash') /\ (view' = view \/ view' = KV!Applied)
         /\ \E p \in Page : p = mm_get_active_page(flash) /\ InPage(p, Head(todo))
         /\ n = Len(Head(todo).cells) =>
              IF Verified(flash', Head(todo)) THEN Serving(flash', Tail(todo), call, FALSE)
              ELSE Serving(flash', << >>, call, TRUE)
<1> DEFINE w == Head(todo)  e == Done(flash, w, n)
<1>1. Sound(flash) /\ Serving(flash, todo, call, failed) BY DEF Working
<1>2. call.id \in Ids BY BusyCall
<1> HIDE DEF w, e
<1>3. /\ ~failed /\ Sound(e)
      /\ \A j : j # call.id => mm_get(e, j) = mm_get(flash, j)
      /\ mm_get(e, call.id) = mm_get(flash, call.id) \/ mm_get(e, call.id) = call.new
      /\ \E p \in Page : p = mm_get_active_page(flash) /\ InPage(p, w)
      /\ n = Len(w.cells) =>
           IF Verified(e, w) THEN Serving(e, Tail(todo), call, FALSE)
           ELSE Serving(e, << >>, call, TRUE)
  BY <1>1, <1>2, ServingStep DEF w, e
<1>4. flash' = e BY DEF e, w
<1>5. view' = [j \in Ids |-> mm_get(e, j)] BY <1>4 DEF view
<1>6. view' = view \/ view' = KV!Applied
  <2>1. CASE mm_get(e, call.id) = mm_get(flash, call.id)
    <3>1. \A j \in Ids : mm_get(e, j) = mm_get(flash, j) BY <1>3, <2>1
    <3> QED BY <1>5, <3>1 DEF view
  <2>2. CASE mm_get(e, call.id) = call.new
    <3>1. \A j \in Ids : mm_get(e, j) = [view EXCEPT ![call.id] = call.new][j]
      BY <1>3, <2>2 DEF view
    <3>2. [view EXCEPT ![call.id] = call.new] = [j \in Ids |-> [view EXCEPT ![call.id] = call.new][j]]
      BY DEF view
    <3>3. view' = [view EXCEPT ![call.id] = call.new] BY <1>5, <3>1, <3>2
    <3> QED BY <3>3 DEF KV!Applied
  <2> QED BY <1>3, <2>1, <2>2
<1> QED BY <1>3, <1>4, <1>6 DEF w, e

(* Every step keeps Working, and is a step of the atomic map or changes    *)
(* nothing it shows: a call begins, takes effect, returns, or power fails. *)
LEMMA WorkingInductive ==
  ASSUME Zeroable, TypeOK, Working, Fits, [Next]_vars
  PROVE  Working' /\ [KV!Next]_(KV!vars)
<1> DEFINE p == mm_get_active_page(flash)  w == Head(todo)
<1>1. /\ flash \in [Addr -> Cell] /\ Fenced(flash) /\ Sound(flash)
      /\ todo \in Seq(Operation) /\ failed \in BOOLEAN
  BY DEF TypeOK, Working, Sound
<1>2. p # 0 => p \in Page BY ActivePage
<1>3. todo # << >> => Len(w.cells) \in Nat /\ Len(w.cells) \in 0 .. Len(w.cells)
  BY <1>1, HeadTail, WholeOperation
<1> HIDE DEF w, p
<1>4. ASSUME NEW i \in Ids, NEW v \in Files, StartSet(i, v), ~Busy, mode' = "run"
      PROVE  Working' /\ KV!Next
  <2>1. flash' = flash /\ Busy' /\ Serving(flash', todo', call', failed') /\ KV!Begin(i, v)
    BY <1>4, StartSetServes
  <2>2. Working' BY <1>1, <1>4, <2>1 DEF Working
  <2>3. KV!Next BY <2>1 DEF KV!Next, KV!File
  <2> QED BY <2>2, <2>3
<1>5. ASSUME NEW i \in Ids, NEW v \in Files, Set(i, v) PROVE Working' /\ KV!Next
  BY <1>4, <1>5 DEF Set, Idle
<1>6. ASSUME NEW v \in Files, CountReboot(v) PROVE Working' /\ KV!Next
  <2>1. ~Busy BY <1>6 DEF CountReboot, Working, Busy
  <2> QED BY <1>4, <1>6, <2>1, IdsAssumption DEF CountReboot
<1>7. ASSUME NEW i \in Ids, Invalidate(i) PROVE Working' /\ KV!Next
  <2>1. flash' = flash /\ Busy' /\ Serving(flash', todo', call', failed') /\ KV!Begin(i, NoFile)
    BY <1>7, InvalidateServes
  <2>2. mode' = "run" BY <1>7 DEF Invalidate, Idle
  <2>3. Working' BY <1>1, <2>1, <2>2 DEF Working
  <2>4. KV!Next BY <2>1 DEF KV!Next, KV!File
  <2> QED BY <2>3, <2>4
<1>8. ASSUME flash' = flash, call' = NoCall, Tidying(flash, todo'), mode' = "run"
      PROVE  Working' /\ KV!Next
  <2>1. view' = view BY <1>8 DEF view
  <2>2. ~Busy' BY <1>8 DEF Busy
  <2>3. Working' BY <1>1, <1>8, <2>2 DEF Working
  <2>4. KV!Next BY <1>8, <2>1 DEF KV!Next, KV!PowerFail
  <2> QED BY <2>3, <2>4
<1>9. ASSUME NEW i \in Ids, Get(i) PROVE Working' /\ KV!Next
  <2>1. /\ flash' = flash /\ mode' = "run" /\ call' = NoCall /\ todo' = Duplicates(flash, i)
        /\ p # 0
    BY <1>9 DEF Get, FindFails, Idle, p
  <2>2. AllZaps(flash, p, i, todo') BY <1>1, <1>2, <2>1, DuplicatesZap DEF p
  <2>3. Tidying(flash, todo') BY <1>2, <2>1, <2>2 DEF Tidying, Getting, p
  <2> QED BY <1>8, <2>1, <2>3
<1>10. ASSUME Maintain PROVE Working' /\ KV!Next
  <2>1. flash' = flash /\ mode' = "run" /\ call' = NoCall /\ todo' = mm_turn_page(flash) /\ p # 0
    BY <1>10 DEF Maintain, Idle, p
  <2>2. Tidying(flash, todo') BY <1>2, <2>1 DEF Tidying, TurningNow, p
  <2> QED BY <1>8, <2>1, <2>2
<1>11. ASSUME Return PROVE Working' /\ KV!Next
  <2>1. /\ flash' = flash /\ mode' = mode /\ failed' = FALSE /\ todo' = todo
        /\ todo = << >> /\ call' = [ret |-> IF failed THEN "fail" ELSE "ok"] /\ Busy
    BY <1>11 DEF Return
  <2>2. view' = view /\ view = [j \in Ids |-> mm_get(flash, j)] BY <2>1 DEF view
  <2>3. Serving(flash, << >>, call, failed) BY <2>1 DEF Working
  <2>4. call.id \in Ids BY <2>1, BusyCall
  <2>5. mm_get(flash, call.id) = IF ~failed THEN call.new ELSE call.old
    <3>1. CASE failed BY <2>3, <3>1 DEF Serving
    <3>2. CASE ~failed
      <4>1. PICK r \in Page : r = mm_get_active_page(flash) /\ Updating(flash, r, call, << >>)
        BY <2>3, <3>2 DEF Serving
      <4>2. Shows(flash, r, call.id, call.new) BY <1>1, <4>1, UpdateDone
      <4>3. mm_get(flash, call.id) = call.new BY <1>1, <4>1, <4>2, ShowsGet
      <4> QED BY <3>2, <4>3
    <3> QED BY <3>1, <3>2
  <2>6. KV!Return(~failed)
    <3>1. call' = [ret |-> IF ~failed THEN "ok" ELSE "fail"] BY <1>1, <2>1
    <3>2. view[call.id] = IF ~failed THEN call.new ELSE call.old BY <2>2, <2>4, <2>5
    <3> QED BY <2>1, <2>2, <3>1, <3>2 DEF KV!Return, KV!Busy, Busy
  <2>7. ~Busy' BY <2>1 DEF Busy
  <2>8. mode = "run"
    <3>1. call # NoCall BY <2>1 DEF Busy
    <3> QED BY <3>1 DEF Working
  <2>9. Working' BY <1>1, <2>1, <2>7, <2>8 DEF Working, Tidying
  <2>10. (~failed) \in BOOLEAN OBVIOUS
  <2>11. KV!Next BY <2>6, <2>10 DEF KV!Next
  <2> QED BY <2>9, <2>11
<1>12. ASSUME FlashOperation PROVE Working' /\ [KV!Next]_(KV!vars)
  <2>1. /\ todo # << >> /\ flash' = Done(flash, w, Len(w.cells))
        /\ failed' = ~Verified(flash', w)
        /\ todo' = IF failed' THEN << >> ELSE Tail(todo)
        /\ call' = call /\ mode' = mode
    BY <1>12 DEF FlashOperation, w
  <2>2. Len(w.cells) \in 0 .. Len(w.cells) BY <1>3, <2>1
  <2>3. mode # "off" BY <2>1 DEF Working
  <2>4. CASE Busy
    <3>1. /\ Sound(flash') /\ (view' = view \/ view' = KV!Applied)
          /\ IF Verified(flash', w) THEN Serving(flash', Tail(todo), call, FALSE)
             ELSE Serving(flash', << >>, call, TRUE)
      BY <2>1, <2>2, <2>4, ViewServed DEF w
    <3>2. Serving(flash', todo', call', failed')
      <4>1. CASE Verified(flash', w)
        <5>1. failed' = FALSE /\ todo' = Tail(todo) BY <2>1, <4>1
        <5> QED BY <2>1, <3>1, <4>1, <5>1
      <4>2. CASE ~Verified(flash', w)
        <5>1. failed' = TRUE /\ todo' = << >> BY <2>1, <4>2
        <5> QED BY <2>1, <3>1, <4>2, <5>1
      <4> QED BY <4>1, <4>2
    <3>3. Busy' BY <2>1, <2>4 DEF Busy
    <3>4. Working' BY <2>1, <2>3, <3>1, <3>2, <3>3 DEF Working
    <3>5. [KV!Next]_(KV!vars)
      <4>1. CASE view' = view BY <2>1, <4>1 DEF KV!vars
      <4>2. CASE view' = KV!Applied
        <5>1. KV!TakeEffect BY <2>1, <2>4, <4>2 DEF KV!TakeEffect, KV!Busy, Busy
        <5> QED BY <5>1 DEF KV!Next
      <4> QED BY <3>1, <4>1, <4>2
    <3> QED BY <3>4, <3>5
  <2>5. CASE ~Busy
    <3>1. Tidying(flash, todo) BY <2>5 DEF Working
    <3>2. /\ Sound(flash') /\ Unseen(flash, flash')
          /\ Verified(flash', w) => Tidying(flash', Tail(todo))
      BY <1>1, <2>1, <2>2, <3>1, TidyingStep DEF w
    <3>3. Tidying(flash', todo')
      <4>1. CASE Verified(flash', w) BY <2>1, <3>2, <4>1
      <4>2. CASE ~Verified(flash', w) BY <2>1, <4>2 DEF Tidying
      <4> QED BY <4>1, <4>2
    <3>4. view' = view BY <3>2, ViewKept
    <3>5. ~Busy' BY <2>1, <2>5 DEF Busy
    <3>6. Working' BY <2>1, <2>3, <3>2, <3>3, <3>5 DEF Working
    <3> QED BY <2>1, <3>4, <3>6 DEF KV!vars
  <2> QED BY <2>4, <2>5
<1>13. ASSUME PowerFail PROVE Working' /\ KV!Next
  <2>1. mode' = "off" /\ todo' = << >> /\ call' = NoCall BY <1>13 DEF PowerFail
  <2>2. ~Busy' BY <2>1 DEF Busy
  <2>3. Sound(flash') /\ (view' = view \/ (Busy /\ view' = KV!Applied))
    <3>1. CASE todo = << >>
      <4>1. flash' = flash BY <1>13, <3>1 DEF PowerFail
      <4> QED BY <1>1, <4>1 DEF view
    <3>2. CASE todo # << >>
      <4>1. PICK n \in 0 .. Len(w.cells) - 1 : flash' = Done(flash, w, n)
        BY <1>13, <3>2 DEF PowerFail, w
      <4>2. n \in 0 .. Len(w.cells) BY <1>3, <3>2
      <4>3. CASE Busy BY <3>2, <4>1, <4>2, <4>3, ViewServed DEF w
      <4>4. CASE ~Busy
        <5>1. Tidying(flash, todo) BY <4>4 DEF Working
        <5>2. Sound(flash') /\ Unseen(flash, flash')
          BY <1>1, <3>2, <4>1, <4>2, <5>1, TidyingStep DEF w
        <5> QED BY <5>2, ViewKept
      <4> QED BY <4>3, <4>4
    <3> QED BY <3>1, <3>2
  <2>4. Working' BY <2>1, <2>2, <2>3 DEF Working, Tidying
  <2>5. KV!PowerFail BY <2>1, <2>3 DEF KV!PowerFail, KV!Busy, Busy
  <2> QED BY <2>4, <2>5 DEF KV!Next
<1>14. ASSUME PowerOn PROVE Working' /\ [KV!Next]_(KV!vars)
  <2>1. /\ flash' = flash /\ mode = "off" /\ mode' = "init" /\ call' = call
        /\ todo' = IF p = 0 THEN mm_flash_format ELSE << >>
    BY <1>14 DEF PowerOn, p
  <2>2. call = NoCall BY <2>1 DEF Working
  <2>3. ~Busy' BY <2>1, <2>2 DEF Busy
  <2>4. Tidying(flash, todo') BY <2>1 DEF Tidying, FormatNow, p
  <2>5. Working' BY <1>1, <2>1, <2>2, <2>3, <2>4 DEF Working
  <2>6. view' = view BY <2>1 DEF view
  <2> QED BY <2>1, <2>5, <2>6 DEF KV!vars
<1>15. CASE UNCHANGED vars
  <2>1. /\ flash' = flash /\ todo' = todo /\ call' = call /\ failed' = failed /\ mode' = mode
    BY <1>15 DEF vars
  <2>2. view' = view BY <2>1 DEF view
  <2>3. Working' BY <2>1 DEF Working, Busy
  <2> QED BY <2>1, <2>2, <2>3 DEF KV!vars
<1> QED
  BY <1>5, <1>6, <1>7, <1>9, <1>10, <1>11, <1>12, <1>13, <1>14, <1>15 DEF Next

(* Working holds of the pages a device starts with, and they show a map    *)
(* that the abstract store may start with.                                 *)
LEMMA WorkingInit == ASSUME Init PROVE Working /\ KV!Init
<1>1. flash = [a \in Addr |-> Erased] /\ todo = << >> /\ call = NoCall BY DEF Init
<1>2. flash \in [Addr -> Cell] BY <1>1 DEF Cell
<1>3. Base(1) \in Addr /\ Base(2) \in Addr BY PageFacts
<1>4. flash[Base(1)] = Erased /\ flash[Base(2)] = Erased BY <1>1, <1>3
<1>5. mm_get_active_page(flash) = 0
  <2>1. Erased # Marker BY DEF Erased, Marker
  <2> QED BY <1>4, <2>1, NoActivePage
<1>6. Fenced(flash) BY <1>4 DEF Fenced, Erased
<1>7. Sound(flash) BY <1>2, <1>5, <1>6, NoneSound
<1>8. Working BY <1>1, <1>7 DEF Working, Tidying, Busy
<1>9. view = [i \in Ids |-> NoFile]
  <2>1. \A i \in Ids : mm_get(flash, i) = NoFile BY <1>5, GetNone
  <2> QED BY <2>1 DEF view
<1> QED BY <1>1, <1>8, <1>9 DEF KV!Init

(* While mm_set or mm_invalidate is in progress no cell of the other page  *)
(* changes.                                                                *)
LEMMA WritesInPage ==
  ASSUME Zeroable, TypeOK, Working, [Next]_vars, Busy,
         NEW p \in Page \ {mm_get_active_page(flash)}, NEW a \in Base(p) .. End(p) - 1
  PROVE  flash'[a] = flash[a]
<1>1. flash \in [Addr -> Cell] BY DEF TypeOK
<1>2. CASE flash' = flash BY <1>2
<1>3. ASSUME todo # << >>, NEW n \in 0 .. Len(Head(todo).cells),
             flash' = Done(flash, Head(todo), n)
      PROVE  flash'[a] = flash[a]
  <2>1. PICK r \in Page : r = mm_get_active_page(flash) /\ InPage(r, Head(todo))
    BY <1>3, ViewServed
  <2> DEFINE w == Head(todo)
  <2>2. /\ w.addr \in Nat /\ Len(w.cells) \in Nat /\ n \in Nat /\ n <= Len(w.cells)
        /\ Base(r) < w.addr /\ w.addr + Len(w.cells) <= End(r)
    <3>1. w \in Operation /\ Base(r) < w.addr /\ w.addr + Len(w.cells) <= End(r)
      BY <2>1 DEF InPage
    <3> HIDE DEF w
    <3>2. w.addr \in Nat /\ Len(w.cells) \in Nat BY <3>1, WholeOperation DEF Operation
    <3>3. n \in 0 .. Len(w.cells) BY <1>3 DEF w
    <3> QED BY <3>1, <3>2, <3>3
  <2>3. r \in {1, 2} /\ p \in {1, 2} /\ p # r BY <2>1 DEF Page
  <2>4. a \in Nat /\ Base(p) <= a /\ a < End(p) BY <2>3, PageFacts
  <2>5. a \in Addr BY <2>4, OnPage
  <2>6. \A b \in Addr : Done(flash, w, n)[b] = IF b \in w.addr .. w.addr + n - 1
                          THEN Program(flash[b], w.cells[b - w.addr + 1]) ELSE flash[b]
    BY <1>1, <1>3, <2>1, WriteIn
  <2> HIDE DEF w
  <2>7. ~(a \in w.addr .. w.addr + n - 1)
    <3>1. /\ Base(1) \in Nat /\ Base(2) \in Nat /\ End(1) = Base(2) /\ End(2) \in Nat
      BY PageFacts
    <3> QED BY <2>2, <2>3, <2>4, <3>1
  <2>8. Done(flash, w, n)[a] = flash[a] BY <2>5, <2>6, <2>7
  <2> QED BY <1>3, <2>8 DEF w
<1> QED BY <1>2, <1>3, FlashChanges

(* Working is an invariant of every behaviour in which the pages fit.      *)
LEMMA WorkingAlways == ASSUME Zeroable PROVE Spec /\ []Fits => [](TypeOK /\ Working)
<1>1. TypeOK /\ Working /\ Fits /\ [Next]_vars => Working' BY WorkingInductive
<1>2. Init => Working BY WorkingInit
<1>3. Spec => []TypeOK BY FlashTypeCorrect
<1> QED BY <1>1, <1>2, <1>3, PTL DEF Spec

(* The calls the application waits for, mm_set and mm_invalidate, write    *)
(* the active page alone, whatever the lengths of files and pages, as long *)
(* as mm_flash_zero takes every item and the room that HasSpace grants is  *)
(* room indeed.  The code checks neither, and the second may fail for the  *)
(* lengths of the firmware's own parameters (param_ids.c).                 *)
THEOREM OnlyActivePageWrittenHolds ==
  ASSUME Zeroable PROVE Spec /\ []Fits => OnlyActivePageWritten
<1> DEFINE Kept == Busy => \A p \in Page \ {mm_get_active_page(flash)} :
                     \A a \in Base(p) .. End(p) - 1 : flash'[a] = flash[a]
<1>1. TypeOK /\ Working /\ [Next]_vars => [Kept]_vars BY WritesInPage
<1>2. Spec /\ []Fits => [](TypeOK /\ Working) BY WorkingAlways
<1>3. Spec /\ []Fits => [][Kept]_vars
  <2> HIDE DEF Kept
  <2> QED BY <1>1, <1>2, PTL DEF Spec
<1> QED BY <1>3 DEF OnlyActivePageWritten

(* mm_set is atomic, as its comment says: the store implements the map of  *)
(* KvStore, in which a call takes effect at one moment or not at all, its  *)
(* result says which, and neither a power failure at any cell, nor the     *)
(* tidying of duplicates, pages and formats is seen.  The hypotheses are   *)
(* the same.                                                               *)
THEOREM SetIsAtomicHolds ==
  ASSUME Zeroable PROVE Spec /\ []Fits => SetIsAtomic
<1>1. TypeOK /\ Working /\ Fits /\ [Next]_vars => [KV!Next]_(KV!vars) BY WorkingInductive
<1>2. Init => KV!Init BY WorkingInit
<1>3. Spec /\ []Fits => [](TypeOK /\ Working) BY WorkingAlways
<1> QED BY <1>1, <1>2, <1>3, PTL DEF Spec, SetIsAtomic, KV!Spec

=============================================================================
