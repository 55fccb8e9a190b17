----------------------------- MODULE FlashPages -----------------------------
(***************************************************************************)
(* The key/file store on two NOR flash pages (flash_fs.c): what its calls  *)
(* find in the pages and which flash operations each of them makes.        *)
(*                                                                         *)
(* Flash is counted in cells.  The page marker is one cell, an item header *)
(* two (id and inverted id; length and CRC), a file FileLen cells.  A cell *)
(* holds one thing written to it, and what a second, different write       *)
(* leaves there is "mixed": the bitwise AND of two headers is no header,   *)
(* for id /\ id2 is the inverse of ~id /\ ~id2 only when id = id2.  The    *)
(* CRC tells a whole file from anything else.                              *)
(***************************************************************************)
EXTENDS Integers, Sequences, FiniteSetsExt

CONSTANTS
  Ids, RebootCnt,       \* identifiers; the one of the reboot counter
  Files, FileLen,       \* files and their lengths in cells
  NoFile,
  PageLen,              \* cells of a page
  MAX_FLASH_ZERO_SIZE   \* cells mm_flash_zero can zero at once

QWORD_LEN      == 1
ITEM_HEADER_SZ == 2
MIN_FILE_LEN   == ITEM_HEADER_SZ + 1

ASSUME IdsAssumption   == RebootCnt \in Ids
ASSUME FilesAssumption == FileLen \in [Files -> Nat \ {0}] /\ NoFile \notin Files
ASSUME PageAssumption  == PageLen \in Nat /\ PageLen > QWORD_LEN + MIN_FILE_LEN

File == Files \cup {NoFile}

Page    == {1, 2}
Addr    == 0 .. 2 * PageLen - 1
Base(p) == (p - 1) * PageLen
End(p)  == p * PageLen

Erased     == [is |-> "erased"]
Zero       == [is |-> "zero"]
Mixed      == [is |-> "mixed"]
Marker     == [is |-> "marker"]
Id(i)      == [is |-> "id", id |-> i]
Meta(v)    == [is |-> "meta", file |-> v]
Data(v, k) == [is |-> "data", file |-> v, at |-> k]

Cell == {Erased, Zero, Mixed, Marker} \cup {Id(i) : i \in Ids}
          \cup {Meta(v) : v \in Files}
          \cup UNION {{Data(v, k) : k \in 1 .. FileLen[v]} : v \in Files}

-----------------------------------------------------------------------------
(***************************************************************************)
(* flash_nvs: programming clears bits, the write is verified afterwards; a *)
(* write that leaves the region is refused.                                *)
(***************************************************************************)
Program(cell, x) ==
  CASE cell \in {Erased, x} -> x
    [] Zero \in {cell, x}   -> Zero
    [] OTHER                -> Mixed

Write(addr, cells) == [op |-> "write", addr |-> addr, cells |-> cells]
Erase(p)           == [op |-> "erase", addr |-> Base(p), cells |-> [k \in 1 .. PageLen |-> Erased]]

InRegion(o) == o.addr + Len(o.cells) <= 2 * PageLen

(* Flash after the first n cells of an operation. *)
Done(f, o, n) ==
  [a \in Addr |->
     IF a \in o.addr .. o.addr + n - 1 /\ InRegion(o)
     THEN IF o.op = "erase" THEN Erased ELSE Program(f[a], o.cells[a - o.addr + 1])
     ELSE f[a]]

Verified(f, o) ==
  InRegion(o) /\ \A k \in 1 .. Len(o.cells) : f[o.addr + k - 1] = o.cells[k]

Zeros(n) == [k \in 1 .. n |-> Zero]

-----------------------------------------------------------------------------
(* mm_get_active_page: page 1 is asked first; 0 when there is none. *)
mm_get_active_page(f) ==
  IF f[Base(1)] = Marker THEN 1 ELSE IF f[Base(2)] = Marker THEN 2 ELSE 0

ItemLen(f, o) == ITEM_HEADER_SZ + FileLen[f[o + 1].file]

(* A valid item at offset o: header, length below what remains of the page *)
(* from the header on, and the CRC of the file.                            *)
is_item(f, p, o) ==
  /\ f[o].is = "id" /\ f[o + 1].is = "meta"
  /\ FileLen[f[o + 1].file] < End(p) - o
  /\ \A k \in 1 .. FileLen[f[o + 1].file] :
       /\ o + ITEM_HEADER_SZ + k - 1 \in Addr
       /\ f[o + ITEM_HEADER_SZ + k - 1] = Data(f[o + 1].file, k)

(* The offsets mm_get_next can stop at.  It gives up MIN_FILE_LEN before   *)
(* the end of the page.                                                    *)
Stops(f, p, from) == {o \in from .. End(p) - MIN_FILE_LEN - 1 : is_item(f, p, o)}

(* The offsets of the items with one of these identifiers that repeated    *)
(* calls of mm_get_next return.                                            *)
Items(f, p, ids) ==
  LET items[from \in 0 .. 3 * PageLen] ==
        LET stops == Stops(f, p, from)
        IN  IF stops = {} THEN << >>
            ELSE LET o == Min(stops)
                 IN  (IF f[o].id \in ids THEN <<o>> ELSE << >>) \o items[o + ItemLen(f, o)]
  IN  items[Base(p) + QWORD_LEN]

(***************************************************************************)
(* mm_find_field.  All but the last item with the identifier are zeroed;   *)
(* "empty" is the end of the last item, whatever its identifier.           *)
(***************************************************************************)
Found(f, i) ==
  LET p == mm_get_active_page(f) IN IF p = 0 THEN << >> ELSE Items(f, p, {i})

Last(s) == s[Len(s)]

Empty(f) ==
  LET p == mm_get_active_page(f)
      s == Items(f, p, Ids)
  IN  IF s = << >> THEN Base(p) + QWORD_LEN ELSE Last(s) + ItemLen(f, Last(s))

(* rem_space, as a 32-bit number: negative when the last item ends behind  *)
(* the page, and then larger than any file.                                *)
RemSpace(f) == End(mm_get_active_page(f)) - Empty(f)

(* Mutant: the header is added to the room instead of to the file. *)
has_space_header_added(f, len) == RemSpace(f) < 0 \/ len <= RemSpace(f) + ITEM_HEADER_SZ

HasSpace(f, len) == RemSpace(f) < 0 \/ len <= RemSpace(f)

Duplicates(f, i) ==
  LET s == Found(f, i)
  IN  [k \in 1 .. Len(s) - 1 |-> Write(s[k], Zeros(ItemLen(f, s[k])))]

CanZero(o) == Len(o.cells) <= MAX_FLASH_ZERO_SIZE

(* It fails, found or not, without an active page or when a duplicate is   *)
(* longer than mm_flash_zero can zero.                                     *)
FindFails(f, i) ==
  \/ mm_get_active_page(f) = 0
  \/ \E k \in 1 .. Len(Found(f, i)) - 1 : ItemLen(f, Found(f, i)[k]) > MAX_FLASH_ZERO_SIZE

(* What mm_get returns. *)
mm_get(f, i) ==
  LET found == Found(f, i)
      Fits(k) == ItemLen(f, found[k]) <= MAX_FLASH_ZERO_SIZE
  IN  IF found # << >> /\ \A k \in 1 .. Len(found) - 1 : Fits(k)
      THEN f[Last(found) + 1].file ELSE NoFile

-----------------------------------------------------------------------------
(* The flash operations of each call. *)

(* Mutant: the old item is invalidated before the new one is written. *)
set_zero_first(f, i, v) ==
  LET at   == Empty(f)
      item == Found(f, i)
  IN  Duplicates(f, i)
        \o (IF item = << >> THEN << >>
            ELSE << Write(Last(item), Zeros(ITEM_HEADER_SZ)) >>)
        \o << Write(at, <<Id(i), Meta(v)>>),
              Write(at + ITEM_HEADER_SZ, [k \in 1 .. FileLen[v] |-> Data(v, k)]) >>

(* Mutant: one cell behind the file is written too. *)
set_one_cell_more(f, i, v) ==
  LET at   == Empty(f)
      item == Found(f, i)
  IN  Duplicates(f, i)
        \o << Write(at, <<Id(i), Meta(v)>>),
              Write(at + ITEM_HEADER_SZ, [k \in 1 .. FileLen[v] + 1 |-> Data(v, k)]) >>
        \o IF item = << >> THEN << >>
           ELSE << Write(Last(item), Zeros(ITEM_HEADER_SZ)) >>

mm_set(f, i, v) ==
  LET at   == Empty(f)
      item == Found(f, i)
  IN  Duplicates(f, i)
        \o << Write(at, <<Id(i), Meta(v)>>),
              Write(at + ITEM_HEADER_SZ, [k \in 1 .. FileLen[v] |-> Data(v, k)]) >>
        \o IF item = << >> THEN << >>
           ELSE << Write(Last(item), Zeros(ITEM_HEADER_SZ)) >>

mm_invalidate(f, i) ==
  LET o == Last(Found(f, i)) IN Duplicates(f, i) \o << Write(o, Zeros(ItemLen(f, o))) >>

mm_flash_format ==
  << Write(Base(2), <<Zero>>), Erase(1), Write(Base(1), <<Marker>>) >>

(* Mutant: the old page is made passive before the new one is made active. *)
turn_page_passive_first(f) ==
  LET p == mm_get_active_page(f)
      q == 3 - p
      s == Items(Done(f, Erase(q), PageLen), p, Ids)
      to[k \in 0 .. Len(s)] ==
        IF k = 0 THEN Base(q) + QWORD_LEN ELSE to[k - 1] + ItemLen(f, s[k])
      Copy(k) == Write(to[k - 1], [j \in 1 .. ItemLen(f, s[k]) |-> f[s[k] + j - 1]])
  IN  <<Erase(q)>> \o [k \in 1 .. Len(s) |-> Copy(k)]
        \o << Write(Base(p), <<Zero>>), Write(Base(q), <<Marker>>) >>

(* Every item is copied behind the copy of the one before.  The passive    *)
(* page is erased before the items are looked for.                         *)
mm_turn_page(f) ==
  LET p == mm_get_active_page(f)
      q == 3 - p
      s == Items(Done(f, Erase(q), PageLen), p, Ids)
      to[k \in 0 .. Len(s)] ==
        IF k = 0 THEN Base(q) + QWORD_LEN ELSE to[k - 1] + ItemLen(f, s[k])
      Copy(k) == Write(to[k - 1], [j \in 1 .. ItemLen(f, s[k]) |-> f[s[k] + j - 1]])
  IN  <<Erase(q)>> \o [k \in 1 .. Len(s) |-> Copy(k)]
        \o << Write(Base(q), <<Marker>>), Write(Base(p), <<Zero>>) >>
=============================================================================
