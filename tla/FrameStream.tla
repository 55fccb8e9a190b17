---------------------------- MODULE FrameStream ----------------------------
(***************************************************************************)
(* A stream of framed messages, some of its bytes lost, and a byte machine *)
(* that searches it for frames: what follows from the way a machine        *)
(* handles a single byte, whatever the protocol.  Used for the machines on *)
(* UART1 (UartPortProofs) and for the one of the tunnel (TbfpStreamProofs).*)
(*                                                                         *)
(* ms are the messages sent.  A byte is known by its message and its place *)
(* in the frame, <<n, i>>.                                                 *)
(***************************************************************************)
EXTENDS Integers, Sequences, SequenceTheorems, TLAPS

CONSTANTS
  Val(_, _),      \* Val(ms, x): what byte x reads as
  Size(_, _),     \* Size(ms, n): bytes of the frame of message n
  Mine(_, _, _)   \* Mine(ms, kind, n): message n is for machines of this kind

Own(ms, kind, x) == Mine(ms, kind, x[1])

(* From place k on, s has the first l bytes of message n.                  *)
Runs(s, k, n, l) == \A i \in 1 .. l : s[k + i - 1] = <<n, i>>

(* The message that begins at place k has come, or is coming, whole.       *)
WholeFrom(ms, s, k) ==
  /\ k + Size(ms, s[k][1]) - 1 <= Len(s)
  /\ Runs(s, k, s[k][1], Size(ms, s[k][1]))

ComingFrom(ms, s, k) ==
  /\ Len(s) - k + 1 < Size(ms, s[k][1])
  /\ Runs(s, k, s[k][1], Len(s) - k + 1)

(* A start byte that begins no frame of the machine's own, or one that is  *)
(* never recognised.                                                       *)
Stray(ms, kind, start, s, g, j) ==
  /\ Val(ms, s[j]) = start /\ s[j][1] \notin g
  /\ ~(Own(ms, kind, s[j]) /\ WholeFrom(ms, s, j))

Misled(ms, kind, start, longest, s, g, k) ==
  \E j \in 1 .. k - 1 : k - j < longest /\ Stray(ms, kind, start, s, g, j)

(* s ends with f. *)
Ends(s, f) ==
  /\ Len(f) <= Len(s)
  /\ \A i \in 1 .. Len(f) : f[i] = s[Len(s) - Len(f) + i]

(* f, the frame in progress, is the end of s, shorter than a longest frame *)
(* and begun by a stray start byte as long as it is not recognised; an own *)
(* frame that is coming is f itself or is misled, and one that has come    *)
(* whole is recognised or was misled.                                      *)
FrameInv(ms, kind, start, longest, f, s, g) ==
  /\ Ends(s, f) /\ Len(f) < longest
  /\ Len(f) # 0 => Stray(ms, kind, start, s, g, Len(s) - Len(f) + 1)
  /\ \A k \in 1 .. Len(s) :
       Own(ms, kind, s[k]) /\ ComingFrom(ms, s, k) =>
         Len(f) = Len(s) - k + 1 \/ Misled(ms, kind, start, longest, s, g, k)
  /\ \A k \in 1 .. Len(s) :
       Own(ms, kind, s[k]) /\ WholeFrom(ms, s, k) =>
         s[k][1] \in g \/ Misled(ms, kind, start, longest, s, g, k)

Before(x, y) == x[1] < y[1] \/ (x[1] = y[1] /\ x[2] < y[2])

Ascending(s) == \A i, j \in 1 .. Len(s) : i < j => Before(s[i], s[j])

(* The five facts about a machine that is given b: it keeps the byte or    *)
(* lets everything go; what it keeps stays short; a frame begins with the  *)
(* start byte; a frame of its own is kept as long as it is coming, and     *)
(* recognised with its last byte; what it recognises it lets go.           *)
Handles(ms, kind, start, longest, f, g, b, f2, g2) ==
  LET mine == /\ Own(ms, kind, b) /\ Len(f) # 0
              /\ Runs(f, 1, b[1], Len(f)) /\ b[2] = Len(f) + 1
  IN
  /\ f2 = << >> \/ f2 = Append(f, b)
  /\ Len(f2) < longest
  /\ Len(f) = 0 => f2 = IF Val(ms, b) = start THEN Append(f, b) ELSE << >>
  /\ mine /\ Len(f) + 1 < Size(ms, b[1]) => f2 = Append(f, b)
  /\ mine /\ Len(f) + 1 = Size(ms, b[1]) => f2 = << >> /\ b[1] \in g2
  /\ g2 = g \/ (g2 = g \cup {b[1]} /\ f2 = << >>)

(* b comes after s. *)
Extends(s, b, s2) ==
  /\ Len(s) \in Nat /\ Len(s2) = Len(s) + 1
  /\ \A i \in 1 .. Len(s) : s2[i] = s[i]
  /\ s2[Len(s) + 1] = b

LEMMA ExtendsByAppend ==
  ASSUME NEW S, NEW s \in Seq(S), NEW b \in S
  PROVE  Extends(s, b, Append(s, b)) /\ Append(s, b) \in Seq(S)
BY AppendProperties, LenProperties DEF Extends

(* Every element of s is a byte.                                           *)
Bytes(s) ==
  \A i \in 1 .. Len(s) :
    /\ s[i] = <<s[i][1], s[i][2]>>
    /\ s[i][1] \in Nat /\ s[i][2] \in Nat /\ s[i][2] >= 1

(* A frame that is whole after one more byte was whole before, or ends     *)
(* with that byte.                                                         *)
LEMMA WholeOrEnds ==
  ASSUME NEW ms, NEW s, NEW s2, NEW b, NEW j \in 1 .. Len(s),
         Extends(s, b, s2), Size(ms, s[j][1]) \in Nat
  PROVE  /\ s2[j] = s[j]
         /\ WholeFrom(ms, s, j) => WholeFrom(ms, s2, j)
         /\ WholeFrom(ms, s2, j) => WholeFrom(ms, s, j) \/ j + Size(ms, s[j][1]) = Len(s) + 2
<1> DEFINE L == Len(s)  n == s[j][1]  z == Size(ms, n)
<1>1. /\ L \in Nat /\ Len(s2) = L + 1 /\ j \in 1 .. L /\ z \in Nat
      /\ \A i \in 1 .. L : s2[i] = s[i]
  BY DEF Extends
<1>2. s2[j] = s[j] BY <1>1
<1>3. WholeFrom(ms, s, j) <=> j + z - 1 <= L /\ Runs(s, j, n, z) BY DEF WholeFrom
<1>4. WholeFrom(ms, s2, j) <=> j + z - 1 <= L + 1 /\ Runs(s2, j, n, z)
  BY <1>1, <1>2, Zenon DEF WholeFrom
<1> HIDE DEF L, n, z
<1>5. ASSUME j + z - 1 <= L PROVE Runs(s, j, n, z) <=> Runs(s2, j, n, z)
  <2>1. ASSUME NEW i \in 1 .. z PROVE s2[j + i - 1] = s[j + i - 1]
    <3>1. j + i - 1 \in 1 .. L BY <1>1, <1>5
    <3> QED BY <1>1, <3>1
  <2> QED BY <2>1, Zenon DEF Runs
<1>6. j + z - 1 <= L + 1 => j + z - 1 <= L \/ j + z = L + 2 BY <1>1
<1>7. j + z - 1 <= L => j + z - 1 <= L + 1 BY <1>1
<1> QED BY <1>2, <1>3, <1>4, <1>5, <1>6, <1>7, Zenon DEF L, n, z

(* A stray start byte before the first byte of a message stays stray,      *)
(* whatever comes.                                                         *)
LEMMA StrayStays ==
  ASSUME NEW ms, NEW kind, NEW start, NEW s, NEW s2, Bytes(s2), NEW b, NEW g, NEW g2,
         Extends(s, b, s2), Ascending(s2), g2 \subseteq g \cup {b[1]},
         NEW k \in 1 .. Len(s2), s2[k][2] = 1, NEW j \in 1 .. Len(s), j < k,
         Size(ms, s[j][1]) \in Nat, Stray(ms, kind, start, s, g, j)
  PROVE  Stray(ms, kind, start, s2, g2, j)
<1> DEFINE L == Len(s)  n == s[j][1]  z == Size(ms, n)
<1>1. L \in Nat /\ Len(s2) = L + 1 /\ s2[L + 1] = b /\ j \in 1 .. L /\ z \in Nat
  BY DEF Extends
<1>2. s2[j] = s[j] /\ (WholeFrom(ms, s2, j) => WholeFrom(ms, s, j) \/ j + z = L + 2)
  BY WholeOrEnds
<1>3. Val(ms, s[j]) = start /\ n \notin g /\ ~(Own(ms, kind, s[j]) /\ WholeFrom(ms, s, j))
  BY DEF Stray
<1>4. WholeFrom(ms, s2, j) => Runs(s2, j, n, z) BY <1>2, Zenon DEF WholeFrom
<1> HIDE DEF L, z
<1>5. j \in 1 .. Len(s2) /\ L + 1 \in 1 .. Len(s2) BY <1>1
<1>6. /\ s2[j][1] \in Nat /\ s2[j][2] \in Nat /\ s2[j][2] >= 1
      /\ s2[k][1] \in Nat /\ b[1] \in Nat
  BY <1>1, <1>5 DEF Bytes
<1>7. n # b[1]
  <2>1. Before(s2[j], s2[k]) BY <1>5 DEF Ascending
  <2>2. s2[j][1] < s2[k][1] BY <1>6, <2>1 DEF Before
  <2>3. s2[k][1] <= b[1]
    <3>1. CASE k = L + 1 BY <1>1, <1>6, <3>1
    <3>2. CASE k < L + 1
      <4>1. Before(s2[k], b) BY <1>1, <1>5, <3>2 DEF Ascending
      <4> QED BY <1>6, <4>1 DEF Before
    <3> QED BY <1>1, <3>1, <3>2
  <2> QED BY <1>2, <1>6, <2>2, <2>3
<1>8. WholeFrom(ms, s2, j) => WholeFrom(ms, s, j)
  <2> SUFFICES ASSUME WholeFrom(ms, s2, j), j + z = L + 2 PROVE FALSE BY <1>2
  <2>1. k - j + 1 \in 1 .. z /\ j + (k - j + 1) - 1 = k /\ k - j + 1 # 1 BY <1>1
  <2>2. s2[k] = <<n, k - j + 1>> BY <1>4, <2>1 DEF Runs
  <2> QED BY <2>1, <2>2
<1>9. s2[j][1] \notin g2 BY <1>2, <1>3, <1>7
<1> HIDE DEF n
<1> QED BY <1>2, <1>3, <1>8, <1>9 DEF Stray

LEMMA MisledStays ==
  ASSUME NEW ms, NEW kind, NEW start, NEW longest,
         NEW s, NEW s2, Bytes(s2), NEW b, NEW g, NEW g2,
         Extends(s, b, s2), Ascending(s2), g2 \subseteq g \cup {b[1]},
         \A i \in 1 .. Len(s2) : Size(ms, s2[i][1]) \in Nat,
         NEW k \in 1 .. Len(s), s2[k][2] = 1,
         Misled(ms, kind, start, longest, s, g, k)
  PROVE  Misled(ms, kind, start, longest, s2, g2, k)
<1>1. Len(s) \in Nat /\ Len(s2) = Len(s) + 1 /\ \A i \in 1 .. Len(s) : s2[i] = s[i]
  BY DEF Extends
<1>2. PICK j \in 1 .. k - 1 : k - j < longest /\ Stray(ms, kind, start, s, g, j)
  BY DEF Misled
<1>3. j \in 1 .. Len(s) /\ j < k /\ k \in 1 .. Len(s2) /\ j \in 1 .. Len(s2) BY <1>1
<1>4. Size(ms, s[j][1]) \in Nat BY <1>1, <1>3
<1>5. Stray(ms, kind, start, s2, g2, j) BY <1>2, <1>3, <1>4, StrayStays
<1> QED BY <1>2, <1>5 DEF Misled

(* What is given, kept together.                                           *)
Given(s, f, b, s2) ==
  /\ Extends(s, b, s2) /\ Bytes(s2) /\ Ascending(s2)
  /\ Extends(f, b, Append(f, b))

Sized(ms, s) == \A i \in 1 .. Len(s) : Size(ms, s[i][1]) \in Nat /\ Size(ms, s[i][1]) >= 2

(* One more byte, one step of any machine.                                 *)
LEMMA FrameStep ==
  ASSUME NEW ms, NEW kind, NEW start, NEW longest \in Nat,
         NEW s, NEW f, NEW b, NEW g, NEW s2, NEW f2, NEW g2,
         Given(s, f, b, s2), Sized(ms, s2),
         FrameInv(ms, kind, start, longest, f, s, g),
         Handles(ms, kind, start, longest, f, g, b, f2, g2),
         b[1] \notin g,
         Own(ms, kind, b) /\ b[2] = 1 => Val(ms, b) = start
  PROVE  FrameInv(ms, kind, start, longest, f2, s2, g2)
<1> DEFINE L == Len(s)  F == Len(f)  a == Append(f, b)  D == L - F + 1
<1>0. Extends(s, b, s2) /\ Bytes(s2) /\ Ascending(s2) /\ Extends(f, b, a)
  BY DEF Given
<1>1. L \in Nat /\ F \in Nat BY <1>0 DEF Extends
<1>2. /\ F <= L /\ F < longest
      /\ \A i \in 1 .. F : f[i] = s[L - F + i]
      /\ F # 0 => Stray(ms, kind, start, s, g, D)
      /\ Ends(s, f)
  BY DEF FrameInv, Ends
<1>3. \A k \in 1 .. L : Own(ms, kind, s[k]) /\ ComingFrom(ms, s, k) =>
        F = L - k + 1 \/ Misled(ms, kind, start, longest, s, g, k)
  BY DEF FrameInv
<1>4. \A k \in 1 .. L : Own(ms, kind, s[k]) /\ WholeFrom(ms, s, k) =>
        s[k][1] \in g \/ Misled(ms, kind, start, longest, s, g, k)
  BY DEF FrameInv
<1>5. /\ Len(s2) = L + 1 /\ s2[L + 1] = b /\ \A i \in 1 .. L : s2[i] = s[i]
      /\ Len(a) = F + 1 /\ a[F + 1] = b /\ \A i \in 1 .. F : a[i] = f[i]
  BY <1>0 DEF Extends
<1>6. /\ f2 = << >> \/ f2 = a
      /\ Len(f2) < longest
      /\ F = 0 => f2 = IF Val(ms, b) = start THEN a ELSE << >>
      /\ g2 = g \/ (g2 = g \cup {b[1]} /\ f2 = << >>)
  BY DEF Handles
<1>7. ASSUME Own(ms, kind, b), F # 0, Runs(f, 1, b[1], F), b[2] = F + 1
      PROVE  /\ F + 1 < Size(ms, b[1]) => f2 = a
             /\ F + 1 = Size(ms, b[1]) => f2 = << >> /\ b[1] \in g2
  BY <1>7 DEF Handles
<1>8. Len(<< >>) = 0 BY EmptySeq
<1>9. g2 \subseteq g \cup {b[1]} /\ g \subseteq g2 BY <1>6
<1>10. F # 0 => D \in 1 .. L /\ f[1] = s[D] /\ F = L - D + 1
  BY <1>1, <1>2
<1>11. \A i \in 1 .. L + 1 : Size(ms, s2[i][1]) \in Nat /\ Size(ms, s2[i][1]) >= 2 BY <1>5 DEF Sized
(* The message that begins at k, and the frame in progress with it, are    *)
(* one byte longer.                                                        *)
<1>13. ASSUME NEW k \in 1 .. L, F = L - k + 1, NEW n, Own(ms, kind, <<n, 1>>), Runs(s2, k, n, F + 1)
       PROVE  /\ Own(ms, kind, b) /\ b = <<n, F + 1>> /\ b[1] = n
              /\ F + 1 < Size(ms, n) => f2 = a
              /\ F + 1 = Size(ms, n) => f2 = << >> /\ n \in g2
  <2> HIDE DEF L, F
  <2>1. Runs(f, 1, n, F) /\ b = <<n, F + 1>>
    <3>1. \A i \in 1 .. F + 1 : s2[k + i - 1] = <<n, i>> BY <1>13 DEF Runs
    <3>2. ASSUME NEW i \in 1 .. F PROVE f[1 + i - 1] = <<n, i>>
      <4>1. 1 + i - 1 = i /\ i \in 1 .. F + 1 /\ L - F + i = k + i - 1 /\ k + i - 1 \in 1 .. L
        BY <1>1, <1>13
      <4>2. f[i] = s[k + i - 1] BY <1>2, <4>1
      <4>3. s2[k + i - 1] = <<n, i>> BY <3>1, <4>1
      <4> QED BY <1>5, <4>1, <4>2, <4>3
    <3>3. k + (F + 1) - 1 = L + 1 /\ F + 1 \in 1 .. F + 1 BY <1>1, <1>13
    <3>4. b = <<n, F + 1>> BY <1>5, <3>1, <3>3
    <3> QED BY <3>2, <3>4, Zenon DEF Runs
  <2>2. b[1] = n /\ b[2] = F + 1 BY <2>1
  <2>3. F # 0 BY <1>1, <1>13
  <2>4. Own(ms, kind, b) BY <1>13, <2>2 DEF Own
  <2> QED BY <1>7, <2>1, <2>2, <2>3, <2>4, Zenon
<1> HIDE DEF L, F, a
<1>14. Len(f2) <= Len(s2) /\ Len(f2) < longest BY <1>1, <1>2, <1>5, <1>6, <1>8
<1>15. ASSUME NEW i \in 1 .. Len(f2) PROVE f2[i] = s2[Len(s2) - Len(f2) + i]
  <2>1. f2 = a /\ Len(f2) = F + 1 BY <1>5, <1>6, <1>8
  <2>2. Len(s2) - Len(f2) + i = L - F + i BY <1>1, <1>5, <2>1
  <2>3. CASE i = F + 1 BY <1>1, <1>5, <2>1, <2>2, <2>3
  <2>4. CASE i \in 1 .. F
    <3>1. L - F + i \in 1 .. L BY <1>1, <1>2, <2>4
    <3> QED BY <1>2, <1>5, <2>1, <2>2, <2>4, <3>1
  <2> QED BY <1>1, <2>1, <2>3, <2>4
<1>16. ASSUME Len(f2) # 0 PROVE Stray(ms, kind, start, s2, g2, Len(s2) - Len(f2) + 1)
  <2>1. f2 = a /\ Len(f2) = F + 1 /\ g2 = g BY <1>1, <1>5, <1>6, <1>8, <1>16
  <2>2. Len(s2) - Len(f2) + 1 = D BY <1>1, <1>5, <2>1
  <2>3. CASE F = 0
    <3>1. D = L + 1 /\ s2[D] = b BY <1>1, <1>5, <2>3
    <3>2. Val(ms, b) = start BY <1>6, <1>8, <1>16, <2>3
    <3>3. ~WholeFrom(ms, s2, D)
      <4>1. Size(ms, b[1]) \in Nat /\ Size(ms, b[1]) >= 2 BY <1>1, <1>5, <1>11
      <4> QED BY <1>1, <1>5, <3>1, <4>1 DEF WholeFrom
    <3> HIDE DEF D
    <3> QED BY <2>1, <2>2, <3>1, <3>2, <3>3 DEF Stray
  <2>4. CASE F # 0
    <3>1. D \in 1 .. L /\ s2[D] = s[D] BY <1>5, <1>10, <2>4
    <3>2. Val(ms, s[D]) = start /\ s[D][1] \notin g /\ ~(Own(ms, kind, s[D]) /\ WholeFrom(ms, s, D))
      BY <1>2, <2>4 DEF Stray
    <3>3. ASSUME Own(ms, kind, s[D]), WholeFrom(ms, s2, D) PROVE FALSE
      <4> DEFINE n == s[D][1]  z == Size(ms, n)
      <4>1. z \in Nat /\ n = s2[D][1] BY <1>1, <1>11, <3>1
      <4>2. D + z = L + 2
        <5>1. WholeFrom(ms, s, D) \/ D + z = L + 2 BY <1>0, <3>1, <3>3, <4>1, WholeOrEnds DEF L
        <5> QED BY <3>2, <3>3, <5>1
      <4>3. Runs(s2, D, n, z) BY <3>1, <3>3, Zenon DEF WholeFrom
      <4>4. z = F + 1 BY <1>1, <4>1, <4>2
      <4>5. Own(ms, kind, <<n, 1>>) BY <3>3 DEF Own
      <4> HIDE DEF z, D, n
      <4>6. F = L - D + 1 BY <1>10, <2>4
      <4>7. f2 = << >> BY <1>13, <3>1, <4>3, <4>4, <4>5, <4>6 DEF z
      <4> QED BY <1>8, <1>16, <4>7
    <3> HIDE DEF D
    <3> QED BY <2>1, <2>2, <3>1, <3>2, <3>3 DEF Stray
  <2> QED BY <2>3, <2>4
<1> HIDE DEF D
<1>17. ASSUME NEW k \in 1 .. L + 1, Own(ms, kind, s2[k]), ComingFrom(ms, s2, k)
       PROVE  Len(f2) = Len(s2) - k + 1 \/ Misled(ms, kind, start, longest, s2, g2, k)
  <2> DEFINE n == s2[k][1]  z == Size(ms, n)  l == L + 1 - k + 1
  <2>1. l < z /\ Runs(s2, k, n, l)
    <3>1. Len(s2) - k + 1 = l BY <1>1, <1>5
    <3> HIDE DEF l
    <3> QED BY <1>17, <3>1 DEF ComingFrom
  <2>2. l \in Nat /\ l >= 1 /\ z \in Nat BY <1>1, <1>11
  <2>3. s2[k] = <<n, 1>>
    <3>1. 1 \in 1 .. l /\ k + 1 - 1 = k BY <1>1, <2>2
    <3> HIDE DEF l, n
    <3> QED BY <2>1, <3>1 DEF Runs
  <2>4. s2[k][2] = 1 BY <2>3
  <2>5. CASE k = L + 1
    <3>1. s2[k] = b /\ Val(ms, b) = start /\ Len(s2) - k + 1 = 1
      BY <1>1, <1>5, <1>17, <2>4, <2>5
    <3>2. CASE F = 0 BY <1>5, <1>6, <3>1, <3>2
    <3>3. CASE F # 0
      <4>1. Stray(ms, kind, start, s, g, D) /\ D \in 1 .. L BY <1>2, <1>10, <3>3
      <4>2. D < k /\ D \in 1 .. k - 1 /\ k - D < longest BY <1>1, <1>2, <1>10, <2>5, <3>3, <4>1
      <4>3. Size(ms, s[D][1]) \in Nat
        <5>1. D \in 1 .. L + 1 /\ s2[D] = s[D] BY <1>1, <1>5, <4>1
        <5> QED BY <1>11, <5>1
      <4>4. k \in 1 .. Len(s2) BY <1>5
      <4>5. Stray(ms, kind, start, s2, g2, D)
        BY <1>0, <1>9, <2>4, <4>1, <4>2, <4>3, <4>4, StrayStays DEF L
      <4> QED BY <4>2, <4>5 DEF Misled
    <3> QED BY <3>2, <3>3
  <2>6. CASE k \in 1 .. L
    <3>1. s2[k] = s[k] BY <1>5, <2>6
    <3>2. ComingFrom(ms, s, k)
      <4>1. L - k + 1 < z BY <1>1, <2>1, <2>2
      <4>2. ASSUME NEW i \in 1 .. L - k + 1 PROVE s[k + i - 1] = <<n, i>>
        <5>1. i \in 1 .. l /\ k + i - 1 \in 1 .. L BY <1>1, <2>6
        <5> HIDE DEF l, n
        <5>2. s2[k + i - 1] = <<n, i>> BY <2>1, <5>1 DEF Runs
        <5> QED BY <1>5, <5>1, <5>2
      <4>3. n = s[k][1] BY <3>1
      <4> HIDE DEF n
      <4> QED BY <4>1, <4>2, <4>3 DEF ComingFrom, Runs, L
    <3>3. F = L - k + 1 \/ Misled(ms, kind, start, longest, s, g, k)
      BY <1>3, <1>17, <2>6, <3>1, <3>2
    <3>4. CASE F = L - k + 1
      <4>1. l = F + 1 /\ Len(s2) - k + 1 = F + 1 BY <1>1, <1>5, <2>6, <3>4
      <4>2. Own(ms, kind, <<n, 1>>) BY <1>17 DEF Own
      <4> HIDE DEF n, z, l
      <4>3. f2 = a BY <1>13, <2>1, <2>6, <3>4, <4>1, <4>2 DEF z
      <4> QED BY <1>5, <4>1, <4>3
    <3>5. CASE Misled(ms, kind, start, longest, s, g, k)
      <4>1. \A i \in 1 .. Len(s2) : Size(ms, s2[i][1]) \in Nat BY <1>5, <1>11
      <4> QED BY <1>0, <1>9, <2>4, <2>6, <3>5, <4>1, MisledStays DEF L
    <3> QED BY <3>3, <3>4, <3>5
  <2> QED BY <1>1, <2>5, <2>6
<1>18. ASSUME NEW k \in 1 .. L + 1, Own(ms, kind, s2[k]), WholeFrom(ms, s2, k)
       PROVE  s2[k][1] \in g2 \/ Misled(ms, kind, start, longest, s2, g2, k)
  <2> DEFINE n == s2[k][1]  z == Size(ms, n)
  <2>1. k + z - 1 <= L + 1 /\ Runs(s2, k, n, z) BY <1>5, <1>18 DEF WholeFrom
  <2>2. z \in Nat /\ z >= 2 BY <1>11
  <2>3. k \in 1 .. L BY <1>1, <2>1, <2>2
  <2>4. s2[k] = s[k] BY <1>5, <2>3
  <2>5. s2[k][2] = 1
    <3>1. 1 \in 1 .. z /\ k + 1 - 1 = k BY <1>1, <2>2
    <3>2. s2[k] = <<n, 1>>
      <4> HIDE DEF z, n
      <4> QED BY <2>1, <3>1 DEF Runs
    <3> QED BY <3>2
  <2>6. ASSUME Misled(ms, kind, start, longest, s, g, k)
        PROVE  Misled(ms, kind, start, longest, s2, g2, k)
    <3>1. \A i \in 1 .. Len(s2) : Size(ms, s2[i][1]) \in Nat BY <1>5, <1>11
    <3> QED BY <1>0, <1>9, <2>3, <2>5, <2>6, <3>1, MisledStays DEF L
  <2>7. WholeFrom(ms, s, k) \/ k + z = L + 2
    <3>1. Size(ms, s[k][1]) \in Nat BY <2>2, <2>4
    <3> QED BY <1>0, <1>18, <2>3, <2>4, <3>1, WholeOrEnds DEF L
  <2>8. CASE WholeFrom(ms, s, k)
    <3>1. s[k][1] \in g \/ Misled(ms, kind, start, longest, s, g, k)
      BY <1>4, <1>18, <2>3, <2>4, <2>8
    <3> QED BY <1>9, <2>4, <2>6, <3>1
  <2>9. CASE k + z = L + 2
    <3>1. ComingFrom(ms, s, k)
      <4>1. L - k + 1 < z BY <1>1, <2>2, <2>9
      <4>2. ASSUME NEW i \in 1 .. L - k + 1 PROVE s[k + i - 1] = <<n, i>>
        <5>1. i \in 1 .. z /\ k + i - 1 \in 1 .. L BY <1>1, <2>2, <2>3, <2>9
        <5> HIDE DEF z, n
        <5>2. s2[k + i - 1] = <<n, i>> BY <2>1, <5>1 DEF Runs
        <5> QED BY <1>5, <5>1, <5>2
      <4>3. n = s[k][1] BY <2>4
      <4> HIDE DEF n
      <4> QED BY <4>1, <4>2, <4>3 DEF ComingFrom, Runs, L
    <3>2. F = L - k + 1 \/ Misled(ms, kind, start, longest, s, g, k)
      BY <1>3, <1>18, <2>3, <2>4, <3>1
    <3>3. CASE F = L - k + 1
      <4>1. z = F + 1 BY <1>1, <2>2, <2>9, <3>3
      <4>2. Own(ms, kind, <<n, 1>>) BY <1>18 DEF Own
      <4> HIDE DEF n, z
      <4>3. n \in g2 BY <1>13, <2>1, <2>3, <3>3, <4>1, <4>2 DEF z
      <4> QED BY <4>3 DEF n
    <3> QED BY <2>6, <3>2, <3>3
  <2> QED BY <2>7, <2>8, <2>9
<1>19. 1 .. Len(s2) = 1 .. L + 1 BY <1>5
<1> QED BY <1>14, <1>15, <1>16, <1>17, <1>18, <1>19 DEF FrameInv, Ends

-----------------------------------------------------------------------------
(* The bytes on their way.  A byte is one that the receiver has put on the *)
(* wire; bytes come in the order they were sent, those a machine was given *)
(* before those in the FIFO; of a recognised message nothing is to come.   *)
Valid(ms, n, x) ==
  /\ x[1] \in 1 .. Len(ms) /\ x[2] \in 1 .. Size(ms, x[1])
  /\ x[1] = Len(ms) => x[2] <= n

InOrder(ms, n, q, s, g) ==
  /\ \A i \in 1 .. Len(s) : Valid(ms, n, s[i])
  /\ \A i \in 1 .. Len(q) : Valid(ms, n, q[i])
  /\ Ascending(s) /\ Ascending(q)
  /\ \A i \in 1 .. Len(s), j \in 1 .. Len(q) : Before(s[i], q[j])
  /\ \A m \in g : /\ m \in 1 .. Len(ms) /\ (m = Len(ms) => n = Size(ms, m))
                  /\ \A i \in 1 .. Len(q) : q[i][1] # m

(* The frames have a length; n bytes of the last one have been sent.       *)
Wire(ms, n) ==
  /\ \A m \in 1 .. Len(ms) : Size(ms, m) \in Nat /\ Size(ms, m) >= 2
  /\ n \in Nat /\ (ms # << >> => n <= Size(ms, Len(ms)))

(* A set of bytes, as a protocol defines it.                               *)
Pairs(B) == B \subseteq Nat \X (Nat \ {0})

LEMMA PlaceInFrame ==
  ASSUME NEW ms, NEW n, Wire(ms, n), NEW B, Pairs(B), NEW x \in B, Valid(ms, n, x)
  PROVE  /\ Size(ms, x[1]) \in Nat /\ Size(ms, x[1]) >= 2
         /\ x[1] \in 1 .. Len(ms) /\ x[2] \in 1 .. Size(ms, x[1])
         /\ x[1] \in Nat /\ x[2] \in Nat /\ x[2] >= 1 /\ x = <<x[1], x[2]>>
<1>1. x \in Nat \X (Nat \ {0}) BY DEF Pairs
<1>2. x[1] \in Nat /\ x[2] \in Nat /\ x[2] >= 1 /\ x = <<x[1], x[2]>> BY <1>1
<1> QED BY <1>2 DEF Valid, Wire

LEMMA PairsOf ==
  ASSUME NEW B, Pairs(B), NEW s \in Seq(B)
  PROVE  Bytes(s)
<1> SUFFICES ASSUME NEW i \in 1 .. Len(s)
             PROVE  /\ s[i] = <<s[i][1], s[i][2]>>
                    /\ s[i][1] \in Nat /\ s[i][2] \in Nat /\ s[i][2] >= 1
  BY DEF Bytes
<1>1. s[i] \in B BY ElementOfSeq
<1>2. s[i] \in Nat \X (Nat \ {0}) BY <1>1 DEF Pairs
<1> QED BY <1>2

(* b is the next byte of q. *)
NextByte(q, b) == q # << >> /\ b = Head(q)

(* A machine's loop takes the next byte, and gives it to the machine or not. *)
LEMMA ByteTaken ==
  ASSUME NEW ms, NEW n, Wire(ms, n), NEW B, Pairs(B), NEW q \in Seq(B), q # << >>,
         NEW s \in Seq(B), NEW g, InOrder(ms, n, q, s, g)
  PROVE  /\ Head(q) \in B /\ Valid(ms, n, Head(q)) /\ Head(q)[1] \notin g
         /\ Tail(q) \in Seq(B) /\ Len(Tail(q)) <= Len(q)
         /\ InOrder(ms, n, Tail(q), s, g)
         /\ InOrder(ms, n, Tail(q), Append(s, Head(q)), g)
         /\ Head(q)[2] = Size(ms, Head(q)[1]) =>
              InOrder(ms, n, Tail(q), Append(s, Head(q)), g \cup {Head(q)[1]})
<1> DEFINE b == Head(q)  r == Tail(q)  s2 == Append(s, b)  Q == Len(q)  R == Len(r)  S == Len(s)
<1>0. n \in Nat /\ (ms # << >> => n <= Size(ms, Len(ms))) BY DEF Wire
<1>1. /\ b \in B /\ r \in Seq(B) /\ R = Q - 1
      /\ \A i \in 1 .. R : r[i] = q[i + 1]
  BY HeadTailProperties
<1>2. Q \in Nat /\ Q # 0 /\ b = q[1] BY EmptySeq, LenProperties
<1>3. Extends(s, b, s2) BY <1>1, ExtendsByAppend
<1>4. /\ \A i \in 1 .. S : Valid(ms, n, s[i])
      /\ \A i \in 1 .. Q : Valid(ms, n, q[i])
      /\ \A i, j \in 1 .. S : i < j => Before(s[i], s[j])
      /\ \A i, j \in 1 .. Q : i < j => Before(q[i], q[j])
      /\ \A i \in 1 .. S, j \in 1 .. Q : Before(s[i], q[j])
      /\ \A m \in g : /\ m \in 1 .. Len(ms) /\ (m = Len(ms) => n = Size(ms, m))
                      /\ \A i \in 1 .. Q : q[i][1] # m
  BY DEF InOrder, Ascending
<1>5. \A i \in 1 .. Q : q[i] \in B BY ElementOfSeq
<1> HIDE DEF b, r, s2
<1>6. S \in Nat /\ Len(s2) = S + 1 /\ s2[S + 1] = b /\ \A i \in 1 .. S : s2[i] = s[i]
  BY <1>3 DEF Extends
<1> HIDE DEF Q, R, S
<1>7. 1 \in 1 .. Q /\ R \in Nat BY <1>1, <1>2
<1>8. ASSUME NEW i \in 1 .. R PROVE i + 1 \in 1 .. Q /\ r[i] = q[i + 1] /\ 1 < i + 1
  BY <1>1, <1>2, <1>8
<1>9. Valid(ms, n, b) /\ b[1] \notin g BY <1>2, <1>4, <1>7
<1>10. \A i \in 1 .. R : Valid(ms, n, r[i]) BY <1>4, <1>8
<1>11. Ascending(r)
  <2> SUFFICES ASSUME NEW i \in 1 .. R, NEW j \in 1 .. R, i < j PROVE Before(r[i], r[j])
    BY DEF Ascending, R
  <2>1. i + 1 < j + 1 BY <1>7
  <2> QED BY <1>4, <1>8, <2>1
<1>12. \A i \in 1 .. S, j \in 1 .. R : Before(s[i], r[j]) BY <1>4, <1>8
<1>13. \A m \in g : /\ m \in 1 .. Len(ms) /\ (m = Len(ms) => n = Size(ms, m))
                    /\ \A i \in 1 .. R : r[i][1] # m
  BY <1>4, <1>8
<1>14. InOrder(ms, n, r, s, g)
  BY <1>4, <1>10, <1>11, <1>12, <1>13 DEF InOrder, Ascending, R, S
<1>15. \A i \in 1 .. R : Before(b, r[i])
  BY <1>2, <1>4, <1>7, <1>8
<1>16. \A i \in 1 .. Len(s2) : i \in 1 .. S \/ i = S + 1 BY <1>6
<1>17. \A i \in 1 .. Len(s2) : Valid(ms, n, s2[i]) BY <1>4, <1>6, <1>9, <1>16
<1>18. Ascending(s2)
  <2> SUFFICES ASSUME NEW i \in 1 .. Len(s2), NEW j \in 1 .. Len(s2), i < j
               PROVE  Before(s2[i], s2[j])
    BY DEF Ascending
  <2>1. i \in 1 .. S BY <1>6
  <2>2. CASE j = S + 1 BY <1>2, <1>4, <1>6, <1>7, <2>1, <2>2
  <2>3. CASE j \in 1 .. S BY <1>4, <1>6, <2>1, <2>3
  <2> QED BY <1>16, <2>2, <2>3
<1>19. \A i \in 1 .. Len(s2), j \in 1 .. R : Before(s2[i], r[j])
  BY <1>6, <1>12, <1>15, <1>16
<1>20. InOrder(ms, n, r, s2, g)
  BY <1>10, <1>11, <1>13, <1>17, <1>18, <1>19 DEF InOrder, R
<1>21. ASSUME b[2] = Size(ms, b[1]) PROVE InOrder(ms, n, r, s2, g \cup {b[1]})
  <2> DEFINE m == b[1]
  <2>1. /\ m \in 1 .. Len(ms) /\ m \in Nat /\ b[2] \in Nat BY <1>1, <1>9, PlaceInFrame
  <2>2. ASSUME m = Len(ms) PROVE n = Size(ms, m)
    <3>1. ms # << >>
      <4>1. Len(<< >>) = 0 BY EmptySeq
      <4> QED BY <2>1, <4>1
    <3>2. b[2] <= n BY <1>9, <2>2 DEF Valid
    <3>3. n <= Size(ms, m) BY <1>0, <2>2, <3>1
    <3> HIDE DEF m
    <3> QED BY <1>0, <1>21, <2>1, <3>2, <3>3 DEF m
  <2>3. ASSUME NEW i \in 1 .. R PROVE r[i][1] # m
    <3>1. Before(b, r[i]) /\ Valid(ms, n, r[i]) BY <1>10, <1>15
    <3>2. r[i] \in B BY <1>5, <1>8
    <3>3. r[i][2] \in 1 .. Size(ms, r[i][1]) /\ r[i][1] \in Nat /\ r[i][2] \in Nat
      BY <3>1, <3>2, PlaceInFrame
    <3>4. Size(ms, m) \in Nat BY <1>1, <1>9, PlaceInFrame
    <3> QED BY <1>21, <2>1, <3>1, <3>3, <3>4 DEF Before
  <2> QED BY <1>10, <1>11, <1>13, <1>17, <1>18, <1>19, <2>1, <2>2, <2>3 DEF InOrder, R
<1>22. R <= Q BY <1>1, <1>2
<1> QED BY <1>1, <1>9, <1>14, <1>20, <1>21, <1>22 DEF b, r, s2, Q, R

(* a is the frame of a message, all of it; a piece of s is.                *)
LEMMA SameAsFrame ==
  ASSUME NEW S, NEW a \in Seq(S), NEW n, NEW Z \in Nat
  PROVE  a = [i \in 1 .. Z |-> <<n, i>>] <=> Len(a) = Z /\ Runs(a, 1, n, Z)
<1> DEFINE w == [i \in 1 .. Z |-> <<n, i>>]
<1>1. Len(a) \in Nat /\ a \in [1 .. Len(a) -> S] BY LenProperties
<1>2. a = w => Len(a) = Z /\ \A i \in 1 .. Z : a[i] = <<n, i>>
  <2> SUFFICES ASSUME a = w PROVE Len(a) = Z /\ \A i \in 1 .. Z : a[i] = <<n, i>> OBVIOUS
  <2>1. DOMAIN a = 1 .. Z /\ DOMAIN a = 1 .. Len(a) BY <1>1
  <2>2. Len(a) = Z
    <3> DEFINE A == Len(a)
    <3>1. A \in Nat /\ 1 .. Z = 1 .. A BY <1>1, <2>1
    <3> HIDE DEF A
    <3>2. ~(A < Z)
      <4> SUFFICES ASSUME A < Z PROVE FALSE OBVIOUS
      <4>1. Z \in 1 .. Z /\ Z \notin 1 .. A BY <3>1
      <4> QED BY <3>1, <4>1
    <3>3. ~(Z < A)
      <4> SUFFICES ASSUME Z < A PROVE FALSE OBVIOUS
      <4>1. A \in 1 .. A /\ A \notin 1 .. Z BY <3>1
      <4> QED BY <3>1, <4>1
    <3>4. A = Z BY <3>1, <3>2, <3>3
    <3> QED BY <3>4 DEF A
  <2> QED BY <2>2
<1>3. Len(a) = Z /\ (\A i \in 1 .. Z : a[i] = <<n, i>>) => a = w BY <1>1
<1>4. (\A i \in 1 .. Z : a[i] = <<n, i>>) <=> Runs(a, 1, n, Z)
  <2>1. \A i \in 1 .. Z : 1 + i - 1 = i OBVIOUS
  <2> QED BY <2>1 DEF Runs
<1> HIDE DEF w
<1>5. a = w <=> Len(a) = Z /\ Runs(a, 1, n, Z) BY <1>2, <1>3, <1>4, Zenon
<1> QED BY <1>5 DEF w

LEMMA PieceIsFrame ==
  ASSUME NEW S, NEW s \in Seq(S), NEW k \in 1 .. Len(s), NEW n, NEW Z \in Nat, Z >= 1,
         k + Z - 1 <= Len(s)
  PROVE  SubSeq(s, k, k + Z - 1) = [i \in 1 .. Z |-> <<n, i>>] <=> Runs(s, k, n, Z)
<1> DEFINE L == Len(s)  end == k + Z - 1  u == SubSeq(s, k, end)
<1>1. L \in Nat /\ k \in 1 .. L /\ end <= L BY LenProperties
<1>2. \A i \in 1 .. L : s[i] \in S BY ElementOfSeq
<1> HIDE DEF L
<1>3. end \in Int /\ k \in Int /\ k <= end /\ end - k + 1 = Z BY <1>1
<1>4. \A i \in k .. end : s[i] \in S
  <2>1. \A i \in k .. end : i \in 1 .. L BY <1>1, <1>3
  <2> QED BY <1>2, <2>1
<1> HIDE DEF end
<1>5. /\ SubSeq(s, k, end) \in Seq(S)
      /\ Len(SubSeq(s, k, end)) = IF k <= end THEN end - k + 1 ELSE 0
      /\ \A i \in 1 .. end - k + 1 : SubSeq(s, k, end)[i] = s[k + i - 1]
  BY ONLY <1>3, <1>4, SubSeqProperties
<1>6. u \in Seq(S) /\ Len(u) = Z /\ \A i \in 1 .. Z : u[i] = s[k + i - 1] BY <1>3, <1>5
<1> HIDE DEF u
<1>7. u = [i \in 1 .. Z |-> <<n, i>>] <=> Runs(u, 1, n, Z) BY <1>6, SameAsFrame
<1>8. Runs(u, 1, n, Z) <=> Runs(s, k, n, Z)
  <2>1. \A i \in 1 .. Z : 1 + i - 1 = i OBVIOUS
  <2> QED BY <1>6, <2>1 DEF Runs
<1> QED BY <1>7, <1>8 DEF u, end

(* To a machine it is all the same when more messages are sent.            *)
LEMMA SameFrame ==
  ASSUME NEW ms, NEW ms2, NEW kind, NEW start, NEW longest \in Nat, NEW f, NEW s, NEW g,
         Len(s) \in Nat, Len(f) \in Nat,
         \A k \in 1 .. Len(s) :
           /\ Own(ms2, kind, s[k]) <=> Own(ms, kind, s[k])
           /\ Val(ms2, s[k]) = Val(ms, s[k])
           /\ Size(ms2, s[k][1]) = Size(ms, s[k][1]),
         FrameInv(ms, kind, start, longest, f, s, g)
  PROVE  FrameInv(ms2, kind, start, longest, f, s, g)
<1>1. ASSUME NEW k \in 1 .. Len(s)
      PROVE  /\ WholeFrom(ms2, s, k) <=> WholeFrom(ms, s, k)
             /\ ComingFrom(ms2, s, k) <=> ComingFrom(ms, s, k)
  BY Zenon DEF WholeFrom, ComingFrom
<1>2. ASSUME NEW k \in 1 .. Len(s)
      PROVE  Stray(ms2, kind, start, s, g, k) <=> Stray(ms, kind, start, s, g, k)
  BY <1>1, Zenon DEF Stray
<1>3. ASSUME NEW k \in 1 .. Len(s), Misled(ms, kind, start, longest, s, g, k)
      PROVE  Misled(ms2, kind, start, longest, s, g, k)
  <2>1. \A j \in 1 .. k - 1 : j \in 1 .. Len(s) OBVIOUS
  <2> QED BY <1>2, <1>3, <2>1 DEF Misled
<1>4. Len(f) # 0 => Len(s) - Len(f) + 1 \in 1 .. Len(s) BY DEF FrameInv, Ends
<1> QED BY <1>1, <1>2, <1>3, <1>4 DEF FrameInv

-----------------------------------------------------------------------------
(* What a machine is shown to do when its frame in progress f is given b   *)
(* and becomes f2; "ready" is that it waits for the last byte of a frame.  *)
Moves(ms, kind, start, ready, longest, f, b, f2) ==
  LET a == Append(f, b) IN
  /\ f2 = << >> \/ f2 = a
  /\ Len(f2) < longest
  /\ Len(f) = 0 => f2 = IF Val(ms, b) = start THEN a ELSE << >>
  /\ \A m \in 1 .. Len(ms) :
       Mine(ms, kind, m) /\ Len(f) # 0 /\ Runs(a, 1, m, Len(f) + 1) =>
         /\ Len(f) + 1 < Size(ms, m) => f2 = a
         /\ Len(f) + 1 = Size(ms, m) => f2 = << >> /\ ready

(* a is a frame, whole and right.                                          *)
Right(ms, kind, a) ==
  /\ Mine(ms, kind, a[1][1]) /\ Len(a) = Size(ms, a[1][1])
  /\ Runs(a, 1, a[1][1], Len(a))

(* The machine's own frames begin with the start byte.                     *)
Begins(ms, kind, start) ==
  \A m \in 1 .. Len(ms) : Mine(ms, kind, m) => Val(ms, <<m, 1>>) = start

(* With b, a machine that is ready for it recognises a right frame.        *)
Recognised(ms, kind, ready, f, b, g) ==
  IF ready /\ Right(ms, kind, Append(f, b)) THEN g \cup {b[1]} ELSE g

(* The frame in progress begins with a byte that was sent.                 *)
LEMMA FirstByte ==
  ASSUME NEW ms, NEW n, Wire(ms, n), NEW B, Pairs(B), NEW q \in Seq(B), NEW b, NextByte(q, b),
         NEW s \in Seq(B), NEW f \in Seq(B), NEW g,
         InOrder(ms, n, q, s, g), Ends(s, f)
  PROVE  LET m == Append(f, b)[1][1] IN Size(ms, m) \in Nat /\ Size(ms, m) >= 2
<1> DEFINE a == Append(f, b)  F == Len(f)  L == Len(s)
<1>1. b \in B /\ Valid(ms, n, b) BY ByteTaken DEF NextByte
<1>2. Extends(f, b, a) BY <1>1, ExtendsByAppend
<1>3. /\ F \in Nat /\ a[F + 1] = b /\ \A i \in 1 .. F : a[i] = f[i]
  BY <1>2 DEF Extends
<1>4. /\ L \in Nat /\ F <= L /\ \A i \in 1 .. F : f[i] = s[L - F + i]
      /\ \A i \in 1 .. L : s[i] \in B /\ Valid(ms, n, s[i])
  BY LenProperties, ElementOfSeq DEF Ends, InOrder
<1> HIDE DEF a, F, L
<1>5. a[1] \in B /\ Valid(ms, n, a[1])
  <2>1. CASE F = 0 BY <1>1, <1>3, <2>1
  <2>2. CASE F # 0
    <3>1. 1 \in 1 .. F /\ L - F + 1 \in 1 .. L BY <1>3, <1>4, <2>2
    <3> QED BY <1>3, <1>4, <3>1
  <2> QED BY <2>1, <2>2
<1>6. Size(ms, a[1][1]) \in Nat /\ Size(ms, a[1][1]) >= 2 BY <1>5, PlaceInFrame
<1> QED BY <1>6 DEF a

(* The machine is given the next byte of q.                                *)
LEMMA FedStep ==
  ASSUME NEW ms, NEW n, Wire(ms, n), NEW B, Pairs(B), NEW kind, NEW start,
         Begins(ms, kind, start),
         NEW longest \in Nat, NEW q \in Seq(B), NEW b, NextByte(q, b),
         NEW s \in Seq(B), NEW f \in Seq(B), NEW f2, NEW g, NEW g2, NEW ready,
         InOrder(ms, n, q, s, g),
         FrameInv(ms, kind, start, longest, f, s, g),
         Moves(ms, kind, start, ready, longest, f, b, f2),
         g2 = Recognised(ms, kind, ready, f, b, g)
  PROVE  /\ InOrder(ms, n, Tail(q), Append(s, b), g2)
         /\ FrameInv(ms, kind, start, longest, f2, Append(s, b), g2)
         /\ f2 \in Seq(B)
<1> DEFINE a == Append(f, b)  F == Len(f)  s2 == Append(s, b)  Z == Size(ms, b[1])
<1>1. /\ b \in B /\ Valid(ms, n, b) /\ b[1] \notin g
      /\ InOrder(ms, n, Tail(q), s2, g)
      /\ b[2] = Z => InOrder(ms, n, Tail(q), s2, g \cup {b[1]})
  BY ByteTaken DEF NextByte
<1>3. /\ Z \in Nat /\ Z >= 2 /\ b[1] \in 1 .. Len(ms)
      /\ b[1] \in Nat /\ b[2] \in Nat /\ b = <<b[1], b[2]>>
  BY <1>1, PlaceInFrame
<1>4. Extends(s, b, s2) /\ s2 \in Seq(B) /\ Extends(f, b, a) /\ a \in Seq(B)
  BY <1>1, ExtendsByAppend
<1>5. /\ f2 = << >> \/ f2 = a
      /\ Len(f2) < longest
      /\ F = 0 => f2 = IF Val(ms, b) = start THEN a ELSE << >>
      /\ \A m \in 1 .. Len(ms) :
           Mine(ms, kind, m) /\ F # 0 /\ Runs(a, 1, m, F + 1) =>
             /\ F + 1 < Size(ms, m) => f2 = a
             /\ F + 1 = Size(ms, m) => f2 = << >> /\ ready
  BY DEF Moves
<1>6. /\ F \in Nat /\ Len(a) = F + 1 /\ a[F + 1] = b /\ \A i \in 1 .. F : a[i] = f[i]
  BY <1>4 DEF Extends
(* Every byte of the frame in progress is one of those that were given.    *)
<1>7. \A i \in 1 .. Len(s2) : Valid(ms, n, s2[i]) BY <1>1 DEF InOrder
<1>8. \A i \in 1 .. Len(s2) : Size(ms, s2[i][1]) \in Nat /\ Size(ms, s2[i][1]) >= 2
  <2> SUFFICES ASSUME NEW i \in 1 .. Len(s2)
               PROVE  Size(ms, s2[i][1]) \in Nat /\ Size(ms, s2[i][1]) >= 2
    OBVIOUS
  <2>1. s2[i] \in B BY <1>4, ElementOfSeq
  <2> QED BY <1>7, <2>1, PlaceInFrame
<1>9. Size(ms, a[1][1]) \in Nat /\ Size(ms, a[1][1]) >= 2
  BY FirstByte DEF FrameInv
<1> HIDE DEF a, F, s2, Z
<1>10. Right(ms, kind, a) <=>
         /\ Mine(ms, kind, a[1][1]) /\ F + 1 = Size(ms, a[1][1])
         /\ Runs(a, 1, a[1][1], F + 1)
  BY <1>6 DEF Right
(* A frame that is completed ends with b, and is let go.                   *)
<1>11. ASSUME ready, Right(ms, kind, a)
       PROVE  b[2] = Z /\ F # 0 /\ f2 = << >>
  <2> DEFINE m == a[1][1]
  <2>1. Mine(ms, kind, m) /\ F + 1 = Size(ms, m) /\ Runs(a, 1, m, F + 1) BY <1>10, <1>11
  <2>2. F # 0 BY <1>6, <1>9, <2>1
  <2>3. b = <<m, F + 1>>
    <3>1. F + 1 \in 1 .. F + 1 /\ 1 + (F + 1) - 1 = F + 1 BY <1>6
    <3> HIDE DEF m
    <3> QED BY <1>6, <2>1, <3>1 DEF Runs
  <2> HIDE DEF m
  <2>4. b[1] = m /\ b[2] = F + 1 BY <2>3
  <2> QED BY <1>3, <1>5, <2>1, <2>2, <2>4 DEF Z
<1>12. g2 = g \/ (g2 = g \cup {b[1]} /\ f2 = << >> /\ b[2] = Z)
  BY <1>11 DEF Recognised, a
<1>13. InOrder(ms, n, Tail(q), s2, g2) BY <1>1, <1>12
<1>14. ASSUME Own(ms, kind, b), F # 0, Runs(f, 1, b[1], F), b[2] = F + 1
       PROVE  /\ F + 1 < Z => f2 = a
              /\ F + 1 = Z => f2 = << >> /\ b[1] \in g2
  <2>1. Runs(a, 1, b[1], F + 1)
    <3> SUFFICES ASSUME NEW i \in 1 .. F + 1 PROVE a[1 + i - 1] = <<b[1], i>> BY DEF Runs
    <3>1. 1 + i - 1 = i BY <1>6
    <3>2. CASE i = F + 1 BY <1>3, <1>6, <1>14, <3>1, <3>2
    <3>3. CASE i \in 1 .. F BY <1>6, <1>14, <3>1, <3>3 DEF Runs
    <3> QED BY <1>6, <3>2, <3>3
  <2>2. Mine(ms, kind, b[1]) BY <1>14 DEF Own
  <2>3. F + 1 < Z => f2 = a BY <1>3, <1>5, <1>14, <2>1, <2>2 DEF Z
  <2>4. ASSUME F + 1 = Z PROVE f2 = << >> /\ b[1] \in g2
    <3>1. f2 = << >> /\ ready BY <1>3, <1>5, <1>14, <2>1, <2>2, <2>4 DEF Z
    <3>2. a[1][1] = b[1]
      <4>1. 1 \in 1 .. F + 1 /\ 1 + 1 - 1 = 1 BY <1>6
      <4>2. a[1] = <<b[1], 1>> BY <2>1, <4>1 DEF Runs
      <4> QED BY <4>2
    <3>3. Right(ms, kind, a) BY <1>10, <2>1, <2>2, <2>4, <3>2 DEF Z
    <3> QED BY <3>1, <3>3 DEF Recognised, a
  <2> QED BY <2>3, <2>4
<1>15. Handles(ms, kind, start, longest, f, g, b, f2, g2)
  <2>1. Len(f) = F /\ Append(f, b) = a /\ Size(ms, b[1]) = Z BY DEF F, a, Z
  <2> QED BY <1>5, <1>12, <1>14, <2>1 DEF Handles
<1>16. Own(ms, kind, b) /\ b[2] = 1 => Val(ms, b) = start
  BY <1>3 DEF Own, Begins
<1>17. Given(s, f, b, s2)
  <2>1. Ascending(s2) BY <1>1 DEF InOrder
  <2>2. Bytes(s2) BY <1>4, PairsOf
  <2> QED BY <1>4, <2>1, <2>2 DEF Given, a
<1>18. Sized(ms, s2) BY <1>8 DEF Sized
<1>19. FrameInv(ms, kind, start, longest, f2, s2, g2)
  BY <1>1, <1>15, <1>16, <1>17, <1>18, FrameStep
<1>20. f2 \in Seq(B) BY <1>4, <1>5, EmptySeq
<1> QED BY <1>13, <1>19, <1>20 DEF s2
=============================================================================
