--------------------------- MODULE UartPortProofs ---------------------------
(***************************************************************************)
(* Whatever comes over UART1, in whatever mixture, with whatever bytes     *)
(* lost, each protocol machine recognises a frame of its own that arrives  *)
(* whole, unless a stray start byte misled it less than a longest frame    *)
(* before.  The argument is the same for the three machines and is made    *)
(* once, in FrameStream, from what a machine does with a byte; here each   *)
(* machine is shown to do that, and the bytes to come in order.            *)
(***************************************************************************)
EXTENDS UartPort, SequenceTheorems, TLAPS

Kind == {"rtcm3", "nmea", "ubx"}

-----------------------------------------------------------------------------
(* The frames of messages, byte by byte.                                   *)
LEMMA Check ==
  ASSUME NEW v \in Nat
  PROVE  /\ [i \in 1 .. 2 |-> v] \in Seq(Nat) /\ Len([i \in 1 .. 2 |-> v]) = 2
         /\ [i \in 1 .. 2 |-> v][1] = v /\ [i \in 1 .. 2 |-> v][2] = v
         /\ [i \in 1 .. 3 |-> v] \in Seq(Nat) /\ Len([i \in 1 .. 3 |-> v]) = 3
OBVIOUS

LEMMA MessageShape ==
  ASSUME NEW m \in Messages
  PROVE  /\ m.kind \in Kind /\ m.check \in Nat
         /\ m.body \in Seq(Nat) /\ Len(m.body) \in Nat /\ Len(m.body) > 0
<1>1. m \in [kind : {"rtcm3", "ubx", "nmea"}, body : Seq(0 .. 255), check : 0 .. 255]
  BY MessagesAssumption
<1>2. m.body \in Seq(0 .. 255) /\ m.kind \in Kind /\ m.check \in 0 .. 255 BY <1>1 DEF Kind
<1>3. m.body \in Seq(Nat)
  <2> DEFINE B == 0 .. 255
  <2>1. B \subseteq Nat /\ m.body \in Seq(B) BY <1>2
  <2> HIDE DEF B
  <2> QED BY <2>1, SeqMonotonic
<1>4. m.check \in Nat
  <2> DEFINE v == m.check
  <2>1. v \in 0 .. 255 BY <1>2
  <2> HIDE DEF v
  <2>2. v \in Nat BY <2>1
  <2> QED BY <2>2 DEF v
<1>5. Len(m.body) \in Nat BY <1>3, LenProperties
<1>6. Len(m.body) > 0 BY BodyAssumption
<1> QED BY <1>2, <1>3, <1>4, <1>5, <1>6

LEMMA Joined ==
  ASSUME NEW a \in Seq(Nat), NEW b \in Seq(Nat), NEW c \in Seq(Nat)
  PROVE  /\ a \o b \o c \in Seq(Nat)
         /\ Len(a \o b \o c) = Len(a) + Len(b) + Len(c)
         /\ \A i \in 1 .. Len(a) : (a \o b \o c)[i] = a[i]
         /\ \A i \in 1 .. Len(b) : (a \o b \o c)[Len(a) + i] = b[i]
         /\ \A i \in 1 .. Len(c) : (a \o b \o c)[Len(a) + Len(b) + i] = c[i]
<1> DEFINE ab == a \o b  x == Len(a)  y == Len(b)  z == Len(c)
<1>1. x \in Nat /\ y \in Nat /\ z \in Nat BY LenProperties
<1>2. /\ ab \in Seq(Nat) /\ Len(ab) = x + y
      /\ \A i \in 1 .. x + y : ab[i] = IF i <= x THEN a[i] ELSE b[i - x]
  BY ConcatProperties
<1>3. /\ ab \o c \in Seq(Nat) /\ Len(ab \o c) = x + y + z
      /\ \A i \in 1 .. x + y + z : (ab \o c)[i] = IF i <= x + y THEN ab[i] ELSE c[i - (x + y)]
  <2> HIDE DEF ab
  <2>1. /\ ab \o c \in Seq(Nat) /\ Len(ab \o c) = Len(ab) + Len(c)
        /\ \A i \in 1 .. Len(ab) + Len(c) :
             (ab \o c)[i] = IF i <= Len(ab) THEN ab[i] ELSE c[i - Len(ab)]
    <3>1. ab \in Seq(Nat) BY <1>2
    <3> QED BY ONLY <3>1, c \in Seq(Nat), ConcatProperties
  <2> QED BY <1>2, <2>1, Zenon
<1> HIDE DEF ab, x, y, z
<1>4. ASSUME NEW i \in 1 .. x PROVE (ab \o c)[i] = a[i]
  <2>1. i \in 1 .. x + y /\ i \in 1 .. x + y + z /\ i <= x /\ i <= x + y BY <1>1
  <2> QED BY <1>2, <1>3, <2>1
<1>5. ASSUME NEW i \in 1 .. y PROVE (ab \o c)[x + i] = b[i]
  <2>1. /\ x + i \in 1 .. x + y /\ x + i \in 1 .. x + y + z /\ ~(x + i <= x)
        /\ x + i <= x + y /\ (x + i) - x = i
    BY <1>1
  <2> QED BY <1>2, <1>3, <2>1
<1>6. ASSUME NEW i \in 1 .. z PROVE (ab \o c)[x + y + i] = c[i]
  <2>1. /\ x + y + i \in 1 .. x + y + z /\ ~(x + y + i <= x + y)
        /\ (x + y + i) - (x + y) = i
    BY <1>1
  <2> QED BY <1>3, <2>1
<1> QED BY <1>3, <1>4, <1>5, <1>6 DEF ab, x, y, z

LEMMA Halves ==
  ASSUME NEW n \in Nat
  PROVE  /\ n % 256 \in Nat /\ n \div 256 \in Nat
         /\ 256 * (n \div 256) + (n % 256) = n /\ (n % 256) + 256 * (n \div 256) = n
OBVIOUS

LEMMA Rtcm3Frame ==
  ASSUME NEW m \in Messages, m.kind = "rtcm3"
  PROVE  LET n == Len(m.body) IN
         /\ FrameBytes(m) \in Seq(Nat) /\ Len(FrameBytes(m)) = n + 6
         /\ n \in Nat /\ n < RTCM3_LEN_MOD
         /\ FrameBytes(m)[1] = RTCM3_PREAMBLE
         /\ FrameBytes(m)[2] = n \div 256 /\ FrameBytes(m)[3] = n % 256
<1> DEFINE n == Len(m.body)  high == n \div 256  low == n % 256  v == m.check
           h == <<RTCM3_PREAMBLE, high, low>>
           c == [i \in 1 .. 3 |-> v]
           body == m.body
<1>1. n \in Nat /\ body \in Seq(Nat) /\ v \in Nat BY MessageShape
<1>2. FrameBytes(m) = h \o body \o c BY DEF FrameBytes
<1>3. n < RTCM3_LEN_MOD BY BodyAssumption
<1>4. Len(body) = n OBVIOUS
<1> HIDE DEF n, v, body
<1>5. high \in Nat /\ low \in Nat BY <1>1, Halves
<1> HIDE DEF high, low
<1>6. h \in Seq(Nat) /\ Len(h) = 3 /\ h[1] = RTCM3_PREAMBLE /\ h[2] = high /\ h[3] = low
  BY <1>5 DEF RTCM3_PREAMBLE
<1>7. c \in Seq(Nat) /\ Len(c) = 3 BY <1>1, Check
<1> HIDE DEF h, c
<1>8. /\ h \o body \o c \in Seq(Nat)
      /\ Len(h \o body \o c) = Len(h) + Len(body) + Len(c)
      /\ \A i \in 1 .. Len(h) : (h \o body \o c)[i] = h[i]
  <2>1. h \in Seq(Nat) BY <1>6
  <2>2. body \in Seq(Nat) BY <1>1
  <2>3. c \in Seq(Nat) BY <1>7
  <2> QED BY ONLY <2>1, <2>2, <2>3, Joined
<1>9. Len(FrameBytes(m)) = n + 6 BY <1>1, <1>2, <1>4, <1>6, <1>7, <1>8
<1>10. FrameBytes(m)[1] = h[1] /\ FrameBytes(m)[2] = h[2] /\ FrameBytes(m)[3] = h[3]
  BY <1>2, <1>6, <1>8
<1> QED BY <1>1, <1>2, <1>3, <1>6, <1>8, <1>9, <1>10, Zenon DEF n, high, low

LEMMA UbxFrame ==
  ASSUME NEW m \in Messages, m.kind = "ubx"
  PROVE  LET n == Len(m.body) IN
         /\ FrameBytes(m) \in Seq(Nat) /\ Len(FrameBytes(m)) = n + 8
         /\ n \in Nat /\ n <= UBX_RX_FRAME_SIZE - 8
         /\ FrameBytes(m)[1] = UBX_SYN_0 /\ FrameBytes(m)[2] = UBX_SYN_1
         /\ FrameBytes(m)[5] = n % 256 /\ FrameBytes(m)[6] = n \div 256
<1> DEFINE n == Len(m.body)  high == n \div 256  low == n % 256  v == m.check
           r == <<UBX_SYN_0, UBX_SYN_1>>  w == <<low, high>>  id == UBX_CLASS_ID
           h == r \o id \o w
           c == [i \in 1 .. 2 |-> v]
           body == m.body
<1>1. n \in Nat /\ body \in Seq(Nat) /\ v \in Nat BY MessageShape
<1>2. FrameBytes(m) = h \o body \o c BY DEF FrameBytes
<1>3. n <= UBX_RX_FRAME_SIZE - 6 - 2 BY BodyAssumption DEF UBX_HEADER_SIZE, UBX_CRC_SIZE
<1>4. Len(body) = n OBVIOUS
<1> HIDE DEF n, v, body
<1>5. high \in Nat /\ low \in Nat BY <1>1, Halves
<1> HIDE DEF high, low
<1>6. r \in Seq(Nat) /\ Len(r) = 2 /\ r[1] = UBX_SYN_0 /\ r[2] = UBX_SYN_1
  BY DEF UBX_SYN_0, UBX_SYN_1
<1>7. w \in Seq(Nat) /\ Len(w) = 2 /\ w[1] = low /\ w[2] = high BY <1>5
<1>8. id \in Seq(Nat) /\ Len(id) = 2 BY DEF UBX_CLASS_ID
<1>9. c \in Seq(Nat) /\ Len(c) = 2 BY <1>1, Check
<1> HIDE DEF r, w, id, c
<1>10. /\ h \in Seq(Nat) /\ Len(h) = Len(r) + Len(id) + Len(w)
       /\ \A i \in 1 .. Len(r) : h[i] = r[i]
       /\ \A i \in 1 .. Len(w) : h[Len(r) + Len(id) + i] = w[i]
  <2>1. r \in Seq(Nat) BY <1>6
  <2>2. id \in Seq(Nat) BY <1>8
  <2>3. w \in Seq(Nat) BY <1>7
  <2> QED BY ONLY <2>1, <2>2, <2>3, Joined
<1> HIDE DEF h
<1>11. /\ Len(h) = 6 /\ h[1] = UBX_SYN_0 /\ h[2] = UBX_SYN_1 /\ h[5] = low /\ h[6] = high
  <2>1. 1 \in 1 .. 2 /\ 2 \in 1 .. 2 /\ 2 + 2 + 1 = 5 /\ 2 + 2 + 2 = 6 OBVIOUS
  <2> QED BY <1>6, <1>7, <1>8, <1>10, <2>1
<1>12. /\ h \o body \o c \in Seq(Nat)
       /\ Len(h \o body \o c) = Len(h) + Len(body) + Len(c)
       /\ \A i \in 1 .. Len(h) : (h \o body \o c)[i] = h[i]
  <2>1. h \in Seq(Nat) BY <1>10
  <2>2. body \in Seq(Nat) BY <1>1
  <2>3. c \in Seq(Nat) BY <1>9
  <2> QED BY ONLY <2>1, <2>2, <2>3, Joined
<1>13. Len(FrameBytes(m)) = n + 8 BY <1>1, <1>2, <1>4, <1>9, <1>11, <1>12
<1>14. /\ FrameBytes(m)[1] = h[1] /\ FrameBytes(m)[2] = h[2]
       /\ FrameBytes(m)[5] = h[5] /\ FrameBytes(m)[6] = h[6]
  <2>1. 1 \in 1 .. 6 /\ 2 \in 1 .. 6 /\ 5 \in 1 .. 6 /\ 6 \in 1 .. 6 OBVIOUS
  <2>2. /\ (h \o body \o c)[1] = h[1] /\ (h \o body \o c)[2] = h[2]
        /\ (h \o body \o c)[5] = h[5] /\ (h \o body \o c)[6] = h[6]
    BY ONLY <1>11, <1>12, <2>1
  <2> QED BY <1>2, <2>2, Zenon
<1>15. n <= UBX_RX_FRAME_SIZE - 8
  <2>1. UBX_RX_FRAME_SIZE \in Nat BY SizesAssumption
  <2> QED BY <1>1, <1>3, <2>1
<1> QED BY <1>1, <1>2, <1>11, <1>12, <1>13, <1>14, <1>15, Zenon DEF n, high, low

LEMMA NmeaFrame ==
  ASSUME NEW m \in Messages, m.kind = "nmea"
  PROVE  LET s == FrameBytes(m)  n == Len(m.body) IN
         /\ s \in Seq(Nat) /\ Len(s) = n + 4
         /\ n \in Nat /\ n > 0 /\ n + 4 <= NMEA_MSG_SIZE
         /\ s[1] = NMEA_START /\ s[n + 2] = NMEA_STAR
         /\ s[n + 3] \in HexDigits /\ s[n + 4] \in HexDigits
         /\ \A i \in 2 .. n + 1 : s[i] # NMEA_STAR
<1> DEFINE h == <<NMEA_START>>  t == <<NMEA_STAR>>  v == m.check
           c == [i \in 1 .. 2 |-> v]  tc == t \o c
           s == FrameBytes(m)  n == Len(m.body)  body == m.body  hb == h \o body
<1>1. n \in Nat /\ n > 0 /\ body \in Seq(Nat) /\ v \in Nat BY MessageShape
<1>2. s = hb \o t \o c BY DEF FrameBytes
<1>3. /\ n + 4 <= NMEA_MSG_SIZE /\ v \in HexDigits
      /\ \A i \in DOMAIN body : body[i] # NMEA_STAR
  BY BodyAssumption DEF NMEA_START, NMEA_STAR
<1>4. DOMAIN body = 1 .. n /\ Len(body) = n BY <1>1, LenProperties
<1> HIDE DEF v, s, n, body
<1>5. c \in Seq(Nat) /\ Len(c) = 2 /\ c[1] = v /\ c[2] = v BY <1>1, Check
<1>6. h \in Seq(Nat) /\ Len(h) = 1 /\ h[1] = NMEA_START BY DEF NMEA_START
<1>7. t \in Seq(Nat) /\ Len(t) = 1 /\ t[1] = NMEA_STAR BY DEF NMEA_STAR
<1> HIDE DEF h, c, t
<1>8. /\ tc \in Seq(Nat) /\ Len(tc) = Len(t) + Len(c)
      /\ \A i \in 1 .. Len(t) + Len(c) : tc[i] = IF i <= Len(t) THEN t[i] ELSE c[i - Len(t)]
  BY <1>5, <1>7, ConcatProperties, Zenon
<1> HIDE DEF tc
<1>9. Len(tc) = 3 /\ tc[1] = NMEA_STAR /\ tc[2] = v /\ tc[3] = v
  <2>1. /\ Len(tc) = 1 + 2
        /\ \A i \in 1 .. 1 + 2 : tc[i] = IF i <= 1 THEN t[i] ELSE c[i - 1]
    BY <1>5, <1>7, <1>8, Zenon
  <2> QED BY ONLY <1>5, <1>7, <2>1
<1>10. s = h \o body \o tc
  <2>1. hb \in Seq(Nat) BY <1>1, <1>6, ConcatProperties
  <2> HIDE DEF hb
  <2>2. (hb \o t) \o c = hb \o (t \o c) BY <1>5, <1>7, <2>1, ConcatAssociative
  <2> QED BY <1>2, <2>2, Zenon DEF hb, tc
<1>11. /\ s \in Seq(Nat) /\ Len(s) = Len(h) + Len(body) + Len(tc)
       /\ \A i \in 1 .. Len(h) : s[i] = h[i]
       /\ \A i \in 1 .. Len(body) : s[Len(h) + i] = body[i]
       /\ \A i \in 1 .. Len(tc) : s[Len(h) + Len(body) + i] = tc[i]
  <2>1. h \in Seq(Nat) BY <1>6
  <2>2. body \in Seq(Nat) BY <1>1
  <2>3. tc \in Seq(Nat) BY <1>8
  <2> HIDE DEF s
  <2> QED BY ONLY <1>10, <2>1, <2>2, <2>3, Joined
<1>12. /\ Len(s) = 1 + n + 3
       /\ \A i \in 1 .. 1 : s[i] = h[i]
       /\ \A i \in 1 .. n : s[1 + i] = body[i]
       /\ \A i \in 1 .. 3 : s[1 + n + i] = tc[i]
  BY <1>4, <1>6, <1>9, <1>11, Zenon
<1>13. s[n + 2] = tc[1] /\ s[n + 3] = tc[2] /\ s[n + 4] = tc[3] /\ Len(s) = n + 4
  <2>1. /\ 1 + n + 1 = n + 2 /\ 1 + n + 2 = n + 3 /\ 1 + n + 3 = n + 4
        /\ 1 \in 1 .. 3 /\ 2 \in 1 .. 3 /\ 3 \in 1 .. 3
    BY <1>1
  <2> QED BY <1>12, <2>1
<1>14. ASSUME NEW i \in 2 .. n + 1 PROVE s[i] # NMEA_STAR
  <2>1. i - 1 \in 1 .. n /\ 1 + (i - 1) = i BY <1>1
  <2>2. s[i] = body[i - 1] BY <1>12, <2>1
  <2> QED BY <1>3, <1>4, <2>1, <2>2, Zenon
<1>15. s[1] = NMEA_START
  <2>1. 1 \in 1 .. 1 OBVIOUS
  <2> QED BY <1>6, <1>12, <2>1
<1> QED BY <1>1, <1>3, <1>9, <1>11, <1>13, <1>14, <1>15, Zenon DEF n, s

-----------------------------------------------------------------------------
(* The stream of frames: ms are the messages sent; a byte x of message     *)
(* x[1] reads as Val(ms, x), and a message is for the machine of its kind. *)
Val(ms, x)        == FrameBytes(ms[x[1]])[x[2]]
Size(ms, n)       == Len(FrameBytes(ms[n]))
Mine(ms, kind, n) == ms[n].kind = kind

INSTANCE FrameStream

(* The receiver begins its messages in turn, and ends each.                *)
WireInv(ms, n) ==
  /\ ms \in Seq(Messages) /\ Len(ms) <= MaxMessages
  /\ n \in Nat /\ (ms # << >> => n <= Size(ms, Len(ms)))

Start(kind) == CASE kind = "rtcm3" -> RTCM3_PREAMBLE
                 [] kind = "ubx"   -> UBX_SYN_0
                 [] kind = "nmea"  -> NMEA_START

LEMMA AnyFrame ==
  ASSUME NEW m \in Messages
  PROVE  /\ FrameBytes(m) \in Seq(Nat)
         /\ Len(FrameBytes(m)) \in Nat /\ Len(FrameBytes(m)) >= 2
         /\ FrameBytes(m)[1] = Start(m.kind)
<1>1. /\ m.kind \in Kind
      /\ Len(m.body) \in Nat
  BY MessageShape
<1>2. CASE m.kind = "rtcm3"
  <2>1. /\ FrameBytes(m) \in Seq(Nat) /\ Len(FrameBytes(m)) = Len(m.body) + 6
        /\ FrameBytes(m)[1] = RTCM3_PREAMBLE
    BY <1>2, Rtcm3Frame
  <2> DEFINE n == Len(m.body)
  <2> HIDE DEF n
  <2>2. n \in Nat /\ Len(FrameBytes(m)) = n + 6 BY <1>1, <2>1 DEF n
  <2>3. n + 6 \in Nat /\ n + 6 >= 2 BY <2>2
  <2> QED BY <1>2, <2>1, <2>2, <2>3, Zenon DEF Start
<1>3. CASE m.kind = "ubx"
  <2>1. /\ FrameBytes(m) \in Seq(Nat) /\ Len(FrameBytes(m)) = Len(m.body) + 8
        /\ FrameBytes(m)[1] = UBX_SYN_0
    BY <1>3, UbxFrame
  <2> DEFINE n == Len(m.body)
  <2> HIDE DEF n
  <2>2. n \in Nat /\ Len(FrameBytes(m)) = n + 8 BY <1>1, <2>1 DEF n
  <2>3. n + 8 \in Nat /\ n + 8 >= 2 BY <2>2
  <2> QED BY <1>3, <2>1, <2>2, <2>3 DEF Start
<1>4. CASE m.kind = "nmea"
  <2>1. /\ FrameBytes(m) \in Seq(Nat) /\ Len(FrameBytes(m)) = Len(m.body) + 4
        /\ FrameBytes(m)[1] = NMEA_START
    BY <1>4, NmeaFrame
  <2> DEFINE n == Len(m.body)
  <2> HIDE DEF n
  <2>2. n \in Nat /\ Len(FrameBytes(m)) = n + 4 BY <1>1, <2>1 DEF n
  <2>3. n + 4 \in Nat /\ n + 4 >= 2 BY <2>2
  <2> QED BY <1>4, <2>1, <2>2, <2>3 DEF Start
<1> QED BY <1>1, <1>2, <1>3, <1>4 DEF Kind

LEMMA SentFrame ==
  ASSUME NEW ms \in Seq(Messages), NEW n \in 1 .. Len(ms)
  PROVE  /\ ms[n] \in Messages
         /\ Size(ms, n) \in Nat /\ Size(ms, n) >= 2
         /\ Val(ms, <<n, 1>>) = Start(ms[n].kind)
         /\ \A i \in 1 .. Size(ms, n) : Val(ms, <<n, i>>) \in Nat
<1>1. ms[n] \in Messages BY ElementOfSeq
<1> DEFINE w == FrameBytes(ms[n])
<1>2. w \in Seq(Nat) /\ Len(w) \in Nat /\ Len(w) >= 2 /\ w[1] = Start(ms[n].kind)
  BY <1>1, AnyFrame
<1>3. Size(ms, n) = Len(w) /\ \A i : Val(ms, <<n, i>>) = w[i] BY DEF Size, Val
<1> HIDE DEF w
<1>4. \A i \in 1 .. Len(w) : w[i] \in Nat BY <1>2, ElementOfSeq
<1> QED BY <1>1, <1>2, <1>3, <1>4

LEMMA ValidByte ==
  ASSUME NEW ms \in Seq(Messages), NEW n, NEW x \in Byte, Valid(ms, n, x)
  PROVE  /\ Size(ms, x[1]) \in Nat /\ Size(ms, x[1]) >= 2 /\ Val(ms, x) \in Nat
         /\ x[1] \in 1 .. Len(ms) /\ x[2] \in 1 .. Size(ms, x[1])
         /\ x[1] \in Nat /\ x[2] \in Nat /\ x = <<x[1], x[2]>>
<1>1. x \in (1 .. MaxMessages) \X (Nat \ {0}) /\ MaxMessages \in Nat
  BY SizesAssumption DEF Byte
<1>2. x[1] \in Nat /\ x[2] \in Nat /\ x = <<x[1], x[2]>> BY <1>1
<1>3. x[1] \in 1 .. Len(ms) /\ x[2] \in 1 .. Size(ms, x[1]) BY DEF Valid
<1>4. Val(ms, <<x[1], x[2]>>) \in Nat /\ Size(ms, x[1]) \in Nat /\ Size(ms, x[1]) >= 2
  BY <1>3, SentFrame
<1> QED BY <1>2, <1>3, <1>4, Zenon

(* Another byte comes of the message on the wire; it may be lost.          *)
LEMMA ByteComes ==
  ASSUME NEW ms, NEW n, NEW q \in Seq(Byte), NEW s \in Seq(Byte), NEW g,
         WireInv(ms, n), ms # << >>, n < Size(ms, Len(ms)), InOrder(ms, n, q, s, g)
  PROVE  /\ WireInv(ms, n + 1) /\ <<Len(ms), n + 1>> \in Byte
         /\ InOrder(ms, n + 1, q, s, g)
         /\ InOrder(ms, n + 1, Append(q, <<Len(ms), n + 1>>), s, g)
<1> DEFINE L == Len(ms)  Z == Size(ms, L)  b == <<L, n + 1>>  q2 == Append(q, b)
<1>1. /\ L \in Nat /\ L >= 1 /\ L <= MaxMessages /\ ms \in Seq(Messages) /\ n \in Nat
  <2>1. ms \in Seq(Messages) /\ L <= MaxMessages /\ n \in Nat BY DEF WireInv
  <2>2. L \in Nat /\ (L = 0 => ms = << >>) BY <2>1, LenProperties, EmptySeq
  <2> HIDE DEF L
  <2>3. L >= 1 BY <2>2
  <2> QED BY <2>1, <2>2, <2>3
<1>2. Z \in Nat /\ Z >= 2 /\ n < Z
  <2>1. L \in 1 .. Len(ms)
    <3> HIDE DEF L
    <3>1. L \in 1 .. L BY <1>1
    <3> QED BY <3>1 DEF L
  <2> QED BY <1>1, <2>1, SentFrame
<1>3. b \in Byte
  <2>1. MaxMessages \in Nat BY SizesAssumption
  <2> HIDE DEF L
  <2>2. L \in 1 .. MaxMessages /\ n + 1 \in Nat \ {0} BY <1>1, <2>1
  <2> QED BY <2>2 DEF Byte
<1>4. WireInv(ms, n + 1)
  <2> HIDE DEF L, Z
  <2>1. n + 1 \in Nat /\ n + 1 <= Z BY <1>1, <1>2
  <2> QED BY <1>1, <2>1 DEF WireInv, L, Z
<1>5. /\ \A i \in 1 .. Len(s) : Valid(ms, n, s[i])
      /\ \A i \in 1 .. Len(q) : Valid(ms, n, q[i])
      /\ Ascending(s) /\ Ascending(q)
      /\ \A i \in 1 .. Len(s), j \in 1 .. Len(q) : Before(s[i], q[j])
      /\ \A m \in g : /\ m \in 1 .. L /\ (m = L => n = Z)
                      /\ \A i \in 1 .. Len(q) : q[i][1] # m
  BY DEF InOrder
(* A byte that was on the wire is now before the new one.                  *)
<1>6. ASSUME NEW x \in Byte, Valid(ms, n, x) PROVE Valid(ms, n + 1, x) /\ Before(x, b)
  <2>1. /\ x[1] \in 1 .. L /\ x[2] \in 1 .. Size(ms, x[1]) /\ (x[1] = L => x[2] <= n)
        /\ x[1] \in Nat /\ x[2] \in Nat
    BY <1>1, <1>6, ValidByte DEF Valid
  <2>2. b[1] = L /\ b[2] = n + 1 OBVIOUS
  <2> HIDE DEF L, b
  <2>3. x[1] = L => x[2] <= n + 1 BY <1>1, <2>1
  <2>4. Before(x, b) BY <1>1, <2>1, <2>2 DEF Before
  <2> QED BY <2>1, <2>3, <2>4 DEF Valid, L
<1>7. \A m \in g : m # L BY <1>2, <1>5
<1>8. Valid(ms, n + 1, b)
  <2>1. b[1] = L /\ b[2] = n + 1 OBVIOUS
  <2> HIDE DEF L, b, Z
  <2>2. L \in 1 .. L /\ n + 1 \in 1 .. Z /\ n + 1 <= n + 1 BY <1>1, <1>2
  <2> QED BY <2>1, <2>2 DEF Valid, L, Z
<1>9. /\ \A i \in 1 .. Len(s) : s[i] \in Byte
      /\ \A i \in 1 .. Len(q) : q[i] \in Byte
  BY ElementOfSeq
<1>10. Extends(q, b, q2) BY <1>3, ExtendsByAppend
<1> HIDE DEF b, q2
<1> DEFINE Q == Len(q)
<1>11. /\ Q \in Nat /\ Len(q2) = Q + 1 /\ q2[Q + 1] = b
       /\ \A i \in 1 .. Q : q2[i] = q[i]
  BY <1>10 DEF Extends
<1> HIDE DEF L, Z
<1>12. InOrder(ms, n + 1, q, s, g)
  BY <1>5, <1>6, <1>7, <1>9 DEF InOrder, L
<1> HIDE DEF Q
<1>13. \A i \in 1 .. Len(q2) : i \in 1 .. Q \/ i = Q + 1 BY <1>11
<1>14. ASSUME NEW i \in 1 .. Len(q2) PROVE Valid(ms, n + 1, q2[i])
  BY <1>5, <1>6, <1>8, <1>9, <1>11, <1>13 DEF Q
<1>15. Ascending(q2)
  <2> SUFFICES ASSUME NEW i \in 1 .. Len(q2), NEW j \in 1 .. Len(q2), i < j
               PROVE  Before(q2[i], q2[j])
    BY DEF Ascending
  <2>1. i \in 1 .. Q BY <1>11
  <2>2. CASE j = Q + 1 BY <1>5, <1>6, <1>9, <1>11, <2>1, <2>2 DEF Q
  <2>3. CASE j \in 1 .. Q BY <1>5, <1>11, <2>1, <2>3 DEF Ascending, Q
  <2> QED BY <1>13, <2>2, <2>3
<1>16. ASSUME NEW i \in 1 .. Len(s), NEW j \in 1 .. Len(q2) PROVE Before(s[i], q2[j])
  BY <1>5, <1>6, <1>9, <1>11, <1>13 DEF Q
<1>17. ASSUME NEW m \in g, NEW i \in 1 .. Len(q2) PROVE q2[i][1] # m
  <2>1. CASE i = Q + 1
    <3>1. q2[i][1] = L BY <1>11, <2>1 DEF b
    <3> QED BY <1>7, <3>1
  <2>2. CASE i \in 1 .. Q BY <1>5, <1>11, <2>2 DEF Q
  <2> QED BY <1>13, <2>1, <2>2
<1>18. \A i \in 1 .. Len(s) : Valid(ms, n + 1, s[i]) BY <1>5, <1>6, <1>9
<1>19. InOrder(ms, n + 1, q2, s, g)
  BY <1>5, <1>7, <1>14, <1>15, <1>16, <1>17, <1>18 DEF InOrder, L
<1> QED BY <1>3, <1>4, <1>12, <1>19 DEF b, q2, L

(* The receiver goes on to its next message: nothing that is on its way    *)
(* changes.                                                                *)
LEMMA Unchanged ==
  ASSUME NEW ms \in Seq(Messages), NEW m \in Messages, NEW x, x[1] \in 1 .. Len(ms)
  PROVE  LET ms2 == Append(ms, m) IN
         /\ x[1] \in 1 .. Len(ms2) /\ Len(ms2) = Len(ms) + 1 /\ x[1] # Len(ms2)
         /\ ms2[x[1]] = ms[x[1]] /\ Val(ms2, x) = Val(ms, x)
         /\ Size(ms2, x[1]) = Size(ms, x[1])
<1> DEFINE ms2 == Append(ms, m)
<1>1. /\ Len(ms) \in Nat /\ Len(ms2) = Len(ms) + 1
      /\ \A i \in 1 .. Len(ms) : ms2[i] = ms[i]
  BY AppendProperties, LenProperties
<1> HIDE DEF ms2
<1>2. x[1] \in 1 .. Len(ms2) /\ x[1] # Len(ms2)
  <2> DEFINE L == Len(ms)
  <2>1. L \in Nat /\ Len(ms2) = L + 1 /\ x[1] \in 1 .. L BY <1>1
  <2> HIDE DEF L
  <2> QED BY <2>1
<1>3. ms2[x[1]] = ms[x[1]] BY <1>1
<1> QED BY <1>1, <1>2, <1>3, Zenon DEF Val, Size, ms2

LEMMA MessageBegins ==
  ASSUME NEW ms, NEW n, NEW q, NEW s, NEW g, NEW m \in Messages,
         WireInv(ms, n), Len(ms) < MaxMessages, ms # << >> => n = Size(ms, Len(ms)),
         InOrder(ms, n, q, s, g)
  PROVE  WireInv(Append(ms, m), 0) /\ InOrder(Append(ms, m), 0, q, s, g)
<1> DEFINE ms2 == Append(ms, m)  L == Len(ms)
<1>1. ms \in Seq(Messages) /\ L \in Nat /\ n \in Nat BY LenProperties DEF WireInv
<1>2. ms2 \in Seq(Messages) /\ Len(ms2) = L + 1 BY <1>1, AppendProperties
<1>3. WireInv(ms2, 0)
  <2> HIDE DEF ms2
  <2>1. Len(ms2) \in 1 .. Len(ms2) /\ L + 1 <= MaxMessages
    <3> MaxMessages \in Nat BY SizesAssumption
    <3> QED BY <1>1, <1>2
  <2>2. Size(ms2, Len(ms2)) \in Nat BY <1>2, <2>1, SentFrame
  <2>3. 0 <= Size(ms2, Len(ms2)) BY <2>2
  <2> QED BY <1>2, <2>1, <2>3 DEF WireInv
<1>4. \A x : x[1] \in 1 .. L =>
        /\ x[1] \in 1 .. Len(ms2) /\ x[1] # Len(ms2) /\ Size(ms2, x[1]) = Size(ms, x[1])
  BY <1>1, Unchanged
<1> HIDE DEF ms2, L
<1>5. \A x : Valid(ms, n, x) => Valid(ms2, 0, x) BY <1>4 DEF Valid, L
<1>6. \A k \in 1 .. L : k \in 1 .. Len(ms2) /\ k # Len(ms2) BY <1>1, <1>2
<1> QED BY <1>3, <1>5, <1>6 DEF InOrder, ms2, L

-----------------------------------------------------------------------------
(* What each machine is shown to do: from p, given b, it goes to q.        *)
Works(ms, kind, wait, longest, p, b, q) ==
  LET f == p.rx_frame  a == Append(f, b) IN
  /\ q.rx_frame = << >> \/ q.rx_frame = a
  /\ Len(q.rx_frame) < longest
  /\ Len(f) = 0 => q.rx_frame = IF Val(ms, b) = Start(kind) THEN a ELSE << >>
  /\ \A n \in 1 .. Len(ms) :
       ms[n].kind = kind /\ Len(f) # 0 /\ Runs(a, 1, n, Len(f) + 1) =>
         /\ Len(f) + 1 < Size(ms, n) => q.rx_frame = a
         /\ Len(f) + 1 = Size(ms, n) => q.rx_frame = << >> /\ p.rx_state = wait

LEMMA RightFrame ==
  ASSUME NEW kind, NEW a \in Seq(Byte), Size(sent, a[1][1]) \in Nat
  PROVE  is_frame(kind, a) <=> Right(sent, kind, a)
<1> DEFINE n == a[1][1]  Z == Size(sent, n)
<1>1. is_frame(kind, a) <=> sent[n].kind = kind /\ a = [i \in 1 .. Z |-> <<n, i>>]
  BY DEF is_frame, Whole, FrameLen, Size
<1>2. Right(sent, kind, a) <=> sent[n].kind = kind /\ Len(a) = Z /\ Runs(a, 1, n, Len(a))
  BY DEF Right, Mine
<1>3. Z \in Nat OBVIOUS
<1> HIDE DEF n, Z
<1>4. a = [i \in 1 .. Z |-> <<n, i>>] <=> Len(a) = Z /\ Runs(a, 1, n, Z)
  BY ONLY <1>3, a \in Seq(Byte), SameAsFrame
<1> QED BY <1>1, <1>2, <1>4

(* FedStep of FrameStream needs these.                                     *)
LEMMA OnWire ==
  ASSUME NEW ms, NEW n, WireInv(ms, n)
  PROVE  /\ Wire(ms, n)
         /\ \A kind : Begins(ms, kind, Start(kind))
<1>1. ms \in Seq(Messages) BY DEF WireInv
<1>2. \A m \in 1 .. Len(ms) : /\ Size(ms, m) \in Nat /\ Size(ms, m) >= 2
                             /\ Val(ms, <<m, 1>>) = Start(ms[m].kind)
  BY <1>1, SentFrame
<1> QED BY <1>2 DEF WireInv, Wire, Begins, Mine

LEMMA BytePairs == Pairs(Byte)
BY SizesAssumption DEF Pairs, Byte

-----------------------------------------------------------------------------
(* The RTCM3 machine: how much of a frame it has in each of its states.    *)
Rtcm3Exp(ms, f) == (256 * Val(ms, f[2]) + Val(ms, f[3])) % RTCM3_LEN_MOD

Rtcm3Shape(ms, p) ==
  LET n == Len(p.rx_frame)  end == 3 + Rtcm3Exp(ms, p.rx_frame) IN
  \/ p.rx_state = "WAIT_PREAMBLE" /\ n = 0
  \/ p.rx_state = "WAIT_LEN" /\ n \in 1 .. 2
  \/ p.rx_state = "WAIT_PAYLOAD" /\ n >= 3 /\ (n = 3 \/ n < end)
  \/ p.rx_state = "WAIT_CRC" /\ n >= 3 /\ n >= end /\ n < end + 3

(* The frame in progress and the next byte, as the lemmas have them.       *)
Readable(ms, f, b) ==
  /\ f \in Seq(Byte) /\ b \in Byte
  /\ \A i \in 1 .. Len(f) : Val(ms, f[i]) \in Nat
  /\ Val(ms, b) \in Nat

LEMMA ReadableParts ==
  ASSUME NEW ms, NEW f, NEW b, Readable(ms, f, b)
  PROVE  /\ Len(f) \in Nat /\ Len(Append(f, b)) = Len(f) + 1
         /\ Append(f, b)[Len(f) + 1] = b
         /\ \A i \in 1 .. Len(f) : Append(f, b)[i] = f[i]
         /\ \A i \in 1 .. Len(f) + 1 : Val(ms, Append(f, b)[i]) \in Nat
<1>1. Extends(f, b, Append(f, b)) BY ExtendsByAppend DEF Readable
<1> DEFINE a == Append(f, b)
<1> HIDE DEF a
<1>2. /\ Len(f) \in Nat /\ Len(a) = Len(f) + 1 /\ a[Len(f) + 1] = b
      /\ \A i \in 1 .. Len(f) : a[i] = f[i]
  BY <1>1 DEF Extends, a
<1>3. (\A i \in 1 .. Len(f) : Val(ms, f[i]) \in Nat) /\ Val(ms, b) \in Nat BY DEF Readable
<1>4. ASSUME NEW i \in 1 .. Len(f) + 1 PROVE Val(ms, a[i]) \in Nat
  <2>1. i = Len(f) + 1 \/ i \in 1 .. Len(f) BY <1>2
  <2> QED BY <1>2, <1>3, <2>1
<1> QED BY <1>2, <1>4 DEF a

LEMMA Rtcm3Sent ==
  ASSUME sent \in Seq(Messages), NEW n \in 1 .. Len(sent), sent[n].kind = "rtcm3"
  PROVE  \E k \in Nat \ {0} :
           /\ Size(sent, n) = k + 6 /\ k < RTCM3_LEN_MOD
           /\ (256 * Val(sent, <<n, 2>>) + Val(sent, <<n, 3>>)) % RTCM3_LEN_MOD = k
<1> DEFINE m == sent[n]  k == Len(m.body)  w == FrameBytes(m)
<1>1. m \in Messages BY ElementOfSeq
<1>2. k \in Nat /\ k > 0 BY <1>1, MessageShape
<1>3. Len(w) = k + 6 /\ k < RTCM3_LEN_MOD /\ w[2] = k \div 256 /\ w[3] = k % 256
  BY <1>1, Rtcm3Frame
<1>4. Size(sent, n) = Len(w) /\ Val(sent, <<n, 2>>) = w[2] /\ Val(sent, <<n, 3>>) = w[3]
  BY DEF Size, Val
<1> HIDE DEF k, w, m
<1>5. 256 * w[2] + w[3] = k BY <1>2, <1>3, Halves
<1>6. RTCM3_LEN_MOD \in Nat /\ k % RTCM3_LEN_MOD = k
  <2>1. RTCM3_LEN_MOD \in Nat BY SizesAssumption
  <2> QED BY <1>2, <1>3, <2>1
<1>7. k \in Nat \ {0} BY <1>2
<1> QED BY <1>3, <1>4, <1>5, <1>6, <1>7

LEMMA Rtcm3Works ==
  ASSUME sent \in Seq(Messages), NEW p, NEW b, Readable(sent, p.rx_frame, b),
         Rtcm3Shape(sent, p)
  PROVE  /\ Works(sent, "rtcm3", "WAIT_CRC", RTCM3_MAX_FRAME, p, b, rtcm3_proc_byte(p, b))
         /\ Rtcm3Shape(sent, rtcm3_proc_byte(p, b))
<1> DEFINE f == p.rx_frame  a == Append(f, b)  F == Len(f)
           q == rtcm3_proc_byte(p, b)  qf == q.rx_frame  qs == q.rx_state
           e == rtcm3_exp_len(a)
<1>1. /\ F \in Nat /\ Len(a) = F + 1 /\ a[F + 1] = b
      /\ \A i \in 1 .. F : a[i] = f[i]
      /\ \A i \in 1 .. F + 1 : Val(sent, a[i]) \in Nat
  BY ReadableParts
<1>2. \A x : Value(x) = Val(sent, x) BY DEF Value, Val
<1>3. e = (256 * Val(sent, a[2]) + Val(sent, a[3])) % RTCM3_LEN_MOD BY <1>2 DEF rtcm3_exp_len
<1>4. \/ p.rx_state = "WAIT_PREAMBLE" /\ F = 0
      \/ p.rx_state = "WAIT_LEN" /\ F \in 1 .. 2
      \/ p.rx_state = "WAIT_PAYLOAD" /\ F >= 3 /\ (F = 3 \/ F < 3 + Rtcm3Exp(sent, f))
      \/ p.rx_state = "WAIT_CRC" /\ F >= 3 /\ F >= 3 + Rtcm3Exp(sent, f) /\ F < 3 + Rtcm3Exp(sent, f) + 3
  BY DEF Rtcm3Shape
<1>5. /\ p.rx_state = "WAIT_PREAMBLE" => q = rtcm3_proc_wait_preamble(a)
      /\ p.rx_state = "WAIT_LEN" => q = rtcm3_proc_wait_len(a)
      /\ p.rx_state = "WAIT_PAYLOAD" => q = rtcm3_proc_wait_payload(a)
      /\ p.rx_state = "WAIT_CRC" => q = rtcm3_proc_wait_crc24(a)
  BY DEF rtcm3_proc_byte
<1>6. RTCM3_LEN_MOD \in Nat /\ RTCM3_LEN_MOD >= 1 BY SizesAssumption
<1> HIDE DEF f, a, F, q, e
<1>7. F >= 2 => e \in Nat /\ e < RTCM3_LEN_MOD
  <2> SUFFICES ASSUME F >= 2 PROVE e \in Nat /\ e < RTCM3_LEN_MOD OBVIOUS
  <2> DEFINE x == Val(sent, a[2])  y == Val(sent, a[3])
  <2>1. x \in Nat /\ y \in Nat BY <1>1
  <2> HIDE DEF x, y
  <2>2. 256 * x + y \in Nat BY <2>1
  <2>3. e = (256 * x + y) % RTCM3_LEN_MOD BY <1>3 DEF x, y
  <2> QED BY <1>6, <2>2, <2>3
<1>8. F >= 3 => Rtcm3Exp(sent, f) = e
  <2>1. F >= 3 => a[2] = f[2] /\ a[3] = f[3] BY <1>1
  <2> QED BY <1>3, <2>1 DEF Rtcm3Exp
<1>9. qf = a => Rtcm3Exp(sent, qf) = e BY <1>3 DEF Rtcm3Exp
(* What becomes of the frame.                                              *)
<1>10. \/ /\ p.rx_state = "WAIT_PREAMBLE" /\ F = 0
          /\ IF Val(sent, b) = RTCM3_PREAMBLE THEN qf = a /\ qs = "WAIT_LEN"
                                              ELSE qf = << >> /\ qs = "WAIT_PREAMBLE"
       \/ /\ p.rx_state = "WAIT_LEN" /\ F \in 1 .. 2
          /\ qf = a /\ qs = IF F = 1 THEN "WAIT_LEN" ELSE "WAIT_PAYLOAD"
       \/ /\ p.rx_state = "WAIT_PAYLOAD" /\ F >= 3 /\ (F = 3 \/ F < 3 + e)
          /\ \/ F + 1 > 3 + e /\ qf = << >> /\ qs = "WAIT_PREAMBLE"
             \/ F + 1 = 3 + e /\ qf = a /\ qs = "WAIT_CRC"
             \/ F + 1 < 3 + e /\ qf = a /\ qs = "WAIT_PAYLOAD"
       \/ /\ p.rx_state = "WAIT_CRC" /\ F >= 3 /\ F >= 3 + e /\ F < 3 + e + 3
          /\ \/ F + 1 < 3 + e + 3 /\ qf = a /\ qs = "WAIT_CRC"
             \/ F + 1 = 3 + e + 3 /\ qf = << >> /\ qs = "WAIT_PREAMBLE"
  <2>1. CASE p.rx_state = "WAIT_PREAMBLE"
    <3>1. F = 0 BY <1>4, <2>1
    <3>2. a[1] = b BY <1>1, <3>1
    <3> QED BY <1>2, <1>5, <2>1, <3>1, <3>2 DEF rtcm3_proc_wait_preamble, rtcm3_reset_rx, Wait
  <2>2. CASE p.rx_state = "WAIT_LEN"
    <3>1. F \in 1 .. 2 BY <1>4, <2>2
    <3>2. Len(a) = 2 <=> F = 1 BY <1>1
    <3> QED BY <1>5, <2>2, <3>1, <3>2 DEF rtcm3_proc_wait_len, Wait
  <2>3. CASE p.rx_state = "WAIT_PAYLOAD"
    <3>1. F >= 3 /\ (F = 3 \/ F < 3 + e) BY <1>4, <1>8, <2>3
    <3>2. e \in Nat BY <1>1, <1>7, <3>1
    <3>3. F + 1 > 3 + e \/ F + 1 = 3 + e \/ F + 1 < 3 + e BY <1>1, <3>2
    <3>4. q = IF F + 1 > 3 + e THEN rtcm3_reset_rx
              ELSE Wait(IF F + 1 = 3 + e THEN "WAIT_CRC" ELSE "WAIT_PAYLOAD", a)
      BY <1>1, <1>5, <2>3 DEF rtcm3_proc_wait_payload, RTCM3_HEADER_SIZE, e
    <3>5. CASE F + 1 > 3 + e BY <2>3, <3>1, <3>4, <3>5 DEF rtcm3_reset_rx, Wait
    <3>6. CASE F + 1 = 3 + e
      <4>1. ~(F + 1 > 3 + e) BY <1>1, <3>2, <3>6
      <4> QED BY <2>3, <3>1, <3>4, <3>6, <4>1 DEF Wait
    <3>7. CASE F + 1 < 3 + e
      <4>1. ~(F + 1 > 3 + e) /\ F + 1 # 3 + e BY <1>1, <3>2, <3>7
      <4> QED BY <2>3, <3>1, <3>4, <3>7, <4>1 DEF Wait
    <3> QED BY <3>3, <3>5, <3>6, <3>7
  <2>4. CASE p.rx_state = "WAIT_CRC"
    <3>1. F >= 3 /\ F >= 3 + e /\ F < 3 + e + 3 BY <1>4, <1>8, <2>4
    <3>2. e \in Nat BY <1>1, <1>7, <3>1
    <3>3. q = IF F + 1 < 3 + e + 3 THEN Wait("WAIT_CRC", a) ELSE rtcm3_reset_rx
      BY <1>1, <1>5, <2>4 DEF rtcm3_proc_wait_crc24, RTCM3_HEADER_SIZE, RTCM3_CRC24_SIZE, e
    <3>4. CASE F + 1 < 3 + e + 3 BY <2>4, <3>1, <3>3, <3>4 DEF Wait
    <3>5. CASE ~(F + 1 < 3 + e + 3)
      <4>1. F + 1 = 3 + e + 3 BY <1>1, <3>1, <3>2, <3>5
      <4> QED BY <2>4, <3>1, <3>3, <3>5, <4>1 DEF rtcm3_reset_rx, Wait
    <3> QED BY <3>4, <3>5
  <2> QED BY <1>4, <2>1, <2>2, <2>3, <2>4
<1>11. Len(<< >>) = 0 BY EmptySeq
<1>12. qf = << >> \/ qf = a BY <1>10
<1>13. RTCM3_MAX_FRAME = RTCM3_LEN_MOD + 5
  BY <1>6 DEF RTCM3_MAX_FRAME, RTCM3_HEADER_SIZE, RTCM3_CRC24_SIZE
<1> HIDE DEF qf, qs
<1>14. Len(qf) < RTCM3_MAX_FRAME
  BY <1>1, <1>6, <1>7, <1>10, <1>11, <1>13
<1>15. F = 0 => qf = IF Val(sent, b) = RTCM3_PREAMBLE THEN a ELSE << >> BY <1>10
<1>16. ASSUME NEW n \in 1 .. Len(sent), sent[n].kind = "rtcm3", F # 0, Runs(a, 1, n, F + 1)
       PROVE  /\ F + 1 < Size(sent, n) => qf = a
              /\ F + 1 = Size(sent, n) => qf = << >> /\ p.rx_state = "WAIT_CRC"
  <2>1. PICK k \in Nat \ {0} :
           /\ Size(sent, n) = k + 6 /\ k < RTCM3_LEN_MOD
           /\ (256 * Val(sent, <<n, 2>>) + Val(sent, <<n, 3>>)) % RTCM3_LEN_MOD = k
    BY <1>16, Rtcm3Sent
  <2>2. F >= 2 => e = k
    <3>1. F >= 2 => 2 \in 1 .. F + 1 /\ 3 \in 1 .. F + 1 /\ 1 + 2 - 1 = 2 /\ 1 + 3 - 1 = 3 BY <1>1
    <3>2. F >= 2 => a[2] = <<n, 2>> /\ a[3] = <<n, 3>> BY <1>16, <3>1 DEF Runs
    <3> QED BY <1>3, <2>1, <3>2
  <2>3. k \in Nat /\ k >= 1 BY <2>1
  <2> QED BY <1>1, <1>10, <1>16, <2>1, <2>2, <2>3
<1>17. Works(sent, "rtcm3", "WAIT_CRC", RTCM3_MAX_FRAME, p, b, q)
  <2>1. Start("rtcm3") = RTCM3_PREAMBLE BY DEF Start
  <2> QED BY <1>12, <1>14, <1>15, <1>16, <2>1 DEF Works, f, a, F, qf
<1>18. Rtcm3Shape(sent, q)
  <2> DEFINE n == Len(qf)  end == 3 + Rtcm3Exp(sent, qf)
  <2>1. qf = a => n = F + 1 /\ end = 3 + e BY <1>1, <1>9 DEF qf
  <2>2. qf = << >> => n = 0 BY <1>11
  <2> HIDE DEF n, end
  <2>3. \/ qs = "WAIT_PREAMBLE" /\ n = 0
        \/ qs = "WAIT_LEN" /\ n \in 1 .. 2
        \/ qs = "WAIT_PAYLOAD" /\ n >= 3 /\ (n = 3 \/ n < end)
        \/ qs = "WAIT_CRC" /\ n >= 3 /\ n >= end /\ n < end + 3
    BY <1>1, <1>7, <1>10, <2>1, <2>2
  <2> QED BY <2>3 DEF Rtcm3Shape, n, end, qf, qs
<1> QED BY <1>17, <1>18 DEF q

-----------------------------------------------------------------------------
(* The UBX machine.                                                        *)
UbxExp(ms, f) == Val(ms, f[5]) + 256 * Val(ms, f[6])

UbxShape(ms, p) ==
  LET n == Len(p.rx_frame)  e == UbxExp(ms, p.rx_frame) IN
  \/ p.rx_state = "UBX_WAIT_SYC0" /\ n = 0
  \/ p.rx_state = "UBX_WAIT_SYC1" /\ n = 1
  \/ p.rx_state = "UBX_WAIT_CLASS" /\ n = 2
  \/ p.rx_state = "UBX_WAIT_ID" /\ n = 3
  \/ p.rx_state = "UBX_WAIT_LEN" /\ n \in 4 .. 5
  \/ /\ p.rx_state = "UBX_WAIT_PAYLOAD" /\ n >= 6 /\ e <= UBX_RX_FRAME_SIZE
     /\ (n = 6 \/ n < 6 + e)
  \/ /\ p.rx_state = "UBX_WAIT_CRC" /\ n >= 6 /\ e <= UBX_RX_FRAME_SIZE
     /\ n >= 6 + e /\ n < 6 + e + 2

LEMMA UbxSent ==
  ASSUME sent \in Seq(Messages), NEW n \in 1 .. Len(sent), sent[n].kind = "ubx"
  PROVE  \E k \in Nat \ {0} :
           /\ Size(sent, n) = k + 8 /\ k <= UBX_RX_FRAME_SIZE - 8
           /\ Val(sent, <<n, 2>>) = UBX_SYN_1
           /\ Val(sent, <<n, 5>>) + 256 * Val(sent, <<n, 6>>) = k
<1> DEFINE m == sent[n]  k == Len(m.body)  w == FrameBytes(m)
<1>1. m \in Messages BY ElementOfSeq
<1>2. k \in Nat /\ k > 0 BY <1>1, MessageShape
<1>3. /\ Len(w) = k + 8 /\ k <= UBX_RX_FRAME_SIZE - 8 /\ w[2] = UBX_SYN_1
      /\ w[5] = k % 256 /\ w[6] = k \div 256
  BY <1>1, UbxFrame
<1>4. /\ Size(sent, n) = Len(w) /\ Val(sent, <<n, 2>>) = w[2]
      /\ Val(sent, <<n, 5>>) = w[5] /\ Val(sent, <<n, 6>>) = w[6]
  BY DEF Size, Val
<1> HIDE DEF k, w, m
<1>5. w[5] + 256 * w[6] = k BY <1>2, <1>3, Halves
<1>6. k \in Nat \ {0} BY <1>2
<1> QED BY <1>3, <1>4, <1>5, <1>6

LEMMA UbxWorks ==
  ASSUME sent \in Seq(Messages), NEW p, NEW b, Readable(sent, p.rx_frame, b),
         UbxShape(sent, p)
  PROVE  /\ Works(sent, "ubx", "UBX_WAIT_CRC", UBX_MAX_FRAME, p, b, ubx_proc_byte(p, b))
         /\ UbxShape(sent, ubx_proc_byte(p, b))
<1> DEFINE f == p.rx_frame  a == Append(f, b)  F == Len(f)
           q == ubx_proc_byte(p, b)  qf == q.rx_frame  qs == q.rx_state
           e == ubx_exp_len(a)  top == UBX_RX_FRAME_SIZE
<1>1. /\ F \in Nat /\ Len(a) = F + 1 /\ a[F + 1] = b
      /\ \A i \in 1 .. F : a[i] = f[i]
      /\ \A i \in 1 .. F + 1 : Val(sent, a[i]) \in Nat
  BY ReadableParts
<1>2. \A x : Value(x) = Val(sent, x) BY DEF Value, Val
<1>3. e = Val(sent, a[5]) + 256 * Val(sent, a[6]) BY <1>2 DEF ubx_exp_len
<1>4. \/ p.rx_state = "UBX_WAIT_SYC0" /\ F = 0
      \/ p.rx_state = "UBX_WAIT_SYC1" /\ F = 1
      \/ p.rx_state = "UBX_WAIT_CLASS" /\ F = 2
      \/ p.rx_state = "UBX_WAIT_ID" /\ F = 3
      \/ p.rx_state = "UBX_WAIT_LEN" /\ F \in 4 .. 5
      \/ /\ p.rx_state = "UBX_WAIT_PAYLOAD" /\ F >= 6 /\ UbxExp(sent, f) <= top
         /\ (F = 6 \/ F < 6 + UbxExp(sent, f))
      \/ /\ p.rx_state = "UBX_WAIT_CRC" /\ F >= 6 /\ UbxExp(sent, f) <= top
         /\ F >= 6 + UbxExp(sent, f) /\ F < 6 + UbxExp(sent, f) + 2
  BY DEF UbxShape
<1>5. /\ p.rx_state = "UBX_WAIT_SYC0" => q = proc_ublox_wait_sync0(a)
      /\ p.rx_state = "UBX_WAIT_SYC1" => q = proc_ublox_wait_sync1(a)
      /\ p.rx_state = "UBX_WAIT_CLASS" => q = Wait("UBX_WAIT_ID", a)
      /\ p.rx_state = "UBX_WAIT_ID" => q = Wait("UBX_WAIT_LEN", a)
      /\ p.rx_state = "UBX_WAIT_LEN" => q = proc_ublox_wait_len(a)
      /\ p.rx_state = "UBX_WAIT_PAYLOAD" => q = proc_ublox_wait_payload(a)
      /\ p.rx_state = "UBX_WAIT_CRC" => q = proc_ublox_wait_crc(a)
  BY DEF ubx_proc_byte
<1>6. top \in Nat BY SizesAssumption
<1> HIDE DEF f, a, F, q, e
<1>7. F >= 5 => e \in Nat
  <2> SUFFICES ASSUME F >= 5 PROVE e \in Nat OBVIOUS
  <2> DEFINE x == Val(sent, a[5])  y == Val(sent, a[6])
  <2>1. x \in Nat /\ y \in Nat BY <1>1
  <2> HIDE DEF x, y
  <2>2. x + 256 * y \in Nat BY <2>1
  <2> QED BY <1>3, <2>2 DEF x, y
<1>8. F >= 6 => UbxExp(sent, f) = e
  <2>1. F >= 6 => a[5] = f[5] /\ a[6] = f[6] BY <1>1
  <2> QED BY <1>3, <2>1 DEF UbxExp
<1>9. qf = a => UbxExp(sent, qf) = e BY <1>3 DEF UbxExp
<1> DEFINE Gone == qf = << >> /\ qs = "UBX_WAIT_SYC0"
           Kept(s) == qf = a /\ qs = s
<1>10. \/ /\ p.rx_state = "UBX_WAIT_SYC0" /\ F = 0
          /\ IF Val(sent, b) = UBX_SYN_0 THEN Kept("UBX_WAIT_SYC1") ELSE Gone
       \/ /\ p.rx_state = "UBX_WAIT_SYC1" /\ F = 1
          /\ IF Val(sent, b) = UBX_SYN_1 THEN Kept("UBX_WAIT_CLASS") ELSE Gone
       \/ p.rx_state = "UBX_WAIT_CLASS" /\ F = 2 /\ Kept("UBX_WAIT_ID")
       \/ p.rx_state = "UBX_WAIT_ID" /\ F = 3 /\ Kept("UBX_WAIT_LEN")
       \/ p.rx_state = "UBX_WAIT_LEN" /\ F = 4 /\ Kept("UBX_WAIT_LEN")
       \/ /\ p.rx_state = "UBX_WAIT_LEN" /\ F = 5
          /\ IF e > top THEN Gone ELSE Kept("UBX_WAIT_PAYLOAD")
       \/ /\ p.rx_state = "UBX_WAIT_PAYLOAD" /\ F >= 6 /\ e <= top /\ (F = 6 \/ F < 6 + e)
          /\ \/ F + 1 > 6 + e /\ Gone
             \/ F + 1 = 6 + e /\ Kept("UBX_WAIT_CRC")
             \/ F + 1 < 6 + e /\ Kept("UBX_WAIT_PAYLOAD")
       \/ /\ p.rx_state = "UBX_WAIT_CRC" /\ F >= 6 /\ e <= top /\ F >= 6 + e /\ F < 6 + e + 2
          /\ \/ F + 1 < 6 + e + 2 /\ Kept("UBX_WAIT_CRC")
             \/ F + 1 = 6 + e + 2 /\ Gone
  <2>1. CASE p.rx_state = "UBX_WAIT_SYC0"
    <3>1. F = 0 /\ a[1] = b BY <1>1, <1>4, <2>1
    <3> QED BY <1>2, <1>5, <2>1, <3>1 DEF proc_ublox_wait_sync0, ubx_reset_rx, Wait
  <2>2. CASE p.rx_state = "UBX_WAIT_SYC1"
    <3>1. F = 1 /\ a[2] = b BY <1>1, <1>4, <2>2
    <3> QED BY <1>2, <1>5, <2>2, <3>1 DEF proc_ublox_wait_sync1, ubx_reset_rx, Wait
  <2>3. CASE p.rx_state = "UBX_WAIT_CLASS" BY <1>4, <1>5, <2>3 DEF Wait
  <2>4. CASE p.rx_state = "UBX_WAIT_ID" BY <1>4, <1>5, <2>4 DEF Wait
  <2>5. CASE p.rx_state = "UBX_WAIT_LEN"
    <3>1. F = 4 \/ F = 5 BY <1>1, <1>4, <2>5
    <3>2. Len(a) = 5 <=> F = 4 BY <1>1
    <3>3. q = IF F = 4 THEN Wait("UBX_WAIT_LEN", a)
              ELSE IF e > top THEN ubx_reset_rx ELSE Wait("UBX_WAIT_PAYLOAD", a)
      BY <1>5, <2>5, <3>2 DEF proc_ublox_wait_len, e
    <3>4. CASE F = 4 BY <2>5, <3>3, <3>4 DEF Wait
    <3>5. CASE F = 5
      <4>1. F # 4 BY <3>5
      <4> QED BY <2>5, <3>3, <3>5, <4>1 DEF ubx_reset_rx, Wait
    <3> QED BY <3>1, <3>4, <3>5
  <2>6. CASE p.rx_state = "UBX_WAIT_PAYLOAD"
    <3>1. F >= 6 /\ e <= top /\ (F = 6 \/ F < 6 + e) BY <1>4, <1>8, <2>6
    <3>2. e \in Nat BY <1>1, <1>7, <3>1
    <3>3. F + 1 > 6 + e \/ F + 1 = 6 + e \/ F + 1 < 6 + e BY <1>1, <3>2
    <3>4. q = IF F + 1 > 6 + e THEN ubx_reset_rx
              ELSE Wait(IF F + 1 = 6 + e THEN "UBX_WAIT_CRC" ELSE "UBX_WAIT_PAYLOAD", a)
      BY <1>1, <1>5, <2>6 DEF proc_ublox_wait_payload, UBX_HEADER_SIZE, e
    <3>5. CASE F + 1 > 6 + e BY <2>6, <3>1, <3>4, <3>5 DEF ubx_reset_rx, Wait
    <3>6. CASE F + 1 = 6 + e
      <4>1. ~(F + 1 > 6 + e) BY <1>1, <3>2, <3>6
      <4> QED BY <2>6, <3>1, <3>4, <3>6, <4>1 DEF Wait
    <3>7. CASE F + 1 < 6 + e
      <4>1. ~(F + 1 > 6 + e) /\ F + 1 # 6 + e BY <1>1, <3>2, <3>7
      <4> QED BY <2>6, <3>1, <3>4, <3>7, <4>1 DEF Wait
    <3> QED BY <3>3, <3>5, <3>6, <3>7
  <2>7. CASE p.rx_state = "UBX_WAIT_CRC"
    <3>1. F >= 6 /\ e <= top /\ F >= 6 + e /\ F < 6 + e + 2 BY <1>4, <1>8, <2>7
    <3>2. e \in Nat BY <1>1, <1>7, <3>1
    <3>3. q = IF F + 1 < 6 + e + 2 THEN Wait("UBX_WAIT_CRC", a) ELSE ubx_reset_rx
      BY <1>1, <1>5, <2>7 DEF proc_ublox_wait_crc, UBX_HEADER_SIZE, UBX_CRC_SIZE, e
    <3>4. CASE F + 1 < 6 + e + 2 BY <2>7, <3>1, <3>3, <3>4 DEF Wait
    <3>5. CASE ~(F + 1 < 6 + e + 2)
      <4>1. F + 1 = 6 + e + 2 BY <1>1, <3>1, <3>2, <3>5
      <4> QED BY <2>7, <3>1, <3>3, <3>5, <4>1 DEF ubx_reset_rx, Wait
    <3> QED BY <3>4, <3>5
  <2> QED BY <1>4, <2>1, <2>2, <2>3, <2>4, <2>5, <2>6, <2>7
<1>11. Len(<< >>) = 0 BY EmptySeq
<1>12. qf = << >> \/ qf = a BY <1>10
<1>13. UBX_MAX_FRAME = top + 8 BY <1>6 DEF UBX_MAX_FRAME, UBX_HEADER_SIZE, UBX_CRC_SIZE
<1> HIDE DEF qf, qs
<1>14. Len(qf) < UBX_MAX_FRAME BY <1>1, <1>6, <1>7, <1>10, <1>11, <1>13
<1>15. F = 0 => qf = IF Val(sent, b) = UBX_SYN_0 THEN a ELSE << >> BY <1>10
<1>16. ASSUME NEW n \in 1 .. Len(sent), sent[n].kind = "ubx", F # 0, Runs(a, 1, n, F + 1)
       PROVE  /\ F + 1 < Size(sent, n) => qf = a
              /\ F + 1 = Size(sent, n) => qf = << >> /\ p.rx_state = "UBX_WAIT_CRC"
  <2>1. PICK k \in Nat \ {0} :
           /\ Size(sent, n) = k + 8 /\ k <= top - 8
           /\ Val(sent, <<n, 2>>) = UBX_SYN_1
           /\ Val(sent, <<n, 5>>) + 256 * Val(sent, <<n, 6>>) = k
    BY <1>16, UbxSent
  <2>2. F >= 5 => e = k
    <3>1. F >= 5 => 5 \in 1 .. F + 1 /\ 6 \in 1 .. F + 1 /\ 1 + 5 - 1 = 5 /\ 1 + 6 - 1 = 6 BY <1>1
    <3>2. F >= 5 => a[5] = <<n, 5>> /\ a[6] = <<n, 6>> BY <1>16, <3>1 DEF Runs
    <3> QED BY <1>3, <2>1, <3>2
  <2>3. F = 1 => Val(sent, b) = UBX_SYN_1
    <3>1. F = 1 => 2 \in 1 .. F + 1 /\ 1 + 2 - 1 = 2 /\ F + 1 = 2 OBVIOUS
    <3>2. F = 1 => a[2] = <<n, 2>> BY <1>16, <3>1 DEF Runs
    <3> QED BY <1>1, <2>1, <3>1, <3>2
  <2>4. k \in Nat /\ k >= 1 BY <2>1
  <2>5. k <= top BY <1>6, <2>1, <2>4
  <2> HIDE DEF top
  <2>6. F \in Nat BY <1>1
  <2>7. CASE F <= 5
    <3>1. F + 1 < k + 8 /\ F < 6 BY <2>4, <2>6, <2>7
    <3>2. F = 5 => ~(e > top) BY <1>6, <2>2, <2>4, <2>5
    <3>3. F # 6 /\ ~(F >= 6) BY <2>6, <2>7
    <3>4. qf = a BY <1>10, <1>16, <2>3, <3>2, <3>3
    <3>5. F + 1 # Size(sent, n) BY <2>1, <2>4, <2>6, <3>1
    <3> QED BY <3>4, <3>5
  <2>8. CASE F >= 6
    <3>1. e = k BY <2>2, <2>6, <2>8
    <3>2. F # 0 /\ F # 1 /\ F # 2 /\ F # 3 /\ F # 4 /\ F # 5 BY <2>8
    <3>3. \/ /\ p.rx_state = "UBX_WAIT_PAYLOAD" /\ (F = 6 \/ F < 6 + k)
             /\ (F + 1 > 6 + k \/ qf = a)
          \/ /\ p.rx_state = "UBX_WAIT_CRC" /\ F < 6 + k + 2
             /\ \/ F + 1 < 6 + k + 2 /\ qf = a
                \/ F + 1 = 6 + k + 2 /\ qf = << >>
      BY <1>10, <3>1, <3>2, Zenon
    <3> QED BY <2>1, <2>4, <2>6, <3>3
  <2> QED BY <2>6, <2>7, <2>8
<1>17. Works(sent, "ubx", "UBX_WAIT_CRC", UBX_MAX_FRAME, p, b, q)
  <2>1. Start("ubx") = UBX_SYN_0 BY DEF Start
  <2> QED BY <1>12, <1>14, <1>15, <1>16, <2>1 DEF Works, f, a, F, qf
<1>18. UbxShape(sent, q)
  <2> DEFINE n == Len(qf)  d == UbxExp(sent, qf)
  <2>1. qf = a => n = F + 1 /\ d = e BY <1>1, <1>9 DEF qf
  <2>2. qf = << >> => n = 0 BY <1>11
  <2> HIDE DEF n, d
  <2>3. \/ qs = "UBX_WAIT_SYC0" /\ n = 0
        \/ qs = "UBX_WAIT_SYC1" /\ n = 1
        \/ qs = "UBX_WAIT_CLASS" /\ n = 2
        \/ qs = "UBX_WAIT_ID" /\ n = 3
        \/ qs = "UBX_WAIT_LEN" /\ n \in 4 .. 5
        \/ qs = "UBX_WAIT_PAYLOAD" /\ n >= 6 /\ d <= top /\ (n = 6 \/ n < 6 + d)
        \/ qs = "UBX_WAIT_CRC" /\ n >= 6 /\ d <= top /\ n >= 6 + d /\ n < 6 + d + 2
    <3>1. F \in Nat /\ (F >= 5 => e \in Nat) BY <1>1, <1>7
    <3>2. CASE Gone BY <2>2, <3>2
    <3>3. CASE qf = a /\ F <= 5
      <4>1. n = F + 1 /\ d = e BY <2>1, <3>3
      <4> HIDE DEF top
      <4>2. F = 5 => (e > top \/ e <= top) BY <1>6, <3>1
      <4>3. ~(F >= 6) BY <3>1, <3>3
      <4>4. \/ F = 0 /\ (Gone \/ qs = "UBX_WAIT_SYC1")
            \/ F = 1 /\ (Gone \/ qs = "UBX_WAIT_CLASS")
            \/ F = 2 /\ qs = "UBX_WAIT_ID"
            \/ F = 3 /\ qs = "UBX_WAIT_LEN"
            \/ F = 4 /\ qs = "UBX_WAIT_LEN"
            \/ F = 5 /\ (Gone \/ (~(e > top) /\ qs = "UBX_WAIT_PAYLOAD"))
        BY <1>10, <4>3, Zenon
      <4> HIDE DEF Gone
      <4> QED BY <3>2, <4>1, <4>2, <4>4
    <3>4. CASE qf = a /\ F >= 6
      <4>1. n = F + 1 /\ d = e BY <2>1, <3>4
      <4>2. F # 0 /\ F # 1 /\ F # 2 /\ F # 3 /\ F # 4 /\ F # 5 BY <3>4
      <4>3. e <= top /\ \/ Gone
                        \/ F + 1 = 6 + e /\ qs = "UBX_WAIT_CRC"
                        \/ F + 1 < 6 + e /\ qs = "UBX_WAIT_PAYLOAD"
                        \/ F >= 6 + e /\ F + 1 < 6 + e + 2 /\ qs = "UBX_WAIT_CRC"
        BY <1>10, <4>2, Zenon
      <4> HIDE DEF top, Gone
      <4> QED BY <3>1, <3>2, <3>4, <4>1, <4>3
    <3> HIDE DEF Gone
    <3>5. Gone \/ qf = a BY <1>10, Zenon
    <3> QED BY <3>1, <3>2, <3>3, <3>4, <3>5
  <2> QED BY <2>3 DEF UbxShape, n, d, qf, qs
<1> QED BY <1>17, <1>18 DEF q

-----------------------------------------------------------------------------
(* The NMEA machine: the star is the last byte but at most one.            *)
NoStar(ms, f, l) == \A i \in 2 .. l : Val(ms, f[i]) # NMEA_STAR

NmeaShape(ms, p) ==
  LET f == p.rx_frame  n == Len(f) IN
  \/ p.rx_state = "NMEA_WAIT_PREAMBLE" /\ n = 0
  \/ p.rx_state = "NMEA_WAIT_PAYLOAD" /\ n >= 1 /\ n <= NMEA_MSG_SIZE /\ NoStar(ms, f, n)
  \/ /\ p.rx_state = "NMEA_WAIT_CRC" /\ n >= 2 /\ n <= NMEA_MSG_SIZE
     /\ NoStar(ms, f, n - 1) /\ Val(ms, f[n]) = NMEA_STAR
  \/ /\ p.rx_state = "NMEA_WAIT_CRC" /\ n >= 3 /\ n <= NMEA_MSG_SIZE
     /\ NoStar(ms, f, n - 2) /\ Val(ms, f[n - 1]) = NMEA_STAR /\ Val(ms, f[n]) # NMEA_STAR

LEMMA NmeaSent ==
  ASSUME sent \in Seq(Messages), NEW n \in 1 .. Len(sent), sent[n].kind = "nmea"
  PROVE  \E k \in Nat \ {0} :
           /\ Size(sent, n) = k + 4 /\ k + 4 <= NMEA_MSG_SIZE
           /\ Val(sent, <<n, k + 2>>) = NMEA_STAR
           /\ Val(sent, <<n, k + 3>>) \in HexDigits /\ Val(sent, <<n, k + 4>>) \in HexDigits
           /\ \A i \in 2 .. k + 1 : Val(sent, <<n, i>>) # NMEA_STAR
<1> DEFINE m == sent[n]  k == Len(m.body)  w == FrameBytes(m)
<1>1. m \in Messages BY ElementOfSeq
<1>2. /\ k \in Nat /\ k > 0
      /\ Len(w) = k + 4 /\ k + 4 <= NMEA_MSG_SIZE /\ w[k + 2] = NMEA_STAR
      /\ w[k + 3] \in HexDigits /\ w[k + 4] \in HexDigits
      /\ \A i \in 2 .. k + 1 : w[i] # NMEA_STAR
  BY <1>1, NmeaFrame
<1>3. Size(sent, n) = Len(w) /\ \A i : Val(sent, <<n, i>>) = w[i] BY DEF Size, Val
<1> HIDE DEF k, w, m
<1>4. k \in Nat \ {0} BY <1>2
<1> QED BY <1>2, <1>3, <1>4

LEMMA NmeaWorks ==
  ASSUME sent \in Seq(Messages), NEW p, NEW b, Readable(sent, p.rx_frame, b),
         NmeaShape(sent, p)
  PROVE  /\ Works(sent, "nmea", "NMEA_WAIT_CRC", NMEA_MSG_SIZE + 1, p, b, nmea_proc_byte(p, b))
         /\ NmeaShape(sent, nmea_proc_byte(p, b))
<1> DEFINE f == p.rx_frame  a == Append(f, b)  F == Len(f)
           q == nmea_proc_byte(p, b)  qf == q.rx_frame  qs == q.rx_state
           top == NMEA_MSG_SIZE  st == p.rx_state
<1>1. /\ F \in Nat /\ Len(a) = F + 1 /\ a[F + 1] = b
      /\ \A i \in 1 .. F : a[i] = f[i]
  BY ReadableParts
<1>2. \A x : Value(x) = Val(sent, x) BY DEF Value, Val
<1>3. \/ st = "NMEA_WAIT_PREAMBLE" /\ F = 0
      \/ st = "NMEA_WAIT_PAYLOAD" /\ F >= 1 /\ F <= top /\ NoStar(sent, f, F)
      \/ /\ st = "NMEA_WAIT_CRC" /\ F >= 2 /\ F <= top
         /\ NoStar(sent, f, F - 1) /\ Val(sent, f[F]) = NMEA_STAR
      \/ /\ st = "NMEA_WAIT_CRC" /\ F >= 3 /\ F <= top
         /\ NoStar(sent, f, F - 2) /\ Val(sent, f[F - 1]) = NMEA_STAR
         /\ Val(sent, f[F]) # NMEA_STAR
  BY DEF NmeaShape
<1>4. /\ st = "NMEA_WAIT_PREAMBLE" => q = nmea_proc_wait_preamble(a)
      /\ st = "NMEA_WAIT_PAYLOAD" => q = nmea_proc_wait_payload(a)
      /\ st = "NMEA_WAIT_CRC" => q = nmea_proc_wait_crc(a)
  BY DEF nmea_proc_byte
<1>5. top \in Nat /\ top >= 1 BY SizesAssumption
<1> HIDE DEF f, a, F, q, top, st
<1>6. F >= 1 => a[F] = f[F]
  <2>1. F >= 1 => F \in 1 .. F BY <1>1
  <2> QED BY <1>1, <2>1
<1> DEFINE Gone == qf = << >> /\ qs = "NMEA_WAIT_PREAMBLE"
           Kept(s) == qf = a /\ qs = s
           Hex == Val(sent, b) \in HexDigits
           Fits == F + 1 <= top
           Star == Val(sent, b) = NMEA_STAR
           After == Val(sent, f[F]) = NMEA_STAR
<1>7. \/ /\ st = "NMEA_WAIT_PREAMBLE" /\ F = 0
         /\ IF Val(sent, b) = NMEA_START THEN Kept("NMEA_WAIT_PAYLOAD") ELSE Gone
      \/ /\ st = "NMEA_WAIT_PAYLOAD" /\ F >= 1 /\ F <= top /\ NoStar(sent, f, F)
         /\ IF ~Fits THEN Gone
            ELSE IF Star THEN Kept("NMEA_WAIT_CRC") ELSE Kept("NMEA_WAIT_PAYLOAD")
      \/ /\ st = "NMEA_WAIT_CRC" /\ F >= 2 /\ F <= top /\ NoStar(sent, f, F - 1) /\ After
         /\ IF Hex /\ Fits THEN Kept("NMEA_WAIT_CRC") ELSE Gone
      \/ /\ st = "NMEA_WAIT_CRC" /\ F >= 3 /\ F <= top /\ NoStar(sent, f, F - 2)
         /\ Val(sent, f[F - 1]) = NMEA_STAR /\ ~After /\ Gone
  <2>1. CASE st = "NMEA_WAIT_PREAMBLE"
    <3>1. F = 0 /\ a[1] = b BY <1>1, <1>3, <2>1
    <3> QED BY <1>2, <1>4, <2>1, <3>1 DEF nmea_proc_wait_preamble, nmea_reset_parser, Wait
  <2>2. CASE st = "NMEA_WAIT_PAYLOAD"
    <3>1. F >= 1 /\ F <= top /\ NoStar(sent, f, F) BY <1>3, <2>2
    <3>2. Len(a) > top <=> ~Fits BY <1>1, <1>5
    <3>3. q = IF ~Fits THEN nmea_reset_parser
              ELSE Wait(IF Star THEN "NMEA_WAIT_CRC" ELSE "NMEA_WAIT_PAYLOAD", a)
      BY <1>1, <1>2, <1>4, <2>2, <3>2 DEF nmea_proc_wait_payload, top
    <3> HIDE DEF Fits, Star
    <3> QED BY <2>2, <3>1, <3>3 DEF nmea_reset_parser, Wait
  <2>3. CASE st = "NMEA_WAIT_CRC"
    <3>1. F >= 2 /\ Len(a) - 1 = F BY <1>1, <1>3, <2>3
    <3>2. a[F] = f[F] BY <1>1, <1>6, <3>1
    <3>3. Len(a) <= top <=> Fits BY <1>1
    <3>4. q = IF Hex /\ Fits /\ After THEN Wait("NMEA_WAIT_CRC", a) ELSE nmea_reset_parser
      <4>1. is_first_nibble(a) <=> After BY <1>2, <3>1, <3>2 DEF is_first_nibble
      <4>2. Value(a[Len(a)]) \in HexDigits <=> Hex BY <1>1, <1>2
      <4> HIDE DEF Hex, Fits, After
      <4> QED BY <1>4, <2>3, <3>3, <4>1, <4>2 DEF nmea_proc_wait_crc, top
    <3>5. \/ /\ F >= 2 /\ F <= top /\ NoStar(sent, f, F - 1) /\ After
          \/ /\ F >= 3 /\ F <= top /\ NoStar(sent, f, F - 2)
             /\ Val(sent, f[F - 1]) = NMEA_STAR /\ ~After
      BY <1>3, <2>3
    <3> HIDE DEF Hex, Fits, After
    <3> QED BY <2>3, <3>4, <3>5 DEF nmea_reset_parser, Wait
  <2> QED BY <1>3, <2>1, <2>2, <2>3
<1>8. Len(<< >>) = 0 BY EmptySeq
<1> HIDE DEF Hex, Star, After
<1>9. qf = << >> \/ qf = a BY <1>7
<1>10. qf = a => Len(qf) = F + 1 /\ F + 1 <= top
  BY <1>1, <1>5, <1>7, <1>8
<1> HIDE DEF qf, qs
<1>11. Len(qf) < top + 1 BY <1>1, <1>5, <1>8, <1>9, <1>10
<1>12. F = 0 => qf = IF Val(sent, b) = NMEA_START THEN a ELSE << >> BY <1>7
<1>13. ASSUME NEW n \in 1 .. Len(sent), sent[n].kind = "nmea", F # 0, Runs(a, 1, n, F + 1)
       PROVE  /\ F + 1 < Size(sent, n) => qf = a
              /\ F + 1 = Size(sent, n) => qf = << >> /\ st = "NMEA_WAIT_CRC"
  <2>1. PICK k \in Nat \ {0} :
           /\ Size(sent, n) = k + 4 /\ k + 4 <= top
           /\ Val(sent, <<n, k + 2>>) = NMEA_STAR
           /\ Val(sent, <<n, k + 3>>) \in HexDigits /\ Val(sent, <<n, k + 4>>) \in HexDigits
           /\ \A i \in 2 .. k + 1 : Val(sent, <<n, i>>) # NMEA_STAR
    BY <1>13, NmeaSent DEF top
  <2>2. k \in Nat /\ k >= 1 BY <2>1
  <2> SUFFICES ASSUME F + 1 <= k + 4
               PROVE  /\ F + 1 < k + 4 => qf = a
                      /\ F + 1 = k + 4 => qf = << >> /\ st = "NMEA_WAIT_CRC"
    BY <1>1, <2>1, <2>2
  <2>3. \A i \in 1 .. F + 1 : a[i] = <<n, i>>
    <3>1. \A i \in 1 .. F + 1 : 1 + i - 1 = i BY <1>1
    <3> QED BY <1>13, <3>1 DEF Runs
  <2>4. \A i \in 1 .. F : f[i] = <<n, i>>
    <3>1. \A i \in 1 .. F : i \in 1 .. F + 1 BY <1>1
    <3> QED BY <1>1, <2>3, <3>1
  (* The star is in its place. *)
  <2>5. ASSUME NEW i \in 1 .. F, i >= 2, Val(sent, f[i]) = NMEA_STAR PROVE i >= k + 2
    <3>1. Val(sent, <<n, i>>) = NMEA_STAR BY <2>4, <2>5
    <3>2. i \notin 2 .. k + 1 BY <2>1, <3>1
    <3> QED BY <1>1, <2>2, <2>5, <3>2
  <2>6. ASSUME NEW i \in Nat, i <= F, NoStar(sent, f, i) PROVE i <= k + 1
    <3> SUFFICES ASSUME i > k + 1 PROVE FALSE BY <2>2
    <3>1. k + 2 \in 2 .. i /\ k + 2 \in 1 .. F BY <1>1, <2>2, <2>6
    <3>2. Val(sent, f[k + 2]) # NMEA_STAR BY <2>6, <3>1 DEF NoStar
    <3>3. f[k + 2] = <<n, k + 2>> BY <2>4, <3>1
    <3> QED BY <2>1, <3>2, <3>3
  <2>7. CASE st = "NMEA_WAIT_PAYLOAD"
    <3>1. NoStar(sent, f, F) /\ (Fits => qf = a) BY <1>7, <2>7
    <3>2. F <= k + 1 BY <1>1, <2>6, <3>1
    <3>3. Fits BY <1>1, <1>5, <2>1, <2>2, <3>2
    <3> HIDE DEF Fits
    <3> QED BY <1>1, <2>2, <3>1, <3>2, <3>3
  <2>8. CASE st = "NMEA_WAIT_CRC" /\ After
    <3>1. F >= 2 /\ NoStar(sent, f, F - 1) /\ (Hex /\ Fits => qf = a) BY <1>7, <2>8
    <3>2. F - 1 <= k + 1 BY <1>1, <2>6, <3>1
    <3>3. F >= k + 2
      <4>1. F \in 1 .. F BY <1>1, <3>1
      <4> QED BY <2>5, <2>8, <3>1, <4>1 DEF After
    <3>4. F = k + 2 BY <1>1, <2>2, <3>2, <3>3
    <3>5. Fits BY <1>5, <2>1, <2>2, <3>4
    <3>6. Hex
      <4>1. F + 1 \in 1 .. F + 1 /\ F + 1 = k + 3 BY <1>1, <2>2, <3>4
      <4>2. b = <<n, k + 3>> BY <1>1, <2>3, <4>1
      <4> QED BY <2>1, <4>2 DEF Hex
    <3> HIDE DEF Fits
    <3> QED BY <2>2, <3>1, <3>4, <3>5, <3>6
  <2>9. CASE st = "NMEA_WAIT_CRC" /\ ~After
    <3>1. /\ F >= 3 /\ NoStar(sent, f, F - 2) /\ Val(sent, f[F - 1]) = NMEA_STAR
          /\ qf = << >>
      BY <1>7, <2>9
    <3>2. F - 1 >= k + 2
      <4>1. F - 1 \in 1 .. F /\ F - 1 >= 2 BY <1>1, <3>1
      <4> QED BY <2>5, <3>1, <4>1
    <3> QED BY <1>1, <2>2, <2>9, <3>1, <3>2
  <2> QED BY <1>7, <1>13, <2>7, <2>8, <2>9
<1>14. Works(sent, "nmea", "NMEA_WAIT_CRC", NMEA_MSG_SIZE + 1, p, b, q)
  <2>1. Start("nmea") = NMEA_START BY DEF Start
  <2> QED BY <1>9, <1>11, <1>12, <1>13, <2>1 DEF Works, f, a, F, qf, top, st
<1>15. NmeaShape(sent, q)
  <2>1. ASSUME NEW l \in Int, l <= F, NoStar(sent, f, l) PROVE NoStar(sent, a, l)
    <3> SUFFICES ASSUME NEW i \in 2 .. l PROVE Val(sent, a[i]) # NMEA_STAR BY DEF NoStar
    <3>1. i \in 1 .. F BY <1>1, <2>1
    <3> QED BY <1>1, <2>1, <3>1 DEF NoStar
  <2>2. CASE Gone BY <1>8, <2>2 DEF NmeaShape, qf, qs
  <2>3. CASE qf = a /\ st = "NMEA_WAIT_PREAMBLE"
    <3>1. qs = "NMEA_WAIT_PAYLOAD" \/ Gone BY <1>7, <2>3
    <3>2. Len(qf) = 1 /\ 1 <= top BY <1>1, <1>5, <1>7, <2>3
    <3>3. NoStar(sent, qf, 1) BY DEF NoStar
    <3> HIDE DEF Gone
    <3> QED BY <2>2, <3>1, <3>2, <3>3 DEF NmeaShape, qf, qs, top
  <2>4. CASE qf = a /\ st = "NMEA_WAIT_PAYLOAD"
    <3>1. /\ F >= 1 /\ NoStar(sent, f, F)
          /\ \/ Gone
             \/ Star /\ qs = "NMEA_WAIT_CRC"
             \/ ~Star /\ qs = "NMEA_WAIT_PAYLOAD"
      BY <1>7, <2>4
    <3>2. Len(qf) = F + 1 /\ F + 1 <= top /\ F + 1 >= 2 /\ (F + 1) - 1 = F BY <1>1, <1>10, <2>4, <3>1
    <3>3. NoStar(sent, qf, F) /\ qf[F + 1] = b BY <1>1, <2>1, <2>4, <3>1
    <3>4. ~Star => NoStar(sent, qf, F + 1)
      <4> SUFFICES ASSUME ~Star, NEW i \in 2 .. F + 1 PROVE Val(sent, qf[i]) # NMEA_STAR
        BY DEF NoStar
      <4>1. CASE i = F + 1 BY <3>3, <4>1 DEF Star
      <4>2. CASE i \in 2 .. F BY <3>3, <4>2 DEF NoStar
      <4> QED BY <1>1, <4>1, <4>2
    <3>5. CASE Star /\ qs = "NMEA_WAIT_CRC"
      BY <3>2, <3>3, <3>5 DEF NmeaShape, Star, qf, qs, top
    <3>6. CASE ~Star /\ qs = "NMEA_WAIT_PAYLOAD"
      <4>1. F + 1 >= 1 BY <1>1
      <4> QED BY <3>2, <3>4, <3>6, <4>1 DEF NmeaShape, qf, qs, top
    <3> HIDE DEF Gone
    <3> QED BY <2>2, <3>1, <3>5, <3>6
  <2>5. CASE qf = a /\ st = "NMEA_WAIT_CRC" /\ ~Gone
    <3>1. /\ F >= 2 /\ NoStar(sent, f, F - 1) /\ After /\ Hex /\ qs = "NMEA_WAIT_CRC"
      BY <1>7, <2>5
    <3>2. /\ Len(qf) = F + 1 /\ F + 1 <= top /\ F + 1 >= 3
          /\ (F + 1) - 1 = F /\ (F + 1) - 2 = F - 1
      BY <1>1, <1>10, <2>5, <3>1
    <3>3. NoStar(sent, qf, F - 1) BY <1>1, <2>1, <2>5, <3>1
    <3>4. Val(sent, qf[F]) = NMEA_STAR BY <1>1, <1>6, <2>5, <3>1 DEF After
    <3>5. Val(sent, qf[F + 1]) # NMEA_STAR
      <4>1. NMEA_STAR \notin HexDigits BY DEF HexDigits, NMEA_STAR
      <4>2. qf[F + 1] = b BY <1>1, <2>5
      <4>3. Val(sent, b) \in HexDigits BY <3>1 DEF Hex
      <4> QED BY ONLY <4>1, <4>2, <4>3
    <3> QED BY <3>1, <3>2, <3>3, <3>4, <3>5 DEF NmeaShape, qf, qs, top
  <2> HIDE DEF Gone
  <2>6. Gone \/ qf = a BY <1>7 DEF Gone
  <2> QED BY <1>7, <2>2, <2>3, <2>4, <2>5, <2>6
<1> QED BY <1>14, <1>15 DEF q

-----------------------------------------------------------------------------
(* One machine: what it was given and what it has of it are in order.      *)
MachineInv(ms, n, q, kind, longest, p, s, g) ==
  /\ p.rx_frame \in Seq(Byte) /\ s \in Seq(Byte)
  /\ InOrder(ms, n, q, s, g)
  /\ FrameInv(ms, kind, Start(kind), longest, p.rx_frame, s, g)

UartInv ==
  /\ WireInv(sent, at)
  /\ fifo \in Seq(Byte) /\ Len(fifo) <= UART_FIFO_RX_SIZE
  /\ overruns \in Nat /\ switches \in Nat /\ on \in [nmea : BOOLEAN, ubx : BOOLEAN]
  /\ got = [p \in Kind |-> got[p]] /\ seen = [p \in Kind |-> seen[p]]
  /\ MachineInv(sent, at, fifo, "rtcm3", RTCM3_MAX_FRAME, rtcm3, seen["rtcm3"], got["rtcm3"])
  /\ MachineInv(sent, at, fifo, "nmea", NMEA_MSG_SIZE + 1, nmea, seen["nmea"], got["nmea"])
  /\ MachineInv(sent, at, fifo, "ubx", UBX_MAX_FRAME, ubx, seen["ubx"], got["ubx"])
  /\ Rtcm3Shape(sent, rtcm3) /\ NmeaShape(sent, nmea) /\ UbxShape(sent, ubx)

LEMMA Longest ==
  /\ RTCM3_MAX_FRAME \in Nat /\ RTCM3_MAX_FRAME > 0
  /\ UBX_MAX_FRAME \in Nat /\ UBX_MAX_FRAME > 0
  /\ NMEA_MSG_SIZE + 1 \in Nat /\ NMEA_MSG_SIZE + 1 > 0
BY SizesAssumption DEF RTCM3_MAX_FRAME, UBX_MAX_FRAME, RTCM3_HEADER_SIZE, RTCM3_CRC24_SIZE,
     UBX_HEADER_SIZE, UBX_CRC_SIZE

(* A frame in progress is made of bytes that were given.                   *)
LEMMA FrameGiven ==
  ASSUME NEW ms \in Seq(Messages), NEW n, NEW q, NEW kind, NEW longest, NEW p, NEW s, NEW g,
         MachineInv(ms, n, q, kind, longest, p, s, g)
  PROVE  /\ \A i \in 1 .. Len(s) : s[i] \in Byte /\ Valid(ms, n, s[i])
         /\ \A i \in 1 .. Len(p.rx_frame) :
              Valid(ms, n, p.rx_frame[i]) /\ Val(ms, p.rx_frame[i]) \in Nat
<1> DEFINE f == p.rx_frame  F == Len(f)  S == Len(s)
<1>1. f \in Seq(Byte) /\ s \in Seq(Byte) BY DEF MachineInv
<1>2. F \in Nat /\ S \in Nat BY <1>1, LenProperties
<1>3. \A i \in 1 .. S : s[i] \in Byte /\ Valid(ms, n, s[i])
  BY <1>1, ElementOfSeq DEF MachineInv, InOrder
<1>4. F <= S /\ \A i \in 1 .. F : f[i] = s[S - F + i] BY DEF MachineInv, FrameInv, Ends
<1> HIDE DEF F, S, f
<1>5. ASSUME NEW i \in 1 .. F PROVE Valid(ms, n, f[i]) /\ Val(ms, f[i]) \in Nat
  <2>1. S - F + i \in 1 .. S BY <1>2, <1>4
  <2>2. f[i] \in Byte /\ Valid(ms, n, f[i]) BY <1>3, <1>4, <2>1
  <2> QED BY <2>2, ValidByte
<1> QED BY <1>3, <1>5 DEF F, S, f

(* f reads the same.                                                       *)
Alike(ms, ms2, f) == \A i \in 1 .. Len(f) : Val(ms2, f[i]) = Val(ms, f[i])

LEMMA SameMachine ==
  ASSUME NEW ms, NEW n, NEW q, NEW kind, NEW longest \in Nat, NEW p, NEW s, NEW g,
         NEW m \in Messages,
         WireInv(ms, n), Len(ms) < MaxMessages, ms # << >> => n = Size(ms, Len(ms)),
         MachineInv(ms, n, q, kind, longest, p, s, g)
  PROVE  /\ MachineInv(Append(ms, m), 0, q, kind, longest, p, s, g)
         /\ Alike(ms, Append(ms, m), p.rx_frame)
<1> DEFINE f == p.rx_frame  ms2 == Append(ms, m)
<1>1. /\ ms \in Seq(Messages)
      /\ f \in Seq(Byte) /\ s \in Seq(Byte)
      /\ InOrder(ms, n, q, s, g)
      /\ FrameInv(ms, kind, Start(kind), longest, f, s, g)
  BY DEF WireInv, MachineInv
<1>2. /\ \A i \in 1 .. Len(s) : s[i][1] \in 1 .. Len(ms)
      /\ \A i \in 1 .. Len(f) : f[i][1] \in 1 .. Len(ms)
  BY <1>1, FrameGiven DEF Valid
<1>3. \A x : x[1] \in 1 .. Len(ms) =>
        /\ ms2[x[1]] = ms[x[1]] /\ Val(ms2, x) = Val(ms, x)
        /\ Size(ms2, x[1]) = Size(ms, x[1])
  BY <1>1, Unchanged
<1>4. InOrder(ms2, 0, q, s, g) BY <1>1, MessageBegins
<1>5. Len(s) \in Nat /\ Len(f) \in Nat BY <1>1, LenProperties
<1> HIDE DEF f, ms2
<1>6. ASSUME NEW k \in 1 .. Len(s)
      PROVE  /\ Own(ms2, kind, s[k]) <=> Own(ms, kind, s[k])
             /\ Val(ms2, s[k]) = Val(ms, s[k])
             /\ Size(ms2, s[k][1]) = Size(ms, s[k][1])
  BY <1>2, <1>3, Zenon DEF Own, Mine
<1>7. FrameInv(ms2, kind, Start(kind), longest, f, s, g) BY <1>1, <1>5, <1>6, SameFrame
<1>8. Alike(ms, ms2, f) BY <1>2, <1>3, Zenon DEF Alike
<1> QED BY <1>1, <1>4, <1>7, <1>8, Zenon DEF MachineInv, f, ms2

(* What is left of the frame in progress reads the same, and so the shapes *)
(* hold.                                                                   *)
LEMMA SameShape ==
  ASSUME NEW ms, NEW ms2, NEW p, Len(p.rx_frame) \in Nat, Alike(ms, ms2, p.rx_frame)
  PROVE  /\ Rtcm3Shape(ms, p) => Rtcm3Shape(ms2, p)
         /\ UbxShape(ms, p) => UbxShape(ms2, p)
         /\ NmeaShape(ms, p) => NmeaShape(ms2, p)
<1> DEFINE f == p.rx_frame  n == Len(f)
<1>1. n \in Nat /\ \A i \in 1 .. n : Val(ms2, f[i]) = Val(ms, f[i]) BY DEF Alike
<1> HIDE DEF n
<1>2. n >= 3 => Rtcm3Exp(ms2, f) = Rtcm3Exp(ms, f) BY <1>1 DEF Rtcm3Exp
<1>3. n >= 6 => UbxExp(ms2, f) = UbxExp(ms, f) BY <1>1 DEF UbxExp
<1>4. \A l \in Int : l <= n /\ NoStar(ms, f, l) => NoStar(ms2, f, l) BY <1>1 DEF NoStar
<1> HIDE DEF f
<1>5. Rtcm3Shape(ms, p) => Rtcm3Shape(ms2, p)
  BY <1>2, Zenon DEF Rtcm3Shape, f, n
<1>6. UbxShape(ms, p) => UbxShape(ms2, p)
  BY <1>3, Zenon DEF UbxShape, f, n
<1>7. NmeaShape(ms, p) => NmeaShape(ms2, p)
  <2>1. n \in Int /\ n - 1 \in Int /\ n - 2 \in Int /\ n <= n /\ n - 1 <= n /\ n - 2 <= n
    BY <1>1
  <2>2. n >= 2 => n \in 1 .. n BY <1>1
  <2>3. n >= 3 => n \in 1 .. n /\ n - 1 \in 1 .. n BY <1>1
  <2>4. NmeaShape(ms, p) <=>
          \/ p.rx_state = "NMEA_WAIT_PREAMBLE" /\ n = 0
          \/ p.rx_state = "NMEA_WAIT_PAYLOAD" /\ n >= 1 /\ n <= NMEA_MSG_SIZE /\ NoStar(ms, f, n)
          \/ /\ p.rx_state = "NMEA_WAIT_CRC" /\ n >= 2 /\ n <= NMEA_MSG_SIZE
             /\ NoStar(ms, f, n - 1) /\ Val(ms, f[n]) = NMEA_STAR
          \/ /\ p.rx_state = "NMEA_WAIT_CRC" /\ n >= 3 /\ n <= NMEA_MSG_SIZE
             /\ NoStar(ms, f, n - 2) /\ Val(ms, f[n - 1]) = NMEA_STAR /\ Val(ms, f[n]) # NMEA_STAR
    BY Zenon DEF NmeaShape, f, n
  <2>5. NmeaShape(ms2, p) <=>
          \/ p.rx_state = "NMEA_WAIT_PREAMBLE" /\ n = 0
          \/ p.rx_state = "NMEA_WAIT_PAYLOAD" /\ n >= 1 /\ n <= NMEA_MSG_SIZE /\ NoStar(ms2, f, n)
          \/ /\ p.rx_state = "NMEA_WAIT_CRC" /\ n >= 2 /\ n <= NMEA_MSG_SIZE
             /\ NoStar(ms2, f, n - 1) /\ Val(ms2, f[n]) = NMEA_STAR
          \/ /\ p.rx_state = "NMEA_WAIT_CRC" /\ n >= 3 /\ n <= NMEA_MSG_SIZE
             /\ NoStar(ms2, f, n - 2) /\ Val(ms2, f[n - 1]) = NMEA_STAR /\ Val(ms2, f[n]) # NMEA_STAR
    BY Zenon DEF NmeaShape, f, n
  <2> QED BY <1>1, <1>4, <2>1, <2>2, <2>3, <2>4, <2>5
<1> QED BY <1>5, <1>6, <1>7

-----------------------------------------------------------------------------
LEMMA EmptyMachine ==
  ASSUME NEW ms, NEW n, NEW kind, NEW longest \in Nat, longest > 0, NEW p, p.rx_frame = << >>
  PROVE  MachineInv(ms, n, << >>, kind, longest, p, << >>, {})
<1>1. << >> \in Seq(Byte) /\ Len(<< >>) = 0 BY EmptySeq
<1> DEFINE e == << >>
<1>2. e \in Seq(Byte) /\ Len(e) = 0 /\ 1 .. Len(e) = {} BY <1>1
<1> HIDE DEF e
<1>3. Ends(e, e) BY <1>2 DEF Ends
<1>4. FrameInv(ms, kind, Start(kind), longest, e, e, {}) BY <1>2, <1>3 DEF FrameInv
<1>5. InOrder(ms, n, e, e, {}) BY <1>2 DEF InOrder, Ascending
<1> QED BY <1>2, <1>4, <1>5, Zenon DEF MachineInv, e

LEMMA UartInit == Init => UartInv
<1> SUFFICES ASSUME Init PROVE UartInv OBVIOUS
<1>1. /\ sent = << >> /\ at = 0 /\ fifo = << >>
      /\ on = [nmea |-> TRUE, ubx |-> TRUE]
      /\ got = [p \in Kind |-> {}] /\ seen = [p \in Kind |-> << >>]
  BY DEF Init, Kind
<1>2. rtcm3.rx_frame = << >> /\ nmea.rx_frame = << >> /\ ubx.rx_frame = << >>
  BY DEF Init, rtcm3_reset_rx, nmea_reset_parser, ubx_reset_rx, Wait
<1>3. /\ rtcm3.rx_state = "WAIT_PREAMBLE" /\ nmea.rx_state = "NMEA_WAIT_PREAMBLE"
      /\ ubx.rx_state = "UBX_WAIT_SYC0"
  BY DEF Init, rtcm3_reset_rx, nmea_reset_parser, ubx_reset_rx, Wait
<1>4. overruns \in Nat /\ switches \in Nat
  <2>1. PICK b \in Budgets : overruns = b[1] /\ switches = b[2] BY DEF Init
  <2> QED BY <2>1, BudgetsAssumption
<1>5. "rtcm3" \in Kind /\ "nmea" \in Kind /\ "ubx" \in Kind BY DEF Kind
<1>6. Len(<< >>) = 0 BY EmptySeq
<1>7. /\ MaxMessages \in Nat /\ UART_FIFO_RX_SIZE \in Nat BY SizesAssumption
<1>8. WireInv(sent, at)
  <2>1. << >> \in Seq(Messages) /\ 0 <= MaxMessages BY <1>7, EmptySeq
  <2> QED BY <1>1, <1>6, <2>1, Zenon DEF WireInv
<1>9. fifo \in Seq(Byte) /\ Len(fifo) <= UART_FIFO_RX_SIZE
  <2>1. << >> \in Seq(Byte) /\ 0 <= UART_FIFO_RX_SIZE BY <1>7, EmptySeq
  <2> QED BY <1>1, <1>6, <2>1, Zenon
<1>10. /\ MachineInv(sent, at, fifo, "rtcm3", RTCM3_MAX_FRAME, rtcm3, seen["rtcm3"], got["rtcm3"])
       /\ MachineInv(sent, at, fifo, "nmea", NMEA_MSG_SIZE + 1, nmea, seen["nmea"], got["nmea"])
       /\ MachineInv(sent, at, fifo, "ubx", UBX_MAX_FRAME, ubx, seen["ubx"], got["ubx"])
  <2>1. \A k \in Kind : seen[k] = << >> /\ got[k] = {} BY <1>1
  <2> DEFINE top == NMEA_MSG_SIZE + 1
  <2>2. top \in Nat /\ top > 0 BY Longest
  <2> HIDE DEF top
  <2>3. MachineInv(sent, at, << >>, "nmea", top, nmea, << >>, {}) BY <1>2, <2>2, EmptyMachine
  <2>4. MachineInv(sent, at, << >>, "rtcm3", RTCM3_MAX_FRAME, rtcm3, << >>, {})
    BY <1>2, Longest, EmptyMachine
  <2>5. MachineInv(sent, at, << >>, "ubx", UBX_MAX_FRAME, ubx, << >>, {})
    BY <1>2, Longest, EmptyMachine
  <2> QED BY <1>1, <1>5, <2>1, <2>3, <2>4, <2>5, Zenon DEF top
<1>11. Rtcm3Shape(sent, rtcm3) /\ NmeaShape(sent, nmea) /\ UbxShape(sent, ubx)
  BY <1>2, <1>3, <1>6, Zenon DEF Rtcm3Shape, NmeaShape, UbxShape
<1>12. on \in [nmea : BOOLEAN, ubx : BOOLEAN] BY <1>1
<1>13. got = [p \in Kind |-> got[p]] /\ seen = [p \in Kind |-> seen[p]] BY <1>1
<1> QED BY <1>4, <1>8, <1>9, <1>10, <1>11, <1>12, <1>13 DEF UartInv

LEMMA UartMessage == UartInv /\ NextMessage => UartInv'
<1> SUFFICES ASSUME UartInv, NextMessage PROVE UartInv' OBVIOUS
<1>1. PICK m \in Messages : sent' = Append(sent, m) BY DEF NextMessage
<1>2. /\ Len(sent) < MaxMessages /\ at' = 0
      /\ sent # << >> => at = Size(sent, Len(sent))
      /\ UNCHANGED <<fifo, overruns, switches, on, rtcm3, nmea, ubx, got, seen>>
  BY DEF NextMessage, machines, FrameLen, Size
<1>3. WireInv(sent, at) BY DEF UartInv
<1>4. WireInv(sent', at')
  <2>1. MachineInv(sent, at, fifo, "ubx", UBX_MAX_FRAME, ubx, seen["ubx"], got["ubx"])
    BY DEF UartInv
  <2>2. InOrder(sent, at, fifo, seen["ubx"], got["ubx"]) BY <2>1 DEF MachineInv
  <2>3. WireInv(Append(sent, m), 0) BY <1>2, <1>3, <2>2, MessageBegins
  <2> QED BY <1>1, <1>2, <2>3
<1>5. ASSUME NEW kind, NEW longest \in Nat, NEW p, NEW s, NEW g,
             MachineInv(sent, at, fifo, kind, longest, p, s, g)
      PROVE  /\ MachineInv(sent', at', fifo, kind, longest, p, s, g)
             /\ Rtcm3Shape(sent, p) => Rtcm3Shape(sent', p)
             /\ UbxShape(sent, p) => UbxShape(sent', p)
             /\ NmeaShape(sent, p) => NmeaShape(sent', p)
  <2>1. /\ MachineInv(Append(sent, m), 0, fifo, kind, longest, p, s, g)
        /\ Alike(sent, Append(sent, m), p.rx_frame)
    BY <1>2, <1>3, <1>5, SameMachine
  <2>2. Len(p.rx_frame) \in Nat BY <1>5, LenProperties DEF MachineInv
  <2> QED BY <1>1, <1>2, <2>1, <2>2, SameShape
<1>6. /\ MachineInv(sent', at', fifo, "rtcm3", RTCM3_MAX_FRAME, rtcm3, seen["rtcm3"], got["rtcm3"])
      /\ Rtcm3Shape(sent', rtcm3)
  BY <1>5, Longest DEF UartInv
<1>7. /\ MachineInv(sent', at', fifo, "ubx", UBX_MAX_FRAME, ubx, seen["ubx"], got["ubx"])
      /\ UbxShape(sent', ubx)
  BY <1>5, Longest DEF UartInv
<1>8. /\ MachineInv(sent', at', fifo, "nmea", NMEA_MSG_SIZE + 1, nmea, seen["nmea"], got["nmea"])
      /\ NmeaShape(sent', nmea)
  <2> DEFINE top == NMEA_MSG_SIZE + 1
  <2>1. top \in Nat BY Longest
  <2>2. /\ MachineInv(sent, at, fifo, "nmea", top, nmea, seen["nmea"], got["nmea"])
        /\ NmeaShape(sent, nmea)
    BY DEF UartInv
  <2> HIDE DEF top
  <2>3. /\ MachineInv(sent', at', fifo, "nmea", top, nmea, seen["nmea"], got["nmea"])
        /\ NmeaShape(sent', nmea)
    BY <1>5, <2>1, <2>2
  <2> QED BY <2>3 DEF top
<1>9. /\ fifo \in Seq(Byte) /\ Len(fifo) <= UART_FIFO_RX_SIZE
      /\ overruns \in Nat /\ switches \in Nat /\ on \in [nmea : BOOLEAN, ubx : BOOLEAN]
      /\ got = [p \in Kind |-> got[p]] /\ seen = [p \in Kind |-> seen[p]]
  BY DEF UartInv
<1> QED BY <1>2, <1>4, <1>6, <1>7, <1>8, <1>9, Zenon DEF UartInv

LEMMA UartByte == UartInv /\ uart1ReadCallback => UartInv'
<1> SUFFICES ASSUME UartInv, uart1ReadCallback PROVE UartInv' OBVIOUS
<1> DEFINE b == <<Len(sent), at + 1>>
<1>1. /\ sent # << >> /\ at < Size(sent, Len(sent)) /\ at' = at + 1
      /\ \/ /\ Len(fifo) < UART_FIFO_RX_SIZE
            /\ fifo' = Append(fifo, b) /\ overruns' = overruns
         \/ /\ overruns > 0 /\ overruns' = overruns - 1 /\ fifo' = fifo
      /\ UNCHANGED <<sent, switches, on, rtcm3, nmea, ubx, got, seen>>
  BY DEF uart1ReadCallback, machines, FrameLen, Size
<1>2. /\ WireInv(sent, at) /\ fifo \in Seq(Byte) /\ Len(fifo) <= UART_FIFO_RX_SIZE
      /\ overruns \in Nat /\ switches \in Nat /\ on \in [nmea : BOOLEAN, ubx : BOOLEAN]
      /\ got = [p \in Kind |-> got[p]] /\ seen = [p \in Kind |-> seen[p]]
      /\ Rtcm3Shape(sent, rtcm3) /\ NmeaShape(sent, nmea) /\ UbxShape(sent, ubx)
  BY DEF UartInv
<1>3. ASSUME NEW kind, NEW longest, NEW p, NEW s, NEW g,
             MachineInv(sent, at, fifo, kind, longest, p, s, g)
      PROVE  /\ WireInv(sent, at + 1) /\ b \in Byte
             /\ MachineInv(sent, at + 1, fifo, kind, longest, p, s, g)
             /\ MachineInv(sent, at + 1, Append(fifo, b), kind, longest, p, s, g)
  <2>1. /\ p.rx_frame \in Seq(Byte) /\ s \in Seq(Byte) /\ InOrder(sent, at, fifo, s, g)
        /\ FrameInv(sent, kind, Start(kind), longest, p.rx_frame, s, g)
    BY <1>3 DEF MachineInv
  <2>2. /\ WireInv(sent, at + 1) /\ b \in Byte
        /\ InOrder(sent, at + 1, fifo, s, g) /\ InOrder(sent, at + 1, Append(fifo, b), s, g)
    BY <1>1, <1>2, <2>1, ByteComes
  <2> QED BY <2>1, <2>2 DEF MachineInv
<1>4. /\ MachineInv(sent, at, fifo, "rtcm3", RTCM3_MAX_FRAME, rtcm3, seen["rtcm3"], got["rtcm3"])
      /\ MachineInv(sent, at, fifo, "nmea", NMEA_MSG_SIZE + 1, nmea, seen["nmea"], got["nmea"])
      /\ MachineInv(sent, at, fifo, "ubx", UBX_MAX_FRAME, ubx, seen["ubx"], got["ubx"])
  BY DEF UartInv
<1>5. WireInv(sent', at') /\ b \in Byte BY <1>1, <1>3, <1>4
<1> HIDE DEF b
<1>6. fifo' \in Seq(Byte) /\ Len(fifo') <= UART_FIFO_RX_SIZE /\ overruns' \in Nat
  <2>1. Len(fifo) \in Nat /\ UART_FIFO_RX_SIZE \in Nat BY <1>2, SizesAssumption, LenProperties
  <2>2. Append(fifo, b) \in Seq(Byte) /\ Len(Append(fifo, b)) = Len(fifo) + 1
    BY <1>2, <1>5, AppendProperties
  <2> DEFINE F == Len(fifo)  F2 == Len(Append(fifo, b))
  <2>3. F \in Nat /\ F2 = F + 1 BY <2>1, <2>2
  <2>4. F < UART_FIFO_RX_SIZE => F2 <= UART_FIFO_RX_SIZE
    <3> HIDE DEF F, F2
    <3> QED BY <2>1, <2>3
  <2>5. overruns > 0 => overruns - 1 \in Nat BY <1>2
  <2> QED BY <1>1, <1>2, <2>2, <2>4, <2>5, Zenon
<1>7. /\ MachineInv(sent', at', fifo', "rtcm3", RTCM3_MAX_FRAME, rtcm3, seen["rtcm3"], got["rtcm3"])
      /\ MachineInv(sent', at', fifo', "nmea", NMEA_MSG_SIZE + 1, nmea, seen["nmea"], got["nmea"])
      /\ MachineInv(sent', at', fifo', "ubx", UBX_MAX_FRAME, ubx, seen["ubx"], got["ubx"])
  BY <1>1, <1>3, <1>4, Zenon
<1> QED BY <1>1, <1>2, <1>5, <1>6, <1>7, Zenon DEF UartInv

(* A byte is taken; a machine is given it, or its task is off.             *)
LEMMA MachineFed ==
  ASSUME NEW kind \in Kind, NEW wait, NEW longest \in Nat, NEW p, NEW q, NEW s, NEW g,
         WireInv(sent, at), fifo \in Seq(Byte), fifo # << >>,
         MachineInv(sent, at, fifo, kind, longest, p, s, g),
         Works(sent, kind, wait, longest, p, Head(fifo), q)
  PROVE  MachineInv(sent, at, Tail(fifo), kind, longest, q, Append(s, Head(fifo)),
                    IF Completes(kind, p, wait, Head(fifo)) THEN g \cup {Head(fifo)[1]} ELSE g)
<1> DEFINE b == Head(fifo)  g2 == IF Completes(kind, p, wait, b) THEN g \cup {b[1]} ELSE g
<1>1. /\ p.rx_frame \in Seq(Byte) /\ s \in Seq(Byte) /\ InOrder(sent, at, fifo, s, g)
      /\ FrameInv(sent, kind, Start(kind), longest, p.rx_frame, s, g)
  BY DEF MachineInv
<1>2. b \in Byte BY HeadTailProperties
<1>3. Append(s, b) \in Seq(Byte) BY <1>1, <1>2, AppendProperties
<1>4. NextByte(fifo, b) /\ g2 = IF Completes(kind, p, wait, b) THEN g \cup {b[1]} ELSE g BY DEF NextByte
<1>5. Moves(sent, kind, Start(kind), p.rx_state = wait, longest, p.rx_frame, b, q.rx_frame)
  BY DEF Works, Moves, Mine
<1> HIDE DEF b, g2
<1>6. Wire(sent, at) /\ Pairs(Byte) BY OnWire, BytePairs
<1>7. Begins(sent, kind, Start(kind)) BY OnWire
<1>8. g2 = Recognised(sent, kind, p.rx_state = wait, p.rx_frame, b, g)
  <2> DEFINE a == Append(p.rx_frame, b)
  <2>1. Size(sent, a[1][1]) \in Nat BY <1>1, <1>4, <1>6, FirstByte DEF FrameInv
  <2>2. a \in Seq(Byte) BY <1>1, <1>2, AppendProperties
  <2> HIDE DEF a
  <2>3. is_frame(kind, a) <=> Right(sent, kind, a) BY <2>1, <2>2, RightFrame
  <2> QED BY <1>4, <2>3, Zenon DEF Completes, Recognised, a
<1>9. /\ InOrder(sent, at, Tail(fifo), Append(s, b), g2)
      /\ FrameInv(sent, kind, Start(kind), longest, q.rx_frame, Append(s, b), g2)
      /\ q.rx_frame \in Seq(Byte)
  <2> DEFINE ready == p.rx_state = wait  start == Start(kind)  f == p.rx_frame  f2 == q.rx_frame
  <2>1. Moves(sent, kind, start, ready, longest, f, b, f2) BY <1>5
  <2>2. g2 = Recognised(sent, kind, ready, f, b, g) BY <1>8
  <2>3. Begins(sent, kind, start) BY <1>7
  <2>4. /\ f \in Seq(Byte) /\ s \in Seq(Byte) /\ InOrder(sent, at, fifo, s, g)
        /\ FrameInv(sent, kind, start, longest, f, s, g)
    BY <1>1
  <2> HIDE DEF ready, start, f, f2
  <2>5. /\ InOrder(sent, at, Tail(fifo), Append(s, b), g2)
        /\ FrameInv(sent, kind, start, longest, f2, Append(s, b), g2)
        /\ f2 \in Seq(Byte)
    BY ONLY <1>4, <1>6, <2>1, <2>2, <2>3, <2>4, FedStep, longest \in Nat,
            fifo \in Seq(Byte)
  <2> QED BY <2>5 DEF start, f2
<1> QED BY <1>3, <1>9 DEF MachineInv, b, g2

LEMMA MachineIdle ==
  ASSUME NEW kind, NEW longest, NEW p, NEW s, NEW g,
         WireInv(sent, at), fifo \in Seq(Byte), fifo # << >>,
         MachineInv(sent, at, fifo, kind, longest, p, s, g)
  PROVE  MachineInv(sent, at, Tail(fifo), kind, longest, p, s, g)
BY ByteTaken, OnWire, BytePairs DEF MachineInv

LEMMA MachineReads ==
  ASSUME NEW kind, NEW longest, NEW p, NEW s, NEW g,
         WireInv(sent, at), fifo \in Seq(Byte), fifo # << >>,
         MachineInv(sent, at, fifo, kind, longest, p, s, g)
  PROVE  Readable(sent, p.rx_frame, Head(fifo))
<1>1. sent \in Seq(Messages) BY DEF WireInv
<1>2. p.rx_frame \in Seq(Byte) /\ s \in Seq(Byte) /\ InOrder(sent, at, fifo, s, g) BY DEF MachineInv
<1>3. Head(fifo) \in Byte /\ Valid(sent, at, Head(fifo)) BY <1>2, ByteTaken, OnWire, BytePairs
<1>4. Val(sent, Head(fifo)) \in Nat BY <1>1, <1>3, ValidByte
<1>5. \A i \in 1 .. Len(p.rx_frame) : Val(sent, p.rx_frame[i]) \in Nat BY <1>1, FrameGiven
<1> QED BY <1>2, <1>3, <1>4, <1>5 DEF Readable

LEMMA UartTurn == UartInv /\ proc_uart1 => UartInv'
<1> SUFFICES ASSUME UartInv, proc_uart1 PROVE UartInv' OBVIOUS
<1> DEFINE b == Head(fifo)
<1>1. /\ WireInv(sent, at) /\ fifo \in Seq(Byte) /\ Len(fifo) <= UART_FIFO_RX_SIZE
      /\ overruns \in Nat /\ switches \in Nat /\ on \in [nmea : BOOLEAN, ubx : BOOLEAN]
      /\ MachineInv(sent, at, fifo, "rtcm3", RTCM3_MAX_FRAME, rtcm3, seen["rtcm3"], got["rtcm3"])
      /\ MachineInv(sent, at, fifo, "nmea", NMEA_MSG_SIZE + 1, nmea, seen["nmea"], got["nmea"])
      /\ MachineInv(sent, at, fifo, "ubx", UBX_MAX_FRAME, ubx, seen["ubx"], got["ubx"])
      /\ Rtcm3Shape(sent, rtcm3) /\ NmeaShape(sent, nmea) /\ UbxShape(sent, ubx)
  BY DEF UartInv
<1>2. DOMAIN got = Kind /\ DOMAIN seen = Kind
  <2>1. got = [k \in Kind |-> got[k]] /\ seen = [k \in Kind |-> seen[k]] BY DEF UartInv
  <2> QED BY <2>1, Zenon
<1>3. /\ fifo # << >> /\ fifo' = Tail(fifo)
      /\ UNCHANGED <<sent, at, overruns, switches, on>>
      /\ rtcm3' = rtcm3_proc_byte(rtcm3, b)
      /\ nmea' = IF on.nmea THEN nmea_proc_byte(nmea, b) ELSE nmea
      /\ ubx' = IF on.ubx THEN ubx_proc_byte(ubx, b) ELSE ubx
  BY DEF proc_uart1
<1> DEFINE r == Completes("rtcm3", rtcm3, "WAIT_CRC", b)
           n == Completes("nmea", nmea, "NMEA_WAIT_CRC", b)
           u == Completes("ubx", ubx, "UBX_WAIT_CRC", b)
           spots == [rtcm3 |-> r, nmea |-> n, ubx |-> u]
<1>4. /\ got' = [k \in Kind |-> IF Fed(k) /\ spots[k] THEN got[k] \cup {b[1]} ELSE got[k]]
      /\ seen' = [k \in Kind |-> IF Fed(k) THEN Append(seen[k], b) ELSE seen[k]]
  BY <1>2 DEF proc_uart1
<1> HIDE DEF b, r, n, u
<1>5. spots["rtcm3"] = r /\ spots["nmea"] = n /\ spots["ubx"] = u OBVIOUS
<1> HIDE DEF spots
<1>6. /\ Fed("rtcm3") /\ (Fed("nmea") <=> on.nmea) /\ (Fed("ubx") <=> on.ubx)
  <2>1. on["nmea"] = on.nmea /\ on["ubx"] = on.ubx OBVIOUS
  <2> QED BY <2>1 DEF Fed
<1>7. "rtcm3" \in Kind /\ "nmea" \in Kind /\ "ubx" \in Kind BY DEF Kind
<1>8. /\ got'["rtcm3"] = IF r THEN got["rtcm3"] \cup {b[1]} ELSE got["rtcm3"]
      /\ seen'["rtcm3"] = Append(seen["rtcm3"], b)
  BY <1>4, <1>5, <1>6, <1>7
<1>9. /\ got'["nmea"] = IF on.nmea /\ n THEN got["nmea"] \cup {b[1]} ELSE got["nmea"]
      /\ seen'["nmea"] = IF on.nmea THEN Append(seen["nmea"], b) ELSE seen["nmea"]
  BY <1>4, <1>5, <1>6, <1>7
<1>10. /\ got'["ubx"] = IF on.ubx /\ u THEN got["ubx"] \cup {b[1]} ELSE got["ubx"]
       /\ seen'["ubx"] = IF on.ubx THEN Append(seen["ubx"], b) ELSE seen["ubx"]
  BY <1>4, <1>5, <1>6, <1>7
<1>11. got' = [k \in Kind |-> got'[k]] /\ seen' = [k \in Kind |-> seen'[k]] BY <1>4
<1>12. sent \in Seq(Messages) BY <1>1 DEF WireInv
<1>13. fifo' \in Seq(Byte) /\ Len(fifo') <= UART_FIFO_RX_SIZE
  <2>1. Tail(fifo) \in Seq(Byte) /\ Len(Tail(fifo)) = Len(fifo) - 1
    BY <1>1, <1>3, HeadTailProperties
  <2> DEFINE F == Len(fifo)  T == Len(Tail(fifo))
  <2>2. F \in Nat /\ T = F - 1 /\ F <= UART_FIFO_RX_SIZE /\ UART_FIFO_RX_SIZE \in Nat
    BY <1>1, <2>1, LenProperties, SizesAssumption
  <2> HIDE DEF F, T
  <2>3. T <= UART_FIFO_RX_SIZE BY <2>2
  <2> QED BY <1>3, <2>1, <2>3, Zenon DEF T
<1>14. /\ MachineInv(sent, at, Tail(fifo), "rtcm3", RTCM3_MAX_FRAME, rtcm3',
                     seen'["rtcm3"], got'["rtcm3"])
       /\ Rtcm3Shape(sent, rtcm3')
  <2>1. Readable(sent, rtcm3.rx_frame, b) BY <1>1, <1>3, MachineReads DEF b
  <2>2. /\ Works(sent, "rtcm3", "WAIT_CRC", RTCM3_MAX_FRAME, rtcm3, b, rtcm3')
        /\ Rtcm3Shape(sent, rtcm3')
    BY <1>1, <1>3, <1>12, <2>1, Rtcm3Works
  <2>3. MachineInv(sent, at, Tail(fifo), "rtcm3", RTCM3_MAX_FRAME, rtcm3',
                   Append(seen["rtcm3"], b), IF r THEN got["rtcm3"] \cup {b[1]} ELSE got["rtcm3"])
    BY <1>1, <1>3, <1>7, <2>2, Longest, MachineFed DEF b, r
  <2> QED BY <1>8, <2>2, <2>3
<1>15. /\ MachineInv(sent, at, Tail(fifo), "nmea", NMEA_MSG_SIZE + 1, nmea',
                     seen'["nmea"], got'["nmea"])
       /\ NmeaShape(sent, nmea')
  <2> DEFINE top == NMEA_MSG_SIZE + 1
  <2>1. top \in Nat BY Longest
  <2>2. MachineInv(sent, at, fifo, "nmea", top, nmea, seen["nmea"], got["nmea"]) BY <1>1
  <2>3. ASSUME on.nmea
        PROVE  /\ MachineInv(sent, at, Tail(fifo), "nmea", top, nmea', seen'["nmea"], got'["nmea"])
               /\ NmeaShape(sent, nmea')
    <3>1. Readable(sent, nmea.rx_frame, b) BY <1>1, <1>3, <2>2, MachineReads DEF b
    <3>2. nmea' = nmea_proc_byte(nmea, b) BY <1>3, <2>3
    <3>3. /\ Works(sent, "nmea", "NMEA_WAIT_CRC", top, nmea, b, nmea')
          /\ NmeaShape(sent, nmea')
      BY <1>1, <1>12, <3>1, <3>2, NmeaWorks
    <3> HIDE DEF top
    <3>4. MachineInv(sent, at, Tail(fifo), "nmea", top, nmea',
                     Append(seen["nmea"], b), IF n THEN got["nmea"] \cup {b[1]} ELSE got["nmea"])
      BY <1>1, <1>3, <1>7, <2>1, <2>2, <3>3, MachineFed DEF b, n
    <3> QED BY <1>9, <2>3, <3>3, <3>4
  <2>4. ASSUME ~on.nmea
        PROVE  /\ MachineInv(sent, at, Tail(fifo), "nmea", top, nmea', seen'["nmea"], got'["nmea"])
               /\ NmeaShape(sent, nmea')
    <3>1. nmea' = nmea /\ seen'["nmea"] = seen["nmea"] /\ got'["nmea"] = got["nmea"]
      BY <1>3, <1>9, <2>4
    <3> HIDE DEF top
    <3>2. MachineInv(sent, at, Tail(fifo), "nmea", top, nmea, seen["nmea"], got["nmea"])
      BY <1>1, <1>3, <2>2, MachineIdle
    <3> QED BY <1>1, <3>1, <3>2
  <2> QED BY <2>3, <2>4
<1>16. /\ MachineInv(sent, at, Tail(fifo), "ubx", UBX_MAX_FRAME, ubx', seen'["ubx"], got'["ubx"])
       /\ UbxShape(sent, ubx')
  <2>1. ASSUME on.ubx
        PROVE  /\ MachineInv(sent, at, Tail(fifo), "ubx", UBX_MAX_FRAME, ubx',
                             seen'["ubx"], got'["ubx"])
               /\ UbxShape(sent, ubx')
    <3>1. Readable(sent, ubx.rx_frame, b) BY <1>1, <1>3, MachineReads DEF b
    <3>2. ubx' = ubx_proc_byte(ubx, b) BY <1>3, <2>1
    <3>3. /\ Works(sent, "ubx", "UBX_WAIT_CRC", UBX_MAX_FRAME, ubx, b, ubx')
          /\ UbxShape(sent, ubx')
      BY <1>1, <1>12, <3>1, <3>2, UbxWorks
    <3>4. MachineInv(sent, at, Tail(fifo), "ubx", UBX_MAX_FRAME, ubx',
                     Append(seen["ubx"], b), IF u THEN got["ubx"] \cup {b[1]} ELSE got["ubx"])
      BY <1>1, <1>3, <1>7, <3>3, Longest, MachineFed DEF b, u
    <3> QED BY <1>10, <2>1, <3>3, <3>4
  <2>2. ASSUME ~on.ubx
        PROVE  /\ MachineInv(sent, at, Tail(fifo), "ubx", UBX_MAX_FRAME, ubx',
                             seen'["ubx"], got'["ubx"])
               /\ UbxShape(sent, ubx')
    <3>1. ubx' = ubx /\ seen'["ubx"] = seen["ubx"] /\ got'["ubx"] = got["ubx"]
      BY <1>3, <1>10, <2>2
    <3>2. MachineInv(sent, at, Tail(fifo), "ubx", UBX_MAX_FRAME, ubx, seen["ubx"], got["ubx"])
      BY <1>1, <1>3, MachineIdle
    <3> QED BY <1>1, <3>1, <3>2
  <2> QED BY <2>1, <2>2
<1> QED BY <1>1, <1>3, <1>11, <1>13, <1>14, <1>15, <1>16 DEF UartInv

LEMMA UartSwitch == UartInv /\ SwitchTask => UartInv'
<1> SUFFICES ASSUME UartInv, SwitchTask PROVE UartInv' OBVIOUS
<1>1. /\ switches > 0 /\ switches' = switches - 1
      /\ UNCHANGED <<sent, at, fifo, overruns, rtcm3, nmea, ubx, got, seen>>
  BY DEF SwitchTask, machines
<1>2. switches \in Nat /\ on \in [nmea : BOOLEAN, ubx : BOOLEAN] BY DEF UartInv
<1>3. PICK p \in {"nmea", "ubx"} : on' = [on EXCEPT ![p] = ~@] BY DEF SwitchTask
<1>4. on' \in [nmea : BOOLEAN, ubx : BOOLEAN]
  <2>1. CASE p = "nmea"
    <3>1. on' = [on EXCEPT !.nmea = ~@] BY <1>3, <2>1
    <3> QED BY <1>2, <3>1
  <2>2. CASE p = "ubx"
    <3>1. on' = [on EXCEPT !.ubx = ~@] BY <1>3, <2>2
    <3> QED BY <1>2, <3>1
  <2> QED BY <2>1, <2>2
<1>5. switches' \in Nat BY <1>1, <1>2
<1> QED BY <1>1, <1>4, <1>5, Zenon DEF UartInv

LEMMA UartStep == UartInv /\ [Next]_vars => UartInv'
<1> SUFFICES ASSUME UartInv, [Next]_vars PROVE UartInv' OBVIOUS
<1>1. CASE NextMessage BY <1>1, UartMessage
<1>2. CASE uart1ReadCallback BY <1>2, UartByte
<1>3. CASE proc_uart1 BY <1>3, UartTurn
<1>4. CASE SwitchTask BY <1>4, UartSwitch
<1>5. CASE UNCHANGED vars
  <2>1. UNCHANGED <<sent, at, fifo, overruns, switches, on, rtcm3, nmea, ubx, got, seen>>
    BY <1>5 DEF vars, machines
  <2> QED BY <2>1, Zenon DEF UartInv
<1> QED BY <1>1, <1>2, <1>3, <1>4, <1>5 DEF Next

-----------------------------------------------------------------------------
(* A frame that is whole byte by byte is whole, first byte and all.        *)
LEMMA WholeIsWhole ==
  ASSUME sent \in Seq(Messages), NEW s \in Seq(Byte), NEW n,
         \A i \in 1 .. Len(s) : Valid(sent, n, s[i]), NEW k \in 1 .. Len(s)
  PROVE  WholeAt(s, k) <=> WholeFrom(sent, s, k)
<1> DEFINE m == s[k][1]  Z == Size(sent, m)  S == Len(s)  end == k + Z - 1
           w == [i \in 1 .. Z |-> <<m, i>>]  u == SubSeq(s, k, end)
<1>1. s[k] \in Byte BY ElementOfSeq
<1>2. Z \in Nat /\ Z >= 2 BY <1>1, ValidByte
<1>3. S \in Nat /\ k \in 1 .. S BY LenProperties
<1>4. WholeAt(s, k) <=> s[k][2] = 1 /\ end <= S /\ u = w
  BY Zenon DEF WholeAt, FrameLen, Size, Whole
<1>5. WholeFrom(sent, s, k) <=> end <= S /\ Runs(s, k, m, Z)
  BY Zenon DEF WholeFrom
<1>6. \A i \in 1 .. S : s[i] \in Byte BY ElementOfSeq
<1>7. Runs(s, k, m, Z) <=> \A i \in 1 .. Z : s[k + i - 1] = <<m, i>> BY DEF Runs
<1> HIDE DEF Z, S, m, w
<1>8. Runs(s, k, m, Z) => s[k][2] = 1
  <2>1. 1 \in 1 .. Z /\ k + 1 - 1 = k BY <1>2, <1>3
  <2>2. Runs(s, k, m, Z) => s[k] = <<m, 1>> BY <1>7, <2>1
  <2> QED BY <2>2
<1>9. ASSUME end <= S PROVE u = w <=> Runs(s, k, m, Z)
  <2>1. Z >= 1 /\ s \in Seq(Byte) /\ k \in 1 .. Len(s) BY <1>2
  <2>2. k + Z - 1 <= Len(s) BY <1>9 DEF S
  <2>3. Z \in Nat BY <1>2
  <2>4. SubSeq(s, k, k + Z - 1) = [i \in 1 .. Z |-> <<m, i>>] <=> Runs(s, k, m, Z)
    BY ONLY <2>1, <2>2, <2>3, PieceIsFrame
  <2> QED BY <2>4 DEF w
<1> QED BY <1>4, <1>5, <1>8, <1>9, Zenon

LEMMA FoundByInv ==
  ASSUME NEW kind, NEW start, start = Start(kind), NEW longest \in Nat, NEW p,
         WireInv(sent, at),
         MachineInv(sent, at, fifo, kind, longest, p, seen[kind], got[kind])
  PROVE  FoundUnlessMisled(kind, start, longest)
<1> DEFINE s == seen[kind]  g == got[kind]  own(k) == sent[s[k][1]].kind = kind
<1>1. /\ sent \in Seq(Messages) /\ s \in Seq(Byte)
      /\ InOrder(sent, at, fifo, s, g)
      /\ \A k \in 1 .. Len(s) :
           Own(sent, kind, s[k]) /\ WholeFrom(sent, s, k) =>
             s[k][1] \in g \/ Misled(sent, kind, start, longest, s, g, k)
  BY DEF WireInv, MachineInv, FrameInv
<1>2. \A i \in 1 .. Len(s) : Valid(sent, at, s[i]) BY <1>1 DEF InOrder
<1>3. \A k \in 1 .. Len(s) : WholeAt(s, k) <=> WholeFrom(sent, s, k)
  BY <1>1, <1>2, WholeIsWhole
<1>4. \A k : (own(k) <=> Own(sent, kind, s[k])) /\ Value(s[k]) = Val(sent, s[k])
  BY DEF Own, Mine, Value, Val
<1>5. Len(s) \in Nat BY <1>1, LenProperties
<1>6. FoundUnlessMisled(kind, start, longest) <=>
        \A k \in 1 .. Len(s) :
          own(k) /\ WholeAt(s, k) =>
            \/ s[k][1] \in g
            \/ \E j \in 1 .. k - 1 :
                 /\ k - j < longest /\ Value(s[j]) = start
                 /\ s[j][1] \notin g /\ ~(own(j) /\ WholeAt(s, j))
  BY Zenon DEF FoundUnlessMisled
<1> HIDE DEF s, g, own
<1>7. ASSUME NEW k \in 1 .. Len(s), own(k), WholeAt(s, k), s[k][1] \notin g
      PROVE  \E j \in 1 .. k - 1 :
               /\ k - j < longest /\ Value(s[j]) = start
               /\ s[j][1] \notin g /\ ~(own(j) /\ WholeAt(s, j))
  <2>1. Misled(sent, kind, start, longest, s, g, k) BY <1>1, <1>3, <1>4, <1>7
  <2>2. PICK j \in 1 .. k - 1 : k - j < longest /\ Stray(sent, kind, start, s, g, j)
    BY <2>1 DEF Misled
  <2>3. j \in 1 .. Len(s) BY <1>5, <2>2
  <2>4. /\ Value(s[j]) = start /\ s[j][1] \notin g /\ ~(own(j) /\ WholeAt(s, j))
    BY <1>3, <1>4, <2>2, <2>3, Zenon DEF Stray
  <2> QED BY <2>2, <2>4
<1> QED BY <1>6, <1>7, Zenon

LEMMA UartAlways == Spec => []UartInv
<1>1. UartInv /\ [Next]_vars => UartInv' BY UartStep
<1> QED BY UartInit, <1>1, PTL DEF Spec

(* Type correctness: RxFifo and the frame buffers of RTCM3 and NMEA never  *)
(* overflow, whatever comes (uart1ReadCallback, rtcm3_proc_byte,           *)
(* nmea_proc_byte).  Of the UBX machine it only says that it holds less    *)
(* than UBX_MAX_FRAME, a longest payload with its header and check, which  *)
(* is 8 bytes more than its rx_frame has (ubx_protocol.c:118).             *)
THEOREM TypesHold == Spec => []TypeOK
<1>1. UartInv => TypeOK
  <2> SUFFICES ASSUME UartInv PROVE TypeOK OBVIOUS
  <2>1. /\ WireInv(sent, at) /\ fifo \in Seq(Byte) /\ Len(fifo) <= UART_FIFO_RX_SIZE
        /\ overruns \in Nat /\ switches \in Nat /\ on \in [nmea : BOOLEAN, ubx : BOOLEAN]
        /\ got = [k \in Kind |-> got[k]] /\ seen = [k \in Kind |-> seen[k]]
        /\ MachineInv(sent, at, fifo, "rtcm3", RTCM3_MAX_FRAME, rtcm3, seen["rtcm3"], got["rtcm3"])
        /\ MachineInv(sent, at, fifo, "nmea", NMEA_MSG_SIZE + 1, nmea, seen["nmea"], got["nmea"])
        /\ MachineInv(sent, at, fifo, "ubx", UBX_MAX_FRAME, ubx, seen["ubx"], got["ubx"])
        /\ Rtcm3Shape(sent, rtcm3) /\ NmeaShape(sent, nmea) /\ UbxShape(sent, ubx)
    BY DEF UartInv
  <2>2. sent \in Seq(Messages) /\ Len(sent) <= MaxMessages /\ at \in Nat BY <2>1 DEF WireInv
  <2>3. ASSUME NEW kind, NEW longest, NEW p, NEW s, NEW g,
               MachineInv(sent, at, fifo, kind, longest, p, s, g)
        PROVE  /\ p.rx_frame \in Seq(Byte) /\ Len(p.rx_frame) < longest
               /\ s \in Seq(Byte) /\ g \in SUBSET (1 .. MaxMessages)
    <3>1. /\ p.rx_frame \in Seq(Byte) /\ Len(p.rx_frame) < longest /\ s \in Seq(Byte)
          /\ \A m \in g : m \in 1 .. Len(sent)
      BY <2>3 DEF MachineInv, FrameInv, InOrder
    <3>2. Len(sent) \in Nat /\ MaxMessages \in Nat BY <2>2, LenProperties, SizesAssumption
    <3>3. \A m \in 1 .. Len(sent) : m \in 1 .. MaxMessages BY <2>2, <3>2
    <3> QED BY <3>1, <3>3
  <2>4. rtcm3.rx_state \in {"WAIT_PREAMBLE", "WAIT_LEN", "WAIT_PAYLOAD", "WAIT_CRC"}
    BY <2>1, Zenon DEF Rtcm3Shape
  <2>5. nmea.rx_state \in {"NMEA_WAIT_PREAMBLE", "NMEA_WAIT_PAYLOAD", "NMEA_WAIT_CRC"}
    BY <2>1, Zenon DEF NmeaShape
  <2>6. ubx.rx_state \in {"UBX_WAIT_SYC0", "UBX_WAIT_SYC1", "UBX_WAIT_CLASS", "UBX_WAIT_ID",
                          "UBX_WAIT_LEN", "UBX_WAIT_PAYLOAD", "UBX_WAIT_CRC"}
    BY <2>1, Zenon DEF UbxShape
  <2>7. /\ rtcm3.rx_frame \in Seq(Byte) /\ Len(rtcm3.rx_frame) < RTCM3_MAX_FRAME
        /\ seen["rtcm3"] \in Seq(Byte) /\ got["rtcm3"] \in SUBSET (1 .. MaxMessages)
    BY <2>1, <2>3
  <2>8. /\ ubx.rx_frame \in Seq(Byte) /\ Len(ubx.rx_frame) < UBX_MAX_FRAME
        /\ seen["ubx"] \in Seq(Byte) /\ got["ubx"] \in SUBSET (1 .. MaxMessages)
    BY <2>1, <2>3
  <2>9. /\ nmea.rx_frame \in Seq(Byte) /\ Len(nmea.rx_frame) <= NMEA_MSG_SIZE
        /\ seen["nmea"] \in Seq(Byte) /\ got["nmea"] \in SUBSET (1 .. MaxMessages)
    <3> DEFINE top == NMEA_MSG_SIZE + 1  F == Len(nmea.rx_frame)
    <3>1. MachineInv(sent, at, fifo, "nmea", top, nmea, seen["nmea"], got["nmea"]) BY <2>1
    <3> HIDE DEF top
    <3>2. /\ nmea.rx_frame \in Seq(Byte) /\ Len(nmea.rx_frame) < top
          /\ seen["nmea"] \in Seq(Byte) /\ got["nmea"] \in SUBSET (1 .. MaxMessages)
      BY <2>3, <3>1
    <3>3. F \in Nat /\ F < top /\ NMEA_MSG_SIZE \in Nat
      BY <3>2, LenProperties, SizesAssumption
    <3> HIDE DEF F
    <3>4. F <= NMEA_MSG_SIZE BY <3>3 DEF top
    <3> QED BY <3>2, <3>4 DEF F
  <2>10. got \in [{"rtcm3", "nmea", "ubx"} -> SUBSET (1 .. MaxMessages)]
    BY <2>1, <2>7, <2>8, <2>9 DEF Kind
  <2>11. seen \in [{"rtcm3", "nmea", "ubx"} -> Seq(Byte)]
    <3> DEFINE S == Seq(Byte)
    <3>1. \A k \in Kind : seen[k] \in S BY <2>7, <2>8, <2>9 DEF Kind
    <3> HIDE DEF S
    <3>2. seen \in [Kind -> S] BY <2>1, <3>1
    <3> QED BY <3>2 DEF Kind, S
  <2> QED BY <2>1, <2>2, <2>4, <2>5, <2>6, <2>7, <2>8, <2>9, <2>10, <2>11, Zenon DEF TypeOK
<1> QED BY UartAlways, <1>1, PTL

(* A correction that arrives whole is recognised, and so forwarded, unless *)
(* a stray 0xD3 came less than a longest frame before it, for every list   *)
(* of messages, every length of the FIFO and every loss                    *)
(* (rtcm3_proc_wait_crc24, proc_uart1).                                    *)
THEOREM CorrectionsAreFound == Spec => []CorrectionFound
<1>1. UartInv => CorrectionFound
  <2> SUFFICES ASSUME UartInv PROVE CorrectionFound OBVIOUS
  <2>1. /\ WireInv(sent, at)
        /\ MachineInv(sent, at, fifo, "rtcm3", RTCM3_MAX_FRAME, rtcm3, seen["rtcm3"], got["rtcm3"])
    BY DEF UartInv
  <2>2. RTCM3_PREAMBLE = Start("rtcm3") BY DEF Start
  <2> QED BY <2>1, <2>2, Longest, FoundByInv DEF CorrectionFound
<1> QED BY UartAlways, <1>1, PTL

(* The same of UBX, whenever its task was off                              *)
(* (proc_ublox_wait_len, proc_ublox_wait_crc).                             *)
THEOREM UbxFramesAreFound == Spec => []UbxFrameFound
<1>1. UartInv => UbxFrameFound
  <2> SUFFICES ASSUME UartInv PROVE UbxFrameFound OBVIOUS
  <2>1. /\ WireInv(sent, at)
        /\ MachineInv(sent, at, fifo, "ubx", UBX_MAX_FRAME, ubx, seen["ubx"], got["ubx"])
    BY DEF UartInv
  <2>2. UBX_SYN_0 = Start("ubx") BY DEF Start
  <2> QED BY <2>1, <2>2, Longest, FoundByInv DEF UbxFrameFound
<1> QED BY UartAlways, <1>1, PTL

(* The same of NMEA (nmea_proc_wait_payload, nmea_proc_wait_crc).          *)
THEOREM SentencesAreFound == Spec => []SentenceFound
<1>1. UartInv => SentenceFound
  <2> SUFFICES ASSUME UartInv PROVE SentenceFound OBVIOUS
  <2> DEFINE top == NMEA_MSG_SIZE + 1
  <2>1. /\ WireInv(sent, at) /\ top \in Nat
        /\ MachineInv(sent, at, fifo, "nmea", top, nmea, seen["nmea"], got["nmea"])
    BY Longest DEF UartInv
  <2>2. NMEA_START = Start("nmea") BY DEF Start
  <2> HIDE DEF top
  <2>3. FoundUnlessMisled("nmea", NMEA_START, top) BY <2>1, <2>2, FoundByInv
  <2> QED BY <2>3 DEF SentenceFound, top
<1> QED BY UartAlways, <1>1, PTL
=============================================================================
