-------------------------- MODULE TbfpStreamProofs --------------------------
(***************************************************************************)
(* Whatever the tunnel loses, tears or restarts, tbfp_proc finds a frame   *)
(* that arrives whole unless a stray preamble misled it, and rx_frame is   *)
(* never overrun: FrameStream, for the machine of tbfp_protocol_parser.c   *)
(* and the bytes between lora_send_queue and tbfp_proc.                    *)
(***************************************************************************)
EXTENDS TbfpStream, SequenceTheorems, TLAPS

(* The stream of frames: ms are the payloads sent. *)
Size(ms, n) == Len(ms[n]) + TBFP_SIZE_OVERHEAD

Val(ms, b) ==
  LET n == b[1] IN
  CASE b[2] = 1 -> TBFP_PREAMBLE_DFLT
    [] b[2] = 2 -> 0
    [] b[2] = 3 -> n % 256
    [] b[2] = 4 -> n \div 256
    [] b[2] = 5 -> Len(ms[n]) % 256
    [] b[2] = 6 -> Len(ms[n]) \div 256
    [] b[2] \in TBFP_SIZE_HEADER + 1 .. Size(ms, n) - 1 -> ms[n][b[2] - TBFP_SIZE_HEADER]
    [] b[2] = Size(ms, n) -> CrcByte

Mine(ms, kind, n) == TRUE

INSTANCE FrameStream

-----------------------------------------------------------------------------
(* The frames that are sent. *)
LEMMA Numbers ==
  /\ TBFP_MAX_PAYLOAD \in Nat /\ MaxFrames \in Nat /\ Restarts \in Nat
  /\ TBFP_SIZE_OVERHEAD = 7 /\ TBFP_SIZE_HEADER = 6
  /\ TBFP_MAX_FRAME = TBFP_MAX_PAYLOAD + 7 /\ TBFP_MAX_FRAME \in Nat
  /\ CrcByte \in Nat
BY NumbersAssumption DEF TBFP_SIZE_OVERHEAD, TBFP_SIZE_HEADER, TBFP_MAX_FRAME

LEMMA PayloadShape ==
  ASSUME NEW m \in Payloads
  PROVE  /\ m \in Seq(Nat) /\ Len(m) \in Nat /\ Len(m) >= 1 /\ Len(m) < TBFP_MAX_PAYLOAD
<1> DEFINE B == 0 .. 255
<1>1. m \in Seq(B) /\ Len(m) \in 1 .. TBFP_MAX_PAYLOAD - 1 BY PayloadsAssumption
<1>2. B \subseteq Nat OBVIOUS
<1> HIDE DEF B
<1>3. m \in Seq(Nat) BY <1>1, <1>2, SeqMonotonic
<1> DEFINE L == Len(m)
<1>4. L \in 1 .. TBFP_MAX_PAYLOAD - 1 BY <1>1
<1> HIDE DEF L
<1>5. L \in Nat /\ L >= 1 /\ L < TBFP_MAX_PAYLOAD BY <1>4, Numbers
<1> QED BY <1>3, <1>5 DEF L

LEMMA Halves ==
  ASSUME NEW n \in Nat
  PROVE  /\ n % 256 \in Nat /\ n \div 256 \in Nat
         /\ (n % 256) + 256 * (n \div 256) = n
OBVIOUS

LEMMA SentFrame ==
  ASSUME NEW ms \in Seq(Payloads), NEW n \in 1 .. Len(ms)
  PROVE  /\ Len(ms[n]) \in Nat /\ Len(ms[n]) >= 1 /\ Len(ms[n]) < TBFP_MAX_PAYLOAD
         /\ Size(ms, n) = Len(ms[n]) + 7 /\ Size(ms, n) \in Nat /\ Size(ms, n) >= 2
         /\ Val(ms, <<n, 1>>) = TBFP_PREAMBLE_DFLT
         /\ \A i \in 1 .. Size(ms, n) : Val(ms, <<n, i>>) \in Nat
         /\ Val(ms, <<n, 5>>) + 256 * Val(ms, <<n, 6>>) = Len(ms[n])
<1> DEFINE m == ms[n]  L == Len(m)  Z == Size(ms, n)
<1>1. m \in Seq(Nat) /\ L \in Nat /\ L >= 1 /\ L < TBFP_MAX_PAYLOAD
  <2>1. m \in Payloads BY ElementOfSeq
  <2> QED BY <2>1, PayloadShape
<1>2. n \in Nat BY LenProperties
<1>3. Z = L + 7 BY Numbers DEF Size
<1>4. \A i \in 1 .. L : m[i] \in Nat BY <1>1, ElementOfSeq
<1>5. /\ Val(ms, <<n, 1>>) = TBFP_PREAMBLE_DFLT /\ Val(ms, <<n, 2>>) = 0
      /\ Val(ms, <<n, 3>>) = n % 256 /\ Val(ms, <<n, 4>>) = n \div 256
      /\ Val(ms, <<n, 5>>) = L % 256 /\ Val(ms, <<n, 6>>) = L \div 256
      /\ \A i \in 7 .. Z - 1 : Val(ms, <<n, i>>) = m[i - 6]
      /\ Val(ms, <<n, Z>>) = CrcByte
  <2>1. \A i : LET b == <<n, i>> IN b[1] = n /\ b[2] = i OBVIOUS
  <2>2. /\ Z \in Nat /\ Z >= 8
        /\ TBFP_SIZE_HEADER + 1 = 7 /\ TBFP_SIZE_HEADER = 6
    <3> HIDE DEF Z, L
    <3> QED BY <1>1, <1>3, Numbers
  <2>3. Len(ms[n]) = L /\ Size(ms, n) = Z /\ ms[n] = m OBVIOUS
  <2> HIDE DEF m, L, Z
  <2>4. ASSUME NEW b, NEW j, b[1] = n, b[2] = j
        PROVE  /\ j = 1 => Val(ms, b) = TBFP_PREAMBLE_DFLT
               /\ j = 2 => Val(ms, b) = 0
               /\ j = 3 => Val(ms, b) = n % 256
               /\ j = 4 => Val(ms, b) = n \div 256
               /\ j = 5 => Val(ms, b) = L % 256
               /\ j = 6 => Val(ms, b) = L \div 256
               /\ j \in 7 .. Z - 1 => Val(ms, b) = m[j - 6]
               /\ j = Z => Val(ms, b) = CrcByte
    <3>1. Val(ms, b) = CASE j = 1 -> TBFP_PREAMBLE_DFLT
                         [] j = 2 -> 0
                         [] j = 3 -> n % 256
                         [] j = 4 -> n \div 256
                         [] j = 5 -> L % 256
                         [] j = 6 -> L \div 256
                         [] j \in TBFP_SIZE_HEADER + 1 .. Z - 1 -> m[j - TBFP_SIZE_HEADER]
                         [] j = Z -> CrcByte
      BY <2>3, <2>4, Zenon DEF Val
    <3>2. j = 1 => Val(ms, b) = TBFP_PREAMBLE_DFLT BY <2>2, <3>1
    <3>3. j = 2 => Val(ms, b) = 0 BY <2>2, <3>1
    <3>4. j = 3 => Val(ms, b) = n % 256 BY <2>2, <3>1
    <3>5. j = 4 => Val(ms, b) = n \div 256 BY <2>2, <3>1
    <3>6. j = 5 => Val(ms, b) = L % 256 BY <2>2, <3>1
    <3>7. j = 6 => Val(ms, b) = L \div 256 BY <2>2, <3>1
    <3>8. j \in 7 .. Z - 1 => Val(ms, b) = m[j - 6] BY <2>2, <3>1
    <3>9. j = Z => Val(ms, b) = CrcByte BY <2>2, <3>1
    <3> QED BY <3>2, <3>3, <3>4, <3>5, <3>6, <3>7, <3>8, <3>9
  <2>5. ASSUME NEW i
        PROVE  /\ i = 1 => Val(ms, <<n, i>>) = TBFP_PREAMBLE_DFLT
               /\ i = 2 => Val(ms, <<n, i>>) = 0
               /\ i = 3 => Val(ms, <<n, i>>) = n % 256
               /\ i = 4 => Val(ms, <<n, i>>) = n \div 256
               /\ i = 5 => Val(ms, <<n, i>>) = L % 256
               /\ i = 6 => Val(ms, <<n, i>>) = L \div 256
               /\ i \in 7 .. Z - 1 => Val(ms, <<n, i>>) = m[i - 6]
               /\ i = Z => Val(ms, <<n, i>>) = CrcByte
    <3> DEFINE b == <<n, i>>
    <3>1. b[1] = n /\ b[2] = i OBVIOUS
    <3> HIDE DEF b
    <3> QED BY <2>4, <3>1 DEF b
  <2> QED BY <2>5
<1> HIDE DEF m, L, Z
<1>6. Z \in Nat /\ Z >= 2 BY <1>1, <1>3
<1>9. Val(ms, <<n, 5>>) + 256 * Val(ms, <<n, 6>>) = L BY <1>1, <1>5, Halves
<1>10. ASSUME NEW i \in 1 .. Z PROVE Val(ms, <<n, i>>) \in Nat
  <2>1. CASE i = Z BY <1>5, <2>1, Numbers
  <2>2. CASE i \in 7 .. Z - 1
    <3>1. i - 6 \in 1 .. L BY <1>1, <1>3, <2>2
    <3> QED BY <1>4, <1>5, <2>2, <3>1
  <2>3. CASE i \in 1 .. 6
    <3>1. /\ n % 256 \in Nat /\ n \div 256 \in Nat /\ L % 256 \in Nat /\ L \div 256 \in Nat
      BY <1>1, <1>2, Halves
    <3>2. i = 1 \/ i = 2 \/ i = 3 \/ i = 4 \/ i = 5 \/ i = 6 BY <2>3
    <3>3. TBFP_PREAMBLE_DFLT \in Nat /\ 0 \in Nat BY DEF TBFP_PREAMBLE_DFLT
    <3> DEFINE v(k) == Val(ms, <<n, k>>)
    <3>4. v(1) \in Nat /\ v(2) \in Nat /\ v(3) \in Nat /\ v(4) \in Nat /\ v(5) \in Nat /\ v(6) \in Nat
      BY <1>5, <3>1, <3>3
    <3> HIDE DEF v
    <3>5. v(i) \in Nat BY <3>2, <3>4
    <3> QED BY <3>5 DEF v
  <2> QED BY <1>6, <2>1, <2>2, <2>3
<1> QED BY <1>1, <1>3, <1>5, <1>6, <1>9, <1>10 DEF m, L, Z

LEMMA ValidByte ==
  ASSUME NEW ms \in Seq(Payloads), NEW n, NEW x \in Byte, Valid(ms, n, x)
  PROVE  Val(ms, x) \in Nat /\ x[1] \in 1 .. Len(ms)
<1>1. x = <<x[1], x[2]>> BY DEF Byte
<1>2. x[1] \in 1 .. Len(ms) /\ x[2] \in 1 .. Size(ms, x[1]) BY DEF Valid
<1>3. Val(ms, <<x[1], x[2]>>) \in Nat BY <1>2, SentFrame
<1> QED BY <1>1, <1>2, <1>3, Zenon

(* A frame is queued at once: how much of the last one is on its way is    *)
(* its whole length.                                                       *)
Last(ms) == IF ms = << >> THEN 0 ELSE Size(ms, Len(ms))

LEMMA OnWire ==
  ASSUME NEW ms \in Seq(Payloads)
  PROVE  Wire(ms, Last(ms)) /\ \A kind : Begins(ms, kind, TBFP_PREAMBLE_DFLT)
<1>1. \A m \in 1 .. Len(ms) : /\ Size(ms, m) \in Nat /\ Size(ms, m) >= 2
                             /\ Val(ms, <<m, 1>>) = TBFP_PREAMBLE_DFLT
  BY SentFrame
<1>2. ms # << >> => Len(ms) \in 1 .. Len(ms)
  <2> DEFINE L == Len(ms)
  <2>1. L \in Nat /\ (L = 0 => ms = << >>) BY LenProperties, EmptySeq
  <2> HIDE DEF L
  <2>2. ms # << >> => L \in 1 .. L BY <2>1
  <2> QED BY <2>2 DEF L
<1>3. Last(ms) \in Nat /\ (ms # << >> => Last(ms) <= Size(ms, Len(ms)))
  <2>1. CASE ms = << >> BY <2>1 DEF Last
  <2>2. CASE ms # << >>
    <3> DEFINE Z == Size(ms, Len(ms))
    <3>1. Z \in Nat /\ Last(ms) = Z BY <1>1, <1>2, <2>2, Zenon DEF Last
    <3> HIDE DEF Z
    <3>2. Last(ms) \in Nat /\ Last(ms) <= Z BY <3>1
    <3> QED BY <2>2, <3>2 DEF Z
  <2> QED BY <2>1, <2>2
<1> QED BY <1>1, <1>3, Zenon DEF Wire, Begins

LEMMA BytePairs == Pairs(Byte)
<1>1. MaxFrames \in Nat /\ TBFP_MAX_FRAME \in Nat BY Numbers
<1>2. 1 .. MaxFrames \subseteq Nat /\ 1 .. TBFP_MAX_FRAME \subseteq Nat \ {0} BY <1>1
<1> QED BY <1>2 DEF Pairs, Byte

LEMMA SameValue ==
  /\ \A b : Value(b) = Val(sent, b)
  /\ \A n : FrameLen(n) = Size(sent, n)
BY Zenon DEF Value, Val, FrameLen, Size

-----------------------------------------------------------------------------
(* The machine of tbfp_protocol_parser.c: how much of a frame it has in    *)
(* each of its states.                                                     *)
Exp(ms, f) == Val(ms, f[5]) + 256 * Val(ms, f[6])

Shape(ms, state, f) ==
  LET n == Len(f)  end == 6 + Exp(ms, f) IN
  \/ state = "WAIT_PREAMBLE" /\ n = 0
  \/ state = "WAIT_RETX_CNT" /\ n = 1
  \/ state = "WAIT_SERIAL_NUM" /\ n \in 2 .. 3
  \/ state = "WAIT_LEN" /\ n \in 4 .. 5
  \/ state = "WAIT_PAYLOAD" /\ n >= 6 /\ n < end /\ Exp(ms, f) <= TBFP_MAX_PAYLOAD
  \/ state = "WAIT_CRC" /\ n >= 6 /\ n = end /\ Exp(ms, f) <= TBFP_MAX_PAYLOAD

(* The frame in progress and the next byte, as the lemma has them.         *)
Readable(ms, f, b) ==
  /\ f \in Seq(Byte) /\ b \in Byte
  /\ \A i \in 1 .. Len(f) : Val(ms, f[i]) \in Nat
  /\ Val(ms, b) \in Nat

LEMMA ReadableParts ==
  ASSUME NEW ms, NEW f, NEW b, Readable(ms, f, b)
  PROVE  /\ Len(f) \in Nat /\ Len(Append(f, b)) = Len(f) + 1
         /\ Append(f, b)[Len(f) + 1] = b
         /\ \A i \in 1 .. Len(f) : Append(f, b)[i] = f[i]
         /\ \A i \in 1 .. Len(f) + 1 : Val(ms, Append(f, b)[i]) \in Nat
<1>1. Extends(f, b, Append(f, b)) BY ExtendsByAppend DEF Readable
<1> DEFINE a == Append(f, b)
<1> HIDE DEF a
<1>2. /\ Len(f) \in Nat /\ Len(a) = Len(f) + 1 /\ a[Len(f) + 1] = b
      /\ \A i \in 1 .. Len(f) : a[i] = f[i]
  BY <1>1 DEF Extends, a
<1>3. (\A i \in 1 .. Len(f) : Val(ms, f[i]) \in Nat) /\ Val(ms, b) \in Nat BY DEF Readable
<1>4. ASSUME NEW i \in 1 .. Len(f) + 1 PROVE Val(ms, a[i]) \in Nat
  <2>1. i = Len(f) + 1 \/ i \in 1 .. Len(f) BY <1>2
  <2> QED BY <1>2, <1>3, <2>1
<1> QED BY <1>2, <1>4 DEF a

(* What tbfp_proc_byte does, with the numbers written out: from state st,  *)
(* with the frame in progress become a, to q.                              *)
TurnsTo(st, a, e, q) ==
  /\ st = "WAIT_PREAMBLE" =>
       q = IF Val(sent, a[1]) = TBFP_PREAMBLE_DFLT
           THEN Wait("WAIT_RETX_CNT", a) ELSE Wait("WAIT_PREAMBLE", << >>)
  /\ st = "WAIT_RETX_CNT" => q = Wait("WAIT_SERIAL_NUM", a)
  /\ st = "WAIT_SERIAL_NUM" =>
       q = Wait(IF Len(a) = 3 THEN "WAIT_SERIAL_NUM" ELSE "WAIT_LEN", a)
  /\ st = "WAIT_LEN" =>
       q = IF Len(a) = 5 THEN Wait("WAIT_LEN", a)
           ELSE IF e > TBFP_MAX_PAYLOAD THEN Wait("WAIT_PREAMBLE", << >>)
           ELSE Wait(IF e = 0 THEN "WAIT_CRC" ELSE "WAIT_PAYLOAD", a)
  /\ st = "WAIT_PAYLOAD" =>
       q = Wait(IF Len(a) = 6 + e THEN "WAIT_CRC" ELSE "WAIT_PAYLOAD", a)
  /\ st = "WAIT_CRC" => q = Wait("WAIT_PREAMBLE", << >>)

LEMMA Turn ==
  ASSUME NEW p, NEW b, NEW a, a = Append(p.rx_frame, b), NEW st, st = p.rx_state,
         NEW e, e = Exp(sent, a), NEW q, q = tbfp_proc_byte(p, b)
  PROVE  TurnsTo(st, a, e, q)
<1>1. tbfp_parser_reset_rx = Wait("WAIT_PREAMBLE", << >>) BY DEF tbfp_parser_reset_rx, Wait
<1>2. exp_payload_len(a) = e
  <2>1. TBFP_INDEX_LEN + 1 = 5 /\ TBFP_INDEX_LEN + 2 = 6 BY DEF TBFP_INDEX_LEN
  <2>2. exp_payload_len(a) = Value(a[5]) + 256 * Value(a[6])
    BY <2>1, Zenon DEF exp_payload_len
  <2> QED BY <2>2, SameValue, Zenon DEF Exp
<1>3. TBFP_INDEX_SER_NUM + 1 = 3 /\ TBFP_INDEX_LEN + 1 = 5 /\ TBFP_SIZE_HEADER = 6
  BY DEF TBFP_INDEX_SER_NUM, TBFP_INDEX_LEN, TBFP_SIZE_HEADER
<1>4. q = CASE st = "WAIT_PREAMBLE"   -> tbfp_parser_proc_wait_preamble(a)
            [] st = "WAIT_RETX_CNT"   -> tbfp_parser_proc_retransmit_cnt(a)
            [] st = "WAIT_SERIAL_NUM" -> tbfp_parser_proc_wait_serial_num(a)
            [] st = "WAIT_LEN"        -> tbfp_parser_proc_wait_len(a)
            [] st = "WAIT_PAYLOAD"    -> tbfp_parser_proc_wait_payload(a)
            [] st = "WAIT_CRC"        -> tbfp_parser_proc_wait_crc8(a)
  BY Zenon DEF tbfp_proc_byte
<1> USE DEF TurnsTo, tbfp_parser_proc_wait_preamble, tbfp_parser_proc_retransmit_cnt,
            tbfp_parser_proc_wait_serial_num, tbfp_parser_proc_wait_len,
            tbfp_parser_proc_wait_payload, tbfp_parser_proc_wait_crc8
<1>5. CASE st = "WAIT_PREAMBLE" BY <1>1, <1>4, <1>5, SameValue
<1>6. CASE st = "WAIT_RETX_CNT" BY <1>4, <1>6
<1>7. CASE st = "WAIT_SERIAL_NUM" BY <1>3, <1>4, <1>7
<1>8. CASE st = "WAIT_LEN" BY <1>1, <1>2, <1>3, <1>4, <1>8
<1>9. CASE st = "WAIT_PAYLOAD" BY <1>2, <1>3, <1>4, <1>9
<1>10. CASE st = "WAIT_CRC" BY <1>1, <1>4, <1>10
<1> QED BY <1>5, <1>6, <1>7, <1>8, <1>9, <1>10

LEMMA TbfpWorks ==
  ASSUME sent \in Seq(Payloads), NEW p, NEW b, Readable(sent, p.rx_frame, b),
         Shape(sent, p.rx_state, p.rx_frame), NEW q, q = tbfp_proc_byte(p, b)
  PROVE  /\ Moves(sent, "tbfp", TBFP_PREAMBLE_DFLT, p.rx_state = "WAIT_CRC", TBFP_MAX_FRAME,
                  p.rx_frame, b, q.rx_frame)
         /\ Shape(sent, q.rx_state, q.rx_frame) /\ q.rx_state \in RxState
<1> DEFINE f == p.rx_frame  F == Len(f)  a == Append(f, b)  st == p.rx_state
           e == Exp(sent, a)  e0 == Exp(sent, f)  M == TBFP_MAX_PAYLOAD
           qf == q.rx_frame  sq == q.rx_state
<1>1. /\ F \in Nat /\ Len(a) = F + 1 /\ a[F + 1] = b /\ \A i \in 1 .. F : a[i] = f[i]
      /\ \A i \in 1 .. F + 1 : Val(sent, a[i]) \in Nat
  BY ReadableParts
<1>2. /\ M \in Nat /\ TBFP_MAX_FRAME = M + 7 BY Numbers
<1>3. Len(<< >>) = 0 BY EmptySeq
<1>4. \/ st = "WAIT_PREAMBLE" /\ F = 0
      \/ st = "WAIT_RETX_CNT" /\ F = 1
      \/ st = "WAIT_SERIAL_NUM" /\ F \in 2 .. 3
      \/ st = "WAIT_LEN" /\ F \in 4 .. 5
      \/ st = "WAIT_PAYLOAD" /\ F >= 6 /\ F < 6 + e0 /\ e0 <= M
      \/ st = "WAIT_CRC" /\ F >= 6 /\ F = 6 + e0 /\ e0 <= M
  BY Zenon DEF Shape
<1>5. TurnsTo(st, a, e, q)
  <2>1. st = p.rx_state /\ a = Append(p.rx_frame, b) /\ e = Exp(sent, a) OBVIOUS
  <2>2. q = tbfp_proc_byte(p, b) OBVIOUS
  <2> HIDE DEF st, a, e
  <2> QED BY ONLY <2>1, <2>2, Turn
<1>6. \A state, x : Wait(state, x).rx_state = state /\ Wait(state, x).rx_frame = x BY DEF Wait
<1>7. F >= 5 => e \in Nat
  <2>1. e = Val(sent, a[5]) + 256 * Val(sent, a[6]) BY DEF Exp
  <2> HIDE DEF e, F, a
  <2>2. SUFFICES ASSUME F >= 5 PROVE e \in Nat OBVIOUS
  <2>3. 5 \in 1 .. F + 1 /\ 6 \in 1 .. F + 1 BY <1>1, <2>2
  <2> DEFINE v5 == Val(sent, a[5])  v6 == Val(sent, a[6])
  <2>4. v5 \in Nat /\ v6 \in Nat /\ e = v5 + 256 * v6 BY <1>1, <2>1, <2>3
  <2> HIDE DEF v5, v6
  <2> QED BY <2>4
<1>8. F >= 6 => e = e0
  <2> HIDE DEF F, a
  <2>1. SUFFICES ASSUME F >= 6 PROVE e = e0 OBVIOUS
  <2>2. 5 \in 1 .. F /\ 6 \in 1 .. F BY <1>1, <2>1
  <2>3. a[5] = f[5] /\ a[6] = f[6] BY <1>1, <2>2
  <2> QED BY <2>3, Zenon DEF Exp
<1>9. ASSUME NEW m \in 1 .. Len(sent), Runs(a, 1, m, F + 1)
      PROVE  /\ Size(sent, m) \in Nat /\ Size(sent, m) >= 8
             /\ F >= 5 => e < M /\ Size(sent, m) = e + 7
  <2> DEFINE L == Len(sent[m])  Z == Size(sent, m)
  <2>1. /\ L \in Nat /\ L >= 1 /\ L < M /\ Z = L + 7
        /\ Val(sent, <<m, 5>>) + 256 * Val(sent, <<m, 6>>) = L
    BY SentFrame
  <2>2. ASSUME F >= 5 PROVE e = L
    <3> HIDE DEF F, a
    <3>1. 5 \in 1 .. F + 1 /\ 6 \in 1 .. F + 1 /\ 1 + 5 - 1 = 5 /\ 1 + 6 - 1 = 6 BY <1>1, <2>2
    <3>2. a[1 + 5 - 1] = <<m, 5>> /\ a[1 + 6 - 1] = <<m, 6>> BY <1>9, <3>1 DEF Runs
    <3>3. a[5] = <<m, 5>> /\ a[6] = <<m, 6>> BY <3>1, <3>2
    <3>4. e = Val(sent, a[5]) + 256 * Val(sent, a[6]) BY DEF Exp
    <3> HIDE DEF L, e
    <3> QED BY <2>1, <3>3, <3>4
  <2> HIDE DEF L, Z, e, F, M
  <2>3. Z \in Nat /\ Z >= 8 /\ (F >= 5 => e < M /\ Z = e + 7) BY <2>1, <2>2
  <2> QED BY <2>3 DEF Z
<1> HIDE DEF F, a, st, e, e0, M, qf, sq
<1>10. F = 0 => a[1] = b BY <1>1
(* What comes of each state. *)
<1>11. \/ /\ F = 0 /\ st = "WAIT_PREAMBLE" /\ Val(sent, b) = TBFP_PREAMBLE_DFLT
          /\ sq = "WAIT_RETX_CNT" /\ qf = a
       \/ /\ F = 0 /\ st = "WAIT_PREAMBLE" /\ Val(sent, b) # TBFP_PREAMBLE_DFLT
          /\ sq = "WAIT_PREAMBLE" /\ qf = << >>
       \/ F = 1 /\ sq = "WAIT_SERIAL_NUM" /\ qf = a
       \/ F = 2 /\ sq = "WAIT_SERIAL_NUM" /\ qf = a
       \/ F = 3 /\ sq = "WAIT_LEN" /\ qf = a
       \/ F = 4 /\ sq = "WAIT_LEN" /\ qf = a
       \/ F = 5 /\ e > M /\ sq = "WAIT_PREAMBLE" /\ qf = << >>
       \/ F = 5 /\ e = 0 /\ sq = "WAIT_CRC" /\ qf = a
       \/ F = 5 /\ e > 0 /\ e <= M /\ sq = "WAIT_PAYLOAD" /\ qf = a
       \/ F >= 6 /\ F + 1 < 6 + e /\ e <= M /\ sq = "WAIT_PAYLOAD" /\ qf = a
       \/ F >= 6 /\ F + 1 = 6 + e /\ e <= M /\ sq = "WAIT_CRC" /\ qf = a
       \/ F >= 6 /\ F = 6 + e /\ st = "WAIT_CRC" /\ sq = "WAIT_PREAMBLE" /\ qf = << >>
  <2>1. CASE st = "WAIT_PREAMBLE" /\ F = 0
    <3>1. q = IF Val(sent, b) = TBFP_PREAMBLE_DFLT
              THEN Wait("WAIT_RETX_CNT", a) ELSE Wait("WAIT_PREAMBLE", << >>)
      BY <1>5, <1>10, <2>1, Zenon DEF TurnsTo
    <3> QED BY <1>6, <2>1, <3>1 DEF sq, qf
  <2>2. CASE st = "WAIT_RETX_CNT" /\ F = 1 BY <1>5, <1>6, <2>2 DEF TurnsTo, sq, qf
  <2>3. CASE st = "WAIT_SERIAL_NUM" /\ F \in 2 .. 3
    <3>1. CASE F = 2
      <4>1. Len(a) = 3 BY <1>1, <3>1
      <4>2. q = Wait("WAIT_SERIAL_NUM", a) BY <1>5, <2>3, <4>1, Zenon DEF TurnsTo, M
      <4> QED BY <1>6, <3>1, <4>2 DEF sq, qf
    <3>2. CASE F = 3
      <4>1. Len(a) # 3 BY <1>1, <3>2
      <4>2. q = Wait("WAIT_LEN", a) BY <1>5, <2>3, <4>1, Zenon DEF TurnsTo, M
      <4> QED BY <1>6, <3>2, <4>2 DEF sq, qf
    <3> QED BY <1>1, <2>3, <3>1, <3>2
  <2>4. CASE st = "WAIT_LEN" /\ F \in 4 .. 5
    <3>1. CASE F = 4
      <4>1. Len(a) = 5 BY <1>1, <3>1
      <4>2. q = Wait("WAIT_LEN", a) BY <1>5, <2>4, <4>1, Zenon DEF TurnsTo, M
      <4> QED BY <1>6, <3>1, <4>2 DEF sq, qf
    <3>2. CASE F = 5
      <4>1. Len(a) # 5 /\ e \in Nat BY <1>1, <1>7, <3>2
      <4>2. q = IF e > M THEN Wait("WAIT_PREAMBLE", << >>)
                ELSE Wait(IF e = 0 THEN "WAIT_CRC" ELSE "WAIT_PAYLOAD", a)
        BY <1>5, <2>4, <4>1, Zenon DEF TurnsTo, M
      <4>3. CASE e > M
        <5>1. q = Wait("WAIT_PREAMBLE", << >>) BY <4>2, <4>3
        <5> QED BY <1>6, <3>2, <4>3, <5>1 DEF sq, qf
      <4>4. CASE ~(e > M) /\ e = 0
        <5>1. q = Wait("WAIT_CRC", a) BY <4>2, <4>4
        <5> QED BY <1>6, <3>2, <4>4, <5>1 DEF sq, qf
      <4>5. CASE ~(e > M) /\ e # 0
        <5>1. q = Wait("WAIT_PAYLOAD", a) BY <4>2, <4>5
        <5>2. e > 0 /\ e <= M BY <1>2, <4>1, <4>5
        <5> QED BY <1>6, <3>2, <5>1, <5>2 DEF sq, qf
      <4> QED BY <4>3, <4>4, <4>5
    <3> QED BY <1>1, <2>4, <3>1, <3>2
  <2>5. CASE st = "WAIT_PAYLOAD" /\ F >= 6 /\ F < 6 + e0 /\ e0 <= M
    <3>1. e \in Nat /\ e = e0 BY <1>1, <1>7, <1>8, <2>5
    <3>2. CASE F + 1 = 6 + e
      <4>1. Len(a) = 6 + e BY <1>1, <3>2
      <4>2. q = Wait("WAIT_CRC", a) BY <1>5, <2>5, <4>1, Zenon DEF TurnsTo, M
      <4> QED BY <1>6, <2>5, <3>1, <3>2, <4>2 DEF sq, qf
    <3>3. CASE F + 1 # 6 + e
      <4>1. Len(a) # 6 + e /\ F + 1 < 6 + e BY <1>1, <2>5, <3>1, <3>3
      <4>2. q = Wait("WAIT_PAYLOAD", a) BY <1>5, <2>5, <4>1, Zenon DEF TurnsTo, M
      <4> QED BY <1>6, <2>5, <3>1, <4>1, <4>2 DEF sq, qf
    <3> QED BY <3>2, <3>3
  <2>6. CASE st = "WAIT_CRC" /\ F >= 6 /\ F = 6 + e0 /\ e0 <= M
    <3>1. e = e0 BY <1>8, <2>6
    <3>2. q = Wait("WAIT_PREAMBLE", << >>) BY <1>5, <2>6, Zenon DEF TurnsTo
    <3> QED BY <1>6, <2>6, <3>1, <3>2 DEF sq, qf
  <2> QED BY <1>4, <2>1, <2>2, <2>3, <2>4, <2>5, <2>6, Zenon
<1>12. qf = << >> \/ qf = a BY <1>11
<1>13. Len(qf) < TBFP_MAX_FRAME
  <2>1. qf = << >> => Len(qf) = 0 BY <1>3
  <2>2. qf = a => Len(qf) = F + 1 BY <1>1
  <2>3. F >= 5 => e \in Nat BY <1>7
  <2> DEFINE Q == Len(qf)
  <2> HIDE DEF Q
  <2>4. /\ qf = << >> => Q = 0
        /\ qf = a => Q = F + 1
    BY <2>1, <2>2 DEF Q
  <2>5. F + 1 < M + 7 \/ qf = << >> BY <1>1, <1>2, <1>11, <2>3
  <2>6. Q < M + 7 BY <1>1, <1>2, <1>12, <2>4, <2>5
  <2> QED BY <1>2, <2>6 DEF Q
<1>14. F = 0 => qf = IF Val(sent, b) = TBFP_PREAMBLE_DFLT THEN a ELSE << >> BY <1>11
<1>15. ASSUME NEW m \in 1 .. Len(sent), F # 0, Runs(a, 1, m, F + 1)
       PROVE  /\ F + 1 < Size(sent, m) => qf = a
              /\ F + 1 = Size(sent, m) => qf = << >> /\ st = "WAIT_CRC"
  <2> DEFINE Z == Size(sent, m)
  <2>1. Z \in Nat /\ Z >= 8 /\ (F >= 5 => e < M /\ Z = e + 7) BY <1>9, <1>15 
  <2> HIDE DEF Z
  <2>2. (F + 1 < Z => qf = a) /\ (F + 1 = Z => qf = << >> /\ st = "WAIT_CRC")
    BY <1>1, <1>2, <1>7, <1>11, <1>15, <2>1
  <2> QED BY <2>2 DEF Z
<1>16. Moves(sent, "tbfp", TBFP_PREAMBLE_DFLT, st = "WAIT_CRC", TBFP_MAX_FRAME, f, b, qf)
  <2>1. Len(f) = F /\ Append(f, b) = a BY DEF F, a
  <2> HIDE DEF f
  <2> QED BY <1>12, <1>13, <1>14, <1>15, <2>1, Zenon DEF Moves, Mine
<1>17. Shape(sent, sq, qf) /\ sq \in RxState
  <2> DEFINE Q == Len(qf)  eq == Exp(sent, qf)
  <2>1. Shape(sent, sq, qf) <=>
          \/ sq = "WAIT_PREAMBLE" /\ Q = 0
          \/ sq = "WAIT_RETX_CNT" /\ Q = 1
          \/ sq = "WAIT_SERIAL_NUM" /\ Q \in 2 .. 3
          \/ sq = "WAIT_LEN" /\ Q \in 4 .. 5
          \/ sq = "WAIT_PAYLOAD" /\ Q >= 6 /\ Q < 6 + eq /\ eq <= M
          \/ sq = "WAIT_CRC" /\ Q >= 6 /\ Q = 6 + eq /\ eq <= M
    BY Zenon DEF Shape, M
  <2>2. qf = << >> => Q = 0 BY <1>3
  <2>3. qf = a => Q = F + 1 /\ eq = e BY <1>1 DEF e
  <2> HIDE DEF Q, eq
  <2>4. Shape(sent, sq, qf)
    BY <1>1, <1>2, <1>7, <1>11, <2>1, <2>2, <2>3
  <2> QED BY <1>11, <2>4 DEF RxState
<1> QED BY <1>16, <1>17 DEF st, sq, qf

-----------------------------------------------------------------------------
(* The bytes on their way, in one queue: what the receiver has still to    *)
(* read of its chunk, then the transmit FIFO.                              *)
LEMMA HeadOfConcat ==
  ASSUME NEW S, NEW c \in Seq(S), c # << >>, NEW f \in Seq(S)
  PROVE  /\ c \o f \in Seq(S) /\ c \o f # << >>
         /\ Head(c \o f) = Head(c) /\ Tail(c \o f) = Tail(c) \o f
<1> DEFINE q == c \o f  t == Tail(c)  r == Tail(q)  C == Len(c)  F == Len(f)
<1>1. C \in Nat /\ C # 0 /\ F \in Nat BY EmptySeq, LenProperties
<1>2. /\ q \in Seq(S) /\ Len(q) = C + F
      /\ \A i \in 1 .. C + F : q[i] = IF i <= C THEN c[i] ELSE f[i - C]
  BY ConcatProperties
<1>3. t \in Seq(S) /\ Len(t) = C - 1 /\ \A i \in 1 .. Len(t) : t[i] = c[i + 1]
  BY HeadTailProperties
<1>4. Len(<< >>) = 0 BY EmptySeq
<1> HIDE DEF q, C, F
<1>5. q # << >> BY <1>1, <1>2, <1>4
<1>6. r \in Seq(S) /\ Len(r) = C + F - 1 /\ \A i \in 1 .. Len(r) : r[i] = q[i + 1]
  <2>1. /\ r \in Seq(S) /\ Len(r) = Len(q) - 1
        /\ \A i \in 1 .. Len(r) : r[i] = q[i + 1]
    BY <1>2, <1>5, HeadTailProperties
  <2> HIDE DEF r
  <2>2. Len(r) = C + F - 1 BY <1>1, <1>2, <2>1
  <2> QED BY <2>1, <2>2
<1> HIDE DEF t, r
<1>7. /\ t \o f \in Seq(S) /\ Len(t \o f) = C - 1 + F
      /\ \A i \in 1 .. C - 1 + F : (t \o f)[i] = IF i <= C - 1 THEN t[i] ELSE f[i - (C - 1)]
  <2>1. /\ t \o f \in Seq(S) /\ Len(t \o f) = Len(t) + Len(f)
        /\ \A i \in 1 .. Len(t) + Len(f) :
             (t \o f)[i] = IF i <= Len(t) THEN t[i] ELSE f[i - Len(t)]
    BY <1>3, ConcatProperties
  <2> QED BY <1>3, <2>1, Zenon DEF F
<1>8. Head(q) = Head(c)
  <2>1. q[1] = c[1] BY <1>1, <1>2
  <2> QED BY <2>1
<1>9. r = t \o f
  <2> DEFINE u == t \o f
  <2>1. u \in Seq(S) /\ Len(r) = Len(u) BY <1>1, <1>6, <1>7
  <2>2. ASSUME NEW i \in 1 .. Len(r) PROVE r[i] = u[i]
    <3>1. i \in 1 .. C - 1 + F /\ i + 1 \in 1 .. C + F BY <1>1, <1>6, <2>2
    <3>2. r[i] = IF i + 1 <= C THEN c[i + 1] ELSE f[i + 1 - C]
      <4>1. r[i] = q[i + 1] BY <1>6, <2>2
      <4>2. i + 1 \in 1 .. C + F BY <3>1
      <4>3. q[i + 1] = IF i + 1 <= C THEN c[i + 1] ELSE f[i + 1 - C] BY <1>1, <1>2, <4>2
      <4> QED BY <4>1, <4>3
    <3>3. u[i] = IF i <= C - 1 THEN t[i] ELSE f[i - (C - 1)] BY <1>7, <3>1
    <3>4. CASE i <= C - 1
      <4>1. i + 1 <= C /\ i \in 1 .. Len(t) BY <1>1, <1>3, <3>1, <3>4
      <4> QED BY <1>3, <3>2, <3>3, <3>4, <4>1
    <3>5. CASE ~(i <= C - 1)
      <4>1. ~(i + 1 <= C) /\ i + 1 - C = i - (C - 1) BY <1>1, <3>1, <3>5
      <4> QED BY <3>2, <3>3, <3>5, <4>1
    <3> QED BY <3>4, <3>5
  <2> HIDE DEF u
  <2>3. r = u BY ONLY <1>6, <2>1, <2>2, SeqEqual
  <2> QED BY <2>3 DEF u
<1> QED BY <1>2, <1>5, <1>8, <1>9 DEF q, r, t

(* Of a queue only the end is left. *)
EndOf(q, d, q2) ==
  /\ d \in Nat /\ Len(q) \in Nat /\ d <= Len(q) /\ Len(q2) = Len(q) - d
  /\ \A i \in 1 .. Len(q) - d : q2[i] = q[d + i]

LEMMA LessInOrder ==
  ASSUME NEW ms, NEW n, NEW q, NEW q2, NEW d, NEW s, NEW g,
         InOrder(ms, n, q, s, g), EndOf(q, d, q2)
  PROVE  InOrder(ms, n, q2, s, g)
<1> DEFINE L == Len(q)  L2 == Len(q2)
<1>1. L \in Nat /\ d \in Nat /\ d <= L /\ L2 = L - d /\ \A i \in 1 .. L2 : q2[i] = q[d + i]
  BY DEF EndOf
<1>2. /\ \A i \in 1 .. Len(s) : Valid(ms, n, s[i])
      /\ \A i \in 1 .. L : Valid(ms, n, q[i])
      /\ Ascending(s)
      /\ \A i, j \in 1 .. L : i < j => Before(q[i], q[j])
      /\ \A i \in 1 .. Len(s), j \in 1 .. L : Before(s[i], q[j])
      /\ \A m \in g : /\ m \in 1 .. Len(ms) /\ (m = Len(ms) => n = Size(ms, m))
                      /\ \A i \in 1 .. L : q[i][1] # m
  BY DEF InOrder, Ascending
<1> HIDE DEF L, L2
<1>3. ASSUME NEW i \in 1 .. L2 PROVE d + i \in 1 .. L /\ q2[i] = q[d + i]
  BY <1>1
<1>4. \A i, j \in 1 .. L2 : i < j => Before(q2[i], q2[j])
  <2> SUFFICES ASSUME NEW i \in 1 .. L2, NEW j \in 1 .. L2, i < j PROVE Before(q2[i], q2[j])
    OBVIOUS
  <2>1. d + i < d + j BY <1>1
  <2> QED BY <1>2, <1>3, <2>1
<1>5. \A i \in 1 .. L2 : Valid(ms, n, q2[i]) BY <1>2, <1>3
<1>6. \A i \in 1 .. Len(s), j \in 1 .. L2 : Before(s[i], q2[j]) BY <1>2, <1>3
<1>7. \A m \in g : \A i \in 1 .. L2 : q2[i][1] # m BY <1>2, <1>3
<1> QED BY <1>2, <1>4, <1>5, <1>6, <1>7 DEF InOrder, Ascending, L2

(* A receiver that starts again was given nothing. *)
LEMMA ForgetsInOrder ==
  ASSUME NEW ms, NEW n, NEW q, NEW s, NEW g, InOrder(ms, n, q, s, g)
  PROVE  InOrder(ms, n, q, << >>, g)
<1>1. Len(<< >>) = 0 /\ 1 .. 0 = {} BY EmptySeq
<1> QED BY <1>1 DEF InOrder, Ascending

(* A frame is sent: nothing that is on its way changes, and what the FIFO  *)
(* takes of it is behind it.                                               *)
LEMMA Unchanged ==
  ASSUME NEW ms \in Seq(Payloads), NEW m \in Payloads
  PROVE  LET ms2 == Append(ms, m) IN
         /\ ms2 \in Seq(Payloads) /\ Len(ms) \in Nat /\ Len(ms2) = Len(ms) + 1
         /\ Last(ms2) = Len(m) + 7 /\ Size(ms2, Len(ms) + 1) = Len(m) + 7
         /\ \A k \in 1 .. Len(ms) : Size(ms2, k) = Size(ms, k)
         /\ \A x : x[1] \in 1 .. Len(ms) => Val(ms2, x) = Val(ms, x)
<1> DEFINE ms2 == Append(ms, m)
<1>1. /\ ms2 \in Seq(Payloads) /\ ms2 # << >> /\ Len(ms) \in Nat /\ Len(ms2) = Len(ms) + 1
      /\ \A i \in 1 .. Len(ms) : ms2[i] = ms[i]
      /\ ms2[Len(ms) + 1] = m
  BY AppendProperties, LenProperties
<1> HIDE DEF ms2
<1>2. Size(ms2, Len(ms) + 1) = Len(m) + 7 BY <1>1, Numbers DEF Size
<1>3. Last(ms2) = Len(m) + 7 BY <1>1, <1>2 DEF Last
<1>4. \A k \in 1 .. Len(ms) : Size(ms2, k) = Size(ms, k) BY <1>1, Zenon DEF Size
<1>5. ASSUME NEW x, x[1] \in 1 .. Len(ms) PROVE Val(ms2, x) = Val(ms, x)
  <2>1. ms2[x[1]] = ms[x[1]] BY <1>1, <1>5
  <2> QED BY <2>1, Zenon DEF Val, Size
<1> QED BY <1>1, <1>2, <1>3, <1>4, <1>5 DEF ms2

Grows(q, t, l, q2) ==
  /\ t \in Nat /\ Len(q) \in Nat /\ Len(q2) = Len(q) + t
  /\ \A i \in 1 .. Len(q) : q2[i] = q[i]
  /\ \A i \in 1 .. t : q2[Len(q) + i] = <<l, i>>

LEMMA MoreInOrder ==
  ASSUME NEW ms \in Seq(Payloads), NEW m \in Payloads, NEW q, NEW q2, NEW t, NEW s, NEW g,
         InOrder(ms, Last(ms), q, s, g), t <= Len(m) + 7,
         Grows(q, t, Len(ms) + 1, q2),
         \A i \in 1 .. Len(s) : s[i] \in Byte, \A i \in 1 .. Len(q) : q[i] \in Byte
  PROVE  InOrder(Append(ms, m), Last(Append(ms, m)), q2, s, g)
<1> DEFINE ms2 == Append(ms, m)  L == Len(ms)  Q == Len(q)  Q2 == Len(q2)  Z == Len(m) + 7
           n == Last(ms)
<1>1. /\ L \in Nat /\ Len(ms2) = L + 1 /\ Last(ms2) = Z /\ Size(ms2, L + 1) = Z
      /\ \A k \in 1 .. L : Size(ms2, k) = Size(ms, k)
  BY Unchanged
<1>2. /\ t \in Nat /\ Q \in Nat /\ Q2 = Q + t /\ t <= Z
      /\ \A i \in 1 .. Q : q2[i] = q[i]
      /\ \A i \in 1 .. t : q2[Q + i] = <<L + 1, i>>
  BY DEF Grows
<1>3. Z \in Nat
  <2>1. Len(m) \in Nat BY PayloadShape
  <2> QED BY <2>1
<1>4. /\ \A i \in 1 .. Len(s) : Valid(ms, n, s[i])
      /\ \A i \in 1 .. Q : Valid(ms, n, q[i])
      /\ Ascending(s)
      /\ \A i, j \in 1 .. Q : i < j => Before(q[i], q[j])
      /\ \A i \in 1 .. Len(s), j \in 1 .. Q : Before(s[i], q[j])
      /\ \A k \in g : k \in 1 .. L /\ \A i \in 1 .. Q : q[i][1] # k
  BY DEF InOrder, Ascending
<1> HIDE DEF ms2, L, Q, Q2, Z, n
<1>5. ASSUME NEW x, x \in Byte, Valid(ms, n, x)
      PROVE  Valid(ms2, Z, x) /\ \A i : Before(x, <<L + 1, i>>)
  <2>1. x[1] \in 1 .. L /\ x[2] \in 1 .. Size(ms, x[1]) BY <1>5 DEF Valid, L
  <2>2. x[1] \in 1 .. L + 1 /\ x[1] # L + 1 /\ x[1] < L + 1 BY <1>1, <2>1
  <2>3. \A i : <<L + 1, i>>[1] = L + 1 OBVIOUS
  <2> QED BY <1>1, <2>1, <2>2, <2>3, Zenon DEF Valid, Before
<1>6. ASSUME NEW i \in 1 .. Q2
      PROVE  \/ i \in 1 .. Q /\ q2[i] = q[i]
             \/ \E j \in 1 .. t : i = Q + j /\ q2[i] = <<L + 1, j>>
  <2>1. CASE i \in 1 .. Q BY <1>2, <2>1
  <2>2. CASE i \notin 1 .. Q
    <3>1. i - Q \in 1 .. t /\ i = Q + (i - Q) BY <1>2, <2>2
    <3> QED BY <1>2, <3>1
  <2> QED BY <2>1, <2>2
<1>7. ASSUME NEW j \in 1 .. t PROVE Valid(ms2, Z, <<L + 1, j>>)
  <2>1. L + 1 \in 1 .. L + 1 /\ j \in 1 .. Z /\ j <= Z BY <1>1, <1>2, <1>3
  <2> QED BY <1>1, <2>1 DEF Valid
<1>8. \A i \in 1 .. Len(s) : Valid(ms2, Z, s[i]) BY <1>4, <1>5
<1>9. \A i \in 1 .. Q2 : Valid(ms2, Z, q2[i]) BY <1>4, <1>5, <1>6, <1>7 DEF Q
<1>10. ASSUME NEW i \in 1 .. Q2, NEW j \in 1 .. Q2, i < j PROVE Before(q2[i], q2[j])
  <2>1. CASE j \in 1 .. Q
    <3>1. i \in 1 .. Q BY <1>2, <1>10, <2>1
    <3> QED BY <1>2, <1>4, <1>10, <2>1, <3>1
  <2>2. CASE j \notin 1 .. Q
    <3>1. PICK k \in 1 .. t : j = Q + k /\ q2[j] = <<L + 1, k>> BY <1>6, <2>2
    <3>2. CASE i \in 1 .. Q BY <1>2, <1>4, <1>5, <3>1, <3>2 DEF Q
    <3>3. CASE i \notin 1 .. Q
      <4>1. PICK l \in 1 .. t : i = Q + l /\ q2[i] = <<L + 1, l>> BY <1>6, <3>3
      <4>2. l < k BY <1>2, <1>10, <3>1, <4>1
      <4> QED BY <3>1, <4>1, <4>2 DEF Before
    <3> QED BY <3>2, <3>3
  <2> QED BY <2>1, <2>2
<1>11. ASSUME NEW i \in 1 .. Len(s), NEW j \in 1 .. Q2 PROVE Before(s[i], q2[j])
  <2>1. s[i] \in Byte /\ Valid(ms, n, s[i]) BY <1>4
  <2>2. CASE j \in 1 .. Q /\ q2[j] = q[j] BY <1>4, <2>2
  <2>3. CASE \E k \in 1 .. t : j = Q + k /\ q2[j] = <<L + 1, k>> BY <1>5, <2>1, <2>3
  <2> QED BY <1>6, <2>2, <2>3
<1>12. ASSUME NEW k \in g
       PROVE  /\ k \in 1 .. L + 1 /\ (k = L + 1 => Z = Size(ms2, k))
              /\ \A i \in 1 .. Q2 : q2[i][1] # k
  <2>1. k \in 1 .. L /\ k \in 1 .. L + 1 /\ k # L + 1 BY <1>1, <1>4
  <2>2. \A j : <<L + 1, j>>[1] # k BY <2>1
  <2> QED BY <1>4, <1>6, <2>1, <2>2
<1> QED BY <1>1, <1>4, <1>8, <1>9, <1>10, <1>11, <1>12 DEF InOrder, Ascending, ms2, Q2

-----------------------------------------------------------------------------
(* The inductive invariant: the bytes on their way are in order, and the   *)
(* frame in progress is as FrameStream wants it and fits its state.        *)
StreamInv ==
  /\ sent \in Seq(Payloads) /\ Len(sent) <= MaxFrames
  /\ fifo \in Seq(Byte) /\ Len(fifo) <= LORA_TX_BUFF_SIZE
  /\ flush \in BOOLEAN /\ chunk \in Seq(Byte) /\ seen \in Seq(Byte) /\ restarts \in Nat
  /\ parser.rx_state \in RxState /\ parser.rx_frame \in Seq(Byte)
  /\ Shape(sent, parser.rx_state, parser.rx_frame)
  /\ InOrder(sent, Last(sent), chunk \o fifo, seen, got)
  /\ FrameInv(sent, "tbfp", TBFP_PREAMBLE_DFLT, TBFP_MAX_FRAME, parser.rx_frame, seen, got)

(* A machine that was given nothing. *)
LEMMA Reset ==
  ASSUME NEW ms, NEW g, NEW p, p = tbfp_parser_reset_rx
  PROVE  /\ p.rx_state \in RxState /\ p.rx_frame \in Seq(Byte)
         /\ Shape(ms, p.rx_state, p.rx_frame)
         /\ FrameInv(ms, "tbfp", TBFP_PREAMBLE_DFLT, TBFP_MAX_FRAME, p.rx_frame, << >>, g)
<1> DEFINE e == << >>
<1>1. p.rx_state = "WAIT_PREAMBLE" /\ p.rx_frame = e BY DEF tbfp_parser_reset_rx
<1>2. e \in Seq(Byte) /\ Len(e) = 0 /\ 1 .. Len(e) = {}
  <2>1. << >> \in Seq(Byte) /\ Len(<< >>) = 0 BY EmptySeq
  <2> QED BY <2>1
<1> HIDE DEF e
<1>3. TBFP_MAX_FRAME > 0 BY Numbers
<1>4. Ends(e, e) BY <1>2 DEF Ends
<1>5. FrameInv(ms, "tbfp", TBFP_PREAMBLE_DFLT, TBFP_MAX_FRAME, e, e, g)
  BY <1>2, <1>3, <1>4 DEF FrameInv
<1>6. Shape(ms, "WAIT_PREAMBLE", e) BY <1>2, Zenon DEF Shape
<1> QED BY <1>1, <1>2, <1>5, <1>6 DEF RxState, e

LEMMA StreamInit == Init => StreamInv
<1> SUFFICES ASSUME Init PROVE StreamInv OBVIOUS
<1>1. /\ sent = << >> /\ fifo = << >> /\ flush = FALSE /\ chunk = << >>
      /\ parser = tbfp_parser_reset_rx /\ got = {} /\ seen = << >> /\ restarts = Restarts
  BY DEF Init
<1>2. /\ << >> \in Seq(Payloads) /\ << >> \in Seq(Byte) /\ Len(<< >>) = 0 BY EmptySeq
<1>3. MaxFrames \in Nat /\ Restarts \in Nat /\ LORA_TX_BUFF_SIZE \in Nat
  BY Numbers, SizeAssumption
<1>4. << >> \o << >> = << >> BY <1>2, ConcatEmptySeq
<1>5. InOrder(sent, Last(sent), chunk \o fifo, seen, got)
  <2> DEFINE e == << >>
  <2>1. 1 .. Len(e) = {} BY <1>2
  <2> HIDE DEF e
  <2>2. InOrder(sent, Last(sent), e, e, {}) BY <2>1 DEF InOrder, Ascending
  <2> QED BY <1>1, <1>4, <2>2 DEF e
<1>6. /\ parser.rx_state \in RxState /\ parser.rx_frame \in Seq(Byte)
      /\ Shape(sent, parser.rx_state, parser.rx_frame)
      /\ FrameInv(sent, "tbfp", TBFP_PREAMBLE_DFLT, TBFP_MAX_FRAME, parser.rx_frame, seen, got)
  BY <1>1, Reset
<1>7. /\ Len(sent) <= MaxFrames /\ Len(fifo) <= LORA_TX_BUFF_SIZE BY <1>1, <1>2, <1>3
<1> QED BY <1>1, <1>2, <1>3, <1>5, <1>6, <1>7 DEF StreamInv

(* What the FIFO takes of a frame.                                         *)
LEMMA FrameQueued ==
  ASSUME StreamInv, NEW m \in Payloads, Len(sent) < MaxFrames,
         NEW t \in 0 .. Len(m) + 7, t <= LORA_TX_BUFF_SIZE - Len(fifo),
         NEW f2, f2 = fifo \o SubSeq(FrameBytes(Len(sent) + 1, m), 1, t)
  PROVE  /\ f2 \in Seq(Byte) /\ Len(f2) <= LORA_TX_BUFF_SIZE
         /\ Grows(chunk \o fifo, t, Len(sent) + 1, chunk \o f2)
<1> DEFINE l == Len(sent) + 1  w == FrameBytes(l, m)  Z == Len(m) + 7  u == SubSeq(w, 1, t)
           F == Len(fifo)  C == Len(chunk)  BUF == LORA_TX_BUFF_SIZE
<1>1. /\ fifo \in Seq(Byte) /\ F <= BUF /\ chunk \in Seq(Byte) /\ BUF \in Nat
      /\ sent \in Seq(Payloads)
  BY SizeAssumption DEF StreamInv
<1>2. F \in Nat /\ C \in Nat /\ Len(sent) \in Nat BY <1>1, LenProperties
<1>3. Len(m) \in Nat /\ Len(m) < TBFP_MAX_PAYLOAD BY PayloadShape
<1>4. Z \in Nat /\ Z <= TBFP_MAX_FRAME /\ t \in 0 .. Z BY <1>3, Numbers
<1>5. w = [i \in 1 .. Z |-> <<l, i>>] BY Numbers, Zenon DEF FrameBytes
<1>6. l \in 1 .. MaxFrames BY <1>2, Numbers
<1> HIDE DEF l, w, Z, F, C, BUF
<1>7. ASSUME NEW i \in 1 .. t PROVE w[i] = <<l, i>> /\ w[i] \in Byte
  <2>1. i \in 1 .. Z /\ i \in 1 .. TBFP_MAX_FRAME BY <1>4, Numbers
  <2> QED BY <1>5, <1>6, <2>1 DEF Byte
<1>8. /\ u \in Seq(Byte) /\ Len(u) = t
      /\ \A i \in 1 .. t : u[i] = <<l, i>>
  <2>1. 1 \in Int /\ t \in Int /\ (IF 1 <= t THEN t - 1 + 1 ELSE 0) = t /\ t - 1 + 1 = t
    BY <1>4
  <2>2. \A i \in 1 .. t : w[i] \in Byte BY <1>7
  <2>3. /\ SubSeq(w, 1, t) \in Seq(Byte)
        /\ Len(SubSeq(w, 1, t)) = IF 1 <= t THEN t - 1 + 1 ELSE 0
        /\ \A i \in 1 .. t - 1 + 1 : SubSeq(w, 1, t)[i] = w[1 + i - 1]
    BY ONLY <2>1, <2>2, SubSeqProperties
  <2>4. \A i \in 1 .. t : 1 + i - 1 = i BY <1>4
  <2> QED BY <1>7, <2>1, <2>3, <2>4
<1>9. f2 = fifo \o u BY DEF u, w, l
<1> HIDE DEF u
<1>10. f2 \in Seq(Byte) /\ Len(f2) = F + t
  BY <1>1, <1>8, <1>9, ConcatProperties DEF F
<1>11. F + t <= BUF
  <2>1. t <= BUF - F BY DEF F, BUF
  <2> QED BY <1>1, <1>2, <1>4, <2>1
<1>12. Grows(chunk \o fifo, t, l, chunk \o f2)
  <2> DEFINE q == chunk \o fifo  Q == Len(q)  q2 == q \o u
  <2>1. q2 = chunk \o f2
    <3>1. fifo \in Seq(Byte) /\ chunk \in Seq(Byte) /\ u \in Seq(Byte) BY <1>1, <1>8
    <3>2. (chunk \o fifo) \o u = chunk \o (fifo \o u) BY ONLY <3>1, ConcatAssociative
    <3> QED BY <1>9, <3>2
  <2>2. q \in Seq(Byte) BY <1>1, ConcatProperties
  <2> HIDE DEF q
  <2>3. Q \in Nat BY <2>2, LenProperties
  <2>4. /\ Len(q2) = Q + t
        /\ \A i \in 1 .. Q + t : q2[i] = IF i <= Q THEN q[i] ELSE u[i - Q]
    <3>1. /\ q \o u \in Seq(Byte) /\ Len(q \o u) = Len(q) + Len(u)
          /\ \A i \in 1 .. Len(q) + Len(u) : (q \o u)[i] = IF i <= Len(q) THEN q[i] ELSE u[i - Len(q)]
      BY ONLY <1>8, <2>2, ConcatProperties
    <3> QED BY <1>8, <3>1, Zenon
  <2> HIDE DEF q2, Q
  <2>5. \A i \in 1 .. Q : q2[i] = q[i]
    <3>1. \A i \in 1 .. Q : i \in 1 .. Q + t /\ i <= Q BY <1>4, <2>3
    <3> QED BY <2>4, <3>1
  <2>6. ASSUME NEW i \in 1 .. t PROVE q2[Q + i] = <<l, i>>
    <3>1. Q + i \in 1 .. Q + t /\ ~(Q + i <= Q) /\ (Q + i) - Q = i BY <1>4, <2>3
    <3> QED BY <1>8, <2>4, <3>1
  <2>7. t \in Nat BY <1>4
  <2> QED BY <2>1, <2>3, <2>4, <2>5, <2>6, <2>7 DEF Grows, Q, q
<1> QED BY <1>10, <1>11, <1>12 DEF F, BUF, l

(* A frame in progress is made of bytes that were given.                   *)
LEMMA FrameGiven ==
  ASSUME StreamInv
  PROVE  /\ \A i \in 1 .. Len(seen) : seen[i] \in Byte /\ seen[i][1] \in 1 .. Len(sent)
         /\ \A i \in 1 .. Len(parser.rx_frame) :
              /\ parser.rx_frame[i][1] \in 1 .. Len(sent)
              /\ Val(sent, parser.rx_frame[i]) \in Nat
<1> DEFINE f == parser.rx_frame  F == Len(f)  S == Len(seen)
<1>1. /\ f \in Seq(Byte) /\ seen \in Seq(Byte) /\ sent \in Seq(Payloads)
      /\ InOrder(sent, Last(sent), chunk \o fifo, seen, got) /\ Ends(seen, f)
  BY DEF StreamInv, FrameInv
<1>2. F \in Nat /\ S \in Nat BY <1>1, LenProperties
<1>3. \A i \in 1 .. S : seen[i] \in Byte /\ Valid(sent, Last(sent), seen[i])
  BY <1>1, ElementOfSeq DEF InOrder
<1>4. F <= S /\ \A i \in 1 .. F : f[i] = seen[S - F + i] BY <1>1 DEF Ends
<1> HIDE DEF F, S, f
<1>5. ASSUME NEW i \in 1 .. F PROVE f[i][1] \in 1 .. Len(sent) /\ Val(sent, f[i]) \in Nat
  <2>1. S - F + i \in 1 .. S BY <1>2, <1>4
  <2>2. f[i] \in Byte /\ Valid(sent, Last(sent), f[i]) BY <1>3, <1>4, <2>1
  <2> QED BY <1>1, <2>2, ValidByte
<1>6. \A i \in 1 .. S : seen[i] \in Byte /\ seen[i][1] \in 1 .. Len(sent)
  BY <1>1, <1>3, ValidByte
<1> QED BY <1>5, <1>6 DEF F, S, f

(* Another frame is sent; the receiver does nothing.                       *)
LEMMA FrameSent ==
  ASSUME StreamInv, NEW m \in Payloads, lora_send_queue(m),
         UNCHANGED <<chunk, parser, got, seen, restarts>>, flush' \in BOOLEAN
  PROVE  StreamInv'
<1> DEFINE f == parser.rx_frame  Q == chunk \o fifo
<1>1. /\ sent \in Seq(Payloads) /\ Len(sent) <= MaxFrames
      /\ fifo \in Seq(Byte) /\ chunk \in Seq(Byte) /\ seen \in Seq(Byte) /\ restarts \in Nat
      /\ parser.rx_state \in RxState /\ f \in Seq(Byte)
      /\ Shape(sent, parser.rx_state, f)
      /\ InOrder(sent, Last(sent), Q, seen, got)
      /\ FrameInv(sent, "tbfp", TBFP_PREAMBLE_DFLT, TBFP_MAX_FRAME, f, seen, got)
  BY DEF StreamInv
<1>2. Len(sent) < MaxFrames /\ sent' = Append(sent, m) BY DEF lora_send_queue
<1>3. PICK t \in 0 .. Len(m) + 7 :
        /\ t <= LORA_TX_BUFF_SIZE - Len(fifo)
        /\ fifo' = fifo \o SubSeq(FrameBytes(Len(sent) + 1, m), 1, t)
  <2> DEFINE w == FrameBytes(Len(sent) + 1, m)  Z == Len(m) + 7
  <2>1. \E taken \in 0 .. Len(w) :
          /\ taken <= LORA_TX_BUFF_SIZE - Len(fifo)
          /\ fifo' = fifo \o SubSeq(w, 1, taken)
    BY DEF lora_send_queue
  <2>2. Len(w) = Z
    <3>1. Z \in Nat
      <4>1. Len(m) \in Nat BY PayloadShape
      <4> QED BY <4>1
    <3>2. w = [i \in 1 .. Z |-> <<Len(sent) + 1, i>>] BY Numbers, Zenon DEF FrameBytes
    <3> HIDE DEF w, Z
    <3> QED BY <3>1, <3>2
  <2> HIDE DEF w
  <2> QED BY <2>1, <2>2 DEF w
<1>4. /\ fifo' \in Seq(Byte) /\ Len(fifo') <= LORA_TX_BUFF_SIZE
      /\ Grows(Q, t, Len(sent) + 1, chunk \o fifo')
  BY <1>2, <1>3, FrameQueued
<1>5. Q \in Seq(Byte) BY <1>1, ConcatProperties
<1>6. /\ \A i \in 1 .. Len(seen) : seen[i] \in Byte /\ seen[i][1] \in 1 .. Len(sent)
      /\ \A i \in 1 .. Len(f) : f[i][1] \in 1 .. Len(sent)
  BY FrameGiven
<1> HIDE DEF Q, f
<1>7. InOrder(sent', Last(sent'), chunk' \o fifo', seen', got')
  <2>1. t <= Len(m) + 7
    <3>1. Len(m) \in Nat BY PayloadShape
    <3> QED BY <3>1
  <2>2. \A i \in 1 .. Len(Q) : Q[i] \in Byte BY <1>5, ElementOfSeq
  <2>3. InOrder(Append(sent, m), Last(Append(sent, m)), chunk \o fifo', seen, got)
    BY <1>1, <1>4, <1>6, <2>1, <2>2, MoreInOrder
  <2> QED BY <1>2, <2>3
<1>8. /\ sent' \in Seq(Payloads) /\ Len(sent) \in Nat /\ Len(sent') = Len(sent) + 1
      /\ \A k \in 1 .. Len(sent) : Size(sent', k) = Size(sent, k)
      /\ \A x : x[1] \in 1 .. Len(sent) => Val(sent', x) = Val(sent, x)
  BY <1>1, <1>2, Unchanged
<1>9. Len(sent') <= MaxFrames BY <1>2, <1>8, Numbers
<1>10. FrameInv(sent', "tbfp", TBFP_PREAMBLE_DFLT, TBFP_MAX_FRAME, f, seen, got)
  <2>1. Len(seen) \in Nat /\ Len(f) \in Nat BY <1>1, LenProperties
  <2>2. ASSUME NEW k \in 1 .. Len(seen)
        PROVE  /\ Own(sent', "tbfp", seen[k]) <=> Own(sent, "tbfp", seen[k])
               /\ Val(sent', seen[k]) = Val(sent, seen[k])
               /\ Size(sent', seen[k][1]) = Size(sent, seen[k][1])
    BY <1>6, <1>8, Zenon DEF Own, Mine
  <2>3. TBFP_MAX_FRAME \in Nat BY Numbers
  <2> DEFINE ms2 == sent'
  <2> HIDE DEF ms2
  <2>4. FrameInv(ms2, "tbfp", TBFP_PREAMBLE_DFLT, TBFP_MAX_FRAME, f, seen, got)
    BY <1>1, <2>1, <2>2, <2>3, SameFrame DEF ms2
  <2> QED BY <2>4 DEF ms2
<1>11. Shape(sent', parser.rx_state, f)
  <2> DEFINE F == Len(f)  e == Exp(sent, f)  st == parser.rx_state  e2 == Exp(sent', f)
             M == TBFP_MAX_PAYLOAD
  <2>1. F \in Nat BY <1>1, LenProperties
  <2>2. ASSUME F >= 6 PROVE e2 = e
    <3> HIDE DEF F
    <3>1. 5 \in 1 .. F /\ 6 \in 1 .. F BY <2>1, <2>2
    <3>2. Val(sent', f[5]) = Val(sent, f[5]) /\ Val(sent', f[6]) = Val(sent, f[6])
      BY <1>6, <1>8, <3>1 DEF F
    <3> QED BY <3>2, Zenon DEF Exp
  <2>3. \/ st = "WAIT_PREAMBLE" /\ F = 0
        \/ st = "WAIT_RETX_CNT" /\ F = 1
        \/ st = "WAIT_SERIAL_NUM" /\ F \in 2 .. 3
        \/ st = "WAIT_LEN" /\ F \in 4 .. 5
        \/ st = "WAIT_PAYLOAD" /\ F >= 6 /\ F < 6 + e /\ e <= M
        \/ st = "WAIT_CRC" /\ F >= 6 /\ F = 6 + e /\ e <= M
    BY <1>1, Zenon DEF Shape
  <2>4. Shape(sent', st, f) <=>
          \/ st = "WAIT_PREAMBLE" /\ F = 0
          \/ st = "WAIT_RETX_CNT" /\ F = 1
          \/ st = "WAIT_SERIAL_NUM" /\ F \in 2 .. 3
          \/ st = "WAIT_LEN" /\ F \in 4 .. 5
          \/ st = "WAIT_PAYLOAD" /\ F >= 6 /\ F < 6 + e2 /\ e2 <= M
          \/ st = "WAIT_CRC" /\ F >= 6 /\ F = 6 + e2 /\ e2 <= M
    BY Zenon DEF Shape
  <2> HIDE DEF F, e, e2, st, M
  <2>5. Shape(sent', st, f) BY <2>2, <2>3, <2>4
  <2> QED BY <2>5 DEF st
<1> QED BY <1>1, <1>4, <1>7, <1>8, <1>9, <1>10, <1>11 DEF StreamInv, f

(* A chunk leaves, and arrives or not.                                     *)
LEMMA ChunkLeaves ==
  ASSUME StreamInv, NEW lost \in BOOLEAN, lora_transmit_from_queue(lost)
  PROVE  StreamInv'
<1> DEFINE F == Len(fifo)  M == MAX_LORA_PAYLOAD_SIZE  len == IF F < M THEN F ELSE M
           front == SubSeq(fifo, 1, len)  back == SubSeq(fifo, len + 1, F)
<1>1. /\ chunk = << >> /\ flush' = FALSE /\ fifo' = back
      /\ chunk' = IF lost THEN << >> ELSE front
      /\ UNCHANGED <<sent, parser, got, seen, restarts>>
  BY DEF lora_transmit_from_queue
<1>2. /\ fifo \in Seq(Byte) /\ F <= LORA_TX_BUFF_SIZE
      /\ InOrder(sent, Last(sent), chunk \o fifo, seen, got)
  BY DEF StreamInv
<1>3. F \in Nat /\ M \in Nat /\ LORA_TX_BUFF_SIZE \in Nat
  BY <1>2, LenProperties, SizeAssumption
<1>4. chunk \o fifo = fifo BY <1>1, <1>2, ConcatEmptySeq
<1>5. \A i \in 1 .. F : fifo[i] \in Byte BY <1>2, ElementOfSeq
<1>6. len \in 0 .. F
  <2> HIDE DEF F, M
  <2> QED BY <1>3
<1>7. 1 \in 1 .. F + 1 /\ len \in 1 - 1 .. F /\ F \in len .. F
  <2> HIDE DEF F, len
  <2> QED BY <1>3, <1>6
<1>8. front \o back = fifo
  <2>1. SubSeq(fifo, 1, F) = fifo BY <1>2, SubSeqFull
  <2>2. SubSeq(fifo, 1, len) \o SubSeq(fifo, len + 1, F) = SubSeq(fifo, 1, F)
    <3>1. fifo \in Seq(Byte) BY <1>2
    <3> HIDE DEF len
    <3> QED BY <1>7, <3>1, ConcatAdjacentSubSeq
  <2> QED BY <2>1, <2>2
<1> HIDE DEF len
<1>9. front \in Seq(Byte)
  <2>1. 1 \in Int /\ len \in Int /\ \A i \in 1 .. len : fifo[i] \in Byte
    <3> HIDE DEF F
    <3>1. \A i \in 1 .. len : i \in 1 .. F BY <1>3, <1>6
    <3> QED BY <1>5, <1>6, <3>1 
  <2> QED BY ONLY <2>1, SubSeqProperties
<1>10. back \in Seq(Byte) /\ EndOf(fifo, len, back)
  <2> HIDE DEF F
  <2>1. len + 1 \in Int /\ F \in Int /\ \A i \in len + 1 .. F : fifo[i] \in Byte
    <3>1. \A i \in len + 1 .. F : i \in 1 .. F BY <1>3, <1>6
    <3> QED BY <1>3, <1>5, <1>6, <3>1
  <2>2. /\ SubSeq(fifo, len + 1, F) \in Seq(Byte)
        /\ Len(SubSeq(fifo, len + 1, F)) = IF len + 1 <= F THEN F - (len + 1) + 1 ELSE 0
        /\ \A i \in 1 .. F - (len + 1) + 1 : SubSeq(fifo, len + 1, F)[i] = fifo[(len + 1) + i - 1]
    BY ONLY <2>1, SubSeqProperties
  <2> HIDE DEF back
  <2>3. /\ back \in Seq(Byte)
        /\ Len(back) = IF len + 1 <= F THEN F - (len + 1) + 1 ELSE 0
        /\ \A i \in 1 .. F - (len + 1) + 1 : back[i] = fifo[(len + 1) + i - 1]
    BY <2>2 DEF back
  <2>4. F - (len + 1) + 1 = F - len /\ (IF len + 1 <= F THEN F - (len + 1) + 1 ELSE 0) = F - len
    BY <1>3, <1>6
  <2>5. \A i \in 1 .. F - len : (len + 1) + i - 1 = len + i BY <1>3, <1>6
  <2>6. Len(back) = F - len /\ \A i \in 1 .. F - len : back[i] = fifo[len + i]
    BY <2>3, <2>4, <2>5
  <2>7. len \in Nat /\ len <= F BY <1>3, <1>6
  <2> QED BY <1>3, <2>3, <2>6, <2>7 DEF EndOf, F
<1> HIDE DEF front, back
<1>11. chunk' \in Seq(Byte) /\ InOrder(sent, Last(sent), chunk' \o fifo', seen, got)
  <2>1. CASE lost
    <3>1. chunk' = << >> /\ << >> \in Seq(Byte) BY <1>1, <2>1, EmptySeq
    <3>2. chunk' \o fifo' = back BY <1>1, <1>10, <3>1, ConcatEmptySeq
    <3> QED BY <1>2, <1>4, <1>10, <3>1, <3>2, LessInOrder
  <2>2. CASE ~lost
    <3>1. chunk' = front /\ chunk' \o fifo' = fifo BY <1>1, <1>8, <2>2
    <3> QED BY <1>2, <1>4, <1>9, <3>1
  <2> QED BY <2>1, <2>2
<1>12. Len(fifo') <= LORA_TX_BUFF_SIZE
  <2>1. Len(fifo') = F - len BY <1>1, <1>10 DEF EndOf
  <2> HIDE DEF F
  <2> QED BY <1>2, <1>3, <1>6, <2>1
<1>13. fifo' \in Seq(Byte) BY <1>1, <1>10
<1> QED BY <1>1, <1>11, <1>12, <1>13 DEF StreamInv

(* The CRC is right for a whole frame, and nothing else. *)
LEMMA RightFrame ==
  ASSUME NEW a \in Seq(Byte), Size(sent, a[1][1]) \in Nat
  PROVE  crc8_check(a) <=> Right(sent, "tbfp", a)
<1> DEFINE n == a[1][1]  Z == Size(sent, n)
<1>1. crc8_check(a) <=> a = [i \in 1 .. Z |-> <<n, i>>] BY Zenon DEF crc8_check, FrameBytes, Size
<1>2. Right(sent, "tbfp", a) <=> Len(a) = Z /\ Runs(a, 1, n, Len(a)) BY Zenon DEF Right, Mine
<1>3. Z \in Nat OBVIOUS
<1> HIDE DEF n, Z
<1>4. a = [i \in 1 .. Z |-> <<n, i>>] <=> Len(a) = Z /\ Runs(a, 1, n, Z) BY <1>3, SameAsFrame
<1>5. Len(a) = Z /\ Runs(a, 1, n, Len(a)) <=> Len(a) = Z /\ Runs(a, 1, n, Z) OBVIOUS
<1> QED BY <1>1, <1>2, <1>4, <1>5, Zenon

(* The receiver reads a byte of its chunk. *)
LEMMA ByteRead == StreamInv /\ tbfp_proc => StreamInv'
<1> SUFFICES ASSUME StreamInv, tbfp_proc PROVE StreamInv' OBVIOUS
<1> DEFINE b == Head(chunk)  f == parser.rx_frame  q == chunk \o fifo  n == Last(sent)
           start == TBFP_PREAMBLE_DFLT  longest == TBFP_MAX_FRAME
           ready == parser.rx_state = "WAIT_CRC"
<1>1. /\ sent \in Seq(Payloads) /\ Len(sent) <= MaxFrames
      /\ fifo \in Seq(Byte) /\ Len(fifo) <= LORA_TX_BUFF_SIZE
      /\ flush \in BOOLEAN /\ chunk \in Seq(Byte) /\ seen \in Seq(Byte) /\ restarts \in Nat
      /\ parser.rx_state \in RxState /\ f \in Seq(Byte)
      /\ Shape(sent, parser.rx_state, f)
      /\ InOrder(sent, n, q, seen, got)
      /\ FrameInv(sent, "tbfp", start, longest, f, seen, got)
  BY DEF StreamInv
<1>2. /\ chunk # << >> /\ chunk' = Tail(chunk) /\ UNCHANGED <<sent, fifo, flush, restarts>>
      /\ parser' = tbfp_proc_byte(parser, b)
      /\ got' = IF is_frame(parser, b) THEN got \cup {b[1]} ELSE got
      /\ seen' = Append(seen, b)
  BY DEF tbfp_proc
<1>3. q \in Seq(Byte) /\ q # << >> /\ NextByte(q, b) /\ Tail(q) = chunk' \o fifo
  BY <1>1, <1>2, HeadOfConcat DEF NextByte
<1>4. b \in Byte /\ chunk' \in Seq(Byte) BY <1>1, <1>2, HeadTailProperties
<1>5. seen' \in Seq(Byte) /\ Append(f, b) \in Seq(Byte) BY <1>1, <1>2, <1>4, AppendProperties
<1>6. Wire(sent, n) /\ Begins(sent, "tbfp", start) /\ Pairs(Byte) BY <1>1, OnWire, BytePairs
<1>7. longest \in Nat BY Numbers
<1> DEFINE p2 == parser'  g2 == got'  s2 == seen'  c2 == chunk'
<1>8. c2 = chunk' /\ p2 = tbfp_proc_byte(parser, b) /\ s2 = Append(seen, b) BY <1>2
<1> HIDE DEF q, b, n, start, longest, p2, g2, s2, c2
<1>9. Readable(sent, f, b)
  <2>1. Valid(sent, n, b) BY <1>1, <1>3, <1>6, ByteTaken DEF NextByte
  <2>2. Val(sent, b) \in Nat BY <1>1, <1>4, <2>1, ValidByte
  <2>3. \A i \in 1 .. Len(f) : Val(sent, f[i]) \in Nat BY FrameGiven
  <2> QED BY <1>1, <1>4, <2>2, <2>3 DEF Readable
<1>10. /\ Moves(sent, "tbfp", start, ready, longest, f, b, p2.rx_frame)
       /\ Shape(sent, p2.rx_state, p2.rx_frame) /\ p2.rx_state \in RxState
  BY <1>1, <1>8, <1>9, TbfpWorks DEF start, longest
<1>11. g2 = Recognised(sent, "tbfp", ready, f, b, got)
  <2> DEFINE a == Append(f, b)
  <2>1. Size(sent, a[1][1]) \in Nat
    <3>1. Ends(seen, f) BY <1>1 DEF FrameInv
    <3> QED BY <1>1, <1>3, <1>6, <3>1, FirstByte
  <2>2. is_frame(parser, b) <=> ready /\ crc8_check(a) BY Zenon DEF is_frame
  <2>3. g2 = IF is_frame(parser, b) THEN got \cup {b[1]} ELSE got BY <1>2 DEF g2, b
  <2> HIDE DEF a
  <2>4. crc8_check(a) <=> Right(sent, "tbfp", a) BY <1>5, <2>1, RightFrame DEF a
  <2> HIDE DEF ready
  <2> QED BY <2>2, <2>3, <2>4, Zenon DEF Recognised, a
<1> HIDE DEF f, ready
<1>12. /\ InOrder(sent, n, Tail(q), Append(seen, b), g2)
       /\ FrameInv(sent, "tbfp", start, longest, p2.rx_frame, Append(seen, b), g2)
       /\ p2.rx_frame \in Seq(Byte)
  <2>1. NextByte(q, b) /\ q \in Seq(Byte) BY <1>3
  <2>2. seen \in Seq(Byte) /\ f \in Seq(Byte) /\ InOrder(sent, n, q, seen, got) BY <1>1
  <2>3. Moves(sent, "tbfp", start, ready, longest, f, b, p2.rx_frame) BY <1>10
  <2>4. FrameInv(sent, "tbfp", start, longest, f, seen, got) BY <1>1
  <2> QED BY ONLY <2>1, <2>2, <2>3, <2>4, <1>6, <1>7, <1>11, FedStep
<1>13. /\ InOrder(sent, n, c2 \o fifo, s2, g2)
       /\ FrameInv(sent, "tbfp", start, longest, p2.rx_frame, s2, g2)
  BY <1>3, <1>8, <1>12
<1> QED BY <1>1, <1>2, <1>4, <1>5, <1>10, <1>12, <1>13 DEF StreamInv, p2, g2, s2, c2, n, start, longest

(* The receiver starts again. *)
LEMMA Restarted == StreamInv /\ Restart => StreamInv'
<1> SUFFICES ASSUME StreamInv, Restart PROVE StreamInv' OBVIOUS
<1>1. /\ restarts > 0 /\ restarts' = restarts - 1
      /\ parser' = tbfp_parser_reset_rx /\ chunk' = << >> /\ seen' = << >>
      /\ UNCHANGED <<sent, fifo, flush, got>>
  BY DEF Restart
<1>2. /\ sent \in Seq(Payloads) /\ Len(sent) <= MaxFrames
      /\ fifo \in Seq(Byte) /\ Len(fifo) <= LORA_TX_BUFF_SIZE
      /\ flush \in BOOLEAN /\ chunk \in Seq(Byte) /\ restarts \in Nat
      /\ InOrder(sent, Last(sent), chunk \o fifo, seen, got)
  BY DEF StreamInv
<1>3. restarts' \in Nat BY <1>1, <1>2
<1>4. << >> \in Seq(Byte) /\ << >> \o fifo = fifo BY <1>2, EmptySeq, ConcatEmptySeq
<1>5. EndOf(chunk \o fifo, Len(chunk), fifo)
  <2> DEFINE q == chunk \o fifo  C == Len(chunk)  F == Len(fifo)
  <2>1. C \in Nat /\ F \in Nat BY <1>2, LenProperties
  <2>2. /\ Len(q) = C + F
        /\ \A i \in 1 .. C + F : q[i] = IF i <= C THEN chunk[i] ELSE fifo[i - C]
    BY <1>2, ConcatProperties
  <2> HIDE DEF q, C, F
  <2>3. ASSUME NEW i \in 1 .. Len(q) - C PROVE fifo[i] = q[C + i]
    <3>1. C + i \in 1 .. C + F /\ ~(C + i <= C) /\ (C + i) - C = i BY <2>1, <2>2
    <3> QED BY <2>2, <3>1
  <2>4. Len(q) \in Nat /\ C <= Len(q) /\ F = Len(q) - C BY <2>1, <2>2
  <2> QED BY <2>1, <2>3, <2>4 DEF EndOf, q, C, F
<1>6. InOrder(sent, Last(sent), << >> \o fifo, << >>, got)
  <2>1. InOrder(sent, Last(sent), fifo, seen, got) BY <1>2, <1>5, LessInOrder
  <2> QED BY <1>4, <2>1, ForgetsInOrder
<1> DEFINE p == parser'
<1>7. p = tbfp_parser_reset_rx BY <1>1
<1> HIDE DEF p
<1>8. /\ p.rx_state \in RxState /\ p.rx_frame \in Seq(Byte)
      /\ Shape(sent, p.rx_state, p.rx_frame)
      /\ FrameInv(sent, "tbfp", TBFP_PREAMBLE_DFLT, TBFP_MAX_FRAME, p.rx_frame, << >>, got)
  BY <1>7, Reset
<1> QED BY <1>1, <1>2, <1>3, <1>4, <1>6, <1>8 DEF StreamInv, p

LEMMA StreamStep == StreamInv /\ [Next]_vars => StreamInv'
<1> SUFFICES ASSUME StreamInv, [Next]_vars PROVE StreamInv' OBVIOUS
<1>1. flush \in BOOLEAN BY DEF StreamInv
<1>2. CASE SendRtcm3
  <2>1. PICK m \in Payloads : lora_send_queue(m) BY <1>2 DEF SendRtcm3
  <2> QED BY <1>1, <1>2, <2>1, FrameSent DEF SendRtcm3
<1>3. CASE lora_process
  <2>1. flush' \in BOOLEAN /\ UNCHANGED <<chunk, parser, got, seen, restarts>>
    BY <1>3 DEF lora_process
  <2>2. CASE \E m \in Payloads : lora_send_queue(m) BY <2>1, <2>2, FrameSent
  <2>3. CASE UNCHANGED <<sent, fifo>> BY <2>1, <2>3 DEF StreamInv
  <2> QED BY <1>3, <2>2, <2>3 DEF lora_process
<1>4. CASE \E lost \in BOOLEAN : lora_transmit_from_queue(lost) BY <1>4, ChunkLeaves
<1>5. CASE tbfp_proc BY <1>5, ByteRead
<1>6. CASE Restart BY <1>6, Restarted
<1>7. CASE UNCHANGED vars BY <1>7 DEF vars, StreamInv
<1> QED BY <1>2, <1>3, <1>4, <1>5, <1>6, <1>7 DEF Next

LEMMA StreamAlways == Spec => []StreamInv
BY StreamInit, StreamStep, PTL DEF Spec

-----------------------------------------------------------------------------
(* Type correctness; above all rx_frame never outgrows its buffer, whatever*)
(* length a torn or false frame claims (tbfp_parser_proc_wait_len), and    *)
(* tbfp_proc_full is given nothing that was not sent.                      *)
THEOREM TypesHold == Spec => []TypeOK
<1>1. StreamInv => TypeOK
  <2> SUFFICES ASSUME StreamInv PROVE TypeOK OBVIOUS
  <2>1. /\ sent \in Seq(Payloads) /\ Len(sent) <= MaxFrames
        /\ fifo \in Seq(Byte) /\ Len(fifo) <= LORA_TX_BUFF_SIZE
        /\ flush \in BOOLEAN /\ chunk \in Seq(Byte) /\ seen \in Seq(Byte) /\ restarts \in Nat
        /\ parser.rx_state \in RxState /\ parser.rx_frame \in Seq(Byte)
        /\ InOrder(sent, Last(sent), chunk \o fifo, seen, got)
        /\ FrameInv(sent, "tbfp", TBFP_PREAMBLE_DFLT, TBFP_MAX_FRAME, parser.rx_frame, seen, got)
    BY DEF StreamInv
  <2>2. \A m \in got : m \in 1 .. Len(sent) BY <2>1 DEF InOrder
  <2>3. Len(parser.rx_frame) <= TBFP_MAX_FRAME
    <3> DEFINE F == Len(parser.rx_frame)  longest == TBFP_MAX_FRAME
    <3>1. FrameInv(sent, "tbfp", TBFP_PREAMBLE_DFLT, longest, parser.rx_frame, seen, got) BY <2>1
    <3>2. F \in Nat /\ longest \in Nat BY <2>1, LenProperties, Numbers
    <3> HIDE DEF longest
    <3>3. F < longest BY <3>1 DEF FrameInv
    <3> HIDE DEF F
    <3>4. F <= longest BY <3>2, <3>3
    <3> QED BY <3>4 DEF F, longest
  <2> QED BY <2>1, <2>2, <2>3 DEF TypeOK
<1> QED BY StreamAlways, <1>1, PTL

(* Whatever the tunnel lost or tore before, and however often the receiver *)
(* started again: a frame that arrives whole reaches tbfp_proc_full unless *)
(* a stray preamble came less than a longest frame before it, for every    *)
(* list of frames, every length of queue and chunk                         *)
(* (tbfp_parser_proc_wait_len, tbfp_parser_proc_wait_crc8, tbfp_proc).     *)
THEOREM FramesAreFound == Spec => []Resynchronises
<1>1. ASSUME StreamInv, NEW k \in 1 .. Len(seen)
      PROVE  WholeAt(k) => WholeFrom(sent, seen, k)
  <2> DEFINE n == seen[k][1]  Z == Size(sent, n)  L == Len(seen)
  <2>1. seen \in Seq(Byte) /\ sent \in Seq(Payloads) BY <1>1 DEF StreamInv
  <2>2. L \in Nat /\ k \in 1 .. L BY <2>1, LenProperties
  <2>3. Z \in Nat /\ Z >= 2
    <3>1. n \in 1 .. Len(sent) BY <1>1, FrameGiven
    <3> HIDE DEF n
    <3> QED BY <2>1, <3>1, SentFrame
  <2>4. WholeAt(k) <=> /\ seen[k][2] = 1 /\ k + Z - 1 <= L
                       /\ SubSeq(seen, k, k + Z - 1) = [i \in 1 .. Z |-> <<n, i>>]
    BY SameValue, Zenon DEF WholeAt, FrameBytes, Size
  <2>5. WholeFrom(sent, seen, k) <=> k + Z - 1 <= L /\ Runs(seen, k, n, Z)
    BY Zenon DEF WholeFrom
  <2> HIDE DEF n, Z
  <2>6. k + Z - 1 <= L => (SubSeq(seen, k, k + Z - 1) = [i \in 1 .. Z |-> <<n, i>>]
                            <=> Runs(seen, k, n, Z))
    <3> SUFFICES ASSUME k + Z - 1 <= L
                 PROVE  SubSeq(seen, k, k + Z - 1) = [i \in 1 .. Z |-> <<n, i>>]
                          <=> Runs(seen, k, n, Z)
      OBVIOUS
    <3> DEFINE s == seen
    <3>1. s \in Seq(Byte) /\ k \in 1 .. Len(s) /\ k + Z - 1 <= Len(s) BY <2>1
    <3> HIDE DEF s
    <3>2. Z >= 1 BY <2>3
    <3>3. SubSeq(s, k, k + Z - 1) = [i \in 1 .. Z |-> <<n, i>>] <=> Runs(s, k, n, Z)
      BY ONLY <2>3, <3>1, <3>2, PieceIsFrame
    <3> QED BY <3>3 DEF s
  <2> QED BY <2>4, <2>5, <2>6, Zenon
<1>2. StreamInv => Resynchronises
  <2> SUFFICES ASSUME StreamInv, NEW k \in 1 .. Len(seen), WholeAt(k), seen[k][1] \notin got
               PROVE  \E j \in 1 .. k - 1 :
                        /\ k - j < TBFP_MAX_FRAME
                        /\ Value(seen[j]) = TBFP_PREAMBLE_DFLT
                        /\ seen[j][1] \notin got /\ ~WholeAt(j)
    BY DEF Resynchronises
  <2>1. FrameInv(sent, "tbfp", TBFP_PREAMBLE_DFLT, TBFP_MAX_FRAME, parser.rx_frame, seen, got)
    BY DEF StreamInv
  <2>2. WholeFrom(sent, seen, k) /\ Own(sent, "tbfp", seen[k]) BY <1>1 DEF Own, Mine
  <2>3. Misled(sent, "tbfp", TBFP_PREAMBLE_DFLT, TBFP_MAX_FRAME, seen, got, k)
    BY <2>1, <2>2 DEF FrameInv
  <2>4. PICK j \in 1 .. k - 1 :
          k - j < TBFP_MAX_FRAME /\ Stray(sent, "tbfp", TBFP_PREAMBLE_DFLT, seen, got, j)
    BY <2>3 DEF Misled
  <2>5. j \in 1 .. Len(seen)
    <3>1. Len(seen) \in Nat
      <4>1. seen \in Seq(Byte) BY DEF StreamInv
      <4> QED BY <4>1, LenProperties
    <3> QED BY <2>4, <3>1
  <2>6. /\ Val(sent, seen[j]) = TBFP_PREAMBLE_DFLT /\ seen[j][1] \notin got
        /\ ~WholeFrom(sent, seen, j)
    BY <2>4 DEF Stray, Own, Mine
  <2>7. ~WholeAt(j) BY <1>1, <2>5, <2>6
  <2>8. Value(seen[j]) = TBFP_PREAMBLE_DFLT BY <2>6, SameValue
  <2> QED BY <2>4, <2>6, <2>7, <2>8
<1> QED BY StreamAlways, <1>2, PTL
=============================================================================
