------------------------------ MODULE UartPort ------------------------------
(***************************************************************************)
(* UART1, the port of the ZED-F9P receiver.  RTCM3 corrections, UBX frames *)
(* and NMEA sentences come in one stream of bytes.  The receive interrupt  *)
(* puts each into RxFifo (uart_drv.c), whatever the super-loop does;       *)
(* proc_uart1 pulls them and gives every one to every protocol machine     *)
(* (rtcm3_protocol.c, nmea_protocol.c, ubx_protocol.c), so that each       *)
(* machine meets the start byte of its own frames in those of the others.  *)
(* The driver of the receiver switches the NMEA and the UBX task on and    *)
(* off (zed_f9p_drv.c).                                                    *)
(*                                                                         *)
(* A byte is known by its message and its place in it, <<n, i>>; Value is  *)
(* what the machines read.  Checks are taken to be perfect.                *)
(***************************************************************************)
EXTENDS Integers, Sequences

CONSTANTS
  Messages,            \* what the receiver may send
  MaxMessages,         \* messages in a behaviour
  UART_FIFO_RX_SIZE,
  RTCM3_LEN_MOD,       \* values of the length field: 2^10
  UBX_RX_FRAME_SIZE,
  NMEA_MSG_SIZE,
  Budgets              \* <<bytes that may find RxFifo full, times a task may be
                       \* switched>> in a behaviour

RTCM3_PREAMBLE    == 211
RTCM3_HEADER_SIZE == 3
RTCM3_CRC24_SIZE  == 3
UBX_SYN_0         == 181
UBX_SYN_1         == 98
UBX_HEADER_SIZE   == 6
UBX_CRC_SIZE      == 2
UBX_CLASS_ID      == <<5, 1>>   \* of an acknowledge
NMEA_START        == 36         \* $
NMEA_STAR         == 42         \* *
HexDigits         == (48 .. 57) \cup (65 .. 70) \cup (97 .. 102)

RTCM3_MAX_FRAME == RTCM3_LEN_MOD - 1 + RTCM3_HEADER_SIZE + RTCM3_CRC24_SIZE
UBX_MAX_FRAME   == UBX_RX_FRAME_SIZE + UBX_HEADER_SIZE + UBX_CRC_SIZE

(* A message, and what each byte of its check reads as. *)
ASSUME MessagesAssumption ==
  Messages \subseteq [kind : {"rtcm3", "ubx", "nmea"}, body : Seq(0 .. 255), check : 0 .. 255]

ASSUME SizesAssumption ==
  /\ {MaxMessages, UART_FIFO_RX_SIZE, UBX_RX_FRAME_SIZE} \subseteq Nat
  /\ {RTCM3_LEN_MOD, NMEA_MSG_SIZE} \subseteq Nat \ {0}

ASSUME BudgetsAssumption == Budgets \subseteq Nat \X Nat

(* A frame has a body, and one that its length field and buffer can hold;  *)
(* a sentence is text.                                                     *)
ASSUME BodyAssumption ==
  \A m \in Messages :
    /\ Len(m.body) > 0
    /\ m.kind = "rtcm3" => Len(m.body) < RTCM3_LEN_MOD
    /\ m.kind = "ubx"   => Len(m.body) <= UBX_RX_FRAME_SIZE - UBX_HEADER_SIZE - UBX_CRC_SIZE
    /\ m.kind = "nmea"  =>
         /\ Len(m.body) + 4 <= NMEA_MSG_SIZE /\ m.check \in HexDigits
         /\ \A i \in DOMAIN m.body : m.body[i] \in 32 .. 126 \ {NMEA_START, NMEA_STAR}

VARIABLES
  sent,      \* messages of the receiver; the last is on the wire
  at,        \* bytes of it that have come
  fifo,      \* RxFifo
  overruns,  \* overruns left
  switches,  \* switches left
  on,        \* [nmea, ubx]: task_data[TASK_ID_NMEA].on, task_data[TASK_ID_UBX].on
  rtcm3,     \* [rx_state, rx_frame] of Rtcm3Protocol[IF_UART1]
  nmea,      \* the same of NmeaProto
  ubx,       \* the same of UbloxProtocol
  got,       \* [rtcm3, nmea, ubx]: messages recognised
  seen       \* ghost: [rtcm3, nmea, ubx]: the bytes each machine was given

machines == <<rtcm3, nmea, ubx, got, seen>>
vars == <<sent, at, fifo, overruns, switches, on, machines>>

-----------------------------------------------------------------------------
(* The frame of a message, byte by byte; RTCM3 has the high byte of the    *)
(* length first (rtcm3_generate_frame), UBX the low one (ubx_send_message).*)
FrameBytes(m) ==
  LET n == Len(m.body)
      check(k) == [i \in 1 .. k |-> m.check]
  IN
  CASE m.kind = "rtcm3" -> <<RTCM3_PREAMBLE, n \div 256, n % 256>> \o m.body \o check(3)
    [] m.kind = "ubx"   -> <<UBX_SYN_0, UBX_SYN_1>> \o UBX_CLASS_ID
                             \o <<n % 256, n \div 256>> \o m.body \o check(2)
    [] m.kind = "nmea"  -> <<NMEA_START>> \o m.body \o <<NMEA_STAR>> \o check(2)

FrameLen(n) == Len(FrameBytes(sent[n]))
Value(b)    == FrameBytes(sent[b[1]])[b[2]]
Whole(n)    == [i \in 1 .. FrameLen(n) |-> <<n, i>>]

Byte == (1 .. MaxMessages) \X (Nat \ {0})

(* UBX_MAX_FRAME is not the size of the UBX machine's rx_frame, which is   *)
(* UBX_RX_FRAME_SIZE: only the payload is compared with it, and header and *)
(* check may run up to 8 bytes over.                                       *)
TypeOK ==
  /\ sent \in Seq(Messages) /\ Len(sent) <= MaxMessages
  /\ at \in Nat
  /\ fifo \in Seq(Byte) /\ Len(fifo) <= UART_FIFO_RX_SIZE
  /\ overruns \in Nat /\ switches \in Nat /\ on \in [nmea : BOOLEAN, ubx : BOOLEAN]
  /\ rtcm3.rx_state \in {"WAIT_PREAMBLE", "WAIT_LEN", "WAIT_PAYLOAD", "WAIT_CRC"}
  /\ rtcm3.rx_frame \in Seq(Byte) /\ Len(rtcm3.rx_frame) < RTCM3_MAX_FRAME
  /\ nmea.rx_state \in {"NMEA_WAIT_PREAMBLE", "NMEA_WAIT_PAYLOAD", "NMEA_WAIT_CRC"}
  /\ nmea.rx_frame \in Seq(Byte) /\ Len(nmea.rx_frame) <= NMEA_MSG_SIZE
  /\ ubx.rx_state \in {"UBX_WAIT_SYC0", "UBX_WAIT_SYC1", "UBX_WAIT_CLASS", "UBX_WAIT_ID",
                       "UBX_WAIT_LEN", "UBX_WAIT_PAYLOAD", "UBX_WAIT_CRC"}
  /\ ubx.rx_frame \in Seq(Byte) /\ Len(ubx.rx_frame) < UBX_MAX_FRAME
  /\ got \in [{"rtcm3", "nmea", "ubx"} -> SUBSET (1 .. MaxMessages)]
  /\ seen \in [{"rtcm3", "nmea", "ubx"} -> Seq(Byte)]

Wait(state, f) == [rx_state |-> state, rx_frame |-> f]

-----------------------------------------------------------------------------
(* The RTCM3 machine; f is rx_frame with the new byte. *)
rtcm3_reset_rx == Wait("WAIT_PREAMBLE", << >>)

rtcm3_exp_len(f) == (256 * Value(f[2]) + Value(f[3])) % RTCM3_LEN_MOD

(* The check of f is right. *)
is_frame(kind, f) == sent[f[1][1]].kind = kind /\ f = Whole(f[1][1])

rtcm3_proc_wait_preamble(f) ==
  IF Value(f[1]) = RTCM3_PREAMBLE THEN Wait("WAIT_LEN", f) ELSE rtcm3_reset_rx

(* The check against RTCM3_RX_MAX_FRAME_SIZE passes for every value of the *)
(* ten bits.                                                               *)
rtcm3_proc_wait_len(f) == Wait(IF Len(f) = 2 THEN "WAIT_LEN" ELSE "WAIT_PAYLOAD", f)

rtcm3_proc_wait_payload(f) ==
  LET end == RTCM3_HEADER_SIZE + rtcm3_exp_len(f) IN
  IF Len(f) > end THEN rtcm3_reset_rx
  ELSE Wait(IF Len(f) = end THEN "WAIT_CRC" ELSE "WAIT_PAYLOAD", f)

(* Mutant: a frame with a wrong CRC is not let go. *)
wait_crc24_kept(f) ==
  IF Len(f) < RTCM3_HEADER_SIZE + rtcm3_exp_len(f) + RTCM3_CRC24_SIZE THEN Wait("WAIT_CRC", f)
  ELSE IF is_frame("rtcm3", f) THEN rtcm3_reset_rx
  ELSE Wait("WAIT_CRC", SubSeq(f, 1, Len(f) - 1))

(* The machine starts again whether the CRC is right or not. *)
rtcm3_proc_wait_crc24(f) ==
  IF Len(f) < RTCM3_HEADER_SIZE + rtcm3_exp_len(f) + RTCM3_CRC24_SIZE THEN Wait("WAIT_CRC", f)
  ELSE rtcm3_reset_rx

rtcm3_proc_byte(p, b) ==
  LET f == Append(p.rx_frame, b) IN
  CASE p.rx_state = "WAIT_PREAMBLE" -> rtcm3_proc_wait_preamble(f)
    [] p.rx_state = "WAIT_LEN"      -> rtcm3_proc_wait_len(f)
    [] p.rx_state = "WAIT_PAYLOAD"  -> rtcm3_proc_wait_payload(f)
    [] p.rx_state = "WAIT_CRC"      -> rtcm3_proc_wait_crc24(f)

-----------------------------------------------------------------------------
(* The NMEA machine. *)
nmea_reset_parser == Wait("NMEA_WAIT_PREAMBLE", << >>)

nmea_proc_wait_preamble(f) ==
  IF Value(f[1]) = NMEA_START THEN Wait("NMEA_WAIT_PAYLOAD", f) ELSE nmea_reset_parser

(* Mutant: a sentence that outgrows the buffer is cut, not let go. *)
wait_payload_cut(f) ==
  IF Len(f) > NMEA_MSG_SIZE THEN Wait("NMEA_WAIT_PAYLOAD", SubSeq(f, 1, NMEA_MSG_SIZE))
  ELSE Wait(IF Value(f[Len(f)]) = NMEA_STAR THEN "NMEA_WAIT_CRC" ELSE "NMEA_WAIT_PAYLOAD", f)

(* A start byte is payload like any other. *)
nmea_proc_wait_payload(f) ==
  IF Len(f) > NMEA_MSG_SIZE THEN nmea_reset_parser
  ELSE Wait(IF Value(f[Len(f)]) = NMEA_STAR THEN "NMEA_WAIT_CRC" ELSE "NMEA_WAIT_PAYLOAD", f)

(* crc_nibble is 0: the byte before is the star. *)
is_first_nibble(f) == Value(f[Len(f) - 1]) = NMEA_STAR

nmea_proc_wait_crc(f) ==
  IF Value(f[Len(f)]) \in HexDigits /\ Len(f) <= NMEA_MSG_SIZE /\ is_first_nibble(f)
  THEN Wait("NMEA_WAIT_CRC", f)
  ELSE nmea_reset_parser

nmea_proc_byte(p, b) ==
  LET f == Append(p.rx_frame, b) IN
  CASE p.rx_state = "NMEA_WAIT_PREAMBLE" -> nmea_proc_wait_preamble(f)
    [] p.rx_state = "NMEA_WAIT_PAYLOAD"  -> nmea_proc_wait_payload(f)
    [] p.rx_state = "NMEA_WAIT_CRC"      -> nmea_proc_wait_crc(f)

-----------------------------------------------------------------------------
(* The UBX machine. *)
ubx_reset_rx == Wait("UBX_WAIT_SYC0", << >>)

ubx_exp_len(f) == Value(f[5]) + 256 * Value(f[6])

proc_ublox_wait_sync0(f) ==
  IF Value(f[1]) = UBX_SYN_0 THEN Wait("UBX_WAIT_SYC1", f) ELSE ubx_reset_rx

proc_ublox_wait_sync1(f) ==
  IF Value(f[2]) = UBX_SYN_1 THEN Wait("UBX_WAIT_CLASS", f) ELSE ubx_reset_rx

(* Mutant: the length is not checked. *)
wait_len_unchecked(f) == Wait(IF Len(f) = 5 THEN "UBX_WAIT_LEN" ELSE "UBX_WAIT_PAYLOAD", f)

(* UBX_RX_FRAME_SIZE is the size of rx_frame, header and CRC included. *)
proc_ublox_wait_len(f) ==
  IF Len(f) = 5 THEN Wait("UBX_WAIT_LEN", f)
  ELSE IF ubx_exp_len(f) > UBX_RX_FRAME_SIZE THEN ubx_reset_rx
  ELSE Wait("UBX_WAIT_PAYLOAD", f)

proc_ublox_wait_payload(f) ==
  LET end == UBX_HEADER_SIZE + ubx_exp_len(f) IN
  IF Len(f) > end THEN ubx_reset_rx
  ELSE Wait(IF Len(f) = end THEN "UBX_WAIT_CRC" ELSE "UBX_WAIT_PAYLOAD", f)

(* Mutant: the machine forgets only a frame with a wrong CRC. *)
wait_crc_kept(f) ==
  IF Len(f) < UBX_HEADER_SIZE + ubx_exp_len(f) + UBX_CRC_SIZE THEN Wait("UBX_WAIT_CRC", f)
  ELSE IF is_frame("ubx", f) THEN Wait("UBX_WAIT_SYC0", f)
  ELSE ubx_reset_rx

proc_ublox_wait_crc(f) ==
  IF Len(f) < UBX_HEADER_SIZE + ubx_exp_len(f) + UBX_CRC_SIZE THEN Wait("UBX_WAIT_CRC", f)
  ELSE ubx_reset_rx

ubx_proc_byte(p, b) ==
  LET f == Append(p.rx_frame, b) IN
  CASE p.rx_state = "UBX_WAIT_SYC0"    -> proc_ublox_wait_sync0(f)
    [] p.rx_state = "UBX_WAIT_SYC1"    -> proc_ublox_wait_sync1(f)
    [] p.rx_state = "UBX_WAIT_CLASS"   -> Wait("UBX_WAIT_ID", f)
    [] p.rx_state = "UBX_WAIT_ID"      -> Wait("UBX_WAIT_LEN", f)
    [] p.rx_state = "UBX_WAIT_LEN"     -> proc_ublox_wait_len(f)
    [] p.rx_state = "UBX_WAIT_PAYLOAD" -> proc_ublox_wait_payload(f)
    [] p.rx_state = "UBX_WAIT_CRC"     -> proc_ublox_wait_crc(f)

-----------------------------------------------------------------------------
Init ==
  /\ sent = << >> /\ at = 0 /\ fifo = << >>
  /\ \E b \in Budgets : overruns = b[1] /\ switches = b[2]
  /\ on = [nmea |-> TRUE, ubx |-> TRUE]
  /\ rtcm3 = rtcm3_reset_rx /\ nmea = nmea_reset_parser /\ ubx = ubx_reset_rx
  /\ got = [p \in {"rtcm3", "nmea", "ubx"} |-> {}]
  /\ seen = [p \in {"rtcm3", "nmea", "ubx"} |-> << >>]

(* The receiver begins a message. *)
NextMessage ==
  /\ Len(sent) < MaxMessages
  /\ sent # << >> => at = FrameLen(Len(sent))
  /\ \E m \in Messages : sent' = Append(sent, m)
  /\ at' = 0
  /\ UNCHANGED <<fifo, overruns, switches, on, machines>>

(* A byte comes, and is counted and dropped when RxFifo is full. *)
uart1ReadCallback ==
  /\ sent # << >> /\ at < FrameLen(Len(sent))
  /\ at' = at + 1
  /\ \/ /\ Len(fifo) < UART_FIFO_RX_SIZE
        /\ fifo' = Append(fifo, <<Len(sent), at + 1>>)
        /\ UNCHANGED overruns
     \/ /\ Len(fifo) = UART_FIFO_RX_SIZE /\ overruns > 0
        /\ overruns' = overruns - 1
        /\ UNCHANGED fifo
  /\ UNCHANGED <<sent, switches, on, machines>>

Fed(kind) == kind = "rtcm3" \/ on[kind]

(* Byte b completes a frame that its machine p has waited for. *)
Completes(kind, p, wait, b) == p.rx_state = wait /\ is_frame(kind, Append(p.rx_frame, b))

(* A turn of the loop of proc_uart1.  The loop ends with the FIFO, or      *)
(* after as many turns as two FIFOs have bytes.                            *)
proc_uart1 ==
  /\ fifo # << >>
  /\ LET b == Head(fifo)
         spots == [rtcm3 |-> Completes("rtcm3", rtcm3, "WAIT_CRC", b),
                   nmea  |-> Completes("nmea", nmea, "NMEA_WAIT_CRC", b),
                   ubx   |-> Completes("ubx", ubx, "UBX_WAIT_CRC", b)]
     IN  /\ rtcm3' = rtcm3_proc_byte(rtcm3, b)
         /\ nmea' = IF on.nmea THEN nmea_proc_byte(nmea, b) ELSE nmea
         /\ ubx' = IF on.ubx THEN ubx_proc_byte(ubx, b) ELSE ubx
         /\ got' = [p \in DOMAIN got |->
                      IF Fed(p) /\ spots[p] THEN got[p] \cup {b[1]} ELSE got[p]]
         /\ seen' = [p \in DOMAIN seen |-> IF Fed(p) THEN Append(seen[p], b) ELSE seen[p]]
  /\ fifo' = Tail(fifo)
  /\ UNCHANGED <<sent, at, overruns, switches, on>>

(* The receiver driver switches a task; its machine stays where it is. *)
SwitchTask ==
  /\ switches > 0
  /\ switches' = switches - 1
  /\ \E p \in {"nmea", "ubx"} : on' = [on EXCEPT ![p] = ~@]
  /\ UNCHANGED <<sent, at, fifo, overruns, machines>>

Next == NextMessage \/ uart1ReadCallback \/ proc_uart1 \/ SwitchTask

Spec == Init /\ [][Next]_vars
-----------------------------------------------------------------------------
(* A frame arrives whole at a machine, its first byte at place k. *)
WholeAt(s, k) ==
  LET n   == s[k][1]
      end == k + FrameLen(n) - 1
  IN  s[k][2] = 1 /\ end <= Len(s) /\ SubSeq(s, k, end) = Whole(n)

(* It is recognised unless a stray start byte, of a torn frame or within   *)
(* the frames of others, came less than a longest frame before it.         *)
FoundUnlessMisled(kind, start, longest) ==
  LET s     == seen[kind]
      own(k) == sent[s[k][1]].kind = kind
  IN
  \A k \in 1 .. Len(s) :
    own(k) /\ WholeAt(s, k) =>
      \/ s[k][1] \in got[kind]
      \/ \E j \in 1 .. k - 1 :
           /\ k - j < longest /\ Value(s[j]) = start
           /\ s[j][1] \notin got[kind] /\ ~(own(j) /\ WholeAt(s, j))

(* A correction that arrives whole is recognised, and forwarded, unless a  *)
(* stray 0xD3 of another protocol, or of a frame cut by an overrun, came   *)
(* within the longest frame before it (rtcm3_proc_wait_crc24).             *)
CorrectionFound == FoundUnlessMisled("rtcm3", RTCM3_PREAMBLE, RTCM3_MAX_FRAME)

(* The same of UBX, also when the task was off in the middle of a frame:   *)
(* what the machine kept of it costs no more than a longest frame          *)
(* (proc_ublox_wait_len, proc_ublox_wait_crc).                             *)
UbxFrameFound == FoundUnlessMisled("ubx", UBX_SYN_0, UBX_MAX_FRAME)

(* The same of NMEA: a dollar sign in a binary frame, or a sentence cut    *)
(* short, costs no more sentences than begin before the buffer overflows   *)
(* (nmea_proc_wait_payload), though the machine never looks for a new      *)
(* start inside a sentence.                                                *)
SentenceFound == FoundUnlessMisled("nmea", NMEA_START, NMEA_MSG_SIZE + 1)
=============================================================================
