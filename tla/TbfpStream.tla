----------------------------- MODULE TbfpStream -----------------------------
(***************************************************************************)
(* The tunnel: TBFP frames of IF_LORA, RTCM3 corrections and heartbeats,   *)
(* are queued as bytes (lora_drv.c), cut into chunks wherever the transmit *)
(* unit ends, and found again at the other end by the byte machine of      *)
(* tbfp_protocol_parser.c.  The link below delivers a chunk once and in    *)
(* order or loses it (TbfpLink).                                           *)
(*                                                                         *)
(* A byte is known by its frame and its place in it, <<n, i>>; Value is    *)
(* what the machine reads.  The CRC is taken to be perfect: it fits the    *)
(* bytes of one whole frame only.                                          *)
(***************************************************************************)
EXTENDS Integers, Sequences

CONSTANTS
  Payloads,               \* payloads of the frames sent, sequences of bytes
  MaxFrames,              \* frames sent in a behaviour
  TBFP_MAX_PAYLOAD,
  LORA_TX_BUFF_SIZE,
  MAX_LORA_PAYLOAD_SIZE,  \* bytes of a chunk
  CrcByte,                \* what the byte of a CRC reads as
  Restarts                \* restarts of the receiver

TBFP_PREAMBLE_DFLT == 165
TBFP_SIZE_HEADER   == 6
TBFP_INDEX_SER_NUM == 2
TBFP_INDEX_LEN     == 4
TBFP_SIZE_OVERHEAD == TBFP_SIZE_HEADER + 1
TBFP_MAX_FRAME     == TBFP_MAX_PAYLOAD + TBFP_SIZE_OVERHEAD

ASSUME PayloadsAssumption ==
  Payloads \subseteq Seq(0 .. 255) /\ \A p \in Payloads : Len(p) \in 1 .. TBFP_MAX_PAYLOAD - 1

ASSUME SizeAssumption ==
  /\ MAX_LORA_PAYLOAD_SIZE \in Nat \ {0}
  /\ LORA_TX_BUFF_SIZE \in Nat /\ LORA_TX_BUFF_SIZE >= MAX_LORA_PAYLOAD_SIZE

ASSUME NumbersAssumption ==
  /\ MaxFrames \in Nat /\ TBFP_MAX_PAYLOAD \in Nat /\ Restarts \in Nat
  /\ CrcByte \in 0 .. 255

VARIABLES
  sent,      \* payloads of the frames given to lora_send_queue
  fifo,      \* FiFoLoRaCharTx
  flush,
  chunk,     \* a received chunk that tbfp_proc has still to read
  parser,    \* [rx_state, rx_frame] at the receiver
  got,       \* frames that reached tbfp_proc_full
  seen,      \* ghost: the bytes that the running receiver was given
  restarts   \* restarts left

vars == <<sent, fifo, flush, chunk, parser, got, seen, restarts>>

RxState == {"WAIT_PREAMBLE", "WAIT_RETX_CNT", "WAIT_SERIAL_NUM", "WAIT_LEN",
            "WAIT_PAYLOAD", "WAIT_CRC"}

Byte == (1 .. MaxFrames) \X (1 .. TBFP_MAX_FRAME)

(* rx_frame never outgrows its buffer. *)
TypeOK ==
  /\ sent \in Seq(Payloads) /\ Len(sent) <= MaxFrames
  /\ fifo \in Seq(Byte) /\ Len(fifo) <= LORA_TX_BUFF_SIZE
  /\ flush \in BOOLEAN
  /\ chunk \in Seq(Byte)
  /\ parser.rx_state \in RxState
  /\ parser.rx_frame \in Seq(Byte) /\ Len(parser.rx_frame) <= TBFP_MAX_FRAME
  /\ got \subseteq 1 .. Len(sent)
  /\ seen \in Seq(Byte)
  /\ restarts \in Nat

-----------------------------------------------------------------------------
FrameLen(n) == Len(sent[n]) + TBFP_SIZE_OVERHEAD

(* tbfp_send on IF_LORA: preamble, flags, serial number, length, payload   *)
(* and CRC of frame n, numbers with the low byte first.                    *)
Value(b) ==
  LET n == b[1] IN
  CASE b[2] = 1 -> TBFP_PREAMBLE_DFLT
    [] b[2] = 2 -> 0
    [] b[2] = 3 -> n % 256
    [] b[2] = 4 -> n \div 256
    [] b[2] = 5 -> Len(sent[n]) % 256
    [] b[2] = 6 -> Len(sent[n]) \div 256
    [] b[2] \in TBFP_SIZE_HEADER + 1 .. FrameLen(n) - 1 -> sent[n][b[2] - TBFP_SIZE_HEADER]
    [] b[2] = FrameLen(n) -> CrcByte

FrameBytes(n, payload) == [i \in 1 .. Len(payload) + TBFP_SIZE_OVERHEAD |-> <<n, i>>]

-----------------------------------------------------------------------------
(* The byte machine; f is rx_frame with the new byte. *)
tbfp_parser_reset_rx == [rx_state |-> "WAIT_PREAMBLE", rx_frame |-> << >>]

Wait(state, f) == [rx_state |-> state, rx_frame |-> f]

exp_payload_len(f) ==
  Value(f[TBFP_INDEX_LEN + 1]) + 256 * Value(f[TBFP_INDEX_LEN + 2])

tbfp_parser_proc_wait_preamble(f) ==
  IF Value(f[1]) = TBFP_PREAMBLE_DFLT THEN Wait("WAIT_RETX_CNT", f) ELSE tbfp_parser_reset_rx

tbfp_parser_proc_retransmit_cnt(f) == Wait("WAIT_SERIAL_NUM", f)

tbfp_parser_proc_wait_serial_num(f) ==
  Wait(IF Len(f) = TBFP_INDEX_SER_NUM + 1 THEN "WAIT_SERIAL_NUM" ELSE "WAIT_LEN", f)

(* Mutant: the length is not checked. *)
wait_len_unchecked(f) ==
  IF Len(f) = TBFP_INDEX_LEN + 1 THEN Wait("WAIT_LEN", f)
  ELSE Wait(IF exp_payload_len(f) = 0 THEN "WAIT_CRC" ELSE "WAIT_PAYLOAD", f)

tbfp_parser_proc_wait_len(f) ==
  IF Len(f) = TBFP_INDEX_LEN + 1 THEN Wait("WAIT_LEN", f)
  ELSE IF exp_payload_len(f) > TBFP_MAX_PAYLOAD THEN tbfp_parser_reset_rx
  ELSE Wait(IF exp_payload_len(f) = 0 THEN "WAIT_CRC" ELSE "WAIT_PAYLOAD", f)

tbfp_parser_proc_wait_payload(f) ==
  Wait(IF Len(f) = TBFP_SIZE_HEADER + exp_payload_len(f) THEN "WAIT_CRC" ELSE "WAIT_PAYLOAD", f)

(* tbfp_proc_full sees the frame when its CRC is right; the machine starts *)
(* again either way.                                                       *)
crc8_check(f) == f = FrameBytes(f[1][1], sent[f[1][1]])

(* Mutant: a frame with a wrong CRC is kept. *)
wait_crc8_kept(f) == IF crc8_check(f) THEN tbfp_parser_reset_rx ELSE Wait("WAIT_CRC", << >>)

tbfp_parser_proc_wait_crc8(f) == tbfp_parser_reset_rx

tbfp_proc_byte(p, b) ==
  LET f == Append(p.rx_frame, b)
  IN  CASE p.rx_state = "WAIT_PREAMBLE"   -> tbfp_parser_proc_wait_preamble(f)
        [] p.rx_state = "WAIT_RETX_CNT"   -> tbfp_parser_proc_retransmit_cnt(f)
        [] p.rx_state = "WAIT_SERIAL_NUM" -> tbfp_parser_proc_wait_serial_num(f)
        [] p.rx_state = "WAIT_LEN"        -> tbfp_parser_proc_wait_len(f)
        [] p.rx_state = "WAIT_PAYLOAD"    -> tbfp_parser_proc_wait_payload(f)
        [] p.rx_state = "WAIT_CRC"        -> tbfp_parser_proc_wait_crc8(f)

is_frame(p, b) == p.rx_state = "WAIT_CRC" /\ crc8_check(Append(p.rx_frame, b))

-----------------------------------------------------------------------------
Init ==
  /\ sent = << >> /\ fifo = << >> /\ flush = FALSE /\ chunk = << >>
  /\ parser = tbfp_parser_reset_rx
  /\ got = {}
  /\ seen = << >>
  /\ restarts = Restarts

(* fifo_push_array.  What a full FIFO takes of a frame is not known from   *)
(* the sources: anything from none of it to all that fits.                 *)
lora_send_queue(payload) ==
  LET frame == FrameBytes(Len(sent) + 1, payload)
      room  == LORA_TX_BUFF_SIZE - Len(fifo)
  IN  /\ Len(sent) < MaxFrames
      /\ sent' = Append(sent, payload)
      /\ \E taken \in 0 .. Len(frame) :
           /\ taken <= room
           /\ taken = Len(frame) \/ room < Len(frame)
           /\ fifo' = fifo \o SubSeq(frame, 1, taken)

(* An RTCM3 frame wrapped to TBFP. *)
SendRtcm3 ==
  /\ \E payload \in Payloads : lora_send_queue(payload)
  /\ UNCHANGED <<flush, chunk, parser, got, seen, restarts>>

(* The LoRa task: a heartbeat, and flush whether it was queued or not. *)
lora_process ==
  /\ \/ \E payload \in Payloads : lora_send_queue(payload)
     \/ Len(sent) = MaxFrames /\ UNCHANGED <<sent, fifo>>
  /\ flush' = TRUE
  /\ UNCHANGED <<chunk, parser, got, seen, restarts>>

(* Mutant: the rest of the queue waits for a whole chunk. *)
is_unit_whole_chunk == Len(fifo) >= MAX_LORA_PAYLOAD_SIZE

is_unit == flush \/ Len(fifo) >= MAX_LORA_PAYLOAD_SIZE

(* A chunk leaves the queue, and arrives or is lost. *)
lora_transmit_from_queue(lost) ==
  /\ is_unit
  /\ chunk = << >>
  /\ flush' = FALSE
  /\ LET len == IF Len(fifo) < MAX_LORA_PAYLOAD_SIZE THEN Len(fifo) ELSE MAX_LORA_PAYLOAD_SIZE
     IN  /\ fifo' = SubSeq(fifo, len + 1, Len(fifo))
         /\ chunk' = IF lost THEN << >> ELSE SubSeq(fifo, 1, len)
  /\ UNCHANGED <<sent, parser, got, seen, restarts>>

(* tbfp_proc reads the chunk byte by byte and does not reset the parser;   *)
(* here a step reads one byte, so that a restart can come between two.     *)
tbfp_proc ==
  /\ chunk # << >>
  /\ LET b == Head(chunk)
     IN  /\ parser' = tbfp_proc_byte(parser, b)
         /\ got' = IF is_frame(parser, b) THEN got \cup {b[1]} ELSE got
         /\ seen' = Append(seen, b)
  /\ chunk' = Tail(chunk)
  /\ UNCHANGED <<sent, fifo, flush, restarts>>

(* The receiver restarts; its prev_s_num, 0 again, refuses no frame. *)
Restart ==
  /\ restarts > 0
  /\ restarts' = restarts - 1
  /\ parser' = tbfp_parser_reset_rx /\ chunk' = << >>
  /\ seen' = << >>
  /\ UNCHANGED <<sent, fifo, flush, got>>

Next ==
  \/ SendRtcm3
  \/ lora_process
  \/ \E lost \in BOOLEAN : lora_transmit_from_queue(lost)
  \/ tbfp_proc
  \/ Restart

Spec == Init /\ [][Next]_vars

(* The LoRa task and the SX1262 tasks of both boards keep running. *)
FairSpec ==
  /\ Spec
  /\ WF_vars(lora_process)
  /\ WF_vars(tbfp_proc)
  /\ WF_vars(\E lost \in BOOLEAN : lora_transmit_from_queue(lost))
-----------------------------------------------------------------------------
(* A frame arrives whole, its first byte at place k. *)
WholeAt(k) ==
  LET n   == seen[k][1]
      end == k + FrameLen(n) - 1
  IN  seen[k][2] = 1 /\ end <= Len(seen) /\ SubSeq(seen, k, end) = FrameBytes(n, sent[n])

(* Whatever was lost, cut off or misread before, a frame that arrives      *)
(* whole is found unless a stray preamble byte, of a torn frame or in a    *)
(* payload of a frame not found, came within the longest frame the machine *)
(* can be waiting for: nothing else costs a frame, and a false start no    *)
(* more than that (tbfp_parser_proc_wait_len, tbfp_parser_proc_wait_crc8). *)
Resynchronises ==
  \A k \in 1 .. Len(seen) :
    WholeAt(k) =>
      \/ seen[k][1] \in got
      \/ \E j \in 1 .. k - 1 :
           /\ k - j < TBFP_MAX_FRAME
           /\ Value(seen[j]) = TBFP_PREAMBLE_DFLT
           /\ seen[j][1] \notin got /\ ~WholeAt(j)

(* No byte stays in the queue for ever: what is less than a chunk leaves   *)
(* with the next heartbeat (lora_process, flush).                          *)
NothingStays ==
  \A n \in 1 .. MaxFrames :
    (\E k \in DOMAIN fifo : fifo[k][1] = n) ~> ~(\E k \in DOMAIN fifo : fifo[k][1] = n)
=============================================================================
