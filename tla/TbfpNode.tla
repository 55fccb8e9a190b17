------------------------------ MODULE TbfpNode ------------------------------
(***************************************************************************)
(* The handlers of one board on the LoRa link, as operators from the state *)
(* of the board to its next state: the TBFP acknowledge/retransmit machine *)
(* (tbfp_re_tx_ack_fsm.c), the TBFP frame layer on IF_SX1262               *)
(* (tbfp_protocol.c), the SX1262 driver (sx1262_drv.c) and the transmit    *)
(* queue (lora_drv.c).  The super-loop calls them one after another on the *)
(* same shared structures; a specification that composes boards chooses    *)
(* the order.  Each handler is total, so that a board can be proved about  *)
(* one handler at a time.                                                  *)
(***************************************************************************)
EXTENDS Integers, Sequences

CONSTANTS
  TBFP_RETX_TRY_MAX,  \* transmissions of one acknowledged frame
  SN_MOD,             \* serial numbers are modulo this (2^16 in the code)
  NoFrame             \* an all-zero frame buffer

ASSUME TryMaxAssumption == TBFP_RETX_TRY_MAX \in Nat \ {0}
ASSUME SnModAssumption  == SN_MOD \in Nat /\ SN_MOD > 1

SerNum == 0 .. SN_MOD - 1

State  == {"IDLE", "WAIT_TX_DONE", "WAIT_ACK"}
Input  == {"NONE", "RX_ACK", "RX_ACK_TIME_OUT", "TX_DONE_TIME_OUT", "TX_DONE"}
Mode   == {"RX", "TX", "STBY_RC"}
Status == {"NONE", "DATA_AVAIL", "TX_DONE"}

(***************************************************************************)
(* Payload identifiers of a frame.  A tunnelled chunk, a chat line or a    *)
(* shell command is represented by its number in "body"; the body of an    *)
(* acknowledge is the serial number it acknowledges.                       *)
(***************************************************************************)
FrameId == {"TUNNEL", "CHAT", "ACK", "PING", "PONG"}
Frame == [id : FrameId, body : Nat, snum : SerNum,
          lifetime : 0 .. 15, ack_need : BOOLEAN]

(***************************************************************************)
(* "verdict" is which counter the last acknowledged send bumped when it    *)
(* ended: ack_rx_cnt, no_reply_cnt or err_tx_done.  "tries" and "cur" are  *)
(* ghosts: transmissions since the last tbfp_retx_start, and the frame     *)
(* that call was given.  "ack" is how the last acknowledge since WAIT_ACK   *)
(* was entered compared with expected_ser_num, which the code only logs.   *)
(* "delivered" is what reached the application.                            *)
(***************************************************************************)
Verdict == {"none", "pending", "acked", "no_reply", "lack_tx_done"}

Board == [state : State, input : Input, retx_cnt : 0 .. TBFP_RETX_TRY_MAX,
          verdict : Verdict, tries : Nat, ack : {"none", "other", "mine"},
          cur : Frame \cup {NoFrame},
          tx_frame : Frame \cup {NoFrame},
          s_num : SerNum, expected_ser_num : SerNum, prev_s_num : SerNum,
          tx_done : BOOLEAN, tx_mute : BOOLEAN,
          mode : Mode, cmd : Status,
          air : Frame \cup {NoFrame}, rx : Frame \cup {NoFrame},
          delivered : Seq(Nat)]

-----------------------------------------------------------------------------
(***************************************************************************)
(* SX1262 driver.                                                          *)
(***************************************************************************)

(* "spi" is whether the SPI transfers of this call succeed. *)
is_tx_started(n, spi) == ~n.tx_mute /\ n.tx_done /\ spi

(* tx_done is cleared before the transfers that may fail.  Clearing the    *)
(* chip's FIFO drops a received frame nobody has read yet.                 *)
sx1262_start_tx(n, spi) ==
  IF n.tx_mute \/ ~n.tx_done THEN n
  ELSE IF ~spi THEN [n EXCEPT !.tx_done = FALSE]
  ELSE [n EXCEPT !.tx_done = FALSE, !.mode = "TX", !.cmd = "NONE",
                 !.air = n.tx_frame, !.rx = NoFrame]

(* SetRx.  "keep": the chip finishes a transmission that is under way      *)
(* instead of giving it up for reception.                                  *)
sx1262_start_rx(n, keep) ==
  IF n.mode = "TX" /\ keep THEN [n EXCEPT !.cmd = "NONE"]
  ELSE [n EXCEPT !.mode = "RX", !.cmd = "NONE", !.air = NoFrame, !.rx = NoFrame]

sx1262_init(n) ==
  [n EXCEPT !.tx_done = TRUE, !.tx_mute = FALSE,
            !.mode = "RX", !.cmd = "NONE", !.air = NoFrame, !.rx = NoFrame]

-----------------------------------------------------------------------------
(***************************************************************************)
(* Acknowledge/retransmit machine.                                         *)
(***************************************************************************)
is_tbfp_retx_idle(n) == n.state = "IDLE" /\ n.retx_cnt = 0

tbfp_retx_start(n, spi) ==
  LET m == [sx1262_start_tx(n, spi) EXCEPT
              !.retx_cnt = TBFP_RETX_TRY_MAX, !.verdict = "pending",
              !.tries = 0, !.cur = n.tx_frame]
  IN  IF is_tx_started(n, spi)
      THEN [m EXCEPT !.state = "WAIT_TX_DONE", !.retx_cnt = @ - 1, !.tries = 1]
      ELSE [m EXCEPT !.state = "IDLE"]

(* Mutants: retx_cnt is not tested, is not decremented. *)
proc_retx_idle_untested(n, spi) ==
  LET m == sx1262_start_tx(n, spi)
  IN  IF is_tx_started(n, spi)
      THEN [m EXCEPT !.retx_cnt = @ - 1, !.state = "WAIT_TX_DONE", !.tries = @ + 1]
      ELSE m

proc_retx_idle_uncounted(n, spi) ==
  LET m == sx1262_start_tx(n, spi)
  IN  IF n.retx_cnt > 0 /\ is_tx_started(n, spi)
      THEN [m EXCEPT !.state = "WAIT_TX_DONE", !.tries = @ + 1]
      ELSE IF n.retx_cnt > 0 THEN m ELSE n

tbfp_proc_retx_idle(n, spi) ==
  IF n.retx_cnt = 0 THEN n
  ELSE LET m == sx1262_start_tx(n, spi)
       IN  IF is_tx_started(n, spi)
           THEN [m EXCEPT !.retx_cnt = @ - 1, !.state = "WAIT_TX_DONE",
                          !.tries = @ + 1]
           ELSE m

(* Mutant: RX_ACK is taken for TX_DONE too. *)
wait_tx_done_any_input(n, late) ==
  CASE n.input \in {"TX_DONE", "RX_ACK"} -> [n EXCEPT !.state = "WAIT_ACK", !.ack = "none"]
    [] n.input = "TX_DONE_TIME_OUT" ->
         [n EXCEPT !.state = "IDLE",
                   !.verdict = IF n.retx_cnt = 0 THEN "lack_tx_done" ELSE @]
    [] OTHER -> IF late THEN [n EXCEPT !.input = "TX_DONE_TIME_OUT"] ELSE n

(* "late": more than tx_done_time_out_ms since time_stamp_start_ms. *)
tbfp_proc_retx_wait_tx_done(n, late) ==
  CASE n.input = "TX_DONE" -> [n EXCEPT !.state = "WAIT_ACK", !.ack = "none"]
    [] n.input = "TX_DONE_TIME_OUT" ->
         [n EXCEPT !.state = "IDLE",
                   !.verdict = IF n.retx_cnt = 0 THEN "lack_tx_done" ELSE @]
    [] OTHER -> IF late THEN [n EXCEPT !.input = "TX_DONE_TIME_OUT"] ELSE n

(* Mutants: one retry too few is counted, no time-out. *)
wait_ack_off_by_one(n, late) ==
  CASE n.input = "RX_ACK" ->
         [n EXCEPT !.state = "IDLE", !.verdict = "acked", !.retx_cnt = 0]
    [] n.input = "RX_ACK_TIME_OUT" ->
         [n EXCEPT !.state = "IDLE",
                   !.verdict = IF n.retx_cnt = 1 THEN "no_reply" ELSE @]
    [] OTHER -> IF late THEN [n EXCEPT !.input = "RX_ACK_TIME_OUT"] ELSE n

wait_ack_for_ever(n, late) ==
  IF n.input = "RX_ACK"
  THEN [n EXCEPT !.state = "IDLE", !.verdict = "acked", !.retx_cnt = 0] ELSE n

tbfp_proc_retx_wait_ack(n, late) ==
  CASE n.input = "RX_ACK" ->
         [n EXCEPT !.state = "IDLE", !.verdict = "acked", !.retx_cnt = 0]
    [] n.input = "RX_ACK_TIME_OUT" ->
         [n EXCEPT !.state = "IDLE",
                   !.verdict = IF n.retx_cnt = 0 THEN "no_reply" ELSE @]
    [] OTHER -> IF late THEN [n EXCEPT !.input = "RX_ACK_TIME_OUT"] ELSE n

tbfp_retx_proc(n, late, spi) ==
  CASE n.state = "IDLE"         -> tbfp_proc_retx_idle(n, spi)
    [] n.state = "WAIT_TX_DONE" -> tbfp_proc_retx_wait_tx_done(n, late)
    [] n.state = "WAIT_ACK"     -> tbfp_proc_retx_wait_ack(n, late)

(* An acknowledge is taken whatever serial number it carries. *)
tbfp_retx_ack(n, ser_num) ==
  [n EXCEPT !.input = "RX_ACK", 
            !.ack = IF ser_num = n.expected_ser_num THEN "mine" ELSE "other"]

tbfp_retx_tx_done(n) == [n EXCEPT !.input = "TX_DONE"]

-----------------------------------------------------------------------------
(***************************************************************************)
(* Frame layer.                                                            *)
(***************************************************************************)

(* Composes the frame in the one tx_frame buffer of the interface.  A      *)
(* lifetime of 3 or more is sent as 0.                                     *)
tbfp_make_header(n, id, body, lifetime, ack) ==
  [n EXCEPT !.tx_frame = [id |-> id, body |-> body, snum |-> n.s_num,
                          lifetime |-> IF lifetime < 3 THEN lifetime ELSE 0,
                          ack_need |-> ack],
            !.expected_ser_num = n.s_num,
            !.s_num = (@ + 1) % SN_MOD]

tbfp_send(n, id, body, lifetime, ack, spi) ==
  LET m == tbfp_make_header(n, id, body, lifetime, ack)
  IN  IF ack THEN tbfp_retx_start(m, spi) ELSE sx1262_start_tx(m, spi)

tbfp_send_ack(n, snum, spi) == tbfp_send(n, "ACK", snum, 0, FALSE, spi)

(* Mutants: a duplicate is let through, a gap is refused. *)
check_flow_control_duplicate(prev_s_num, snum) == snum >= prev_s_num
check_flow_control_no_gap(prev_s_num, snum) == snum = prev_s_num + 1

(* A serial number below the previous one, or equal to it, is refused; a   *)
(* gap is counted and accepted.                                            *)
tbfp_check_flow_control(prev_s_num, snum) == snum > prev_s_num

tbfp_proc_payload(n, f, spi) ==
  CASE f.id = "ACK"  -> tbfp_retx_ack(n, f.body)
    [] f.id = "PING" -> tbfp_send(n, "PONG", 0, 0, FALSE, spi)
    [] f.id = "PONG" -> n
    [] f.id \in {"TUNNEL", "CHAT"} -> [n EXCEPT !.delivered = Append(@, f.body)]

(* Mutant: the lifetime is not taken down. *)
proc_full_lifetime_kept(n, f, spi) ==
  LET checked == [n EXCEPT !.prev_s_num = f.snum]
      relayed == IF f.lifetime \in 1 .. 3
                 THEN tbfp_send(checked, f.id, f.body, f.lifetime, f.ack_need, spi)
                 ELSE checked
      acked   == IF f.ack_need THEN tbfp_send_ack(relayed, f.snum, spi) ELSE relayed
  IN  IF tbfp_check_flow_control(n.prev_s_num, f.snum)
      THEN tbfp_proc_payload(acked, f, spi) ELSE acked

(* One whole frame: flow control, relay of a frame that still has          *)
(* lifetime, acknowledge, and only then the payload.                       *)
tbfp_proc_full(n, f, spi) ==
  LET checked == [n EXCEPT !.prev_s_num = f.snum]
      relayed == IF f.lifetime \in 1 .. 3
                 THEN tbfp_send(checked, f.id, f.body, f.lifetime - 1, f.ack_need, spi)
                 ELSE checked
      acked   == IF f.ack_need THEN tbfp_send_ack(relayed, f.snum, spi) ELSE relayed
  IN  IF tbfp_check_flow_control(n.prev_s_num, f.snum)
      THEN tbfp_proc_payload(acked, f, spi)
      ELSE acked

-----------------------------------------------------------------------------
(***************************************************************************)
(* The SX1262 task.                                                        *)
(***************************************************************************)
sx1262_proc_data_aval(n, spi) ==
  LET m == [n EXCEPT !.rx = NoFrame, !.cmd = "NONE"]
  IN  IF n.rx = NoFrame THEN m ELSE tbfp_proc_full(m, n.rx, spi)

(* "mode" is the chip mode read together with the command status, before   *)
(* the received frame was processed; "hang": it has been TX for longer     *)
(* than the polls allowed.                                                 *)
sx1262_proc_chip_mode(n, mode, hang) ==
  CASE mode = "RX"         -> [n EXCEPT !.tx_done = TRUE]
    [] mode = "TX" /\ hang -> sx1262_init(n)
    [] OTHER               -> n

sx1262_poll_status(n, spi, keep, hang) ==
  LET served == CASE n.cmd = "DATA_AVAIL" ->
                       sx1262_start_rx(sx1262_proc_data_aval(n, spi), keep)
                  [] n.cmd = "TX_DONE" ->
                       sx1262_start_rx(tbfp_retx_tx_done([n EXCEPT !.tx_done = TRUE]), keep)
                  [] OTHER -> n
  IN  sx1262_proc_chip_mode(served, n.mode, hang)

(* "due": a chunk is queued and the pause since the last TX_DONE is over. *)
is_chunk_sent(n, due) == due /\ is_tbfp_retx_idle(n)

lora_transmit_from_queue(n, due, chunk, spi) ==
  IF is_chunk_sent(n, due) THEN tbfp_send(n, "TUNNEL", chunk, 0, TRUE, spi) ELSE n

sx1262_process(n, due, chunk, spi, keep, hang) ==
  sx1262_poll_status(lora_transmit_from_queue(n, due, chunk, spi), spi, keep, hang)

-----------------------------------------------------------------------------
(* State after tbfp_protocol_init(IF_SX1262) and sx1262_init. *)
board_init ==
  [state |-> "IDLE", input |-> "NONE", retx_cnt |-> 0, verdict |-> "none",
   tries |-> 0, ack |-> "none", cur |-> NoFrame, tx_frame |-> NoFrame,
   s_num |-> 1, expected_ser_num |-> 0, prev_s_num |-> 0,
   tx_done |-> TRUE, tx_mute |-> FALSE, mode |-> "RX", cmd |-> "NONE",
   air |-> NoFrame, rx |-> NoFrame, delivered |-> << >>]
=============================================================================
