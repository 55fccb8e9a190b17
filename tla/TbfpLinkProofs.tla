--------------------------- MODULE TbfpLinkProofs ---------------------------
(***************************************************************************)
(* Invariants of TbfpLink for any number of boards, any retry limit and    *)
(* any width of the serial number.  Every step of a board is a composition *)
(* of the handlers of TbfpNode, so the proof has one lemma per handler:    *)
(* it preserves Sound(n), an invariant of a single board.                  *)
(***************************************************************************)
EXTENDS TbfpLink, TLAPS

(* The retransmit machine accounts for its tries: what is left of          *)
(* retx_cnt plus what went on air is the limit until the frame is settled, *)
(* and the machine is at work only on a frame that is not settled yet.     *)
Accounted(n) ==
  /\ n.tries <= TBFP_RETX_TRY_MAX
  /\ n.verdict = "pending" => n.tries + n.retx_cnt = TBFP_RETX_TRY_MAX
  /\ n.verdict \in {"no_reply", "lack_tx_done"} => n.tries = TBFP_RETX_TRY_MAX
  /\ n.verdict # "pending" => is_tbfp_retx_idle(n)
  /\ is_tbfp_retx_idle(n) => n.verdict # "pending"

(* RX_ACK latched in WAIT_ACK came after WAIT_ACK was entered. *)
AckedFresh(n) ==
  /\ n.state = "WAIT_ACK" /\ n.input = "RX_ACK" => n.ack # "none"
  /\ n.verdict = "acked" => n.ack # "none"

(* What every handler preserves of one board. *)
Sound(n) == n \in Board /\ Accounted(n) /\ AckedFresh(n)

(* The inductive invariant.  The conjuncts of Accounted that no property   *)
(* states are what carries the others over a step: without "pending" to    *)
(* tie tries to retx_cnt, giving up at retx_cnt = 0 would say nothing.     *)
IInv == TypeOK /\ \A b \in Boards : Sound(node[b])

-----------------------------------------------------------------------------
(* The part of a board that Accounted and AckedFresh read. *)
RetxSame(m, n) ==
  /\ m.state = n.state /\ m.input = n.input /\ m.retx_cnt = n.retx_cnt
  /\ m.verdict = n.verdict /\ m.tries = n.tries /\ m.ack = n.ack

(* A handler that leaves the retransmit machine alone keeps a board sound. *)
LEMMA RetxSameSound ==
  ASSUME NEW n, Sound(n), NEW m \in Board, RetxSame(m, n)
  PROVE  Sound(m)
BY DEF Sound, RetxSame, Accounted, AckedFresh, is_tbfp_retx_idle

LEMMA SerNumNext == ASSUME NEW s \in SerNum PROVE (s + 1) % SN_MOD \in SerNum
BY SnModAssumption DEF SerNum

-----------------------------------------------------------------------------
(* The SX1262 driver leaves the retransmit machine alone. *)
LEMMA StartTxSame ==
  ASSUME NEW n \in Board, NEW spi \in BOOLEAN
  PROVE  /\ sx1262_start_tx(n, spi) \in Board
         /\ RetxSame(sx1262_start_tx(n, spi), n)
<1>1. CASE n.tx_mute \/ ~n.tx_done
  BY <1>1 DEF sx1262_start_tx, RetxSame
<1>2. CASE ~(n.tx_mute \/ ~n.tx_done) /\ ~spi
  <2>1. sx1262_start_tx(n, spi) = [n EXCEPT !.tx_done = FALSE]
    BY <1>2, Zenon DEF sx1262_start_tx
  <2> QED BY <2>1 DEF Board, RetxSame
<1>3. CASE ~(n.tx_mute \/ ~n.tx_done) /\ spi
  <2>1. sx1262_start_tx(n, spi) =
          [n EXCEPT !.tx_done = FALSE, !.mode = "TX", !.cmd = "NONE",
                    !.air = n.tx_frame, !.rx = NoFrame]
    BY <1>3, Zenon DEF sx1262_start_tx
  <2> QED BY <2>1 DEF Board, RetxSame, Mode, Status
<1> QED BY <1>1, <1>2, <1>3

LEMMA StartTxSound ==
  ASSUME NEW n, Sound(n), NEW spi \in BOOLEAN
  PROVE  Sound(sx1262_start_tx(n, spi))
BY StartTxSame, RetxSameSound DEF Sound

LEMMA StartRxSound ==
  ASSUME NEW n, Sound(n), NEW keep \in BOOLEAN
  PROVE  Sound(sx1262_start_rx(n, keep))
<1>1. n \in Board BY DEF Sound
<1>2. CASE n.mode = "TX" /\ keep
  <2>1. /\ sx1262_start_rx(n, keep) \in Board
        /\ RetxSame(sx1262_start_rx(n, keep), n)
    BY <1>1, <1>2, Zenon DEF sx1262_start_rx, Board, Status, RetxSame
  <2> QED BY <2>1, RetxSameSound
<1>3. CASE ~(n.mode = "TX" /\ keep)
  <2>1. /\ sx1262_start_rx(n, keep) \in Board
        /\ RetxSame(sx1262_start_rx(n, keep), n)
    BY <1>1, <1>3, Zenon DEF sx1262_start_rx, Board, Status, Mode, RetxSame
  <2> QED BY <2>1, RetxSameSound
<1> QED BY <1>2, <1>3

LEMMA ChipInitSound ==
  ASSUME NEW n, Sound(n)
  PROVE  Sound(sx1262_init(n))
<1>1. n \in Board BY DEF Sound
<1>2. sx1262_init(n) \in Board /\ RetxSame(sx1262_init(n), n)
  BY <1>1 DEF sx1262_init, Board, Mode, Status, RetxSame
<1> QED BY <1>2, RetxSameSound

-----------------------------------------------------------------------------
(* The values a retransmit machine holds. *)
RetxIs(n, state, input, retx_cnt, verdict, tries, ack) ==
  /\ n.state = state /\ n.input = input /\ n.retx_cnt = retx_cnt
  /\ n.verdict = verdict /\ n.tries = tries /\ n.ack = ack

LEMMA RetxTypes ==
  ASSUME NEW n \in Board
  PROVE  /\ n.state \in State /\ n.input \in Input /\ n.verdict \in Verdict
         /\ n.retx_cnt \in 0 .. TBFP_RETX_TRY_MAX /\ n.tries \in Nat
         /\ n.ack \in {"none", "other", "mine"}
BY DEF Board

(* A new acknowledged frame starts a new account, whatever came before. *)
LEMMA RetxStartSound ==
  ASSUME NEW n \in Board, NEW spi \in BOOLEAN
  PROVE  Sound(tbfp_retx_start(n, spi))
<1> DEFINE s == sx1262_start_tx(n, spi)
           m == [s EXCEPT !.retx_cnt = TBFP_RETX_TRY_MAX, !.verdict = "pending",
                          !.tries = 0, !.cur = n.tx_frame]
<1>1. s \in Board BY StartTxSame
<1>2. n.tx_frame \in Frame \cup {NoFrame} BY DEF Board
<1>3. TBFP_RETX_TRY_MAX \in 0 .. TBFP_RETX_TRY_MAX
  BY TryMaxAssumption
<1>4. /\ m \in Board /\ m.retx_cnt = TBFP_RETX_TRY_MAX /\ m.verdict = "pending"
      /\ m.tries = 0
  <2> HIDE DEF s
  <2> QED BY ZenonT(30), <1>1, <1>2, <1>3 DEF Board, Verdict
<1>5. CASE is_tx_started(n, spi)
  <2> DEFINE c == TBFP_RETX_TRY_MAX - 1
             r == [m EXCEPT !.state = "WAIT_TX_DONE", !.retx_cnt = c, !.tries = 1]
  <2>1. tbfp_retx_start(n, spi) = r
    <3>1. tbfp_retx_start(n, spi) =
            [m EXCEPT !.state = "WAIT_TX_DONE", !.retx_cnt = @ - 1, !.tries = 1]
      BY <1>5, Zenon DEF tbfp_retx_start
    <3> HIDE DEF m
    <3> QED BY <1>4, <3>1
  <2>2. c \in 0 .. TBFP_RETX_TRY_MAX
    BY TryMaxAssumption
  <2>3. /\ r \in Board /\ r.state = "WAIT_TX_DONE" /\ r.tries = 1
        /\ r.retx_cnt = c /\ r.verdict = "pending"
    <3> HIDE DEF m, c
    <3>1. r \in Board BY ZenonT(30), <1>4, <2>2 DEF Board, State
    <3> QED BY <1>4, <3>1 DEF Board
  <2> HIDE DEF r
  <2> QED BY <2>1, <2>3, TryMaxAssumption DEF Sound, Accounted, AckedFresh, is_tbfp_retx_idle
<1>6. CASE ~is_tx_started(n, spi)
  <2> DEFINE r == [m EXCEPT !.state = "IDLE"]
  <2>1. tbfp_retx_start(n, spi) = r
    BY <1>6, Zenon DEF tbfp_retx_start
  <2>2. /\ r \in Board /\ r.state = "IDLE" /\ r.tries = 0
        /\ r.retx_cnt = TBFP_RETX_TRY_MAX /\ r.verdict = "pending"
    <3> HIDE DEF m
    <3> QED BY ZenonT(30), <1>4 DEF Board, State
  <2> HIDE DEF r
  <2> QED BY <2>1, <2>2, TryMaxAssumption DEF Sound, Accounted, AckedFresh, is_tbfp_retx_idle
<1> QED BY <1>5, <1>6

(* A try is taken from retx_cnt exactly when a transmission is counted. *)
LEMMA RetxIdleSound ==
  ASSUME NEW n, Sound(n), n.state = "IDLE", NEW spi \in BOOLEAN
  PROVE  Sound(tbfp_proc_retx_idle(n, spi))
<1> DEFINE m == sx1262_start_tx(n, spi)
<1>1. CASE n.retx_cnt = 0 \/ ~is_tx_started(n, spi)
  BY <1>1, StartTxSound DEF tbfp_proc_retx_idle
<1>2. CASE n.retx_cnt # 0 /\ is_tx_started(n, spi)
  <2> DEFINE r == [m EXCEPT !.retx_cnt = @ - 1, !.state = "WAIT_TX_DONE", !.tries = @ + 1]
  <2>1. tbfp_proc_retx_idle(n, spi) = r
    BY <1>2, Zenon DEF tbfp_proc_retx_idle
  <2>2. /\ Sound(m) /\ m \in Board /\ m.state = "IDLE" /\ m.retx_cnt # 0
    BY <1>2, StartTxSame, StartTxSound DEF Sound, RetxSame
  <2> HIDE DEF m
  <2>3. m.retx_cnt \in 0 .. TBFP_RETX_TRY_MAX /\ m.tries \in Nat BY <2>2, RetxTypes
  <2>4. /\ m.retx_cnt - 1 \in 0 .. TBFP_RETX_TRY_MAX /\ m.tries + 1 \in Nat
    BY <2>2, <2>3, TryMaxAssumption
  <2>5. /\ r \in Board /\ r.state = "WAIT_TX_DONE" /\ r.tries = m.tries + 1
        /\ r.retx_cnt = m.retx_cnt - 1 /\ r.verdict = m.verdict
    BY ZenonT(30), <2>2, <2>4 DEF Board, State
  <2>6. m.verdict = "pending" /\ m.tries + m.retx_cnt = TBFP_RETX_TRY_MAX
    BY <2>2 DEF Sound, Accounted, is_tbfp_retx_idle
  <2> HIDE DEF r
  <2> QED BY <2>1, <2>2, <2>3, <2>5, <2>6, TryMaxAssumption
          DEF Sound, Accounted, AckedFresh, is_tbfp_retx_idle
<1> QED BY <1>1, <1>2

(* Out of IDLE the frame is pending, so its account is open. *)
LEMMA BusyIsPending ==
  ASSUME NEW n, Sound(n), n.state # "IDLE"
  PROVE  n.verdict = "pending" /\ n.tries + n.retx_cnt = TBFP_RETX_TRY_MAX
BY DEF Sound, Accounted, is_tbfp_retx_idle

LEMMA RetxWaitTxDoneSound ==
  ASSUME NEW n, Sound(n), n.state = "WAIT_TX_DONE", NEW late \in BOOLEAN
  PROVE  Sound(tbfp_proc_retx_wait_tx_done(n, late))
<1>1. n \in Board BY DEF Sound
<1>2. /\ n.input \in Input /\ n.ack \in {"none", "other", "mine"} /\ n.tries \in Nat
      /\ n.retx_cnt \in 0 .. TBFP_RETX_TRY_MAX
  BY <1>1, RetxTypes
<1>3. n.verdict = "pending" /\ n.tries + n.retx_cnt = TBFP_RETX_TRY_MAX
  BY BusyIsPending
<1>4. CASE n.input = "TX_DONE"
  <2> DEFINE m == [n EXCEPT !.state = "WAIT_ACK", !.ack = "none"]
  <2>1. tbfp_proc_retx_wait_tx_done(n, late) = m
    BY <1>4, Zenon DEF tbfp_proc_retx_wait_tx_done
  <2>2. m \in Board /\ RetxIs(m, "WAIT_ACK", n.input, n.retx_cnt, n.verdict, n.tries, "none")
    BY ZenonT(30), <1>1, <1>2 DEF Board, State, Input, Verdict, RetxIs
  <2> HIDE DEF m
  <2> QED BY <1>1, <1>2, <1>3, <1>4, <2>1, <2>2, TryMaxAssumption
          DEF RetxIs, Sound, Accounted, AckedFresh, is_tbfp_retx_idle
<1>5. CASE n.input = "TX_DONE_TIME_OUT" /\ n.retx_cnt = 0
  <2> DEFINE m == [n EXCEPT !.state = "IDLE", !.verdict = "lack_tx_done"]
  <2>1. tbfp_proc_retx_wait_tx_done(n, late) = m
    BY <1>5, Zenon DEF tbfp_proc_retx_wait_tx_done
  <2>2. m \in Board /\ RetxIs(m, "IDLE", n.input, n.retx_cnt, "lack_tx_done", n.tries, n.ack)
    BY ZenonT(30), <1>1, <1>2 DEF Board, State, Input, Verdict, RetxIs
  <2> HIDE DEF m
  <2> QED BY <1>1, <1>2, <1>3, <1>5, <2>1, <2>2, TryMaxAssumption
          DEF RetxIs, Sound, Accounted, AckedFresh, is_tbfp_retx_idle
<1>6. CASE n.input = "TX_DONE_TIME_OUT" /\ n.retx_cnt # 0
  <2> DEFINE m == [n EXCEPT !.state = "IDLE", !.verdict = n.verdict]
  <2>1. tbfp_proc_retx_wait_tx_done(n, late) = m
    BY <1>6, Zenon DEF tbfp_proc_retx_wait_tx_done
  <2>2. m \in Board /\ RetxIs(m, "IDLE", n.input, n.retx_cnt, n.verdict, n.tries, n.ack)
    BY ZenonT(30), <1>1, <1>2 DEF Board, State, Input, Verdict, RetxIs
  <2> HIDE DEF m
  <2> QED BY <1>1, <1>2, <1>3, <1>6, <2>1, <2>2, TryMaxAssumption
          DEF RetxIs, Sound, Accounted, AckedFresh, is_tbfp_retx_idle
<1>7. CASE n.input \notin {"TX_DONE", "TX_DONE_TIME_OUT"} /\ late
  <2> DEFINE m == [n EXCEPT !.input = "TX_DONE_TIME_OUT"]
  <2>1. tbfp_proc_retx_wait_tx_done(n, late) = m
    BY <1>7, Zenon DEF tbfp_proc_retx_wait_tx_done
  <2>2. m \in Board /\ RetxIs(m, n.state, "TX_DONE_TIME_OUT", n.retx_cnt, n.verdict, n.tries, n.ack)
    BY ZenonT(30), <1>1, <1>2 DEF Board, Input, RetxIs
  <2> HIDE DEF m
  <2> QED BY <1>1, <1>2, <1>3, <2>1, <2>2
          DEF RetxIs, Sound, Accounted, AckedFresh, is_tbfp_retx_idle
<1>8. CASE n.input \notin {"TX_DONE", "TX_DONE_TIME_OUT"} /\ ~late
  BY <1>8, Zenon DEF tbfp_proc_retx_wait_tx_done
<1> QED BY <1>4, <1>5, <1>6, <1>7, <1>8

LEMMA RetxWaitAckSound ==
  ASSUME NEW n, Sound(n), n.state = "WAIT_ACK", NEW late \in BOOLEAN
  PROVE  Sound(tbfp_proc_retx_wait_ack(n, late))
<1>1. n \in Board BY DEF Sound
<1>2. /\ n.input \in Input /\ n.ack \in {"none", "other", "mine"} /\ n.tries \in Nat
      /\ n.retx_cnt \in 0 .. TBFP_RETX_TRY_MAX
  BY <1>1, RetxTypes
<1>3. n.verdict = "pending" /\ n.tries + n.retx_cnt = TBFP_RETX_TRY_MAX
  BY BusyIsPending
<1>4. CASE n.input = "RX_ACK"
  <2> DEFINE m == [n EXCEPT !.state = "IDLE", !.verdict = "acked", !.retx_cnt = 0]
  <2>1. tbfp_proc_retx_wait_ack(n, late) = m
    BY <1>4, Zenon DEF tbfp_proc_retx_wait_ack
  <2>2. m \in Board /\ RetxIs(m, "IDLE", n.input, 0, "acked", n.tries, n.ack)
    <3>1. 0 \in 0 .. TBFP_RETX_TRY_MAX BY TryMaxAssumption
    <3>2. m \in Board BY ZenonT(30), <1>1, <3>1 DEF Board, State, Verdict
    <3>3. RetxIs(m, "IDLE", n.input, 0, "acked", n.tries, n.ack)
      BY <1>1 DEF Board, RetxIs
    <3> QED BY <3>2, <3>3
  <2> HIDE DEF m
  <2> QED BY <1>1, <1>2, <1>3, <1>4, <2>1, <2>2, TryMaxAssumption
          DEF RetxIs, Sound, Accounted, AckedFresh, is_tbfp_retx_idle
<1>5. CASE n.input = "RX_ACK_TIME_OUT" /\ n.retx_cnt = 0
  <2> DEFINE m == [n EXCEPT !.state = "IDLE", !.verdict = "no_reply"]
  <2>1. tbfp_proc_retx_wait_ack(n, late) = m
    BY <1>5, Zenon DEF tbfp_proc_retx_wait_ack
  <2>2. m \in Board /\ RetxIs(m, "IDLE", n.input, n.retx_cnt, "no_reply", n.tries, n.ack)
    BY ZenonT(30), <1>1, <1>2 DEF Board, State, Input, Verdict, RetxIs
  <2> HIDE DEF m
  <2> QED BY <1>1, <1>2, <1>3, <1>5, <2>1, <2>2, TryMaxAssumption
          DEF RetxIs, Sound, Accounted, AckedFresh, is_tbfp_retx_idle
<1>6. CASE n.input = "RX_ACK_TIME_OUT" /\ n.retx_cnt # 0
  <2> DEFINE m == [n EXCEPT !.state = "IDLE", !.verdict = n.verdict]
  <2>1. tbfp_proc_retx_wait_ack(n, late) = m
    BY <1>6, Zenon DEF tbfp_proc_retx_wait_ack
  <2>2. m \in Board /\ RetxIs(m, "IDLE", n.input, n.retx_cnt, n.verdict, n.tries, n.ack)
    BY ZenonT(30), <1>1, <1>2 DEF Board, State, Input, Verdict, RetxIs
  <2> HIDE DEF m
  <2> QED BY <1>1, <1>2, <1>3, <1>6, <2>1, <2>2, TryMaxAssumption
          DEF RetxIs, Sound, Accounted, AckedFresh, is_tbfp_retx_idle
<1>7. CASE n.input \notin {"RX_ACK", "RX_ACK_TIME_OUT"} /\ late
  <2> DEFINE m == [n EXCEPT !.input = "RX_ACK_TIME_OUT"]
  <2>1. tbfp_proc_retx_wait_ack(n, late) = m
    BY <1>7, Zenon DEF tbfp_proc_retx_wait_ack
  <2>2. m \in Board /\ RetxIs(m, n.state, "RX_ACK_TIME_OUT", n.retx_cnt, n.verdict, n.tries, n.ack)
    BY ZenonT(30), <1>1, <1>2 DEF Board, Input, RetxIs
  <2> HIDE DEF m
  <2> QED BY <1>1, <1>2, <1>3, <2>1, <2>2
          DEF RetxIs, Sound, Accounted, AckedFresh, is_tbfp_retx_idle
<1>8. CASE n.input \notin {"RX_ACK", "RX_ACK_TIME_OUT"} /\ ~late
  BY <1>8, Zenon DEF tbfp_proc_retx_wait_ack
<1> QED BY <1>4, <1>5, <1>6, <1>7, <1>8

LEMMA RetxProcSound ==
  ASSUME NEW n, Sound(n), NEW late \in BOOLEAN, NEW spi \in BOOLEAN
  PROVE  Sound(tbfp_retx_proc(n, late, spi))
<1>1. n.state \in State BY DEF Sound, Board
<1>2. CASE n.state = "IDLE"
  BY <1>2, RetxIdleSound DEF tbfp_retx_proc
<1>3. CASE n.state = "WAIT_TX_DONE"
  BY <1>3, RetxWaitTxDoneSound DEF tbfp_retx_proc
<1>4. CASE n.state = "WAIT_ACK"
  BY <1>4, RetxWaitAckSound DEF tbfp_retx_proc
<1> QED BY <1>1, <1>2, <1>3, <1>4 DEF State

LEMMA RetxAckSound ==
  ASSUME NEW n, Sound(n), NEW ser_num
  PROVE  Sound(tbfp_retx_ack(n, ser_num))
<1> DEFINE a == IF ser_num = n.expected_ser_num THEN "mine" ELSE "other"
           m == [n EXCEPT !.input = "RX_ACK", !.ack = a]
<1>1. tbfp_retx_ack(n, ser_num) = m
  BY Zenon DEF tbfp_retx_ack
<1>2. n \in Board BY DEF Sound
<1>3. a \in {"mine", "other"} OBVIOUS
<1> HIDE DEF a
<1>4. /\ m \in Board
      /\ RetxIs(m, n.state, "RX_ACK", n.retx_cnt, n.verdict, n.tries, a)
  BY <1>2, <1>3 DEF Board, Input, RetxIs
<1> HIDE DEF m
<1> QED BY <1>1, <1>3, <1>4 DEF RetxIs, Sound, Accounted, AckedFresh, is_tbfp_retx_idle

LEMMA RetxTxDoneSound ==
  ASSUME NEW n, Sound(n)
  PROVE  Sound(tbfp_retx_tx_done(n))
<1> DEFINE m == [n EXCEPT !.input = "TX_DONE"]
<1>1. /\ m \in Board
      /\ RetxIs(m, n.state, "TX_DONE", n.retx_cnt, n.verdict, n.tries, n.ack)
  BY DEF Sound, Board, Input, RetxIs
<1> HIDE DEF m
<1>2. Sound(m)
  BY <1>1 DEF RetxIs, Sound, Accounted, AckedFresh, is_tbfp_retx_idle
<1> QED BY <1>2 DEF tbfp_retx_tx_done, m

-----------------------------------------------------------------------------
(* The frame layer. *)
LEMMA MakeHeaderSound ==
  ASSUME NEW n, Sound(n), NEW id \in FrameId, NEW body \in Nat,
         NEW lifetime \in Nat, NEW ack \in BOOLEAN
  PROVE  Sound(tbfp_make_header(n, id, body, lifetime, ack))
<1> DEFINE f == [id |-> id, body |-> body, snum |-> n.s_num,
                 lifetime |-> IF lifetime < 3 THEN lifetime ELSE 0, ack_need |-> ack]
           s == (n.s_num + 1) % SN_MOD
           m == [n EXCEPT !.tx_frame = f, !.expected_ser_num = n.s_num, !.s_num = s]
<1>1. n \in Board /\ n.s_num \in SerNum BY DEF Sound, Board
<1>2. f \in Frame BY <1>1 DEF Frame
<1>3. s \in SerNum BY <1>1, SerNumNext
<1>4. tbfp_make_header(n, id, body, lifetime, ack) = m
  BY DEF tbfp_make_header
<1>5. m \in Board /\ RetxSame(m, n)
  <2> HIDE DEF f, s
  <2> QED BY <1>1, <1>2, <1>3 DEF Board, RetxSame
<1> QED BY <1>4, <1>5, RetxSameSound

LEMMA SendSound ==
  ASSUME NEW n, Sound(n), NEW id \in FrameId, NEW body \in Nat,
         NEW lifetime \in Nat, NEW ack \in BOOLEAN, NEW spi \in BOOLEAN
  PROVE  Sound(tbfp_send(n, id, body, lifetime, ack, spi))
<1> DEFINE m == tbfp_make_header(n, id, body, lifetime, ack)
<1>1. Sound(m) /\ m \in Board BY MakeHeaderSound DEF Sound
<1>2. Sound(tbfp_retx_start(m, spi)) BY <1>1, RetxStartSound
<1>3. Sound(sx1262_start_tx(m, spi)) BY <1>1, StartTxSound
<1> QED BY <1>2, <1>3 DEF tbfp_send

LEMMA PayloadSound ==
  ASSUME NEW n, Sound(n), NEW f \in Frame, NEW spi \in BOOLEAN
  PROVE  Sound(tbfp_proc_payload(n, f, spi))
<1>1. f.id \in FrameId /\ f.body \in Nat BY DEF Frame
<1>2. CASE f.id = "ACK"
  BY <1>2, RetxAckSound DEF tbfp_proc_payload
<1>3. CASE f.id = "PING"
  <2>1. Sound(tbfp_send(n, "PONG", 0, 0, FALSE, spi)) BY SendSound DEF FrameId
  <2> QED BY <1>3, <2>1 DEF tbfp_proc_payload
<1>4. CASE f.id = "PONG"
  BY <1>4 DEF tbfp_proc_payload
<1>5. CASE f.id \in {"TUNNEL", "CHAT"}
  <2> DEFINE d == Append(n.delivered, f.body)
             m == [n EXCEPT !.delivered = d]
  <2>1. n \in Board /\ n.delivered \in Seq(Nat) BY DEF Sound, Board
  <2>2. d \in Seq(Nat) BY <1>1, <2>1
  <2>3. m \in Board /\ RetxSame(m, n)
    <3> HIDE DEF d
    <3> QED BY <2>1, <2>2 DEF Board, RetxSame
  <2>4. tbfp_proc_payload(n, f, spi) = m
    BY <1>5 DEF tbfp_proc_payload
  <2> QED BY <2>3, <2>4, RetxSameSound
<1> QED BY <1>1, <1>2, <1>3, <1>4, <1>5 DEF FrameId

LEMMA ProcFullSound ==
  ASSUME NEW n, Sound(n), NEW f \in Frame, NEW spi \in BOOLEAN
  PROVE  Sound(tbfp_proc_full(n, f, spi))
<1> DEFINE checked == [n EXCEPT !.prev_s_num = f.snum]
           relayed == IF f.lifetime \in 1 .. 3
                      THEN tbfp_send(checked, f.id, f.body, f.lifetime - 1, f.ack_need, spi)
                      ELSE checked
           acked   == IF f.ack_need THEN tbfp_send_ack(relayed, f.snum, spi) ELSE relayed
<1>1. /\ f.snum \in SerNum /\ f.snum \in Nat /\ f.id \in FrameId
      /\ f.body \in Nat /\ f.ack_need \in BOOLEAN
  BY SnModAssumption DEF Frame, SerNum
<1>2. Sound(checked)
  <2>1. checked \in Board /\ RetxSame(checked, n)
    BY <1>1 DEF Sound, Board, RetxSame
  <2> QED BY <2>1, RetxSameSound
<1>3. Sound(relayed)
  <2> HIDE DEF checked
  <2>1. CASE f.lifetime \in 1 .. 3
    <3>1. f.lifetime - 1 \in Nat BY <2>1
    <3>2. Sound(tbfp_send(checked, f.id, f.body, f.lifetime - 1, f.ack_need, spi))
      BY <1>1, <1>2, <3>1, SendSound
    <3> QED BY <2>1, <3>2
  <2>2. CASE f.lifetime \notin 1 .. 3
    BY <1>2, <2>2
  <2> QED BY <2>1, <2>2
<1>4. Sound(acked)
  <2> HIDE DEF relayed
  <2>1. Sound(tbfp_send_ack(relayed, f.snum, spi))
    <3>1. Sound(tbfp_send(relayed, "ACK", f.snum, 0, FALSE, spi))
      BY <1>1, <1>3, SendSound DEF FrameId
    <3> QED BY <3>1 DEF tbfp_send_ack
  <2> QED BY <1>3, <2>1
<1>5. tbfp_proc_full(n, f, spi) \in {acked, tbfp_proc_payload(acked, f, spi)}
  BY Zenon DEF tbfp_proc_full
<1>6. Sound(tbfp_proc_payload(acked, f, spi))
  <2> HIDE DEF acked
  <2> QED BY <1>4, PayloadSound
<1> HIDE DEF acked
<1> QED BY <1>4, <1>5, <1>6

-----------------------------------------------------------------------------
(* The SX1262 task. *)
LEMMA DataAvalSound ==
  ASSUME NEW n, Sound(n), NEW spi \in BOOLEAN
  PROVE  Sound(sx1262_proc_data_aval(n, spi))
<1> DEFINE m == [n EXCEPT !.rx = NoFrame, !.cmd = "NONE"]
<1>1. Sound(m)
  <2>1. m \in Board /\ RetxSame(m, n) BY DEF Sound, Board, Status, RetxSame
  <2> QED BY <2>1, RetxSameSound
<1>2. n.rx = NoFrame \/ n.rx \in Frame BY DEF Sound, Board
<1>3. CASE n.rx = NoFrame
  BY <1>1, <1>3 DEF sx1262_proc_data_aval
<1>4. CASE n.rx # NoFrame
  <2>1. sx1262_proc_data_aval(n, spi) = tbfp_proc_full(m, n.rx, spi)
    BY <1>4, Zenon DEF sx1262_proc_data_aval
  <2> HIDE DEF m
  <2> QED BY <1>1, <1>2, <1>4, <2>1, ProcFullSound
<1> QED BY <1>3, <1>4

LEMMA TxDoneFlagSound ==
  ASSUME NEW n, Sound(n)
  PROVE  Sound([n EXCEPT !.tx_done = TRUE])
<1>1. /\ [n EXCEPT !.tx_done = TRUE] \in Board
      /\ RetxSame([n EXCEPT !.tx_done = TRUE], n)
  BY DEF Sound, Board, RetxSame
<1> QED BY <1>1, RetxSameSound

LEMMA ChipModeSound ==
  ASSUME NEW n, Sound(n), NEW mode, NEW hang \in BOOLEAN
  PROVE  Sound(sx1262_proc_chip_mode(n, mode, hang))
<1>1. sx1262_proc_chip_mode(n, mode, hang)
        \in {n, [n EXCEPT !.tx_done = TRUE], sx1262_init(n)}
  BY Zenon DEF sx1262_proc_chip_mode
<1> QED BY <1>1, TxDoneFlagSound, ChipInitSound

LEMMA PollStatusSound ==
  ASSUME NEW n, Sound(n), NEW spi \in BOOLEAN, NEW keep \in BOOLEAN, NEW hang \in BOOLEAN
  PROVE  Sound(sx1262_poll_status(n, spi, keep, hang))
<1> DEFINE data == sx1262_start_rx(sx1262_proc_data_aval(n, spi), keep)
           done == sx1262_start_rx(tbfp_retx_tx_done([n EXCEPT !.tx_done = TRUE]), keep)
           served == CASE n.cmd = "DATA_AVAIL" -> data
                       [] n.cmd = "TX_DONE" -> done
                       [] OTHER -> n
<1>1. Sound(data) BY DataAvalSound, StartRxSound
<1>2. Sound(done) BY TxDoneFlagSound, RetxTxDoneSound, StartRxSound
<1>3. Sound(served)
  <2> HIDE DEF data, done
  <2> QED BY <1>1, <1>2
<1>4. sx1262_poll_status(n, spi, keep, hang) = sx1262_proc_chip_mode(served, n.mode, hang)
  BY Zenon DEF sx1262_poll_status
<1> HIDE DEF served
<1> QED BY <1>3, <1>4, ChipModeSound

LEMMA ProcessSound ==
  ASSUME NEW n, Sound(n), NEW due \in BOOLEAN, NEW chunk \in Nat,
         NEW spi \in BOOLEAN, NEW keep \in BOOLEAN, NEW hang \in BOOLEAN
  PROVE  Sound(sx1262_process(n, due, chunk, spi, keep, hang))
<1>1. Sound(tbfp_send(n, "TUNNEL", chunk, 0, TRUE, spi)) BY SendSound DEF FrameId
<1>2. Sound(lora_transmit_from_queue(n, due, chunk, spi))
  BY <1>1 DEF lora_transmit_from_queue
<1> QED BY <1>2, PollStatusSound DEF sx1262_process

LEMMA BoardInitSound == Sound(board_init)
<1>1. board_init \in Board
  <2>1. << >> \in Seq(Nat) OBVIOUS
  <2>2. 0 \in SerNum /\ 1 \in SerNum BY SnModAssumption DEF SerNum
  <2> QED BY <2>1, <2>2, TryMaxAssumption
          DEF board_init, Board, State, Input, Verdict, Mode, Status
<1> QED BY <1>1, TryMaxAssumption
        DEF board_init, Sound, Accounted, AckedFresh, is_tbfp_retx_idle

-----------------------------------------------------------------------------
(* The composition: every action of TbfpLink takes each board to itself,   *)
(* through one of the handlers above, or hands it a frame.                 *)

(* A step that changes one board by a sound handler. *)
LEMMA OneBoardStep ==
  ASSUME IInv, NEW b \in Boards, NEW m, Sound(m), node' = [node EXCEPT ![b] = m],
         load' = load, sent' \in [Boards -> Nat],
         user' \in Nat, faults' \in Nat, restarts' \in Nat
  PROVE  IInv'
<1>1. m \in Board BY DEF Sound
<1>2. TypeOK' BY <1>1 DEF IInv, TypeOK
<1>3. ASSUME NEW p \in Boards PROVE Sound(node[p])'
  BY <1>3 DEF IInv, TypeOK
<1> QED BY <1>2, <1>3 DEF IInv

LEMMA ReceiveSound ==
  ASSUME NEW n, Sound(n), NEW f \in Frame \cup {NoFrame}
  PROVE  Sound(Receive(n, f))
<1>1. Receive(n, f) \in Board /\ RetxSame(Receive(n, f), n)
  BY DEF Receive, Sound, Board, Status, RetxSame
<1> QED BY <1>1, RetxSameSound

LEMMA OffAirSame ==
  ASSUME NEW n \in Board
  PROVE  /\ [n EXCEPT !.mode = "STBY_RC", !.cmd = "TX_DONE", !.air = NoFrame] \in Board
         /\ RetxSame([n EXCEPT !.mode = "STBY_RC", !.cmd = "TX_DONE", !.air = NoFrame], n)
<1> DEFINE m == [n EXCEPT !.mode = "STBY_RC", !.cmd = "TX_DONE", !.air = NoFrame]
<1>1. m \in Board BY DEF Board, Mode, Status
<1>2. RetxSame(m, n) BY DEF Board, RetxSame
<1> QED BY <1>1, <1>2

LEMMA TxEndInv ==
  ASSUME IInv, NEW b \in Boards, NEW heard \in SUBSET Boards, TxEnd(b, heard)
  PROVE  IInv'
<1> DEFINE off == [node[b] EXCEPT !.mode = "STBY_RC", !.cmd = "TX_DONE", !.air = NoFrame]
<1>1. \A p \in Boards : Sound(node[p]) BY DEF IInv
<1>2. Sound(off)
  <2>1. off \in Board /\ RetxSame(off, node[b])
    <3>1. node[b] \in Board BY <1>1 DEF Sound
    <3> QED BY <3>1, OffAirSame, Zenon
  <2> QED BY <1>1, <2>1, RetxSameSound
<1>3. node[b].air \in Frame \cup {NoFrame} BY <1>1 DEF Sound, Board
<1>4. \A p \in Boards : Sound(Receive(node[p], node[b].air))
  BY <1>1, <1>3, ReceiveSound
<1> DEFINE next(p) == IF p = b THEN off
                      ELSE IF p \in heard THEN Receive(node[p], node[b].air)
                      ELSE node[p]
<1>5. \A p \in Boards : Sound(next(p))
  <2> HIDE DEF off
  <2> QED BY <1>1, <1>2, <1>4
<1>6. node' = [p \in Boards |-> next(p)] BY DEF TxEnd
<1> HIDE DEF next
<1>7. \A p \in Boards : Sound(node'[p]) BY <1>5, <1>6
<1>8. node' \in [Boards -> Board] BY <1>5, <1>6 DEF Sound
<1>9. TypeOK' BY <1>8 DEF TxEnd, IInv, TypeOK
<1> QED BY <1>7, <1>9 DEF IInv, Sound

LEMMA InitInv == Init => IInv
<1> SUFFICES ASSUME Init PROVE IInv OBVIOUS
<1>1. board_init \in Board BY BoardInitSound DEF Sound
<1>2. TypeOK BY <1>1, LoadsAssumption, BudgetAssumption DEF Init, Load, TypeOK
<1>3. \A b \in Boards : Sound(node[b]) BY BoardInitSound DEF Init
<1> QED BY <1>2, <1>3 DEF IInv

LEMMA NextInv == IInv /\ [Next]_vars => IInv'
<1> SUFFICES ASSUME IInv, [Next]_vars PROVE IInv'
  OBVIOUS
<1>1. ASSUME UNCHANGED vars PROVE IInv'
  BY <1>1 DEF vars, IInv, TypeOK, Sound
<1>2. ASSUME NEW b \in Boards, NEW due \in BOOLEAN, NEW keep \in BOOLEAN,
             NEW hang \in BOOLEAN, Sx1262Task(b, due, keep, hang)
      PROVE  IInv'
  <2> DEFINE m == sx1262_process(node[b], due, sent[b] + 1, TRUE, keep, hang)
  <2>1. /\ sent[b] + 1 \in Nat /\ sent[b] \in Nat /\ sent \in [Boards -> Nat]
        /\ Sound(node[b])
    BY DEF IInv, TypeOK
  <2>2. Sound(m) BY <2>1, ProcessSound, Zenon
  <2>3. node' = [node EXCEPT ![b] = m] BY <1>2 DEF Sx1262Task
  <2>4. sent' \in [Boards -> Nat]
    BY <1>2, <2>1 DEF Sx1262Task
  <2>5. load' = load /\ user' \in Nat /\ faults' \in Nat /\ restarts' \in Nat
    BY <1>2 DEF Sx1262Task, IInv, TypeOK
  <2> HIDE DEF m
  <2> QED BY <2>2, <2>3, <2>4, <2>5, OneBoardStep
<1>3. ASSUME NEW b \in Boards, NEW due \in BOOLEAN, NEW keep \in BOOLEAN,
             Sx1262TaskSpiFault(b, due, keep)
      PROVE  IInv'
  <2> DEFINE m == sx1262_process(node[b], due, sent[b] + 1, FALSE, keep, FALSE)
  <2>1. /\ sent[b] + 1 \in Nat /\ sent[b] \in Nat /\ sent \in [Boards -> Nat]
        /\ Sound(node[b])
    BY DEF IInv, TypeOK
  <2>2. Sound(m) BY <2>1, ProcessSound, Zenon
  <2>3. node' = [node EXCEPT ![b] = m] BY <1>3 DEF Sx1262TaskSpiFault
  <2>4. sent' \in [Boards -> Nat]
    BY <1>3, <2>1 DEF Sx1262TaskSpiFault
  <2>5. load' = load /\ user' \in Nat /\ faults' \in Nat /\ restarts' \in Nat
    BY <1>3 DEF Sx1262TaskSpiFault, IInv, TypeOK
  <2> HIDE DEF m
  <2> QED BY <2>2, <2>3, <2>4, <2>5, OneBoardStep
<1>4. ASSUME NEW b \in Boards, Sx1262LinkLost(b) PROVE IInv'
  <2>1. Sound(sx1262_init(node[b])) BY ChipInitSound DEF IInv
  <2>2. node' = [node EXCEPT ![b] = sx1262_init(node[b])] BY <1>4 DEF Sx1262LinkLost
  <2>3. /\ load' = load /\ sent' \in [Boards -> Nat] /\ user' \in Nat /\ faults' \in Nat
        /\ restarts' \in Nat
    BY <1>4 DEF Sx1262LinkLost, IInv, TypeOK
  <2> QED BY <2>1, <2>2, <2>3, OneBoardStep
<1>5. ASSUME NEW b \in Boards, NEW late \in BOOLEAN, RetxTask(b, late) PROVE IInv'
  <2>1. Sound(tbfp_retx_proc(node[b], late, TRUE)) BY RetxProcSound DEF IInv
  <2> QED BY <1>5, <2>1, OneBoardStep DEF RetxTask, IInv, TypeOK
<1>6. ASSUME NEW b \in Boards, RetxTaskSpiFault(b) PROVE IInv'
  <2>1. Sound(tbfp_retx_proc(node[b], FALSE, FALSE)) BY RetxProcSound DEF IInv
  <2>2. node' = [node EXCEPT ![b] = tbfp_retx_proc(node[b], FALSE, FALSE)] BY <1>6 DEF RetxTaskSpiFault
  <2>3. /\ load' = load /\ sent' \in [Boards -> Nat] /\ user' \in Nat /\ faults' \in Nat
        /\ restarts' \in Nat
    BY <1>6 DEF RetxTaskSpiFault, IInv, TypeOK
  <2> QED BY <2>1, <2>2, <2>3, OneBoardStep
<1>7. ASSUME NEW b \in Boards, ConsoleTask(b) PROVE IInv'
  <2>1. ASSUME NEW id \in FrameId, NEW lifetime \in Nat, NEW ack \in BOOLEAN,
               ConsoleSend(b, id, lifetime, ack)
        PROVE  IInv'
    <3> DEFINE m == tbfp_send(node[b], id, sent[b] + 1, lifetime, ack, TRUE)
    <3>1. sent[b] + 1 \in Nat /\ Sound(node[b]) BY DEF IInv, TypeOK
    <3>2. Sound(m) BY <3>1, SendSound
    <3>3. node' = [node EXCEPT ![b] = m] BY <2>1 DEF ConsoleSend
    <3>4. sent' \in [Boards -> Nat] BY <2>1, <3>1 DEF ConsoleSend, IInv, TypeOK
    <3>5. load' = load /\ user' \in Nat /\ faults' \in Nat /\ restarts' \in Nat
      BY <2>1 DEF ConsoleSend, IInv, TypeOK
    <3> HIDE DEF m
    <3> QED BY <3>2, <3>3, <3>4, <3>5, OneBoardStep
  <2>2. ASSUME NEW mute \in BOOLEAN, ConsoleMute(b, mute) PROVE IInv'
    <3> DEFINE m == [node[b] EXCEPT !.tx_mute = mute]
    <3>1. Sound(m)
      <4>1. Sound(node[b]) BY DEF IInv
      <4>2. m \in Board /\ RetxSame(m, node[b])
        BY <4>1 DEF Sound, Board, RetxSame
      <4> QED BY <4>1, <4>2, RetxSameSound
    <3>2. node' = [node EXCEPT ![b] = m]
      BY <2>2 DEF ConsoleMute, IInv, TypeOK
    <3>3. /\ load' = load /\ sent' \in [Boards -> Nat] /\ user' \in Nat /\ faults' \in Nat
          /\ restarts' \in Nat
      BY <2>2 DEF ConsoleMute, IInv, TypeOK
    <3> HIDE DEF m
    <3> QED BY <3>1, <3>2, <3>3, OneBoardStep
  <2> QED BY <1>7, <2>1, <2>2 DEF ConsoleTask, FrameId
<1>8. ASSUME NEW b \in Boards, Restart(b) PROVE IInv'
  <2> DEFINE m == [board_init EXCEPT !.delivered = node[b].delivered]
  <2>1. Sound(m)
    <3>1. node[b].delivered \in Seq(Nat) BY DEF IInv, Sound, Board
    <3>2. board_init \in Board BY BoardInitSound DEF Sound
    <3> HIDE DEF m
    <3>3. m \in Board /\ RetxSame(m, board_init)
      BY <3>1, <3>2 DEF m, Board, RetxSame
    <3> QED BY <3>3, BoardInitSound, RetxSameSound
  <2>2. node' = [node EXCEPT ![b] = m] BY <1>8 DEF Restart
  <2>3. /\ load' = load /\ sent' \in [Boards -> Nat] /\ user' \in Nat /\ faults' \in Nat
        /\ restarts' \in Nat
    BY <1>8 DEF Restart, IInv, TypeOK
  <2> HIDE DEF m
  <2> QED BY <2>1, <2>2, <2>3, OneBoardStep
<1> QED BY <1>1, <1>2, <1>3, <1>4, <1>5, <1>6, <1>7, <1>8, TxEndInv DEF Next

-----------------------------------------------------------------------------
(* Every board is in a state its retransmit machine accounts for. *)
THEOREM InductiveInvariant == Spec => []IInv
BY InitInv, NextInv, PTL DEF Spec

(* Every variable has its type: retx_cnt never falls below zero, a serial  *)
(* number fits its field, and every frame on air is one the code composes. *)
THEOREM TypeCorrect == Spec => []TypeOK
<1>1. IInv => TypeOK BY DEF IInv
<1> QED BY <1>1, InductiveInvariant, PTL

(* No acknowledge from before WAIT_ACK ends the wait. *)
THEOREM FreshAckHolds == Spec => []FreshAck
<1>1. IInv => FreshAck BY DEF IInv, Sound, AckedFresh, FreshAck
<1> QED BY <1>1, InductiveInvariant, PTL

(* A frame is given up only after all its transmissions. *)
THEOREM GivesUpAfterAllTriesHolds == Spec => []GivesUpAfterAllTries
<1>1. IInv => GivesUpAfterAllTries
  BY DEF IInv, Sound, Accounted, GivesUpAfterAllTries
<1> QED BY <1>1, InductiveInvariant, PTL

(* An idle machine has no frame whose fate is open. *)
THEOREM IdleMeansSettledHolds == Spec => []IdleMeansSettled
<1>1. IInv => IdleMeansSettled BY DEF IInv, Sound, Accounted, IdleMeansSettled
<1> QED BY <1>1, InductiveInvariant, PTL

-----------------------------------------------------------------------------
(***************************************************************************)
(* Two boards that do not relay deliver each other's payloads in order and *)
(* once, for every width of the serial number, although it wraps around,   *)
(* every number of retries, every loss, and restarts of a sender.          *)
(*                                                                         *)
(* The argument does not count serial numbers.  A frame goes from tx_frame *)
(* to the air, from there to the other board and to its application, and   *)
(* tx_frame never goes back to an older frame: so the places that can hold *)
(* a frame of a board hold its frames in the order it composed them.  A    *)
(* frame that comes twice comes twice in a row, and meets its own serial   *)
(* number in prev_s_num.                                                   *)
(***************************************************************************)

(* A frame that reaches the application.                                   *)
Data(f) == f # NoFrame /\ f.id \in {"TUNNEL", "CHAT"}

(* x, composed as the i-th frame, and y, the j-th.                         *)
Older(x, i, y, j) ==
  x # NoFrame /\ y # NoFrame =>
    /\ i = j => x = y
    /\ i < j /\ Data(x) /\ Data(y) => x.body < y.body

(* What the receiver has yet to see of x: its application knows no newer   *)
(* payload, and not this one unless x, the i-th frame, is the last, d-th   *)
(* frame the receiver took, whose serial number is prev.                   *)
Expected(x, i, d, prev, done, k) ==
  x # NoFrame =>
    /\ x.lifetime = 0
    /\ Data(x) =>
         /\ x.body \in 1 .. k
         /\ \A e \in DOMAIN done : done[e] <= x.body
         /\ d < i => \A e \in DOMAIN done : done[e] < x.body
         /\ d = i => x.snum = prev

(* The frames of a sender that has sent k payloads: rx at the receiver,    *)
(* air, and tx, the r-th, a-th and t-th it composed; the receiver has      *)
(* delivered done.                                                         *)
Chain(d, r, a, t, rx, air, tx, prev, done, k) ==
  /\ d <= r /\ r <= a /\ a <= t
  /\ Older(rx, r, air, a) /\ Older(air, a, tx, t) /\ Older(rx, r, tx, t)
  /\ Expected(rx, r, d, prev, done, k)
  /\ Expected(air, a, d, prev, done, k)
  /\ Expected(tx, t, d, prev, done, k)
  /\ \A e \in DOMAIN done : done[e] \in 1 .. k
  /\ \A i, j \in DOMAIN done : i < j => done[i] < done[j]

(* From board n, that has sent k payloads, to board o.                     *)
Ordered(n, k, o) ==
  \E d, r, a, t \in Nat :
    Chain(d, r, a, t, o.rx, n.air, n.tx_frame, o.prev_s_num, o.delivered, k)

(* A board that may restart, and forgets prev_s_num, is sent nothing.      *)
Spared ==
  /\ load \in Loads /\ user <= load.orders
  /\ \A r \in Restarting : \A p \in Boards \ {r} : sent[p] = 0

AllOrdered == \A p, q \in Boards : p # q => Ordered(node[p], sent[p], node[q])

OrderInv == IInv /\ Spared /\ AllOrdered

(* The loads the theorem is about: no chat line is to be relayed, and the  *)
(* board that may restart receives no payload.                             *)
NoRelay == \A l \in Loads : "relay" \notin l.console

ReceiversStay ==
  \A l \in Loads : \A r \in Restarting :
    /\ l.orders = 0 \/ l.console \subseteq {"mute"}
    /\ \A p \in Boards \ {r} : l.chunks[p] = 0

-----------------------------------------------------------------------------
(* What may happen to a chain.  A frame is composed: it is the newest.     *)
LEMMA Composed ==
  ASSUME NEW d \in Nat, NEW r \in Nat, NEW a \in Nat, NEW t \in Nat,
         NEW rx, NEW air, NEW tx, NEW prev, NEW done, NEW k \in Nat,
         Chain(d, r, a, t, rx, air, tx, prev, done, k),
         NEW f, f.lifetime = 0, NEW k2 \in Nat, k <= k2,
         Data(f) => f.body \in k + 1 .. k2
  PROVE  Chain(d, r, a, t + 1, rx, air, f, prev, done, k2)
<1>1. /\ d <= r /\ r <= a /\ a <= t /\ Older(rx, r, air, a)
      /\ Expected(rx, r, d, prev, done, k) /\ Expected(air, a, d, prev, done, k)
      /\ \A e \in DOMAIN done : done[e] \in 1 .. k
      /\ \A i, j \in DOMAIN done : i < j => done[i] < done[j]
  BY DEF Chain
<1>2. Older(air, a, f, t + 1) /\ Older(rx, r, f, t + 1)
  BY <1>1 DEF Older, Expected
<1>3. Expected(rx, r, d, prev, done, k2) /\ Expected(air, a, d, prev, done, k2)
  BY <1>1 DEF Expected
<1>4. Expected(f, t + 1, d, prev, done, k2)
  <2>1. d < t + 1 /\ d # t + 1 BY <1>1
  <2>2. ASSUME Data(f), NEW e \in DOMAIN done PROVE done[e] < f.body BY <1>1, <2>2
  <2>3. ASSUME Data(f), NEW e \in DOMAIN done PROVE done[e] <= f.body BY <1>1, <2>3
  <2>4. Data(f) => f.body \in 1 .. k2 OBVIOUS
  <2> QED BY <2>1, <2>2, <2>3, <2>4 DEF Expected
<1>5. a <= t + 1 /\ \A e \in DOMAIN done : done[e] \in 1 .. k2 BY <1>1
<1> QED BY <1>1, <1>2, <1>3, <1>4, <1>5 DEF Chain

(* The frame in tx_frame goes on air; a frame on air, or a received one,   *)
(* is dropped; the frame on air arrives.                                   *)
LEMMA Moved ==
  ASSUME NEW d \in Nat, NEW r \in Nat, NEW a \in Nat, NEW t \in Nat,
         NEW rx, NEW air, NEW tx, NEW prev, NEW done, NEW k \in Nat,
         Chain(d, r, a, t, rx, air, tx, prev, done, k)
  PROVE  /\ Chain(d, r, t, t, rx, tx, tx, prev, done, k)
         /\ Chain(d, r, a, t, rx, NoFrame, tx, prev, done, k)
         /\ Chain(d, r, a, t, NoFrame, air, tx, prev, done, k)
         /\ Chain(d, r, a, t, rx, air, NoFrame, prev, done, k)
         /\ Chain(d, a, a, t, air, air, tx, prev, done, k)
<1>1. /\ d <= r /\ r <= a /\ a <= t
      /\ Older(rx, r, air, a) /\ Older(air, a, tx, t) /\ Older(rx, r, tx, t)
      /\ Expected(rx, r, d, prev, done, k)
      /\ Expected(air, a, d, prev, done, k)
      /\ Expected(tx, t, d, prev, done, k)
      /\ \A e \in DOMAIN done : done[e] \in 1 .. k
      /\ \A i, j \in DOMAIN done : i < j => done[i] < done[j]
  BY DEF Chain
<1>2. Older(tx, t, tx, t) /\ Older(air, a, air, a) BY DEF Older
<1>3. /\ Older(rx, r, NoFrame, a) /\ Older(NoFrame, a, tx, t)
      /\ Older(NoFrame, r, air, a) /\ Older(NoFrame, r, tx, t)
      /\ Older(air, a, NoFrame, t) /\ Older(rx, r, NoFrame, t)
  BY Zenon DEF Older
<1>4. \A i : Expected(NoFrame, i, d, prev, done, k) BY Zenon DEF Expected
<1>5. r <= t /\ d <= a BY <1>1
<1> QED BY <1>1, <1>2, <1>3, <1>4, <1>5 DEF Chain

(* The receiver takes the frame it has; when its flow control lets the     *)
(* frame through, a payload is delivered.                                  *)
LEMMA Taken ==
  ASSUME NEW d \in Nat, NEW r \in Nat, NEW a \in Nat, NEW t \in Nat,
         NEW rx, NEW air, NEW tx, NEW prev, NEW done \in Seq(Nat), NEW k \in Nat,
         Chain(d, r, a, t, rx, air, tx, prev, done, k), rx # NoFrame
  PROVE  /\ Chain(r, r, a, t, NoFrame, air, tx, rx.snum, done, k)
         /\ Data(rx) /\ rx.snum # prev =>
              Chain(r, r, a, t, NoFrame, air, tx, rx.snum, Append(done, rx.body), k)
<1> DEFINE all == Append(done, rx.body)  n == Len(done)
<1>1. /\ d <= r /\ r <= a /\ a <= t
      /\ Older(rx, r, air, a) /\ Older(air, a, tx, t) /\ Older(rx, r, tx, t)
      /\ Expected(rx, r, d, prev, done, k)
      /\ Expected(air, a, d, prev, done, k)
      /\ Expected(tx, t, d, prev, done, k)
      /\ \A e \in DOMAIN done : done[e] \in 1 .. k
      /\ \A i, j \in DOMAIN done : i < j => done[i] < done[j]
  BY DEF Chain
<1>2. /\ \A i : Expected(NoFrame, i, r, rx.snum, done, k)
      /\ \A i : Expected(NoFrame, i, r, rx.snum, all, k)
      /\ Older(NoFrame, r, air, a) /\ Older(NoFrame, r, tx, t)
  BY Zenon DEF Expected, Older
(* What is newer than rx is still to come, and rx itself is the last.      *)
<1>3. ASSUME NEW x, NEW i \in Nat, Older(rx, r, x, i), Expected(x, i, d, prev, done, k), r <= i
      PROVE  Expected(x, i, r, rx.snum, done, k)
  BY <1>1, <1>3 DEF Expected, Older
<1>4. /\ Expected(air, a, r, rx.snum, done, k) /\ Expected(tx, t, r, rx.snum, done, k)
  <2>1. r <= t BY <1>1
  <2> QED BY <1>1, <1>3, <2>1
<1>5. Chain(r, r, a, t, NoFrame, air, tx, rx.snum, done, k)
  <2>1. r <= r OBVIOUS
  <2> QED BY <1>1, <1>2, <1>4, <2>1 DEF Chain
<1>6. ASSUME Data(rx), rx.snum # prev
      PROVE  Chain(r, r, a, t, NoFrame, air, tx, rx.snum, all, k)
  <2>1. d < r /\ rx.body \in 1 .. k /\ \A e \in DOMAIN done : done[e] < rx.body
    BY <1>1, <1>6 DEF Expected
  <2>2. /\ n \in Nat /\ DOMAIN done = 1 .. n /\ DOMAIN all = 1 .. n + 1
        /\ all[n + 1] = rx.body /\ \A e \in 1 .. n : all[e] = done[e]
    <3>1. rx.body \in Nat BY <2>1
    <3> QED BY <3>1
  <2> HIDE DEF n, all
  <2>3. \A e \in DOMAIN all : all[e] \in 1 .. k /\ all[e] <= rx.body
    BY <1>1, <2>1, <2>2
  <2>4. \A i, j \in DOMAIN all : i < j => all[i] < all[j]
    <3> SUFFICES ASSUME NEW i \in 1 .. n + 1, NEW j \in 1 .. n + 1, i < j PROVE all[i] < all[j]
      BY <2>2
    <3>1. i \in 1 .. n BY <2>2
    <3>2. CASE j = n + 1 BY <2>1, <2>2, <3>1, <3>2
    <3>3. CASE j \in 1 .. n BY <1>1, <2>2, <3>1, <3>3
    <3> QED BY <2>2, <3>2, <3>3
  <2>5. ASSUME NEW x, NEW i \in Nat, Older(rx, r, x, i), r <= i,
               Expected(x, i, r, rx.snum, done, k)
        PROVE  Expected(x, i, r, rx.snum, all, k)
    <3> SUFFICES ASSUME x # NoFrame PROVE Expected(x, i, r, rx.snum, all, k) BY DEF Expected
    <3>1. /\ x.lifetime = 0 /\ (Data(x) => x.body \in 1 .. k)
          /\ Data(x) /\ r = i => x.snum = rx.snum
      BY <2>5 DEF Expected
    <3>2. Data(x) /\ r < i => rx.body < x.body BY <1>6, <2>5 DEF Older
    <3>3. r = i => x = rx BY <2>5 DEF Older
    <3>4. Data(x) /\ r < i => \A e \in DOMAIN all : all[e] < x.body
      <4> SUFFICES ASSUME Data(x), r < i, NEW e \in DOMAIN all PROVE all[e] < x.body OBVIOUS
      <4>1. all[e] \in Nat /\ rx.body \in Nat /\ x.body \in Nat BY <2>1, <2>3, <3>1
      <4> QED BY <2>3, <3>2, <4>1
    <3>5. Data(x) => \A e \in DOMAIN all : all[e] <= x.body
      <4> SUFFICES ASSUME Data(x), NEW e \in DOMAIN all PROVE all[e] <= x.body OBVIOUS
      <4>1. all[e] \in Nat /\ x.body \in Nat BY <2>3, <3>1
      <4> QED BY <2>3, <2>5, <3>3, <3>4, <4>1
    <3> QED BY <3>1, <3>4, <3>5 DEF Expected
  <2>6. Expected(air, a, r, rx.snum, all, k) /\ Expected(tx, t, r, rx.snum, all, k)
    <3>1. r <= t BY <1>1
    <3> QED BY <1>1, <1>4, <2>5, <3>1
  <2>7. r <= r OBVIOUS
  <2> QED BY <1>1, <1>2, <2>3, <2>4, <2>6, <2>7 DEF Chain
<1> QED BY <1>5, <1>6

-----------------------------------------------------------------------------
(* Two boards, n that has sent k payloads, and o that has sent l.          *)
Linked(n, k, o, l) == Ordered(n, k, o) /\ Ordered(o, l, n)

(* What most handlers do to a board n: its frames move on, or are dropped. *)
Onward(m, n) ==
  /\ m.tx_frame \in {n.tx_frame, NoFrame}
  /\ m.air \in {n.air, n.tx_frame, NoFrame}
  /\ m.rx \in {n.rx, NoFrame}
  /\ m.prev_s_num = n.prev_s_num /\ m.delivered = n.delivered

LEMMA OnwardLinked ==
  ASSUME NEW n, NEW m, NEW k \in Nat, NEW o, NEW l \in Nat,
         Linked(n, k, o, l), Onward(m, n)
  PROVE  Linked(m, k, o, l)
<1>1. Ordered(m, k, o)
  <2>1. PICK d \in Nat, r \in Nat, a \in Nat, t \in Nat :
          Chain(d, r, a, t, o.rx, n.air, n.tx_frame, o.prev_s_num, o.delivered, k)
    BY DEF Linked, Ordered
  <2>2. \E e \in Nat : Chain(d, r, e, t, o.rx, m.air, n.tx_frame, o.prev_s_num, o.delivered, k)
    <3>1. CASE m.air = n.air BY <2>1, <3>1
    <3>2. CASE m.air = n.tx_frame
      <4>1. Chain(d, r, t, t, o.rx, n.tx_frame, n.tx_frame, o.prev_s_num, o.delivered, k)
        BY <2>1, Moved
      <4> QED BY <3>2, <4>1
    <3>3. CASE m.air = NoFrame
      <4>1. Chain(d, r, a, t, o.rx, NoFrame, n.tx_frame, o.prev_s_num, o.delivered, k)
        BY <2>1, Moved
      <4> QED BY <3>3, <4>1
    <3> QED BY <3>1, <3>2, <3>3 DEF Onward
  <2>3. PICK e \in Nat :
          Chain(d, r, e, t, o.rx, m.air, n.tx_frame, o.prev_s_num, o.delivered, k)
    BY <2>2
  <2>4. Chain(d, r, e, t, o.rx, m.air, m.tx_frame, o.prev_s_num, o.delivered, k)
    <3>1. Chain(d, r, e, t, o.rx, m.air, NoFrame, o.prev_s_num, o.delivered, k)
      BY <2>3, Moved
    <3> QED BY <2>3, <3>1 DEF Onward
  <2> QED BY <2>4 DEF Ordered
<1>2. Ordered(o, l, m)
  <2>1. PICK d \in Nat, r \in Nat, a \in Nat, t \in Nat :
          Chain(d, r, a, t, n.rx, o.air, o.tx_frame, n.prev_s_num, n.delivered, l)
    BY DEF Linked, Ordered
  <2>2. Chain(d, r, a, t, NoFrame, o.air, o.tx_frame, n.prev_s_num, n.delivered, l)
    BY <2>1, Moved
  <2>3. Chain(d, r, a, t, m.rx, o.air, o.tx_frame, m.prev_s_num, m.delivered, l)
    BY <2>1, <2>2 DEF Onward
  <2> QED BY <2>3 DEF Ordered
<1> QED BY <1>1, <1>2 DEF Linked

LEMMA OnwardTwice ==
  ASSUME NEW n, NEW m, NEW x, Onward(m, n), Onward(x, m)
  PROVE  Onward(x, n)
BY DEF Onward

-----------------------------------------------------------------------------
(* The driver and the retransmit machine compose nothing.                  *)
LEMMA StartTxOnward ==
  ASSUME NEW n \in Board, NEW spi \in BOOLEAN
  PROVE  Onward(sx1262_start_tx(n, spi), n)
<1>1. CASE n.tx_mute \/ ~n.tx_done
  BY <1>1 DEF sx1262_start_tx, Onward
<1>2. CASE ~(n.tx_mute \/ ~n.tx_done) /\ ~spi
  <2>1. sx1262_start_tx(n, spi) = [n EXCEPT !.tx_done = FALSE]
    BY <1>2, Zenon DEF sx1262_start_tx
  <2> QED BY <2>1 DEF Board, Onward
<1>3. CASE ~(n.tx_mute \/ ~n.tx_done) /\ spi
  <2>1. sx1262_start_tx(n, spi) =
          [n EXCEPT !.tx_done = FALSE, !.mode = "TX", !.cmd = "NONE",
                    !.air = n.tx_frame, !.rx = NoFrame]
    BY <1>3, Zenon DEF sx1262_start_tx
  <2> QED BY <2>1 DEF Board, Onward
<1> QED BY <1>1, <1>2, <1>3

LEMMA StartRxOnward ==
  ASSUME NEW n \in Board, NEW keep \in BOOLEAN
  PROVE  Onward(sx1262_start_rx(n, keep), n)
<1>1. CASE n.mode = "TX" /\ keep
  <2>1. sx1262_start_rx(n, keep) = [n EXCEPT !.cmd = "NONE"]
    BY <1>1, Zenon DEF sx1262_start_rx
  <2> QED BY <2>1 DEF Board, Onward
<1>2. CASE ~(n.mode = "TX" /\ keep)
  <2>1. sx1262_start_rx(n, keep) =
          [n EXCEPT !.mode = "RX", !.cmd = "NONE", !.air = NoFrame, !.rx = NoFrame]
    BY <1>2, Zenon DEF sx1262_start_rx
  <2> QED BY <2>1 DEF Board, Onward
<1> QED BY <1>1, <1>2

LEMMA ChipInitOnward == ASSUME NEW n \in Board PROVE Onward(sx1262_init(n), n)
BY DEF sx1262_init, Board, Onward

LEMMA RetxStartOnward ==
  ASSUME NEW n \in Board, NEW spi \in BOOLEAN
  PROVE  Onward(tbfp_retx_start(n, spi), n)
<1> DEFINE s == sx1262_start_tx(n, spi)
           m == [s EXCEPT !.retx_cnt = TBFP_RETX_TRY_MAX, !.verdict = "pending",
                          !.tries = 0, !.cur = n.tx_frame]
           x == [m EXCEPT !.state = "WAIT_TX_DONE", !.retx_cnt = @ - 1, !.tries = 1]
           y == [m EXCEPT !.state = "IDLE"]
<1>1. s \in Board /\ Onward(s, n) BY StartTxSame, StartTxOnward
<1>2. tbfp_retx_start(n, spi) \in {x, y} BY Zenon DEF tbfp_retx_start
<1> HIDE DEF s
<1>3. Onward(x, s) /\ Onward(y, s) BY <1>1 DEF Board, Onward
<1> HIDE DEF x, y
<1> QED BY <1>1, <1>2, <1>3, OnwardTwice

LEMMA RetxProcOnward ==
  ASSUME NEW n, Sound(n), NEW late \in BOOLEAN, NEW spi \in BOOLEAN
  PROVE  Onward(tbfp_retx_proc(n, late, spi), n)
<1>1. n \in Board /\ n.state \in State BY DEF Sound, Board
<1>2. CASE n.state = "IDLE"
  <2> DEFINE s == sx1262_start_tx(n, spi)
             x == [s EXCEPT !.retx_cnt = @ - 1, !.state = "WAIT_TX_DONE", !.tries = @ + 1]
  <2>1. s \in Board /\ Onward(s, n) BY <1>1, StartTxSame, StartTxOnward
  <2>2. tbfp_retx_proc(n, late, spi) \in {n, s, x}
    BY <1>2, Zenon DEF tbfp_retx_proc, tbfp_proc_retx_idle
  <2> HIDE DEF s
  <2>3. Onward(x, s) BY <2>1 DEF Board, Onward
  <2>4. Onward(n, n) BY DEF Onward
  <2> HIDE DEF x
  <2> QED BY <2>1, <2>2, <2>3, <2>4, OnwardTwice
<1>3. CASE n.state = "WAIT_TX_DONE"
  <2>1. tbfp_retx_proc(n, late, spi) = tbfp_proc_retx_wait_tx_done(n, late)
    BY <1>3 DEF tbfp_retx_proc
  <2> DEFINE x == [n EXCEPT !.state = "WAIT_ACK", !.ack = "none"]
             y == [n EXCEPT !.state = "IDLE",
                            !.verdict = IF n.retx_cnt = 0 THEN "lack_tx_done" ELSE @]
             z == [n EXCEPT !.input = "TX_DONE_TIME_OUT"]
  <2>2. tbfp_proc_retx_wait_tx_done(n, late) \in {n, x, y, z}
    BY Zenon DEF tbfp_proc_retx_wait_tx_done
  <2>3. Onward(x, n) /\ Onward(y, n) /\ Onward(z, n) /\ Onward(n, n)
    BY <1>1 DEF Board, Onward
  <2> HIDE DEF x, y, z
  <2> QED BY <2>1, <2>2, <2>3
<1>4. CASE n.state = "WAIT_ACK"
  <2>1. tbfp_retx_proc(n, late, spi) = tbfp_proc_retx_wait_ack(n, late)
    BY <1>4 DEF tbfp_retx_proc
  <2> DEFINE x == [n EXCEPT !.state = "IDLE", !.verdict = "acked", !.retx_cnt = 0]
             y == [n EXCEPT !.state = "IDLE",
                            !.verdict = IF n.retx_cnt = 0 THEN "no_reply" ELSE @]
             z == [n EXCEPT !.input = "RX_ACK_TIME_OUT"]
  <2>2. tbfp_proc_retx_wait_ack(n, late) \in {n, x, y, z}
    BY Zenon DEF tbfp_proc_retx_wait_ack
  <2>3. Onward(x, n) /\ Onward(y, n) /\ Onward(z, n) /\ Onward(n, n)
    BY <1>1 DEF Board, Onward
  <2> HIDE DEF x, y, z
  <2> QED BY <2>1, <2>2, <2>3
<1> QED BY <1>1, <1>2, <1>3, <1>4 DEF State

-----------------------------------------------------------------------------
(* A frame composed with this body, after k payloads, makes them k2.       *)
Numbered(id, body, k, k2) == k <= k2 /\ (id \in {"TUNNEL", "CHAT"} => body \in k + 1 .. k2)

(* What a send leaves alone.                                               *)
Untaken(m, n) ==
  m.rx \in {n.rx, NoFrame} /\ m.prev_s_num = n.prev_s_num /\ m.delivered = n.delivered

(* A send composes the newest frame; a payload has the next number.        *)
LEMMA MakeHeaderLinked ==
  ASSUME NEW n \in Board, NEW id \in FrameId, NEW body \in Nat, NEW ack \in BOOLEAN,
         NEW k \in Nat, NEW k2 \in Nat, NEW o, NEW l \in Nat, Linked(n, k, o, l),
         Numbered(id, body, k, k2)
  PROVE  Linked(tbfp_make_header(n, id, body, 0, ack), k2, o, l)
<1> DEFINE f == [id |-> id, body |-> body, snum |-> n.s_num, lifetime |-> 0, ack_need |-> ack]
           m == tbfp_make_header(n, id, body, 0, ack)
<1>1. /\ m.tx_frame = f /\ m.air = n.air /\ m.rx = n.rx
      /\ m.prev_s_num = n.prev_s_num /\ m.delivered = n.delivered
  BY DEF tbfp_make_header, Board
<1>2. f.lifetime = 0 /\ k <= k2 /\ (Data(f) => f.body \in k + 1 .. k2)
  BY DEF Data, Numbered
<1> HIDE DEF m, f
<1>3. PICK d \in Nat, r \in Nat, a \in Nat, t \in Nat :
        Chain(d, r, a, t, o.rx, n.air, n.tx_frame, o.prev_s_num, o.delivered, k)
  BY DEF Linked, Ordered
<1>4. Chain(d, r, a, t + 1, o.rx, n.air, f, o.prev_s_num, o.delivered, k2)
  BY <1>2, <1>3, Composed
<1>5. Ordered(m, k2, o)
  <2>1. t + 1 \in Nat OBVIOUS
  <2> QED BY <1>1, <1>4, <2>1 DEF Ordered
<1>6. Ordered(o, l, m) BY <1>1 DEF Linked, Ordered
<1> QED BY <1>5, <1>6 DEF Linked, m

LEMMA SendLinked ==
  ASSUME NEW n, Sound(n), NEW id \in FrameId, NEW body \in Nat, NEW ack \in BOOLEAN,
         NEW spi \in BOOLEAN,
         NEW k \in Nat, NEW k2 \in Nat, NEW o, NEW l \in Nat, Linked(n, k, o, l),
         Numbered(id, body, k, k2)
  PROVE  /\ Linked(tbfp_send(n, id, body, 0, ack, spi), k2, o, l)
         /\ Untaken(tbfp_send(n, id, body, 0, ack, spi), n)
<1> DEFINE h == tbfp_make_header(n, id, body, 0, ack)
           m == tbfp_send(n, id, body, 0, ack, spi)
<1>1. n \in Board BY DEF Sound
<1>2. Linked(h, k2, o, l) BY <1>1, MakeHeaderLinked
<1>3. h.rx = n.rx /\ h.prev_s_num = n.prev_s_num /\ h.delivered = n.delivered
  BY <1>1 DEF tbfp_make_header, Board
<1>4. h \in Board BY MakeHeaderSound DEF Sound
<1>5. m \in {tbfp_retx_start(h, spi), sx1262_start_tx(h, spi)} BY DEF tbfp_send
<1> HIDE DEF h, m
<1>6. Onward(m, h) BY <1>4, <1>5, RetxStartOnward, StartTxOnward
<1>7. Linked(m, k2, o, l) BY <1>2, <1>6, OnwardLinked
<1>8. Untaken(m, n) BY <1>3, <1>6 DEF Onward, Untaken
<1> QED BY <1>7, <1>8 DEF m

(* A frame is taken: acknowledged, and its payload delivered if its serial *)
(* number is new.  m has taken the frame f out of the driver of n.         *)
LEMMA ProcFullLinked ==
  ASSUME NEW n, NEW m, Sound(m), NEW f \in Frame, NEW spi \in BOOLEAN,
         NEW k \in Nat, NEW o, NEW l \in Nat, Linked(n, k, o, l),
         n.rx = f, f # NoFrame, m.rx = NoFrame,
         m.tx_frame = n.tx_frame /\ m.air = n.air,
         m.prev_s_num = n.prev_s_num /\ m.delivered = n.delivered
  PROVE  Linked(tbfp_proc_full(m, f, spi), k, o, l)
<1> DEFINE checked == [m EXCEPT !.prev_s_num = f.snum]
           acked == IF f.ack_need THEN tbfp_send_ack(checked, f.snum, spi) ELSE checked
           all == Append(m.delivered, f.body)
(* What the chain to this board is after the frame, with and without its   *)
(* payload.                                                                *)
<1>1. PICK d \in Nat, r \in Nat, a \in Nat, t \in Nat :
        Chain(d, r, a, t, f, o.air, o.tx_frame, m.prev_s_num, m.delivered, l)
  BY DEF Linked, Ordered
<1>2. m \in Board /\ m.delivered \in Seq(Nat) /\ m.prev_s_num \in SerNum BY DEF Sound, Board
<1>3. f.snum \in SerNum /\ f.snum \in Nat /\ f.body \in Nat /\ f.ack_need \in BOOLEAN
      /\ f.id \in FrameId
  BY SnModAssumption DEF Frame, SerNum
<1>4. /\ Chain(r, r, a, t, NoFrame, o.air, o.tx_frame, f.snum, m.delivered, l)
      /\ Data(f) /\ f.snum # m.prev_s_num =>
           Chain(r, r, a, t, NoFrame, o.air, o.tx_frame, f.snum, all, l)
  BY <1>1, <1>2, Taken
<1>5. f.lifetime = 0 BY <1>1 DEF Chain, Expected
<1>6. checked \in Board /\ Sound(checked)
  <2>1. checked \in Board /\ RetxSame(checked, m) BY <1>2, <1>3 DEF Board, RetxSame
  <2> QED BY <2>1, RetxSameSound
<1>7. /\ checked.tx_frame = n.tx_frame /\ checked.air = n.air /\ checked.rx = NoFrame
      /\ checked.prev_s_num = f.snum /\ checked.delivered = m.delivered
  BY <1>2 DEF Board
<1>8. tbfp_proc_full(m, f, spi) =
        IF tbfp_check_flow_control(m.prev_s_num, f.snum)
        THEN tbfp_proc_payload(acked, f, spi) ELSE acked
  <2>1. ~(f.lifetime \in 1 .. 3) BY <1>5
  <2> QED BY <2>1, Zenon DEF tbfp_proc_full
<1> HIDE DEF checked
<1>9. Linked(checked, k, o, l) BY <1>4, <1>7 DEF Linked, Ordered
<1>10. /\ Linked(acked, k, o, l) /\ Sound(acked)
       /\ acked.rx = NoFrame /\ acked.prev_s_num = f.snum /\ acked.delivered = m.delivered
  <2>1. CASE ~f.ack_need BY <1>6, <1>7, <1>9, <2>1
  <2>2. CASE f.ack_need
    <3> DEFINE s == tbfp_send(checked, "ACK", f.snum, 0, FALSE, spi)
    <3>1. acked = s BY <2>2, Zenon DEF tbfp_send_ack
    <3>2. /\ "ACK" \in FrameId /\ k <= k /\ 0 \in Nat /\ FALSE \in BOOLEAN
          /\ Numbered("ACK", f.snum, k, k)
      BY DEF FrameId, Numbered
    <3>3. Linked(s, k, o, l) /\ Untaken(s, checked)
      BY <1>3, <1>6, <1>9, <3>2, SendLinked
    <3>4. Sound(s) BY <1>3, <1>6, <3>2, SendSound
    <3> HIDE DEF s
    <3> QED BY <1>7, <3>1, <3>3, <3>4 DEF Untaken
  <2> QED BY <1>3, <2>1, <2>2
<1> HIDE DEF acked
<1>11. acked \in Board BY <1>10 DEF Sound
<1>12. ASSUME tbfp_check_flow_control(m.prev_s_num, f.snum)
       PROVE  Linked(tbfp_proc_payload(acked, f, spi), k, o, l)
  <2>1. CASE f.id = "ACK"
    <3>1. tbfp_proc_payload(acked, f, spi) = tbfp_retx_ack(acked, f.body)
      BY <2>1 DEF tbfp_proc_payload
    <3>2. Onward(tbfp_retx_ack(acked, f.body), acked)
      BY <1>11 DEF tbfp_retx_ack, Board, Onward
    <3> QED BY <1>10, <3>1, <3>2, OnwardLinked
  <2>2. CASE f.id = "PING"
    <3>1. tbfp_proc_payload(acked, f, spi) = tbfp_send(acked, "PONG", 0, 0, FALSE, spi)
      BY <2>2 DEF tbfp_proc_payload
    <3>2. "PONG" \in FrameId /\ 0 \in Nat /\ FALSE \in BOOLEAN /\ Numbered("PONG", 0, k, k)
      BY DEF FrameId, Numbered
    <3>3. Linked(tbfp_send(acked, "PONG", 0, 0, FALSE, spi), k, o, l)
      BY <1>10, <3>2, SendLinked
    <3> QED BY <3>1, <3>3
  <2>3. CASE f.id = "PONG" BY <1>10, <2>3 DEF tbfp_proc_payload
  <2>4. CASE f.id \in {"TUNNEL", "CHAT"}
    <3> DEFINE x == [acked EXCEPT !.delivered = all]
    <3>1. tbfp_proc_payload(acked, f, spi) = x
      BY <1>10, <2>4 DEF tbfp_proc_payload
    <3>2. /\ x.tx_frame = acked.tx_frame /\ x.air = acked.air /\ x.rx = NoFrame
          /\ x.prev_s_num = f.snum /\ x.delivered = all
      <4> HIDE DEF all
      <4> QED BY <1>10, <1>11 DEF Board
    <3> HIDE DEF x, all
    <3>3. f.snum # m.prev_s_num
      <4>1. m.prev_s_num \in Nat BY <1>2, SnModAssumption DEF SerNum
      <4> QED BY <1>3, <1>12, <4>1 DEF tbfp_check_flow_control
    <3>4. Chain(r, r, a, t, NoFrame, o.air, o.tx_frame, f.snum, all, l)
      BY <1>4, <2>4, <3>3 DEF Data
    <3>5. Ordered(o, l, x) BY <3>2, <3>4, Zenon DEF Ordered
    <3>6. Ordered(x, k, o) BY <1>10, <3>2 DEF Linked, Ordered
    <3> QED BY <3>1, <3>5, <3>6 DEF Linked
  <2> QED BY <1>3, <2>1, <2>2, <2>3, <2>4 DEF FrameId
<1> QED BY <1>8, <1>10, <1>12

-----------------------------------------------------------------------------
(* The SX1262 task.                                                        *)
LEMMA DataAvalLinked ==
  ASSUME NEW n, Sound(n), NEW spi \in BOOLEAN,
         NEW k \in Nat, NEW o, NEW l \in Nat, Linked(n, k, o, l)
  PROVE  Linked(sx1262_proc_data_aval(n, spi), k, o, l)
<1> DEFINE m == [n EXCEPT !.rx = NoFrame, !.cmd = "NONE"]
<1>1. n \in Board /\ (n.rx = NoFrame \/ n.rx \in Frame) BY DEF Sound, Board
<1>2. Sound(m)
  <2>1. m \in Board /\ RetxSame(m, n) BY <1>1 DEF Board, Status, RetxSame
  <2> QED BY <2>1, RetxSameSound
<1>3. /\ m.tx_frame = n.tx_frame /\ m.air = n.air /\ m.rx = NoFrame
      /\ m.prev_s_num = n.prev_s_num /\ m.delivered = n.delivered
  BY <1>1 DEF Board
<1>4. sx1262_proc_data_aval(n, spi) =
        IF n.rx = NoFrame THEN m ELSE tbfp_proc_full(m, n.rx, spi)
  BY DEF sx1262_proc_data_aval
<1> HIDE DEF m
<1>5. CASE n.rx = NoFrame
  <2>1. Onward(m, n) BY <1>3 DEF Onward
  <2> QED BY <1>4, <1>5, <2>1, OnwardLinked
<1>6. CASE n.rx # NoFrame
  <2> DEFINE f == n.rx
  <2>1. f \in Frame /\ n.rx = f /\ f # NoFrame BY <1>1, <1>6
  <2> HIDE DEF f
  <2>2. Linked(tbfp_proc_full(m, f, spi), k, o, l) BY <1>2, <1>3, <2>1, ProcFullLinked
  <2> QED BY <1>4, <1>6, <2>2 DEF f
<1> QED BY <1>5, <1>6

LEMMA PollStatusLinked ==
  ASSUME NEW n, Sound(n), NEW spi \in BOOLEAN, NEW keep \in BOOLEAN, NEW hang \in BOOLEAN,
         NEW k \in Nat, NEW o, NEW l \in Nat, Linked(n, k, o, l)
  PROVE  Linked(sx1262_poll_status(n, spi, keep, hang), k, o, l)
<1> DEFINE got  == sx1262_proc_data_aval(n, spi)
           data == sx1262_start_rx(got, keep)
           free == [n EXCEPT !.tx_done = TRUE]
           told == tbfp_retx_tx_done(free)
           done == sx1262_start_rx(told, keep)
           served == CASE n.cmd = "DATA_AVAIL" -> data
                       [] n.cmd = "TX_DONE" -> done
                       [] OTHER -> n
<1>1. Linked(data, k, o, l) /\ Sound(data)
  <2>1. Linked(got, k, o, l) /\ Sound(got) /\ got \in Board
    BY DataAvalLinked, DataAvalSound DEF Sound
  <2> HIDE DEF got
  <2> QED BY <2>1, StartRxOnward, StartRxSound, OnwardLinked
<1>2. Linked(done, k, o, l) /\ Sound(done)
  <2>1. Sound(free) /\ free \in Board BY TxDoneFlagSound DEF Sound
  <2>2. Onward(free, n)
    <3>1. n \in Board BY DEF Sound
    <3> QED BY <3>1 DEF Board, Onward
  <2> HIDE DEF free
  <2>3. Sound(told) /\ told \in Board BY <2>1, RetxTxDoneSound DEF Sound
  <2>4. Onward(told, free) BY <2>1 DEF tbfp_retx_tx_done, Board, Onward
  <2> HIDE DEF told
  <2>5. Onward(done, told) /\ Sound(done) BY <2>3, StartRxOnward, StartRxSound
  <2>6. Onward(told, n) BY <2>2, <2>4, OnwardTwice
  <2> HIDE DEF done
  <2>7. Onward(done, n) BY <2>5, <2>6, OnwardTwice
  <2> QED BY <2>5, <2>7, OnwardLinked
<1>3. Linked(served, k, o, l) /\ Sound(served)
  <2> HIDE DEF data, done
  <2> QED BY <1>1, <1>2
<1>4. sx1262_poll_status(n, spi, keep, hang) = sx1262_proc_chip_mode(served, n.mode, hang)
  BY Zenon DEF sx1262_poll_status
<1> HIDE DEF served
<1>5. sx1262_proc_chip_mode(served, n.mode, hang)
        \in {served, [served EXCEPT !.tx_done = TRUE], sx1262_init(served)}
  BY Zenon DEF sx1262_proc_chip_mode
<1>6. served \in Board BY <1>3 DEF Sound
<1>7. /\ Onward(served, served) /\ Onward([served EXCEPT !.tx_done = TRUE], served)
      /\ Onward(sx1262_init(served), served)
  BY <1>6, ChipInitOnward DEF Board, Onward
<1> QED BY <1>3, <1>4, <1>5, <1>7, OnwardLinked, Zenon

LEMMA ProcessLinked ==
  ASSUME NEW n, Sound(n), NEW due \in BOOLEAN,
         NEW spi \in BOOLEAN, NEW keep \in BOOLEAN, NEW hang \in BOOLEAN,
         NEW k \in Nat, NEW o, NEW l \in Nat, Linked(n, k, o, l)
  PROVE  Linked(sx1262_process(n, due, k + 1, spi, keep, hang),
                k + (IF is_chunk_sent(n, due) THEN 1 ELSE 0), o, l)
<1> DEFINE m == lora_transmit_from_queue(n, due, k + 1, spi)
           k2 == k + (IF is_chunk_sent(n, due) THEN 1 ELSE 0)
<1>1. Linked(m, k2, o, l) /\ Sound(m) /\ k2 \in Nat
  <2>1. CASE ~is_chunk_sent(n, due)
    <3>1. m = n /\ k2 = k BY <2>1 DEF lora_transmit_from_queue
    <3> QED BY <3>1
  <2>2. CASE is_chunk_sent(n, due)
    <3>1. m = tbfp_send(n, "TUNNEL", k + 1, 0, TRUE, spi) /\ k2 = k + 1
      BY <2>2 DEF lora_transmit_from_queue
    <3>2. /\ "TUNNEL" \in FrameId /\ k + 1 \in Nat /\ 0 \in Nat
          /\ Numbered("TUNNEL", k + 1, k, k + 1)
      BY DEF FrameId, Numbered
    <3>3. Linked(tbfp_send(n, "TUNNEL", k + 1, 0, TRUE, spi), k + 1, o, l)
      BY <3>2, SendLinked
    <3>4. Sound(tbfp_send(n, "TUNNEL", k + 1, 0, TRUE, spi)) BY <3>2, SendSound
    <3> QED BY <3>1, <3>2, <3>3, <3>4
  <2> QED BY <2>1, <2>2
<1>2. sx1262_process(n, due, k + 1, spi, keep, hang) = sx1262_poll_status(m, spi, keep, hang)
  BY DEF sx1262_process
<1> HIDE DEF m, k2
<1>3. Linked(sx1262_poll_status(m, spi, keep, hang), k2, o, l) BY <1>1, PollStatusLinked
<1> QED BY <1>2, <1>3 DEF k2

-----------------------------------------------------------------------------
(* The steps of the link.  Boards b and o.                                 *)
LEMMA OrderInit ==
  ASSUME Init
  PROVE  Spared /\ AllOrdered
<1>1. \A p \in Boards : node[p] = board_init /\ sent[p] = 0 BY DEF Init
<1>2. Spared
  <2>1. load \in Loads /\ user = load.orders BY DEF Init
  <2>2. user \in Nat BY InitInv DEF IInv, TypeOK
  <2> QED BY <1>1, <2>1, <2>2 DEF Spared
<1>3. /\ board_init.rx = NoFrame /\ board_init.air = NoFrame /\ board_init.tx_frame = NoFrame
      /\ board_init.prev_s_num = 0 /\ board_init.delivered = << >>
  BY DEF board_init
<1>4. Chain(0, 0, 0, 0, NoFrame, NoFrame, NoFrame, 0, << >>, 0)
  BY DEF Chain, Older, Expected
<1>5. Ordered(board_init, 0, board_init)
  BY <1>3, <1>4 DEF Ordered
<1> QED BY <1>1, <1>2, <1>5 DEF AllOrdered

(* A step of one board b.                                                  *)
LEMMA OneBoardOrdered ==
  ASSUME IInv, NEW b \in Boards, NEW o \in Boards, b # o, Boards = {b, o},
         NEW m, node' = [node EXCEPT ![b] = m], NEW s, sent' = [sent EXCEPT ![b] = s],
         Linked(m, s, node[o], sent[o])
  PROVE  AllOrdered'
<1>1. /\ node'[b] = m /\ node'[o] = node[o] /\ sent'[b] = s /\ sent'[o] = sent[o]
  BY DEF IInv, TypeOK
<1>2. Ordered(node'[b], sent'[b], node'[o]) /\ Ordered(node'[o], sent'[o], node'[b])
  BY <1>1 DEF Linked
<1> QED BY <1>2 DEF AllOrdered

LEMMA OneBoardOnward ==
  ASSUME IInv, NEW b \in Boards, NEW o \in Boards, b # o, Boards = {b, o},
         Linked(node[b], sent[b], node[o], sent[o]),
         NEW m, node' = [node EXCEPT ![b] = m], sent' = sent, Onward(m, node[b])
  PROVE  AllOrdered'
<1>1. sent[b] \in Nat /\ sent[o] \in Nat /\ sent' = [sent EXCEPT ![b] = sent[b]]
  BY DEF IInv, TypeOK
<1>2. Linked(m, sent[b], node[o], sent[o]) BY <1>1, OnwardLinked
<1> QED BY <1>1, <1>2, OneBoardOrdered

(* A board restarts: its own frames are gone, and none is on its way to it *)
(* but acknowledges and pings.                                             *)
LEMMA RestartOrdered ==
  ASSUME IInv, Spared, NEW b \in Boards, NEW o \in Boards, b # o, Boards = {b, o},
         Linked(node[b], sent[b], node[o], sent[o]), Restart(b)
  PROVE  AllOrdered'
<1> DEFINE n == node[b]  v == node[o]
           m == [board_init EXCEPT !.delivered = n.delivered]
<1>1. /\ m.rx = NoFrame /\ m.air = NoFrame /\ m.tx_frame = NoFrame
      /\ m.prev_s_num = 0 /\ m.delivered = n.delivered
  BY DEF board_init
<1>2. node' = [node EXCEPT ![b] = m] /\ sent' = sent BY DEF Restart
<1>3. sent[b] \in Nat /\ sent' = [sent EXCEPT ![b] = sent[b]] BY <1>2 DEF IInv, TypeOK
<1>4. sent[o] = 0 BY DEF Spared, Restart
<1> HIDE DEF m
<1>5. Ordered(m, sent[b], v)
  <2>1. PICK d \in Nat, r \in Nat, a \in Nat, t \in Nat :
          Chain(d, r, a, t, v.rx, n.air, n.tx_frame, v.prev_s_num, v.delivered, sent[b])
    BY DEF Linked, Ordered
  <2>2. Chain(d, r, a, t, v.rx, NoFrame, n.tx_frame, v.prev_s_num, v.delivered, sent[b])
    BY <1>3, <2>1, Moved
  <2>3. Chain(d, r, a, t, v.rx, NoFrame, NoFrame, v.prev_s_num, v.delivered, sent[b])
    BY <1>3, <2>2, Moved
  <2> QED BY <1>1, <2>3 DEF Ordered
<1>6. Ordered(v, 0, m)
  <2>1. PICK d \in Nat, r \in Nat, a \in Nat, t \in Nat :
          Chain(d, r, a, t, n.rx, v.air, v.tx_frame, n.prev_s_num, n.delivered, 0)
    BY <1>4 DEF Linked, Ordered
  <2>2. Chain(d, r, a, t, NoFrame, v.air, v.tx_frame, n.prev_s_num, n.delivered, 0)
    BY <2>1, Moved
  <2>3. Chain(d, r, a, t, NoFrame, v.air, v.tx_frame, 0, n.delivered, 0)
    BY <2>2 DEF Chain, Expected
  <2> QED BY <1>1, <2>3 DEF Ordered
<1>7. Linked(m, sent[b], v, sent[o]) BY <1>4, <1>5, <1>6 DEF Linked
<1> QED BY <1>2, <1>3, <1>7, OneBoardOrdered

(* A frame ends on air; the other board has received it, or not.           *)
LEMMA TxEndOrdered ==
  ASSUME IInv, NEW b \in Boards, NEW o \in Boards, b # o, Boards = {b, o},
         Linked(node[b], sent[b], node[o], sent[o]),
         NEW heard \in SUBSET Boards, TxEnd(b, heard)
  PROVE  AllOrdered'
<1> DEFINE n == node[b]  v == node[o]  k == sent[b]
<1>1. n \in Board /\ v \in Board /\ k \in Nat /\ sent' = sent
  BY DEF IInv, TypeOK, TxEnd
<1>2. /\ node'[b] = [n EXCEPT !.mode = "STBY_RC", !.cmd = "TX_DONE", !.air = NoFrame]
      /\ node'[o] = IF o \in heard THEN Receive(v, n.air) ELSE v
  BY DEF TxEnd
<1>3. /\ node'[b].air = NoFrame /\ node'[b].tx_frame = n.tx_frame /\ node'[b].rx = n.rx
      /\ node'[b].prev_s_num = n.prev_s_num /\ node'[b].delivered = n.delivered
  BY <1>1, <1>2 DEF Board
<1>4. /\ node'[o].air = v.air /\ node'[o].tx_frame = v.tx_frame
      /\ node'[o].rx = IF o \in heard THEN n.air ELSE v.rx
      /\ node'[o].prev_s_num = v.prev_s_num /\ node'[o].delivered = v.delivered
  BY <1>1, <1>2 DEF Board, Receive
<1>5. Ordered(node'[b], k, node'[o])
  <2>1. PICK d \in Nat, r \in Nat, a \in Nat, t \in Nat :
          Chain(d, r, a, t, v.rx, n.air, n.tx_frame, v.prev_s_num, v.delivered, k)
    BY DEF Linked, Ordered
  <2>2. \E e \in Nat :
          Chain(d, e, a, t, node'[o].rx, n.air, n.tx_frame, v.prev_s_num, v.delivered, k)
    <3>1. Chain(d, a, a, t, n.air, n.air, n.tx_frame, v.prev_s_num, v.delivered, k)
      BY <1>1, <2>1, Moved
    <3> QED BY <1>4, <2>1, <3>1
  <2>3. PICK e \in Nat :
          Chain(d, e, a, t, node'[o].rx, n.air, n.tx_frame, v.prev_s_num, v.delivered, k)
    BY <2>2
  <2>4. Chain(d, e, a, t, node'[o].rx, NoFrame, n.tx_frame, v.prev_s_num, v.delivered, k)
    BY <1>1, <2>3, Moved
  <2> QED BY <1>3, <1>4, <2>4 DEF Ordered
<1>6. Ordered(node'[o], sent[o], node'[b])
  BY <1>3, <1>4 DEF Linked, Ordered
<1> QED BY <1>1, <1>5, <1>6 DEF AllOrdered

(* A command is one of the user's, and only "mute" sends nothing.          *)
LEMMA ConsoleFacts ==
  ASSUME NEW b \in Boards, ConsoleTask(b)
  PROVE  /\ user > 0 /\ user' = user - 1 /\ load' = load
         /\ load.console \subseteq {"mute"} => sent' = sent
<1>1. \A id, lifetime, ack :
        ConsoleSend(b, id, lifetime, ack) => user > 0 /\ user' = user - 1 /\ load' = load
  BY DEF ConsoleSend
<1>2. \A mute : ConsoleMute(b, mute) => user > 0 /\ user' = user - 1 /\ load' = load /\ sent' = sent
  BY DEF ConsoleMute
<1> QED BY <1>1, <1>2 DEF ConsoleTask

LEMMA SpareKept ==
  ASSUME IInv, Spared, NoRelay, ReceiversStay, [Next]_vars
  PROVE  Spared'
<1>1. load' = load /\ user' <= user
  <2>1. user \in Nat BY DEF IInv, TypeOK
  <2>2. ASSUME NEW b \in Boards, ConsoleTask(b) PROVE load' = load /\ user' <= user
    BY <2>1, <2>2, ConsoleFacts
  <2>3. CASE UNCHANGED <<load, user>> BY <2>1, <2>3
  <2> QED BY <2>2, <2>3 DEF Next, vars, Sx1262Task, Sx1262TaskSpiFault, Sx1262LinkLost,
             RetxTask, RetxTaskSpiFault, Restart, TxEnd
<1>2. load \in Loads /\ user <= load.orders /\ load.orders \in Nat /\ user \in Nat /\ user' \in Nat
  BY NextInv DEF Spared, IInv, TypeOK, Load
<1>3. ASSUME NEW r \in Restarting, NEW p \in Boards \ {r} PROVE sent'[p] = 0
  <2>1. sent[p] = 0 /\ load.chunks[p] = 0 /\ (load.orders = 0 \/ load.console \subseteq {"mute"})
    BY <1>2, <1>3 DEF Spared, ReceiversStay
  <2>2. ASSUME NEW b \in Boards, NEW due \in BOOLEAN, due => sent[b] < load.chunks[b],
               sent' = [sent EXCEPT ![b] = @ + (IF is_chunk_sent(node[b], due) THEN 1 ELSE 0)]
        PROVE  sent'[p] = 0
    BY <2>1, <2>2 DEF is_chunk_sent, IInv, TypeOK
  <2>3. ASSUME NEW b \in Boards, ConsoleTask(b) PROVE sent'[p] = 0
    <3>1. CASE load.orders = 0 BY <1>2, <2>3, <3>1, ConsoleFacts
    <3>2. CASE load.console \subseteq {"mute"} BY <2>1, <2>3, <3>2, ConsoleFacts
    <3> QED BY <2>1, <3>1, <3>2
  <2>4. CASE UNCHANGED sent BY <2>1, <2>4
  <2> QED BY <2>2, <2>3, <2>4 DEF Next, vars, Sx1262Task, Sx1262TaskSpiFault, Sx1262LinkLost,
             RetxTask, RetxTaskSpiFault, Restart, TxEnd
<1> QED BY <1>1, <1>2, <1>3 DEF Spared

LEMMA OrderNext ==
  ASSUME NEW b \in Boards, NEW o \in Boards, b # o, Boards = {b, o},
         NoRelay, OrderInv
  PROVE  /\ \A due, keep, hang \in BOOLEAN : Sx1262Task(b, due, keep, hang) => AllOrdered'
         /\ \A due, keep \in BOOLEAN : Sx1262TaskSpiFault(b, due, keep) => AllOrdered'
         /\ Sx1262LinkLost(b) => AllOrdered'
         /\ \A late \in BOOLEAN : RetxTask(b, late) => AllOrdered'
         /\ RetxTaskSpiFault(b) => AllOrdered'
         /\ ConsoleTask(b) => AllOrdered'
         /\ Restart(b) => AllOrdered'
         /\ \A heard \in SUBSET Boards : TxEnd(b, heard) => AllOrdered'
<1> DEFINE n == node[b]  k == sent[b]
<1>1. /\ IInv /\ Spared /\ Sound(n) /\ n \in Board /\ k \in Nat /\ sent[o] \in Nat
      /\ sent \in [Boards -> Nat]
  BY DEF OrderInv, IInv, TypeOK, Sound
<1>2. Linked(n, k, node[o], sent[o]) BY DEF OrderInv, AllOrdered, Linked
<1>3. ASSUME NEW due \in BOOLEAN, NEW spi \in BOOLEAN, NEW keep \in BOOLEAN, NEW hang \in BOOLEAN,
             node' = [node EXCEPT ![b] = sx1262_process(@, due, sent[b] + 1, spi, keep, hang)],
             sent' = [sent EXCEPT ![b] = @ + (IF is_chunk_sent(node[b], due) THEN 1 ELSE 0)]
      PROVE  AllOrdered'
  <2> DEFINE m == sx1262_process(n, due, k + 1, spi, keep, hang)
             s == k + (IF is_chunk_sent(n, due) THEN 1 ELSE 0)
  <2>1. Linked(m, s, node[o], sent[o]) BY <1>1, <1>2, ProcessLinked
  <2>2. node' = [node EXCEPT ![b] = m] /\ sent' = [sent EXCEPT ![b] = s] BY <1>3
  <2> HIDE DEF m, s
  <2> QED BY <1>1, <2>1, <2>2, OneBoardOrdered
<1>4. ASSUME NEW due \in BOOLEAN, NEW keep \in BOOLEAN, NEW hang \in BOOLEAN,
             Sx1262Task(b, due, keep, hang)
      PROVE  AllOrdered'
  BY <1>3, <1>4 DEF Sx1262Task
<1>5. ASSUME NEW due \in BOOLEAN, NEW keep \in BOOLEAN, Sx1262TaskSpiFault(b, due, keep)
      PROVE  AllOrdered'
  BY <1>3, <1>5 DEF Sx1262TaskSpiFault
<1>6. ASSUME NEW m, node' = [node EXCEPT ![b] = m], sent' = sent, Onward(m, n)
      PROVE  AllOrdered'
  BY <1>1, <1>2, <1>6, OneBoardOnward
<1>7. ASSUME Sx1262LinkLost(b) PROVE AllOrdered'
  <2>1. Onward(sx1262_init(n), n) BY <1>1, ChipInitOnward
  <2>2. node' = [node EXCEPT ![b] = sx1262_init(n)] /\ sent' = sent BY <1>7 DEF Sx1262LinkLost
  <2> QED BY <1>6, <2>1, <2>2
<1>8. ASSUME NEW late \in BOOLEAN, RetxTask(b, late) PROVE AllOrdered'
  <2>1. Onward(tbfp_retx_proc(n, late, TRUE), n) BY <1>1, RetxProcOnward
  <2>2. node' = [node EXCEPT ![b] = tbfp_retx_proc(n, late, TRUE)] /\ sent' = sent
    BY <1>8 DEF RetxTask
  <2> QED BY <1>6, <2>1, <2>2
<1>9. ASSUME RetxTaskSpiFault(b) PROVE AllOrdered'
  <2>1. Onward(tbfp_retx_proc(n, FALSE, FALSE), n) BY <1>1, RetxProcOnward
  <2>2. node' = [node EXCEPT ![b] = tbfp_retx_proc(n, FALSE, FALSE)] /\ sent' = sent
    BY <1>9 DEF RetxTaskSpiFault
  <2> QED BY <1>6, <2>1, <2>2
<1>10. ASSUME ConsoleTask(b) PROVE AllOrdered'
  <2>1. ASSUME NEW id \in FrameId, NEW ack \in BOOLEAN, ConsoleSend(b, id, 0, ack)
        PROVE  AllOrdered'
    <3> DEFINE m == tbfp_send(n, id, k + 1, 0, ack, TRUE)  s == k + 1
    <3>1. s \in Nat /\ Numbered(id, s, k, s) BY <1>1 DEF Numbered
    <3>2. Linked(m, s, node[o], sent[o]) BY <1>1, <1>2, <3>1, SendLinked
    <3>3. node' = [node EXCEPT ![b] = m] /\ sent' = [sent EXCEPT ![b] = s]
      BY <2>1 DEF ConsoleSend
    <3> HIDE DEF m, s
    <3> QED BY <1>1, <3>2, <3>3, OneBoardOrdered
  <2>2. ASSUME NEW mute \in BOOLEAN, ConsoleMute(b, mute) PROVE AllOrdered'
    <3> DEFINE m == [n EXCEPT !.tx_mute = mute]
    <3>1. Onward(m, n) BY <1>1 DEF Board, Onward
    <3>2. node' = [node EXCEPT ![b] = m] /\ sent' = sent
      BY <2>2 DEF ConsoleMute, OrderInv, IInv, TypeOK
    <3> HIDE DEF m
    <3> QED BY <1>6, <3>1, <3>2
  <2>3. "relay" \notin load.console BY <1>1 DEF NoRelay, Spared
  <2>4. "PING" \in FrameId /\ "CHAT" \in FrameId BY DEF FrameId
  <2> QED BY <1>10, <2>1, <2>2, <2>3, <2>4 DEF ConsoleTask
<1>11. Restart(b) => AllOrdered' BY <1>1, <1>2, RestartOrdered
<1>12. ASSUME NEW heard \in SUBSET Boards, TxEnd(b, heard) PROVE AllOrdered'
  BY <1>1, <1>2, <1>12, TxEndOrdered
<1> QED BY <1>4, <1>5, <1>7, <1>8, <1>9, <1>10, <1>11, <1>12

(* Between two boards that do not relay, and whose receiver does not       *)
(* restart, the application gets what was sent in order, and nothing twice *)
(* (tbfp_check_flow_control, tbfp_proc_full, lora_transmit_from_queue):    *)
(* whatever the width of the serial number, the number of transmissions,   *)
(* the loads, the losses, the SPI faults and the restarts of the sender.   *)
THEOREM InOrderOnceHolds ==
  ASSUME NEW b, NEW o, b # o, Boards = {b, o}, NoRelay, ReceiversStay
  PROVE  Spec => []InOrderOnce
<1>1. Init => OrderInv BY InitInv, OrderInit DEF OrderInv
<1>2. OrderInv /\ [Next]_vars => OrderInv'
  <2> SUFFICES ASSUME OrderInv, [Next]_vars PROVE OrderInv' OBVIOUS
  <2>1. IInv' BY NextInv DEF OrderInv
  <2>2. Spared' BY SpareKept DEF OrderInv
  <2>3. AllOrdered'
    <3>1. CASE UNCHANGED vars BY <3>1 DEF vars, OrderInv, AllOrdered, Ordered
    <3>2. ASSUME NEW p \in Boards, NEW q \in Boards, p # q, Boards = {p, q} PROVE
           /\ \A due, keep, hang \in BOOLEAN : Sx1262Task(p, due, keep, hang) => AllOrdered'
           /\ \A due, keep \in BOOLEAN : Sx1262TaskSpiFault(p, due, keep) => AllOrdered'
           /\ Sx1262LinkLost(p) => AllOrdered'
           /\ \A late \in BOOLEAN : RetxTask(p, late) => AllOrdered'
           /\ RetxTaskSpiFault(p) => AllOrdered'
           /\ ConsoleTask(p) => AllOrdered'
           /\ Restart(p) => AllOrdered'
           /\ \A heard \in SUBSET Boards : TxEnd(p, heard) => AllOrdered'
      BY <3>2, OrderNext
    <3>3. \A p \in Boards : \E q \in Boards : p # q /\ Boards = {p, q} OBVIOUS
    <3> HIDE DEF AllOrdered
    <3>4. CASE Next BY <3>2, <3>3, <3>4 DEF Next
    <3> QED BY <3>1, <3>4
  <2> QED BY <2>1, <2>2, <2>3 DEF OrderInv
<1>3. OrderInv => InOrderOnce
  <2> SUFFICES ASSUME OrderInv, NEW p \in Boards, NEW i \in DOMAIN node[p].delivered,
                      NEW j \in DOMAIN node[p].delivered, i < j
               PROVE  node[p].delivered[i] < node[p].delivered[j]
    BY DEF InOrderOnce
  <2>1. PICK q \in Boards : q # p OBVIOUS
  <2>2. Ordered(node[q], sent[q], node[p]) BY <2>1 DEF OrderInv, AllOrdered
  <2> QED BY <2>2 DEF Ordered, Chain
<1> QED BY <1>1, <1>2, <1>3, PTL DEF Spec

-----------------------------------------------------------------------------
(***************************************************************************)
(* When an acknowledge matches, the payload was delivered.                 *)
(*                                                                         *)
(* The newest serial number of a sender, expected_ser_num, is that of      *)
(* tx_frame alone; the numbers of its frames elsewhere are at most that    *)
(* (Line).  A receiver acknowledges a number when it has delivered the     *)
(* frame or refuses it as one it took last, hence delivered before; so an  *)
(* acknowledge of the newest number, wherever it is, answers the frame     *)
(* given to tbfp_retx_start last, and that one was delivered (Answer).     *)
(* Numbers only compare like this until they come round: NoWrap.           *)
(***************************************************************************)

Has(done, body) == \E i \in DOMAIN done : done[i] = body

(* Only payloads are acknowledged or relayed.                              *)
Plain(f) == f # NoFrame /\ (f.ack_need \/ f.lifetime # 0) => Data(f)

(* A frame x of a sender on its way to a receiver that took prev last: not *)
(* an older one, and taken already if it has the number prev.  The newest  *)
(* number, e, is that of tx alone.                                         *)
OnItsWay(x, e, tx, prev, done) ==
  x # NoFrame =>
    /\ x.snum \in 1 .. e /\ prev <= x.snum
    /\ x.snum = e => x = tx
    /\ x.snum = prev /\ Data(x) => Has(done, x.body)

NotAfter(x, y) ==
  x # NoFrame /\ y # NoFrame => x.snum <= y.snum /\ (x.snum = y.snum => x = y)

(* The frames of a sender with s_num s, expected_ser_num e, and cur given  *)
(* to tbfp_retx_start last: tx, air, and rx at the receiver.               *)
Line(s, e, cur, tx, air, rx, prev, done) ==
  /\ e = s - 1 /\ prev < s
  /\ tx # NoFrame => tx.snum = e /\ (tx.ack_need => cur = tx)
  /\ OnItsWay(tx, e, tx, prev, done)
  /\ OnItsWay(air, e, tx, prev, done)
  /\ OnItsWay(rx, e, tx, prev, done)
  /\ NotAfter(rx, air)

Known(cur, done) == cur # NoFrame /\ Has(done, cur.body)

(* An acknowledge of the newest frame answers cur, which was delivered.    *)
Answered(num, e, cur, done) == num <= e /\ (num = e => Known(cur, done))
Answer(f, e, cur, done) == f # NoFrame /\ f.id = "ACK" => Answered(f.body, e, cur, done)

(* A matching acknowledge counts while the machine waits for one, or has   *)
(* ended its wait.                                                         *)
Mine(n) == n.ack = "mine" /\ (n.state = "WAIT_ACK" \/ n.verdict = "acked")

(* From board n to board o, which has delivered done; n has the frame g in *)
(* hand.                                                                   *)
Way(n, o, g, done) ==
  /\ Line(n.s_num, n.expected_ser_num, n.cur, n.tx_frame, n.air,
          o.rx, o.prev_s_num, done)
  /\ Answer(o.tx_frame, n.expected_ser_num, n.cur, done)
  /\ Answer(o.air, n.expected_ser_num, n.cur, done)
  /\ Answer(n.rx, n.expected_ser_num, n.cur, done)
  /\ Answer(g, n.expected_ser_num, n.cur, done)
  /\ Plain(n.tx_frame) /\ Plain(n.air) /\ Plain(n.rx)
  /\ Plain(o.tx_frame) /\ Plain(o.air) /\ Plain(o.rx)
  /\ Mine(n) => Known(n.cur, done)

-----------------------------------------------------------------------------
(* What may happen to a line.  A frame is composed.                        *)
LEMMA LineComposed ==
  ASSUME NEW s \in Nat, NEW e \in Nat, NEW cur, NEW tx, NEW air, NEW rx, NEW prev \in Nat, NEW done,
         Line(s, e, cur, tx, air, rx, prev, done),
         NEW f, f.snum = s, NEW cur2, f.ack_need => cur2 = f
  PROVE  Line(s + 1, s, cur2, f, air, rx, prev, done)
<1>1. /\ e = s - 1 /\ prev < s /\ NotAfter(rx, air)
      /\ OnItsWay(air, e, tx, prev, done) /\ OnItsWay(rx, e, tx, prev, done)
  BY DEF Line
<1>2. OnItsWay(air, s, f, prev, done) /\ OnItsWay(rx, s, f, prev, done)
  BY <1>1 DEF OnItsWay
<1>3. OnItsWay(f, s, f, prev, done) BY <1>1 DEF OnItsWay
<1> QED BY <1>1, <1>2, <1>3 DEF Line

(* The frame in tx_frame goes on air; a frame on air, or a received one,   *)
(* is dropped; the frame on air arrives; the receiver forgets what it took *)
(* last.                                                                   *)
LEMMA LineMoved ==
  ASSUME NEW s \in Nat, NEW e \in Nat, NEW cur, NEW tx, NEW air, NEW rx, NEW prev \in Nat, NEW done,
         Line(s, e, cur, tx, air, rx, prev, done)
  PROVE  /\ Line(s, e, cur, tx, tx, rx, prev, done)
         /\ Line(s, e, cur, tx, NoFrame, rx, prev, done)
         /\ Line(s, e, cur, tx, air, NoFrame, prev, done)
         /\ Line(s, e, cur, tx, air, air, prev, done)
         /\ Line(s, e, cur, tx, air, NoFrame, 0, done)
<1>1. /\ e = s - 1 /\ prev < s /\ NotAfter(rx, air)
      /\ tx # NoFrame => tx.snum = e /\ (tx.ack_need => cur = tx)
      /\ OnItsWay(tx, e, tx, prev, done)
      /\ OnItsWay(air, e, tx, prev, done) /\ OnItsWay(rx, e, tx, prev, done)
  BY DEF Line
<1>2. \A p : OnItsWay(NoFrame, e, tx, p, done) BY Zenon DEF OnItsWay
<1>3. \A x : NotAfter(x, NoFrame) /\ NotAfter(NoFrame, x) BY Zenon DEF NotAfter
<1>4. NotAfter(rx, tx) BY <1>1 DEF OnItsWay, NotAfter
<1>5. NotAfter(air, air) BY <1>1 DEF OnItsWay, NotAfter
<1>6. OnItsWay(tx, e, tx, 0, done) /\ OnItsWay(air, e, tx, 0, done) BY <1>1 DEF OnItsWay
<1>7. 0 < s BY <1>1
<1> QED BY <1>1, <1>2, <1>3, <1>4, <1>5, <1>6, <1>7 DEF Line

Grown(done, more) == \A body : Has(done, body) => Has(more, body)

(* The receiver takes the frame it has.                                    *)
LEMMA LineTaken ==
  ASSUME NEW s \in Nat, NEW e \in Nat, NEW cur, NEW tx, NEW air, NEW rx, NEW prev \in Nat, NEW done,
         Line(s, e, cur, tx, air, rx, prev, done), rx # NoFrame, Plain(rx),
         NEW more, Grown(done, more), Data(rx) => Has(more, rx.body)
  PROVE  /\ Line(s, e, cur, tx, air, NoFrame, rx.snum, more)
         /\ rx.ack_need => Answered(rx.snum, e, cur, more)
<1>1. /\ e = s - 1 /\ prev < s /\ NotAfter(rx, air)
      /\ tx # NoFrame => tx.snum = e /\ (tx.ack_need => cur = tx)
      /\ OnItsWay(tx, e, tx, prev, done)
      /\ OnItsWay(air, e, tx, prev, done) /\ OnItsWay(rx, e, tx, prev, done)
  BY DEF Line
<1>2. rx.snum \in 1 .. e /\ (rx.snum = e => rx = tx) BY <1>1 DEF OnItsWay
<1>3. OnItsWay(air, e, tx, rx.snum, more)
  <2> SUFFICES ASSUME air # NoFrame PROVE OnItsWay(air, e, tx, rx.snum, more) BY DEF OnItsWay
  <2>1. air.snum \in 1 .. e /\ (air.snum = e => air = tx) BY <1>1 DEF OnItsWay
  <2>2. rx.snum <= air.snum /\ (air.snum = rx.snum => air = rx) BY <1>1 DEF NotAfter
  <2> QED BY <2>1, <2>2 DEF OnItsWay
<1>4. OnItsWay(tx, e, tx, rx.snum, more)
  <2> SUFFICES ASSUME tx # NoFrame PROVE OnItsWay(tx, e, tx, rx.snum, more) BY DEF OnItsWay
  <2>1. tx.snum = e /\ e \in 1 .. e /\ rx.snum <= e BY <1>1, <1>2
  <2>2. tx.snum = rx.snum => rx = tx BY <1>2, <2>1
  <2> QED BY <2>1, <2>2 DEF OnItsWay
<1>5. OnItsWay(NoFrame, e, tx, rx.snum, more) /\ NotAfter(NoFrame, air)
  BY Zenon DEF OnItsWay, NotAfter
<1>6. rx.snum < s BY <1>1, <1>2
<1>7. ASSUME rx.ack_need PROVE Answered(rx.snum, e, cur, more)
  <2>1. Data(rx) BY <1>7 DEF Plain
  <2>2. rx.snum = e => cur = rx BY <1>1, <1>2, <1>7
  <2> QED BY <1>2, <2>1, <2>2 DEF Answered, Known
<1> QED BY <1>1, <1>3, <1>4, <1>5, <1>6, <1>7 DEF Line

(* An answer stays one when more is delivered, and when the sender sends.  *)
LEMMA AnswerGrows ==
  ASSUME NEW f, NEW e, NEW cur, NEW done, NEW more, Grown(done, more), Answer(f, e, cur, done)
  PROVE  Answer(f, e, cur, more)
BY DEF Answer, Answered, Known, Grown

LEMMA AnswerOld ==
  ASSUME NEW f, f \in Frame \/ f = NoFrame, NEW s \in Nat, NEW e \in Nat, e = s - 1,
         NEW cur, NEW cur2, NEW done, Answer(f, e, cur, done)
  PROVE  Answer(f, s, cur2, done)
<1> SUFFICES ASSUME f # NoFrame, f.id = "ACK" PROVE Answered(f.body, s, cur2, done)
  BY DEF Answer
<1>1. f.body \in Nat /\ f.body <= e BY DEF Answer, Answered, Frame
<1> QED BY <1>1 DEF Answered

-----------------------------------------------------------------------------
(* Most handlers compose nothing, and settle no frame but by an            *)
(* acknowledge that came while they waited.                                *)
Steady(m, n) ==
  /\ m.tx_frame = n.tx_frame /\ m.cur = n.cur
  /\ m.s_num = n.s_num /\ m.expected_ser_num = n.expected_ser_num
  /\ Mine(m) => Mine(n)

Keeps(m, n) == Onward(m, n) /\ Steady(m, n)

(* A send composes f.                                                      *)
Sends(m, n, f) ==
  /\ m.tx_frame = f /\ m.air \in {n.air, f, NoFrame}
  /\ m.rx \in {n.rx, NoFrame} /\ m.prev_s_num = n.prev_s_num /\ m.delivered = n.delivered
  /\ m.expected_ser_num = n.s_num /\ m.s_num = (n.s_num + 1) % SN_MOD
  /\ m.cur = IF f.ack_need THEN f ELSE n.cur
  /\ Mine(m) => Mine(n) /\ ~f.ack_need

(* The way between boards n and p, seen from n, on either side of it; n    *)
(* has room for c serial numbers.                                          *)
Sure(side, n, p, g, done, c) ==
  IF side = "sender" THEN Way(n, p, g, done) /\ n.s_num + c < SN_MOD
                     ELSE Way(p, n, g, done)

LEMMA KeepsSure ==
  ASSUME NEW side, NEW n \in Board, NEW m, NEW p \in Board, NEW g, NEW done, NEW c,
         Sure(side, n, p, g, done, c), Keeps(m, n)
  PROVE  Sure(side, m, p, g, done, c)
<1>1. /\ n.s_num \in Nat /\ n.expected_ser_num \in Nat /\ n.prev_s_num \in Nat
      /\ p.s_num \in Nat /\ p.expected_ser_num \in Nat /\ p.prev_s_num \in Nat
  BY SnModAssumption DEF Board, SerNum
<1>2. /\ m.tx_frame = n.tx_frame /\ m.cur = n.cur
      /\ m.s_num = n.s_num /\ m.expected_ser_num = n.expected_ser_num
      /\ m.prev_s_num = n.prev_s_num
      /\ m.air \in {n.air, n.tx_frame, NoFrame} /\ m.rx \in {n.rx, NoFrame}
      /\ Mine(m) => Mine(n)
  BY DEF Keeps, Onward, Steady
<1>3. /\ Plain(NoFrame)
      /\ \A e, cur : Answer(NoFrame, e, cur, done)
  BY Zenon DEF Plain, Answer
<1>4. CASE side = "sender"
  <2>1. Way(n, p, g, done) /\ n.s_num + c < SN_MOD BY <1>4 DEF Sure
  <2>2. Line(n.s_num, n.expected_ser_num, n.cur, n.tx_frame, m.air, p.rx, p.prev_s_num, done)
    <3>1. Line(n.s_num, n.expected_ser_num, n.cur, n.tx_frame, n.air, p.rx, p.prev_s_num, done)
      BY <2>1 DEF Way
    <3>2. /\ Line(n.s_num, n.expected_ser_num, n.cur, n.tx_frame, n.tx_frame, p.rx, p.prev_s_num, done)
          /\ Line(n.s_num, n.expected_ser_num, n.cur, n.tx_frame, NoFrame, p.rx, p.prev_s_num, done)
      BY <1>1, <3>1, LineMoved
    <3> QED BY <1>2, <3>1, <3>2
  <2>3. Way(m, p, g, done)
    BY <1>2, <1>3, <2>1, <2>2, Zenon DEF Way
  <2> QED BY <1>2, <1>4, <2>1, <2>3 DEF Sure
<1>5. CASE side # "sender"
  <2>1. Way(p, n, g, done) BY <1>5 DEF Sure
  <2>2. Line(p.s_num, p.expected_ser_num, p.cur, p.tx_frame, p.air, m.rx, n.prev_s_num, done)
    <3>1. Line(p.s_num, p.expected_ser_num, p.cur, p.tx_frame, p.air, n.rx, n.prev_s_num, done)
      BY <2>1 DEF Way
    <3>2. Line(p.s_num, p.expected_ser_num, p.cur, p.tx_frame, p.air, NoFrame, n.prev_s_num, done)
      BY <1>1, <3>1, LineMoved
    <3> QED BY <1>2, <3>1, <3>2
  <2>3. Way(p, m, g, done)
    BY <1>2, <1>3, <2>1, <2>2, Zenon DEF Way
  <2> QED BY <1>5, <2>3 DEF Sure
<1> QED BY <1>4, <1>5

LEMMA SendSure ==
  ASSUME NEW side, NEW n \in Board, NEW m, NEW p \in Board, NEW c \in Nat,
         NEW g, g \in Frame \/ g = NoFrame, NEW done,
         Sure(side, n, p, g, done, c + 1),
         NEW f, f.snum = n.s_num, Sends(m, n, f), Plain(f),
         side # "sender" => Answer(f, p.expected_ser_num, p.cur, done)
  PROVE  Sure(side, m, p, g, done, c)
<1>1. /\ n.s_num \in Nat /\ n.expected_ser_num \in Nat /\ n.prev_s_num \in Nat
      /\ p.s_num \in Nat /\ p.expected_ser_num \in Nat /\ p.prev_s_num \in Nat
  BY SnModAssumption DEF Board, SerNum
<1>2. /\ m.tx_frame = f /\ m.air \in {n.air, f, NoFrame} /\ m.rx \in {n.rx, NoFrame}
      /\ m.prev_s_num = n.prev_s_num /\ m.expected_ser_num = n.s_num
      /\ m.s_num = (n.s_num + 1) % SN_MOD
      /\ m.cur = IF f.ack_need THEN f ELSE n.cur
      /\ Mine(m) => Mine(n) /\ ~f.ack_need
  BY DEF Sends
<1>3. /\ Plain(NoFrame)
      /\ \A e, cur : Answer(NoFrame, e, cur, done)
  BY Zenon DEF Plain, Answer
<1>4. CASE side = "sender"
  <2>1. Way(n, p, g, done) /\ n.s_num + (c + 1) < SN_MOD BY <1>4 DEF Sure
  <2>2. m.s_num = n.s_num + 1 BY <1>1, <1>2, <2>1, SnModAssumption
  <2>3. Line(n.s_num + 1, n.s_num, m.cur, f, m.air, p.rx, p.prev_s_num, done)
    <3>1. Line(n.s_num, n.expected_ser_num, n.cur, n.tx_frame, n.air, p.rx, p.prev_s_num, done)
      BY <2>1 DEF Way
    <3>2. f.ack_need => m.cur = f BY <1>2
    <3>3. Line(n.s_num + 1, n.s_num, m.cur, f, n.air, p.rx, p.prev_s_num, done)
      BY <1>1, <3>1, <3>2, LineComposed
    <3>4. /\ Line(n.s_num + 1, n.s_num, m.cur, f, f, p.rx, p.prev_s_num, done)
          /\ Line(n.s_num + 1, n.s_num, m.cur, f, NoFrame, p.rx, p.prev_s_num, done)
      BY <1>1, <3>3, LineMoved
    <3> QED BY <1>2, <3>3, <3>4
  <2>4. n.expected_ser_num = n.s_num - 1 BY <2>1 DEF Way, Line
  <2>5. /\ Answer(p.tx_frame, n.s_num, m.cur, done) /\ Answer(p.air, n.s_num, m.cur, done)
        /\ Answer(n.rx, n.s_num, m.cur, done) /\ Answer(g, n.s_num, m.cur, done)
    <3>1. /\ Answer(p.tx_frame, n.expected_ser_num, n.cur, done)
          /\ Answer(p.air, n.expected_ser_num, n.cur, done)
          /\ Answer(n.rx, n.expected_ser_num, n.cur, done)
          /\ Answer(g, n.expected_ser_num, n.cur, done)
      BY <2>1 DEF Way
    <3>2. /\ p.tx_frame \in Frame \/ p.tx_frame = NoFrame
          /\ p.air \in Frame \/ p.air = NoFrame
          /\ n.rx \in Frame \/ n.rx = NoFrame
      BY DEF Board
    <3> QED BY <1>1, <2>4, <3>1, <3>2, AnswerOld
  <2>6. Mine(m) => Known(m.cur, done) BY <1>2, <2>1 DEF Way
  <2>7. Way(m, p, g, done)
    BY <1>2, <1>3, <2>1, <2>2, <2>3, <2>5, <2>6 DEF Way
  <2>8. m.s_num + c < SN_MOD BY <1>1, <2>1, <2>2, SnModAssumption
  <2> QED BY <1>4, <2>7, <2>8 DEF Sure
<1>5. CASE side # "sender"
  <2>1. Way(p, n, g, done) BY <1>5 DEF Sure
  <2>2. Line(p.s_num, p.expected_ser_num, p.cur, p.tx_frame, p.air, m.rx, n.prev_s_num, done)
    <3>1. Line(p.s_num, p.expected_ser_num, p.cur, p.tx_frame, p.air, n.rx, n.prev_s_num, done)
      BY <2>1 DEF Way
    <3>2. Line(p.s_num, p.expected_ser_num, p.cur, p.tx_frame, p.air, NoFrame, n.prev_s_num, done)
      BY <1>1, <3>1, LineMoved
    <3> QED BY <1>2, <3>1, <3>2
  <2>3. Way(p, m, g, done)
    BY <1>2, <1>3, <1>5, <2>1, <2>2, Zenon DEF Way
  <2> QED BY <1>5, <2>3 DEF Sure
<1> QED BY <1>4, <1>5

-----------------------------------------------------------------------------
(* The driver and the retransmit machine are steady.                       *)
LEMMA StartTxKeeps ==
  ASSUME NEW n \in Board, NEW spi \in BOOLEAN
  PROVE  Keeps(sx1262_start_tx(n, spi), n)
<1>1. CASE n.tx_mute \/ ~n.tx_done
  BY <1>1, StartTxOnward DEF sx1262_start_tx, Steady, Keeps
<1>2. CASE ~(n.tx_mute \/ ~n.tx_done) /\ ~spi
  <2>1. sx1262_start_tx(n, spi) = [n EXCEPT !.tx_done = FALSE]
    BY <1>2, Zenon DEF sx1262_start_tx
  <2>2. Steady([n EXCEPT !.tx_done = FALSE], n) BY DEF Board, Steady, Mine
  <2> QED BY <2>1, <2>2, StartTxOnward DEF Keeps
<1>3. CASE ~(n.tx_mute \/ ~n.tx_done) /\ spi
  <2> DEFINE m == [n EXCEPT !.tx_done = FALSE, !.mode = "TX", !.cmd = "NONE",
                            !.air = n.tx_frame, !.rx = NoFrame]
  <2>1. sx1262_start_tx(n, spi) = m BY <1>3, Zenon DEF sx1262_start_tx
  <2>2. Steady(m, n) BY DEF Board, Steady, Mine
  <2> HIDE DEF m
  <2> QED BY <2>1, <2>2, StartTxOnward DEF Keeps
<1> QED BY <1>1, <1>2, <1>3

LEMMA StartRxKeeps ==
  ASSUME NEW n \in Board, NEW keep \in BOOLEAN
  PROVE  Keeps(sx1262_start_rx(n, keep), n)
<1> DEFINE x == [n EXCEPT !.cmd = "NONE"]
           y == [n EXCEPT !.mode = "RX", !.cmd = "NONE", !.air = NoFrame, !.rx = NoFrame]
<1>1. Steady(x, n) /\ Steady(y, n) BY DEF Board, Steady, Mine
<1>2. sx1262_start_rx(n, keep) \in {x, y} BY Zenon DEF sx1262_start_rx
<1> HIDE DEF x, y
<1> QED BY <1>1, <1>2, StartRxOnward DEF Keeps

LEMMA ChipInitKeeps == ASSUME NEW n \in Board PROVE Keeps(sx1262_init(n), n)
<1>1. Steady(sx1262_init(n), n) BY DEF sx1262_init, Board, Steady, Mine
<1> QED BY <1>1, ChipInitOnward DEF Keeps

(* WAIT_ACK is entered without an acknowledge and left with the one that   *)
(* came in it.                                                             *)
LEMMA RetxProcKeeps ==
  ASSUME NEW n, Sound(n), NEW late \in BOOLEAN, NEW spi \in BOOLEAN
  PROVE  Keeps(tbfp_retx_proc(n, late, spi), n)
<1>1. n \in Board /\ n.state \in State BY DEF Sound, Board
<1>2. CASE n.state = "IDLE"
  <2> DEFINE s == sx1262_start_tx(n, spi)
             x == [s EXCEPT !.retx_cnt = @ - 1, !.state = "WAIT_TX_DONE", !.tries = @ + 1]
  <2>1. s \in Board /\ Steady(s, n) BY <1>1, StartTxSame, StartTxKeeps DEF Keeps
  <2>2. tbfp_retx_proc(n, late, spi) \in {n, s, x}
    BY <1>2, Zenon DEF tbfp_retx_proc, tbfp_proc_retx_idle
  <2> HIDE DEF s
  <2>3. Steady(x, s) BY <2>1 DEF Board, Steady, Mine
  <2>4. Steady(n, n) BY DEF Steady
  <2> HIDE DEF x
  <2>5. Steady(x, n) BY <2>1, <2>3 DEF Steady
  <2> QED BY <2>1, <2>2, <2>4, <2>5, RetxProcOnward DEF Keeps
<1>3. CASE n.state = "WAIT_TX_DONE"
  <2>1. tbfp_retx_proc(n, late, spi) = tbfp_proc_retx_wait_tx_done(n, late)
    BY <1>3 DEF tbfp_retx_proc
  <2> DEFINE x == [n EXCEPT !.state = "WAIT_ACK", !.ack = "none"]
             v == IF n.retx_cnt = 0 THEN "lack_tx_done" ELSE n.verdict
             y == [n EXCEPT !.state = "IDLE", !.verdict = v]
             z == [n EXCEPT !.input = "TX_DONE_TIME_OUT"]
  <2>2. tbfp_proc_retx_wait_tx_done(n, late) \in {n, x, y, z}
    BY Zenon DEF tbfp_proc_retx_wait_tx_done
  <2>3. v = "acked" => n.verdict = "acked" OBVIOUS
  <2> HIDE DEF v
  <2>4. Steady(x, n) /\ Steady(y, n) /\ Steady(z, n) /\ Steady(n, n)
    BY <1>1, <2>3 DEF Board, Steady, Mine
  <2> HIDE DEF x, y, z
  <2> QED BY <2>1, <2>2, <2>4, RetxProcOnward DEF Keeps
<1>4. CASE n.state = "WAIT_ACK"
  <2>1. tbfp_retx_proc(n, late, spi) = tbfp_proc_retx_wait_ack(n, late)
    BY <1>4 DEF tbfp_retx_proc
  <2> DEFINE x == [n EXCEPT !.state = "IDLE", !.verdict = "acked", !.retx_cnt = 0]
             v == IF n.retx_cnt = 0 THEN "no_reply" ELSE n.verdict
             y == [n EXCEPT !.state = "IDLE", !.verdict = v]
             z == [n EXCEPT !.input = "RX_ACK_TIME_OUT"]
  <2>2. tbfp_proc_retx_wait_ack(n, late) \in {n, x, y, z}
    BY Zenon DEF tbfp_proc_retx_wait_ack
  <2> HIDE DEF v
  <2>3. Steady(x, n) /\ Steady(y, n) /\ Steady(z, n) /\ Steady(n, n)
    BY <1>1, <1>4 DEF Board, Steady, Mine
  <2> HIDE DEF x, y, z
  <2> QED BY <2>1, <2>2, <2>3, RetxProcOnward DEF Keeps
<1> QED BY <1>1, <1>2, <1>3, <1>4 DEF State

-----------------------------------------------------------------------------
(* A send composes one frame, and gives it to the retransmit machine when  *)
(* it is to be acknowledged.                                               *)
Composes(n, id, body, lifetime, ack) ==
  [id |-> id, body |-> body, snum |-> n.s_num,
   lifetime |-> IF lifetime < 3 THEN lifetime ELSE 0, ack_need |-> ack]

LEMMA SendSends ==
  ASSUME NEW n, Sound(n), NEW id \in FrameId, NEW body \in Nat, NEW lifetime \in Nat,
         NEW ack \in BOOLEAN, NEW spi \in BOOLEAN
  PROVE  Sends(tbfp_send(n, id, body, lifetime, ack, spi), n,
               Composes(n, id, body, lifetime, ack))
<1> DEFINE f == Composes(n, id, body, lifetime, ack)
           h == tbfp_make_header(n, id, body, lifetime, ack)
           s == sx1262_start_tx(h, spi)
<1>1. n \in Board BY DEF Sound
<1>2. h \in Board BY MakeHeaderSound DEF Sound
<1>3. /\ h.tx_frame = f /\ h.air = n.air /\ h.rx = n.rx /\ h.cur = n.cur
      /\ h.prev_s_num = n.prev_s_num /\ h.delivered = n.delivered
      /\ h.expected_ser_num = n.s_num /\ h.s_num = (n.s_num + 1) % SN_MOD
      /\ Mine(h) = Mine(n)
  BY <1>1 DEF tbfp_make_header, Composes, Board, Mine
<1>4. f.ack_need = ack BY DEF Composes
<1> HIDE DEF h, f
<1>5. /\ s \in Board /\ Keeps(s, h) BY <1>2, StartTxSame, StartTxKeeps
<1>6. CASE ~ack
  <2>1. tbfp_send(n, id, body, lifetime, ack, spi) = s BY <1>6, Zenon DEF tbfp_send, h
  <2> HIDE DEF s
  <2>2. Sends(s, n, f) BY <1>3, <1>4, <1>5, <1>6 DEF Keeps, Onward, Steady, Sends
  <2> QED BY <2>1, <2>2 DEF f
<1>7. CASE ack
  <2> DEFINE m == [s EXCEPT !.retx_cnt = TBFP_RETX_TRY_MAX, !.verdict = "pending",
                            !.tries = 0, !.cur = h.tx_frame]
             x == [m EXCEPT !.state = "WAIT_TX_DONE", !.retx_cnt = @ - 1, !.tries = 1]
             y == [m EXCEPT !.state = "IDLE"]
  <2>1. tbfp_send(n, id, body, lifetime, ack, spi) \in {x, y}
    <3>1. tbfp_send(n, id, body, lifetime, ack, spi) = tbfp_retx_start(h, spi)
      BY <1>7, Zenon DEF tbfp_send, h
    <3>2. tbfp_retx_start(h, spi) \in {x, y} BY Zenon DEF tbfp_retx_start
    <3> HIDE DEF x, y
    <3> QED BY <3>1, <3>2
  <2> HIDE DEF s
  <2>2. ASSUME NEW r \in {x, y}
        PROVE  /\ r.tx_frame = s.tx_frame /\ r.air = s.air /\ r.rx = s.rx
               /\ r.prev_s_num = s.prev_s_num /\ r.delivered = s.delivered
               /\ r.expected_ser_num = s.expected_ser_num /\ r.s_num = s.s_num
               /\ r.cur = h.tx_frame /\ r.verdict = "pending" /\ r.state # "WAIT_ACK"
    <3>1. CASE r = x BY <1>5, <3>1 DEF Board
    <3>2. CASE r = y BY <1>5, <3>2 DEF Board
    <3> QED BY <3>1, <3>2
  <2>3. ASSUME NEW r \in {x, y} PROVE ~Mine(r)
    <3> HIDE DEF m, x, y
    <3> QED BY <2>2 DEF Mine
  <2> HIDE DEF m, x, y
  <2>4. ASSUME NEW r \in {x, y} PROVE Sends(r, n, f)
    <3>1. r.air \in {n.air, f, NoFrame} /\ r.tx_frame = f /\ r.rx \in {n.rx, NoFrame}
      BY <1>3, <1>5, <2>2 DEF Keeps, Onward, Steady
    <3> QED BY <1>3, <1>4, <1>5, <1>7, <2>2, <2>3, <3>1 DEF Keeps, Onward, Steady, Sends
  <2> QED BY <2>1, <2>4 DEF f
<1> QED BY <1>6, <1>7

LEMMA SendIsSure ==
  ASSUME NEW side, NEW n, Sound(n), NEW p \in Board, NEW c \in Nat,
         NEW g, g \in Frame \/ g = NoFrame, NEW done,
         Sure(side, n, p, g, done, c + 1),
         NEW id \in FrameId, NEW body \in Nat, NEW lifetime \in Nat,
         NEW ack \in BOOLEAN, NEW spi \in BOOLEAN,
         ack \/ lifetime # 0 => id \in {"TUNNEL", "CHAT"},
         side # "sender" /\ id = "ACK" => Answered(body, p.expected_ser_num, p.cur, done)
  PROVE  /\ Sure(side, tbfp_send(n, id, body, lifetime, ack, spi), p, g, done, c)
         /\ Sound(tbfp_send(n, id, body, lifetime, ack, spi))
         /\ Untaken(tbfp_send(n, id, body, lifetime, ack, spi), n)
<1> DEFINE f == Composes(n, id, body, lifetime, ack)
           m == tbfp_send(n, id, body, lifetime, ack, spi)
<1>1. n \in Board BY DEF Sound
<1>2. Sends(m, n, f) BY SendSends
<1>3. Sound(m) BY SendSound
<1>4. f.snum = n.s_num /\ Plain(f) BY DEF Composes, Plain, Data
<1>5. side # "sender" => Answer(f, p.expected_ser_num, p.cur, done) BY DEF Composes, Answer
<1> HIDE DEF f, m
<1>6. Sure(side, m, p, g, done, c) BY <1>1, <1>2, <1>4, <1>5, SendSure
<1>7. Untaken(m, n) BY <1>2 DEF Sends, Untaken
<1> QED BY <1>3, <1>6, <1>7 DEF m

-----------------------------------------------------------------------------
(* What the receiver of the way seen from n has delivered.                 *)
Held(side, n, p) == IF side = "sender" THEN p.delivered ELSE n.delivered

(* What a way reads of a board.                                            *)
Alike(m, n) ==
  /\ m.tx_frame = n.tx_frame /\ m.air = n.air /\ m.cur = n.cur
  /\ m.s_num = n.s_num /\ m.expected_ser_num = n.expected_ser_num
  /\ Mine(m) => Mine(n)

LEMMA AlikeSure ==
  ASSUME NEW side, NEW n, NEW m, NEW p, NEW g, NEW done, NEW c,
         Sure(side, n, p, g, done, c), Alike(m, n),
         m.rx = n.rx, m.prev_s_num = n.prev_s_num
  PROVE  Sure(side, m, p, g, done, c)
BY DEF Sure, Way, Alike

LEMMA LessSure ==
  ASSUME NEW side, NEW n \in Board, NEW p, NEW g, NEW done, NEW c \in Nat, NEW c2 \in 0 .. c,
         Sure(side, n, p, g, done, c)
  PROVE  Sure(side, n, p, g, done, c2) /\ Sure(side, n, p, NoFrame, done, c2)
<1>1. n.s_num \in Nat /\ SN_MOD \in Nat BY SnModAssumption DEF Board, SerNum
<1>2. \A e, cur : Answer(NoFrame, e, cur, done) BY Zenon DEF Answer
<1> QED BY <1>1, <1>2 DEF Sure, Way

(* The frame f was taken out of the driver and is marked as seen: a sender *)
(* has it in hand, a receiver will have delivered more.                    *)
LEMMA CheckedSender ==
  ASSUME NEW n \in Board, NEW m \in Board, NEW p \in Board, NEW c,
         NEW f \in Frame, n.rx = f, NEW done,
         Sure("sender", n, p, NoFrame, done, c), Alike(m, n), m.rx = NoFrame
  PROVE  Sure("sender", m, p, f, done, c) /\ Plain(f)
<1>1. Way(n, p, NoFrame, done) /\ n.s_num + c < SN_MOD BY DEF Sure
<1>2. Plain(NoFrame) /\ \A e, cur : Answer(NoFrame, e, cur, done) BY Zenon DEF Plain, Answer
<1>3. Way(m, p, f, done) BY <1>1, <1>2 DEF Way, Alike
<1>4. m.s_num + c < SN_MOD BY <1>1 DEF Alike
<1> QED BY <1>1, <1>3, <1>4 DEF Sure, Way

LEMMA CheckedReceiver ==
  ASSUME NEW n \in Board, NEW m \in Board, NEW p \in Board, NEW c, NEW side, side # "sender",
         NEW f \in Frame, f # NoFrame, n.rx = f, NEW done,
         Sure(side, n, p, NoFrame, done, c),
         Alike(m, n), m.rx = NoFrame, m.prev_s_num = f.snum,
         NEW more, Grown(done, more), Data(f) => Has(more, f.body)
  PROVE  /\ Sure(side, m, p, NoFrame, more, c) /\ Plain(f)
         /\ f.ack_need => Answered(f.snum, p.expected_ser_num, p.cur, more)
<1>1. Way(p, n, NoFrame, done) BY DEF Sure
<1>2. Plain(NoFrame) /\ \A e, cur : Answer(NoFrame, e, cur, more) BY Zenon DEF Plain, Answer
<1>3. p.s_num \in Nat /\ p.expected_ser_num \in Nat /\ n.prev_s_num \in Nat
  BY SnModAssumption DEF Board, SerNum
<1>4. Plain(f) BY <1>1 DEF Way
<1>5. Line(p.s_num, p.expected_ser_num, p.cur, p.tx_frame, p.air, f, n.prev_s_num, done)
  BY <1>1 DEF Way
<1>6. /\ Line(p.s_num, p.expected_ser_num, p.cur, p.tx_frame, p.air, NoFrame, f.snum, more)
      /\ f.ack_need => Answered(f.snum, p.expected_ser_num, p.cur, more)
  BY <1>3, <1>4, <1>5, LineTaken
<1>7. Line(p.s_num, p.expected_ser_num, p.cur, p.tx_frame, p.air, m.rx, m.prev_s_num, more)
  BY <1>6
<1>8. ASSUME NEW x, Answer(x, p.expected_ser_num, p.cur, done)
      PROVE  Answer(x, p.expected_ser_num, p.cur, more)
  BY <1>8, AnswerGrows
<1>9. /\ Answer(m.tx_frame, p.expected_ser_num, p.cur, more)
      /\ Answer(m.air, p.expected_ser_num, p.cur, more)
      /\ Answer(p.rx, p.expected_ser_num, p.cur, more)
  BY <1>1, <1>8 DEF Way, Alike
<1>10. Mine(p) => Known(p.cur, more) BY <1>1 DEF Way, Known, Grown
<1>11. Way(p, m, NoFrame, more)
  <2>1. /\ Plain(p.tx_frame) /\ Plain(p.air) /\ Plain(p.rx)
        /\ Plain(m.tx_frame) /\ Plain(m.air) /\ Plain(m.rx)
    BY <1>1, <1>2 DEF Way, Alike
  <2> QED BY <1>2, <1>7, <1>9, <1>10, <2>1 DEF Way
<1> QED BY <1>4, <1>6, <1>11 DEF Sure

LEMMA HasAppend ==
  ASSUME NEW done \in Seq(Nat), NEW body \in Nat
  PROVE  Grown(done, Append(done, body)) /\ Has(Append(done, body), body)
<1> DEFINE all == Append(done, body)  k == Len(done)
<1>1. /\ k \in Nat /\ DOMAIN done = 1 .. k /\ DOMAIN all = 1 .. k + 1
      /\ all[k + 1] = body /\ \A e \in 1 .. k : all[e] = done[e]
  OBVIOUS
<1> HIDE DEF k, all
<1>2. k + 1 \in 1 .. k + 1 /\ 1 .. k \subseteq 1 .. k + 1 BY <1>1
<1> QED BY <1>1, <1>2 DEF Grown, Has, all

(* The payload of a frame f in hand, when flow control lets it through.    *)
LEMMA PayloadSure ==
  ASSUME NEW side, NEW n, Sound(n), NEW p \in Board, NEW c \in Nat,
         NEW f \in Frame, f # NoFrame, NEW spi \in BOOLEAN, NEW done,
         Sure(side, n, p, IF side = "sender" THEN f ELSE NoFrame, done, c + 1)
  PROVE  /\ Sure(side, tbfp_proc_payload(n, f, spi), p, NoFrame, done, c)
         /\ tbfp_proc_payload(n, f, spi).delivered =
              IF Data(f) THEN Append(n.delivered, f.body) ELSE n.delivered
<1> DEFINE g == IF side = "sender" THEN f ELSE NoFrame
<1>1. /\ n \in Board /\ f.id \in FrameId /\ f.body \in Nat /\ c + 1 \in Nat /\ c \in 0 .. c + 1
      /\ g \in Frame \/ g = NoFrame
  BY DEF Sound, Frame
<1>2. Sure(side, n, p, g, done, c + 1) OBVIOUS
<1> HIDE DEF g
<1>3. CASE f.id = "ACK"
  <2> DEFINE m == tbfp_retx_ack(n, f.body)
  <2>1. tbfp_proc_payload(n, f, spi) = m /\ ~Data(f)
    BY <1>3 DEF tbfp_proc_payload, Data
  <2>2. /\ m.tx_frame = n.tx_frame /\ m.air = n.air /\ m.cur = n.cur /\ m.rx = n.rx
        /\ m.s_num = n.s_num /\ m.expected_ser_num = n.expected_ser_num
        /\ m.prev_s_num = n.prev_s_num /\ m.delivered = n.delivered
        /\ m.state = n.state /\ m.verdict = n.verdict
        /\ m.ack = "mine" => f.body = n.expected_ser_num
    BY <1>1 DEF tbfp_retx_ack, Board
  <2> HIDE DEF m
  <2>3. Sure(side, n, p, NoFrame, done, c) BY <1>1, <1>2, LessSure
  <2>4. CASE side = "sender"
    <3>1. Way(n, p, f, done) BY <1>2, <2>4 DEF Sure, g
    <3>2. m.ack = "mine" => Known(n.cur, done)
      BY <1>3, <2>2, <3>1 DEF Way, Answer, Answered
    <3>3. Way(m, p, NoFrame, done) BY <2>2, <2>3, <2>4, <3>2 DEF Sure, Way, Mine
    <3> QED BY <2>1, <2>2, <2>3, <2>4, <3>3 DEF Sure
  <2>5. CASE side # "sender"
    <3>1. Way(p, m, NoFrame, done) BY <2>2, <2>3, <2>5 DEF Sure, Way
    <3> QED BY <2>1, <2>2, <2>5, <3>1 DEF Sure
  <2> QED BY <2>4, <2>5
<1>4. CASE f.id = "PING"
  <2> DEFINE m == tbfp_send(n, "PONG", 0, 0, FALSE, spi)
  <2>1. tbfp_proc_payload(n, f, spi) = m /\ ~Data(f)
    BY <1>4 DEF tbfp_proc_payload, Data
  <2>2. "PONG" \in FrameId /\ "PONG" # "ACK" /\ 0 \in Nat /\ FALSE \in BOOLEAN BY DEF FrameId
  <2>3. Sure(side, m, p, g, done, c) /\ Sound(m) /\ Untaken(m, n)
    BY <1>1, <1>2, <2>2, SendIsSure
  <2> HIDE DEF m
  <2>4. m \in Board /\ c \in 0 .. c BY <2>3 DEF Sound
  <2>5. Sure(side, m, p, NoFrame, done, c) BY <2>3, <2>4, LessSure
  <2> QED BY <2>1, <2>3, <2>5 DEF Untaken
<1>5. CASE f.id = "PONG"
  <2>1. tbfp_proc_payload(n, f, spi) = n /\ ~Data(f)
    BY <1>5 DEF tbfp_proc_payload, Data
  <2> QED BY <1>1, <1>2, <2>1, LessSure
<1>6. CASE f.id \in {"TUNNEL", "CHAT"}
  <2> DEFINE all == Append(n.delivered, f.body)  m == [n EXCEPT !.delivered = all]
  <2>1. tbfp_proc_payload(n, f, spi) = m /\ Data(f)
    BY <1>6 DEF tbfp_proc_payload, Data
  <2> HIDE DEF all
  <2>2. Alike(m, n) /\ m.rx = n.rx /\ m.prev_s_num = n.prev_s_num /\ m.delivered = all
    BY <1>1 DEF Alike, Board, Mine
  <2> HIDE DEF m
  <2>3. Sure(side, n, p, NoFrame, done, c) BY <1>1, <1>2, LessSure
  <2>4. Sure(side, m, p, NoFrame, done, c) BY <2>2, <2>3, AlikeSure
  <2> QED BY <2>1, <2>2, <2>4 DEF all
<1> QED BY <1>1, <1>3, <1>4, <1>5, <1>6 DEF FrameId

LEMMA PrevSound ==
  ASSUME NEW n, Sound(n), NEW snum \in SerNum
  PROVE  Sound([n EXCEPT !.prev_s_num = snum])
<1>1. [n EXCEPT !.prev_s_num = snum] \in Board /\ RetxSame([n EXCEPT !.prev_s_num = snum], n)
  BY DEF Sound, Board, RetxSame
<1> QED BY <1>1, RetxSameSound

(* A frame is taken: relayed, acknowledged, and its payload delivered if   *)
(* its serial number is new.  m has taken the frame f out of the driver of *)
(* n.                                                                      *)
LEMMA ProcFullSure ==
  ASSUME NEW side, NEW n \in Board, NEW m, Sound(m), NEW p \in Board, NEW c \in Nat,
         NEW f \in Frame, f # NoFrame, n.rx = f, NEW spi \in BOOLEAN,
         Sure(side, n, p, NoFrame, Held(side, n, p), c + 3),
         Alike(m, n), m.rx = NoFrame,
         m.prev_s_num = n.prev_s_num, m.delivered = n.delivered
  PROVE  Sure(side, tbfp_proc_full(m, f, spi), p, NoFrame,
              Held(side, tbfp_proc_full(m, f, spi), p), c)
<1> DEFINE checked == [m EXCEPT !.prev_s_num = f.snum]
           relayed == IF f.lifetime \in 1 .. 3
                      THEN tbfp_send(checked, f.id, f.body, f.lifetime - 1, f.ack_need, spi)
                      ELSE checked
           acked   == IF f.ack_need THEN tbfp_send_ack(relayed, f.snum, spi) ELSE relayed
           passes  == tbfp_check_flow_control(m.prev_s_num, f.snum)
           more    == IF passes /\ Data(f) THEN Append(m.delivered, f.body) ELSE m.delivered
           done    == IF side = "sender" THEN p.delivered ELSE more
           g       == IF side = "sender" THEN f ELSE NoFrame
<1>1. /\ m \in Board /\ m.delivered \in Seq(Nat) /\ m.prev_s_num \in Nat
      /\ f.snum \in SerNum /\ f.snum \in Nat /\ f.body \in Nat /\ f.ack_need \in BOOLEAN
      /\ f.id \in FrameId /\ f.lifetime \in 0 .. 15
      /\ g \in Frame \/ g = NoFrame
  BY SnModAssumption DEF Sound, Board, Frame, SerNum
<1>2. Sound(checked) /\ checked \in Board
  <2>1. Sound(checked) BY <1>1, PrevSound
  <2> QED BY <2>1 DEF Sound
<1>3. /\ Alike(checked, n) /\ checked.rx = NoFrame /\ checked.prev_s_num = f.snum
      /\ checked.delivered = m.delivered
  BY <1>1 DEF Board, Alike, Mine
<1>4. tbfp_proc_full(m, f, spi) = IF passes THEN tbfp_proc_payload(acked, f, spi) ELSE acked
  BY Zenon DEF tbfp_proc_full
<1> HIDE DEF checked
<1>5. /\ Sure(side, checked, p, g, done, c + 3) /\ Plain(f)
      /\ side # "sender" /\ f.ack_need => Answered(f.snum, p.expected_ser_num, p.cur, done)
  <2>1. CASE side = "sender"
    <3>1. Sure("sender", n, p, NoFrame, p.delivered, c + 3) BY <2>1 DEF Held
    <3>2. Sure("sender", checked, p, f, p.delivered, c + 3) /\ Plain(f)
      BY <1>2, <1>3, <3>1, CheckedSender
    <3> QED BY <2>1, <3>2
  <2>2. CASE side # "sender"
    <3>1. Sure(side, n, p, NoFrame, m.delivered, c + 3) BY <2>2 DEF Held
    <3>2. Grown(m.delivered, more) BY <1>1, HasAppend DEF Grown
    <3>3. Data(f) => Has(more, f.body)
      <4>1. CASE passes BY <1>1, <4>1, HasAppend
      <4>2. CASE ~passes
        <5>1. Way(p, n, NoFrame, m.delivered) BY <2>2, <3>1 DEF Sure
        <5>2. OnItsWay(f, p.expected_ser_num, p.tx_frame, n.prev_s_num, m.delivered)
          BY <5>1 DEF Way, Line
        <5>3. f.snum = m.prev_s_num BY <1>1, <4>2, <5>2 DEF OnItsWay, tbfp_check_flow_control
        <5> QED BY <4>2, <5>2, <5>3 DEF OnItsWay
      <4> QED BY <4>1, <4>2
    <3> HIDE DEF more
    <3>4. /\ Sure(side, checked, p, NoFrame, more, c + 3) /\ Plain(f)
          /\ f.ack_need => Answered(f.snum, p.expected_ser_num, p.cur, more)
      BY <1>2, <1>3, <2>2, <3>1, <3>2, <3>3, CheckedReceiver
    <3> QED BY <2>2, <3>4
  <2> QED BY <2>1, <2>2
<1> HIDE DEF done, g
<1>6. /\ c + 3 = (c + 2) + 1 /\ c + 2 = (c + 1) + 1 /\ c + 3 \in Nat /\ c + 2 \in Nat /\ c + 1 \in Nat
      /\ c + 2 \in 0 .. c + 3 /\ c + 1 \in 0 .. c + 2 /\ c \in 0 .. c + 1
  OBVIOUS
<1>7. /\ Sure(side, relayed, p, g, done, c + 2) /\ Sound(relayed)
      /\ relayed.delivered = m.delivered
  <2>1. CASE ~(f.lifetime \in 1 .. 3)
    <3>1. relayed = checked BY <2>1
    <3>2. Sure(side, checked, p, g, done, c + 2)
      BY <1>2, <1>5, <1>6, LessSure
    <3> QED BY <1>2, <1>3, <3>1, <3>2
  <2>2. CASE f.lifetime \in 1 .. 3
    <3> DEFINE l == f.lifetime - 1
               s == tbfp_send(checked, f.id, f.body, l, f.ack_need, spi)
    <3>1. relayed = s BY <2>2
    <3>2. l \in Nat /\ f.id \in {"TUNNEL", "CHAT"} /\ f.id # "ACK"
      BY <1>5, <2>2 DEF Plain, Data
    <3>3. Sure(side, checked, p, g, done, (c + 2) + 1) BY <1>5, <1>6
    <3>4. Sure(side, s, p, g, done, c + 2) /\ Sound(s) /\ Untaken(s, checked)
      <4> HIDE DEF l
      <4> QED BY <1>1, <1>2, <1>6, <3>2, <3>3, SendIsSure
    <3> HIDE DEF s
    <3> QED BY <1>3, <3>1, <3>4 DEF Untaken
  <2> QED BY <2>1, <2>2
<1> HIDE DEF relayed
<1>8. /\ Sure(side, acked, p, g, done, c + 1) /\ Sound(acked) /\ acked.delivered = m.delivered
  <2>1. CASE ~f.ack_need
    <3>1. relayed \in Board BY <1>7 DEF Sound
    <3>2. Sure(side, relayed, p, g, done, c + 1) BY <1>6, <1>7, <3>1, LessSure
    <3> QED BY <1>7, <2>1, <3>2
  <2>2. CASE f.ack_need
    <3> DEFINE s == tbfp_send(relayed, "ACK", f.snum, 0, FALSE, spi)
    <3>1. acked = s BY <2>2, Zenon DEF tbfp_send_ack
    <3>2. "ACK" \in FrameId /\ 0 \in Nat /\ FALSE \in BOOLEAN BY DEF FrameId
    <3>3. Sure(side, relayed, p, g, done, (c + 1) + 1) BY <1>6, <1>7
    <3>4. Sure(side, s, p, g, done, c + 1) /\ Sound(s) /\ Untaken(s, relayed)
      BY <1>1, <1>5, <1>6, <1>7, <2>2, <3>2, <3>3, SendIsSure
    <3> HIDE DEF s
    <3> QED BY <1>7, <3>1, <3>4 DEF Untaken
  <2> QED BY <1>1, <2>1, <2>2
<1> HIDE DEF acked
<1>9. CASE passes
  <2>1. /\ Sure(side, tbfp_proc_payload(acked, f, spi), p, NoFrame, done, c)
        /\ tbfp_proc_payload(acked, f, spi).delivered = more
    BY <1>8, <1>9, PayloadSure DEF g
  <2> HIDE DEF more
  <2> QED BY <1>4, <1>9, <2>1 DEF Held, done
<1>10. CASE ~passes
  <2>1. acked \in Board BY <1>8 DEF Sound
  <2>2. Sure(side, acked, p, NoFrame, done, c) BY <1>6, <1>8, <2>1, LessSure
  <2>3. more = acked.delivered BY <1>8, <1>10
  <2> HIDE DEF more
  <2> QED BY <1>4, <1>10, <2>2, <2>3 DEF Held, done
<1> QED BY <1>9, <1>10

-----------------------------------------------------------------------------
(* The SX1262 task.  Between handlers no frame is in hand.                 *)
Assured(side, n, p, c) == Sure(side, n, p, NoFrame, Held(side, n, p), c)

LEMMA KeepsAssured ==
  ASSUME NEW side, NEW n \in Board, NEW m, NEW p \in Board, NEW c,
         Assured(side, n, p, c), Keeps(m, n)
  PROVE  Assured(side, m, p, c)
<1>1. Held(side, m, p) = Held(side, n, p) BY DEF Held, Keeps, Onward
<1>2. Sure(side, n, p, NoFrame, Held(side, n, p), c) BY DEF Assured
<1>3. Sure(side, m, p, NoFrame, Held(side, n, p), c) BY <1>2, KeepsSure
<1> QED BY <1>1, <1>3 DEF Assured

LEMMA KeepsTwice ==
  ASSUME NEW n, NEW m, NEW x, Keeps(m, n), Keeps(x, m)
  PROVE  Keeps(x, n)
BY OnwardTwice DEF Keeps, Steady

LEMMA DataAvalSure ==
  ASSUME NEW side, NEW n, Sound(n), NEW spi \in BOOLEAN, NEW p \in Board, NEW c \in Nat,
         Assured(side, n, p, c + 3)
  PROVE  Assured(side, sx1262_proc_data_aval(n, spi), p, c)
<1> DEFINE m == [n EXCEPT !.rx = NoFrame, !.cmd = "NONE"]
<1>1. n \in Board /\ (n.rx = NoFrame \/ n.rx \in Frame) BY DEF Sound, Board
<1>2. Sound(m) /\ m \in Board
  <2>1. m \in Board /\ RetxSame(m, n) BY <1>1 DEF Board, Status, RetxSame
  <2> QED BY <2>1, RetxSameSound
<1>3. /\ Alike(m, n) /\ m.rx = NoFrame
      /\ m.prev_s_num = n.prev_s_num /\ m.delivered = n.delivered
  BY <1>1 DEF Board, Alike, Mine
<1>4. sx1262_proc_data_aval(n, spi) =
        IF n.rx = NoFrame THEN m ELSE tbfp_proc_full(m, n.rx, spi)
  BY DEF sx1262_proc_data_aval
<1>5. Sure(side, n, p, NoFrame, Held(side, n, p), c + 3) BY DEF Assured
<1> HIDE DEF m
<1>6. CASE n.rx = NoFrame
  <2>1. Keeps(m, n) BY <1>3, <1>6 DEF Keeps, Onward, Steady, Alike
  <2>2. Assured(side, m, p, c + 3) BY <1>1, <2>1, KeepsAssured
  <2>3. c + 3 \in Nat /\ c \in 0 .. c + 3 OBVIOUS
  <2>4. Assured(side, m, p, c) BY <1>2, <2>2, <2>3, LessSure DEF Assured
  <2> QED BY <1>4, <1>6, <2>4
<1>7. CASE n.rx # NoFrame
  <2> DEFINE f == n.rx
  <2>1. f \in Frame /\ n.rx = f /\ f # NoFrame BY <1>1, <1>7
  <2> HIDE DEF f
  <2>2. Sure(side, tbfp_proc_full(m, f, spi), p, NoFrame,
             Held(side, tbfp_proc_full(m, f, spi), p), c)
    BY <1>1, <1>2, <1>3, <1>5, <2>1, ProcFullSure
  <2> QED BY <1>4, <1>7, <2>2 DEF f, Assured
<1> QED BY <1>6, <1>7

LEMMA PollStatusSure ==
  ASSUME NEW side, NEW n, Sound(n), NEW spi \in BOOLEAN, NEW keep \in BOOLEAN, NEW hang \in BOOLEAN,
         NEW p \in Board, NEW c \in Nat, Assured(side, n, p, c + 3)
  PROVE  Assured(side, sx1262_poll_status(n, spi, keep, hang), p, c)
<1> DEFINE got  == sx1262_proc_data_aval(n, spi)
           data == sx1262_start_rx(got, keep)
           free == [n EXCEPT !.tx_done = TRUE]
           told == tbfp_retx_tx_done(free)
           done == sx1262_start_rx(told, keep)
           served == CASE n.cmd = "DATA_AVAIL" -> data
                       [] n.cmd = "TX_DONE" -> done
                       [] OTHER -> n
<1>1. n \in Board /\ c + 3 \in Nat /\ c \in 0 .. c + 3 BY DEF Sound
<1>2. Assured(side, n, p, c) BY <1>1, LessSure DEF Assured
<1>3. Assured(side, data, p, c) /\ Sound(data)
  <2>1. Assured(side, got, p, c) /\ Sound(got) /\ got \in Board
    BY DataAvalSure, DataAvalSound DEF Sound
  <2> HIDE DEF got
  <2> QED BY <2>1, StartRxKeeps, StartRxSound, KeepsAssured
<1>4. Assured(side, done, p, c) /\ Sound(done)
  <2>1. Sound(free) /\ free \in Board BY TxDoneFlagSound DEF Sound
  <2>2. Keeps(free, n) BY <1>1 DEF Board, Keeps, Onward, Steady, Mine
  <2> HIDE DEF free
  <2>3. Sound(told) /\ told \in Board BY <2>1, RetxTxDoneSound DEF Sound
  <2>4. Keeps(told, free) BY <2>1 DEF tbfp_retx_tx_done, Board, Keeps, Onward, Steady, Mine
  <2> HIDE DEF told
  <2>5. Keeps(done, told) /\ Sound(done) BY <2>3, StartRxKeeps, StartRxSound
  <2>6. Keeps(told, n) BY <2>2, <2>4, KeepsTwice
  <2> HIDE DEF done
  <2>7. Keeps(done, n) BY <2>5, <2>6, KeepsTwice
  <2> QED BY <1>1, <1>2, <2>5, <2>7, KeepsAssured
<1>5. Assured(side, served, p, c) /\ Sound(served)
  <2> HIDE DEF data, done
  <2> QED BY <1>2, <1>3, <1>4
<1>6. sx1262_poll_status(n, spi, keep, hang) = sx1262_proc_chip_mode(served, n.mode, hang)
  BY Zenon DEF sx1262_poll_status
<1> HIDE DEF served
<1>7. sx1262_proc_chip_mode(served, n.mode, hang)
        \in {served, [served EXCEPT !.tx_done = TRUE], sx1262_init(served)}
  BY Zenon DEF sx1262_proc_chip_mode
<1>8. served \in Board BY <1>5 DEF Sound
<1>9. /\ Keeps(served, served) /\ Keeps([served EXCEPT !.tx_done = TRUE], served)
      /\ Keeps(sx1262_init(served), served)
  BY <1>8, ChipInitKeeps DEF Board, Keeps, Onward, Steady, Mine
<1>10. Assured(side, sx1262_proc_chip_mode(served, n.mode, hang), p, c)
  BY <1>5, <1>7, <1>8, <1>9, KeepsAssured, Zenon
<1> QED BY <1>6, <1>10

LEMMA ProcessSure ==
  ASSUME NEW side, NEW n, Sound(n), NEW due \in BOOLEAN, NEW chunk \in Nat,
         NEW spi \in BOOLEAN, NEW keep \in BOOLEAN, NEW hang \in BOOLEAN,
         NEW p \in Board, Assured(side, n, p, 4)
  PROVE  Assured(side, sx1262_process(n, due, chunk, spi, keep, hang), p, 0)
<1> DEFINE m == lora_transmit_from_queue(n, due, chunk, spi)
<1>1. Assured(side, m, p, 3) /\ Sound(m)
  <2>1. CASE ~is_chunk_sent(n, due)
    <3>1. m = n BY <2>1 DEF lora_transmit_from_queue
    <3>2. n \in Board /\ 4 \in Nat /\ 3 \in 0 .. 4 BY DEF Sound
    <3>3. Assured(side, n, p, 3) BY <3>2, LessSure DEF Assured
    <3> QED BY <3>1, <3>3
  <2>2. CASE is_chunk_sent(n, due)
    <3> DEFINE s == tbfp_send(n, "TUNNEL", chunk, 0, TRUE, spi)
    <3>1. m = s BY <2>2 DEF lora_transmit_from_queue
    <3>2. /\ "TUNNEL" \in FrameId /\ "TUNNEL" # "ACK" /\ 0 \in Nat /\ 3 \in Nat /\ 3 + 1 = 4
          /\ TRUE \in BOOLEAN
      BY DEF FrameId
    <3>3. Sure(side, n, p, NoFrame, Held(side, n, p), 3 + 1) BY <3>2 DEF Assured
    <3>4. /\ Sure(side, s, p, NoFrame, Held(side, n, p), 3) /\ Sound(s) /\ Untaken(s, n)
      BY <3>2, <3>3, SendIsSure
    <3> HIDE DEF s
    <3>5. Held(side, s, p) = Held(side, n, p) BY <3>4 DEF Untaken, Held
    <3> QED BY <3>1, <3>4, <3>5 DEF Assured
  <2> QED BY <2>1, <2>2
<1>2. sx1262_process(n, due, chunk, spi, keep, hang) = sx1262_poll_status(m, spi, keep, hang)
  BY DEF sx1262_process
<1> HIDE DEF m
<1>3. 0 \in Nat /\ 0 + 3 = 3 OBVIOUS
<1> QED BY <1>1, <1>2, <1>3, PollStatusSure

-----------------------------------------------------------------------------
(* The steps of the link.  A board x takes one, on either side of the way  *)
(* between it and the board y.                                             *)
LEMMA OneBoardAssured ==
  ASSUME IInv, NEW side, NEW x \in Boards, NEW y \in Boards, x # y,
         NEW m, node' = [node EXCEPT ![x] = m], Assured(side, m, node[y], 0)
  PROVE  Assured(side, node'[x], node'[y], 0)
<1>1. node'[x] = m /\ node'[y] = node[y] BY DEF IInv, TypeOK
<1> QED BY <1>1

LEMMA TxEndAssured ==
  ASSUME IInv, NEW side, NEW x \in Boards, NEW y \in Boards, x # y,
         Assured(side, node[x], node[y], 4),
         NEW heard \in SUBSET Boards, TxEnd(x, heard)
  PROVE  Assured(side, node'[x], node'[y], 0)
<1> DEFINE n == node[x]  p == node[y]  m == node'[x]  q == node'[y]
<1>1. n \in Board /\ p \in Board BY DEF IInv, TypeOK
<1>2. /\ m = [n EXCEPT !.mode = "STBY_RC", !.cmd = "TX_DONE", !.air = NoFrame]
      /\ q = IF y \in heard THEN Receive(p, n.air) ELSE p
  BY DEF TxEnd, IInv, TypeOK
<1> HIDE DEF m, q
<1>3. /\ m.air = NoFrame /\ m.tx_frame = n.tx_frame /\ m.rx = n.rx /\ m.cur = n.cur
      /\ m.s_num = n.s_num /\ m.expected_ser_num = n.expected_ser_num
      /\ m.prev_s_num = n.prev_s_num /\ m.delivered = n.delivered /\ Mine(m) = Mine(n)
  BY <1>1, <1>2 DEF Board, Mine
<1>4. /\ q.air = p.air /\ q.tx_frame = p.tx_frame /\ q.cur = p.cur
      /\ q.rx \in {n.air, p.rx}
      /\ q.s_num = p.s_num /\ q.expected_ser_num = p.expected_ser_num
      /\ q.prev_s_num = p.prev_s_num /\ q.delivered = p.delivered /\ Mine(q) = Mine(p)
  BY <1>1, <1>2 DEF Board, Receive, Mine
<1>5. /\ n.s_num \in Nat /\ n.expected_ser_num \in Nat /\ p.prev_s_num \in Nat /\ SN_MOD \in Nat
  BY <1>1, SnModAssumption DEF Board, SerNum
<1> HIDE DEF n, p
<1>6. Plain(NoFrame) /\ \A e, cur, done : Answer(NoFrame, e, cur, done)
  BY Zenon DEF Plain, Answer
<1>7. CASE side = "sender"
  <2>1. Way(n, p, NoFrame, p.delivered) /\ n.s_num + 4 < SN_MOD
    BY <1>7 DEF Assured, Sure, Held, n, p
  <2>2. Line(n.s_num, n.expected_ser_num, n.cur, n.tx_frame, NoFrame, q.rx, p.prev_s_num, p.delivered)
    <3>1. Line(n.s_num, n.expected_ser_num, n.cur, n.tx_frame, n.air, p.rx, p.prev_s_num, p.delivered)
      BY <2>1 DEF Way
    <3>2. Line(n.s_num, n.expected_ser_num, n.cur, n.tx_frame, n.air, n.air, p.prev_s_num, p.delivered)
      BY <1>5, <3>1, LineMoved
    <3> QED BY <1>4, <1>5, <3>1, <3>2, LineMoved
  <2>3. Way(m, q, NoFrame, q.delivered)
    BY <1>3, <1>4, <1>6, <2>1, <2>2 DEF Way
  <2>4. m.s_num + 0 < SN_MOD BY <1>3, <1>5, <2>1
  <2> QED BY <1>7, <2>3, <2>4 DEF Assured, Sure, Held, m, q
<1>8. CASE side # "sender"
  <2>1. Way(p, n, NoFrame, n.delivered) BY <1>8 DEF Assured, Sure, Held, n, p
  <2>2. Way(q, m, NoFrame, m.delivered)
    BY <1>3, <1>4, <1>6, <2>1 DEF Way
  <2> QED BY <1>8, <2>2 DEF Assured, Sure, Held, m, q
<1> QED BY <1>7, <1>8

(* A receiver restarts: what was on its way to it, and from it, is gone.   *)
LEMMA RestartAssured ==
  ASSUME IInv, NEW side, NEW x \in Boards, NEW y \in Boards, x # y, side # "sender",
         Assured(side, node[x], node[y], 4), Restart(x)
  PROVE  Assured(side, node'[x], node'[y], 0)
<1> DEFINE n == node[x]  p == node[y]
           m == [board_init EXCEPT !.delivered = n.delivered]
<1>1. n \in Board /\ p \in Board BY DEF IInv, TypeOK
<1>2. /\ m.rx = NoFrame /\ m.air = NoFrame /\ m.tx_frame = NoFrame
      /\ m.prev_s_num = 0 /\ m.delivered = n.delivered
  BY DEF board_init
<1>3. node' = [node EXCEPT ![x] = m] BY DEF Restart
<1> HIDE DEF m
<1>4. p.s_num \in Nat /\ p.expected_ser_num \in Nat /\ n.prev_s_num \in Nat
  BY <1>1, SnModAssumption DEF Board, SerNum
<1>5. Way(p, n, NoFrame, n.delivered) BY DEF Assured, Sure, Held
<1>6. Line(p.s_num, p.expected_ser_num, p.cur, p.tx_frame, p.air, n.rx, n.prev_s_num, n.delivered)
  BY <1>5 DEF Way
<1>7. Line(p.s_num, p.expected_ser_num, p.cur, p.tx_frame, p.air, NoFrame, 0, n.delivered)
  BY <1>4, <1>6, LineMoved
<1>8. Plain(NoFrame) /\ \A e, cur, done : Answer(NoFrame, e, cur, done)
  BY Zenon DEF Plain, Answer
<1>9. Way(p, m, NoFrame, m.delivered) BY <1>2, <1>5, <1>7, <1>8 DEF Way
<1>10. Assured(side, m, p, 0) BY <1>9 DEF Assured, Sure, Held
<1> QED BY <1>3, <1>10, OneBoardAssured

LEMMA AssuredNext ==
  ASSUME IInv, NEW side, NEW x \in Boards, NEW y \in Boards, x # y,
         Assured(side, node[x], node[y], 4), side = "sender" => x \notin Restarting
  PROVE  /\ \A due, keep, hang \in BOOLEAN :
              Sx1262Task(x, due, keep, hang) => Assured(side, node'[x], node'[y], 0)
         /\ \A due, keep \in BOOLEAN :
              Sx1262TaskSpiFault(x, due, keep) => Assured(side, node'[x], node'[y], 0)
         /\ Sx1262LinkLost(x) => Assured(side, node'[x], node'[y], 0)
         /\ \A late \in BOOLEAN : RetxTask(x, late) => Assured(side, node'[x], node'[y], 0)
         /\ RetxTaskSpiFault(x) => Assured(side, node'[x], node'[y], 0)
         /\ ConsoleTask(x) => Assured(side, node'[x], node'[y], 0)
         /\ Restart(x) => Assured(side, node'[x], node'[y], 0)
         /\ \A heard \in SUBSET Boards : TxEnd(x, heard) => Assured(side, node'[x], node'[y], 0)
<1> DEFINE n == node[x]  p == node[y]
<1>1. /\ Sound(n) /\ n \in Board /\ p \in Board /\ sent[x] \in Nat /\ sent[x] + 1 \in Nat
  BY DEF IInv, TypeOK, Sound
<1>2. /\ 0 \in Nat /\ 4 \in Nat /\ 0 \in 0 .. 4 /\ TRUE \in BOOLEAN /\ FALSE \in BOOLEAN OBVIOUS
<1>3. ASSUME NEW c \in 0 .. 4 PROVE Assured(side, n, p, c)
  BY <1>1, <1>2, <1>3, LessSure DEF Assured
<1>4. ASSUME NEW m, node' = [node EXCEPT ![x] = m], Assured(side, m, p, 0)
      PROVE  Assured(side, node'[x], node'[y], 0)
  BY <1>4, OneBoardAssured
<1>5. ASSUME NEW due \in BOOLEAN, NEW spi \in BOOLEAN, NEW keep \in BOOLEAN, NEW hang \in BOOLEAN,
             node' = [node EXCEPT ![x] = sx1262_process(@, due, sent[x] + 1, spi, keep, hang)]
      PROVE  Assured(side, node'[x], node'[y], 0)
  <2>1. Assured(side, sx1262_process(n, due, sent[x] + 1, spi, keep, hang), p, 0)
    BY <1>1, ProcessSure
  <2> QED BY <1>4, <1>5, <2>1
<1>6. ASSUME NEW m, node' = [node EXCEPT ![x] = m], Keeps(m, n)
      PROVE  Assured(side, node'[x], node'[y], 0)
  <2>1. Assured(side, m, p, 0) BY <1>1, <1>2, <1>3, <1>6, KeepsAssured
  <2> QED BY <1>4, <1>6, <2>1
<1>7. ASSUME NEW due \in BOOLEAN, NEW keep \in BOOLEAN, NEW hang \in BOOLEAN,
             Sx1262Task(x, due, keep, hang)
      PROVE  Assured(side, node'[x], node'[y], 0)
  BY <1>5, <1>7 DEF Sx1262Task
<1>8. ASSUME NEW due \in BOOLEAN, NEW keep \in BOOLEAN, Sx1262TaskSpiFault(x, due, keep)
      PROVE  Assured(side, node'[x], node'[y], 0)
  BY <1>5, <1>8 DEF Sx1262TaskSpiFault
<1>9. ASSUME Sx1262LinkLost(x) PROVE Assured(side, node'[x], node'[y], 0)
  <2>1. Keeps(sx1262_init(n), n) BY <1>1, ChipInitKeeps
  <2>2. node' = [node EXCEPT ![x] = sx1262_init(n)] BY <1>9 DEF Sx1262LinkLost
  <2> QED BY <1>6, <2>1, <2>2
<1>10. ASSUME NEW late \in BOOLEAN, RetxTask(x, late) PROVE Assured(side, node'[x], node'[y], 0)
  <2>1. Keeps(tbfp_retx_proc(n, late, TRUE), n) BY <1>1, RetxProcKeeps
  <2>2. node' = [node EXCEPT ![x] = tbfp_retx_proc(n, late, TRUE)] BY <1>10 DEF RetxTask
  <2> QED BY <1>6, <2>1, <2>2
<1>11. ASSUME RetxTaskSpiFault(x) PROVE Assured(side, node'[x], node'[y], 0)
  <2>1. Keeps(tbfp_retx_proc(n, FALSE, FALSE), n) BY <1>1, RetxProcKeeps
  <2>2. node' = [node EXCEPT ![x] = tbfp_retx_proc(n, FALSE, FALSE)]
    BY <1>11 DEF RetxTaskSpiFault
  <2> QED BY <1>6, <2>1, <2>2
<1>12. ASSUME ConsoleTask(x) PROVE Assured(side, node'[x], node'[y], 0)
  <2>1. ASSUME NEW id \in FrameId, NEW lifetime \in Nat, NEW ack \in BOOLEAN, id # "ACK",
               ack \/ lifetime # 0 => id \in {"TUNNEL", "CHAT"},
               ConsoleSend(x, id, lifetime, ack)
        PROVE  Assured(side, node'[x], node'[y], 0)
    <3> DEFINE m == tbfp_send(n, id, sent[x] + 1, lifetime, ack, TRUE)
    <3>1. node' = [node EXCEPT ![x] = m] BY <2>1 DEF ConsoleSend
    <3>2. Sure(side, n, p, NoFrame, Held(side, n, p), 0 + 1) BY <1>3 DEF Assured
    <3>3. Sure(side, m, p, NoFrame, Held(side, n, p), 0) /\ Untaken(m, n)
      BY <1>1, <1>2, <2>1, <3>2, SendIsSure
    <3> HIDE DEF m
    <3>4. Held(side, m, p) = Held(side, n, p) BY <3>3 DEF Untaken, Held
    <3>5. Assured(side, m, p, 0) BY <3>3, <3>4 DEF Assured
    <3> QED BY <1>4, <3>1, <3>5
  <2>2. ASSUME NEW mute \in BOOLEAN, ConsoleMute(x, mute)
        PROVE  Assured(side, node'[x], node'[y], 0)
    <3> DEFINE m == [n EXCEPT !.tx_mute = mute]
    <3>1. Keeps(m, n) BY <1>1 DEF Board, Keeps, Onward, Steady, Mine
    <3>2. node' = [node EXCEPT ![x] = m] BY <2>2 DEF ConsoleMute
    <3> HIDE DEF m
    <3> QED BY <1>6, <3>1, <3>2
  <2>3. "PING" \in FrameId /\ "CHAT" \in FrameId /\ 2 \in Nat BY DEF FrameId
  <2> QED BY <1>2, <1>12, <2>1, <2>2, <2>3 DEF ConsoleTask
<1>13. ASSUME Restart(x) PROVE Assured(side, node'[x], node'[y], 0)
  <2>1. side # "sender" BY <1>13 DEF Restart
  <2> QED BY <1>13, <2>1, RestartAssured
<1>14. ASSUME NEW heard \in SUBSET Boards, TxEnd(x, heard)
       PROVE  Assured(side, node'[x], node'[y], 0)
  BY <1>14, TxEndAssured
<1> QED BY <1>7, <1>8, <1>9, <1>10, <1>11, <1>12, <1>13, <1>14

-----------------------------------------------------------------------------
(* The serial number of a board has not come round, nor will it in one     *)
(* step, which composes four frames at the most.                           *)
NoWrap(b) == node[b].s_num + 4 < SN_MOD

Across(b, o) == Way(node[b], node[o], NoFrame, node[o].delivered)

Matched(b) ==
  node[b].verdict = "acked" /\ node[b].ack = "mine" =>
    \E p \in Boards \ {b} :
      \E i \in DOMAIN node[p].delivered : node[p].delivered[i] = node[b].cur.body

LEMMA AcrossInit ==
  ASSUME NEW b \in Boards, NEW o \in Boards, Init
  PROVE  Across(b, o)
<1>1. node[b] = board_init /\ node[o] = board_init BY DEF Init
<1>2. Line(1, 0, NoFrame, NoFrame, NoFrame, NoFrame, 0, << >>) BY DEF Line, OnItsWay, NotAfter
<1>3. Plain(NoFrame) /\ \A e, cur, done : Answer(NoFrame, e, cur, done)
  BY Zenon DEF Plain, Answer
<1>4. /\ board_init.tx_frame = NoFrame /\ board_init.air = NoFrame /\ board_init.rx = NoFrame
      /\ board_init.cur = NoFrame /\ board_init.s_num = 1 /\ board_init.expected_ser_num = 0
      /\ board_init.prev_s_num = 0 /\ board_init.delivered = << >> /\ ~Mine(board_init)
  BY DEF board_init, Mine
<1>5. Way(board_init, board_init, NoFrame, << >>) BY <1>2, <1>3, <1>4 DEF Way
<1> QED BY <1>1, <1>4, <1>5 DEF Across

LEMMA AcrossNext ==
  ASSUME NEW b \in Boards, NEW o \in Boards, b # o, Boards = {b, o}, b \notin Restarting,
         IInv, Across(b, o), NoWrap(b), [Next]_vars
  PROVE  Across(b, o)'
<1>1. "receiver" # "sender" OBVIOUS
<1>2. /\ Assured("sender", node[b], node[o], 4)
      /\ Assured("receiver", node[o], node[b], 4)
  BY <1>1 DEF Across, NoWrap, Assured, Sure, Held
<1>3. /\ Assured("sender", node'[b], node'[o], 0) => Across(b, o)'
      /\ Assured("receiver", node'[o], node'[b], 0) => Across(b, o)'
  BY <1>1 DEF Across, Assured, Sure, Held
<1>4. CASE UNCHANGED vars BY <1>4 DEF vars, Across
<1>5. ASSUME NEW side, NEW x \in Boards, NEW y \in Boards, x # y,
             Assured(side, node[x], node[y], 4), side = "sender" => x \notin Restarting,
             Assured(side, node'[x], node'[y], 0) => Across(b, o)'
      PROVE  /\ \A due, keep, hang \in BOOLEAN : Sx1262Task(x, due, keep, hang) => Across(b, o)'
             /\ \A due, keep \in BOOLEAN : Sx1262TaskSpiFault(x, due, keep) => Across(b, o)'
             /\ Sx1262LinkLost(x) => Across(b, o)'
             /\ \A late \in BOOLEAN : RetxTask(x, late) => Across(b, o)'
             /\ RetxTaskSpiFault(x) => Across(b, o)'
             /\ ConsoleTask(x) => Across(b, o)'
             /\ Restart(x) => Across(b, o)'
             /\ \A heard \in SUBSET Boards : TxEnd(x, heard) => Across(b, o)'
  <2> HIDE DEF Across
  <2> QED BY <1>5, AssuredNext
<1> HIDE DEF Across
<1>6. CASE Next
  <2>1. PICK x \in Boards :
          \/ \E due, keep, hang \in BOOLEAN : Sx1262Task(x, due, keep, hang)
          \/ \E due, keep \in BOOLEAN : Sx1262TaskSpiFault(x, due, keep)
          \/ Sx1262LinkLost(x)
          \/ \E late \in BOOLEAN : RetxTask(x, late)
          \/ RetxTaskSpiFault(x)
          \/ ConsoleTask(x)
          \/ Restart(x)
          \/ \E heard \in SUBSET Boards : TxEnd(x, heard)
    BY <1>6 DEF Next
  <2>2. CASE x = b BY <1>2, <1>3, <1>5, <2>1, <2>2
  <2>3. CASE x = o BY <1>1, <1>2, <1>3, <1>5, <2>1, <2>3
  <2> QED BY <2>2, <2>3
<1> QED BY <1>4, <1>6

(* An acknowledge that ended a wait and carried the expected serial number *)
(* (tbfp_retx_ack, tbfp_proc_retx_wait_ack) means that the other board's   *)
(* application has the payload (tbfp_proc_full, tbfp_check_flow_control):  *)
(* for a sender that does not restart and whose serial number does not     *)
(* come round, whatever is lost, retransmitted, relayed or overwritten in  *)
(* tx_frame, and although the receiver may restart.  The frame numbered 0, *)
(* the first after the numbers come round, is acknowledged and refused.    *)
THEOREM MatchedAckOneWay ==
  ASSUME NEW b, NEW o, b # o, Boards = {b, o}, b \notin Restarting
  PROVE  Spec /\ []NoWrap(b) => []Matched(b)
<1>1. b \in Boards /\ o \in Boards OBVIOUS
<1>2. Init => IInv /\ Across(b, o) BY <1>1, InitInv, AcrossInit
<1>3. IInv /\ Across(b, o) /\ NoWrap(b) /\ [Next]_vars => IInv' /\ Across(b, o)'
  BY <1>1, NextInv, AcrossNext
<1>4. Across(b, o) => Matched(b) BY DEF Across, Way, Mine, Known, Has, Matched
<1> QED BY <1>2, <1>3, <1>4, PTL DEF Spec

(* The same for both boards, when neither restarts.                        *)
THEOREM MatchedAckHolds ==
  ASSUME NEW b, NEW o, b # o, Boards = {b, o}, Restarting = {}
  PROVE  Spec /\ [](NoWrap(b) /\ NoWrap(o)) => []MatchedAckMeansDelivered
<1> DEFINE Inv == IInv /\ Across(b, o) /\ Across(o, b)
<1>1. b \in Boards /\ o \in Boards /\ Boards = {o, b} OBVIOUS
<1>2. Init => Inv BY <1>1, InitInv, AcrossInit
<1>3. Inv /\ NoWrap(b) /\ NoWrap(o) /\ [Next]_vars => Inv'
  BY <1>1, NextInv, AcrossNext
<1>4. Inv => MatchedAckMeansDelivered
  BY DEF Across, Way, Mine, Known, Has, MatchedAckMeansDelivered
<1> QED BY <1>2, <1>3, <1>4, PTL DEF Spec

-----------------------------------------------------------------------------
(***************************************************************************)
(* Two boards hear a lone chat line three times at the most.  The line is  *)
(* spoken with lifetime 2 (Spoken); each time the other board takes it, it *)
(* relays it and, if asked to, acknowledges it, which puts the acknowledge *)
(* into tx_frame: a relay goes on air once, and only its sender's machine  *)
(* retransmits, the line.  A relay that comes back ends that, since it is  *)
(* relayed and acknowledged in its turn (Returned).  Until then every      *)
(* duplicate of the line is refused; afterwards there is one relay left.   *)
(***************************************************************************)

Chat(f, left) == f # NoFrame /\ f.id = "CHAT" /\ f.lifetime = left

(* No frame, or one that neither is delivered nor asks for anything but a  *)
(* reply of this kind; an acknowledge.                                     *)
Mute(f) == f = NoFrame \/ (f.id \notin {"TUNNEL", "CHAT"} /\ ~f.ack_need /\ f.lifetime = 0)
Acks(f) == f = NoFrame \/ (f.id = "ACK" /\ ~f.ack_need /\ f.lifetime = 0)

(* The chip transmits or receives.                                         *)
HalfDuplex(n) == IF n.mode = "TX" THEN n.rx = NoFrame ELSE n.air = NoFrame

(* What the handlers do to the frames of a board: nothing is composed, and *)
(* nothing goes on air either;                                             *)
Still(m, n) ==
  /\ m.tx_frame = n.tx_frame /\ m.s_num = n.s_num /\ m.retx_cnt = n.retx_cnt
  /\ m.prev_s_num = n.prev_s_num /\ m.delivered = n.delivered
  /\ m.air \in {n.air, NoFrame} /\ m.rx \in {n.rx, NoFrame}
  /\ HalfDuplex(n) => HalfDuplex(m)

(* the frame in tx_frame may go on air again, and a received one is taken  *)
(* that is not for the application;                                        *)
Calm(m, n) ==
  /\ m.tx_frame = n.tx_frame /\ m.s_num = n.s_num /\ m.delivered = n.delivered
  /\ m.air \in {n.air, NoFrame} \/ (m.air = n.tx_frame /\ n.retx_cnt > 0)
  /\ m.rx \in {n.rx, NoFrame}
  /\ n.retx_cnt = 0 => m.retx_cnt = 0
  /\ m.prev_s_num = n.prev_s_num \/ (n.rx # NoFrame /\ n.rx.id # "CHAT")
  /\ HalfDuplex(n) => HalfDuplex(m)

(* a ping is answered;                                                     *)
Replies(m, n) ==
  /\ n.rx # NoFrame /\ n.rx.id = "PING" /\ m.rx = NoFrame
  /\ Mute(m.tx_frame) /\ (m.air = n.air \/ Mute(m.air))
  /\ m.delivered = n.delivered /\ m.retx_cnt = n.retx_cnt
  /\ HalfDuplex(n) => HalfDuplex(m)

(* a line f is taken: relayed, acknowledged, delivered.                    *)
Relay(x, f) ==
  /\ f.lifetime \in 1 .. 3
  /\ x.id = f.id /\ x.lifetime = f.lifetime - 1 /\ x.ack_need = f.ack_need

Takes(m, n, f) ==
  /\ f # NoFrame /\ f.id = "CHAT" /\ m.rx = NoFrame /\ m.prev_s_num = f.snum
  /\ \/ m.delivered = n.delivered
     \/ f.snum > n.prev_s_num /\ m.delivered = Append(n.delivered, f.body)
  /\ m.air = n.air \/ Acks(m.air) \/ Relay(m.air, f)
  /\ IF f.ack_need THEN Acks(m.tx_frame)
     ELSE /\ m.retx_cnt = n.retx_cnt
          /\ m.tx_frame = n.tx_frame \/ Acks(m.tx_frame) \/ Relay(m.tx_frame, f)
  /\ HalfDuplex(n) => HalfDuplex(m)

Turns(m, n) == Calm(m, n) \/ Replies(m, n) \/ Takes(m, n, n.rx)

LEMMA StillTurns ==
  ASSUME NEW n, NEW m, NEW x, Turns(m, n), Still(x, m)
  PROVE  Turns(x, n)
<1>1. ASSUME Calm(m, n) PROVE Calm(x, n) BY <1>1 DEF Calm, Still
<1>2. Mute(NoFrame) /\ Acks(NoFrame) BY DEF Mute, Acks
<1>3. ASSUME Replies(m, n) PROVE Replies(x, n)
  BY <1>2, <1>3, Zenon DEF Replies, Still
<1>4. ASSUME Takes(m, n, n.rx) PROVE Takes(x, n, n.rx)
  <2> DEFINE f == n.rx
  <2>1. /\ f # NoFrame /\ f.id = "CHAT" /\ m.rx = NoFrame /\ m.prev_s_num = f.snum
        /\ \/ m.delivered = n.delivered
           \/ f.snum > n.prev_s_num /\ m.delivered = Append(n.delivered, f.body)
        /\ m.air = n.air \/ Acks(m.air) \/ Relay(m.air, f)
        /\ IF f.ack_need THEN Acks(m.tx_frame)
           ELSE /\ m.retx_cnt = n.retx_cnt
                /\ m.tx_frame = n.tx_frame \/ Acks(m.tx_frame) \/ Relay(m.tx_frame, f)
        /\ HalfDuplex(n) => HalfDuplex(m)
    BY <1>4 DEF Takes
  <2>2. /\ x.tx_frame = m.tx_frame /\ x.retx_cnt = m.retx_cnt
        /\ x.prev_s_num = m.prev_s_num /\ x.delivered = m.delivered
        /\ x.air \in {m.air, NoFrame} /\ x.rx \in {m.rx, NoFrame}
        /\ HalfDuplex(m) => HalfDuplex(x)
    BY DEF Still
  <2> HIDE DEF f
  <2>3. Takes(x, n, f) BY <1>2, <2>1, <2>2 DEF Takes
  <2> QED BY <2>3 DEF f
<1> QED BY <1>1, <1>3, <1>4 DEF Turns

LEMMA StillTwice ==
  ASSUME NEW n, NEW m, NEW x, Still(m, n), Still(x, m)
  PROVE  Still(x, n)
BY DEF Still

LEMMA StillCalm == ASSUME NEW n, NEW m, Still(m, n) PROVE Calm(m, n)
BY DEF Still, Calm

-----------------------------------------------------------------------------
(* The driver.                                                             *)
LEMMA StartRxStill ==
  ASSUME NEW n \in Board, NEW keep \in BOOLEAN
  PROVE  Still(sx1262_start_rx(n, keep), n)
<1> DEFINE x == [n EXCEPT !.cmd = "NONE"]
           y == [n EXCEPT !.mode = "RX", !.cmd = "NONE", !.air = NoFrame, !.rx = NoFrame]
<1>1. Still(x, n) /\ Still(y, n) BY DEF Board, Mode, Still, HalfDuplex
<1>2. sx1262_start_rx(n, keep) \in {x, y} BY Zenon DEF sx1262_start_rx
<1> HIDE DEF x, y
<1> QED BY <1>1, <1>2

LEMMA ChipInitStill == ASSUME NEW n \in Board PROVE Still(sx1262_init(n), n)
BY DEF sx1262_init, Board, Still, HalfDuplex

LEMMA FlagsStill ==
  ASSUME NEW n \in Board
  PROVE  /\ Still([n EXCEPT !.tx_done = TRUE], n)
         /\ Still(tbfp_retx_tx_done(n), n)
         /\ \A mute \in BOOLEAN : Still([n EXCEPT !.tx_mute = mute], n)
BY DEF Board, Still, HalfDuplex, tbfp_retx_tx_done

LEMMA ChipModeStill ==
  ASSUME NEW n \in Board, NEW mode, NEW hang \in BOOLEAN
  PROVE  Still(sx1262_proc_chip_mode(n, mode, hang), n)
<1>1. sx1262_proc_chip_mode(n, mode, hang)
        \in {n, [n EXCEPT !.tx_done = TRUE], sx1262_init(n)}
  BY Zenon DEF sx1262_proc_chip_mode
<1>2. Still(n, n) BY DEF Still
<1> QED BY <1>1, <1>2, FlagsStill, ChipInitStill, Zenon

(* A transmission of what is in tx_frame.                                  *)
Airs(m, n) ==
  /\ m.tx_frame = n.tx_frame /\ m.s_num = n.s_num /\ m.retx_cnt = n.retx_cnt
  /\ m.prev_s_num = n.prev_s_num /\ m.delivered = n.delivered
  /\ m.air \in {n.air, n.tx_frame} /\ m.rx \in {n.rx, NoFrame}
  /\ HalfDuplex(n) => HalfDuplex(m)

LEMMA StartTxAirs ==
  ASSUME NEW n \in Board, NEW spi \in BOOLEAN
  PROVE  Airs(sx1262_start_tx(n, spi), n)
<1> DEFINE x == [n EXCEPT !.tx_done = FALSE]
           y == [n EXCEPT !.tx_done = FALSE, !.mode = "TX", !.cmd = "NONE",
                          !.air = n.tx_frame, !.rx = NoFrame]
<1>1. sx1262_start_tx(n, spi) \in {n, x, y} BY Zenon DEF sx1262_start_tx
<1>2. Airs(n, n) /\ Airs(x, n) /\ Airs(y, n) BY DEF Board, Airs, HalfDuplex
<1> HIDE DEF x, y
<1> QED BY <1>1, <1>2

LEMMA RetxProcCalm ==
  ASSUME NEW n, Sound(n), NEW late \in BOOLEAN, NEW spi \in BOOLEAN
  PROVE  Calm(tbfp_retx_proc(n, late, spi), n)
<1>1. n \in Board /\ n.state \in State /\ n.retx_cnt \in Nat
  BY TryMaxAssumption DEF Sound, Board
<1>2. CASE n.state = "IDLE"
  <2> DEFINE s == sx1262_start_tx(n, spi)
             x == [s EXCEPT !.retx_cnt = @ - 1, !.state = "WAIT_TX_DONE", !.tries = @ + 1]
             m == tbfp_retx_proc(n, late, spi)
  <2>1. s \in Board /\ Airs(s, n) BY <1>1, StartTxSame, StartTxAirs
  <2>2. m = n \/ (n.retx_cnt # 0 /\ m \in {s, x})
    BY <1>2, Zenon DEF tbfp_retx_proc, tbfp_proc_retx_idle
  <2> HIDE DEF s, m
  <2>3. /\ x.tx_frame = s.tx_frame /\ x.s_num = s.s_num
        /\ x.prev_s_num = s.prev_s_num /\ x.delivered = s.delivered
        /\ x.air = s.air /\ x.rx = s.rx /\ x.mode = s.mode
    BY <2>1 DEF Board
  <2> HIDE DEF x
  <2>4. Calm(n, n) BY DEF Calm
  <2>5. ASSUME n.retx_cnt # 0 PROVE Calm(s, n) /\ Calm(x, n)
    BY <1>1, <2>1, <2>3, <2>5 DEF Airs, Calm, HalfDuplex
  <2> QED BY <2>2, <2>4, <2>5 DEF m
<1>3. CASE n.state = "WAIT_TX_DONE"
  <2>1. tbfp_retx_proc(n, late, spi) = tbfp_proc_retx_wait_tx_done(n, late)
    BY <1>3 DEF tbfp_retx_proc
  <2> DEFINE x == [n EXCEPT !.state = "WAIT_ACK", !.ack = "none"]
             v == IF n.retx_cnt = 0 THEN "lack_tx_done" ELSE n.verdict
             y == [n EXCEPT !.state = "IDLE", !.verdict = v]
             z == [n EXCEPT !.input = "TX_DONE_TIME_OUT"]
  <2>2. tbfp_proc_retx_wait_tx_done(n, late) \in {n, x, y, z}
    BY Zenon DEF tbfp_proc_retx_wait_tx_done
  <2> HIDE DEF v
  <2>4. Still(x, n) /\ Still(y, n) /\ Still(z, n) /\ Still(n, n)
    BY <1>1 DEF Board, Still, HalfDuplex
  <2> HIDE DEF x, y, z
  <2> QED BY <2>1, <2>2, <2>4, StillCalm
<1>4. CASE n.state = "WAIT_ACK"
  <2>1. tbfp_retx_proc(n, late, spi) = tbfp_proc_retx_wait_ack(n, late)
    BY <1>4 DEF tbfp_retx_proc
  <2> DEFINE x == [n EXCEPT !.state = "IDLE", !.verdict = "acked", !.retx_cnt = 0]
             v == IF n.retx_cnt = 0 THEN "no_reply" ELSE n.verdict
             y == [n EXCEPT !.state = "IDLE", !.verdict = v]
             z == [n EXCEPT !.input = "RX_ACK_TIME_OUT"]
  <2>2. tbfp_proc_retx_wait_ack(n, late) \in {n, x, y, z}
    BY Zenon DEF tbfp_proc_retx_wait_ack
  <2> HIDE DEF v
  <2>3. Still(y, n) /\ Still(z, n) /\ Still(n, n)
    BY <1>1 DEF Board, Still, HalfDuplex
  <2>4. Calm(x, n) BY <1>1 DEF Board, Calm, HalfDuplex
  <2> HIDE DEF x, y, z
  <2> QED BY <2>1, <2>2, <2>3, <2>4, StillCalm
<1> QED BY <1>1, <1>2, <1>3, <1>4 DEF State

(* A send composes f.                                                      *)
JustComposed(m, n, f) ==
  /\ m.tx_frame = f /\ m.air \in {n.air, f} /\ m.rx \in {n.rx, NoFrame}
  /\ m.prev_s_num = n.prev_s_num /\ m.delivered = n.delivered
  /\ ~f.ack_need => m.retx_cnt = n.retx_cnt
  /\ HalfDuplex(n) => HalfDuplex(m)

LEMMA SendComposes ==
  ASSUME NEW n, Sound(n), NEW id \in FrameId, NEW body \in Nat, NEW lifetime \in Nat,
         NEW ack \in BOOLEAN, NEW spi \in BOOLEAN
  PROVE  JustComposed(tbfp_send(n, id, body, lifetime, ack, spi), n,
                  Composes(n, id, body, lifetime, ack))
<1> DEFINE f == Composes(n, id, body, lifetime, ack)
           h == tbfp_make_header(n, id, body, lifetime, ack)
           s == sx1262_start_tx(h, spi)
           m == tbfp_send(n, id, body, lifetime, ack, spi)
<1>1. n \in Board BY DEF Sound
<1>2. h \in Board BY MakeHeaderSound DEF Sound
<1>3. /\ h.tx_frame = f /\ h.air = n.air /\ h.rx = n.rx /\ h.mode = n.mode
      /\ h.prev_s_num = n.prev_s_num /\ h.delivered = n.delivered /\ h.retx_cnt = n.retx_cnt
  BY <1>1 DEF tbfp_make_header, Composes, Board
<1>7. f.ack_need = ack BY DEF Composes
<1> HIDE DEF h, f, m
<1>4. s \in Board /\ Airs(s, h) BY <1>2, StartTxSame, StartTxAirs
<1>5. CASE ~ack
  <2>1. m = s BY <1>5, Zenon DEF tbfp_send, h, m
  <2> HIDE DEF s
  <2>2. JustComposed(s, n, f) BY <1>3, <1>4 DEF Airs, HalfDuplex, JustComposed
  <2> QED BY <2>1, <2>2 DEF f, m
<1>6. CASE ack
  <2> DEFINE r == [s EXCEPT !.retx_cnt = TBFP_RETX_TRY_MAX, !.verdict = "pending",
                            !.tries = 0, !.cur = h.tx_frame]
             x == [r EXCEPT !.state = "WAIT_TX_DONE", !.retx_cnt = @ - 1, !.tries = 1]
             y == [r EXCEPT !.state = "IDLE"]
  <2>1. m \in {x, y}
    <3>1. m = tbfp_retx_start(h, spi) BY <1>6, Zenon DEF tbfp_send, h, m
    <3>2. tbfp_retx_start(h, spi) \in {x, y} BY Zenon DEF tbfp_retx_start
    <3> HIDE DEF x, y
    <3> QED BY <3>1, <3>2
  <2> HIDE DEF s
  <2>2. ASSUME NEW q \in {x, y}
        PROVE  /\ q.tx_frame = s.tx_frame /\ q.air = s.air /\ q.rx = s.rx /\ q.mode = s.mode
               /\ q.prev_s_num = s.prev_s_num /\ q.delivered = s.delivered
    <3>1. CASE q = x BY <1>4, <3>1 DEF Board
    <3>2. CASE q = y BY <1>4, <3>2 DEF Board
    <3> QED BY <3>1, <3>2
  <2> HIDE DEF r, x, y
  <2>3. JustComposed(m, n, f)
    BY <1>3, <1>4, <1>6, <1>7, <2>1, <2>2 DEF Airs, HalfDuplex, JustComposed
  <2> QED BY <2>3 DEF f, m
<1> QED BY <1>5, <1>6

-----------------------------------------------------------------------------
(* A frame f is taken by n; m is the board without it.                     *)
Freed(m, n) ==
  /\ m.tx_frame = n.tx_frame /\ m.s_num = n.s_num /\ m.retx_cnt = n.retx_cnt
  /\ m.prev_s_num = n.prev_s_num /\ m.delivered = n.delivered
  /\ m.air = n.air /\ m.rx = NoFrame
  /\ HalfDuplex(n) => HalfDuplex(m)

LEMMA MuteTaken ==
  ASSUME NEW n, NEW m, Sound(m), Freed(m, n),
         NEW f \in Frame, f # NoFrame, n.rx = f, Mute(f), NEW spi \in BOOLEAN
  PROVE  Turns(tbfp_proc_full(m, f, spi), n)
<1> DEFINE checked == [m EXCEPT !.prev_s_num = f.snum]
           r == tbfp_proc_full(m, f, spi)
<1>1. /\ m \in Board /\ f.snum \in SerNum /\ f.body \in Nat /\ f.id \in FrameId
      /\ ~f.ack_need /\ ~(f.lifetime \in 1 .. 3) /\ f.id \notin {"TUNNEL", "CHAT"}
  BY DEF Sound, Frame, Mute
<1>2. r \in {checked, tbfp_proc_payload(checked, f, spi)}
  BY <1>1, Zenon DEF tbfp_proc_full
<1>3. Sound(checked) /\ checked \in Board
  <2>1. Sound(checked) BY <1>1, PrevSound
  <2> QED BY <2>1 DEF Sound
<1>4. /\ checked.tx_frame = n.tx_frame /\ checked.s_num = n.s_num
      /\ checked.retx_cnt = n.retx_cnt /\ checked.delivered = n.delivered
      /\ checked.air = n.air /\ checked.rx = NoFrame
      /\ HalfDuplex(n) => HalfDuplex(checked)
  BY <1>1 DEF Board, Freed, HalfDuplex
<1> HIDE DEF checked, r
<1>5. Calm(checked, n) BY <1>1, <1>4 DEF Calm
<1>6. CASE f.id = "ACK"
  <2> DEFINE a == tbfp_retx_ack(checked, f.body)
  <2>1. tbfp_proc_payload(checked, f, spi) = a BY <1>6 DEF tbfp_proc_payload
  <2>2. Still(a, checked) BY <1>3 DEF tbfp_retx_ack, Board, Still, HalfDuplex
  <2> HIDE DEF a
  <2> QED BY <1>2, <1>5, <2>1, <2>2, StillTurns DEF Turns, r
<1>7. CASE f.id = "PONG"
  <2>1. tbfp_proc_payload(checked, f, spi) = checked BY <1>7 DEF tbfp_proc_payload
  <2> QED BY <1>2, <1>5, <2>1 DEF Turns, r
<1>8. CASE f.id = "PING"
  <2> DEFINE a == tbfp_send(checked, "PONG", 0, 0, FALSE, spi)
  <2>1. tbfp_proc_payload(checked, f, spi) = a BY <1>8 DEF tbfp_proc_payload
  <2>2. "PONG" \in FrameId /\ 0 \in Nat /\ FALSE \in BOOLEAN BY DEF FrameId
  <2> DEFINE x == Composes(checked, "PONG", 0, 0, FALSE)
  <2>3. JustComposed(a, checked, x) BY <1>3, <2>2, SendComposes
  <2>4. ~x.ack_need /\ Mute(x) BY DEF Composes, Mute
  <2> HIDE DEF a, x
  <2>5. Replies(a, n) BY <1>4, <1>8, <2>3, <2>4 DEF JustComposed, Replies
  <2> QED BY <1>2, <1>5, <2>1, <2>5 DEF Turns, r
<1> QED BY <1>1, <1>6, <1>7, <1>8 DEF FrameId

LEMMA ChatTaken ==
  ASSUME NEW n, NEW m, Sound(m), Freed(m, n),
         NEW f \in Frame, f # NoFrame, n.rx = f, f.id = "CHAT", NEW spi \in BOOLEAN
  PROVE  Takes(tbfp_proc_full(m, f, spi), n, f)
<1> DEFINE checked == [m EXCEPT !.prev_s_num = f.snum]
           relayed == IF f.lifetime \in 1 .. 3
                      THEN tbfp_send(checked, f.id, f.body, f.lifetime - 1, f.ack_need, spi)
                      ELSE checked
           acked   == IF f.ack_need THEN tbfp_send_ack(relayed, f.snum, spi) ELSE relayed
           passes  == tbfp_check_flow_control(m.prev_s_num, f.snum)
           r == tbfp_proc_full(m, f, spi)
           Same(x) == /\ x.rx = NoFrame /\ x.prev_s_num = f.snum /\ x.delivered = n.delivered
                      /\ HalfDuplex(n) => HalfDuplex(x)
<1>1. /\ m \in Board /\ f.snum \in SerNum /\ f.snum \in Nat /\ f.body \in Nat /\ f.id \in FrameId
      /\ f.ack_need \in BOOLEAN /\ f.lifetime \in 0 .. 15
  BY SnModAssumption DEF Sound, Frame, SerNum
<1>2. r = IF passes THEN tbfp_proc_payload(acked, f, spi) ELSE acked
  BY Zenon DEF tbfp_proc_full
<1>3. Sound(checked) /\ checked \in Board
  <2>1. Sound(checked) BY <1>1, PrevSound
  <2> QED BY <2>1 DEF Sound
<1>4. /\ checked.tx_frame = n.tx_frame /\ checked.retx_cnt = n.retx_cnt
      /\ checked.air = n.air /\ Same(checked)
  BY <1>1 DEF Board, Freed, HalfDuplex
<1> HIDE DEF checked
<1>5. /\ Sound(relayed) /\ Same(relayed)
      /\ relayed.air = n.air \/ Relay(relayed.air, f)
      /\ ~f.ack_need => /\ relayed.retx_cnt = n.retx_cnt
                        /\ relayed.tx_frame = n.tx_frame \/ Relay(relayed.tx_frame, f)
  <2>1. CASE ~(f.lifetime \in 1 .. 3) BY <1>3, <1>4, <2>1
  <2>2. CASE f.lifetime \in 1 .. 3
    <3> DEFINE l == f.lifetime - 1
               s == tbfp_send(checked, f.id, f.body, l, f.ack_need, spi)
               x == Composes(checked, f.id, f.body, l, f.ack_need)
    <3>1. relayed = s BY <2>2
    <3>2. l \in Nat /\ l < 3 BY <2>2
    <3>3. x.id = f.id /\ x.lifetime = f.lifetime - 1 /\ x.ack_need = f.ack_need
      BY <3>2 DEF Composes
    <3>4. JustComposed(s, checked, x)
      <4> HIDE DEF l
      <4> QED BY <1>1, <1>3, <3>2, SendComposes
    <3>5. Sound(s)
      <4> HIDE DEF l
      <4> QED BY <1>1, <1>3, <3>2, SendSound
    <3> HIDE DEF s, x
    <3>6. Relay(x, f) BY <2>2, <3>3 DEF Relay
    <3> QED BY <1>4, <3>1, <3>3, <3>4, <3>5, <3>6 DEF JustComposed
  <2> QED BY <2>1, <2>2
<1> HIDE DEF relayed
<1>6. /\ Sound(acked) /\ Same(acked)
      /\ acked.air = n.air \/ Acks(acked.air) \/ Relay(acked.air, f)
      /\ IF f.ack_need THEN Acks(acked.tx_frame)
         ELSE /\ acked.retx_cnt = n.retx_cnt
              /\ acked.tx_frame = n.tx_frame \/ Relay(acked.tx_frame, f)
  <2>1. CASE ~f.ack_need BY <1>5, <2>1
  <2>2. CASE f.ack_need
    <3> DEFINE s == tbfp_send(relayed, "ACK", f.snum, 0, FALSE, spi)
    <3>1. acked = s BY <2>2, Zenon DEF tbfp_send_ack
    <3>2. "ACK" \in FrameId /\ 0 \in Nat /\ FALSE \in BOOLEAN BY DEF FrameId
    <3> DEFINE x == Composes(relayed, "ACK", f.snum, 0, FALSE)
    <3>3. JustComposed(s, relayed, x) BY <1>1, <1>5, <3>2, SendComposes
    <3>4. Sound(s) BY <1>1, <1>5, <3>2, SendSound
    <3>5. Acks(x) BY DEF Composes, Acks
    <3> HIDE DEF s, x
    <3> QED BY <1>5, <2>2, <3>1, <3>3, <3>4, <3>5 DEF JustComposed
  <2> QED BY <2>1, <2>2
<1> HIDE DEF acked
<1>7. CASE ~passes
  <2>1. r = acked BY <1>2, <1>7
  <2> HIDE DEF r
  <2> QED BY <1>1, <1>6, <2>1 DEF Takes, r
<1>8. CASE passes
  <2> DEFINE all == Append(n.delivered, f.body)
             x == [acked EXCEPT !.delivered = Append(@, f.body)]
  <2>1. r = x BY <1>2, <1>8 DEF tbfp_proc_payload
  <2> HIDE DEF r
  <2>2. acked \in Board BY <1>6 DEF Sound
  <2>3. /\ x.delivered = all /\ x.rx = acked.rx /\ x.prev_s_num = acked.prev_s_num
        /\ x.air = acked.air /\ x.tx_frame = acked.tx_frame /\ x.retx_cnt = acked.retx_cnt
        /\ x.mode = acked.mode
    BY <1>6, <2>2 DEF Board
  <2>4. f.snum > n.prev_s_num BY <1>8 DEF tbfp_check_flow_control, Freed
  <2> HIDE DEF x, all
  <2>5. HalfDuplex(n) => HalfDuplex(x) BY <1>6, <2>3 DEF HalfDuplex
  <2> QED BY <1>1, <1>6, <2>1, <2>3, <2>4, <2>5 DEF Takes, all, r
<1> QED BY <1>7, <1>8

(* The frames a board receives here.                                       *)
Simple(f) == Mute(f) \/ (f # NoFrame /\ f.id = "CHAT")

LEMMA DataAvalTurns ==
  ASSUME NEW n, Sound(n), Simple(n.rx), NEW spi \in BOOLEAN
  PROVE  Turns(sx1262_proc_data_aval(n, spi), n)
<1> DEFINE m == [n EXCEPT !.rx = NoFrame, !.cmd = "NONE"]
<1>1. n \in Board /\ (n.rx = NoFrame \/ n.rx \in Frame) BY DEF Sound, Board
<1>2. Sound(m)
  <2>1. m \in Board /\ RetxSame(m, n) BY <1>1 DEF Board, Status, RetxSame
  <2> QED BY <2>1, RetxSameSound
<1>3. Freed(m, n) BY <1>1 DEF Board, Freed, HalfDuplex
<1>4. sx1262_proc_data_aval(n, spi) =
        IF n.rx = NoFrame THEN m ELSE tbfp_proc_full(m, n.rx, spi)
  BY DEF sx1262_proc_data_aval
<1> HIDE DEF m
<1>5. CASE n.rx = NoFrame
  <2>1. Still(m, n) BY <1>3 DEF Still, Freed
  <2> QED BY <1>4, <1>5, <2>1, StillCalm DEF Turns
<1>6. CASE n.rx # NoFrame
  <2>1. CASE Mute(n.rx) BY <1>1, <1>2, <1>3, <1>4, <1>6, <2>1, MuteTaken
  <2>2. CASE n.rx.id = "CHAT"
    <3>1. Takes(tbfp_proc_full(m, n.rx, spi), n, n.rx)
      BY <1>1, <1>2, <1>3, <1>6, <2>2, ChatTaken
    <3> QED BY <1>4, <1>6, <3>1 DEF Turns
  <2> QED BY <1>6, <2>1, <2>2 DEF Simple
<1> QED BY <1>5, <1>6

LEMMA PollStatusTurns ==
  ASSUME NEW n, Sound(n), Simple(n.rx),
         NEW spi \in BOOLEAN, NEW keep \in BOOLEAN, NEW hang \in BOOLEAN
  PROVE  Turns(sx1262_poll_status(n, spi, keep, hang), n)
<1> DEFINE got  == sx1262_proc_data_aval(n, spi)
           data == sx1262_start_rx(got, keep)
           free == [n EXCEPT !.tx_done = TRUE]
           told == tbfp_retx_tx_done(free)
           done == sx1262_start_rx(told, keep)
           served == CASE n.cmd = "DATA_AVAIL" -> data
                       [] n.cmd = "TX_DONE" -> done
                       [] OTHER -> n
<1>1. n \in Board /\ Still(n, n) BY DEF Sound, Still
<1>2. Turns(data, n) /\ Sound(data)
  <2>1. Turns(got, n) /\ Sound(got) /\ got \in Board BY DataAvalTurns, DataAvalSound DEF Sound
  <2> HIDE DEF got
  <2>2. Still(data, got) /\ Sound(data) BY <2>1, StartRxStill, StartRxSound
  <2> HIDE DEF data
  <2> QED BY <2>1, <2>2, StillTurns
<1>3. Turns(done, n) /\ Sound(done)
  <2>1. Sound(free) /\ free \in Board BY TxDoneFlagSound DEF Sound
  <2>2. Still(free, n) BY <1>1, FlagsStill
  <2> HIDE DEF free
  <2>3. Sound(told) /\ told \in Board BY <2>1, RetxTxDoneSound DEF Sound
  <2>4. Still(told, free) BY <2>1, FlagsStill
  <2> HIDE DEF told
  <2>5. Still(done, told) /\ Sound(done) BY <2>3, StartRxStill, StartRxSound
  <2> HIDE DEF done
  <2>6. Still(done, n) BY <2>2, <2>4, <2>5, StillTwice
  <2> QED BY <2>5, <2>6, StillCalm DEF Turns
<1>4. Turns(served, n) /\ Sound(served)
  <2>1. Turns(n, n) BY <1>1, StillCalm DEF Turns
  <2> HIDE DEF data, done
  <2> QED BY <1>2, <1>3, <2>1
<1>5. sx1262_poll_status(n, spi, keep, hang) = sx1262_proc_chip_mode(served, n.mode, hang)
  BY Zenon DEF sx1262_poll_status
<1> HIDE DEF served
<1>6. Still(sx1262_proc_chip_mode(served, n.mode, hang), served) BY <1>4, ChipModeStill DEF Sound
<1> QED BY <1>4, <1>5, <1>6, StillTurns

-----------------------------------------------------------------------------
(***************************************************************************)
(* The stages of a lone line.  Before it: no frame asks for anything, and  *)
(* while the user has not yet typed there is no frame at all.              *)
(***************************************************************************)
Unused(n) ==
  /\ n.tx_frame = NoFrame /\ n.air = NoFrame /\ n.rx = NoFrame
  /\ n.s_num = 1 /\ n.prev_s_num = 0

Unspoken(n, left) ==
  /\ Mute(n.tx_frame) /\ Mute(n.air) /\ Mute(n.rx)
  /\ n.delivered = << >> /\ n.retx_cnt = 0
  /\ left > 0 => Unused(n)

(* The speaker s has the line f in tx_frame.  The hearer h sends           *)
(* acknowledges and relays, no relay twice.  When a relay has reached the  *)
(* speaker, nothing else is under way.                                     *)
Spoken(s, h, f) ==
  /\ f.id = "CHAT" /\ f.snum = 1 /\ f.lifetime \in {0, 2}
  /\ s.tx_frame = f /\ s.air \in {f, NoFrame} /\ h.rx \in {f, NoFrame}
  /\ Acks(h.air) \/ (Chat(h.air, 1) /\ h.air.ack_need = f.ack_need)
  /\ Acks(h.tx_frame) \/ (Chat(h.tx_frame, 1) /\ h.tx_frame.ack_need = f.ack_need /\ h.retx_cnt = 0)
  /\ \/ Acks(s.rx)
     \/ Chat(s.rx, 1) /\ s.rx.ack_need = f.ack_need /\ h.rx = NoFrame /\ Acks(h.air)
  /\ ~f.ack_need => s.retx_cnt = 0 /\ h.retx_cnt = 0
  /\ s.delivered = << >> /\ h.prev_s_num \in {0, 1} /\ Len(h.delivered) <= h.prev_s_num

(* The speaker has taken a relay: it retransmits acknowledges only, and    *)
(* its own relay is on its way to the hearer once at most.                 *)
Returned(s, h) ==
  /\ Len(s.delivered) <= 1 /\ Len(h.delivered) <= 2
  /\ Acks(s.rx) /\ Acks(h.air)
  /\ Acks(s.tx_frame) \/ s.retx_cnt = 0
  /\ Acks(h.tx_frame) \/ h.retx_cnt = 0
  /\ Acks(s.air) \/ (Chat(s.air, 0) /\ Acks(h.rx) /\ Len(h.delivered) <= 1)
  /\ Acks(h.rx) \/ (Chat(h.rx, 0) /\ Len(h.delivered) <= 1)

(* Boards n and p, with "left" commands left.                              *)
Lone(n, p, left) ==
  \/ left <= 1 /\ Unspoken(n, left) /\ Unspoken(p, left)
  \/ /\ left = 0
     /\ \/ Spoken(n, p, n.tx_frame) \/ Spoken(p, n, p.tx_frame)
        \/ Returned(n, p) \/ Returned(p, n)

-----------------------------------------------------------------------------
(* A board takes a turn before, as the speaker, and as the hearer.         *)
LEMMA UnspokenTurns ==
  ASSUME NEW n, NEW m, NEW left \in Nat, NEW rest \in 0 .. left,
         Turns(m, n), Unspoken(n, left)
  PROVE  Unspoken(m, rest)
<1>1. Mute(NoFrame) BY DEF Mute
<1>2. ~Takes(m, n, n.rx) BY DEF Takes, Unspoken, Mute
<1>3. ASSUME Calm(m, n) PROVE Unspoken(m, rest)
  <2>1. Mute(m.tx_frame) /\ Mute(m.air) /\ Mute(m.rx) BY <1>1, <1>3, Zenon DEF Calm, Unspoken
  <2>2. m.delivered = << >> /\ m.retx_cnt = 0 BY <1>3 DEF Calm, Unspoken
  <2>3. ASSUME rest > 0 PROVE Unused(m)
    <3>1. Unused(n) /\ n.retx_cnt = 0 BY <2>3 DEF Unspoken
    <3> QED BY <1>3, <3>1 DEF Calm, Unused
  <2> QED BY <2>1, <2>2, <2>3 DEF Unspoken
<1>4. ASSUME Replies(m, n) PROVE Unspoken(m, rest)
  <2>1. Mute(m.tx_frame) /\ Mute(m.air) /\ Mute(m.rx) BY <1>1, <1>4, Zenon DEF Replies, Unspoken
  <2>2. m.delivered = << >> /\ m.retx_cnt = 0 BY <1>4 DEF Replies, Unspoken
  <2>3. rest > 0 => n.rx = NoFrame BY DEF Unspoken, Unused
  <2> QED BY <1>4, <2>1, <2>2, <2>3 DEF Unspoken, Replies
<1> QED BY <1>2, <1>3, <1>4 DEF Turns

LEMMA SpeakerTurns ==
  ASSUME NEW n \in Board, NEW m, NEW p \in Board, NEW f, HalfDuplex(n),
         Turns(m, n), Spoken(n, p, f)
  PROVE  Spoken(m, p, f) \/ Returned(m, p)
<1>1. Acks(NoFrame) BY DEF Acks
<1>2. ~Replies(m, n) BY DEF Replies, Spoken, Acks, Chat
<1>3. /\ f.id = "CHAT" /\ f.snum = 1 /\ f.lifetime \in {0, 2}
      /\ n.tx_frame = f /\ n.air \in {f, NoFrame} /\ p.rx \in {f, NoFrame}
      /\ Acks(p.air) \/ (Chat(p.air, 1) /\ p.air.ack_need = f.ack_need)
      /\ Acks(p.tx_frame) \/ (Chat(p.tx_frame, 1) /\ p.tx_frame.ack_need = f.ack_need /\ p.retx_cnt = 0)
      /\ \/ Acks(n.rx)
         \/ Chat(n.rx, 1) /\ n.rx.ack_need = f.ack_need /\ p.rx = NoFrame /\ Acks(p.air)
      /\ ~f.ack_need => n.retx_cnt = 0 /\ p.retx_cnt = 0
      /\ n.delivered = << >> /\ p.prev_s_num \in {0, 1} /\ Len(p.delivered) <= p.prev_s_num
  BY DEF Spoken
<1>4. ASSUME Calm(m, n) PROVE Spoken(m, p, f)
  <2>1. /\ m.tx_frame = n.tx_frame /\ m.delivered = n.delivered
        /\ m.air \in {n.air, NoFrame, n.tx_frame} /\ m.rx \in {n.rx, NoFrame}
        /\ n.retx_cnt = 0 => m.retx_cnt = 0
    BY <1>4 DEF Calm
  <2>2. \/ Acks(m.rx)
        \/ Chat(m.rx, 1) /\ m.rx.ack_need = f.ack_need /\ p.rx = NoFrame /\ Acks(p.air)
    BY <1>1, <1>3, <2>1
  <2>3. m.air \in {f, NoFrame} BY <1>3, <2>1
  <2> QED BY <1>3, <2>1, <2>2, <2>3 DEF Spoken
<1>5. ASSUME Takes(m, n, n.rx) PROVE Returned(m, p)
  <2> DEFINE g == n.rx
  <2>1. g.id = "CHAT" /\ g # NoFrame BY <1>5 DEF Takes
  <2>2. Chat(g, 1) /\ g.ack_need = f.ack_need /\ p.rx = NoFrame /\ Acks(p.air)
    BY <1>3, <2>1 DEF Acks
  <2>3. n.air = NoFrame BY <2>1 DEF HalfDuplex
  <2>4. /\ m.rx = NoFrame
        /\ m.delivered = n.delivered \/ m.delivered = Append(n.delivered, g.body)
        /\ m.air = n.air \/ Acks(m.air) \/ Relay(m.air, g)
        /\ IF g.ack_need THEN Acks(m.tx_frame) ELSE m.retx_cnt = n.retx_cnt
    BY <1>5 DEF Takes
  <2> HIDE DEF g
  <2>5. Len(m.delivered) <= 1
    <3>1. n.delivered \in Seq(Nat) /\ Len(n.delivered) = 0 BY <1>3 DEF Board
    <3>2. Len(Append(n.delivered, g.body)) = 1 BY <3>1
    <3> QED BY <2>4, <3>1, <3>2
  <2>6. Len(p.delivered) <= 1 BY <1>3
  <2>7. Acks(m.air) \/ Chat(m.air, 0)
    BY <1>1, <2>2, <2>3, <2>4 DEF Relay, Chat, Acks
  <2>8. Acks(m.tx_frame) \/ m.retx_cnt = 0 BY <1>3, <2>2, <2>4
  <2>9. Acks(p.tx_frame) \/ p.retx_cnt = 0 BY <1>3
  <2> QED BY <1>1, <2>2, <2>4, <2>5, <2>6, <2>7, <2>8, <2>9 DEF Returned
<1> QED BY <1>2, <1>4, <1>5 DEF Turns

LEMMA HearerTurns ==
  ASSUME NEW n \in Board, NEW m, NEW p \in Board, NEW f, HalfDuplex(n),
         Turns(m, n), Spoken(p, n, f)
  PROVE  Spoken(p, m, f)
<1>1. Acks(NoFrame) BY DEF Acks
<1>2. ~Replies(m, n) BY DEF Replies, Spoken
<1>3. /\ f.id = "CHAT" /\ f.snum = 1 /\ f.lifetime \in {0, 2}
      /\ p.tx_frame = f /\ p.air \in {f, NoFrame} /\ n.rx \in {f, NoFrame}
      /\ Acks(n.air) \/ (Chat(n.air, 1) /\ n.air.ack_need = f.ack_need)
      /\ Acks(n.tx_frame) \/ (Chat(n.tx_frame, 1) /\ n.tx_frame.ack_need = f.ack_need /\ n.retx_cnt = 0)
      /\ \/ Acks(p.rx)
         \/ Chat(p.rx, 1) /\ p.rx.ack_need = f.ack_need /\ n.rx = NoFrame /\ Acks(n.air)
      /\ ~f.ack_need => p.retx_cnt = 0 /\ n.retx_cnt = 0
      /\ p.delivered = << >> /\ n.prev_s_num \in {0, 1} /\ Len(n.delivered) <= n.prev_s_num
  BY DEF Spoken
<1>4. n.delivered \in Seq(Nat) /\ n.retx_cnt \in Nat BY TryMaxAssumption DEF Board
<1>5. ASSUME Calm(m, n) PROVE Spoken(p, m, f)
  <2>1. /\ m.tx_frame = n.tx_frame /\ m.delivered = n.delivered
        /\ m.air \in {n.air, NoFrame} \/ (m.air = n.tx_frame /\ n.retx_cnt > 0)
        /\ m.rx \in {n.rx, NoFrame}
        /\ n.retx_cnt = 0 => m.retx_cnt = 0
        /\ m.prev_s_num = n.prev_s_num
    BY <1>3, <1>5 DEF Calm
  <2>2. /\ m.air \in {n.air, NoFrame} \/ Acks(m.air)
    BY <1>3, <2>1
  <2>3. /\ Acks(m.air) \/ (Chat(m.air, 1) /\ m.air.ack_need = f.ack_need)
        /\ Acks(n.air) => Acks(m.air)
    BY <1>1, <1>3, <2>2
  <2>4. Acks(m.tx_frame) \/ (Chat(m.tx_frame, 1) /\ m.tx_frame.ack_need = f.ack_need /\ m.retx_cnt = 0)
    BY <1>3, <2>1
  <2>5. /\ m.rx \in {f, NoFrame} /\ (n.rx = NoFrame => m.rx = NoFrame)
    BY <1>3, <2>1
  <2>6. \/ Acks(p.rx)
        \/ Chat(p.rx, 1) /\ p.rx.ack_need = f.ack_need /\ m.rx = NoFrame /\ Acks(m.air)
    BY <1>3, <2>3, <2>5
  <2> QED BY <1>3, <2>1, <2>3, <2>4, <2>5, <2>6 DEF Spoken
<1>6. ASSUME Takes(m, n, n.rx) PROVE Spoken(p, m, f)
  <2>1. n.rx = f /\ f # NoFrame BY <1>3, <1>6 DEF Takes
  <2>2. /\ m.rx = NoFrame /\ m.prev_s_num = f.snum
        /\ \/ m.delivered = n.delivered
           \/ f.snum > n.prev_s_num /\ m.delivered = Append(n.delivered, f.body)
        /\ m.air = n.air \/ Acks(m.air) \/ Relay(m.air, f)
        /\ IF f.ack_need THEN Acks(m.tx_frame)
           ELSE /\ m.retx_cnt = n.retx_cnt
                /\ m.tx_frame = n.tx_frame \/ Acks(m.tx_frame) \/ Relay(m.tx_frame, f)
    BY <1>6, <2>1 DEF Takes
  <2>3. \A x : Relay(x, f) => Acks(x) \/ (Chat(x, 1) /\ x.ack_need = f.ack_need)
    BY <1>3 DEF Relay, Chat, Acks
  <2>4. Acks(m.air) \/ (Chat(m.air, 1) /\ m.air.ack_need = f.ack_need)
    BY <1>3, <2>2, <2>3
  <2>5. Acks(m.tx_frame) \/ (Chat(m.tx_frame, 1) /\ m.tx_frame.ack_need = f.ack_need /\ m.retx_cnt = 0)
    BY <1>3, <2>2, <2>3
  <2>6. Acks(p.rx) BY <1>3, <2>1
  <2>7. m.prev_s_num = 1 /\ Len(m.delivered) <= 1
    <3>1. CASE m.delivered = n.delivered BY <1>3, <1>4, <2>2, <3>1
    <3>2. CASE f.snum > n.prev_s_num /\ m.delivered = Append(n.delivered, f.body)
      <4>1. n.prev_s_num = 0 /\ Len(n.delivered) <= 0 BY <1>3, <3>2
      <4>2. Len(m.delivered) = Len(n.delivered) + 1 BY <1>4, <3>2
      <4> QED BY <1>3, <1>4, <2>2, <4>1, <4>2
    <3> QED BY <2>2, <3>1, <3>2
  <2>8. ~f.ack_need => p.retx_cnt = 0 /\ m.retx_cnt = 0 BY <1>3, <2>2
  <2> QED BY <1>1, <1>3, <2>2, <2>4, <2>5, <2>6, <2>7, <2>8 DEF Spoken
<1> QED BY <1>2, <1>5, <1>6 DEF Turns

LEMMA ReturnedTurns ==
  ASSUME NEW n \in Board, NEW m, NEW p \in Board, Turns(m, n)
  PROVE  /\ Returned(n, p) => Returned(m, p)
         /\ Returned(p, n) => Returned(p, m)
<1>1. Acks(NoFrame) BY DEF Acks
<1>2. n.delivered \in Seq(Nat) /\ n.retx_cnt \in Nat BY TryMaxAssumption DEF Board
<1>3. ASSUME Returned(n, p) PROVE Returned(m, p)
  <2>1. Calm(m, n) BY <1>3 DEF Turns, Replies, Takes, Returned, Acks
  <2>2. /\ m.tx_frame = n.tx_frame /\ m.delivered = n.delivered
        /\ m.air \in {n.air, NoFrame} \/ (m.air = n.tx_frame /\ n.retx_cnt > 0)
        /\ m.rx \in {n.rx, NoFrame}
        /\ n.retx_cnt = 0 => m.retx_cnt = 0
    BY <2>1 DEF Calm
  <2>3. m.air = n.air \/ Acks(m.air) BY <1>1, <1>3, <2>2 DEF Returned
  <2>4. Acks(m.rx) BY <1>1, <1>3, <2>2 DEF Returned
  <2> QED BY <1>3, <2>2, <2>3, <2>4 DEF Returned
<1>4. ASSUME Returned(p, n) PROVE Returned(p, m)
  <2>1. /\ Len(p.delivered) <= 1 /\ Len(n.delivered) <= 2
        /\ Acks(p.rx) /\ Acks(n.air)
        /\ Acks(p.tx_frame) \/ p.retx_cnt = 0
        /\ Acks(n.tx_frame) \/ n.retx_cnt = 0
        /\ Acks(p.air) \/ (Chat(p.air, 0) /\ Acks(n.rx) /\ Len(n.delivered) <= 1)
        /\ Acks(n.rx) \/ (Chat(n.rx, 0) /\ Len(n.delivered) <= 1)
    BY <1>4 DEF Returned
  <2>2. ~Replies(m, n) BY <2>1 DEF Replies, Acks, Chat
  <2>3. ASSUME Calm(m, n) PROVE Returned(p, m)
    <3>1. /\ m.tx_frame = n.tx_frame /\ m.delivered = n.delivered
          /\ m.air \in {n.air, NoFrame} \/ (m.air = n.tx_frame /\ n.retx_cnt > 0)
          /\ m.rx \in {n.rx, NoFrame}
          /\ n.retx_cnt = 0 => m.retx_cnt = 0
      BY <2>3 DEF Calm
    <3>2. Acks(m.air) BY <1>1, <2>1, <3>1
    <3>3. m.rx = n.rx \/ Acks(m.rx) BY <1>1, <3>1
    <3> QED BY <2>1, <3>1, <3>2, <3>3 DEF Returned
  <2>4. ASSUME Takes(m, n, n.rx) PROVE Returned(p, m)
    <3> DEFINE g == n.rx
    <3>1. Chat(g, 0) /\ Len(n.delivered) <= 1 /\ Acks(p.air)
      BY <2>1, <2>4 DEF Takes, Acks
    <3>2. /\ m.rx = NoFrame
          /\ m.delivered = n.delivered \/ m.delivered = Append(n.delivered, g.body)
          /\ m.air = n.air \/ Acks(m.air) \/ Relay(m.air, g)
          /\ IF g.ack_need THEN Acks(m.tx_frame)
             ELSE /\ m.retx_cnt = n.retx_cnt
                  /\ m.tx_frame = n.tx_frame \/ Acks(m.tx_frame) \/ Relay(m.tx_frame, g)
      BY <2>4 DEF Takes
    <3> HIDE DEF g
    <3>3. \A x : ~Relay(x, g) BY <3>1 DEF Relay, Chat
    <3>4. Acks(m.air) BY <2>1, <3>2, <3>3
    <3>5. Acks(m.tx_frame) \/ m.retx_cnt = 0 BY <2>1, <3>2, <3>3
    <3>6. Len(m.delivered) <= 2 BY <1>2, <3>1, <3>2
    <3> QED BY <1>1, <2>1, <3>1, <3>2, <3>4, <3>5, <3>6 DEF Returned
  <2> QED BY <2>2, <2>3, <2>4 DEF Turns
<1> QED BY <1>3, <1>4

LEMMA LoneTurns ==
  ASSUME NEW n \in Board, NEW m, NEW p \in Board, NEW left \in Nat, NEW rest \in 0 .. left,
         HalfDuplex(n), Turns(m, n), Lone(n, p, left)
  PROVE  Lone(m, p, rest) /\ HalfDuplex(m)
<1>1. HalfDuplex(m) BY DEF Turns, Calm, Replies, Takes
<1>2. CASE left <= 1 /\ Unspoken(n, left) /\ Unspoken(p, left)
  <2>1. Unspoken(m, rest) BY <1>2, UnspokenTurns
  <2>2. Unspoken(p, rest) BY <1>2 DEF Unspoken
  <2> QED BY <1>1, <1>2, <2>1, <2>2 DEF Lone
<1>3. CASE left = 0 /\ Spoken(n, p, n.tx_frame)
  <2>1. Spoken(m, p, n.tx_frame) \/ Returned(m, p) BY <1>3, SpeakerTurns
  <2>2. Spoken(m, p, n.tx_frame) => Spoken(m, p, m.tx_frame) BY DEF Spoken
  <2> QED BY <1>1, <1>3, <2>1, <2>2 DEF Lone
<1>4. CASE left = 0 /\ Spoken(p, n, p.tx_frame)
  <2>1. Spoken(p, m, p.tx_frame) BY <1>4, HearerTurns
  <2> QED BY <1>1, <1>4, <2>1 DEF Lone
<1>5. CASE left = 0 /\ (Returned(n, p) \/ Returned(p, n))
  <2>1. Returned(m, p) \/ Returned(p, m) BY <1>5, ReturnedTurns
  <2> QED BY <1>1, <1>5, <2>1 DEF Lone
<1> QED BY <1>2, <1>3, <1>4, <1>5 DEF Lone

-----------------------------------------------------------------------------
(* The steps of the link.                                                  *)
LEMMA LoneSends ==
  ASSUME NEW n, Sound(n), NEW p \in Board, NEW left \in Nat, left > 0,
         HalfDuplex(n), Lone(n, p, left),
         NEW id, NEW body \in Nat, NEW lifetime \in {0, 2}, NEW ack \in BOOLEAN,
         id = "CHAT" \/ (id = "PING" /\ lifetime = 0 /\ ~ack)
  PROVE  /\ Lone(tbfp_send(n, id, body, lifetime, ack, TRUE), p, left - 1)
         /\ HalfDuplex(tbfp_send(n, id, body, lifetime, ack, TRUE))
<1> DEFINE f == Composes(n, id, body, lifetime, ack)
           m == tbfp_send(n, id, body, lifetime, ack, TRUE)
<1>1. id \in FrameId /\ lifetime \in Nat /\ TRUE \in BOOLEAN BY DEF FrameId
<1>2. JustComposed(m, n, f) BY <1>1, SendComposes
<1>3. left = 1 /\ Unspoken(n, left) /\ Unspoken(p, left) BY DEF Lone
<1>4. /\ Unused(n) /\ n.delivered = << >> /\ n.retx_cnt = 0
      /\ Unused(p) /\ p.delivered = << >> /\ p.retx_cnt = 0
  BY <1>3 DEF Unspoken
<1>5. Unspoken(p, 0) BY <1>3 DEF Unspoken
<1>6. f.id = id /\ f.snum = 1 /\ f.lifetime = lifetime /\ f.ack_need = ack
  BY <1>4 DEF Composes, Unused
<1> HIDE DEF f, m
<1>7. /\ m.tx_frame = f /\ m.air \in {f, NoFrame} /\ m.rx = NoFrame
      /\ m.delivered = << >> /\ (~f.ack_need => m.retx_cnt = 0) /\ HalfDuplex(m)
  BY <1>2, <1>4 DEF JustComposed, Unused
<1>8. Acks(NoFrame) /\ Mute(NoFrame) BY DEF Acks, Mute
<1>9. CASE id = "PING" /\ lifetime = 0 /\ ~ack
  <2>1. Mute(f) BY <1>6, <1>9 DEF Mute
  <2>2. Unspoken(m, 0) BY <1>6, <1>7, <1>8, <1>9, <2>1 DEF Unspoken
  <2>3. Lone(m, p, left - 1) BY <1>3, <1>5, <2>2 DEF Lone
  <2> QED BY <1>7, <2>3 DEF m
<1>10. CASE id = "CHAT"
  <2>1. Len(p.delivered) <= p.prev_s_num /\ p.prev_s_num \in {0, 1} BY <1>4 DEF Unused
  <2>2. p.air = NoFrame /\ p.tx_frame = NoFrame /\ p.rx = NoFrame BY <1>4 DEF Unused
  <2>3. Spoken(m, p, f) BY <1>4, <1>6, <1>7, <1>8, <1>10, <2>1, <2>2 DEF Spoken
  <2>4. Lone(m, p, left - 1) BY <1>3, <1>7, <2>3 DEF Lone
  <2> QED BY <1>7, <2>4 DEF m
<1> QED BY <1>9, <1>10

(* The frame that board n has put on air arrives at p, or does not.        *)
LEMMA LoneEnds ==
  ASSUME NEW n \in Board, NEW m, NEW p \in Board, NEW q, NEW left \in Nat,
         HalfDuplex(n), HalfDuplex(p), n.mode = "TX", Lone(n, p, left),
         m = [n EXCEPT !.mode = "STBY_RC", !.cmd = "TX_DONE", !.air = NoFrame],
         q = p \/ (p.mode = "RX" /\ q = Receive(p, n.air))
  PROVE  Lone(m, q, left) /\ HalfDuplex(m) /\ HalfDuplex(q)
<1>1. /\ m.tx_frame = n.tx_frame /\ m.s_num = n.s_num /\ m.retx_cnt = n.retx_cnt
      /\ m.prev_s_num = n.prev_s_num /\ m.delivered = n.delivered
      /\ m.air = NoFrame /\ m.rx = NoFrame /\ n.rx = NoFrame /\ HalfDuplex(m)
  BY DEF Board, HalfDuplex
<1>2. /\ q.tx_frame = p.tx_frame /\ q.s_num = p.s_num /\ q.retx_cnt = p.retx_cnt
      /\ q.prev_s_num = p.prev_s_num /\ q.delivered = p.delivered
      /\ q.air = p.air /\ q.rx \in {p.rx, n.air} /\ HalfDuplex(q)
  BY DEF Board, HalfDuplex, Receive
<1>3. Acks(NoFrame) /\ Mute(NoFrame) BY DEF Acks, Mute
<1>4. CASE left <= 1 /\ Unspoken(n, left) /\ Unspoken(p, left)
  <2>1. Unspoken(m, left) BY <1>1, <1>3, <1>4 DEF Unspoken, Unused
  <2>2. Unspoken(q, left) BY <1>2, <1>3, <1>4 DEF Unspoken, Unused
  <2> QED BY <1>1, <1>2, <1>4, <2>1, <2>2 DEF Lone
<1>5. CASE left = 0 /\ Spoken(n, p, n.tx_frame)
  <2>1. q.rx \in {n.tx_frame, NoFrame} BY <1>2, <1>5 DEF Spoken
  <2>2. Spoken(m, q, m.tx_frame) BY <1>1, <1>2, <1>3, <1>5, <2>1 DEF Spoken
  <2> QED BY <1>1, <1>2, <1>5, <2>2 DEF Lone
<1>6. CASE left = 0 /\ Spoken(p, n, p.tx_frame)
  <2> DEFINE f == p.tx_frame
  <2>1. \/ Acks(q.rx)
        \/ Chat(q.rx, 1) /\ q.rx.ack_need = f.ack_need
    BY <1>2, <1>6 DEF Spoken
  <2>2. Spoken(q, m, q.tx_frame) BY <1>1, <1>2, <1>3, <1>6, <2>1 DEF Spoken
  <2> QED BY <1>1, <1>2, <1>6, <2>2 DEF Lone
<1>7. CASE left = 0 /\ Returned(n, p)
  <2>1. Acks(q.rx) \/ (Chat(q.rx, 0) /\ Len(q.delivered) <= 1)
    BY <1>2, <1>7 DEF Returned
  <2>2. Returned(m, q) BY <1>1, <1>2, <1>3, <1>7, <2>1 DEF Returned
  <2> QED BY <1>1, <1>2, <1>7, <2>2 DEF Lone
<1>8. CASE left = 0 /\ Returned(p, n)
  <2>1. Acks(q.rx) BY <1>2, <1>8 DEF Returned
  <2>2. Returned(q, m) BY <1>1, <1>2, <1>3, <1>8, <2>1 DEF Returned
  <2> QED BY <1>1, <1>2, <1>8, <2>2 DEF Lone
<1> QED BY <1>4, <1>5, <1>6, <1>7, <1>8 DEF Lone

LEMMA LoneSimple ==
  ASSUME NEW n, NEW p, NEW left, Lone(n, p, left)
  PROVE  Simple(n.rx)
<1>1. \A f : Acks(f) => Mute(f) BY DEF Acks, Mute
<1> QED BY <1>1 DEF Lone, Unspoken, Spoken, Returned, Simple, Chat, Mute

LoneInv(b, o) ==
  LoneLine =>
    /\ Lone(node[b], node[o], user)
    /\ HalfDuplex(node[b]) /\ HalfDuplex(node[o])

LEMMA LoneBoth ==
  ASSUME NEW b, NEW o, LoneInv(b, o) PROVE LoneInv(o, b)
BY DEF LoneInv, Lone

LEMMA LoneSteps ==
  ASSUME NEW b, NEW o, b # o, Boards = {b, o}, Restarting = {},
         IInv, LoneInv(b, o)
  PROVE  /\ \A due, keep, hang \in BOOLEAN : Sx1262Task(b, due, keep, hang) => LoneInv(b, o)'
         /\ \A due, keep \in BOOLEAN : Sx1262TaskSpiFault(b, due, keep) => LoneInv(b, o)'
         /\ Sx1262LinkLost(b) => LoneInv(b, o)'
         /\ \A late \in BOOLEAN : RetxTask(b, late) => LoneInv(b, o)'
         /\ RetxTaskSpiFault(b) => LoneInv(b, o)'
         /\ ConsoleTask(b) => LoneInv(b, o)'
         /\ ~Restart(b)
         /\ \A heard \in SUBSET Boards : TxEnd(b, heard) => LoneInv(b, o)'
<1> DEFINE n == node[b]  p == node[o]
<1>1. /\ b \in Boards /\ o \in Boards /\ Sound(n) /\ n \in Board /\ p \in Board
      /\ sent[b] \in Nat /\ sent[b] + 1 \in Nat /\ user \in Nat
      /\ TRUE \in BOOLEAN /\ FALSE \in BOOLEAN
  BY DEF IInv, TypeOK, Sound
<1>2. ASSUME NEW m, node' = [node EXCEPT ![b] = m] PROVE node'[b] = m /\ node'[o] = p
  BY <1>1, <1>2 DEF IInv, TypeOK
<1>3. ASSUME load' = load PROVE LoneLine' = LoneLine BY <1>3 DEF LoneLine
<1>4. ASSUME LoneLine
      PROVE  /\ Lone(n, p, user) /\ HalfDuplex(n) /\ HalfDuplex(p)
             /\ Simple(n.rx) /\ load.chunks[b] = 0
  <2>1. Lone(n, p, user) /\ HalfDuplex(n) /\ HalfDuplex(p) BY <1>4 DEF LoneInv
  <2>2. load.chunks[b] = 0 BY <1>1, <1>4 DEF LoneLine
  <2> QED BY <2>1, <2>2, LoneSimple
<1>5. ASSUME NEW m, node' = [node EXCEPT ![b] = m], load' = load, user' \in 0 .. user,
             LoneLine => Turns(m, n)
      PROVE  LoneInv(b, o)'
  <2> SUFFICES ASSUME LoneLine
      PROVE Lone(node'[b], node'[o], user') /\ HalfDuplex(node'[b]) /\ HalfDuplex(node'[o])
    BY <1>3, <1>5 DEF LoneInv
  <2>1. Lone(m, p, user') /\ HalfDuplex(m) BY <1>1, <1>4, <1>5, LoneTurns
  <2> QED BY <1>2, <1>4, <1>5, <2>1
<1>6. ASSUME NEW due \in BOOLEAN, NEW spi \in BOOLEAN, NEW keep \in BOOLEAN, NEW hang \in BOOLEAN,
             node' = [node EXCEPT ![b] = sx1262_process(@, due, sent[b] + 1, spi, keep, hang)],
             due => sent[b] < load.chunks[b], load' = load, user' = user
      PROVE  LoneInv(b, o)'
  <2> DEFINE m == sx1262_process(n, due, sent[b] + 1, spi, keep, hang)
  <2>1. ASSUME LoneLine PROVE Turns(m, n)
    <3>1. ~due BY <1>1, <1>4, <1>6, <2>1
    <3>2. m = sx1262_poll_status(n, spi, keep, hang)
      BY <3>1 DEF sx1262_process, lora_transmit_from_queue, is_chunk_sent
    <3> QED BY <1>1, <1>4, <2>1, <3>2, PollStatusTurns
  <2>2. node' = [node EXCEPT ![b] = m] BY <1>6
  <2> HIDE DEF m
  <2>3. user' \in 0 .. user BY <1>1, <1>6
  <2> QED BY <1>5, <1>6, <2>1, <2>2, <2>3
<1>7. ASSUME NEW due \in BOOLEAN, NEW keep \in BOOLEAN, NEW hang \in BOOLEAN,
             Sx1262Task(b, due, keep, hang)
      PROVE  LoneInv(b, o)'
  BY <1>6, <1>7 DEF Sx1262Task
<1>8. ASSUME NEW due \in BOOLEAN, NEW keep \in BOOLEAN, Sx1262TaskSpiFault(b, due, keep)
      PROVE  LoneInv(b, o)'
  BY <1>6, <1>8 DEF Sx1262TaskSpiFault
<1>9. ASSUME NEW m, node' = [node EXCEPT ![b] = m], load' = load, user' \in 0 .. user, Calm(m, n)
      PROVE  LoneInv(b, o)'
  BY <1>5, <1>9 DEF Turns
<1>10. ASSUME Sx1262LinkLost(b) PROVE LoneInv(b, o)'
  <2>1. Calm(sx1262_init(n), n) BY <1>1, ChipInitStill, StillCalm
  <2>2. /\ node' = [node EXCEPT ![b] = sx1262_init(n)] /\ load' = load
        /\ user' \in 0 .. user
    BY <1>1, <1>10 DEF Sx1262LinkLost
  <2> QED BY <1>9, <2>1, <2>2
<1>11. ASSUME NEW late \in BOOLEAN, RetxTask(b, late) PROVE LoneInv(b, o)'
  <2>1. Calm(tbfp_retx_proc(n, late, TRUE), n) BY <1>1, RetxProcCalm
  <2>2. /\ node' = [node EXCEPT ![b] = tbfp_retx_proc(n, late, TRUE)] /\ load' = load
        /\ user' \in 0 .. user
    BY <1>1, <1>11 DEF RetxTask
  <2> QED BY <1>9, <2>1, <2>2
<1>12. ASSUME RetxTaskSpiFault(b) PROVE LoneInv(b, o)'
  <2>1. Calm(tbfp_retx_proc(n, FALSE, FALSE), n) BY <1>1, RetxProcCalm
  <2>2. /\ node' = [node EXCEPT ![b] = tbfp_retx_proc(n, FALSE, FALSE)] /\ load' = load
        /\ user' \in 0 .. user
    BY <1>1, <1>12 DEF RetxTaskSpiFault
  <2> QED BY <1>9, <2>1, <2>2
<1>13. ASSUME ConsoleTask(b) PROVE LoneInv(b, o)'
  <2>1. ASSUME NEW id, NEW lifetime \in {0, 2}, NEW ack \in BOOLEAN,
               id = "CHAT" \/ (id = "PING" /\ lifetime = 0 /\ ~ack),
               ConsoleSend(b, id, lifetime, ack)
        PROVE  LoneInv(b, o)'
    <3> DEFINE m == tbfp_send(n, id, sent[b] + 1, lifetime, ack, TRUE)
    <3>1. /\ node' = [node EXCEPT ![b] = m] /\ load' = load /\ user > 0 /\ user' = user - 1
      BY <2>1 DEF ConsoleSend
    <3>2. ASSUME LoneLine PROVE Lone(m, p, user - 1) /\ HalfDuplex(m)
      BY <1>1, <1>4, <2>1, <3>1, <3>2, LoneSends
    <3> HIDE DEF m
    <3> QED BY <1>2, <1>3, <1>4, <3>1, <3>2 DEF LoneInv
  <2>2. ASSUME NEW mute \in BOOLEAN, ConsoleMute(b, mute) PROVE LoneInv(b, o)'
    <3> DEFINE m == [n EXCEPT !.tx_mute = mute]
    <3>1. Calm(m, n) BY <1>1, FlagsStill, StillCalm
    <3>2. node' = [node EXCEPT ![b] = m] /\ load' = load /\ user' \in 0 .. user
      BY <1>1, <2>2 DEF ConsoleMute
    <3> HIDE DEF m
    <3> QED BY <1>9, <3>1, <3>2
  <2> QED BY <1>1, <1>13, <2>1, <2>2 DEF ConsoleTask
<1>14. ~Restart(b) BY DEF Restart
<1>15. ASSUME NEW heard \in SUBSET Boards, TxEnd(b, heard) PROVE LoneInv(b, o)'
  <2> DEFINE m == [n EXCEPT !.mode = "STBY_RC", !.cmd = "TX_DONE", !.air = NoFrame]
             q == IF o \in heard THEN Receive(p, n.air) ELSE p
  <2>1. /\ node'[b] = m /\ node'[o] = q /\ n.mode = "TX"
        /\ o \in heard => p.mode = "RX"
    BY <1>1, <1>15 DEF TxEnd
  <2>2. load' = load /\ user' = user BY <1>15 DEF TxEnd
  <2>3. q = p \/ (p.mode = "RX" /\ q = Receive(p, n.air)) BY <2>1
  <2>4. m = [n EXCEPT !.mode = "STBY_RC", !.cmd = "TX_DONE", !.air = NoFrame] OBVIOUS
  <2> HIDE DEF m, q, n, p
  <2>5. ASSUME LoneLine PROVE Lone(m, q, user) /\ HalfDuplex(m) /\ HalfDuplex(q)
    <3>1. n \in Board /\ p \in Board /\ user \in Nat /\ Lone(n, p, user)
          /\ HalfDuplex(n) /\ HalfDuplex(p) /\ n.mode = "TX"
      BY <1>1, <1>4, <2>1, <2>5
    <3> QED BY <2>3, <2>4, <3>1, LoneEnds
  <2> QED BY <1>3, <2>1, <2>2, <2>5 DEF LoneInv
<1> QED BY <1>7, <1>8, <1>10, <1>11, <1>12, <1>13, <1>14, <1>15

LEMMA LoneNext ==
  ASSUME NEW b, NEW o, b # o, Boards = {b, o}, Restarting = {},
         IInv, LoneInv(b, o), [Next]_vars
  PROVE  LoneInv(b, o)'
<1>1. CASE UNCHANGED vars BY <1>1 DEF vars, LoneInv, LoneLine
<1>2. LoneInv(o, b) /\ Boards = {o, b} BY LoneBoth
<1>3. LoneInv(o, b)' => LoneInv(b, o)' BY DEF LoneInv, Lone
<1>4. CASE Next
  <2>1. PICK x \in Boards :
          \/ \E due, keep, hang \in BOOLEAN : Sx1262Task(x, due, keep, hang)
          \/ \E due, keep \in BOOLEAN : Sx1262TaskSpiFault(x, due, keep)
          \/ Sx1262LinkLost(x)
          \/ \E late \in BOOLEAN : RetxTask(x, late)
          \/ RetxTaskSpiFault(x)
          \/ ConsoleTask(x)
          \/ Restart(x)
          \/ \E heard \in SUBSET Boards : TxEnd(x, heard)
    BY <1>4 DEF Next
  <2> HIDE DEF LoneInv
  <2>2. CASE x = b BY <2>1, <2>2, LoneSteps
  <2>3. CASE x = o BY <1>2, <1>3, <2>1, <2>3, LoneSteps
  <2> QED BY <2>2, <2>3
<1> QED BY <1>1, <1>4

(* Two boards that do not restart hear a line that is given to one of them *)
(* to send, with lifetime 2 and nothing else to do, three times at most    *)
(* between them (tbfp_proc_full), however often it is retransmitted, and   *)
(* although each duplicate is relayed anew: one tx_frame holds the line,   *)
(* its relay and the acknowledge, so a relay is never retransmitted.       *)
THEOREM RelayedAtMostHolds ==
  ASSUME NEW b, NEW o, b # o, Boards = {b, o}, Restarting = {}
  PROVE  Spec => []RelayedAtMostLifetimeTimes
<1> DEFINE Inv == IInv /\ LoneInv(b, o)
<1>1. Init => Inv
  <2> SUFFICES ASSUME Init, LoneLine PROVE LoneInv(b, o) BY InitInv DEF LoneInv
  <2>1. user = load.orders /\ user <= 1 /\ node[b] = board_init /\ node[o] = board_init
    BY DEF Init, LoneLine
  <2>2. Unspoken(board_init, user) /\ HalfDuplex(board_init)
    BY DEF board_init, Unspoken, Unused, Mute, HalfDuplex
  <2> QED BY <2>1, <2>2 DEF LoneInv, Lone
<1>2. Inv /\ [Next]_vars => Inv' BY NextInv, LoneNext
<1>3. ASSUME Inv PROVE RelayedAtMostLifetimeTimes
  <2> DEFINE x == Len(node[b].delivered)  y == Len(node[o].delivered)
  <2>1. x \in Nat /\ y \in Nat BY <1>3 DEF IInv, TypeOK, Board
  <2>2. ASSUME LoneLine PROVE x + y <= 3
    <3>1. Lone(node[b], node[o], user) BY <1>3, <2>2 DEF LoneInv
    <3> HIDE DEF x, y
    <3>2. \A n, left : Unspoken(n, left) => Len(n.delivered) = 0 BY DEF Unspoken
    <3>3. ASSUME NEW s, NEW h, NEW f, Spoken(s, h, f)
          PROVE  Len(s.delivered) = 0 /\ (Len(h.delivered) <= 0 \/ Len(h.delivered) <= 1)
      BY <3>3 DEF Spoken
    <3>4. \A s, h : Returned(s, h) => Len(s.delivered) <= 1 /\ Len(h.delivered) <= 2
      BY DEF Returned
    <3>5. \/ x = 0 /\ y = 0
          \/ x = 0 /\ (y <= 0 \/ y <= 1)
          \/ y = 0 /\ (x <= 0 \/ x <= 1)
          \/ x <= 1 /\ y <= 2
          \/ y <= 1 /\ x <= 2
      BY <3>1, <3>2, <3>3, <3>4, Zenon DEF Lone, x, y
    <3> QED BY <2>1, <3>5
  <2>3. LoneLine => x + y <= 3 /\ y + x <= 3
    <3> HIDE DEF x, y
    <3> QED BY <2>1, <2>2
  <2> QED BY <2>3 DEF RelayedAtMostLifetimeTimes
<1> QED BY <1>1, <1>2, <1>3, PTL DEF Spec
=============================================================================
