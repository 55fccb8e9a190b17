------------------------------ MODULE TbfpLink ------------------------------
(***************************************************************************)
(* Boards that share one radio channel, each running the super-loop tasks  *)
(* of TbfpNode: the SX1262 task (300 us), the retransmit task (15 ms), and *)
(* the console, interleaved in any order and with any delay.  The channel  *)
(* is half duplex and loses frames.  Boards restart.                       *)
(***************************************************************************)
EXTENDS TbfpNode, FiniteSets

CONSTANTS
  Boards,
  Loads,      \* what the boards are given to send, one of these in a behaviour
  Faults,     \* SPI failures and lost SPI links allowed in a behaviour
  Restarts,   \* restarts allowed in a behaviour
  Restarting  \* boards that may restart

(***************************************************************************)
(* A load: the queue of a board has chunks until the board has sent        *)
(* chunks[b] payloads, chunks or chat; the users give at most "orders"     *)
(* commands of "console".                                                  *)
(***************************************************************************)
Load == [chunks : [Boards -> Nat], orders : Nat,
         console : SUBSET {"ping", "chat", "chat_ack", "relay", "mute"}]

ASSUME BoardsAssumption == IsFiniteSet(Boards)
ASSUME LoadsAssumption == Loads \subseteq Load
ASSUME BudgetAssumption == Faults \in Nat /\ Restarts \in Nat

VARIABLES
  load,       \* the load of this behaviour
  node,       \* [Boards -> Board]
  sent,       \* [Boards -> Nat]: payloads handed to tbfp_send so far, numbered
  user,       \* console commands left
  faults,     \* faults left
  restarts    \* restarts left

vars == <<load, node, sent, user, faults, restarts>>

TypeOK ==
  /\ load \in Load
  /\ node \in [Boards -> Board]
  /\ sent \in [Boards -> Nat]
  /\ user \in Nat
  /\ faults \in Nat
  /\ restarts \in Nat

Init ==
  /\ load \in Loads
  /\ node = [b \in Boards |-> board_init]
  /\ sent = [b \in Boards |-> 0]
  /\ user = load.orders
  /\ faults = Faults
  /\ restarts = Restarts

-----------------------------------------------------------------------------
(* A run of the SX1262 task over a working SPI link. *)
Sx1262Task(b, due, keep, hang) ==
  /\ due => sent[b] < load.chunks[b]
  /\ node' = [node EXCEPT ![b] = sx1262_process(@, due, sent[b] + 1, TRUE, keep, hang)]
  /\ sent' = [sent EXCEPT ![b] = @ + (IF is_chunk_sent(node[b], due) THEN 1 ELSE 0)]
  /\ UNCHANGED <<load, user, faults, restarts>>

(* The same while the SPI transfers that load a frame fail. *)
Sx1262TaskSpiFault(b, due, keep) ==
  /\ faults > 0
  /\ due => sent[b] < load.chunks[b]
  /\ node' = [node EXCEPT ![b] = sx1262_process(@, due, sent[b] + 1, FALSE, keep, FALSE)]
  /\ sent' = [sent EXCEPT ![b] = @ + (IF is_chunk_sent(node[b], due) THEN 1 ELSE 0)]
  /\ faults' = faults - 1
  /\ UNCHANGED <<load, user, restarts>>

(* The chip does not answer, or stays busy: the driver initialises it anew. *)
Sx1262LinkLost(b) ==
  /\ faults > 0
  /\ node' = [node EXCEPT ![b] = sx1262_init(@)]
  /\ faults' = faults - 1
  /\ UNCHANGED <<load, sent, user, restarts>>

(* A run of the retransmit task. *)
RetxTask(b, late) ==
  /\ node' = [node EXCEPT ![b] = tbfp_retx_proc(@, late, TRUE)]
  /\ UNCHANGED <<load, sent, user, faults, restarts>>

RetxTaskSpiFault(b) ==
  /\ faults > 0
  /\ node' = [node EXCEPT ![b] = tbfp_retx_proc(@, FALSE, FALSE)]
  /\ faults' = faults - 1
  /\ UNCHANGED <<load, sent, user, restarts>>

(* Console commands: ping; chat, with or without acknowledge and lifetime; *)
(* transmit mute.                                                          *)
ConsoleSend(b, id, lifetime, ack) ==
  /\ user > 0
  /\ user' = user - 1
  /\ node' = [node EXCEPT ![b] = tbfp_send(@, id, sent[b] + 1, lifetime, ack, TRUE)]
  /\ sent' = [sent EXCEPT ![b] = @ + 1]
  /\ UNCHANGED <<load, faults, restarts>>

ConsoleMute(b, mute) ==
  /\ user > 0
  /\ user' = user - 1
  /\ node' = [node EXCEPT ![b].tx_mute = mute]
  /\ UNCHANGED <<load, sent, faults, restarts>>

ConsoleTask(b) ==
  \/ "ping" \in load.console     /\ ConsoleSend(b, "PING", 0, FALSE)
  \/ "chat" \in load.console     /\ ConsoleSend(b, "CHAT", 0, FALSE)
  \/ "chat_ack" \in load.console /\ ConsoleSend(b, "CHAT", 0, TRUE)
  \/ "relay" \in load.console    /\ \E ack \in BOOLEAN : ConsoleSend(b, "CHAT", 2, ack)
  \/ "mute" \in load.console     /\ \E mute \in BOOLEAN : ConsoleMute(b, mute)

(* Power cycle or watchdog: everything but what was already delivered. *)
Restart(b) ==
  /\ b \in Restarting /\ restarts > 0
  /\ restarts' = restarts - 1
  /\ node' = [node EXCEPT ![b] = [board_init EXCEPT !.delivered = node[b].delivered]]
  /\ UNCHANGED <<load, sent, user, faults>>

(* A frame has left the antenna: the boards of "heard" received it, for    *)
(* the others it is lost.  A chip that is not in reception hears nothing.  *)
Receive(n, f) == [n EXCEPT !.rx = f, !.cmd = "DATA_AVAIL"]

TxEnd(b, heard) ==
  /\ node[b].mode = "TX"
  /\ heard \subseteq {r \in Boards : node[r].mode = "RX"}
  /\ node' = [r \in Boards |->
                IF r = b THEN [node[b] EXCEPT !.mode = "STBY_RC", !.cmd = "TX_DONE",
                                              !.air = NoFrame]
                ELSE IF r \in heard THEN Receive(node[r], node[b].air)
                ELSE node[r]]
  /\ UNCHANGED <<load, sent, user, faults, restarts>>

-----------------------------------------------------------------------------
Next ==
  \E b \in Boards :
    \/ \E due, keep, hang \in BOOLEAN : Sx1262Task(b, due, keep, hang)
    \/ \E due, keep \in BOOLEAN : Sx1262TaskSpiFault(b, due, keep)
    \/ Sx1262LinkLost(b)
    \/ \E late \in BOOLEAN : RetxTask(b, late)
    \/ RetxTaskSpiFault(b)
    \/ ConsoleTask(b)
    \/ Restart(b)
    \/ \E heard \in SUBSET Boards : TxEnd(b, heard)

Spec == Init /\ [][Next]_vars

(***************************************************************************)
(* The super-loop keeps calling its tasks, time passes, and a frame on air *)
(* ends.  Nothing is assumed of the console, of faults or of reception.    *)
(***************************************************************************)
Fairness ==
  \A b \in Boards :
    /\ WF_vars(\E due, keep \in BOOLEAN : Sx1262Task(b, due, keep, FALSE))
    /\ WF_vars(RetxTask(b, TRUE))
    /\ WF_vars(\E heard \in SUBSET Boards : TxEnd(b, heard))

FairSpec == Spec /\ Fairness
-----------------------------------------------------------------------------
(* What reaches the application of a board is in the order it was sent and *)
(* nothing comes twice, whatever is lost, retransmitted or overwritten in  *)
(* tx_frame (tbfp_check_flow_control, tbfp_proc_full), when serial numbers *)
(* wrap around and when the sender restarts: with two boards, as long as   *)
(* the receiver does not restart.                                          *)
InOrderOnce ==
  \A b \in Boards : \A i, j \in DOMAIN node[b].delivered :
    i < j => node[b].delivered[i] < node[b].delivered[j]

(* A send counted in ack_rx_cnt, whose acknowledge carried the expected    *)
(* serial number, has reached another board's application.  It rests on    *)
(* the receiver's flow control, on the serial number of every frame the    *)
(* sender composes meanwhile, and on when the machine listens for RX_ACK.  *)
MatchedAckMeansDelivered ==
  \A b \in Boards :
    node[b].verdict = "acked" /\ node[b].ack = "mine" =>
      \E p \in Boards \ {b} :
        \E i \in DOMAIN node[p].delivered : node[p].delivered[i] = node[b].cur.body

(* The latched input is never cleared, but an acknowledge that came before *)
(* the machine entered WAIT_ACK, for an earlier frame or an earlier try,   *)
(* never ends the present wait (tbfp_proc_retx_wait_ack).                  *)
FreshAck == \A b \in Boards : node[b].verdict = "acked" => node[b].ack # "none"

(* A frame is given up as unanswered, or for want of TX_DONE, only after   *)
(* all its transmissions, and is never transmitted more often than that.   *)
GivesUpAfterAllTries ==
  \A b \in Boards :
    /\ node[b].tries <= TBFP_RETX_TRY_MAX
    /\ node[b].verdict \in {"no_reply", "lack_tx_done"} =>
         node[b].tries = TBFP_RETX_TRY_MAX

(* The queue takes is_tbfp_retx_idle for leave to send the next chunk: by  *)
(* then the frame before it was acknowledged or counted as lost.           *)
IdleMeansSettled ==
  \A b \in Boards : is_tbfp_retx_idle(node[b]) => node[b].verdict # "pending"

(* Every acknowledged send is settled in the end and the queue drains,     *)
(* however many frames are lost, unless the transmitter stays muted: a     *)
(* machine that was muted in IDLE takes up its frame again when unmuted.   *)
Unmuted(b) == <>[](~node[b].tx_mute)

Settles ==
  \A b \in Boards :
    Unmuted(b) => (node[b].verdict = "pending" ~> node[b].verdict # "pending")

QueueDrains == \A b \in Boards : Unmuted(b) => <>(sent[b] >= load.chunks[b])

(* A chat line with a lifetime is relayed by whoever hears it, back to its *)
(* sender too, with a lifetime one less (tbfp_proc_full): the boards do    *)
(* not go on relaying for ever, nor transmitting for any other reason.     *)
FallsSilent ==
  (\A b \in Boards : Unmuted(b)) =>
    <>[](\A b \in Boards : node[b].mode = "RX" /\ node[b].cmd = "NONE"
                            /\ is_tbfp_retx_idle(node[b]))

(* Two boards hear such a line, sent with lifetime 2 and nothing else to   *)
(* send, at most three times between them, retransmissions included: the   *)
(* relays carry serial numbers of their own, and a duplicate, which flow   *)
(* control refuses, has already been relayed anew (tbfp_proc_full), but by *)
(* the time a relay comes back its cause is no longer retransmitted.  With *)
(* another frame to acknowledge meanwhile it may be.                       *)
LoneLine == load.orders <= 1 /\ \A b \in Boards : load.chunks[b] = 0

RelayedAtMostLifetimeTimes ==
  LoneLine =>
    \A b, p \in Boards : b # p => Len(node[b].delivered) + Len(node[p].delivered) <= 3

(* docs/FsmTbfpTxAck draws TxDone in Idle as ignored: a machine that       *)
(* enters WAIT_ACK has seen the end of the frame it has put on air.        *)
WaitAckOnlyAfterTxEnd ==
  [][\A b \in Boards :
       node[b].state # "WAIT_ACK" /\ node'[b].state = "WAIT_ACK" =>
         ~(node'[b].mode = "TX" /\ node'[b].air = node'[b].cur)]_vars
=============================================================================
