------------------------------- MODULE ZedF9P -------------------------------
(***************************************************************************)
(* Set-up of the GNSS receiver over UBX (ublox_driver.c, ubx_protocol.c,   *)
(* zed_f9p_drv.c).  A set-up sends its messages one after another and      *)
(* waits for an acknowledge of each in ubx_wait_ack, which runs the        *)
(* super-loop again: tasks and commands run inside the wait, and a command *)
(* may start a set-up of its own.  All waits share one acknowledge flag,   *)
(* which neither names the message it belongs to nor the wait it ends.     *)
(***************************************************************************)
EXTENDS Integers, Sequences

CONSTANTS
  UBX_SEND_TRY,   \* transmissions of one message
  NormCfgLut,     \* settings of each kind of set-up, in order; the table of a
  BaseCfgLut,     \* base without the constellations that are switched off
  RoverCfgLut,    \* of a rover without those of ubx_set_rate,
  RateLut,        \* and these
  RESET,          \* the message of ubx_reset_to_dflt
  Key,            \* settings, each with its value
  Setting,        \* those a user gives one by one
  Environments    \* what surrounds the set-up, one of these in a behaviour

ASSUME TryAssumption == UBX_SEND_TRY \in Nat \ {0}
ASSUME TablesAssumption ==
  /\ {NormCfgLut, BaseCfgLut, RoverCfgLut, RateLut} \subseteq Seq(Key)
  /\ NormCfgLut # << >> /\ RoverCfgLut # << >>
  /\ Setting \subseteq Key

(* A reset and the polls are not settings. *)
ASSUME NamesAssumption ==
  /\ {RESET, "POLL", "POLL_NAV"} \cap Key = {}
  /\ RESET \notin {"POLL", "POLL_NAV"}

(* prompt: the receiver answers well before a wait ends, or never; losses: *)
(* messages and answers that may still be lost or refused; polls: runs of  *)
(* the UBX task; orders: commands from the console.                        *)
Environment == [prompt : BOOLEAN, losses : Nat, polls : Nat, orders : Nat]
ASSUME EnvironmentsAssumption == Environments \subseteq Environment

(* A base surveys its position in or is given it, which changes one message. *)
Mode == {"BASE", "ROVER", "NONE"}
Operation == {"norm", "base", "rover", "set"}

(* "POLL" is a poll of a CFG class message, which the receiver acknowledges *)
(* like a setting; "POLL_NAV" a poll of any other class.                    *)
PollLut == <<"POLL_NAV", "POLL">>

Message == Key \cup {RESET, "POLL", "POLL_NAV"}

VARIABLES
  env,          \* the environment of this behaviour, less what was used up
  rtk_mode,
  ubx_on,       \* task_data[TASK_ID_UBX].on
  ack,          \* UbloxProtocol.ack
  poll,         \* the static index of ubx_proc
  calls,        \* set-ups in progress, the innermost last
  late,         \* how many of them, outermost first, are over their time-out
  toReceiver,   \* messages on the way through UART1
  toHost,       \* answers on the way: the messages answered
  cfg,          \* settings in force in the receiver
  report        \* what the last step reported to its caller or user

wire == <<toReceiver, toHost>>
zed  == <<rtk_mode, ubx_on>>
vars == <<env, zed, ack, poll, calls, late, wire, cfg, report>>

(***************************************************************************)
(* left: messages not yet settled, the first of them under way; try: its   *)
(* transmissions; res and loop of ubx_wait_ack; out_res of the set-up.     *)
(* The rest are ghosts.  heard: an acknowledge was parsed since the last   *)
(* try; doubt: the messages which the acknowledge of another message could *)
(* settle when they were last sent or while they were waited for, and      *)
(* those from before a reset of another set-up; none: rtk_mode was NONE    *)
(* since the set-up began.                                                 *)
(***************************************************************************)
Call == [op : Operation, all : Seq(Message), left : Seq(Message), try : 1 .. UBX_SEND_TRY,
         res : BOOLEAN, out_res : BOOLEAN,
         heard : BOOLEAN, doubt : SUBSET Message, none : BOOLEAN]

(* What a caller is told; sent: whether the set-up was begun at all. *)
Report == [op : Operation \cup {"nothing"}, all : Seq(Message), ok : BOOLEAN, sent : BOOLEAN,
           doubt : SUBSET Message, none : BOOLEAN]

NoReport == [op |-> "nothing", all |-> << >>, ok |-> FALSE, sent |-> FALSE,
             doubt |-> {}, none |-> FALSE]

TypeOK ==
  /\ env \in Environment
  /\ rtk_mode \in Mode /\ ubx_on \in BOOLEAN
  /\ ack \in BOOLEAN
  /\ poll \in DOMAIN PollLut
  /\ calls \in Seq(Call) /\ \A i \in DOMAIN calls : calls[i].left # << >>
  /\ late \in 0 .. Len(calls)
  /\ toReceiver \in Seq(Message) /\ toHost \in Seq(Message)
  /\ cfg \subseteq Message
  /\ report \in Report

Setup(op) ==
  CASE op = "norm"  -> NormCfgLut
    [] op = "base"  -> <<RESET>> \o BaseCfgLut
    [] op = "rover" -> <<RESET>> \o RoverCfgLut \o RateLut

(* A measurement rate above 25 ms; any other makes ubx_set_rate fail at    *)
(* once, and with it the rover, whose other messages are sent all the same.*)
Sendable(op, rate) == IF op = "rover" /\ ~rate THEN <<RESET>> \o RoverCfgLut ELSE Setup(op)

NewCall(op, messages, ok) ==
  [op |-> op, all |-> messages, left |-> messages, try |-> 1, res |-> FALSE, out_res |-> ok,
   heard |-> FALSE, doubt |-> {}, none |-> rtk_mode = "NONE"]

Messages(s) == {s[i] : i \in DOMAIN s}

-----------------------------------------------------------------------------
top == calls[Len(calls)]
Outer == SubSeq(calls, 1, Len(calls) - 1)

(* Mutant: the flag of an earlier message is left standing. *)
send_message_uncleared(m) == ack' = ack /\ toReceiver' = Append(toReceiver, m)

(* The acknowledge flag is cleared after the message is composed and       *)
(* before it is sent; whether uart_send succeeded is not asked.            *)
ubx_send_message(m) == ack' = FALSE /\ toReceiver' = Append(toReceiver, m)

(* Ghosts: a call sends its message, the calls while another message goes. *)
OthersUnderWay(m) == (Messages(toReceiver) \cup Messages(toHost)) \ {m, "POLL_NAV"} # {}

Sends(c) ==
  LET m == Head(c.left)
  IN  [c EXCEPT !.res = FALSE, !.heard = FALSE,
                !.doubt = IF OthersUnderWay(m) THEN @ \cup {m} ELSE @ \ {m}]

Doubted(c, m) == IF m = RESET THEN Messages(c.all) ELSE {Head(c.left)}

Disturbed(m) == [i \in DOMAIN calls |-> [calls[i] EXCEPT !.doubt = @ \cup Doubted(calls[i], m)]]

(***************************************************************************)
(* ubx_wait_ack tests the flag, runs the super-loop, even when it is set,  *)
(* and tests the time, which overrides the flag.  Between two steps the    *)
(* calls are in their super-loops, where tasks and commands run.  The test *)
(* right after a message was sent finds the flag cleared, so that a pass   *)
(* that goes on begins with the only test that matters.                    *)
(***************************************************************************)
Expired == late = Len(calls)

NextPass ==
  /\ calls # << >> /\ ~Expired /\ ~top.res
  /\ calls' = [calls EXCEPT ![Len(calls)].res = ack]
  /\ report' = NoReport
  /\ UNCHANGED <<env, zed, ack, poll, late, wire, cfg>>

(* Mutant: one try too many. *)
try_again_off_by_one ==
  /\ calls # << >> /\ Expired /\ top.try <= UBX_SEND_TRY
  /\ ubx_send_message(Head(top.left))
  /\ calls' = Append(Outer, Sends([top EXCEPT !.try = @ + 1]))
  /\ late' = late - 1
  /\ report' = NoReport
  /\ UNCHANGED <<env, zed, poll, toHost, cfg>>

(* ubx_send_message_ack tries again. *)
TryAgain ==
  /\ calls # << >> /\ Expired /\ top.try < UBX_SEND_TRY
  /\ ubx_send_message(Head(top.left))
  /\ calls' = Append(Outer, Sends([top EXCEPT !.try = @ + 1]))
  /\ late' = late - 1
  /\ report' = NoReport
  /\ UNCHANGED <<env, zed, poll, toHost, cfg>>

(* Mutants: the wait of the last try does not end, only the last message   *)
(* counts.                                                                 *)
try_ends_if_acked(ok) == calls # << >> /\ ok /\ ~Expired /\ top.res
out_res_of_last(ok) == ok

(* ubx_send_message_ack returns: its last try failed, or it was            *)
(* acknowledged in time.  A rover does not mind a failed reset.            *)
TryEnds(ok) ==
  /\ calls # << >>
  /\ IF ok THEN ~Expired /\ top.res ELSE Expired /\ top.try = UBX_SEND_TRY

OutRes(ok) ==
  top.out_res /\ (ok \/ (top.op = "rover" /\ Head(top.left) = RESET))

NextMessage ==
  \E ok \in BOOLEAN :
    /\ TryEnds(ok)
    /\ Len(top.left) > 1
    /\ ubx_send_message(Head(Tail(top.left)))
    /\ calls' = Append(Outer, Sends([top EXCEPT !.left = Tail(@), !.try = 1,
                                                !.out_res = OutRes(ok)]))
    /\ late' = IF ok THEN late ELSE late - 1
    /\ report' = NoReport
    /\ UNCHANGED <<env, zed, poll, toHost, cfg>>

(* The end of a set-up.  A base sets the mode it was begun with; NMEA task *)
(* and forwarding of corrections, which do not touch the UBX link, are     *)
(* left out.                                                               *)
SetupEnds ==
  \E ok \in BOOLEAN :
    /\ TryEnds(ok)
    /\ Len(top.left) = 1
    /\ calls' = Outer
    /\ late' = IF ok THEN late ELSE late - 1
    /\ rtk_mode' = IF top.op = "base" THEN "BASE" ELSE rtk_mode
    /\ report' = [op |-> top.op, all |-> top.all, ok |-> OutRes(ok), sent |-> TRUE,
                  doubt |-> top.doubt, none |-> top.none]
    /\ UNCHANGED <<env, ubx_on, ack, poll, wire, cfg>>

-----------------------------------------------------------------------------
(* Console commands "ubsv", "zfb" and "zfr". *)
Begin(op, messages, ok) ==
  /\ env.orders > 0
  /\ env' = [env EXCEPT !.orders = @ - 1]
  /\ calls' = Append(Disturbed(Head(messages)), Sends(NewCall(op, messages, ok)))
  /\ ubx_send_message(Head(messages))
  /\ report' = NoReport
  /\ UNCHANGED <<poll, late, toHost, cfg>>

ubx_cfg_set_val == \E m \in Setting : Begin("set", <<m>>, TRUE) /\ UNCHANGED zed

(* "zfb" loads the parameters again, the mode among them, before it looks  *)
(* at the coordinates.                                                     *)
zed_f9p_deploy_base ==
  /\ Begin("base", Setup("base"), TRUE)
  /\ rtk_mode' = "BASE"
  /\ UNCHANGED ubx_on

(* Mutant: the task is left on. *)
deploy_rover_parsing ==
  \E rate \in BOOLEAN : Begin("rover", Sendable("rover", rate), rate) /\ UNCHANGED zed

(* The UBX task is switched off first, and with it the UBX parser. *)
zed_f9p_deploy_rover ==
  /\ \E rate \in BOOLEAN : Begin("rover", Sendable("rover", rate), rate)
  /\ ubx_on' = FALSE
  /\ UNCHANGED rtk_mode

(* "zfb" that sends nothing: a parameter is missing, and it fails; or the  *)
(* coordinates are not valid, as they never are in another mode than that  *)
(* of a base, and it returns true.                                         *)
deploy_base_invalid ==
  /\ env.orders > 0
  /\ env' = [env EXCEPT !.orders = @ - 1]
  /\ rtk_mode' \in Mode
  /\ calls' = [i \in DOMAIN calls |-> [calls[i] EXCEPT !.none = @ \/ rtk_mode' = "NONE"]]
  /\ \E ok \in BOOLEAN :
       report' = [NoReport EXCEPT !.op = "base", !.all = Setup("base"), !.ok = ok]
  /\ UNCHANGED <<ubx_on, ack, poll, late, wire, cfg>>

(* The UART task hands an answer to the parser while the UBX task is on. *)
proc_uart1 ==
  /\ toHost # << >>
  /\ toHost' = Tail(toHost)
  /\ IF ubx_on /\ Head(toHost) # "POLL_NAV"
     THEN /\ ack' = TRUE
          /\ calls' = [i \in DOMAIN calls |-> [calls[i] EXCEPT !.heard = TRUE]]
     ELSE UNCHANGED <<ack, calls>>
  /\ report' = NoReport
  /\ UNCHANGED <<env, zed, poll, late, toReceiver, cfg>>

(* The UBX task polls the receiver for the next item of PollLut, while a   *)
(* set-up waits as at any other time.                                      *)
ubx_proc ==
  /\ ubx_on /\ env.polls > 0
  /\ env' = [env EXCEPT !.polls = @ - 1]
  /\ ubx_send_message(PollLut[poll])
  /\ calls' = IF PollLut[poll] = "POLL" THEN Disturbed("POLL") ELSE calls
  /\ poll' = IF poll = Len(PollLut) THEN 1 ELSE poll + 1
  /\ report' = NoReport
  /\ UNCHANGED <<zed, late, toHost, cfg>>

(* The ZED_F9P task keeps the tasks as the mode wants them: a base leaves  *)
(* the UBX task as it is.                                                  *)
zed_f9p_proc ==
  /\ ubx_on' = CASE rtk_mode = "BASE"  -> ubx_on
                 [] rtk_mode = "ROVER" -> FALSE
                 [] rtk_mode = "NONE"  -> TRUE
  /\ report' = NoReport
  /\ UNCHANGED <<env, rtk_mode, ack, poll, calls, late, wire, cfg>>

-----------------------------------------------------------------------------
(* The receiver takes a message: a reset forgets every setting.  The       *)
(* answer to what is not of class CFG is no acknowledge.                   *)
Receives ==
  /\ toReceiver # << >>
  /\ LET m == Head(toReceiver)
     IN  /\ cfg' = CASE m = RESET                  -> {}
                     [] m \in {"POLL", "POLL_NAV"} -> cfg
                     [] OTHER                      -> cfg \cup {m}
         /\ toHost' = Append(toHost, m)
  /\ toReceiver' = Tail(toReceiver)
  /\ report' = NoReport
  /\ UNCHANGED <<env, zed, ack, poll, calls, late>>

(* Or refuses it, or does not understand it; a refusal is not heeded. *)
Refuses ==
  /\ toReceiver # << >> /\ env.losses > 0
  /\ env' = [env EXCEPT !.losses = @ - 1]
  /\ toReceiver' = Tail(toReceiver)
  /\ report' = NoReport
  /\ UNCHANGED <<zed, ack, poll, calls, late, toHost, cfg>>

AnswerLost ==
  /\ toHost # << >> /\ env.losses > 0
  /\ env' = [env EXCEPT !.losses = @ - 1]
  /\ toHost' = Tail(toHost)
  /\ report' = NoReport
  /\ UNCHANGED <<zed, ack, poll, calls, late, toReceiver, cfg>>

(* The wait of a call is over.  The inner wait began later and lasts as    *)
(* long, so that it is not over before the outer one.                      *)
TimeOut ==
  /\ late < Len(calls)
  /\ env.prompt => toReceiver = << >> /\ toHost = << >> /\ ~ack
  /\ late' = late + 1
  /\ report' = NoReport
  /\ UNCHANGED <<env, zed, ack, poll, calls, wire, cfg>>

-----------------------------------------------------------------------------
(* zed_f9p_init sets the receiver up for the mode in the parameters, or    *)
(* not at all when one is missing or the coordinates of a base are not     *)
(* valid.  All tasks are on.                                               *)
InitOp == CASE rtk_mode = "BASE" -> "base" [] rtk_mode = "ROVER" -> "rover"
            [] rtk_mode = "NONE" -> "norm"

zed_f9p_init ==
  \/ /\ \E rate \in BOOLEAN :
          /\ calls = <<NewCall(InitOp, Sendable(InitOp, rate), InitOp = "rover" => rate)>>
          /\ toReceiver = <<Head(Sendable(InitOp, rate))>>
     /\ ubx_on = (rtk_mode # "ROVER")
  \/ calls = << >> /\ toReceiver = << >> /\ ubx_on = TRUE

Init ==
  /\ env \in Environments
  /\ rtk_mode \in Mode
  /\ zed_f9p_init
  /\ ack = FALSE /\ poll = 1
  /\ late = 0
  /\ toHost = << >>
  /\ cfg = {}
  /\ report = NoReport

Host ==
  \/ NextPass \/ TryAgain \/ NextMessage \/ SetupEnds
  \/ ubx_cfg_set_val \/ zed_f9p_deploy_base \/ zed_f9p_deploy_rover \/ deploy_base_invalid
  \/ proc_uart1 \/ ubx_proc \/ zed_f9p_proc

Next == Host \/ Receives \/ Refuses \/ AnswerLost \/ TimeOut

Spec == Init /\ [][Next]_vars

(* The waits go on, every pass of a super-loop calls the UART task, and    *)
(* time passes.                                                            *)
Fairness ==
  /\ WF_vars(NextPass) /\ WF_vars(TryAgain)
  /\ WF_vars(NextMessage) /\ WF_vars(SetupEnds)
  /\ SF_vars(proc_uart1) /\ WF_vars(Receives)
  /\ WF_vars(TimeOut)

FairSpec == Spec /\ Fairness
-----------------------------------------------------------------------------
(* A try counted as acknowledged had an acknowledge parsed since its       *)
(* message was last sent, however deep set-ups are nested: whatever sends  *)
(* a message clears the flag for all of them (ubx_wait_ack).               *)
HeardSinceSent == \A i \in DOMAIN calls : calls[i].res => calls[i].heard

(* Of a set-up that reports success every setting is in force in the       *)
(* receiver when it does, whatever was lost, late or refused, except those *)
(* for which the acknowledge of another message can have been taken: one   *)
(* in flight when the setting was last sent, or one of a poll or a set-up  *)
(* inside its own wait (ubx_send_message_ack, ubx_wait_ack), and except    *)
(* those from before the reset of a set-up inside it.  A base with invalid *)
(* coordinates reports success with nothing sent (zed_f9p_deploy_base) and *)
(* is excepted.                                                            *)
SuccessMeansInForce ==
  report.ok /\ report.sent => Messages(report.all) \ ({RESET} \cup report.doubt) \subseteq cfg

(* A rover set-up switches off the parser it waits for: it is confirmed    *)
(* only if the ZED_F9P task switches it on again meanwhile, as it does in  *)
(* no mode but NONE, which "zfb" inside the set-up may have loaded.        *)
RoverConfirmedOnlyUnderNone == report.op = "rover" /\ report.ok => report.none

(* Every set-up returns to its caller in the end, whatever is lost, and    *)
(* however many commands come in between.                                  *)
SetupsReturn == <>[](calls = << >>)
=============================================================================
