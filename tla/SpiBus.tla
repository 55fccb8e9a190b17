------------------------------- MODULE SpiBus -------------------------------
(***************************************************************************)
(* The SPI driver (spi_drv.c) and the drivers that share its bus: the      *)
(* radio and the CAN transceiver on MAIN_SPI_NUM, each under a chip select *)
(* of its own, and the console.  The super-loop runs one access at a time; *)
(* a transfer runs by DMA, and its end is an interrupt that may come at    *)
(* any moment, long after the wait for it gave up too.                     *)
(***************************************************************************)
EXTENDS Integers

CONSTANTS
  CNT_MOD,     \* values of it_cnt: 2^32
  Transfers    \* [Kind -> SUBSET Nat]: how many transfers an access makes

(* sx1262_send_opcode; a register of the TCAN4550; an element of its       *)
(* transmit buffer; the spi_write and spi_read commands.                   *)
Kind == {"sx1262", "tcan4550_reg", "tcan4550_tx_buff", "console"}

ASSUME CntModAssumption == CNT_MOD \in Nat /\ CNT_MOD > 2
ASSUME TransfersAssumption == Transfers \in [Kind -> SUBSET (Nat \ {0})]

VARIABLES
  spi,          \* SpiInstance: [it_cnt, it_done]
  wire,         \* the transfer of the DMA; "own": of the call that runs now
  select,       \* the chip whose select line is low
  pc,           \* where the access is
  access,       \* the access: its kind, transfers left, result; ghosts
  init_it_cnt,
  report,       \* the last access that returned
  late,         \* ghost: a wait gave up on a transfer, and no access
                \* started with the bus idle since
  refused       \* ghost: SPI_transfer refused on an idle bus, and took no
                \* transaction since

vars == <<spi, wire, select, pc, access, init_it_cnt, report, late, refused>>

Selected(kind) ==
  CASE kind = "sx1262" -> "sx1262"
    [] kind \in {"tcan4550_reg", "tcan4550_tx_buff"} -> "tcan4550"
    [] kind = "console" -> "none"

Chip == {"sx1262", "tcan4550", "none"}
Idle == [busy |-> FALSE, chip |-> "none", own |-> FALSE]

Access == [kind : Kind, todo : Nat, res : BOOLEAN,
           arrived : BOOLEAN,    \* ghost: the transfer of this call is over
           moved : BOOLEAN,      \* ghost: so were those of the calls before
           wrapped : BOOLEAN,    \* ghost: it_cnt wrapped in this access
           raced : BOOLEAN,      \* ghost: a transfer of it ended between the last
                                 \* test of it_cnt and the giving up
           clean : BOOLEAN]      \* ghost: the bus was idle when it started

Report == [kind : Kind, res : BOOLEAN, moved : BOOLEAN, wrapped : BOOLEAN,
           raced : BOOLEAN, clean : BOOLEAN]

TypeOK ==
  /\ spi \in [it_cnt : 0 .. CNT_MOD - 1, it_done : BOOLEAN]
  /\ wire \in [busy : BOOLEAN, chip : Chip, own : BOOLEAN]
  /\ select \in Chip
  /\ pc \in {"idle", "call", "wait_done", "clear", "transfer", "wait_cnt", "give_up", "end"}
  /\ access \in Access
  /\ pc \notin {"idle", "end"} => access.todo > 0
  /\ init_it_cnt \in 0 .. CNT_MOD - 1
  /\ report \in Report
  /\ late \in BOOLEAN /\ refused \in BOOLEAN

(* spi_init_ll *)
Init ==
  /\ spi = [it_cnt |-> 0, it_done |-> TRUE]
  /\ wire = Idle /\ select = "none" /\ pc = "idle"
  /\ access = [kind |-> "sx1262", todo |-> 0, res |-> TRUE, arrived |-> FALSE,
               moved |-> TRUE, wrapped |-> FALSE, raced |-> FALSE, clean |-> TRUE]
  /\ init_it_cnt = 0
  /\ report = [kind |-> "sx1262", res |-> FALSE, moved |-> FALSE, wrapped |-> FALSE,
               raced |-> FALSE, clean |-> TRUE]
  /\ late = FALSE /\ refused = FALSE

-----------------------------------------------------------------------------
(* it_cnt + 1 in its width *)
NextCount == IF spi.it_cnt = CNT_MOD - 1 THEN 0 ELSE spi.it_cnt + 1

(* Mutant: the callback counts and does not set the flag. *)
callback_counts_only ==
  /\ wire.busy
  /\ wire' = Idle
  /\ spi' = [spi EXCEPT !.it_cnt = NextCount]
  /\ access' = [access EXCEPT !.arrived = @ \/ wire.own]
  /\ UNCHANGED <<select, pc, init_it_cnt, report, late, refused>>

(* The transfer of the DMA ends, in whatever call the driver is by then. *)
SPI_CallBack ==
  /\ wire.busy
  /\ wire' = Idle
  /\ spi' = [it_cnt |-> NextCount, it_done |-> TRUE]
  /\ access' = [access EXCEPT !.arrived = @ \/ wire.own,
                              !.wrapped = @ \/ spi.it_cnt = CNT_MOD - 1,
                              !.raced = @ \/ (wire.own /\ pc = "give_up")]
  /\ UNCHANGED <<select, pc, init_it_cnt, report, late, refused>>

(***************************************************************************)
(* An access.  sx1262_chip_select lowers its line and then raises that of  *)
(* the CAN chip, tcan4550_chip_select the other way round; both lines are  *)
(* up when an access begins, so that the order of the two does not show.   *)
(* The console moves neither line.                                         *)
(***************************************************************************)
BeginAccess(kind, transfers) ==
  /\ pc = "idle"
  /\ pc' = "call"
  /\ select' = Selected(kind)
  /\ access' = [kind |-> kind, todo |-> transfers, res |-> TRUE, arrived |-> FALSE,
                moved |-> TRUE, wrapped |-> FALSE, raced |-> FALSE, clean |-> ~wire.busy]
  /\ late' = (late /\ wire.busy)
  /\ UNCHANGED <<spi, wire, init_it_cnt, report, refused>>

(* SX1262_CHIP_SELECT while the chip is busy: nothing is moved. *)
sx1262_wait_on_busy ==
  /\ pc = "idle"
  /\ report' = [kind |-> "sx1262", res |-> FALSE, moved |-> FALSE, wrapped |-> FALSE,
                raced |-> FALSE, clean |-> ~wire.busy]
  /\ UNCHANGED <<spi, wire, select, pc, access, init_it_cnt, late, refused>>

(* spi_wait_write_wait and spi_wait_read_wait: the counter is read before  *)
(* the wait for the transfer before.                                       *)
ReadCounter ==
  /\ pc = "call"
  /\ pc' = "wait_done"
  /\ init_it_cnt' = spi.it_cnt
  /\ UNCHANGED <<spi, wire, select, access, report, late, refused>>

(* spi_wait_tx_done; the caller goes on whether the flag came or the bound. *)
DoneSeen ==
  /\ pc = "wait_done" /\ spi.it_done
  /\ pc' = "clear"
  /\ UNCHANGED <<spi, wire, select, access, init_it_cnt, report, late, refused>>

DoneTimeOut ==
  /\ pc = "wait_done" /\ ~spi.it_done
  /\ pc' = "clear"
  /\ UNCHANGED <<spi, wire, select, access, init_it_cnt, report, late, refused>>

ClearDone ==
  /\ pc = "clear"
  /\ pc' = "transfer"
  /\ spi' = [spi EXCEPT !.it_done = FALSE]
  /\ UNCHANGED <<wire, select, access, init_it_cnt, report, late, refused>>

(* Mutant: the result of the last transfer stands for the access. *)
combine_last(kind, res, r) == r

(* How the callers join the results of their transfers: the register       *)
(* access overwrites them by that of tcan4550_chip_select(false), the      *)
(* element keeps the last.                                                 *)
Combine(kind, res, r) ==
  kind = "tcan4550_reg" \/ (r /\ (res \/ kind = "tcan4550_tx_buff"))

(* Mutant: one call more than there are transfers. *)
end_call_off_by_one(r) ==
  /\ access' = [access EXCEPT !.todo = IF @ = 0 THEN 0 ELSE @ - 1,
                              !.res = Combine(access.kind, @, r)]
  /\ pc' = IF access.todo = 0 THEN "end" ELSE "call"
  /\ UNCHANGED <<spi, select, init_it_cnt, report>>

(* A call returns r; the transfer, if it still runs, is nobody's now. *)
EndCall(r) ==
  /\ access' = [access EXCEPT !.todo = @ - 1,
                              !.res = Combine(access.kind, @, r),
                              !.moved = @ /\ access.arrived,
                              !.arrived = FALSE]
  /\ pc' = IF access.todo = 1 THEN "end" ELSE "call"
  /\ UNCHANGED <<spi, select, init_it_cnt, report>>

(* SPI_transfer takes one transaction at a time.  It refuses the others,   *)
(* and, on an idle bus, those it finds fault with (a count of zero).       *)
TransferStarts ==
  /\ pc = "transfer" /\ ~wire.busy
  /\ pc' = "wait_cnt"
  /\ wire' = [busy |-> TRUE, chip |-> select, own |-> TRUE]
  /\ refused' = FALSE
  /\ UNCHANGED <<spi, select, access, init_it_cnt, report, late>>

TransferRefused ==
  /\ pc = "transfer"
  /\ EndCall(FALSE)
  /\ refused' = ~wire.busy
  /\ UNCHANGED <<wire, late>>

(* Mutants of the comparison in spi_wait_tx. *)
is_done_already    == init_it_cnt <= spi.it_cnt
is_done_off_by_one == init_it_cnt + 1 < spi.it_cnt

is_tx_done == init_it_cnt < spi.it_cnt

spi_wait_tx ==
  /\ pc = "wait_cnt" /\ is_tx_done
  /\ EndCall(TRUE)
  /\ wire' = [wire EXCEPT !.own = FALSE]
  /\ UNCHANGED <<late, refused>>

(* Mutant: the wait has no bound. *)
wait_tx_for_ever ==
  /\ pc = "wait_cnt" /\ ~is_tx_done /\ ~wire.busy
  /\ pc' = "give_up"
  /\ UNCHANGED <<spi, wire, select, access, init_it_cnt, report, late, refused>>

(* The test of the last pass fails; the interrupt may still come before    *)
(* the pass is counted and the wait gives up.                              *)
LastTestFails ==
  /\ pc = "wait_cnt" /\ ~is_tx_done
  /\ pc' = "give_up"
  /\ UNCHANGED <<spi, wire, select, access, init_it_cnt, report, late, refused>>

TxTimeOut ==
  /\ pc = "give_up"
  /\ EndCall(FALSE)
  /\ wire' = [wire EXCEPT !.own = FALSE]
  /\ late' = (late \/ wire.busy)
  /\ UNCHANGED refused

(* The select line goes up, whatever still runs. *)
EndAccess ==
  /\ pc = "end"
  /\ pc' = "idle"
  /\ select' = "none"
  /\ report' = [kind |-> access.kind, res |-> access.res, moved |-> access.moved,
                wrapped |-> access.wrapped, raced |-> access.raced,
                clean |-> access.clean]
  /\ UNCHANGED <<spi, wire, access, init_it_cnt, late, refused>>

(* The calling task: nothing in it waits without a bound. *)
SpiCaller ==
  \/ ReadCounter \/ DoneSeen \/ DoneTimeOut \/ ClearDone
  \/ TransferStarts \/ TransferRefused
  \/ spi_wait_tx \/ LastTestFails \/ TxTimeOut
  \/ EndAccess

Next ==
  \/ SPI_CallBack
  \/ \E kind \in Kind : \E transfers \in Transfers[kind] : BeginAccess(kind, transfers)
  \/ sx1262_wait_on_busy
  \/ SpiCaller

Spec == Init /\ [][Next]_vars

(* The super-loop runs; nothing is asked of the interrupt. *)
FairSpec == Spec /\ WF_vars(SpiCaller)
-----------------------------------------------------------------------------
(* A true result that the caller passes on means that its bytes moved, and *)
(* those read are in its buffer, when the access started on an idle bus:   *)
(* what an earlier wait gave up on (spi_wait_tx) costs no access after the *)
(* bus has once come to rest.  Started earlier, an access takes the late   *)
(* interrupt for its own.                                                  *)
TrueMeansMoved ==
  report.kind \in {"sx1262", "console"} /\ report.res /\ report.clean => report.moved

(* Bytes meant for one chip never run under the select line of another,    *)
(* nor after their own went up, unless a wait gave up and no access since  *)
(* started on an idle bus (chip selects by software, sx1262_chip_select    *)
(* and tcan4550_chip_select).                                              *)
UnderOwnSelect == wire.busy /\ ~late => select = wire.chip

(* it_done is false on an idle bus only between its clearing and the       *)
(* transfer, and after SPI_transfer refused a transaction on an idle bus   *)
(* (spi_wait_write_wait clears the flag first, and no interrupt sets it    *)
(* again): then until the next transfer is taken, whose caller waits the   *)
(* whole bound of spi_wait_tx_done.  A refusal because of a late transfer, *)
(* and a wait that gave up, leave no such mark: the interrupt still comes. *)
DoneFlagComesBack == ~wire.busy /\ ~spi.it_done => pc = "transfer" \/ refused

(* An access whose transfers all ended before their waits returned is      *)
(* reported as failed in two cases only (spi_wait_tx): it_cnt wrapped      *)
(* (init_it_cnt < it_cnt fails), or an interrupt came after the last test  *)
(* of it_cnt and before the wait gave up.                                  *)
MovedIsReported ==
  report.kind \in {"sx1262", "console"} /\ report.moved /\ ~report.res
    => report.wrapped \/ report.raced

(* An access returns even if the interrupt never comes. *)
AccessesReturn == pc # "idle" ~> pc = "idle"
=============================================================================
