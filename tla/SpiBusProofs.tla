---------------------------- MODULE SpiBusProofs ----------------------------
(***************************************************************************)
(* Proofs about SpiBus, for every width of the counter and every length of *)
(* an access.                                                              *)
(*                                                                         *)
(* TrueMeansMoved is not inductive.  What carries it is that, until a wait *)
(* gives up, a transfer is in flight only while its own call waits for it  *)
(* (OwnTransferOnly), so that the counter stands still from the moment the *)
(* call reads it until that transfer ends (CounterStands); and that a wait *)
(* that gives up makes the result of its access false (GaveUpMeansFalse).  *)
(***************************************************************************)
EXTENDS SpiBus, TLAPS

Joined == {"sx1262", "console"}
InSpiWaitTx == {"wait_cnt", "give_up"}
Waiting == {"wait_done", "clear", "transfer"} \cup InSpiWaitTx

SelectOfAccess == select = IF pc = "idle" THEN "none" ELSE Selected(access.kind)

OwnTransferOnly ==
  wire.busy /\ ~late => wire.own /\ wire.chip = select /\ pc \in InSpiWaitTx

CounterStands ==
  ~late /\ pc \in Waiting /\ (pc \in InSpiWaitTx => wire.busy) => spi.it_cnt = init_it_cnt

IdleMeansArrived == ~late /\ pc \in InSpiWaitTx /\ ~wire.busy => access.arrived

GaveUpMeansFalse == access.kind \in Joined /\ access.clean /\ late => ~access.res

AccessTrueMeansMoved == access.kind \in Joined /\ access.res /\ access.clean => access.moved

(* The same for an access that moved its bytes. *)
CounterGrows == pc \in Waiting => init_it_cnt <= spi.it_cnt \/ access.wrapped

ArrivedWaits ==
  /\ wire.own => wire.busy /\ pc \in InSpiWaitTx
  /\ access.arrived => pc \in InSpiWaitTx /\ (init_it_cnt < spi.it_cnt \/ access.wrapped)

(* A wait about to give up on a transfer that ended was overtaken by it.   *)
GivesUpWronglyOnly ==
  pc = "give_up" /\ access.arrived => access.wrapped \/ access.raced

AccessMovedIsReported ==
  access.kind \in Joined /\ access.moved /\ ~access.res => access.wrapped \/ access.raced

IInv ==
  /\ TypeOK
  /\ SelectOfAccess
  /\ OwnTransferOnly /\ CounterStands /\ IdleMeansArrived
  /\ GaveUpMeansFalse /\ AccessTrueMeansMoved /\ TrueMeansMoved
  /\ CounterGrows /\ ArrivedWaits /\ GivesUpWronglyOnly
  /\ AccessMovedIsReported /\ MovedIsReported
  /\ DoneFlagComesBack
-----------------------------------------------------------------------------
LEMMA InitIInv == Init => IInv
<1> SUFFICES ASSUME Init PROVE IInv
  OBVIOUS
<1>1. TypeOK
  <2>1. spi \in [it_cnt : 0 .. CNT_MOD - 1, it_done : BOOLEAN] /\ init_it_cnt \in 0 .. CNT_MOD - 1
    BY CntModAssumption, SMT DEF Init
  <2>2. access \in Access /\ report \in Report
    BY SMT DEF Init, Access, Report, Kind
  <2>3. wire \in [busy : BOOLEAN, chip : Chip, own : BOOLEAN]
    BY Zenon DEF Init, Idle, Chip
  <2> QED
    BY <2>1, <2>2, <2>3, Zenon DEF Init, TypeOK, Chip
<1>2. SelectOfAccess /\ OwnTransferOnly /\ CounterStands /\ IdleMeansArrived
  BY SMT DEF Init, SelectOfAccess, OwnTransferOnly, CounterStands, IdleMeansArrived, Idle, Waiting, InSpiWaitTx
<1>3. GaveUpMeansFalse /\ AccessTrueMeansMoved /\ TrueMeansMoved
  BY SMT DEF Init, GaveUpMeansFalse, AccessTrueMeansMoved, TrueMeansMoved
<1>4. /\ CounterGrows /\ ArrivedWaits /\ GivesUpWronglyOnly
      /\ AccessMovedIsReported /\ MovedIsReported /\ DoneFlagComesBack
  BY SMT DEF Init, CounterGrows, ArrivedWaits, GivesUpWronglyOnly, AccessMovedIsReported,
    MovedIsReported, DoneFlagComesBack, Idle, Waiting, InSpiWaitTx
<1> QED
  BY <1>1, <1>2, <1>3, <1>4 DEF IInv

LEMMA CallBackStep ==
  ASSUME IInv, SPI_CallBack
  PROVE  IInv'
<1>1. TypeOK'
  <2>1. NextCount \in 0 .. CNT_MOD - 1
    BY CntModAssumption, SMT DEF IInv, TypeOK, NextCount
  <2>2. spi' \in [it_cnt : 0 .. CNT_MOD - 1, it_done : BOOLEAN]
    BY <2>1, Zenon DEF SPI_CallBack
  <2>3. /\ (access.arrived \/ wire.own) \in BOOLEAN
        /\ (access.wrapped \/ spi.it_cnt = CNT_MOD - 1) \in BOOLEAN
        /\ (access.raced \/ (wire.own /\ pc = "give_up")) \in BOOLEAN
    OBVIOUS
  <2>4. access' \in Access /\ access'.todo = access.todo
    BY <2>3, Zenon DEF IInv, TypeOK, Access, SPI_CallBack
  <2> QED
    BY <2>2, <2>4, SMT DEF IInv, TypeOK, SPI_CallBack, Idle, Chip
<1>2. SelectOfAccess'
  BY SMT DEF IInv, TypeOK, Access, SPI_CallBack, NextCount, Idle,
    SelectOfAccess
<1>3. OwnTransferOnly' /\ CounterStands' /\ IdleMeansArrived'
  BY SMT DEF IInv, TypeOK, Access, SPI_CallBack, NextCount, Idle,
    SelectOfAccess, OwnTransferOnly, CounterStands, IdleMeansArrived, Waiting, InSpiWaitTx
<1>4. GaveUpMeansFalse' /\ AccessTrueMeansMoved' /\ TrueMeansMoved'
  BY SMT DEF IInv, TypeOK, Access, Report, Kind, SPI_CallBack, NextCount, Idle,
    OwnTransferOnly, CounterStands, IdleMeansArrived,
    GaveUpMeansFalse, AccessTrueMeansMoved, TrueMeansMoved, Waiting, InSpiWaitTx, Joined
<1>5. CounterGrows' /\ ArrivedWaits' /\ GivesUpWronglyOnly'
  BY CntModAssumption, SMT DEF IInv, TypeOK, Access, SPI_CallBack, NextCount, Idle,
    CounterGrows, ArrivedWaits, GivesUpWronglyOnly, Waiting, InSpiWaitTx
<1>6. AccessMovedIsReported' /\ MovedIsReported'
  BY CntModAssumption, SMT DEF IInv, TypeOK, Access, Report, Kind, SPI_CallBack, NextCount, Idle,
    CounterGrows, ArrivedWaits, GivesUpWronglyOnly, AccessMovedIsReported,
    MovedIsReported, Waiting, InSpiWaitTx, Joined
<1>7. DoneFlagComesBack'
  BY SMT DEF IInv, TypeOK, Access, SPI_CallBack, NextCount, Idle,
    DoneFlagComesBack
<1> QED
  BY <1>1, <1>2, <1>3, <1>4, <1>5, <1>6, <1>7 DEF IInv

LEMMA BeginStep ==
  ASSUME NEW kind \in Kind, NEW transfers \in Transfers[kind], IInv, BeginAccess(kind, transfers)
  PROVE  IInv'
<1>0. transfers \in Nat \ {0}
  BY TransfersAssumption
<1>a. /\ access'.kind = kind /\ access'.res /\ access'.moved /\ ~access'.wrapped
      /\ ~access'.raced /\ ~access'.arrived /\ access'.clean = ~wire.busy
  BY Zenon DEF BeginAccess
<1>1. TypeOK'
  BY <1>0, SMT DEF IInv, TypeOK, Access, Report, Kind, Chip, BeginAccess, Selected
<1>2. SelectOfAccess'
  BY <1>a, SMT DEF IInv, TypeOK, BeginAccess,
    SelectOfAccess
<1>3. OwnTransferOnly' /\ CounterStands' /\ IdleMeansArrived'
  BY <1>a, SMT DEF IInv, TypeOK, BeginAccess,
    SelectOfAccess, OwnTransferOnly, CounterStands, IdleMeansArrived, Waiting, InSpiWaitTx
<1>4. GaveUpMeansFalse' /\ AccessTrueMeansMoved' /\ TrueMeansMoved'
  <2>1. access'.clean /\ late' => FALSE
    BY <1>a, Zenon DEF BeginAccess
  <2>2. TrueMeansMoved'
    BY SMT DEF IInv, TrueMeansMoved, BeginAccess
  <2> QED
    BY <1>a, <2>1, <2>2 DEF GaveUpMeansFalse, AccessTrueMeansMoved
<1>5. CounterGrows' /\ ArrivedWaits' /\ GivesUpWronglyOnly'
  BY <1>a, SMT DEF IInv, TypeOK, BeginAccess,
    CounterGrows, ArrivedWaits, GivesUpWronglyOnly, Waiting, InSpiWaitTx
<1>6. AccessMovedIsReported' /\ MovedIsReported'
  BY <1>a, SMT DEF IInv, TypeOK, BeginAccess,
    CounterGrows, ArrivedWaits, GivesUpWronglyOnly, AccessMovedIsReported,
    MovedIsReported, Waiting, InSpiWaitTx, Joined
<1>7. DoneFlagComesBack'
  BY <1>a, SMT DEF IInv, TypeOK, BeginAccess,
    DoneFlagComesBack
<1> QED
  BY <1>1, <1>2, <1>3, <1>4, <1>5, <1>6, <1>7 DEF IInv

LEMMA BusyStep ==
  ASSUME IInv, sx1262_wait_on_busy
  PROVE  IInv'
<1>1. TypeOK'
  BY SMT DEF IInv, TypeOK, Access, Report, Kind, Chip, sx1262_wait_on_busy
<1>2. SelectOfAccess'
  BY SMT DEF IInv, TypeOK, Access, sx1262_wait_on_busy,
    SelectOfAccess
<1>3. OwnTransferOnly' /\ CounterStands' /\ IdleMeansArrived'
  BY SMT DEF IInv, TypeOK, Access, sx1262_wait_on_busy,
    SelectOfAccess, OwnTransferOnly, CounterStands, IdleMeansArrived, Waiting, InSpiWaitTx
<1>4. GaveUpMeansFalse' /\ AccessTrueMeansMoved' /\ TrueMeansMoved'
  BY SMT DEF IInv, TypeOK, Access, Report, Kind, sx1262_wait_on_busy,
    OwnTransferOnly, CounterStands, IdleMeansArrived,
    GaveUpMeansFalse, AccessTrueMeansMoved, TrueMeansMoved, Waiting, InSpiWaitTx, Joined
<1>5. CounterGrows' /\ ArrivedWaits' /\ GivesUpWronglyOnly'
  BY SMT DEF IInv, TypeOK, Access, sx1262_wait_on_busy,
    CounterGrows, ArrivedWaits, GivesUpWronglyOnly, Waiting, InSpiWaitTx
<1>6. AccessMovedIsReported' /\ MovedIsReported'
  BY SMT DEF IInv, TypeOK, Access, Report, Kind, sx1262_wait_on_busy,
    CounterGrows, ArrivedWaits, GivesUpWronglyOnly, AccessMovedIsReported,
    MovedIsReported, Waiting, InSpiWaitTx, Joined
<1>7. DoneFlagComesBack'
  BY SMT DEF IInv, TypeOK, Access, sx1262_wait_on_busy,
    DoneFlagComesBack
<1> QED
  BY <1>1, <1>2, <1>3, <1>4, <1>5, <1>6, <1>7 DEF IInv

LEMMA ReadStep ==
  ASSUME IInv, ReadCounter
  PROVE  IInv'
<1>1. TypeOK'
  BY SMT DEF IInv, TypeOK, Access, Report, Kind, Chip, ReadCounter
<1>2. SelectOfAccess'
  BY SMT DEF IInv, TypeOK, Access, ReadCounter,
    SelectOfAccess
<1>3. OwnTransferOnly' /\ CounterStands' /\ IdleMeansArrived'
  BY SMT DEF IInv, TypeOK, Access, ReadCounter,
    SelectOfAccess, OwnTransferOnly, CounterStands, IdleMeansArrived, Waiting, InSpiWaitTx
<1>4. GaveUpMeansFalse' /\ AccessTrueMeansMoved' /\ TrueMeansMoved'
  BY SMT DEF IInv, TypeOK, Access, Report, Kind, ReadCounter,
    OwnTransferOnly, CounterStands, IdleMeansArrived,
    GaveUpMeansFalse, AccessTrueMeansMoved, TrueMeansMoved, Waiting, InSpiWaitTx, Joined
<1>5. CounterGrows' /\ ArrivedWaits' /\ GivesUpWronglyOnly'
  BY SMT DEF IInv, TypeOK, Access, ReadCounter,
    CounterGrows, ArrivedWaits, GivesUpWronglyOnly, Waiting, InSpiWaitTx
<1>6. AccessMovedIsReported' /\ MovedIsReported'
  BY SMT DEF IInv, TypeOK, Access, Report, Kind, ReadCounter,
    CounterGrows, ArrivedWaits, GivesUpWronglyOnly, AccessMovedIsReported,
    MovedIsReported, Waiting, InSpiWaitTx, Joined
<1>7. DoneFlagComesBack'
  BY SMT DEF IInv, TypeOK, Access, ReadCounter,
    DoneFlagComesBack
<1> QED
  BY <1>1, <1>2, <1>3, <1>4, <1>5, <1>6, <1>7 DEF IInv

LEMMA SeenStep ==
  ASSUME IInv, DoneSeen
  PROVE  IInv'
<1>1. TypeOK'
  BY SMT DEF IInv, TypeOK, Access, Report, Kind, Chip, DoneSeen
<1>2. SelectOfAccess'
  BY SMT DEF IInv, TypeOK, Access, DoneSeen,
    SelectOfAccess
<1>3. OwnTransferOnly' /\ CounterStands' /\ IdleMeansArrived'
  BY SMT DEF IInv, TypeOK, Access, DoneSeen,
    SelectOfAccess, OwnTransferOnly, CounterStands, IdleMeansArrived, Waiting, InSpiWaitTx
<1>4. GaveUpMeansFalse' /\ AccessTrueMeansMoved' /\ TrueMeansMoved'
  BY SMT DEF IInv, TypeOK, Access, Report, Kind, DoneSeen,
    OwnTransferOnly, CounterStands, IdleMeansArrived,
    GaveUpMeansFalse, AccessTrueMeansMoved, TrueMeansMoved, Waiting, InSpiWaitTx, Joined
<1>5. CounterGrows' /\ ArrivedWaits' /\ GivesUpWronglyOnly'
  BY SMT DEF IInv, TypeOK, Access, DoneSeen,
    CounterGrows, ArrivedWaits, GivesUpWronglyOnly, Waiting, InSpiWaitTx
<1>6. AccessMovedIsReported' /\ MovedIsReported'
  BY SMT DEF IInv, TypeOK, Access, Report, Kind, DoneSeen,
    CounterGrows, ArrivedWaits, GivesUpWronglyOnly, AccessMovedIsReported,
    MovedIsReported, Waiting, InSpiWaitTx, Joined
<1>7. DoneFlagComesBack'
  BY SMT DEF IInv, TypeOK, Access, DoneSeen,
    DoneFlagComesBack
<1> QED
  BY <1>1, <1>2, <1>3, <1>4, <1>5, <1>6, <1>7 DEF IInv

LEMMA DoneBoundStep ==
  ASSUME IInv, DoneTimeOut
  PROVE  IInv'
<1>1. TypeOK'
  BY SMT DEF IInv, TypeOK, Access, Report, Kind, Chip, DoneTimeOut
<1>2. SelectOfAccess'
  BY SMT DEF IInv, TypeOK, Access, DoneTimeOut,
    SelectOfAccess
<1>3. OwnTransferOnly' /\ CounterStands' /\ IdleMeansArrived'
  BY SMT DEF IInv, TypeOK, Access, DoneTimeOut,
    SelectOfAccess, OwnTransferOnly, CounterStands, IdleMeansArrived, Waiting, InSpiWaitTx
<1>4. GaveUpMeansFalse' /\ AccessTrueMeansMoved' /\ TrueMeansMoved'
  BY SMT DEF IInv, TypeOK, Access, Report, Kind, DoneTimeOut,
    OwnTransferOnly, CounterStands, IdleMeansArrived,
    GaveUpMeansFalse, AccessTrueMeansMoved, TrueMeansMoved, Waiting, InSpiWaitTx, Joined
<1>5. CounterGrows' /\ ArrivedWaits' /\ GivesUpWronglyOnly'
  BY SMT DEF IInv, TypeOK, Access, DoneTimeOut,
    CounterGrows, ArrivedWaits, GivesUpWronglyOnly, Waiting, InSpiWaitTx
<1>6. AccessMovedIsReported' /\ MovedIsReported'
  BY SMT DEF IInv, TypeOK, Access, Report, Kind, DoneTimeOut,
    CounterGrows, ArrivedWaits, GivesUpWronglyOnly, AccessMovedIsReported,
    MovedIsReported, Waiting, InSpiWaitTx, Joined
<1>7. DoneFlagComesBack'
  BY SMT DEF IInv, TypeOK, Access, DoneTimeOut,
    DoneFlagComesBack
<1> QED
  BY <1>1, <1>2, <1>3, <1>4, <1>5, <1>6, <1>7 DEF IInv

LEMMA ClearStep ==
  ASSUME IInv, ClearDone
  PROVE  IInv'
<1>1. TypeOK'
  <2>1. spi' \in [it_cnt : 0 .. CNT_MOD - 1, it_done : BOOLEAN]
    BY Zenon DEF IInv, TypeOK, ClearDone
  <2> QED
    BY <2>1, SMT DEF IInv, TypeOK, ClearDone
<1>2. SelectOfAccess'
  BY SMT DEF IInv, TypeOK, Access, ClearDone,
    SelectOfAccess
<1>3. OwnTransferOnly' /\ CounterStands' /\ IdleMeansArrived'
  BY SMT DEF IInv, TypeOK, Access, ClearDone,
    SelectOfAccess, OwnTransferOnly, CounterStands, IdleMeansArrived, Waiting, InSpiWaitTx
<1>4. GaveUpMeansFalse' /\ AccessTrueMeansMoved' /\ TrueMeansMoved'
  BY SMT DEF IInv, TypeOK, Access, Report, Kind, ClearDone,
    OwnTransferOnly, CounterStands, IdleMeansArrived,
    GaveUpMeansFalse, AccessTrueMeansMoved, TrueMeansMoved, Waiting, InSpiWaitTx, Joined
<1>5. CounterGrows' /\ ArrivedWaits' /\ GivesUpWronglyOnly'
  BY SMT DEF IInv, TypeOK, Access, ClearDone,
    CounterGrows, ArrivedWaits, GivesUpWronglyOnly, Waiting, InSpiWaitTx
<1>6. AccessMovedIsReported' /\ MovedIsReported'
  BY SMT DEF IInv, TypeOK, Access, Report, Kind, ClearDone,
    CounterGrows, ArrivedWaits, GivesUpWronglyOnly, AccessMovedIsReported,
    MovedIsReported, Waiting, InSpiWaitTx, Joined
<1>7. DoneFlagComesBack'
  BY SMT DEF IInv, TypeOK, Access, ClearDone,
    DoneFlagComesBack
<1> QED
  BY <1>1, <1>2, <1>3, <1>4, <1>5, <1>6, <1>7 DEF IInv

LEMMA StartStep ==
  ASSUME IInv, TransferStarts
  PROVE  IInv'
<1>1. TypeOK'
  <2>1. wire' \in [busy : BOOLEAN, chip : Chip, own : BOOLEAN] /\ refused' \in BOOLEAN
    BY Zenon DEF IInv, TypeOK, TransferStarts
  <2> QED
    BY <2>1, SMT DEF IInv, TypeOK, TransferStarts
<1>2. SelectOfAccess'
  BY SMT DEF IInv, TypeOK, Access, TransferStarts,
    SelectOfAccess
<1>3. OwnTransferOnly' /\ CounterStands' /\ IdleMeansArrived'
  BY SMT DEF IInv, TypeOK, Access, TransferStarts,
    SelectOfAccess, OwnTransferOnly, CounterStands, IdleMeansArrived, Waiting, InSpiWaitTx
<1>4. GaveUpMeansFalse' /\ AccessTrueMeansMoved' /\ TrueMeansMoved'
  BY SMT DEF IInv, TypeOK, Access, Report, Kind, TransferStarts,
    OwnTransferOnly, CounterStands, IdleMeansArrived,
    GaveUpMeansFalse, AccessTrueMeansMoved, TrueMeansMoved, Waiting, InSpiWaitTx, Joined
<1>5. CounterGrows' /\ ArrivedWaits' /\ GivesUpWronglyOnly'
  BY SMT DEF IInv, TypeOK, Access, TransferStarts,
    CounterGrows, ArrivedWaits, GivesUpWronglyOnly, Waiting, InSpiWaitTx
<1>6. AccessMovedIsReported' /\ MovedIsReported'
  BY SMT DEF IInv, TypeOK, Access, Report, Kind, TransferStarts,
    CounterGrows, ArrivedWaits, GivesUpWronglyOnly, AccessMovedIsReported,
    MovedIsReported, Waiting, InSpiWaitTx, Joined
<1>7. DoneFlagComesBack'
  BY SMT DEF IInv, TypeOK, Access, TransferStarts,
    DoneFlagComesBack
<1> QED
  BY <1>1, <1>2, <1>3, <1>4, <1>5, <1>6, <1>7 DEF IInv

LEMMA RefusedStep ==
  ASSUME IInv, TransferRefused
  PROVE  IInv'
<1>1. TypeOK'
  <2>1. access.todo - 1 \in Nat /\ (access.todo - 1 > 0 \/ access.todo = 1)
    BY SMT DEF IInv, TypeOK, Access, TransferRefused
  <2>2. Combine(access.kind, access.res, FALSE) \in BOOLEAN
    BY Zenon DEF Combine
  <2>3. (access.moved /\ access.arrived) \in BOOLEAN
    OBVIOUS
  <2>4. access' \in Access /\ access'.todo = access.todo - 1
    BY <2>1, <2>2, <2>3, Zenon DEF IInv, TypeOK, Access, TransferRefused, EndCall
  <2>5. /\ wire' \in [busy : BOOLEAN, chip : Chip, own : BOOLEAN]
        /\ late' \in BOOLEAN /\ refused' \in BOOLEAN
    BY Zenon DEF IInv, TypeOK, TransferRefused
  <2>6. /\ spi' = spi /\ select' = select /\ init_it_cnt' = init_it_cnt /\ report' = report
        /\ pc' = IF access.todo = 1 THEN "end" ELSE "call"
    BY Zenon DEF TransferRefused, EndCall
  <2> QED
    BY <2>1, <2>4, <2>5, <2>6, SMT DEF IInv, TypeOK
<1>2. SelectOfAccess'
  BY SMT DEF IInv, TypeOK, Access, TransferRefused, EndCall, Combine,
    SelectOfAccess
<1>3. OwnTransferOnly' /\ CounterStands' /\ IdleMeansArrived'
  BY SMT DEF IInv, TypeOK, Access, TransferRefused, EndCall, Combine,
    SelectOfAccess, OwnTransferOnly, CounterStands, IdleMeansArrived, Waiting, InSpiWaitTx
<1>4. GaveUpMeansFalse' /\ AccessTrueMeansMoved' /\ TrueMeansMoved'
  BY SMT DEF IInv, TypeOK, Access, Report, Kind, TransferRefused, EndCall, Combine,
    OwnTransferOnly, CounterStands, IdleMeansArrived,
    GaveUpMeansFalse, AccessTrueMeansMoved, TrueMeansMoved, Waiting, InSpiWaitTx, Joined
<1>5. CounterGrows' /\ ArrivedWaits' /\ GivesUpWronglyOnly'
  BY SMT DEF IInv, TypeOK, Access, TransferRefused, EndCall, Combine,
    CounterGrows, ArrivedWaits, GivesUpWronglyOnly, Waiting, InSpiWaitTx
<1>6. AccessMovedIsReported' /\ MovedIsReported'
  BY SMT DEF IInv, TypeOK, Access, Report, Kind, TransferRefused, EndCall, Combine,
    CounterGrows, ArrivedWaits, GivesUpWronglyOnly, AccessMovedIsReported,
    MovedIsReported, Waiting, InSpiWaitTx, Joined
<1>7. DoneFlagComesBack'
  <2>1. refused' = ~wire.busy /\ wire' = wire
    BY Zenon DEF TransferRefused
  <2> QED
    BY <2>1, Zenon DEF DoneFlagComesBack
<1> QED
  BY <1>1, <1>2, <1>3, <1>4, <1>5, <1>6, <1>7 DEF IInv

LEMMA WaitStep ==
  ASSUME IInv, spi_wait_tx
  PROVE  IInv'
<1>1. TypeOK'
  <2>1. access.todo - 1 \in Nat /\ (access.todo - 1 > 0 \/ access.todo = 1)
    BY SMT DEF IInv, TypeOK, Access, spi_wait_tx
  <2>2. Combine(access.kind, access.res, TRUE) \in BOOLEAN
    BY Zenon DEF Combine
  <2>3. (access.moved /\ access.arrived) \in BOOLEAN
    OBVIOUS
  <2>4. access' \in Access /\ access'.todo = access.todo - 1
    BY <2>1, <2>2, <2>3, Zenon DEF IInv, TypeOK, Access, spi_wait_tx, EndCall
  <2>5. wire' \in [busy : BOOLEAN, chip : Chip, own : BOOLEAN] /\ late' \in BOOLEAN
    BY Zenon DEF IInv, TypeOK, spi_wait_tx
  <2> QED
    BY <2>1, <2>4, <2>5, SMT DEF IInv, TypeOK, spi_wait_tx, EndCall
<1>2. SelectOfAccess'
  BY SMT DEF IInv, TypeOK, Access, spi_wait_tx, EndCall, Combine, is_tx_done,
    SelectOfAccess
<1>3. OwnTransferOnly' /\ CounterStands' /\ IdleMeansArrived'
  BY SMT DEF IInv, TypeOK, Access, spi_wait_tx, EndCall, Combine, is_tx_done,
    SelectOfAccess, OwnTransferOnly, CounterStands, IdleMeansArrived, Waiting, InSpiWaitTx
<1>4. GaveUpMeansFalse' /\ AccessTrueMeansMoved' /\ TrueMeansMoved'
  BY SMT DEF IInv, TypeOK, Access, Report, Kind, spi_wait_tx, EndCall, Combine, is_tx_done,
    OwnTransferOnly, CounterStands, IdleMeansArrived,
    GaveUpMeansFalse, AccessTrueMeansMoved, TrueMeansMoved, Waiting, InSpiWaitTx, Joined
<1>5. CounterGrows' /\ ArrivedWaits' /\ GivesUpWronglyOnly'
  BY SMT DEF IInv, TypeOK, Access, spi_wait_tx, EndCall, Combine, is_tx_done,
    CounterGrows, ArrivedWaits, GivesUpWronglyOnly, Waiting, InSpiWaitTx
<1>6. AccessMovedIsReported' /\ MovedIsReported'
  BY SMT DEF IInv, TypeOK, Access, Report, Kind, spi_wait_tx, EndCall, Combine, is_tx_done,
    CounterGrows, ArrivedWaits, GivesUpWronglyOnly, AccessMovedIsReported,
    MovedIsReported, Waiting, InSpiWaitTx, Joined
<1>7. DoneFlagComesBack'
  BY SMT DEF IInv, TypeOK, Access, spi_wait_tx, EndCall, Combine, is_tx_done,
    DoneFlagComesBack
<1> QED
  BY <1>1, <1>2, <1>3, <1>4, <1>5, <1>6, <1>7 DEF IInv

LEMMA LastTestStep ==
  ASSUME IInv, LastTestFails
  PROVE  IInv'
<1>1. TypeOK'
  BY SMT DEF IInv, TypeOK, Access, Report, Kind, Chip, LastTestFails, is_tx_done
<1>2. SelectOfAccess'
  BY SMT DEF IInv, TypeOK, Access, LastTestFails, is_tx_done,
    SelectOfAccess
<1>3. OwnTransferOnly' /\ CounterStands' /\ IdleMeansArrived'
  BY SMT DEF IInv, TypeOK, Access, LastTestFails, is_tx_done,
    SelectOfAccess, OwnTransferOnly, CounterStands, IdleMeansArrived, Waiting, InSpiWaitTx
<1>4. GaveUpMeansFalse' /\ AccessTrueMeansMoved' /\ TrueMeansMoved'
  BY SMT DEF IInv, TypeOK, Access, Report, Kind, LastTestFails, is_tx_done,
    OwnTransferOnly, CounterStands, IdleMeansArrived,
    GaveUpMeansFalse, AccessTrueMeansMoved, TrueMeansMoved, Waiting, InSpiWaitTx, Joined
<1>5. CounterGrows' /\ ArrivedWaits' /\ GivesUpWronglyOnly'
  BY SMT DEF IInv, TypeOK, Access, LastTestFails, is_tx_done,
    CounterGrows, ArrivedWaits, GivesUpWronglyOnly, Waiting, InSpiWaitTx
<1>6. AccessMovedIsReported' /\ MovedIsReported'
  BY SMT DEF IInv, TypeOK, Access, Report, Kind, LastTestFails, is_tx_done,
    CounterGrows, ArrivedWaits, GivesUpWronglyOnly, AccessMovedIsReported,
    MovedIsReported, Waiting, InSpiWaitTx, Joined
<1>7. DoneFlagComesBack'
  BY SMT DEF IInv, TypeOK, Access, LastTestFails, is_tx_done,
    DoneFlagComesBack
<1> QED
  BY <1>1, <1>2, <1>3, <1>4, <1>5, <1>6, <1>7 DEF IInv

LEMMA TxBoundStep ==
  ASSUME IInv, TxTimeOut
  PROVE  IInv'
<1>1. TypeOK'
  <2>1. access.todo - 1 \in Nat /\ (access.todo - 1 > 0 \/ access.todo = 1)
    BY SMT DEF IInv, TypeOK, Access, TxTimeOut
  <2>2. Combine(access.kind, access.res, FALSE) \in BOOLEAN
    BY Zenon DEF Combine
  <2>3. (access.moved /\ access.arrived) \in BOOLEAN
    OBVIOUS
  <2>4. access' \in Access /\ access'.todo = access.todo - 1
    BY <2>1, <2>2, <2>3, Zenon DEF IInv, TypeOK, Access, TxTimeOut, EndCall
  <2>5. wire' \in [busy : BOOLEAN, chip : Chip, own : BOOLEAN] /\ late' \in BOOLEAN
    BY Zenon DEF IInv, TypeOK, TxTimeOut
  <2> QED
    BY <2>1, <2>4, <2>5, SMT DEF IInv, TypeOK, TxTimeOut, EndCall
<1>2. SelectOfAccess'
  BY SMT DEF IInv, TypeOK, Access, TxTimeOut, EndCall, Combine, is_tx_done,
    SelectOfAccess
<1>3. OwnTransferOnly' /\ CounterStands' /\ IdleMeansArrived'
  BY SMT DEF IInv, TypeOK, Access, TxTimeOut, EndCall, Combine, is_tx_done,
    SelectOfAccess, OwnTransferOnly, CounterStands, IdleMeansArrived, Waiting, InSpiWaitTx
<1>4. GaveUpMeansFalse' /\ AccessTrueMeansMoved' /\ TrueMeansMoved'
  BY SMT DEF IInv, TypeOK, Access, Report, Kind, TxTimeOut, EndCall, Combine, is_tx_done,
    OwnTransferOnly, CounterStands, IdleMeansArrived,
    GaveUpMeansFalse, AccessTrueMeansMoved, TrueMeansMoved, Waiting, InSpiWaitTx, Joined
<1>5. CounterGrows' /\ ArrivedWaits' /\ GivesUpWronglyOnly'
  BY SMT DEF IInv, TypeOK, Access, TxTimeOut, EndCall, Combine, is_tx_done,
    CounterGrows, ArrivedWaits, GivesUpWronglyOnly, Waiting, InSpiWaitTx
<1>6. AccessMovedIsReported' /\ MovedIsReported'
  BY SMT DEF IInv, TypeOK, Access, Report, Kind, TxTimeOut, EndCall, Combine, is_tx_done,
    CounterGrows, ArrivedWaits, GivesUpWronglyOnly, AccessMovedIsReported,
    MovedIsReported, Waiting, InSpiWaitTx, Joined
<1>7. DoneFlagComesBack'
  BY SMT DEF IInv, TypeOK, Access, TxTimeOut, EndCall, Combine, is_tx_done,
    DoneFlagComesBack
<1> QED
  BY <1>1, <1>2, <1>3, <1>4, <1>5, <1>6, <1>7 DEF IInv

LEMMA EndStep ==
  ASSUME IInv, EndAccess
  PROVE  IInv'
<1>1. TypeOK'
  BY SMT DEF IInv, TypeOK, Access, Report, Kind, Chip, EndAccess
<1>2. SelectOfAccess'
  BY SMT DEF IInv, TypeOK, Access, EndAccess,
    SelectOfAccess
<1>3. OwnTransferOnly' /\ CounterStands' /\ IdleMeansArrived'
  BY SMT DEF IInv, TypeOK, Access, EndAccess,
    SelectOfAccess, OwnTransferOnly, CounterStands, IdleMeansArrived, Waiting, InSpiWaitTx
<1>4. GaveUpMeansFalse' /\ AccessTrueMeansMoved' /\ TrueMeansMoved'
  BY SMT DEF IInv, TypeOK, Access, Report, Kind, EndAccess,
    OwnTransferOnly, CounterStands, IdleMeansArrived,
    GaveUpMeansFalse, AccessTrueMeansMoved, TrueMeansMoved, Waiting, InSpiWaitTx, Joined
<1>5. CounterGrows' /\ ArrivedWaits' /\ GivesUpWronglyOnly'
  BY SMT DEF IInv, TypeOK, Access, EndAccess,
    CounterGrows, ArrivedWaits, GivesUpWronglyOnly, Waiting, InSpiWaitTx
<1>6. AccessMovedIsReported' /\ MovedIsReported'
  BY SMT DEF IInv, TypeOK, Access, Report, Kind, EndAccess,
    CounterGrows, ArrivedWaits, GivesUpWronglyOnly, AccessMovedIsReported,
    MovedIsReported, Waiting, InSpiWaitTx, Joined
<1>7. DoneFlagComesBack'
  BY SMT DEF IInv, TypeOK, Access, EndAccess,
    DoneFlagComesBack
<1> QED
  BY <1>1, <1>2, <1>3, <1>4, <1>5, <1>6, <1>7 DEF IInv

LEMMA NextIInv == IInv /\ [Next]_vars => IInv'
<1> SUFFICES ASSUME IInv, [Next]_vars PROVE IInv'
  OBVIOUS
<1>1. CASE Next
  <2>1. CASE \E kind \in Kind : \E transfers \in Transfers[kind] : BeginAccess(kind, transfers)
    BY <2>1, BeginStep
  <2>2. CASE SpiCaller
    BY <2>2, ReadStep, SeenStep, DoneBoundStep, ClearStep, StartStep, RefusedStep, WaitStep,
      LastTestStep, TxBoundStep, EndStep DEF SpiCaller
  <2> QED
    BY <1>1, <2>1, <2>2, CallBackStep, BusyStep DEF Next
<1>2. CASE UNCHANGED vars
  <2>1. TypeOK'
    BY <1>2, SMT DEF vars, IInv, TypeOK
  <2>2. SelectOfAccess' /\ OwnTransferOnly' /\ CounterStands' /\ IdleMeansArrived'
    BY <1>2, SMT DEF vars, IInv, SelectOfAccess, OwnTransferOnly, CounterStands, IdleMeansArrived
  <2>3. GaveUpMeansFalse' /\ AccessTrueMeansMoved' /\ TrueMeansMoved'
    BY <1>2, SMT DEF vars, IInv, GaveUpMeansFalse, AccessTrueMeansMoved, TrueMeansMoved
  <2>4. /\ CounterGrows' /\ ArrivedWaits' /\ GivesUpWronglyOnly'
        /\ AccessMovedIsReported' /\ MovedIsReported' /\ DoneFlagComesBack'
    BY <1>2, SMT DEF vars, IInv, CounterGrows, ArrivedWaits, GivesUpWronglyOnly,
      AccessMovedIsReported, MovedIsReported, DoneFlagComesBack
  <2> QED
    BY <2>1, <2>2, <2>3, <2>4 DEF IInv
<1> QED
  BY <1>1, <1>2

LEMMA SpecIInv == Spec => []IInv
BY InitIInv, NextIInv, PTL DEF Spec

(* The counter stays in its width and no access makes a transfer too many. *)
THEOREM SpiTypeCorrect == Spec => []TypeOK
<1>1. IInv => TypeOK
  BY DEF IInv
<1> QED
  BY <1>1, SpecIInv, PTL

(* A true result means moved bytes when the access started on an idle bus, *)
(* for every length of the accesses before it and any number of late       *)
(* interrupts (spi_wait_write_wait, spi_wait_read_wait, spi_wait_tx).      *)
THEOREM TrueMeansMovedHolds == Spec => []TrueMeansMoved
<1>1. IInv => TrueMeansMoved
  BY DEF IInv
<1> QED
  BY <1>1, SpecIInv, PTL

(* Two chips on one bus do not hear each other's bytes until a wait gives  *)
(* up (sx1262_chip_select, tcan4550_chip_select).                          *)
THEOREM UnderOwnSelectHolds == Spec => []UnderOwnSelect
<1>1. IInv => UnderOwnSelect
  BY DEF IInv, OwnTransferOnly, UnderOwnSelect
<1> QED
  BY <1>1, SpecIInv, PTL

(* it_done comes back to true after every transfer, late or not, and after *)
(* every refusal but one on an idle bus, which leaves it false until the   *)
(* next transfer ends (spi_wait_write_wait, spi_wait_tx_done).             *)
THEOREM DoneFlagComesBackHolds == Spec => []DoneFlagComesBack
<1>1. IInv => DoneFlagComesBack
  BY DEF IInv
<1> QED
  BY <1>1, SpecIInv, PTL

(* Moved bytes are reported as lost only where it_cnt wrapped or the       *)
(* interrupt came between the last test of a wait and its giving up        *)
(* (spi_wait_tx).                                                          *)
THEOREM MovedIsReportedHolds == Spec => []MovedIsReported
<1>1. IInv => MovedIsReported
  BY DEF IInv
<1> QED
  BY <1>1, SpecIInv, PTL
=============================================================================
