------------------------------ MODULE MCSpiBus ------------------------------
(* An instance of SpiBus for TLC. *)
EXTENDS SpiBus, TLC

(* With and without a read after the write; a register access; an element  *)
(* cut short; one transfer of the console.                                 *)
FewTransfers ==
  ("sx1262" :> {1, 2}) @@ ("tcan4550_reg" :> {2}) @@ ("tcan4550_tx_buff" :> {4})
    @@ ("console" :> {1})
=============================================================================
