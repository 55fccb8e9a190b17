----------------------------- MODULE MCUartPort -----------------------------
(* An instance of UartPort for TLC. *)
EXTENDS UartPort, TLC

Message(kind, bytes, check) == [kind |-> kind, body |-> bytes, check |-> check]

(* A correction with false starts of a sentence and of a UBX frame in it,  *)
(* its last byte a first sync byte; a UBX frame with false starts of a     *)
(* correction; a sentence.                                                 *)
Mixed ==
  {Message("rtcm3", <<36, 181, 98, 1, 1, 9, 0>>, 181), Message("ubx", <<211, 0>>, 211),
   Message("nmea", <<65>>, 48)}

OneOfEachOrTwoSwitches == {<<1, 1>>, <<0, 2>>}
=============================================================================
