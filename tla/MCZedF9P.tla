------------------------------ MODULE MCZedF9P ------------------------------
(* Instances of ZedF9P for TLC. *)
EXTENDS ZedF9P

Norm  == <<"baud">>
Base  == <<"baud", "tmode3">>
Rover == <<"nmea">>
Rates == <<"rate">>
Settings == {"dyn"}
Keys  == {"baud", "tmode3", "nmea", "rate", "dyn"}

Env(prompt, losses, polls, orders) ==
  [prompt |-> prompt, losses |-> losses, polls |-> polls, orders |-> orders]

(* Answers in time: losses; two polls, the second acknowledged, and a      *)
(* loss; a command inside a set-up, a poll and a loss; two commands.  Late *)
(* answers: a loss and polls; a command.                                   *)
Surroundings ==
  {Env(TRUE, 2, 0, 0), Env(TRUE, 1, 2, 0), Env(TRUE, 1, 1, 1),
   Env(TRUE, 0, 0, 2), Env(FALSE, 1, 2, 0), Env(FALSE, 0, 0, 1)}
=============================================================================
