----------------------------- MODULE MCTbfpLink -----------------------------
(* Instances of TbfpLink for TLC: a base that sends and a rover. *)
EXTENDS TbfpLink, TLC

CONSTANTS base, rover

TwoBoards == {base, rover}

Nobody   == {}
TheBase  == {base}

OneWay(n) == (base :> n) @@ (rover :> 0)
Orders(n, k, commands) == [chunks |-> OneWay(n), orders |-> k, console |-> commands]

ThreeChunks  == {Orders(3, 0, {})}
ChunkAndPing == {Orders(1, 1, {"ping"})}

(* Both boards send; or both users type. *)
Crossing ==
  {[chunks |-> (base :> 2) @@ (rover :> 1), orders |-> 0, console |-> {}],
   Orders(0, 2, {"ping", "chat", "chat_ack", "mute"})}

(* Loads that must come to an end: a queue and a ping, a queue whose       *)
(* transmitter is muted for a while, a chat line that is relayed.          *)
Ending ==
  {Orders(2, 1, {"ping"}), Orders(1, 2, {"mute"}), Orders(0, 1, {"relay"})}
=============================================================================
