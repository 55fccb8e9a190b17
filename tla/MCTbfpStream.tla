---------------------------- MODULE MCTbfpStream ----------------------------
(* Instances of TbfpStream for TLC. *)
EXTENDS TbfpStream, TLC

(* A payload, and one that begins with the preamble and, with the CRC 0    *)
(* behind it, reads as the header of a frame.                              *)
FalseStarts == {<<1, 0>>, <<165, 0, 1, 0, 3>>}
=============================================================================
