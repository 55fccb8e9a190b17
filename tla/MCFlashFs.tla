----------------------------- MODULE MCFlashFs -----------------------------
(* Instances of FlashFs for TLC: the reboot counter and one parameter. *)
EXTENDS FlashFs, TLC

CONSTANTS reboot_cnt, param, a, b, c

OneId  == {reboot_cnt}
TwoIds == {reboot_cnt, param}
TwoFiles   == {a, b}
ThreeFiles == {a, b, c}

(* Files of equal length are interchangeable. *)
FileSymmetry == Permutations(TwoFiles)

(* Items of four cells fill a page of 1 + 4 * n cells to its end: there is *)
(* never room for a file without its header.                               *)
EvenLen == (a :> 2) @@ (b :> 2)
(* An item of three cells can end within MIN_FILE_LEN of the end. *)
ShortLen == (a :> 2) @@ (b :> 1)
=============================================================================
