------------------------------ MODULE FlashFs ------------------------------
(***************************************************************************)
(* Calls of flash_fs one after another, each a sequence of flash           *)
(* operations; power may fail in the middle of any of them, and the board  *)
(* then starts over with flash_fs_init.                                    *)
(***************************************************************************)
EXTENDS FlashPages

CONSTANTS
  NoCall,
  PowerFails  \* power failures allowed in a behaviour

ASSUME PowerFailsAssumption == PowerFails \in Nat

VARIABLES
  flash,  \* [Addr -> Cell]
  todo,   \* flash operations left of the call
  call,   \* the mm_set or mm_invalidate running, or the result of the last
  failed, \* a flash operation of the call has failed
  mode,   \* "off", "init" while flash_fs_init formats, "run"
  fails   \* power failures left

vars == <<flash, todo, call, failed, mode, fails>>

Result == [ret : {"ok", "fail"}]
Call == [id : Ids, old : File, new : File, ret : {"busy"}] \cup Result
Operation == [op : {"write", "erase"}, addr : Nat, cells : Seq(Cell)]

ASSUME NoCallAssumption == NoCall \notin Call

TypeOK ==
  /\ flash \in [Addr -> Cell]
  /\ todo \in Seq(Operation)
  /\ call \in Call \cup {NoCall}
  /\ failed \in BOOLEAN
  /\ mode \in {"off", "init", "run"}
  /\ fails \in 0 .. PowerFails

(* The contents of the store as mm_get shows them. *)
view == [i \in Ids |-> mm_get(flash, i)]

Init ==
  /\ flash = [a \in Addr |-> Erased]
  /\ todo = << >> /\ call = NoCall /\ failed = FALSE /\ mode = "off"
  /\ fails = PowerFails

Busy == call # NoCall /\ call.ret = "busy"
Idle == mode = "run" /\ todo = << >> /\ ~Busy

-----------------------------------------------------------------------------
(* The call starts: it fails at once, or it has these operations to make. *)
Start(i, v, refused, operations) ==
  /\ call' = [id |-> i, old |-> view[i], new |-> v, ret |-> "busy"]
  /\ failed' = refused
  /\ todo' = IF refused THEN << >> ELSE operations
  /\ UNCHANGED <<flash, fails>>

(* Without room for the file the call fails, but a file equal to the one   *)
(* stored is never written.                                                *)
StartSet(i, v) ==
  IF view[i] = v THEN Start(i, v, FALSE, Duplicates(flash, i))
  ELSE Start(i, v, FindFails(flash, i) \/ ~HasSpace(flash, FileLen[v]), mm_set(flash, i, v))

Set(i, v) == Idle /\ StartSet(i, v) /\ UNCHANGED mode

(* A file that is not there, or not found, is not invalidated. *)
Invalidate(i) ==
  /\ Idle
  /\ view[i] # NoFile
  /\ Start(i, NoFile, ~CanZero(Last(mm_invalidate(flash, i))), mm_invalidate(flash, i))
  /\ UNCHANGED mode

(* mm_get too zeroes the duplicates it meets; without any it changes nothing. *)
Get(i) ==
  /\ Idle
  /\ ~FindFails(flash, i)
  /\ Duplicates(flash, i) # << >>
  /\ todo' = Duplicates(flash, i)
  /\ call' = NoCall /\ failed' = FALSE
  /\ UNCHANGED <<flash, mode, fails>>

(* mm_maintain, from the flash_fs task. *)
Maintain ==
  /\ Idle
  /\ mm_get_active_page(flash) # 0
  /\ ~HasSpace(flash, MIN_FILE_LEN)
  /\ todo' = mm_turn_page(flash)
  /\ call' = NoCall /\ failed' = FALSE
  /\ UNCHANGED <<flash, mode, fails>>

Return ==
  /\ Busy /\ todo = << >>
  /\ call' = [ret |-> IF failed THEN "fail" ELSE "ok"]
  /\ failed' = FALSE
  /\ UNCHANGED <<flash, todo, mode, fails>>

-----------------------------------------------------------------------------
(* The next flash operation; when it fails the call ends there. *)
FlashOperation ==
  /\ todo # << >>
  /\ LET o == Head(todo)
     IN  /\ flash' = Done(flash, o, Len(o.cells))
         /\ failed' = ~Verified(flash', o)
         /\ todo' = IF failed' THEN << >> ELSE Tail(todo)
  /\ UNCHANGED <<call, mode, fails>>

(* Power fails between two operations or in the middle of one. *)
PowerFail ==
  /\ mode # "off"
  /\ fails > 0
  /\ fails' = fails - 1
  /\ mode' = "off" /\ todo' = << >> /\ call' = NoCall /\ failed' = FALSE
  /\ IF todo = << >> THEN UNCHANGED flash
     ELSE \E n \in 0 .. Len(Head(todo).cells) - 1 : flash' = Done(flash, Head(todo), n)

(* flash_fs_init: format when no page is active, then count the reboot.    *)
PowerOn ==
  /\ mode = "off"
  /\ mode' = "init"
  /\ todo' = IF mm_get_active_page(flash) = 0 THEN mm_flash_format ELSE << >>
  /\ UNCHANGED <<flash, call, failed, fails>>

CountReboot(v) ==
  /\ mode = "init" /\ todo = << >>
  /\ v # view[RebootCnt]
  /\ StartSet(RebootCnt, v)
  /\ mode' = "run"

Next ==
  \/ \E i \in Ids, v \in Files : Set(i, v)
  \/ \E i \in Ids : Invalidate(i) \/ Get(i)
  \/ Maintain
  \/ Return
  \/ FlashOperation
  \/ PowerFail
  \/ PowerOn
  \/ \E v \in Files : CountReboot(v)

Spec == Init /\ [][Next]_vars
-----------------------------------------------------------------------------
KV == INSTANCE KvStore WITH kv <- view, req <- call, NoReq <- NoCall

(* "Operation from user point of view is atomic" (mm_set): whatever write  *)
(* fails or is cut short by a power failure, a file is the old one or the  *)
(* new one, the new one when mm_set returned true and the old one when it  *)
(* returned false, and no other file changes.                              *)
SetIsAtomic == KV!Spec

(* The room mm_set asks for (rem_space against the file alone) holds the   *)
(* header too, and a new item begins where mm_get_next still looks.  The   *)
(* code sees to neither, only the lengths can: those of fs_atomic do, the  *)
(* firmware's own items of 8, 9, 11 and 15 bytes (param_ids.c) do not.     *)
Fits ==
  mm_get_active_page(flash) # 0 =>
    \A v \in Files :
      HasSpace(flash, FileLen[v]) =>
        /\ RemSpace(flash) >= ITEM_HEADER_SZ + FileLen[v]
        /\ RemSpace(flash) > MIN_FILE_LEN

(* Once the store is formatted a page is active at every moment: a power   *)
(* failure while pages are turned never makes flash_fs_init format again.  *)
StaysFormatted ==
  [][mm_get_active_page(flash) # 0 => mm_get_active_page(flash)' # 0]_vars

(* A call writes to the active page only; the passive page, which may be   *)
(* the last whole copy of the files, changes only while pages are turned   *)
(* (mm_set, mm_invalidate).  This is so where Fits holds, and only there:  *)
(* in a room smaller than header and file mm_set writes over the end of    *)
(* the page, in page 1 onto the marker of page 2.                          *)
OnlyActivePageWritten ==
  [][Busy => \A p \in Page \ {mm_get_active_page(flash)} :
       \A a \in Base(p) .. End(p) - 1 : flash'[a] = flash[a]]_vars
=============================================================================
