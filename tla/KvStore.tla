------------------------------ MODULE KvStore ------------------------------
(***************************************************************************)
(* What flash_fs promises its callers: a map from identifiers to files     *)
(* that one request changes at a time and at one moment.  A request that   *)
(* reports success has taken effect, one that reports failure has not, and *)
(* power may fail at any time, with or without the effect of the request   *)
(* that was running.                                                       *)
(***************************************************************************)
CONSTANTS Ids, Files, NoFile, NoReq

VARIABLES
  kv,   \* [Ids -> Files \cup {NoFile}]
  req   \* the request being served, or the result of the last one

vars == <<kv, req>>

File == Files \cup {NoFile}
Result == [ret : {"ok", "fail"}]
Request == [id : Ids, old : File, new : File, ret : {"busy"}] \cup Result

Busy == req # NoReq /\ req.ret = "busy"

TypeOK == kv \in [Ids -> File] /\ req \in Request \cup {NoReq}

Init == kv = [i \in Ids |-> NoFile] /\ req = NoReq

Begin(i, v) ==
  /\ ~Busy
  /\ req' = [id |-> i, old |-> kv[i], new |-> v, ret |-> "busy"]
  /\ UNCHANGED kv

Applied == [kv EXCEPT ![req.id] = req.new]

TakeEffect == Busy /\ kv' = Applied /\ UNCHANGED req

Return(ok) ==
  /\ Busy
  /\ kv[req.id] = IF ok THEN req.new ELSE req.old
  /\ req' = [ret |-> IF ok THEN "ok" ELSE "fail"]
  /\ UNCHANGED kv

PowerFail ==
  /\ req' = NoReq
  /\ kv' = kv \/ (Busy /\ kv' = Applied)

Next ==
  \/ \E i \in Ids, v \in File : Begin(i, v)
  \/ TakeEffect
  \/ \E ok \in BOOLEAN : Return(ok)
  \/ PowerFail

Spec == Init /\ [][Next]_vars
=============================================================================
