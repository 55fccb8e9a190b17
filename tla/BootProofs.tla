----------------------------- MODULE BootProofs -----------------------------
(***************************************************************************)
(* The launch counter of the bootloader bounds the launches, and a new     *)
(* launch is never charged the resets before it, for every APP_LAYNCH_TRY  *)
(* and any number of resets, as long as the counter could be written (and, *)
(* for the launches, the command).                                         *)
(***************************************************************************)
EXTENDS Boot, TLAPS

(* A board never counted has done nothing yet. *)
Fresh ==
  boot_cnt = Undef =>
    /\ phase \in {"off", "boot_init"}
    /\ boot_cmd = Undef /\ launches = 0

(* boot_cnt counts no less than the launches, and one more between the     *)
(* count and the launch.                                                   *)
Counted ==
  boot_cnt # Undef =>
    /\ launches <= boot_cnt
    /\ phase = "boot_try_app" /\ boot_cmd = "LAUNCH_APP" => launches < boot_cnt

(* It counts no more than the resets, and one less between a reset and the *)
(* count; resets are counted up to APP_LAYNCH_TRY + 1 only.                *)
Excused ==
  boot_cnt # Undef =>
    /\ boot_cnt <= resets
    /\ phase = "boot_init" => boot_cnt < resets \/ resets = APP_LAYNCH_TRY + 1

(* The first and the last need the counter, the second the command too.    *)
Accounts ==
  /\ "boot_cnt" \notin missed => Fresh /\ Excused
  /\ "boot_cnt" \notin missed /\ "boot_cmd" \notin missed => Counted

IInv == TypeOK /\ Accounts

-----------------------------------------------------------------------------
LEMMA AtMostTypes ==
  ASSUME NEW n \in Nat, NEW max \in Nat
  PROVE  /\ AtMost(n, max) \in 0 .. max /\ AtMost(n, max) <= n
         /\ AtMost(n, max) = n \/ AtMost(n, max) = max
BY DEF AtMost

(* A set that was not missed has stored its value. *)
LEMMA SetStores ==
  ASSUME NEW param \in Parameter, NEW old, NEW new, MmSet(param, old, new),
         full \in BOOLEAN, missed \subseteq Parameter
  PROVE  /\ full' \in BOOLEAN /\ missed' \subseteq Parameter /\ missed \subseteq missed'
         /\ param \notin missed' => Stored(old, new) = new
         /\ Stored(old, new) \in {old, new}
BY DEF MmSet, Stored, Writes

LEMMA ResetCountStores ==
  ASSUME ResetCount, full \in BOOLEAN
  PROVE  /\ full' \in BOOLEAN /\ missed' \subseteq Parameter
         /\ boot_cnt' \in {boot_cnt, 0} /\ ("boot_cnt" \notin missed' => boot_cnt' = 0)
         /\ launches' = 0 /\ resets' = 0
BY DEF ResetCount, Stored, Writes, Parameter

LEMMA WritesTypes == ASSUME Writes, full \in BOOLEAN PROVE full' \in BOOLEAN
BY DEF Writes

(* The invariant holds of a board never started. *)
LEMMA InitInvariant == Init => IInv
<1> SUFFICES ASSUME Init PROVE IInv OBVIOUS
<1>1. TypeOK
  <2>1. full \in BOOLEAN /\ fine_start_event \in BOOLEAN
    BY Zenon DEF Init
  <2>2. /\ fails \in 0 .. PowerFails /\ launches \in 0 .. APP_LAYNCH_TRY + 2
        /\ resets \in 0 .. APP_LAYNCH_TRY + 1
    BY TryAssumption, FailAssumption DEF Init
  <2>3. /\ boot_cmd \in CmdBoot \cup {Undef} /\ app_start \in {"DFLT_APP_START_ADDR", Undef}
        /\ boot_cnt \in 0 .. APP_LAYNCH_TRY + 1 \cup {Undef}
        /\ image \in Image /\ phase \in Phase /\ missed \subseteq Parameter
    BY DEF Init, Phase
  <2> QED BY <2>1, <2>2, <2>3 DEF TypeOK
<1>2. Fresh /\ Counted /\ Excused
  <2>1. boot_cnt = Undef /\ boot_cmd = Undef /\ phase = "off" /\ launches = 0
    BY DEF Init
  <2> QED BY <2>1 DEF Fresh, Counted, Excused
<1> QED BY <1>1, <1>2 DEF IInv, Accounts

-----------------------------------------------------------------------------
LEMMA PowerOnPreserves == ASSUME IInv, PowerOn PROVE IInv'
<1> DEFINE max == APP_LAYNCH_TRY + 1
<1>1. /\ resets \in Nat /\ max \in Nat /\ resets + 1 \in Nat /\ resets <= max
  BY TryAssumption DEF IInv, TypeOK
<1>2. /\ resets' \in 0 .. max
      /\ resets' = resets + 1 \/ resets' = max
  BY <1>1, AtMostTypes DEF PowerOn
<1>3. TypeOK'
  BY <1>2, WritesTypes DEF PowerOn, IInv, TypeOK, params, Phase
<1>4. Accounts'
  BY <1>1, <1>2, TryAssumption, UndefAssumption
     DEF PowerOn, IInv, TypeOK, params, Accounts, Fresh, Counted, Excused
<1> QED BY <1>3, <1>4 DEF IInv

LEMMA BootInitPreserves == ASSUME IInv, boot_init PROVE IInv'
<1>1. CASE boot_cnt = Undef
  <2>1. /\ Set_boot_cnt(0) /\ UNCHANGED <<boot_cmd, app_start>>
    BY <1>1, UndefAssumption DEF boot_init, GivesUp
  <2>2. /\ full' \in BOOLEAN /\ missed' \subseteq Parameter /\ boot_cnt' \in {boot_cnt, 0}
        /\ missed \subseteq missed' /\ ("boot_cnt" \notin missed' => boot_cnt' = 0)
    BY <2>1, SetStores DEF Parameter, Set_boot_cnt, IInv, TypeOK
  <2>3. TypeOK'
    BY <1>1, <2>1, <2>2, TryAssumption DEF boot_init, IInv, TypeOK, Phase
  <2>4. Accounts'
    BY <1>1, <2>1, <2>2, TryAssumption, UndefAssumption
       DEF boot_init, IInv, TypeOK, Accounts, Fresh, Counted, Excused
  <2> QED BY <2>3, <2>4 DEF IInv
<1>2. CASE GivesUp
  <2>1. /\ boot_cnt # Undef /\ Set_boot_cmd("STAY_ON") /\ UNCHANGED <<boot_cnt, app_start>>
    BY <1>2 DEF boot_init, GivesUp
  <2>2. /\ full' \in BOOLEAN /\ missed' \subseteq Parameter /\ boot_cmd' \in {boot_cmd, "STAY_ON"}
        /\ missed \subseteq missed' /\ ("boot_cmd" \notin missed' => boot_cmd' = "STAY_ON")
    BY <2>1, SetStores DEF Parameter, Set_boot_cmd, IInv, TypeOK
  <2>3. TypeOK'
    BY <2>1, <2>2 DEF boot_init, IInv, TypeOK, Phase, CmdBoot
  <2>4. Accounts'
    BY <2>1, <2>2, TryAssumption, UndefAssumption
       DEF boot_init, IInv, TypeOK, Accounts, Fresh, Counted, Excused
  <2> QED BY <2>3, <2>4 DEF IInv
<1>3. CASE boot_cnt # Undef /\ ~GivesUp
  <2>1. /\ Set_boot_cnt(boot_cnt + 1) /\ UNCHANGED <<boot_cmd, app_start>>
    BY <1>3 DEF boot_init, CountLaunch
  <2>2. boot_cnt \in Nat /\ boot_cnt + 1 \in 0 .. APP_LAYNCH_TRY + 1
    BY <1>3, TryAssumption DEF GivesUp, IInv, TypeOK
  <2>3. /\ full' \in BOOLEAN /\ missed' \subseteq Parameter /\ boot_cnt' \in {boot_cnt, boot_cnt + 1}
        /\ missed \subseteq missed' /\ ("boot_cnt" \notin missed' => boot_cnt' = boot_cnt + 1)
    BY <2>1, SetStores DEF Parameter, Set_boot_cnt, IInv, TypeOK
  <2>4. TypeOK'
    BY <2>1, <2>2, <2>3, TryAssumption DEF boot_init, IInv, TypeOK, Phase
  <2>5. Accounts'
    BY <1>3, <2>1, <2>2, <2>3, TryAssumption, UndefAssumption
       DEF boot_init, IInv, TypeOK, Accounts, Fresh, Counted, Excused
  <2> QED BY <2>4, <2>5 DEF IInv
<1> QED BY <1>1, <1>2, <1>3

(* A jump to an image, from boot_try_app or from the console. *)
LEMMA JumpTypes ==
  ASSUME TypeOK, JumpToCode
  PROVE  /\ phase' \in {"boot", "app"} /\ full' \in BOOLEAN /\ missed' \subseteq Parameter
         /\ fine_start_event' \in BOOLEAN /\ missed \subseteq missed'
         /\ boot_cnt' = boot_cnt /\ app_start' = app_start
         /\ boot_cmd' \in {boot_cmd, "STAY_ON"}
<1>1. CASE image = "none"
  <2>1. Set_boot_cmd("STAY_ON") BY <1>1 DEF JumpToCode
  <2>2. /\ full' \in BOOLEAN /\ missed' \subseteq Parameter /\ boot_cmd' \in {boot_cmd, "STAY_ON"}
        /\ missed \subseteq missed'
    BY <2>1, SetStores DEF Parameter, Set_boot_cmd, TypeOK
  <2> QED BY <1>1, <2>2 DEF JumpToCode, TypeOK
<1>2. CASE image # "none"
  BY <1>2, WritesTypes DEF JumpToCode, TypeOK, params
<1> QED BY <1>1, <1>2

LEMMA TryAppPreserves == ASSUME IInv, boot_try_app PROVE IInv'
<1>1. CASE boot_cmd # "LAUNCH_APP"
  BY <1>1 DEF boot_try_app, IInv, TypeOK, Phase, store, params, Accounts, Fresh, Counted, Excused
<1>2. CASE boot_cmd = "LAUNCH_APP" /\ app_start = Undef
  <2>1. /\ Set_app_start("DFLT_APP_START_ADDR") /\ phase' = "boot"
        /\ UNCHANGED <<boot_cmd, boot_cnt, fine_start_event, launches, image, fails, resets>>
    BY <1>2 DEF boot_try_app
  <2>2. /\ full' \in BOOLEAN /\ missed' \subseteq Parameter
        /\ app_start' \in {app_start, "DFLT_APP_START_ADDR"} /\ missed \subseteq missed'
    BY <2>1, SetStores DEF Parameter, Set_app_start, IInv, TypeOK
  <2>3. TypeOK' BY <2>1, <2>2 DEF IInv, TypeOK, Phase
  <2>4. phase = "boot_try_app" BY DEF boot_try_app
  <2> QED BY <2>1, <2>2, <2>3, <2>4 DEF IInv, Accounts, Fresh, Counted, Excused
<1>3. CASE boot_cmd = "LAUNCH_APP" /\ app_start # Undef
  <2> DEFINE next == launches + (IF image = "none" THEN 0 ELSE 1)
  <2>1. /\ phase = "boot_try_app" /\ JumpToCode
        /\ launches' = AtMost(next, APP_LAYNCH_TRY + 2)
        /\ UNCHANGED <<image, fails, resets>>
    BY <1>3 DEF boot_try_app
  <2>2. /\ launches \in Nat /\ next \in Nat /\ next <= launches + 1 /\ APP_LAYNCH_TRY + 2 \in Nat
    BY TryAssumption DEF IInv, TypeOK
  <2>3. launches' \in 0 .. APP_LAYNCH_TRY + 2 /\ launches' <= launches + 1
    <3> HIDE DEF next
    <3>1. AtMost(next, APP_LAYNCH_TRY + 2) \in 0 .. APP_LAYNCH_TRY + 2
          /\ AtMost(next, APP_LAYNCH_TRY + 2) <= next
      BY <2>2, AtMostTypes
    <3> QED BY <2>1, <2>2, <3>1
  <2>4. TypeOK'
    BY <2>1, <2>3, JumpTypes DEF IInv, TypeOK, Phase, CmdBoot
  <2>5. Accounts'
    BY <1>3, <2>1, <2>2, <2>3, JumpTypes, TryAssumption, UndefAssumption
       DEF IInv, TypeOK, Accounts, Fresh, Counted, Excused
  <2> QED BY <2>4, <2>5 DEF IInv
<1> QED BY <1>1, <1>2, <1>3

(* The three sets of "la" and the one of boot_jump_to_boot. *)
LEMMA LaunchPreserves ==
  ASSUME IInv, LaunchCommand \/ LaunchAddress \/ boot_jump_to_boot
  PROVE  IInv'
<1>1. CASE LaunchCommand
  <2>1. /\ full' \in BOOLEAN /\ missed' \subseteq Parameter
        /\ boot_cmd' \in {boot_cmd, "LAUNCH_APP"} /\ missed \subseteq missed'
    BY <1>1, SetStores DEF Parameter, LaunchCommand, Set_boot_cmd, IInv, TypeOK
  <2>2. TypeOK' BY <1>1, <2>1 DEF LaunchCommand, IInv, TypeOK, Phase, CmdBoot
  <2> QED BY <1>1, <2>1, <2>2 DEF LaunchCommand, IInv, Accounts, Fresh, Counted, Excused
<1>2. CASE LaunchAddress
  <2>1. /\ full' \in BOOLEAN /\ missed' \subseteq Parameter
        /\ app_start' \in {app_start, "DFLT_APP_START_ADDR"} /\ missed \subseteq missed'
    BY <1>2, SetStores DEF Parameter, LaunchAddress, Set_app_start, IInv, TypeOK
  <2>2. TypeOK' BY <1>2, <2>1 DEF LaunchAddress, IInv, TypeOK, Phase
  <2> QED BY <1>2, <2>1, <2>2 DEF LaunchAddress, IInv, Accounts, Fresh, Counted, Excused
<1>3. CASE boot_jump_to_boot
  <2>1. /\ full' \in BOOLEAN /\ missed' \subseteq Parameter
        /\ boot_cmd' \in {boot_cmd, "STAY_ON"} /\ missed \subseteq missed'
    BY <1>3, SetStores DEF Parameter, boot_jump_to_boot, Set_boot_cmd, IInv, TypeOK
  <2>2. TypeOK' BY <1>3, <2>1 DEF boot_jump_to_boot, IInv, TypeOK, Phase, CmdBoot
  <2> QED BY <1>3, <2>1, <2>2 DEF boot_jump_to_boot, IInv, Accounts, Fresh, Counted, Excused
<1> QED BY <1>1, <1>2, <1>3

(* A new launch and a good start count from zero. *)
LEMMA ResetCountPreserves == ASSUME IInv, LaunchCount \/ boot_proc PROVE IInv'
<1>1. ResetCount /\ UNCHANGED <<boot_cmd, app_start, image, fails>>
  BY DEF LaunchCount, boot_proc
<1>2. /\ full' \in BOOLEAN /\ missed' \subseteq Parameter
      /\ boot_cnt' \in {boot_cnt, 0} /\ ("boot_cnt" \notin missed' => boot_cnt' = 0)
      /\ launches' = 0 /\ resets' = 0
  BY <1>1, ResetCountStores DEF IInv, TypeOK
<1>3. /\ phase' \in {"la_addr", "app"} /\ fine_start_event' \in BOOLEAN
  BY DEF LaunchCount, boot_proc, IInv, TypeOK
<1>4. TypeOK' BY <1>1, <1>2, <1>3, TryAssumption DEF IInv, TypeOK, Phase
<1>5. Accounts'
  BY <1>2, <1>3, UndefAssumption DEF Accounts, Fresh, Counted, Excused
<1> QED BY <1>4, <1>5 DEF IInv

(* The steps that set no parameter. *)
LEMMA OtherPreserves ==
  ASSUME IInv, LoadImage \/ WatchdogReset \/ Maintain \/ PowerFail
  PROVE  IInv'
<1>1. /\ UNCHANGED <<params, missed, launches, resets, fine_start_event>>
      /\ full' \in BOOLEAN /\ image' \in Image /\ fails' \in 0 .. PowerFails
      /\ phase' \in {phase, "off"}
  <2>1. CASE LoadImage
    BY <2>1 DEF LoadImage, store, IInv, TypeOK
  <2>2. CASE WatchdogReset
    BY <2>2 DEF WatchdogReset, store, IInv, TypeOK
  <2>3. CASE Maintain
    BY <2>3 DEF Maintain, IInv, TypeOK
  <2>4. CASE PowerFail
    BY <2>4, FailAssumption DEF PowerFail, store, IInv, TypeOK
  <2> QED BY <2>1, <2>2, <2>3, <2>4
<1>2. TypeOK' BY <1>1 DEF IInv, TypeOK, params, Phase
<1>3. Accounts'
  BY <1>1 DEF IInv, params, Accounts, Fresh, Counted, Excused
<1> QED BY <1>2, <1>3 DEF IInv

LEMMA JumpCommandPreserves == ASSUME IInv, JumpCommand PROVE IInv'
<1>1. JumpToCode /\ phase = "boot" /\ UNCHANGED <<image, fails, launches, resets>>
  BY DEF JumpCommand
<1>2. TypeOK' BY <1>1, JumpTypes DEF IInv, TypeOK, Phase, CmdBoot
<1>3. Accounts'
  BY <1>1, JumpTypes, UndefAssumption DEF IInv, Accounts, Fresh, Counted, Excused
<1> QED BY <1>2, <1>3 DEF IInv

LEMMA NextPreserves == IInv /\ [Next]_vars => IInv'
<1> SUFFICES ASSUME IInv, [Next]_vars PROVE IInv' OBVIOUS
<1>1. CASE UNCHANGED vars
  BY <1>1 DEF vars, store, params, IInv, TypeOK, Accounts, Fresh, Counted, Excused
<1>2. CASE Next
  BY <1>2, PowerOnPreserves, BootInitPreserves, TryAppPreserves, LaunchPreserves,
     ResetCountPreserves, OtherPreserves, JumpCommandPreserves DEF Next
<1> QED BY <1>1, <1>2

-----------------------------------------------------------------------------
(* The launch counter accounts for launches and resets (boot_init,         *)
(* boot_try_app, boot_launch_app, boot_proc), in every reachable state.    *)
THEOREM BootInvariant == Spec => []IInv
<1> QED BY InitInvariant, NextPreserves, PTL DEF Spec

(* Every variable of the boot model keeps its type; boot_cnt, a byte in    *)
(* the code, never exceeds APP_LAYNCH_TRY + 1.                             *)
THEOREM BootTypeCorrect == Spec => []TypeOK
<1>1. IInv => TypeOK BY DEF IInv
<1> QED BY <1>1, BootInvariant, PTL

(* A hanging application is launched at most APP_LAYNCH_TRY + 1 times,     *)
(* however launches and "la" are cut short, unless the command or the      *)
(* counter could not be written.                                           *)
THEOREM LaunchesBoundedHolds == Spec => []LaunchesBounded
<1>1. IInv => LaunchesBounded
  BY TryAssumption, UndefAssumption DEF IInv, TypeOK, Accounts, Fresh, Counted, LaunchesBounded
<1> QED BY <1>1, BootInvariant, PTL

(* boot_init gives a launch up only after more than APP_LAYNCH_TRY resets  *)
(* since the counter was last to be zero, unless it could not be written.  *)
THEOREM StopsOnlyAfterResetsHolds == Spec => StopsOnlyAfterResets
<1> DEFINE Stops == phase = "boot_init" /\ boot_cmd = "LAUNCH_APP" /\ boot_cmd' # "LAUNCH_APP"
                      => resets > APP_LAYNCH_TRY \/ "boot_cnt" \in missed
<1>1. IInv /\ [Next]_vars => [Stops]_vars
  <2> SUFFICES ASSUME IInv, Next, phase = "boot_init", boot_cmd = "LAUNCH_APP",
                      boot_cmd' # "LAUNCH_APP", "boot_cnt" \notin missed
               PROVE  resets > APP_LAYNCH_TRY
    BY DEF vars
  <2>1. boot_init
    BY DEF Next, PowerOn, boot_try_app, LaunchCommand, LaunchCount, LaunchAddress, JumpCommand,
           LoadImage, boot_proc, boot_jump_to_boot, WatchdogReset, Maintain, PowerFail,
           store, params
  <2>2. GivesUp BY <2>1 DEF boot_init
  <2> QED BY <2>2, TryAssumption DEF GivesUp, IInv, TypeOK, Accounts, Excused
<1> QED BY <1>1, BootInvariant, PTL DEF Spec, StopsOnlyAfterResets
=============================================================================
