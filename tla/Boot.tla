-------------------------------- MODULE Boot --------------------------------
(***************************************************************************)
(* From reset to reset: the bootloader, the application it launches and    *)
(* the three parameters through which they know of each other              *)
(* (boot_driver.c).  The parameters are files of flash_fs, which KvStore   *)
(* describes: a set happens or does not, it fails only when the active     *)
(* page is full, which any write may leave it, and a file that keeps its   *)
(* value is not written.                                                   *)
(***************************************************************************)
EXTENDS Integers

CONSTANTS
  APP_LAYNCH_TRY,
  PowerFails, \* power failures and resets by hand in a behaviour
  Undef       \* value of a parameter that was never set

ASSUME TryAssumption  == APP_LAYNCH_TRY \in Nat
ASSUME FailAssumption == PowerFails \in Nat
ASSUME UndefAssumption == Undef \notin Nat /\ Undef \notin {"LAUNCH_APP", "STAY_ON", "DFLT_APP_START_ADDR"}

VARIABLES
  boot_cmd, boot_cnt, app_start,  \* the parameters PAR_ID_BOOT_CMD, _BOOT_CNT, _APP_START
  full,              \* the active page has no room for a parameter
  image,             \* what is at DFLT_APP_START_ADDR
  phase,             \* where the processor is
  fine_start_event,
  fails,             \* power failures left
  launches,          \* ghost: launches by boot_try_app since "la" or a good start
  resets,            \* ghost: resets since then, no more counted than matter
  missed             \* ghost: the parameters a set of which failed since boot_cnt was last set to 0

params == <<boot_cmd, boot_cnt, app_start>>
store == <<params, full, missed>>
vars == <<store, image, phase, fine_start_event, fails, launches, resets>>

Parameter == {"boot_cmd", "boot_cnt", "app_start"}
CmdBoot == {"LAUNCH_APP", "STAY_ON"}
Image == {"none", "hangs", "good"}
Phase == {"off", "boot_init", "boot_try_app", "boot", "la_cnt", "la_addr", "reboot", "app"}

TypeOK ==
  /\ boot_cmd \in CmdBoot \cup {Undef}
  /\ boot_cnt \in 0 .. APP_LAYNCH_TRY + 1 \cup {Undef}
  /\ app_start \in {"DFLT_APP_START_ADDR", Undef}
  /\ full \in BOOLEAN /\ missed \subseteq Parameter
  /\ image \in Image
  /\ phase \in Phase
  /\ fine_start_event \in BOOLEAN
  /\ fails \in 0 .. PowerFails
  /\ launches \in 0 .. APP_LAYNCH_TRY + 2
  /\ resets \in 0 .. APP_LAYNCH_TRY + 1

Init ==
  /\ boot_cmd = Undef /\ boot_cnt = Undef /\ app_start = Undef
  /\ full = FALSE /\ missed = {}
  /\ image \in Image
  /\ phase = "off"
  /\ fine_start_event = FALSE
  /\ fails = PowerFails
  /\ launches = 0 /\ resets = 0

-----------------------------------------------------------------------------
(* mm_set of one parameter: its value afterwards, and the page. *)
Stored(old, new) == IF full THEN old ELSE new

Writes == full' \in {full, TRUE}

MmSet(param, old, new) ==
  /\ IF old = new THEN UNCHANGED full ELSE Writes
  /\ missed' = IF Stored(old, new) = new THEN missed ELSE missed \cup {param}

Set_boot_cmd(v)  == boot_cmd' = Stored(boot_cmd, v) /\ MmSet("boot_cmd", boot_cmd, v)
Set_boot_cnt(v)  == boot_cnt' = Stored(boot_cnt, v) /\ MmSet("boot_cnt", boot_cnt, v)
Set_app_start(v) == app_start' = Stored(app_start, v) /\ MmSet("app_start", app_start, v)

(* A new launch, or a good start: the count begins anew. *)
ResetCount ==
  /\ boot_cnt' = Stored(boot_cnt, 0)
  /\ IF boot_cnt = 0 THEN UNCHANGED full ELSE Writes
  /\ missed' = IF boot_cnt' = 0 THEN {} ELSE {"boot_cnt"}
  /\ launches' = 0 /\ resets' = 0

AtMost(n, max) == IF n > max THEN max ELSE n

-----------------------------------------------------------------------------
(* Reset of the processor: flash_fs_init counts it in a file of its own. *)
PowerOn ==
  /\ phase \in {"off", "reboot"}
  /\ phase' = "boot_init"
  /\ Writes
  /\ resets' = AtMost(resets + 1, APP_LAYNCH_TRY + 1)
  /\ UNCHANGED <<params, image, fine_start_event, fails, launches, missed>>

(* Mutant: one launch too many. *)
gives_up_later == boot_cnt # Undef /\ boot_cnt > APP_LAYNCH_TRY + 1

GivesUp == boot_cnt # Undef /\ boot_cnt > APP_LAYNCH_TRY

(* Mutant: a launch is not counted. *)
launch_not_counted == UNCHANGED <<boot_cnt, full, missed>>

CountLaunch == Set_boot_cnt(boot_cnt + 1)

(* "Application Hang on protection". *)
boot_init ==
  /\ phase = "boot_init"
  /\ phase' = "boot_try_app"
  /\ \/ /\ boot_cnt = Undef
        /\ Set_boot_cnt(0)
        /\ UNCHANGED <<boot_cmd, app_start>>
     \/ /\ GivesUp
        /\ Set_boot_cmd("STAY_ON")
        /\ UNCHANGED <<boot_cnt, app_start>>
     \/ /\ boot_cnt # Undef /\ ~GivesUp
        /\ CountLaunch
        /\ UNCHANGED <<boot_cmd, app_start>>
  /\ UNCHANGED <<image, fine_start_event, fails, launches, resets>>

(* boot_jump_to_code.  Without a stack in RAM at the start of the image    *)
(* the bootloader is told to stay; else the application starts with its    *)
(* own flash_fs_init.                                                      *)
JumpToCode ==
  IF image = "none"
  THEN /\ phase' = "boot"
       /\ Set_boot_cmd("STAY_ON")
       /\ UNCHANGED <<boot_cnt, app_start, fine_start_event>>
  ELSE /\ phase' = "app"
       /\ Writes
       /\ fine_start_event' = FALSE
       /\ UNCHANGED <<params, missed>>

boot_try_app ==
  /\ phase = "boot_try_app"
  /\ \/ /\ boot_cmd # "LAUNCH_APP"
        /\ phase' = "boot"
        /\ UNCHANGED <<store, fine_start_event, launches>>
     \/ /\ boot_cmd = "LAUNCH_APP" /\ app_start = Undef
        /\ phase' = "boot"
        /\ Set_app_start("DFLT_APP_START_ADDR")
        /\ UNCHANGED <<boot_cmd, boot_cnt, fine_start_event, launches>>
     \/ /\ boot_cmd = "LAUNCH_APP" /\ app_start # Undef
        /\ JumpToCode
        /\ launches' = AtMost(launches + (IF image = "none" THEN 0 ELSE 1), APP_LAYNCH_TRY + 2)
  /\ UNCHANGED <<image, fails, resets>>

-----------------------------------------------------------------------------
(* Console of the bootloader: "la" sets one parameter after another, goes  *)
(* on when one of them fails, and resets; "jm" jumps at once; the loader   *)
(* erases and writes the application.                                      *)
LaunchCommand ==
  /\ phase = "boot"
  /\ phase' = "la_cnt"
  /\ Set_boot_cmd("LAUNCH_APP")
  /\ UNCHANGED <<boot_cnt, app_start, image, fine_start_event, fails, launches, resets>>

(* Mutant: the counter is not reset. *)
launch_count_kept ==
  /\ phase = "la_cnt"
  /\ phase' = "la_addr"
  /\ launches' = 0 /\ resets' = 0
  /\ UNCHANGED <<store, image, fine_start_event, fails>>

LaunchCount ==
  /\ phase = "la_cnt"
  /\ phase' = "la_addr"
  /\ ResetCount
  /\ UNCHANGED <<boot_cmd, app_start, image, fine_start_event, fails>>

LaunchAddress ==
  /\ phase = "la_addr"
  /\ phase' = "reboot"
  /\ Set_app_start("DFLT_APP_START_ADDR")
  /\ UNCHANGED <<boot_cmd, boot_cnt, image, fine_start_event, fails, launches, resets>>

JumpCommand ==
  /\ phase = "boot"
  /\ JumpToCode
  /\ UNCHANGED <<image, fails, launches, resets>>

LoadImage ==
  /\ phase = "boot"
  /\ image' \in Image
  /\ UNCHANGED <<store, phase, fine_start_event, fails, launches, resets>>

-----------------------------------------------------------------------------
(* boot_proc: after twice the watchdog time the start is a good one. *)
boot_proc ==
  /\ phase = "app" /\ image = "good" /\ ~fine_start_event
  /\ ResetCount
  /\ fine_start_event' = TRUE
  /\ UNCHANGED <<boot_cmd, app_start, image, phase, fails>>

boot_jump_to_boot ==
  /\ phase = "app" /\ image = "good"
  /\ Set_boot_cmd("STAY_ON")
  /\ phase' = "reboot"
  /\ UNCHANGED <<boot_cnt, app_start, image, fine_start_event, fails, launches, resets>>

(* The application hangs, its tasks do not run, and the watchdog resets. *)
WatchdogReset ==
  /\ phase = "app" /\ image = "hangs"
  /\ phase' = "off"
  /\ UNCHANGED <<store, image, fine_start_event, fails, launches, resets>>

(* The flash_fs task turns a full page, wherever the tasks run. *)
Maintain ==
  /\ phase = "boot" \/ (phase = "app" /\ image = "good")
  /\ full /\ full' = FALSE
  /\ UNCHANGED <<params, missed, image, phase, fine_start_event, fails, launches, resets>>

PowerFail ==
  /\ phase # "off" /\ fails > 0
  /\ phase' = "off"
  /\ fails' = fails - 1
  /\ UNCHANGED <<store, image, fine_start_event, launches, resets>>

Next ==
  \/ PowerOn \/ boot_init \/ boot_try_app
  \/ LaunchCommand \/ LaunchCount \/ LaunchAddress \/ JumpCommand \/ LoadImage
  \/ boot_proc \/ boot_jump_to_boot \/ WatchdogReset
  \/ Maintain
  \/ PowerFail

Spec == Init /\ [][Next]_vars

(* The processor goes on and the watchdog bites; nothing is assumed of the *)
(* console.                                                                *)
FairSpec == Spec /\ WF_vars(PowerOn) /\ WF_vars(boot_init) /\ WF_vars(boot_try_app)
                 /\ WF_vars(WatchdogReset) /\ WF_vars(Maintain)
-----------------------------------------------------------------------------
(* An application that never reports a good start is launched at most      *)
(* APP_LAYNCH_TRY + 1 times (boot_init), wherever "la" or a launch is cut  *)
(* short, unless the command or the counter could not be written.          *)
LaunchesBounded == launches > APP_LAYNCH_TRY + 1 => missed \cap {"boot_cmd", "boot_cnt"} # {}

(* boot_init gives a launch up only after more than APP_LAYNCH_TRY resets  *)
(* since the counter was last to be zero ("la", a good start): power       *)
(* failures alone may use them up before any launch, but no earlier count  *)
(* is charged to a new "la", wherever its three sets are cut short and     *)
(* even if those of the command and the address fail (boot_launch_app goes *)
(* on), unless the counter itself could not be written.                    *)
StopsOnlyAfterResets ==
  [][phase = "boot_init" /\ boot_cmd = "LAUNCH_APP" /\ boot_cmd' # "LAUNCH_APP"
       => resets > APP_LAYNCH_TRY \/ "boot_cnt" \in missed]_vars

(* "Application Hang on protection" (boot_init): a hanging application is  *)
(* not launched for ever.                                                  *)
HangingAppIsStopped == phase = "app" /\ image = "hangs" ~> phase = "boot"

(* It is stopped as long as the flash page does not fill up.               *)
HangingAppIsStoppedUnlessFull ==
  phase = "app" /\ image = "hangs" ~> phase = "boot" \/ full
=============================================================================
