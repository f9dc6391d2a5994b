---------------------------- MODULE RadioSwitch ----------------------------
(***************************************************************************)
(* How the application core of the Thingy53 shares its one network core    *)
(* between the Bluetooth controller and the satellite stack.               *)
(*                                                                         *)
(* Actors: the thread of main() (app/src/main.c), the shell threads        *)
(* (app/src/shell.c), the system work queue that runs the button, beacon   *)
(* and provisioning work items (app/src/button.c, app/src/ble.c), the two  *)
(* kernel timers, the remote companion, and the network core, which picks  *)
(* its stack from the shared mark when it boots (app/cpunet/src/main.c).   *)
(*                                                                         *)
(* The content of the request/acknowledgement link to the satellite stack  *)
(* is the matter of another module: here a request succeeds or fails.      *)
(*                                                                         *)
(* A definition X_Fault beside a definition X is a faulty variant of X that*)
(* no behaviour uses: with it in the place of X some property fails, which *)
(* shows that the property says something about X.                         *)
(***************************************************************************)
EXTENDS Naturals, FiniteSets

CONSTANTS
  Shells,   \* the shell threads, each of which may call bluetooth and key
  Faults    \* the calls that may fail

(* The calls into the SDKs and the kernel whose failure the code handles.  *)
FaultKinds ==
  {"bt_enable", "ble_init", "hubble_init", "advert", "cpunet", "ipc_open",
   "ipc_send", "ipc_deregister", "ipc_close"}

ASSUME ShellsAssumption == Shells \cap {"main", "workq", "free"} = {}
ASSUME FaultsAssumption == Faults \subseteq FaultKinds

(* The threads that act for the user, and all of them.                     *)
Users == Shells \cup {"workq"}
Threads == Users \cup {"main"}

-----------------------------------------------------------------------------
(* Labels: where a thread stands, named for what it does next.             *)

EnableSection  == {"en_bt", "en_wait", "en_adv", "en_beacon"}
DisableSection == {"dis_stop", "dis_timer", "dis_bt"}
WorkLabels     == {"bw_stop", "bw_arm", "bw_beacon"}
UserLabels     == {"idle", "en_lock", "dis_lock"} \cup EnableSection
                    \cup DisableSection \cup WorkLabels

BootLabels  == {"boot", "boot_bt", "boot_wait", "boot_adv"}
Powered     == {"sat_open", "sat_bind", "sat_init", "sat_tx", "sat_stop"}
Bound       == {"sat_init", "sat_tx"}
SatSection  == Powered \cup {"sat_mark", "sat_unlock"}
MainLabels  == BootLabels \cup SatSection
                 \cup {"wait_init", "wait_key", "sched", "wait_timer",
                       "sat_lock", "sat_done", "exit", "en_lock", "dis_lock"}
                 \cup EnableSection \cup DisableSection

(* The labels at which a thread owns radio_mutex.                          *)
Critical == EnableSection \cup DisableSection \cup SatSection

LapseKinds == {"boot", "gap", "mark", "leak", "rearm"}

VARIABLES
  pc,            \* where each thread stands
  radio_mutex,   \* the thread that owns the mutex, or "free"
  mark,          \* HUBBLE_SAT_MARK: 1 Bluetooth, 0 satellite
  net,           \* the network core: off, booting, or the stack it runs
  bt,            \* the Bluetooth host: off, inside bt_enable, or ready
  adv,           \* the advertiser: none, connectable or beacon
  conn,          \* the companion is connected
  utc,           \* utc_time # 0
  off_by_user,   \* ble_off_by_user
  init_sem, key_sem, timer_sem, bound_sem,   \* semaphores of limit 1
  ept,           \* the application's endpoint: none, registered or bound
  sat_timer,     \* sat_timer is running
  ble_timer,     \* ble_timer is running
  work,          \* items submitted to the system work queue
  lapses         \* history: the unsynchronised windows met so far

radioVars == <<net, bt, adv, conn>>
semVars   == <<init_sem, key_sem, timer_sem, bound_sem>>
timerVars == <<sat_timer, ble_timer>>
vars == <<pc, radio_mutex, mark, radioVars, utc, off_by_user, semVars, ept,
          timerVars, work, lapses>>

-----------------------------------------------------------------------------
(* Helpers: the kernel services and the SDK calls the code uses.           *)

Goto(t, label) == pc' = [pc EXCEPT ![t] = label]

Lock(t) == radio_mutex = "free" /\ radio_mutex' = t
Unlock(t) == radio_mutex' = "free"

(* k_sem_give on a semaphore of limit 1.                                   *)
SemGive_Unbounded(s) == s + 1
SemGive(s) == 1

(* nrf53_cpunet_enable(true): a core that runs already is not restarted.   *)
PowerOn == net' = IF net = "off" THEN "boot" ELSE net

SetMark(v) == mark' = v

(* Where ble_enable and ble_disable return to.                             *)
AfterEnable(t) == IF t = "main" THEN "wait_timer" ELSE "idle"
AfterDisable(t) == IF t = "main" THEN "sat_lock" ELSE "idle"

(* _disconnected_cb: the wait in main() ends once the time is known, until *)
(* then the connectable advertiser is started again.                       *)
OnDisconnected ==
  \/ /\ utc
     /\ init_sem' = SemGive(init_sem)
     /\ UNCHANGED work
  \/ /\ ~utc
     /\ work' = work \cup {"prov"}
     /\ UNCHANGED init_sem

(* bt_le_adv_start: one advertiser at a time, and only on a ready host.    *)
AdvStart(kind, mayFail) ==
  \/ adv' = IF bt = "on" /\ adv = "none" THEN kind ELSE adv
  \/ mayFail /\ UNCHANGED adv

(* Which unsynchronised window a user's ble_enable falls into: main() is   *)
(* still booting, is between its ble_disable and its own k_mutex_lock, or  *)
(* has unlocked the mutex and not yet restored the mark.                   *)
WindowOf(label) ==
  CASE label \in BootLabels -> {"boot"}
    [] label = "sat_lock"   -> {"gap"}
    [] label = "sat_done"   -> {"mark"}
    [] OTHER                -> {}

-----------------------------------------------------------------------------
(* The initial state: every boot finds the mark as it was left.            *)

Init ==
  /\ pc = [t \in Threads |-> IF t = "main" THEN "boot" ELSE "idle"]
  /\ radio_mutex = "free"
  /\ mark \in {0, 1}
  /\ net = "off" /\ bt = "off" /\ adv = "none" /\ conn = FALSE
  /\ utc = FALSE /\ off_by_user = FALSE
  /\ init_sem = 0 /\ key_sem = 0 /\ timer_sem = 0 /\ bound_sem = 0
  /\ ept = "none"
  /\ sat_timer = FALSE /\ ble_timer = FALSE
  /\ work = {} /\ lapses = {}

-----------------------------------------------------------------------------
(* main(): from reset to the radio loop.                                   *)

(* The key is read from flash or taken from the build, then the mark is    *)
(* written: whichever stack the mark named before, the network core is now *)
(* to boot the Bluetooth controller.                                       *)
BootStart ==
  /\ pc["main"] = "boot"
  /\ Goto("main", "boot_bt")
  /\ key_sem' \in {key_sem, SemGive(key_sem)}
  /\ SetMark(1)
  /\ UNCHANGED <<radio_mutex, radioVars, utc, off_by_user, init_sem,
                 timer_sem, bound_sem, ept, timerVars, work, lapses>>

(* bt_enable of main() holds no mutex and takes -EALREADY for a failure.   *)
BootBt_NoWait ==
  /\ pc["main"] = "boot_bt"
  /\ Goto("main", "boot_adv")
  /\ bt' = "starting" /\ PowerOn
  /\ UNCHANGED <<radio_mutex, mark, adv, conn, utc, off_by_user, semVars,
                 ept, timerVars, work, lapses>>

BootBt ==
  /\ pc["main"] = "boot_bt"
  /\ \/ /\ bt = "off"
        /\ bt' = "starting" /\ PowerOn
        /\ Goto("main", "boot_wait")
     \/ /\ bt # "off"
        /\ Goto("main", "exit")
        /\ UNCHANGED <<bt, net>>
  /\ UNCHANGED <<radio_mutex, mark, adv, conn, utc, off_by_user, semVars,
                 ept, timerVars, work, lapses>>

(* bt_enable returns: the controller answers, or it fails. A failure may   *)
(* leave the network core powered.                                         *)
BtReady(t) ==
  /\ pc[t] \in {"boot_wait", "en_wait"}
  /\ net = "ble"
  /\ bt' = "on"
  /\ Goto(t, IF pc[t] = "boot_wait" THEN "boot_adv" ELSE "en_adv")
  /\ UNCHANGED <<radio_mutex, mark, net, adv, conn, utc, off_by_user, semVars,
                 ept, timerVars, work, lapses>>

BtFailed(t) ==
  /\ pc[t] \in {"boot_wait", "en_wait"}
  /\ "bt_enable" \in Faults \/ net \in {"sat", "dead"}
  /\ bt' = "off"
  /\ net' \in {net, "off"}
  /\ lapses' = IF net' = "off" THEN lapses ELSE lapses \cup {"leak"}
  /\ \/ /\ pc[t] = "boot_wait"
        /\ Goto(t, "exit")
        /\ UNCHANGED radio_mutex
     \/ /\ pc[t] = "en_wait"
        /\ Goto(t, AfterEnable(t))
        /\ Unlock(t)
  /\ UNCHANGED <<mark, adv, conn, utc, off_by_user, semVars, ept, timerVars,
                 work>>

(* bt_disable: takes effect on a ready host only, drops the connection and *)
(* the advertiser, and switches the network core off.                      *)
BtDisable ==
  IF bt = "on"
    THEN /\ bt' = "off" /\ net' = "off" /\ adv' = "none" /\ conn' = FALSE
         /\ IF conn THEN OnDisconnected ELSE UNCHANGED <<init_sem, work>>
    ELSE UNCHANGED <<radioVars, init_sem, work>>

(* ble_init of main(): a failure ends the program through bt_disable.      *)
BootAdv ==
  /\ pc["main"] = "boot_adv"
  /\ \/ /\ bt = "on" /\ adv = "none"
        /\ adv' = "conn"
        /\ Goto("main", "wait_init")
        /\ UNCHANGED <<bt, net, conn, init_sem, work>>
     \/ /\ bt # "on" \/ adv # "none" \/ "ble_init" \in Faults
        /\ BtDisable
        /\ Goto("main", "exit")
  /\ UNCHANGED <<radio_mutex, mark, utc, off_by_user, key_sem, timer_sem,
                 bound_sem, ept, timerVars, lapses>>

(* The two waits of main(): for the time, then for the key.                *)
WaitInit ==
  /\ pc["main"] = "wait_init"
  /\ init_sem = 1
  /\ init_sem' = 0
  /\ Goto("main", "wait_key")
  /\ UNCHANGED <<radio_mutex, mark, radioVars, utc, off_by_user, key_sem,
                 timer_sem, bound_sem, ept, timerVars, work, lapses>>

WaitKey ==
  /\ pc["main"] = "wait_key"
  /\ key_sem = 1
  /\ key_sem' = 0
  /\ \/ Goto("main", "sched")
     \/ "hubble_init" \in Faults /\ Goto("main", "exit")
  /\ UNCHANGED <<radio_mutex, mark, radioVars, utc, off_by_user, init_sem,
                 timer_sem, bound_sem, ept, timerVars, work, lapses>>

-----------------------------------------------------------------------------
(* The radio loop of main().                                               *)

(* sat_schedule_next_transmission: arms sat_timer, or finds no pass.       *)
Sched ==
  /\ pc["main"] = "sched"
  /\ sat_timer' \in {sat_timer, TRUE}
  /\ Goto("main", "en_lock")
  /\ UNCHANGED <<radio_mutex, mark, radioVars, utc, off_by_user, semVars, ept,
                 ble_timer, work, lapses>>

WaitTimer_KeepsToken ==
  /\ pc["main"] = "wait_timer"
  /\ timer_sem = 1
  /\ Goto("main", "dis_lock")
  /\ UNCHANGED <<radio_mutex, mark, radioVars, utc, off_by_user, semVars, ept,
                 timerVars, work, lapses>>

WaitTimer ==
  /\ pc["main"] = "wait_timer"
  /\ timer_sem = 1
  /\ timer_sem' = 0
  /\ Goto("main", "dis_lock")
  /\ UNCHANGED <<radio_mutex, mark, radioVars, utc, off_by_user, init_sem,
                 key_sem, bound_sem, ept, timerVars, work, lapses>>

SatLock_NoMutex ==
  /\ pc["main"] = "sat_lock"
  /\ Goto("main", "sat_mark")
  /\ UNCHANGED <<radio_mutex, mark, radioVars, utc, off_by_user, semVars, ept,
                 timerVars, work, lapses>>

SatLock ==
  /\ pc["main"] = "sat_lock"
  /\ Lock("main")
  /\ Goto("main", "sat_mark")
  /\ UNCHANGED <<mark, radioVars, utc, off_by_user, semVars, ept, timerVars,
                 work, lapses>>

(* _sat_enable: the mark first, then the power. (The variant powers the    *)
(* core first: it may boot before the mark is written.)                    *)
SatMark_PowerFirst ==
  /\ pc["main"] = "sat_mark"
  /\ \/ /\ net = "off"
        /\ PowerOn
        /\ UNCHANGED <<pc, mark>>
     \/ /\ net # "off"
        /\ SetMark(0)
        /\ Goto("main", "sat_open")
        /\ UNCHANGED net
  /\ UNCHANGED <<radio_mutex, bt, adv, conn, utc, off_by_user, semVars,
                 ept, timerVars, work, lapses>>

SatMark ==
  /\ pc["main"] = "sat_mark"
  /\ SetMark(0)
  /\ PowerOn
  /\ Goto("main", "sat_open")
  /\ UNCHANGED <<radio_mutex, bt, adv, conn, utc, off_by_user, semVars, ept,
                 timerVars, work, lapses>>

(* The instance is opened and the endpoint registered, or _sat_enable      *)
(* returns an error to the cleanup label of main().                        *)
SatOpen ==
  /\ pc["main"] = "sat_open"
  /\ \/ /\ ept = "none"
        /\ ept' = "registered"
        /\ Goto("main", "sat_bind")
     \/ /\ ept # "none" \/ "ipc_open" \in Faults
        /\ Goto("main", "sat_stop")
        /\ UNCHANGED ept
  /\ UNCHANGED <<radio_mutex, mark, radioVars, utc, off_by_user, semVars,
                 timerVars, work, lapses>>

(* k_sem_take(&bound_sem, K_FOREVER), with radio_mutex held.               *)
SatBind ==
  /\ pc["main"] = "sat_bind"
  /\ bound_sem = 1
  /\ bound_sem' = 0
  /\ Goto("main", "sat_init")
  /\ UNCHANGED <<radio_mutex, mark, radioVars, utc, off_by_user, init_sem,
                 key_sem, timer_sem, ept, timerVars, work, lapses>>

(* ipc_send(SAT_CMD_INIT), answered or timed out.                          *)
SatInit ==
  /\ pc["main"] = "sat_init"
  /\ \/ Goto("main", "sat_tx")
     \/ "ipc_send" \in Faults /\ Goto("main", "sat_stop")
  /\ UNCHANGED <<radio_mutex, mark, radioVars, utc, off_by_user, semVars, ept,
                 timerVars, work, lapses>>

(* sat_transmit: whatever it returns, the cleanup follows.                 *)
SatTx ==
  /\ pc["main"] = "sat_tx"
  /\ Goto("main", "sat_stop")
  /\ UNCHANGED <<radio_mutex, mark, radioVars, utc, off_by_user, semVars, ept,
                 timerVars, work, lapses>>

(* _sat_disable: deregister, close, power off; each failure skips the rest.*)
SatStop ==
  /\ pc["main"] = "sat_stop"
  /\ Goto("main", "sat_unlock")
  /\ \/ /\ ept # "none"
        /\ ept' = "none" /\ net' = "off"
     \/ /\ ept = "none" \/ "ipc_deregister" \in Faults
        /\ UNCHANGED <<ept, net>>
     \/ /\ ept # "none" /\ "ipc_close" \in Faults
        /\ ept' = "none" /\ UNCHANGED net
  /\ lapses' = IF net' = "off" THEN lapses ELSE lapses \cup {"leak"}
  /\ UNCHANGED <<radio_mutex, mark, bt, adv, conn, utc, off_by_user, semVars,
                 timerVars, work>>

SatUnlock_Forgotten ==
  /\ pc["main"] = "sat_unlock"
  /\ Goto("main", "sat_done")
  /\ UNCHANGED <<radio_mutex, mark, radioVars, utc, off_by_user, semVars, ept,
                 timerVars, work, lapses>>

SatUnlock ==
  /\ pc["main"] = "sat_unlock"
  /\ Unlock("main")
  /\ Goto("main", "sat_done")
  /\ UNCHANGED <<mark, radioVars, utc, off_by_user, semVars, ept, timerVars,
                 work, lapses>>

(* The mark is restored after the mutex was released.                      *)
SatDone_MarkKept ==
  /\ pc["main"] = "sat_done"
  /\ Goto("main", "sched")
  /\ UNCHANGED <<radio_mutex, mark, radioVars, utc, off_by_user, semVars, ept,
                 timerVars, work, lapses>>

SatDone ==
  /\ pc["main"] = "sat_done"
  /\ SetMark(1)
  /\ Goto("main", "sched")
  /\ UNCHANGED <<radio_mutex, radioVars, utc, off_by_user, semVars, ept,
                 timerVars, work, lapses>>

-----------------------------------------------------------------------------
(* ble_enable and ble_disable, by main() and by the users' threads. main() *)
(* passes user_requested = false, every other caller true.                 *)

(* A window counts once, when the user's request gets the mutex.           *)
NoteLapse(t) ==
  lapses' = IF t = "main" THEN lapses
                          ELSE lapses \cup WindowOf(pc["main"])

(* ble_enable(false) leaves Bluetooth off when the user switched it off.   *)
LeftOffByUser_Ignored(t) == FALSE
LeftOffByUser(t) == t = "main" /\ off_by_user

EnLock(t) ==
  /\ pc[t] = "en_lock"
  /\ radio_mutex = "free"
  /\ \/ /\ LeftOffByUser(t)
        /\ Goto(t, AfterEnable(t))
        /\ UNCHANGED radio_mutex
     \/ /\ ~LeftOffByUser(t)
        /\ Lock(t)
        /\ Goto(t, "en_bt")
  /\ off_by_user' = (t = "main" /\ off_by_user)
  /\ NoteLapse(t)
  /\ UNCHANGED <<mark, radioVars, utc, semVars, ept, timerVars, work>>

(* bt_enable: -EALREADY is taken for success, even when another bt_enable  *)
(* is still under way.                                                     *)
EnBt(t) ==
  /\ pc[t] = "en_bt"
  /\ \/ /\ bt = "off"
        /\ bt' = "starting" /\ PowerOn
        /\ Goto(t, "en_wait")
     \/ /\ bt # "off"
        /\ Goto(t, "en_adv")
        /\ UNCHANGED <<bt, net>>
  /\ UNCHANGED <<radio_mutex, mark, adv, conn, utc, off_by_user, semVars,
                 ept, timerVars, work, lapses>>

(* Without the time, advertise for the companion. With it, arm the refresh *)
(* timer: the first half of ble_adv_start.                                 *)
ArmRefresh_Forgotten == UNCHANGED ble_timer
ArmRefresh == ble_timer' = TRUE

EnAdv(t) ==
  /\ pc[t] = "en_adv"
  /\ \/ /\ ~utc
        /\ AdvStart("conn", "ble_init" \in Faults)
        /\ Unlock(t)
        /\ Goto(t, AfterEnable(t))
        /\ UNCHANGED ble_timer
     \/ /\ utc
        /\ ArmRefresh
        /\ Goto(t, "en_beacon")
        /\ UNCHANGED <<radio_mutex, adv>>
  /\ UNCHANGED <<mark, net, bt, conn, utc, off_by_user, semVars, ept,
                 sat_timer, work, lapses>>

EnBeacon(t) ==
  /\ pc[t] = "en_beacon"
  /\ AdvStart("beacon", "advert" \in Faults)
  /\ Unlock(t)
  /\ Goto(t, AfterEnable(t))
  /\ UNCHANGED <<mark, net, bt, conn, utc, off_by_user, semVars, ept,
                 timerVars, work, lapses>>

DisLock(t) ==
  /\ pc[t] = "dis_lock"
  /\ Lock(t)
  /\ Goto(t, "dis_stop")
  /\ off_by_user' = (t # "main" \/ off_by_user)
  /\ lapses' = IF t # "main" /\ pc["main"] \in BootLabels
                 THEN lapses \cup {"boot"} ELSE lapses
  /\ UNCHANGED <<mark, radioVars, utc, semVars, ept, timerVars, work>>

(* ble_adv_stop in its two halves, then bt_disable.                        *)
DisStop(t) ==
  /\ pc[t] = "dis_stop"
  /\ adv' = "none"
  /\ Goto(t, "dis_timer")
  /\ UNCHANGED <<radio_mutex, mark, net, bt, conn, utc, off_by_user, semVars,
                 ept, timerVars, work, lapses>>

DisTimer(t) ==
  /\ pc[t] = "dis_timer"
  /\ ble_timer' = FALSE
  /\ Goto(t, "dis_bt")
  /\ UNCHANGED <<radio_mutex, mark, radioVars, utc, off_by_user, semVars, ept,
                 sat_timer, work, lapses>>

DisBt(t) ==
  /\ pc[t] = "dis_bt"
  /\ BtDisable
  /\ Unlock(t)
  /\ Goto(t, AfterDisable(t))
  /\ UNCHANGED <<mark, utc, off_by_user, key_sem, timer_sem, bound_sem, ept,
                 timerVars, lapses>>

-----------------------------------------------------------------------------
(* The system work queue: one thread, one item at a time.                  *)

(* The button's item reads bt_is_ready before it waits for the mutex; the  *)
(* beacon's item takes no mutex at all; the provisioning item is ble_init. *)
TakeButton ==
  /\ pc["workq"] = "idle" /\ "button" \in work
  /\ work' = work \ {"button"}
  /\ Goto("workq", IF bt = "on" THEN "dis_lock" ELSE "en_lock")
  /\ UNCHANGED <<radio_mutex, mark, radioVars, utc, off_by_user, semVars, ept,
                 timerVars, lapses>>

TakeBeacon ==
  /\ pc["workq"] = "idle" /\ "ble" \in work
  /\ work' = work \ {"ble"}
  /\ adv' = "none"
  /\ Goto("workq", "bw_stop")
  /\ UNCHANGED <<radio_mutex, mark, net, bt, conn, utc, off_by_user, semVars,
                 ept, timerVars, lapses>>

TakeProvisioning ==
  /\ pc["workq"] = "idle" /\ "prov" \in work
  /\ work' = work \ {"prov"}
  /\ AdvStart("conn", "ble_init" \in Faults)
  /\ UNCHANGED <<pc, radio_mutex, mark, net, bt, conn, utc, off_by_user,
                 semVars, ept, timerVars, lapses>>

(* The beacon's item goes on: the timer stopped, armed again, the beacon   *)
(* started.                                                                *)
WorkStop ==
  /\ pc["workq"] = "bw_stop"
  /\ ble_timer' = FALSE
  /\ Goto("workq", "bw_arm")
  /\ UNCHANGED <<radio_mutex, mark, radioVars, utc, off_by_user, semVars, ept,
                 sat_timer, work, lapses>>

WorkArm ==
  /\ pc["workq"] = "bw_arm"
  /\ ArmRefresh
  /\ Goto("workq", "bw_beacon")
  /\ UNCHANGED <<radio_mutex, mark, radioVars, utc, off_by_user, semVars, ept,
                 sat_timer, work, lapses>>

WorkBeacon ==
  /\ pc["workq"] = "bw_beacon"
  /\ AdvStart("beacon", "advert" \in Faults)
  /\ Goto("workq", "idle")
  /\ UNCHANGED <<radio_mutex, mark, net, bt, conn, utc, off_by_user, semVars,
                 ept, timerVars, work, lapses>>

-----------------------------------------------------------------------------
(* Interrupts and timers.                                                  *)

ButtonPress ==
  /\ work' = work \cup {"button"}
  /\ UNCHANGED <<pc, radio_mutex, mark, radioVars, utc, off_by_user, semVars,
                 ept, timerVars, lapses>>

BleTimerFire ==
  /\ ble_timer
  /\ ble_timer' = FALSE
  /\ work' = work \cup {"ble"}
  /\ UNCHANGED <<pc, radio_mutex, mark, radioVars, utc, off_by_user, semVars,
                 ept, sat_timer, lapses>>

SatTimerFire ==
  /\ sat_timer
  /\ sat_timer' = FALSE
  /\ timer_sem' = SemGive(timer_sem)
  /\ UNCHANGED <<pc, radio_mutex, mark, radioVars, utc, off_by_user, init_sem,
                 key_sem, bound_sem, ept, ble_timer, work, lapses>>

-----------------------------------------------------------------------------
(* The shell and the companion.                                            *)

ShellBluetooth(t) ==
  /\ pc[t] = "idle"
  /\ Goto(t, "en_lock") \/ Goto(t, "dis_lock")
  /\ UNCHANGED <<radio_mutex, mark, radioVars, utc, off_by_user, semVars, ept,
                 timerVars, work, lapses>>

(* key: a well-formed key gives key_sem.                                   *)
ShellKey(t) ==
  /\ pc[t] = "idle"
  /\ key_sem' = SemGive(key_sem)
  /\ UNCHANGED <<pc, radio_mutex, mark, radioVars, utc, off_by_user, init_sem,
                 timer_sem, bound_sem, ept, timerVars, work, lapses>>

(* The companion connects: the connectable advertiser ends, and            *)
(* _connected_cb stops the refresh timer. A beacon between its arming and  *)
(* its start is left without its timer: the lapse "rearm".                 *)
Connected ==
  /\ adv = "conn" /\ ~conn
  /\ adv' = "none" /\ conn' = TRUE
  /\ ble_timer' = FALSE
  /\ lapses' = IF \E t \in Threads : pc[t] \in {"en_beacon", "bw_beacon"}
                 THEN lapses \cup {"rearm"} ELSE lapses
  /\ UNCHANGED <<pc, radio_mutex, mark, net, bt, utc, off_by_user, semVars,
                 ept, sat_timer, work>>

(* SETUTC with a time: the command with the time 0 is left out.            *)
WriteUtc ==
  /\ conn
  /\ utc' = TRUE
  /\ UNCHANGED <<pc, radio_mutex, mark, radioVars, off_by_user, semVars, ept,
                 timerVars, work, lapses>>

Disconnected ==
  /\ conn
  /\ conn' = FALSE
  /\ OnDisconnected
  /\ UNCHANGED <<pc, radio_mutex, mark, net, bt, adv, utc, off_by_user,
                 key_sem, timer_sem, bound_sem, ept, timerVars, lapses>>

-----------------------------------------------------------------------------
(* The network core.                                                       *)

(* main() of the network core reads the mark and starts that stack.        *)
NetBoot_MarkInverted ==
  /\ net = "boot"
  /\ net' = IF mark = 0 THEN "ble" ELSE "sat"
  /\ UNCHANGED <<pc, radio_mutex, mark, bt, adv, conn, utc, off_by_user,
                 semVars, ept, timerVars, work, lapses>>

NetBoot ==
  /\ net = "boot"
  /\ \/ net' = IF mark = 0 THEN "sat" ELSE "ble"
     \/ "cpunet" \in Faults /\ net' = "dead"
  /\ UNCHANGED <<pc, radio_mutex, mark, bt, adv, conn, utc, off_by_user,
                 semVars, ept, timerVars, work, lapses>>

(* The satellite stack binds its end of the link: _ep_bound.               *)
NetBind ==
  /\ net = "sat" /\ ept = "registered"
  /\ ept' = "bound"
  /\ bound_sem' = SemGive(bound_sem)
  /\ UNCHANGED <<pc, radio_mutex, mark, radioVars, utc, off_by_user, init_sem,
                 key_sem, timer_sem, timerVars, work, lapses>>

-----------------------------------------------------------------------------
(* The specification.                                                      *)

Boot == BootStart \/ BootBt \/ BootAdv \/ WaitInit \/ WaitKey
Loop == Sched \/ WaitTimer
Satellite == \/ SatLock \/ SatMark \/ SatOpen \/ SatBind \/ SatInit
             \/ SatTx \/ SatStop \/ SatUnlock \/ SatDone
BtCall(t) == BtReady(t) \/ BtFailed(t)
Enable(t) == EnLock(t) \/ EnBt(t) \/ EnAdv(t) \/ EnBeacon(t)
Disable(t) == DisLock(t) \/ DisStop(t) \/ DisTimer(t) \/ DisBt(t)
WorkQueue == \/ TakeButton \/ TakeBeacon \/ TakeProvisioning
             \/ WorkStop \/ WorkArm \/ WorkBeacon
Timer == BleTimerFire \/ SatTimerFire
Shell(t) == ShellBluetooth(t) \/ ShellKey(t)
Companion == Connected \/ WriteUtc \/ Disconnected
Network == NetBoot \/ NetBind

Next ==
  \/ Boot \/ Loop \/ Satellite
  \/ \E t \in Threads : BtCall(t) \/ Enable(t) \/ Disable(t)
  \/ WorkQueue \/ Timer \/ ButtonPress
  \/ \E t \in Shells : Shell(t)
  \/ Companion \/ Network

Spec == Init /\ [][Next]_vars

(* One thread's own steps.                                                 *)
ThreadStep(t) ==
  \/ BtCall(t) \/ Enable(t) \/ Disable(t)
  \/ t = "main" /\ (Boot \/ Loop \/ Satellite)
  \/ t = "workq" /\ WorkQueue

(* A thread that can run does, and one that waits for the mutex gets it:   *)
(* the kernel hands a mutex to its waiters in the order of their priority  *)
(* and arrival, hence strong fairness. A powered core boots and binds.     *)
(* Nothing makes a user press the button, type a command or connect.       *)
FairSpec ==
  /\ Spec
  /\ \A t \in Threads : SF_vars(ThreadStep(t))
  /\ WF_vars(NetBoot) /\ WF_vars(NetBind)

-----------------------------------------------------------------------------
(* Safety.                                                                 *)

(* The types of the flags and of the running timers, apart.                *)
FlagsOK ==
  /\ conn \in BOOLEAN /\ utc \in BOOLEAN /\ off_by_user \in BOOLEAN
  /\ sat_timer \in BOOLEAN /\ ble_timer \in BOOLEAN

(* Every variable has its type. The four semaphores are defined with the   *)
(* limit 1 (app/src/main.c:35-39), and no give takes one above it.         *)
TypeOK ==
  /\ pc \in [Threads -> MainLabels \cup UserLabels]
  /\ pc["main"] \in MainLabels
  /\ \A t \in Users : pc[t] \in UserLabels
  /\ \A t \in Shells : pc[t] \notin WorkLabels
  /\ radio_mutex \in Threads \cup {"free"}
  /\ mark \in {0, 1}
  /\ net \in {"off", "boot", "ble", "sat", "dead"}
  /\ bt \in {"off", "starting", "on"}
  /\ adv \in {"none", "conn", "beacon"}
  /\ init_sem \in {0, 1} /\ key_sem \in {0, 1}
  /\ timer_sem \in {0, 1} /\ bound_sem \in {0, 1}
  /\ ept \in {"none", "registered", "bound"}
  /\ work \subseteq {"button", "ble", "prov"}
  /\ lapses \subseteq LapseKinds
  /\ FlagsOK

(* The windows in which two threads disagree about the network core.       *)
SwitchLapses == {"boot", "gap", "mark", "leak"}
Clean == lapses \cap SwitchLapses = {}

(* The two cores agree on the stack, as long as no request fell into one   *)
(* of the unsynchronised windows and no failure left the core powered: a   *)
(* ready Bluetooth host has the Bluetooth controller under it, an          *)
(* initialised satellite link has the satellite stack and no Bluetooth, a  *)
(* core that runs the satellite stack does so for main() in its powered    *)
(* section, and a starting host has the mark that makes the core boot the  *)
(* controller. A ble_enable that goes on to its advertiser, told -EALREADY *)
(* or not, has a ready host (ble.c:238-250): the only bt_enable under way  *)
(* that it could meet is main()'s at boot, which takes no mutex.           *)
(* radio_mutex and the mark are the whole of what arranges it.             *)
StackAgreement ==
  Clean =>
    /\ bt = "on" => net = "ble"
    /\ pc["main"] \in Bound => net = "sat" /\ bt = "off"
    /\ net = "sat" => pc["main"] \in Powered
    /\ bt = "starting" => mark = 1 /\ net \in {"boot", "ble", "dead"}
    /\ \A t \in Threads : pc[t] \in {"en_adv", "en_beacon"} => bt = "on"

(* A user who switched Bluetooth off keeps it off across satellite windows *)
(* (README "bluetooth"): whichever thread runs next, the host is off, or   *)
(* the ble_disable that will switch it off owns the mutex.                 *)
UserOffSticks ==
  off_by_user /\ "boot" \notin lapses =>
    bt = "off" \/ \E t \in Threads : pc[t] \in DisableSection

(* A beacon on the air will be refreshed before its payload goes stale:    *)
(* its timer runs, or its work item is pending or under way, or a thread   *)
(* is about to arm the timer or to switch the advertiser off.              *)
BeaconRefreshed ==
  adv = "beacon" /\ lapses \cap {"boot", "rearm"} = {} =>
    \/ ble_timer
    \/ "ble" \in work
    \/ pc["workq"] \in {"bw_stop", "bw_arm"}
    \/ \E t \in Threads : pc[t] \in {"en_adv", "dis_timer", "dis_bt"}

(* One satellite window for one arming: the timer runs or its expiry is    *)
(* pending, not both, and only while main() is on its way to wait for it.  *)
OneWindowPerArm ==
  /\ ~(sat_timer /\ timer_sem = 1)
  /\ sat_timer \/ timer_sem = 1 =>
       pc["main"] \in {"en_lock", "wait_timer"} \cup EnableSection

(* Whatever goes wrong, the mutex serialises the sequences that switch     *)
(* stacks: the thread inside one of them is its owner, and the only one.   *)
MutexOwner ==
  \A t \in Threads : pc[t] \in Critical <=> radio_mutex = t

(* main() ends only for a failed call or because a user's request came     *)
(* before its own start of Bluetooth was over.                             *)
NoUnexplainedExit ==
  Faults = {} /\ "boot" \notin lapses => pc["main"] # "exit"

(* Outside the lapses the mark changes only while the network core is off  *)
(* and no ble_enable under way is about to power it, so that no core boots *)
(* from a mark that is being changed. The mutex arranges it for            *)
(* _sat_enable only (main.c:114). At its start (main.c:208) and after the  *)
(* unlock (main.c:269) main() writes the mark without the mutex, and only  *)
(* that no request came early, or waited for the unlock, keeps it so.      *)
MarkStable ==
  [][mark' # mark /\ Clean =>
       net = "off" /\ \A t \in Threads : pc[t] \notin EnableSection]_vars

-----------------------------------------------------------------------------
(* The inductive invariant behind the safety properties, in named parts.   *)

(* Only a ready host advertises or holds a connection, and a starting host *)
(* is one bt_enable under way, never two.                                  *)
HostState ==
  /\ adv # "none" \/ conn => bt = "on"
  /\ bt = "starting" <=> \/ pc["main"] = "boot_wait"
                         \/ \E t \in Threads : pc[t] = "en_wait"
  /\ pc["main"] = "boot_wait" => \A t \in Threads : pc[t] # "en_wait"

(* The mark names the satellite stack from SatMark to SatDone and no       *)
(* longer; what an earlier run left in it is gone before bt_enable.        *)
MarkState ==
  /\ mark = 0 => pc["main"] \in {"boot", "sat_unlock", "sat_done"} \cup Powered
  /\ pc["main"] \in Powered \cup {"sat_unlock", "sat_done"} => mark = 0

(* A binding that main() has not taken yet is of the endpoint it waits for.*)
BindState ==
  /\ ept = "registered" => pc["main"] = "sat_bind"
  /\ bound_sem = 1 => pc["main"] = "sat_bind" /\ ept = "bound"
  /\ pc["main"] \in Bound => ept = "bound"

(* Until main() has started Bluetooth nothing else has happened, unless a  *)
(* user's request came before.                                             *)
BootQuiet ==
  pc["main"] \in BootLabels /\ "boot" \notin lapses =>
    /\ lapses = {} /\ radio_mutex = "free" /\ ~off_by_user
    /\ adv = "none" /\ ~conn /\ ~utc /\ "prov" \notin work
    /\ pc["main"] \in {"boot", "boot_bt"} => bt = "off" /\ net = "off"
    /\ pc["main"] = "boot_wait" => net # "sat"
    /\ pc["main"] = "boot_adv" => bt = "on"

(* ble_enable goes on only while the user has not switched Bluetooth off.  *)
UserOffState ==
  \A t \in Threads : pc[t] \in EnableSection => ~off_by_user

(* Beacons, their timer and their work exist only once the time is known.  *)
TimeKnown ==
  ~utc =>
    /\ adv # "beacon" /\ ~ble_timer /\ "ble" \notin work
    /\ pc["workq"] \notin WorkLabels
    /\ \A t \in Threads : pc[t] # "en_beacon"

(* A refresh is due: the timer runs or the work it submits is not done.    *)
RefreshDue ==
  ble_timer \/ "ble" \in work \/ pc["workq"] \in {"bw_stop", "bw_arm"}

(* What holds between the arming of a beacon and its start.                *)
RefreshState ==
  lapses \cap {"boot", "rearm"} = {} =>
    /\ \A t \in Threads : pc[t] = "en_beacon" => RefreshDue
    /\ pc["workq"] = "bw_beacon" =>
         \/ RefreshDue \/ bt # "on"
         \/ \E t \in Threads : pc[t] \in {"en_adv", "dis_timer", "dis_bt"}

(* How the two cores stand at each place of main(): a host that is off has *)
(* a core that is off, save in the powered section, and around it main()   *)
(* has Bluetooth off and no user's ble_enable under way.                   *)
StackState ==
  Clean =>
    /\ bt = "off" /\ pc["main"] \notin Powered => net = "off"
    /\ pc["main"] \in SatSection \cup {"sat_lock", "sat_done"} =>
         bt = "off" /\ \A t \in Threads : pc[t] \notin EnableSection
    /\ pc["main"] \in Powered => net \in {"boot", "sat", "dead"}
    /\ pc["main"] = "sat_bind" /\ ept = "bound" => net = "sat"

(* Without a fault the network core runs the stack that it booted.         *)
CoreAlive == "cpunet" \notin Faults => net # "dead"

IndInv ==
  /\ TypeOK /\ MutexOwner /\ HostState /\ MarkState /\ BindState
  /\ BootQuiet /\ UserOffState /\ UserOffSticks /\ TimeKnown
  /\ RefreshState /\ BeaconRefreshed /\ OneWindowPerArm
  /\ StackState /\ StackAgreement /\ CoreAlive /\ NoUnexplainedExit

-----------------------------------------------------------------------------
(* Liveness.                                                               *)

(* Waiting for the endpoint ends, without the time limit the code does not *)
(* have, unless a request fell into a window (or the core did not start).  *)
BindReturns ==
  pc["main"] = "sat_bind" ~> pc["main"] = "sat_init" \/ ~Clean

(* A satellite window that opened is closed: main() schedules the next one.*)
WindowEnds == timer_sem = 1 ~> pc["main"] = "sched" \/ ~Clean

(* A user's request is served: its thread comes back, even when it has to  *)
(* wait for a whole satellite window.                                      *)
UserServed ==
  \A t \in Users : pc[t] # "idle" ~> pc[t] = "idle" \/ ~Clean

(* After a window the device beacons again, or its user wants it off. A    *)
(* provisioning item still pending from before the time was known could    *)
(* take the advertiser first, and a connection then ends the beaconing.    *)
BeaconResumes ==
  pc["main"] = "sat_done" /\ "prov" \notin work
    ~> adv = "beacon" \/ off_by_user \/ lapses # {}

-----------------------------------------------------------------------------
(* What the documentation says and the code does not do.                   *)

(* README.md:239: "waits for IPC endpoint binding (3-second timeout)". The *)
(* code waits K_FOREVER (app/src/main.c:132): a user's request that gets   *)
(* the mutex between main()'s ble_disable and its k_mutex_lock starts the  *)
(* Bluetooth controller, nrf53_cpunet_enable does not restart it, and the  *)
(* endpoint never binds.                                                   *)
BindTimesOut == pc["main"] = "sat_bind" ~> pc["main"] # "sat_bind"

(* app/src/main.c:51-57: the mark says "which stack (BLE or Satellite)     *)
(* should be used when boot". It is restored after the mutex was released  *)
(* (main.c:268-269): a request that waited for the mutex can power the     *)
(* core, for Bluetooth, under the mark of the satellite stack.             *)
HostBootsController ==
  lapses \subseteq {"mark"} => ~(bt = "starting" /\ net = "sat")

(* README.md:259-261: the satellite phase ends with "Disables network      *)
(* core". When _sat_enable failed before the registration, _sat_disable    *)
(* returns at its failed deregistration and the core stays powered.        *)
WindowPowersDown ==
  lapses \subseteq {"leak"} /\ pc["main"] = "sat_unlock" => net = "off"

=============================================================================
