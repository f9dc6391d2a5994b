---------------------------- MODULE PassSchedule ----------------------------
(***************************************************************************)
(* When the firmware opens a satellite window: the pass table and the      *)
(* on-board prediction of app/src/sat_board.c, the timer they arm, the     *)
(* companion's commands that fill them (app/src/ble.c), the loop of main() *)
(* (app/src/main.c) and the status command that looks at them              *)
(* (app/src/shell.c). What a window does to the radio is RadioSwitch, what *)
(* it sends is SatLink.                                                    *)
(*                                                                         *)
(* The two builds, with and without CONFIG_APP_USE_PASS_PREDICTION, share  *)
(* the timer and the loop; `prediction` says which one runs. Time is       *)
(* counted in ticks, Second of them in a second, so that seconds and       *)
(* fractions of a second can disagree as they do in the code. The table    *)
(* holds seconds, everything else ticks.                                   *)
(*                                                                         *)
(* X_Fault beside X is a faulty variant that no behaviour uses.            *)
(***************************************************************************)
EXTENDS Integers, Sequences

CONSTANTS
  Second,      \* MSEC_PER_SEC, in ticks
  TableSize,   \* HUBBLE_NUMBER_OF_TIMESTAMPS
  Reported,    \* NUMBER_OF_TIMESTAMP_TO_PRINT of the table build
  Listed,      \* entries the companion may send: start, duration in seconds
  MaxEntries,  \* bound: entries of one ephemeris command
  Locations,   \* places the device may be told it is at
  Nowhere,     \* the location before one was told, all zero
  Orbit,       \* the passes over each place, in ticks
  Horizon      \* bound: the clock stops here

ASSUME SecondAssumption == Second \in Nat \ {0}
ASSUME SizeAssumption ==
  /\ TableSize \in Nat /\ Reported \in Nat
  /\ MaxEntries \in Nat /\ Horizon \in Nat
ASSUME ListedAssumption == Listed \subseteq [start : Nat, duration : Nat]
ASSUME OrbitAssumption ==
  /\ Nowhere \in Locations
  /\ Orbit \in [Locations -> SUBSET [start : Nat \ {0}, duration : Nat \ {0}]]

Off == -1                                  \* a timer that does not run
Zero == [start |-> 0, duration |-> 0]      \* static storage before its use

VARIABLES
  prediction,   \* CONFIG_APP_USE_PASS_PREDICTION of this build
  now,          \* hubble_time_get()
  utc,          \* utc_time # 0
  at,           \* where main() stands
  passes, idx,  \* sat_passes, sat_passes_count (its length), sat_passes_idx
  next_pass, device_pos,
  t,            \* where the search for a predicted pass has come to
  sat_timer,    \* when the timer expires, or Off
  timer_sem,
  until,        \* _end of the transmission loop
  status,       \* the status command, between its reads of the cursor
  armed,        \* history: the pass the timer was last armed for, in ticks
  last          \* history: its start, kept when its window is over

dataVars == <<passes, idx, next_pass, device_pos>>
timerVars == <<sat_timer, timer_sem, armed, last>>
vars == <<prediction, now, utc, at, dataVars, t, timerVars, until, status>>

Places == {"provision", "sched", "search", "wait", "switch", "window"}
Running == {"wait", "switch", "window"}

InTicks(p) == [start |-> p.start * Second, duration |-> p.duration * Second]
End(p) == p.start + p.duration
Least(m, n) == IF m <= n THEN m ELSE n

Init ==
  /\ prediction \in BOOLEAN
  /\ now = 0 /\ utc = FALSE /\ at = "provision"
  /\ passes = <<>> /\ idx = 0
  /\ next_pass = Zero /\ device_pos = Nowhere /\ t = 0
  /\ sat_timer = Off /\ timer_sem = 0 /\ until = 0
  /\ status = [left |-> 0, i |-> 0, from |-> 0, beyond |-> FALSE]
  /\ armed = {} /\ last = 0

-----------------------------------------------------------------------------
(* Provisioning. The companion can write only on a connection made before  *)
(* the time was set: every later beacon is one nobody can connect to.      *)

SetUtc ==
  /\ at = "provision"
  /\ utc' = TRUE
  /\ UNCHANGED <<prediction, now, at, dataVars, t, timerVars, until, status>>

(* sat_pass_add: at the end of the table, or -ENOSPC.                      *)
Room_OffByOne == TableSize + 1 - Len(passes)
Room == TableSize - Len(passes)

(* SPBLE_CMD_SETEPHEMERIS: entries are added until the count it claims, the*)
(* end of the message or the end of the table. The other build ignores it. *)
SetEphemeris ==
  /\ at = "provision"
  /\ ~prediction
  /\ \E size \in 1..MaxEntries, count \in 0..MaxEntries :
       \E entries \in [1..size -> Listed] :
         passes' =
           passes \o SubSeq(entries, 1, Least(count, Least(size, Room)))
  /\ UNCHANGED <<prediction, now, utc, at, idx, next_pass, device_pos, t,
                 timerVars, until, status>>

(* SPBLE_CMD_SETLOCATION, ignored by the table build.                      *)
SetLocation ==
  /\ at = "provision"
  /\ prediction
  /\ device_pos' \in Locations
  /\ UNCHANGED <<prediction, now, utc, at, passes, idx, next_pass, t,
                 timerVars, until, status>>

(* _disconnected_cb gives init_sem once the time is set, and main() goes   *)
(* on, with whatever else the companion had the time to send.              *)
Disconnect ==
  /\ at = "provision"
  /\ utc
  /\ at' = "sched"
  /\ UNCHANGED <<prediction, now, utc, dataVars, t, timerVars, until, status>>

-----------------------------------------------------------------------------
(* sat_schedule_next_transmission.                                         *)

(* now_ms is read once; no time passes until the timer is armed, because   *)
(* nothing in the search waits (see Tick).                                 *)
SchedStart ==
  /\ at = "sched"
  /\ at' = "search" /\ t' = now
  /\ UNCHANGED <<prediction, now, utc, dataVars, timerVars, until, status>>

(* The table: an entry is skipped if it begins in this second or before.   *)
HasBegun_Late(p) == p.start < now \div Second
HasBegun(p) == p.start < now \div Second + 1

SkipPass_Once ==
  /\ at = "search" /\ ~prediction
  /\ idx < Len(passes)
  /\ HasBegun(passes[idx + 1])
  /\ idx' = idx + 1
  /\ at' = "wait"
  /\ UNCHANGED <<prediction, now, utc, passes, next_pass, device_pos, t,
                 timerVars, until, status>>

SkipPass ==
  /\ at = "search" /\ ~prediction
  /\ idx < Len(passes)
  /\ HasBegun(passes[idx + 1])
  /\ idx' = idx + 1
  /\ UNCHANGED <<prediction, now, utc, at, passes, next_pass, device_pos, t,
                 timerVars, until, status>>

(* k_timer_start(&sat_timer, K_SECONDS(timeout)), for the pass p.          *)
ArmTimer(timeout, p) ==
  /\ sat_timer' = now + timeout * Second
  /\ armed' = {p} /\ last' = p.start
  /\ UNCHANGED timer_sem

ArmTable_Ceil ==
  /\ at = "search" /\ ~prediction
  /\ idx < Len(passes)
  /\ ~HasBegun(passes[idx + 1])
  /\ ArmTimer(passes[idx + 1].start - (now + Second - 1) \div Second,
              InTicks(passes[idx + 1]))
  /\ at' = "wait"
  /\ UNCHANGED <<prediction, now, utc, dataVars, t, until, status>>

ArmTable ==
  /\ at = "search" /\ ~prediction
  /\ idx < Len(passes)
  /\ ~HasBegun(passes[idx + 1])
  /\ ArmTimer(passes[idx + 1].start - now \div Second,
              InTicks(passes[idx + 1]))
  /\ at' = "wait"
  /\ UNCHANGED <<prediction, now, utc, dataVars, t, until, status>>

(* hubble_sat_next_pass_get: a pass not over at t, none starting earlier.  *)
NextPassGet(pos, from) ==
  LET ahead == {p \in Orbit[pos] : End(p) > from}
  IN  {p \in ahead : \A q \in ahead : p.start <= q.start}

(* One turn of the search: a pass found under way is passed over, and the  *)
(* search goes on from its end; a pass to come is armed, the time to it cut*)
(* down to whole seconds.                                                  *)
FindPass_UnderWay ==
  /\ at = "search" /\ prediction
  /\ \E p \in NextPassGet(device_pos, t) :
       /\ next_pass' = p
       /\ ArmTimer((p.start - now) \div Second, p)
  /\ at' = "wait"
  /\ UNCHANGED <<prediction, now, utc, passes, idx, device_pos, t, until,
                 status>>

SearchOn ==
  /\ at = "search" /\ prediction
  /\ \E p \in NextPassGet(device_pos, t) :
       /\ p.start <= now
       /\ next_pass' = p
       /\ t' = End(p)
  /\ UNCHANGED <<prediction, now, utc, at, passes, idx, device_pos, timerVars,
                 until, status>>

FindPass ==
  /\ at = "search" /\ prediction
  /\ \E p \in NextPassGet(device_pos, t) :
       /\ p.start > now
       /\ next_pass' = p
       /\ t' = End(p)
       /\ ArmTimer((p.start - now) \div Second, p)
  /\ at' = "wait"
  /\ UNCHANGED <<prediction, now, utc, passes, idx, device_pos, until, status>>

(* It returns -1, and main() goes on to wait for the timer all the same.   *)
NoPass ==
  /\ at = "search"
  /\ IF prediction THEN NextPassGet(device_pos, t) = {} ELSE idx >= Len(passes)
  /\ at' = "wait"
  /\ UNCHANGED <<prediction, now, utc, dataVars, t, timerVars, until, status>>

-----------------------------------------------------------------------------
(* The timer and the loop of main().                                       *)

SatTimerFire_NoToken ==
  /\ sat_timer # Off
  /\ sat_timer <= now
  /\ sat_timer' = Off
  /\ UNCHANGED <<prediction, now, utc, at, dataVars, t, timer_sem, armed, last,
                 until, status>>

SatTimerFire ==
  /\ sat_timer # Off
  /\ sat_timer <= now
  /\ sat_timer' = Off
  /\ timer_sem' = 1
  /\ UNCHANGED <<prediction, now, utc, at, dataVars, t, armed, last, until,
                 status>>

WaitTimer ==
  /\ at = "wait"
  /\ timer_sem = 1
  /\ timer_sem' = 0
  /\ at' = "switch"
  /\ UNCHANGED <<prediction, now, utc, dataVars, t, sat_timer, armed, last,
                 until, status>>

(* sat_transmit, once the radio is the satellite stack's: the loop is given*)
(* the duration of the pass under the cursor. With prediction one packet is*)
(* sent.                                                                   *)
SatTransmissionTime ==
  IF prediction THEN 0 ELSE passes[idx + 1].duration * Second

OpenWindow ==
  /\ at = "switch"
  /\ at' = "window"
  /\ until' = now + SatTransmissionTime
  /\ UNCHANGED <<prediction, now, utc, dataVars, t, timerVars, status>>

(* The window is over: the loop runs while now <= until.                   *)
WindowOver ==
  /\ at = "window"
  /\ ~prediction => now > until
  /\ at' = "sched" /\ armed' = {}
  /\ UNCHANGED <<prediction, now, utc, dataVars, t, sat_timer, timer_sem, last,
                 until, status>>

(* _sat_enable or the building of the packet fails, and no window opens;   *)
(* or a sending fails, and the window ends at once.                        *)
WindowFails ==
  /\ at \in {"switch", "window"}
  /\ at' = "sched" /\ armed' = {}
  /\ UNCHANGED <<prediction, now, utc, dataVars, t, sat_timer, timer_sem, last,
                 until, status>>

(* Time passes, but not past the expiry of the timer, nor within a search. *)
Tick ==
  /\ now < Horizon
  /\ at # "search"
  /\ sat_timer # Off => now < sat_timer
  /\ now' = now + 1
  /\ UNCHANGED <<prediction, utc, at, dataVars, t, timerVars, until, status>>

-----------------------------------------------------------------------------
(* The status command of the table build: sat_next_transmission_get counts *)
(* the passes left and then copies them, and reads sat_passes_idx again for*)
(* each. Nothing locks it out, and main() runs at a higher priority.       *)

StatusCount_All ==
  /\ utc /\ ~prediction
  /\ status' = [left |-> Least(Reported, Len(passes)), i |-> 0, from |-> idx,
                beyond |-> FALSE]
  /\ UNCHANGED <<prediction, now, utc, at, dataVars, t, timerVars, until>>

StatusCount ==
  /\ utc /\ ~prediction
  /\ status' = [left |-> Least(Reported, Len(passes) - idx), i |-> 0,
                from |-> idx, beyond |-> FALSE]
  /\ UNCHANGED <<prediction, now, utc, at, dataVars, t, timerVars, until>>

StatusCopy ==
  /\ status.i < status.left
  /\ status' = [status EXCEPT
                  !.i = @ + 1,
                  !.beyond = @ \/ idx + status.i >= Len(passes)]
  /\ UNCHANGED <<prediction, now, utc, at, dataVars, t, timerVars, until>>

-----------------------------------------------------------------------------
Provisioning == SetUtc \/ SetEphemeris \/ SetLocation \/ Disconnect

Search == SkipPass \/ ArmTable \/ SearchOn \/ FindPass \/ NoPass

Main == SchedStart \/ Search \/ WaitTimer \/ OpenWindow \/ WindowOver

Next ==
  \/ Provisioning \/ Main \/ SatTimerFire \/ WindowFails \/ Tick
  \/ StatusCount \/ StatusCopy

(* main() is the thread of the highest priority and runs when it can, time *)
(* passes and a timer that has expired calls its function. The companion,  *)
(* the status command and the failures are nobody's duty.                  *)
Fairness ==
  /\ WF_vars(Main) /\ WF_vars(SatTimerFire) /\ WF_vars(Tick)

Spec == Init /\ [][Next]_vars /\ Fairness

-----------------------------------------------------------------------------
TypeOK ==
  /\ prediction \in BOOLEAN /\ utc \in BOOLEAN
  /\ now \in 0..Horizon /\ t \in Nat /\ until \in Nat
  /\ at \in Places
  /\ passes \in Seq(Listed) /\ Len(passes) <= TableSize
  /\ idx \in 0..Len(passes)
  /\ next_pass \in {Zero} \cup UNION {Orbit[pos] : pos \in Locations}
  /\ device_pos \in Locations
  /\ sat_timer \in Nat \cup {Off} /\ timer_sem \in {0, 1}
  /\ status.left \in 0..Reported /\ status.i \in 0..status.left
  /\ status.from \in 0..TableSize /\ status.beyond \in BOOLEAN
  /\ armed \in SUBSET [start : Nat, duration : Nat] /\ last \in Nat

(* The pass the cursor or the search stands on, which status shows first   *)
(* and whose duration the transmission loop is given.                      *)
Current ==
  IF prediction THEN {next_pass}
  ELSE IF idx < Len(passes) THEN {InTicks(passes[idx + 1])} ELSE {}

TimerNearPass ==
  sat_timer # Off =>
    \E p \in armed :
      IF prediction THEN p.start - Second < sat_timer /\ sat_timer <= p.start
                    ELSE p.start <= sat_timer /\ sat_timer < p.start + Second

WindowCoversPass ==
  at = "window" /\ ~prediction => \A p \in armed : until >= End(p)

(* From its arming to the end of its window, the timer, the cursor, the    *)
(* duration and the status line are about one pass (sat_board.c:166-175,   *)
(* 290-351): the timer expires less than a second after the pass begins in *)
(* the table build and less than a second before it with prediction, and   *)
(* the loop of the table build lasts to the end of the pass.               *)
OnePassThroughout ==
  /\ sat_timer # Off => at = "wait"
  /\ timer_sem = 1 \/ sat_timer # Off \/ at \in {"switch", "window"}
       => armed # {}
  /\ armed \subseteq Current
  /\ TimerNearPass
  /\ WindowCoversPass

Arming == sat_timer = Off /\ sat_timer' # Off

InOrder ==
  \A i, j \in 1..Len(passes) : i < j => passes[i].start <= passes[j].start

(* The pass armed is to come, and no other pass to come begins before it   *)
(* (sat.h:29-33, sat_board.c:298-320): in the table build if the companion *)
(* sent the entries in the order of time; with prediction but for a pass   *)
(* that is over before one under way is.                                   *)
EarliestArmed ==
  [][Arming =>
       \A p \in armed' :
         /\ p.start > now
         /\ ~prediction /\ InOrder =>
              \A e \in {passes[i] : i \in 1..Len(passes)} :
                e.start * Second > now => p.start <= e.start * Second
         /\ prediction =>
              \A q \in Orbit[device_pos] :
                q.start > now /\ q.start < p.start =>
                  \E r \in Orbit[device_pos] :
                    r.start <= now /\ End(q) <= End(r)]_vars

(* main() waits for a timer that nobody armed only when no pass is left:   *)
(* every entry of the table has begun, or begins in the present second     *)
(* (sat_board.c:310-320), or every predicted pass to come is over before   *)
(* one that had begun is (301-306). It never waits beside a pass it could  *)
(* have served.                                                            *)
NothingLeft ==
  at = "wait" /\ sat_timer = Off /\ timer_sem = 0 =>
    IF prediction
      THEN \A q \in Orbit[device_pos] :
             q.start > now =>
               \E r \in Orbit[device_pos] :
                 r.start <= now /\ End(q) <= End(r)
      ELSE \A i \in 1..Len(passes) : HasBegun(passes[i])

(* The status command reads past the last entry only if main() moved the   *)
(* cursor between its reads (sat_board.c:343-347).                         *)
StatusInTable == status.beyond => idx # status.from

(* The schedule keeps the promise of PassWindows.                          *)
Known ==
  IF prediction THEN Orbit[device_pos]
  ELSE {InTicks(passes[i]) : i \in 1..Len(passes)}

Possible ==
  {InTicks(p) : p \in Listed} \cup UNION {Orbit[pos] : pos \in Locations}

Windows == INSTANCE PassWindows WITH
  Pass <- Possible,
  clock <- now, started <- at # "provision", known <- Known,
  chosen <- armed, open <- at = "window"

ScheduleRefines == Windows!Spec

(* A timer once armed wakes main(), which goes on to switch the radio: the *)
(* token is neither lost nor already taken (main.c:250, sat_board.c:267).  *)
PassServed == sat_timer # Off ~> at = "switch"

=============================================================================
