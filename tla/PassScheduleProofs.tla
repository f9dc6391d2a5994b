------------------------- MODULE PassScheduleProofs -------------------------
(***************************************************************************)
(* Proofs about the pass schedule, for both builds, every table size, every*)
(* length of a second, every set of entries the companion may send and     *)
(* every orbit.                                                            *)
(***************************************************************************)
EXTENDS PassSchedule, WellFoundedInduction, TLAPS

USE DEF dataVars, timerVars, vars

-----------------------------------------------------------------------------
(* The inductive invariant.                                                *)

(* A pass is chosen exactly while its timer runs, while the expiry has yet *)
(* to wake main(), and while main() serves it; it is the one the cursor or *)
(* the search stands on.                                                   *)
ChosenServed ==
  /\ at \in {"provision", "sched", "search"} => armed = {}
  /\ at \in {"switch", "window"} => armed # {}
  /\ at = "wait" => (armed = {} <=> sat_timer = Off /\ timer_sem = 0)
  /\ sat_timer # Off => at = "wait" /\ timer_sem = 0
  /\ timer_sem = 1 => at = "wait"
  /\ at = "provision" => last = 0
  /\ armed \subseteq Current
  /\ \A p \in armed : last = p.start

(* Once the timer has expired the pass has begun, or begins within the     *)
(* second.                                                                 *)
ChosenDue ==
  timer_sem = 1 \/ at \in {"switch", "window"} =>
    \A p \in armed :
      IF prediction THEN p.start - Second < now ELSE p.start <= now

(* What the cursor has left behind has begun.                              *)
CursorBehind ==
  ~prediction => \A i \in 1..idx : passes[i].start * Second <= now

(* A pass to come that is over before one under way is.                    *)
Covered(q) ==
  \E r \in Orbit[device_pos] : r.start <= now /\ End(q) <= End(r)

(* What the search has left behind is covered.                             *)
SearchBehind ==
  prediction /\ at = "search" =>
    \A q \in Orbit[device_pos] : q.start > now /\ End(q) <= t => Covered(q)

(* So is what begins before the last pass chosen; in the table build that  *)
(* pass has begun.                                                         *)
LastBehind ==
  IF prediction
    THEN \A q \in Orbit[device_pos] :
           q.start > now /\ q.start < last => Covered(q)
    ELSE armed = {} => last <= now

(* The entries the status command has counted are in the table, from where *)
(* the cursor was.                                                         *)
StatusBehind ==
  status.from <= idx /\ status.from + status.left <= Len(passes)

IndInv ==
  /\ TypeOK /\ ChosenServed /\ ChosenDue /\ TimerNearPass /\ WindowCoversPass
  /\ CursorBehind /\ SearchBehind /\ LastBehind
  /\ NothingLeft /\ StatusBehind /\ StatusInTable

-----------------------------------------------------------------------------
(* Seconds and ticks.                                                      *)

(* Cutting a time down to seconds loses less than a second.                *)
LEMMA WholeSeconds ==
  ASSUME NEW n \in Nat
  PROVE  /\ n \div Second \in Nat
         /\ (n \div Second) * Second \in Nat
         /\ (n \div Second) * Second <= n
         /\ n < (n \div Second) * Second + Second
  BY SecondAssumption

(* Whole seconds compare as their ticks do.                                *)
LEMMA SecondsOrder ==
  ASSUME NEW a \in Nat, NEW b \in Nat
  PROVE  /\ a * Second \in Nat
         /\ a <= b => a * Second <= b * Second
         /\ a + 1 <= b => a * Second + Second <= b * Second
  BY SecondAssumption

(* An entry of the table has begun when its first tick is not to come.     *)
LEMMA BegunInTicks ==
  ASSUME NEW n \in Nat, NEW s \in Nat
  PROVE  s < n \div Second + 1 <=> s * Second <= n
<1> DEFINE q == n \div Second
<1>1. q \in Nat /\ q * Second <= n /\ n < q * Second + Second
  BY WholeSeconds
<1>2. s <= q => s * Second <= q * Second
  BY <1>1, SecondsOrder
<1>3. q + 1 <= s => q * Second + Second <= s * Second
  BY <1>1, SecondsOrder
<1>4. s * Second \in Nat /\ q * Second \in Nat /\ Second \in Nat
  BY <1>1, SecondAssumption
<1> HIDE DEF q
<1>5. s < q + 1 <=> s * Second <= n
  BY <1>1, <1>2, <1>3, <1>4
<1>6. QED
  BY <1>5 DEF q

(* The timer of the table build expires within a second after the pass     *)
(* begins...                                                               *)
LEMMA TableTimeout ==
  ASSUME TypeOK, NEW s \in Nat
  PROVE  LET e == now + (s - now \div Second) * Second
         IN  e \in Nat /\ s * Second <= e /\ e < s * Second + Second
<1> DEFINE q == now \div Second
<1>1. /\ now \in Nat /\ q \in Nat
      /\ q * Second <= now /\ now < q * Second + Second
  BY WholeSeconds DEF TypeOK
<1>2. (s - q) * Second = s * Second - q * Second
  BY <1>1, SecondAssumption
<1>3. s * Second \in Nat /\ q * Second \in Nat /\ Second \in Nat
  BY <1>1, SecondAssumption
<1> HIDE DEF q
<1>4. now + (s - q) * Second \in Nat
  BY <1>1, <1>2, <1>3
<1>5. s * Second <= now + (s - q) * Second
  BY <1>1, <1>2, <1>3
<1>6. now + (s - q) * Second < s * Second + Second
  BY <1>1, <1>2, <1>3
<1>7. QED
  BY <1>4, <1>5, <1>6 DEF q

(* ...and that of the predicting build within a second before.             *)
LEMMA PredictedTimeout ==
  ASSUME TypeOK, NEW s \in Nat, s > now
  PROVE  LET e == now + ((s - now) \div Second) * Second
         IN  e \in Nat /\ s - Second < e /\ e <= s
<1> DEFINE q == (s - now) \div Second
<1>1. now \in Nat /\ s - now \in Nat
  BY DEF TypeOK
<1>2. /\ q * Second \in Nat
      /\ q * Second <= s - now /\ s - now < q * Second + Second
  BY <1>1, WholeSeconds
<1> HIDE DEF q
<1>3. now + q * Second \in Nat /\ s - Second < now + q * Second
  BY <1>1, <1>2, SecondAssumption
<1>4. now + q * Second <= s
  BY <1>1, <1>2, SecondAssumption
<1>5. QED
  BY <1>3, <1>4 DEF q

-----------------------------------------------------------------------------
(* The table and the orbit.                                                *)

(* What an entry of the table is.                                          *)
LEMMA EntryTypes ==
  ASSUME TypeOK, NEW i \in 1..Len(passes)
  PROVE  /\ passes[i] \in [start : Nat, duration : Nat]
         /\ passes[i] \in Listed
         /\ InTicks(passes[i]) \in [start : Nat, duration : Nat]
         /\ InTicks(passes[i]).start = passes[i].start * Second
         /\ passes[i].start * Second \in Nat
         /\ passes[i].duration * Second \in Nat
<1>1. passes[i] \in Listed /\ passes[i] \in [start : Nat, duration : Nat]
  BY ListedAssumption DEF TypeOK
<1>2. passes[i].start * Second \in Nat /\ passes[i].duration * Second \in Nat
  BY <1>1, SecondAssumption
<1>3. QED
  BY <1>1, <1>2 DEF InTicks

(* Which entries of the table have begun.                                  *)
LEMMA TableBegun ==
  ASSUME TypeOK, NEW i \in 1..Len(passes)
  PROVE  /\ passes[i].start * Second \in Nat
         /\ HasBegun(passes[i]) <=> passes[i].start * Second <= now
<1>1. /\ now \in Nat /\ passes[i].start \in Nat
      /\ passes[i].start * Second \in Nat
  BY EntryTypes DEF TypeOK
<1>2. HasBegun(passes[i]) <=> passes[i].start < now \div Second + 1
  BY DEF HasBegun
<1>3. QED
  BY <1>1, <1>2, BegunInTicks

(* What a predicted pass is.                                               *)
LEMMA PassTypes ==
  ASSUME TypeOK, NEW p \in Orbit[device_pos]
  PROVE  /\ p \in [start : Nat \ {0}, duration : Nat \ {0}]
         /\ p \in [start : Nat, duration : Nat]
         /\ End(p) \in Nat /\ End(p) > p.start
<1>1. p \in [start : Nat \ {0}, duration : Nat \ {0}]
  BY OrbitAssumption DEF TypeOK
<1>2. QED
  BY <1>1 DEF End

(* A set of passes that is not empty has one that no other starts before.  *)
LEMMA FirstPass ==
  ASSUME NEW S, S # {}, \A p \in S : p.start \in Nat
  PROVE  \E p \in S : \A q \in S : p.start <= q.start
<1> DEFINE T == {p.start : p \in S}
<1>1. T \subseteq Nat /\ T # {}
  OBVIOUS
<1>2. PICK m \in T : \A n \in T : <<n, m>> \notin OpToRel(<, Nat)
  BY <1>1, NatLessThanWellFounded, WFMin
<1>3. ASSUME NEW n \in T, n < m PROVE FALSE
  <2>1. <<n, m>> \in OpToRel(<, Nat)
    BY <1>1, <1>3, Zenon DEF OpToRel
  <2>2. QED
    BY <1>2, <2>1
<1>4. PICK p \in S : p.start = m
  OBVIOUS
<1>5. ASSUME NEW q \in S PROVE p.start <= q.start
  BY <1>3, <1>4
<1>6. QED
  BY <1>5

(* hubble_sat_next_pass_get finds a pass if there is one.                  *)
LEMMA NothingAhead ==
  ASSUME TypeOK, NextPassGet(device_pos, t) = {}, NEW q \in Orbit[device_pos]
  PROVE  End(q) <= t
<1> DEFINE ahead == {p \in Orbit[device_pos] : End(p) > t}
<1>1. \A p \in ahead : p.start \in Nat
  BY PassTypes
<1>2. ahead = {}
  BY <1>1, FirstPass DEF NextPassGet
<1>3. End(q) \in Nat /\ t \in Nat
  BY PassTypes DEF TypeOK
<1>4. QED
  BY <1>2, <1>3

(* What joining two sequences gives.                                       *)
LEMMA ConcatFacts ==
  ASSUME NEW S, NEW s1 \in Seq(S), NEW s2 \in Seq(S)
  PROVE  /\ s1 \o s2 \in Seq(S)
         /\ Len(s1 \o s2) = Len(s1) + Len(s2)
         /\ \A i \in 1..Len(s1) : (s1 \o s2)[i] = s1[i]
  OBVIOUS

(* What sat_pass_add does to the table: it grows at its end, within its    *)
(* size.                                                                   *)
LEMMA TableGrows ==
  ASSUME TypeOK, SetEphemeris
  PROVE  /\ passes' \in Seq(Listed)
         /\ Len(passes) \in Nat /\ Len(passes') \in Nat
         /\ Len(passes) <= Len(passes') /\ Len(passes') <= TableSize
         /\ \A i \in 1..Len(passes) : passes'[i] = passes[i]
<1>1. PICK size \in 1..MaxEntries, count \in 0..MaxEntries :
        \E entries \in [1..size -> Listed] :
          passes' =
            passes \o SubSeq(entries, 1, Least(count, Least(size, Room)))
  BY DEF SetEphemeris
<1>2. PICK entries \in [1..size -> Listed] :
        passes' = passes \o SubSeq(entries, 1, Least(count, Least(size, Room)))
  BY <1>1
<1> DEFINE n == Least(count, Least(size, Room))
           more == SubSeq(entries, 1, n)
<1>3. passes \in Seq(Listed) /\ Len(passes) \in Nat /\ Len(passes) <= TableSize
  BY DEF TypeOK
<1>4. n \in Nat /\ n <= size /\ n <= TableSize - Len(passes)
  BY <1>3, SizeAssumption DEF Least, Room
<1> HIDE DEF n
<1>5. more \in Seq(Listed) /\ Len(more) = n
  BY <1>4
<1> HIDE DEF more
<1>6. passes' = passes \o more
  BY <1>2 DEF n, more
<1>7. passes' \in Seq(Listed) /\ Len(passes') = Len(passes) + n
  BY <1>3, <1>5, <1>6, ConcatFacts
<1>8. \A i \in 1..Len(passes) : passes'[i] = passes[i]
  BY <1>3, <1>5, <1>6, ConcatFacts
<1>9. QED
  BY <1>3, <1>4, <1>7, <1>8, SizeAssumption

(* What the timer is armed for in the table build: the entry under the     *)
(* cursor, which is to come...                                             *)
LEMMA ArmTableFacts ==
  ASSUME TypeOK, ArmTable
  PROVE  LET p == InTicks(passes[idx + 1])
         IN  /\ idx + 1 \in 1..Len(passes) /\ at' = "wait"
             /\ armed' = {p} /\ last' = p.start
             /\ p \in [start : Nat, duration : Nat] /\ p.start > now
             /\ p.start = passes[idx + 1].start * Second
             /\ sat_timer' \in Nat
             /\ p.start <= sat_timer' /\ sat_timer' < p.start + Second
<1>1. idx + 1 \in 1..Len(passes) /\ ~HasBegun(passes[idx + 1])
  BY DEF ArmTable, TypeOK
<1> DEFINE e == passes[idx + 1]
           p == InTicks(e)
<1>2. /\ e \in [start : Nat, duration : Nat]
      /\ p \in [start : Nat, duration : Nat] /\ p.start = e.start * Second
  BY <1>1, EntryTypes
<1>3. ~(e.start * Second <= now)
  BY <1>1, <1>2, BegunInTicks DEF TypeOK, HasBegun
<1>4. /\ armed' = {p} /\ last' = p.start /\ at' = "wait"
      /\ sat_timer' = now + (e.start - now \div Second) * Second
  BY DEF ArmTable, ArmTimer
<1> HIDE DEF p
<1>5. p.start > now
  BY <1>2, <1>3 DEF TypeOK
<1>6. /\ sat_timer' \in Nat
      /\ e.start * Second <= sat_timer'
      /\ sat_timer' < e.start * Second + Second
  BY <1>2, <1>4, TableTimeout
<1>7. QED
  BY <1>1, <1>2, <1>4, <1>5, <1>6 DEF p

(* ...and with prediction: a pass to come, the first of those the search   *)
(* has not left behind.                                                    *)
LEMMA FindPassFacts ==
  ASSUME TypeOK, FindPass
  PROVE  \E p \in Orbit[device_pos] :
           /\ p \in [start : Nat, duration : Nat]
           /\ p.start > now /\ End(p) > t /\ at' = "wait"
           /\ \A q \in Orbit[device_pos] : End(q) > t => p.start <= q.start
           /\ next_pass' = p /\ armed' = {p} /\ last' = p.start
           /\ sat_timer' \in Nat
           /\ p.start - Second < sat_timer' /\ sat_timer' <= p.start
<1>1. PICK p \in NextPassGet(device_pos, t) :
        /\ p.start > now /\ next_pass' = p
        /\ ArmTimer((p.start - now) \div Second, p)
  BY DEF FindPass
<1>2. /\ p \in Orbit[device_pos] /\ End(p) > t
      /\ \A q \in Orbit[device_pos] : End(q) > t => p.start <= q.start
  BY <1>1 DEF NextPassGet
<1>3. p \in [start : Nat, duration : Nat]
  BY <1>2, PassTypes
<1>4. /\ armed' = {p} /\ last' = p.start /\ at' = "wait"
      /\ sat_timer' = now + ((p.start - now) \div Second) * Second
  BY <1>1 DEF FindPass, ArmTimer
<1>5. /\ sat_timer' \in Nat
      /\ p.start - Second < sat_timer' /\ sat_timer' <= p.start
  BY <1>1, <1>3, <1>4, PredictedTimeout
<1>6. QED
  BY <1>1, <1>2, <1>3, <1>4, <1>5

-----------------------------------------------------------------------------
(* The first state, and every step.                                        *)

(* The device starts without a time, a pass or a timer.                    *)
LEMMA InitInv == Init => IndInv
<1> SUFFICES ASSUME Init PROVE IndInv
  OBVIOUS
<1> USE SizeAssumption, OrbitAssumption DEF Init, Off, Zero
<1>1. TypeOK
  <2>1. passes \in Seq(Listed) /\ Len(passes) = 0
    OBVIOUS
  <2>2. /\ status.left = 0 /\ status.i = 0 /\ status.from = 0
        /\ status.beyond = FALSE
    OBVIOUS
  <2>3. sat_timer \in Nat \cup {Off} /\ next_pass \in {Zero}
    OBVIOUS
  <2>4. /\ passes \in Seq(Listed) /\ Len(passes) <= TableSize
        /\ idx \in 0..Len(passes)
    BY <2>1
  <2>5. /\ status.left \in 0..Reported /\ status.i \in 0..status.left
        /\ status.from \in 0..TableSize /\ status.beyond \in BOOLEAN
    BY <2>2
  <2>6. /\ now \in 0..Horizon /\ t \in Nat /\ until \in Nat
        /\ timer_sem \in {0, 1} /\ last \in Nat
    OBVIOUS
  <2>7. /\ prediction \in BOOLEAN /\ utc \in BOOLEAN /\ at \in Places
        /\ device_pos \in Locations /\ armed = {}
    BY DEF Places
  <2> HIDE DEF Init
  <2>8. QED
    BY <2>3, <2>4, <2>5, <2>6, <2>7 DEF TypeOK
<1>2. ChosenServed /\ ChosenDue /\ TimerNearPass /\ WindowCoversPass
  BY DEF ChosenServed, ChosenDue, TimerNearPass, WindowCoversPass
<1>3. CursorBehind /\ SearchBehind /\ LastBehind
  <2>1. prediction => \A q \in Orbit[device_pos] : ~(q.start < last)
    BY <1>1, PassTypes
  <2>2. QED
    BY <2>1 DEF CursorBehind, SearchBehind, LastBehind
<1>4. NothingLeft /\ StatusBehind /\ StatusInTable
  BY DEF NothingLeft, StatusBehind, StatusInTable
<1>5. QED
  BY <1>1, <1>2, <1>3, <1>4 DEF IndInv

(* Every step keeps the types.                                             *)
LEMMA TypeStep ==
  ASSUME IndInv, Next
  PROVE  TypeOK'
<1>0. SetEphemeris =>
        /\ passes' \in Seq(Listed) /\ Len(passes') <= TableSize
        /\ Len(passes) <= Len(passes') /\ Len(passes') \in Nat
  BY TableGrows DEF IndInv
<1>a. ArmTable =>
        /\ sat_timer' \in Nat /\ last' \in Nat
        /\ armed' \in SUBSET [start : Nat, duration : Nat]
  BY ArmTableFacts DEF IndInv
<1>b. FindPass =>
        /\ sat_timer' \in Nat /\ last' \in Nat
        /\ armed' \in SUBSET [start : Nat, duration : Nat]
  BY FindPassFacts DEF IndInv
<1> USE SizeAssumption, SecondAssumption, OrbitAssumption
    DEF IndInv, TypeOK, Places, Off, Zero
<1>1. CASE SetUtc
  BY <1>1 DEF SetUtc
<1>2. CASE SetEphemeris
  <2>1. /\ passes' \in Seq(Listed) /\ Len(passes') <= TableSize
        /\ idx \in 0..Len(passes')
    BY <1>2, <1>0
  <2>2. UNCHANGED <<prediction, now, utc, at, idx, next_pass, device_pos, t,
                    timerVars, until, status>>
    BY <1>2 DEF SetEphemeris
  <2>3. QED
    BY <2>1, <2>2
<1>3. CASE SetLocation
  BY <1>3 DEF SetLocation
<1>4. CASE Disconnect
  BY <1>4 DEF Disconnect
<1>5. CASE SchedStart
  BY <1>5 DEF SchedStart
<1>6. CASE SkipPass
  BY <1>6 DEF SkipPass
<1>7. CASE ArmTable
  BY <1>7, <1>a DEF ArmTable, ArmTimer
<1>8. CASE SearchOn
  BY <1>8, PassTypes DEF SearchOn, NextPassGet
<1>9. CASE FindPass
  <2>1. PICK p \in Orbit[device_pos] : next_pass' = p /\ t' = End(p)
    BY <1>9 DEF FindPass, NextPassGet
  <2>2. t' \in Nat
    BY <2>1, PassTypes
  <2>3. QED
    BY <1>9, <1>b, <2>1, <2>2 DEF FindPass, ArmTimer
<1>10. CASE NoPass
  BY <1>10 DEF NoPass
<1>11. CASE WaitTimer
  BY <1>11 DEF WaitTimer
<1>12. CASE OpenWindow
  <2>1. ~prediction => idx + 1 \in 1..Len(passes)
    BY <1>12 DEF OpenWindow, ChosenServed, Current
  <2>2. ~prediction => passes[idx + 1].duration * Second \in Nat
    BY <2>1, EntryTypes
  <2>3. until' \in Nat
    BY <1>12, <2>2 DEF OpenWindow, SatTransmissionTime
  <2>4. QED
    BY <1>12, <2>3 DEF OpenWindow
<1>13. CASE WindowOver
  BY <1>13 DEF WindowOver
<1>14. CASE SatTimerFire
  BY <1>14 DEF SatTimerFire
<1>15. CASE WindowFails
  BY <1>15 DEF WindowFails
<1>16. CASE Tick
  BY <1>16 DEF Tick
<1>17. CASE StatusCount
  BY <1>17 DEF StatusCount, Least
<1>18. CASE StatusCopy
  <2>1. status'.i = status.i + 1 /\ status'.left = status.left
    BY <1>18 DEF StatusCopy
  <2>2. status'.from = status.from /\ status'.beyond \in BOOLEAN
    BY <1>18 DEF StatusCopy
  <2>3. status.i < status.left
    BY <1>18 DEF StatusCopy
  <2>4. UNCHANGED <<prediction, now, utc, at, dataVars, t, timerVars, until>>
    BY <1>18 DEF StatusCopy
  <2>5. /\ status'.left \in 0..Reported /\ status'.i \in 0..status'.left
        /\ status'.from \in 0..TableSize
    BY <2>1, <2>2, <2>3
  <2>6. QED
    BY <2>2, <2>4, <2>5
<1>19. QED
  BY <1>1, <1>2, <1>3, <1>4, <1>5, <1>6, <1>7, <1>8, <1>9, <1>10, <1>11,
     <1>12, <1>13, <1>14, <1>15, <1>16, <1>17, <1>18
     DEF Next, Provisioning, Main, Search

(* A pass is chosen for as long as it is served.                           *)
LEMMA ServedStep ==
  ASSUME IndInv, Next
  PROVE  ChosenServed'
<1>0. TypeOK /\ timer_sem \in {0, 1} /\ idx \in Nat /\ Len(passes) \in Nat
  BY DEF IndInv, TypeOK
<1> USE DEF IndInv, ChosenServed, Current, Off
<1>1. CASE SetUtc \/ StatusCount \/ StatusCopy \/ Tick
  BY <1>0, <1>1 DEF SetUtc, StatusCount, StatusCopy, Tick
<1>2. CASE SetEphemeris
  BY <1>0, <1>2 DEF SetEphemeris
<1>3. CASE SetLocation
  BY <1>0, <1>3 DEF SetLocation
<1>4. CASE Disconnect
  BY <1>0, <1>4 DEF Disconnect
<1>5. CASE SchedStart
  BY <1>0, <1>5 DEF SchedStart
<1>6. CASE SkipPass
  BY <1>0, <1>6 DEF SkipPass
<1>7. CASE ArmTable
  <2> DEFINE p == InTicks(passes[idx + 1])
  <2>1. /\ sat_timer' \in Nat /\ armed' = {p} /\ at' = "wait"
        /\ idx < Len(passes) /\ last' = p.start
    BY <1>0, <1>7, ArmTableFacts
  <2>2. ~prediction' /\ timer_sem' = 0 /\ passes' = passes /\ idx' = idx
    BY <1>0, <1>7 DEF ArmTable, ArmTimer
  <2>3. Current' = {p}
    BY <2>1, <2>2
  <2>4. QED
    BY <2>1, <2>2, <2>3
<1>8. CASE SearchOn
  BY <1>0, <1>8 DEF SearchOn, NextPassGet
<1>9. CASE FindPass
  <2>1. /\ sat_timer' \in Nat /\ armed' = {next_pass'} /\ at' = "wait"
        /\ last' = next_pass'.start
    BY <1>0, <1>9, FindPassFacts
  <2>2. prediction' /\ timer_sem' = 0
    BY <1>0, <1>9 DEF FindPass, ArmTimer
  <2>3. QED
    BY <2>1, <2>2
<1>10. CASE NoPass
  BY <1>0, <1>10 DEF NoPass
<1>11. CASE WaitTimer
  BY <1>0, <1>11 DEF WaitTimer
<1>12. CASE OpenWindow
  BY <1>0, <1>12 DEF OpenWindow, SatTransmissionTime
<1>13. CASE WindowOver
  BY <1>0, <1>13 DEF WindowOver
<1>14. CASE SatTimerFire
  BY <1>0, <1>14 DEF SatTimerFire
<1>15. CASE WindowFails
  BY <1>0, <1>15 DEF WindowFails
<1>16. QED
  BY <1>1, <1>2, <1>3, <1>4, <1>5, <1>6, <1>7, <1>8, <1>9, <1>10, <1>11,
     <1>12, <1>13, <1>14, <1>15
     DEF Next, Provisioning, Main, Search

(* The timer expires near the start of the pass.                           *)
LEMMA TimerStep ==
  ASSUME IndInv, Next
  PROVE  TimerNearPass'
<1>0. TypeOK /\ TypeOK'
  BY TypeStep DEF IndInv
<1> USE DEF IndInv, ChosenServed, TimerNearPass
<1>1. CASE SetUtc \/ SetEphemeris \/ SetLocation \/ Disconnect \/ SchedStart
            \/ SkipPass \/ SearchOn \/ NoPass \/ StatusCount \/ StatusCopy
            \/ Tick
  BY <1>1 DEF SetUtc, SetEphemeris, SetLocation, Disconnect, SchedStart,
              SkipPass, SearchOn, NoPass, StatusCount, StatusCopy, Tick
<1>2. CASE ArmTable
  BY <1>2, ArmTableFacts DEF ArmTable
<1>3. CASE FindPass
  BY <1>3, FindPassFacts DEF FindPass
<1>4. CASE WaitTimer
  BY <1>4 DEF WaitTimer
<1>5. CASE OpenWindow
  BY <1>5 DEF OpenWindow, SatTransmissionTime
<1>6. CASE WindowOver
  BY <1>6 DEF WindowOver
<1>7. CASE SatTimerFire
  BY <1>7 DEF SatTimerFire
<1>8. CASE WindowFails
  BY <1>8 DEF WindowFails
<1>9. QED
  BY <1>1, <1>2, <1>3, <1>4, <1>5, <1>6, <1>7, <1>8
     DEF Next, Provisioning, Main, Search

(* What the timer wakes main() for is due.                                 *)
LEMMA DueStep ==
  ASSUME IndInv, Next
  PROVE  ChosenDue'
<1>0. /\ timer_sem \in {0, 1} /\ now \in Nat /\ sat_timer \in Nat \cup {Off}
      /\ \A p \in armed : p.start \in Nat
  BY DEF IndInv, TypeOK
<1> USE DEF IndInv, ChosenServed, ChosenDue, TimerNearPass, Off
<1>1. CASE SetUtc \/ SetEphemeris \/ SetLocation \/ Disconnect \/ SchedStart
            \/ SkipPass \/ SearchOn \/ NoPass \/ StatusCount \/ StatusCopy
  BY <1>1 DEF SetUtc, SetEphemeris, SetLocation, Disconnect, SchedStart,
              SkipPass, SearchOn, NoPass, StatusCount, StatusCopy
<1>2. CASE ArmTable
  BY <1>2 DEF ArmTable, ArmTimer
<1>3. CASE FindPass
  BY <1>3 DEF FindPass, ArmTimer
<1>4. CASE WaitTimer
  BY <1>4 DEF WaitTimer
<1>5. CASE OpenWindow
  BY <1>5 DEF OpenWindow, SatTransmissionTime
<1>6. CASE WindowOver
  BY <1>6 DEF WindowOver
<1>7. CASE SatTimerFire
  <2>1. sat_timer # Off /\ sat_timer \in Nat /\ sat_timer <= now
    BY <1>0, <1>7 DEF SatTimerFire
  <2>2. PICK p \in armed :
          IF prediction
            THEN p.start - Second < sat_timer /\ sat_timer <= p.start
            ELSE p.start <= sat_timer /\ sat_timer < p.start + Second
    BY <2>1
  <2>3. IF prediction THEN p.start - Second < now ELSE p.start <= now
    BY <1>0, <2>1, <2>2, SecondAssumption
  <2>4. armed = {p}
    BY <2>2 DEF Current
  <2>5. QED
    BY <1>7, <2>3, <2>4 DEF SatTimerFire
<1>8. CASE WindowFails
  BY <1>8 DEF WindowFails
<1>9. CASE Tick
  BY <1>0, <1>9, SecondAssumption DEF Tick
<1>10. QED
  BY <1>1, <1>2, <1>3, <1>4, <1>5, <1>6, <1>7, <1>8, <1>9
     DEF Next, Provisioning, Main, Search

(* The window lasts to the end of the pass.                                *)
LEMMA CoverStep ==
  ASSUME IndInv, Next
  PROVE  WindowCoversPass'
<1>0. TypeOK /\ TypeOK'
  BY TypeStep DEF IndInv
<1> USE DEF IndInv, ChosenServed, ChosenDue, WindowCoversPass, TypeOK, Current
<1>1. CASE SetUtc \/ SetEphemeris \/ SetLocation \/ Disconnect \/ SchedStart
            \/ SkipPass \/ SearchOn \/ NoPass \/ StatusCount \/ StatusCopy
            \/ Tick
  BY <1>1 DEF SetUtc, SetEphemeris, SetLocation, Disconnect, SchedStart,
              SkipPass, SearchOn, NoPass, StatusCount, StatusCopy, Tick
<1>2. CASE ArmTable
  BY <1>2 DEF ArmTable, ArmTimer
<1>3. CASE FindPass
  BY <1>3 DEF FindPass, ArmTimer
<1>4. CASE WaitTimer
  BY <1>4 DEF WaitTimer
<1>5. CASE OpenWindow
  BY <1>5, EntryTypes DEF OpenWindow, SatTransmissionTime, InTicks, End
<1>6. CASE WindowOver
  BY <1>6 DEF WindowOver
<1>7. CASE SatTimerFire
  BY <1>7 DEF SatTimerFire
<1>8. CASE WindowFails
  BY <1>8 DEF WindowFails
<1>9. QED
  BY <1>1, <1>2, <1>3, <1>4, <1>5, <1>6, <1>7, <1>8
     DEF Next, Provisioning, Main, Search

(* The cursor passes over what has begun.                                  *)
LEMMA CursorStep ==
  ASSUME IndInv, Next
  PROVE  CursorBehind'
<1>0. /\ now \in Nat /\ idx \in 0..Len(passes) /\ Len(passes) \in Nat
      /\ \A i \in 1..Len(passes) :
           /\ passes[i].start * Second \in Nat
           /\ HasBegun(passes[i]) <=> passes[i].start * Second <= now
  BY TableBegun DEF IndInv, TypeOK
<1> USE DEF IndInv, CursorBehind
<1>1. CASE SetUtc \/ SetLocation \/ Disconnect \/ SchedStart \/ ArmTable
           \/ SearchOn \/ FindPass \/ NoPass \/ WaitTimer \/ OpenWindow
           \/ WindowOver \/ SatTimerFire \/ WindowFails \/ StatusCount
           \/ StatusCopy
  BY <1>1 DEF SetUtc, SetLocation, Disconnect, SchedStart, ArmTable, ArmTimer,
              SearchOn, FindPass, NextPassGet, NoPass, WaitTimer, OpenWindow,
              WindowOver, SatTimerFire, WindowFails, StatusCount, StatusCopy
<1>2. CASE SetEphemeris
  BY <1>2, TableGrows, <1>0 DEF SetEphemeris
<1>3. CASE SkipPass
  BY <1>0, <1>3 DEF SkipPass, HasBegun
<1>4. CASE Tick
  BY <1>0, <1>4 DEF Tick
<1>5. QED
  BY <1>1, <1>2, <1>3, <1>4
     DEF Next, Provisioning, Main, Search

(* The search leaves behind what is under way, and what it covers.         *)
LEMMA SearchStep ==
  ASSUME IndInv, Next
  PROVE  SearchBehind'
<1>0. /\ now \in Nat
      /\ \A q \in Orbit[device_pos] :
           q.start \in Nat /\ End(q) \in Nat /\ End(q) > q.start
  BY PassTypes DEF IndInv, TypeOK
<1> USE DEF IndInv, SearchBehind, Covered
<1>1. CASE SetUtc \/ SetEphemeris \/ SkipPass \/ ArmTable \/ NoPass
           \/ WaitTimer \/ OpenWindow \/ WindowOver \/ SatTimerFire
           \/ WindowFails \/ StatusCount \/ StatusCopy \/ SetLocation
           \/ Disconnect \/ FindPass \/ Tick
  BY <1>1 DEF SetUtc, SetEphemeris, SkipPass, ArmTable, ArmTimer, NoPass,
              WaitTimer, OpenWindow, WindowOver, SatTimerFire, WindowFails,
              StatusCount, StatusCopy, SetLocation, Disconnect, FindPass, Tick
<1>2. CASE SchedStart
  BY <1>0, <1>2 DEF SchedStart
<1>3. CASE SearchOn
  <2>1. PICK p \in Orbit[device_pos] : p.start <= now /\ t' = End(p)
    BY <1>3 DEF SearchOn, NextPassGet
  <2>2. QED
    BY <1>3, <2>1 DEF SearchOn
<1>4. QED
  BY <1>1, <1>2, <1>3
     DEF Next, Provisioning, Main, Search

(* The last pass chosen lies behind, or what is before it is covered.      *)
LEMMA LastStep ==
  ASSUME IndInv, Next
  PROVE  LastBehind'
<1>0. /\ TypeOK /\ now \in Nat /\ last \in Nat /\ t \in Nat
      /\ \A q \in Orbit[device_pos] : q.start \in Nat /\ End(q) \in Nat
  BY PassTypes DEF IndInv, TypeOK
<1> USE DEF IndInv, LastBehind, Covered, ChosenServed, ChosenDue
<1>1. CASE SetUtc \/ SetEphemeris \/ Disconnect \/ SchedStart \/ SkipPass
           \/ SearchOn \/ NoPass \/ WaitTimer \/ OpenWindow \/ SatTimerFire
           \/ StatusCount \/ StatusCopy
  BY <1>1 DEF SetUtc, SetEphemeris, Disconnect, SchedStart, SkipPass,
              SearchOn, NoPass, WaitTimer, OpenWindow, SatTimerFire,
              StatusCount, StatusCopy
<1>2. CASE SetLocation
  BY <1>0, <1>2, OrbitAssumption DEF SetLocation
<1>3. CASE ArmTable
  BY <1>3, ArmTableFacts DEF ArmTable, ArmTimer
<1>4. CASE FindPass
  <2>1. PICK p \in Orbit[device_pos] :
          /\ last' = p.start
          /\ \A q \in Orbit[device_pos] : End(q) > t => p.start <= q.start
    BY <1>0, <1>4, FindPassFacts
  <2>2. QED
    BY <1>0, <1>4, <2>1 DEF FindPass, SearchBehind, ArmTimer
<1>5. CASE WindowOver
  BY <1>5 DEF WindowOver
<1>6. CASE WindowFails
  BY <1>6 DEF WindowFails
<1>7. CASE Tick
  BY <1>0, <1>7 DEF Tick
<1>8. QED
  BY <1>1, <1>2, <1>3, <1>4, <1>5, <1>6, <1>7
     DEF Next, Provisioning, Main, Search

(* main() waits without a timer only beside passes that are gone.          *)
LEMMA NothingLeftStep ==
  ASSUME IndInv, Next
  PROVE  NothingLeft'
<1>0. TypeOK
  BY DEF IndInv
<1> USE DEF IndInv, NothingLeft, HasBegun, End, Off
<1>1. CASE SetUtc \/ StatusCount \/ StatusCopy \/ SetEphemeris \/ SetLocation
            \/ Disconnect \/ SchedStart \/ SkipPass \/ SearchOn \/ WaitTimer
            \/ OpenWindow \/ SatTimerFire \/ WindowOver \/ WindowFails
  BY <1>1 DEF SetUtc, StatusCount, StatusCopy, SetEphemeris, SetLocation,
              Disconnect, SchedStart, SkipPass, SearchOn, WaitTimer,
              OpenWindow, SatTimerFire, WindowOver, WindowFails
<1>2. CASE ArmTable
  BY <1>2, <1>0, ArmTableFacts DEF ArmTable, ArmTimer
<1>3. CASE FindPass
  BY <1>3, <1>0, FindPassFacts DEF FindPass, ArmTimer
<1>4. CASE NoPass
  <2>1. CASE prediction
    BY <1>0, <1>4, <2>1, NothingAhead DEF NoPass, SearchBehind, Covered
  <2>2. CASE ~prediction
    <3>1. \A i \in 1..Len(passes) : HasBegun(passes[i])
      BY <1>0, <1>4, <2>2, TableBegun DEF NoPass, CursorBehind, TypeOK
    <3>2. UNCHANGED <<prediction, now, passes>>
      BY <1>4 DEF NoPass
    <3>3. QED
      BY <2>2, <3>1, <3>2
  <2>3. QED
    BY <2>1, <2>2
<1>5. CASE Tick
  <2>1. now \in Nat /\ now' = now + 1 /\ now' \in Nat
    BY <1>0, <1>5 DEF Tick, TypeOK
  <2>2. \A i \in 1..Len(passes) : HasBegun(passes[i]) => HasBegun(passes[i])'
    <3> SUFFICES ASSUME NEW i \in 1..Len(passes),
                        passes[i].start < now \div Second + 1
                 PROVE  passes[i].start < now' \div Second + 1
      BY <1>5 DEF Tick
    <3>1. passes[i].start \in Nat /\ passes[i].start * Second \in Nat
      BY <1>0, EntryTypes, SecondAssumption
    <3>2. passes[i].start * Second <= now'
      BY <2>1, <3>1, BegunInTicks
    <3>3. QED
      BY <2>1, <3>1, <3>2, BegunInTicks
  <2>3. CASE prediction
    <3>1. \A q \in Orbit[device_pos] : q.start \in Nat
      BY <1>0, PassTypes
    <3>2. QED
      BY <1>5, <2>1, <2>3, <3>1 DEF Tick
  <2>4. CASE ~prediction
    BY <1>5, <2>2, <2>4 DEF Tick
  <2>5. QED
    BY <2>3, <2>4
<1>6. QED
  BY <1>1, <1>2, <1>3, <1>4, <1>5
     DEF Next, Provisioning, Main, Search

(* The cursor only moves on, and the table only grows.                     *)
LEMMA StatusStep ==
  ASSUME IndInv, Next
  PROVE  (StatusBehind /\ StatusInTable)'
<1>0. /\ idx \in Nat /\ Len(passes) \in Nat
      /\ status.from \in Nat /\ status.left \in Nat /\ status.i \in Nat
      /\ idx <= Len(passes)
  BY SizeAssumption DEF IndInv, TypeOK
<1>a. SetEphemeris => Len(passes') \in Nat /\ Len(passes) <= Len(passes')
  BY TableGrows DEF IndInv
<1> USE DEF IndInv, StatusBehind, StatusInTable
<1>1. CASE SetUtc \/ SetLocation \/ Disconnect \/ SchedStart \/ ArmTable
           \/ SearchOn \/ FindPass \/ NoPass \/ WaitTimer \/ OpenWindow
           \/ WindowOver \/ SatTimerFire \/ WindowFails \/ Tick
  BY <1>1 DEF SetUtc, SetLocation, Disconnect, SchedStart, ArmTable, ArmTimer,
              SearchOn, FindPass, NextPassGet, NoPass, WaitTimer, OpenWindow,
              WindowOver, SatTimerFire, WindowFails, Tick
<1>2. CASE SetEphemeris
  <2>1. UNCHANGED <<idx, status>>
    BY <1>2 DEF SetEphemeris
  <2>2. QED
    BY <1>0, <1>2, <1>a, <2>1
<1>3. CASE SkipPass
  BY <1>0, <1>3 DEF SkipPass
<1>4. CASE StatusCount
  <2>1. /\ status'.from = idx /\ status'.beyond = FALSE
        /\ status'.left <= Len(passes) - idx /\ status'.left \in Nat
    BY <1>0, <1>4, SizeAssumption DEF StatusCount, Least
  <2>2. idx' = idx /\ passes' = passes
    BY <1>4 DEF StatusCount
  <2>3. QED
    BY <1>0, <2>1, <2>2
<1>5. CASE StatusCopy
  <2>1. /\ status'.from = status.from /\ status'.left = status.left
        /\ status'.beyond = (status.beyond \/ idx + status.i >= Len(passes))
    BY <1>5 DEF StatusCopy
  <2>2. status.i < status.left /\ idx' = idx /\ passes' = passes
    BY <1>5 DEF StatusCopy
  <2>3. idx + status.i >= Len(passes) => idx # status.from
    BY <1>0, <2>2
  <2>4. QED
    BY <2>1, <2>2, <2>3
<1>6. QED
  BY <1>1, <1>2, <1>3, <1>4, <1>5
     DEF Next, Provisioning, Main, Search

(* The inductive invariant survives every step.                            *)
LEMMA StepInv == IndInv /\ [Next]_vars => IndInv'
<1>1. ASSUME IndInv, Next PROVE IndInv'
  BY <1>1, TypeStep, ServedStep, TimerStep, DueStep, CoverStep, CursorStep,
     SearchStep, LastStep, NothingLeftStep, StatusStep DEF IndInv
<1>2. ASSUME IndInv, UNCHANGED vars PROVE IndInv'
  BY <1>2 DEF IndInv, TypeOK, ChosenServed, ChosenDue, TimerNearPass,
              WindowCoversPass, CursorBehind, SearchBehind, LastBehind,
              NothingLeft, StatusBehind, StatusInTable, Current, Covered,
              HasBegun
<1>3. QED
  BY <1>1, <1>2

-----------------------------------------------------------------------------
(* In every reachable state of either build the timer, the cursor, the     *)
(* search and the window are about one pass, and everything left behind    *)
(* has begun or is covered by a pass that has.                             *)
THEOREM Invariance == Spec => []IndInv
<1>1. Init => IndInv
  BY InitInv
<1>2. IndInv /\ [Next]_vars => IndInv'
  BY StepInv
<1>3. QED
  BY <1>1, <1>2, PTL DEF Spec

(* Every variable keeps its type: the table stays within its size and the  *)
(* cursor within the table.                                                *)
THEOREM TypeCorrect == Spec => []TypeOK
<1>1. IndInv => TypeOK
  BY DEF IndInv
<1>2. QED
  BY <1>1, Invariance, PTL

(* From arming to the end of the window timer, cursor, duration and status *)
(* are about one pass, the timer expires within a second of its beginning, *)
(* and the loop of the table build lasts to its end, whatever the length   *)
(* of a second and however time falls between its ticks.                   *)
THEOREM OnePassCorrect == Spec => []OnePassThroughout
<1>1. IndInv => OnePassThroughout
  BY DEF IndInv, ChosenServed, OnePassThroughout
<1>2. QED
  BY <1>1, Invariance, PTL

(* main() never waits without a timer beside a pass it could have served.  *)
THEOREM NothingLeftCorrect == Spec => []NothingLeft
<1>1. IndInv => NothingLeft
  BY DEF IndInv
<1>2. QED
  BY <1>1, Invariance, PTL

(* The status command leaves the table only if main() moved the cursor     *)
(* between its reads.                                                      *)
THEOREM StatusCorrect == Spec => []StatusInTable
<1>1. IndInv => StatusInTable
  BY DEF IndInv
<1>2. QED
  BY <1>1, Invariance, PTL

(* Only the two armings start the timer.                                   *)
LEMMA ArmingSteps ==
  ASSUME Next, Arming
  PROVE  ArmTable \/ FindPass
<1>1. CASE Provisioning
  BY <1>1 DEF Provisioning, SetUtc, SetEphemeris, SetLocation, Disconnect,
              Arming
<1>2. CASE Main
  BY <1>2 DEF Main, SchedStart, Search, SkipPass, SearchOn, NoPass, WaitTimer,
              OpenWindow, WindowOver, Arming
<1>3. CASE SatTimerFire \/ WindowFails \/ Tick \/ StatusCount \/ StatusCopy
  BY <1>3 DEF SatTimerFire, WindowFails, Tick, StatusCount, StatusCopy, Arming
<1>4. QED
  BY <1>1, <1>2, <1>3 DEF Next

(* What is armed is to come, and the earliest of what is to come.          *)
LEMMA EarliestStep ==
  ASSUME IndInv, Next, Arming
  PROVE  \A p \in armed' :
           /\ p.start > now
           /\ ~prediction /\ InOrder =>
                \A e \in {passes[i] : i \in 1..Len(passes)} :
                  e.start * Second > now => p.start <= e.start * Second
           /\ prediction =>
                \A q \in Orbit[device_pos] :
                  q.start > now /\ q.start < p.start =>
                    \E r \in Orbit[device_pos] :
                      r.start <= now /\ End(q) <= End(r)
<1>1. TypeOK /\ now \in Nat /\ t \in Nat
  BY DEF IndInv, TypeOK
<1>2. CASE ArmTable
  <2> DEFINE p == InTicks(passes[idx + 1])
  <2>1. /\ idx + 1 \in 1..Len(passes) /\ armed' = {p}
        /\ p.start > now /\ p.start = passes[idx + 1].start * Second
    BY <1>1, <1>2, ArmTableFacts
  <2>2. ~prediction
    BY <1>2 DEF ArmTable
  <2>3. ASSUME InOrder, NEW i \in 1..Len(passes),
               passes[i].start * Second > now
        PROVE  p.start <= passes[i].start * Second
    <3>1. idx < i
      BY <1>1, <2>2, <2>3, TableBegun DEF IndInv, CursorBehind, TypeOK
    <3>2. passes[idx + 1].start <= passes[i].start
      BY <1>1, <2>1, <2>3, <3>1, EntryTypes DEF InOrder, TypeOK
    <3>3. passes[idx + 1].start \in Nat /\ passes[i].start \in Nat
      BY <1>1, <2>1, EntryTypes
    <3>4. QED
      BY <2>1, <3>2, <3>3, SecondsOrder
  <2>4. QED
    BY <2>1, <2>2, <2>3
<1>3. CASE FindPass
  <2>1. PICK p \in Orbit[device_pos] :
          /\ p.start > now /\ armed' = {p}
          /\ \A q \in Orbit[device_pos] : End(q) > t => p.start <= q.start
    BY <1>1, <1>3, FindPassFacts
  <2>2. prediction /\ at = "search"
    BY <1>3 DEF FindPass
  <2>3. ASSUME NEW q \in Orbit[device_pos], q.start > now, q.start < p.start
        PROVE  Covered(q)
    <3>1. q.start \in Nat /\ p.start \in Nat /\ End(q) \in Nat
      BY <1>1, PassTypes
    <3>2. End(q) <= t
      BY <1>1, <2>1, <2>3, <3>1
    <3>3. QED
      BY <2>2, <2>3, <3>2 DEF IndInv, SearchBehind
  <2>4. QED
    BY <2>1, <2>2, <2>3 DEF Covered
<1>4. QED
  BY <1>2, <1>3, ArmingSteps

(* The pass armed is to come and the earliest there is, but for a pass     *)
(* over before one under way is, or a table that is not in order.          *)
THEOREM EarliestCorrect == Spec => EarliestArmed
<1>1. IndInv /\ [Next]_vars =>
        [Arming =>
           \A p \in armed' :
             /\ p.start > now
             /\ ~prediction /\ InOrder =>
                  \A e \in {passes[i] : i \in 1..Len(passes)} :
                    e.start * Second > now => p.start <= e.start * Second
             /\ prediction =>
                  \A q \in Orbit[device_pos] :
                    q.start > now /\ q.start < p.start =>
                      \E r \in Orbit[device_pos] :
                        r.start <= now /\ End(q) <= End(r)]_vars
  BY EarliestStep
<1>2. QED
  BY <1>1, Invariance, PTL DEF Spec, EarliestArmed

-----------------------------------------------------------------------------
(* The schedule implements PassWindows.                                    *)

(* An entry the companion may send is a pass there may be...               *)
LEMMA ListedPossible ==
  ASSUME NEW e \in Listed
  PROVE  InTicks(e) \in Possible
  BY DEF Possible

(* ...and so is a pass over a place the device may be at.                  *)
LEMMA OrbitPossible ==
  ASSUME NEW pos \in Locations, NEW p \in Orbit[pos]
  PROVE  p \in Possible
  BY DEF Possible

(* The passes known are passes there may be.                               *)
LEMMA KnownPasses ==
  ASSUME NEW pos \in Locations, NEW table \in Seq(Listed)
  PROVE  (IF prediction THEN Orbit[pos]
                        ELSE {InTicks(table[i]) : i \in 1..Len(table)})
            \in SUBSET Possible
<1>1. \A i \in 1..Len(table) : table[i] \in Listed
  OBVIOUS
<1>2. \A i \in 1..Len(table) : InTicks(table[i]) \in Possible
  BY <1>1, ListedPossible
<1>3. \A p \in Orbit[pos] : p \in Possible
  BY OrbitPossible
<1>4. QED
  BY <1>2, <1>3

(* A step that changes neither the build nor what was learned leaves the   *)
(* passes known.                                                           *)
LEMMA KnownStays ==
  ASSUME UNCHANGED <<prediction, device_pos, passes>>
  PROVE  Known' = Known
  BY DEF Known

(* The initial states are initial states of PassWindows.                   *)
LEMMA InitRefines == Init => Windows!Init
<1> SUFFICES ASSUME Init PROVE Windows!Init
  OBVIOUS
<1>1. TypeOK
  BY InitInv DEF IndInv
<1>2. Known \in SUBSET Possible
  BY <1>1, KnownPasses DEF TypeOK, Known
<1>3. QED
  BY <1>2 DEF Init, Windows!Init

(* Every step of the schedule is a step of PassWindows or a stutter.       *)
LEMMA StepRefines ==
  ASSUME IndInv, [Next]_vars
  PROVE  [Windows!Next]_Windows!vars
<1> USE DEF Windows!vars
<1>1. /\ TypeOK /\ TypeOK' /\ now \in Nat /\ t \in Nat /\ last \in Nat
      /\ \A p \in armed : p.start \in Nat
  BY StepInv DEF IndInv, TypeOK
<1>2. CASE UNCHANGED vars \/ SchedStart \/ SkipPass \/ SearchOn \/ NoPass
             \/ SatTimerFire \/ WaitTimer \/ StatusCount \/ StatusCopy
  <2>1. /\ UNCHANGED <<prediction, device_pos, passes, now, armed, last>>
        /\ (at # "provision") <=> (at' # "provision")
        /\ (at = "window") <=> (at' = "window")
    BY <1>2 DEF SchedStart, SkipPass, SearchOn, NoPass, SatTimerFire,
                WaitTimer, StatusCount, StatusCopy
  <2>2. QED
    BY <2>1, KnownStays
<1>3. CASE SetUtc
  BY <1>3 DEF SetUtc, Known
<1>4. CASE SetEphemeris \/ SetLocation
  <2>1. Known' \in SUBSET Possible
    <3>1. device_pos' \in Locations /\ passes' \in Seq(Listed)
      BY <1>1 DEF TypeOK
    <3>2. prediction' = prediction
      BY <1>4 DEF SetEphemeris, SetLocation
    <3>3. QED
      BY <3>1, <3>2, KnownPasses DEF Known
  <2>2. Windows!Learn
    BY <1>4, <2>1 DEF SetEphemeris, SetLocation, Windows!Learn
  <2>3. QED
    BY <2>2 DEF Windows!Next
<1>5. CASE Disconnect
  <2>1. Windows!Start
    BY <1>5 DEF Disconnect, Windows!Start, Known
  <2>2. QED
    BY <2>1 DEF Windows!Next
<1>6. CASE ArmTable
  <2> DEFINE p == InTicks(passes[idx + 1])
  <2>1. /\ idx + 1 \in 1..Len(passes) /\ armed' = {p} /\ last' = p.start
        /\ p.start \in Nat /\ p.start > now
    BY <1>1, <1>6, ArmTableFacts
  <2>2. p \in Known
    BY <1>6, <2>1 DEF ArmTable, Known
  <2>3. armed = {} /\ p.start >= last
    BY <1>1, <1>6, <2>1 DEF ArmTable, IndInv, ChosenServed, LastBehind
  <2>4. /\ UNCHANGED <<now, Known>>
        /\ (at # "provision") /\ (at' # "provision")
        /\ (at # "window") /\ (at' # "window")
    BY <1>6 DEF ArmTable, Known
  <2>5. Windows!Choose
    BY <2>1, <2>2, <2>3, <2>4 DEF Windows!Choose
  <2>6. QED
    BY <2>5 DEF Windows!Next
<1>7. CASE FindPass
  <2>1. PICK p \in Orbit[device_pos] :
          /\ p.start \in Nat /\ p.start > now /\ End(p) > t
          /\ armed' = {p} /\ last' = p.start
          /\ \A q \in Orbit[device_pos] : End(q) > t => p.start <= q.start
    BY <1>1, <1>7, FindPassFacts
  <2>2. p \in Known
    BY <1>7 DEF FindPass, Known
  <2>3. armed = {}
    BY <1>7 DEF FindPass, IndInv, ChosenServed
  <2>4. p.start >= last
    <3> SUFFICES ASSUME p.start < last PROVE FALSE
      BY <1>1, <2>1
    <3>1. PICK r \in Orbit[device_pos] : r.start <= now /\ End(p) <= End(r)
      BY <1>7, <2>1 DEF FindPass, IndInv, LastBehind, Covered
    <3>2. /\ r.start \in Nat /\ End(r) \in Nat /\ End(p) \in Nat
      BY <1>1, PassTypes
    <3>3. QED
      BY <1>1, <2>1, <3>1, <3>2
  <2>5. /\ UNCHANGED <<now, Known>>
        /\ (at # "provision") /\ (at' # "provision")
        /\ (at # "window") /\ (at' # "window")
    BY <1>7 DEF FindPass, Known
  <2>6. Windows!Choose
    BY <2>1, <2>2, <2>3, <2>4, <2>5 DEF Windows!Choose
  <2>7. QED
    BY <2>6 DEF Windows!Next
<1>8. CASE OpenWindow
  <2>1. PICK p \in armed :
          IF prediction THEN p.start - Second < now ELSE p.start <= now
    BY <1>8 DEF OpenWindow, IndInv, ChosenServed, ChosenDue
  <2>2. now > p.start - Second
    BY <1>1, <2>1, SecondAssumption
  <2>3. Windows!Open
    BY <1>8, <2>2 DEF OpenWindow, Windows!Open, Known
  <2>4. QED
    BY <2>3 DEF Windows!Next
<1>9. CASE WindowOver \/ WindowFails
  <2>1. Windows!Close
    <3>1. /\ UNCHANGED <<prediction, device_pos, passes, now, last>>
          /\ at # "provision" /\ at' = "sched" /\ armed' = {}
      BY <1>9 DEF WindowOver, WindowFails
    <3>2. armed # {}
      BY <1>9 DEF WindowOver, WindowFails, IndInv, ChosenServed
    <3>3. QED
      BY <3>1, <3>2, KnownStays DEF Windows!Close
  <2>2. QED
    BY <2>1 DEF Windows!Next
<1>10. CASE Tick
  <2>1. Windows!Tick
    BY <1>1, <1>10 DEF Tick, Windows!Tick, Known
  <2>2. QED
    BY <2>1 DEF Windows!Next
<1>11. QED
  BY <1>2, <1>3, <1>4, <1>5, <1>6, <1>7, <1>8, <1>9, <1>10
     DEF Next, Provisioning, Main, Search

(* The table, the search, the timer and the loop of main() implement       *)
(* PassWindows: one pass at a time, chosen while it is to come, in the     *)
(* order of their starts, each opened once and never a second early.       *)
THEOREM Refinement == Spec => ScheduleRefines
<1>1. Init => Windows!Init
  BY InitRefines
<1>2. IndInv /\ [Next]_vars => [Windows!Next]_Windows!vars
  BY StepRefines
<1>3. QED
  BY <1>1, <1>2, Invariance, PTL DEF Spec, ScheduleRefines, Windows!Spec

=============================================================================
