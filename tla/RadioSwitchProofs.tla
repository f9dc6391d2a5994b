------------------------- MODULE RadioSwitchProofs -------------------------
(***************************************************************************)
(* Proofs about RadioSwitch, for every set of shell threads and every set  *)
(* of faults. The inductive invariant IndInv is proved one named part at a *)
(* time: a lemma per part (or per pair that is inductive together), with a *)
(* step per action, each from the parts before it. The theorems at the end *)
(* read the properties off IndInv.                                         *)
(***************************************************************************)
EXTENDS RadioSwitch, TLAPS

(* bt_disable submits at most the provisioning item.                       *)
LEMMA DisabledWork ==
  ASSUME BtDisable
  PROVE  work' = work \/ work' = work \cup {"prov"}
BY Zenon DEF BtDisable, OnDisconnected

(* Types. The flags, which the SMT backend takes badly, go to Zenon apart. *)
LEMMA TypeStep ==
  ASSUME TypeOK, [Next]_vars
  PROVE  TypeOK'
<1> USE ShellsAssumption DEF TypeOK, LapseKinds, MainLabels, UserLabels,
       EnableSection, DisableSection, WorkLabels, BootLabels, Powered,
       SatSection, Threads, Users, Goto, Lock, Unlock, AfterEnable,
       AfterDisable, SemGive, SetMark, PowerOn, radioVars, semVars, timerVars
<1>1. CASE BootStart
  BY <1>1 DEF BootStart, FlagsOK
<1>2. CASE BootBt
  BY <1>2 DEF BootBt, FlagsOK
<1>3. CASE BootAdv
  <2>1. FlagsOK'
    BY <1>3, Zenon DEF BootAdv, BtDisable, OnDisconnected, FlagsOK
  <2>2. init_sem' \in {0, 1}
    BY <1>3 DEF BootAdv, BtDisable, OnDisconnected
  <2>3. work' \subseteq {"button", "ble", "prov"}
    BY <1>3, DisabledWork DEF BootAdv
  <2>4. /\ bt' \in {bt, "off"} /\ net' \in {net, "off"}
        /\ adv' \in {adv, "none", "conn"}
    BY <1>3 DEF BootAdv, BtDisable
  <2> QED
    BY <1>3, <2>1, <2>2, <2>3, <2>4 DEF BootAdv
<1>4. CASE WaitInit
  BY <1>4 DEF WaitInit, FlagsOK
<1>5. CASE WaitKey
  BY <1>5 DEF WaitKey, FlagsOK
<1>6. CASE Sched
  <2>1. FlagsOK'
    BY <1>6, Zenon DEF Sched, FlagsOK
  <2> QED
    BY <1>6, <2>1 DEF Sched
<1>7. CASE WaitTimer
  BY <1>7 DEF WaitTimer, FlagsOK
<1>8. CASE SatLock
  BY <1>8 DEF SatLock, FlagsOK
<1>9. CASE SatMark
  BY <1>9 DEF SatMark, FlagsOK
<1>10. CASE SatOpen
  BY <1>10 DEF SatOpen, FlagsOK
<1>11. CASE SatBind
  BY <1>11 DEF SatBind, FlagsOK
<1>12. CASE SatInit
  BY <1>12 DEF SatInit, FlagsOK
<1>13. CASE SatTx
  BY <1>13 DEF SatTx, FlagsOK
<1>14. CASE SatStop
  BY <1>14 DEF SatStop, FlagsOK
<1>15. CASE SatUnlock
  BY <1>15 DEF SatUnlock, FlagsOK
<1>16. CASE SatDone
  BY <1>16 DEF SatDone, FlagsOK
<1>17. ASSUME NEW t \in Threads, BtReady(t)
      PROVE  TypeOK'
  BY <1>17 DEF BtReady, FlagsOK
<1>18. ASSUME NEW t \in Threads, BtFailed(t)
      PROVE  TypeOK'
  BY <1>18 DEF BtFailed, FlagsOK
<1>19. ASSUME NEW t \in Threads, EnLock(t)
      PROVE  TypeOK'
  <2>1. FlagsOK'
    BY <1>19, Zenon DEF EnLock, LeftOffByUser, NoteLapse, WindowOf, FlagsOK
  <2> QED
    BY <1>19, <2>1 DEF EnLock, LeftOffByUser, NoteLapse, WindowOf
<1>20. ASSUME NEW t \in Threads, EnBt(t)
      PROVE  TypeOK'
  BY <1>20 DEF EnBt, FlagsOK
<1>21. ASSUME NEW t \in Threads, EnAdv(t)
      PROVE  TypeOK'
  <2>1. FlagsOK'
    BY <1>21, Zenon DEF EnAdv, AdvStart, ArmRefresh, FlagsOK
  <2> QED
    BY <1>21, <2>1 DEF EnAdv, AdvStart, ArmRefresh
<1>22. ASSUME NEW t \in Threads, EnBeacon(t)
      PROVE  TypeOK'
  BY <1>22 DEF EnBeacon, AdvStart, FlagsOK
<1>23. ASSUME NEW t \in Threads, DisLock(t)
      PROVE  TypeOK'
  <2>1. FlagsOK'
    BY <1>23, Zenon DEF DisLock, FlagsOK
  <2> QED
    BY <1>23, <2>1 DEF DisLock
<1>24. ASSUME NEW t \in Threads, DisStop(t)
      PROVE  TypeOK'
  BY <1>24 DEF DisStop, FlagsOK
<1>25. ASSUME NEW t \in Threads, DisTimer(t)
      PROVE  TypeOK'
  <2>1. FlagsOK'
    BY <1>25, Zenon DEF DisTimer, FlagsOK
  <2> QED
    BY <1>25, <2>1 DEF DisTimer
<1>26. ASSUME NEW t \in Threads, DisBt(t)
      PROVE  TypeOK'
  <2>1. FlagsOK'
    BY <1>26, Zenon DEF DisBt, BtDisable, OnDisconnected, FlagsOK
  <2>2. init_sem' \in {0, 1}
    BY <1>26 DEF DisBt, BtDisable, OnDisconnected
  <2>3. work' \subseteq {"button", "ble", "prov"}
    BY <1>26, DisabledWork DEF DisBt
  <2>4. /\ bt' \in {bt, "off"} /\ net' \in {net, "off"}
        /\ adv' \in {adv, "none", "conn"}
    BY <1>26 DEF DisBt, BtDisable
  <2> QED
    BY <1>26, <2>1, <2>2, <2>3, <2>4 DEF DisBt
<1>27. CASE TakeButton
  BY <1>27 DEF TakeButton, FlagsOK
<1>28. CASE TakeBeacon
  BY <1>28 DEF TakeBeacon, FlagsOK
<1>29. CASE TakeProvisioning
  BY <1>29 DEF TakeProvisioning, AdvStart, FlagsOK
<1>30. CASE WorkStop
  <2>1. FlagsOK'
    BY <1>30, Zenon DEF WorkStop, FlagsOK
  <2> QED
    BY <1>30, <2>1 DEF WorkStop
<1>31. CASE WorkArm
  <2>1. FlagsOK'
    BY <1>31, Zenon DEF WorkArm, ArmRefresh, FlagsOK
  <2> QED
    BY <1>31, <2>1 DEF WorkArm, ArmRefresh
<1>32. CASE WorkBeacon
  BY <1>32 DEF WorkBeacon, AdvStart, FlagsOK
<1>33. CASE ButtonPress
  BY <1>33 DEF ButtonPress, FlagsOK
<1>34. CASE BleTimerFire
  <2>1. FlagsOK'
    BY <1>34, Zenon DEF BleTimerFire, FlagsOK
  <2> QED
    BY <1>34, <2>1 DEF BleTimerFire
<1>35. CASE SatTimerFire
  <2>1. FlagsOK'
    BY <1>35, Zenon DEF SatTimerFire, FlagsOK
  <2> QED
    BY <1>35, <2>1 DEF SatTimerFire
<1>36. CASE Connected
  <2>1. FlagsOK'
    BY <1>36, Zenon DEF Connected, FlagsOK
  <2> QED
    BY <1>36, <2>1 DEF Connected
<1>37. CASE WriteUtc
  <2>1. FlagsOK'
    BY <1>37, Zenon DEF WriteUtc, FlagsOK
  <2> QED
    BY <1>37, <2>1 DEF WriteUtc
<1>38. CASE Disconnected
  <2>1. FlagsOK'
    BY <1>38, Zenon DEF Disconnected, OnDisconnected, FlagsOK
  <2>2. init_sem' \in {0, 1}
    BY <1>38 DEF Disconnected, OnDisconnected
  <2>3. work' \subseteq {"button", "ble", "prov"}
    BY <1>38 DEF Disconnected, OnDisconnected
  <2> QED
    BY <1>38, <2>1, <2>2, <2>3 DEF Disconnected
<1>39. CASE NetBoot
  BY <1>39 DEF NetBoot, FlagsOK
<1>40. CASE NetBind
  BY <1>40 DEF NetBind, FlagsOK
<1>41. ASSUME NEW t \in Shells,
             ShellBluetooth(t)
      PROVE  TypeOK'
  BY <1>41 DEF ShellBluetooth, FlagsOK
<1>42. ASSUME NEW t \in Shells,
             ShellKey(t)
      PROVE  TypeOK'
  BY <1>42 DEF ShellKey, FlagsOK
<1>43. CASE UNCHANGED vars
  BY <1>43 DEF vars, FlagsOK
<1> QED
  BY <1>1, <1>2, <1>3, <1>4, <1>5, <1>6, <1>7, <1>8, <1>9, <1>10, <1>11,
     <1>12, <1>13, <1>14, <1>15, <1>16, <1>17, <1>18, <1>19, <1>20, <1>21,
     <1>22, <1>23, <1>24, <1>25, <1>26, <1>27, <1>28, <1>29, <1>30, <1>31,
     <1>32, <1>33, <1>34, <1>35, <1>36, <1>37, <1>38, <1>39, <1>40, <1>41,
     <1>42, <1>43
  DEF Next, Boot, Loop, Satellite, BtCall, Enable, Disable, WorkQueue,
      Timer, Shell, Companion, Network

(* Mutual exclusion: a thread enters a critical label only by taking the   *)
(* free mutex, and its last critical label gives it back.                  *)
LEMMA MutexStep ==
  ASSUME TypeOK, MutexOwner, [Next]_vars
  PROVE  MutexOwner'
<1> SUFFICES ASSUME NEW u \in Threads
             PROVE  (pc[u] \in Critical <=> radio_mutex = u)'
  BY DEF MutexOwner
<1> USE ShellsAssumption DEF TypeOK, MutexOwner, Critical, EnableSection,
       DisableSection, WorkLabels, BootLabels, Powered, SatSection, Threads,
       Users, Goto, Lock, Unlock, AfterEnable, AfterDisable, radioVars,
       semVars, timerVars
<1>1. CASE SatLock
  BY <1>1 DEF SatLock
<1>2. CASE SatUnlock
  BY <1>2 DEF SatUnlock
<1>3. ASSUME NEW t \in Threads, BtFailed(t)
      PROVE  (pc[u] \in Critical <=> radio_mutex = u)'
  BY <1>3 DEF BtFailed
<1>4. ASSUME NEW t \in Threads, EnLock(t)
      PROVE  (pc[u] \in Critical <=> radio_mutex = u)'
  BY <1>4 DEF EnLock, LeftOffByUser, NoteLapse, WindowOf
<1>5. ASSUME NEW t \in Threads, EnAdv(t)
      PROVE  (pc[u] \in Critical <=> radio_mutex = u)'
  BY <1>5 DEF EnAdv, AdvStart, ArmRefresh
<1>6. ASSUME NEW t \in Threads, EnBeacon(t)
      PROVE  (pc[u] \in Critical <=> radio_mutex = u)'
  BY <1>6 DEF EnBeacon, AdvStart
<1>7. ASSUME NEW t \in Threads, DisLock(t)
      PROVE  (pc[u] \in Critical <=> radio_mutex = u)'
  BY <1>7 DEF DisLock
<1>8. ASSUME NEW t \in Threads, DisBt(t)
      PROVE  (pc[u] \in Critical <=> radio_mutex = u)'
  BY <1>8 DEF DisBt, BtDisable
<1>9. CASE BootStart \/ BootBt \/ BootAdv \/ WaitInit \/ WaitKey \/ Sched
  <2>1. CASE BootStart
    BY <2>1 DEF BootStart
  <2>2. CASE BootBt
    BY <2>2 DEF BootBt
  <2>3. CASE BootAdv
    BY <2>3 DEF BootAdv, BtDisable
  <2>4. CASE WaitInit
    BY <2>4 DEF WaitInit
  <2>5. CASE WaitKey
    BY <2>5 DEF WaitKey
  <2>6. CASE Sched
    BY <2>6 DEF Sched
  <2> QED
    BY <1>9, <2>1, <2>2, <2>3, <2>4, <2>5, <2>6
<1>10. CASE WaitTimer \/ SatMark \/ SatOpen \/ SatBind \/ SatInit \/ SatTx
  BY <1>10 DEF WaitTimer, SatMark, SatOpen, SatBind, SatInit, SatTx
<1>11. CASE SatStop \/ SatDone \/ TakeButton \/ TakeBeacon
         \/ TakeProvisioning \/ WorkStop
  BY <1>11
  DEF SatStop, SatDone, TakeButton, TakeBeacon, TakeProvisioning, AdvStart,
      WorkStop
<1>12. CASE WorkArm \/ WorkBeacon \/ ButtonPress \/ BleTimerFire
         \/ SatTimerFire \/ Connected
  BY <1>12
  DEF WorkArm, ArmRefresh, WorkBeacon, AdvStart, ButtonPress, BleTimerFire,
      SatTimerFire, Connected
<1>13. CASE WriteUtc \/ Disconnected \/ NetBoot \/ NetBind
  BY <1>13 DEF WriteUtc, Disconnected, NetBoot, NetBind
<1>14. ASSUME NEW t \in Threads,
             BtReady(t) \/ EnBt(t) \/ DisStop(t)
      PROVE  (pc[u] \in Critical <=> radio_mutex = u)'
  BY <1>14 DEF BtReady, EnBt, DisStop
<1>15. ASSUME NEW t \in Threads,
             DisTimer(t)
      PROVE  (pc[u] \in Critical <=> radio_mutex = u)'
  BY <1>15 DEF DisTimer
<1>16. ASSUME NEW t \in Shells,
             ShellBluetooth(t)
      PROVE  (pc[u] \in Critical <=> radio_mutex = u)'
  BY <1>16 DEF ShellBluetooth
<1>17. ASSUME NEW t \in Shells,
             ShellKey(t)
      PROVE  (pc[u] \in Critical <=> radio_mutex = u)'
  BY <1>17 DEF ShellKey
<1>18. CASE UNCHANGED vars
  BY <1>18 DEF vars
<1> QED
  BY <1>1, <1>2, <1>3, <1>4, <1>5, <1>6, <1>7, <1>8, <1>9, <1>10, <1>11,
     <1>12, <1>13, <1>14, <1>15, <1>16, <1>17, <1>18
  DEF Next, Boot, Loop, Satellite, BtCall, Enable, Disable, WorkQueue,
      Timer, Shell, Companion, Network

(* The Bluetooth host: bt_enable leaves one thread waiting, and only a     *)
(* ready host has an advertiser or a connection.                           *)
LEMMA HostStep ==
  ASSUME TypeOK, MutexOwner, HostState, [Next]_vars
  PROVE  HostState'
<1> USE ShellsAssumption DEF TypeOK, MutexOwner, Critical, HostState, PowerOn,
       AdvStart, EnableSection, DisableSection, WorkLabels, BootLabels,
       Powered, SatSection, Bound, Threads, Users, Goto, Lock, Unlock,
       AfterEnable, AfterDisable, radioVars, semVars, timerVars
<1>1. CASE BootStart
  BY <1>1 DEF BootStart
<1>2. CASE BootBt
  BY <1>2 DEF BootBt
<1>3. CASE BootAdv
  BY <1>3 DEF BootAdv, BtDisable
<1>4. CASE WaitInit
  BY <1>4 DEF WaitInit
<1>5. CASE WaitKey
  BY <1>5 DEF WaitKey
<1>6. CASE Sched
  BY <1>6 DEF Sched
<1>7. CASE WaitTimer
  BY <1>7 DEF WaitTimer
<1>8. CASE SatLock
  BY <1>8 DEF SatLock
<1>9. ASSUME NEW t \in Threads, BtReady(t)
      PROVE  HostState'
  <2>1. CASE pc[t] = "boot_wait"
    <3>1. t = "main"
      BY <2>1 DEF UserLabels
    <3> QED
      BY <1>9, <2>1, <3>1 DEF BtReady
  <2>2. CASE pc[t] = "en_wait"
    <3>1. radio_mutex = t /\ pc["main"] # "boot_wait"
      BY <2>2
    <3>2. \A u \in Threads : u # t => pc[u] # "en_wait"
      BY <3>1
    <3> QED
      BY <1>9, <2>2, <3>1, <3>2 DEF BtReady
  <2> QED
    BY <1>9, <2>1, <2>2 DEF BtReady
<1>10. ASSUME NEW t \in Threads, BtFailed(t)
      PROVE  HostState'
  <2>1. CASE pc[t] = "boot_wait"
    <3>1. t = "main"
      BY <2>1 DEF UserLabels
    <3>2. adv = "none" /\ ~conn
      BY <2>1, <3>1
    <3> QED
      BY <1>10, <2>1, <3>1, <3>2 DEF BtFailed
  <2>2. CASE pc[t] = "en_wait"
    <3>1. radio_mutex = t /\ pc["main"] # "boot_wait"
      BY <2>2
    <3>2. \A u \in Threads : u # t => pc[u] # "en_wait"
      BY <3>1
    <3>3. adv = "none" /\ ~conn
      BY <2>2
    <3> QED
      BY <1>10, <2>2, <3>1, <3>2, <3>3 DEF BtFailed
  <2> QED
    BY <1>10, <2>1, <2>2 DEF BtFailed
<1>11. ASSUME NEW t \in Threads, EnBt(t)
      PROVE  HostState'
  BY <1>11 DEF EnBt
<1>12. ASSUME NEW t \in Threads, EnAdv(t)
      PROVE  HostState'
  BY <1>12 DEF EnAdv, ArmRefresh
<1>13. ASSUME NEW t \in Threads, EnBeacon(t)
      PROVE  HostState'
  BY <1>13 DEF EnBeacon
<1>14. ASSUME NEW t \in Threads, DisStop(t)
      PROVE  HostState'
  BY <1>14 DEF DisStop
<1>15. ASSUME NEW t \in Threads, DisBt(t)
      PROVE  HostState'
  BY <1>15 DEF DisBt, BtDisable
<1>16. CASE TakeBeacon
  BY <1>16 DEF TakeBeacon
<1>17. CASE TakeProvisioning
  BY <1>17 DEF TakeProvisioning
<1>18. CASE WorkBeacon
  BY <1>18 DEF WorkBeacon
<1>19. CASE Connected
  BY <1>19 DEF Connected
<1>20. CASE Disconnected
  BY <1>20 DEF Disconnected
<1>21. CASE SatMark \/ SatOpen \/ SatBind \/ SatInit \/ SatTx \/ SatStop
  BY <1>21 DEF SatMark, SatOpen, SatBind, SatInit, SatTx, SatStop
<1>22. CASE SatUnlock \/ SatDone \/ TakeButton \/ WorkStop \/ WorkArm
         \/ ButtonPress
  BY <1>22
  DEF SatUnlock, SatDone, TakeButton, WorkStop, WorkArm, ArmRefresh,
      ButtonPress
<1>23. CASE BleTimerFire \/ SatTimerFire \/ WriteUtc \/ NetBoot \/ NetBind
  BY <1>23 DEF BleTimerFire, SatTimerFire, WriteUtc, NetBoot, NetBind
<1>24. ASSUME NEW t \in Threads,
             EnLock(t) \/ DisLock(t) \/ DisTimer(t)
      PROVE  HostState'
  BY <1>24 DEF EnLock, LeftOffByUser, NoteLapse, WindowOf, DisLock, DisTimer
<1>25. ASSUME NEW t \in Shells,
             ShellBluetooth(t)
      PROVE  HostState'
  BY <1>25 DEF ShellBluetooth
<1>26. ASSUME NEW t \in Shells,
             ShellKey(t)
      PROVE  HostState'
  BY <1>26 DEF ShellKey
<1>27. CASE UNCHANGED vars
  BY <1>27 DEF vars
<1> QED
  BY <1>1, <1>2, <1>3, <1>4, <1>5, <1>6, <1>7, <1>8, <1>9, <1>10, <1>11,
     <1>12, <1>13, <1>14, <1>15, <1>16, <1>17, <1>18, <1>19, <1>20, <1>21,
     <1>22, <1>23, <1>24, <1>25, <1>26, <1>27
  DEF Next, Boot, Loop, Satellite, BtCall, Enable, Disable, WorkQueue,
      Timer, Shell, Companion, Network

(* The mark at each place of main().                                       *)
LEMMA MarkStateStep ==
  ASSUME TypeOK, MarkState, [Next]_vars
  PROVE  MarkState'
<1> USE ShellsAssumption DEF TypeOK, MarkState, SetMark, EnableSection,
       DisableSection, WorkLabels, BootLabels, Powered, SatSection, Bound,
       Threads, Users, Goto, Lock, Unlock, AfterEnable, AfterDisable,
       radioVars, semVars, timerVars
<1>1. CASE BootStart
  BY <1>1 DEF BootStart
<1>2. CASE SatMark
  BY <1>2 DEF SatMark
<1>3. CASE SatStop
  BY <1>3 DEF SatStop
<1>4. CASE SatUnlock
  BY <1>4 DEF SatUnlock
<1>5. CASE SatDone
  BY <1>5 DEF SatDone
<1>6. CASE BootBt \/ BootAdv \/ WaitInit \/ WaitKey \/ Sched \/ WaitTimer
  BY <1>6 DEF BootBt, BootAdv, BtDisable, WaitInit, WaitKey, Sched, WaitTimer
<1>7. CASE SatLock \/ SatOpen \/ SatBind \/ SatInit \/ SatTx \/ TakeButton
  BY <1>7 DEF SatLock, SatOpen, SatBind, SatInit, SatTx, TakeButton
<1>8. CASE TakeBeacon \/ TakeProvisioning \/ WorkStop \/ WorkArm
         \/ WorkBeacon \/ ButtonPress
  BY <1>8
  DEF TakeBeacon, TakeProvisioning, AdvStart, WorkStop, WorkArm, ArmRefresh,
      WorkBeacon, ButtonPress
<1>9. CASE BleTimerFire \/ SatTimerFire \/ Connected \/ WriteUtc
         \/ Disconnected \/ NetBoot
  BY <1>9
  DEF BleTimerFire, SatTimerFire, Connected, WriteUtc, Disconnected, NetBoot
<1>10. CASE NetBind
  BY <1>10 DEF NetBind
<1>11. ASSUME NEW t \in Threads,
             BtReady(t) \/ BtFailed(t) \/ EnLock(t)
      PROVE  MarkState'
  BY <1>11 DEF BtReady, BtFailed, EnLock, LeftOffByUser, NoteLapse, WindowOf
<1>12. ASSUME NEW t \in Threads,
             EnBt(t) \/ EnAdv(t) \/ EnBeacon(t)
      PROVE  MarkState'
  BY <1>12 DEF EnBt, EnAdv, AdvStart, ArmRefresh, EnBeacon
<1>13. ASSUME NEW t \in Threads,
             DisLock(t) \/ DisStop(t) \/ DisTimer(t)
      PROVE  MarkState'
  BY <1>13 DEF DisLock, DisStop, DisTimer
<1>14. ASSUME NEW t \in Threads,
             DisBt(t)
      PROVE  MarkState'
  BY <1>14 DEF DisBt, BtDisable
<1>15. ASSUME NEW t \in Shells,
             ShellBluetooth(t)
      PROVE  MarkState'
  BY <1>15 DEF ShellBluetooth
<1>16. ASSUME NEW t \in Shells,
             ShellKey(t)
      PROVE  MarkState'
  BY <1>16 DEF ShellKey
<1>17. CASE UNCHANGED vars
  BY <1>17 DEF vars
<1> QED
  BY <1>1, <1>2, <1>3, <1>4, <1>5, <1>6, <1>7, <1>8, <1>9, <1>10, <1>11,
     <1>12, <1>13, <1>14, <1>15, <1>16, <1>17
  DEF Next, Boot, Loop, Satellite, BtCall, Enable, Disable, WorkQueue,
      Timer, Shell, Companion, Network

(* The endpoint and its semaphore.                                         *)
LEMMA BindStep ==
  ASSUME TypeOK, MutexOwner, BindState, [Next]_vars
  PROVE  BindState'
<1> USE ShellsAssumption DEF TypeOK, MutexOwner, Critical, BindState, SemGive,
       EnableSection, DisableSection, WorkLabels, BootLabels, Powered,
       SatSection, Bound, Threads, Users, Goto, Lock, Unlock, AfterEnable,
       AfterDisable, radioVars, semVars, timerVars
<1>1. CASE SatOpen
  BY <1>1 DEF SatOpen
<1>2. CASE SatBind
  BY <1>2 DEF SatBind
<1>3. CASE SatStop
  BY <1>3 DEF SatStop
<1>4. CASE NetBind
  BY <1>4 DEF NetBind
<1>5. CASE BootStart \/ BootBt \/ BootAdv \/ WaitInit \/ WaitKey \/ Sched
  BY <1>5 DEF BootStart, BootBt, BootAdv, BtDisable, WaitInit, WaitKey, Sched
<1>6. CASE WaitTimer \/ SatLock \/ SatMark \/ SatInit \/ SatTx \/ SatUnlock
  BY <1>6 DEF WaitTimer, SatLock, SatMark, SatInit, SatTx, SatUnlock
<1>7. CASE SatDone \/ TakeButton \/ TakeBeacon \/ TakeProvisioning
         \/ WorkStop \/ WorkArm
  BY <1>7
  DEF SatDone, TakeButton, TakeBeacon, TakeProvisioning, AdvStart, WorkStop,
      WorkArm, ArmRefresh
<1>8. CASE WorkBeacon \/ ButtonPress \/ BleTimerFire \/ SatTimerFire
         \/ Connected \/ WriteUtc
  BY <1>8
  DEF WorkBeacon, AdvStart, ButtonPress, BleTimerFire, SatTimerFire,
      Connected, WriteUtc
<1>9. CASE Disconnected \/ NetBoot
  BY <1>9 DEF Disconnected, NetBoot
<1>10. ASSUME NEW t \in Threads,
             BtReady(t) \/ BtFailed(t) \/ EnLock(t)
      PROVE  BindState'
  BY <1>10 DEF BtReady, BtFailed, EnLock, LeftOffByUser, NoteLapse, WindowOf
<1>11. ASSUME NEW t \in Threads,
             EnBt(t) \/ EnAdv(t) \/ EnBeacon(t)
      PROVE  BindState'
  BY <1>11 DEF EnBt, EnAdv, AdvStart, ArmRefresh, EnBeacon
<1>12. ASSUME NEW t \in Threads,
             DisLock(t) \/ DisStop(t) \/ DisTimer(t)
      PROVE  BindState'
  BY <1>12 DEF DisLock, DisStop, DisTimer
<1>13. ASSUME NEW t \in Threads,
             DisBt(t)
      PROVE  BindState'
  BY <1>13 DEF DisBt, BtDisable
<1>14. ASSUME NEW t \in Shells,
             ShellBluetooth(t)
      PROVE  BindState'
  BY <1>14 DEF ShellBluetooth
<1>15. ASSUME NEW t \in Shells,
             ShellKey(t)
      PROVE  BindState'
  BY <1>15 DEF ShellKey
<1>16. CASE UNCHANGED vars
  BY <1>16 DEF vars
<1> QED
  BY <1>1, <1>2, <1>3, <1>4, <1>5, <1>6, <1>7, <1>8, <1>9, <1>10, <1>11,
     <1>12, <1>13, <1>14, <1>15, <1>16
  DEF Next, Boot, Loop, Satellite, BtCall, Enable, Disable, WorkQueue,
      Timer, Shell, Companion, Network

(* Nobody switches Bluetooth off in the middle of a ble_enable: the flag   *)
(* changes only under the mutex.                                           *)
LEMMA UserOffStateStep ==
  ASSUME TypeOK, MutexOwner, UserOffState, [Next]_vars
  PROVE  UserOffState'
<1> USE ShellsAssumption DEF TypeOK, MutexOwner, Critical, UserOffState,
       EnableSection, DisableSection, WorkLabels, BootLabels, Powered,
       SatSection, Bound, Threads, Users, Goto, Lock, Unlock, AfterEnable,
       AfterDisable, radioVars, semVars, timerVars
<1>1. ASSUME NEW t \in Threads, EnLock(t)
      PROVE  UserOffState'
  BY <1>1 DEF EnLock, LeftOffByUser, NoteLapse, WindowOf
<1>2. ASSUME NEW t \in Threads, DisLock(t)
      PROVE  UserOffState'
  BY <1>2 DEF DisLock
<1>3. CASE BootStart \/ BootBt \/ BootAdv \/ WaitInit \/ WaitKey \/ Sched
  <2>1. CASE BootStart
    BY <2>1 DEF BootStart
  <2>2. CASE BootBt
    BY <2>2 DEF BootBt
  <2>3. CASE BootAdv
    BY <2>3 DEF BootAdv, BtDisable
  <2>4. CASE WaitInit
    BY <2>4 DEF WaitInit
  <2>5. CASE WaitKey
    BY <2>5 DEF WaitKey
  <2>6. CASE Sched
    BY <2>6 DEF Sched
  <2> QED
    BY <1>3, <2>1, <2>2, <2>3, <2>4, <2>5, <2>6
<1>4. CASE WaitTimer \/ SatLock \/ SatMark \/ SatOpen \/ SatBind \/ SatInit
  BY <1>4 DEF WaitTimer, SatLock, SatMark, SatOpen, SatBind, SatInit
<1>5. CASE SatTx \/ SatStop \/ SatUnlock \/ SatDone \/ TakeButton
         \/ TakeBeacon
  BY <1>5 DEF SatTx, SatStop, SatUnlock, SatDone, TakeButton, TakeBeacon
<1>6. CASE TakeProvisioning \/ WorkStop \/ WorkArm \/ WorkBeacon
         \/ ButtonPress \/ BleTimerFire
  BY <1>6
  DEF TakeProvisioning, AdvStart, WorkStop, WorkArm, ArmRefresh, WorkBeacon,
      ButtonPress, BleTimerFire
<1>7. CASE SatTimerFire \/ Connected \/ WriteUtc \/ Disconnected \/ NetBoot
         \/ NetBind
  BY <1>7
  DEF SatTimerFire, Connected, WriteUtc, Disconnected, NetBoot, NetBind
<1>8. ASSUME NEW t \in Threads,
             BtReady(t) \/ BtFailed(t) \/ EnBt(t)
      PROVE  UserOffState'
  BY <1>8 DEF BtReady, BtFailed, EnBt
<1>9. ASSUME NEW t \in Threads,
             EnAdv(t) \/ EnBeacon(t) \/ DisStop(t)
      PROVE  UserOffState'
  BY <1>9 DEF EnAdv, AdvStart, ArmRefresh, EnBeacon, DisStop
<1>10. ASSUME NEW t \in Threads,
             DisTimer(t) \/ DisBt(t)
      PROVE  UserOffState'
  BY <1>10 DEF DisTimer, DisBt, BtDisable
<1>11. ASSUME NEW t \in Shells,
             ShellBluetooth(t)
      PROVE  UserOffState'
  BY <1>11 DEF ShellBluetooth
<1>12. ASSUME NEW t \in Shells,
             ShellKey(t)
      PROVE  UserOffState'
  BY <1>12 DEF ShellKey
<1>13. CASE UNCHANGED vars
  BY <1>13 DEF vars
<1> QED
  BY <1>1, <1>2, <1>3, <1>4, <1>5, <1>6, <1>7, <1>8, <1>9, <1>10, <1>11,
     <1>12, <1>13
  DEF Next, Boot, Loop, Satellite, BtCall, Enable, Disable, WorkQueue,
      Timer, Shell, Companion, Network

(* Beacons need the time.                                                  *)
LEMMA TimeKnownStep ==
  ASSUME TypeOK, MutexOwner, TimeKnown, [Next]_vars
  PROVE  TimeKnown'
<1> USE ShellsAssumption DEF TypeOK, MutexOwner, Critical, TimeKnown,
       AdvStart, ArmRefresh, EnableSection, DisableSection, WorkLabels,
       BootLabels, Powered, SatSection, Bound, Threads, Users, Goto, Lock,
       Unlock, AfterEnable, AfterDisable, radioVars, semVars, timerVars
<1>1. CASE BootStart
  BY <1>1 DEF BootStart
<1>2. CASE BootBt
  BY <1>2 DEF BootBt
<1>3. CASE BootAdv
  <2>1. "ble" \in work' => "ble" \in work
    BY <1>3, DisabledWork DEF BootAdv
  <2>2. adv' # "beacon" \/ adv' = adv
    BY <1>3 DEF BootAdv, BtDisable
  <2> QED
    BY <1>3, <2>1, <2>2 DEF BootAdv
<1>4. CASE WaitInit
  BY <1>4 DEF WaitInit
<1>5. CASE WaitKey
  BY <1>5 DEF WaitKey
<1>6. CASE Sched
  BY <1>6 DEF Sched
<1>7. ASSUME NEW t \in Threads, EnAdv(t)
      PROVE  TimeKnown'
  BY <1>7 DEF EnAdv
<1>8. ASSUME NEW t \in Threads, EnBeacon(t)
      PROVE  TimeKnown'
  BY <1>8 DEF EnBeacon
<1>9. ASSUME NEW t \in Threads, DisTimer(t)
      PROVE  TimeKnown'
  BY <1>9 DEF DisTimer
<1>10. ASSUME NEW t \in Threads, DisBt(t)
      PROVE  TimeKnown'
  <2>1. "ble" \in work' => "ble" \in work
    BY <1>10, DisabledWork DEF DisBt
  <2>2. adv' # "beacon" \/ adv' = adv
    BY <1>10 DEF DisBt, BtDisable
  <2> QED
    BY <1>10, <2>1, <2>2 DEF DisBt
<1>11. CASE TakeBeacon
  BY <1>11 DEF TakeBeacon
<1>12. CASE WorkStop
  BY <1>12 DEF WorkStop
<1>13. CASE WorkArm
  BY <1>13 DEF WorkArm
<1>14. CASE WorkBeacon
  BY <1>14 DEF WorkBeacon
<1>15. CASE ButtonPress
  BY <1>15 DEF ButtonPress
<1>16. CASE BleTimerFire
  BY <1>16 DEF BleTimerFire
<1>17. CASE SatTimerFire
  BY <1>17 DEF SatTimerFire
<1>18. CASE Connected
  BY <1>18 DEF Connected
<1>19. CASE WriteUtc
  BY <1>19 DEF WriteUtc
<1>20. CASE Disconnected
  <2>1. "ble" \in work' => "ble" \in work
    BY <1>20 DEF Disconnected, OnDisconnected
  <2> QED
    BY <1>20, <2>1 DEF Disconnected
<1>21. CASE NetBoot
  BY <1>21 DEF NetBoot
<1>22. CASE WaitTimer \/ SatLock \/ SatMark \/ SatOpen \/ SatBind \/ SatInit
  BY <1>22 DEF WaitTimer, SatLock, SatMark, SatOpen, SatBind, SatInit
<1>23. CASE SatTx \/ SatStop \/ SatUnlock \/ SatDone \/ TakeButton
         \/ TakeProvisioning
  BY <1>23
  DEF SatTx, SatStop, SatUnlock, SatDone, TakeButton, TakeProvisioning
<1>24. CASE NetBind
  BY <1>24 DEF NetBind
<1>25. ASSUME NEW t \in Threads,
             BtReady(t) \/ BtFailed(t) \/ EnLock(t)
      PROVE  TimeKnown'
  BY <1>25 DEF BtReady, BtFailed, EnLock, LeftOffByUser, NoteLapse, WindowOf
<1>26. ASSUME NEW t \in Threads,
             EnBt(t) \/ DisLock(t) \/ DisStop(t)
      PROVE  TimeKnown'
  BY <1>26 DEF EnBt, DisLock, DisStop
<1>27. ASSUME NEW t \in Shells,
             ShellBluetooth(t)
      PROVE  TimeKnown'
  BY <1>27 DEF ShellBluetooth
<1>28. ASSUME NEW t \in Shells,
             ShellKey(t)
      PROVE  TimeKnown'
  BY <1>28 DEF ShellKey
<1>29. CASE UNCHANGED vars
  BY <1>29 DEF vars
<1> QED
  BY <1>1, <1>2, <1>3, <1>4, <1>5, <1>6, <1>7, <1>8, <1>9, <1>10, <1>11,
     <1>12, <1>13, <1>14, <1>15, <1>16, <1>17, <1>18, <1>19, <1>20, <1>21,
     <1>22, <1>23, <1>24, <1>25, <1>26, <1>27, <1>28, <1>29
  DEF Next, Boot, Loop, Satellite, BtCall, Enable, Disable, WorkQueue,
      Timer, Shell, Companion, Network

(* One satellite window for one arming of the timer.                       *)
LEMMA WindowStep ==
  ASSUME TypeOK, OneWindowPerArm, [Next]_vars
  PROVE  OneWindowPerArm'
<1> USE ShellsAssumption DEF TypeOK, OneWindowPerArm, SemGive, EnableSection,
       DisableSection, WorkLabels, BootLabels, Powered, SatSection, Bound,
       Threads, Users, Goto, Lock, Unlock, AfterEnable, AfterDisable,
       radioVars, semVars, timerVars
<1>1. CASE Sched
  BY <1>1 DEF Sched
<1>2. CASE WaitTimer
  BY <1>2 DEF WaitTimer
<1>3. ASSUME NEW t \in Threads, BtFailed(t)
      PROVE  OneWindowPerArm'
  BY <1>3 DEF BtFailed
<1>4. ASSUME NEW t \in Threads, EnLock(t)
      PROVE  OneWindowPerArm'
  BY <1>4 DEF EnLock, LeftOffByUser, NoteLapse, WindowOf
<1>5. ASSUME NEW t \in Threads, EnAdv(t)
      PROVE  OneWindowPerArm'
  BY <1>5 DEF EnAdv, AdvStart, ArmRefresh
<1>6. ASSUME NEW t \in Threads, EnBeacon(t)
      PROVE  OneWindowPerArm'
  BY <1>6 DEF EnBeacon, AdvStart
<1>7. CASE SatTimerFire
  BY <1>7 DEF SatTimerFire
<1>8. CASE BootStart \/ BootBt \/ BootAdv \/ WaitInit \/ WaitKey \/ SatLock
  BY <1>8
  DEF BootStart, BootBt, BootAdv, BtDisable, WaitInit, WaitKey, SatLock
<1>9. CASE SatMark \/ SatOpen \/ SatBind \/ SatInit \/ SatTx \/ SatStop
  BY <1>9 DEF SatMark, SatOpen, SatBind, SatInit, SatTx, SatStop
<1>10. CASE SatUnlock \/ SatDone \/ TakeButton \/ TakeBeacon
         \/ TakeProvisioning \/ WorkStop
  BY <1>10
  DEF SatUnlock, SatDone, TakeButton, TakeBeacon, TakeProvisioning, AdvStart,
      WorkStop
<1>11. CASE WorkArm \/ WorkBeacon \/ ButtonPress \/ BleTimerFire \/ Connected
         \/ WriteUtc
  BY <1>11
  DEF WorkArm, ArmRefresh, WorkBeacon, AdvStart, ButtonPress, BleTimerFire,
      Connected, WriteUtc
<1>12. CASE Disconnected \/ NetBoot \/ NetBind
  BY <1>12 DEF Disconnected, NetBoot, NetBind
<1>13. ASSUME NEW t \in Threads,
             BtReady(t) \/ EnBt(t) \/ DisLock(t)
      PROVE  OneWindowPerArm'
  BY <1>13 DEF BtReady, EnBt, DisLock
<1>14. ASSUME NEW t \in Threads,
             DisStop(t) \/ DisTimer(t) \/ DisBt(t)
      PROVE  OneWindowPerArm'
  BY <1>14 DEF DisStop, DisTimer, DisBt, BtDisable
<1>15. ASSUME NEW t \in Shells,
             ShellBluetooth(t)
      PROVE  OneWindowPerArm'
  BY <1>15 DEF ShellBluetooth
<1>16. ASSUME NEW t \in Shells,
             ShellKey(t)
      PROVE  OneWindowPerArm'
  BY <1>16 DEF ShellKey
<1>17. CASE UNCHANGED vars
  BY <1>17 DEF vars
<1> QED
  BY <1>1, <1>2, <1>3, <1>4, <1>5, <1>6, <1>7, <1>8, <1>9, <1>10, <1>11,
     <1>12, <1>13, <1>14, <1>15, <1>16, <1>17
  DEF Next, Boot, Loop, Satellite, BtCall, Enable, Disable, WorkQueue,
      Timer, Shell, Companion, Network

(* Only a fault keeps the network core from running a stack.               *)
LEMMA CoreStep ==
  ASSUME TypeOK, CoreAlive, [Next]_vars
  PROVE  CoreAlive'
<1> USE ShellsAssumption DEF TypeOK, CoreAlive, PowerOn, EnableSection,
       DisableSection, WorkLabels, BootLabels, Powered, SatSection, Bound,
       Threads, Users, Goto, Lock, Unlock, AfterEnable, AfterDisable,
       radioVars, semVars, timerVars
<1>1. CASE BootBt
  BY <1>1 DEF BootBt
<1>2. CASE SatMark
  BY <1>2 DEF SatMark
<1>3. ASSUME NEW t \in Threads, BtFailed(t)
      PROVE  CoreAlive'
  BY <1>3 DEF BtFailed
<1>4. ASSUME NEW t \in Threads, EnBt(t)
      PROVE  CoreAlive'
  BY <1>4 DEF EnBt
<1>5. CASE NetBoot
  BY <1>5 DEF NetBoot
<1>6. CASE BootStart \/ BootAdv \/ WaitInit \/ WaitKey \/ Sched \/ WaitTimer
  BY <1>6
  DEF BootStart, BootAdv, BtDisable, WaitInit, WaitKey, Sched, WaitTimer
<1>7. CASE SatLock \/ SatOpen \/ SatBind \/ SatInit \/ SatTx \/ SatStop
  BY <1>7 DEF SatLock, SatOpen, SatBind, SatInit, SatTx, SatStop
<1>8. CASE SatUnlock \/ SatDone \/ TakeButton \/ TakeBeacon
         \/ TakeProvisioning \/ WorkStop
  BY <1>8
  DEF SatUnlock, SatDone, TakeButton, TakeBeacon, TakeProvisioning, AdvStart,
      WorkStop
<1>9. CASE WorkArm \/ WorkBeacon \/ ButtonPress \/ BleTimerFire
         \/ SatTimerFire \/ Connected
  BY <1>9
  DEF WorkArm, ArmRefresh, WorkBeacon, AdvStart, ButtonPress, BleTimerFire,
      SatTimerFire, Connected
<1>10. CASE WriteUtc \/ Disconnected \/ NetBind
  BY <1>10 DEF WriteUtc, Disconnected, NetBind
<1>11. ASSUME NEW t \in Threads,
             BtReady(t) \/ EnLock(t) \/ EnAdv(t)
      PROVE  CoreAlive'
  BY <1>11
  DEF BtReady, EnLock, LeftOffByUser, NoteLapse, WindowOf, EnAdv, AdvStart,
      ArmRefresh
<1>12. ASSUME NEW t \in Threads,
             EnBeacon(t) \/ DisLock(t) \/ DisStop(t)
      PROVE  CoreAlive'
  BY <1>12 DEF EnBeacon, AdvStart, DisLock, DisStop
<1>13. ASSUME NEW t \in Threads,
             DisTimer(t) \/ DisBt(t)
      PROVE  CoreAlive'
  BY <1>13 DEF DisTimer, DisBt, BtDisable
<1>14. ASSUME NEW t \in Shells,
             ShellBluetooth(t)
      PROVE  CoreAlive'
  BY <1>14 DEF ShellBluetooth
<1>15. ASSUME NEW t \in Shells,
             ShellKey(t)
      PROVE  CoreAlive'
  BY <1>15 DEF ShellKey
<1>16. CASE UNCHANGED vars
  BY <1>16 DEF vars
<1> QED
  BY <1>1, <1>2, <1>3, <1>4, <1>5, <1>6, <1>7, <1>8, <1>9, <1>10, <1>11,
     <1>12, <1>13, <1>14, <1>15, <1>16
  DEF Next, Boot, Loop, Satellite, BtCall, Enable, Disable, WorkQueue,
      Timer, Shell, Companion, Network

(* Before main() has started Bluetooth.                                    *)
LEMMA BootStep ==
  ASSUME TypeOK, MutexOwner, HostState, MarkState, TimeKnown, BootQuiet,
         [Next]_vars
  PROVE  BootQuiet'
<1> USE ShellsAssumption DEF TypeOK, MutexOwner, HostState, MarkState,
       TimeKnown, Critical, BootQuiet, PowerOn, AdvStart, LapseKinds,
       UserLabels, EnableSection, DisableSection, WorkLabels, BootLabels,
       Powered, SatSection, Bound, Threads, Users, Goto, Lock, Unlock,
       AfterEnable, AfterDisable, radioVars, semVars, timerVars
<1>1. CASE BootStart
  BY <1>1 DEF BootStart
<1>2. CASE BootBt
  BY <1>2 DEF BootBt
<1>3. CASE BootAdv
  BY <1>3 DEF BootAdv, BtDisable
<1>4. CASE WaitInit
  BY <1>4 DEF WaitInit
<1>5. CASE WaitKey
  BY <1>5 DEF WaitKey
<1>6. CASE Sched
  BY <1>6 DEF Sched
<1>7. CASE WaitTimer
  BY <1>7 DEF WaitTimer
<1>8. CASE SatLock
  BY <1>8 DEF SatLock
<1>9. CASE SatMark
  BY <1>9 DEF SatMark
<1>10. CASE SatDone
  BY <1>10 DEF SatDone
<1>11. ASSUME NEW t \in Threads, BtReady(t)
      PROVE  BootQuiet'
  BY <1>11 DEF BtReady
<1>12. ASSUME NEW t \in Threads, BtFailed(t)
      PROVE  BootQuiet'
  BY <1>12 DEF BtFailed
<1>13. ASSUME NEW t \in Threads, EnLock(t)
      PROVE  BootQuiet'
  BY <1>13 DEF EnLock, LeftOffByUser, NoteLapse, WindowOf
<1>14. ASSUME NEW t \in Threads, DisLock(t)
      PROVE  BootQuiet'
  BY <1>14 DEF DisLock
<1>15. CASE TakeButton
  BY <1>15 DEF TakeButton
<1>16. CASE TakeBeacon
  BY <1>16 DEF TakeBeacon
<1>17. CASE TakeProvisioning
  BY <1>17 DEF TakeProvisioning
<1>18. CASE WorkStop
  BY <1>18 DEF WorkStop
<1>19. CASE WorkArm
  BY <1>19 DEF WorkArm, ArmRefresh
<1>20. CASE WorkBeacon
  <2>1. utc
    BY <1>20 DEF WorkBeacon
  <2>2. ~(pc["main"] \in BootLabels /\ "boot" \notin lapses)
    BY <2>1
  <2>3. pc'["main"] = pc["main"] /\ lapses' = lapses
    BY <1>20 DEF WorkBeacon
  <2> QED
    BY <2>2, <2>3
<1>21. CASE ButtonPress
  BY <1>21 DEF ButtonPress
<1>22. CASE BleTimerFire
  BY <1>22 DEF BleTimerFire
<1>23. CASE SatTimerFire
  BY <1>23 DEF SatTimerFire
<1>24. CASE Connected
  BY <1>24 DEF Connected
<1>25. CASE WriteUtc
  BY <1>25 DEF WriteUtc
<1>26. CASE Disconnected
  BY <1>26 DEF Disconnected
<1>27. CASE NetBoot
  BY <1>27 DEF NetBoot
<1>28. CASE NetBind
  BY <1>28 DEF NetBind
<1>29. CASE SatOpen \/ SatBind \/ SatInit \/ SatTx \/ SatStop \/ SatUnlock
  BY <1>29 DEF SatOpen, SatBind, SatInit, SatTx, SatStop, SatUnlock
<1>30. ASSUME NEW t \in Threads,
             EnBt(t) \/ EnAdv(t) \/ EnBeacon(t)
      PROVE  BootQuiet'
  BY <1>30 DEF EnBt, EnAdv, ArmRefresh, EnBeacon
<1>31. ASSUME NEW t \in Threads,
             DisStop(t) \/ DisTimer(t) \/ DisBt(t)
      PROVE  BootQuiet'
  BY <1>31 DEF DisStop, DisTimer, DisBt, BtDisable
<1>32. ASSUME NEW t \in Shells,
             ShellBluetooth(t)
      PROVE  BootQuiet'
  BY <1>32 DEF ShellBluetooth
<1>33. ASSUME NEW t \in Shells,
             ShellKey(t)
      PROVE  BootQuiet'
  BY <1>33 DEF ShellKey
<1>34. CASE UNCHANGED vars
  BY <1>34 DEF vars
<1> QED
  BY <1>1, <1>2, <1>3, <1>4, <1>5, <1>6, <1>7, <1>8, <1>9, <1>10, <1>11,
     <1>12, <1>13, <1>14, <1>15, <1>16, <1>17, <1>18, <1>19, <1>20, <1>21,
     <1>22, <1>23, <1>24, <1>25, <1>26, <1>27, <1>28, <1>29, <1>30, <1>31,
     <1>32, <1>33, <1>34
  DEF Next, Boot, Loop, Satellite, BtCall, Enable, Disable, WorkQueue,
      Timer, Shell, Companion, Network

(* What the user switched off stays off.                                   *)
LEMMA UserOffStep ==
  ASSUME TypeOK, MutexOwner, HostState, BootQuiet, UserOffState,
         UserOffSticks, [Next]_vars
  PROVE  UserOffSticks'
<1> USE ShellsAssumption DEF TypeOK, MutexOwner, HostState, BootQuiet,
       UserOffState, Critical, UserOffSticks, PowerOn, LapseKinds,
       EnableSection, DisableSection, WorkLabels, BootLabels, Powered,
       SatSection, Bound, Threads, Users, Goto, Lock, Unlock, AfterEnable,
       AfterDisable, radioVars, semVars, timerVars
<1>1. CASE BootBt
  BY <1>1 DEF BootBt
<1>2. ASSUME NEW t \in Threads, BtReady(t)
      PROVE  UserOffSticks'
  <2>1. CASE pc[t] = "boot_wait"
    <3>1. t = "main"
      BY <2>1 DEF UserLabels
    <3> QED
      BY <1>2, <2>1, <3>1 DEF BtReady
  <2>2. CASE pc[t] = "en_wait"
    BY <1>2, <2>2 DEF BtReady
  <2> QED
    BY <1>2, <2>1, <2>2 DEF BtReady
<1>3. ASSUME NEW t \in Threads, EnLock(t)
      PROVE  UserOffSticks'
  BY <1>3 DEF EnLock, LeftOffByUser, NoteLapse, WindowOf
<1>4. ASSUME NEW t \in Threads, EnBt(t)
      PROVE  UserOffSticks'
  BY <1>4 DEF EnBt
<1>5. ASSUME NEW t \in Threads, DisLock(t)
      PROVE  UserOffSticks'
  BY <1>5 DEF DisLock
<1>6. ASSUME NEW t \in Threads, DisBt(t)
      PROVE  UserOffSticks'
  BY <1>6 DEF DisBt, BtDisable
<1>7. CASE BootStart \/ BootAdv \/ WaitInit \/ WaitKey \/ Sched \/ WaitTimer
  BY <1>7
  DEF BootStart, BootAdv, BtDisable, WaitInit, WaitKey, Sched, WaitTimer
<1>8. CASE SatLock \/ SatMark \/ SatOpen \/ SatBind \/ SatInit \/ SatTx
  BY <1>8 DEF SatLock, SatMark, SatOpen, SatBind, SatInit, SatTx
<1>9. CASE SatStop \/ SatUnlock \/ SatDone \/ TakeButton \/ TakeBeacon
         \/ TakeProvisioning
  <2>1. CASE SatStop
    BY <2>1 DEF SatStop
  <2>2. CASE SatUnlock
    BY <2>2 DEF SatUnlock
  <2>3. CASE SatDone
    BY <2>3 DEF SatDone
  <2>4. CASE TakeButton
    BY <2>4 DEF TakeButton
  <2>5. CASE TakeBeacon
    BY <2>5 DEF TakeBeacon
  <2>6. CASE TakeProvisioning
    BY <2>6 DEF TakeProvisioning, AdvStart
  <2> QED
    BY <1>9, <2>1, <2>2, <2>3, <2>4, <2>5, <2>6
<1>10. CASE WorkStop \/ WorkArm \/ WorkBeacon \/ ButtonPress \/ BleTimerFire
         \/ SatTimerFire
  BY <1>10
  DEF WorkStop, WorkArm, ArmRefresh, WorkBeacon, AdvStart, ButtonPress,
      BleTimerFire, SatTimerFire
<1>11. CASE Connected \/ WriteUtc \/ Disconnected \/ NetBoot \/ NetBind
  <2>1. CASE Connected
    BY <2>1 DEF Connected
  <2>2. CASE WriteUtc
    BY <2>2 DEF WriteUtc
  <2>3. CASE Disconnected
    BY <2>3 DEF Disconnected
  <2>4. CASE NetBoot
    BY <2>4 DEF NetBoot
  <2>5. CASE NetBind
    BY <2>5 DEF NetBind
  <2> QED
    BY <1>11, <2>1, <2>2, <2>3, <2>4, <2>5
<1>12. ASSUME NEW t \in Threads,
             BtFailed(t) \/ EnAdv(t) \/ EnBeacon(t)
      PROVE  UserOffSticks'
  BY <1>12 DEF BtFailed, EnAdv, AdvStart, ArmRefresh, EnBeacon
<1>13. ASSUME NEW t \in Threads,
             DisStop(t) \/ DisTimer(t)
      PROVE  UserOffSticks'
  BY <1>13 DEF DisStop, DisTimer
<1>14. ASSUME NEW t \in Shells,
             ShellBluetooth(t)
      PROVE  UserOffSticks'
  BY <1>14 DEF ShellBluetooth
<1>15. ASSUME NEW t \in Shells,
             ShellKey(t)
      PROVE  UserOffSticks'
  BY <1>15 DEF ShellKey
<1>16. CASE UNCHANGED vars
  BY <1>16 DEF vars
<1> QED
  BY <1>1, <1>2, <1>3, <1>4, <1>5, <1>6, <1>7, <1>8, <1>9, <1>10, <1>11,
     <1>12, <1>13, <1>14, <1>15, <1>16
  DEF Next, Boot, Loop, Satellite, BtCall, Enable, Disable, WorkQueue,
      Timer, Shell, Companion, Network

(* A beacon, on the air or about to be, has its refresh coming.            *)
LEMMA RefreshStep ==
  ASSUME TypeOK, MutexOwner, HostState, TimeKnown, BootQuiet, RefreshState,
         BeaconRefreshed, [Next]_vars
  PROVE  RefreshState' /\ BeaconRefreshed'
<1> USE ShellsAssumption DEF TypeOK, MutexOwner, HostState, TimeKnown,
       BootQuiet, Critical, RefreshState, BeaconRefreshed, AdvStart,
       ArmRefresh, RefreshDue, LapseKinds, EnableSection, DisableSection,
       WorkLabels, BootLabels, Powered, SatSection, Bound, Threads, Users,
       Goto, Lock, Unlock, AfterEnable, AfterDisable, radioVars, semVars,
       timerVars
<1>1. CASE BootStart
  BY <1>1 DEF BootStart
<1>2. CASE BootBt
  BY <1>2 DEF BootBt
<1>3. CASE BootAdv
  BY <1>3 DEF BootAdv, BtDisable
<1>4. CASE WaitInit
  BY <1>4 DEF WaitInit
<1>5. CASE WaitKey
  BY <1>5 DEF WaitKey
<1>6. CASE Sched
  BY <1>6 DEF Sched
<1>7. ASSUME NEW t \in Threads, BtReady(t)
      PROVE  RefreshState' /\ BeaconRefreshed'
  <2>1. CASE pc[t] = "boot_wait"
    <3>1. t = "main"
      BY <2>1 DEF UserLabels
    <3> QED
      BY <1>7, <2>1, <3>1 DEF BtReady
  <2>2. CASE pc[t] = "en_wait"
    BY <1>7, <2>2 DEF BtReady
  <2> QED
    BY <1>7, <2>1, <2>2 DEF BtReady
<1>8. ASSUME NEW t \in Threads, EnAdv(t)
      PROVE  RefreshState' /\ BeaconRefreshed'
  <2>1. CASE ~utc
    BY <1>8, <2>1 DEF EnAdv
  <2>2. CASE utc
    BY <1>8, <2>2 DEF EnAdv
  <2> QED
    BY <2>1, <2>2
<1>9. ASSUME NEW t \in Threads, EnBeacon(t)
      PROVE  RefreshState' /\ BeaconRefreshed'
  BY <1>9 DEF EnBeacon
<1>10. ASSUME NEW t \in Threads, DisTimer(t)
      PROVE  RefreshState' /\ BeaconRefreshed'
  BY <1>10 DEF DisTimer
<1>11. ASSUME NEW t \in Threads, DisBt(t)
      PROVE  RefreshState' /\ BeaconRefreshed'
  BY <1>11 DEF DisBt, BtDisable
<1>12. CASE TakeBeacon
  BY <1>12 DEF TakeBeacon
<1>13. CASE WorkStop
  BY <1>13 DEF WorkStop
<1>14. CASE WorkArm
  BY <1>14 DEF WorkArm
<1>15. CASE WorkBeacon
  BY <1>15 DEF WorkBeacon
<1>16. CASE BleTimerFire
  BY <1>16 DEF BleTimerFire
<1>17. CASE Connected
  BY <1>17 DEF Connected
<1>18. CASE Disconnected
  <2>1. "ble" \in work' <=> "ble" \in work
    BY <1>18 DEF Disconnected, OnDisconnected
  <2> QED
    BY <1>18, <2>1 DEF Disconnected
<1>19. CASE WaitTimer \/ SatLock \/ SatMark \/ SatOpen \/ SatBind \/ SatInit
  BY <1>19 DEF WaitTimer, SatLock, SatMark, SatOpen, SatBind, SatInit
<1>20. CASE SatTx \/ SatStop \/ SatUnlock \/ SatDone \/ TakeButton
         \/ TakeProvisioning
  BY <1>20
  DEF SatTx, SatStop, SatUnlock, SatDone, TakeButton, TakeProvisioning
<1>21. CASE ButtonPress \/ SatTimerFire \/ WriteUtc \/ NetBoot \/ NetBind
  BY <1>21 DEF ButtonPress, SatTimerFire, WriteUtc, NetBoot, NetBind
<1>22. ASSUME NEW t \in Threads,
             BtFailed(t) \/ EnLock(t) \/ EnBt(t)
      PROVE  RefreshState' /\ BeaconRefreshed'
  BY <1>22 DEF BtFailed, EnLock, LeftOffByUser, NoteLapse, WindowOf, EnBt
<1>23. ASSUME NEW t \in Threads,
             DisLock(t) \/ DisStop(t)
      PROVE  RefreshState' /\ BeaconRefreshed'
  BY <1>23 DEF DisLock, DisStop
<1>24. ASSUME NEW t \in Shells,
             ShellBluetooth(t)
      PROVE  RefreshState' /\ BeaconRefreshed'
  BY <1>24 DEF ShellBluetooth
<1>25. ASSUME NEW t \in Shells,
             ShellKey(t)
      PROVE  RefreshState' /\ BeaconRefreshed'
  BY <1>25 DEF ShellKey
<1>26. CASE UNCHANGED vars
  BY <1>26 DEF vars
<1> QED
  BY <1>1, <1>2, <1>3, <1>4, <1>5, <1>6, <1>7, <1>8, <1>9, <1>10, <1>11,
     <1>12, <1>13, <1>14, <1>15, <1>16, <1>17, <1>18, <1>19, <1>20, <1>21,
     <1>22, <1>23, <1>24, <1>25, <1>26
  DEF Next, Boot, Loop, Satellite, BtCall, Enable, Disable, WorkQueue,
      Timer, Shell, Companion, Network

(* The two cores agree.                                                    *)
LEMMA StackStep ==
  ASSUME TypeOK, MutexOwner, HostState, MarkState, BindState, BootQuiet,
         StackState, StackAgreement, [Next]_vars
  PROVE  StackState' /\ StackAgreement'
<1> USE ShellsAssumption DEF TypeOK, MutexOwner, HostState, MarkState,
       BindState, BootQuiet, Critical, StackState, StackAgreement, PowerOn,
       SetMark, SemGive, Clean, SwitchLapses, LapseKinds, EnableSection,
       DisableSection, WorkLabels, BootLabels, Powered, SatSection, Bound,
       Threads, Users, Goto, Lock, Unlock, AfterEnable, AfterDisable,
       radioVars, semVars, timerVars
<1>1. CASE BootStart
  BY <1>1 DEF BootStart
<1>2. CASE BootBt
  BY <1>2 DEF BootBt
<1>3. CASE BootAdv
  BY <1>3 DEF BootAdv, BtDisable
<1>4. CASE WaitInit
  BY <1>4 DEF WaitInit
<1>5. CASE WaitKey
  BY <1>5 DEF WaitKey
<1>6. CASE Sched
  BY <1>6 DEF Sched
<1>7. CASE WaitTimer
  BY <1>7 DEF WaitTimer
<1>8. CASE SatLock
  BY <1>8 DEF SatLock
<1>9. CASE SatMark
  BY <1>9 DEF SatMark
<1>10. CASE SatOpen
  BY <1>10 DEF SatOpen
<1>11. CASE SatBind
  BY <1>11 DEF SatBind
<1>12. CASE SatStop
  BY <1>12 DEF SatStop
<1>13. CASE SatDone
  BY <1>13 DEF SatDone
<1>14. ASSUME NEW t \in Threads, BtReady(t)
      PROVE  StackState' /\ StackAgreement'
  BY <1>14 DEF BtReady
<1>15. ASSUME NEW t \in Threads, BtFailed(t)
      PROVE  StackState' /\ StackAgreement'
  <2>1. CASE pc[t] = "boot_wait"
    <3>1. t = "main"
      BY <2>1 DEF UserLabels
    <3> QED
      BY <1>15, <2>1, <3>1 DEF BtFailed
  <2>2. CASE pc[t] = "en_wait"
    <3>1. radio_mutex = t /\ bt = "starting"
      BY <2>2
    <3> QED
      BY <1>15, <2>2, <3>1 DEF BtFailed
  <2> QED
    BY <1>15, <2>1, <2>2 DEF BtFailed
<1>16. ASSUME NEW t \in Threads, EnLock(t)
      PROVE  StackState' /\ StackAgreement'
  BY <1>16 DEF EnLock, LeftOffByUser, NoteLapse, WindowOf
<1>17. ASSUME NEW t \in Threads, EnBt(t)
      PROVE  StackState' /\ StackAgreement'
  BY <1>17 DEF EnBt
<1>18. ASSUME NEW t \in Threads, DisBt(t)
      PROVE  StackState' /\ StackAgreement'
  BY <1>18 DEF DisBt, BtDisable
<1>19. CASE NetBoot
  BY <1>19 DEF NetBoot
<1>20. CASE NetBind
  BY <1>20 DEF NetBind
<1>21. CASE SatInit \/ SatTx \/ SatUnlock \/ TakeButton \/ TakeBeacon
         \/ TakeProvisioning
  BY <1>21
  DEF SatInit, SatTx, SatUnlock, TakeButton, TakeBeacon, TakeProvisioning,
      AdvStart
<1>22. CASE WorkStop \/ WorkArm \/ WorkBeacon \/ ButtonPress \/ BleTimerFire
         \/ SatTimerFire
  BY <1>22
  DEF WorkStop, WorkArm, ArmRefresh, WorkBeacon, AdvStart, ButtonPress,
      BleTimerFire, SatTimerFire
<1>23. CASE Connected \/ WriteUtc \/ Disconnected
  BY <1>23 DEF Connected, WriteUtc, Disconnected
<1>24. ASSUME NEW t \in Threads,
             EnAdv(t) \/ EnBeacon(t) \/ DisLock(t)
      PROVE  StackState' /\ StackAgreement'
  BY <1>24 DEF EnAdv, AdvStart, ArmRefresh, EnBeacon, DisLock
<1>25. ASSUME NEW t \in Threads,
             DisStop(t) \/ DisTimer(t)
      PROVE  StackState' /\ StackAgreement'
  BY <1>25 DEF DisStop, DisTimer
<1>26. ASSUME NEW t \in Shells,
             ShellBluetooth(t)
      PROVE  StackState' /\ StackAgreement'
  BY <1>26 DEF ShellBluetooth
<1>27. ASSUME NEW t \in Shells,
             ShellKey(t)
      PROVE  StackState' /\ StackAgreement'
  BY <1>27 DEF ShellKey
<1>28. CASE UNCHANGED vars
  BY <1>28 DEF vars
<1> QED
  BY <1>1, <1>2, <1>3, <1>4, <1>5, <1>6, <1>7, <1>8, <1>9, <1>10, <1>11,
     <1>12, <1>13, <1>14, <1>15, <1>16, <1>17, <1>18, <1>19, <1>20, <1>21,
     <1>22, <1>23, <1>24, <1>25, <1>26, <1>27, <1>28
  DEF Next, Boot, Loop, Satellite, BtCall, Enable, Disable, WorkQueue,
      Timer, Shell, Companion, Network

(* main() does not end by itself.                                         *)
LEMMA ExitStep ==
  ASSUME TypeOK, MutexOwner, HostState, BootQuiet, CoreAlive,
         NoUnexplainedExit, [Next]_vars
  PROVE  NoUnexplainedExit'
<1> USE ShellsAssumption DEF TypeOK, MutexOwner, HostState, BootQuiet,
       CoreAlive, Critical, NoUnexplainedExit, LapseKinds, EnableSection,
       DisableSection, WorkLabels, BootLabels, Powered, SatSection, Bound,
       Threads, Users, Goto, Lock, Unlock, AfterEnable, AfterDisable,
       radioVars, semVars, timerVars
<1>1. CASE BootBt
  BY <1>1 DEF BootBt
<1>2. CASE BootAdv
  BY <1>2 DEF BootAdv, BtDisable
<1>3. CASE WaitKey
  BY <1>3 DEF WaitKey
<1>4. ASSUME NEW t \in Threads, BtFailed(t)
      PROVE  NoUnexplainedExit'
  BY <1>4 DEF BtFailed
<1>5. CASE BootStart \/ WaitInit \/ Sched \/ WaitTimer \/ SatLock \/ SatMark
  BY <1>5 DEF BootStart, WaitInit, Sched, WaitTimer, SatLock, SatMark
<1>6. CASE SatOpen \/ SatBind \/ SatInit \/ SatTx \/ SatStop \/ SatUnlock
  BY <1>6 DEF SatOpen, SatBind, SatInit, SatTx, SatStop, SatUnlock
<1>7. CASE SatDone \/ TakeButton \/ TakeBeacon \/ TakeProvisioning
         \/ WorkStop \/ WorkArm
  BY <1>7
  DEF SatDone, TakeButton, TakeBeacon, TakeProvisioning, AdvStart, WorkStop,
      WorkArm, ArmRefresh
<1>8. CASE WorkBeacon \/ ButtonPress \/ BleTimerFire \/ SatTimerFire
         \/ Connected \/ WriteUtc
  BY <1>8
  DEF WorkBeacon, AdvStart, ButtonPress, BleTimerFire, SatTimerFire,
      Connected, WriteUtc
<1>9. CASE Disconnected \/ NetBoot \/ NetBind
  BY <1>9 DEF Disconnected, NetBoot, NetBind
<1>10. ASSUME NEW t \in Threads,
             BtReady(t) \/ EnLock(t) \/ EnBt(t)
      PROVE  NoUnexplainedExit'
  BY <1>10 DEF BtReady, EnLock, LeftOffByUser, NoteLapse, WindowOf, EnBt
<1>11. ASSUME NEW t \in Threads,
             EnAdv(t) \/ EnBeacon(t) \/ DisLock(t)
      PROVE  NoUnexplainedExit'
  BY <1>11 DEF EnAdv, AdvStart, ArmRefresh, EnBeacon, DisLock
<1>12. ASSUME NEW t \in Threads,
             DisStop(t) \/ DisTimer(t) \/ DisBt(t)
      PROVE  NoUnexplainedExit'
  BY <1>12 DEF DisStop, DisTimer, DisBt, BtDisable
<1>13. ASSUME NEW t \in Shells,
             ShellBluetooth(t)
      PROVE  NoUnexplainedExit'
  BY <1>13 DEF ShellBluetooth
<1>14. ASSUME NEW t \in Shells,
             ShellKey(t)
      PROVE  NoUnexplainedExit'
  BY <1>14 DEF ShellKey
<1>15. CASE UNCHANGED vars
  BY <1>15 DEF vars
<1> QED
  BY <1>1, <1>2, <1>3, <1>4, <1>5, <1>6, <1>7, <1>8, <1>9, <1>10, <1>11,
     <1>12, <1>13, <1>14, <1>15
  DEF Next, Boot, Loop, Satellite, BtCall, Enable, Disable, WorkQueue,
      Timer, Shell, Companion, Network

(***************************************************************************)
(* The theorems.                                                           *)
(***************************************************************************)

(* The inductive invariant holds in every reachable state.                 *)
THEOREM Invariance == Spec => []IndInv
<1>1. Init => IndInv
  <2> SUFFICES ASSUME Init PROVE IndInv
    OBVIOUS
  <2> USE ShellsAssumption
      DEF Init, Threads, Users, EnableSection, DisableSection, WorkLabels,
          BootLabels, Powered, Bound, SatSection
  <2>1. TypeOK
    BY DEF TypeOK, FlagsOK, MainLabels, UserLabels
  <2>2. MutexOwner
    BY DEF MutexOwner, Critical
  <2>3. HostState /\ MarkState /\ BindState
    BY DEF HostState, MarkState, BindState
  <2>4. BootQuiet /\ UserOffState /\ UserOffSticks /\ TimeKnown
    BY DEF BootQuiet, UserOffState, UserOffSticks, TimeKnown
  <2>5. RefreshState /\ BeaconRefreshed /\ OneWindowPerArm
    BY DEF RefreshState, RefreshDue, BeaconRefreshed, OneWindowPerArm
  <2>6. StackState /\ StackAgreement /\ CoreAlive /\ NoUnexplainedExit
    BY DEF StackState, StackAgreement, CoreAlive, NoUnexplainedExit
  <2> QED
    BY <2>1, <2>2, <2>3, <2>4, <2>5, <2>6 DEF IndInv
<1>2. IndInv /\ [Next]_vars => IndInv'
  BY TypeStep, MutexStep, HostStep, MarkStateStep, BindStep, UserOffStateStep,
     TimeKnownStep, WindowStep, CoreStep, BootStep, UserOffStep, RefreshStep,
     StackStep, ExitStep
  DEF IndInv
<1> QED
  BY <1>1, <1>2, PTL DEF Spec

(* Every variable keeps its type; no semaphore is given above its limit.   *)
THEOREM TypeCorrect == Spec => []TypeOK
<1>1. IndInv => TypeOK
  BY DEF IndInv
<1> QED
  BY Invariance, <1>1, PTL

(* The sequences of main.c and ble.c that switch stacks never overlap.     *)
THEOREM MutexCorrect == Spec => []MutexOwner
<1>1. IndInv => MutexOwner
  BY DEF IndInv
<1> QED
  BY Invariance, <1>1, PTL

(* Outside the named windows the two cores agree on the stack.             *)
THEOREM StackCorrect == Spec => []StackAgreement
<1>1. IndInv => StackAgreement
  BY DEF IndInv
<1> QED
  BY Invariance, <1>1, PTL

(* ble_off_by_user is respected by every later start of Bluetooth.         *)
THEOREM UserOffCorrect == Spec => []UserOffSticks
<1>1. IndInv => UserOffSticks
  BY DEF IndInv
<1> QED
  BY Invariance, <1>1, PTL

(* No beacon stays on the air without a refresh to come.                   *)
THEOREM BeaconCorrect == Spec => []BeaconRefreshed
<1>1. IndInv => BeaconRefreshed
  BY DEF IndInv
<1> QED
  BY Invariance, <1>1, PTL

(* sat_timer and timer_sem never hold two windows.                         *)
THEOREM WindowCorrect == Spec => []OneWindowPerArm
<1>1. IndInv => OneWindowPerArm
  BY DEF IndInv
<1> QED
  BY Invariance, <1>1, PTL

(* Without faults and early requests main() never returns.                 *)
THEOREM ExitCorrect == Spec => []NoUnexplainedExit
<1>1. IndInv => NoUnexplainedExit
  BY DEF IndInv
<1> QED
  BY Invariance, <1>1, PTL

(* Only three steps of main() write the mark.                              *)
LEMMA MarkWriters ==
  ASSUME [Next]_vars
  PROVE  mark' = mark \/ BootStart \/ SatMark \/ SatDone
BY DEF Next, Boot, Loop, Satellite, BtCall, Enable, Disable, WorkQueue, Timer,
       Shell, Companion, Network, vars, BootBt, BootAdv, WaitInit, WaitKey,
       Sched, WaitTimer, SatLock, SatOpen, SatBind, SatInit, SatTx, SatStop,
       SatUnlock, BtReady, BtFailed, EnLock, EnBt, EnAdv, EnBeacon, DisLock,
       DisStop, DisTimer, DisBt, TakeButton, TakeBeacon, TakeProvisioning,
       WorkStop, WorkArm, WorkBeacon, ButtonPress, BleTimerFire,
       SatTimerFire, ShellBluetooth, ShellKey, Connected, WriteUtc,
       Disconnected, NetBoot, NetBind

(* The mark changes only under a core that is off and that no ble_enable   *)
(* is about to power: at the start of main() because nothing else has run  *)
(* (BootQuiet, and the free mutex of MutexOwner), around a window because  *)
(* Bluetooth is off and no user has entered (StackState).                  *)
THEOREM MarkCorrect == Spec => MarkStable
<1>1. ASSUME IndInv, [Next]_vars, mark' # mark, Clean
      PROVE  net = "off" /\ \A t \in Threads : pc[t] \notin EnableSection
  <2>1. CASE BootStart
    <3>1. pc["main"] = "boot" /\ "boot" \notin lapses
      BY <1>1, <2>1 DEF BootStart, Clean, SwitchLapses
    <3>2. net = "off" /\ radio_mutex = "free"
      BY <1>1, <3>1 DEF IndInv, BootQuiet, BootLabels
    <3>3. \A t \in Threads : radio_mutex # t
      BY <3>2, ShellsAssumption DEF Threads, Users
    <3> QED
      BY <1>1, <3>2, <3>3 DEF IndInv, MutexOwner, Critical
  <2>2. CASE SatMark \/ SatDone
    <3>1. pc["main"] \in {"sat_mark", "sat_done"}
      BY <2>2 DEF SatMark, SatDone
    <3> QED
      BY <1>1, <3>1 DEF IndInv, StackState, SatSection, Powered
  <2> QED
    BY <1>1, <2>1, <2>2, MarkWriters
<1>2. IndInv /\ [Next]_vars
        => [mark' # mark /\ Clean =>
              /\ net = "off"
              /\ \A t \in Threads : pc[t] \notin EnableSection]_vars
  BY <1>1
<1> QED
  BY Invariance, <1>2, PTL DEF Spec, MarkStable

=============================================================================
