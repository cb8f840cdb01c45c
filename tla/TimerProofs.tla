---------------------------- MODULE TimerProofs ----------------------------
(***************************************************************************)
(* Proofs about Timer for any set of devices and any number of slots: the  *)
(* inductive invariant of TimerInv, one lemma for each of its conjuncts,   *)
(* then the safety properties of Timer and the safety part of the          *)
(* refinement of SlotClock.                                                *)
(***************************************************************************)
EXTENDS TimerInv, TLAPS

\* Putting a device at the head of the list shifts the others by one.
LEMMA Prepend ==
  ASSUME NEW s \in Seq(Device), NEW d \in Device
  PROVE  /\ <<d>> \o s \in Seq(Device)
         /\ Len(<<d>> \o s) = Len(s) + 1
         /\ (<<d>> \o s)[1] = d
         /\ \A i \in 1..Len(s) : (<<d>> \o s)[i + 1] = s[i]
OBVIOUS

\* Every step of timer.c keeps the types.
LEMMA TypeStep == IInv /\ [Next]_vars => TypeOK'
<1> SUFFICES ASSUME IInv, [Next]_vars PROVE TypeOK' OBVIOUS
<1> USE DEF IInv
<1>1. CASE StartTimer BY <1>1 DEF StartTimer, TypeOK, TimerPC, deviceVars
<1>2. CASE StopTimer BY <1>2 DEF StopTimer, TypeOK, timerVars, deviceVars
<1>3. CASE FreeDevices BY <1>3 DEF FreeDevices, TypeOK, timerVars, deviceVars
<1>4. CASE BeginSlot BY <1>4 DEF BeginSlot, TypeOK, TimerPC, deviceVars, listVars
<1>5. CASE LockEvent BY <1>5 DEF LockEvent, TypeOK, TimerPC, deviceVars, listVars
<1>6. CASE WaitEvent BY <1>6 DEF WaitEvent, TypeOK, TimerPC, deviceVars, listVars
<1>7. CASE CountEvent
  <2>1. /\ nfsh' \in Nat /\ nevent' \in Nat /\ temp' \in Nat \ {0}
    BY <1>7 DEF CountEvent, Reported, TypeOK
  <2>2. event_lock' \in [Device -> {"free", "device", "timer"}]
    BY <1>7 DEF CountEvent, Reported, TypeOK
  <2> QED
    BY <1>7, <2>1, <2>2 DEF CountEvent, Reported, TypeOK, TimerPC, listVars, deviceVars
<1>8. CASE EndCollect BY <1>8 DEF EndCollect, TypeOK, TimerPC, deviceVars, listVars
<1>9. CASE Tick BY <1>9 DEF Tick, TypeOK, TimerPC, deviceVars, listVars
<1>10. CASE LockTimer BY <1>10 DEF LockTimer, TypeOK, TimerPC, deviceVars, listVars
<1>11. CASE ClearDone
  <2>1. done' \in [Device -> BOOLEAN] BY <1>11 DEF ClearDone, TypeOK
  <2>2. timer_lock' \in [Device -> {"free", "device", "timer"}]
    BY <1>11 DEF ClearDone, TypeOK
  <2>3. dpc' \in [Device -> DevicePC] BY <1>11 DEF ClearDone, TypeOK, DevicePC, Move
  <2> QED BY <1>11, <2>1, <2>2, <2>3 DEF ClearDone, TypeOK, TimerPC, listVars
<1>12. CASE EndSlot BY <1>12 DEF EndSlot, AllFinished, TypeOK, TimerPC, deviceVars, listVars
<1>13. CASE SpuriousTimer BY <1>13 DEF SpuriousTimer, TypeOK, TimerPC, deviceVars, listVars
<1>14. CASE Terminated BY <1>14 DEF Terminated, TypeOK, vars
<1>15. ASSUME NEW d \in Device, AttachEvent(d) PROVE TypeOK'
  BY <1>15, Prepend DEF AttachEvent, TypeOK, DevicePC, timerVars, Move
<1>16. ASSUME NEW d \in Device, LockOwnEvent(d) PROVE TypeOK'
  BY <1>16 DEF LockOwnEvent, TypeOK, DevicePC, timerVars, Move, listVars
<1>17. ASSUME NEW d \in Device, SetDone(d) PROVE TypeOK'
  BY <1>17 DEF SetDone, TypeOK, TimerPC, DevicePC, Move, SignalEvent, listVars
<1>18. ASSUME NEW d \in Device, SetFsh(d) PROVE TypeOK'
  BY <1>18 DEF SetFsh, TypeOK, TimerPC, DevicePC, Move, SignalEvent, listVars
<1>19. ASSUME NEW d \in Device, LockOwnTimer(d) PROVE TypeOK'
  BY <1>19 DEF LockOwnTimer, TypeOK, DevicePC, timerVars, Move, listVars
<1>20. ASSUME NEW d \in Device, WaitSlot(d) PROVE TypeOK'
  BY <1>20 DEF WaitSlot, TypeOK, DevicePC, timerVars, Move, listVars
<1>21. ASSUME NEW d \in Device, ReturnFromSlot(d) PROVE TypeOK'
  BY <1>21 DEF ReturnFromSlot, TypeOK, DevicePC, timerVars, Move, listVars
<1>22. ASSUME NEW d \in Device, SpuriousDevice(d) PROVE TypeOK'
  BY <1>22 DEF SpuriousDevice, TypeOK, DevicePC, timerVars, Move, listVars
<1>23. CASE UNCHANGED vars BY <1>23 DEF vars, TypeOK
<1>24. QED
  BY <1>1, <1>2, <1>3, <1>4, <1>5, <1>6, <1>7, <1>8, <1>9, <1>10, <1>11, <1>12, <1>13,
     <1>14, <1>15, <1>16, <1>17, <1>18, <1>19, <1>20, <1>21, <1>22, <1>23
    DEF Next, MainStep, TimerStep, DeviceStep, Spurious

\* Every step keeps the list: attach_event adds a device that is not in it, and it is
\* emptied only after the timer thread has ended.
LEMMA ListStep == IInv /\ [Next]_vars => ListOK'
<1> SUFFICES ASSUME IInv, [Next]_vars PROVE ListOK' OBVIOUS
<1> USE DEF IInv
<1>1. CASE StartTimer BY <1>1 DEF StartTimer, ListOK, Finished, deviceVars
<1>2. CASE StopTimer
  BY <1>2, DeviceAssumption DEF StopTimer, ListOK, Finished, timerVars, deviceVars
<1>3. CASE FreeDevices BY <1>3 DEF FreeDevices, ListOK, Finished, timerVars, deviceVars
<1>4. CASE BeginSlot BY <1>4 DEF BeginSlot, ListOK, Finished, deviceVars, listVars
<1>5. CASE LockEvent BY <1>5 DEF LockEvent, ListOK, Finished, deviceVars, listVars
<1>6. CASE WaitEvent BY <1>6 DEF WaitEvent, ListOK, Finished, deviceVars, listVars
<1>7. CASE CountEvent BY <1>7 DEF CountEvent, ListOK, Finished, deviceVars, listVars
<1>8. CASE EndCollect BY <1>8 DEF EndCollect, ListOK, Finished, deviceVars, listVars
<1>9. CASE Tick BY <1>9 DEF Tick, ListOK, Finished, deviceVars, listVars
<1>10. CASE LockTimer BY <1>10 DEF LockTimer, ListOK, Finished, deviceVars, listVars
<1>11. CASE ClearDone BY <1>11 DEF ClearDone, ListOK, Finished, TypeOK, Move, listVars
<1>12. CASE EndSlot
  BY <1>12 DEF EndSlot, AllFinished, ListOK, Finished, deviceVars, listVars
<1>13. CASE SpuriousTimer BY <1>13 DEF SpuriousTimer, ListOK, Finished, deviceVars, listVars
<1>14. CASE Terminated BY <1>14 DEF Terminated, ListOK, Finished, vars
<1>15. ASSUME NEW d \in Device, AttachEvent(d) PROVE ListOK'
  <2> DEFINE s == <<d>> \o dev_list
  <2>1. /\ dev_list' = s /\ ~timer_stop /\ dpc' = [dpc EXCEPT ![d] = "work"]
        /\ UNCHANGED <<timer_started, timer_stop, tpc, time>>
     BY <1>15 DEF AttachEvent, Move, ListOK, TypeOK, timerVars
  <2>2. /\ DOMAIN s = 1..(Len(dev_list) + 1)
        /\ DOMAIN dev_list = 1..Len(dev_list) /\ Len(dev_list) \in Nat
     BY Prepend DEF TypeOK
  <2>3. s[1] = d /\ \A i \in DOMAIN dev_list : s[i + 1] = dev_list[i]
    BY <2>2, Prepend DEF TypeOK
  <2>4. \A i \in DOMAIN s : i # 1 => (i - 1) \in DOMAIN dev_list /\ s[i] = dev_list[i - 1]
    <3> SUFFICES ASSUME NEW i \in DOMAIN s, i # 1
                 PROVE  (i - 1) \in DOMAIN dev_list /\ s[i] = dev_list[i - 1]
      OBVIOUS
    <3>1. i - 1 \in DOMAIN dev_list /\ (i - 1) + 1 = i BY <2>2
    <3> QED BY <3>1, <2>3
  <2>5. \A i \in DOMAIN dev_list : dev_list[i] # d
    BY <1>15, <2>1 DEF AttachEvent, ListOK, Finished
  <2> HIDE DEF s
  <2>6. \A i, j \in DOMAIN s : s[i] = s[j] => i = j
    <3> SUFFICES ASSUME NEW i \in DOMAIN s, NEW j \in DOMAIN s, s[i] = s[j] PROVE i = j OBVIOUS
    <3>1. CASE i = 1 BY <3>1, <2>3, <2>4, <2>5
    <3>2. CASE j = 1 BY <3>2, <2>3, <2>4, <2>5
    <3>3. CASE i # 1 /\ j # 1 BY <3>3, <2>2, <2>4 DEF ListOK
    <3> QED BY <3>1, <3>2, <3>3
  <2>7. \A e \in Device : dpc'[e] # "unattached" <=> \E i \in DOMAIN s : s[i] = e
    <3> SUFFICES ASSUME NEW e \in Device
                 PROVE  dpc'[e] # "unattached" <=> \E i \in DOMAIN s : s[i] = e
      OBVIOUS
    <3>1. CASE e = d
      <4>1. 1 \in DOMAIN s BY <2>2
      <4>2. dpc'[e] = "work" BY <3>1, <2>1 DEF TypeOK
      <4> QED BY <3>1, <4>1, <4>2, <2>3
    <3>2. CASE e # d
      <4>1. /\ dpc'[e] = dpc[e]
            /\ dpc[e] # "unattached" <=> \E i \in DOMAIN dev_list : dev_list[i] = e
        BY <3>2, <2>1 DEF TypeOK, ListOK, Finished
      <4>2. ASSUME NEW i \in DOMAIN dev_list, dev_list[i] = e PROVE \E j \in DOMAIN s : s[j] = e
        <5>1. i + 1 \in DOMAIN s BY <2>2
        <5> QED BY <4>2, <5>1, <2>3
      <4>3. ASSUME NEW i \in DOMAIN s, s[i] = e PROVE \E j \in DOMAIN dev_list : dev_list[j] = e
        BY <4>3, <3>2, <2>3, <2>4
      <4> QED BY <4>1, <4>2, <4>3
    <3> QED BY <3>1, <3>2
  <2>8. /\ ~timer_started /\ tpc = "off" /\ time = 0
        /\ \A e \in Device : dpc'[e] \in {"unattached", "work"}
    BY <1>15, <2>1 DEF AttachEvent, ListOK, TypeOK
  <2> QED BY <2>1, <2>6, <2>7, <2>8 DEF ListOK, Finished
<1>16. ASSUME NEW d \in Device, LockOwnEvent(d) PROVE ListOK'
  BY <1>16 DEF LockOwnEvent, ListOK, Finished, TypeOK, timerVars, Move, listVars
<1>17. ASSUME NEW d \in Device, SetDone(d) PROVE ListOK'
  BY <1>17 DEF SetDone, ListOK, Finished, Move, SignalEvent, listVars
<1>18. ASSUME NEW d \in Device, SetFsh(d) PROVE ListOK'
  BY <1>18 DEF SetFsh, ListOK, Finished, Move, SignalEvent, listVars
<1>19. ASSUME NEW d \in Device, LockOwnTimer(d) PROVE ListOK'
  BY <1>19 DEF LockOwnTimer, ListOK, Finished, timerVars, Move, listVars
<1>20. ASSUME NEW d \in Device, WaitSlot(d) PROVE ListOK'
  BY <1>20 DEF WaitSlot, ListOK, Finished, timerVars, Move, listVars
<1>21. ASSUME NEW d \in Device, ReturnFromSlot(d) PROVE ListOK'
  BY <1>21 DEF ReturnFromSlot, ListOK, Finished, timerVars, Move, listVars
<1>22. ASSUME NEW d \in Device, SpuriousDevice(d) PROVE ListOK'
  BY <1>22 DEF SpuriousDevice, ListOK, Finished, timerVars, Move, listVars
<1>23. CASE UNCHANGED vars BY <1>23 DEF vars, ListOK, Finished
<1>24. QED
  BY <1>1, <1>2, <1>3, <1>4, <1>5, <1>6, <1>7, <1>8, <1>9, <1>10, <1>11, <1>12, <1>13,
     <1>14, <1>15, <1>16, <1>17, <1>18, <1>19, <1>20, <1>21, <1>22, <1>23
    DEF Next, MainStep, TimerStep, DeviceStep, Spurious

\* Every step keeps the cursor within the walk it is in.
LEMMA CursorStep == IInv /\ [Next]_vars => CursorOK'
<1> SUFFICES ASSUME IInv, [Next]_vars PROVE CursorOK' OBVIOUS
<1> USE DEF IInv
<1>1. CASE StartTimer BY <1>1 DEF StartTimer, CursorOK
<1>2. CASE StopTimer BY <1>2 DEF StopTimer, CursorOK, timerVars, AtEnd
<1>3. CASE FreeDevices BY <1>3 DEF FreeDevices, CursorOK, timerVars
<1>4. CASE BeginSlot BY <1>4 DEF BeginSlot, CursorOK
<1>5. CASE LockEvent BY <1>5 DEF LockEvent, CursorOK, TypeOK, AtEnd, listVars
<1>6. CASE WaitEvent BY <1>6 DEF WaitEvent, CursorOK, listVars
<1>7. CASE CountEvent BY <1>7 DEF CountEvent, CursorOK, TypeOK, listVars
<1>8. CASE EndCollect BY <1>8 DEF EndCollect, CursorOK, AtEnd, listVars
<1>9. CASE Tick BY <1>9 DEF Tick, CursorOK
<1>10. CASE LockTimer BY <1>10 DEF LockTimer, CursorOK, TypeOK, AtEnd, listVars
<1>11. CASE ClearDone BY <1>11 DEF ClearDone, CursorOK, TypeOK, listVars
<1>12. CASE EndSlot BY <1>12 DEF EndSlot, AllFinished, CursorOK
<1>13. CASE SpuriousTimer BY <1>13 DEF SpuriousTimer, CursorOK, listVars
<1>14. CASE Terminated BY <1>14 DEF Terminated, CursorOK, vars, AtEnd
<1>15. ASSUME NEW d \in Device, AttachEvent(d) PROVE CursorOK'
  BY <1>15, Prepend DEF AttachEvent, CursorOK, ListOK, timerVars
<1>16. ASSUME NEW d \in Device, LockOwnEvent(d) PROVE CursorOK'
  BY <1>16 DEF LockOwnEvent, CursorOK, timerVars, AtEnd, listVars
<1>17. ASSUME NEW d \in Device, SetDone(d) PROVE CursorOK'
  BY <1>17 DEF SetDone, CursorOK, AtEnd, SignalEvent, listVars
<1>18. ASSUME NEW d \in Device, SetFsh(d) PROVE CursorOK'
  BY <1>18 DEF SetFsh, CursorOK, AtEnd, SignalEvent, listVars
<1>19. ASSUME NEW d \in Device, LockOwnTimer(d) PROVE CursorOK'
  BY <1>19 DEF LockOwnTimer, CursorOK, timerVars, AtEnd, listVars
<1>20. ASSUME NEW d \in Device, WaitSlot(d) PROVE CursorOK'
  BY <1>20 DEF WaitSlot, CursorOK, timerVars, AtEnd, listVars
<1>21. ASSUME NEW d \in Device, ReturnFromSlot(d) PROVE CursorOK'
  BY <1>21 DEF ReturnFromSlot, CursorOK, timerVars, AtEnd, listVars
<1>22. ASSUME NEW d \in Device, SpuriousDevice(d) PROVE CursorOK'
  BY <1>22 DEF SpuriousDevice, CursorOK, timerVars, AtEnd, listVars
<1>23. CASE UNCHANGED vars BY <1>23 DEF vars, CursorOK, AtEnd
<1>24. QED
  BY <1>1, <1>2, <1>3, <1>4, <1>5, <1>6, <1>7, <1>8, <1>9, <1>10, <1>11, <1>12, <1>13,
     <1>14, <1>15, <1>16, <1>17, <1>18, <1>19, <1>20, <1>21, <1>22, <1>23
    DEF Next, MainStep, TimerStep, DeviceStep, Spurious

\* Every step keeps the account of who holds which mutex.
LEMMA LockStep == IInv /\ [Next]_vars => LockOK'
<1> SUFFICES ASSUME IInv, [Next]_vars PROVE LockOK' OBVIOUS
<1> USE DEF IInv
<1>1. CASE StartTimer BY <1>1 DEF StartTimer, LockOK, ListOK, deviceVars
<1>2. CASE StopTimer BY <1>2 DEF StopTimer, LockOK, timerVars, deviceVars, Cur
<1>3. CASE FreeDevices BY <1>3 DEF FreeDevices, LockOK, timerVars, deviceVars
<1>4. CASE BeginSlot BY <1>4 DEF BeginSlot, LockOK, deviceVars
<1>5. CASE LockEvent BY <1>5 DEF LockEvent, LockOK, TypeOK, deviceVars, Cur, listVars
<1>6. CASE WaitEvent BY <1>6 DEF WaitEvent, LockOK, TypeOK, deviceVars
<1>7. CASE CountEvent BY <1>7 DEF CountEvent, LockOK, TypeOK, deviceVars
<1>8. CASE EndCollect BY <1>8 DEF EndCollect, LockOK, deviceVars
<1>9. CASE Tick BY <1>9 DEF Tick, LockOK, deviceVars
<1>10. CASE LockTimer BY <1>10 DEF LockTimer, LockOK, TypeOK, deviceVars, Cur, listVars
<1>11. CASE ClearDone BY <1>11 DEF ClearDone, LockOK, TypeOK, Move
<1>12. CASE EndSlot BY <1>12 DEF EndSlot, AllFinished, LockOK, deviceVars
<1>13. CASE SpuriousTimer BY <1>13 DEF SpuriousTimer, LockOK, deviceVars
<1>14. CASE Terminated BY <1>14 DEF Terminated, LockOK, vars, Cur
<1>15. ASSUME NEW d \in Device, AttachEvent(d) PROVE LockOK'
  BY <1>15, Prepend DEF AttachEvent, LockOK, ListOK, timerVars, Move
<1>16. ASSUME NEW d \in Device, LockOwnEvent(d) PROVE LockOK'
  BY <1>16 DEF LockOwnEvent, LockOK, TypeOK, timerVars, Move, Cur, listVars
<1>17. ASSUME NEW d \in Device, SetDone(d) PROVE LockOK'
  BY <1>17 DEF SetDone, LockOK, TypeOK, Move, Cur, SignalEvent, listVars
<1>18. ASSUME NEW d \in Device, SetFsh(d) PROVE LockOK'
  BY <1>18 DEF SetFsh, LockOK, TypeOK, Move, Cur, SignalEvent, listVars
<1>19. ASSUME NEW d \in Device, LockOwnTimer(d) PROVE LockOK'
  BY <1>19 DEF LockOwnTimer, LockOK, TypeOK, timerVars, Move, Cur, listVars
<1>20. ASSUME NEW d \in Device, WaitSlot(d) PROVE LockOK'
  BY <1>20 DEF WaitSlot, LockOK, TypeOK, timerVars, Move, Cur, listVars
<1>21. ASSUME NEW d \in Device, ReturnFromSlot(d) PROVE LockOK'
  BY <1>21 DEF ReturnFromSlot, LockOK, TypeOK, timerVars, Move, Cur, listVars
<1>22. ASSUME NEW d \in Device, SpuriousDevice(d) PROVE LockOK'
  BY <1>22 DEF SpuriousDevice, LockOK, timerVars, Move, Cur, listVars
<1>23. CASE UNCHANGED vars BY <1>23 DEF vars, LockOK, Cur
<1>24. QED
  BY <1>1, <1>2, <1>3, <1>4, <1>5, <1>6, <1>7, <1>8, <1>9, <1>10, <1>11, <1>12, <1>13,
     <1>14, <1>15, <1>16, <1>17, <1>18, <1>19, <1>20, <1>21, <1>22, <1>23
    DEF Next, MainStep, TimerStep, DeviceStep, Spurious

\* Every step keeps flags and slots in agreement with the control states.
LEMMA DeviceInvStep == IInv /\ [Next]_vars => DeviceOK'
<1> SUFFICES ASSUME IInv, [Next]_vars PROVE DeviceOK' OBVIOUS
<1> USE DEF IInv
<1>1. CASE StartTimer
  BY <1>1
    DEF StartTimer, DeviceOK, ListOK, Pending, Collecting, Releasing, Parked, deviceVars
<1>2. CASE StopTimer BY <1>2 DEF StopTimer, DeviceOK, Parked, timerVars, deviceVars, Cur
<1>3. CASE FreeDevices
  BY <1>3 DEF FreeDevices, DeviceOK, Pending, Late, Releasing, timerVars, deviceVars
<1>4. CASE BeginSlot
  BY <1>4 DEF BeginSlot, DeviceOK, Pending, Late, Releasing, TypeOK, deviceVars, listVars
<1>5. CASE LockEvent
  BY <1>5
    DEF LockEvent, DeviceOK, Pending, Late, Collecting, Releasing, deviceVars, listVars
<1>6. CASE WaitEvent
  BY <1>6
    DEF WaitEvent, Reported, DeviceOK, Pending, Late, Collecting, Releasing, deviceVars,
        Cur, listVars
<1>7. CASE CountEvent
  BY <1>7
    DEF CountEvent, Reported, DeviceOK, Pending, Late, Collecting, Releasing, TypeOK,
        deviceVars, Cur, listVars
<1>8. CASE EndCollect
  BY <1>8
    DEF EndCollect, DeviceOK, ListOK, Pending, Late, Collecting, Releasing, TypeOK,
        deviceVars, AtEnd
<1>9. CASE Tick
  BY <1>9
    DEF Tick, DeviceOK, ListOK, Pending, Late, Releasing, Working, Parked, TypeOK,
        deviceVars, listVars
<1>10. CASE LockTimer
  BY <1>10
    DEF LockTimer, DeviceOK, Pending, Late, Collecting, Releasing, deviceVars, listVars
<1>11. CASE ClearDone
  BY <1>11
    DEF ClearDone, DeviceOK, CursorOK, ListOK, Pending, Late, Collecting, Releasing,
        Working, TypeOK, Move, Cur, listVars
<1>12. CASE EndSlot
  BY <1>12
    DEF EndSlot, AllFinished, DeviceOK, Pending, Late, Collecting, Releasing, TypeOK,
        deviceVars, AtEnd
<1>13. CASE SpuriousTimer
  BY <1>13
    DEF SpuriousTimer, DeviceOK, Pending, Late, Collecting, Releasing, deviceVars, listVars
<1>14. CASE Terminated BY <1>14 DEF Terminated, DeviceOK, Pending, Late, vars, Cur
<1>15. ASSUME NEW d \in Device, AttachEvent(d) PROVE DeviceOK'
  BY <1>15, Prepend
    DEF AttachEvent, DeviceOK, ListOK, Pending, Collecting, Releasing, Parked, timerVars,
        Move
<1>16. ASSUME NEW d \in Device, LockOwnEvent(d) PROVE DeviceOK'
  BY <1>16
    DEF LockOwnEvent, DeviceOK, Pending, Late, Working, Parked, TypeOK, timerVars, Move,
        Cur, listVars
<1>17. ASSUME NEW d \in Device, SetDone(d) PROVE DeviceOK'
  BY <1>17
    DEF SetDone, DeviceOK, Pending, Late, Collecting, Releasing, Working, Parked, TypeOK,
        Move, Cur, SignalEvent, listVars
<1>18. ASSUME NEW d \in Device, SetFsh(d) PROVE DeviceOK'
  BY <1>18
    DEF SetFsh, DeviceOK, Pending, Late, Collecting, Releasing, Working, Parked, TypeOK,
        Move, Cur, SignalEvent, listVars
<1>19. ASSUME NEW d \in Device, LockOwnTimer(d) PROVE DeviceOK'
  BY <1>19
    DEF LockOwnTimer, DeviceOK, Pending, Late, Working, Parked, timerVars, Move, Cur,
        listVars
<1>20. ASSUME NEW d \in Device, WaitSlot(d) PROVE DeviceOK'
  BY <1>20
    DEF WaitSlot, Released, DeviceOK, Pending, Late, Working, Parked, timerVars, Move, Cur,
        listVars
<1>21. ASSUME NEW d \in Device, ReturnFromSlot(d) PROVE DeviceOK'
  BY <1>21
    DEF ReturnFromSlot, Released, DeviceOK, Pending, Late, Parked, TypeOK, timerVars, Move,
        Cur, listVars
<1>22. ASSUME NEW d \in Device, SpuriousDevice(d) PROVE DeviceOK'
  BY <1>22
    DEF SpuriousDevice, DeviceOK, Pending, Late, Working, Parked, timerVars, Move, Cur,
        listVars
<1>23. CASE UNCHANGED vars BY <1>23 DEF vars, DeviceOK, Pending, Late, Cur
<1>24. QED
  BY <1>1, <1>2, <1>3, <1>4, <1>5, <1>6, <1>7, <1>8, <1>9, <1>10, <1>11, <1>12, <1>13,
     <1>14, <1>15, <1>16, <1>17, <1>18, <1>19, <1>20, <1>21, <1>22, <1>23
    DEF Next, MainStep, TimerStep, DeviceStep, Spurious

\* Every step keeps the counts of timer_routine in agreement with the devices counted.
LEMMA CountStep == IInv /\ [Next]_vars => CountOK'
<1> SUFFICES ASSUME IInv, [Next]_vars PROVE CountOK' OBVIOUS
<1> USE DEF IInv
<1>1. CASE StartTimer BY <1>1 DEF StartTimer, CountOK, Collecting, Releasing
<1>2. CASE StopTimer BY <1>2 DEF StopTimer, CountOK, timerVars
<1>3. CASE FreeDevices BY <1>3 DEF FreeDevices, CountOK, timerVars
<1>4. CASE BeginSlot
  BY <1>4 DEF BeginSlot, CountOK, DeviceOK, ListOK, Releasing, TypeOK, listVars
<1>5. CASE LockEvent BY <1>5 DEF LockEvent, CountOK, Collecting, Releasing, listVars
<1>6. CASE WaitEvent BY <1>6 DEF WaitEvent, CountOK, Collecting, Releasing, listVars
<1>7. CASE CountEvent
  BY <1>7 DEF CountEvent, CountOK, Collecting, Releasing, TypeOK, Cur, listVars
<1>8. CASE EndCollect BY <1>8 DEF EndCollect, CountOK, ListOK, Collecting, TypeOK, AtEnd
<1>9. CASE Tick BY <1>9 DEF Tick, CountOK, Collecting
<1>10. CASE LockTimer BY <1>10 DEF LockTimer, CountOK, Collecting, Releasing
<1>11. CASE ClearDone BY <1>11 DEF ClearDone, CountOK, Collecting, Releasing
<1>12. CASE EndSlot BY <1>12 DEF EndSlot, AllFinished, CountOK, Collecting, Releasing
<1>13. CASE SpuriousTimer
  BY <1>13 DEF SpuriousTimer, CountOK, Collecting, Releasing, listVars
<1>14. CASE Terminated BY <1>14 DEF Terminated, CountOK, vars
<1>15. ASSUME NEW d \in Device, AttachEvent(d) PROVE CountOK'
  BY <1>15, Prepend DEF AttachEvent, CountOK, ListOK, Collecting, timerVars
<1>16. ASSUME NEW d \in Device, LockOwnEvent(d) PROVE CountOK'
  BY <1>16 DEF LockOwnEvent, CountOK, timerVars, listVars
<1>17. ASSUME NEW d \in Device, SetDone(d) PROVE CountOK'
  BY <1>17 DEF SetDone, CountOK, Collecting, Releasing, SignalEvent, listVars
<1>18. ASSUME NEW d \in Device, SetFsh(d) PROVE CountOK'
  BY <1>18 DEF SetFsh, CountOK, Collecting, Releasing, SignalEvent, listVars
<1>19. ASSUME NEW d \in Device, LockOwnTimer(d) PROVE CountOK'
  BY <1>19 DEF LockOwnTimer, CountOK, timerVars, listVars
<1>20. ASSUME NEW d \in Device, WaitSlot(d) PROVE CountOK'
  BY <1>20 DEF WaitSlot, CountOK, timerVars, listVars
<1>21. ASSUME NEW d \in Device, ReturnFromSlot(d) PROVE CountOK'
  BY <1>21 DEF ReturnFromSlot, CountOK, timerVars, listVars
<1>22. ASSUME NEW d \in Device, SpuriousDevice(d) PROVE CountOK'
  BY <1>22 DEF SpuriousDevice, CountOK, timerVars, listVars
<1>23. CASE UNCHANGED vars BY <1>23 DEF vars, CountOK
<1>24. QED
  BY <1>1, <1>2, <1>3, <1>4, <1>5, <1>6, <1>7, <1>8, <1>9, <1>10, <1>11, <1>12, <1>13,
     <1>14, <1>15, <1>16, <1>17, <1>18, <1>19, <1>20, <1>21, <1>22, <1>23
    DEF Next, MainStep, TimerStep, DeviceStep, Spurious

-----------------------------------------------------------------------------
(* Theorems *)

\* IInv holds in every state of timer.c.
THEOREM Invariance == SafeSpec => []IInv
<1>1. Init => IInv
  <2> SUFFICES ASSUME Init PROVE IInv OBVIOUS
  <2>1. TypeOK
    <3>1. dev_list \in Seq(Device) /\ temp \in Nat \ {0} /\ tpc \in TimerPC
      BY DEF Init, TimerPC
    <3>2. dpc \in [Device -> DevicePC] /\ slot \in [Device -> Nat] BY DEF Init, DevicePC
    <3> QED BY <3>1, <3>2 DEF Init, TypeOK
  <2>2. ListOK BY DEF Init, ListOK, Finished
  <2>3. CursorOK /\ CountOK BY DEF Init, CursorOK, CountOK, Collecting, Releasing
  <2>4. LockOK BY DEF Init, LockOK
  <2>5. DeviceOK BY DEF Init, DeviceOK, Pending, Collecting, Releasing, Working, Parked
  <2> QED BY <2>1, <2>2, <2>3, <2>4, <2>5 DEF IInv
<1>2. IInv /\ [Next]_vars => IInv'
  BY TypeStep, ListStep, CursorStep, LockStep, DeviceInvStep, CountStep DEF IInv
<1> QED BY <1>1, <1>2, PTL DEF SafeSpec

\* The types hold.
THEOREM Typing == SafeSpec => []TypeOK
<1>1. IInv => TypeOK BY DEF IInv
<1> QED BY <1>1, Invariance, PTL

\* current_time may read _time without a lock: the timer thread is never about to
\* increment it while a device works.
THEOREM TimeReadsAreSafe == SafeSpec => []NoTickWhileWorking
<1>1. IInv => NoTickWhileWorking
  BY DEF IInv, NoTickWhileWorking, DeviceOK, Pending, Working, Parked
<1> QED BY <1>1, Invariance, PTL

\* next_slot and timer_routine never write done of one device at the same time,
\* though they hold different mutexes when they do.
THEOREM DoneWritesAreSafe == SafeSpec => []NoDoneRace
<1> SUFFICES IInv => NoDoneRace BY Invariance, PTL
<1> SUFFICES ASSUME IInv, NEW d \in Device, dpc[d] = "setdone", tpc = "clear", Cur = d PROVE FALSE
  BY DEF NoDoneRace
<1>1. temp \in DOMAIN dev_list BY DEF IInv, TypeOK, CursorOK
<1>2. Pending(d) BY <1>1 DEF Pending, Releasing, Cur, IInv, TypeOK
<1> QED BY <1>2 DEF IInv, DeviceOK, Parked

\* A device works in every time slot exactly once.
THEOREM LockstepHolds == SafeSpec => []Lockstep
<1>1. IInv => Lockstep BY DEF IInv, Lockstep, DeviceOK
<1> QED BY <1>1, Invariance, PTL

\* The counts of timer_routine match only when every device has detached.
THEOREM TimerEndsLastHolds == SafeSpec => []TimerEndsLast
<1>1. IInv => TimerEndsLast BY DEF IInv, TimerEndsLast, CountOK
<1> QED BY <1>1, Invariance, PTL

\* A thread asleep on a condition variable still waits for what its signaller has yet
\* to do: no signal is needed that has been sent already.
THEOREM WakeupsAreNotLost == SafeSpec => []NoLostWakeup
<1> SUFFICES IInv => NoLostWakeup BY Invariance, PTL
<1> SUFFICES ASSUME IInv PROVE NoLostWakeup OBVIOUS
<1>1. ASSUME tpc = "wait" PROVE Cur \in Device BY <1>1 DEF IInv, TypeOK, CursorOK, Cur
<1> QED BY <1>1 DEF IInv, NoLostWakeup, DeviceOK

\* _time moves by one, and only when every device that has not detached has completed
\* the slot that ends.
THEOREM TimeStepHolds == SafeSpec => TimeStep
<1>1. IInv /\ [Next]_vars =>
        [time' # time => time' = time + 1 /\ \A d \in Device : ~fsh[d] => slot[d] = time]_vars
  <2> SUFFICES ASSUME IInv, [Next]_vars, time' # time
               PROVE  time' = time + 1 /\ \A d \in Device : ~fsh[d] => slot[d] = time
    OBVIOUS
  <2>1. Tick
    BY DEF Next, vars, MainStep, TimerStep, DeviceStep, Spurious, Terminated, StartTimer,
          StopTimer, FreeDevices,
      AttachEvent, BeginSlot, LockEvent, WaitEvent, CountEvent, EndCollect, LockTimer, ClearDone, EndSlot,
      SpuriousTimer, LockOwnEvent, SetDone, SetFsh, LockOwnTimer, WaitSlot, ReturnFromSlot, SpuriousDevice,
      timerVars
  <2> QED BY <2>1 DEF Tick, IInv, DeviceOK, Pending, Late, Releasing, Parked
<1> QED BY <1>1, Invariance, PTL DEF SafeSpec, TimeStep

\* Every step of timer.c is a step of the slot clock or leaves it as it is: the tick is
\* the increment, Park the write of done, Leave the write of fsh, Resume the return of
\* next_slot.  Fairness is left to the model checker.
THEOREM TimerImplementsClock == SafeSpec => Clock!SafeSpec
<1> DEFINE mode == [d \in Device |-> ModeOf(d)]
<1>1. Init => Clock!Init
  <2> SUFFICES ASSUME Init PROVE Clock!Init OBVIOUS
  <2>1. \A d \in Device : ModeOf(d) = "work" BY DEF Init, ModeOf, Parked
  <2> QED BY <2>1 DEF Init, Clock!Init
<1>2. IInv /\ IInv' /\ [Next]_vars => [Clock!Next]_(Clock!clockVars)
  <2> SUFFICES ASSUME IInv, IInv', [Next]_vars PROVE Clock!Next \/ UNCHANGED Clock!clockVars
    OBVIOUS
  <2>1. CASE Tick
    <3>1. \A d \in Device : \/ ModeOf(d) = "left" /\ ModeOf(d)' = "left"
                            \/ ModeOf(d) = "parked" /\ ModeOf(d)' = "released"
      <4> SUFFICES ASSUME NEW d \in Device
                   PROVE  \/ ModeOf(d) = "left" /\ ModeOf(d)' = "left"
                          \/ ModeOf(d) = "parked" /\ ModeOf(d)' = "released"
        OBVIOUS
      <4>1. done[d] \/ dpc[d] = "exit" BY <2>1 DEF Tick, IInv, DeviceOK, Pending
      <4>2. done[d] => dpc[d] \in Parked /\ slot[d] = time
        BY <2>1 DEF Tick, IInv, DeviceOK, Late, Releasing
      <4>3. time # time + 1 BY DEF IInv, TypeOK
      <4> QED BY <2>1, <4>1, <4>2, <4>3 DEF Tick, deviceVars, ModeOf, Parked
    <3>2. Clock!Tick BY <2>1, <3>1 DEF Tick, Clock!Tick, Clock!Release
    <3> QED BY <3>2 DEF Clock!Next
  <2>2. ASSUME NEW d \in Device, SetDone(d) PROVE Clock!Next
    <3>1. /\ ModeOf(d) = "work" /\ ModeOf(d)' = "parked"
          /\ \A e \in Device \ {d} : ModeOf(e)' = ModeOf(e)
      BY <2>2 DEF SetDone, Move, ModeOf, Parked, Working, IInv, TypeOK, DeviceOK
    <3>2. Clock!DeviceStep(d) BY <2>2, <3>1 DEF SetDone, Clock!DeviceStep, Clock!Park
    <3> QED BY <3>2 DEF Clock!Next
  <2>3. ASSUME NEW d \in Device, SetFsh(d) PROVE Clock!Next
    <3>1. /\ ModeOf(d) = "work" /\ ModeOf(d)' = "left"
          /\ \A e \in Device \ {d} : ModeOf(e)' = ModeOf(e)
      BY <2>3 DEF SetFsh, Move, ModeOf, Parked, IInv, TypeOK
    <3>2. Clock!DeviceStep(d) BY <2>3, <3>1 DEF SetFsh, Clock!DeviceStep, Clock!Leave
    <3> QED BY <3>2 DEF Clock!Next
  <2>4. ASSUME NEW d \in Device, ReturnFromSlot(d) PROVE Clock!Next
    <3>1. slot[d] = time - 1 /\ time - 1 # time
      BY <2>4 DEF ReturnFromSlot, Released, IInv, TypeOK, DeviceOK, Parked
    <3>2. /\ ModeOf(d) = "released" /\ ModeOf(d)' = "work"
          /\ \A e \in Device \ {d} : ModeOf(e)' = ModeOf(e)
      BY <2>4, <3>1
        DEF ReturnFromSlot, Released, timerVars, Move, ModeOf, Parked, IInv, TypeOK
    <3>3. Clock!DeviceStep(d)
      BY <2>4, <3>2 DEF ReturnFromSlot, Released, timerVars, Clock!DeviceStep, Clock!Resume
    <3> QED BY <3>3 DEF Clock!Next
  <2>5. ASSUME time' = time, \A d \in Device : ModeOf(d)' = ModeOf(d)
        PROVE  UNCHANGED Clock!clockVars
    BY <2>5 DEF Clock!clockVars
  <2>6. ASSUME NEW d \in Device, AttachEvent(d) PROVE UNCHANGED Clock!clockVars
    BY <2>5, <2>6 DEF AttachEvent, Move, ModeOf, Parked, timerVars, IInv, TypeOK
  <2>7. ASSUME NEW d \in Device, LockOwnEvent(d) PROVE UNCHANGED Clock!clockVars
    BY <2>5, <2>7 DEF LockOwnEvent, Move, ModeOf, Parked, timerVars, IInv, TypeOK
  <2>8. ASSUME NEW d \in Device, LockOwnTimer(d) \/ WaitSlot(d) \/ SpuriousDevice(d)
        PROVE  UNCHANGED Clock!clockVars
    BY <2>5, <2>8
      DEF LockOwnTimer, WaitSlot, SpuriousDevice, Move, ModeOf, Parked, timerVars, IInv,
          TypeOK
  <2>9. CASE ClearDone
    BY <2>5, <2>9 DEF ClearDone, Move, ModeOf, Parked, IInv, TypeOK
  <2>10. ASSUME dpc' = dpc, time' = time, slot' = slot PROVE UNCHANGED Clock!clockVars
    BY <2>5, <2>10 DEF ModeOf
  <2>11. CASE MainStep /\ ~\E d \in Device : AttachEvent(d)
    BY <2>10, <2>11 DEF MainStep, StartTimer, StopTimer, FreeDevices, timerVars, deviceVars
  <2>12. CASE TimerStep /\ ~Tick /\ ~ClearDone
    BY <2>10, <2>12
      DEF TimerStep, BeginSlot, LockEvent, WaitEvent, CountEvent, EndCollect, LockTimer,
       EndSlot, deviceVars
  <2>13. CASE SpuriousTimer \/ UNCHANGED vars
    BY <2>10, <2>13 DEF SpuriousTimer, deviceVars, vars
  <2> QED BY <2>1, <2>2, <2>3, <2>4, <2>6, <2>7, <2>8, <2>9, <2>11, <2>12, <2>13
          DEF Next, DeviceStep, Spurious, Terminated
<1> QED BY <1>1, <1>2, Invariance, PTL DEF SafeSpec, Clock!SafeSpec

=============================================================================
