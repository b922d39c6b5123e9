------------------------ MODULE CameraPollingProofs -------------------------
(* Type correctness of CameraPolling, how often the camera may change      *)
(* under a slot, and that the page shows it: for any number of cameras,    *)
(* logins and PTZ buttons.                                                 *)
EXTENDS CameraPolling, FiniteSetTheorems, TLAPS

\* The boolean part of the types, and the rest.
Flags ==
  /\ m_iPollingFlag \in BOOLEAN /\ iPollFlag \in BOOLEAN /\ iFlag \in BOOLEAN
  /\ text \in BOOLEAN /\ labels \in BOOLEAN
  /\ iPollingFlag \in [Threads -> BOOLEAN]
  /\ iCameraSwitchState \in [Index -> BOOLEAN] /\ stream \in [0..N-1 -> BOOLEAN]

\* The numbers.
Numbers ==
  /\ logins \in 1..MaxLogins /\ m_iCameraNum = N * logins
  /\ m_iCameraPlayNo \in Index /\ iCameraIdex \in [Threads -> Index]
  /\ m_iCameraSwitchState \in {NORMAL, "LASTONE", "NEXTONE"}
  /\ monPc \in [Threads -> {"off", "check", "manual", "normal", "write", "waiting"}]
  /\ uiPc \in {"idle", "toggle", "send", "restore"} /\ changes \in Nat
  /\ label \in Index
  /\ m_iPtzMoveType \in {E_START_MOVE, E_STOP_MOVE} /\ m_iPtzCtrType \in E_PTZ_CTRL_TYPE
  /\ pressed \in PtzButtons \cup {0} /\ moving \in [0..N-1 -> E_PTZ_CTRL_TYPE \cup {0}]

\* The two parts are the type invariant.
LEMMA TypeParts == TypeOK <=> Flags /\ Numbers
<1>1. {m_iPollingFlag, iPollFlag, iFlag, text, labels} \subseteq BOOLEAN
        <=> /\ m_iPollingFlag \in BOOLEAN /\ iPollFlag \in BOOLEAN /\ iFlag \in BOOLEAN
            /\ text \in BOOLEAN /\ labels \in BOOLEAN
  BY Zenon
<1> QED
  BY <1>1, Zenon DEF TypeOK, Flags, Numbers

\* There is a camera.
LEMMA CamerasExist == Numbers => m_iCameraNum \in Nat \ {0} /\ 0 \in Index
<1> SUFFICES ASSUME Numbers PROVE m_iCameraNum \in Nat \ {0} /\ 0 \in Index
  OBVIOUS
<1>1. N \in Nat \ {0} /\ logins \in Nat \ {0}
  BY CamerasAssumption DEF Numbers
<1>2. N * logins \in Nat \ {0}
  BY <1>1
<1>3. m_iCameraNum \in Nat \ {0}
  BY <1>2 DEF Numbers
<1> QED
  BY <1>3 DEF Index

\* A step of the round stays among the cameras.
LEMMA Round ==
  ASSUME Numbers, NEW i \in Index
  PROVE  NextOne(i) \in Index /\ LastOne(i) \in Index
BY CamerasExist DEF NextOne, LastOne, Index

\* What a camera is made to do is a button's movement or none.
LEMMA PtzType ==
  ASSUME Numbers, NEW c, NEW ctrl \in E_PTZ_CTRL_TYPE, NEW move,
         PtzCommand(c, ctrl, move)
  PROVE  moving' \in [0..N-1 -> E_PTZ_CTRL_TYPE \cup {0}]
BY DEF Numbers, PtzCommand

-----------------------------------------------------------------------------
\* The initial flags.
LEMMA FlagsInit == Init => Flags
<1> SUFFICES ASSUME Init PROVE Flags
  OBVIOUS
<1>1. Index = 0..N-1
  BY DEF Init, Index
<1>2. iCameraSwitchState \in [Index -> BOOLEAN]
  BY <1>1, Zenon DEF Init
<1> QED
  BY <1>2, Zenon DEF Init, Flags

\* The initial numbers.
LEMMA NumbersInit == Init => Numbers
<1> SUFFICES ASSUME Init PROVE Numbers
  OBVIOUS
<1>1. N * 1 = N /\ 1 \in 1..MaxLogins /\ 0 \in 0..N-1
  BY CamerasAssumption
<1> QED
  BY <1>1 DEF Init, Numbers, Index, NORMAL, E_START_MOVE, E_STOP_MOVE, E_PTZ_CTRL_TYPE

\* Every step keeps the flags boolean.
LEMMA FlagsStep ==
  ASSUME Flags, Numbers, [Next]_vars
  PROVE  Flags'
<1>0. m_iCameraPlayNo \in Index
  BY DEF Numbers
<1> USE DEF session, polling, monitor, slot, camera, display
<1>1. ASSUME NEW t \in Threads, Monitor(t) PROVE Flags'
  <2>1. iPollingFlag' \in [Threads -> BOOLEAN]
    BY <1>1, Zenon DEF Flags, Monitor, CheckDue, CheckNotDue, Manual, ManualDone,
                       NoManual, Write
  <2>2. UNCHANGED <<m_iPollingFlag, iPollFlag, iFlag, text, labels,
                    iCameraSwitchState, stream, m_iCameraNum>>
    BY <1>1 DEF Monitor, CheckDue, CheckNotDue, Manual, ManualDone, NoManual, Write
  <2> QED
    BY <2>1, <2>2, Zenon DEF Flags, Index
<1>2. ASSUME NEW t \in Threads, VideoPollingSignalCtrl(t) PROVE Flags'
  <2>1. text' \in BOOLEAN
    BY <1>0, <1>2, Zenon DEF Flags, VideoPollingSignalCtrl, Show
  <2>2. UNCHANGED <<m_iPollingFlag, iPollFlag, iFlag, labels, iPollingFlag,
                    iCameraSwitchState, stream, m_iCameraNum>>
    BY <1>2 DEF VideoPollingSignalCtrl, Show
  <2> QED
    BY <2>1, <2>2, Zenon DEF Flags, Index
<1>3. CASE ManualSwitch \/ PtzPress \/ PtzRelease
  <2>1. UNCHANGED <<m_iPollingFlag, iPollFlag, iFlag, text, labels, iPollingFlag,
                    iCameraSwitchState, stream, m_iCameraNum>>
    BY <1>3 DEF ManualSwitch, PtzPress, PtzRelease
  <2> QED
    BY <2>1, Zenon DEF Flags, Index
<1>4. CASE StartPolling \/ PausePolling \/ LeavePage \/ EnterPage \/ CameraSwitch
           \/ CameraSwitchRestore
  <2>1. m_iPollingFlag' \in BOOLEAN /\ iPollFlag' \in BOOLEAN /\ iFlag' \in BOOLEAN
    BY <1>4, Zenon DEF Flags, StartPolling, PausePolling, LeavePage, EnterPage,
                       CameraSwitch, CameraSwitchRestore
  <2>2. UNCHANGED <<text, labels, iPollingFlag, iCameraSwitchState, stream, m_iCameraNum>>
    BY <1>4 DEF StartPolling, PausePolling, LeavePage, EnterPage, CameraSwitch,
                CameraSwitchRestore
  <2> QED
    BY <2>1, <2>2, Zenon DEF Flags, Index
<1>5. CASE CameraSwitchToggle
  <2>1. text' \in BOOLEAN /\ iCameraSwitchState' \in [Index -> BOOLEAN]
    BY <1>0, <1>5, Zenon DEF Flags, CameraSwitchToggle
  <2>2. UNCHANGED <<m_iPollingFlag, iPollFlag, iFlag, labels, iPollingFlag, stream,
                    m_iCameraNum>>
    BY <1>5 DEF CameraSwitchToggle
  <2> QED
    BY <2>1, <2>2, Zenon DEF Flags, Index
<1>6. CASE CameraSwitchSend
  <2>1. stream' \in [0..N-1 -> BOOLEAN]
    BY <1>6, Zenon DEF Flags, CameraSwitchSend
  <2>2. UNCHANGED <<m_iPollingFlag, iPollFlag, iFlag, text, labels, iPollingFlag,
                    iCameraSwitchState, m_iCameraNum>>
    BY <1>6 DEF CameraSwitchSend
  <2> QED
    BY <2>1, <2>2, Zenon DEF Flags, Index
<1>7. CASE Logout
  <2>1. labels' \in BOOLEAN
    BY <1>7, Zenon DEF Logout
  <2>2. UNCHANGED <<m_iPollingFlag, iPollFlag, iFlag, text, iPollingFlag, stream,
                    iCameraSwitchState, m_iCameraNum>>
    BY <1>7 DEF Logout
  <2> QED
    BY <2>1, <2>2, Zenon DEF Flags, Index
<1>8. CASE Login
  <2>1. Index' = 0..m_iCameraNum + N - 1
    <3>1. m_iCameraNum' = m_iCameraNum + N
      BY <1>8 DEF Login
    <3>2. m_iCameraNum \in Nat /\ N \in Nat
      BY CamerasExist, CamerasAssumption
    <3> QED
      BY <3>1, <3>2 DEF Index
  <2>2. iCameraSwitchState' \in [Index' -> BOOLEAN]
    <3> DEFINE On(i) == i \in Index /\ iCameraSwitchState[i]
    <3>1. iCameraSwitchState' = [i \in Index' |-> On(i)]
      BY <1>8, <2>1, Zenon DEF Login
    <3>2. \A i \in Index' : On(i) \in BOOLEAN
      BY Zenon
    <3> HIDE DEF On
    <3> QED
      BY <3>1, <3>2, Zenon
  <2>3. /\ text' \in BOOLEAN /\ labels' \in BOOLEAN
        /\ m_iPollingFlag' \in BOOLEAN /\ iPollFlag' \in BOOLEAN
    BY <1>0, <1>8, Zenon DEF Flags, Login
  <2>4. UNCHANGED <<iFlag, iPollingFlag, stream>>
    BY <1>8 DEF Login
  <2> QED
    BY <2>2, <2>3, <2>4, Zenon DEF Flags
<1>9. CASE UNCHANGED vars
  <2>1. UNCHANGED <<m_iPollingFlag, iPollFlag, iFlag, text, labels, iPollingFlag,
                    iCameraSwitchState, stream, m_iCameraNum>>
    BY <1>9 DEF vars
  <2> QED
    BY <2>1, Zenon DEF Flags, Index
<1> QED
  BY <1>1, <1>2, <1>3, <1>4, <1>5, <1>6, <1>7, <1>8, <1>9 DEF Next, Slot, Operator

\* Every step keeps numbers, program counters and cameras in their ranges.
LEMMA NumbersStep ==
  ASSUME Numbers, [Next]_vars
  PROVE  Numbers'
<1> USE DEF session, polling, monitor, slot, camera, display, ptz
<1>0. /\ m_iCameraNum \in Nat \ {0} /\ 0 \in Index
      /\ E_START_MOVE \in E_PTZ_CTRL_TYPE /\ E_STOP_MOVE \in E_PTZ_CTRL_TYPE
  BY CamerasExist DEF E_START_MOVE, E_STOP_MOVE, E_PTZ_CTRL_TYPE
<1>1. ASSUME NEW t \in Threads, Monitor(t) PROVE Numbers'
  <2>1. CASE CheckDue(t)
    <3>1. NextOne(iCameraIdex[t]) \in Index
      BY Round DEF Numbers
    <3> QED
      BY <2>1, <3>1 DEF CheckDue, MonGoto, Numbers, Index
  <2>2. CASE Manual(t)
    <3>1. NextOne(iCameraIdex[t]) \in Index /\ LastOne(iCameraIdex[t]) \in Index
      BY Round DEF Numbers
    <3> QED
      BY <2>2, <3>1 DEF Manual, MonGoto, Numbers, Index
  <2>3. CASE CheckNotDue(t) \/ NoManual(t)
    BY <2>3 DEF CheckNotDue, NoManual, MonGoto, Numbers, Index
  <2>4. CASE ManualDone(t)
    BY <2>4 DEF ManualDone, MonGoto, Numbers, Index
  <2>5. CASE Write(t)
    BY <2>5 DEF Write, MonGoto, AfterSignal, Numbers, Index
  <2> QED
    BY <1>1, <2>1, <2>2, <2>3, <2>4, <2>5 DEF Monitor
<1>2. ASSUME NEW t \in Threads, VideoPollingSignalCtrl(t) PROVE Numbers'
  <2>1. moving' \in [0..N-1 -> E_PTZ_CTRL_TYPE \cup {0}]
    <3>1. CASE m_iPtzMoveType # E_STOP_MOVE
      BY <1>0, <1>2, <3>1, PtzType DEF VideoPollingSignalCtrl
    <3>2. CASE m_iPtzMoveType = E_STOP_MOVE
      BY <1>2, <3>2 DEF VideoPollingSignalCtrl, Numbers
    <3> QED
      BY <3>1, <3>2
  <2>2. /\ m_iPtzMoveType' \in {E_START_MOVE, E_STOP_MOVE}
        /\ m_iPtzCtrType' \in E_PTZ_CTRL_TYPE /\ pressed' \in PtzButtons \cup {0}
    BY <1>2 DEF VideoPollingSignalCtrl, Numbers
  <2> QED
    BY <1>2, <2>1, <2>2 DEF VideoPollingSignalCtrl, Show, MonGoto, Numbers, Index
<1>3. CASE ManualSwitch
  BY <1>3 DEF ManualSwitch, Numbers, Index
<1>4. CASE StartPolling \/ PausePolling \/ LeavePage \/ EnterPage \/ Logout
  BY <1>4 DEF StartPolling, PausePolling, LeavePage, EnterPage, Logout, Numbers, Index
<1>5. CASE Slot \/ CameraSwitch
  BY <1>5 DEF Slot, CameraSwitch, CameraSwitchToggle, CameraSwitchSend,
              CameraSwitchRestore, Numbers, Index
<1>6. CASE PtzPress
  <2>1. PICK ctrl \in PtzButtons :
          /\ PtzCommand(m_iCameraPlayNo, ctrl, E_START_MOVE)
          /\ pressed' = ctrl /\ m_iPtzCtrType' = ctrl
    BY <1>6 DEF PtzPress
  <2>2. ctrl \in E_PTZ_CTRL_TYPE
    BY CamerasAssumption
  <2>3. moving' \in [0..N-1 -> E_PTZ_CTRL_TYPE \cup {0}]
    BY <2>1, <2>2, PtzType
  <2> QED
    BY <1>6, <2>1, <2>2, <2>3 DEF PtzPress, Numbers, Index
<1>7. CASE PtzRelease
  <2>1. pressed \in E_PTZ_CTRL_TYPE
    BY <1>7, CamerasAssumption DEF PtzRelease, Numbers
  <2>2. moving' \in [0..N-1 -> E_PTZ_CTRL_TYPE \cup {0}]
    BY <1>7, <2>1, PtzType DEF PtzRelease
  <2> QED
    BY <1>7, <2>1, <2>2 DEF PtzRelease, Numbers, Index
<1>8. CASE Login
  <2>1. m_iCameraNum' = N * logins'
    <3>1. N * (logins + 1) = N * logins + N
      BY CamerasAssumption DEF Numbers
    <3> QED
      BY <1>8, <3>1 DEF Login, Numbers
  <2>2. Index \subseteq Index'
    BY <1>0, <1>8, CamerasAssumption DEF Login, Index
  <2>3. logins' \in 1..MaxLogins
    BY <1>8, CamerasAssumption DEF Login, Numbers
  <2>4. /\ monPc' \in [Threads -> {"off", "check", "manual", "normal", "write", "waiting"}]
        /\ iCameraIdex' \in [Threads -> Index]
    BY <1>8 DEF Login, Numbers
  <2>5. iCameraIdex' \in [Threads -> Index']
    BY <2>2, <2>4
  <2> QED
    BY <1>8, <2>1, <2>2, <2>3, <2>4, <2>5 DEF Login, Numbers
<1>9. CASE UNCHANGED vars
  BY <1>9 DEF vars, Numbers, Index
<1> QED
  BY <1>1, <1>2, <1>3, <1>4, <1>5, <1>6, <1>7, <1>8, <1>9 DEF Next, Operator

\* Every variable keeps its type, whatever the threads and the operator do.
THEOREM TypeCorrect == Spec => []TypeOK
<1>1. Init => Flags /\ Numbers
  BY FlagsInit, NumbersInit
<1>2. Flags /\ Numbers /\ [Next]_vars => Flags' /\ Numbers'
  BY FlagsStep, NumbersStep
<1>3. Flags /\ Numbers => TypeOK
  BY TypeParts
<1> QED
  BY <1>1, <1>2, <1>3, PTL DEF Spec
-----------------------------------------------------------------------------
(* How often m_iCameraPlayNo changes under a slot.                         *)

\* Threads blocked until the UI thread has run the slot.
Waiting == {t \in Threads : monPc[t] = "waiting"}

\* Inductive: each change has left a thread waiting for the UI thread, and
\* only threads that were started do anything.
Counted ==
  /\ uiPc # "idle" => changes <= Cardinality(Waiting)
  /\ \A t \in Threads : monPc[t] # "off" => t <= logins

\* The waiting threads can be counted.
LEMMA WaitingFinite == IsFiniteSet(Waiting) /\ Cardinality(Waiting) \in Nat
<1>1. IsFiniteSet(Threads)
  BY FS_Interval, CamerasAssumption DEF Threads
<1>2. Waiting \subseteq Threads
  BY DEF Waiting
<1> QED
  BY <1>1, <1>2, FS_Subset, FS_CardinalityType

\* A write makes one thread more wait.
LEMMA WriteWaits ==
  ASSUME Numbers, NEW t \in Threads, Write(t)
  PROVE  Cardinality(Waiting') = Cardinality(Waiting) + 1
<1>1. Waiting' = Waiting \cup {t} /\ t \notin Waiting
  BY DEF Numbers, Write, MonGoto, AfterSignal, Waiting, Threads
<1> QED
  BY <1>1, WaitingFinite, FS_AddElement

\* Another step of monitorThread leaves the waiting threads as they are.
LEMMA OthersWait ==
  ASSUME Numbers, NEW t \in Threads, Monitor(t), ~Write(t)
  PROVE  Waiting' = Waiting
BY DEF Numbers, Monitor, CheckDue, CheckNotDue, Manual, ManualDone, NoManual,
       MonGoto, Waiting, Threads

\* Every action keeps Counted.
LEMMA CountedStep ==
  ASSUME Numbers, Counted, [Next]_vars
  PROVE  Counted'
<1> USE DEF session, polling, monitor, slot, camera, display, ptz
<1>1. ASSUME NEW t \in Threads, Monitor(t) PROVE Counted'
  <2>1. \A s \in Threads : monPc'[s] # "off" => s <= logins'
    BY <1>1 DEF Numbers, Counted, Monitor, CheckDue, CheckNotDue, Manual, ManualDone,
                NoManual, Write, MonGoto, AfterSignal
  <2>2. CASE Write(t)
    <3>1. Cardinality(Waiting)' = Cardinality(Waiting) + 1
      BY <2>2, WriteWaits
    <3>2. uiPc' = uiPc /\ (uiPc # "idle" => changes' = changes + 1)
      BY <2>2 DEF Write
    <3> QED
      BY <2>1, <3>1, <3>2, WaitingFinite DEF Counted, Numbers
  <2>3. CASE ~Write(t)
    <3>1. Waiting' = Waiting
      BY <1>1, <2>3, OthersWait
    <3>2. UNCHANGED <<uiPc, changes>>
      BY <1>1, <2>3 DEF Monitor, CheckDue, CheckNotDue, Manual, ManualDone, NoManual
    <3> QED
      BY <2>1, <3>1, <3>2 DEF Counted
  <2> QED
    BY <2>2, <2>3
<1>2. ASSUME NEW t \in Threads, VideoPollingSignalCtrl(t) PROVE Counted'
  BY <1>2 DEF VideoPollingSignalCtrl, MonGoto, Counted, Numbers
<1>3. CASE CameraSwitch
  <2>1. changes' = 0 /\ UNCHANGED <<monPc, logins>>
    BY <1>3 DEF CameraSwitch
  <2>2. Waiting' = Waiting
    BY <2>1 DEF Waiting
  <2> QED
    BY <2>1, <2>2, WaitingFinite DEF Counted
<1>4. CASE \/ Slot \/ ManualSwitch \/ StartPolling \/ PausePolling \/ LeavePage
           \/ EnterPage \/ PtzPress \/ PtzRelease \/ Logout \/ UNCHANGED vars
  <2>1. UNCHANGED <<monPc, logins, changes>> /\ (uiPc' # "idle" => uiPc # "idle")
    BY <1>4 DEF Slot, CameraSwitchToggle, CameraSwitchSend, CameraSwitchRestore,
                ManualSwitch, StartPolling, PausePolling, LeavePage, EnterPage,
                PtzPress, PtzRelease, Logout, vars
  <2>2. Waiting' = Waiting
    BY <2>1 DEF Waiting
  <2> QED
    BY <2>1, <2>2 DEF Counted
<1>5. CASE Login
  BY <1>5 DEF Login, Counted, Numbers, Threads
<1> QED
  BY <1>1, <1>2, <1>3, <1>4, <1>5 DEF Next, Operator

\* The camera changes under a slot at most once per monitorThread.
THEOREM OneChangeCorrect == Spec => []OneChangePerThread
<1>1. Init => Counted
  BY DEF Init, Counted, Threads
<1>2. Numbers /\ Counted /\ [Next]_vars => Counted'
  BY CountedStep
<1>3. TypeOK => Numbers
  BY TypeParts
<1>4. Numbers /\ Counted => OneChangePerThread
  <2> SUFFICES ASSUME Numbers, Counted, uiPc # "idle" PROVE changes <= logins
    BY DEF OneChangePerThread
  <2>1. Waiting \subseteq 1..logins
    BY DEF Counted, Waiting, Threads
  <2>2. logins \in Nat /\ IsFiniteSet(1..logins) /\ Cardinality(1..logins) = logins
    BY FS_Interval DEF Numbers
  <2>3. Cardinality(Waiting) <= logins
    BY <2>1, <2>2, FS_Subset
  <2> QED
    BY <2>2, <2>3, WaitingFinite DEF Counted, Numbers
<1> QED
  BY <1>1, <1>2, <1>3, <1>4, TypeCorrect, PTL DEF Spec

-----------------------------------------------------------------------------
(* What the page shows.                                                    *)

\* Inductive: also in the middle of a slot.
Current ==
  labels /\ (\A t \in Threads : monPc[t] # "waiting")
    => label = m_iCameraPlayNo /\ text = iCameraSwitchState[m_iCameraPlayNo]

\* Every action keeps Current.
LEMMA CurrentStep ==
  ASSUME Flags, Numbers, Current, [Next]_vars
  PROVE  Current'
<1> USE DEF session, polling, monitor, slot, camera, display, ptz
<1>0. /\ m_iCameraPlayNo \in Index
      /\ monPc \in [Threads -> {"off", "check", "manual", "normal", "write", "waiting"}]
  BY DEF Numbers
<1>1. ASSUME NEW t \in Threads, Monitor(t) PROVE Current'
  <2>1. CASE Write(t)
    <3>1. monPc'[t] = "waiting"
      BY <1>0, <2>1 DEF Write, MonGoto, AfterSignal
    <3> QED
      BY <3>1, Zenon DEF Current
  <2>2. CASE ~Write(t)
    <3>1. UNCHANGED <<labels, label, text, m_iCameraPlayNo, iCameraSwitchState>>
      BY <1>1, <2>2 DEF Monitor, CheckDue, CheckNotDue, Manual, ManualDone, NoManual
    <3>2. Waiting' = Waiting
      BY <1>1, <2>2, OthersWait
    <3>3. (\A s \in Threads : monPc'[s] # "waiting")
             => \A s \in Threads : monPc[s] # "waiting"
      BY <3>2 DEF Waiting
    <3> QED
      BY <3>1, <3>3, Zenon DEF Current
  <2> QED
    BY <2>1, <2>2
<1>2. ASSUME NEW t \in Threads, VideoPollingSignalCtrl(t) PROVE Current'
  <2>1. /\ label' = m_iCameraPlayNo /\ text' = iCameraSwitchState[m_iCameraPlayNo]
        /\ UNCHANGED <<m_iCameraPlayNo, iCameraSwitchState>>
    BY <1>2, Zenon DEF VideoPollingSignalCtrl, Show
  <2> QED
    BY <2>1, Zenon DEF Current
<1>3. CASE CameraSwitchToggle
  <2>1. /\ iCameraSwitchState' = [iCameraSwitchState EXCEPT ![m_iCameraPlayNo] = ~@]
        /\ text' = ~iCameraSwitchState[m_iCameraPlayNo]
        /\ UNCHANGED <<labels, label, m_iCameraPlayNo, monPc>>
    BY <1>3, Zenon DEF CameraSwitchToggle
  <2>2. iCameraSwitchState'[m_iCameraPlayNo] = ~iCameraSwitchState[m_iCameraPlayNo]
    BY <1>0, <2>1, Zenon DEF Flags
  <2> QED
    BY <2>1, <2>2, Zenon DEF Current
<1>4. CASE \/ CameraSwitchSend \/ CameraSwitchRestore \/ CameraSwitch \/ ManualSwitch
           \/ StartPolling \/ PausePolling \/ LeavePage \/ EnterPage \/ PtzPress
           \/ PtzRelease \/ UNCHANGED vars
  <2>1. UNCHANGED <<labels, label, text, m_iCameraPlayNo, iCameraSwitchState, monPc>>
    BY <1>4 DEF CameraSwitchSend, CameraSwitchRestore, CameraSwitch, ManualSwitch,
                StartPolling, PausePolling, LeavePage, EnterPage, PtzPress, PtzRelease,
                vars
  <2> QED
    BY <2>1, Zenon DEF Current
<1>5. CASE Logout
  <2>1. ~labels'
    BY <1>5, Zenon DEF Logout
  <2> QED
    BY <2>1, Zenon DEF Current
<1>6. CASE Login
  <2>1. /\ label' = m_iCameraPlayNo /\ text' = iCameraSwitchState[m_iCameraPlayNo]
        /\ m_iCameraPlayNo' = m_iCameraPlayNo
    BY <1>6, Zenon DEF Login
  <2>2. m_iCameraPlayNo \in 0..m_iCameraNum + N - 1
    BY <1>0, CamerasExist, CamerasAssumption DEF Index
  <2>3. iCameraSwitchState'[m_iCameraPlayNo]
          = (m_iCameraPlayNo \in Index /\ iCameraSwitchState[m_iCameraPlayNo])
    BY <1>6, <2>2, Zenon DEF Login
  <2>4. iCameraSwitchState[m_iCameraPlayNo] \in BOOLEAN
    BY <1>0, Zenon DEF Flags
  <2>5. iCameraSwitchState'[m_iCameraPlayNo] = iCameraSwitchState[m_iCameraPlayNo]
    <3>1. CASE iCameraSwitchState[m_iCameraPlayNo] = TRUE
      BY <1>0, <2>3, <3>1
    <3>2. CASE iCameraSwitchState[m_iCameraPlayNo] = FALSE
      BY <2>3, <3>2
    <3> QED
      BY <2>4, <3>1, <3>2
  <2>6. label' = m_iCameraPlayNo' /\ text' = iCameraSwitchState'[m_iCameraPlayNo']
    BY <2>1, <2>5
  <2> QED
    BY <2>6, Zenon DEF Current
<1> QED
  BY <1>1, <1>2, <1>3, <1>4, <1>5, <1>6 DEF Next, Operator, Slot

\* With nothing to be displayed, the page shows the camera its slots work on.
THEOREM ShowsCurrentCorrect == Spec => []ShowsCurrent
<1>1. Init => Current
  <2> SUFFICES ASSUME Init PROVE Current
    OBVIOUS
  <2>1. 0 \in 0..N-1
    BY CamerasAssumption
  <2>2. label = m_iCameraPlayNo /\ text = TRUE /\ iCameraSwitchState[m_iCameraPlayNo] = TRUE
    BY <2>1, Zenon DEF Init
  <2> QED
    BY <2>2, Zenon DEF Current
<1>2. Flags /\ Numbers /\ Current /\ [Next]_vars => Current'
  BY CurrentStep
<1>3. TypeOK => Flags /\ Numbers
  BY TypeParts
<1>4. Current => ShowsCurrent
  BY Zenon DEF Current, ShowsCurrent
<1> QED
  BY <1>1, <1>2, <1>3, <1>4, TypeCorrect, PTL DEF Spec
=============================================================================
