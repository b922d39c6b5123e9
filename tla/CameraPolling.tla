--------------------------- MODULE CameraPolling ----------------------------
(***************************************************************************)
(* Which camera is displayed (pvmsmonitorwidget.cpp): monitorThread moves  *)
(* m_iCameraPlayNo on, by time or for the previous and next buttons, and   *)
(* waits for the UI thread to run videoPollingSignalCtrl                    *)
(* (Qt::BlockingQueuedConnection); the slots of the UI thread read         *)
(* m_iCameraPlayNo several times without a lock.                           *)
(*                                                                         *)
(* Each login starts a monitorThread and appends all cameras again; none   *)
(* of the threads is ever stopped.  Commands always arrive here.           *)
(***************************************************************************)
EXTENDS Integers

CONSTANTS
  N,          \* cameras of the train
  MaxLogins,  \* bound: logins, and with them monitor threads
  PtzButtons  \* the buttons used, of E_PTZ_CTRL_TYPE

E_PTZ_CTRL_TYPE == 1..8   \* E_PTZ_UP = 1, E_PTZ_DOWN = 2, ...
E_START_MOVE == 1         \* E_PTZ_MOVE_TYPE
E_STOP_MOVE == 2

ASSUME CamerasAssumption ==
  /\ N \in Nat \ {0} /\ MaxLogins \in Nat \ {0}
  /\ PtzButtons \subseteq E_PTZ_CTRL_TYPE

Threads == 1..MaxLogins
NORMAL == "NORMAL"

VARIABLES
  logins,
  m_iCameraNum, m_iCameraPlayNo,
  m_iPollingFlag, iPollFlag,       \* iPollFlag: polling to be resumed by EnterPage
  m_iCameraSwitchState,
  monPc, iCameraIdex, iPollingFlag,   \* of each monitorThread
  uiPc, iFlag,                     \* cameraSwitchSlot
  changes,                         \* m_iCameraPlayNo changed during the slot
  iCameraSwitchState,              \* camera recorded as on
  stream,                          \* camera told to be on
  label, text,                     \* channel and camera state displayed
  labels,                          \* the labels exist (m_channelNoLabel # NULL)
  m_iPtzMoveType, m_iPtzCtrType,
  pressed,                         \* PTZ button held down, 0 if none
  moving                           \* what each camera is doing, 0 if nothing

monitor == <<monPc, iCameraIdex, iPollingFlag>>
slot == <<uiPc, iFlag, changes>>
camera == <<iCameraSwitchState, stream>>
display == <<label, text, labels>>
ptz == <<m_iPtzMoveType, m_iPtzCtrType, pressed, moving>>
session == <<logins, m_iCameraNum>>
polling == <<m_iPollingFlag, iPollFlag>>
vars == <<session, m_iCameraPlayNo, polling, m_iCameraSwitchState, monitor,
          slot, camera, display, ptz>>

Index == 0..m_iCameraNum - 1
Physical(i) == i % N   \* the camera behind an entry of m_tCameraInfo

TypeOK ==
  /\ logins \in 1..MaxLogins /\ m_iCameraNum = N * logins
  /\ m_iCameraPlayNo \in Index /\ iCameraIdex \in [Threads -> Index]
  /\ {m_iPollingFlag, iPollFlag, iFlag, text, labels} \subseteq BOOLEAN
  /\ m_iCameraSwitchState \in {NORMAL, "LASTONE", "NEXTONE"}
  /\ monPc \in [Threads -> {"off", "check", "manual", "normal", "write", "waiting"}]
  /\ iPollingFlag \in [Threads -> BOOLEAN]
  /\ uiPc \in {"idle", "toggle", "send", "restore"} /\ changes \in Nat
  /\ iCameraSwitchState \in [Index -> BOOLEAN] /\ stream \in [0..N-1 -> BOOLEAN]
  /\ label \in Index
  /\ m_iPtzMoveType \in {E_START_MOVE, E_STOP_MOVE} /\ m_iPtzCtrType \in E_PTZ_CTRL_TYPE
  /\ pressed \in PtzButtons \cup {0} /\ moving \in [0..N-1 -> E_PTZ_CTRL_TYPE \cup {0}]

\* The first login.
Init ==
  /\ logins = 1 /\ m_iCameraNum = N /\ m_iCameraPlayNo = 0
  /\ m_iPollingFlag = TRUE /\ iPollFlag = FALSE
  /\ m_iCameraSwitchState = NORMAL
  /\ monPc = [t \in Threads |-> IF t = 1 THEN "check" ELSE "off"]
  /\ iCameraIdex = [t \in Threads |-> 0] /\ iPollingFlag = [t \in Threads |-> FALSE]
  /\ uiPc = "idle" /\ iFlag = FALSE /\ changes = 0
  /\ iCameraSwitchState = [i \in 0..N-1 |-> TRUE] /\ stream = [c \in 0..N-1 |-> TRUE]
  /\ label = 0 /\ text = TRUE /\ labels = TRUE
  /\ m_iPtzMoveType = E_STOP_MOVE /\ m_iPtzCtrType = 1
  /\ pressed = 0 /\ moving = [c \in 0..N-1 |-> 0]

-----------------------------------------------------------------------------
(* monitorThread                                                           *)

\* Mutant: off by one at the end of the round.
NextOneWide(i) == IF i + 1 > m_iCameraNum THEN 0 ELSE i + 1

\* Mutant: the round ends at the last camera.
NextOneStays(i) == IF i + 1 > m_iCameraNum - 1 THEN i ELSE i + 1

NextOne(i) == IF i + 1 > m_iCameraNum - 1 THEN 0 ELSE i + 1

LastOne(i) == IF i - 1 < 0 THEN m_iCameraNum - 1 ELSE i - 1

MonGoto(t, l) == monPc' = [monPc EXCEPT ![t] = l]

\* Mutant: polling is not asked for.
CheckDueAlways(t) ==
  /\ monPc[t] = "check"
  /\ iCameraIdex' = [iCameraIdex EXCEPT ![t] = NextOne(@)]
  /\ iPollingFlag' = [iPollingFlag EXCEPT ![t] = TRUE]
  /\ MonGoto(t, "manual")
  /\ UNCHANGED <<session, m_iCameraPlayNo, polling, m_iCameraSwitchState, slot, camera, display, ptz>>

\* The polling interval has passed.
CheckDue(t) ==
  /\ monPc[t] = "check" /\ m_iPollingFlag
  /\ iCameraIdex' = [iCameraIdex EXCEPT ![t] = NextOne(@)]
  /\ iPollingFlag' = [iPollingFlag EXCEPT ![t] = TRUE]
  /\ MonGoto(t, "manual")
  /\ UNCHANGED <<session, m_iCameraPlayNo, polling, m_iCameraSwitchState, slot, camera, display, ptz>>

CheckNotDue(t) ==
  /\ monPc[t] = "check"
  /\ iPollingFlag' = [iPollingFlag EXCEPT ![t] = FALSE]
  /\ MonGoto(t, "manual")
  /\ UNCHANGED <<session, m_iCameraPlayNo, polling, m_iCameraSwitchState, iCameraIdex, slot, camera, display, ptz>>

Manual(t) ==
  /\ monPc[t] = "manual" /\ m_iCameraSwitchState # NORMAL
  /\ iCameraIdex' = [iCameraIdex EXCEPT ![t] =
       IF m_iCameraSwitchState = "LASTONE" THEN LastOne(@) ELSE NextOne(@)]
  /\ iPollingFlag' = [iPollingFlag EXCEPT ![t] = TRUE]
  /\ MonGoto(t, "normal")
  /\ UNCHANGED <<session, m_iCameraPlayNo, polling, m_iCameraSwitchState, slot, camera, display, ptz>>

ManualDone(t) ==
  /\ monPc[t] = "normal"
  /\ m_iCameraSwitchState' = NORMAL
  /\ MonGoto(t, "write")
  /\ UNCHANGED <<session, m_iCameraPlayNo, polling, iCameraIdex, iPollingFlag, slot, camera, display, ptz>>

NoManual(t) ==
  /\ monPc[t] = "manual" /\ m_iCameraSwitchState = NORMAL
  /\ MonGoto(t, IF iPollingFlag[t] THEN "write" ELSE "check")
  /\ UNCHANGED <<session, m_iCameraPlayNo, polling, m_iCameraSwitchState, iCameraIdex, iPollingFlag, slot, camera, display, ptz>>

\* Mutant: the signal is queued and the thread does not wait for the slot.
AfterSignalOn == "check"
AfterSignal == "waiting"

Write(t) ==
  /\ monPc[t] = "write"
  /\ m_iCameraPlayNo' = iCameraIdex[t]
  /\ changes' = IF uiPc = "idle" THEN 0 ELSE changes + 1
  /\ MonGoto(t, AfterSignal)
  /\ UNCHANGED <<session, polling, m_iCameraSwitchState, iCameraIdex, iPollingFlag, uiPc, iFlag, camera, display, ptz>>

-----------------------------------------------------------------------------
(* The camera's side of CLI_SERV_MSG_TYPE_SET_PTZ: control, then move type.*)

PtzCommand(c, ctrl, move) ==
  moving' = [moving EXCEPT ![Physical(c)] =
               IF move = E_START_MOVE THEN ctrl
               ELSE IF move = E_STOP_MOVE THEN 0 ELSE @]

-----------------------------------------------------------------------------
(* The UI thread                                                           *)

Idle == uiPc = "idle" /\ labels

\* Mutant: only the channel number is refreshed.
ShowNumber == label' = m_iCameraPlayNo /\ UNCHANGED <<text, labels>>
Show == /\ label' = m_iCameraPlayNo /\ text' = iCameraSwitchState[m_iCameraPlayNo]
        /\ UNCHANGED labels

\* After a logout the slot calls setText of a label that is NULL; the model
\* goes on with what it would do, for the runs of the next login.
VideoPollingSignalCtrl(t) ==
  /\ uiPc = "idle" /\ monPc[t] = "waiting"
  /\ Show
  /\ IF m_iPtzMoveType # E_STOP_MOVE
     THEN /\ PtzCommand(LastOne(m_iCameraPlayNo), E_STOP_MOVE, m_iPtzCtrType)
          /\ m_iPtzMoveType' = E_STOP_MOVE /\ UNCHANGED <<m_iPtzCtrType, pressed>>
     ELSE UNCHANGED ptz
  /\ MonGoto(t, "check")
  /\ UNCHANGED <<session, m_iCameraPlayNo, polling, m_iCameraSwitchState, iCameraIdex, iPollingFlag, slot, camera>>

\* manualSwitchLastCameraSlot and manualSwitchNextCameraSlot
ManualSwitch ==
  /\ Idle
  /\ \E s \in {"LASTONE", "NEXTONE"} : m_iCameraSwitchState' = s
  /\ UNCHANGED <<session, m_iCameraPlayNo, polling, monitor, slot, camera, display, ptz>>

StartPolling ==
  /\ Idle /\ m_iPollingFlag' = TRUE
  /\ UNCHANGED <<session, m_iCameraPlayNo, iPollFlag, m_iCameraSwitchState, monitor, slot, camera, display, ptz>>

PausePolling ==
  /\ Idle /\ m_iPollingFlag' = FALSE
  /\ UNCHANGED <<session, m_iCameraPlayNo, iPollFlag, m_iCameraSwitchState, monitor, slot, camera, display, ptz>>

\* enableVideoPlay(0) and enableVideoPlay(1), for another page of the menu.
LeavePage ==
  /\ Idle /\ m_iPollingFlag
  /\ m_iPollingFlag' = FALSE /\ iPollFlag' = TRUE
  /\ UNCHANGED <<session, m_iCameraPlayNo, m_iCameraSwitchState, monitor, slot, camera, display, ptz>>

EnterPage ==
  /\ Idle /\ iPollFlag
  /\ m_iPollingFlag' = TRUE /\ iPollFlag' = FALSE
  /\ UNCHANGED <<session, m_iCameraPlayNo, m_iCameraSwitchState, monitor, slot, camera, display, ptz>>

\* cameraSwitchSlot: it holds polling off from its first step to its last.
CameraSwitch ==
  /\ Idle /\ uiPc' = "toggle"
  /\ iFlag' = m_iPollingFlag /\ m_iPollingFlag' = FALSE /\ changes' = 0
  /\ UNCHANGED <<session, m_iCameraPlayNo, iPollFlag, m_iCameraSwitchState, monitor, camera, display, ptz>>

CameraSwitchToggle ==
  /\ uiPc = "toggle" /\ uiPc' = "send"
  /\ LET i == m_iCameraPlayNo
     IN  /\ iCameraSwitchState' = [iCameraSwitchState EXCEPT ![i] = ~@]
         /\ text' = ~iCameraSwitchState[i]
  /\ UNCHANGED <<session, m_iCameraPlayNo, polling, m_iCameraSwitchState, monitor, iFlag, changes, stream, label, labels, ptz>>

\* The operation is the one chosen in the step before: that shown by text.
CameraSwitchSend ==
  /\ uiPc = "send" /\ uiPc' = "restore"
  /\ stream' = [stream EXCEPT ![Physical(m_iCameraPlayNo)] = text]
  /\ UNCHANGED <<session, m_iCameraPlayNo, polling, m_iCameraSwitchState, monitor, iFlag, changes, iCameraSwitchState, display, ptz>>

CameraSwitchRestore ==
  /\ uiPc = "restore" /\ uiPc' = "idle"
  /\ m_iPollingFlag' = (m_iPollingFlag \/ iFlag) /\ iFlag' = FALSE
  /\ UNCHANGED <<session, m_iCameraPlayNo, iPollFlag, m_iCameraSwitchState, monitor, changes, camera, display, ptz>>

\* eventFilter on a PTZ button; the mouse is held from press to release.
PtzPress ==
  /\ Idle /\ pressed = 0
  /\ \E ctrl \in PtzButtons :
       /\ PtzCommand(m_iCameraPlayNo, ctrl, E_START_MOVE)
       /\ pressed' = ctrl /\ m_iPtzCtrType' = ctrl
  /\ m_iPtzMoveType' = E_START_MOVE
  /\ UNCHANGED <<session, m_iCameraPlayNo, polling, m_iCameraSwitchState, monitor, slot, camera, display>>

PtzRelease ==
  /\ Idle /\ pressed # 0
  /\ PtzCommand(m_iCameraPlayNo, pressed, E_STOP_MOVE)
  /\ pressed' = 0 /\ m_iPtzCtrType' = pressed /\ m_iPtzMoveType' = E_STOP_MOVE
  /\ UNCHANGED <<session, m_iCameraPlayNo, polling, m_iCameraSwitchState, monitor, slot, camera, display>>

-----------------------------------------------------------------------------
(* registOutButtonClick with closePlayWin, and startVideoPolling with       *)
(* enableVideoPlay(1) at the next login.                                    *)

Logout ==
  /\ Idle /\ pressed = 0 /\ labels' = FALSE
  /\ UNCHANGED <<session, m_iCameraPlayNo, polling, m_iCameraSwitchState, monitor, slot, camera, label, text, ptz>>

Login ==
  /\ uiPc = "idle" /\ ~labels /\ logins < MaxLogins
  /\ logins' = logins + 1 /\ m_iCameraNum' = m_iCameraNum + N
  /\ iCameraSwitchState' = [i \in 0..m_iCameraNum + N - 1 |->
                              i \in Index /\ iCameraSwitchState[i]]
  /\ monPc' = [monPc EXCEPT ![logins + 1] = "check"]
  /\ iCameraIdex' = [iCameraIdex EXCEPT ![logins + 1] = m_iCameraPlayNo]
  /\ label' = m_iCameraPlayNo /\ text' = iCameraSwitchState[m_iCameraPlayNo] /\ labels' = TRUE
  /\ m_iPollingFlag' = (m_iPollingFlag \/ iPollFlag) /\ iPollFlag' = FALSE
  /\ UNCHANGED <<m_iCameraPlayNo, m_iCameraSwitchState, iPollingFlag, slot, stream, ptz>>

Monitor(t) ==
  \/ CheckDue(t) \/ CheckNotDue(t) \/ Manual(t) \/ ManualDone(t)
  \/ NoManual(t) \/ Write(t)
Slot == CameraSwitchToggle \/ CameraSwitchSend \/ CameraSwitchRestore
Operator ==
  \/ ManualSwitch \/ StartPolling \/ PausePolling \/ LeavePage \/ EnterPage
  \/ CameraSwitch \/ PtzPress \/ PtzRelease \/ Logout \/ Login

Next ==
  \/ \E t \in Threads : Monitor(t) \/ VideoPollingSignalCtrl(t)
  \/ Slot \/ Operator

\* Threads run, the UI thread gets to the signals it is sent, and the time
\* for the next camera comes when nobody presses start all the while.
Fairness ==
  /\ WF_vars(Slot)
  /\ \A t \in Threads :
       /\ WF_vars(Monitor(t)) /\ SF_vars(VideoPollingSignalCtrl(t))
       /\ SF_vars(CheckDue(t))

Spec == Init /\ [][Next]_vars
FairSpec == Spec /\ Fairness
-----------------------------------------------------------------------------
(* Properties.                                                             *)

\* A slot of the UI thread sees m_iCameraPlayNo change at most once per
\* monitorThread: a poll that was past its check when the slot began, after
\* which that thread waits for the very thread that runs the slot (319,
\* 472-477).
OneChangePerThread == uiPc # "idle" => changes <= logins

\* When monitorThread has nothing to be displayed, the page shows the number
\* and the state of the camera that the slots work on.
ShowsCurrent ==
  uiPc = "idle" /\ labels /\ (\A t \in Threads : monPc[t] # "waiting")
    => label = m_iCameraPlayNo /\ text = iCameraSwitchState[m_iCameraPlayNo]

\* A camera that is polled stays in the round, and every camera of the train
\* has its turn again and again as long as polling is on (435-446).
PollingVisits ==
  <>[](m_iPollingFlag /\ m_iCameraSwitchState = NORMAL)
    => \A i \in 0..N-1 : []<>(m_iCameraPlayNo = i)

\* Once polling is paused for good and no button is pressed, the display
\* comes to rest: at most the turn that had begun is still taken.
PauseHolds ==
  <>[](~m_iPollingFlag /\ m_iCameraSwitchState = NORMAL)
    => \E i \in 0..N-1 : <>[](m_iCameraPlayNo = i)

\* "Polling is set to 0 first so that m_iCameraPlayNo cannot change in an
\* instant and the operations below hit the wrong camera" (1026): the camera
\* that is told is the one that is recorded.
SwitchHitsOneCamera ==
  uiPc = "idle" => \A c \in 0..N-1 : stream[c] = iCameraSwitchState[c]
=============================================================================
