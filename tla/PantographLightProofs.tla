----------------------- MODULE PantographLightProofs ------------------------
(* Type correctness of PantographLight, what is recorded of a light and    *)
(* what may switch one, for any set of cameras on any servers.             *)
EXTENDS PantographLight, TLAPS

\* A slot reads the camera displayed or one that monitorThread turns to, and
\* a read between two that find the same finds it too.
LEMMA ReadsFind ==
  ASSUME m_iCameraPlayNo \in Cameras, NEW r \in Reads
  PROVE  /\ r[1] = m_iCameraPlayNo
         /\ \A k \in 1..6 : r[k] \in Cameras /\ r[k] \in {m_iCameraPlayNo, r[6]}
         /\ r[2] = r[4] => r[3] = r[4]
<1>1. PICK i \in 2..6, c \in IF polled THEN {m_iCameraPlayNo} ELSE Cameras :
        r = [k \in 1..6 |-> IF k < i THEN m_iCameraPlayNo ELSE c]
  BY DEF Reads
<1>2. c \in Cameras
  OBVIOUS
<1>3. \A k \in 1..6 : r[k] = IF k < i THEN m_iCameraPlayNo ELSE c
  BY <1>1
<1> QED
  BY <1>2, <1>3

\* What is sent to the server of a camera with its position is for it alone.
LEMMA ToldOne ==
  ASSUME NEW c \in Cameras
  PROVE  Told(c, c) = {c}
<1>1. \A e \in Cameras : e = <<phandle(e), iPosNO(e)>>
  BY CamerasArePairs DEF phandle, iPosNO
<1> QED
  BY <1>1 DEF Told

\* The initial values have their types.
LEMMA TypeInit == Init => TypeOK
<1> SUFFICES ASSUME Init PROVE TypeOK
  OBVIOUS
<1>1. lamp \in [Cameras -> Light] /\ net \in [Servers -> {"up", "gone", "down"}]
  BY DEF Init, Light
<1>2. /\ iManualFillLightCtrlFlag \in [Cameras -> BOOLEAN]
      /\ pvmsDownMonitorTimer \in [Cameras -> BOOLEAN]
      /\ lost \in [Cameras -> BOOLEAN] /\ torn \in [Cameras -> BOOLEAN]
  BY Zenon DEF Init, All
<1>3. {polled, enabled} \subseteq BOOLEAN
  BY Zenon DEF Init
<1> QED
  BY <1>1, <1>2, <1>3 DEF Init, TypeOK, All, Light

\* The command of a handler leaves lamps, links and losses of their types.
LEMMA CommandType ==
  ASSUME TypeOK, NEW cs, NEW x \in Light, Command(cs, x)
  PROVE  /\ lamp' \in [Cameras -> Light] /\ lost' \in [Cameras -> BOOLEAN]
         /\ net' = net
<1>1. lamp' \in [Cameras -> Light]
  BY DEF TypeOK, Command, Set
<1>2. lost' \in [Cameras -> BOOLEAN]
  BY Zenon DEF TypeOK, Command
<1> QED
  BY <1>1, <1>2 DEF Command

\* The same of a handler with a camera of its own.
LEMMA OwnCommandType ==
  ASSUME TypeOK, NEW cs, NEW x \in Light, OwnCommand(cs, x)
  PROVE  /\ lamp' \in [Cameras -> Light] /\ lost' \in [Cameras -> BOOLEAN]
         /\ torn' \in [Cameras -> BOOLEAN] /\ net' = net
<1>1. torn' \in [Cameras -> BOOLEAN]
  BY Zenon DEF TypeOK, OwnCommand, Set
<1> QED
  BY <1>1, CommandType DEF OwnCommand

\* What a handler tells a lamp is what it does, or it was lost.
LEMMA CommandReaches ==
  ASSUME NEW cs, NEW x, Command(cs, x), NEW c \in Cameras
  PROVE  IF c \in cs THEN lost'[c] \/ lamp'[c] = x
                     ELSE lost'[c] = lost[c] /\ lamp'[c] = lamp[c]
<1>1. lost'[c] = IF c \in cs THEN LinkTo(c) # "up" ELSE lost[c]
  BY Zenon DEF Command
<1>2. lamp'[c] = IF c \in cs /\ LinkTo(c) = "up" THEN x ELSE lamp[c]
  BY DEF Command, Set
<1> QED
  BY <1>1, <1>2, Zenon

\* Every handler keeps the types.
LEMMA TypeStep == TypeOK /\ [Next]_vars => TypeOK'
<1> SUFFICES ASSUME TypeOK, [Next]_vars PROVE TypeOK'
  OBVIOUS
<1> USE DEF record, polling, outside, pantograph
<1>0. "on" \in Light /\ "off" \in Light
  BY DEF Light
<1>1. ASSUME NEW raised \in SUBSET Cameras, PvmsUpdown(raised) PROVE TypeOK'
  <2>1. /\ lamp' \in [Cameras -> Light] /\ lost' \in [Cameras -> BOOLEAN]
        /\ torn' \in [Cameras -> BOOLEAN] /\ net' = net
    BY <1>0, <1>1, OwnCommandType, Zenon DEF PvmsUpdown
  <2>2. pvmsDownMonitorTimer' \in [Cameras -> BOOLEAN]
    BY <1>1, Zenon DEF PvmsUpdown, TimersAfter, TypeOK
  <2>3. iFillLightSwitchState' \in [Cameras -> Light]
    BY <1>1 DEF PvmsUpdown, TypeOK, Set, Light
  <2> QED
    BY <1>1, <2>1, <2>2, <2>3 DEF PvmsUpdown, TypeOK
<1>2. ASSUME NEW c \in Cameras, DownEnd(c) PROVE TypeOK'
  <2>1. /\ lamp' \in [Cameras -> Light] /\ lost' \in [Cameras -> BOOLEAN]
        /\ torn' \in [Cameras -> BOOLEAN] /\ net' = net
    BY <1>0, <1>2, OwnCommandType, Zenon DEF DownEnd, Close
  <2>2. /\ pvmsDownMonitorTimer' \in [Cameras -> BOOLEAN]
        /\ iManualFillLightCtrlFlag' \in [Cameras -> BOOLEAN]
    BY <1>2, Zenon DEF DownEnd, TypeOK
  <2>3. iFillLightSwitchState' \in [Cameras -> Light]
    BY <1>2 DEF DownEnd, TypeOK, Light
  <2> QED
    BY <1>2, <2>1, <2>2, <2>3 DEF DownEnd, TypeOK
<1>3. CASE FillLightSwitch
  <2>1. PICK r \in Reads :
          LET x == Other(iFillLightSwitchState[r[1]])
              told == Told(r[3], r[4])
          IN /\ Command(told, x)
             /\ iFillLightSwitchState' = [iFillLightSwitchState EXCEPT ![r[2]] = x]
             /\ torn' = Set(torn, told \cup {r[2]}, r[2] # r[4])
             /\ iManualFillLightCtrlFlag' = [iManualFillLightCtrlFlag EXCEPT
                  ![r[6]] = @ \/ (Accepted(r[4]) /\ ~iManualFillLightCtrlFlag[r[5]])]
             /\ enabled' = ~Accepted(r[4])
             /\ Found(r[6])
    BY <1>3, Zenon DEF FillLightSwitch
  <2> DEFINE x == Other(iFillLightSwitchState[r[1]])
  <2>2. x \in Light /\ r[6] \in Cameras
    BY ReadsFind DEF Other, Light, TypeOK
  <2> HIDE DEF x
  <2>3. lamp' \in [Cameras -> Light] /\ lost' \in [Cameras -> BOOLEAN] /\ net' = net
    BY <2>1, <2>2, CommandType, Zenon DEF x
  <2>4. /\ enabled' \in BOOLEAN /\ iManualFillLightCtrlFlag' \in [Cameras -> BOOLEAN]
        /\ torn' \in [Cameras -> BOOLEAN]
    BY <2>1, Zenon DEF TypeOK, Accepted, Set
  <2>5. iFillLightSwitchState' \in [Cameras -> Light]
    BY <2>1, <2>2 DEF TypeOK, x
  <2>6. m_iCameraPlayNo' \in Cameras /\ polled' \in BOOLEAN
    BY <2>1, <2>2, Zenon DEF Found, TypeOK
  <2>7. {polled', enabled'} \subseteq BOOLEAN
    BY <2>4, <2>6, Zenon
  <2> QED
    BY <1>3, <2>3, <2>4, <2>5, <2>6, <2>7 DEF FillLightSwitch, TypeOK
<1>4. CASE FillLightSwitchEnd
  BY <1>4 DEF FillLightSwitchEnd, TypeOK
<1>5. ASSUME NEW c \in Cameras, Poll(c) PROVE TypeOK'
  BY <1>5 DEF Poll, TypeOK
<1>6. CASE VideoPollingSignalCtrl
  BY <1>6 DEF VideoPollingSignalCtrl, TypeOK
<1>7. ASSUME NEW s \in Servers, NetChanges(s) PROVE TypeOK'
  BY <1>7 DEF NetChanges, TypeOK
<1>8. CASE UNCHANGED vars
  BY <1>8 DEF vars, TypeOK
<1> QED
  BY <1>1, <1>2, <1>3, <1>4, <1>5, <1>6, <1>7, <1>8 DEF Next

\* Every variable keeps its type, whatever handlers and links do.
THEOREM TypeCorrect == Spec => []TypeOK
  BY TypeInit, TypeStep, PTL DEF Spec
-----------------------------------------------------------------------------
\* The record of one light.
Follows(c) == lost[c] \/ torn[c] \/ lamp[c] = iFillLightSwitchState[c]

\* A handler that records what it commands, at the cameras of the command,
\* keeps the records true.
LEMMA ToldIsWritten ==
  ASSUME RecordFollowsLamp, NEW cs, NEW x, Command(cs, x),
         \A c \in Cameras : iFillLightSwitchState'[c] =
           IF c \in cs THEN x ELSE iFillLightSwitchState[c],
         \A c \in Cameras \ cs : torn'[c] = torn[c]
  PROVE  RecordFollowsLamp'
<1> SUFFICES ASSUME NEW c \in Cameras PROVE Follows(c)'
  BY Zenon DEF RecordFollowsLamp, Follows
<1>1. CASE c \in cs
  <2>1. lost'[c] \/ lamp'[c] = x
    BY <1>1, CommandReaches, Zenon
  <2> QED
    BY <1>1, <2>1, Zenon DEF Follows
<1>2. CASE c \notin cs
  <2>1. lost'[c] = lost[c] /\ lamp'[c] = lamp[c]
    BY <1>2, CommandReaches, Zenon
  <2> QED
    BY <1>2, <2>1, Zenon DEF Follows, RecordFollowsLamp
<1> QED
  BY <1>1, <1>2

\* The slot of the button writes down what it tells the lamp, or the two
\* cameras are marked.
LEMMA SwitchStep ==
  ASSUME TypeOK, RecordFollowsLamp, FillLightSwitch
  PROVE  RecordFollowsLamp'
<1>1. PICK r \in Reads :
        LET x == Other(iFillLightSwitchState[r[1]])
            told == Told(r[3], r[4])
        IN /\ Command(told, x)
           /\ iFillLightSwitchState' = [iFillLightSwitchState EXCEPT ![r[2]] = x]
           /\ torn' = Set(torn, told \cup {r[2]}, r[2] # r[4])
  BY Zenon DEF FillLightSwitch
<1> DEFINE x == Other(iFillLightSwitchState[r[1]])
           told == Told(r[3], r[4])
<1>2. Command(told, x)
  BY <1>1
<1>3. \A c \in Cameras : torn'[c] = IF c \in told \cup {r[2]} THEN r[2] # r[4] ELSE torn[c]
  BY <1>1, Zenon DEF Set
<1>4. \A c \in Cameras : iFillLightSwitchState'[c] =
        IF c = r[2] THEN x ELSE iFillLightSwitchState[c]
  BY <1>1 DEF TypeOK
<1>5. r[4] \in Cameras /\ (r[2] = r[4] => r[3] = r[4])
  BY ReadsFind DEF TypeOK
<1>6. r[2] = r[4] => told = {r[2]}
  BY <1>5, ToldOne, Zenon
<1> HIDE DEF x, told
<1>7. CASE r[2] = r[4]
  <2>1. told = {r[2]}
    BY <1>6, <1>7
  <2>2. \A c \in Cameras : iFillLightSwitchState'[c] =
          IF c \in told THEN x ELSE iFillLightSwitchState[c]
    BY <1>4, <2>1
  <2>3. \A c \in Cameras \ told : torn'[c] = torn[c]
    BY <1>3, <2>1
  <2> QED
    BY <1>2, <2>2, <2>3, ToldIsWritten, Zenon
<1>8. CASE r[2] # r[4]
  <2> SUFFICES ASSUME NEW c \in Cameras PROVE Follows(c)'
    BY Zenon DEF RecordFollowsLamp, Follows
  <2>1. CASE c \in told \cup {r[2]}
    BY <1>3, <1>8, <2>1, Zenon DEF Follows
  <2>2. CASE c \notin told \cup {r[2]}
    <3>1. lost'[c] = lost[c] /\ lamp'[c] = lamp[c]
      BY <1>2, <2>2, CommandReaches, Zenon
    <3> QED
      BY <1>3, <1>4, <2>2, <3>1, Zenon DEF Follows, RecordFollowsLamp
  <2> QED
    BY <2>1, <2>2
<1> QED
  BY <1>7, <1>8

\* Every handler keeps the records true.
LEMMA RecordStep ==
  TypeOK /\ RecordFollowsLamp /\ [Next]_vars => RecordFollowsLamp'
<1> SUFFICES ASSUME TypeOK, RecordFollowsLamp, [Next]_vars
             PROVE  RecordFollowsLamp'
  OBVIOUS
<1>1. ASSUME NEW raised \in SUBSET Cameras, PvmsUpdown(raised)
      PROVE  RecordFollowsLamp'
  <2> DEFINE cs == ToOpen(raised)
  <2>1. Command(cs, "on")
    BY <1>1 DEF PvmsUpdown, OwnCommand
  <2>2. \A c \in Cameras : iFillLightSwitchState'[c] =
          IF c \in cs THEN "on" ELSE iFillLightSwitchState[c]
    BY <1>1 DEF PvmsUpdown, Set
  <2>3. \A c \in Cameras \ cs : torn'[c] = torn[c]
    BY <1>1, Zenon DEF PvmsUpdown, OwnCommand, Set
  <2> HIDE DEF cs
  <2> QED
    BY <2>1, <2>2, <2>3, ToldIsWritten
<1>2. ASSUME NEW c \in Cameras, DownEnd(c) PROVE RecordFollowsLamp'
  <2>1. Command({c}, "off")
    BY <1>2 DEF DownEnd, Close, OwnCommand
  <2>2. \A d \in Cameras : iFillLightSwitchState'[d] =
          IF d \in {c} THEN "off" ELSE iFillLightSwitchState[d]
    BY <1>2 DEF DownEnd, TypeOK
  <2>3. \A d \in Cameras \ {c} : torn'[d] = torn[d]
    BY <1>2, Zenon DEF DownEnd, Close, OwnCommand, Set
  <2> QED
    BY <2>1, <2>2, <2>3, ToldIsWritten
<1>3. CASE FillLightSwitch
  BY <1>3, SwitchStep
<1>4. CASE FillLightSwitchEnd \/ VideoPollingSignalCtrl
  <2>1. UNCHANGED <<lamp, lost, torn, iFillLightSwitchState>>
    BY <1>4 DEF FillLightSwitchEnd, VideoPollingSignalCtrl, record, outside
  <2> QED
    BY <2>1, Zenon DEF RecordFollowsLamp
<1>5. ASSUME NEW c \in Cameras, Poll(c) PROVE RecordFollowsLamp'
  <2>1. UNCHANGED <<lamp, lost, torn, iFillLightSwitchState>>
    BY <1>5 DEF Poll, record, outside
  <2> QED
    BY <2>1, Zenon DEF RecordFollowsLamp
<1>6. ASSUME NEW s \in Servers, NetChanges(s) PROVE RecordFollowsLamp'
  <2>1. UNCHANGED <<lamp, lost, torn, iFillLightSwitchState>>
    BY <1>6 DEF NetChanges, record
  <2> QED
    BY <2>1, Zenon DEF RecordFollowsLamp
<1>7. CASE UNCHANGED vars
  <2>1. UNCHANGED <<lamp, lost, torn, iFillLightSwitchState>>
    BY <1>7 DEF vars, record, outside
  <2> QED
    BY <2>1, Zenon DEF RecordFollowsLamp
<1> QED
  BY <1>1, <1>2, <1>3, <1>4, <1>5, <1>6, <1>7 DEF Next

\* At the first login the record says what was told or could not be told.
LEMMA RecordInit == Init => RecordFollowsLamp
<1> SUFFICES ASSUME Init, NEW c \in Cameras PROVE Follows(c)
  BY DEF RecordFollowsLamp, Follows
<1>1. CASE LinkTo(c) = "up"
  <2>1. lamp[c] = "on" /\ iFillLightSwitchState[c] = "on"
    BY <1>1 DEF Init, All
  <2> QED
    BY <2>1 DEF Follows
<1>2. CASE LinkTo(c) # "up"
  BY <1>2, Zenon DEF Init, Follows
<1> QED
  BY <1>1, <1>2

\* The record of a light is wrong only if the last command for it was lost,
\* or if the camera displayed changed within the slot of the button, between
\* what it wrote down and what it sent.
THEOREM RecordCorrect == Spec => []RecordFollowsLamp
  BY TypeCorrect, RecordInit, RecordStep, PTL DEF Spec

-----------------------------------------------------------------------------
\* What may turn the record of a light from off to on: an up report, while
\* the operator has not switched it off, or the operator's own button, for
\* the camera displayed before or after its slot.
THEOREM ManualOffCorrect == Spec => ManualOffStays
<1> DEFINE Kept == \A c \in Cameras :
             iManualFillLightCtrlFlag[c] /\ iManualFillLightCtrlFlag'[c]
               /\ iFillLightSwitchState[c] = "off" /\ iFillLightSwitchState'[c] = "on"
             => FillLightSwitch /\ c \in {m_iCameraPlayNo, m_iCameraPlayNo'}
<1>1. TypeOK /\ [Next]_vars => [Kept]_vars
  <2> SUFFICES ASSUME TypeOK, Next, NEW c \in Cameras,
                      iManualFillLightCtrlFlag[c], iManualFillLightCtrlFlag'[c],
                      iFillLightSwitchState[c] = "off", iFillLightSwitchState'[c] = "on"
               PROVE  FillLightSwitch /\ c \in {m_iCameraPlayNo, m_iCameraPlayNo'}
    BY Zenon
  <2>1. ASSUME NEW raised \in SUBSET Cameras, PvmsUpdown(raised) PROVE FALSE
    <3>1. c \notin ToOpen(raised)
      BY Zenon DEF ToOpen
    <3> QED
      BY <2>1, <3>1 DEF PvmsUpdown, Set
  <2>2. ASSUME NEW d \in Cameras, DownEnd(d) PROVE FALSE
    BY <2>2 DEF DownEnd, TypeOK
  <2>3. CASE FillLightSwitch
    <3>1. PICK r \in Reads :
            /\ iFillLightSwitchState' =
                 [iFillLightSwitchState EXCEPT ![r[2]] = Other(iFillLightSwitchState[r[1]])]
            /\ m_iCameraPlayNo' = r[6]
      BY <2>3, Zenon DEF FillLightSwitch, Found
    <3>2. r[2] \in {m_iCameraPlayNo, r[6]}
      BY ReadsFind DEF TypeOK
    <3>3. c = r[2]
      BY <3>1 DEF TypeOK
    <3> QED
      BY <2>3, <3>1, <3>2, <3>3, Zenon
  <2>4. CASE FillLightSwitchEnd \/ VideoPollingSignalCtrl
    BY <2>4 DEF FillLightSwitchEnd, VideoPollingSignalCtrl, record
  <2>5. ASSUME NEW d \in Cameras, Poll(d) PROVE FALSE
    BY <2>5 DEF Poll, record
  <2>6. ASSUME NEW s \in Servers, NetChanges(s) PROVE FALSE
    BY <2>6 DEF NetChanges, record
  <2> QED
    BY <2>1, <2>2, <2>3, <2>4, <2>5, <2>6 DEF Next
<1> QED
  BY <1>1, TypeCorrect, PTL DEF Spec, ManualOffStays

-----------------------------------------------------------------------------
\* A timer of ten minutes runs only while the last report of its pantograph
\* is down.
TimersAreOfDowns ==
  \A c \in Cameras : pvmsDownMonitorTimer[c] => iPvmsUpdownState[c] = "PVMS_DOWN"

\* A report takes away the timers of the pantographs that it calls up, and
\* nothing else starts one.
LEMMA TimersStep == TypeOK /\ TimersAreOfDowns /\ [Next]_vars => TimersAreOfDowns'
<1> SUFFICES ASSUME TypeOK, TimersAreOfDowns, [Next]_vars, NEW c \in Cameras,
                    pvmsDownMonitorTimer'[c]
             PROVE  iPvmsUpdownState'[c] = "PVMS_DOWN"
  BY Zenon DEF TimersAreOfDowns
<1>1. ASSUME NEW raised \in SUBSET Cameras, PvmsUpdown(raised)
      PROVE  iPvmsUpdownState'[c] = "PVMS_DOWN"
  <2>1. c \notin raised
    BY <1>1, Zenon DEF PvmsUpdown, TimersAfter
  <2> QED
    BY <1>1, <2>1 DEF PvmsUpdown
<1>2. ASSUME NEW d \in Cameras, DownEnd(d) PROVE iPvmsUpdownState'[c] = "PVMS_DOWN"
  <2>1. pvmsDownMonitorTimer[c] /\ iPvmsUpdownState' = iPvmsUpdownState
    BY <1>2, Zenon DEF DownEnd, TypeOK
  <2> QED
    BY <2>1, Zenon DEF TimersAreOfDowns
<1>3. CASE UNCHANGED pantograph
  BY <1>3, Zenon DEF pantograph, TimersAreOfDowns
<1>4. FillLightSwitch \/ FillLightSwitchEnd \/ VideoPollingSignalCtrl => UNCHANGED pantograph
  BY Zenon DEF FillLightSwitch, FillLightSwitchEnd, VideoPollingSignalCtrl
<1>5. \A d \in Cameras : Poll(d) => UNCHANGED pantograph
  BY Zenon DEF Poll
<1>6. \A s \in Servers : NetChanges(s) => UNCHANGED pantograph
  BY Zenon DEF NetChanges
<1>7. UNCHANGED vars => UNCHANGED pantograph
  BY Zenon DEF vars
<1> QED
  BY <1>1, <1>2, <1>3, <1>4, <1>5, <1>6, <1>7, Zenon DEF Next

\* No timer runs at the first login.
LEMMA TimersInit == Init => TimersAreOfDowns
  BY DEF Init, TimersAreOfDowns, All

\* A light whose pantograph is up is turned off by the operator's button and
\* by nothing else.
THEOREM UpKeepsCorrect == Spec => UpKeepsLight
<1> DEFINE Kept == \A c \in Cameras :
             iPvmsUpdownState[c] = "PVMS_UP" /\ lamp[c] = "on" /\ lamp'[c] = "off"
             => FillLightSwitch
<1>1. TypeOK /\ TimersAreOfDowns /\ [Next]_vars => [Kept]_vars
  <2> SUFFICES ASSUME TypeOK, TimersAreOfDowns, Next, NEW c \in Cameras,
                      iPvmsUpdownState[c] = "PVMS_UP", lamp[c] = "on", lamp'[c] = "off"
               PROVE  FillLightSwitch
    BY Zenon
  <2>1. ASSUME NEW raised \in SUBSET Cameras, PvmsUpdown(raised) PROVE FALSE
    BY <2>1 DEF PvmsUpdown, OwnCommand, Command, Set
  <2>2. ASSUME NEW d \in Cameras, DownEnd(d) PROVE FALSE
    <3>1. d # c
      BY <2>2 DEF DownEnd, TimersAreOfDowns
    <3> QED
      BY <2>2, <3>1 DEF DownEnd, Close, OwnCommand, Command, Set
  <2>3. CASE FillLightSwitchEnd \/ VideoPollingSignalCtrl
    BY <2>3 DEF FillLightSwitchEnd, VideoPollingSignalCtrl, outside
  <2>4. ASSUME NEW d \in Cameras, Poll(d) PROVE FALSE
    BY <2>4 DEF Poll, outside
  <2>5. ASSUME NEW s \in Servers, NetChanges(s) PROVE FALSE
    BY <2>5 DEF NetChanges
  <2> QED
    BY <2>1, <2>2, <2>3, <2>4, <2>5 DEF Next
<1>2. Spec => []TimersAreOfDowns
  BY TypeCorrect, TimersInit, TimersStep, PTL DEF Spec
<1> QED
  BY <1>1, <1>2, TypeCorrect, PTL DEF Spec, UpKeepsLight
=============================================================================
