-------------------------- MODULE DevAlarmsProofs ---------------------------
(***************************************************************************)
(* For any servers and cameras, any table and any grace period: every      *)
(* variable of DevAlarms keeps its type, the buttons flash for an alarm    *)
(* only, a row that ends an alarm names the one that was begun, and - with *)
(* fewer messages waiting than the grace period counts - the alarm page    *)
(* and the device page tell the same of a disk.                            *)
(***************************************************************************)
EXTENDS DevAlarms, TLAPS

\* What the theorems need of the table and the grace period.
Sizes ==
  /\ Grace \in Nat \ {0} /\ MaxQueue \in Nat
  /\ MAX_ITEM_NUM \in Nat /\ Dropped \in 1..MAX_ITEM_NUM

-----------------------------------------------------------------------------
(* Types, part by part.                                                    *)

\* The connection of each server.
LinkType ==
  /\ connected \in [Nvrs -> BOOLEAN] /\ asked \in [Nvrs -> BOOLEAN]
  /\ queue \in [Nvrs -> Seq(Messages)] /\ \A s \in Nvrs : Len(queue[s]) <= MaxQueue
\* The device page.
DeviceType ==
  /\ m_aiNvrOnlineFlag \in [Nvrs -> {0, 1}]
  /\ m_aiCameraOnlineFlag \in [Nvrs \X Cams -> {0, 1}]
  /\ videoText \in [Nvrs \X Cams -> VideoAlarms \cup {"none"}]
  /\ storageText \in [Nvrs -> {"", "normal", "error"}]
\* The two numbers kept of a disk that is silent.
Counts == [flag : {0, 1}, num : 0..Grace - 1]
CheckType == check \in [Pages -> [Nvrs -> Counts]]
\* What can be raised, and where it is kept.
Alarms == VideoAlarms \cup {"err"}
FlagType == iErrFlag \in [Sources -> Alarms \cup {"none"}]
\* The table of alarms is never longer than its limit.
RowsType == rows \in Seq(Rows) /\ Len(rows) <= MAX_ITEM_NUM
AlarmType == FlagType /\ RowsType /\ flashing \in BOOLEAN

\* The type invariant is the types of its parts.
LEMMA Parts == DevTypeOK <=> LinkType /\ DeviceType /\ CheckType /\ AlarmType
  BY Zenon DEF DevTypeOK, LinkType, DeviceType, CheckType, AlarmType, FlagType,
               RowsType, Counts, Alarms

\* The table never grows beyond its size.
LEMMA AddRowType ==
  ASSUME Sizes, RowsType, NEW d \in Sources, NEW a \in Alarms, NEW clear \in BOOLEAN,
         AddRow(d, a, clear)
  PROVE  RowsType'
<1> DEFINE t == Compact(rows)
           r == [src |-> d, alarm |-> a, clear |-> clear]
<1>1. r \in Rows
  BY Zenon DEF Rows, Alarms
<1>2. t \in Seq(Rows) /\ Len(t) < MAX_ITEM_NUM
  <2>1. CASE Len(rows) = MAX_ITEM_NUM
    <3>1. t = SubSeq(rows, Dropped + 1, MAX_ITEM_NUM)
      BY <2>1 DEF Compact
    <3>2. t \in Seq(Rows)
      BY <2>1, <3>1 DEF Sizes, RowsType
    <3>3. Len(t) = MAX_ITEM_NUM - Dropped
      BY <2>1, <3>1 DEF Sizes, RowsType
    <3> QED
      BY <3>2, <3>3 DEF Sizes
  <2>2. CASE Len(rows) # MAX_ITEM_NUM
    BY <2>2 DEF Compact, Sizes, RowsType
  <2> QED
    BY <2>1, <2>2
<1>3. rows' = Append(t, r)
  BY DEF AddRow
<1> HIDE DEF t, r
<1>4. Append(t, r) \in Seq(Rows) /\ Len(Append(t, r)) = Len(t) + 1
  BY <1>1, <1>2
<1>5. Len(Append(t, r)) <= MAX_ITEM_NUM
  BY <1>2, <1>4 DEF Sizes
<1> QED
  BY <1>3, <1>4, <1>5 DEF RowsType

-----------------------------------------------------------------------------
(* The three handlers of the alarm page: types and flashing.               *)

\* The alarm page.
PageOK == AlarmType /\ FlashMeansAlarm

\* The flashing stops with the last alarm.
LEMMA StopStops ==
  ASSUME flashing \in BOOLEAN, FlagType', StopIfAllClear(iErrFlag')
  PROVE  flashing' \in BOOLEAN /\ FlashMeansAlarm'
<1>1. flashing' = (flashing /\ \E d \in Sources : iErrFlag'[d] # "none")
  BY Zenon DEF StopIfAllClear
<1> QED
  BY <1>1, Zenon DEF FlashMeansAlarm

\* The end of an alarm.
LEMMA ClearedOK ==
  ASSUME Sizes, PageOK, NEW d \in Sources, AlarmCleared(d)
  PROVE  PageOK'
<1>1. FlagType'
  BY DEF AlarmCleared, PageOK, AlarmType, FlagType
<1>2. RowsType'
  <2>1. CASE iErrFlag[d] = "none"
    <3>1. UNCHANGED rows
      BY <2>1, Zenon DEF AlarmCleared
    <3> QED
      BY <3>1 DEF RowsType, PageOK, AlarmType
  <2>2. CASE iErrFlag[d] # "none"
    <3>1. AddRow(d, iErrFlag[d], TRUE)
      BY <2>2, Zenon DEF AlarmCleared
    <3>2. iErrFlag[d] \in Alarms
      BY <2>2 DEF PageOK, AlarmType, FlagType
    <3> QED
      BY <3>1, <3>2, AddRowType, Zenon DEF PageOK, AlarmType
  <2> QED
    BY <2>1, <2>2
<1>3. StopIfAllClear(iErrFlag')
  BY Zenon DEF AlarmCleared
<1> QED
  BY <1>1, <1>2, <1>3, StopStops, Zenon DEF PageOK, AlarmType

\* The beginning of an alarm.
LEMMA HappensOK ==
  ASSUME Sizes, PageOK, NEW d \in Sources, NEW a \in Alarms, AlarmHappens(d, a)
  PROVE  PageOK'
<1>1. CASE iErrFlag[d] = "none"
  <2>1. /\ iErrFlag' = [iErrFlag EXCEPT ![d] = a]
        /\ AddRow(d, a, FALSE) /\ flashing' = TRUE
    BY <1>1, Zenon DEF AlarmHappens
  <2>2. RowsType'
    BY <2>1, AddRowType, Zenon DEF PageOK, AlarmType
  <2>3. FlagType' /\ iErrFlag'[d] = a
    BY <2>1 DEF PageOK, AlarmType, FlagType
  <2>4. a # "none"
    BY DEF Alarms, VideoAlarms
  <2> QED
    BY <2>1, <2>2, <2>3, <2>4, Zenon DEF PageOK, AlarmType, FlashMeansAlarm
<1>2. CASE iErrFlag[d] # "none"
  <2>1. UNCHANGED <<iErrFlag, rows, flashing>>
    BY <1>2, Zenon DEF AlarmHappens, alarm
  <2> QED
    BY <2>1, Zenon DEF PageOK, AlarmType, FlagType, RowsType, FlashMeansAlarm
<1> QED
  BY <1>1, <1>2

\* A server found lost takes its alarms along.
LEMMA OfflineOK ==
  ASSUME PageOK, NEW s \in Nvrs, ServerOffline(s)
  PROVE  PageOK'
<1>1. FlagType'
  BY DEF ServerOffline, PageOK, AlarmType, FlagType
<1>2. RowsType'
  BY DEF ServerOffline, PageOK, AlarmType, RowsType
<1>3. StopIfAllClear(iErrFlag')
  BY Zenon DEF ServerOffline
<1> QED
  BY <1>1, <1>2, <1>3, StopStops, Zenon DEF PageOK, AlarmType

\* Whatever leaves the alarm page alone.
LEMMA UntouchedOK ==
  ASSUME PageOK, UNCHANGED alarm
  PROVE  PageOK'
<1>1. UNCHANGED <<iErrFlag, rows, flashing>>
  BY DEF alarm
<1> QED
  BY <1>1, Zenon DEF PageOK, AlarmType, FlagType, RowsType, FlashMeansAlarm

-----------------------------------------------------------------------------
(* Every action keeps the types and flashes for an alarm only.             *)

\* The types and the flashing are inductive together.
IInv == LinkType /\ DeviceType /\ CheckType /\ PageOK

\* What the connection does, with a message more or not.
LEMMA LinkStep ==
  ASSUME Sizes, IInv, Link
  PROVE  LinkType' /\ UNCHANGED <<device, check, alarm>>
<1>1. ASSUME NEW s \in Nvrs, Connect(s) PROVE LinkType'
  <2>1. connected' \in [Nvrs -> BOOLEAN]
    BY <1>1, Zenon DEF Connect, IInv, LinkType
  <2> QED
    BY <1>1, <2>1 DEF Connect, IInv, LinkType
<1>2. ASSUME NEW s \in Nvrs, Disconnect(s) PROVE LinkType'
  <2>1. connected' \in [Nvrs -> BOOLEAN] /\ asked' \in [Nvrs -> BOOLEAN]
    BY <1>2, Zenon DEF Disconnect, IInv, LinkType
  <2> QED
    BY <1>2, <2>1 DEF Disconnect, IInv, LinkType
<1>3. ASSUME NEW s \in Nvrs, Receive(s) PROVE LinkType'
  <2>1. PICK m \in Messages :
           /\ asked' = [asked EXCEPT ![s] = @ /\ m.type # "NVR_STATUS"]
           /\ queue' = [queue EXCEPT ![s] = Append(@, m)]
    BY <1>3, Zenon DEF Receive
  <2>2. asked' \in [Nvrs -> BOOLEAN]
    BY <2>1, Zenon DEF IInv, LinkType
  <2>3. queue[s] \in Seq(Messages) /\ Len(queue[s]) < MaxQueue
    BY <1>3 DEF Receive, IInv, LinkType
  <2>4. /\ Append(queue[s], m) \in Seq(Messages)
        /\ Len(Append(queue[s], m)) = Len(queue[s]) + 1
    BY <2>3
  <2>5. Len(Append(queue[s], m)) <= MaxQueue
    BY <2>3, <2>4 DEF Sizes
  <2>6. queue' \in [Nvrs -> Seq(Messages)] /\ \A n \in Nvrs : Len(queue'[n]) <= MaxQueue
    BY <2>1, <2>4, <2>5 DEF IInv, LinkType
  <2> QED
    BY <1>3, <2>2, <2>6 DEF Receive, IInv, LinkType
<1> QED
  BY <1>1, <1>2, <1>3 DEF Link, Connect, Disconnect, Receive

\* The counts stay below the grace period.
LEMMA CountStatusType ==
  ASSUME Sizes, CheckType, NEW s \in Nvrs, CountStatus(s)
  PROVE  CheckType'
<1>1. ASSUME NEW c \in Counts PROVE Counted(c) \in Counts
  <2>1. CASE c.flag = 1
    BY <2>1 DEF Counted
  <2>2. CASE c.flag = 0 /\ c.num + 1 = Grace
    BY <2>2 DEF Counted, Counts, Sizes
  <2>3. CASE c.flag = 0 /\ c.num + 1 # Grace
    <3>1. Counted(c) = [c EXCEPT !.num = @ + 1]
      BY <2>3 DEF Counted
    <3>2. c.num + 1 \in 0..Grace - 1
      BY <2>3 DEF Counts, Sizes
    <3> QED
      BY <3>1, <3>2 DEF Counts
  <2> QED
    BY <2>1, <2>2, <2>3 DEF Counts
<1>2. ASSUME NEW p \in Pages
      PROVE  [check[p] EXCEPT ![s] = Counted(@)] \in [Nvrs -> Counts]
  <2>1. check[p] \in [Nvrs -> Counts] /\ check[p][s] \in Counts
    BY Zenon DEF CheckType
  <2>2. Counted(check[p][s]) \in Counts
    BY <1>1, <2>1
  <2> QED
    BY <2>1, <2>2, Zenon
<1> QED
  BY <1>2, Zenon DEF CountStatus, CheckType

\* An answer about the recorder and its disk.
LEMMA NvrStatusStep ==
  ASSUME Sizes, IInv, NEW s \in Nvrs, NEW disk \in BOOLEAN, NvrStatus(s, disk)
  PROVE  DeviceType' /\ CheckType' /\ PageOK'
<1>1. CheckType'
  BY CountStatusType, Zenon DEF NvrStatus, IInv
<1>2. StorageState(s, disk) \in {"", "normal", "error"}
  BY DEF StorageState, IInv, DeviceType
<1>3. DeviceType'
  BY <1>2 DEF NvrStatus, IInv, DeviceType
<1>4. <<s, Disk>> \in Sources
  BY Zenon DEF Sources
<1>5. CASE disk
  <2>1. AlarmCleared(<<s, Disk>>)
    BY <1>5, Zenon DEF NvrStatus
  <2> QED
    BY <1>1, <1>3, <1>4, <2>1, ClearedOK, Zenon DEF IInv
<1>6. CASE ~disk /\ check'["menu"][s].flag = 1
  <2>1. AlarmHappens(<<s, Disk>>, "err")
    BY <1>6, Zenon DEF NvrStatus
  <2> QED
    BY <1>1, <1>3, <1>4, <2>1, HappensOK, Zenon DEF IInv, Alarms
<1>7. CASE ~disk /\ check'["menu"][s].flag # 1
  <2>1. StopIfAllClear(iErrFlag) /\ UNCHANGED <<iErrFlag, rows>>
    BY <1>7, Zenon DEF NvrStatus
  <2>2. FlagType' /\ RowsType' /\ StopIfAllClear(iErrFlag') /\ flashing \in BOOLEAN
    BY <2>1, Zenon DEF IInv, PageOK, AlarmType, FlagType, RowsType
  <2> QED
    BY <1>1, <1>3, <2>2, StopStops, Zenon DEF PageOK, AlarmType
<1> QED
  BY <1>5, <1>6, <1>7

\* A report about a camera.
LEMMA VideoAlarmStep ==
  ASSUME Sizes, IInv, NEW s \in Nvrs, NEW c \in Cams,
         NEW a \in VideoAlarms \cup {"none"}, VideoAlarm(<<s, c>>, a)
  PROVE  DeviceType' /\ CheckType' /\ PageOK'
<1> DEFINE d == <<s, c>>
<1>1. d \in Nvrs \X Cams /\ d \in Sources
  BY Zenon DEF Sources
<1> HIDE DEF d
<1>2. VideoText(d, a)
  BY Zenon DEF VideoAlarm, d
<1>3. DeviceType'
  <2>1. videoText' \in [Nvrs \X Cams -> VideoAlarms \cup {"none"}]
    BY <1>1, <1>2 DEF VideoText, IInv, DeviceType
  <2> QED
    BY <2>1 DEF VideoAlarm, IInv, DeviceType
<1>4. CheckType'
  BY Zenon DEF VideoAlarm, IInv, CheckType
<1>5. AlarmCleared(d) \/ UNCHANGED alarm \/ (a # "none" /\ AlarmHappens(d, a))
  BY Zenon DEF VideoAlarm, d
<1>6. a # "none" => a \in Alarms
  BY Zenon DEF Alarms
<1>7. PageOK'
  BY <1>1, <1>5, <1>6, ClearedOK, HappensOK, UntouchedOK, Zenon DEF IInv
<1> QED
  BY <1>3, <1>4, <1>7

\* One message of a server.
LEMMA RecvStep ==
  ASSUME Sizes, IInv, NEW s \in Nvrs, RecvPmsgCtrl(s)
  PROVE  IInv'
<1> DEFINE m == Head(queue[s])
<1>1. /\ m \in Messages /\ Tail(queue[s]) \in Seq(Messages)
      /\ Len(Tail(queue[s])) = Len(queue[s]) - 1
  BY DEF RecvPmsgCtrl, IInv, LinkType
<1>2. LinkType'
  <2>1. queue' = [queue EXCEPT ![s] = Tail(@)] /\ UNCHANGED <<connected, asked>>
    BY Zenon DEF RecvPmsgCtrl
  <2>2. Len(Tail(queue[s])) <= MaxQueue
    BY <1>1 DEF IInv, LinkType, Sizes
  <2> QED
    BY <1>1, <2>1, <2>2 DEF IInv, LinkType
<1> HIDE DEF m
<1>3. CASE m.type = "NVR_STATUS"
  <2>1. m.disk \in BOOLEAN /\ NvrStatus(s, m.disk)
    BY <1>1, <1>3 DEF Messages, RecvPmsgCtrl, m
  <2> QED
    BY <1>2, <2>1, NvrStatusStep, Zenon DEF IInv
<1>4. CASE m.type = "IPC_STATUS"
  <2>1. m.cam \in Cams /\ m.online \in {0, 1} /\ IpcStatus(<<s, m.cam>>, m.online)
    BY <1>1, <1>4 DEF Messages, RecvPmsgCtrl, m
  <2>2. DeviceType'
    BY <2>1 DEF IpcStatus, IInv, DeviceType
  <2>3. CheckType'
    BY <2>1, Zenon DEF IpcStatus, IInv, CheckType
  <2>4. PageOK'
    BY <2>1, UntouchedOK, Zenon DEF IpcStatus, IInv
  <2> QED
    BY <1>2, <2>2, <2>3, <2>4 DEF IInv
<1>5. CASE m.type = "VIDEO_ALARM"
  <2>1. /\ m.cam \in Cams /\ m.alarm \in VideoAlarms \cup {"none"}
        /\ VideoAlarm(<<s, m.cam>>, m.alarm)
    BY <1>1, <1>5 DEF Messages, RecvPmsgCtrl, m
  <2> QED
    BY <1>2, <2>1, VideoAlarmStep, Zenon DEF IInv
<1> QED
  BY <1>1, <1>3, <1>4, <1>5 DEF Messages

\* The look every ten seconds.
LEMMA GetDevStateStep ==
  ASSUME Sizes, IInv, NEW s \in Nvrs, GetDevState(s)
  PROVE  IInv'
<1>1. CASE SeenOnline(s)
  <2>1. asked' \in [Nvrs -> BOOLEAN]
    BY <1>1, Zenon DEF SeenOnline, IInv, LinkType
  <2>2. LinkType' /\ DeviceType'
    BY <1>1, <2>1 DEF SeenOnline, IInv, LinkType, DeviceType
  <2>3. CheckType' /\ PageOK'
    BY <1>1, UntouchedOK, Zenon DEF SeenOnline, IInv, CheckType
  <2> QED
    BY <2>2, <2>3 DEF IInv
<1>2. CASE SeenOffline(s)
  <2>1. LinkType'
    BY <1>2 DEF SeenOffline, link, IInv, LinkType
  <2>2. DeviceType'
    BY <1>2 DEF SeenOffline, CamerasOff, IInv, DeviceType
  <2>3. CASE m_aiNvrOnlineFlag[s] = 1
    <3>1. RestartCheck(s) /\ ServerOffline(s)
      BY <1>2, <2>3, Zenon DEF SeenOffline
    <3>2. NotChecked \in Counts
      BY DEF NotChecked, Counts, Sizes
    <3>3. CheckType'
      BY <3>1, <3>2, Zenon DEF RestartCheck, IInv, CheckType
    <3> QED
      BY <2>1, <2>2, <3>1, <3>3, OfflineOK, Zenon DEF IInv
  <2>4. CASE m_aiNvrOnlineFlag[s] # 1
    BY <1>2, <2>1, <2>2, <2>4, UntouchedOK, Zenon DEF SeenOffline, IInv, CheckType
  <2> QED
    BY <2>3, <2>4
<1> QED
  BY <1>1, <1>2 DEF GetDevState

\* The operator empties the table or looks at it.
LEMMA OperatorStep ==
  ASSUME Sizes, IInv, Operator
  PROVE  IInv'
<1>1. UNCHANGED <<link, device, check>>
  BY Zenon DEF Operator, ClearAll, AlarmPageShow
<1>2. LinkType' /\ DeviceType' /\ CheckType'
  BY <1>1 DEF link, device, IInv, LinkType, DeviceType, CheckType
<1>3. flashing' = FALSE
  BY Zenon DEF Operator, ClearAll, AlarmPageShow
<1>4. FlagType' /\ RowsType'
  <2>1. CASE ClearAll
    BY <2>1 DEF ClearAll, FlagType, RowsType, Sizes
  <2>2. CASE AlarmPageShow
    BY <2>2 DEF AlarmPageShow, IInv, PageOK, AlarmType, FlagType, RowsType
  <2> QED
    BY <2>1, <2>2 DEF Operator
<1> QED
  BY <1>2, <1>3, <1>4, Zenon DEF IInv, PageOK, AlarmType, FlashMeansAlarm

\* The invariant holds at the start.
LEMMA InitOK ==
  ASSUME Sizes, DevInit
  PROVE  IInv
<1>1. /\ connected \in [Nvrs -> BOOLEAN] /\ asked \in [Nvrs -> BOOLEAN]
      /\ flashing \in BOOLEAN /\ ~flashing
  BY Zenon DEF DevInit
<1>2. LinkType
  <2>1. <<>> \in Seq(Messages) /\ Len(<<>>) <= MaxQueue
    BY DEF Sizes
  <2>2. \A s \in Nvrs : queue[s] = <<>>
    BY Zenon DEF DevInit
  <2>3. queue \in [Nvrs -> Seq(Messages)]
    BY <2>1, Zenon DEF DevInit
  <2> QED
    BY <1>1, <2>1, <2>2, <2>3, Zenon DEF LinkType
<1>3. DeviceType
  BY DEF DevInit, DeviceType
<1>4. NotChecked \in Counts
  BY DEF NotChecked, Counts, Sizes
<1>5. CheckType
  BY <1>4, Zenon DEF DevInit, CheckType
<1>6. FlagType /\ RowsType
  <2>1. FlagType
    BY Zenon DEF DevInit, FlagType
  <2>2. <<>> \in Seq(Rows) /\ Len(<<>>) <= MAX_ITEM_NUM
    BY DEF Sizes
  <2> QED
    BY <2>1, <2>2, Zenon DEF DevInit, RowsType
<1> QED
  BY <1>1, <1>2, <1>3, <1>5, <1>6, Zenon DEF IInv, PageOK, AlarmType, FlashMeansAlarm

\* The invariant is inductive.
LEMMA Step ==
  ASSUME Sizes, IInv, [DevNext]_devVars
  PROVE  IInv'
<1>1. CASE Link
  BY <1>1, LinkStep, UntouchedOK DEF IInv, device, DeviceType, CheckType
<1>2. CASE Device
  BY <1>2, RecvStep, GetDevStateStep DEF Device
<1>3. CASE Operator
  BY <1>3, OperatorStep
<1>4. CASE UNCHANGED devVars
  BY <1>4, UntouchedOK DEF devVars, link, device, IInv, LinkType, DeviceType, CheckType
<1> QED
  BY <1>1, <1>2, <1>3, <1>4 DEF DevNext

\* Every variable keeps its type, for any servers and cameras: the alarm
\* table stays within its rows and the two counts within the grace period.
THEOREM TypeCorrect ==
  ASSUME Sizes
  PROVE  DevSpec => []DevTypeOK
<1>1. DevInit => IInv
  BY InitOK
<1>2. IInv /\ [DevNext]_devVars => IInv'
  BY Step
<1>3. IInv => DevTypeOK
  BY Parts, Zenon DEF IInv, PageOK
<1> QED
  BY <1>1, <1>2, <1>3, PTL DEF DevSpec

\* For any servers and cameras, whichever way the last alarm goes, the
\* buttons stop flashing with it (alarmwidget.cpp 251-265, 424-440).
THEOREM FlashCorrect ==
  ASSUME Sizes
  PROVE  DevSpec => []FlashMeansAlarm
<1>1. DevInit => IInv
  BY InitOK
<1>2. IInv /\ [DevNext]_devVars => IInv'
  BY Step
<1>3. IInv => FlashMeansAlarm
  BY DEF IInv, PageOK
<1> QED
  BY <1>1, <1>2, <1>3, PTL DEF DevSpec

-----------------------------------------------------------------------------
(* What the rows say.  ClearNamesItsAlarm is not inductive: the row that   *)
(* ends an alarm is written from the flag, so the last row of a source     *)
(* with an alarm, where it is still in the table, has to be the one that   *)
(* began it.                                                               *)

\* ClearNamesItsAlarm of a table.
Names(t) ==
  \A k \in 1..Len(t) : t[k].clear =>
    \A j \in 1..k-1 :
      (t[j].src = t[k].src /\ \A l \in j+1..k-1 : t[l].src # t[k].src)
        => ~t[j].clear /\ t[j].alarm = t[k].alarm
\* The last row of a source that has an alarm began that alarm.
Begun(t, flags) ==
  \A k \in 1..Len(t) :
    (flags[t[k].src] # "none" /\ \A l \in k+1..Len(t) : t[l].src # t[k].src)
      => ~t[k].clear /\ t[k].alarm = flags[t[k].src]
\* The table and the flags.
PageNames == Names(rows) /\ Begun(rows, iErrFlag)

\* The oldest rows may go.
LEMMA SuffixNames ==
  ASSUME NEW t \in Seq(Rows), NEW n \in 0..Len(t), NEW flags, Names(t), Begun(t, flags),
         NEW u, u = SubSeq(t, n + 1, Len(t))
  PROVE  u \in Seq(Rows) /\ Names(u) /\ Begun(u, flags)
<1>1. /\ u \in Seq(Rows) /\ Len(u) = Len(t) - n /\ Len(t) \in Nat
      /\ \A i \in 1..Len(u) : u[i] = t[i + n]
  <2>1. u \in Seq(Rows) /\ Len(t) \in Nat
    OBVIOUS
  <2>2. Len(u) = Len(t) - n
    OBVIOUS
  <2>3. \A i \in 1..Len(u) : u[i] = t[i + n]
    BY <2>2
  <2> QED
    BY <2>1, <2>2, <2>3
<1>2. ASSUME NEW k \in 1..Len(u), u[k].clear, NEW j \in 1..k-1,
             u[j].src = u[k].src, \A l \in j+1..k-1 : u[l].src # u[k].src
      PROVE  ~u[j].clear /\ u[j].alarm = u[k].alarm
  <2>1. k + n \in 1..Len(t) /\ j + n \in 1..(k + n)-1 /\ u[k] = t[k + n] /\ u[j] = t[j + n]
    BY <1>1
  <2>2. ASSUME NEW l \in (j + n)+1..(k + n)-1 PROVE t[l].src # t[k + n].src
    <3>1. l - n \in j+1..k-1 /\ l - n \in 1..Len(u) /\ (l - n) + n = l
      BY <1>1
    <3> QED
      BY <1>1, <1>2, <2>1, <3>1
  <2> QED
    BY <1>2, <2>1, <2>2, Zenon DEF Names
<1>3. ASSUME NEW k \in 1..Len(u), flags[u[k].src] # "none",
             \A l \in k+1..Len(u) : u[l].src # u[k].src
      PROVE  ~u[k].clear /\ u[k].alarm = flags[u[k].src]
  <2>1. k + n \in 1..Len(t) /\ u[k] = t[k + n]
    BY <1>1
  <2>2. ASSUME NEW l \in (k + n)+1..Len(t) PROVE t[l].src # t[k + n].src
    <3>1. l - n \in k+1..Len(u) /\ l - n \in 1..Len(u) /\ (l - n) + n = l
      BY <1>1
    <3> QED
      BY <1>1, <1>3, <2>1, <3>1
  <2> QED
    BY <1>3, <2>1, <2>2, Zenon DEF Begun
<1> QED
  BY <1>1, <1>2, <1>3, Zenon DEF Names, Begun

\* A row that ends the alarm of its source, or begins one, may be added.
LEMMA AppendNames ==
  ASSUME NEW t \in Seq(Rows), NEW r \in Rows, NEW flags, NEW after,
         Names(t), Begun(t, flags), NEW u, u = Append(t, r),
         r.clear => flags[r.src] # "none" /\ r.alarm = flags[r.src],
         after[r.src] # "none" => ~r.clear /\ r.alarm = after[r.src],
         \A i \in 1..Len(t) : t[i].src # r.src => after[t[i].src] = flags[t[i].src]
  PROVE  Names(u) /\ Begun(u, after)
<1>1. /\ Len(u) = Len(t) + 1 /\ Len(t) \in Nat /\ u[Len(t) + 1] = r
      /\ \A i \in 1..Len(t) : u[i] = t[i]
  OBVIOUS
<1>2. ASSUME NEW k \in 1..Len(u), u[k].clear, NEW j \in 1..k-1,
             u[j].src = u[k].src, \A l \in j+1..k-1 : u[l].src # u[k].src
      PROVE  ~u[j].clear /\ u[j].alarm = u[k].alarm
  <2>1. j \in 1..Len(t) /\ u[j] = t[j]
    BY <1>1
  <2>2. CASE k \in 1..Len(t)
    <3>1. u[k] = t[k] /\ \A l \in j+1..k-1 : u[l] = t[l]
      BY <1>1, <2>2
    <3>2. \A l \in j+1..k-1 : t[l].src # t[k].src
      BY <1>2, <3>1, Zenon
    <3>3. t[k].clear /\ t[j].src = t[k].src
      BY <1>2, <2>1, <3>1, Zenon
    <3>4. ~t[j].clear /\ t[j].alarm = t[k].alarm
      BY <2>2, <3>2, <3>3, Zenon DEF Names
    <3> QED
      BY <2>1, <3>1, <3>4, Zenon
  <2>3. CASE k = Len(t) + 1
    <3>1. u[k] = r /\ \A l \in j+1..Len(t) : l \in j+1..k-1 /\ u[l] = t[l]
      BY <1>1, <2>3
    <3>2. t[j].src = r.src /\ r.clear
      BY <1>2, <2>1, <3>1, Zenon
    <3>3. ASSUME NEW l \in j+1..Len(t) PROVE t[l].src # t[j].src
      <4>1. l \in j+1..k-1 /\ u[l] = t[l]
        BY <3>1
      <4>2. u[l].src # u[k].src
        BY <1>2, <4>1
      <4> QED
        BY <3>1, <3>2, <4>1, <4>2, Zenon
    <3>4. flags[t[j].src] # "none" /\ r.alarm = flags[t[j].src]
      BY <3>2, Zenon
    <3>5. ~t[j].clear /\ t[j].alarm = flags[t[j].src]
      BY <2>1, <3>3, <3>4, Zenon DEF Begun
    <3> QED
      BY <2>1, <3>1, <3>4, <3>5, Zenon
  <2> QED
    BY <1>1, <2>2, <2>3
<1>3. ASSUME NEW k \in 1..Len(u), after[u[k].src] # "none",
             \A l \in k+1..Len(u) : u[l].src # u[k].src
      PROVE  ~u[k].clear /\ u[k].alarm = after[u[k].src]
  <2>1. CASE k \in 1..Len(t)
    <3>1. u[k] = t[k] /\ Len(t) + 1 \in k+1..Len(u)
      BY <1>1, <2>1
    <3>2. t[k].src # r.src
      BY <1>1, <1>3, <3>1, Zenon
    <3>3. after[t[k].src] = flags[t[k].src]
      BY <2>1, <3>2, Zenon
    <3>4. \A l \in k+1..Len(t) : l \in k+1..Len(u) /\ u[l] = t[l]
      BY <1>1, <2>1
    <3>5. \A l \in k+1..Len(t) : t[l].src # t[k].src
      BY <1>3, <3>1, <3>4, Zenon
    <3> QED
      BY <1>3, <2>1, <3>1, <3>3, <3>5, Zenon DEF Begun
  <2>2. CASE k = Len(t) + 1
    BY <1>1, <1>3, <2>2, Zenon
  <2> QED
    BY <1>1, <2>1, <2>2
<1> QED
  BY <1>2, <1>3, Zenon DEF Names, Begun

\* A row is added to the table, oldest rows given up or not.
LEMMA AddRowNames ==
  ASSUME Sizes, RowsType, PageNames, NEW d \in Sources, NEW a \in Alarms,
         NEW clear \in BOOLEAN, AddRow(d, a, clear),
         clear => iErrFlag[d] # "none" /\ a = iErrFlag[d],
         iErrFlag'[d] # "none" => ~clear /\ a = iErrFlag'[d],
         \A e \in Sources \ {d} : iErrFlag'[e] = iErrFlag[e]
  PROVE  PageNames'
<1> DEFINE t == Compact(rows)
           r == [src |-> d, alarm |-> a, clear |-> clear]
<1>1. r \in Rows /\ r.src = d /\ r.alarm = a /\ r.clear = clear
  BY Zenon DEF Rows, Alarms
<1>2. t \in Seq(Rows) /\ Names(t) /\ Begun(t, iErrFlag)
  <2>1. CASE Len(rows) = MAX_ITEM_NUM
    <3>1. t = SubSeq(rows, Dropped + 1, Len(rows)) /\ Dropped \in 0..Len(rows)
      BY <2>1 DEF Compact, Sizes
    <3> HIDE DEF t
    <3> QED
      BY <3>1, SuffixNames, Zenon DEF RowsType, PageNames
  <2>2. CASE Len(rows) # MAX_ITEM_NUM
    BY <2>2, Zenon DEF Compact, RowsType, PageNames
  <2> QED
    BY <2>1, <2>2
<1>3. rows' = Append(t, r)
  BY DEF AddRow
<1> HIDE DEF t, r
<1>4. \A i \in 1..Len(t) : t[i].src \in Sources
  <2>1. \A i \in 1..Len(t) : t[i] \in Rows
    BY <1>2
  <2> QED
    BY <2>1, Zenon DEF Rows
<1>5. \A i \in 1..Len(t) : t[i].src # r.src => iErrFlag'[t[i].src] = iErrFlag[t[i].src]
  BY <1>1, <1>4, Zenon
<1>6. /\ r.clear => iErrFlag[r.src] # "none" /\ r.alarm = iErrFlag[r.src]
      /\ iErrFlag'[r.src] # "none" => ~r.clear /\ r.alarm = iErrFlag'[r.src]
  BY <1>1, Zenon
<1>7. Names(rows') /\ Begun(rows', iErrFlag')
  BY <1>1, <1>2, <1>3, <1>5, <1>6, AppendNames
<1> QED
  BY <1>7, Zenon DEF PageNames, Names, Begun

\* With the table as it was, flags may only go out.
LEMMA KeptNames ==
  ASSUME RowsType, PageNames, UNCHANGED rows,
         \A d \in Sources : iErrFlag'[d] # "none" => iErrFlag'[d] = iErrFlag[d]
  PROVE  PageNames'
<1>1. \A k \in 1..Len(rows) : rows[k].src \in Sources
  <2>1. \A k \in 1..Len(rows) : rows[k] \in Rows
    BY DEF RowsType
  <2> QED
    BY <2>1, Zenon DEF Rows
<1>2. Begun(rows, iErrFlag')
  <2> SUFFICES ASSUME NEW k \in 1..Len(rows), iErrFlag'[rows[k].src] # "none",
                      \A l \in k+1..Len(rows) : rows[l].src # rows[k].src
               PROVE  ~rows[k].clear /\ rows[k].alarm = iErrFlag'[rows[k].src]
    BY Zenon DEF Begun
  <2>1. iErrFlag'[rows[k].src] = iErrFlag[rows[k].src]
    BY <1>1, Zenon
  <2> QED
    BY <2>1, Zenon DEF PageNames, Begun
<1>3. Names(rows') /\ Begun(rows', iErrFlag')
  BY <1>2 DEF PageNames
<1> QED
  BY <1>3, Zenon DEF PageNames, Names, Begun

\* The row that ends an alarm is written from the flag.
LEMMA ClearedNames ==
  ASSUME Sizes, AlarmType, PageNames, NEW d \in Sources, AlarmCleared(d)
  PROVE  PageNames'
<1>1. iErrFlag' = [iErrFlag EXCEPT ![d] = "none"]
  BY Zenon DEF AlarmCleared
<1>2. iErrFlag'[d] = "none" /\ \A e \in Sources \ {d} : iErrFlag'[e] = iErrFlag[e]
  BY <1>1 DEF AlarmType, FlagType
<1>3. CASE iErrFlag[d] = "none"
  <2>1. UNCHANGED rows
    BY <1>3, Zenon DEF AlarmCleared
  <2>2. \A e \in Sources : iErrFlag'[e] # "none" => iErrFlag'[e] = iErrFlag[e]
    BY <1>2, Zenon
  <2> QED
    BY <2>1, <2>2, KeptNames, Zenon DEF AlarmType
<1>4. CASE iErrFlag[d] # "none"
  <2>1. AddRow(d, iErrFlag[d], TRUE)
    BY <1>4, Zenon DEF AlarmCleared
  <2>2. iErrFlag[d] \in Alarms
    BY <1>4 DEF AlarmType, FlagType
  <2> QED
    BY <1>2, <1>4, <2>1, <2>2, AddRowNames, Zenon DEF AlarmType
<1> QED
  BY <1>3, <1>4

\* The row that begins an alarm agrees with the flag it sets.
LEMMA HappensNames ==
  ASSUME Sizes, AlarmType, PageNames, NEW d \in Sources, NEW a \in Alarms,
         AlarmHappens(d, a)
  PROVE  PageNames'
<1>1. CASE iErrFlag[d] = "none"
  <2>1. iErrFlag' = [iErrFlag EXCEPT ![d] = a] /\ AddRow(d, a, FALSE)
    BY <1>1, Zenon DEF AlarmHappens
  <2>2. iErrFlag'[d] = a /\ \A e \in Sources \ {d} : iErrFlag'[e] = iErrFlag[e]
    BY <2>1 DEF AlarmType, FlagType
  <2> QED
    BY <2>1, <2>2, AddRowNames, Zenon DEF AlarmType
<1>2. CASE iErrFlag[d] # "none"
  <2>1. UNCHANGED <<iErrFlag, rows>>
    BY <1>2, Zenon DEF AlarmHappens, alarm
  <2> QED
    BY <2>1, KeptNames, Zenon DEF AlarmType
<1> QED
  BY <1>1, <1>2

\* Every action keeps the names right: rows are written by the two handlers
\* above, and the rest at most puts flags out or empties the table.
LEMMA NamesStep ==
  ASSUME Sizes, IInv, PageNames, [DevNext]_devVars
  PROVE  PageNames'
<1>1. AlarmType /\ RowsType
  BY Zenon DEF IInv, PageOK, AlarmType
<1>2. ASSUME UNCHANGED <<iErrFlag, rows>> PROVE PageNames'
  BY <1>1, <1>2, KeptNames, Zenon
<1>3. CASE Link
  BY <1>2, <1>3, LinkStep DEF alarm
<1>4. ASSUME NEW s \in Nvrs, RecvPmsgCtrl(s) PROVE PageNames'
  <2> DEFINE m == Head(queue[s])
  <2>1. m \in Messages
    BY <1>4 DEF RecvPmsgCtrl, IInv, LinkType
  <2> HIDE DEF m
  <2>2. CASE m.type = "NVR_STATUS"
    <3>1. m.disk \in BOOLEAN /\ NvrStatus(s, m.disk)
      BY <1>4, <2>1, <2>2 DEF Messages, RecvPmsgCtrl, m
    <3>2. <<s, Disk>> \in Sources /\ "err" \in Alarms
      BY Zenon DEF Sources, Alarms
    <3>3. \/ AlarmCleared(<<s, Disk>>) \/ AlarmHappens(<<s, Disk>>, "err")
          \/ UNCHANGED <<iErrFlag, rows>>
      BY <3>1, Zenon DEF NvrStatus
    <3> QED
      BY <1>1, <1>2, <3>2, <3>3, ClearedNames, HappensNames, Zenon
  <2>3. CASE m.type = "IPC_STATUS"
    <3>1. IpcStatus(<<s, m.cam>>, m.online)
      BY <1>4, <2>1, <2>3 DEF Messages, RecvPmsgCtrl, m
    <3> QED
      BY <1>2, <3>1 DEF IpcStatus, alarm
  <2>4. CASE m.type = "VIDEO_ALARM"
    <3>1. /\ m.cam \in Cams /\ m.alarm \in VideoAlarms \cup {"none"}
          /\ VideoAlarm(<<s, m.cam>>, m.alarm)
      BY <1>4, <2>1, <2>4 DEF Messages, RecvPmsgCtrl, m
    <3>2. <<s, m.cam>> \in Sources /\ (m.alarm # "none" => m.alarm \in Alarms)
      BY <3>1, Zenon DEF Sources, Alarms
    <3>3. \/ AlarmCleared(<<s, m.cam>>) \/ UNCHANGED <<iErrFlag, rows>>
          \/ m.alarm # "none" /\ AlarmHappens(<<s, m.cam>>, m.alarm)
      BY <3>1, Zenon DEF VideoAlarm, alarm
    <3> QED
      BY <1>1, <1>2, <3>2, <3>3, ClearedNames, HappensNames, Zenon
  <2> QED
    BY <2>1, <2>2, <2>3, <2>4 DEF Messages
<1>5. ASSUME NEW s \in Nvrs, GetDevState(s) PROVE PageNames'
  <2>1. ServerOffline(s) \/ UNCHANGED <<iErrFlag, rows>>
    BY <1>5, Zenon DEF GetDevState, SeenOnline, SeenOffline, alarm
  <2>2. CASE ServerOffline(s)
    <3>1. /\ UNCHANGED rows
          /\ \A d \in Sources : iErrFlag'[d] # "none" => iErrFlag'[d] = iErrFlag[d]
      BY <2>2 DEF ServerOffline
    <3> QED
      BY <1>1, <3>1, KeptNames, Zenon
  <2> QED
    BY <1>2, <2>1, <2>2
<1>6. CASE ClearAll
  <2>1. rows' = <<>> /\ Len(rows') = 0
    BY <1>6 DEF ClearAll
  <2>2. Names(rows') /\ Begun(rows', iErrFlag')
    BY <2>1 DEF Names, Begun
  <2> QED
    BY <2>2, Zenon DEF PageNames, Names, Begun
<1>7. CASE AlarmPageShow
  BY <1>2, <1>7, Zenon DEF AlarmPageShow
<1>8. CASE UNCHANGED devVars
  BY <1>2, <1>8 DEF devVars, alarm
<1> QED
  BY <1>3, <1>4, <1>5, <1>6, <1>7, <1>8 DEF DevNext, Device, Operator

\* For any servers and cameras and any size of the table, a row that ends an
\* alarm names the one its source began last, also after rows were given up
\* (alarmwidget.cpp 144-198).
THEOREM ClearCorrect ==
  ASSUME Sizes
  PROVE  DevSpec => []ClearNamesItsAlarm
<1> DEFINE I == IInv /\ PageNames
<1>1. DevInit => I
  <2> SUFFICES ASSUME DevInit PROVE PageNames
    BY InitOK
  <2>1. rows = <<>> /\ Len(rows) = 0
    BY DEF DevInit
  <2> QED
    BY <2>1 DEF PageNames, Names, Begun
<1>2. I /\ [DevNext]_devVars => I'
  BY Step, NamesStep
<1>3. I => ClearNamesItsAlarm
  <2> SUFFICES ASSUME I PROVE ClearNamesItsAlarm
    OBVIOUS
  <2>1. DOMAIN rows = 1..Len(rows)
    BY DEF IInv, PageOK, AlarmType, RowsType
  <2> QED
    BY <2>1, Zenon DEF ClearNamesItsAlarm, PageNames, Names
<1> HIDE DEF I
<1> QED
  BY <1>1, <1>2, <1>3, PTL DEF DevSpec
-----------------------------------------------------------------------------
(* What the two pages tell of a disk.  DiskPagesAgree is not inductive: a  *)
(* page that has lost its server still handles what the server had sent,   *)
(* so the counts have to agree and what waits must not use up the grace    *)
(* period.                                                                 *)

\* No answer about the recorder waits behind the first k messages.
Waiting(s, k) == \A i \in 1..Len(queue[s]) : queue[s][i].type = "NVR_STATUS" => i <= k
\* A server that is shown off line: what it has sent stays without effect.
Away(s) ==
  /\ ~asked[s] /\ iErrFlag[<<s, Disk>>] = "none" /\ check["menu"][s].flag = 0
  /\ \E k \in Nat : check["menu"][s].num + k < Grace /\ Waiting(s, k)
\* The two pages agree on each disk, and are told of a server that comes back.
DiskOK(s) ==
  /\ check["menu"][s] = check["devManage"][s]
  /\ ~connected[s] => ~asked[s]
  /\ m_aiNvrOnlineFlag[s] = 0 => Away(s)
  /\ iErrFlag[<<s, Disk>>] = "err" => storageText[s] = "error"
DiskInv == IInv /\ \A s \in Nvrs : DiskOK(s)

\* Whatever leaves a server and its disk alone.
LEMMA SameDisk ==
  ASSUME NEW n \in Nvrs, DiskOK(n), queue'[n] = queue[n], asked'[n] = asked[n],
         connected'[n] = connected[n], m_aiNvrOnlineFlag'[n] = m_aiNvrOnlineFlag[n],
         check'["menu"][n] = check["menu"][n],
         check'["devManage"][n] = check["devManage"][n],
         iErrFlag'[<<n, Disk>>] = iErrFlag[<<n, Disk>>] \/ iErrFlag'[<<n, Disk>>] = "none",
         storageText'[n] = storageText[n]
  PROVE  DiskOK(n)'
<1>1. \A k \in Nat : Waiting(n, k) => Waiting(n, k)'
  BY Zenon DEF Waiting
<1>2. "none" # "err"
  OBVIOUS
<1>3. m_aiNvrOnlineFlag'[n] = 0 => Away(n)'
  BY <1>1, Zenon DEF DiskOK, Away
<1> QED
  BY <1>2, <1>3, Zenon DEF DiskOK

\* The connection comes and goes and brings a message: an answer about the
\* recorder only where one is owed, and an absent server owes none.
LEMMA LinkDisk ==
  ASSUME DiskInv, Link, NEW n \in Nvrs
  PROVE  DiskOK(n)'
<1>1. /\ DiskOK(n) /\ LinkType /\ UNCHANGED <<device, check, alarm>>
      /\ UNCHANGED <<m_aiNvrOnlineFlag, storageText, check, iErrFlag>>
  BY DEF DiskInv, IInv, Link, Connect, Disconnect, Receive, device, alarm
<1>2. ASSUME NEW s \in Nvrs, Connect(s) PROVE DiskOK(n)'
  <2>1. /\ UNCHANGED <<queue, asked>>
        /\ connected' = [connected EXCEPT ![s] = TRUE]
    BY <1>2, Zenon DEF Connect
  <2>2. CASE n = s
    <3>1. connected'[n]
      BY <1>1, <2>1, <2>2, Zenon DEF LinkType
    <3>2. \A k \in Nat : Waiting(n, k) => Waiting(n, k)'
      BY <2>1, Zenon DEF Waiting
    <3>3. m_aiNvrOnlineFlag'[n] = 0 => Away(n)'
      BY <1>1, <2>1, <3>2, Zenon DEF DiskOK, Away
    <3> QED
      BY <1>1, <2>1, <3>1, <3>3, Zenon DEF DiskOK
  <2>3. CASE n # s
    <3>1. connected'[n] = connected[n]
      BY <1>1, <2>1, <2>3, Zenon DEF LinkType
    <3> QED
      BY <1>1, <2>1, <3>1, SameDisk, Zenon
  <2> QED
    BY <2>2, <2>3
<1>3. ASSUME NEW s \in Nvrs, Disconnect(s) PROVE DiskOK(n)'
  <2>1. /\ UNCHANGED queue /\ connected' = [connected EXCEPT ![s] = FALSE]
        /\ asked' = [asked EXCEPT ![s] = FALSE]
    BY <1>3, Zenon DEF Disconnect
  <2>2. CASE n = s
    <3>1. ~asked'[n]
      BY <1>1, <2>1, <2>2, Zenon DEF LinkType
    <3>2. \A k \in Nat : Waiting(n, k) => Waiting(n, k)'
      BY <2>1, Zenon DEF Waiting
    <3>3. m_aiNvrOnlineFlag'[n] = 0 => Away(n)'
      BY <1>1, <2>1, <3>1, <3>2, Zenon DEF DiskOK, Away
    <3> QED
      BY <1>1, <2>1, <3>1, <3>3, Zenon DEF DiskOK
  <2>3. CASE n # s
    <3>1. connected'[n] = connected[n] /\ asked'[n] = asked[n]
      BY <1>1, <2>1, <2>3, Zenon DEF LinkType
    <3> QED
      BY <1>1, <2>1, <3>1, SameDisk, Zenon
  <2> QED
    BY <2>2, <2>3
<1>4. ASSUME NEW s \in Nvrs, Receive(s) PROVE DiskOK(n)'
  <2>1. PICK m \in Messages :
           /\ m.type = "NVR_STATUS" => asked[s]
           /\ asked' = [asked EXCEPT ![s] = @ /\ m.type # "NVR_STATUS"]
           /\ queue' = [queue EXCEPT ![s] = Append(@, m)]
    BY <1>4, Zenon DEF Receive
  <2>2. connected[s] /\ UNCHANGED connected
    BY <1>4, Zenon DEF Receive
  <2>3. CASE n = s
    <3>1. asked'[n] => asked[n]
      BY <1>1, <2>1, <2>3, Zenon DEF LinkType
    <3>2. CASE m_aiNvrOnlineFlag[n] = 0
      <4>1. Away(n) /\ ~asked[n] /\ m.type # "NVR_STATUS"
        BY <1>1, <2>1, <2>3, <3>2, Zenon DEF DiskOK, Away
      <4>2. queue[n] \in Seq(Messages) /\ queue'[n] = Append(queue[n], m)
        BY <1>1, <2>1, <2>3, Zenon DEF LinkType
      <4>3. ASSUME NEW k \in Nat, Waiting(n, k) PROVE Waiting(n, k)'
        <5>1. /\ Len(queue'[n]) = Len(queue[n]) + 1 /\ queue'[n][Len(queue[n]) + 1] = m
              /\ \A i \in 1..Len(queue[n]) : queue'[n][i] = queue[n][i]
          BY <4>2
        <5>2. \A i \in 1..Len(queue'[n]) : i \in 1..Len(queue[n]) \/ i = Len(queue[n]) + 1
          BY <4>2, <5>1
        <5>3. \A i \in 1..Len(queue'[n]) : queue'[n][i].type = "NVR_STATUS" => i <= k
          BY <4>1, <4>3, <5>1, <5>2, Zenon DEF Waiting
        <5> QED
          BY <5>3, Zenon DEF Waiting
      <4>4. Away(n)'
        BY <1>1, <3>1, <4>1, <4>3, Zenon DEF Away
      <4> QED
        BY <1>1, <2>2, <2>3, <4>4, Zenon DEF DiskOK
    <3>3. CASE m_aiNvrOnlineFlag[n] # 0
      BY <1>1, <2>2, <2>3, <3>3, Zenon DEF DiskOK
    <3> QED
      BY <3>2, <3>3
  <2>4. CASE n # s
    <3>1. queue'[n] = queue[n] /\ asked'[n] = asked[n]
      BY <1>1, <2>1, <2>4, Zenon DEF LinkType
    <3> QED
      BY <1>1, <2>2, <3>1, SameDisk, Zenon
  <2> QED
    BY <2>3, <2>4
<1> QED
  BY <1>2, <1>3, <1>4 DEF Link

\* An answer about the recorder is counted on both pages alike, and one that
\* an absent server left behind stays within the grace period.
LEMMA NvrStatusDisk ==
  ASSUME Sizes, DiskInv, NEW n \in Nvrs, NEW s \in Nvrs, NEW disk \in BOOLEAN,
         NvrStatus(s, disk), UNCHANGED <<connected, asked>>,
         queue[s] # <<>>, Head(queue[s]).type = "NVR_STATUS",
         queue' = [queue EXCEPT ![s] = Tail(@)]
  PROVE  DiskOK(n)'
<1>1. DiskOK(n) /\ LinkType /\ DeviceType /\ CheckType /\ FlagType
  BY Zenon DEF DiskInv, IInv, PageOK, AlarmType
<1>2. /\ CountStatus(s) /\ UNCHANGED m_aiNvrOnlineFlag
      /\ storageText' = [storageText EXCEPT ![s] = StorageState(s, disk)]
  BY Zenon DEF NvrStatus
<1>3. ASSUME NEW p \in Pages, NEW t \in Nvrs
      PROVE  check'[p][t] = IF t = s THEN Counted(check[p][s]) ELSE check[p][t]
  BY <1>1, <1>2, Zenon DEF CountStatus, CheckType
<1>4. "menu" \in Pages /\ "devManage" \in Pages
  BY DEF Pages
<1>5. <<s, Disk>> \in Sources /\ <<n, Disk>> \in Sources /\ (n # s => <<n, Disk>> # <<s, Disk>>)
  BY DEF Sources
<1>6. CASE n # s
  <2>1. /\ queue'[n] = queue[n] /\ storageText'[n] = storageText[n]
        /\ check'["menu"][n] = check["menu"][n]
        /\ check'["devManage"][n] = check["devManage"][n]
    BY <1>1, <1>2, <1>3, <1>4, <1>6, Zenon DEF LinkType, DeviceType
  <2>2. iErrFlag'[<<n, Disk>>] = iErrFlag[<<n, Disk>>]
    BY <1>1, <1>5, <1>6 DEF NvrStatus, AlarmCleared, AlarmHappens, alarm, FlagType
  <2> QED
    BY <1>1, <1>2, <2>1, <2>2, SameDisk, Zenon
<1>7. CASE n = s
  <2> DEFINE c == Counted(check["menu"][s])
  <2>1. check'["menu"][s] = c /\ check'["devManage"][s] = c
    BY <1>1, <1>3, <1>4, <1>7, Zenon DEF DiskOK
  <2>2. storageText'[s] = StorageState(s, disk)
    BY <1>1, <1>2, Zenon DEF DeviceType
  <2>3. check["menu"][s] \in Counts
    BY <1>1, <1>4, Zenon DEF CheckType
  <2>4. \/ iErrFlag'[<<s, Disk>>] = "none"
        \/ c.flag = 1 /\ storageText'[s] = "error"
        \/ /\ ~disk /\ c.flag # 1
           /\ iErrFlag'[<<s, Disk>>] = iErrFlag[<<s, Disk>>]
           /\ storageText'[s] = storageText[s]
    <3>1. CASE disk
      BY <1>1, <1>5, <3>1 DEF NvrStatus, AlarmCleared, FlagType
    <3>2. CASE ~disk /\ c.flag = 1
      BY <2>1, <2>2, <3>2, Zenon DEF StorageState
    <3>3. CASE ~disk /\ c.flag # 1
      <4>1. iErrFlag' = iErrFlag
        BY <2>1, <3>3, Zenon DEF NvrStatus
      <4>2. StorageState(s, disk) = storageText[s]
        BY <2>1, <3>3 DEF StorageState
      <4> QED
        BY <2>2, <3>3, <4>1, <4>2, Zenon
    <3> QED
      BY <3>1, <3>2, <3>3
  <2>5. iErrFlag'[<<s, Disk>>] = "err" => storageText'[s] = "error"
    BY <1>1, <1>7, <2>4 DEF DiskOK
  <2>6. m_aiNvrOnlineFlag[s] = 0 => Away(s)'
    <3> SUFFICES ASSUME m_aiNvrOnlineFlag[s] = 0 PROVE Away(s)'
      OBVIOUS
    <3>1. Away(s)
      BY <1>1, <1>7, Zenon DEF DiskOK
    <3>2. PICK k \in Nat : check["menu"][s].num + k < Grace /\ Waiting(s, k)
      BY <3>1, Zenon DEF Away
    <3>3. /\ queue[s] \in Seq(Messages) /\ 1 \in 1..Len(queue[s])
          /\ Head(queue[s]) = queue[s][1]
      BY <1>1 DEF LinkType
    <3>4. k >= 1
      BY <3>2, <3>3 DEF Waiting
    <3>5. c.flag = 0 /\ c.num = check["menu"][s].num + 1
      BY <2>3, <3>1, <3>2, <3>4 DEF Away, Counted, Counts, Sizes
    <3>6. k - 1 \in Nat /\ c.num + (k - 1) < Grace
      BY <2>3, <3>2, <3>4, <3>5 DEF Counts, Sizes
    <3>7. queue'[s] = Tail(queue[s])
      BY <1>1, Zenon DEF LinkType
    <3>8. \A i \in 1..Len(Tail(queue[s])) :
            i + 1 \in 1..Len(queue[s]) /\ Tail(queue[s])[i] = queue[s][i + 1]
      BY <3>3
    <3>9. \A i \in 1..Len(queue'[s]) : queue'[s][i].type = "NVR_STATUS" => i <= k - 1
      <4> SUFFICES ASSUME NEW i \in 1..Len(Tail(queue[s])),
                          Tail(queue[s])[i].type = "NVR_STATUS"
                   PROVE  i <= k - 1
        BY <3>7, Zenon
      <4>1. i + 1 <= k
        BY <3>2, <3>8, Zenon DEF Waiting
      <4>2. i \in Nat
        BY <3>3
      <4> QED
        BY <4>1, <4>2
    <3>10. iErrFlag'[<<s, Disk>>] = "none"
      BY <2>4, <3>1, <3>5 DEF Away
    <3>11. Waiting(s, k - 1)'
      BY <3>9, Zenon DEF Waiting
    <3>12. \E j \in Nat : check'["menu"][s].num + j < Grace /\ Waiting(s, j)'
      BY <2>1, <3>6, <3>11, Zenon
    <3>13. ~asked'[s] /\ check'["menu"][s].flag = 0
      BY <2>1, <3>1, <3>5, Zenon DEF Away
    <3> QED
      BY <3>10, <3>12, <3>13, Zenon DEF Away
  <2> QED
    BY <1>1, <1>2, <1>7, <2>1, <2>5, <2>6, Zenon DEF DiskOK
<1> QED
  BY <1>6, <1>7

\* Another message is no more than taken off the queue.
LEMMA OtherDisk ==
  ASSUME DiskInv, NEW n \in Nvrs, NEW s \in Nvrs, queue[s] # <<>>,
         queue' = [queue EXCEPT ![s] = Tail(@)],
         UNCHANGED <<connected, asked, m_aiNvrOnlineFlag, storageText, check>>,
         \A t \in Nvrs : iErrFlag'[<<t, Disk>>] = iErrFlag[<<t, Disk>>]
  PROVE  DiskOK(n)'
<1>1. DiskOK(n) /\ LinkType
  BY Zenon DEF DiskInv, IInv
<1>2. CASE n # s
  <2>1. queue'[n] = queue[n]
    BY <1>1, <1>2, Zenon DEF LinkType
  <2> QED
    BY <1>1, <2>1, SameDisk, Zenon
<1>3. CASE n = s
  <2>1. queue[n] \in Seq(Messages) /\ queue'[n] = Tail(queue[n]) /\ queue[n] # <<>>
    BY <1>1, <1>3, Zenon DEF LinkType
  <2>2. \A i \in 1..Len(Tail(queue[n])) :
          i + 1 \in 1..Len(queue[n]) /\ Tail(queue[n])[i] = queue[n][i + 1]
    BY <2>1
  <2>3. ASSUME NEW k \in Nat, Waiting(n, k) PROVE Waiting(n, k)'
    <3>1. \A i \in 1..Len(queue'[n]) : queue'[n][i].type = "NVR_STATUS" => i <= k
      <4> SUFFICES ASSUME NEW i \in 1..Len(Tail(queue[n])),
                          Tail(queue[n])[i].type = "NVR_STATUS"
                   PROVE  i <= k
        BY <2>1, Zenon
      <4>1. i + 1 <= k
        BY <2>2, <2>3, Zenon DEF Waiting
      <4>2. i \in Nat
        BY <2>1
      <4> QED
        BY <4>1, <4>2
    <3> QED
      BY <3>1, Zenon DEF Waiting
  <2>4. m_aiNvrOnlineFlag'[n] = 0 => Away(n)'
    BY <1>1, <2>3, Zenon DEF DiskOK, Away
  <2> QED
    BY <1>1, <2>4, Zenon DEF DiskOK
<1> QED
  BY <1>2, <1>3

\* An alarm of a camera is none of the disk.
LEMMA CameraDisk ==
  ASSUME FlagType, Disk \notin Cams, NEW t \in Nvrs, NEW s \in Nvrs, NEW c \in Cams,
         NEW a, AlarmCleared(<<s, c>>) \/ AlarmHappens(<<s, c>>, a) \/ UNCHANGED alarm
  PROVE  iErrFlag'[<<t, Disk>>] = iErrFlag[<<t, Disk>>]
<1>1. <<t, Disk>> \in Sources /\ <<t, Disk>> # <<s, c>>
  BY DEF Sources
<1> QED
  BY <1>1 DEF AlarmCleared, AlarmHappens, alarm, FlagType

\* One message of a server.
LEMMA RecvDisk ==
  ASSUME Sizes, Disk \notin Cams, DiskInv, NEW s \in Nvrs, RecvPmsgCtrl(s), NEW n \in Nvrs
  PROVE  DiskOK(n)'
<1> DEFINE m == Head(queue[s])
<1>1. /\ queue[s] # <<>> /\ queue' = [queue EXCEPT ![s] = Tail(@)]
      /\ UNCHANGED <<connected, asked>>
  BY Zenon DEF RecvPmsgCtrl
<1>2. m \in Messages /\ FlagType
  BY <1>1 DEF DiskInv, IInv, LinkType, PageOK, AlarmType
<1>3. CASE m.type = "NVR_STATUS"
  <2>1. m.disk \in BOOLEAN /\ NvrStatus(s, m.disk)
    BY <1>2, <1>3 DEF Messages, RecvPmsgCtrl
  <2> HIDE DEF m
  <2>2. Head(queue[s]).type = "NVR_STATUS"
    BY <1>3 DEF m
  <2> QED
    BY <1>1, <2>1, <2>2, NvrStatusDisk, Zenon
<1>4. CASE m.type = "IPC_STATUS"
  <2>1. IpcStatus(<<s, m.cam>>, m.online)
    BY <1>2, <1>4 DEF Messages, RecvPmsgCtrl
  <2>2. UNCHANGED <<m_aiNvrOnlineFlag, storageText, check, iErrFlag>>
    BY <2>1 DEF IpcStatus, alarm
  <2> QED
    BY <1>1, <2>2, OtherDisk, Zenon
<1>5. CASE m.type = "VIDEO_ALARM"
  <2>1. m.cam \in Cams /\ VideoAlarm(<<s, m.cam>>, m.alarm)
    BY <1>2, <1>5 DEF Messages, RecvPmsgCtrl
  <2> HIDE DEF m
  <2>2. /\ UNCHANGED <<m_aiNvrOnlineFlag, storageText, check>>
        /\ \/ AlarmCleared(<<s, m.cam>>) \/ UNCHANGED alarm
           \/ AlarmHappens(<<s, m.cam>>, m.alarm)
    BY <2>1, Zenon DEF VideoAlarm
  <2>3. \A t \in Nvrs : iErrFlag'[<<t, Disk>>] = iErrFlag[<<t, Disk>>]
    BY <1>2, <2>1, <2>2, CameraDisk, Zenon
  <2> QED
    BY <1>1, <2>2, <2>3, OtherDisk, Zenon
<1> QED
  BY <1>2, <1>3, <1>4, <1>5 DEF Messages

\* A server found lost starts both counts again, with the grace period longer
\* than what it can have left behind.
LEMMA GetDevStateDisk ==
  ASSUME Sizes, MaxQueue < Grace, DiskInv, NEW s \in Nvrs, GetDevState(s), NEW n \in Nvrs
  PROVE  DiskOK(n)'
<1>1. DiskOK(n) /\ LinkType /\ DeviceType /\ CheckType /\ FlagType
  BY Zenon DEF DiskInv, IInv, PageOK, AlarmType
<1>2. CASE SeenOnline(s)
  <2>1. /\ connected[s] /\ asked' = [asked EXCEPT ![s] = TRUE]
        /\ m_aiNvrOnlineFlag' = [m_aiNvrOnlineFlag EXCEPT ![s] = 1]
        /\ UNCHANGED <<connected, queue, storageText, check, iErrFlag>>
    BY <1>2 DEF SeenOnline, alarm
  <2>2. CASE n = s
    <3>1. m_aiNvrOnlineFlag'[n] = 1
      BY <1>1, <2>1, <2>2, Zenon DEF DeviceType
    <3>2. m_aiNvrOnlineFlag'[n] # 0
      BY <3>1
    <3> QED
      BY <1>1, <2>1, <2>2, <3>2, Zenon DEF DiskOK
  <2>3. CASE n # s
    <3>1. asked'[n] = asked[n] /\ m_aiNvrOnlineFlag'[n] = m_aiNvrOnlineFlag[n]
      BY <1>1, <2>1, <2>3, Zenon DEF LinkType, DeviceType
    <3> QED
      BY <1>1, <2>1, <3>1, SameDisk, Zenon
  <2> QED
    BY <2>2, <2>3
<1>3. CASE SeenOffline(s)
  <2>1. /\ ~connected[s] /\ UNCHANGED <<connected, queue, asked>>
        /\ storageText' = [storageText EXCEPT ![s] = ""]
        /\ m_aiNvrOnlineFlag' = [m_aiNvrOnlineFlag EXCEPT ![s] = 0]
    BY <1>3 DEF SeenOffline, link
  <2>2. CASE m_aiNvrOnlineFlag[s] = 1
    <3>1. RestartCheck(s) /\ ServerOffline(s)
      BY <1>3, <2>2, Zenon DEF SeenOffline
    <3>2. ASSUME NEW p \in Pages, NEW t \in Nvrs
          PROVE  check'[p][t] = IF t = s THEN NotChecked ELSE check[p][t]
      BY <1>1, <3>1, Zenon DEF RestartCheck, CheckType
    <3>3. "menu" \in Pages /\ "devManage" \in Pages
      BY DEF Pages
    <3>4. iErrFlag'[<<n, Disk>>] = IF n = s THEN "none" ELSE iErrFlag[<<n, Disk>>]
      BY <3>1 DEF ServerOffline, Sources
    <3>5. CASE n = s
      <4>1. check'["menu"][n] = NotChecked /\ check'["devManage"][n] = NotChecked
        BY <3>2, <3>3, <3>5, Zenon
      <4>2. queue[n] \in Seq(Messages) /\ Len(queue[n]) \in Nat /\ Len(queue[n]) <= MaxQueue
        BY <1>1 DEF LinkType
      <4>3. \A i \in 1..Len(queue'[n]) : queue'[n][i].type = "NVR_STATUS" => i <= Len(queue[n])
        <5>1. \A i \in 1..Len(queue[n]) : i <= Len(queue[n])
          BY <4>2
        <5> QED
          BY <2>1, <5>1, Zenon
      <4>4. Waiting(n, Len(queue[n]))'
        BY <2>1, <4>3, Zenon DEF Waiting
      <4>5. NotChecked.num + Len(queue[n]) < Grace /\ NotChecked.flag = 0
        BY <4>2 DEF NotChecked, Sizes
      <4>6. \E k \in Nat : check'["menu"][n].num + k < Grace /\ Waiting(n, k)'
        <5>1. \A i \in 1..Len(queue'[n]) :
                 queue'[n][i].type = "NVR_STATUS" => i <= Len(queue[n])
          BY <4>3
        <5>2. check'["menu"][n].num + Len(queue[n]) < Grace
          BY <4>1, <4>5
        <5> QED
          BY <4>2, <5>1, <5>2, Zenon DEF Waiting
      <4>7. ~asked'[n]
        BY <1>1, <2>1, <3>5, Zenon DEF DiskOK
      <4>8. iErrFlag'[<<n, Disk>>] = "none" /\ "none" # "err"
        BY <3>4, <3>5
      <4>9. Away(n)'
        BY <4>1, <4>5, <4>6, <4>7, <4>8, Zenon DEF Away
      <4> QED
        BY <4>1, <4>7, <4>8, <4>9, Zenon DEF DiskOK
    <3>6. CASE n # s
      <4>1. /\ check'["menu"][n] = check["menu"][n]
            /\ check'["devManage"][n] = check["devManage"][n]
        BY <3>2, <3>3, <3>6, Zenon
      <4>2. /\ iErrFlag'[<<n, Disk>>] = iErrFlag[<<n, Disk>>]
            /\ storageText'[n] = storageText[n]
            /\ m_aiNvrOnlineFlag'[n] = m_aiNvrOnlineFlag[n]
        BY <1>1, <2>1, <3>4, <3>6, Zenon DEF DeviceType
      <4> QED
        BY <1>1, <2>1, <4>1, <4>2, SameDisk, Zenon
    <3> QED
      BY <3>5, <3>6
  <2>3. CASE m_aiNvrOnlineFlag[s] # 1
    <3>1. UNCHANGED <<check, iErrFlag>> /\ m_aiNvrOnlineFlag[s] = 0
      BY <1>1, <1>3, <2>3 DEF SeenOffline, alarm, DeviceType
    <3>2. CASE n = s
      <4>1. Away(n) /\ \A k \in Nat : Waiting(n, k) => Waiting(n, k)'
        BY <1>1, <2>1, <3>1, <3>2, Zenon DEF DiskOK, Waiting
      <4>2. Away(n)'
        BY <2>1, <3>1, <4>1, Zenon DEF Away
      <4>3. iErrFlag'[<<n, Disk>>] # "err"
        BY <3>1, <4>1 DEF Away
      <4> QED
        BY <1>1, <2>1, <3>1, <4>2, <4>3, Zenon DEF DiskOK
    <3>3. CASE n # s
      <4>1. /\ storageText'[n] = storageText[n]
            /\ m_aiNvrOnlineFlag'[n] = m_aiNvrOnlineFlag[n]
        BY <1>1, <2>1, <3>3, Zenon DEF DeviceType
      <4> QED
        BY <1>1, <2>1, <3>1, <4>1, SameDisk, Zenon
    <3> QED
      BY <3>2, <3>3
  <2> QED
    BY <2>2, <2>3
<1> QED
  BY <1>2, <1>3 DEF GetDevState

\* The alarm page and the device page agree about a disk, for any servers,
\* when fewer messages of a server can wait than the grace period counts:
\* otherwise what waits of a server shown off line ends the grace period on
\* both pages, and the next look at the server empties the storage table only
\* (pvmsmenuwidget.cpp 262-283, devmanagewidget.cpp 350-384, 552-602).
THEOREM DiskCorrect ==
  ASSUME Sizes, MaxQueue < Grace, Disk \notin Cams
  PROVE  DevSpec => []DiskPagesAgree
<1>1. DevInit => DiskInv
  <2> SUFFICES ASSUME DevInit, NEW n \in Nvrs PROVE DiskOK(n)
    BY InitOK, Zenon DEF DiskInv
  <2>1. /\ check = [p \in Pages |-> [s \in Nvrs |-> NotChecked]]
        /\ "menu" \in Pages /\ "devManage" \in Pages
    BY DEF DevInit, Pages
  <2>2. check["menu"][n] = NotChecked /\ check["devManage"][n] = NotChecked
    BY <2>1, Zenon
  <2>3. NotChecked.flag = 0 /\ NotChecked.num + 0 < Grace
    BY DEF NotChecked, Sizes
  <2>4. queue[n] = <<>> /\ ~asked[n]
    BY Zenon DEF DevInit
  <2>5. Waiting(n, 0)
    BY <2>4 DEF Waiting
  <2>6. <<n, Disk>> \in Sources
    BY Zenon DEF Sources
  <2>7. iErrFlag[<<n, Disk>>] = "none" /\ "none" # "err"
    BY <2>6 DEF DevInit
  <2>8. \E k \in Nat : check["menu"][n].num + k < Grace /\ Waiting(n, k)
    BY <2>2, <2>3, <2>5
  <2>9. Away(n)
    BY <2>2, <2>3, <2>4, <2>7, <2>8, Zenon DEF Away
  <2> QED
    BY <2>2, <2>4, <2>7, <2>9, Zenon DEF DiskOK
<1>2. DiskInv /\ [DevNext]_devVars => DiskInv'
  <2> SUFFICES ASSUME DiskInv, [DevNext]_devVars, NEW n \in Nvrs PROVE DiskOK(n)'
    BY Step, Zenon DEF DiskInv
  <2>1. DiskOK(n)
    BY Zenon DEF DiskInv
  <2>2. CASE Link
    BY <2>2, LinkDisk
  <2>3. CASE Device
    BY <2>3, RecvDisk, GetDevStateDisk DEF Device
  <2>4. CASE Operator
    <3>1. /\ UNCHANGED <<link, device, check>>
          /\ iErrFlag' = [d \in Sources |-> "none"] \/ UNCHANGED iErrFlag
      BY <2>4, Zenon DEF Operator, ClearAll, AlarmPageShow
    <3>2. UNCHANGED <<connected, queue, asked, m_aiNvrOnlineFlag, storageText, check>>
      BY <3>1 DEF link, device
    <3>3. \/ iErrFlag'[<<n, Disk>>] = iErrFlag[<<n, Disk>>]
          \/ iErrFlag'[<<n, Disk>>] = "none"
      BY <3>1 DEF Sources
    <3> QED
      BY <2>1, <3>2, <3>3, SameDisk, Zenon
  <2>5. CASE UNCHANGED devVars
    <3>1. UNCHANGED <<connected, queue, asked, m_aiNvrOnlineFlag, storageText, check, iErrFlag>>
      BY <2>5 DEF devVars, link, device, alarm
    <3> QED
      BY <2>1, <3>1, SameDisk, Zenon
  <2> QED
    BY <2>2, <2>3, <2>4, <2>5 DEF DevNext
<1>3. DiskInv => DiskPagesAgree
  BY Zenon DEF DiskInv, DiskOK, DiskPagesAgree
<1> QED
  BY <1>1, <1>2, <1>3, PTL DEF DevSpec
=============================================================================
