------------------------------ MODULE DevAlarms -----------------------------
(***************************************************************************)
(* What the operator is told of the servers and cameras: the device page   *)
(* (devmanagewidget.cpp), the alarm page (alarmwidget.cpp) and the         *)
(* flashing alarm buttons.  Messages of a server wait in the queue of its  *)
(* connection, which outlives the connection; pmsgTimerFunc hands them     *)
(* one by one to recvPmsgCtrl; every ten seconds getDevStateSignalCtrl     *)
(* looks whether the server is connected.                                  *)
(*                                                                         *)
(* Both pages exist, as they do after the first login.  A tick of          *)
(* pmsgTimerFunc is one step for each server it finds a message of: what   *)
(* could come in between can come before or after as well.                 *)
(***************************************************************************)
EXTENDS Integers, Sequences

CONSTANTS
  Nvrs,          \* servers
  Cams,          \* camera positions of each
  Grace,         \* 18: status messages before the disk is looked at
  MAX_ITEM_NUM,  \* 50: rows of the alarm table
  Dropped,       \* 20: rows given up when it is full
  MaxQueue       \* bound: messages waiting of one server

Disk == 0
Sources == Nvrs \X (Cams \cup {Disk})

VARIABLES
  connected,            \* PMSG_GetConnectStatus
  queue,                \* messages received and not yet handled
  asked,                \* the server owes an answer to GET_NVR_STATUS
  m_aiNvrOnlineFlag,
  m_aiCameraOnlineFlag,
  videoText,            \* device table, alarm column of each camera
  storageText,          \* storage table, state column of each server
  check,                \* disk check of the two pages: [flag, num]
  iErrFlag,             \* iVideoErrFlag and iDiskErrFlag of the alarm page
  rows,                 \* alarm table
  flashing              \* alarm timers of the pages

link == <<connected, queue, asked>>
device == <<m_aiNvrOnlineFlag, m_aiCameraOnlineFlag, videoText, storageText>>
alarm == <<iErrFlag, rows, flashing>>
devVars == <<link, device, check, alarm>>

VideoAlarms == {"shade", "lost"}
Messages ==
  [type : {"NVR_STATUS"}, disk : BOOLEAN]
    \cup [type : {"IPC_STATUS"}, cam : Cams, online : {0, 1}]
    \cup [type : {"VIDEO_ALARM"}, cam : Cams, alarm : VideoAlarms \cup {"none"}]
Rows == [src : Sources, alarm : VideoAlarms \cup {"err"}, clear : BOOLEAN]
Pages == {"menu", "devManage"}
NotChecked == [flag |-> 0, num |-> 0]

DevTypeOK ==
  /\ connected \in [Nvrs -> BOOLEAN] /\ asked \in [Nvrs -> BOOLEAN]
  /\ queue \in [Nvrs -> Seq(Messages)] /\ \A s \in Nvrs : Len(queue[s]) <= MaxQueue
  /\ m_aiNvrOnlineFlag \in [Nvrs -> {0, 1}]
  /\ m_aiCameraOnlineFlag \in [Nvrs \X Cams -> {0, 1}]
  /\ videoText \in [Nvrs \X Cams -> VideoAlarms \cup {"none"}]
  /\ storageText \in [Nvrs -> {"", "normal", "error"}]
  /\ check \in [Pages -> [Nvrs -> [flag : {0, 1}, num : 0..Grace - 1]]]
  /\ iErrFlag \in [Sources -> VideoAlarms \cup {"none", "err"}]
  /\ rows \in Seq(Rows) /\ Len(rows) <= MAX_ITEM_NUM
  /\ flashing \in BOOLEAN

DevInit ==
  /\ connected = [s \in Nvrs |-> FALSE] /\ queue = [s \in Nvrs |-> <<>>]
  /\ asked = [s \in Nvrs |-> FALSE]
  /\ m_aiNvrOnlineFlag = [s \in Nvrs |-> 0]
  /\ m_aiCameraOnlineFlag = [d \in Nvrs \X Cams |-> 0]
  /\ videoText = [d \in Nvrs \X Cams |-> "none"]
  /\ storageText = [s \in Nvrs |-> ""]
  /\ check = [p \in Pages |-> [s \in Nvrs |-> NotChecked]]
  /\ iErrFlag = [d \in Sources |-> "none"]
  /\ rows = <<>> /\ flashing = FALSE

-----------------------------------------------------------------------------
(* The connection (PmsgClient): it keeps the queue when it is lost.        *)

Connect(s) ==
  /\ ~connected[s] /\ connected' = [connected EXCEPT ![s] = TRUE]
  /\ UNCHANGED <<queue, asked, device, check, alarm>>

Disconnect(s) ==
  /\ connected[s] /\ connected' = [connected EXCEPT ![s] = FALSE]
  /\ asked' = [asked EXCEPT ![s] = FALSE]
  /\ UNCHANGED <<queue, device, check, alarm>>

Receive(s) ==
  /\ connected[s] /\ Len(queue[s]) < MaxQueue
  /\ \E m \in Messages :
       /\ m.type = "NVR_STATUS" => asked[s]
       /\ asked' = [asked EXCEPT ![s] = @ /\ m.type # "NVR_STATUS"]
       /\ queue' = [queue EXCEPT ![s] = Append(@, m)]
  /\ UNCHANGED <<connected, device, check, alarm>>

-----------------------------------------------------------------------------
(* The alarm page.  Flags on entry are iErrFlag, on exit `flags`.          *)

Compact(table) ==
  IF Len(table) = MAX_ITEM_NUM THEN SubSeq(table, Dropped + 1, MAX_ITEM_NUM) ELSE table
AddRow(d, a, clear) ==
  rows' = Append(Compact(rows), [src |-> d, alarm |-> a, clear |-> clear])

StopIfAllClear(flags) ==
  flashing' = (flashing /\ \E d \in Sources : flags[d] # "none")

AlarmCleared(d) ==
  LET flags == [iErrFlag EXCEPT ![d] = "none"] IN
  /\ iErrFlag' = flags
  /\ IF iErrFlag[d] = "none" THEN UNCHANGED rows ELSE AddRow(d, iErrFlag[d], TRUE)
  /\ StopIfAllClear(flags)

\* Mutant: a later alarm replaces the first.
AlarmReplaces(d, a) ==
  /\ iErrFlag' = [iErrFlag EXCEPT ![d] = a]
  /\ IF iErrFlag[d] = "none" THEN AddRow(d, a, FALSE) /\ flashing' = TRUE
                             ELSE UNCHANGED <<rows, flashing>>
AlarmHappens(d, a) ==
  IF iErrFlag[d] = "none"
  THEN /\ iErrFlag' = [iErrFlag EXCEPT ![d] = a]
       /\ AddRow(d, a, FALSE) /\ flashing' = TRUE
  ELSE UNCHANGED alarm

\* Mutant: the buttons go on flashing.
ServerOfflineFlashing(s) ==
  /\ iErrFlag' = [d \in Sources |-> IF d[1] = s THEN "none" ELSE iErrFlag[d]]
  /\ UNCHANGED <<rows, flashing>>
ServerOffline(s) ==
  LET flags == [d \in Sources |-> IF d[1] = s THEN "none" ELSE iErrFlag[d]] IN
  iErrFlag' = flags /\ UNCHANGED rows /\ StopIfAllClear(flags)

ClearAll ==
  /\ iErrFlag' = [d \in Sources |-> "none"] /\ rows' = <<>> /\ flashing' = FALSE
  /\ UNCHANGED <<link, device, check>>

\* The operator has seen the alarms, they need not be over.
AlarmPageShow ==
  /\ flashing' = FALSE /\ UNCHANGED <<link, device, check, iErrFlag, rows>>

-----------------------------------------------------------------------------
(* recvPmsgCtrl.  The device page comes first and keeps a count of its own. *)

Counted(c) ==
  CASE c.flag = 1 -> c
    [] c.flag = 0 /\ c.num + 1 = Grace -> [flag |-> 1, num |-> 0]
    [] OTHER -> [c EXCEPT !.num = @ + 1]

CountStatus(s) == check' = [p \in Pages |-> [check[p] EXCEPT ![s] = Counted(@)]]

StorageState(s, disk) ==
  CASE disk -> "normal"
    [] ~disk /\ check'["devManage"][s].flag = 1 -> "error"
    [] OTHER -> storageText[s]

\* In the grace period a missing disk is passed on as type 0, which no
\* camera at position 0 answers to: only the last look at the flags remains.
NvrStatus(s, disk) ==
  /\ CountStatus(s)
  /\ storageText' = [storageText EXCEPT ![s] = StorageState(s, disk)]
  /\ UNCHANGED <<m_aiNvrOnlineFlag, m_aiCameraOnlineFlag, videoText>>
  /\ CASE disk -> AlarmCleared(<<s, Disk>>)
       [] ~disk /\ check'["menu"][s].flag = 1 -> AlarmHappens(<<s, Disk>>, "err")
       [] OTHER -> StopIfAllClear(iErrFlag) /\ UNCHANGED <<iErrFlag, rows>>

IpcStatus(d, online) ==
  /\ m_aiCameraOnlineFlag' = [m_aiCameraOnlineFlag EXCEPT ![d] = online]
  /\ videoText' = [videoText EXCEPT ![d] = IF online = 1 THEN @ ELSE "none"]
  /\ UNCHANGED <<m_aiNvrOnlineFlag, storageText, check, alarm>>

VideoText(d, a) ==
  videoText' = [videoText EXCEPT ![d] = IF m_aiCameraOnlineFlag[d] = 1 THEN a ELSE "none"]

\* A setting says whether alarms for a covered lens are wanted; the file it
\* is in may not be readable.
VideoAlarm(d, a) ==
  /\ VideoText(d, a)
  /\ UNCHANGED <<m_aiNvrOnlineFlag, m_aiCameraOnlineFlag, storageText, check>>
  /\ \E enabled \in BOOLEAN :
       CASE a = "none" -> AlarmCleared(d)
         [] a = "shade" /\ ~enabled -> UNCHANGED alarm
         [] OTHER -> AlarmHappens(d, a)

RecvPmsgCtrl(s) ==
  /\ queue[s] # <<>>
  /\ queue' = [queue EXCEPT ![s] = Tail(@)] /\ UNCHANGED <<connected, asked>>
  /\ LET m == Head(queue[s]) IN
     CASE m.type = "NVR_STATUS" -> NvrStatus(s, m.disk)
       [] m.type = "IPC_STATUS" -> IpcStatus(<<s, m.cam>>, m.online)
       [] m.type = "VIDEO_ALARM" -> VideoAlarm(<<s, m.cam>>, m.alarm)

-----------------------------------------------------------------------------
(* getDevStateSignalCtrl, every ten seconds.                               *)

SeenOnline(s) ==
  /\ connected[s] /\ m_aiNvrOnlineFlag' = [m_aiNvrOnlineFlag EXCEPT ![s] = 1]
  /\ asked' = [asked EXCEPT ![s] = TRUE]
  /\ UNCHANGED <<connected, queue, m_aiCameraOnlineFlag, videoText, storageText, check, alarm>>

\* Mutant: the cameras are put off line only when the server has just gone.
CamerasOffOnce(s) ==
  IF m_aiNvrOnlineFlag[s] = 1
  THEN m_aiCameraOnlineFlag' =
         [d \in Nvrs \X Cams |-> IF d[1] = s THEN 0 ELSE m_aiCameraOnlineFlag[d]]
  ELSE UNCHANGED m_aiCameraOnlineFlag
CamerasOff(s) ==
  m_aiCameraOnlineFlag' =
    [d \in Nvrs \X Cams |-> IF d[1] = s THEN 0 ELSE m_aiCameraOnlineFlag[d]]

\* Mutant: the count of the menu goes on.
RestartDeviceOnly(s) == check' = [check EXCEPT !["devManage"][s] = NotChecked]
RestartCheck(s) == check' = [p \in Pages |-> [check[p] EXCEPT ![s] = NotChecked]]

SeenOffline(s) ==
  /\ ~connected[s] /\ UNCHANGED link
  /\ CamerasOff(s)
  /\ videoText' = [d \in Nvrs \X Cams |-> IF d[1] = s THEN "none" ELSE videoText[d]]
  /\ storageText' = [storageText EXCEPT ![s] = ""]
  /\ m_aiNvrOnlineFlag' = [m_aiNvrOnlineFlag EXCEPT ![s] = 0]
  /\ IF m_aiNvrOnlineFlag[s] = 1
     THEN RestartCheck(s) /\ ServerOffline(s)
     ELSE UNCHANGED <<check, alarm>>

GetDevState(s) == SeenOnline(s) \/ SeenOffline(s)

Link == \E s \in Nvrs : Connect(s) \/ Disconnect(s) \/ Receive(s)
Device == \E s \in Nvrs : RecvPmsgCtrl(s) \/ GetDevState(s)
Operator == ClearAll \/ AlarmPageShow

DevNext == Link \/ Device \/ Operator

\* Both timers run for good.
DevFairness == \A s \in Nvrs : WF_devVars(RecvPmsgCtrl(s)) /\ WF_devVars(GetDevState(s))
DevSpec == DevInit /\ [][DevNext]_devVars
DevFairSpec == DevSpec /\ DevFairness
-----------------------------------------------------------------------------
(* Properties.                                                             *)

\* The buttons never flash without an alarm: whichever way the last one
\* goes - cleared, its server lost, the list emptied - the flashing stops,
\* or full screen and black screen would stay locked out (251-265, 424-440).
FlashMeansAlarm == flashing => \E d \in Sources : iErrFlag[d] # "none"

\* The alarm page and the device page keep separate counts of the grace
\* period and must not tell different things: a disk alarm is on the alarm
\* page only while the storage table calls the disk faulty
\* (pvmsmenuwidget.cpp 262-283, devmanagewidget.cpp 350-384).
DiskPagesAgree == \A s \in Nvrs : iErrFlag[<<s, Disk>>] = "err" => storageText[s] = "error"

\* A row that ends an alarm names the alarm that the last row of the same
\* source began, also when rows are given up or a covered lens becomes a
\* lost picture (144-198).
ClearNamesItsAlarm ==
  \A k \in DOMAIN rows : rows[k].clear =>
    \A j \in 1..k-1 :
      (rows[j].src = rows[k].src /\ \A l \in j+1..k-1 : rows[l].src # rows[k].src)
        => ~rows[j].clear /\ rows[j].alarm = rows[k].alarm

\* A server that stays away is shown so for good, its cameras too, although
\* messages it had sent are handled after it was found lost (552-602).
OfflineShown ==
  \A s \in Nvrs : <>[](~connected[s]) =>
    <>[](m_aiNvrOnlineFlag[s] = 0 /\ storageText[s] = ""
         /\ \A c \in Cams : m_aiCameraOnlineFlag[<<s, c>>] = 0
                            /\ videoText[<<s, c>>] = "none")
=============================================================================
