--------------------------- MODULE VideoChannels ----------------------------
(***************************************************************************)
(* Which camera streams are open (pvmsmonitorwidget.cpp).  The UI thread   *)
(* decides in videoChannelCtrl by iCmpOpenFlag and queues commands;        *)
(* monitorThread takes one command each time round its loop and has the UI *)
(* thread execute it (Qt::BlockingQueuedConnection), and only then does    *)
(* iCmpOpenFlag change.  Starting a playback closes all channels.          *)
(*                                                                         *)
(* One login and one monitorThread.  A turn of the cameras is one step     *)
(* here; CameraPolling takes it apart.  A button press is seen by the loop *)
(* before the operator has changed the page.                               *)
(***************************************************************************)
EXTENDS Integers, Sequences, SequencesExt

CONSTANTS
  N,         \* cameras of the train
  MaxQueue   \* bound: commands waiting when the operator acts

CameraNos == 0..N-1
Next1(i) == IF i = N - 1 THEN 0 ELSE i + 1
Last1(i) == IF i = 0 THEN N - 1 ELSE i - 1
None == -1

VARIABLES
  m_ptQueue,        \* commands, oldest first
  tCmpPkt,          \* the one monitorThread has taken
  monPc,            \* where monitorThread is in its loop
  videoPlayNo,      \* m_iCameraPlayNo
  iCmpOpenFlag,
  player,           \* the medium the one QMediaPlayer of the page plays
  m_iRecordPlayFlag, m_iOldRecordPlayFlag,
  recordPlayCtrl,   \* queued signals recordPlayCtrlSignal
  page              \* the page on display

flags == <<m_iRecordPlayFlag, m_iOldRecordPlayFlag>>
channels == <<iCmpOpenFlag, player>>
videoVars == <<m_ptQueue, tCmpPkt, monPc, videoPlayNo, channels, flags,
               recordPlayCtrl, page>>

\* ENABLE and DISABLE: cmpOptionCtrlSlot has no branch for them.
Ignored == [cmd |-> "IGNORED", ch |-> None]
Create(i) == [cmd |-> "CREATE", ch |-> i]
Destroy(i) == [cmd |-> "DESTROY", ch |-> i]
Commands == {Ignored} \cup [cmd : {"CREATE", "DESTROY"}, ch : CameraNos]

VideoTypeOK ==
  /\ m_ptQueue \in Seq(Commands) /\ tCmpPkt \in Commands
  /\ monPc \in {"get", "option", "poll", "polling", "record", "old"}
  /\ videoPlayNo \in CameraNos
  /\ iCmpOpenFlag \in [CameraNos -> {0, 1}] /\ player \in CameraNos \cup {None}
  /\ {m_iRecordPlayFlag, m_iOldRecordPlayFlag} \subseteq {0, 1}
  /\ recordPlayCtrl \in 0..2 /\ page \in {"monitor", "record", "other"}

ForEach(f(_)) == [k \in 1..N |-> f(k - 1)]
IgnoredAll == ForEach(LAMBDA i : Ignored)

VideoInit ==
  /\ m_ptQueue = ForEach(Create) \o IgnoredAll
  /\ tCmpPkt = Ignored /\ monPc = "get" /\ videoPlayNo = 0
  /\ iCmpOpenFlag = [i \in CameraNos |-> 0] /\ player = None
  /\ m_iRecordPlayFlag = 0 /\ m_iOldRecordPlayFlag = 0
  /\ recordPlayCtrl = 0 /\ page = "monitor"

-----------------------------------------------------------------------------
(* videoChannelCtrl: the commands it queues, camera by camera.             *)

Window == {videoPlayNo, Next1(videoPlayNo), Last1(videoPlayNo)}
Open(i) == iCmpOpenFlag[i] = 1

ChannelCommand(i) ==
  CASE m_iRecordPlayFlag = 1 /\ i = videoPlayNo ->
         <<IF Open(i) THEN Ignored ELSE Create(i)>>
    [] m_iRecordPlayFlag = 1 /\ i # videoPlayNo /\ Open(i) -> <<Destroy(i)>>
    [] m_iRecordPlayFlag = 0 /\ i \in Window /\ ~Open(i) -> <<Create(i)>>
    [] m_iRecordPlayFlag = 0 /\ i \notin Window /\ Open(i) -> <<Destroy(i)>>
    [] OTHER -> <<>>

Queue(commands) == m_ptQueue' = m_ptQueue \o commands
\* Mutant: the decision is made, the commands are not queued.
VideoChannelCtrlNone == UNCHANGED m_ptQueue
VideoChannelCtrl == Queue(FlattenSeq(ForEach(ChannelCommand)))

-----------------------------------------------------------------------------
(* monitorThread, once round its loop.                                     *)

GetNodeFromCmpQueue ==
  /\ monPc = "get"
  /\ \/ /\ m_ptQueue # <<>> /\ monPc' = "option"
        /\ tCmpPkt' = Head(m_ptQueue) /\ m_ptQueue' = Tail(m_ptQueue)
     \/ /\ m_ptQueue = <<>> /\ monPc' = "poll" /\ UNCHANGED <<m_ptQueue, tCmpPkt>>
  /\ UNCHANGED <<videoPlayNo, channels, flags, recordPlayCtrl, page>>

SwitchTo(i) ==
  /\ monPc = "poll" /\ monPc' = "polling"
  /\ videoPlayNo' = i
  /\ UNCHANGED <<m_ptQueue, tCmpPkt, channels, flags, recordPlayCtrl, page>>

\* The polling time is in seconds, the queue is emptied in 50 ms steps.
TimedPoll ==
  /\ page = "monitor" /\ m_ptQueue = <<>> /\ recordPlayCtrl = 0
  /\ SwitchTo(Next1(videoPlayNo))

ManualSwitch ==
  /\ page = "monitor" /\ Len(m_ptQueue) <= MaxQueue
  /\ SwitchTo(Next1(videoPlayNo)) \/ SwitchTo(Last1(videoPlayNo))

NoSwitch ==
  /\ monPc = "poll" /\ monPc' = "record"
  /\ UNCHANGED <<m_ptQueue, tCmpPkt, videoPlayNo, channels, flags, recordPlayCtrl, page>>

CheckRecordPlayFlag ==
  /\ monPc = "record"
  /\ \/ /\ m_iOldRecordPlayFlag # m_iRecordPlayFlag
        /\ recordPlayCtrl' = recordPlayCtrl + 1 /\ monPc' = "old"
     \/ /\ m_iOldRecordPlayFlag = m_iRecordPlayFlag
        /\ monPc' = "get" /\ UNCHANGED recordPlayCtrl
  /\ UNCHANGED <<m_ptQueue, tCmpPkt, videoPlayNo, channels, flags, page>>

\* The flag is read a second time; it may have changed.
SaveRecordPlayFlag ==
  /\ monPc = "old" /\ monPc' = "get"
  /\ m_iOldRecordPlayFlag' = m_iRecordPlayFlag
  /\ UNCHANGED <<m_ptQueue, tCmpPkt, videoPlayNo, channels, m_iRecordPlayFlag,
                 recordPlayCtrl, page>>

-----------------------------------------------------------------------------
(* The UI thread, one slot per step.  All signals come from monitorThread  *)
(* and are handled in the order it sent them.                              *)

CmpOptionCtrlSlot ==
  /\ monPc = "option" /\ recordPlayCtrl = 0 /\ monPc' = "poll"
  /\ LET i == tCmpPkt.ch IN
     CASE tCmpPkt.cmd = "CREATE" ->
            iCmpOpenFlag' = [iCmpOpenFlag EXCEPT ![i] = 1] /\ player' = i
       [] tCmpPkt.cmd = "DESTROY" ->
            iCmpOpenFlag' = [iCmpOpenFlag EXCEPT ![i] = 0] /\ player' = None
       [] OTHER -> UNCHANGED channels
  /\ tCmpPkt' = Ignored   \* reset at the top of the loop
  /\ UNCHANGED <<m_ptQueue, videoPlayNo, flags, recordPlayCtrl, page>>

VideoPollingSignalCtrlSlot ==
  /\ monPc = "polling" /\ recordPlayCtrl = 0 /\ monPc' = "record"
  /\ VideoChannelCtrl
  /\ UNCHANGED <<tCmpPkt, videoPlayNo, channels, flags, recordPlayCtrl, page>>

RecordPlayCtrlSlot ==
  /\ recordPlayCtrl > 0 /\ recordPlayCtrl' = recordPlayCtrl - 1
  /\ VideoChannelCtrl
  /\ UNCHANGED <<tCmpPkt, monPc, videoPlayNo, channels, flags, page>>

\* Mutant: only the channel on display is closed.
CloseAllCurrentOnly == Queue(<<Destroy(videoPlayNo)>>)
CloseAll == Queue(ForEach(Destroy))

\* The event loop handles signals before it looks for input: one that is
\* sent meanwhile waits.
Input == Len(m_ptQueue) <= MaxQueue /\ recordPlayCtrl <= 1

SetRecordPlayFlag(f) ==
  /\ Input
  /\ m_iRecordPlayFlag' = f
  /\ IF f = 1 THEN CloseAll ELSE UNCHANGED m_ptQueue
  /\ UNCHANGED <<tCmpPkt, monPc, videoPlayNo, channels, m_iOldRecordPlayFlag,
                 recordPlayCtrl, page>>

PlayRecord == page = "record" /\ SetRecordPlayFlag(1)
StopRecord == page = "record" /\ SetRecordPlayFlag(0)

\* menuButtonClick: every page but the one of the recordings ends a playback
\* (closePlayWin), and enableVideoPlay queues a command for each camera.
MenuButtonClick(p) ==
  /\ Input
  /\ page' = p
  /\ m_iRecordPlayFlag' = IF p = "record" THEN m_iRecordPlayFlag ELSE 0
  /\ Queue(IgnoredAll)
  /\ UNCHANGED <<tCmpPkt, monPc, videoPlayNo, channels, m_iOldRecordPlayFlag,
                 recordPlayCtrl>>

Monitor ==
  GetNodeFromCmpQueue \/ NoSwitch \/ CheckRecordPlayFlag \/ SaveRecordPlayFlag
Slot == CmpOptionCtrlSlot \/ VideoPollingSignalCtrlSlot \/ RecordPlayCtrlSlot
VideoOperator ==
  \/ PlayRecord \/ StopRecord
  \/ \E p \in {"monitor", "record", "other"} : MenuButtonClick(p)

VideoNext == Monitor \/ TimedPoll \/ ManualSwitch \/ Slot \/ VideoOperator

\* Both threads run; a queued signal is handled although others come first.
VideoFairness ==
  /\ WF_videoVars(Monitor)
  /\ WF_videoVars(CmpOptionCtrlSlot) /\ WF_videoVars(VideoPollingSignalCtrlSlot)
  /\ WF_videoVars(RecordPlayCtrlSlot)

VideoSpec == VideoInit /\ [][VideoNext]_videoVars
VideoFairSpec == VideoSpec /\ VideoFairness
-----------------------------------------------------------------------------
(* Properties.                                                             *)

Pending(i) ==
  \E c \in {tCmpPkt} \cup {m_ptQueue[k] : k \in DOMAIN m_ptQueue} : c.ch = i

\* While a recording is played no channel but the current one is open once
\* the commands for it have been executed, whatever had been queued before
\* the playback began (1251-1259, 1603-1634).
PlaybackClosesOthers ==
  m_iRecordPlayFlag = 1 =>
    \A i \in CameraNos : Open(i) /\ ~Pending(i) => i = videoPlayNo

\* However pages, playbacks and presses were mixed, and whichever of them
\* monitorThread missed: once the operator leaves the page polling, the
\* stream of the camera on display is open for good (1589, 1636-1651).
PollingRestores ==
  /\ <>[](m_iRecordPlayFlag = 0)
  /\ <>[][UNCHANGED videoPlayNo \/ TimedPoll]_videoVars
  /\ []<><<TimedPoll>>_videoVars
  => <>[](Open(videoPlayNo))
=============================================================================
