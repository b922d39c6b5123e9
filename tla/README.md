# Verification of the PVMS client (train pantograph and carriage video)

The repository is a Qt/C++ program that runs on a touch screen in a train
cab. It shows the cameras of up to four network video recorders (NVR), polls
through them full time, turns camera fill lights on when the pantograph
moves, raises and lists alarms, and lets an operator query, play and download
recordings. This directory holds TLA+ models of it, the TLC configurations
that check them and the TLAPS proofs about them. Line numbers refer to files
of `src/`.

Where to start: section 3 says which module models what, section 4 what each
run shows, section 6 what is proved for every size of the system. Every
definition is tied to its lines of code in `PROJECT.json` ("map").

## 1. Inventory

Threads of the program: the UI thread (the Qt event loop with its timers), one
`CliProcessThread` per server, `Rs485ProcessThread`, `monitorThread` (camera
polling and player commands), `blackScreenMonitorThread`, the FTP transfer
thread and `slideValueSetThread` (the play-back slider).

| component | state it keeps | operations | interacts with |
|---|---|---|---|
| server connections, `pmsgcli.c` | per handle: socket, status, run flag, send mutex, packet queue | connect, receive and parse, heartbeat, close, send, destroy | UI thread sends and polls the queue; logs |
| packet queues, `pmsgcli.c` 107-252, `rs485serv.c`, `ftpApi.c` 66-203, `pvmsmonitorwidget.cpp` 43-186 | linked list with first, last, count, mutex | create, put, get, destroy | producer thread to consumer thread |
| serial link, `rs485serv.c` | receive buffer, idle time, queue | receive, frame, verify, destroy | UI 100 ms timer |
| log, `log.c` | file, record count, sync flag, mutex | init, write, rotate, sync | every thread |
| settings files, `fileConfig.cpp`, `state.cpp` | ini files, current train type, cached values | read, modify, delete, add and delete a train type | all pages |
| camera monitor, `pvmsmonitorwidget.cpp` | polling position, mode flags, player windows, command queue | polling, manual switch, PTZ, presets, alarms, full screen | monitor thread, UI slots |
| pantograph lights, `pvmsmonitorwidget.cpp` 1113-1198, 1915-2113, 2197-2376 | light state, manual flag, off timers | up, down, timer end, manual switch | NVR messages, sends |
| alarms, `pvmsmenuwidget.cpp`, `alarmwidget.cpp`, `devmanagewidget.cpp` | alarm list, per-device flags, grace counters | report, clear, off-line, confirm | NVR messages, page flashing |
| presets, `pvmsmonitorwidget.cpp` 861-1010, 1202-1240, 1388-1409 | preset of each camera, time of its last operation, password flag | pan and tilt, use, set, return after minutes | monitor thread, NVR |
| black screen, `MyApplication.cpp` | idle counter, black flag, alarm flag | idle, touch, alarm, clear | UI; its thread is not started |
| recordings, `recordplaywidget.cpp`, `ftpApi.c` | query list and timer, play position, FTP transfer | query, download, play, stop, step | NVR messages, FTP server, slider thread |
| device state, `devmanagewidget.cpp` | on-line table, per-camera state | 10 s poll, status messages | connections |
| users and sessions, `loginwidget.cpp`, `usermanage*.cpp` | sqlite users, current role | log in, log out, add, edit, delete | pages |

How they interact. Only the UI thread and the connection threads send
(`PMSG_SendPmsgData`). What a server reports travels from its connection
thread through a packet queue to `pmsgTimerFunc` (every 50 ms), which calls
`recvPmsgCtrl` and, through it, the pages. `monitorThread` never touches a
widget: it emits a signal connected with `Qt::BlockingQueuedConnection` and
sleeps until the UI thread has run the slot. The FTP thread posts queued
signals and is joined by the slot that handles its last one. The fields
`m_iCameraPlayNo`, `m_iPollingFlag`, `m_iCameraSwitchState` and the
`T_PMSG_CONN_INFO` of a handle are shared between threads without a lock; the
queues, the log and the send half of a handle have a mutex each.

What is hard, and what makes each part correct:

| component | hard behaviour | correct means |
|---|---|---|
| server connections | a socket closed by its thread while the UI is about to write to it, servers that exit or lose power, reconnects, SIGPIPE | no descriptor leaks or is closed by a stranger, a message reaches the server it is meant for, a dead server is noticed, a live one is found again, destroying a handle returns |
| packet queues | a producer and a consumer on the same node, a list that empties and refills | the mutex makes it a first-in first-out queue; nothing is leaked |
| log | killed half way through a rotation; error paths holding the mutex | the newest records survive, nobody waits for ever |
| pantograph lights | up during the ten minutes of a down, commands that fail, the operator's own switch | a lamp burns no longer than it should and not less while the pantograph is up, a lamp switched off by hand stays off, the record says what the lamp does |
| camera polling | two threads on `m_iCameraPlayNo`, several logins, page changes | a slot works on one camera, every camera has its turn, pause pauses |
| recording download | files that fail in the middle of several, signals of a download that is over | 100 means everything is there, the page is usable again after the end |
| video channels | decisions by flags that a queued command changes later | during a play-back the other streams are closed, afterwards the stream on display opens again |
| alarms, device state | counters that hold reports back, reconnects shorter than the polling period | an alarm is shown while it lasts and can be cleared |
| presets | a queued return that the operator forestalls, commands that fail | what is recorded is where the camera is, a camera left alone goes back |
| recording query and play-back | answers that come in pieces, late or to another query; a thread that looks at a play-back while it is replaced | a row is played as it is named, a play-back ends when it has ended |
| serial link | frames known only by the silence between them | nothing but sent frames is taken for one |
| settings | a crash during a copy, a getter that reads a file half copied | each setting reads as it was set, the cache says what the file says |

The full list of hazards, each at its line, is in `PROJECT.json`.

## 2. Plan

Written, in this order: `PmsgClient` (the connections, on which everything
rests) and its proofs, `PmsgStream` and `PktQueue` with the abstract `Fifo`,
`LogFile`, `PantographLight`, `CameraPolling`, `FtpDownload`; then
`VideoChannels`, `PresetReturn`, `DevAlarms`, `RecordQuery`, `RecordPlay`,
`Settings`, `Rs485Frames`; then the proofs about lights, polling, presets and
alarms, those about the queue with its refinement, the log, and the recordings
(`RecordingProofs`), and last those that need inductions over data: the settings,
the serial line and the receive parser.

Compositions: four modules put parts into one run each - `MCShared` what
threads share, `MCWorkers` the threads that work for the UI thread, `MCLive` the
connections and cameras that come back after a failure, `MCPages` the pages. Parts that share no modelled state are not multiplied: a variable
`part`, chosen at the start and never changed, says which of them moves, and the
others stand in one initial state (`Parked`). So a run explores the sum of their
states, and each property is about one part. The parts are EXTENDED, so that a
run and a theorem speak of the same definition; only `MCPages` takes
`CameraPolling` as an INSTANCE, for its names are those of `PantographLight`.
Elsewhere definitions and variables that two parts would both have carry a prefix
(`QInit`, `QueryNext`, `FtpTypeOK`, `DevSpec`, `PresetInit`, `StreamSpec`,
`serialSent`, `fileTmp`, `PlayInit`). What parts do share is inside one
module: the descriptors and the mutex of two connections in `PmsgClient`, the
field `m_iCameraPlayNo` of several monitor threads and the UI thread in
`CameraPolling`, the command queue, the flags and the pages in `VideoChannels`,
the two pages with their two counts of the same messages in `DevAlarms`, the
query button of query and download in `RecordQuery`.

Left, in this order:

| work | what for |
|---|---|
| an end-to-end statement over connection, parser, queue and dispatch | a report is handled at most once and in order per connection; as a product too large to explore, so by the abstract specifications of the parts |
| users and sessions | which role reaches which page; sequential, and of less weight than the rest |

## 3. Modules and code

**PmsgClient** (`pmsgcli.c` 64-105, 254-480, 502-659). State: the locals of each
`CliProcessThread` (`pc`, `iSocket`, `iHearCount`, `closeNext`), the
`T_PMSG_CONN_INFO` it shares (`iSockfd`, `iConnectStatus`, `iThreadRunFlag`,
`tPmsgMutex`), where the UI thread is (`uiPc`, `uiConn`, `sendFd`), and the
kernel (`fdTab`, `sock`, `server`, `killed`). A step is one access to state
another thread or the kernel sees, so that `close(iSocket)` and
`iSockfd = -1` are two steps, and loading `iSockfd` and calling `send` with it
are two steps. The thread is Connect (`OpenSocket`, `ConnectOk`, `ConnectFail`,
`PublishFd`, `PublishStatus`, `RetrySleep`), Poll (`PollData`, `PollTimeout`,
`PollFail`), Beat (`SkipBeat`, `BeginBeat`, `LockBeat`, `BeatOk`, `BeatFail`,
`CountPoll`, `HeartTimeout`), Close (`CloseSocket`, `ClearFd`, `ClearStatus`)
and Exit; the UI is `UiCheckStatus`, `UiLock`, `UiSend`, `UiDestroy`, `UiJoin`.
External: lowest free descriptor, what `send` returns in each state of the
socket (a first send to a reset peer succeeds, the next raises SIGPIPE), servers
that exit, vanish without a FIN and return, and files other code opens.

**PmsgStream** (`pmsgcli.c` 46-62, 327-422). `Parse` is the loop over the
received bytes with start flag, length test, checksum and the bytes left for
the next `recv`; `leave` survives a disconnect as `iPreLeaveLen` does, and
`Reconnect` empties only what belongs to the connection. `Parse`, `Ecc` and the
measures of the property (`FrameEnd`, `Reports`) are recursive functions, which
the proofs can follow; the exclusive or of two bytes is a constant operator, of
which they need only that it gives a byte.

**PktQueue, Fifo** (`pmsgcli.c` 107-252). The heap node by node, each pointer
assignment a step. `Fifo` is a sequence that grows at one end and shrinks at
the other; `PktQueue` implements it under the map that follows the list from
`ptFirst`.

**Rs485Frames** (`rs485serv.c` 336-542). `Read` takes any part of what is on the
line, `Quiet` is the 50 ms without a byte after which the buffer is looked at
(`IsFrame`). The buffer is never cleared, so old bytes stand behind a short
frame. Frames follow each other without a pause in `Send`, and `Arrives` is what
the line may leave of one.

**LogFile** (`log.c` 29-238). Log and `LOG_FILE_NAME~` as sequences of record
numbers; `Begin`, `Lock`, `AppendRecord`, `OpenTmp`, `Shorten`, `CopyOpen`,
`CopyBlock`, `CopyDone`, the failing opens, `Crash` and `Restart` (which is
`LOG_Init` counting what it finds).

**Settings** (`fileConfig.cpp` 29-188, `state.cpp` 195-262,
`devupdatewidget.cpp`). The file is a sequence of lines. `Set` is a keystroke in
a text field, `Rewrite`, `CopyOpen`, `CopyFile`, `CopyFails` and `SetCache` are
`ModifyParam` and the setter around it, `MonitorRead` and `MonitorKeep` the
getter of `monitorThread`, which may read at any step of a setter and keep what
it read at any later one (`overtaken` marks a setting changed in between).
`PowerOn` is the start after a power failure: during the copy (`fileTmp` to
`file`) it leaves a beginning of the file. `Open` is the
page's constructor, which fills its text fields and thereby calls the setters.

**PantographLight** (`pvmsmonitorwidget.cpp` 472-477, 814-838, 1113-1198,
1333-1340, 1915-2113, 2197-2376). One handler of the UI thread is one step:
`PvmsUpdown` (a recorder reports all pantographs up or down, the train
information system each of them), `DownEnd` (the four timer slots, four copies of
the same text), `FillLightSwitch`, `FillLightSwitchEnd` and
`VideoPollingSignalCtrl`. `Poll` is `monitorThread` turning the display. It may
do so while `fillLightSwitchSlot` runs, which reads `m_iCameraPlayNo` six times
(1124, 1130 or 1138, 1140, 1141, the two of 1148): `Reads` are the sequences these
reads may find - the thread waits after its write until the UI thread has run
another slot, so there is at most one change among them - and `FillLightSwitch`
uses each read where the code does. `Told` is the camera that a command reaches
whose position and server were read from two cameras, if there is one. `lamp` is
what the lamps really do, `lost` that the last command did not arrive, `torn`
that the display changed between what the slot wrote down and what it sent, `net`
whether `send` works, works to no effect, or fails. `MCLights` is the lights with
one camera whose button nobody touches.

**PresetReturn** (`pvmsmonitorwidget.cpp` 472-502, 786-799, 883-949, 1212-1228,
1304-1313, 1388-1409, 1811-1909). `Ptz`, `PresetGetCtrl`, `PresetSetCtrl` with
their four reads of `m_iCameraPlayNo` (`Reads`, as for the lights: position and
server of the command, time and preset recorded), `SetPreset` (the password
dialogue), `PresetNoGroupButtonClick`, the timer in `monitorThread`
(`TriggerPresetReturn`) and the slot of its queued signal
(`PresetReturnSignalCtrl`). `TurnTo` and `VideoPollingSignalCtrl` are the
display. `position` is where the camera is, `lost`, `torn` and `net` as for the
lights.

**CameraPolling** (`pvmsmonitorwidget.cpp` 407-482, 546-709, 720-866,
1013-1112, 1263-1354, 1655-1674, 1827-1909). Each `monitorThread` has a
program counter between its check of the flags, its write of
`m_iCameraPlayNo` and the slot it waits for; `cameraSwitchSlot` is taken apart at
its reads of `m_iCameraPlayNo`, the other slots are one step. Ghosts: `changes`
counts writes during the slot, `iCameraSwitchState` is the camera the slot
recorded and `stream` the one it told, `moving` what PTZ makes each camera do.

**VideoChannels** (`pvmsmonitorwidget.cpp` 407-489, 605-615, 711-780, 1243-1261,
1468-1501, 1585-1652; `recordplaywidget.cpp` 915-935, 1226-1240;
`pvmsmenuwidget.cpp` 514-616). `m_ptQueue` is the command queue, `monPc` where
`monitorThread` is between taking a command, waiting for its slot, polling and
the two reads of the record-play flag; `recordPlayCtrl` counts its queued
signals. `ChannelCommand` is the decision of `videoChannelCtrl` for one camera
by `iCmpOpenFlag`, which only `CmpOptionCtrlSlot` changes, later. ENABLE and
DISABLE are queued as commands without an effect, which is what they are.
Where a name of the code also belongs to a module `MCWorkers` extends, the
channels' one is longer: `videoPlayNo` is `m_iCameraPlayNo`,
`VideoPollingSignalCtrlSlot` the channel part of `videoPollingSignalCtrl`.

**DevAlarms** (`devmanagewidget.cpp` 90-603, `alarmwidget.cpp` 91-441,
`pvmsmenuwidget.cpp` 180-406). `Receive` puts a message into the queue of a
connection, `RecvPmsgCtrl` hands the oldest to both pages: `CountStatus` with a
count each, `StorageState` and the columns of the device page, `AlarmHappens`
and `AlarmCleared` with `Compact` on the alarm page. `SeenOnline` and
`SeenOffline` are the ten-second look at the connection, `ServerOffline` what
the alarm page does of it; `ClearAll` and `AlarmPageShow` are the operator's.
`MCDevAlarms` adds a record of the losses that were noticed.

**RecordQuery** (`recordplaywidget.cpp` 324-338, 405-459, 537-673). `Paths` cuts
the text that packets brought (`RecordQueryCtrl`) into paths;
`RecordQueryEndSlot` is the look every 500 ms, `RecordTableWidgetFillFunc` the
table one second later. A download is there as far as it uses the same button.

**RecordPlay** (`recordplaywidget.cpp` 865-1450). `slideValueSetThread` step by
step between its reads of what the UI thread writes (`Top`, `GetRange`,
`SetRange`, `Check`, `GetValue`, `Compare`), the queued signal `closes`, the
slots of the page, and the player with its signals as far as they write
`totalplaytime` and `playingTime`. Names that `VideoChannels` or `DevAlarms` also
have are changed: `recordPlayFlag` is `m_iRecordPlayFlag`, `playRows` the rows of
the table.

**FtpDownload** (`ftpApi.c` 891-1161, 1287-1426; `recordplaywidget.cpp` 26-43,
324-397, 674-807). The thread (`TakeFile`, `SkipFile`, `SetUp`, `Receive`,
`TransferFails`, `EndOfData`, `StickPulled`, `Stopped`, `CloseFile`, `NoStick`,
`Exit`), the queue of signals `PftpProc` fills, and the UI slots (`ShowBar`,
`SetValue` with the join, `Joined`, `CloseBox`). A message box runs an event
loop of its own, so signals are handled while it is open. A chunk goes three
ways: `received` from the server - which may send more of a file than the SIZE
it announced, as `recv` asks for what is missing of the total of all files
(1050) -, `stored` by `fwrite`, which may take a part, and flushed by `CloseFile`
(1140-1142), whose failures nothing looks at (`unflushed`). `OnStick` is what is
certain to be there: stored, the file closed, no flush failed.

## 4. Runs

Passing runs:

| run | what it shows | bounds |
|---|---|---|
| `pmsg_threads` | `Ownership`, `OwnerCloses`: descriptors never leak, are not kept after close nor closed by a stranger; `HeartbeatOwnSocket` | 2 handles, 2 descriptors, 1 file, heartbeat limit 1 |
| `pmsg_live` | connections: `SilentPeerDropped`, `Reconnects`, `DestroyReturns`; presets: `RecordFollowsCamera`, `CamerasReturn` | 1 handle, 2 descriptors, 1 file, limit 2; 2 cameras of one server, preset 1 or elsewhere |
| `shared` | queue: `ListWhole`, `NoLeak`, `ImplementsFifo`; parser: `EachFrameOnce`; serial link: `FramesAsSent`; polling with a second login: `ShowsCurrent`, `OneChangePerThread`; settings: `ReadsBack`, `CacheIsSaved`; query: `RowsHaveTheirPath` | 2 producers, 2 packets, 3 nodes; 2 messages per connection, payloads up to 1; 3 serial frames, a buffer of 5; 1 camera, 2 logins, 1 PTZ button; 2 keys in 2 groups, 2 values, 2 changes; 3 queries of up to 2 recordings |
| `workers` | log: `Retained`, `NewestInReach`, `LoggersReturn`; download: `HundredMeansAll`, `FinishedHidesBar`, `JoinReturns`; channels: `PlaybackClosesOthers`, `PollingRestores` | 2 threads, 3 records kept, 2 cut, 10 logged; a download of 2 files or two of 1, 2 chunks each, 4 signals; 4 cameras, 2 commands waiting when the operator acts |
| `pages` | lights: `RecordFollowsLamp`, `ManualOffStays`, `UpKeepsLight`; polling: `EveryCameraVisited`, `DisplayRests`; alarms: `FlashMeansAlarm`, `DiskPagesAgree`, `ClearNamesItsAlarm`, `ServersShownOffline`; play-back: `EndCloses` | 2 lights of one server; 2 cameras, 1 login; 1 server with 1 camera, grace of 2 messages, 3 rows of which 1 is given up, 1 message waiting; 2 recordings of 1 and 2 seconds, 3 assumed |

`TypesOK` and `TypeOK` are the type invariants of the parts of a run, but for the
presets in `pmsg_live`, whose types are proved (`PresetTypeCorrect`).

Runs that fail are disagreements between the code and its own comments, quoted
under "findings" in `PROJECT.json`:

| run | property | what happens |
|---|---|---|
| `pmsg_foreign` | `SendsToOwnServer` | a message of the UI thread is written to the descriptor that another server's connection has taken over meanwhile |
| `lights_lost` | `DownClosesLight` | the command at the end of the ten minutes fails once, the light is recorded off and burns for good, with the link up and the button untouched |
| `polling_switch` | `SwitchHitsOneCamera` | a poll that was past its check moves on between two reads: one camera is recorded as switched, another is told |
| `ftp_hidden` | `EndHidesBar` | a progress signal behind the final one shows the bar of a download that is over |
| `query_again` | `OneQueryAtATime` | the end of a download enables the query button while a query begun meanwhile is not finished |
| `offline_alarms` | `OfflineClearsAlarms` | a server seen on line is found lost and its alarms are cleared; an alarm still in the queue is entered afterwards and stays |
| `play_closed` | `ClosesOnlyAtEnd` | the slider thread compares with the range of the next recording, which is 0 by then: the new play-back is closed at once |

Why the bounds are enough. A descriptor is reused by the other handle or by a
file as soon as there are two handles and one file, and two descriptors make
them compete; the fixed heartbeat limit of 1000 polls only has to be reached,
and the proofs do not depend on it. The parser sees every cut of two frames,
which covers a leftover before a frame, a frame split anywhere and a flag in a
payload; the serial buffer holds a frame and a half, so that it wraps. Three
nodes let the list empty, refill and reuse addresses. Ten log records make two
rotations, the second starting from a restarted count. For the lights and the
presets two cameras of one server are the one on display and the one it turns to,
and a position read from one of them names the lamp of that one whichever of the
two the server is read from; the proofs hold for any cameras on any servers. A
third camera is needed only to tell "before" from "after" in `polling_switch`,
a fourth in the channels to have one that is neither on display nor next to it.
Two keys in two groups make a key be found behind the wrong group's header, and
two changes make one be written behind the other's damage. Three queries let
packets of the first arrive at the third. Two files put a failed, a
whole, an unsized and a grown one in any order; what a third would add, a sum over
more summands, is proved. Two recordings of different length make a stale
range too short and too long. A table of three rows holds a begun and an ended
alarm of one source with a row of another between them, or gives up the first.
A grace of two messages is the smallest that holds a report back and can be
interrupted half way. Symmetry is used only in runs that check no liveness
property.

## 5. Fairness

- `PmsgClient`: weak fairness of each thread (the scheduler), strong fairness of
  the heartbeat's lock, since the other holder keeps the mutex for one send.
  Nothing is assumed of servers; a thread inside `select` returns by its
  timeout. The liveness properties make an exception for a process that
  SIGPIPE has ended.
- `LogFile`: weak fairness of each logger, strong fairness of its lock; a crash
  ends the claim until the restart.
- `CameraPolling`: weak fairness of each `monitorThread` and of the UI slot in
  progress; strong fairness of `VideoPollingSignalCtrl`, since the event loop
  reaches a queued event although a slot in progress keeps disabling it; strong
  fairness of `CheckDue`, since polling time goes by whatever else happens: a
  thread that looks again and again finds it elapsed. Presses are not fair.
- `VideoChannels`: weak fairness of `monitorThread` and of each of the three
  slots it sends signals to. The slots are in the event queue, which is served
  in order. `PollingRestores` supposes that the operator has left the page
  polling, and that the polling time goes by.
- `DevAlarms`: both timers of the program run (50 ms and 10 s). Nothing is
  assumed of servers or of the operator.
- `PresetReturn`: weak fairness of the slot that `monitorThread` waits for; strong
  fairness of each camera's minutes, look and queued signal, as the thread looks
  at every camera in each of its rounds although it waits for a slot in between.
  `CamerasReturn` supposes a link that is up for good and an operator who leaves
  the camera alone.
- `RecordPlay`: the slider thread runs, queued closes are handled; the player
  need do nothing.
- `PantographLight` (only for the violation): the UI thread runs the slots it is
  sent and timers fire.
- `FtpDownload`: the UI handles its events, the thread takes its steps (its
  `select` has timeouts). The stick and the user are not fair.

`MCWorkers`, `MCLive` and `MCPages` assume the fairness of the part that moves; in the
others nothing is enabled.

## 6. Proofs

Eight modules hold proofs. Each theorem is about the specification of one
component and every value of its constants; the runs check the same property on
a small instance. `PROJECT.json` lists the theorems with the property each
states.

| proofs | theorems | inductive invariant |
|---|---|---|
| `LinkProofs` | `TypeCorrect`, `OwnershipCorrect`, `HeartbeatCorrect`, `OwnerClosesCorrect`; `StreamTypeCorrect`, `EachFrameCorrect`; `SerialTypeCorrect`, `FramesCorrect` | types, `Ownership`, `Published`, `Progress`; `StreamInv`; `SerialInv` |
| `PktQueueProofs` | `TypeCorrect`, `ListCorrect`, `NoLeakCorrect`, `FifoCorrect` | types, `Mutex`, some list is `Whole` |
| `LogFileProofs` | `TypeCorrect`, `RetainedCorrect`, `NewestCorrect` | types, `Bounds`, `Exclusion`, `Contents` while not `damaged` |
| `PantographLightProofs` | `TypeCorrect`, `RecordCorrect`, `ManualOffCorrect`, `UpKeepsCorrect` | types, the record, `TimersAreOfDowns` |
| `CameraPollingProofs` | `TypeCorrect`, `OneChangeCorrect`, `ShowsCurrentCorrect` | `Flags`, `Numbers`, `Counted`, `Current` |
| `SettingsProofs` | `PresetTypeCorrect`, `RecordCorrect`; `SettingsTypeCorrect`, `ReadsBackCorrect`, `CacheCorrect` | types, the record; `SettingsInv` |
| `DevAlarmsProofs` | `TypeCorrect`, `FlashCorrect`, `ClearCorrect`, `DiskCorrect` | types and flashing; `Begun`; `DiskOK` |
| `RecordingProofs` | `QueryTypeCorrect`, `RowsCorrect`, `ChannelsTypeCorrect`, `PlaybackCorrect`, `FtpTypeCorrect`, `HundredCorrect`, `FinishedCorrect`; `PlayTypeCorrect` | `QueryInv`; `ChannelsInv`; `FtpInv`; `PlayTypeOK` |

`LinkProofs` has three parts: connections, receive parser and serial link.

*Connections.* For any set of handles and descriptors and any heartbeat limit:

- `TypeCorrect`: `Spec => []TypeOK`;
- `OwnershipCorrect`: `Spec => [](Ownership /\ Published)`;
- `HeartbeatCorrect`: `Spec => []HeartbeatOwnSocket`;
- `OwnerClosesCorrect`: `Spec => OwnerCloses`.

Assumptions, all named in `PmsgClient`: descriptors are positive numbers
(`FdsAssumption`), the heartbeat limit is a positive number (`LimitAssumption`),
and the marks "free", "file" and "ui" are no handles (`NamesAssumption`).

The argument. Ownership alone is not inductive: whether the loop goes on
polling or opens a new socket is decided by `iSocket` and, after a closed
socket, by `iHearCount` (line 447 is reached with the count just cleared, so the
timeout cannot close a socket that is already closed). `Progress` says this: a
closing thread has a cleared count, a thread that holds no descriptor has none
in `iSocket`, and the kernel has a socket for a handle exactly while its thread
holds one. `IInv == TypeOK /\ Ownership /\ Published /\ Progress` is inductive
(`TypeStep`, `OwnershipStep`, `PublishedStep`, `ProgressStep`, with `OtherHandle`
for the handles a step does not touch); `HeartbeatOwnSocket` follows from
`Ownership` and `Published` at the step that sends, `OwnerCloses` from
`Ownership` before each step that frees a descriptor.

*Receive parser* (`StreamAssumption`: a type, a length and an exclusive or are
bytes, and a server sends no more than the length test lets pass).
`EachFrameCorrect` is about one `recv` of any number of bytes, at any moment of
any connection. `StreamInv` says that what is kept and not yet received and what
was sent on this connection end in the same bytes, however much older bytes
`leave` may hold in front (`SameEnd`). If the parser stands at the beginning of a
frame, those bytes are frames from their first to their last but for an
incomplete one. `ParseFrames` goes through them by induction on the bytes left:
a whole frame passes the flag, the length and the checksum, is queued or skipped
as a heartbeat, and leaves the parser at the next one (`FrameParsed`,
`FrameStep`); an incomplete one is kept. That `Parse`, `Ecc`, `FrameEnd` and
`Reports` have a value at all is a lemma each (`ParseExists`, `EccByte`,
`EndsExist`, `ReportsStep`), as a recursive function is a choice until one is shown to exist;
`FrameEnd` is unique and grows (`EndsUnique`, `EndsOrdered`). Nothing is claimed
of a parser that stands inside a frame, where the code may wait for bytes that
are not coming or drop good ones; section 8 has how it gets there.

*Serial link* (`SerialAssumption`: there are bytes and a buffer).
`FramesAsSent` alone is not inductive: it does not say where the next frame may
come from. `SerialInv` adds a number m such that what is queued are some of the
first m frames sent, in order, and that whatever the buffer holds up to its
position, and the line, was sent behind the m-th. What the buffer holds above
its position may be as old as it likes: a frame is only looked for in bytes that
have been read since the last silence, because its length is tested. Every
frame differs in the model, so that the byte of a frame tells which it is.

`PantographLightProofs` proves, for any set of cameras on any servers
(`CamerasArePairs`: a camera is known by its server and its position),
`TypeCorrect`, `RecordCorrect` (`RecordFollowsLamp`), `ManualOffCorrect`
(`ManualOffStays`) and `UpKeepsCorrect` (`UpKeepsLight`). `RecordFollowsLamp` is
inductive with the types: `CommandReaches` says that what a handler tells the
lamps it tells is what they do or is lost, `ToldIsWritten` that a handler that
records what it commands keeps the record true. `ReadsFind` says of the button's
slot what its reads may find, that a read between two that find the same camera
finds it too, and `ToldOne` that a position and a server read from one camera are
a message to it alone; so either the slot writes down what it tells that camera,
or it has marked both. `UpKeepsLight` needs that a timer runs only while the last
report of its pantograph is down (`TimersAreOfDowns`). `ManualOffStays` needs only
the types.

`CameraPollingProofs` proves, for any number of cameras, logins and buttons
(`CamerasAssumption`), `TypeCorrect` - with it, that no index leaves the table
of cameras -, `OneChangeCorrect` (`OneChangePerThread`) and
`ShowsCurrentCorrect` (`ShowsCurrent`). Neither is inductive as it stands. A
change leaves its thread waiting for the UI thread that runs the slot, so
`Counted` compares the changes with the number of waiting threads (`WriteWaits`,
by the cardinality theorems), which are among those started. The page shows the
right camera also in the middle of a slot, which `Current` adds.

`SettingsProofs` proves, for any cameras and any presets with number 1 among
them, `PresetTypeCorrect` and `RecordCorrect` (`RecordFollowsCamera`), by what a
command does to the camera it is for (`CommandArrives`), and by `OperateFollows`:
a slot whose reads for the position and for the record find the same camera tells
that camera alone and records it there; otherwise both are marked (`torn`).

Of the settings it proves, for any file as delivered and any settings of which
no two share a key (`SettingsAssumption`, as the keys of `state.cpp` 165-287 are),
`ReadsBackCorrect` and `CacheCorrect`. The condition on keys is needed: a key is
looked for from its group's header to the end of the file, through the groups
behind it. `ModifiedReads` is the main lemma: what `ModifyParam` writes reads as
the new value for the setting changed and as before for every other, whether the
key was found and changed or put behind the header or at the end. `FilesOK`
follows `file` and `file~` through the setter - which of them reads as what was
saved, and which as what is being saved - and `CacheOK` says when a cached value
may differ from the saved one: between the copy and the assignment, before the
page is filled, and where `overtaken` says so; a getter of `monitorThread` that has
read the file holds what was saved when it read, and what a setter has saved since
is about to be cached or is marked. A power failure
during the copy sets `fileDamaged`; from then on only types are claimed.

`DevAlarmsProofs` proves, for any servers, cameras, grace period and any size of
the alarm table that gives up at least one row when it is full (`Sizes`),
`TypeCorrect` - the table never outgrows its rows -, `FlashCorrect`
(`FlashMeansAlarm`) and `ClearCorrect` (`ClearNamesItsAlarm`). The flashing is
inductive with the types: only the beginning of an alarm starts it and every
handler that puts a flag out looks at the flags that are left (`StopStops`).
`ClearNamesItsAlarm` is not inductive, as the row that ends an alarm is written
from the flag and not from the table: `Begun` adds that the last row of a source
with an alarm, where it is still in the table, is the one that began it.
`SuffixNames` says that giving up the oldest rows keeps both, `AppendNames` that
a row which agrees with the flag before or after it does.

The theorem on disks, `DiskCorrect` (`DiskPagesAgree`), supposes
`MaxQueue < Grace`: with a whole grace period of answers waiting when the server
is lost, a disk alarm would begin after the table was emptied. The code counts
18 answers (`pvmsmenuwidget.cpp` 264-268), which the server gives to a question
asked every ten seconds, and `pmsgTimerFunc` takes a message of each server
every 50 ms, so that 18 of them wait only when the UI thread is blocked.
`DiskOK` has two parts. The counts of the two pages are equal, since both are counted at the same report and reset at the same look; and a
server that is shown off line is `Away`: it has not been asked, its disk has no
alarm, and the answers of the old connection that still wait are too few to
carry the count over the grace period. That is where the queue's length comes in.

`PktQueueProofs` proves, for any producers, packets and finite heap
(`QueueAssumption`), that the list is whole, that no node leaks and that
`PktQueue` implements `Fifo`. The model follows pointers from `ptFirst`
(`From`); the invariant says instead that there is a sequence `ns` of nodes
without repetition, linked one to the next and ended by NULL, that the allocated
nodes are those and the ones in a producer's hand, and what `ptFirst`, `ptLast`
and `iPktCount` are at each line of `PutNode` and `GetNode` (`Ends`). One lemma
says for each assignment what becomes of `ns`: nothing, one more
(`PutLinkWhole`) or one less at the front (`GetCopyWhole`, `DestroyNodeWhole`).
For `FifoCorrect` the packets in the nodes of `ns` are the abstract queue
(`ContentsAre`): linking appends, taking off removes the first, and every other
step is a stutter (`FifoStep`).

`LogFileProofs` proves, for any finite set of threads, any number kept and cut
(`LogAssumption`), `RetainedCorrect` (`Retained`) and `NewestCorrect`
(`NewestInReach`). Neither is inductive: during a rotation the log is
truncated, so `Contents` says what the second file and the copied part hold
between truncation and the end of the copy, `Exclusion` that no second thread is
in there, `Bounds` that the count never passes the records written. A kill
during the copy sets `damaged`; from then on only types and bounds are claimed.

`RecordingProofs` has four parts.

*Query* (`QueryAssumption`: the bounds are numbers). `RowsCorrect` says that each
row of the table stands for the path kept at its index. `TableWhole`, its
strengthening, adds that the two timers never run together and that the table is
empty while one does: it is emptied when a query begins, and filled once. That
packets may come between looking and filling, and the list is therefore cut
twice, does no harm because the table is filled from `m_acFilePath` alone.

*Channels* (N > 0: there is a camera). `PlaybackCorrect` says that beside a
recording no channel but the current one is open once the commands queued for it
are handled. `OthersClosing` states it at every moment: a channel that is open
has a close among the commands that wait, with no later open behind it
(`ClosesAfter`), or the one in `monitorThread`'s hand is that close. Every
handler that queues commands is shown to keep it (`OptionCloses`, `PlayCloses`,
`OthersAppend`); `MonitorState` says what the two copies of the record-play flag
are worth at each line of the thread.

*Downloads* (`FtpAssumption`: plans are sequences of numbers of files, a file has
at least one chunk). `HundredCorrect` and `FinishedCorrect` follow from
`FtpInv`. Both speak of a download whose files all have a size and of which the
server has sent no more (`Known`). `StoredCame` says that no more is written of a
file than came of it, and nothing of the files behind it. Its part `HundredFull`
says that the thread's `iPos` is 100 only with every file written (`Full`), and
100 is queued only with every file closed as well: the value survives the end of
a file and is reported again, so it has to be an invariant of the variable and
not only of the signals. A chunk brings it to 100 exactly when the sum of what is
stored is the total (`Percent`); a sum of summands that have a bound reaches the
sum of the bounds only if each does (`SumBounded`), and never without it
(`SumAtLeast`); a file that gets a chunk was not whole before, so 100 cannot have
been announced, and a file that completes the download is the last one
(`FullIsLast`). That the flushes succeeded is used at the end only, for what
`OnStick` adds. `OnlyOne` says that the only download is the current connection
for as long as its thread runs, so that no signal is dropped, and that when
everything has been received the last signal under way is the one that hides the
bar, or will be when the file is closed. `ThreadShape` reduces the alternatives of
the thread to three: nothing arrives and a failure may be reported (`Quietly`), a
chunk is written (`Arrives`), or a file is closed.

*Play-back* (`PlayAssumption`: recordings have lengths). `PlayTypeCorrect`: the row
on play has been in a table, no recording is played behind its end, and the
slider's range is 0, the length of a recording or the one assumed.

Induction over data. The library's induction theorem takes a predicate as a
parameter, which the provers cannot instantiate. `SetInduction` states it for a
set of numbers instead - 0 is in it, with n also n + 1, so it holds all - and the
set is defined at its use as the numbers for which the claim holds. In this way
the proofs have what following a chain of pointers returns (`PktQueueProofs`),
that `FlattenSeq` keeps the type and the elements of the pieces, that the paths
in alphabetical order are those found (`RankExists`), that `SumFunction` has
a value, its bound and its increment (`SumExists`, `SumBounded`, `SumOneMore`),
what the lines of a settings file read as, and what the parser of a byte stream
returns. Where the recursion goes up from 0, `Recursion` gives the function once
for all.

Assumptions on constants are named in the module that declares them and
evaluated in every run. None limits the size of anything, but for the
`MaxQueue < Grace` above and `Sizes`, a table that gives up at least one row.
The bounds `MaxQueries`, `MaxRecords`, `MaxEvents` and the like only stop TLC;
the theorems hold for each of their values.

Only model-checked:

- every liveness property (`SilentPeerDropped`, `Reconnects`, `DestroyReturns`,
  `LoggersReturn`, `JoinReturns`, `CamerasReturn`, `PollingRestores`,
  `EveryCameraVisited`, `DisplayRests`, `ServersShownOffline`, `EndCloses`):
  fairness and ENABLED are beyond the prover;
- `TypesOK`, as the type invariant of a composition: each of its parts is proved
  of its component, and a step of a composition is a step of one part that leaves
  the others alone;
- the properties of the runs that fail, of course.

## 7. Not modelled

- Widgets, layout, texts, the video player library: no state of the program
  depends on them, except the button texts and labels that are modelled.
- `PMSG_SendRawData`, `QPlayer`, `LOG_FsyncFile`, the black screen thread and the
  train types of `state.cpp` 460-800: nobody calls or starts them.
- Uploading (`ftpApi.c` 1163-1285, 1447-1520): called by no page and of the same
  structure as downloading; the login dialogue and the directory making are
  taken as succeeding or failing as a whole.
- Users and sessions: each rule is a guard over rows of the user database in
  one handler of one thread, with nothing that interleaves.
- `temporarySave`, zoom and focus and the one-second protection of buttons; the
  confirmation column and the analysis page, which only display; clock
  correction and train number from the PIS.
- In `CameraPolling` commands always arrive: loss is the subject of
  `PantographLight` and `PresetReturn`. There is one login in those two, so one
  `monitorThread` that writes `m_iCameraPlayNo` at most once while a slot runs.
- The second writer of `m_iPlayRange`, the branch of `pmsgCtrl`
  (`recordplaywidget.cpp` 1463-1475) for the length of a recording: it answers a
  request (0x42) which is named in `pmsgcli.h` 42 and sent by nobody.
- The parser's length is one cell instead of two; in the run a byte has four
  values and a frame at most one payload cell. A leftover that swallows the first frame of a new
  connection is a possibility the length limits of the model exclude.
- Three quarters of the repository's lines are generated data (`qrc_res.cpp`,
  `gb2312_utf8.c`); the lines that decide something are far fewer.

## 8. Deviations the models reproduce

What the code does here is in the models as it is, or is named here because a
model stops short of it; no document of the repository states otherwise, so no
run is given to it.

Connections and log:

- `iPreLeaveLen` is not cleared when a connection is lost (`pmsgcli.c` 338).
- A write to a reset connection ends the process by SIGPIPE (654).
- `LOG_FsyncFile` returns with the mutex held when the file cannot be opened
  (`log.c` 249); nobody calls it. The comment at 176 speaks of the oldest 100
  records, the code cuts 1000.
- The serial checksum is computed in a signed character, so frames whose sum is
  0x80 or more are refused (`rs485serv.c` 427); of frames that follow each other
  without a pause only the first is taken; a `read` that fails moves the
  position back (369).

Camera page:

- `videoPollingSignalCtrl` (1290-1303) stops a moving camera with the two bytes
  of the command swapped (compare 1831-1835), and always addresses the camera
  before in the round, whichever button was pressed.
- Polling goes on after a logout: `monitorThread` is never stopped (705), its
  slot then uses labels `closePlayWin` has deleted and set to NULL (1317; 1674).
- Each login appends the cameras again to `m_tCameraInfo`, an array of 8 (620;
  `pvmsmonitorwidget.h` 120), and starts one more `monitorThread`.
- The text of the light button is wrong when polling is paused before the next
  turn of a camera whose light changed (1921, 2227); it is refreshed at the next
  turn. The models leave the text out.
- `fillLightSwitchSlot` (1124-1148), `presetSetCtrlSlot` (907-916),
  `presetGetCtrlSlot` (937-947) and the pan and tilt buttons (1891-1905) read
  `m_iCameraPlayNo` for the command and again for the record. `monitorThread` may
  write it in between (474): one camera is commanded, another recorded. The light
  that was commanded then keeps a wrong record, and a camera that was moved under
  a record that says preset 1 is never sent back (492). `RecordFollowsLamp`,
  `RecordFollowsCamera` and `CamerasReturn` except exactly this (`torn`). If
  position and server are read from two cameras, the command goes to a third, or
  to none. Only `cameraSwitchSlot` clears the polling flag first, with the comment
  at 1026, and `polling_switch` shows that this does not help.
- A record-play flag that goes to 1 and back between two looks of
  `monitorThread` leaves all channels closed while polling is paused (485); the
  next turn opens them, which `PollingRestores` shows. All channels share one
  `QMediaPlayer`, the last one opened is seen (1482-1490). ENABLE and DISABLE
  have no branch in `cmpOptionCtrlSlot` (1619 speaks of them).
- `setPresetSlot` only sets the flag (1212-1228; the comment at 897 says more);
  the return of a camera that is not on display changes the preset the buttons
  act on (1407); a preset counts as set although the send failed (981).
- An unreadable polling or return time makes `monitorThread` skip polling
  (418-430).

Alarms and devices:

- A connection that is lost and found between two looks of ten seconds is not
  noticed, and alarms stay as they were (`devmanagewidget.cpp` 595).
- A covered lens that becomes a lost picture keeps its first type; the alarm
  for a lost disk during the grace period is never raised.

Recordings:

- `iRecordNum` is not reset after a query that found something, so the next may
  give up early (`recordplaywidget.cpp` 646); packets of an earlier query that
  come late are put before those of the next; a second look may fill the table
  twice.
- After stop, play plays the last recording again without telling the monitor
  page; a seek takes seconds for milliseconds; a query that found fewer
  recordings leaves the previous button with a row that is not there (1050); the
  five tries to find a length are for the life of the program.
- A file whose `SIZE` is not answered counts 0 in the total (`ftpApi.c` 1413),
  so 100 comes before it is fetched and ends the download.
- A second press of the download button before the first progress signal
  replaces the handle (`recordplaywidget.cpp` 761): the first connection is never
  destroyed, and its queued end destroys the second.
- A transfer cut short by the server (`ftpApi.c` 1093) and a file that cannot be
  created (942) are reported by nobody.
- The results of `fflush`, `fsync` and `fclose` are not looked at (1140-1142): 100
  is reported although the last bytes may not be on the stick. A `fwrite` that takes
  a part of what came drops the rest without a report (1057-1075).
- `recv` asks for what is missing of the total over all files (1050), so a file that
  has grown since its SIZE was asked - the recording that is being made - takes the
  bytes of the files behind it, and 100 is reached before they are fetched.

Settings:

- A getter of `monitorThread` that has read the file and is overtaken by a setter
  puts the older value back into the cache (`state.cpp` 195-207); it lasts until
  the next change or start. `CacheIsSaved` excepts it (`overtaken`).
- Opening the program rewrites the file for every setting the page shows; a
  crash during the copy leaves a beginning of the file, and the cut last line
  swallows the next key that is added while `ModifyParam` reports success
  (`fileConfig.cpp` 107). The result of `CopyFile` is looked at by nobody. A
  last line without its end loses a character.
