---------------------------- MODULE FtpDownload -----------------------------
(***************************************************************************)
(* Downloading recordings to the USB stick: FTP_DownloadDataRecvThread and *)
(* the connection functions of ftpApi.c with their user, recordplaywidget. *)
(* The thread reports its progress through PftpProc, which posts queued    *)
(* signals; the UI thread shows them and, at a final value, destroys the   *)
(* connection by joining the thread inside the slot.                       *)
(*                                                                         *)
(* File contents are counted in chunks; the FTP dialogue before the data   *)
(* (TYPE, PASV, connect, RETR) succeeds or fails as a whole.  A file may   *)
(* send more than its SIZE, which was asked when it was queued; a write    *)
(* may take a part of what came, and a flush may fail without being        *)
(* noticed.                                                                *)
(***************************************************************************)
EXTENDS Integers, Sequences, SequencesExt, FiniteSets

CONSTANTS
  Plans,      \* bound: the presses of the button, each with its number of files
  Size,       \* chunks of each file when its SIZE is asked
  MaxEvents   \* bound: queued signals while the thread may go on

ASSUME FtpAssumption == Plans \subseteq Seq(Nat) /\ Size \in Nat \ {0}

Finals == {100, -1, -2, -3}   \* finished, stick pulled, write failed, receive failed

VARIABLES
  plan,     \* the one of Plans that the operator follows
  ftpPc,    \* where the thread of each connection is
  run,      \* threadRunFlag
  next,     \* first file still in ptQueue, or the one in transfer
  sized,    \* files whose SIZE was answered when they were queued
  received, \* chunks of each file that came, Size + 1 for any more than Size
  stored,   \* chunks of each file that fwrite() took
  unflushed, \* files whose fflush(), fsync() or fclose() failed
  iPos,     \* the thread's iPos: never reset between files
  handle,   \* m_tFtpHandle[m_iFtpServerIdex]; 0 when there is none
  events,   \* signals queued for the UI thread
  shown,    \* progress bar shown, query and download buttons disabled
  uiPc, uiValue,   \* the UI inside FTP_DestoryConnect, for this final value
  boxes,    \* message boxes open, each with an event loop of its own
  usb       \* the stick is plugged in

files == <<received, stored, unflushed>>
thread == <<ftpPc, next, files, iPos>>
ui == <<shown, uiPc, uiValue, boxes>>
ftpVars == <<plan, thread, run, sized, handle, events, ui, usb>>

Downloads == DOMAIN plan
Files(d) == 1..plan[d]

Bar(d, on) == [to |-> "bar", from |-> d, v |-> on]
Value(d, p) == [to |-> "value", from |-> d, v |-> p]
Signals == [to : {"bar"}, from : Downloads, v : {0, 1}]
             \cup [to : {"value"}, from : Downloads, v : -3..100]

FtpTypeOK ==
  /\ plan \in Plans
  /\ ftpPc \in [Downloads -> {"none", "top", "setup", "recv", "close", "done"}]
  /\ run \in [Downloads -> BOOLEAN]
  /\ DOMAIN next = Downloads /\ DOMAIN sized = Downloads /\ DOMAIN stored = Downloads
  /\ DOMAIN received = Downloads /\ DOMAIN unflushed = Downloads
  /\ \A d \in Downloads : next[d] \in 1..plan[d] + 1
  /\ \A d \in Downloads : sized[d] \subseteq Files(d)
  /\ \A d \in Downloads : received[d] \in [Files(d) -> 0..Size + 1]
  /\ \A d \in Downloads : stored[d] \in [Files(d) -> 0..Size * plan[d]]
  /\ \A d \in Downloads : unflushed[d] \subseteq Files(d)
  /\ iPos \in [Downloads -> -3..100]
  /\ handle \in Downloads \cup {0}
  /\ events \in Seq(Signals)
  /\ shown \in BOOLEAN /\ usb \in BOOLEAN
  /\ uiPc \in {"loop", "join"} /\ uiValue \in Finals \cup {0}
  /\ boxes \in Nat

FtpInit ==
  /\ plan \in Plans
  /\ ftpPc = [d \in Downloads |-> "none"]
  /\ run = [d \in Downloads |-> FALSE]
  /\ next = [d \in Downloads |-> 1]
  /\ sized = [d \in Downloads |-> {}]
  /\ received = [d \in Downloads |-> [f \in Files(d) |-> 0]]
  /\ stored = received /\ unflushed = [d \in Downloads |-> {}]
  /\ iPos = [d \in Downloads |-> 0]
  /\ handle = 0 /\ events = <<>> /\ shown = FALSE
  /\ uiPc = "loop" /\ uiValue = 0 /\ boxes = 0 /\ usb = TRUE

-----------------------------------------------------------------------------
(* The thread.                                                             *)

\* Mutant: only the last file's size is kept.
TotalOfLast(d) == IF plan[d] \in sized[d] THEN Size ELSE 0
\* DownloadFileSize: a SIZE that was not answered adds nothing.
Total(d) == Size * Cardinality(sized[d])

\* iFileSize: bytes written for all files so far.
Got(st) == SumFunction(st)

\* Mutant: the end of a complete download does not hide the bar.
PftpProcShort(d, p) ==
  events' = IF handle # d THEN events
            ELSE events \o <<Bar(d, 1), Value(d, p)>>
                        \o (IF p \in Finals \ {100} THEN <<Bar(d, 0)>> ELSE <<>>)

\* The callback.  Signals of a connection that is not the current one are
\* dropped; the test and the posts are one step.
PftpProc(d, p) ==
  events' = IF handle # d THEN events
            ELSE events \o <<Bar(d, 1), Value(d, p)>>
                        \o (IF p \in Finals THEN <<Bar(d, 0)>> ELSE <<>>)

\* The label FAIL: the value is reported when it is a final one.
Fail(d, p) == IF p \in Finals THEN PftpProc(d, p) ELSE UNCHANGED events

Room(d) == Len(events) + 3 <= MaxEvents \/ ~run[d]
At(d, l) == ftpPc[d] = l /\ Room(d)
FtpGoto(d, l) == ftpPc' = [ftpPc EXCEPT ![d] = l]

\* On to the next file, with the value that the last one ended with.
NextFile(d, p) ==
  /\ FtpGoto(d, "top")
  /\ next' = [next EXCEPT ![d] = @ + 1]
  /\ iPos' = [iPos EXCEPT ![d] = p]
  /\ Fail(d, p)

\* Mutant: the thread first empties its queue.
ExitWhenEmpty(d) ==
  /\ At(d, "top") /\ ~run[d] /\ next[d] > plan[d]
  /\ FtpGoto(d, "done")
  /\ UNCHANGED <<next, files, iPos, events>>

Exit(d) ==
  /\ At(d, "top") /\ ~run[d]
  /\ FtpGoto(d, "done")
  /\ UNCHANGED <<next, files, iPos, events>>

NoStick(d) ==
  /\ At(d, "top") /\ run[d] /\ ~usb
  /\ iPos' = [iPos EXCEPT ![d] = -1]
  /\ Fail(d, -1)
  /\ UNCHANGED <<ftpPc, next, files>>

\* A file that cannot be opened is skipped without a report.
SkipFile(d) ==
  /\ At(d, "top") /\ run[d] /\ usb /\ next[d] <= plan[d]
  /\ next' = [next EXCEPT ![d] = @ + 1]
  /\ UNCHANGED <<ftpPc, files, iPos, events>>

TakeFile(d) ==
  /\ At(d, "top") /\ run[d] /\ usb /\ next[d] <= plan[d]
  /\ FtpGoto(d, "setup")
  /\ UNCHANGED <<next, files, iPos, events>>

SetUp(d) ==
  /\ At(d, "setup")
  /\ \/ NextFile(d, -3)
     \/ FtpGoto(d, "recv") /\ UNCHANGED <<next, iPos, events>>
  /\ UNCHANGED files

Receiving(d) == At(d, "recv") /\ run[d] /\ usb

\* The loop is left for the closing of the file.
Break(d, p) ==
  /\ FtpGoto(d, "close") /\ iPos' = [iPos EXCEPT ![d] = p]
  /\ UNCHANGED <<next, events>>

\* recv() asks for what is missing of the total, so it may ask for nothing.
Missing(d) == Total(d) - Got(stored[d])

\* fwrite() takes all that came, or all but some of it, which is gone.
Receive(d) ==
  /\ Receiving(d)
  /\ \E dropped \in {0, 1} :
       /\ 1 + dropped <= Missing(d)
       /\ received' = [received EXCEPT ![d][next[d]] =
            IF @ + 1 + dropped > Size THEN Size + 1 ELSE @ + 1 + dropped]
  /\ stored' = [stored EXCEPT ![d][next[d]] = @ + 1]
  /\ LET p == (Got(stored'[d]) * 100) \div Total(d)
     IN IF p = 100 THEN Break(d, p)
        ELSE /\ iPos' = [iPos EXCEPT ![d] = p]
             /\ PftpProc(d, p)
             /\ UNCHANGED <<ftpPc, next>>
  /\ UNCHANGED unflushed

\* Nothing is taken by fwrite(), recv() fails, or select() has timed out too
\* often.
TransferFails(d) ==
  /\ Receiving(d)
  /\ \/ Missing(d) > 0 /\ Break(d, -2)
     \/ Break(d, -3)
  /\ UNCHANGED files

\* recv() returns 0: the file is complete, the server has closed the data
\* connection early, or nothing was asked for.  iPos stays what it was.
EndOfData(d) == Receiving(d) /\ Break(d, iPos[d]) /\ UNCHANGED files

StickPulled(d) == At(d, "recv") /\ run[d] /\ ~usb /\ Break(d, -1) /\ UNCHANGED files

Stopped(d) == At(d, "recv") /\ ~run[d] /\ Break(d, iPos[d]) /\ UNCHANGED files

\* fflush(), fsync() and fclose(), whose results nothing looks at.
CloseFile(d) ==
  /\ At(d, "close") /\ NextFile(d, iPos[d])
  /\ \/ usb /\ UNCHANGED unflushed
     \/ unflushed' = [unflushed EXCEPT ![d] = @ \cup {next[d]}]
  /\ UNCHANGED <<received, stored>>

Transfer(d) == \/ Receive(d) \/ TransferFails(d) \/ EndOfData(d)
               \/ StickPulled(d) \/ Stopped(d) \/ CloseFile(d)

FTP_DownloadDataRecvThread(d) ==
  /\ Exit(d) \/ NoStick(d) \/ SkipFile(d) \/ TakeFile(d) \/ SetUp(d) \/ Transfer(d)
  /\ UNCHANGED <<run, sized, handle, ui, usb>>

-----------------------------------------------------------------------------
(* The UI thread.                                                          *)

\* recordDownloadSlot: a connection that was still there is overwritten,
\* with 0 when FTP_CreateConnect fails.
recordDownload(d) ==
  /\ uiPc = "loop" /\ boxes = 0 /\ ~shown /\ usb
  /\ ftpPc[d] = "none" /\ \A e \in Downloads : e < d => ftpPc[e] # "none"
  /\ \/ /\ \E known \in SUBSET Files(d) : sized' = [sized EXCEPT ![d] = known]
        /\ handle' = d
        /\ run' = [run EXCEPT ![d] = TRUE]
        /\ FtpGoto(d, "top")
     \/ /\ handle' = 0
        /\ FtpGoto(d, "done")
        /\ UNCHANGED <<run, sized>>
  /\ UNCHANGED <<next, files, iPos, events, ui, usb>>

\* downloadProcessBarDisplaySlot
ShowBar ==
  /\ uiPc = "loop" /\ events # <<>> /\ Head(events).to = "bar"
  /\ shown' = (Head(events).v = 1)
  /\ events' = Tail(events)
  /\ UNCHANGED <<thread, run, sized, handle, uiPc, uiValue, boxes, usb>>

\* setDownloadProcessBarValueSlot.  FTP_DestoryConnect of no connection
\* returns at once, otherwise it clears the flag and joins the thread.
SetValue ==
  /\ uiPc = "loop" /\ events # <<>> /\ Head(events).to = "value"
  /\ events' = Tail(events)
  /\ LET v == Head(events).v IN
     \/ /\ v \notin Finals
        /\ UNCHANGED <<run, uiPc, uiValue, boxes>>
     \/ /\ v \in Finals /\ handle = 0
        /\ boxes' = boxes + (IF v = 100 THEN 0 ELSE 1)
        /\ UNCHANGED <<run, uiPc, uiValue>>
     \/ /\ v \in Finals /\ handle # 0
        /\ run' = [run EXCEPT ![handle] = FALSE]
        /\ uiPc' = "join" /\ uiValue' = v
        /\ UNCHANGED boxes
  /\ UNCHANGED <<thread, sized, handle, shown, usb>>

Joined ==
  /\ uiPc = "join" /\ ftpPc[handle] = "done"
  /\ handle' = 0 /\ uiPc' = "loop" /\ uiValue' = 0
  /\ boxes' = boxes + (IF uiValue = 100 THEN 0 ELSE 1)
  /\ UNCHANGED <<thread, run, sized, events, shown, usb>>

CloseBox ==
  /\ uiPc = "loop" /\ boxes > 0 /\ boxes' = boxes - 1
  /\ UNCHANGED <<thread, run, sized, handle, events, shown, uiPc, uiValue, usb>>

Stick == usb' = ~usb /\ UNCHANGED <<thread, run, sized, handle, events, ui>>

UiEvent == ShowBar \/ SetValue \/ Joined

FtpNext ==
  /\ \/ \E d \in Downloads : FTP_DownloadDataRecvThread(d) \/ recordDownload(d)
     \/ UiEvent \/ CloseBox \/ Stick
  /\ UNCHANGED plan

\* The threads are scheduled, the event loop runs, and select() and the FTP
\* replies have time limits.
ThreadStep(d) ==
  d \in Downloads /\ FTP_DownloadDataRecvThread(d) /\ UNCHANGED plan
FtpFairness ==
  /\ WF_ftpVars(UiEvent /\ UNCHANGED plan)
  /\ \A d \in UNION {DOMAIN p : p \in Plans} : WF_ftpVars(ThreadStep(d))

FtpSpec == FtpInit /\ [][FtpNext]_ftpVars
FtpFairSpec == FtpSpec /\ FtpFairness
-----------------------------------------------------------------------------
(* Properties.                                                             *)

Announced(d) == Value(d, 100) \in ToSet(events)

\* Chunks that are certain to be on the stick: not before the file is closed.
OnStick(d, f) == IF f < next[d] /\ f \notin unflushed[d] THEN stored[d][f] ELSE 0

\* When the server announced the size of every file and sent no more of any,
\* and no flush failed, 100 is reported only with every file whole on the
\* stick: not after one that was skipped, cut short by the server, written in
\* part, not written or not received (1024-1104), and not before the last one
\* is closed (1140-1147).
HundredMeansAll ==
  \A d \in Downloads :
    /\ Announced(d) /\ sized[d] = Files(d) /\ unflushed[d] = {}
    /\ \A f \in Files(d) : received[d][f] <= Size
    => \A f \in Files(d) : OnStick(d, f) = Size

\* Once a download has ended and its signals are handled, the bar is hidden
\* and both buttons work again, however the thread ended (37-40, 324-338).
EndHidesBar == uiPc = "loop" /\ events = <<>> /\ handle = 0 => ~shown

\* The part of it that holds: when everything announced has been received by
\* the only download, the bar goes away for good, although the thread may
\* still take files and report again before it is stopped.
FinishedHidesBar ==
  \A d \in Downloads :
    /\ Total(d) > 0 /\ Got(stored[d]) = Total(d)
    /\ \A e \in Downloads \ {d} : ftpPc[e] = "none"
    /\ uiPc = "loop" /\ events = <<>> /\ handle = 0
    => ~shown

\* The slot that destroys a connection comes back: the thread sees its flag
\* wherever it is, in the queue, in the dialogue, in a transfer or without a
\* stick (1354-1359).
JoinReturns == uiPc = "join" ~> uiPc = "loop"
=============================================================================
