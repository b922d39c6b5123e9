----------------------------- MODULE PmsgClient -----------------------------
(***************************************************************************)
(* The server connections of pmsgcli.c.  Every handle (one per video       *)
(* server and one for the PIS) owns a CliProcessThread that connects,      *)
(* polls the socket, sends a heartbeat each second and reconnects.  The    *)
(* UI thread sends through the same handle with PMSG_SendPmsgData and      *)
(* destroys the handles when the program quits.                            *)
(*                                                                         *)
(* A step is one access to state that the other thread or the kernel also  *)
(* sees.  Payloads and received bytes are abstracted (PmsgStream parses    *)
(* them); descriptor numbers are not, since they are what the two threads  *)
(* of a handle, the other handles and the files of the process share.      *)
(***************************************************************************)
EXTENDS Integers, FiniteSets

CONSTANTS
  Conns,       \* the handles, each for one server
  Fds,         \* descriptor numbers the kernel may hand out
  MaxFiles,    \* bound: descriptors other code (logs, settings) holds at once
  HeartLimit   \* the 1000 of line 447, in polls without data

ASSUME FdsAssumption == Fds \subseteq Nat \ {0}
ASSUME LimitAssumption == HeartLimit \in Nat \ {0}

Free == "free"
File == "file"
UI == "ui"
ASSUME NamesAssumption == Free \notin Conns /\ File \notin Conns /\ UI \notin Conns

NoFd == -1
UNCONNECT == 0
CONNECT == 1

VARIABLES
  pc,              \* where each CliProcessThread is
  iSocket,         \* its local descriptor
  iHearCount,      \* polls since the last data
  closeNext,       \* where the thread goes on after it has closed its socket
  iSockfd,         \* T_PMSG_CONN_INFO, shared with the UI thread
  iConnectStatus,
  iThreadRunFlag,
  tPmsgMutex,      \* the holder: nobody (Free), the UI, or the thread itself
  uiPc, uiConn,    \* the UI thread inside PMSG_SendPmsgData / DestroyConnect
  sendFd,          \* the descriptor a sender has loaded for send()
  fdTab,           \* kernel: who a descriptor belongs to
  sock,            \* kernel: state of the socket of each handle
  server,          \* whether each server accepts connections
  killed           \* SIGPIPE has ended the process

local == <<pc, iSocket, iHearCount, closeNext>>
shared == <<iSockfd, iConnectStatus, iThreadRunFlag, tPmsgMutex>>
ui == <<uiPc, uiConn>>
kernel == <<fdTab, sock, server, killed>>
vars == <<local, shared, ui, sendFd, kernel>>

ThreadPcs == {"top", "connecting", "setFd", "setStatus", "sleep", "poll",
              "beat", "beatLock", "beatSend", "count", "close", "clearFd",
              "clearStatus", "exitClear", "done"}
SockStates == {"none", "connecting", "alive", "silent", "eof", "reset", "broken"}

TypeOK ==
  /\ pc \in [Conns -> ThreadPcs]
  /\ iSocket \in [Conns -> Fds \cup {NoFd, 0}]
  /\ iHearCount \in [Conns -> 0..HeartLimit]
  /\ closeNext \in [Conns -> {"top", "count"}]
  /\ iSockfd \in [Conns -> Fds \cup {NoFd, 0}]
  /\ iConnectStatus \in [Conns -> {UNCONNECT, CONNECT}]
  /\ iThreadRunFlag \in [Conns -> BOOLEAN]
  /\ tPmsgMutex \in [Conns -> {Free, UI, "thread"}]
  /\ uiPc \in {"idle", "lock", "send", "join"}
  /\ uiConn \in Conns
  /\ sendFd \in [Conns \cup {UI} -> Fds \cup {NoFd, 0}]
  /\ fdTab \in [Fds -> Conns \cup {Free, File}]
  /\ sock \in [Conns -> SockStates]
  /\ server \in [Conns -> {"up", "down"}]
  /\ killed \in BOOLEAN

Init ==
  /\ pc = [c \in Conns |-> "top"]
  /\ iSocket = [c \in Conns |-> 0]
  /\ iHearCount = [c \in Conns |-> 0]
  /\ closeNext = [c \in Conns |-> "top"]
  /\ iSockfd = [c \in Conns |-> 0]
  /\ iConnectStatus = [c \in Conns |-> UNCONNECT]
  /\ iThreadRunFlag = [c \in Conns |-> TRUE]
  /\ tPmsgMutex = [c \in Conns |-> Free]
  /\ uiPc = "idle"
  /\ uiConn \in Conns
  /\ sendFd = [s \in Conns \cup {UI} |-> NoFd]
  /\ fdTab = [f \in Fds |-> Free]
  /\ sock = [c \in Conns |-> "none"]
  /\ server \in [Conns -> {"up", "down"}]
  /\ killed = FALSE

-----------------------------------------------------------------------------
(* The kernel: descriptor allocation and the outcome of send().            *)

LowestFree(f) ==
  fdTab[f] = Free /\ \A g \in Fds : fdTab[g] = Free => f <= g

Goto(c, l) == pc' = [pc EXCEPT ![c] = l]
\* Mutant: close() forgotten, the descriptor leaks.
ReleaseNothing(f) == fdTab' = [fdTab EXCEPT ![f] = @]
Release(f) == fdTab' = [fdTab EXCEPT ![f] = Free]

\* What send() on descriptor f does and returns; it blocks while the socket
\* is still connecting.  A peer that has closed answers the first send with a
\* reset; sending again raises SIGPIPE, which pmsgcli.c neither ignores nor
\* suppresses (no MSG_NOSIGNAL).
SendEffect(f, result) ==
  \/ /\ f \notin Fds \/ (f \in Fds /\ fdTab[f] \notin Conns)
     /\ result = "failed" /\ UNCHANGED kernel
  \/ \E d \in Conns :
       /\ f \in Fds /\ fdTab[f] = d
       /\ \/ sock[d] = "alive" /\ result = "sent" /\ UNCHANGED kernel
          \/ sock[d] = "silent" /\ server[d] = "down" /\ UNCHANGED kernel
          \/ /\ sock[d] = "silent" /\ server[d] = "up" /\ result = "sent"
             /\ sock' = [sock EXCEPT ![d] = "reset"]
             /\ UNCHANGED <<fdTab, server, killed>>
          \/ /\ sock[d] = "eof" /\ result = "sent"
             /\ sock' = [sock EXCEPT ![d] = "broken"]
             /\ UNCHANGED <<fdTab, server, killed>>
          \/ /\ sock[d] = "reset" /\ result = "failed"
             /\ sock' = [sock EXCEPT ![d] = "broken"]
             /\ UNCHANGED <<fdTab, server, killed>>
          \/ /\ sock[d] = "broken" /\ result = "failed" /\ killed' = TRUE
             /\ UNCHANGED <<fdTab, server, sock>>

-----------------------------------------------------------------------------
(* CliProcessThread, one iteration of its loop from "top" to "top".        *)

OpenSocket(c) ==
  /\ pc[c] = "top" /\ iThreadRunFlag[c] /\ iSocket[c] <= 0
  /\ \/ \E f \in Fds :
          /\ LowestFree(f)
          /\ fdTab' = [fdTab EXCEPT ![f] = c]
          /\ sock' = [sock EXCEPT ![c] = "connecting"]
          /\ iSocket' = [iSocket EXCEPT ![c] = f]
          /\ Goto(c, "connecting")
     \/ /\ \A f \in Fds : fdTab[f] # Free
        /\ iSocket' = [iSocket EXCEPT ![c] = NoFd]
        /\ Goto(c, "sleep")
        /\ UNCHANGED <<fdTab, sock>>
  /\ UNCHANGED <<iHearCount, closeNext, shared, ui, sendFd, server, killed>>

ConnectOk(c) ==
  /\ pc[c] = "connecting" /\ server[c] = "up"
  /\ sock' = [sock EXCEPT ![c] = "alive"]
  /\ Goto(c, "setFd")
  /\ UNCHANGED <<iSocket, iHearCount, closeNext, shared, ui, sendFd, fdTab, server, killed>>

ConnectFail(c) ==
  /\ pc[c] = "connecting" /\ server[c] = "down"
  /\ Release(iSocket[c])
  /\ sock' = [sock EXCEPT ![c] = "none"]
  /\ iSocket' = [iSocket EXCEPT ![c] = NoFd]
  /\ Goto(c, "sleep")
  /\ UNCHANGED <<iHearCount, closeNext, shared, ui, sendFd, server, killed>>

\* Mutant: the descriptor is not published.
PublishNoFd(c) ==
  /\ pc[c] = "setFd"
  /\ Goto(c, "setStatus")
  /\ UNCHANGED <<iSocket, iHearCount, closeNext, shared, ui, sendFd, kernel>>

PublishFd(c) ==
  /\ pc[c] = "setFd"
  /\ iSockfd' = [iSockfd EXCEPT ![c] = iSocket[c]]
  /\ Goto(c, "setStatus")
  /\ UNCHANGED <<iSocket, iHearCount, closeNext, iConnectStatus, iThreadRunFlag,
                 tPmsgMutex, ui, sendFd, kernel>>

PublishStatus(c) ==
  /\ pc[c] = "setStatus"
  /\ iConnectStatus' = [iConnectStatus EXCEPT ![c] = CONNECT]
  /\ Goto(c, "poll")
  /\ UNCHANGED <<iSocket, iHearCount, closeNext, iSockfd, iThreadRunFlag,
                 tPmsgMutex, ui, sendFd, kernel>>

RetrySleep(c) ==
  /\ pc[c] = "sleep"
  /\ iConnectStatus' = [iConnectStatus EXCEPT ![c] = UNCONNECT]
  /\ Goto(c, "top")
  /\ UNCHANGED <<iSocket, iHearCount, closeNext, iSockfd, iThreadRunFlag,
                 tPmsgMutex, ui, sendFd, kernel>>

StillConnected(c) ==
  /\ pc[c] = "top" /\ iThreadRunFlag[c] /\ iSocket[c] > 0
  /\ Goto(c, "poll")
  /\ UNCHANGED <<iSocket, iHearCount, closeNext, shared, ui, sendFd, kernel>>

\* select() and recv() with data: the bytes go to the parser (PmsgStream).
PollData(c) ==
  /\ pc[c] = "poll" /\ sock[c] = "alive"
  /\ iHearCount' = [iHearCount EXCEPT ![c] = 0]
  /\ Goto(c, "beat")
  /\ UNCHANGED <<iSocket, closeNext, shared, ui, sendFd, kernel>>

\* Mutant: the count is reset by a poll without data as well.
PollTimeoutResets(c) ==
  /\ pc[c] = "poll" /\ sock[c] \in {"alive", "silent"}
  /\ iHearCount' = [iHearCount EXCEPT ![c] = 0]
  /\ Goto(c, "beat")
  /\ UNCHANGED <<iSocket, closeNext, shared, ui, sendFd, kernel>>

PollTimeout(c) ==
  /\ pc[c] = "poll" /\ sock[c] \in {"alive", "silent"}
  /\ Goto(c, "beat")
  /\ UNCHANGED <<iSocket, iHearCount, closeNext, shared, ui, sendFd, kernel>>

PollFail(c) ==
  /\ pc[c] = "poll" /\ sock[c] \in {"eof", "reset", "broken"}
  /\ iHearCount' = [iHearCount EXCEPT ![c] = 0]
  /\ closeNext' = [closeNext EXCEPT ![c] = "top"]
  /\ Goto(c, "close")
  /\ UNCHANGED <<iSocket, shared, ui, sendFd, kernel>>

\* The second has not changed since the last heartbeat, or it has.
SkipBeat(c) ==
  /\ pc[c] = "beat"
  /\ Goto(c, "count")
  /\ UNCHANGED <<iSocket, iHearCount, closeNext, shared, ui, sendFd, kernel>>

BeginBeat(c) ==
  /\ pc[c] = "beat" /\ iConnectStatus[c] = CONNECT
  /\ Goto(c, "beatLock")
  /\ UNCHANGED <<iSocket, iHearCount, closeNext, shared, ui, sendFd, kernel>>

LockBeat(c) ==
  /\ pc[c] = "beatLock" /\ tPmsgMutex[c] = Free
  /\ tPmsgMutex' = [tPmsgMutex EXCEPT ![c] = "thread"]
  /\ sendFd' = [sendFd EXCEPT ![c] = iSockfd[c]]
  /\ Goto(c, "beatSend")
  /\ UNCHANGED <<iSocket, iHearCount, closeNext, iSockfd, iConnectStatus,
                 iThreadRunFlag, ui, kernel>>

BeatOk(c) ==
  /\ pc[c] = "beatSend" /\ SendEffect(sendFd[c], "sent")
  /\ tPmsgMutex' = [tPmsgMutex EXCEPT ![c] = Free]
  /\ sendFd' = [sendFd EXCEPT ![c] = NoFd]
  /\ Goto(c, "count")
  /\ UNCHANGED <<iSocket, iHearCount, closeNext, iSockfd, iConnectStatus,
                 iThreadRunFlag, ui>>

\* Mutant: the failed send returns without unlocking.
BeatFailLocked(c) ==
  /\ pc[c] = "beatSend" /\ SendEffect(sendFd[c], "failed")
  /\ sendFd' = [sendFd EXCEPT ![c] = NoFd]
  /\ iHearCount' = [iHearCount EXCEPT ![c] = 0]
  /\ closeNext' = [closeNext EXCEPT ![c] = "count"]
  /\ Goto(c, "close")
  /\ UNCHANGED <<iSocket, shared, ui>>

BeatFail(c) ==
  /\ pc[c] = "beatSend" /\ SendEffect(sendFd[c], "failed")
  /\ tPmsgMutex' = [tPmsgMutex EXCEPT ![c] = Free]
  /\ sendFd' = [sendFd EXCEPT ![c] = NoFd]
  /\ iHearCount' = [iHearCount EXCEPT ![c] = 0]
  /\ closeNext' = [closeNext EXCEPT ![c] = "count"]
  /\ Goto(c, "close")
  /\ UNCHANGED <<iSocket, iSockfd, iConnectStatus, iThreadRunFlag, ui>>

\* Mutant: the count is not limited.
CountPollOn(c) ==
  /\ pc[c] = "count"
  /\ iHearCount' = [iHearCount EXCEPT ![c] = @ + 1]
  /\ Goto(c, "top")
  /\ UNCHANGED <<iSocket, closeNext, shared, ui, sendFd, kernel>>

CountPoll(c) ==
  /\ pc[c] = "count" /\ iHearCount[c] < HeartLimit
  /\ iHearCount' = [iHearCount EXCEPT ![c] = @ + 1]
  /\ Goto(c, "top")
  /\ UNCHANGED <<iSocket, closeNext, shared, ui, sendFd, kernel>>

HeartTimeout(c) ==
  /\ pc[c] = "count" /\ iHearCount[c] = HeartLimit
  /\ iHearCount' = [iHearCount EXCEPT ![c] = 0]
  /\ closeNext' = [closeNext EXCEPT ![c] = "top"]
  /\ Goto(c, "close")
  /\ UNCHANGED <<iSocket, shared, ui, sendFd, kernel>>

\* The three closing sequences (338-341, 432-435, 449-452) are the same.
CloseSocket(c) ==
  /\ pc[c] = "close"
  /\ Release(iSocket[c])
  /\ sock' = [sock EXCEPT ![c] = "none"]
  /\ Goto(c, "clearFd")
  /\ UNCHANGED <<iSocket, iHearCount, closeNext, shared, ui, sendFd, server, killed>>

\* Mutant: the descriptor is closed a second time when it is cleared.
ClearFdClosesAgain(c) ==
  /\ pc[c] = "clearFd"
  /\ iSocket' = [iSocket EXCEPT ![c] = NoFd]
  /\ iSockfd' = [iSockfd EXCEPT ![c] = NoFd]
  /\ Release(iSocket[c])
  /\ Goto(c, "clearStatus")
  /\ UNCHANGED <<iHearCount, closeNext, iConnectStatus, iThreadRunFlag,
                 tPmsgMutex, ui, sendFd, sock, server, killed>>

ClearFd(c) ==
  /\ pc[c] = "clearFd"
  /\ iSocket' = [iSocket EXCEPT ![c] = NoFd]
  /\ iSockfd' = [iSockfd EXCEPT ![c] = NoFd]
  /\ Goto(c, "clearStatus")
  /\ UNCHANGED <<iHearCount, closeNext, iConnectStatus, iThreadRunFlag,
                 tPmsgMutex, ui, sendFd, kernel>>

ClearStatus(c) ==
  /\ pc[c] = "clearStatus"
  /\ iConnectStatus' = [iConnectStatus EXCEPT ![c] = UNCONNECT]
  /\ Goto(c, closeNext[c])
  /\ UNCHANGED <<iSocket, iHearCount, closeNext, iSockfd, iThreadRunFlag,
                 tPmsgMutex, ui, sendFd, kernel>>

ExitClose(c) ==
  /\ pc[c] = "top" /\ ~iThreadRunFlag[c]
  /\ IF iSocket[c] > 0
     THEN /\ Release(iSocket[c])
          /\ sock' = [sock EXCEPT ![c] = "none"]
          /\ Goto(c, "exitClear")
     ELSE Goto(c, "done") /\ UNCHANGED <<fdTab, sock>>
  /\ UNCHANGED <<iSocket, iHearCount, closeNext, shared, ui, sendFd, server, killed>>

\* The thread returns: its local descriptor is gone with it.
ExitClear(c) ==
  /\ pc[c] = "exitClear"
  /\ iSockfd' = [iSockfd EXCEPT ![c] = NoFd]
  /\ iSocket' = [iSocket EXCEPT ![c] = NoFd]
  /\ Goto(c, "done")
  /\ UNCHANGED <<iHearCount, closeNext, iConnectStatus, iThreadRunFlag,
                 tPmsgMutex, ui, sendFd, kernel>>

Connect(c) == \/ OpenSocket(c) \/ ConnectOk(c) \/ ConnectFail(c)
              \/ PublishFd(c) \/ PublishStatus(c) \/ RetrySleep(c)
Poll(c) == StillConnected(c) \/ PollData(c) \/ PollTimeout(c) \/ PollFail(c)
Beat(c) == \/ SkipBeat(c) \/ BeginBeat(c) \/ LockBeat(c) \/ BeatOk(c)
           \/ BeatFail(c) \/ CountPoll(c) \/ HeartTimeout(c)
Close(c) == CloseSocket(c) \/ ClearFd(c) \/ ClearStatus(c)
Exit(c) == ExitClose(c) \/ ExitClear(c)
CliProcessThread(c) == Connect(c) \/ Poll(c) \/ Beat(c) \/ Close(c) \/ Exit(c)

-----------------------------------------------------------------------------
(* The UI thread: PMSG_SendPmsgData while the program runs, then           *)
(* PMSG_DestroyConnect of every handle.                                    *)

Running == \A c \in Conns : iThreadRunFlag[c]

UiCheckStatus(c) ==
  /\ uiPc = "idle" /\ Running /\ iConnectStatus[c] = CONNECT
  /\ uiPc' = "lock" /\ uiConn' = c
  /\ UNCHANGED <<local, shared, sendFd, kernel>>

UiLock ==
  /\ uiPc = "lock" /\ tPmsgMutex[uiConn] = Free
  /\ tPmsgMutex' = [tPmsgMutex EXCEPT ![uiConn] = UI]
  /\ sendFd' = [sendFd EXCEPT ![UI] = iSockfd[uiConn]]
  /\ uiPc' = "send"
  /\ UNCHANGED <<local, iSockfd, iConnectStatus, iThreadRunFlag, uiConn, kernel>>

UiSend ==
  /\ uiPc = "send" /\ \E result \in {"sent", "failed"} : SendEffect(sendFd[UI], result)
  /\ tPmsgMutex' = [tPmsgMutex EXCEPT ![uiConn] = Free]
  /\ sendFd' = [sendFd EXCEPT ![UI] = NoFd]
  /\ uiPc' = "idle"
  /\ UNCHANGED <<local, iSockfd, iConnectStatus, iThreadRunFlag, uiConn>>

UiDestroy(c) ==
  /\ uiPc = "idle" /\ iThreadRunFlag[c]
  /\ iThreadRunFlag' = [iThreadRunFlag EXCEPT ![c] = FALSE]
  /\ uiPc' = "join" /\ uiConn' = c
  /\ UNCHANGED <<local, iSockfd, iConnectStatus, tPmsgMutex, sendFd, kernel>>

UiJoin ==
  /\ uiPc = "join" /\ pc[uiConn] = "done"
  /\ uiPc' = "idle"
  /\ UNCHANGED <<local, shared, uiConn, sendFd, kernel>>

UiStep == UiLock \/ UiSend \/ UiJoin

-----------------------------------------------------------------------------
(* The environment: the servers, the network, and the descriptors that     *)
(* the logs, the settings file and the FTP client open and close.          *)

ServerExits(c) ==
  /\ server[c] = "up"
  /\ server' = [server EXCEPT ![c] = "down"]
  /\ sock' = [sock EXCEPT ![c] = IF @ = "alive" THEN "eof" ELSE @]
  /\ UNCHANGED <<local, shared, ui, sendFd, fdTab, killed>>

ServerVanishes(c) ==   \* power or cable: nothing reaches the client any more
  /\ server[c] = "up"
  /\ server' = [server EXCEPT ![c] = "down"]
  /\ sock' = [sock EXCEPT ![c] = IF @ = "alive" THEN "silent" ELSE @]
  /\ UNCHANGED <<local, shared, ui, sendFd, fdTab, killed>>

ServerReturns(c) ==
  /\ server[c] = "down"
  /\ server' = [server EXCEPT ![c] = "up"]
  /\ UNCHANGED <<local, shared, ui, sendFd, fdTab, sock, killed>>

OpenFile ==
  /\ Cardinality({f \in Fds : fdTab[f] = File}) < MaxFiles
  /\ \E f \in Fds : LowestFree(f) /\ fdTab' = [fdTab EXCEPT ![f] = File]
  /\ UNCHANGED <<local, shared, ui, sendFd, sock, server, killed>>

CloseFile ==
  /\ \E f \in Fds : fdTab[f] = File /\ Release(f)
  /\ UNCHANGED <<local, shared, ui, sendFd, sock, server, killed>>

Environment ==
  \/ \E c \in Conns : ServerExits(c) \/ ServerVanishes(c) \/ ServerReturns(c)
  \/ OpenFile \/ CloseFile

Stopped == killed \/ \A c \in Conns : pc[c] = "done"

Next ==
  \/ /\ ~killed
     /\ \/ \E c \in Conns : CliProcessThread(c) \/ UiCheckStatus(c) \/ UiDestroy(c)
        \/ UiStep
        \/ Environment
  \/ Stopped /\ UNCHANGED vars

\* Threads are scheduled; a thread waiting for the mutex gets it in the end
\* (strong fairness: the other holder keeps it for one send only).
Fairness ==
  /\ \A c \in Conns : WF_vars(~killed /\ CliProcessThread(c))
  /\ \A c \in Conns : SF_vars(~killed /\ LockBeat(c))
  /\ WF_vars(~killed /\ UiStep)

Spec == Init /\ [][Next]_vars
FairSpec == Spec /\ Fairness
-----------------------------------------------------------------------------
(* Properties.                                                             *)

\* The thread has a descriptor open that is its own.
Holds(c) ==
  \/ pc[c] \in {"connecting", "setFd", "setStatus", "poll", "beat", "beatLock",
               "beatSend", "close"}
  \/ pc[c] \in {"top", "count"} /\ iSocket[c] > 0

\* A descriptor is in the table as the socket of c exactly while thread c
\* holds it in iSocket: no path through connect failure, read error, failed
\* heartbeat, heartbeat timeout or exit leaks a descriptor or keeps a closed
\* one (pmsgcli.c 299-319, 333-347, 430-458, 461-465).
Ownership ==
  \A c \in Conns, f \in Fds : fdTab[f] = c <=> Holds(c) /\ iSocket[c] = f

\* While the thread polls or beats, what it has published in iSockfd and
\* iConnectStatus is its own open socket, and the mutex has the holder the
\* send in progress says.
PublishedBy(c) ==
  /\ \/ pc[c] \in {"setStatus", "poll", "beat", "beatLock", "beatSend", "close"}
     \/ pc[c] \in {"top", "count"} /\ iSocket[c] > 0
     => iSockfd[c] = iSocket[c]
  /\ pc[c] = "beatSend" => sendFd[c] = iSocket[c]
  /\ pc[c] = "beatSend" <=> tPmsgMutex[c] = "thread"
  /\ uiPc = "send" /\ uiConn = c <=> tPmsgMutex[c] = UI

Published == \A c \in Conns : PublishedBy(c)

\* A heartbeat goes to the handle's own server: the thread never writes to a
\* descriptor that has become another server's socket or a file (429, 654).
HeartbeatOwnSocket ==
  \A c \in Conns : pc[c] = "beatSend" => sendFd[c] \in Fds /\ fdTab[sendFd[c]] = c

\* The same for a send of the UI thread (654): what PMSG_SendPmsgData was
\* asked to tell server c is never written to the socket of another server.
SendsToOwnServer ==
  \A f \in Fds : uiPc = "send" /\ sendFd[UI] = f /\ fdTab[f] \in Conns
                  => fdTab[f] = uiConn

\* What makes the properties above inductive: a poll that counts on after a
\* closed socket starts from zero, the socket state belongs to a descriptor
\* that is held, and a descriptor that is not held is not in iSocket.
ProgressOf(c) ==
  /\ Holds(c) => iSocket[c] \in Fds
  /\ ~Holds(c) /\ pc[c] # "clearFd" /\ pc[c] # "exitClear" => iSocket[c] <= 0
  /\ pc[c] \in {"close", "clearFd", "clearStatus"} => iHearCount[c] = 0
  /\ pc[c] = "count" /\ iSocket[c] <= 0 => iHearCount[c] = 0
  /\ sock[c] = "none" <=> ~Holds(c)

Progress == \A c \in Conns : ProgressOf(c)

IInv == TypeOK /\ Ownership /\ Published /\ Progress

\* Only the owner closes a descriptor: a step that frees a file or the socket
\* of d is no step of another thread (338, 432, 449, 463 close iSocket after
\* other code may have been given the same number).
FreedByOwner ==
  \A f \in Fds : fdTab[f] # Free /\ fdTab'[f] = Free
     => \A c \in Conns : pc'[c] # pc[c] => fdTab[f] = c

OwnerCloses == [][FreedByOwner]_vars

\* A server that has silently vanished is noticed: its socket does not stay
\* open for ever, although every heartbeat to it succeeds (445-458).
SilentPeerDropped ==
  \A c \in Conns : sock[c] = "silent" ~> sock[c] # "silent" \/ killed

\* As long as the server stays up the handle keeps coming back to CONNECT,
\* whatever happened to its former sockets (299-320).
Reconnects ==
  \A c \in Conns :
    <>[](server[c] = "up")
      => []<>(iConnectStatus[c] = CONNECT \/ killed \/ ~iThreadRunFlag[c])

\* PMSG_DestroyConnect returns: from any point of its loop, with the mutex
\* contended or the server gone, the thread ends once its flag is cleared.
DestroyReturns ==
  \A c \in Conns : ~iThreadRunFlag[c] ~> pc[c] = "done" \/ killed
=============================================================================
