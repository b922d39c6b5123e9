----------------------------- MODULE LinkProofs -----------------------------
(***************************************************************************)
(* The links of the program: for any number of handles, descriptors and    *)
(* files, whose descriptor a connection uses (PmsgClient); for any bytes   *)
(* and however recv() and read() cut them, which packets and frames are    *)
(* queued (PmsgStream, Rs485Frames).                                       *)
(*                                                                         *)
(* What a recursive function returns is shown by induction over a set of   *)
(* numbers (SetInduction), that it returns anything by Recursion, or       *)
(* backwards over the bytes by ParseExists.                                *)
(***************************************************************************)
EXTENDS PmsgClient, PmsgStream, Rs485Frames, SequenceTheorems, WellFoundedInduction, TLAPS

-----------------------------------------------------------------------------
(* PmsgClient.                                                             *)

\* The initial values have their types.
LEMMA TypeInit == Init => TypeOK
<1> SUFFICES ASSUME Init PROVE TypeOK
  OBVIOUS
<1>1. killed \in BOOLEAN /\ iThreadRunFlag \in [Conns -> BOOLEAN]
  BY Zenon DEF Init
<1>2. iHearCount \in [Conns -> 0..HeartLimit]
  BY LimitAssumption DEF Init
<1> QED
  BY <1>1, <1>2 DEF Init, TypeOK, ThreadPcs, SockStates, UI, NoFd, UNCONNECT,
                    CONNECT, Free

\* Every step of every thread, of the servers and of the files keeps the types.
LEMMA TypeStep == TypeOK /\ [Next]_vars => TypeOK'
<1> SUFFICES ASSUME TypeOK, [Next]_vars PROVE TypeOK'
  OBVIOUS
<1> USE FdsAssumption, LimitAssumption
    DEF TypeOK, ThreadPcs, SockStates, UI, NoFd, UNCONNECT, CONNECT, Free, File,
        Goto, Release, local, shared, ui, kernel
<1>1. ASSUME NEW c \in Conns, Connect(c) PROVE TypeOK'
  BY <1>1 DEF Connect, OpenSocket, ConnectOk, ConnectFail, PublishFd,
              PublishStatus, RetrySleep
<1>2. ASSUME NEW c \in Conns, Poll(c) PROVE TypeOK'
  BY <1>2 DEF Poll, StillConnected, PollData, PollTimeout, PollFail
<1>3. ASSUME NEW c \in Conns, SkipBeat(c) \/ BeginBeat(c) \/ LockBeat(c) PROVE TypeOK'
  BY <1>3 DEF SkipBeat, BeginBeat, LockBeat
<1>4. ASSUME NEW c \in Conns, BeatOk(c) \/ BeatFail(c) PROVE TypeOK'
  <2>1. killed' \in BOOLEAN
    BY <1>4, Zenon DEF BeatOk, BeatFail, SendEffect
  <2>2. /\ fdTab' = fdTab /\ server' = server
        /\ sock' \in [Conns -> SockStates]
    BY <1>4 DEF BeatOk, BeatFail, SendEffect
  <2> QED
    BY <1>4, <2>1, <2>2 DEF BeatOk, BeatFail
<1>5. ASSUME NEW c \in Conns, CountPoll(c) \/ HeartTimeout(c) PROVE TypeOK'
  BY <1>5 DEF CountPoll, HeartTimeout
<1>6. ASSUME NEW c \in Conns, Close(c) PROVE TypeOK'
  BY <1>6 DEF Close, CloseSocket, ClearFd, ClearStatus
<1>7. ASSUME NEW c \in Conns, Exit(c) PROVE TypeOK'
  <2>1. CASE ExitClose(c)
    <3>1. CASE iSocket[c] > 0
      BY <2>1, <3>1 DEF ExitClose
    <3>2. CASE ~(iSocket[c] > 0)
      BY <2>1, <3>2 DEF ExitClose
    <3> QED
      BY <3>1, <3>2
  <2>2. CASE ExitClear(c)
    BY <2>2 DEF ExitClear
  <2> QED
    BY <1>7, <2>1, <2>2 DEF Exit
<1>8. ASSUME NEW c \in Conns, UiCheckStatus(c) \/ UiDestroy(c) PROVE TypeOK'
  <2>1. CASE UiCheckStatus(c)
    BY <2>1 DEF UiCheckStatus
  <2>2. CASE UiDestroy(c)
    <3>1. iThreadRunFlag' \in [Conns -> BOOLEAN]
      BY <2>2, Zenon DEF UiDestroy
    <3> QED
      BY <2>2, <3>1 DEF UiDestroy
  <2> QED
    BY <1>8, <2>1, <2>2
<1>9. ASSUME UiLock \/ UiJoin PROVE TypeOK'
  BY <1>9 DEF UiLock, UiJoin
<1>10. ASSUME UiSend PROVE TypeOK'
  <2>1. killed' \in BOOLEAN
    BY <1>10, Zenon DEF UiSend, SendEffect
  <2>2. /\ fdTab' = fdTab /\ server' = server
        /\ sock' \in [Conns -> SockStates]
    BY <1>10 DEF UiSend, SendEffect
  <2> QED
    BY <1>10, <2>1, <2>2 DEF UiSend
<1>11. ASSUME Environment PROVE TypeOK'
  BY <1>11 DEF Environment, ServerExits, ServerVanishes, ServerReturns,
               OpenFile, CloseFile
<1>12. ASSUME UNCHANGED vars PROVE TypeOK'
  BY <1>12 DEF vars
<1> QED
  BY <1>1, <1>2, <1>3, <1>4, <1>5, <1>6, <1>7, <1>8, <1>9, <1>10, <1>11, <1>12
     DEF Next, CliProcessThread, Beat, UiStep

\* Every variable of the client keeps its type, whichever thread moves.
THEOREM TypeCorrect == Spec => []TypeOK
  BY TypeInit, TypeStep, PTL DEF Spec

-----------------------------------------------------------------------------
\* Initially no descriptor is open and nothing is published.
LEMMA InitInv == Init => Ownership /\ Published /\ Progress
  BY NamesAssumption, FdsAssumption
     DEF Init, Ownership, Published, PublishedBy, Progress, ProgressOf, Holds,
         Free, UI

\* No step of thread c disturbs who owns which descriptor, for any handle.
LEMMA OwnershipStep ==
  ASSUME IInv, NEW c \in Conns, CliProcessThread(c)
  PROVE  Ownership'
<1> USE NamesAssumption, FdsAssumption
    DEF IInv, TypeOK, Ownership, Progress, ProgressOf, Holds, LowestFree, Goto, Release,
        local, shared, ui, kernel, Free, File, UI, NoFd
<1>1. CASE Connect(c)
  BY <1>1 DEF Connect, OpenSocket, ConnectOk, ConnectFail, PublishFd,
              PublishStatus, RetrySleep
<1>2. CASE Poll(c)
  BY <1>2 DEF Poll, StillConnected, PollData, PollTimeout, PollFail
<1>3. CASE Beat(c)
  BY <1>3 DEF Beat, SkipBeat, BeginBeat, LockBeat, BeatOk, BeatFail, CountPoll,
              HeartTimeout, SendEffect
<1>4. CASE Close(c)
  BY <1>4 DEF Close, CloseSocket, ClearFd, ClearStatus
<1>5. CASE Exit(c)
  BY <1>5 DEF Exit, ExitClose, ExitClear
<1> QED
  BY <1>1, <1>2, <1>3, <1>4, <1>5 DEF CliProcessThread

\* A thread changes nothing of another handle, except that its heartbeat may
\* change the state of a socket that exists.
LEMMA OtherHandle ==
  ASSUME IInv, NEW c \in Conns, NEW d \in Conns, d # c, CliProcessThread(c)
  PROVE  /\ pc'[d] = pc[d] /\ iSocket'[d] = iSocket[d] /\ iSockfd'[d] = iSockfd[d]
         /\ iHearCount'[d] = iHearCount[d] /\ sendFd'[d] = sendFd[d]
         /\ tPmsgMutex'[d] = tPmsgMutex[d] /\ uiPc' = uiPc /\ uiConn' = uiConn
         /\ sock'[d] = "none" <=> sock[d] = "none"
<1> USE DEF IInv, TypeOK, Goto, local, shared, ui, kernel
<1>1. CASE OpenSocket(c)
  BY <1>1 DEF OpenSocket, LowestFree
<1>2. CASE ConnectOk(c)
  BY <1>2 DEF ConnectOk
<1>3. CASE ConnectFail(c)
  BY <1>3 DEF ConnectFail
<1>4. CASE PublishFd(c)
  BY <1>4 DEF PublishFd
<1>5. CASE PublishStatus(c)
  BY <1>5 DEF PublishStatus
<1>6. CASE RetrySleep(c)
  BY <1>6 DEF RetrySleep
<1>7. CASE StillConnected(c)
  BY <1>7 DEF StillConnected
<1>8. CASE PollData(c)
  BY <1>8 DEF PollData
<1>9. CASE PollTimeout(c)
  BY <1>9 DEF PollTimeout
<1>10. CASE PollFail(c)
  BY <1>10 DEF PollFail
<1>11. CASE SkipBeat(c)
  BY <1>11 DEF SkipBeat
<1>12. CASE BeginBeat(c)
  BY <1>12 DEF BeginBeat
<1>13. CASE LockBeat(c)
  BY <1>13 DEF LockBeat
<1>14. CASE BeatOk(c)
  BY <1>14 DEF BeatOk, SendEffect
<1>15. CASE BeatFail(c)
  BY <1>15 DEF BeatFail, SendEffect
<1>16. CASE CountPoll(c)
  BY <1>16 DEF CountPoll
<1>17. CASE HeartTimeout(c)
  BY <1>17 DEF HeartTimeout
<1>18. CASE CloseSocket(c)
  BY <1>18 DEF CloseSocket
<1>19. CASE ClearFd(c)
  BY <1>19 DEF ClearFd
<1>20. CASE ClearStatus(c)
  BY <1>20 DEF ClearStatus
<1>21. CASE ExitClose(c)
  BY <1>21 DEF ExitClose
<1>22. CASE ExitClear(c)
  BY <1>22 DEF ExitClear
<1> QED
  BY <1>1, <1>2, <1>3, <1>4, <1>5, <1>6, <1>7, <1>8, <1>9, <1>10,
     <1>11, <1>12, <1>13, <1>14, <1>15, <1>16, <1>17, <1>18,
     <1>19, <1>20, <1>21, <1>22 DEF CliProcessThread, Connect, Poll, Beat,
     Close, Exit

\* Nor what any handle has published of it.
LEMMA PublishedStep ==
  ASSUME IInv, NEW c \in Conns, CliProcessThread(c)
  PROVE  Published'
<1>1. ASSUME NEW d \in Conns, d # c PROVE PublishedBy(d)'
  BY <1>1, OtherHandle DEF IInv, Published, PublishedBy, Progress, ProgressOf, Holds
<1>2. PublishedBy(c)'
  <2>1. /\ TypeOK /\ ProgressOf(c) /\ PublishedBy(c)
        /\ iSocket[c] \in Int /\ \A f \in Fds : f \in Int /\ f > 0
    <3>1. TypeOK /\ ProgressOf(c) /\ PublishedBy(c)
      BY DEF IInv, Progress, Published
    <3>2. iSocket[c] \in Fds \cup {-1, 0}
      BY <3>1 DEF TypeOK, NoFd
    <3>3. \A f \in Fds : f \in Int /\ f > 0
      BY FdsAssumption
    <3>4. iSocket[c] \in Int
      BY <3>2, <3>3
    <3> QED
      BY <3>1, <3>3, <3>4
  <2> USE <2>1, NamesAssumption, FdsAssumption, LimitAssumption
      DEF TypeOK, PublishedBy, ProgressOf, Holds, Goto, Release, local, shared, ui,
          kernel, Free, File, UI, NoFd
  <2>2. CASE OpenSocket(c)
    BY <2>2 DEF OpenSocket, LowestFree
  <2>3. CASE ConnectOk(c)
    BY <2>3 DEF ConnectOk
  <2>4. CASE ConnectFail(c)
    BY <2>4 DEF ConnectFail
  <2>5. CASE PublishFd(c)
    BY <2>5 DEF PublishFd
  <2>6. CASE PublishStatus(c)
    BY <2>6 DEF PublishStatus
  <2>7. CASE RetrySleep(c)
    BY <2>7 DEF RetrySleep
  <2>8. CASE StillConnected(c)
    BY <2>8 DEF StillConnected
  <2>9. CASE PollData(c)
    BY <2>9 DEF PollData
  <2>10. CASE PollTimeout(c)
    BY <2>10 DEF PollTimeout
  <2>11. CASE PollFail(c)
    BY <2>11 DEF PollFail
  <2>12. CASE SkipBeat(c)
    BY <2>12 DEF SkipBeat
  <2>13. CASE BeginBeat(c)
    BY <2>13 DEF BeginBeat
  <2>14. CASE LockBeat(c)
    BY <2>14 DEF LockBeat
  <2>15. CASE BeatOk(c)
    BY <2>15 DEF BeatOk, SendEffect
  <2>16. CASE BeatFail(c)
    BY <2>16 DEF BeatFail, SendEffect
  <2>17. CASE CountPoll(c)
    BY <2>17 DEF CountPoll
  <2>18. CASE HeartTimeout(c)
    BY <2>18 DEF HeartTimeout
  <2>19. CASE CloseSocket(c)
    BY <2>19 DEF CloseSocket
  <2>20. CASE ClearFd(c)
    BY <2>20 DEF ClearFd
  <2>21. CASE ClearStatus(c)
    BY <2>21 DEF ClearStatus
  <2>22. CASE ExitClose(c)
    BY <2>22 DEF ExitClose
  <2>23. CASE ExitClear(c)
    BY <2>23 DEF ExitClear
  <2> QED
    BY <2>2, <2>3, <2>4, <2>5, <2>6, <2>7, <2>8, <2>9, <2>10, <2>11,
       <2>12, <2>13, <2>14, <2>15, <2>16, <2>17, <2>18, <2>19,
       <2>20, <2>21, <2>22, <2>23 DEF CliProcessThread, Connect, Poll, Beat,
       Close, Exit
<1> QED
  BY <1>1, <1>2 DEF Published

\* Nor the shape of its loop: a closed socket restarts the count.
LEMMA ProgressStep ==
  ASSUME IInv, NEW c \in Conns, CliProcessThread(c)
  PROVE  Progress'
<1>1. ASSUME NEW d \in Conns, d # c PROVE ProgressOf(d)'
  BY <1>1, OtherHandle DEF IInv, Published, PublishedBy, Progress, ProgressOf, Holds
<1>2. ProgressOf(c)'
  <2>1. /\ TypeOK /\ ProgressOf(c) /\ PublishedBy(c)
        /\ iSocket[c] \in Int /\ \A f \in Fds : f \in Int /\ f > 0
    <3>1. TypeOK /\ ProgressOf(c) /\ PublishedBy(c)
      BY DEF IInv, Progress, Published
    <3>2. iSocket[c] \in Fds \cup {-1, 0}
      BY <3>1 DEF TypeOK, NoFd
    <3>3. \A f \in Fds : f \in Int /\ f > 0
      BY FdsAssumption
    <3>4. iSocket[c] \in Int
      BY <3>2, <3>3
    <3> QED
      BY <3>1, <3>3, <3>4
  <2> USE <2>1, NamesAssumption, FdsAssumption, LimitAssumption
      DEF TypeOK, PublishedBy, ProgressOf, Holds, Goto, Release, local, shared, ui,
          kernel, Free, File, UI, NoFd
  <2>2. CASE OpenSocket(c)
    BY <2>2 DEF OpenSocket, LowestFree
  <2>3. CASE ConnectOk(c)
    BY <2>3 DEF ConnectOk
  <2>4. CASE ConnectFail(c)
    BY <2>4 DEF ConnectFail
  <2>5. CASE PublishFd(c)
    BY <2>5 DEF PublishFd
  <2>6. CASE PublishStatus(c)
    BY <2>6 DEF PublishStatus
  <2>7. CASE RetrySleep(c)
    BY <2>7 DEF RetrySleep
  <2>8. CASE StillConnected(c)
    BY <2>8 DEF StillConnected
  <2>9. CASE PollData(c)
    BY <2>9 DEF PollData
  <2>10. CASE PollTimeout(c)
    BY <2>10 DEF PollTimeout
  <2>11. CASE PollFail(c)
    BY <2>11 DEF PollFail
  <2>12. CASE SkipBeat(c)
    BY <2>12 DEF SkipBeat
  <2>13. CASE BeginBeat(c)
    BY <2>13 DEF BeginBeat
  <2>14. CASE LockBeat(c)
    BY <2>14 DEF LockBeat
  <2>15. CASE BeatOk(c)
    BY <2>15 DEF BeatOk, SendEffect
  <2>16. CASE BeatFail(c)
    BY <2>16 DEF BeatFail, SendEffect
  <2>17. CASE CountPoll(c)
    BY <2>17 DEF CountPoll
  <2>18. CASE HeartTimeout(c)
    BY <2>18 DEF HeartTimeout
  <2>19. CASE CloseSocket(c)
    BY <2>19 DEF CloseSocket
  <2>20. CASE ClearFd(c)
    BY <2>20 DEF ClearFd
  <2>21. CASE ClearStatus(c)
    BY <2>21 DEF ClearStatus
  <2>22. CASE ExitClose(c)
    BY <2>22 DEF ExitClose
  <2>23. CASE ExitClear(c)
    BY <2>23 DEF ExitClear
  <2> QED
    BY <2>2, <2>3, <2>4, <2>5, <2>6, <2>7, <2>8, <2>9, <2>10, <2>11,
       <2>12, <2>13, <2>14, <2>15, <2>16, <2>17, <2>18, <2>19,
       <2>20, <2>21, <2>22, <2>23 DEF CliProcessThread, Connect, Poll, Beat,
       Close, Exit
<1> QED
  BY <1>1, <1>2 DEF Progress

\* The UI thread and the environment leave sockets with their owners.
LEMMA OthersStep ==
  ASSUME IInv, (\E c \in Conns : UiCheckStatus(c) \/ UiDestroy(c)) \/ UiStep \/ Environment
  PROVE  Ownership' /\ Published' /\ Progress'
<1> USE NamesAssumption, FdsAssumption DEF local, shared, ui, kernel, Free, File, UI, NoFd
<1>1. Ownership'
  BY DEF IInv, TypeOK, Ownership, Holds, UiCheckStatus, UiDestroy, UiStep, UiLock,
         UiJoin, UiSend, SendEffect, Environment, OpenFile, CloseFile, LowestFree,
         Release, ServerExits, ServerVanishes, ServerReturns
<1>2. ASSUME NEW d \in Conns PROVE PublishedBy(d)' /\ ProgressOf(d)'
  <2>1. TypeOK /\ ProgressOf(d) /\ PublishedBy(d) /\ PublishedBy(uiConn)
    BY DEF IInv, TypeOK, Progress, Published
  <2> USE <2>1 DEF TypeOK, PublishedBy, ProgressOf, Holds
  <2>2. CASE \E c \in Conns : UiCheckStatus(c) \/ UiDestroy(c)
    BY <2>2 DEF UiCheckStatus, UiDestroy
  <2>3. CASE UiLock \/ UiJoin
    <3>1. CASE UiLock
      <4>1. CASE uiConn = d
        BY <3>1, <4>1 DEF UiLock
      <4>2. CASE uiConn # d
        BY <3>1, <4>2 DEF UiLock
      <4> QED
        BY <4>1, <4>2
    <3>2. CASE UiJoin
      BY <3>2 DEF UiJoin
    <3> QED
      BY <2>3, <3>1, <3>2
  <2>4. CASE UiSend
    <3>1. sock'[d] = "none" <=> sock[d] = "none"
      BY <2>4 DEF UiSend, SendEffect
    <3>2. /\ uiPc = "send" /\ uiPc' = "idle" /\ pc' = pc /\ iSocket' = iSocket
          /\ iSockfd' = iSockfd /\ iHearCount' = iHearCount
          /\ tPmsgMutex' = [tPmsgMutex EXCEPT ![uiConn] = Free]
          /\ sendFd' = [sendFd EXCEPT ![UI] = NoFd]
      BY <2>4 DEF UiSend
    <3>3. ProgressOf(d)'
      BY <3>1, <3>2
    <3>4. PublishedBy(d)'
      BY <3>2
    <3> QED
      BY <3>3, <3>4
  <2>5. CASE OpenFile \/ CloseFile
    BY <2>5 DEF OpenFile, CloseFile, LowestFree, Release
  <2>6. CASE \E c \in Conns : ServerExits(c) \/ ServerVanishes(c) \/ ServerReturns(c)
    BY <2>6 DEF ServerExits, ServerVanishes, ServerReturns
  <2> QED
    BY <2>2, <2>3, <2>4, <2>5, <2>6 DEF UiStep, Environment
<1> QED
  BY <1>1, <1>2 DEF Published, Progress

\* IInv is inductive.
LEMMA InvStep == IInv /\ [Next]_vars => IInv'
<1> SUFFICES ASSUME IInv, [Next]_vars PROVE IInv'
  OBVIOUS
<1>1. TypeOK'
  BY TypeStep DEF IInv
<1>2. Ownership' /\ Published' /\ Progress'
  <2>1. CASE \E c \in Conns : CliProcessThread(c)
    BY <2>1, OwnershipStep, PublishedStep, ProgressStep
  <2>2. CASE (\E c \in Conns : UiCheckStatus(c) \/ UiDestroy(c)) \/ UiStep \/ Environment
    BY <2>2, OthersStep
  <2>3. CASE UNCHANGED vars
    BY <2>3 DEF IInv, Ownership, Published, PublishedBy, Progress, ProgressOf, Holds, vars, local, shared,
                ui, kernel
  <2> QED
    BY <2>1, <2>2, <2>3 DEF Next
<1> QED
  BY <1>1, <1>2 DEF IInv

\* The inductive invariant holds of every run, so descriptors are neither
\* leaked nor kept after close(), for any number of handles and descriptors.
THEOREM OwnershipCorrect == Spec => [](Ownership /\ Published)
<1>1. Init => IInv
  BY TypeInit, InitInv DEF IInv
<1>2. IInv => Ownership /\ Published
  BY DEF IInv
<1> QED
  BY <1>1, <1>2, InvStep, PTL DEF Spec

\* A heartbeat is written to the handle's own socket and to nothing else.
THEOREM HeartbeatCorrect == Spec => []HeartbeatOwnSocket
<1>1. Init => IInv
  BY TypeInit, InitInv DEF IInv
<1>2. IInv => HeartbeatOwnSocket
  BY DEF IInv, TypeOK, Ownership, Published, PublishedBy, Progress, ProgressOf,
         Holds, HeartbeatOwnSocket
<1> QED
  BY <1>1, <1>2, InvStep, PTL DEF Spec

\* No thread closes a descriptor that belongs to another handle or a file.
THEOREM OwnerClosesCorrect == Spec => OwnerCloses
<1>1. Init => IInv
  BY TypeInit, InitInv DEF IInv
<1>2. IInv /\ [Next]_vars => [FreedByOwner]_vars
  <2> SUFFICES ASSUME IInv, Next,
                      NEW f \in Fds, fdTab[f] # Free, fdTab'[f] = Free,
                      NEW d \in Conns, pc'[d] # pc[d]
               PROVE  fdTab[f] = d
    BY DEF FreedByOwner
  <2> USE DEF local, shared, ui, kernel
  <2>1. CASE \E c \in Conns : CliProcessThread(c)
    <3>1. PICK c \in Conns : CliProcessThread(c)
      BY <2>1
    <3>2. c = d
      BY <3>1, OtherHandle
    <3>3. fdTab' # fdTab
      OBVIOUS
    <3>4. ConnectFail(d) \/ CloseSocket(d) \/ ExitClose(d) \/ OpenSocket(d)
      BY <3>1, <3>2, <3>3
         DEF CliProcessThread, Connect, Poll, Beat, Close, Exit, ConnectOk, PublishFd,
             PublishStatus, RetrySleep, StillConnected, PollData, PollTimeout,
             PollFail, SkipBeat, BeginBeat, LockBeat, BeatOk, BeatFail, SendEffect,
             CountPoll, HeartTimeout, ClearFd, ClearStatus, ExitClear
    <3>5. f = iSocket[d] /\ Holds(d)
      BY <3>4, NamesAssumption
         DEF IInv, TypeOK, ConnectFail, CloseSocket, ExitClose, OpenSocket, Release,
             Holds
    <3> QED
      BY <3>5 DEF IInv, Ownership
  <2>2. CASE (\E c \in Conns : UiCheckStatus(c) \/ UiDestroy(c)) \/ UiStep \/ Environment
    BY <2>2 DEF UiCheckStatus, UiDestroy, UiStep, UiLock, UiJoin, UiSend, Environment,
                ServerExits, ServerVanishes, ServerReturns, OpenFile, CloseFile
  <2>3. CASE UNCHANGED vars
    BY <2>3 DEF vars
  <2> QED
    BY <2>1, <2>2, <2>3 DEF Next
<1> QED
  BY <1>1, <1>2, InvStep, PTL DEF Spec, OwnerCloses

-----------------------------------------------------------------------------
(* Rs485Frames.                                                            *)

\* The n bytes read go behind those in the buffer, the others stay.
Placed(n) ==
  [i \in 1..RECV_BUF_SIZE |-> IF i - iPos \in 1..n THEN line[i - iPos] ELSE pcRecvBuf[i]]

\* The first state has the types.
LEMMA SerialTypeInit ==
  SerialInit => SerialTypeOK
<1> SUFFICES ASSUME SerialInit
             PROVE  SerialTypeOK
  OBVIOUS
<1>1. 0 \in Bytes /\ 0 \in 0..RECV_BUF_SIZE - 1
  BY SerialAssumption DEF Bytes
<1>2. pcRecvBuf \in [1..RECV_BUF_SIZE -> Bytes \cup {FrameHeader}]
  BY <1>1 DEF SerialInit
<1> QED
  BY <1>1, <1>2 DEF SerialInit, SerialTypeOK

\* The checksum in a signed char: a header is never a frame's data.
LEMMA FrameData ==
  ASSUME SerialTypeOK, IsFrame
  PROVE  pcRecvBuf[2] \in Bytes /\ iPos >= 2
<1>1. iPos \in 0..RECV_BUF_SIZE - 1 /\ RECV_BUF_SIZE \in Nat /\ iPos >= 3
  BY SerialAssumption DEF SerialTypeOK, IsFrame, Length
<1>2. 2 \in 1..RECV_BUF_SIZE /\ 3 \in 1..RECV_BUF_SIZE
  BY <1>1
<1>3. pcRecvBuf[2] \in Bytes \cup {FrameHeader} /\ pcRecvBuf[3] \in Bytes \cup {FrameHeader}
  BY <1>2 DEF SerialTypeOK
<1>4. SerialBase \in Nat /\ SerialBase > 0
  BY SerialAssumption
<1>5. pcRecvBuf[2] # FrameHeader
  <2> SUFFICES ASSUME pcRecvBuf[2] = FrameHeader
               PROVE  FALSE
    OBVIOUS
  <2>1. 2 * SerialBase >= SerialBase \div 2
    BY <1>4
  <2>2. pcRecvBuf[3] = 2 * SerialBase - SerialBase
    BY <2>1 DEF IsFrame, Signed, FrameHeader
  <2> QED
    BY <1>3, <1>4, <2>2 DEF Bytes, FrameHeader
<1> QED
  BY <1>1, <1>3, <1>5

\* A read leaves bytes in the buffer and its position inside.
LEMMA ReadType ==
  ASSUME SerialTypeOK, NEW n \in 1..Len(line), iPos + n <= RECV_BUF_SIZE
  PROVE  /\ Placed(n) \in [1..RECV_BUF_SIZE -> Bytes \cup {FrameHeader}]
         /\ (iPos + n) % RECV_BUF_SIZE \in 0..RECV_BUF_SIZE - 1
         /\ SubSeq(line, n + 1, Len(line)) \in Seq(Bytes \cup {FrameHeader})
<1>1. /\ line \in Seq(Bytes \cup {FrameHeader})
      /\ pcRecvBuf \in [1..RECV_BUF_SIZE -> Bytes \cup {FrameHeader}]
      /\ iPos \in 0..RECV_BUF_SIZE - 1 /\ RECV_BUF_SIZE \in Nat /\ RECV_BUF_SIZE > 0
  BY SerialAssumption DEF SerialTypeOK
<1>2. \A k \in 1..n : line[k] \in Bytes \cup {FrameHeader}
  BY <1>1
<1>3. Placed(n) \in [1..RECV_BUF_SIZE -> Bytes \cup {FrameHeader}]
  BY <1>1, <1>2 DEF Placed
<1>4. (iPos + n) % RECV_BUF_SIZE \in 0..RECV_BUF_SIZE - 1
  BY <1>1
<1>5. SubSeq(line, n + 1, Len(line)) \in Seq(Bytes \cup {FrameHeader})
  BY <1>1
<1> QED
  BY <1>3, <1>4, <1>5

\* What arrives of a frame are its bytes.
LEMMA ArrivesType ==
  ASSUME NEW d, NEW bytes \in Arrives(d)
  PROVE  bytes \in Seq({d, FrameHeader})
<1> DEFINE S == {d, FrameHeader}
<1>1. d \in S /\ FrameHeader \in S
  OBVIOUS
<1> HIDE DEF S
<1>2. <<>> \in Seq(S) /\ <<d>> \in Seq(S) /\ <<FrameHeader>> \in Seq(S)
  BY <1>1
<1>3. <<d, d>> \in Seq(S) /\ <<FrameHeader, d>> \in Seq(S)
  BY <1>1
<1>4. <<FrameHeader, d, d>> \in Seq(S)
  BY <1>1
<1>5. bytes \in Seq(S)
  BY <1>2, <1>3, <1>4, Zenon DEF Arrives
<1> QED
  BY <1>5 DEF S

\* Every step keeps the types.
LEMMA SerialTypeStep ==
  SerialTypeOK /\ [SerialNext]_serialVars => SerialTypeOK'
<1> SUFFICES ASSUME SerialTypeOK, [SerialNext]_serialVars
             PROVE  SerialTypeOK'
  OBVIOUS
<1>1. ASSUME Send
      PROVE  SerialTypeOK'
  <2>1. PICK d \in Bytes \ ToSet(serialSent) : \E bytes \in Arrives(d) :
          serialSent' = Append(serialSent, d) /\ line' = line \o bytes
    BY <1>1 DEF Send
  <2>2. PICK bytes \in Arrives(d) : line' = line \o bytes
    BY <2>1
  <2>3. bytes \in Seq(Bytes \cup {FrameHeader})
    <3>1. bytes \in Seq({d, FrameHeader})
      BY ArrivesType
    <3> QED
      BY <3>1
  <2>4. line' \in Seq(Bytes \cup {FrameHeader}) /\ serialSent' \in Seq(Bytes)
    BY <2>1, <2>2, <2>3 DEF SerialTypeOK
  <2> QED
    BY <1>1, <2>4 DEF Send, SerialTypeOK
<1>2. ASSUME Read
      PROVE  SerialTypeOK'
  <2>1. PICK n \in 1..Len(line) :
          /\ iPos + n <= RECV_BUF_SIZE /\ pcRecvBuf' = Placed(n)
          /\ iPos' = (iPos + n) % RECV_BUF_SIZE
          /\ line' = SubSeq(line, n + 1, Len(line))
    BY <1>2 DEF Read, Placed
  <2> QED
    BY <1>2, <2>1, ReadType DEF Read, SerialTypeOK
<1>3. ASSUME Quiet
      PROVE  SerialTypeOK'
  <2>1. queued' \in Seq(Bytes)
    BY <1>3, FrameData DEF Quiet, SerialTypeOK
  <2>2. 0 \in 0..RECV_BUF_SIZE - 1
    BY SerialAssumption
  <2> QED
    BY <1>3, <2>1, <2>2 DEF Quiet, SerialTypeOK
<1>4. ASSUME UNCHANGED serialVars
      PROVE  SerialTypeOK'
  BY <1>4 DEF serialVars, SerialTypeOK
<1> QED
  BY <1>1, <1>2, <1>3, <1>4 DEF SerialNext

\* The buffer of the serial link is never written past its end and only data
\* of frames are queued (rs485serv.c 371-434).
THEOREM SerialTypeCorrect == SerialSpec => []SerialTypeOK
  BY SerialTypeInit, SerialTypeStep, PTL DEF SerialSpec

\* Data of the frames s behind the m-th, or a header.
FromLater(s, m, b) ==
  b = FrameHeader \/ \E k \in m + 1..Len(s) : b = s[k]

\* The frames q are among the first m of s, in their order and none twice.
Subsequence(q, s, m) ==
  \E place \in [DOMAIN q -> 1..m] :
    /\ \A i, j \in DOMAIN q : i < j => place[i] < place[j]
    /\ \A i \in DOMAIN q : q[i] = s[place[i]]

\* What the buffer holds up to its position, and the line, was sent later
\* than what is queued.
SerialInv ==
  /\ SerialTypeOK
  /\ \E m \in 0..Len(serialSent) :
       /\ Subsequence(queued, serialSent, m)
       /\ \A i \in 1..iPos : FromLater(serialSent, m, pcRecvBuf[i])
       /\ \A i \in 1..Len(line) : FromLater(serialSent, m, line[i])

\* The invariant holds in the first state.
LEMMA SerialInvInit ==
  SerialInit => SerialInv
<1> SUFFICES ASSUME SerialInit
             PROVE  SerialInv
  OBVIOUS
<1>1. DOMAIN queued = {} /\ Len(serialSent) = 0 /\ Len(line) = 0 /\ iPos = 0
  BY DEF SerialInit
<1>2. Subsequence(queued, serialSent, 0)
  <2> DEFINE place == [i \in DOMAIN queued |-> 0]
  <2>1. place \in [DOMAIN queued -> 1..0]
    BY <1>1
  <2> QED
    BY <1>1, <2>1, Zenon DEF Subsequence
<1> QED
  BY <1>1, <1>2, SerialTypeInit DEF SerialInv

\* A frame sent is later than any that is queued.
LEMMA SendInv ==
  ASSUME SerialInv, Send
  PROVE  SerialInv'
<1>1. SerialTypeOK /\ SerialTypeOK'
  BY SerialTypeStep DEF SerialInv, SerialNext
<1>2. PICK m \in 0..Len(serialSent) :
        /\ Subsequence(queued, serialSent, m)
        /\ \A i \in 1..iPos : FromLater(serialSent, m, pcRecvBuf[i])
        /\ \A i \in 1..Len(line) : FromLater(serialSent, m, line[i])
  BY DEF SerialInv
<1>3. PICK d \in Bytes : \E bytes \in Arrives(d) :
        serialSent' = Append(serialSent, d) /\ line' = line \o bytes
  BY DEF Send
<1>4. PICK bytes \in Arrives(d) : line' = line \o bytes
  BY <1>3
<1>5. bytes \in Seq({d, FrameHeader})
  BY ArrivesType
<1>6. /\ Len(serialSent') = Len(serialSent) + 1 /\ serialSent'[Len(serialSent) + 1] = d
      /\ \A k \in 1..Len(serialSent) : serialSent'[k] = serialSent[k]
      /\ Len(serialSent) \in Nat
  BY <1>1, <1>3 DEF SerialTypeOK
<1>7. m \in 0..Len(serialSent') /\ UNCHANGED <<pcRecvBuf, iPos, queued>>
  BY <1>6 DEF Send
<1>8. \A b : FromLater(serialSent, m, b) => FromLater(serialSent', m, b)
  BY <1>6 DEF FromLater
<1>9. FromLater(serialSent', m, d) /\ FromLater(serialSent', m, FrameHeader)
  <2>1. Len(serialSent) + 1 \in m + 1..Len(serialSent')
    BY <1>6
  <2> QED
    BY <1>6, <2>1 DEF FromLater
<1>10. Subsequence(queued', serialSent', m)
  <2>1. PICK place \in [DOMAIN queued -> 1..m] :
          /\ \A i, j \in DOMAIN queued : i < j => place[i] < place[j]
          /\ \A i \in DOMAIN queued : queued[i] = serialSent[place[i]]
    BY <1>2 DEF Subsequence
  <2>2. \A i \in DOMAIN queued : place[i] \in 1..Len(serialSent)
    BY <1>6, <2>1
  <2> QED
    BY <1>6, <1>7, <2>1, <2>2 DEF Subsequence
<1>11. ASSUME NEW i \in 1..Len(line')
       PROVE  FromLater(serialSent', m, line'[i])
  <2>1. line \in Seq(Bytes \cup {FrameHeader})
    BY <1>1 DEF SerialTypeOK
  <2>2. CASE i \in 1..Len(line)
    <3>1. line'[i] = line[i]
      BY <1>4, <1>5, <2>1, <2>2
    <3>2. FromLater(serialSent, m, line[i])
      BY <1>2, <2>2
    <3> QED
      BY <1>8, <3>1, <3>2
  <2>3. CASE i \notin 1..Len(line)
    <3>1. i - Len(line) \in 1..Len(bytes) /\ line'[i] = bytes[i - Len(line)]
      BY <1>4, <1>5, <2>1, <2>3
    <3>2. bytes[i - Len(line)] \in {d, FrameHeader}
      BY <1>5, <3>1
    <3> QED
      BY <1>9, <3>1, <3>2
  <2> QED
    BY <2>2, <2>3
<1>12. \A i \in 1..iPos' : FromLater(serialSent', m, pcRecvBuf'[i])
  BY <1>2, <1>7, <1>8
<1> QED
  BY <1>1, <1>7, <1>10, <1>11, <1>12 DEF SerialInv

\* Reading moves bytes from the line to the buffer.
LEMMA ReadInv ==
  ASSUME SerialInv, Read
  PROVE  SerialInv'
<1>1. SerialTypeOK /\ SerialTypeOK'
  BY SerialTypeStep DEF SerialInv, SerialNext
<1>2. PICK m \in 0..Len(serialSent) :
        /\ Subsequence(queued, serialSent, m)
        /\ \A i \in 1..iPos : FromLater(serialSent, m, pcRecvBuf[i])
        /\ \A i \in 1..Len(line) : FromLater(serialSent, m, line[i])
  BY DEF SerialInv
<1>3. PICK n \in 1..Len(line) :
        /\ iPos + n <= RECV_BUF_SIZE /\ pcRecvBuf' = Placed(n)
        /\ iPos' = (iPos + n) % RECV_BUF_SIZE
        /\ line' = SubSeq(line, n + 1, Len(line))
  BY DEF Read, Placed
<1>4. UNCHANGED <<serialSent, queued>>
  BY DEF Read
<1>5. /\ line \in Seq(Bytes \cup {FrameHeader}) /\ Len(line) \in Nat
      /\ iPos \in 0..RECV_BUF_SIZE - 1 /\ RECV_BUF_SIZE \in Nat /\ RECV_BUF_SIZE > 0
  BY <1>1, SerialAssumption DEF SerialTypeOK
<1>6. \A i \in 1..Len(line') : n + i \in 1..Len(line) /\ line'[i] = line[n + i]
  <2>1. Len(line') = Len(line) - n
    BY <1>3, <1>5
  <2>2. ASSUME NEW i \in 1..Len(line')
        PROVE  n + i \in 1..Len(line) /\ line'[i] = line[n + i]
    <3>1. n + i \in 1..Len(line) /\ i \in 1..Len(line) - n
      BY <1>5, <2>1, <2>2
    <3>2. line'[i] = line[(n + 1) + i - 1]
      BY <1>3, <1>5, <3>1
    <3> QED
      BY <1>5, <3>1, <3>2
  <2> QED
    BY <2>2
<1>7. \A i \in 1..Len(line') : FromLater(serialSent, m, line'[i])
  BY <1>2, <1>6
<1>8. iPos' <= iPos + n
  <2>1. CASE iPos + n = RECV_BUF_SIZE
    BY <1>3, <1>5, <2>1
  <2>2. CASE iPos + n < RECV_BUF_SIZE
    BY <1>3, <1>5, <2>2
  <2> QED
    BY <1>3, <1>5, <2>1, <2>2
<1>9. ASSUME NEW i \in 1..iPos'
      PROVE  FromLater(serialSent, m, pcRecvBuf'[i])
  <2>1. iPos' \in 0..RECV_BUF_SIZE - 1
    BY <1>1 DEF SerialTypeOK
  <2>2. i \in 1..RECV_BUF_SIZE /\ i <= iPos + n
    BY <1>5, <1>8, <2>1
  <2>3. CASE i <= iPos
    <3>1. i \in 1..iPos /\ ~(i - iPos \in 1..n)
      BY <1>5, <2>3
    <3>2. pcRecvBuf'[i] = pcRecvBuf[i]
      BY <1>3, <2>2, <3>1 DEF Placed
    <3> QED
      BY <1>2, <3>1, <3>2
  <2>4. CASE i > iPos
    <3>1. i - iPos \in 1..n /\ i - iPos \in 1..Len(line)
      BY <1>5, <2>2, <2>4
    <3>2. pcRecvBuf'[i] = line[i - iPos]
      BY <1>3, <2>2, <3>1 DEF Placed
    <3> QED
      BY <1>2, <3>1, <3>2
  <2> QED
    BY <1>5, <2>3, <2>4
<1>10. Subsequence(queued', serialSent', m) /\ \A b : FromLater(serialSent, m, b) => FromLater(serialSent', m, b)
  BY <1>2, <1>4 DEF Subsequence, FromLater
<1> QED
  BY <1>1, <1>4, <1>7, <1>9, <1>10 DEF SerialInv

\* When the line is quiet, all that was sent is behind; what is queued then
\* was in the buffer and so was sent later than what is queued already.
LEMMA QuietInv ==
  ASSUME SerialInv, Quiet
  PROVE  SerialInv'
<1>1. SerialTypeOK /\ SerialTypeOK'
  BY SerialTypeStep DEF SerialInv, SerialNext
<1>2. PICK m \in 0..Len(serialSent) :
        /\ Subsequence(queued, serialSent, m)
        /\ \A i \in 1..iPos : FromLater(serialSent, m, pcRecvBuf[i])
        /\ \A i \in 1..Len(line) : FromLater(serialSent, m, line[i])
  BY DEF SerialInv
<1>3. PICK place \in [DOMAIN queued -> 1..m] :
        /\ \A i, j \in DOMAIN queued : i < j => place[i] < place[j]
        /\ \A i \in DOMAIN queued : queued[i] = serialSent[place[i]]
  BY <1>2 DEF Subsequence
<1> DEFINE n == Len(serialSent)
<1>4. n \in Nat /\ queued \in Seq(Bytes) /\ DOMAIN queued = 1..Len(queued) /\ Len(queued) \in Nat
  BY <1>1 DEF SerialTypeOK
<1>5. UNCHANGED serialSent /\ line' = <<>> /\ iPos' = 0
  BY DEF Quiet
<1>6. CASE queued' = queued
  <2>1. place \in [DOMAIN queued -> 1..n]
    BY <1>3, <1>4
  <2>2. Subsequence(queued', serialSent', n)
    BY <1>3, <1>5, <1>6, <2>1 DEF Subsequence
  <2>3. n \in 0..n /\ Len(line') = 0
    BY <1>4, <1>5
  <2> QED
    BY <1>1, <1>5, <2>2, <2>3 DEF SerialInv
<1>7. CASE queued' # queued
  <2>1. IsFrame /\ queued' = Append(queued, pcRecvBuf[2])
    BY <1>7 DEF Quiet
  <2>2. pcRecvBuf[2] \in Bytes /\ 2 \in 1..iPos
    <3>1. pcRecvBuf[2] \in Bytes /\ iPos >= 2
      BY <1>1, <2>1, FrameData
    <3> QED
      BY <1>1, <3>1 DEF SerialTypeOK
  <2>3. PICK k \in m + 1..n : pcRecvBuf[2] = serialSent[k]
    <3>1. pcRecvBuf[2] # FrameHeader
      BY <2>2, SerialAssumption DEF Bytes, FrameHeader
    <3> QED
      BY <1>2, <2>2, <3>1 DEF FromLater
  <2> DEFINE l == Len(queued) + 1
             more == [i \in 1..l |-> IF i = l THEN k ELSE place[i]]
  <2>4. DOMAIN queued' = 1..l /\ queued'[l] = serialSent[k]
        /\ \A i \in 1..Len(queued) : queued'[i] = queued[i]
    <3>1. pcRecvBuf[2] \in Bytes
      BY <2>2
    <3> DEFINE b == pcRecvBuf[2]
    <3> HIDE DEF b
    <3>2. queued' = Append(queued, b) /\ b \in Bytes /\ b = serialSent[k]
      BY <2>1, <2>2, <2>3 DEF b
    <3>3. DOMAIN queued' = 1..l
      BY <1>4, <3>2
    <3>4. queued'[l] = b
      BY <1>4, <3>2
    <3>5. \A i \in 1..Len(queued) : queued'[i] = queued[i]
      BY <1>4, <3>2
    <3> QED
      BY <3>2, <3>3, <3>4, <3>5
  <2>5. \A i \in 1..l : i # l => i \in 1..Len(queued) /\ place[i] \in 1..m
    <3>1. \A i \in 1..l : i # l => i \in 1..Len(queued)
      BY <1>4
    <3>2. \A i \in 1..Len(queued) : place[i] \in 1..m
      BY <1>3, <1>4
    <3> QED
      BY <3>1, <3>2
  <2>6. more \in [1..l -> 1..n]
    <3>1. 1..m \subseteq 1..n /\ k \in 1..n
      BY <1>4, <2>3
    <3> QED
      BY <2>5, <3>1
  <2>7. \A i, j \in 1..l : i < j => more[i] < more[j]
    <3> SUFFICES ASSUME NEW i \in 1..l, NEW j \in 1..l, i < j
                 PROVE  more[i] < more[j]
      OBVIOUS
    <3>1. i # l /\ more[i] = place[i] /\ i \in 1..Len(queued) /\ place[i] \in 1..m
      BY <1>4, <2>5
    <3>2. CASE j = l
      <4>1. more[j] = k
        BY <3>2
      <4> HIDE DEF more
      <4> QED
        BY <2>3, <3>1, <4>1
    <3>3. CASE j # l
      <4>1. more[j] = place[j] /\ j \in 1..Len(queued)
        BY <2>5, <3>3
      <4> HIDE DEF more
      <4> QED
        BY <1>3, <1>4, <3>1, <4>1
    <3> QED
      BY <3>2, <3>3
  <2>8. \A i \in 1..l : queued'[i] = serialSent[more[i]]
    BY <1>3, <1>4, <2>4, <2>5
  <2> HIDE DEF more
  <2>9. Subsequence(queued', serialSent', n)
    BY <1>5, <2>4, <2>6, <2>7, <2>8 DEF Subsequence
  <2>10. n \in 0..n /\ Len(line') = 0
    BY <1>4, <1>5
  <2> QED
    BY <1>1, <1>5, <2>9, <2>10 DEF SerialInv
<1> QED
  BY <1>6, <1>7

\* The frames queued are frames that were sent, in their order and each once,
\* whatever is lost and however frames run together (FramesAsSent;
\* rs485serv.c 371-526).
THEOREM FramesCorrect == SerialSpec => []FramesAsSent
<1>1. SerialInv /\ [SerialNext]_serialVars => SerialInv'
  <2> SUFFICES ASSUME SerialInv, [SerialNext]_serialVars
               PROVE  SerialInv'
    OBVIOUS
  <2>1. CASE UNCHANGED serialVars
    <3>1. UNCHANGED <<serialSent, line, pcRecvBuf, iPos, queued>>
      BY <2>1 DEF serialVars
    <3> QED
      BY <3>1 DEF SerialInv, SerialTypeOK
  <2> QED
    BY <2>1, SendInv, ReadInv, QuietInv DEF SerialNext
<1>2. ASSUME SerialInv
      PROVE  FramesAsSent
  <2>1. PICK m \in 0..Len(serialSent) : Subsequence(queued, serialSent, m)
    BY <1>2 DEF SerialInv
  <2>2. DOMAIN serialSent = 1..Len(serialSent) /\ Len(serialSent) \in Nat
    BY <1>2 DEF SerialInv, SerialTypeOK
  <2>3. PICK place \in [DOMAIN queued -> 1..m] :
          /\ \A i, j \in DOMAIN queued : i < j => place[i] < place[j]
          /\ \A i \in DOMAIN queued : queued[i] = serialSent[place[i]]
    BY <2>1 DEF Subsequence
  <2>4. place \in [DOMAIN queued -> DOMAIN serialSent]
    BY <2>2, <2>3
  <2> QED
    BY <2>3, <2>4 DEF FramesAsSent
<1> QED
  BY <1>1, <1>2, SerialInvInit, PTL DEF SerialSpec

-----------------------------------------------------------------------------
(* Recursion, for PmsgStream.                                              *)

\* Induction over the natural numbers, for a set.
LEMMA SetInduction ==
  ASSUME NEW S, 0 \in S, \A n \in Nat : n \in S => n + 1 \in S
  PROVE  Nat \subseteq S
<1> DEFINE T == Nat \ S
<1> SUFFICES ASSUME T # {} PROVE FALSE
  OBVIOUS
<1>1. \A x, y \in Nat : x < y => <<x, y>> \in OpToRel(<, Nat)
  BY DEF OpToRel
<1>2. PICK m \in T : \A y \in T : ~(<<y, m>> \in OpToRel(<, Nat))
  BY NatLessThanWellFounded, WFMin
<1>3. m # 0 /\ m - 1 \in Nat /\ m - 1 < m
  OBVIOUS
<1>4. m - 1 \notin T
  BY <1>1, <1>2, <1>3
<1> QED
  BY <1>3, <1>4

\* A function by recursion over 0..n, with a step that is a function, has a
\* value.
LEMMA Recursion ==
  ASSUME NEW X, NEW a \in X, NEW n \in Nat, NEW step \in [1..n -> [X -> X]]
  PROVE  \E f : /\ f \in [0..n -> X] /\ f[0] = a
                /\ \A i \in 1..n : f[i] = step[i][f[i - 1]]
<1> DEFINE Up(f, m) == /\ f \in [0..n -> X] /\ f[0] = a
                       /\ \A i \in 1..m : f[i] = step[i][f[i - 1]]
           S == {m \in Nat : m <= n => \E f : Up(f, m)}
<1>1. 0 \in S
  <2> DEFINE f == [i \in 0..n |-> a]
  <2>1. f \in [0..n -> X] /\ f[0] = a
    OBVIOUS
  <2>2. \A i \in 1..0 : FALSE
    OBVIOUS
  <2>3. Up(f, 0)
    BY <2>1, <2>2, Zenon
  <2> QED
    BY <2>3, Zenon
<1>2. ASSUME NEW m \in Nat, m \in S PROVE m + 1 \in S
  <2>0. m + 1 \in Nat
    OBVIOUS
  <2> SUFFICES ASSUME m + 1 <= n PROVE \E f : Up(f, m + 1)
    BY <2>0, Zenon
  <2>1. PICK f : Up(f, m)
    <3>1. m <= n
      OBVIOUS
    <3> QED
      BY <1>2, <3>1, Zenon
  <2>2. f \in [0..n -> X] /\ f[0] = a /\ \A i \in 1..m : f[i] = step[i][f[i - 1]]
    BY <2>1
  <2> HIDE DEF Up
  <2>3. m \in 0..n /\ m + 1 \in 1..n /\ m + 1 \in 0..n /\ f[m] \in X
    BY <2>2
  <2>4. step[m + 1] \in [X -> X]
    BY <2>3
  <2> DEFINE v == step[m + 1][f[m]]
             g == [f EXCEPT ![m + 1] = v]
  <2>5. v \in X
    BY <2>3, <2>4
  <2> HIDE DEF v
  <2>6. g \in [0..n -> X] /\ g[m + 1] = v /\ \A i \in 0..n : i # m + 1 => g[i] = f[i]
    BY <2>2, <2>3, <2>5
  <2> HIDE DEF g
  <2>7. g[0] = a /\ g[m] = f[m]
    BY <2>2, <2>3, <2>6
  <2>8. \A i \in 1..m + 1 : g[i] = step[i][g[i - 1]]
    <3> SUFFICES ASSUME NEW i \in 1..m + 1 PROVE g[i] = step[i][g[i - 1]]
      OBVIOUS
    <3>1. CASE i = m + 1
      <4>1. i - 1 = m
        BY <3>1
      <4> QED
        BY <2>6, <2>7, <3>1, <4>1 DEF v
    <3>2. CASE i # m + 1
      <4>1. i \in 1..m /\ i \in 0..n /\ i - 1 \in 0..n /\ i - 1 # m + 1
        BY <2>3, <3>2
      <4>2. g[i] = f[i] /\ g[i - 1] = f[i - 1]
        BY <2>6, <3>2, <4>1
      <4> QED
        BY <2>2, <4>1, <4>2
    <3> QED
      BY <3>1, <3>2
  <2>9. Up(g, m + 1)
    BY <2>6, <2>7, <2>8 DEF Up
  <2> QED
    BY <2>9, Zenon
<1>3. Nat \subseteq S
  <2> HIDE DEF S
  <2> QED
    BY <1>1, <1>2, SetInduction
<1>4. n \in S /\ n <= n
  <2> HIDE DEF S
  <2> QED
    BY <1>3
<1>5. PICK f : Up(f, n)
  BY <1>4, Zenon
<1> QED
  BY <1>5

\* Bytes are numbers, the start flag is one, and so are the types.
LEMMA Bytewise ==
  /\ Base \in Nat /\ Base > 0 /\ 0 \in Byte /\ Byte \subseteq Nat
  /\ MSG_START_FLAG \in Byte /\ Heart \in Byte /\ Report \in Byte
  /\ MaxData \in Nat /\ LenLimit \in Nat /\ MaxData <= LenLimit /\ 0..MaxData \subseteq Byte
BY StreamAssumption DEF Byte, MSG_START_FLAG

\* Recursion from a over 0..n has a value for every n and every step.
HasRecursion(X, a) ==
  \A n \in Nat : \A step \in [1..n -> [X -> X]] :
    \E f : /\ f \in [0..n -> X] /\ f[0] = a
           /\ \A i \in 1..n : f[i] = step[i][f[i - 1]]

\* It has for bytes, numbers and sequences of messages.
LEMMA RecursionOn ==
  /\ HasRecursion(Byte, 0) /\ HasRecursion(Nat, 0) /\ HasRecursion(Seq(Messages), <<>>)
<1>1. ASSUME NEW X, NEW a \in X
      PROVE  HasRecursion(X, a)
  BY Recursion DEF HasRecursion
<1>2. 0 \in Byte /\ 0 \in Nat /\ <<>> \in Seq(Messages)
  BY Bytewise
<1> QED
  BY <1>1, <1>2, Zenon

\* The checksum is a byte (46-62).
LEMMA EccByte ==
  ASSUME NEW bytes \in Seq(Byte)
  PROVE  Ecc(bytes) \in Byte
<1> DEFINE IsSum(f) == f = [i \in 0..Len(bytes) |->
                              IF i = 0 THEN 0 ELSE Xor(f[i - 1], bytes[i])]
<1>1. PICK n \in Nat : n = Len(bytes)
  OBVIOUS
<1>2. \A i \in 1..n, x \in Byte : Xor(x, bytes[i]) \in Byte
  <2>1. \A i \in 1..n : bytes[i] \in Byte
    BY <1>1
  <2> QED
    BY <2>1, StreamAssumption DEF Byte
<1>3. PICK step \in [1..n -> [Byte -> Byte]] :
        \A i \in 1..n, x \in Byte : step[i][x] = Xor(x, bytes[i])
  <2> DEFINE step == [i \in 1..n |-> [x \in Byte |-> Xor(x, bytes[i])]]
  <2>1. step \in [1..n -> [Byte -> Byte]]
    BY <1>2
  <2>2. \A i \in 1..n, x \in Byte : step[i][x] = Xor(x, bytes[i])
    OBVIOUS
  <2> QED
    BY <2>1, <2>2, Zenon
<1>4. PICK f : /\ f \in [0..n -> Byte] /\ f[0] = 0
               /\ \A i \in 1..n : f[i] = step[i][f[i - 1]]
  BY RecursionOn DEF HasRecursion
<1>5. \A i \in 0..n : f[i] = IF i = 0 THEN 0 ELSE Xor(f[i - 1], bytes[i])
  <2> SUFFICES ASSUME NEW i \in 0..n, i # 0
               PROVE  f[i] = Xor(f[i - 1], bytes[i])
    BY <1>4
  <2>1. i \in 1..n /\ i - 1 \in 0..n
    OBVIOUS
  <2> QED
    BY <1>3, <1>4, <2>1
<1>6. IsSum(f)
  <2>1. f = [i \in 0..n |-> f[i]]
    BY <1>4
  <2> QED
    BY <1>1, <1>5, <2>1, Zenon
<1>7. IsSum(CHOOSE h : IsSum(h))
  BY <1>6, Zenon
<1> DEFINE c == CHOOSE h : IsSum(h)
<1>8. Ecc(bytes) = c[n]
  BY <1>1 DEF Ecc
<1>9. \A i \in 0..n : c[i] = IF i = 0 THEN 0 ELSE Xor(c[i - 1], bytes[i])
  <2> HIDE DEF c
  <2>1. IsSum(c)
    BY <1>7 DEF c
  <2> QED
    BY <1>1, <2>1
<1> HIDE DEF c, IsSum
<1> DEFINE S == {m \in Nat : m <= n => c[m] \in Byte}
<1>10. 0 \in S
  BY <1>9, Bytewise
<1>11. ASSUME NEW m \in Nat, m \in S PROVE m + 1 \in S
  <2> SUFFICES ASSUME m + 1 <= n PROVE c[m + 1] \in Byte
    BY <1>11
  <2>1. c[m] \in Byte /\ m + 1 \in 1..n /\ m + 1 \in 0..n /\ m + 1 # 0 /\ (m + 1) - 1 = m
    BY <1>11
  <2>2. c[m + 1] = Xor(c[m], bytes[m + 1])
    BY <1>9, <2>1, Zenon
  <2> QED
    BY <1>2, <2>1, <2>2
<1>12. n \in S
  <2> HIDE DEF S
  <2> QED
    BY <1>10, <1>11, SetInduction
<1> QED
  BY <1>8, <1>12

-----------------------------------------------------------------------------
(* Frames.                                                                 *)

\* A message has the type of a heartbeat or a report and a short payload.
LEMMA MessageParts ==
  ASSUME NEW m \in Messages
  PROVE  /\ m = <<m[1], m[2]>> /\ m[1] \in Byte
         /\ m[2] \in Seq(Byte) /\ Len(m[2]) \in 0..MaxData
<1>1. CASE m \in {Heart} \X {<<>>}
  <2>1. m = <<m[1], m[2]>> /\ m[1] = Heart /\ m[2] = <<>>
    BY <1>1
  <2>2. Len(<<>>) = 0 /\ <<>> \in Seq(Byte) /\ 0 \in 0..MaxData
    BY Bytewise
  <2> QED
    BY <2>1, <2>2, Bytewise, Zenon
<1>2. CASE m \in {Report} \X Payloads(MaxData)
  <2>1. m = <<m[1], m[2]>> /\ m[1] = Report /\ m[2] \in Payloads(MaxData)
    BY <1>2
  <2>2. PICK n \in 0..MaxData : m[2] \in [1..n -> Byte]
    BY <2>1 DEF Payloads
  <2>3. n \in Nat
    BY Bytewise
  <2>4. m[2] \in Seq(Byte) /\ Len(m[2]) = n
    BY <2>2, <2>3
  <2>5. m[1] \in Byte
    BY <2>1, Bytewise, Zenon
  <2> QED
    BY <2>1, <2>4, <2>5
<1> QED
  BY <1>1, <1>2 DEF Messages

\* The part of a frame the checksum is made of.
Body(m) == <<MSG_START_FLAG, m[1], Len(m[2])>> \o m[2]

\* The cells of a frame (608-651).
LEMMA FrameParts ==
  ASSUME NEW m \in Messages
  PROVE  /\ Body(m) \in Seq(Byte) /\ Len(Body(m)) = 3 + Len(m[2])
         /\ Frame(m) \in Seq(Byte) /\ Len(Frame(m)) = 4 + Len(m[2])
         /\ Frame(m)[1] = MSG_START_FLAG /\ Frame(m)[2] = m[1] /\ Frame(m)[3] = Len(m[2])
         /\ \A i \in 1..Len(m[2]) : Frame(m)[3 + i] = m[2][i]
         /\ \A i \in 1..3 + Len(m[2]) : Frame(m)[i] = Body(m)[i]
         /\ Frame(m)[4 + Len(m[2])] = Ecc(Body(m))
<1>1. m[1] \in Byte /\ m[2] \in Seq(Byte) /\ Len(m[2]) \in 0..MaxData
  BY MessageParts
<1> DEFINE p == m[2]
           l == Len(m[2])
           h == <<MSG_START_FLAG, m[1], l>>
           b == h \o p
<1>2. l \in Byte /\ l \in Nat
  BY <1>1, Bytewise
<1>3. h \in Seq(Byte) /\ Len(h) = 3 /\ h[1] = MSG_START_FLAG /\ h[2] = m[1] /\ h[3] = l
  <2> HIDE DEF l
  <2> QED
    BY <1>1, <1>2, Bytewise
<1>4. p \in Seq(Byte) /\ Len(p) = l
  BY <1>1
<1> HIDE DEF h, p, l
<1>5. /\ b \in Seq(Byte) /\ Len(b) = 3 + l
      /\ \A i \in 1..3 + l : b[i] = IF i <= 3 THEN h[i] ELSE p[i - 3]
  <2>1. /\ h \o p \in Seq(Byte) /\ Len(h \o p) = Len(h) + Len(p)
        /\ \A i \in 1..Len(h) + Len(p) :
             (h \o p)[i] = IF i <= Len(h) THEN h[i] ELSE p[i - Len(h)]
    BY <1>3, <1>4, ConcatProperties, Zenon
  <2> QED
    BY <1>3, <1>4, <2>1
<1> HIDE DEF b
<1>6. b[1] = h[1] /\ b[2] = h[2] /\ b[3] = h[3]
  BY <1>2, <1>5
<1>7. \A i \in 1..l : b[3 + i] = p[i]
  BY <1>2, <1>5
<1>8. b = Body(m)
  BY DEF Body, b, h, p, l
<1>9. Frame(m) = Append(b, Ecc(b))
  BY DEF Frame, b, h, p, l
<1>10. Ecc(b) \in Byte
  BY <1>5, EccByte
<1>11. Frame(m) \in Seq(Byte) /\ Len(Frame(m)) = 4 + l /\ Frame(m)[4 + l] = Ecc(b)
  BY <1>2, <1>5, <1>9, <1>10
<1>12. \A i \in 1..3 + l : Frame(m)[i] = b[i]
  BY <1>2, <1>5, <1>9, <1>10
<1>13. 1 \in 1..3 + l /\ 2 \in 1..3 + l /\ 3 \in 1..3 + l /\ \A i \in 1..l : 3 + i \in 1..3 + l
  BY <1>2
<1>14. Frame(m)[1] = MSG_START_FLAG /\ Frame(m)[2] = m[1] /\ Frame(m)[3] = l
  BY <1>3, <1>6, <1>12, <1>13
<1>15. \A i \in 1..l : Frame(m)[3 + i] = p[i]
  BY <1>7, <1>12, <1>13
<1> QED
  BY <1>5, <1>8, <1>11, <1>12, <1>14, <1>15 DEF p, l

-----------------------------------------------------------------------------
(* Where the frames of a connection end, and the reports among them.       *)

\* e[k] is the number of bytes of the first k messages of ms.
IsEnds(ms, e) ==
  /\ e \in [0..Len(ms) -> Nat] /\ e[0] = 0
  /\ \A k \in 1..Len(ms) : e[k] = e[k - 1] + Len(Frame(ms[k]))

\* There are such numbers.
LEMMA EndsExist ==
  ASSUME NEW ms \in Seq(Messages)
  PROVE  \E e : IsEnds(ms, e)
<1>1. PICK n \in Nat : n = Len(ms)
  OBVIOUS
<1>2. \A i \in 1..n, x \in Nat : x + Len(Frame(ms[i])) \in Nat
  <2>1. \A i \in 1..n : ms[i] \in Messages
    BY <1>1
  <2>2. \A i \in 1..n : Len(Frame(ms[i])) \in Nat
    BY <2>1, FrameParts, LenProperties
  <2> QED
    BY <2>2
<1>3. PICK step \in [1..n -> [Nat -> Nat]] :
        \A i \in 1..n, x \in Nat : step[i][x] = x + Len(Frame(ms[i]))
  <2> DEFINE step == [i \in 1..n |-> [x \in Nat |-> x + Len(Frame(ms[i]))]]
  <2>1. step \in [1..n -> [Nat -> Nat]]
    BY <1>2
  <2>2. \A i \in 1..n, x \in Nat : step[i][x] = x + Len(Frame(ms[i]))
    OBVIOUS
  <2> QED
    BY <2>1, <2>2, Zenon
<1>4. PICK f : /\ f \in [0..n -> Nat] /\ f[0] = 0
               /\ \A i \in 1..n : f[i] = step[i][f[i - 1]]
  BY RecursionOn DEF HasRecursion
<1>5. ASSUME NEW k \in 1..n
      PROVE  f[k] = f[k - 1] + Len(Frame(ms[k]))
  <2>1. k - 1 \in 0..n
    OBVIOUS
  <2> QED
    BY <1>3, <1>4, <2>1
<1> QED
  BY <1>1, <1>4, <1>5 DEF IsEnds

\* They are the only ones.
LEMMA EndsUnique ==
  ASSUME NEW ms \in Seq(Messages), NEW e, NEW f, IsEnds(ms, e), IsEnds(ms, f)
  PROVE  \A k \in 0..Len(ms) : e[k] = f[k]
<1>1. PICK n \in Nat : n = Len(ms)
  OBVIOUS
<1> DEFINE S == {m \in Nat : m <= n => e[m] = f[m]}
<1>2. 0 \in S
  BY DEF IsEnds
<1>3. ASSUME NEW m \in Nat, m \in S PROVE m + 1 \in S
  <2> SUFFICES ASSUME m + 1 <= n PROVE e[m + 1] = f[m + 1]
    BY <1>3
  <2>1. m + 1 \in 1..n /\ (m + 1) - 1 = m /\ e[m] = f[m]
    BY <1>3
  <2>2. e[m + 1] = e[m] + Len(Frame(ms[m + 1])) /\ f[m + 1] = f[m] + Len(Frame(ms[m + 1]))
    BY <1>1, <2>1, Zenon DEF IsEnds
  <2> QED
    BY <2>1, <2>2
<1>4. Nat \subseteq S
  <2> HIDE DEF S
  <2> QED
    BY <1>2, <1>3, SetInduction
<1> QED
  BY <1>1, <1>4

\* Every message has at least four bytes: the frames end one after the other.
LEMMA EndsOrdered ==
  ASSUME NEW ms \in Seq(Messages), NEW e, IsEnds(ms, e), NEW k \in 0..Len(ms)
  PROVE  e[k] \in Nat /\ e[k] <= e[Len(ms)]
<1>1. PICK n \in Nat : n = Len(ms)
  OBVIOUS
<1>2. \A i \in 1..n : Len(Frame(ms[i])) \in Nat
  <2>1. \A i \in 1..n : ms[i] \in Messages
    BY <1>1
  <2> QED
    BY <2>1, FrameParts, LenProperties
<1>3. \A i \in 0..n : e[i] \in Nat
  BY <1>1 DEF IsEnds
<1> DEFINE S == {m \in Nat : m <= n => e[n - m] <= e[n]}
<1>4. 0 \in S
  BY <1>3
<1>5. ASSUME NEW m \in Nat, m \in S PROVE m + 1 \in S
  <2> SUFFICES ASSUME m + 1 <= n PROVE e[n - (m + 1)] <= e[n]
    BY <1>5
  <2>1. n - m \in 1..n /\ (n - m) - 1 = n - (m + 1) /\ n - (m + 1) \in 0..n /\ n \in 0..n
    OBVIOUS
  <2>2. e[n - m] = e[n - (m + 1)] + Len(Frame(ms[n - m]))
    BY <1>1, <2>1 DEF IsEnds
  <2>3. e[n - m] <= e[n]
    BY <1>5
  <2>4. /\ e[n] \in Nat /\ e[n - m] \in Nat /\ e[n - (m + 1)] \in Nat
        /\ Len(Frame(ms[n - m])) \in Nat
    BY <1>2, <1>3, <2>1
  <2> QED
    BY <2>2, <2>3, <2>4
<1>6. n - k \in S
  <2>1. n - k \in Nat
    BY <1>1
  <2> HIDE DEF S
  <2> QED
    BY <1>4, <1>5, <2>1, SetInduction
<1>7. e[n - (n - k)] <= e[n] /\ n - (n - k) = k
  BY <1>1, <1>6
<1> QED
  BY <1>1, <1>3, <1>7

\* FrameEnd is where the frames end.
LEMMA FrameEndIs ==
  ASSUME sent \in Seq(Messages)
  PROVE  \E e : IsEnds(sent, e) /\ \A k \in 0..Len(sent) : FrameEnd(k) = e[k]
<1>1. PICK n \in Nat : n = Len(sent)
  OBVIOUS
<1> DEFINE Rec(f) == f = [i \in 0..Len(sent) |->
                            IF i = 0 THEN 0 ELSE f[i - 1] + Len(Frame(sent[i]))]
<1>2. PICK e : IsEnds(sent, e)
  BY EndsExist
<1>3. Rec(e)
  <2>1. \A i \in 0..n : e[i] = IF i = 0 THEN 0 ELSE e[i - 1] + Len(Frame(sent[i]))
    <3> SUFFICES ASSUME NEW i \in 0..n, i # 0
                 PROVE  e[i] = e[i - 1] + Len(Frame(sent[i]))
      BY <1>2 DEF IsEnds
    <3>1. i \in 1..n
      OBVIOUS
    <3> QED
      BY <1>1, <1>2, <3>1, Zenon DEF IsEnds
  <2>2. e = [i \in 0..n |-> e[i]]
    BY <1>1, <1>2 DEF IsEnds
  <2> QED
    BY <1>1, <2>1, <2>2, Zenon
<1>4. Rec(CHOOSE h : Rec(h))
  BY <1>3, Zenon
<1> DEFINE c == CHOOSE h : Rec(h)
<1>5. \A k : FrameEnd(k) = c[k]
  BY DEF FrameEnd
<1>6. \A i \in 0..n : c[i] = IF i = 0 THEN 0 ELSE c[i - 1] + Len(Frame(sent[i]))
  <2> HIDE DEF c
  <2>1. Rec(c)
    BY <1>4 DEF c
  <2> QED
    BY <1>1, <2>1
<1> HIDE DEF c, Rec
<1> DEFINE S == {m \in Nat : m <= n => c[m] = e[m]}
<1>7. 0 \in S
  BY <1>2, <1>6 DEF IsEnds
<1>8. ASSUME NEW m \in Nat, m \in S PROVE m + 1 \in S
  <2> SUFFICES ASSUME m + 1 <= n PROVE c[m + 1] = e[m + 1]
    BY <1>8
  <2>1. c[m] = e[m] /\ m + 1 \in 1..n /\ m + 1 \in 0..n /\ m + 1 # 0 /\ (m + 1) - 1 = m
    BY <1>8
  <2>2. c[m + 1] = c[m] + Len(Frame(sent[m + 1]))
    BY <1>6, <2>1, Zenon
  <2>3. e[m + 1] = e[m] + Len(Frame(sent[m + 1]))
    BY <1>1, <1>2, <2>1, Zenon DEF IsEnds
  <2> QED
    BY <2>1, <2>2, <2>3
<1>9. Nat \subseteq S
  <2> HIDE DEF S
  <2> QED
    BY <1>7, <1>8, SetInduction
<1>10. \A k \in 0..n : FrameEnd(k) = e[k]
  BY <1>5, <1>9
<1> QED
  BY <1>1, <1>2, <1>10

\* The reports among the messages i..j, from the i-th on.
LEMMA ReportsStep ==
  ASSUME sent \in Seq(Messages), NEW j \in 0..Len(sent), NEW i \in 1..j + 1
  PROVE  Reports(i, j) = IF i > j THEN <<>>
                         ELSE IF sent[i][1] = Heart THEN Reports(i + 1, j)
                         ELSE <<sent[i]>> \o Reports(i + 1, j)
<1> DEFINE Rec(f) == f = [k \in 1..j + 1 |->
                            IF k > j THEN <<>>
                            ELSE IF sent[k][1] = Heart THEN f[k + 1]
                            ELSE <<sent[k]>> \o f[k + 1]]
<1>1. PICK n \in Nat : n = j
  OBVIOUS
<1>2. \A k \in 1..n, x \in Seq(Messages) :
        (IF sent[n + 1 - k][1] = Heart THEN x ELSE <<sent[n + 1 - k]>> \o x) \in Seq(Messages)
  <2>1. \A k \in 1..n : sent[n + 1 - k] \in Messages
    BY <1>1
  <2>2. \A m \in Messages, x \in Seq(Messages) : <<m>> \o x \in Seq(Messages)
    OBVIOUS
  <2> QED
    BY <2>1, <2>2, Zenon
<1>3. PICK step \in [1..n -> [Seq(Messages) -> Seq(Messages)]] :
        \A k \in 1..n, x \in Seq(Messages) :
          step[k][x] = IF sent[n + 1 - k][1] = Heart THEN x ELSE <<sent[n + 1 - k]>> \o x
  <2> DEFINE step == [k \in 1..n |-> [x \in Seq(Messages) |->
                        IF sent[n + 1 - k][1] = Heart THEN x ELSE <<sent[n + 1 - k]>> \o x]]
  <2>1. step \in [1..n -> [Seq(Messages) -> Seq(Messages)]]
    BY <1>2, Zenon
  <2>2. \A k \in 1..n, x \in Seq(Messages) :
          step[k][x] = IF sent[n + 1 - k][1] = Heart THEN x ELSE <<sent[n + 1 - k]>> \o x
    BY Zenon
  <2> QED
    BY <2>1, <2>2, Zenon
<1>4. PICK f : /\ f \in [0..n -> Seq(Messages)] /\ f[0] = <<>>
               /\ \A k \in 1..n : f[k] = step[k][f[k - 1]]
  BY RecursionOn DEF HasRecursion
<1> DEFINE g == [k \in 1..n + 1 |-> f[n + 1 - k]]
<1>5. g[n + 1] = <<>> /\ \A k \in 1..n : g[k] = f[n + 1 - k] /\ g[k + 1] = f[n - k]
  BY <1>4
<1>6. g = [k \in 1..n + 1 |-> g[k]]
  BY Zenon
<1> HIDE DEF g
<1>7. ASSUME NEW k \in 1..n
      PROVE  g[k] = IF sent[k][1] = Heart THEN g[k + 1] ELSE <<sent[k]>> \o g[k + 1]
  <2>1. n + 1 - k \in 1..n /\ (n + 1 - k) - 1 = n - k /\ n + 1 - (n + 1 - k) = k /\ n - k \in 0..n
    OBVIOUS
  <2>2. f[n - k] \in Seq(Messages)
    BY <1>4, <2>1
  <2>3. f[n + 1 - k] = step[n + 1 - k][f[n - k]]
    BY <1>4, <2>1
  <2>4. step[n + 1 - k][f[n - k]] = IF sent[k][1] = Heart THEN f[n - k] ELSE <<sent[k]>> \o f[n - k]
    BY <1>3, <2>1, <2>2
  <2> QED
    BY <1>5, <2>3, <2>4, Zenon
<1>8. Rec(g)
  <2>1. ASSUME NEW k \in 1..n + 1
        PROVE  g[k] = IF k > n THEN <<>>
                      ELSE IF sent[k][1] = Heart THEN g[k + 1]
                      ELSE <<sent[k]>> \o g[k + 1]
    <3>1. CASE k > n
      <4>1. k = n + 1
        BY <3>1
      <4> QED
        BY <1>5, <3>1, <4>1
    <3>2. CASE ~(k > n)
      <4>1. k \in 1..n
        BY <3>2
      <4> QED
        BY <1>7, <3>2, <4>1, Zenon
    <3> QED
      BY <3>1, <3>2
  <2> QED
    BY <1>1, <1>6, <2>1, Zenon
<1>9. Rec(CHOOSE h : Rec(h))
  BY <1>8, Zenon
<1> DEFINE c == CHOOSE h : Rec(h)
<1>10. Reports(i, j) = c[i] /\ Reports(i + 1, j) = c[i + 1]
  BY DEF Reports
<1>11. c[i] = IF i > j THEN <<>>
              ELSE IF sent[i][1] = Heart THEN c[i + 1]
              ELSE <<sent[i]>> \o c[i + 1]
  <2> HIDE DEF c
  <2>1. Rec(c)
    BY <1>9 DEF c
  <2> HIDE DEF Rec
  <2>2. c = [k \in 1..j + 1 |->
               IF k > j THEN <<>>
               ELSE IF sent[k][1] = Heart THEN c[k + 1]
               ELSE <<sent[k]>> \o c[k + 1]]
    BY <2>1 DEF Rec
  <2> QED
    BY <2>2, Zenon
<1> QED
  BY <1>10, <1>11

-----------------------------------------------------------------------------
(* The loop of the parser (349-422).                                       *)

\* What it does at offset o when f is what it does behind.
ParseStep(buf, f, o) ==
  LET n == Len(buf) - o + 1
      len == buf[o + 2]
      after == f[o + FrameSize(len)]
      checked == SubSeq(buf, o, o + 2 + len)
  IN  IF n < Overhead THEN Keep(buf, o)
      ELSE IF buf[o] # MSG_START_FLAG \/ TooLong(len) THEN Dropped
      ELSE IF len > n - Overhead THEN Keep(buf, o)
      ELSE IF buf[o + 1] = Heart THEN after
      ELSE IF buf[o + 3 + len] # Ecc(checked) THEN Dropped
      ELSE Result(<< <<buf[o + 1], SubSeq(checked, 4, Len(checked))>> >> \o after.packets,
                  after.rest)

\* It only depends on what it does behind.
LEMMA ParseSame ==
  ASSUME NEW buf \in Seq(Byte), NEW o \in 1..Len(buf) + 1, NEW f, NEW g,
         \A p \in o + 1..Len(buf) + 1 : f[p] = g[p]
  PROVE  ParseStep(buf, f, o) = ParseStep(buf, g, o)
<1> DEFINE n == Len(buf) - o + 1
           len == buf[o + 2]
<1>1. Len(buf) \in Nat
  OBVIOUS
<1>2. CASE n < Overhead
  BY <1>2, Zenon DEF ParseStep
<1>3. CASE ~(n < Overhead)
  <2>1. len \in Nat /\ n \in Int /\ n >= 4
    <3>1. o + 2 \in 1..Len(buf) /\ n \in Int /\ n >= 4
      BY <1>1, <1>3 DEF Overhead
    <3>2. len \in Byte
      BY <3>1
    <3> QED
      BY <3>1, <3>2, Bytewise
  <2>2. CASE len > n - Overhead
    BY <1>3, <2>2, Zenon DEF ParseStep
  <2>3. CASE ~(len > n - Overhead)
    <3>1. o + FrameSize(len) \in o + 1..Len(buf) + 1
      BY <1>1, <2>1, <2>3 DEF FrameSize, Overhead
    <3>2. f[o + FrameSize(len)] = g[o + FrameSize(len)]
      BY <3>1
    <3> QED
      BY <3>2, Zenon DEF ParseStep
  <2> QED
    BY <2>2, <2>3
<1> QED
  BY <1>2, <1>3

\* The loop ends: its recursion has a value.
LEMMA ParseExists ==
  ASSUME NEW buf \in Seq(Byte)
  PROVE  \E f : f = [o \in 1..Len(buf) + 1 |-> ParseStep(buf, f, o)]
<1>1. PICK l \in Nat : l = Len(buf)
  OBVIOUS
<1> DEFINE Down(f, m) == /\ DOMAIN f = 1..l + 1 /\ f = [o \in 1..l + 1 |-> f[o]]
                         /\ \A o \in 1..l + 1 : o > l + 1 - m => f[o] = ParseStep(buf, f, o)
           S == {m \in Nat : m <= l + 1 => \E f : Down(f, m)}
<1>2. 0 \in S
  <2> DEFINE f == [o \in 1..l + 1 |-> Dropped]
  <2>1. DOMAIN f = 1..l + 1 /\ f = [o \in 1..l + 1 |-> f[o]]
    OBVIOUS
  <2>2. \A o \in 1..l + 1 : ~(o > l + 1 - 0)
    OBVIOUS
  <2>3. Down(f, 0)
    BY <2>1, <2>2, Zenon
  <2> QED
    BY <2>3, Zenon
<1>3. ASSUME NEW m \in Nat, m \in S PROVE m + 1 \in S
  <2>0. m + 1 \in Nat
    OBVIOUS
  <2> SUFFICES ASSUME m + 1 <= l + 1 PROVE \E f : Down(f, m + 1)
    BY <2>0, Zenon
  <2>1. PICK f : Down(f, m)
    <3>1. m <= l + 1
      OBVIOUS
    <3> QED
      BY <1>3, <3>1, Zenon
  <2>2. /\ DOMAIN f = 1..l + 1 /\ f = [o \in 1..l + 1 |-> f[o]]
        /\ \A o \in 1..l + 1 : o > l + 1 - m => f[o] = ParseStep(buf, f, o)
    BY <2>1, Zenon
  <2>3. PICK c : c = l + 1 - m
    OBVIOUS
  <2>4. c \in 1..l + 1 /\ c \in Nat /\ \A o \in 1..l + 1 : o > l + 1 - (m + 1) <=> o > c \/ o = c
    BY <2>3
  <2>5. PICK v : v = ParseStep(buf, f, c)
    OBVIOUS
  <2> DEFINE g == [o \in 1..l + 1 |-> IF o = c THEN v ELSE f[o]]
  <2>6. /\ g[c] = v /\ \A o \in 1..l + 1 : o # c => g[o] = f[o]
        /\ DOMAIN g = 1..l + 1 /\ g = [o \in 1..l + 1 |-> g[o]]
    BY <2>4, Zenon
  <2> HIDE DEF g, Down
  <2>7. ASSUME NEW o \in 1..l + 1, o > c \/ o = c
        PROVE  ParseStep(buf, g, o) = ParseStep(buf, f, o)
    <3>1. \A p \in o + 1..l + 1 : p \in 1..l + 1 /\ p # c
      BY <2>4, <2>7
    <3>2. \A p \in o + 1..Len(buf) + 1 : g[p] = f[p]
      BY <1>1, <2>6, <3>1, Zenon
    <3>3. o \in 1..Len(buf) + 1
      BY <1>1
    <3> QED
      BY <3>2, <3>3, ParseSame
  <2>8. ASSUME NEW o \in 1..l + 1, o > l + 1 - (m + 1)
        PROVE  g[o] = ParseStep(buf, g, o)
    <3>1. o > c \/ o = c
      BY <2>4, <2>8
    <3>2. ParseStep(buf, g, o) = ParseStep(buf, f, o)
      BY <2>7, <3>1
    <3>3. CASE o = c
      BY <2>5, <2>6, <3>2, <3>3
    <3>4. CASE o # c
      <4>1. o > l + 1 - m
        BY <2>3, <3>1, <3>4
      <4>2. g[o] = f[o]
        BY <2>6, <3>4
      <4>3. f[o] = ParseStep(buf, f, o)
        BY <2>2, <4>1
      <4> QED
        BY <3>2, <4>2, <4>3, Zenon
    <3> QED
      BY <3>3, <3>4
  <2>9. Down(g, m + 1)
    BY <2>6, <2>8, Zenon DEF Down
  <2> QED
    BY <2>9, Zenon
<1>4. l + 1 \in S
  <2>1. l + 1 \in Nat
    OBVIOUS
  <2> HIDE DEF S
  <2> QED
    BY <1>2, <1>3, <2>1, SetInduction
<1>5. PICK f : Down(f, l + 1)
  BY <1>4
<1>6. \A o \in 1..l + 1 : o > l + 1 - (l + 1)
  OBVIOUS
<1>7. \A o \in 1..l + 1 : f[o] = ParseStep(buf, f, o)
  BY <1>5, <1>6, Zenon
<1>8. f = [o \in 1..l + 1 |-> ParseStep(buf, f, o)]
  <2>1. f = [o \in 1..l + 1 |-> f[o]]
    BY <1>5, Zenon
  <2> QED
    BY <1>7, <2>1, Zenon
<1> QED
  BY <1>1, <1>8

\* What is parsed is what the loop does from the first byte on.
LEMMA ParseIs ==
  ASSUME NEW buf \in Seq(Byte)
  PROVE  \E f : /\ \A o \in 1..Len(buf) + 1 : f[o] = ParseStep(buf, f, o)
                /\ Parse(buf) = f[1]
<1> DEFINE Rec(f) == f = [o \in 1..Len(buf) + 1 |-> ParseStep(buf, f, o)]
           c == CHOOSE h : Rec(h)
<1>1. \E f : Rec(f)
  BY ParseExists
<1>2. Rec(c)
  BY <1>1, Zenon
<1>3. Parse(buf) = c[1]
  BY DEF Parse, ParseStep
<1> HIDE DEF c
<1>4. \A o \in 1..Len(buf) + 1 : c[o] = ParseStep(buf, c, o)
  BY <1>2
<1> QED
  BY <1>3, <1>4, Zenon

\* x is the end of b.
EndOf(x, b) ==
  Len(x) <= Len(b) /\ \A i \in 1..Len(x) : x[i] = b[Len(b) - Len(x) + i]

\* The checked part of a frame at offset o, and the payload in it.
LEMMA Checked ==
  ASSUME NEW buf \in Seq(Byte), NEW o \in 1..Len(buf), NEW len \in Nat,
         o + 3 + len <= Len(buf), NEW c, c = SubSeq(buf, o, o + 2 + len)
  PROVE  /\ c \in Seq(Byte) /\ Len(c) = 3 + len
         /\ \A i \in 1..3 + len : c[i] = buf[o + i - 1]
         /\ SubSeq(c, 4, Len(c)) \in Seq(Byte) /\ Len(SubSeq(c, 4, Len(c))) = len
         /\ \A i \in 1..len : SubSeq(c, 4, Len(c))[i] = buf[o + 2 + i]
<1>1. Len(buf) \in Nat /\ o \in Nat /\ o + 2 + len <= Len(buf)
  OBVIOUS
<1>2. \A i \in o..o + 2 + len : buf[i] \in Byte
  BY <1>1
<1>3. /\ c \in Seq(Byte) /\ Len(c) = 3 + len
      /\ \A i \in 1..3 + len : c[i] = buf[o + i - 1]
  <2>1. o \in Int /\ o + 2 + len \in Int
    BY <1>1
  <2>2. /\ c \in Seq(Byte)
        /\ Len(c) = IF o <= o + 2 + len THEN (o + 2 + len) - o + 1 ELSE 0
        /\ \A i \in 1..(o + 2 + len) - o + 1 : c[i] = buf[o + i - 1]
    BY <1>2, <2>1, SubSeqProperties
  <2> QED
    BY <1>1, <2>2
<1>4. \A i \in 4..3 + len : c[i] \in Byte
  BY <1>3
<1> DEFINE q == SubSeq(c, 4, Len(c))
<1>5. /\ q \in Seq(Byte) /\ Len(q) = len
      /\ \A i \in 1..len : q[i] = c[3 + i]
  <2>1. 4 \in Int /\ 3 + len \in Int /\ q = SubSeq(c, 4, 3 + len)
    BY <1>3
  <2>2. /\ q \in Seq(Byte)
        /\ Len(q) = IF 4 <= 3 + len THEN (3 + len) - 4 + 1 ELSE 0
        /\ \A i \in 1..(3 + len) - 4 + 1 : q[i] = c[4 + i - 1]
    BY <1>4, <2>1, SubSeqProperties
  <2> HIDE DEF q
  <2>3. Len(q) = len
    BY <2>2
  <2>4. \A i \in 1..len : i \in 1..(3 + len) - 4 + 1 /\ 4 + i - 1 = 3 + i
    OBVIOUS
  <2> QED
    BY <2>2, <2>3, <2>4
<1> HIDE DEF q
<1>6. ASSUME NEW i \in 1..len
      PROVE  q[i] = buf[o + 2 + i]
  <2>1. 3 + i \in 1..3 + len /\ o + (3 + i) - 1 = o + 2 + i
    BY <1>1
  <2> QED
    BY <1>3, <1>5, <2>1
<1> QED
  BY <1>3, <1>5, <1>6 DEF q

\* The loop gives up, keeps less than a frame, or goes on behind a frame.
LEMMA ParseCases ==
  ASSUME NEW buf \in Seq(Byte), NEW o \in 1..Len(buf) + 1, NEW f
  PROVE  \/ ParseStep(buf, f, o) = Dropped
         \/ ParseStep(buf, f, o) = Keep(buf, o) /\ Len(buf) - o + 1 < LenLimit + Overhead
         \/ \E len \in 0..LenLimit :
              /\ o + 3 + len <= Len(buf)
              /\ \/ ParseStep(buf, f, o) = f[o + 4 + len]
                 \/ /\ buf[o + 1] # Heart
                    /\ \E c : /\ c = SubSeq(buf, o, o + 2 + len)
                              /\ ParseStep(buf, f, o) =
                                   Result(<< <<buf[o + 1], SubSeq(c, 4, Len(c))>> >>
                                            \o f[o + 4 + len].packets,
                                          f[o + 4 + len].rest)
<1> DEFINE n == Len(buf) - o + 1
           len == buf[o + 2]
<1>1. Len(buf) \in Nat /\ LenLimit \in Nat
  BY Bytewise
<1>2. CASE n < Overhead
  <2>1. n < LenLimit + Overhead
    BY <1>1, <1>2 DEF Overhead
  <2> QED
    BY <1>2, <2>1, Zenon DEF ParseStep
<1>3. CASE ~(n < Overhead) /\ (buf[o] # MSG_START_FLAG \/ TooLong(len))
  BY <1>3, Zenon DEF ParseStep
<1>4. CASE ~(n < Overhead) /\ ~(buf[o] # MSG_START_FLAG \/ TooLong(len))
  <2>1. len \in 0..LenLimit
    <3>1. o + 2 \in 1..Len(buf)
      BY <1>1, <1>4 DEF Overhead
    <3>2. len \in Byte
      BY <3>1
    <3>3. ~(len > LenLimit)
      BY <1>4, Zenon DEF TooLong
    <3> QED
      <4>1. len \in Nat
        BY <3>2, Bytewise
      <4> QED
        BY <1>1, <3>3, <4>1
  <2>2. CASE len > n - Overhead
    <3>1. n < LenLimit + Overhead
      BY <1>1, <2>1, <2>2 DEF Overhead
    <3> QED
      BY <1>4, <2>2, <3>1, Zenon DEF ParseStep
  <2>3. CASE ~(len > n - Overhead)
    <3>1. o + 3 + len <= Len(buf) /\ o + FrameSize(len) = o + 4 + len
      BY <1>1, <2>1, <2>3 DEF FrameSize, Overhead
    <3>2. CASE buf[o + 1] = Heart
      <4>1. ParseStep(buf, f, o) = f[o + FrameSize(len)]
        BY <1>4, <2>3, <3>2, Zenon DEF ParseStep
      <4> QED
        BY <2>1, <3>1, <4>1, Zenon
    <3>3. CASE buf[o + 1] # Heart /\ buf[o + 3 + len] # Ecc(SubSeq(buf, o, o + 2 + len))
      BY <1>4, <2>3, <3>3, Zenon DEF ParseStep
    <3>4. CASE buf[o + 1] # Heart /\ ~(buf[o + 3 + len] # Ecc(SubSeq(buf, o, o + 2 + len)))
      <4> DEFINE c == SubSeq(buf, o, o + 2 + len)
      <4>1. ParseStep(buf, f, o) =
              Result(<< <<buf[o + 1], SubSeq(c, 4, Len(c))>> >> \o f[o + FrameSize(len)].packets,
                     f[o + FrameSize(len)].rest)
        BY <1>4, <2>3, <3>4, Zenon DEF ParseStep
      <4>2. ParseStep(buf, f, o) =
              Result(<< <<buf[o + 1], SubSeq(c, 4, Len(c))>> >> \o f[o + 4 + len].packets,
                     f[o + 4 + len].rest)
        BY <3>1, <4>1, Zenon
      <4> QED
        BY <2>1, <3>1, <3>4, <4>2, Zenon
    <3> QED
      BY <3>2, <3>3, <3>4
  <2> QED
    BY <2>2, <2>3
<1> QED
  BY <1>2, <1>3, <1>4

\* The packets a client can be given.
Packet == (Byte \ {Heart}) \X Payloads(LenLimit)

\* What is parsed are packets, and what is kept is the end of the buffer and
\* less than a frame.
ParsedOK(buf, r) ==
  /\ r.packets \in Seq(Packet)
  /\ r.rest \in Seq(Byte) /\ Len(r.rest) < LenLimit + Overhead /\ EndOf(r.rest, buf)

\* It is, if it is behind the frame at o.
LEMMA ParsedStep ==
  ASSUME NEW buf \in Seq(Byte), NEW o \in 1..Len(buf) + 1, NEW f,
         f[o] = ParseStep(buf, f, o), \A p \in o + 1..Len(buf) + 1 : ParsedOK(buf, f[p])
  PROVE  ParsedOK(buf, f[o])
<1>1. Len(buf) \in Nat /\ LenLimit \in Nat /\ o \in Nat
  BY Bytewise
<1>2. CASE f[o] = Dropped
  <2>1. f[o].packets = <<>> /\ f[o].rest = <<>>
    BY <1>2 DEF Dropped, Result
  <2>2. Len(<<>>) = 0 /\ <<>> \in Seq(Byte) /\ <<>> \in Seq(Packet)
    OBVIOUS
  <2>3. EndOf(<<>>, buf)
    BY <1>1, <2>2 DEF EndOf
  <2>4. 0 < LenLimit + Overhead
    BY <1>1 DEF Overhead
  <2> QED
    BY <2>1, <2>2, <2>3, <2>4, Zenon DEF ParsedOK
<1>3. CASE f[o] = Keep(buf, o) /\ Len(buf) - o + 1 < LenLimit + Overhead
  <2> DEFINE r == SubSeq(buf, o, Len(buf))
  <2>1. f[o].packets = <<>> /\ f[o].rest = r
    BY <1>3 DEF Keep, Result
  <2>2. \A i \in o..Len(buf) : buf[i] \in Byte
    BY <1>1
  <2>3. /\ r \in Seq(Byte) /\ Len(r) = IF o <= Len(buf) THEN Len(buf) - o + 1 ELSE 0
        /\ \A i \in 1..Len(buf) - o + 1 : r[i] = buf[o + i - 1]
    <3>1. o \in Int /\ Len(buf) \in Int
      BY <1>1
    <3> QED
      BY <2>2, <3>1, SubSeqProperties
  <2> HIDE DEF r
  <2>4. Len(r) = Len(buf) - o + 1
    BY <1>1, <2>3
  <2>5. EndOf(r, buf)
    <3>1. \A i \in 1..Len(r) : o + i - 1 = Len(buf) - Len(r) + i
      BY <1>1, <2>4
    <3>2. Len(r) <= Len(buf)
      BY <1>1, <2>4
    <3> QED
      BY <2>3, <2>4, <3>1, <3>2 DEF EndOf
  <2>6. <<>> \in Seq(Packet) /\ Len(r) < LenLimit + Overhead
    BY <1>3, <2>4
  <2> QED
    BY <2>1, <2>3, <2>5, <2>6, Zenon DEF ParsedOK
<1>4. ASSUME NEW len \in 0..LenLimit, o + 3 + len <= Len(buf),
             f[o] = f[o + 4 + len]
      PROVE  ParsedOK(buf, f[o])
  <2>1. o + 4 + len \in o + 1..Len(buf) + 1
    BY <1>1, <1>4
  <2> QED
    BY <1>4, <2>1, Zenon
<1>5. ASSUME NEW len \in 0..LenLimit, o + 3 + len <= Len(buf), buf[o + 1] # Heart,
             NEW c, c = SubSeq(buf, o, o + 2 + len),
             f[o] = Result(<< <<buf[o + 1], SubSeq(c, 4, Len(c))>> >> \o f[o + 4 + len].packets,
                           f[o + 4 + len].rest)
      PROVE  ParsedOK(buf, f[o])
  <2> DEFINE r == f[o + 4 + len]
             q == SubSeq(c, 4, Len(c))
  <2>1. o + 4 + len \in o + 1..Len(buf) + 1 /\ o \in 1..Len(buf) /\ o + 1 \in 1..Len(buf)
        /\ len \in Nat
    BY <1>1, <1>5
  <2>2. r.packets \in Seq(Packet) /\ r.rest \in Seq(Byte)
        /\ Len(r.rest) < LenLimit + Overhead /\ EndOf(r.rest, buf)
    BY <2>1 DEF ParsedOK
  <2>3. q \in Seq(Byte) /\ Len(q) = len
    BY <1>5, <2>1, Checked
  <2>4. q \in Payloads(LenLimit)
    <3> HIDE DEF q
    <3>1. q \in [1..len -> Byte]
      BY <2>3, LenProperties, Zenon
    <3> QED
      BY <3>1 DEF Payloads
  <2>5. buf[o + 1] \in Byte \ {Heart}
    BY <1>5, <2>1
  <2>6. <<buf[o + 1], q>> \in Packet
    BY <2>4, <2>5, Zenon DEF Packet
  <2>7. f[o].packets = << <<buf[o + 1], q>> >> \o r.packets /\ f[o].rest = r.rest
    <3>1. \A p, k : Result(p, k).packets = p /\ Result(p, k).rest = k
      BY DEF Result
    <3>2. PICK a, b : a = << <<buf[o + 1], q>> >> \o r.packets /\ b = r.rest
      OBVIOUS
    <3>3. f[o] = Result(a, b)
      BY <1>5, <3>2
    <3>4. f[o].packets = a /\ f[o].rest = b
      BY <3>1, <3>3, Zenon
    <3> QED
      BY <3>2, <3>4, Zenon
  <2> HIDE DEF q, r
  <2>8. << <<buf[o + 1], q>> >> \in Seq(Packet)
    BY <2>6
  <2>9. f[o].packets \in Seq(Packet)
    BY <2>2, <2>7, <2>8, ConcatProperties
  <2> QED
    BY <2>2, <2>7, <2>9, Zenon DEF ParsedOK
<1> QED
  BY <1>2, <1>3, <1>4, <1>5, ParseCases

\* What the parser returns.
LEMMA ParseType ==
  ASSUME NEW buf \in Seq(Byte)
  PROVE  ParsedOK(buf, Parse(buf))
<1>1. PICK l \in Nat : l = Len(buf)
  OBVIOUS
<1>2. PICK f : (\A o \in 1..Len(buf) + 1 : f[o] = ParseStep(buf, f, o)) /\ Parse(buf) = f[1]
  BY ParseIs
<1> DEFINE S == {m \in Nat : \A o \in 1..l + 1 : l + 1 - o < m => ParsedOK(buf, f[o])}
<1>3. 0 \in S
  OBVIOUS
<1>4. ASSUME NEW m \in Nat, m \in S PROVE m + 1 \in S
  <2> SUFFICES ASSUME NEW o \in 1..l + 1, l + 1 - o < m + 1
               PROVE  ParsedOK(buf, f[o])
    BY <1>4
  <2>1. \A p \in o + 1..l + 1 : p \in 1..l + 1 /\ l + 1 - p < m
    OBVIOUS
  <2>2. \A p \in o + 1..Len(buf) + 1 : ParsedOK(buf, f[p])
    BY <1>1, <1>4, <2>1
  <2> QED
    BY <1>1, <1>2, <2>2, ParsedStep
<1>5. l + 1 \in S
  <2>1. l + 1 \in Nat
    OBVIOUS
  <2> HIDE DEF S
  <2> QED
    BY <1>3, <1>4, <2>1, SetInduction
<1>6. 1 \in 1..l + 1 /\ l + 1 - 1 < l + 1
  OBVIOUS
<1> QED
  BY <1>2, <1>5, <1>6

-----------------------------------------------------------------------------
(* A stream that is parsed from the beginning of a frame.                  *)

\* b are the bytes of the messages ms, which end as e says.
IsWhole(ms, e, b) ==
  /\ b \in Seq(Byte) /\ Len(b) = e[Len(ms)]
  /\ \A k \in 1..Len(ms) :
       \A i \in 1..Len(Frame(ms[k])) : b[e[k - 1] + i] = Frame(ms[k])[i]

\* At offset o of buf, which ends at byte x of the stream b, the frame after
\* the k-th message begins.
Stands(buf, o, b, e, k, x) ==
  /\ e[k] + (Len(buf) - o + 1) = x
  /\ \A i \in o..Len(buf) : buf[i] = b[e[k] + (i - o + 1)]

\* The reports behind the k-th message whose frames have ended at byte x are
\* queued, and what follows is kept.
Framed(r, e, k, x) ==
  \E j \in k..Len(sent) :
    /\ e[j] <= x /\ (j = Len(sent) \/ e[j + 1] > x)
    /\ r.packets = Reports(k + 1, j)
    /\ Len(r.rest) = x - e[j]

\* What is kept is as long as what is left.
LEMMA KeepRest ==
  ASSUME NEW buf \in Seq(Byte), NEW o \in 1..Len(buf) + 1
  PROVE  Keep(buf, o).packets = <<>> /\ Len(Keep(buf, o).rest) = Len(buf) - o + 1
<1>1. Len(buf) \in Nat /\ o \in Nat
  OBVIOUS
<1>2. \A i \in o..Len(buf) : buf[i] \in Byte
  BY <1>1
<1>3. Len(SubSeq(buf, o, Len(buf))) = IF o <= Len(buf) THEN Len(buf) - o + 1 ELSE 0
  <2>1. o \in Int /\ Len(buf) \in Int
    BY <1>1
  <2> QED
    BY <1>2, <2>1, SubSeqProperties
<1>4. Len(SubSeq(buf, o, Len(buf))) = Len(buf) - o + 1
  BY <1>1, <1>3
<1>5. Keep(buf, o).packets = <<>> /\ Keep(buf, o).rest = SubSeq(buf, o, Len(buf))
  BY DEF Keep, Result
<1> QED
  BY <1>4, <1>5

\* Where no whole frame has arrived, nothing is queued.
LEMMA FramedKeep ==
  ASSUME sent \in Seq(Messages), NEW e, IsEnds(sent, e), NEW k \in 0..Len(sent),
         NEW buf \in Seq(Byte), NEW o \in 1..Len(buf) + 1, NEW x \in Nat,
         e[k] + (Len(buf) - o + 1) = x, k = Len(sent) \/ e[k + 1] > x
  PROVE  Framed(Keep(buf, o), e, k, x)
<1>1. Reports(k + 1, k) = <<>>
  <2>1. k + 1 \in 1..k + 1 /\ k + 1 > k
    OBVIOUS
  <2> QED
    BY <2>1, ReportsStep
<1>2. e[k] \in Nat /\ Len(buf) \in Nat /\ o \in Nat
  BY EndsOrdered
<1>3. e[k] <= x /\ Len(buf) - o + 1 = x - e[k] /\ k \in k..Len(sent)
  BY <1>2
<1>4. Keep(buf, o).packets = Reports(k + 1, k) /\ Len(Keep(buf, o).rest) = x - e[k]
  BY <1>1, <1>3, KeepRest
<1> QED
  BY <1>3, <1>4 DEF Framed

\* A whole frame is parsed as what was sent, and the loop goes on behind it.
LEMMA FrameParsed ==
  ASSUME NEW m \in Messages, NEW buf \in Seq(Byte), NEW o \in 1..Len(buf), NEW f,
         o + 3 + Len(m[2]) <= Len(buf),
         \A i \in 1..4 + Len(m[2]) : buf[o + i - 1] = Frame(m)[i]
  PROVE  ParseStep(buf, f, o) =
           IF m[1] = Heart THEN f[o + 4 + Len(m[2])]
           ELSE Result(<<m>> \o f[o + 4 + Len(m[2])].packets, f[o + 4 + Len(m[2])].rest)
<1> DEFINE n == Len(buf) - o + 1
<1>1. PICK l : l = Len(m[2])
  OBVIOUS
<1>2. /\ l \in 0..MaxData /\ l \in Nat /\ Len(buf) \in Nat /\ o \in Nat
      /\ LenLimit \in Nat /\ l <= LenLimit /\ o + 3 + l <= Len(buf)
  <2>1. l \in 0..MaxData
    BY <1>1, MessageParts
  <2>2. MaxData \in Nat /\ LenLimit \in Nat /\ MaxData <= LenLimit
    BY Bytewise
  <2>3. o + 3 + l <= Len(buf)
    BY <1>1, Zenon
  <2>4. Len(buf) \in Nat /\ o \in Nat
    OBVIOUS
  <2>5. l \in Nat /\ l <= LenLimit
    BY <2>1, <2>2
  <2> QED
    BY <2>1, <2>2, <2>3, <2>4, <2>5
<1>3. ~(n < Overhead) /\ ~(l > n - Overhead) /\ FrameSize(l) = l + 4
      /\ o + FrameSize(l) = o + 4 + l
  <2>1. FrameSize(l) = l + 4 /\ Overhead = 4
    BY DEF Overhead, FrameSize
  <2>2. n >= 4 + l /\ n \in Nat
    BY <1>2
  <2> QED
    BY <1>2, <2>1, <2>2
<1>4. ~TooLong(l)
  BY <1>2 DEF TooLong
<1>5. buf[o] = MSG_START_FLAG /\ buf[o + 1] = m[1] /\ buf[o + 2] = l
      /\ buf[o + 3 + l] = Ecc(Body(m))
  <2>1. /\ 1 \in 1..4 + l /\ 2 \in 1..4 + l /\ 3 \in 1..4 + l /\ 4 + l \in 1..4 + l
        /\ o + 1 - 1 = o /\ o + 2 - 1 = o + 1 /\ o + 3 - 1 = o + 2
        /\ o + (4 + l) - 1 = o + 3 + l
    BY <1>2
  <2>2. buf[o + 1 - 1] = Frame(m)[1] /\ buf[o + 2 - 1] = Frame(m)[2]
        /\ buf[o + 3 - 1] = Frame(m)[3] /\ buf[o + (4 + l) - 1] = Frame(m)[4 + l]
    BY <1>1, <2>1
  <2> QED
    BY <1>1, <2>1, <2>2, FrameParts
<1>6. PICK c : c = SubSeq(buf, o, o + 2 + l)
  OBVIOUS
<1>7. /\ c \in Seq(Byte) /\ Len(c) = 3 + l
      /\ \A i \in 1..3 + l : c[i] = buf[o + i - 1]
      /\ SubSeq(c, 4, Len(c)) \in Seq(Byte) /\ Len(SubSeq(c, 4, Len(c))) = l
      /\ \A i \in 1..l : SubSeq(c, 4, Len(c))[i] = buf[o + 2 + i]
  <2>1. o + 3 + l <= Len(buf)
    BY <1>1
  <2> QED
    BY <1>2, <1>6, <2>1, Checked
<1>8. c = Body(m)
  <2>1. Body(m) \in Seq(Byte) /\ Len(Body(m)) = 3 + l
        /\ \A i \in 1..3 + l : Frame(m)[i] = Body(m)[i]
    BY <1>1, FrameParts
  <2>2. \A i \in 1..3 + l : c[i] = Body(m)[i]
    <3>1. \A i \in 1..3 + l : i \in 1..4 + l
      BY <1>2
    <3> QED
      BY <1>1, <1>7, <2>1, <3>1
  <2> QED
    BY <1>7, <2>1, <2>2, SeqEqual
<1>9. SubSeq(c, 4, Len(c)) = m[2]
  <2> DEFINE q == SubSeq(c, 4, Len(c))
  <2>1. m[2] \in Seq(Byte) /\ Len(m[2]) = l
    BY <1>1, MessageParts
  <2>2. ASSUME NEW i \in 1..l
        PROVE  q[i] = m[2][i]
    <3>1. 3 + i \in 1..4 + l /\ o + (3 + i) - 1 = o + 2 + i
      BY <1>2
    <3>2. buf[o + (3 + i) - 1] = Frame(m)[3 + i]
      BY <1>1, <3>1
    <3>3. Frame(m)[3 + i] = m[2][i]
      BY <1>1, FrameParts
    <3> QED
      BY <1>7, <3>1, <3>2, <3>3
  <2>3. q \in Seq(Byte) /\ Len(q) = l
    BY <1>7
  <2> HIDE DEF q
  <2>4. q = m[2]
    BY <2>1, <2>2, <2>3, SeqEqual
  <2> QED
    BY <2>4 DEF q
<1>10. CASE m[1] = Heart
  <2>1. ParseStep(buf, f, o) = f[o + FrameSize(l)]
    BY <1>3, <1>4, <1>5, <1>10, Zenon DEF ParseStep
  <2> QED
    BY <1>1, <1>3, <1>10, <2>1, Zenon
<1>11. CASE m[1] # Heart
  <2>1. ParseStep(buf, f, o) =
          Result(<< <<m[1], SubSeq(c, 4, Len(c))>> >> \o f[o + FrameSize(l)].packets,
                 f[o + FrameSize(l)].rest)
    BY <1>3, <1>4, <1>5, <1>6, <1>8, <1>11, Zenon DEF ParseStep
  <2>2. m = <<m[1], m[2]>>
    BY MessageParts
  <2>3. <<m[1], SubSeq(c, 4, Len(c))>> = m
    BY <1>9, <2>2, Zenon
  <2> QED
    BY <1>1, <1>3, <1>11, <2>1, <2>3, Zenon
<1> QED
  BY <1>10, <1>11

\* One turn of the loop at the beginning of a frame.
LEMMA FrameStep ==
  ASSUME sent \in Seq(Messages), NEW e, IsEnds(sent, e), NEW b, IsWhole(sent, e, b),
         NEW x \in Nat, x <= Len(b), NEW buf \in Seq(Byte), NEW f,
         NEW k \in 0..Len(sent), NEW o \in 1..Len(buf) + 1, Stands(buf, o, b, e, k, x),
         f[o] = ParseStep(buf, f, o),
         \A p \in o + 1..Len(buf) + 1 :
           k < Len(sent) /\ Stands(buf, p, b, e, k + 1, x) => Framed(f[p], e, k + 1, x)
  PROVE  Framed(f[o], e, k, x)
<1> DEFINE n == Len(buf) - o + 1
<1>1. /\ Len(buf) \in Nat /\ o \in Nat /\ n \in Nat /\ Len(sent) \in Nat
      /\ e[k] \in Nat /\ e[k] + n = x
  BY EndsOrdered DEF Stands
<1>2. CASE k = Len(sent)
  <2>1. e[k] = Len(b)
    BY <1>2 DEF IsWhole
  <2>2. n < Overhead
    BY <1>1, <2>1 DEF Overhead
  <2>3. f[o] = Keep(buf, o)
    BY <2>2, Zenon DEF ParseStep
  <2>4. Framed(Keep(buf, o), e, k, x)
    BY <1>1, <1>2, FramedKeep
  <2> QED
    BY <2>3, <2>4, Zenon
<1>3. CASE k # Len(sent)
  <2>0. k + 1 \in 1..Len(sent) /\ k + 1 \in 0..Len(sent) /\ (k + 1) - 1 = k /\ k < Len(sent)
    BY <1>1, <1>3
  <2>1. PICK m \in Messages : m = sent[k + 1]
    BY <2>0
  <2>2. PICK l : l = Len(m[2])
    OBVIOUS
  <2>3. l \in 0..MaxData /\ l \in Nat /\ Len(Frame(m)) = 4 + l
    BY <2>2, MessageParts, FrameParts, Bytewise
  <2>4. e[k + 1] = e[k] + (4 + l)
    BY <2>0, <2>1, <2>3 DEF IsEnds
  <2>5. \A i \in 1..4 + l : b[e[k] + i] = Frame(m)[i]
    BY <2>0, <2>1, <2>3, Zenon DEF IsWhole
  <2>6. \A i \in 1..4 + l : o + i - 1 <= Len(buf) => buf[o + i - 1] = Frame(m)[i]
    <3> SUFFICES ASSUME NEW i \in 1..4 + l, o + i - 1 <= Len(buf)
                 PROVE  buf[o + i - 1] = Frame(m)[i]
      OBVIOUS
    <3>1. o + i - 1 \in o..Len(buf) /\ (o + i - 1) - o + 1 = i
      BY <1>1, <2>3
    <3>2. buf[o + i - 1] = b[e[k] + ((o + i - 1) - o + 1)]
      BY <3>1, Zenon DEF Stands
    <3> QED
      BY <2>5, <3>1, <3>2
  <2>7. CASE n < 4 + l
    <3>1. f[o] = Keep(buf, o)
      <4>1. CASE n < Overhead
        BY <4>1, Zenon DEF ParseStep
      <4>2. CASE ~(n < Overhead)
        <5>1. n >= 4 /\ l > n - Overhead
          BY <1>1, <2>3, <2>7, <4>2 DEF Overhead
        <5>2. /\ 1 \in 1..4 + l /\ o + 1 - 1 = o /\ o <= Len(buf)
              /\ 3 \in 1..4 + l /\ o + 3 - 1 = o + 2 /\ o + 2 <= Len(buf)
          BY <1>1, <2>3, <5>1
        <5>3. buf[o] = Frame(m)[1] /\ buf[o + 2] = Frame(m)[3]
          BY <2>6, <5>2
        <5>4. buf[o] = MSG_START_FLAG /\ buf[o + 2] = l
          BY <2>2, <5>3, FrameParts
        <5>5. ~TooLong(l)
          BY <2>3, Bytewise DEF TooLong
        <5> QED
          BY <4>2, <5>1, <5>4, <5>5, Zenon DEF ParseStep
      <4> QED
        BY <4>1, <4>2
    <3>2. e[k + 1] > x
      BY <1>1, <2>3, <2>4, <2>7
    <3>3. Framed(Keep(buf, o), e, k, x)
      BY <1>1, <3>2, FramedKeep
    <3> QED
      BY <3>1, <3>3, Zenon
  <2>8. CASE ~(n < 4 + l)
    <3>1. PICK p : p = o + 4 + l
      OBVIOUS
    <3>2. p \in o + 1..Len(buf) + 1 /\ o + 3 + l <= Len(buf) /\ o \in 1..Len(buf) /\ p \in Nat
      BY <1>1, <2>3, <2>8, <3>1
    <3>3. f[o] = IF m[1] = Heart THEN f[p] ELSE Result(<<m>> \o f[p].packets, f[p].rest)
      <4>1. \A i \in 1..4 + l : buf[o + i - 1] = Frame(m)[i]
        <5>1. \A i \in 1..4 + l : o + i - 1 <= Len(buf)
          BY <1>1, <2>3, <3>2
        <5> QED
          BY <2>6, <5>1
      <4>2. ParseStep(buf, f, o) =
              IF m[1] = Heart THEN f[o + 4 + Len(m[2])]
              ELSE Result(<<m>> \o f[o + 4 + Len(m[2])].packets, f[o + 4 + Len(m[2])].rest)
        BY <2>2, <3>2, <4>1, FrameParsed
      <4> QED
        BY <2>2, <3>1, <4>2, Zenon
    <3>4. Stands(buf, p, b, e, k + 1, x)
      <4>1. e[k + 1] + (Len(buf) - p + 1) = x
        <5>1. PICK a \in Nat, u \in Nat : a = e[k] /\ u = Len(buf)
          BY <1>1
        <5>2. a + (u - o + 1) = x /\ e[k + 1] = a + (4 + l)
          BY <1>1, <2>4, <5>1
        <5>3. a + (4 + l) + (u - p + 1) = x
          BY <1>1, <2>3, <3>1, <5>2
        <5> QED
          BY <5>1, <5>2, <5>3
      <4>2. ASSUME NEW i \in p..Len(buf)
            PROVE  buf[i] = b[e[k + 1] + (i - p + 1)]
        <5>1. i \in o..Len(buf) /\ e[k] + (i - o + 1) = e[k + 1] + (i - p + 1)
          <6>1. PICK a, d : a \in Nat /\ a = e[k] /\ d = e[k + 1]
            BY <1>1
          <6>2. d = a + (4 + l) /\ i \in Int /\ p <= i /\ i <= Len(buf) /\ p \in Nat
            BY <1>1, <2>4, <3>2, <6>1
          <6>3. i \in o..Len(buf)
            BY <1>1, <2>3, <3>1, <6>2
          <6>4. a \in Nat /\ o \in Nat /\ l \in Nat /\ p = o + 4 + l
            BY <1>1, <2>3, <3>1, <6>1
          <6>5. a + (i - o + 1) = d + (i - p + 1)
            BY <6>2, <6>4
          <6> QED
            BY <6>1, <6>3, <6>5
        <5> QED
          BY <5>1 DEF Stands
      <4> QED
        BY <4>1, <4>2 DEF Stands
    <3>5. PICK j \in k + 1..Len(sent) :
            /\ e[j] <= x /\ (j = Len(sent) \/ e[j + 1] > x)
            /\ f[p].packets = Reports(k + 1 + 1, j)
            /\ Len(f[p].rest) = x - e[j]
      <4>1. Framed(f[p], e, k + 1, x)
        BY <2>0, <3>2, <3>4
      <4> QED
        BY <4>1 DEF Framed
    <3>6. j \in k..Len(sent) /\ j \in 0..Len(sent) /\ k + 1 \in 1..j + 1 /\ ~(k + 1 > j)
      BY <1>1, <3>5
    <3>7. Reports(k + 1, j) = IF m[1] = Heart THEN Reports(k + 1 + 1, j)
                              ELSE <<m>> \o Reports(k + 1 + 1, j)
      <4>1. Reports(k + 1, j) = IF k + 1 > j THEN <<>>
                                ELSE IF sent[k + 1][1] = Heart THEN Reports(k + 1 + 1, j)
                                ELSE <<sent[k + 1]>> \o Reports(k + 1 + 1, j)
        BY <3>6, ReportsStep
      <4> QED
        BY <2>1, <3>6, <4>1, Zenon
    <3>8. f[o].packets = Reports(k + 1, j) /\ f[o].rest = f[p].rest
      <4>1. CASE m[1] = Heart
        BY <3>3, <3>5, <3>7, <4>1, Zenon
      <4>2. CASE m[1] # Heart
        <5>1. PICK a, z : a = <<m>> \o f[p].packets /\ z = f[p].rest
          OBVIOUS
        <5>2. f[o] = Result(a, z)
          BY <3>3, <4>2, <5>1, Zenon
        <5>3. f[o].packets = a /\ f[o].rest = z
          BY <5>2 DEF Result
        <5>4. Reports(k + 1, j) = <<m>> \o Reports(k + 1 + 1, j)
          BY <3>7, <4>2, Zenon
        <5> QED
          BY <3>5, <5>1, <5>3, <5>4, Zenon
      <4> QED
        BY <4>1, <4>2
    <3> QED
      BY <3>5, <3>6, <3>8, Zenon DEF Framed
  <2> QED
    BY <2>7, <2>8
<1> QED
  BY <1>2, <1>3

\* A buffer that begins with a frame is parsed frame by frame.
LEMMA ParseFrames ==
  ASSUME sent \in Seq(Messages), NEW e, IsEnds(sent, e), NEW b, IsWhole(sent, e, b),
         NEW x \in Nat, x <= Len(b), NEW buf \in Seq(Byte),
         NEW k \in 0..Len(sent), Stands(buf, 1, b, e, k, x)
  PROVE  Framed(Parse(buf), e, k, x)
<1>1. PICK l \in Nat : l = Len(buf)
  OBVIOUS
<1>2. PICK f : (\A o \in 1..Len(buf) + 1 : f[o] = ParseStep(buf, f, o)) /\ Parse(buf) = f[1]
  BY ParseIs
<1> DEFINE S == {m \in Nat : \A h \in 0..Len(sent) : \A o \in 1..l + 1 :
                               l + 1 - o < m /\ Stands(buf, o, b, e, h, x)
                               => Framed(f[o], e, h, x)}
<1>3. 0 \in S
  OBVIOUS
<1>4. ASSUME NEW m \in Nat, m \in S PROVE m + 1 \in S
  <2> SUFFICES ASSUME NEW h \in 0..Len(sent), NEW o \in 1..l + 1, l + 1 - o < m + 1,
                      Stands(buf, o, b, e, h, x)
               PROVE  Framed(f[o], e, h, x)
    BY <1>4
  <2>1. ASSUME NEW p \in o + 1..l + 1, h < Len(sent), Stands(buf, p, b, e, h + 1, x)
        PROVE  Framed(f[p], e, h + 1, x)
    <3>1. p \in 1..l + 1 /\ l + 1 - p < m /\ h + 1 \in 0..Len(sent)
      BY <2>1
    <3> QED
      BY <1>4, <2>1, <3>1
  <2>2. \A p \in o + 1..Len(buf) + 1 :
          h < Len(sent) /\ Stands(buf, p, b, e, h + 1, x) => Framed(f[p], e, h + 1, x)
    BY <1>1, <2>1
  <2>3. o \in 1..Len(buf) + 1 /\ f[o] = ParseStep(buf, f, o)
    BY <1>1, <1>2
  <2> QED
    BY <2>2, <2>3, FrameStep
<1>5. l + 1 \in S
  <2>1. l + 1 \in Nat
    OBVIOUS
  <2> HIDE DEF S
  <2> QED
    BY <1>3, <1>4, <2>1, SetInduction
<1>6. 1 \in 1..l + 1 /\ l + 1 - 1 < l + 1
  OBVIOUS
<1>7. Framed(f[1], e, k, x)
  BY <1>5, <1>6
<1> QED
  BY <1>2, <1>7

-----------------------------------------------------------------------------
(* Types.                                                                  *)

\* The first state has the types.
LEMMA StreamTypeInit ==
  StreamInit => StreamTypeOK
<1> SUFFICES ASSUME StreamInit
             PROVE  StreamTypeOK
  OBVIOUS
<1>1. MaxSent \in Nat /\ LenLimit \in Nat
  BY StreamAssumption
<1>2. Len(<<>>) = 0 /\ 0 <= MaxSent /\ 0 < LenLimit + Overhead
  BY <1>1 DEF Overhead
<1>3. \A X : <<>> \in Seq(X)
  OBVIOUS
<1> QED
  BY <1>2, <1>3, Zenon DEF StreamInit, StreamTypeOK

\* Bytes are joined in any order.
LEMMA Associative ==
  \A x, y, z \in Seq(Byte) : (x \o y) \o z = x \o (y \o z)
<1>1. PICK X : X = Byte
  OBVIOUS
<1>2. \A x, y, z \in Seq(X) : (x \o y) \o z = x \o (y \o z)
  BY ConcatAssociative
<1> QED
  BY <1>1, <1>2

\* What recv() returns goes behind what was kept.
LEMMA Buffer ==
  ASSUME StreamTypeOK, NEW n \in 1..Len(wire),
         NEW buf, buf = leave \o SubSeq(wire, 1, n),
         NEW w, w = SubSeq(wire, n + 1, Len(wire))
  PROVE  /\ buf \in Seq(Byte) /\ Len(buf) = Len(leave) + n
         /\ w \in Seq(Byte) /\ Len(w) = Len(wire) - n
         /\ leave \o wire = buf \o w
<1>1. wire \in Seq(Byte) /\ leave \in Seq(Byte) /\ Len(wire) \in Nat /\ Len(leave) \in Nat
  BY DEF StreamTypeOK
<1> DEFINE h == SubSeq(wire, 1, n)
<1>2. \A i \in 1..Len(wire) : wire[i] \in Byte
  BY <1>1
<1>3. h \in Seq(Byte) /\ Len(h) = n
  <2>1. (\A i \in 1..n : wire[i] \in Byte) /\ 1 \in Int /\ n \in Int
    BY <1>1, <1>2
  <2>2. h \in Seq(Byte) /\ Len(h) = IF 1 <= n THEN n - 1 + 1 ELSE 0
    BY <2>1, SubSeqProperties
  <2> QED
    BY <1>1, <2>2
<1>4. w \in Seq(Byte) /\ Len(w) = Len(wire) - n
  <2>1. (\A i \in n + 1..Len(wire) : wire[i] \in Byte) /\ n + 1 \in Int /\ Len(wire) \in Int
    BY <1>1, <1>2
  <2>2. w \in Seq(Byte) /\ Len(w) = IF n + 1 <= Len(wire) THEN Len(wire) - (n + 1) + 1 ELSE 0
    BY <2>1, SubSeqProperties
  <2> QED
    BY <1>1, <2>2
<1>5. h \o w = wire
  <2>1. 1 \in 1..Len(wire) + 1 /\ n \in 1 - 1..Len(wire) /\ Len(wire) \in n..Len(wire)
    BY <1>1
  <2>2. h \o w = SubSeq(wire, 1, Len(wire))
    BY <1>1, <2>1, ConcatAdjacentSubSeq
  <2> QED
    BY <1>1, <2>2, SubSeqFull, Zenon
<1> HIDE DEF h
<1>6. buf = leave \o h
  BY DEF h
<1>7. buf \in Seq(Byte) /\ Len(buf) = Len(leave) + n
  BY <1>1, <1>3, <1>6, ConcatProperties
<1>8. leave \o wire = buf \o w
  <2>1. (leave \o h) \o w = leave \o (h \o w)
    BY <1>1, <1>3, <1>4, Associative
  <2> QED
    BY <1>5, <1>6, <2>1, Zenon
<1> QED
  BY <1>4, <1>7, <1>8

\* Every step keeps the types.
LEMMA StreamTypeStep ==
  StreamTypeOK /\ [StreamNext]_streamVars => StreamTypeOK'
<1> SUFFICES ASSUME StreamTypeOK, [StreamNext]_streamVars
             PROVE  StreamTypeOK'
  OBVIOUS
<1>0. Len(<<>>) = 0 /\ MaxSent \in Nat /\ \A X : <<>> \in Seq(X)
  BY StreamAssumption
<1>1. ASSUME Reconnect
      PROVE  StreamTypeOK'
  <2>1. 0 <= MaxSent
    BY <1>0
  <2> QED
    BY <1>0, <1>1, <2>1, Zenon DEF Reconnect, StreamTypeOK
<1>2. ASSUME NEW m \in Messages, ServerSends(m)
      PROVE  StreamTypeOK'
  <2>1. sent' \in Seq(Messages) /\ Len(sent') <= MaxSent
    BY <1>0, <1>2 DEF ServerSends, StreamTypeOK
  <2>2. wire' \in Seq(Byte)
    BY <1>2, FrameParts, ConcatProperties DEF ServerSends, StreamTypeOK
  <2> QED
    BY <1>2, <2>1, <2>2 DEF ServerSends, StreamTypeOK
<1>3. ASSUME NEW n \in 1..Len(wire), Receive(n)
      PROVE  StreamTypeOK'
  <2>1. PICK buf, w : buf = leave \o SubSeq(wire, 1, n) /\ w = SubSeq(wire, n + 1, Len(wire))
    OBVIOUS
  <2>2. buf \in Seq(Byte) /\ w \in Seq(Byte)
    BY <2>1, Buffer
  <2>3. ParsedOK(buf, Parse(buf))
    BY <2>2, ParseType
  <2>4. leave' = Parse(buf).rest /\ delivered' = delivered \o Parse(buf).packets /\ wire' = w
    BY <1>3, <2>1, Zenon DEF Receive
  <2>5. delivered \in Seq(Packet)
    BY DEF StreamTypeOK, Packet
  <2>6. delivered' \in Seq(Packet)
    BY <2>3, <2>4, <2>5, ConcatProperties DEF ParsedOK
  <2>7. leave' \in Seq(Byte) /\ Len(leave') < LenLimit + Overhead
    BY <2>3, <2>4, Zenon DEF ParsedOK
  <2> QED
    BY <1>3, <2>2, <2>4, <2>6, <2>7 DEF Receive, StreamTypeOK, Packet
<1>4. ASSUME Disconnect \/ UNCHANGED streamVars
      PROVE  StreamTypeOK'
  <2>1. connected' \in BOOLEAN /\ UNCHANGED <<sent, wire, leave, delivered>>
    BY <1>4 DEF Disconnect, streamVars, StreamTypeOK
  <2> QED
    BY <2>1 DEF StreamTypeOK
<1> QED
  BY <1>1, <1>2, <1>3, <1>4 DEF StreamNext

\* Less than one frame is kept between two calls of recv(), whatever comes,
\* and only packets are queued (327-422).
THEOREM StreamTypeCorrect == StreamSpec => []StreamTypeOK
  BY StreamTypeInit, StreamTypeStep, PTL DEF StreamSpec

-----------------------------------------------------------------------------
(* Each frame once.                                                        *)

\* The shorter of x and b is the end of the other.
SameEnd(x, b) ==
  \A i \in Nat : i < Len(x) /\ i < Len(b) => x[Len(x) - i] = b[Len(b) - i]

\* What is kept and not yet received, and all that was sent on this
\* connection, end in the same bytes.
StreamInv ==
  /\ StreamTypeOK
  /\ \E e, b : /\ IsEnds(sent, e) /\ IsWhole(sent, e, b)
               /\ Len(wire) <= Len(b) /\ SameEnd(leave \o wire, b)

\* One message more.
LEMMA WholeAppend ==
  ASSUME NEW ms \in Seq(Messages), NEW m \in Messages, NEW e, NEW b,
         IsEnds(ms, e), IsWhole(ms, e, b)
  PROVE  \E d : IsEnds(Append(ms, m), d) /\ IsWhole(Append(ms, m), d, b \o Frame(m))
<1>1. PICK n \in Nat : n = Len(ms)
  OBVIOUS
<1>2. PICK f \in Seq(Byte) : f = Frame(m)
  BY FrameParts
<1>3. PICK l \in Nat : l = Len(f)
  OBVIOUS
<1>4. PICK s : s = Append(ms, m)
  OBVIOUS
<1>5. s \in Seq(Messages) /\ Len(s) = n + 1 /\ s[n + 1] = m /\ \A k \in 1..n : s[k] = ms[k]
  BY <1>1, <1>4
<1>6. \A k \in 0..n : e[k] \in Nat /\ e[k] <= e[n]
  BY <1>1, EndsOrdered
<1>7. PICK d \in [0..n + 1 -> Nat] : d[n + 1] = e[n] + l /\ \A k \in 0..n : d[k] = e[k]
  <2> DEFINE g == [k \in 0..n + 1 |-> IF k = n + 1 THEN e[n] + l ELSE e[k]]
  <2>1. e[n] + l \in Nat
    BY <1>6
  <2>2. \A k \in 0..n + 1 : k # n + 1 => e[k] \in Nat
    BY <1>6
  <2>3. g \in [0..n + 1 -> Nat]
    BY <2>1, <2>2
  <2>4. g[n + 1] = e[n] + l /\ \A k \in 0..n : g[k] = e[k]
    OBVIOUS
  <2> QED
    BY <2>3, <2>4, Zenon
<1>8. IsEnds(s, d)
  <2>1. d[0] = 0
    BY <1>7 DEF IsEnds
  <2>2. ASSUME NEW k \in 1..n + 1
        PROVE  d[k] = d[k - 1] + Len(Frame(s[k]))
    <3>1. CASE k = n + 1
      <4>1. k - 1 = n /\ n \in 0..n
        BY <3>1
      <4> QED
        BY <1>2, <1>3, <1>5, <1>7, <3>1, <4>1
    <3>2. CASE k # n + 1
      <4>1. k \in 1..n /\ k \in 0..n /\ k - 1 \in 0..n
        BY <3>2
      <4>2. e[k] = e[k - 1] + Len(Frame(ms[k]))
        BY <1>1, <4>1, Zenon DEF IsEnds
      <4> QED
        BY <1>5, <1>7, <4>1, <4>2
    <3> QED
      BY <3>1, <3>2
  <2> QED
    BY <1>5, <2>1, <2>2 DEF IsEnds
<1>9. PICK c : c = b \o f
  OBVIOUS
<1>10. b \in Seq(Byte) /\ Len(b) = e[n]
  BY <1>1 DEF IsWhole
<1>11. c \in Seq(Byte) /\ Len(c) = e[n] + l
       /\ \A i \in 1..e[n] + l : c[i] = IF i <= e[n] THEN b[i] ELSE f[i - e[n]]
  <2>1. /\ c \in Seq(Byte) /\ Len(c) = Len(b) + Len(f)
        /\ \A i \in 1..Len(b) + Len(f) : c[i] = IF i <= Len(b) THEN b[i] ELSE f[i - Len(b)]
    BY <1>9, <1>10, ConcatProperties, Zenon
  <2> QED
    BY <1>3, <1>10, <2>1, Zenon
<1>12. ASSUME NEW k \in 1..n + 1, NEW i \in 1..Len(Frame(s[k]))
       PROVE  c[d[k - 1] + i] = Frame(s[k])[i]
  <2>1. CASE k = n + 1
    <3>1. Frame(s[k]) = f /\ i \in 1..l /\ d[k - 1] = e[n] /\ e[n] \in Nat
      <4>1. s[k] = m
        BY <1>5, <2>1
      <4>2. Frame(s[k]) = f /\ i \in 1..Len(f)
        BY <1>2, <4>1
      <4>3. k - 1 = n /\ n \in 0..n
        BY <2>1
      <4>4. d[k - 1] = e[n] /\ e[n] \in Nat
        BY <1>6, <1>7, <4>3
      <4> QED
        BY <1>3, <4>2, <4>4
    <3>2. e[n] + i \in 1..e[n] + l /\ ~(e[n] + i <= e[n]) /\ (e[n] + i) - e[n] = i
      <4>1. PICK a \in Nat : a = e[n]
        BY <3>1
      <4>2. a + i \in 1..a + l /\ ~(a + i <= a) /\ (a + i) - a = i
        BY <3>1
      <4> QED
        BY <4>1, <4>2
    <3> QED
      BY <1>11, <3>1, <3>2
  <2>2. CASE k # n + 1
    <3>1. k \in 1..n /\ k \in 0..n /\ k - 1 \in 0..n
      BY <2>2
    <3>2. s[k] = ms[k] /\ d[k - 1] = e[k - 1]
      BY <1>5, <1>7, <3>1
    <3>3. e[k] = e[k - 1] + Len(Frame(ms[k]))
      BY <1>1, <3>1, Zenon DEF IsEnds
    <3>4. Len(Frame(ms[k])) \in Nat
      <4>1. ms[k] \in Messages
        BY <1>1, <3>1
      <4> QED
        BY <4>1, FrameParts, LenProperties
    <3>5. e[k - 1] \in Nat /\ e[k] \in Nat /\ e[k] <= e[n] /\ e[n] \in Nat /\ n \in 0..n
      BY <1>6, <3>1
    <3>6. e[k - 1] + i \in 1..e[n] + l /\ e[k - 1] + i <= e[n]
      <4>1. PICK a \in Nat, g \in Nat, z \in Nat, v \in Nat :
              a = e[k - 1] /\ g = e[k] /\ z = e[n] /\ v = Len(Frame(ms[k]))
        BY <3>4, <3>5
      <4>2. i \in 1..v /\ g = a + v /\ g <= z
        BY <3>2, <3>3, <3>5, <4>1
      <4>3. a + i \in 1..z + l /\ a + i <= z
        BY <4>2
      <4> QED
        BY <4>1, <4>3
    <3>7. c[e[k - 1] + i] = b[e[k - 1] + i]
      BY <1>11, <3>6
    <3>8. b[e[k - 1] + i] = Frame(ms[k])[i]
      BY <1>1, <3>1, <3>2, Zenon DEF IsWhole
    <3> QED
      BY <3>2, <3>7, <3>8
  <2> QED
    BY <2>1, <2>2
<1>13. Len(c) = d[Len(s)]
  BY <1>5, <1>7, <1>11
<1>14. IsWhole(s, d, c)
  BY <1>5, <1>11, <1>12, <1>13, Zenon DEF IsWhole
<1> QED
  BY <1>2, <1>4, <1>8, <1>9, <1>14, Zenon

\* The same bytes behind both.
LEMMA SameEndAppend ==
  ASSUME NEW x \in Seq(Byte), NEW b \in Seq(Byte), NEW f \in Seq(Byte), SameEnd(x, b)
  PROVE  SameEnd(x \o f, b \o f)
<1>1. Len(x) \in Nat /\ Len(b) \in Nat /\ Len(f) \in Nat
  OBVIOUS
<1>2. PICK y, c : y = x \o f /\ c = b \o f
  OBVIOUS
<1>3. /\ Len(y) = Len(x) + Len(f) /\ Len(c) = Len(b) + Len(f)
      /\ \A i \in 1..Len(x) + Len(f) : y[i] = IF i <= Len(x) THEN x[i] ELSE f[i - Len(x)]
      /\ \A i \in 1..Len(b) + Len(f) : c[i] = IF i <= Len(b) THEN b[i] ELSE f[i - Len(b)]
  BY <1>2, ConcatProperties
<1>4. ASSUME NEW i \in Nat, i < Len(y), i < Len(c)
      PROVE  y[Len(y) - i] = c[Len(c) - i]
  <2>1. Len(y) - i \in 1..Len(x) + Len(f) /\ Len(c) - i \in 1..Len(b) + Len(f)
    BY <1>1, <1>3, <1>4
  <2>2. CASE i < Len(f)
    <3>1. /\ ~(Len(y) - i <= Len(x)) /\ ~(Len(c) - i <= Len(b))
          /\ (Len(y) - i) - Len(x) = Len(f) - i /\ (Len(c) - i) - Len(b) = Len(f) - i
      BY <1>1, <1>3, <2>2
    <3> QED
      BY <1>3, <2>1, <3>1
  <2>3. CASE ~(i < Len(f))
    <3>1. /\ Len(y) - i <= Len(x) /\ Len(c) - i <= Len(b) /\ i - Len(f) \in Nat
          /\ Len(y) - i = Len(x) - (i - Len(f)) /\ Len(c) - i = Len(b) - (i - Len(f))
          /\ i - Len(f) < Len(x) /\ i - Len(f) < Len(b)
      BY <1>1, <1>3, <1>4, <2>3
    <3>2. x[Len(x) - (i - Len(f))] = b[Len(b) - (i - Len(f))]
      BY <3>1, Zenon DEF SameEnd
    <3> QED
      BY <1>3, <2>1, <3>1, <3>2
  <2> QED
    BY <2>2, <2>3
<1> QED
  BY <1>2, <1>4 DEF SameEnd

\* The end of a buffer ends as the buffer does.
LEMMA SameEndRest ==
  ASSUME NEW buf \in Seq(Byte), NEW r \in Seq(Byte), NEW w \in Seq(Byte), NEW b,
         b \in Seq(Byte), EndOf(r, buf), SameEnd(buf \o w, b)
  PROVE  SameEnd(r \o w, b)
<1>1. Len(buf) \in Nat /\ Len(r) \in Nat /\ Len(w) \in Nat /\ Len(b) \in Nat /\ Len(r) <= Len(buf)
  BY DEF EndOf
<1>2. PICK y, z : y = buf \o w /\ z = r \o w
  OBVIOUS
<1>3. /\ Len(y) = Len(buf) + Len(w) /\ Len(z) = Len(r) + Len(w)
      /\ \A i \in 1..Len(buf) + Len(w) : y[i] = IF i <= Len(buf) THEN buf[i] ELSE w[i - Len(buf)]
      /\ \A i \in 1..Len(r) + Len(w) : z[i] = IF i <= Len(r) THEN r[i] ELSE w[i - Len(r)]
  BY <1>2, ConcatProperties
<1>4. ASSUME NEW i \in Nat, i < Len(z), i < Len(b)
      PROVE  z[Len(z) - i] = b[Len(b) - i]
  <2>1. Len(y) - i \in 1..Len(buf) + Len(w) /\ Len(z) - i \in 1..Len(r) + Len(w) /\ i < Len(y)
    BY <1>1, <1>3, <1>4
  <2>2. y[Len(y) - i] = b[Len(b) - i]
    BY <1>2, <1>4, <2>1 DEF SameEnd
  <2>3. CASE i < Len(w)
    <3>1. /\ ~(Len(y) - i <= Len(buf)) /\ ~(Len(z) - i <= Len(r))
          /\ (Len(y) - i) - Len(buf) = Len(w) - i /\ (Len(z) - i) - Len(r) = Len(w) - i
      BY <1>1, <1>3, <2>3
    <3> QED
      BY <1>3, <2>1, <2>2, <3>1
  <2>4. CASE ~(i < Len(w))
    <3>1. /\ Len(y) - i <= Len(buf) /\ Len(z) - i <= Len(r) /\ Len(z) - i \in 1..Len(r)
          /\ Len(y) - i = Len(buf) - Len(r) + (Len(z) - i)
      BY <1>1, <1>3, <1>4, <2>4
    <3>2. r[Len(z) - i] = buf[Len(buf) - Len(r) + (Len(z) - i)]
      BY <3>1, Zenon DEF EndOf
    <3>3. z[Len(z) - i] = r[Len(z) - i] /\ y[Len(y) - i] = buf[Len(y) - i]
      BY <1>3, <2>1, <3>1
    <3> QED
      BY <2>2, <3>1, <3>2, <3>3
  <2> QED
    BY <2>3, <2>4
<1> QED
  BY <1>2, <1>4 DEF SameEnd

\* The invariant holds in the first state and whenever a connection is made:
\* nothing has been sent on it.
LEMMA NothingSent ==
  ASSUME NEW y
  PROVE  \E e, b : /\ IsEnds(<<>>, e) /\ IsWhole(<<>>, e, b)
                   /\ Len(<<>>) <= Len(b) /\ SameEnd(y, b)
<1> DEFINE e == [k \in 0..0 |-> 0]
<1>1. Len(<<>>) = 0 /\ (\A k \in 1..0 : FALSE) /\ <<>> \in Seq(Byte)
  OBVIOUS
<1>2. e \in [0..0 -> Nat] /\ e[0] = 0
  OBVIOUS
<1> HIDE DEF e
<1>3. IsEnds(<<>>, e)
  BY <1>1, <1>2 DEF IsEnds
<1>4. IsWhole(<<>>, e, <<>>)
  BY <1>1, <1>2, Zenon DEF IsWhole
<1>5. SameEnd(y, <<>>)
  BY <1>1 DEF SameEnd
<1> QED
  BY <1>1, <1>3, <1>4, <1>5

\* The server sends one message more.
LEMMA StreamInvSend ==
  ASSUME StreamInv, NEW m \in Messages, ServerSends(m)
  PROVE  StreamInv'
<1>1. StreamTypeOK /\ StreamTypeOK'
  BY StreamTypeStep DEF StreamInv, StreamNext
<1>2. PICK e, b : /\ IsEnds(sent, e) /\ IsWhole(sent, e, b)
                  /\ Len(wire) <= Len(b) /\ SameEnd(leave \o wire, b)
  BY DEF StreamInv
<1>3. sent' = Append(sent, m) /\ wire' = wire \o Frame(m) /\ leave' = leave
  BY DEF ServerSends
<1>4. PICK d : IsEnds(sent', d) /\ IsWhole(sent', d, b \o Frame(m))
  <2>1. sent \in Seq(Messages)
    BY <1>1 DEF StreamTypeOK
  <2> QED
    BY <1>2, <1>3, <2>1, WholeAppend
<1>5. PICK f \in Seq(Byte) : f = Frame(m)
  BY FrameParts
<1>6. wire \in Seq(Byte) /\ leave \in Seq(Byte) /\ b \in Seq(Byte)
  BY <1>1, <1>2 DEF StreamTypeOK, IsWhole
<1>7. Len(wire \o f) <= Len(b \o f)
  <2>1. Len(wire \o f) = Len(wire) + Len(f) /\ Len(b \o f) = Len(b) + Len(f)
    BY <1>6, ConcatProperties
  <2> QED
    BY <1>2, <1>6, <2>1
<1>8. SameEnd(leave \o (wire \o f), b \o f)
  <2>1. PICK x \in Seq(Byte) : x = leave \o wire
    BY <1>6, ConcatProperties
  <2>2. SameEnd(x \o f, b \o f)
    BY <1>2, <1>6, <2>1, SameEndAppend
  <2>3. x \o f = leave \o (wire \o f)
    BY <1>6, <2>1, Associative
  <2> QED
    BY <2>2, <2>3
<1> QED
  BY <1>1, <1>3, <1>4, <1>5, <1>7, <1>8, Zenon DEF StreamInv

\* Some of what is underway is received.
LEMMA StreamInvReceive ==
  ASSUME StreamInv, NEW n \in 1..Len(wire), Receive(n)
  PROVE  StreamInv'
<1>1. StreamTypeOK /\ StreamTypeOK'
  BY StreamTypeStep DEF StreamInv, StreamNext
<1>2. PICK e, b : /\ IsEnds(sent, e) /\ IsWhole(sent, e, b)
                  /\ Len(wire) <= Len(b) /\ SameEnd(leave \o wire, b)
  BY DEF StreamInv
<1>3. PICK buf, w : buf = leave \o SubSeq(wire, 1, n) /\ w = SubSeq(wire, n + 1, Len(wire))
  OBVIOUS
<1>4. /\ buf \in Seq(Byte) /\ w \in Seq(Byte) /\ Len(w) = Len(wire) - n
      /\ leave \o wire = buf \o w
  BY <1>1, <1>3, Buffer
<1>5. sent' = sent /\ wire' = w /\ leave' = Parse(buf).rest
  BY <1>3, Zenon DEF Receive
<1>6. leave' \in Seq(Byte) /\ EndOf(leave', buf)
  BY <1>4, <1>5, ParseType DEF ParsedOK
<1>7. b \in Seq(Byte) /\ SameEnd(buf \o w, b)
  BY <1>2, <1>4 DEF IsWhole
<1>8. SameEnd(leave' \o w, b)
  BY <1>4, <1>6, <1>7, SameEndRest
<1>9. Len(w) <= Len(b)
  <2>1. Len(wire) \in Nat /\ Len(b) \in Nat
    BY <1>1, <1>7 DEF StreamTypeOK
  <2> QED
    BY <1>2, <1>4, <2>1
<1> QED
  BY <1>1, <1>2, <1>5, <1>8, <1>9, Zenon DEF StreamInv

\* The invariant holds at first and after every step.
LEMMA StreamInvStep ==
  /\ StreamInit => StreamInv
  /\ StreamInv /\ [StreamNext]_streamVars => StreamInv'
<1>1. ASSUME StreamInit
      PROVE  StreamInv
  <2>1. StreamTypeOK /\ sent = <<>> /\ wire = <<>>
    BY <1>1, StreamTypeInit DEF StreamInit
  <2>2. \E e, b : /\ IsEnds(<<>>, e) /\ IsWhole(<<>>, e, b)
                  /\ Len(<<>>) <= Len(b) /\ SameEnd(leave \o wire, b)
    BY NothingSent
  <2> QED
    BY <2>1, <2>2, Zenon DEF StreamInv
<1>2. ASSUME StreamInv, [StreamNext]_streamVars
      PROVE  StreamInv'
  <2>1. StreamTypeOK'
    BY <1>2, StreamTypeStep DEF StreamInv
  <2>2. CASE Reconnect
    <3>1. sent' = <<>> /\ wire' = <<>>
      BY <2>2 DEF Reconnect
    <3>2. \E e, b : /\ IsEnds(<<>>, e) /\ IsWhole(<<>>, e, b)
                    /\ Len(<<>>) <= Len(b) /\ SameEnd(leave' \o wire', b)
      BY NothingSent
    <3> QED
      BY <2>1, <3>1, <3>2, Zenon DEF StreamInv
  <2>3. CASE Disconnect \/ UNCHANGED streamVars
    <3>1. sent' = sent /\ wire' = wire /\ leave' = leave
      BY <2>3 DEF Disconnect, streamVars
    <3> QED
      BY <1>2, <2>1, <3>1, Zenon DEF StreamInv
  <2> QED
    BY <1>2, <2>2, <2>3, StreamInvSend, StreamInvReceive DEF StreamNext
<1> QED
  BY <1>1, <1>2

\* What has been received, counted in the frames that were sent.
LEMMA ReceivedIs ==
  sent \in Seq(Messages) =>
    \A e : IsEnds(sent, e) =>
      /\ Received = e[Len(sent)] - Len(wire)
      /\ \A k \in 0..Len(sent) : FrameEnd(k) = e[k]
<1> SUFFICES ASSUME sent \in Seq(Messages), NEW e, IsEnds(sent, e)
             PROVE  /\ Received = e[Len(sent)] - Len(wire)
                    /\ \A k \in 0..Len(sent) : FrameEnd(k) = e[k]
  OBVIOUS
<1>1. PICK d : IsEnds(sent, d) /\ \A k \in 0..Len(sent) : FrameEnd(k) = d[k]
  BY FrameEndIs
<1>2. \A k \in 0..Len(sent) : FrameEnd(k) = e[k]
  BY <1>1, EndsUnique
<1>3. Len(sent) \in 0..Len(sent)
  OBVIOUS
<1>4. Received = e[Len(sent)] - Len(wire)
  BY <1>2, <1>3, Zenon DEF Received
<1> QED
  BY <1>2, <1>4

\* What a step does to a connection whose parser stands at the beginning of
\* a frame (EachFrameOnce).
Once ==
  \A k \in 0..Len(sent) :
    /\ connected /\ sent' = sent /\ wire' # wire /\ Position = FrameEnd(k)
    => \E j \in k..Len(sent) :
         /\ FrameEnd(j) <= Received' /\ (j = Len(sent) \/ FrameEnd(j + 1) > Received')
         /\ delivered' = delivered \o Reports(k + 1, j)
         /\ Position' = FrameEnd(j)

\* Receiving is the only such step.
LEMMA ReceiveOnce ==
  ASSUME StreamInv, StreamTypeOK', NEW n \in 1..Len(wire), Receive(n),
         NEW k \in 0..Len(sent), Position = FrameEnd(k),
         \A e : IsEnds(sent', e) => Received' = e[Len(sent')] - Len(wire')
  PROVE  \E j \in k..Len(sent) :
           /\ FrameEnd(j) <= Received' /\ (j = Len(sent) \/ FrameEnd(j + 1) > Received')
           /\ delivered' = delivered \o Reports(k + 1, j)
           /\ Position' = FrameEnd(j)
<1>1. StreamTypeOK /\ sent \in Seq(Messages)
  BY DEF StreamInv, StreamTypeOK
<1>2. PICK e, b : /\ IsEnds(sent, e) /\ IsWhole(sent, e, b)
                  /\ Len(wire) <= Len(b) /\ SameEnd(leave \o wire, b)
  BY DEF StreamInv
<1>3. PICK buf, w : buf = leave \o SubSeq(wire, 1, n) /\ w = SubSeq(wire, n + 1, Len(wire))
  OBVIOUS
<1>4. /\ buf \in Seq(Byte) /\ Len(buf) = Len(leave) + n
      /\ w \in Seq(Byte) /\ Len(w) = Len(wire) - n
      /\ leave \o wire = buf \o w
  BY <1>1, <1>3, Buffer
<1>5. /\ sent' = sent /\ wire' = w /\ leave' = Parse(buf).rest
      /\ delivered' = delivered \o Parse(buf).packets
  BY <1>3, Zenon DEF Receive
<1>6. /\ b \in Seq(Byte) /\ Len(b) = e[Len(sent)] /\ Len(b) \in Nat
      /\ Len(wire) \in Nat /\ Len(leave) \in Nat /\ Len(buf) \in Nat /\ Len(w) \in Nat
  <2>1. b \in Seq(Byte) /\ Len(b) = e[Len(sent)]
    BY <1>2 DEF IsWhole
  <2>2. wire \in Seq(Byte) /\ leave \in Seq(Byte)
    BY <1>1 DEF StreamTypeOK
  <2> QED
    BY <1>4, <2>1, <2>2, LenProperties
<1>7. /\ Received = Len(b) - Len(wire)
      /\ \A h \in 0..Len(sent) : FrameEnd(h) = e[h]
  BY <1>1, <1>2, <1>6, ReceivedIs
<1>8. PICK x : x = Len(b) - Len(wire) + n
  OBVIOUS
<1>9. Received' = x
  <2>1. Received' = e[Len(sent)] - Len(w)
    BY <1>2, <1>5
  <2> QED
    BY <1>4, <1>6, <1>8, <2>1
<1>10. x \in Nat /\ x <= Len(b)
  BY <1>2, <1>6, <1>8
<1>11. e[k] \in Nat /\ e[k] + Len(buf) = x /\ e[k] + Len(buf) + Len(w) = Len(b)
  <2>1. e[k] \in Nat
    BY <1>1, <1>2, EndsOrdered
  <2>2. Len(b) - Len(wire) - Len(leave) = e[k]
    BY <1>7 DEF Position
  <2>3. PICK a \in Nat : a = e[k]
    BY <2>1
  <2>4. a + Len(buf) = x /\ a + Len(buf) + Len(w) = Len(b)
    <3>1. PICK lb \in Nat, lw \in Nat, ll \in Nat, lu \in Nat, lv \in Nat :
            lb = Len(b) /\ lw = Len(wire) /\ ll = Len(leave) /\ lu = Len(buf) /\ lv = Len(w)
      BY <1>6
    <3>2. lb - lw - ll = a /\ lu = ll + n /\ lv = lw - n /\ x = lb - lw + n
      BY <1>4, <1>8, <2>2, <2>3, <3>1
    <3>3. a + lu = x /\ a + lu + lv = lb
      BY <3>2
    <3> QED
      BY <3>1, <3>3
  <2> QED
    BY <2>3, <2>4
<1>12. Stands(buf, 1, b, e, k, x)
  <2>1. PICK a \in Nat : a = e[k]
    BY <1>11
  <2>2. PICK y : y = buf \o w
    OBVIOUS
  <2>3. /\ Len(y) = Len(buf) + Len(w)
        /\ \A i \in 1..Len(buf) + Len(w) : y[i] = IF i <= Len(buf) THEN buf[i] ELSE w[i - Len(buf)]
    BY <1>4, <2>2, ConcatProperties
  <2>4. ASSUME NEW i \in 1..Len(buf)
        PROVE  buf[i] = b[e[k] + (i - 1 + 1)]
    <3>1. PICK t : t = Len(y) - i
      OBVIOUS
    <3>2. /\ t \in Nat /\ t < Len(y) /\ t < Len(b) /\ Len(y) - t = i /\ Len(b) - t = a + i
          /\ i \in 1..Len(buf) + Len(w) /\ i - 1 + 1 = i
      <4>1. PICK lb, lu, lv, ly :
              /\ lb \in Nat /\ lu \in Nat /\ lv \in Nat
              /\ lb = Len(b) /\ lu = Len(buf) /\ lv = Len(w) /\ ly = Len(y)
        BY <1>6
      <4>2. ly = lu + lv /\ a + lu + lv = lb /\ t = ly - i /\ i \in 1..lu
        BY <1>11, <2>1, <2>3, <3>1, <4>1
      <4>3. /\ t \in Nat /\ t < ly /\ t < lb /\ ly - t = i /\ lb - t = a + i
            /\ i \in 1..lu + lv /\ i - 1 + 1 = i
        BY <4>1, <4>2
      <4> QED
        BY <4>1, <4>3
    <3>3. y[Len(y) - t] = b[Len(b) - t]
      BY <1>2, <1>4, <2>2, <3>2, Zenon DEF SameEnd
    <3>4. y[i] = buf[i]
      BY <2>3, <3>2
    <3> QED
      BY <2>1, <3>2, <3>3, <3>4
  <2>5. e[k] + (Len(buf) - 1 + 1) = x
    BY <1>6, <1>11
  <2> QED
    BY <2>4, <2>5 DEF Stands
<1>13. PICK j \in k..Len(sent) :
         /\ e[j] <= x /\ (j = Len(sent) \/ e[j + 1] > x)
         /\ Parse(buf).packets = Reports(k + 1, j)
         /\ Len(Parse(buf).rest) = x - e[j]
  <2>1. Framed(Parse(buf), e, k, x)
    BY <1>1, <1>2, <1>4, <1>10, <1>12, ParseFrames
  <2> QED
    BY <2>1 DEF Framed
<1>14. j \in 0..Len(sent) /\ FrameEnd(j) = e[j] /\ e[j] \in Nat
  <2>1. j \in 0..Len(sent)
    BY <1>1
  <2> QED
    BY <1>1, <1>2, <1>7, <2>1, EndsOrdered
<1>15. j = Len(sent) \/ FrameEnd(j + 1) > Received'
  <2>1. CASE j # Len(sent)
    <3>1. j + 1 \in 0..Len(sent)
      BY <1>1, <1>14, <2>1
    <3> QED
      BY <1>7, <1>9, <1>13, <2>1, <3>1
  <2> QED
    BY <2>1
<1>16. Position' = FrameEnd(j)
  <2>1. Position' = x - (x - e[j])
    BY <1>5, <1>9, <1>13, Zenon DEF Position
  <2>2. x - (x - e[j]) = e[j]
    BY <1>10, <1>14
  <2> QED
    BY <1>14, <2>1, <2>2
<1>17. FrameEnd(j) <= Received' /\ delivered' = delivered \o Reports(k + 1, j)
  BY <1>5, <1>9, <1>13, <1>14
<1> QED
  BY <1>15, <1>16, <1>17, Zenon

\* However recv() cuts the stream, every report is queued once and in order
\* and the rest is kept, as long as the parser stands at the beginning of a
\* frame (EachFrameOnce; 349-421).
THEOREM EachFrameCorrect == StreamSpec => EachFrameOnce
<1>1. (sent \in Seq(Messages))' =>
        (\A e : IsEnds(sent, e) =>
           /\ Received = e[Len(sent)] - Len(wire)
           /\ \A k \in 0..Len(sent) : FrameEnd(k) = e[k])'
  BY ReceivedIs, PTL
<1>2. StreamInv /\ StreamInv' /\ [StreamNext]_streamVars => [Once]_streamVars
  <2> SUFFICES ASSUME StreamInv, StreamInv', StreamNext,
                      NEW k \in 0..Len(sent), connected, sent' = sent, wire' # wire,
                      Position = FrameEnd(k)
               PROVE  \E j \in k..Len(sent) :
                        /\ FrameEnd(j) <= Received'
                        /\ (j = Len(sent) \/ FrameEnd(j + 1) > Received')
                        /\ delivered' = delivered \o Reports(k + 1, j)
                        /\ Position' = FrameEnd(j)
    BY Zenon DEF Once
  <2>1. StreamTypeOK' /\ (sent \in Seq(Messages))'
    BY DEF StreamInv, StreamTypeOK
  <2>2. \A e : IsEnds(sent', e) => Received' = e[Len(sent')] - Len(wire')
    BY <1>1, <2>1, Zenon
  <2>3. ASSUME NEW m \in Messages, ServerSends(m)
        PROVE  FALSE
    <3>1. sent \in Seq(Messages) /\ sent' = Append(sent, m)
      BY <2>3 DEF ServerSends, StreamInv, StreamTypeOK
    <3>2. Len(sent') = Len(sent) + 1 /\ Len(sent) \in Nat
      BY <3>1
    <3> QED
      BY <3>2
  <2>4. ~Reconnect /\ ~Disconnect
    BY DEF Reconnect, Disconnect
  <2>5. PICK n \in 1..Len(wire) : Receive(n)
    BY <2>3, <2>4 DEF StreamNext
  <2> QED
    BY <2>1, <2>2, <2>5, ReceiveOnce
<1> QED
  BY <1>2, StreamInvStep, PTL DEF StreamSpec, EachFrameOnce, Once
=============================================================================
