----------------------------- MODULE Rs485Frames ----------------------------
(***************************************************************************)
(* The thread that reads the serial link (rs485serv.c): bytes are          *)
(* collected until the line has been quiet for 50 ms, and what has come    *)
(* until then is one frame if its header, length and checksum are right.   *)
(* The buffer is never cleared, only the position goes back.               *)
(*                                                                         *)
(* A frame has a header, one byte of data and a checksum that is this      *)
(* byte.  Bytes have few values; the checksum is computed in a signed      *)
(* char and compared with an unsigned one.  The line may lose bytes, and a *)
(* frame may follow the last before the line has been quiet; the checksum  *)
(* of a mixture never fits by chance.                                      *)
(***************************************************************************)
EXTENDS Integers, Sequences, SequencesExt

CONSTANTS
  SerialBase,      \* 256: values of a byte
  RECV_BUF_SIZE,
  MaxFrames        \* bound: frames sent

ASSUME SerialAssumption ==
  SerialBase \in Nat \ {0} /\ RECV_BUF_SIZE \in Nat \ {0} /\ MaxFrames \in Nat

FrameHeader == 2 * SerialBase
Bytes == 0..SerialBase - 1
Length == 3        \* 29

VARIABLES
  serialSent,   \* data of the frames sent
  line,         \* bytes the thread has not read
  pcRecvBuf, iPos,
  queued        \* data of the frames put into the queue

serialVars == <<serialSent, line, pcRecvBuf, iPos, queued>>

SerialTypeOK ==
  /\ serialSent \in Seq(Bytes) /\ line \in Seq(Bytes \cup {FrameHeader})
  /\ pcRecvBuf \in [1..RECV_BUF_SIZE -> Bytes \cup {FrameHeader}]
  /\ iPos \in 0..RECV_BUF_SIZE - 1 /\ queued \in Seq(Bytes)

SerialInit ==
  /\ serialSent = <<>> /\ line = <<>> /\ queued = <<>>
  /\ pcRecvBuf = [i \in 1..RECV_BUF_SIZE |-> 0] /\ iPos = 0

\* What the line may leave of the frame <<FrameHeader, d, d>>.
Arrives(d) ==
  {<<>>, <<FrameHeader>>, <<d>>, <<d, d>>, <<FrameHeader, d>>, <<FrameHeader, d, d>>}

\* Every frame differs, so that each can be known again.
Send ==
  /\ Len(serialSent) < MaxFrames
  /\ \E d \in Bytes \ ToSet(serialSent) : \E bytes \in Arrives(d) :
       serialSent' = Append(serialSent, d) /\ line' = line \o bytes
  /\ UNCHANGED <<pcRecvBuf, iPos, queued>>

\* A full buffer is given up.
Read ==
  /\ line # <<>>
  /\ \E n \in 1..Len(line) :
       /\ iPos + n <= RECV_BUF_SIZE
       /\ pcRecvBuf' = [i \in 1..RECV_BUF_SIZE |->
                          IF i - iPos \in 1..n THEN line[i - iPos] ELSE pcRecvBuf[i]]
       /\ iPos' = (iPos + n) % RECV_BUF_SIZE
       /\ line' = SubSeq(line, n + 1, Len(line))
  /\ UNCHANGED <<serialSent, queued>>

Signed(b) == IF b >= SerialBase \div 2 THEN b - SerialBase ELSE b

\* Mutant: the length is not looked at.
IsFrameOfAnyLength == pcRecvBuf[1] = FrameHeader /\ Signed(pcRecvBuf[2]) = pcRecvBuf[3]
IsFrame == /\ pcRecvBuf[1] = FrameHeader /\ iPos >= Length
           /\ Signed(pcRecvBuf[2]) = pcRecvBuf[3]

Quiet ==
  /\ line = <<>> /\ iPos' = 0
  /\ queued' = IF iPos > 0 /\ IsFrame THEN Append(queued, pcRecvBuf[2]) ELSE queued
  /\ UNCHANGED <<serialSent, line, pcRecvBuf>>

SerialNext == Send \/ Read \/ Quiet
SerialSpec == SerialInit /\ [][SerialNext]_serialVars
-----------------------------------------------------------------------------
(* Properties.                                                             *)

\* What is queued are frames that were sent, in their order and each once:
\* frames that run together, lost bytes and the bytes of an earlier frame
\* that are still in the buffer never make one (371-526).
FramesAsSent ==
  \E place \in [DOMAIN queued -> DOMAIN serialSent] :
    /\ \A i, j \in DOMAIN queued : i < j => place[i] < place[j]
    /\ \A i \in DOMAIN queued : queued[i] = serialSent[place[i]]
=============================================================================
