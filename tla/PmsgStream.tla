----------------------------- MODULE PmsgStream -----------------------------
(***************************************************************************)
(* The receiving half of CliProcessThread (pmsgcli.c 327-422): how a byte  *)
(* stream cut into recv() calls becomes packets in the queue.              *)
(*                                                                         *)
(* The alphabet is small and the length field is one cell instead of two;  *)
(* what the parser does with flag, length, checksum and leftover bytes is  *)
(* kept.  A server only sends well-formed frames, in which a payload may   *)
(* contain any value, the start flag included.                             *)
(***************************************************************************)
EXTENDS Integers, Sequences

CONSTANTS
  Base,        \* byte values are 0..Base-1
  Xor(_, _),   \* the ^ of two bytes
  Heart,       \* SERV_CLI_MSG_TYPE_HEART
  Report,      \* the type of every other message
  MaxData,     \* bound: longest payload a server sends
  LenLimit,    \* the 1024 of line 378: longer is taken for garbage
  MaxSent      \* bound: messages per connection

ASSUME StreamAssumption ==
  /\ Base \in Nat \ {0} /\ MaxData \in Nat /\ LenLimit \in Nat /\ MaxSent \in Nat
  /\ Heart \in 0..Base-1 /\ Report \in 0..Base-1
  /\ MaxData <= LenLimit /\ MaxData < Base
  /\ \A a, b \in 0..Base-1 : Xor(a, b) \in 0..Base-1

Byte == 0..Base-1
MSG_START_FLAG == Base - 1
Overhead == 4          \* flag, type, length, checksum: the 5 of line 356

Ecc(bytes) ==
  LET Sum[i \in 0..Len(bytes)] == IF i = 0 THEN 0 ELSE Xor(Sum[i - 1], bytes[i])
  IN  Sum[Len(bytes)]

Payloads(max) == UNION {[1..n -> Byte] : n \in 0..max}
Messages == {Heart} \X {<<>>} \cup {Report} \X Payloads(MaxData)
Frame(m) ==
  LET body == <<MSG_START_FLAG, m[1], Len(m[2])>> \o m[2]
  IN  Append(body, Ecc(body))

VARIABLES
  connected,
  sent,      \* messages the server has written to this connection
  wire,      \* bytes of them the client has not received
  leave,     \* pcLeaveBuf up to iPreLeaveLen; kept when the connection is lost
  delivered  \* packets put into the queue since this connection was made

streamVars == <<connected, sent, wire, leave, delivered>>

\* Less than one frame is kept, whatever was received before: the receive
\* buffer always has room for the next recv() (331, 378, 418).
StreamTypeOK ==
  /\ connected \in BOOLEAN
  /\ sent \in Seq(Messages) /\ Len(sent) <= MaxSent
  /\ wire \in Seq(Byte)
  /\ leave \in Seq(Byte) /\ Len(leave) < LenLimit + Overhead
  /\ delivered \in Seq((Byte \ {Heart}) \X Payloads(LenLimit))

StreamInit ==
  /\ connected = FALSE
  /\ sent = <<>> /\ wire = <<>> /\ leave = <<>> /\ delivered = <<>>

-----------------------------------------------------------------------------
(* The loop of lines 356-421 over the bytes buf: the packets it queues and *)
(* the bytes it keeps for the next recv().  At[o] is what it does from     *)
(* offset o on.                                                            *)

Result(packets, rest) == [packets |-> packets, rest |-> rest]
Dropped == Result(<<>>, <<>>)

\* Mutant: the start of an incomplete frame is dropped.
NoRest(buf, o) == Dropped
Keep(buf, o) == Result(<<>>, SubSeq(buf, o, Len(buf)))

FrameSize(len) == len + Overhead

\* Mutant: lengths are not limited.
AnyLength(len) == FALSE
TooLong(len) == len > LenLimit

Parse(buf) ==
  LET At[o \in 1..Len(buf)+1] ==
        LET n == Len(buf) - o + 1                       \* iLeaveLen
            len == buf[o + 2]                           \* iMsgDataLen
            after == At[o + FrameSize(len)]
            checked == SubSeq(buf, o, o + 2 + len)
        IN  IF n < Overhead THEN Keep(buf, o)
            ELSE IF buf[o] # MSG_START_FLAG \/ TooLong(len) THEN Dropped
            ELSE IF len > n - Overhead THEN Keep(buf, o)
            ELSE IF buf[o + 1] = Heart THEN after
            ELSE IF buf[o + 3 + len] # Ecc(checked) THEN Dropped
            ELSE Result(<< <<buf[o + 1], SubSeq(checked, 4, Len(checked))>> >> \o after.packets,
                        after.rest)
  IN  At[1]

-----------------------------------------------------------------------------
Reconnect ==
  /\ ~connected
  /\ connected' = TRUE
  /\ sent' = <<>> /\ wire' = <<>> /\ delivered' = <<>>
  /\ UNCHANGED leave

ServerSends(m) ==
  /\ connected /\ Len(sent) < MaxSent
  /\ sent' = Append(sent, m) /\ wire' = wire \o Frame(m)
  /\ UNCHANGED <<connected, leave, delivered>>

\* recv() returns the first n bytes of what has arrived.
Receive(n) ==
  /\ connected /\ n \in 1..Len(wire)
  /\ LET r == Parse(leave \o SubSeq(wire, 1, n))
     IN  leave' = r.rest /\ delivered' = delivered \o r.packets
  /\ wire' = SubSeq(wire, n + 1, Len(wire))
  /\ UNCHANGED <<connected, sent>>

\* The three ways a connection ends; bytes not received are gone.  None of
\* them resets iPreLeaveLen.
Disconnect ==
  /\ connected /\ connected' = FALSE
  /\ UNCHANGED <<sent, wire, leave, delivered>>

StreamNext ==
  \/ Reconnect \/ Disconnect
  \/ \E m \in Messages : ServerSends(m)
  \/ \E n \in 1..Len(wire) : Receive(n)

StreamSpec == StreamInit /\ [][StreamNext]_streamVars
-----------------------------------------------------------------------------
(* Properties.                                                             *)

\* Bytes of the first k messages of this connection; the reports among its
\* messages i..j.
FrameEnd(k) ==
  LET End[i \in 0..Len(sent)] == IF i = 0 THEN 0 ELSE End[i - 1] + Len(Frame(sent[i]))
  IN  End[k]
Reports(i, j) ==
  LET From[k \in 1..j + 1] ==
        IF k > j THEN <<>>
        ELSE IF sent[k][1] = Heart THEN From[k + 1]
        ELSE <<sent[k]>> \o From[k + 1]
  IN  From[i]

\* Bytes received of this connection; where in them the next frame to be
\* parsed begins.
Received == FrameEnd(Len(sent)) - Len(wire)
Position == Received - Len(leave)

\* As long as the parser stands at the beginning of a frame, however recv()
\* cuts the stream, it queues exactly the reports that have arrived
\* completely, each once and in order, keeps the rest, and stands at the
\* beginning of a frame again (349-421).  Leftover bytes of an earlier
\* connection put it elsewhere until it drops them.
EachFrameOnce ==
  [][\A k \in 0..Len(sent) :
       /\ connected /\ sent' = sent /\ wire' # wire /\ Position = FrameEnd(k)
       => \E j \in k..Len(sent) :
            /\ FrameEnd(j) <= Received' /\ (j = Len(sent) \/ FrameEnd(j + 1) > Received')
            /\ delivered' = delivered \o Reports(k + 1, j)
            /\ Position' = FrameEnd(j)]_streamVars
=============================================================================
