-------------------------------- MODULE Fifo --------------------------------
(* What the packet queues promise: packets come out in the order they went *)
(* in, each once; a packet may be refused when memory is short; destroying *)
(* the queue discards what is in it.                                       *)
EXTENDS Sequences

CONSTANTS Packets, NoPacket

VARIABLES queue, got

FInit == queue = <<>> /\ got = NoPacket
FPut(p) == queue' = Append(queue, p) /\ UNCHANGED got
FGet == queue # <<>> /\ got' = Head(queue) /\ queue' = Tail(queue)
FHandled == got' = NoPacket /\ UNCHANGED queue
FDestroy == queue' = <<>> /\ UNCHANGED got
FNext == (\E p \in Packets : FPut(p)) \/ FGet \/ FHandled \/ FDestroy
FSpec == FInit /\ [][FNext]_<<queue, got>>
=============================================================================
