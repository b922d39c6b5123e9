------------------------------ MODULE PktQueue ------------------------------
(***************************************************************************)
(* The linked list between CliProcessThread and the UI thread (pmsgcli.c   *)
(* 107-252); ftpApi.c 66-203 and rs485serv.c hold the same code.  The      *)
(* heap is modelled node by node and every pointer assignment is a step,   *)
(* so that what keeps the list whole is the mutex and nothing else.        *)
(***************************************************************************)
EXTENDS Integers, FiniteSets, Sequences

CONSTANTS
  Producers,  \* threads that put; the code has one per queue
  Packets,
  NoPacket,
  Nodes,      \* heap addresses; bound: malloc fails when all are in use
  NULL

Consumer == "consumer"

ASSUME QueueAssumption ==
  /\ IsFiniteSet(Nodes) /\ NULL \notin Nodes \cup Producers \cup {Consumer}
  /\ Consumer \notin Producers /\ NoPacket \notin Packets

VARIABLES
  ptFirst, ptLast, iPktCount,   \* T_PMSG_QUEUE
  pMutex,                       \* its holder
  next, tPkt,                   \* the heap: T_PMSG_PACKET_LIST
  allocated,                    \* nodes between malloc and free
  putPc, ptPktList, arg,        \* PutNodeToPmsgQueue of each producer
  getPc, ptTmp, ptPkt           \* GetNode / Destroy of the consumer

list == <<ptFirst, ptLast, iPktCount>>
heap == <<next, tPkt, allocated>>
put == <<putPc, ptPktList, arg>>
get == <<getPc, ptTmp, ptPkt>>
qvars == <<list, pMutex, heap, put, get>>

Ptr == Nodes \cup {NULL}
Value == Packets \cup {NoPacket}
QTypeOK ==
  /\ {ptFirst, ptLast} \subseteq Ptr /\ iPktCount \in 0..Cardinality(Nodes)
  /\ pMutex \in Producers \cup {Consumer, NULL}
  /\ next \in [Nodes -> Ptr] /\ tPkt \in [Nodes -> Value] /\ allocated \subseteq Nodes
  /\ putPc \in [Producers -> {"idle", "lock", "link", "last", "unlock", "stopped"}]
  /\ ptPktList \in [Producers -> Ptr] /\ arg \in [Producers -> Value]
  /\ getPc \in {"idle", "test", "fix", "copy", "unlock", "handle",
                "freeAll", "freed", "gone"}
  /\ ptTmp \in Ptr /\ ptPkt \in Value

QInit ==
  /\ ptFirst = NULL /\ ptLast = NULL /\ iPktCount = 0 /\ pMutex = NULL
  /\ next = [n \in Nodes |-> NULL] /\ tPkt = [n \in Nodes |-> NoPacket]
  /\ allocated = {}
  /\ putPc = [t \in Producers |-> "idle"]
  /\ ptPktList = [t \in Producers |-> NULL] /\ arg = [t \in Producers |-> NoPacket]
  /\ getPc = "idle" /\ ptTmp = NULL /\ ptPkt = NoPacket

PutGoto(t, l) == putPc' = [putPc EXCEPT ![t] = l]
GetGoto(l) == getPc' = l

-----------------------------------------------------------------------------
(* PutNodeToPmsgQueue                                                      *)

PutAlloc(t, p) ==
  /\ putPc[t] = "idle"   \* without memory the call returns -1 and puts nothing
  /\ \E n \in Nodes \ allocated :
       /\ allocated' = allocated \cup {n}
       /\ next' = [next EXCEPT ![n] = NULL] /\ tPkt' = [tPkt EXCEPT ![n] = p]
       /\ ptPktList' = [ptPktList EXCEPT ![t] = n]
  /\ arg' = [arg EXCEPT ![t] = p] /\ PutGoto(t, "lock")
  /\ UNCHANGED <<list, pMutex, get>>

\* Mutant: the list is changed without the mutex.
PutUnlocked(t) ==
  /\ putPc[t] = "lock"
  /\ PutGoto(t, "link") /\ UNCHANGED <<list, pMutex, heap, ptPktList, arg, get>>

PutLock(t) ==
  /\ putPc[t] = "lock" /\ pMutex = NULL
  /\ pMutex' = t
  /\ PutGoto(t, "link") /\ UNCHANGED <<list, heap, ptPktList, arg, get>>

PutLink(t) ==
  /\ putPc[t] = "link"
  /\ IF ptLast = NULL
     THEN ptFirst' = ptPktList[t] /\ UNCHANGED next
     ELSE next' = [next EXCEPT ![ptLast] = ptPktList[t]] /\ UNCHANGED ptFirst
  /\ PutGoto(t, "last")
  /\ UNCHANGED <<ptLast, iPktCount, pMutex, tPkt, allocated, ptPktList, arg, get>>

PutLast(t) ==
  /\ putPc[t] = "last"
  /\ ptLast' = ptPktList[t] /\ iPktCount' = iPktCount + 1
  /\ PutGoto(t, "unlock")
  /\ UNCHANGED <<ptFirst, pMutex, heap, ptPktList, arg, get>>

PutUnlock(t) ==
  /\ putPc[t] = "unlock"
  /\ pMutex' = NULL
  /\ ptPktList' = [ptPktList EXCEPT ![t] = NULL] /\ arg' = [arg EXCEPT ![t] = NoPacket]
  /\ PutGoto(t, "idle") /\ UNCHANGED <<list, heap, get>>

\* The thread is told to end and is joined before the queue is destroyed.
Stop(t) ==
  /\ putPc[t] = "idle"
  /\ PutGoto(t, "stopped") /\ UNCHANGED <<list, pMutex, heap, ptPktList, arg, get>>

-----------------------------------------------------------------------------
(* GetNodeFromPmsgQueue, called by the UI timer, which then handles the    *)
(* packet.                                                                 *)

GetLock ==
  /\ getPc = "idle" /\ pMutex = NULL
  /\ pMutex' = Consumer /\ GetGoto("test")
  /\ UNCHANGED <<list, heap, put, ptTmp, ptPkt>>

GetEmpty ==
  /\ getPc = "test" /\ ptFirst = NULL
  /\ pMutex' = NULL /\ GetGoto("idle")
  /\ UNCHANGED <<list, heap, put, ptTmp, ptPkt>>

GetUnlink ==
  /\ getPc = "test" /\ ptFirst # NULL
  /\ ptTmp' = ptFirst /\ ptFirst' = next[ptFirst] /\ GetGoto("fix")
  /\ UNCHANGED <<ptLast, iPktCount, pMutex, heap, put, ptPkt>>

\* Mutant: ptLast is left pointing to the node that will be freed.
GetFixLastNever ==
  /\ getPc = "fix"
  /\ iPktCount' = iPktCount - 1 /\ GetGoto("copy")
  /\ UNCHANGED <<ptFirst, ptLast, pMutex, heap, put, ptTmp, ptPkt>>

GetFixLast ==
  /\ getPc = "fix"
  /\ ptLast' = IF ptFirst = NULL THEN NULL ELSE ptLast
  /\ iPktCount' = iPktCount - 1 /\ GetGoto("copy")
  /\ UNCHANGED <<ptFirst, pMutex, heap, put, ptTmp, ptPkt>>

\* Mutant: the node is not freed.
GetCopyLeaks ==
  /\ getPc = "copy"
  /\ ptPkt' = tPkt[ptTmp] /\ ptTmp' = NULL /\ GetGoto("unlock")
  /\ UNCHANGED <<list, pMutex, heap, put>>

GetCopy ==
  /\ getPc = "copy"
  /\ ptPkt' = tPkt[ptTmp]
  /\ allocated' = allocated \ {ptTmp} /\ ptTmp' = NULL /\ GetGoto("unlock")
  /\ UNCHANGED <<list, pMutex, next, tPkt, put>>

GetUnlock ==
  /\ getPc = "unlock"
  /\ pMutex' = NULL /\ GetGoto("handle")
  /\ UNCHANGED <<list, heap, put, ptTmp, ptPkt>>

Handle ==
  /\ getPc = "handle"
  /\ ptPkt' = NoPacket /\ GetGoto("idle")
  /\ UNCHANGED <<list, pMutex, heap, put, ptTmp>>

-----------------------------------------------------------------------------
(* DestroyPmsgQueue, by the UI thread after the producer was joined.       *)

DestroyLock ==
  /\ getPc = "idle" /\ pMutex = NULL /\ \A t \in Producers : putPc[t] = "stopped"
  /\ pMutex' = Consumer /\ ptTmp' = ptFirst /\ GetGoto("freeAll")
  /\ UNCHANGED <<list, heap, put, ptPkt>>

DestroyNode ==
  /\ getPc = "freeAll" /\ ptTmp # NULL
  /\ allocated' = allocated \ {ptTmp} /\ ptTmp' = next[ptTmp]
  /\ UNCHANGED <<list, pMutex, next, tPkt, put, getPc, ptPkt>>

DestroyReset ==
  /\ getPc = "freeAll" /\ ptTmp = NULL
  /\ ptLast' = NULL /\ ptFirst' = NULL /\ iPktCount' = 0 /\ GetGoto("freed")
  /\ UNCHANGED <<pMutex, heap, put, ptTmp, ptPkt>>

DestroyUnlock ==
  /\ getPc = "freed"
  /\ pMutex' = NULL /\ GetGoto("gone")
  /\ UNCHANGED <<list, heap, put, ptTmp, ptPkt>>

Put(t) == \/ \E p \in Packets : PutAlloc(t, p)
          \/ PutLock(t) \/ PutLink(t) \/ PutLast(t) \/ PutUnlock(t) \/ Stop(t)
Get == GetLock \/ GetEmpty \/ GetUnlink \/ GetFixLast \/ GetCopy \/ GetUnlock \/ Handle
Destroy == DestroyLock \/ DestroyNode \/ DestroyReset \/ DestroyUnlock

QNext ==
  \/ \E t \in Producers : Put(t)
  \/ Get \/ Destroy
  \/ getPc = "gone" /\ UNCHANGED qvars

QSpec == QInit /\ [][QNext]_qvars
-----------------------------------------------------------------------------
(* Properties.                                                             *)

\* ns is the list that begins at n: links lead from each node to the next,
\* from the last one to NULL, and no node is in it twice.
IsList(links, n, ns) ==
  /\ n = IF ns = <<>> THEN NULL ELSE ns[1]
  /\ \A i \in DOMAIN ns : links[ns[i]] = IF i = Len(ns) THEN NULL ELSE ns[i + 1]
  /\ \A i, j \in DOMAIN ns : ns[i] = ns[j] => i = j
Lists == UNION {[1..k -> Nodes] : k \in 0..Cardinality(Nodes)}
From(links, n) == CHOOSE ns \in Lists : IsList(links, n, ns)
Elements(ns) == {ns[i] : i \in DOMAIN ns}

\* A node that is being taken belongs to the queue until it has been copied;
\* once the nodes are being freed the queue is empty.
Taking == getPc \in {"fix", "copy"}
Freeing == getPc \in {"freeAll", "freed", "gone"}
InQueue == IF Freeing THEN <<>> ELSE From(next, IF Taking THEN ptTmp ELSE ptFirst)
Contents == LET ns == InQueue IN [i \in DOMAIN ns |-> tPkt[ns[i]]]

F == INSTANCE Fifo WITH queue <- Contents, got <- ptPkt

\* The list behaves as a first-in first-out queue, whatever pointer
\* assignment a thread is stopped at (107-252).
ImplementsFifo == F!FSpec

\* With the mutex free the list is whole: a chain of allocated nodes starts
\* at ptFirst and ends with ptLast, and iPktCount counts it.
ListWhole ==
  pMutex = NULL =>
    \E ns \in Lists :
      /\ IsList(next, ptFirst, ns) /\ Elements(ns) \subseteq allocated
      /\ ptLast = IF ns = <<>> THEN NULL ELSE ns[Len(ns)]
      /\ iPktCount = Len(ns)

\* Every node allocated is in the list or in the hands of the thread that is
\* about to link or free it: neither put, get nor destroy leaks a node.
InHand == {t \in Producers : putPc[t] \in {"lock", "link"}}
NoLeak ==
  allocated = Elements(InQueue) \cup {ptPktList[t] : t \in InHand}
              \cup (IF getPc = "freeAll" THEN Elements(From(next, ptTmp)) ELSE {})
=============================================================================
