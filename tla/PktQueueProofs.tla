--------------------------- MODULE PktQueueProofs ---------------------------
(***************************************************************************)
(* The packet queue of pmsgcli.c, for any producers, packets and memory:   *)
(* the nodes form one list without a cycle, none of them leaks or is freed *)
(* twice, and taking from the list is taking from a first-in first-out     *)
(* queue (Fifo) although PutNode and GetNode take several steps each.      *)
(*                                                                         *)
(* The nodes reached from ptFirst are written Elements(ns) of a sequence   *)
(* ns, and the invariant says that there is such a sequence.  From, the    *)
(* operator that follows the pointers, is shown to return it by induction  *)
(* over a set of numbers (SetInduction).                                   *)
(***************************************************************************)
EXTENDS PktQueue, FiniteSetTheorems, WellFoundedInduction, TLAPS

\* The mutex is held exactly where the code is between lock and unlock, and
\* the queue is destroyed only after the producers were joined.
Mutex ==
  /\ \A t \in Producers : putPc[t] \in {"link", "last", "unlock"} <=> pMutex = t
  /\ getPc \in {"test", "fix", "copy", "unlock", "freeAll", "freed"} <=> pMutex = Consumer
  /\ Freeing => \A t \in Producers : putPc[t] = "stopped"

\* Where the list of the nodes that are still to be read, or freed, begins.
Start == IF getPc \in {"fix", "copy", "freeAll"} THEN ptTmp ELSE ptFirst

\* What ptLast and iPktCount are after each assignment, when ns is the list.
LastOf(ns) == IF ns = <<>> THEN NULL ELSE ns[Len(ns)]
\* No assignment to ptLast or to iPktCount is outstanding.
Settled ==
  getPc \notin {"fix", "copy", "freeAll"} /\ \A t \in Producers : putPc[t] # "last"
\* The end and the length of the list at each line of PutNode and GetNode.
Ends(ns) ==
  /\ Settled => ptLast = LastOf(ns) /\ iPktCount = Len(ns)
  /\ \A t \in Producers : putPc[t] = "last" =>
       /\ ns # <<>> /\ ptPktList[t] = ns[Len(ns)]
       /\ iPktCount = Len(ns) - 1
       /\ ptLast = IF Len(ns) = 1 THEN NULL ELSE ns[Len(ns) - 1]
  /\ getPc \in {"fix", "copy"} => ns # <<>> /\ ptFirst = next[ptTmp]
  /\ getPc = "fix" => ptLast = ns[Len(ns)] /\ iPktCount = Len(ns)
  /\ getPc = "copy" =>
       /\ iPktCount = Len(ns) - 1
       /\ ptLast = IF Len(ns) = 1 THEN NULL ELSE ns[Len(ns)]
  /\ getPc \in {"freed", "gone"} => ns = <<>>

\* A producer holds a node of its own from malloc until it is linked.
Held(ns) ==
  \A t \in InHand :
    /\ ptPktList[t] \in Nodes \ Elements(ns) /\ next[ptPktList[t]] = NULL
    /\ tPkt[ptPktList[t]] \in Packets
    /\ \A u \in InHand : ptPktList[t] = ptPktList[u] => t = u

\* The list of the queue, with its ends, and every other node in one hand.
Whole(ns) ==
  /\ IsList(next, Start, ns)
  /\ allocated = Elements(ns) \cup {ptPktList[t] : t \in InHand}
  /\ Held(ns) /\ Ends(ns)

-----------------------------------------------------------------------------
(* Lists.                                                                  *)

\* Induction over the natural numbers, for a set.
LEMMA SetInduction ==
  ASSUME NEW S, 0 \in S, \A n \in Nat : n \in S => n + 1 \in S
  PROVE  Nat \subseteq S
<1> DEFINE T == Nat \ S
<1> SUFFICES ASSUME T # {} PROVE FALSE
  OBVIOUS
<1>1. \A x, y \in Nat : x < y => <<x, y>> \in OpToRel(<, Nat)
  BY DEF OpToRel
<1>2. PICK m \in T : \A y \in T : ~(<<y, m>> \in OpToRel(<, Nat))
  BY NatLessThanWellFounded, WFMin
<1>3. m # 0 /\ m - 1 \in Nat /\ m - 1 < m
  OBVIOUS
<1>4. m - 1 \notin T
  BY <1>1, <1>2, <1>3
<1> QED
  BY <1>3, <1>4

\* Two lists with the same first node have the same nodes as long as the
\* first one goes on.
LEMMA SamePrefix ==
  ASSUME NEW links, NEW n, NEW ns \in Seq(Nodes), NEW ms \in Seq(Nodes),
         IsList(links, n, ns), IsList(links, n, ms)
  PROVE  \A k \in 1..Len(ns) : k <= Len(ms) /\ ns[k] = ms[k]
<1> DEFINE S == {k \in Nat : k \in 1..Len(ns) => k <= Len(ms) /\ ns[k] = ms[k]}
<1>0. NULL \notin Nodes
  BY QueueAssumption
<1>1. 0 \in S
  OBVIOUS
<1>2. ASSUME NEW k \in Nat, k \in S PROVE k + 1 \in S
  <2> SUFFICES ASSUME k + 1 \in 1..Len(ns)
               PROVE  k + 1 <= Len(ms) /\ ns[k + 1] = ms[k + 1]
    OBVIOUS
  <2>1. ns[k + 1] \in Nodes /\ ns[k + 1] # NULL
    BY <1>0
  <2>2. CASE k = 0
    <3>1. n = ns[1] /\ n # NULL
      BY <2>1, <2>2 DEF IsList
    <3>2. ms # <<>> /\ n = ms[1]
      BY <3>1 DEF IsList
    <3>3. 1 <= Len(ms) /\ ns[1] = ms[1]
      BY <3>1, <3>2
    <3>4. k + 1 = 1
      BY <2>2
    <3> QED
      BY <3>3, <3>4
  <2>3. CASE k # 0
    <3>1. k \in 1..Len(ns) /\ k # Len(ns) /\ k <= Len(ms) /\ ns[k] = ms[k]
      BY <1>2, <2>3
    <3>2. links[ns[k]] = ns[k + 1]
      BY <3>1 DEF IsList
    <3>3. k \in DOMAIN ms /\ links[ms[k]] = IF k = Len(ms) THEN NULL ELSE ms[k + 1]
      BY <3>1, <2>3 DEF IsList
    <3> QED
      BY <2>1, <3>1, <3>2, <3>3
  <2> QED
    BY <2>2, <2>3
<1>3. Nat \subseteq S
  <2> HIDE DEF S
  <2> QED
    BY <1>1, <1>2, SetInduction
<1> QED
  BY <1>3

\* One node begins at most one list.
LEMMA ListUnique ==
  ASSUME NEW links, NEW n, NEW ns \in Seq(Nodes), NEW ms \in Seq(Nodes),
         IsList(links, n, ns), IsList(links, n, ms)
  PROVE  ns = ms
<1>1. \A k \in 1..Len(ns) : k <= Len(ms) /\ ns[k] = ms[k]
  BY SamePrefix
<1>2. \A k \in 1..Len(ms) : k <= Len(ns) /\ ms[k] = ns[k]
  BY SamePrefix
<1>3. Len(ns) = Len(ms)
  <2>1. Len(ns) \in Nat /\ Len(ms) \in Nat
    OBVIOUS
  <2> QED
    BY <1>1, <1>2, <2>1
<1> QED
  BY <1>1, <1>3

\* A list is no longer than the heap.
LEMMA ListLength ==
  ASSUME NEW ns \in Seq(Nodes), \A i, j \in DOMAIN ns : ns[i] = ns[j] => i = j
  PROVE  Len(ns) <= Cardinality(Nodes) /\ ns \in Lists
<1>1. Len(ns) \in Nat /\ DOMAIN ns = 1..Len(ns) /\ ns \in [1..Len(ns) -> Nodes]
  OBVIOUS
<1>2. IsFiniteSet(1..Len(ns)) /\ Cardinality(1..Len(ns)) = Len(ns)
  BY <1>1, FS_Interval
<1>3. Cardinality(Nodes) \in Nat /\ IsFiniteSet(Nodes)
  BY QueueAssumption, FS_CardinalityType
<1>4. ~(Cardinality(Nodes) < Cardinality(1..Len(ns)))
  BY <1>1, <1>2, <1>3, FS_PigeonHole
<1>5. Len(ns) \in 0..Cardinality(Nodes)
  BY <1>1, <1>2, <1>3, <1>4
<1> QED
  BY <1>1, <1>3, <1>5 DEF Lists

\* The list that From chooses is the list there is.
LEMMA FromIsList ==
  ASSUME NEW links, NEW n, NEW ns \in Seq(Nodes), IsList(links, n, ns)
  PROVE  From(links, n) = ns
<1>1. ns \in Lists
  BY ListLength DEF IsList
<1>2. From(links, n) \in Lists /\ IsList(links, n, From(links, n))
  BY <1>1 DEF From
<1>3. From(links, n) \in Seq(Nodes)
  <2>1. PICK k \in 0..Cardinality(Nodes) : From(links, n) \in [1..k -> Nodes]
    BY <1>2 DEF Lists
  <2>2. Cardinality(Nodes) \in Nat
    BY QueueAssumption, FS_CardinalityType
  <2> QED
    BY <2>1, <2>2
<1> QED
  BY <1>2, <1>3, ListUnique

-----------------------------------------------------------------------------
(* The invariant: some list is the queue's, and it is whole.               *)

\* The inductive invariant: Whole needs the types and the mutex.
IInv == QTypeOK /\ Mutex /\ \E ns \in Seq(Nodes) : Whole(ns)

\* At the start the queue is the empty list.
LEMMA InitIInv == QInit => IInv
<1> SUFFICES ASSUME QInit PROVE IInv
  OBVIOUS
<1> USE QueueAssumption DEF QInit
<1>1. QTypeOK
  <2>1. 0 \in 0..Cardinality(Nodes)
    BY FS_CardinalityType
  <2> QED
    BY <2>1 DEF QTypeOK, Ptr, Value
<1>2. Mutex
  BY DEF Mutex, Freeing
<1>3. <<>> \in Seq(Nodes)
  OBVIOUS
<1>4. Whole(<<>>)
  <2>1. InHand = {}
    BY DEF InHand
  <2>2. IsList(next, Start, <<>>)
    BY DEF IsList, Start
  <2> QED
    BY <2>1, <2>2 DEF Whole, Held, Ends, Elements, LastOf
<1> QED
  BY <1>1, <1>2, <1>3, <1>4 DEF IInv

\* The mutex is given and taken where the program does so.
LEMMA MutexStep ==
  ASSUME QTypeOK, Mutex, [QNext]_qvars
  PROVE  Mutex'
<1> USE QueueAssumption DEF Mutex, Freeing, PutGoto, GetGoto
<1>1. ASSUME NEW t \in Producers, Put(t) PROVE Mutex'
  <2> USE <1>1 DEF QTypeOK
  <2>1. CASE \E p \in Packets : PutAlloc(t, p)
    BY <2>1 DEF PutAlloc, get
  <2>2. CASE PutLock(t)
    BY <2>2 DEF PutLock, get
  <2>3. CASE PutLink(t)
    BY <2>3 DEF PutLink, get
  <2>4. CASE PutLast(t)
    BY <2>4 DEF PutLast, get
  <2>5. CASE PutUnlock(t)
    BY <2>5 DEF PutUnlock, get
  <2>6. CASE Stop(t)
    BY <2>6 DEF Stop, get
  <2> QED
    BY <2>1, <2>2, <2>3, <2>4, <2>5, <2>6 DEF Put
<1>2. ASSUME Get PROVE Mutex'
  BY <1>2 DEF Get, GetLock, GetEmpty, GetUnlink, GetFixLast, GetCopy, GetUnlock,
     Handle, put
<1>3. ASSUME Destroy PROVE Mutex'
  BY <1>3 DEF Destroy, DestroyLock, DestroyNode, DestroyReset, DestroyUnlock, put
<1>4. ASSUME UNCHANGED qvars PROVE Mutex'
  BY <1>4 DEF qvars, put, get
<1> QED
  BY <1>1, <1>2, <1>3, <1>4 DEF QNext

-----------------------------------------------------------------------------
(* Every step of a producer leaves a whole list.                           *)

\* A new node is in its producer's hands and not in the list.
LEMMA PutAllocWhole ==
  ASSUME QTypeOK, Mutex, NEW ns \in Seq(Nodes), Whole(ns),
         NEW t \in Producers, NEW p \in Packets, PutAlloc(t, p)
  PROVE  Whole(ns)'
<1>1. PICK n \in Nodes \ allocated :
        /\ allocated' = allocated \cup {n}
        /\ next' = [next EXCEPT ![n] = NULL] /\ tPkt' = [tPkt EXCEPT ![n] = p]
        /\ ptPktList' = [ptPktList EXCEPT ![t] = n]
  BY DEF PutAlloc
<1>2. putPc[t] = "idle" /\ putPc' = [putPc EXCEPT ![t] = "lock"]
  BY DEF PutAlloc, PutGoto
<1>3. UNCHANGED <<ptFirst, ptLast, iPktCount, getPc, ptTmp>>
  BY DEF PutAlloc, list, get
<1>4. t \notin InHand /\ InHand' = InHand \cup {t}
  BY <1>2 DEF InHand, QTypeOK
<1>5. \A u \in InHand : ptPktList'[u] = ptPktList[u] /\ ptPktList[u] \in allocated
  BY <1>1, <1>4 DEF Whole, QTypeOK, InHand
<1>6. ptPktList'[t] = n
  BY <1>1 DEF QTypeOK
<1>7. \A i \in DOMAIN ns : ns[i] \in allocated /\ next'[ns[i]] = next[ns[i]]
  BY <1>1 DEF Whole, Elements, QTypeOK
<1>8. IsList(next', Start', ns)
  BY <1>3, <1>7 DEF Whole, IsList, Start
<1>9. allocated' = Elements(ns) \cup {ptPktList'[u] : u \in InHand'}
  BY <1>1, <1>4, <1>5, <1>6 DEF Whole
<1>10. Held(ns)'
  <2>1. n \notin Elements(ns)
    BY <1>1, <1>7 DEF Elements
  <2>2. \A u \in InHand : ptPktList'[u] # n
    BY <1>1, <1>5
  <2>3. \A u \in InHand : ptPktList'[u] \in Nodes \ Elements(ns)
    BY <1>5 DEF Whole, Held
  <2>4. \A u \in InHand : next'[ptPktList'[u]] = NULL /\ tPkt'[ptPktList'[u]] \in Packets
    BY <1>1, <1>5, <2>2, <2>3 DEF Whole, Held, QTypeOK
  <2>5. next'[n] = NULL /\ tPkt'[n] \in Packets
    BY <1>1 DEF QTypeOK
  <2>6. \A u, v \in InHand : ptPktList'[u] = ptPktList'[v] => u = v
    BY <1>5 DEF Whole, Held
  <2> QED
    BY <1>1, <1>4, <1>6, <2>1, <2>2, <2>3, <2>4, <2>5, <2>6 DEF Held, Elements
<1>11. Ends(ns)'
  <2>1. Settled' = Settled
    BY <1>2, <1>3 DEF Settled, QTypeOK
  <2>2. \A u \in Producers : putPc'[u] = "last" => putPc[u] = "last" /\ u # t
    BY <1>2 DEF QTypeOK
  <2>3. \A u \in Producers : u # t => ptPktList'[u] = ptPktList[u]
    BY <1>1 DEF QTypeOK
  <2>4. getPc \in {"fix", "copy"} => ns # <<>> /\ next'[ptTmp] = next[ptTmp]
    <3>1. ASSUME getPc \in {"fix", "copy"} PROVE ns # <<>> /\ ptTmp = ns[1] /\ 1 \in DOMAIN ns
      BY <3>1 DEF Whole, Ends, IsList, Start
    <3> QED
      BY <3>1, <1>7
  <2> QED
    BY <1>3, <2>1, <2>2, <2>3, <2>4 DEF Whole, Ends, LastOf
<1> QED
  BY <1>8, <1>9, <1>10, <1>11 DEF Whole, Elements

\* Taking the mutex, giving it back and ending change no list.
LEMMA PutOtherWhole ==
  ASSUME QTypeOK, Mutex, NEW ns \in Seq(Nodes), Whole(ns),
         NEW t \in Producers, PutLock(t) \/ PutUnlock(t) \/ Stop(t)
  PROVE  Whole(ns)'
<1>1. UNCHANGED <<ptFirst, ptLast, iPktCount, next, tPkt, allocated, getPc, ptTmp>>
  BY DEF PutLock, PutUnlock, Stop, list, heap, get
<1>2. /\ InHand' = InHand /\ Settled' = Settled
      /\ \A u \in Producers : putPc'[u] = "last" <=> putPc[u] = "last"
  BY <1>1 DEF PutLock, PutUnlock, Stop, PutGoto, InHand, Settled, QTypeOK
<1>3. \A u \in Producers : u \in InHand \/ putPc[u] = "last" => ptPktList'[u] = ptPktList[u]
  BY DEF PutLock, PutUnlock, Stop, InHand, QTypeOK
<1>4. {ptPktList'[u] : u \in InHand} = {ptPktList[u] : u \in InHand}
  BY <1>3 DEF InHand
<1>5. IsList(next', Start', ns)
  BY <1>1 DEF Whole, Start
<1>6. Held(ns)'
  BY <1>1, <1>2, <1>3 DEF Whole, Held, InHand, Elements
<1>7. Ends(ns)'
  BY <1>1, <1>2, <1>3 DEF Whole, Ends, LastOf
<1> QED
  BY <1>1, <1>2, <1>4, <1>5, <1>6, <1>7 DEF Whole, Elements

\* The node is appended to the list: behind the last node, or as the first.
LEMMA PutLinkWhole ==
  ASSUME QTypeOK, Mutex, NEW ns \in Seq(Nodes), Whole(ns),
         NEW t \in Producers, PutLink(t),
         NEW ms, ms = Append(ns, ptPktList[t])
  PROVE  Whole(ms)'
<1> DEFINE n == ptPktList[t]
           len == Len(ns)
<1>1. putPc[t] = "link" /\ putPc' = [putPc EXCEPT ![t] = "last"]
  BY DEF PutLink, PutGoto
<1>2. UNCHANGED <<ptLast, iPktCount, tPkt, allocated, ptPktList, getPc, ptTmp>>
  BY DEF PutLink, get
<1>3. /\ t \in InHand /\ InHand' = InHand \ {t}
      /\ n \in Nodes \ Elements(ns) /\ next[n] = NULL
  BY <1>1 DEF Whole, Held, InHand, QTypeOK
<1>4. /\ Settled /\ Start = ptFirst /\ Start' = ptFirst'
      /\ ptLast = LastOf(ns) /\ iPktCount = len
  <2>1. pMutex = t /\ t # Consumer
    BY <1>1, QueueAssumption DEF Mutex
  <2>2. \A u \in Producers : putPc[u] # "last"
    BY <1>1, <2>1 DEF Mutex
  <2>3. getPc \notin {"fix", "copy", "freeAll"}
    BY <2>1 DEF Mutex
  <2> QED
    BY <1>2, <2>2, <2>3 DEF Settled, Start, Whole, Ends
<1>5. /\ ms \in Seq(Nodes) /\ Len(ms) = len + 1 /\ ms[len + 1] = n
      /\ \A i \in 1..len : ms[i] = ns[i]
  BY <1>3
<1>6. Elements(ms) = Elements(ns) \cup {n}
  BY <1>5 DEF Elements
<1>7. ptLast = NULL <=> ns = <<>>
  <2>1. ns # <<>> => ns[len] \in Nodes
    OBVIOUS
  <2> QED
    BY <1>4, <2>1, QueueAssumption DEF LastOf
<1>8. IsList(next', Start', ms)
  <2>1. CASE ns = <<>>
    <3>1. ptFirst' = n /\ next' = next
      BY <1>7, <2>1 DEF PutLink
    <3>2. Len(ms) = 1 /\ ms[1] = n /\ ms # <<>>
      BY <1>5, <2>1
    <3>3. DOMAIN ms = {1}
      BY <1>5, <3>2
    <3> QED
      BY <1>3, <1>4, <3>1, <3>2, <3>3 DEF IsList
  <2>2. CASE ns # <<>>
    <3>1. ptFirst' = ptFirst /\ next' = [next EXCEPT ![ns[len]] = n]
      BY <1>4, <1>7, <2>2 DEF PutLink, LastOf
    <3>2. len \in 1..len /\ ns[len] \in Nodes /\ ns[len] # n /\ ns[len] \in Elements(ns)
      BY <1>3, <2>2 DEF Elements
    <3>3. \A i \in 1..len : ns[i] = ns[len] => i = len
      BY <3>2 DEF Whole, IsList
    <3>4. \A i \in 1..len : i # len => next'[ms[i]] = ms[i + 1]
      <4> SUFFICES ASSUME NEW i \in 1..len, i # len PROVE next'[ms[i]] = ms[i + 1]
        OBVIOUS
      <4>1. next[ns[i]] = ns[i + 1]
        BY DEF Whole, IsList
      <4>2. next'[ns[i]] = next[ns[i]]
        BY <3>1, <3>3 DEF QTypeOK
      <4>3. i + 1 \in 1..len
        OBVIOUS
      <4> QED
        BY <1>5, <4>1, <4>2, <4>3
    <3>5. next'[ms[len]] = ms[len + 1]
      BY <1>5, <3>1, <3>2 DEF QTypeOK
    <3>6. next'[ms[len + 1]] = NULL
      BY <1>3, <1>5, <3>1, <3>2 DEF QTypeOK
    <3>7. \A i \in DOMAIN ms : next'[ms[i]] = IF i = Len(ms) THEN NULL ELSE ms[i + 1]
      BY <1>5, <3>4, <3>5, <3>6
    <3>8. ms # <<>> /\ ptFirst' = ms[1]
      <4>1. ptFirst = ns[1] /\ 1 \in 1..len
        BY <1>4, <2>2 DEF Whole, IsList
      <4> QED
        BY <1>5, <3>1, <4>1
    <3>9. \A i, j \in DOMAIN ms : ms[i] = ms[j] => i = j
      <4>1. \A i \in 1..len : ms[i] # n
        BY <1>3, <1>5 DEF Elements
      <4>2. \A i, j \in 1..len : ms[i] = ms[j] => i = j
        BY <1>5 DEF Whole, IsList
      <4> QED
        BY <1>5, <4>1, <4>2
    <3> QED
      BY <1>4, <3>7, <3>8, <3>9 DEF IsList
  <2> QED
    BY <2>1, <2>2
<1>9. allocated' = Elements(ms) \cup {ptPktList'[u] : u \in InHand'}
  <2>1. {ptPktList[u] : u \in InHand} = {ptPktList[u] : u \in InHand'} \cup {n}
    BY <1>3
  <2> QED
    BY <1>2, <1>6, <2>1 DEF Whole
<1>10. Held(ms)'
  <2>1. \A u \in InHand' : u \in InHand /\ ptPktList[u] # n
    BY <1>3 DEF Whole, Held
  <2>2. \A u \in InHand' : ptPktList[u] \in Nodes \ Elements(ms)
    BY <1>6, <2>1 DEF Whole, Held
  <2>3. ptLast # NULL => ptLast \in Elements(ns)
    BY <1>4, <1>7 DEF LastOf, Elements
  <2>4. \A u \in InHand' : next'[ptPktList[u]] = next[ptPktList[u]]
    BY <1>6, <2>2, <2>3 DEF PutLink, QTypeOK
  <2> QED
    BY <1>2, <2>1, <2>2, <2>4 DEF Whole, Held, Elements
<1>11. Ends(ms)'
  <2>1. ~Settled' /\ getPc \notin {"fix", "copy", "freed", "gone"}
    <3>1. putPc'[t] = "last"
      BY <1>1 DEF QTypeOK
    <3>2. getPc \notin {"freed", "gone"}
      BY <1>1 DEF Mutex, Freeing
    <3> QED
      BY <1>4, <3>1, <3>2 DEF Settled
  <2>2. \A u \in Producers : putPc'[u] = "last" => u = t
    BY <1>1, <1>4 DEF Settled, QTypeOK
  <2>3. ms # <<>> /\ ptPktList'[t] = ms[Len(ms)] /\ iPktCount' = Len(ms) - 1
    BY <1>2, <1>4, <1>5
  <2>4. ptLast' = IF Len(ms) = 1 THEN NULL ELSE ms[Len(ms) - 1]
    BY <1>2, <1>4, <1>5 DEF LastOf
  <2> QED
    BY <1>2, <2>1, <2>2, <2>3, <2>4 DEF Ends
<1> QED
  BY <1>8, <1>9, <1>10, <1>11 DEF Whole, Elements

\* Moving ptLast and counting the node settles the queue.
LEMMA PutLastWhole ==
  ASSUME QTypeOK, Mutex, NEW ns \in Seq(Nodes), Whole(ns),
         NEW t \in Producers, PutLast(t)
  PROVE  Whole(ns)' /\ iPktCount' = Len(ns)
<1>1. putPc[t] = "last" /\ putPc' = [putPc EXCEPT ![t] = "unlock"]
  BY DEF PutLast, PutGoto
<1>2. UNCHANGED <<ptFirst, next, tPkt, allocated, ptPktList, getPc, ptTmp>>
  BY DEF PutLast, heap, get
<1>3. InHand' = InHand /\ \A u \in Producers : putPc'[u] # "last"
  <2>1. \A u \in Producers : putPc[u] = "last" => u = t
    BY <1>1 DEF Mutex
  <2> QED
    BY <1>1, <2>1 DEF InHand, QTypeOK
<1>4. getPc \notin {"fix", "copy", "freeAll", "freed", "gone"}
  BY <1>1, QueueAssumption DEF Mutex, Freeing
<1>5. ptLast' = LastOf(ns) /\ iPktCount' = Len(ns)
  <2>1. ns # <<>> /\ ptPktList[t] = ns[Len(ns)] /\ iPktCount = Len(ns) - 1
    BY <1>1 DEF Whole, Ends
  <2>2. Len(ns) \in Nat
    OBVIOUS
  <2> QED
    BY <2>1, <2>2 DEF PutLast, LastOf
<1>6. IsList(next', Start', ns)
  BY <1>2 DEF Whole, Start
<1>7. Held(ns)'
  BY <1>2, <1>3 DEF Whole, Held, Elements
<1>8. Ends(ns)'
  BY <1>2, <1>3, <1>4, <1>5 DEF Ends, LastOf
<1> QED
  BY <1>2, <1>3, <1>5, <1>6, <1>7, <1>8 DEF Whole, Elements

-----------------------------------------------------------------------------
(* Every step of the consumer leaves a whole list.                         *)

\* The list without nodes is the one of length 0.
LEMMA EmptyList == \A ns \in Seq(Nodes) : ns = <<>> <=> Len(ns) = 0
  OBVIOUS

\* Without its first node a list is the list that begins at the second.
LEMMA TailIsList ==
  ASSUME NEW links, NEW n, NEW ns \in Seq(Nodes), ns # <<>>, IsList(links, n, ns)
  PROVE  /\ n = ns[1] /\ n \in Elements(ns) /\ Tail(ns) \in Seq(Nodes)
         /\ IsList(links, links[n], Tail(ns))
         /\ Elements(Tail(ns)) = Elements(ns) \ {n}
<1> DEFINE ms == Tail(ns)
           len == Len(ns)
<1>1. len \in Nat /\ len >= 1 /\ n = ns[1]
  BY DEF IsList
<1>2. /\ ms \in Seq(Nodes) /\ Len(ms) = len - 1 /\ DOMAIN ms = 1..(len - 1)
      /\ \A i \in 1..(len - 1) : ms[i] = ns[i + 1]
  BY <1>1
<1> HIDE DEF ms
<1>3. \A i, j \in 1..len : ns[i] = ns[j] => i = j
  BY DEF IsList
<1>4. links[n] = IF ms = <<>> THEN NULL ELSE ms[1]
  <2>1. 1 \in DOMAIN ns /\ links[n] = IF 1 = len THEN NULL ELSE ns[1 + 1]
    <3>1. 1 \in DOMAIN ns
      BY <1>1
    <3> QED
      BY <1>1, <3>1 DEF IsList
  <2>2. ms = <<>> <=> len = 1
    BY <1>1, <1>2
  <2> QED
    BY <1>1, <1>2, <2>1, <2>2
<1>5. \A i \in DOMAIN ms : links[ms[i]] = IF i = Len(ms) THEN NULL ELSE ms[i + 1]
  <2> SUFFICES ASSUME NEW i \in 1..(len - 1)
               PROVE  links[ms[i]] = IF i = len - 1 THEN NULL ELSE ms[i + 1]
    BY <1>2
  <2>1. i + 1 \in 1..len /\ ms[i] = ns[i + 1]
    BY <1>1, <1>2
  <2>2. links[ns[i + 1]] = IF i + 1 = len THEN NULL ELSE ns[i + 1 + 1]
    BY <2>1 DEF IsList
  <2>3. i # len - 1 => ms[i + 1] = ns[i + 1 + 1]
    BY <1>1, <1>2
  <2> QED
    BY <1>1, <2>1, <2>2, <2>3
<1>6. \A i, j \in DOMAIN ms : ms[i] = ms[j] => i = j
  <2> SUFFICES ASSUME NEW i \in 1..(len - 1), NEW j \in 1..(len - 1), ms[i] = ms[j]
               PROVE  i = j
    BY <1>2
  <2>1. i + 1 \in 1..len /\ j + 1 \in 1..len /\ ns[i + 1] = ns[j + 1]
    BY <1>1, <1>2
  <2> QED
    BY <1>3, <2>1
<1>7. Elements(ms) = Elements(ns) \ {n}
  <2>1. ASSUME NEW i \in DOMAIN ms PROVE ms[i] \in Elements(ns) \ {n}
    <3>1. i + 1 \in 1..len /\ ms[i] = ns[i + 1] /\ 1 \in 1..len /\ i + 1 # 1
      BY <1>1, <1>2, <2>1
    <3> QED
      BY <1>1, <1>3, <3>1 DEF Elements
  <2>2. ASSUME NEW i \in DOMAIN ns, ns[i] # n PROVE ns[i] \in Elements(ms)
    <3>1. i # 1 /\ i - 1 \in 1..(len - 1) /\ i - 1 \in DOMAIN ms
      BY <1>1, <1>2, <2>2
    <3>2. ms[i - 1] = ns[i]
      BY <1>2, <3>1
    <3> QED
      BY <3>1, <3>2 DEF Elements
  <2>3. Elements(ms) \subseteq Elements(ns) \ {n}
    BY <2>1 DEF Elements
  <2>4. Elements(ns) \ {n} \subseteq Elements(ms)
    BY <2>2 DEF Elements
  <2> QED
    BY <2>3, <2>4
<1>8. n \in Elements(ns)
  BY <1>1 DEF Elements
<1>9. IsList(links, links[n], ms)
  BY <1>4, <1>5, <1>6 DEF IsList
<1> QED
  BY <1>1, <1>2, <1>7, <1>8, <1>9 DEF ms

\* While the consumer holds the mutex, or no producer runs, only the consumer
\* changes what Held and Ends say of the producers.
LEMMA ConsumerFrame ==
  ASSUME QTypeOK, Mutex, UNCHANGED put,
         getPc \in {"test", "fix", "copy", "unlock", "freeAll", "freed"} \/ pMutex = NULL
  PROVE  /\ InHand' = InHand
         /\ {ptPktList'[u] : u \in InHand'} = {ptPktList[u] : u \in InHand}
         /\ \A u \in Producers : putPc[u] # "last" /\ putPc'[u] # "last"
         /\ Settled <=> getPc \notin {"fix", "copy", "freeAll"}
         /\ Settled' <=> getPc' \notin {"fix", "copy", "freeAll"}
<1>1. UNCHANGED <<putPc, ptPktList>>
  BY DEF put
<1>2. \A u \in Producers : putPc[u] # "last"
  BY QueueAssumption DEF Mutex
<1> QED
  BY <1>1, <1>2 DEF InHand, Settled

\* Taking and giving back the mutex and handling a packet change no list.
LEMMA GetOtherWhole ==
  ASSUME QTypeOK, Mutex, NEW ns \in Seq(Nodes), Whole(ns),
         GetLock \/ GetEmpty \/ GetUnlock \/ Handle
  PROVE  Whole(ns)'
<1>1. /\ UNCHANGED <<ptFirst, ptLast, iPktCount, next, tPkt, allocated, ptTmp>>
      /\ UNCHANGED <<putPc, ptPktList>>
  BY DEF GetLock, GetEmpty, GetUnlock, Handle, list, heap, put
<1>2. {getPc, getPc'} \subseteq {"idle", "test", "unlock", "handle"}
  BY DEF GetLock, GetEmpty, GetUnlock, Handle, GetGoto
<1>3. InHand' = InHand /\ Settled' = Settled
  BY <1>1, <1>2 DEF InHand, Settled
<1>4. IsList(next', Start', ns)
  BY <1>1, <1>2 DEF Whole, Start
<1>5. Held(ns)'
  BY <1>1, <1>3 DEF Whole, Held, Elements
<1>6. Ends(ns)'
  BY <1>1, <1>2, <1>3 DEF Whole, Ends, LastOf
<1> QED
  BY <1>1, <1>3, <1>4, <1>5, <1>6 DEF Whole, Elements

\* The node taken stays the first of the list until it has been read.
LEMMA GetUnlinkWhole ==
  ASSUME QTypeOK, Mutex, NEW ns \in Seq(Nodes), Whole(ns), GetUnlink
  PROVE  Whole(ns)'
<1>1. /\ getPc = "test" /\ getPc' = "fix" /\ ptFirst # NULL
      /\ ptTmp' = ptFirst /\ ptFirst' = next[ptFirst]
      /\ UNCHANGED <<ptLast, iPktCount, next, tPkt, allocated, put>>
  BY DEF GetUnlink, GetGoto, heap
<1>2. UNCHANGED <<putPc, ptPktList>>
  BY <1>1 DEF put
<1>3. /\ InHand' = InHand /\ Settled /\ ~Settled'
      /\ {ptPktList'[u] : u \in InHand'} = {ptPktList[u] : u \in InHand}
      /\ \A u \in Producers : putPc'[u] # "last"
  BY <1>1, ConsumerFrame
<1>4. Start = ptFirst /\ Start' = ptFirst
  BY <1>1 DEF Start
<1>5. IsList(next', Start', ns)
  BY <1>1, <1>4 DEF Whole
<1>6. ns # <<>>
  BY <1>1, <1>4 DEF Whole, IsList
<1>7. Held(ns)'
  BY <1>1, <1>2, <1>3 DEF Whole, Held, Elements
<1>8. Ends(ns)'
  BY <1>1, <1>3, <1>6 DEF Whole, Ends, LastOf
<1> QED
  BY <1>1, <1>3, <1>5, <1>7, <1>8 DEF Whole, Elements

\* ptLast becomes NULL with the last node.
LEMMA GetFixLastWhole ==
  ASSUME QTypeOK, Mutex, NEW ns \in Seq(Nodes), Whole(ns), GetFixLast
  PROVE  Whole(ns)' /\ iPktCount' = Len(ns) - 1
<1>1. /\ getPc = "fix" /\ getPc' = "copy"
      /\ ptLast' = IF ptFirst = NULL THEN NULL ELSE ptLast
      /\ iPktCount' = iPktCount - 1
      /\ UNCHANGED <<ptFirst, next, tPkt, allocated, put, ptTmp>>
  BY DEF GetFixLast, GetGoto, heap
<1>2. UNCHANGED <<putPc, ptPktList>>
  BY <1>1 DEF put
<1>3. /\ InHand' = InHand /\ ~Settled'
      /\ {ptPktList'[u] : u \in InHand'} = {ptPktList[u] : u \in InHand}
      /\ \A u \in Producers : putPc'[u] # "last"
  BY <1>1, ConsumerFrame
<1>4. IsList(next', Start', ns)
  BY <1>1 DEF Whole, Start
<1>5. /\ ns # <<>> /\ ptFirst = next[ptTmp]
      /\ ptLast = ns[Len(ns)] /\ iPktCount = Len(ns)
  BY <1>1 DEF Whole, Ends
<1>6. ptFirst = NULL <=> Len(ns) = 1
  <2>1. Start = ptTmp /\ ptTmp = ns[1] /\ 1 \in 1..Len(ns)
    BY <1>1, <1>5 DEF Whole, IsList, Start
  <2>2. ptFirst = IF 1 = Len(ns) THEN NULL ELSE ns[1 + 1]
    BY <1>5, <2>1 DEF Whole, IsList
  <2>3. Len(ns) # 1 => ns[1 + 1] \in Nodes
    BY <2>1
  <2> QED
    BY <2>2, <2>3, QueueAssumption
<1>7. Held(ns)'
  BY <1>1, <1>2, <1>3 DEF Whole, Held, Elements
<1>8. Ends(ns)'
  BY <1>1, <1>3, <1>5, <1>6 DEF Ends, LastOf
<1> QED
  BY <1>1, <1>3, <1>4, <1>5, <1>7, <1>8 DEF Whole, Elements

\* Once it has been copied the node is neither allocated nor in the list.
LEMMA GetCopyWhole ==
  ASSUME QTypeOK, Mutex, NEW ns \in Seq(Nodes), Whole(ns), GetCopy,
         NEW ms, ms = Tail(ns)
  PROVE  Whole(ms)'
<1>1. /\ getPc = "copy" /\ getPc' = "unlock"
      /\ allocated' = allocated \ {ptTmp}
      /\ UNCHANGED <<ptFirst, ptLast, iPktCount, next, tPkt, put>>
  BY DEF GetCopy, GetGoto, list
<1>2. UNCHANGED <<putPc, ptPktList>>
  BY <1>1 DEF put
<1>3. /\ InHand' = InHand /\ Settled'
      /\ {ptPktList'[u] : u \in InHand'} = {ptPktList[u] : u \in InHand}
      /\ \A u \in Producers : putPc'[u] # "last"
  BY <1>1, ConsumerFrame
<1>4. Start = ptTmp /\ Start' = ptFirst
  BY <1>1 DEF Start
<1>5. /\ ns # <<>> /\ ptFirst = next[ptTmp] /\ iPktCount = Len(ns) - 1
      /\ ptLast = IF Len(ns) = 1 THEN NULL ELSE ns[Len(ns)]
  BY <1>1 DEF Whole, Ends
<1>6. /\ ptTmp \in Elements(ns) /\ ms \in Seq(Nodes)
      /\ IsList(next, ptFirst, ms) /\ Elements(ms) = Elements(ns) \ {ptTmp}
  BY <1>4, <1>5, TailIsList DEF Whole
<1>7. allocated' = Elements(ms) \cup {ptPktList'[u] : u \in InHand'}
  <2>1. ptTmp \notin {ptPktList[u] : u \in InHand}
    BY <1>6 DEF Whole, Held
  <2> QED
    BY <1>1, <1>3, <1>6, <2>1 DEF Whole
<1>8. Held(ms)'
  <2>1. \A u \in InHand : ptPktList[u] \in Nodes \ Elements(ms)
    BY <1>6 DEF Whole, Held
  <2> QED
    BY <1>1, <1>2, <1>3, <2>1 DEF Whole, Held, Elements
<1>9. Ends(ms)'
  <2>1. Len(ms) = Len(ns) - 1 /\ Len(ns) \in Nat /\ Len(ns) >= 1
    BY <1>5
  <2>2. ms = <<>> <=> Len(ns) = 1
    <3>1. ms = <<>> <=> Len(ms) = 0
      BY <1>6, EmptyList, Zenon
    <3> QED
      BY <2>1, <3>1
  <2>3. Len(ns) # 1 => ms[Len(ns) - 1] = ns[Len(ns)]
    BY <1>5, <2>1
  <2>4. ptLast = LastOf(ms) /\ iPktCount = Len(ms)
    BY <1>5, <2>1, <2>2, <2>3 DEF LastOf
  <2> QED
    BY <1>1, <1>3, <2>4 DEF Ends, LastOf
<1> QED
  BY <1>1, <1>3, <1>4, <1>6, <1>7, <1>8, <1>9 DEF Whole, Elements

-----------------------------------------------------------------------------
(* Destroying the queue.                                                   *)

\* The producers have stopped: no node is in a hand.
LEMMA NoHands ==
  ASSUME QTypeOK, \A t \in Producers : putPc[t] = "stopped"
  PROVE  InHand = {} /\ \A t \in Producers : putPc[t] # "last"
BY DEF InHand

\* What is still to be freed is the list.
LEMMA DestroyLockWhole ==
  ASSUME QTypeOK, Mutex, NEW ns \in Seq(Nodes), Whole(ns), DestroyLock
  PROVE  Whole(ns)'
<1>1. /\ getPc = "idle" /\ getPc' = "freeAll" /\ pMutex = NULL /\ ptTmp' = ptFirst
      /\ UNCHANGED <<ptFirst, ptLast, iPktCount, next, tPkt, allocated, put>>
  BY DEF DestroyLock, GetGoto, list, heap
<1>2. UNCHANGED <<putPc, ptPktList>>
  BY <1>1 DEF put
<1>3. /\ InHand' = InHand /\ ~Settled'
      /\ {ptPktList'[u] : u \in InHand'} = {ptPktList[u] : u \in InHand}
      /\ \A u \in Producers : putPc'[u] # "last"
  BY <1>1, ConsumerFrame
<1>4. IsList(next', Start', ns)
  BY <1>1 DEF Whole, Start
<1>5. Held(ns)'
  BY <1>1, <1>2, <1>3 DEF Whole, Held, Elements
<1>6. Ends(ns)'
  BY <1>1, <1>3 DEF Ends, LastOf
<1> QED
  BY <1>1, <1>3, <1>4, <1>5, <1>6 DEF Whole, Elements

\* Freeing a node leaves the list that begins behind it.
LEMMA DestroyNodeWhole ==
  ASSUME QTypeOK, Mutex, NEW ns \in Seq(Nodes), Whole(ns), DestroyNode,
         NEW ms, ms = Tail(ns)
  PROVE  Whole(ms)' /\ ms \in Seq(Nodes)
<1>1. /\ getPc = "freeAll" /\ ptTmp # NULL
      /\ allocated' = allocated \ {ptTmp} /\ ptTmp' = next[ptTmp]
      /\ UNCHANGED <<ptFirst, ptLast, iPktCount, next, tPkt, put, getPc>>
  BY DEF DestroyNode, list
<1>2. UNCHANGED <<putPc, ptPktList>>
  BY <1>1 DEF put
<1>3. /\ InHand = {} /\ InHand' = {} /\ ~Settled'
      /\ \A u \in Producers : putPc'[u] # "last"
  <2>1. \A t \in Producers : putPc[t] = "stopped"
    BY <1>1 DEF Mutex, Freeing
  <2> QED
    BY <1>1, <1>2, <2>1 DEF InHand, Settled
<1>4. Start = ptTmp /\ Start' = next[ptTmp]
  BY <1>1 DEF Start
<1>5. ns # <<>>
  BY <1>1, <1>4 DEF Whole, IsList
<1>6. /\ ptTmp \in Elements(ns) /\ ms \in Seq(Nodes)
      /\ IsList(next, next[ptTmp], ms) /\ Elements(ms) = Elements(ns) \ {ptTmp}
  BY <1>4, <1>5, TailIsList DEF Whole
<1>7. allocated' = Elements(ms)
  BY <1>1, <1>3, <1>6 DEF Whole
<1>8. Held(ms)'
  BY <1>3 DEF Held
<1>9. Ends(ms)'
  BY <1>1, <1>3 DEF Ends
<1> QED
  BY <1>1, <1>3, <1>4, <1>6, <1>7, <1>8, <1>9 DEF Whole, Elements

\* When every node is freed the queue is empty, and stays so.
LEMMA DestroyEndWhole ==
  ASSUME QTypeOK, Mutex, NEW ns \in Seq(Nodes), Whole(ns), DestroyReset \/ DestroyUnlock
  PROVE  Whole(ns)'
<1>1. /\ getPc \in {"freeAll", "freed"} /\ getPc' \in {"freed", "gone"}
      /\ UNCHANGED <<next, tPkt, allocated, put>>
  BY DEF DestroyReset, DestroyUnlock, GetGoto, heap
<1>2. UNCHANGED <<putPc, ptPktList>>
  BY <1>1 DEF put
<1>3. /\ InHand = {} /\ InHand' = {}
      /\ \A u \in Producers : putPc[u] # "last" /\ putPc'[u] # "last"
  <2>1. \A t \in Producers : putPc[t] = "stopped"
    BY <1>1 DEF Mutex, Freeing
  <2> QED
    BY <1>2, <2>1 DEF InHand
<1>4. ns = <<>> /\ ptFirst' = NULL /\ ptLast' = NULL /\ iPktCount' = 0
  <2>1. CASE DestroyReset
    <3>1. getPc = "freeAll" /\ ptTmp = NULL
      BY <2>1 DEF DestroyReset
    <3>2. ns # <<>> => ns[1] \in Nodes
      OBVIOUS
    <3>3. ns = <<>>
      BY <3>1, <3>2, QueueAssumption DEF Whole, IsList, Start
    <3> QED
      BY <2>1, <3>3 DEF DestroyReset
  <2>2. CASE DestroyUnlock
    <3>1. getPc = "freed" /\ ns = <<>>
      BY <2>2 DEF DestroyUnlock, Whole, Ends
    <3>2. Settled
      BY <1>3, <3>1 DEF Settled
    <3>3. ptFirst = NULL /\ ptLast = NULL /\ iPktCount = Len(ns)
      BY <3>1, <3>2 DEF Whole, IsList, Start, Ends, LastOf
    <3> QED
      BY <2>2, <3>1, <3>3 DEF DestroyUnlock, list
  <2> QED
    BY <2>1, <2>2
<1>5. IsList(next', Start', ns)
  BY <1>1, <1>4 DEF IsList, Start
<1>6. allocated' = Elements(ns) \cup {ptPktList'[u] : u \in InHand'}
  BY <1>1, <1>3 DEF Whole
<1>7. Held(ns)'
  BY <1>3 DEF Held
<1>8. Ends(ns)'
  BY <1>1, <1>3, <1>4 DEF Ends, LastOf
<1> QED
  BY <1>5, <1>6, <1>7, <1>8 DEF Whole, Elements

\* After a step some list is whole again.
LEMMA WholeStep ==
  ASSUME QTypeOK, Mutex, NEW ns \in Seq(Nodes), Whole(ns), [QNext]_qvars
  PROVE  \E ms \in Seq(Nodes) : Whole(ms)'
<1>1. ASSUME NEW t \in Producers, Put(t) PROVE \E ms \in Seq(Nodes) : Whole(ms)'
  <2>1. CASE \E p \in Packets : PutAlloc(t, p)
    BY <2>1, PutAllocWhole
  <2>2. CASE PutLock(t) \/ PutUnlock(t) \/ Stop(t)
    BY <2>2, PutOtherWhole
  <2>3. CASE PutLink(t)
    <3>1. ptPktList[t] \in Nodes
      BY <2>3 DEF PutLink, Whole, Held, InHand
    <3>2. Append(ns, ptPktList[t]) \in Seq(Nodes)
      BY <3>1
    <3> QED
      BY <2>3, <3>2, PutLinkWhole
  <2>4. CASE PutLast(t)
    BY <2>4, PutLastWhole
  <2> QED
    BY <1>1, <2>1, <2>2, <2>3, <2>4 DEF Put
<1>2. ASSUME Get PROVE \E ms \in Seq(Nodes) : Whole(ms)'
  <2>1. CASE GetLock \/ GetEmpty \/ GetUnlock \/ Handle
    BY <2>1, GetOtherWhole
  <2>2. CASE GetUnlink
    BY <2>2, GetUnlinkWhole
  <2>3. CASE GetFixLast
    BY <2>3, GetFixLastWhole
  <2>4. CASE GetCopy
    <3>1. ns # <<>>
      BY <2>4 DEF GetCopy, Whole, Ends
    <3>2. Tail(ns) \in Seq(Nodes)
      BY <3>1
    <3> QED
      BY <2>4, <3>2, GetCopyWhole
  <2> QED
    BY <1>2, <2>1, <2>2, <2>3, <2>4 DEF Get
<1>3. ASSUME Destroy PROVE \E ms \in Seq(Nodes) : Whole(ms)'
  <2>1. CASE DestroyLock
    BY <2>1, DestroyLockWhole
  <2>2. CASE DestroyNode
    BY <2>2, DestroyNodeWhole
  <2>3. CASE DestroyReset \/ DestroyUnlock
    BY <2>3, DestroyEndWhole
  <2> QED
    BY <1>3, <2>1, <2>2, <2>3 DEF Destroy
<1>4. ASSUME UNCHANGED qvars PROVE Whole(ns)'
  <2>1. /\ UNCHANGED <<ptFirst, ptLast, iPktCount, next, tPkt, allocated>>
        /\ UNCHANGED <<putPc, ptPktList, getPc, ptTmp>>
    BY <1>4 DEF qvars, list, heap, put, get
  <2>2. InHand' = InHand /\ Settled' = Settled /\ Start' = Start
    BY <2>1 DEF InHand, Settled, Start
  <2>3. Held(ns)' /\ Ends(ns)'
    BY <2>1, <2>2 DEF Whole, Held, Ends, Elements, LastOf
  <2> QED
    BY <2>1, <2>2, <2>3 DEF Whole, Elements
<1> QED
  BY <1>1, <1>2, <1>3, <1>4 DEF QNext

\* The length of the list bounds the count of the packets.
LEMMA TypeStep ==
  ASSUME QTypeOK, Mutex, NEW ns \in Seq(Nodes), Whole(ns), [QNext]_qvars
  PROVE  QTypeOK'
<1>1. Len(ns) \in Nat /\ Len(ns) <= Cardinality(Nodes) /\ Cardinality(Nodes) \in Nat
  BY ListLength, QueueAssumption, FS_CardinalityType DEF Whole, IsList
<1> USE DEF QTypeOK, Ptr, Value, PutGoto, GetGoto
<1>2. ASSUME NEW t \in Producers, Put(t) PROVE QTypeOK'
  <2>1. CASE \E p \in Packets : PutAlloc(t, p)
    BY <2>1 DEF PutAlloc, list, get
  <2>2. CASE PutLock(t)
    BY <2>2 DEF PutLock, list, heap, get
  <2>3. CASE PutLink(t)
    <3>1. ptPktList[t] \in Nodes
      BY <2>3 DEF PutLink, Whole, Held, InHand
    <3> QED
      BY <2>3, <3>1 DEF PutLink, get
  <2>4. CASE PutLast(t)
    <3>1. iPktCount' \in 0..Cardinality(Nodes)
      BY <1>1, <2>4, PutLastWhole
    <3> QED
      BY <2>4, <3>1 DEF PutLast, heap, get
  <2>5. CASE PutUnlock(t)
    BY <2>5 DEF PutUnlock, list, heap, get
  <2>6. CASE Stop(t)
    BY <2>6 DEF Stop, list, heap, get
  <2> QED
    BY <1>2, <2>1, <2>2, <2>3, <2>4, <2>5, <2>6 DEF Put
<1>3. ASSUME Get PROVE QTypeOK'
  <2>1. CASE GetLock \/ GetEmpty \/ GetUnlock \/ Handle
    BY <2>1 DEF GetLock, GetEmpty, GetUnlock, Handle, list, heap, put
  <2>2. CASE GetUnlink
    BY <2>2 DEF GetUnlink, heap, put
  <2>3. CASE GetFixLast
    <3>1. iPktCount' = Len(ns) - 1 /\ ns # <<>>
      BY <2>3, GetFixLastWhole DEF GetFixLast, Whole, Ends
    <3>2. iPktCount' \in 0..Cardinality(Nodes)
      BY <1>1, <3>1, EmptyList
    <3> QED
      BY <2>3, <3>2 DEF GetFixLast, heap, put
  <2>4. CASE GetCopy
    <3>1. ptTmp \in Nodes
      <4>1. getPc = "copy"
        BY <2>4 DEF GetCopy
      <4>2. ns # <<>>
        BY <4>1 DEF Whole, Ends
      <4>3. ptTmp = ns[1] /\ 1 \in DOMAIN ns
        BY <4>1, <4>2 DEF Whole, IsList, Start
      <4> QED
        BY <4>3
    <3> QED
      BY <2>4, <3>1 DEF GetCopy, list, put
  <2> QED
    BY <1>3, <2>1, <2>2, <2>3, <2>4 DEF Get
<1>4. ASSUME Destroy PROVE QTypeOK'
  <2>1. CASE DestroyLock \/ DestroyNode \/ DestroyUnlock
    BY <2>1 DEF DestroyLock, DestroyNode, DestroyUnlock, list, heap, put
  <2>2. CASE DestroyReset
    BY <1>1, <2>2 DEF DestroyReset, heap, put
  <2> QED
    BY <1>4, <2>1, <2>2 DEF Destroy
<1>5. ASSUME UNCHANGED qvars PROVE QTypeOK'
  BY <1>5 DEF qvars, list, heap, put, get
<1> QED
  BY <1>2, <1>3, <1>4, <1>5 DEF QNext

\* The invariant holds at every moment.
THEOREM WholeCorrect == QSpec => []IInv
<1>1. QInit => IInv
  BY InitIInv
<1>2. IInv /\ [QNext]_qvars => IInv'
  <2> SUFFICES ASSUME IInv, [QNext]_qvars PROVE IInv'
    OBVIOUS
  <2>1. PICK ns \in Seq(Nodes) : Whole(ns)
    BY DEF IInv
  <2>2. QTypeOK /\ Mutex
    BY DEF IInv
  <2>3. QTypeOK'
    BY <2>1, <2>2, TypeStep
  <2>4. Mutex'
    BY <2>2, MutexStep
  <2>5. \E ms \in Seq(Nodes) : Whole(ms)'
    BY <2>1, <2>2, WholeStep
  <2> QED
    BY <2>3, <2>4, <2>5 DEF IInv
<1> QED
  BY <1>1, <1>2, PTL DEF QSpec

\* Every variable keeps its type; the count never exceeds the heap.
THEOREM TypeCorrect == QSpec => []QTypeOK
<1>1. IInv => QTypeOK
  BY DEF IInv
<1> QED
  BY <1>1, WholeCorrect, PTL

\* With the mutex free the list is whole (107-252).
THEOREM ListCorrect == QSpec => []ListWhole
<1>1. IInv => ListWhole
  <2> SUFFICES ASSUME IInv, pMutex = NULL
               PROVE  \E ns \in Lists :
                        /\ IsList(next, ptFirst, ns) /\ Elements(ns) \subseteq allocated
                        /\ ptLast = IF ns = <<>> THEN NULL ELSE ns[Len(ns)]
                        /\ iPktCount = Len(ns)
    BY DEF ListWhole
  <2>1. PICK ns \in Seq(Nodes) : Whole(ns)
    BY DEF IInv
  <2>2. ns \in Lists
    BY <2>1, ListLength DEF Whole, IsList
  <2>3. getPc \notin {"fix", "copy", "freeAll"} /\ \A t \in Producers : putPc[t] # "last"
    BY QueueAssumption DEF IInv, Mutex
  <2>4. Settled /\ Start = ptFirst
    BY <2>3 DEF Settled, Start
  <2> QED
    BY <2>1, <2>2, <2>4 DEF Whole, Ends, LastOf
<1> QED
  BY <1>1, WholeCorrect, PTL

\* Neither put, get nor destroy leaks a node, or frees one twice (140-252).
THEOREM NoLeakCorrect == QSpec => []NoLeak
<1>1. IInv => NoLeak
  <2> SUFFICES ASSUME IInv PROVE NoLeak
    OBVIOUS
  <2>1. PICK ns \in Seq(Nodes) : Whole(ns)
    BY DEF IInv
  <2>2. allocated = Elements(ns) \cup {ptPktList[t] : t \in InHand}
    BY <2>1 DEF Whole
  <2>3. From(next, Start) = ns
    BY <2>1, FromIsList DEF Whole
  <2>4. CASE ~Freeing
    <3>1. getPc # "freeAll" /\ InQueue = ns
      BY <2>3, <2>4 DEF InQueue, Freeing, Taking, Start
    <3> QED
      BY <2>2, <3>1 DEF NoLeak
  <2>5. CASE getPc = "freeAll"
    <3>1. From(next, ptTmp) = ns
      BY <2>3, <2>5 DEF Start
    <3>2. Elements(InQueue) = {}
      BY <2>5 DEF InQueue, Freeing, Elements
    <3> QED
      BY <2>2, <2>5, <3>1, <3>2 DEF NoLeak
  <2>6. CASE getPc \in {"freed", "gone"}
    <3>1. ns = <<>>
      BY <2>1, <2>6 DEF Whole, Ends
    <3>2. InQueue = <<>>
      BY <2>6 DEF InQueue, Freeing
    <3> QED
      BY <2>2, <2>6, <3>1, <3>2 DEF NoLeak
  <2> QED
    BY <2>4, <2>5, <2>6 DEF Freeing
<1> QED
  BY <1>1, WholeCorrect, PTL

-----------------------------------------------------------------------------
(* The list implements the first-in first-out queue.                       *)

\* The packets in the nodes of a list.
Packed(ns, pkts) == [i \in DOMAIN ns |-> pkts[ns[i]]]

\* What the abstract queue holds is what the nodes of the list hold.
LEMMA ContentsAre ==
  ASSUME NEW ns \in Seq(Nodes), Whole(ns)
  PROVE  Contents = IF Freeing THEN <<>> ELSE Packed(ns, tPkt)
<1>1. From(next, Start) = ns
  BY FromIsList DEF Whole
<1>2. InQueue = IF Freeing THEN <<>> ELSE ns
  BY <1>1 DEF InQueue, Start, Taking, Freeing
<1>3. [i \in DOMAIN <<>> |-> tPkt[<<>>[i]]] = <<>>
  OBVIOUS
<1> QED
  BY <1>2, <1>3 DEF Contents, Packed

\* The same after a step.
LEMMA ContentsAreNext ==
  ASSUME NEW ns \in Seq(Nodes), Whole(ns)'
  PROVE  Contents' = IF Freeing' THEN <<>> ELSE Packed(ns, tPkt')
<1>1. From(next', Start') = ns
  BY FromIsList DEF Whole
<1>2. InQueue' = IF Freeing' THEN <<>> ELSE ns
  BY <1>1 DEF InQueue, Start, Taking, Freeing
<1>3. [i \in DOMAIN <<>> |-> tPkt'[<<>>[i]]] = <<>>
  OBVIOUS
<1> QED
  BY <1>2, <1>3 DEF Contents, Packed

\* Packing follows the list when it grows and shrinks.
LEMMA PackedAppend ==
  ASSUME NEW ns \in Seq(Nodes), NEW n \in Nodes, NEW pkts
  PROVE  Packed(Append(ns, n), pkts) = Append(Packed(ns, pkts), pkts[n])
BY DEF Packed

\* The first packet is that of the first node.
LEMMA PackedTail ==
  ASSUME NEW ns \in Seq(Nodes), ns # <<>>, NEW pkts
  PROVE  /\ Packed(ns, pkts) # <<>> /\ Head(Packed(ns, pkts)) = pkts[ns[1]]
         /\ Packed(Tail(ns), pkts) = Tail(Packed(ns, pkts))
BY DEF Packed

\* A node put in is appended, one that is read is the first; every other
\* assignment leaves the queue what it was.
LEMMA FifoStep ==
  ASSUME QTypeOK, Mutex, NEW ns \in Seq(Nodes), Whole(ns), [QNext]_qvars
  PROVE  [F!FNext]_<<Contents, ptPkt>>
<1>0. Contents = IF Freeing THEN <<>> ELSE Packed(ns, tPkt)
  BY ContentsAre
<1>1. ASSUME Whole(ns)', UNCHANGED <<tPkt, ptPkt>>, ~Freeing, ~Freeing'
      PROVE  UNCHANGED <<Contents, ptPkt>>
  BY <1>0, <1>1, ContentsAreNext
<1>2. ASSUME NEW t \in Producers, Put(t) PROVE [F!FNext]_<<Contents, ptPkt>>
  <2>0. ~Freeing /\ ~Freeing' /\ UNCHANGED ptPkt
    BY <1>2 DEF Put, PutAlloc, PutLock, PutLink, PutLast, PutUnlock, Stop, get,
       Mutex, Freeing
  <2>1. ASSUME NEW p \in Packets, PutAlloc(t, p) PROVE UNCHANGED <<Contents, ptPkt>>
    <3>1. Whole(ns)'
      BY <2>1, PutAllocWhole
    <3>2. \A i \in DOMAIN ns : tPkt'[ns[i]] = tPkt[ns[i]]
      <4>1. \A i \in DOMAIN ns : ns[i] \in allocated /\ ns[i] \in Nodes
        BY DEF Whole, Elements
      <4> QED
        BY <2>1, <4>1 DEF PutAlloc, QTypeOK
    <3>3. Packed(ns, tPkt') = Packed(ns, tPkt)
      BY <3>2 DEF Packed
    <3> QED
      BY <1>0, <2>0, <3>1, <3>3, ContentsAreNext
  <2>2. CASE PutLock(t) \/ PutUnlock(t) \/ Stop(t)
    <3>1. Whole(ns)'
      BY <2>2, PutOtherWhole
    <3>2. UNCHANGED tPkt
      BY <2>2 DEF PutLock, PutUnlock, Stop, heap
    <3> QED
      BY <1>1, <2>0, <3>1, <3>2
  <2>3. CASE PutLink(t)
    <3>1. ptPktList[t] \in Nodes /\ tPkt[ptPktList[t]] \in Packets /\ UNCHANGED tPkt
      BY <2>3 DEF PutLink, Whole, Held, InHand
    <3>2. Append(ns, ptPktList[t]) \in Seq(Nodes)
      BY <3>1
    <3>3. PICK ms \in Seq(Nodes) : ms = Append(ns, ptPktList[t])
      BY <3>2
    <3>4. Whole(ms)'
      BY <2>3, <3>3, PutLinkWhole
    <3>5. Contents' = Append(Contents, tPkt[ptPktList[t]])
      BY <1>0, <2>0, <3>1, <3>3, <3>4, ContentsAreNext, PackedAppend
    <3>6. F!FPut(tPkt[ptPktList[t]])
      BY <2>0, <3>5 DEF F!FPut
    <3> QED
      BY <3>1, <3>6 DEF F!FNext
  <2>4. CASE PutLast(t)
    <3>1. Whole(ns)'
      BY <2>4, PutLastWhole
    <3>2. UNCHANGED tPkt
      BY <2>4 DEF PutLast, heap
    <3> QED
      BY <1>1, <2>0, <3>1, <3>2
  <2> QED
    BY <1>2, <2>1, <2>2, <2>3, <2>4 DEF Put
<1>3. ASSUME Get PROVE [F!FNext]_<<Contents, ptPkt>>
  <2>0. ~Freeing /\ ~Freeing'
    BY <1>3 DEF Get, GetLock, GetEmpty, GetUnlink, GetFixLast, GetCopy, GetUnlock,
       Handle, GetGoto, Freeing
  <2>1. CASE GetLock \/ GetEmpty \/ GetUnlock
    <3>1. Whole(ns)'
      BY <2>1, GetOtherWhole
    <3>2. UNCHANGED <<tPkt, ptPkt>>
      BY <2>1 DEF GetLock, GetEmpty, GetUnlock, heap
    <3> QED
      BY <1>1, <2>0, <3>1, <3>2
  <2>2. CASE Handle
    <3>1. Whole(ns)' /\ UNCHANGED tPkt /\ ptPkt' = NoPacket
      BY <2>2, GetOtherWhole DEF Handle, heap
    <3>2. F!FHandled
      BY <1>0, <2>0, <3>1, ContentsAreNext DEF F!FHandled
    <3> QED
      BY <3>2 DEF F!FNext
  <2>3. CASE GetUnlink
    <3>1. Whole(ns)' /\ UNCHANGED <<tPkt, ptPkt>>
      BY <2>3, GetUnlinkWhole DEF GetUnlink, heap
    <3> QED
      BY <1>1, <2>0, <3>1
  <2>4. CASE GetFixLast
    <3>1. Whole(ns)' /\ UNCHANGED <<tPkt, ptPkt>>
      BY <2>4, GetFixLastWhole DEF GetFixLast, heap
    <3> QED
      BY <1>1, <2>0, <3>1
  <2>5. CASE GetCopy
    <3>1. getPc = "copy" /\ ptPkt' = tPkt[ptTmp] /\ UNCHANGED tPkt
      BY <2>5 DEF GetCopy
    <3>2. ns # <<>> /\ ptTmp = ns[1]
      BY <3>1 DEF Whole, Ends, IsList, Start
    <3> DEFINE ms == Tail(ns)
    <3>3. ms \in Seq(Nodes)
      BY <3>2
    <3>4. Whole(ms)'
      BY <2>5, GetCopyWhole
    <3>5. Contents' = Tail(Contents) /\ Contents # <<>> /\ ptPkt' = Head(Contents)
      BY <1>0, <2>0, <3>1, <3>2, <3>3, <3>4, ContentsAreNext, PackedTail
    <3>6. F!FGet
      BY <3>5 DEF F!FGet
    <3> QED
      BY <3>6 DEF F!FNext
  <2> QED
    BY <1>3, <2>1, <2>2, <2>3, <2>4, <2>5 DEF Get
<1>4. ASSUME Destroy PROVE [F!FNext]_<<Contents, ptPkt>>
  <2>0. Freeing' /\ UNCHANGED ptPkt
    BY <1>4 DEF Destroy, DestroyLock, DestroyNode, DestroyReset, DestroyUnlock,
       GetGoto, Freeing
  <2>1. PICK ms \in Seq(Nodes) : Whole(ms)'
    BY <1>4, WholeStep DEF QNext
  <2>2. F!FDestroy
    BY <2>0, <2>1, ContentsAreNext DEF F!FDestroy
  <2> QED
    BY <2>2 DEF F!FNext
<1>5. ASSUME UNCHANGED qvars PROVE UNCHANGED <<Contents, ptPkt>>
  <2>1. UNCHANGED <<next, tPkt, ptFirst, getPc, ptTmp, ptPkt>>
    BY <1>5 DEF qvars, list, heap, get
  <2> QED
    BY <2>1 DEF Contents, InQueue, Freeing, Taking
<1> QED
  BY <1>2, <1>3, <1>4, <1>5 DEF QNext

\* Whatever pointer assignment a thread is stopped at, packets come out in the
\* order they went in, each once: the list implements the queue of Fifo.
THEOREM FifoCorrect == QSpec => ImplementsFifo
<1>1. QInit => F!FInit
  <2> SUFFICES ASSUME QInit PROVE F!FInit
    OBVIOUS
  <2>1. <<>> \in Seq(Nodes) /\ From(next, NULL) = <<>>
    <3>1. <<>> \in Seq(Nodes)
      OBVIOUS
    <3>2. IsList(next, NULL, <<>>)
      BY DEF IsList
    <3> QED
      BY <3>1, <3>2, FromIsList
  <2>2. InQueue = <<>>
    BY <2>1 DEF QInit, InQueue, Freeing, Taking
  <2>3. Contents = <<>>
    BY <2>2 DEF Contents
  <2> QED
    BY <2>3 DEF QInit, F!FInit
<1>2. IInv /\ [QNext]_qvars => [F!FNext]_<<Contents, ptPkt>>
  BY FifoStep DEF IInv
<1> QED
  BY <1>1, <1>2, WholeCorrect, PTL DEF QSpec, ImplementsFifo, F!FSpec

=============================================================================
