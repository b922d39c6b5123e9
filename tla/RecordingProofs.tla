-------------------------- MODULE RecordingProofs ---------------------------
(***************************************************************************)
(* Proofs about the recordings: the query and its table (RecordQuery), the *)
(* channels that play them and the cameras (VideoChannels), the downloads  *)
(* to the USB stick (FtpDownload) and the play-back (RecordPlay).          *)
(*                                                                         *)
(* The four share nothing but lemmas; each has an inductive invariant of   *)
(* its own: QueryInv, ChannelsInv, FtpInv and PlayTypeOK.  SetInduction is *)
(* induction on numbers stated with a set, so that the provers can use it; *)
(* it gives what FlattenSeq, the rank of a path in the sorted directory    *)
(* and SumFunction return for data of every length.                        *)
(***************************************************************************)
EXTENDS RecordQuery, FtpDownload, VideoChannels, RecordPlay, FiniteSetTheorems,
        SequenceTheorems, TLAPS

\* Induction over the natural numbers, for a set.
LEMMA SetInduction ==
  ASSUME NEW S, 0 \in S, \A n \in Nat : n \in S => n + 1 \in S
  PROVE  Nat \subseteq S
<1> DEFINE T == Nat \ S
<1> SUFFICES ASSUME T # {} PROVE FALSE
  OBVIOUS
<1>1. \A x, y \in Nat : x < y => <<x, y>> \in OpToRel(<, Nat)
  BY DEF OpToRel
<1>2. PICK m \in T : \A y \in T : ~(<<y, m>> \in OpToRel(<, Nat))
  BY NatLessThanWellFounded, WFMin
<1>3. m # 0 /\ m - 1 \in Nat /\ m - 1 < m
  OBVIOUS
<1>4. m - 1 \notin T
  BY <1>1, <1>2, <1>3
<1> QED
  BY <1>3, <1>4

\* A definition by recursion over 1..n has a value.
LEMMA FlattenExists ==
  ASSUME NEW ss, NEW X, NEW n \in Nat, \A k \in 1..n : ss[k] \in Seq(X)
  PROVE  \E f : /\ f = [i \in 1..n |-> IF i = 1 THEN ss[i] ELSE f[i - 1] \o ss[i]]
                /\ \A i \in 1..n : f[i] \in Seq(X)
<1>0. \A i \in 1..0 : FALSE
  OBVIOUS
<1> DEFINE Flat(f, m) == /\ f = [i \in 1..m |-> IF i = 1 THEN ss[i] ELSE f[i - 1] \o ss[i]]
                         /\ \A i \in 1..m : f[i] \in Seq(X)
           S == {m \in Nat : m <= n => \E f : Flat(f, m)}
<1>1. 0 \in S
  <2> DEFINE f == [i \in 1..0 |-> <<>>]
  <2>1. Flat(f, 0)
    BY <1>0, Zenon
  <2> QED
    BY <2>1, Zenon
<1>2. ASSUME NEW m \in Nat, m \in S PROVE m + 1 \in S
  <2>0. m + 1 \in Nat
    OBVIOUS
  <2> SUFFICES ASSUME m + 1 <= n PROVE \E f : Flat(f, m + 1)
    BY <2>0, Zenon
  <2>1. PICK f : Flat(f, m)
    <3>1. m <= n
      OBVIOUS
    <3> QED
      BY <1>2, <3>1, Zenon
  <2> DEFINE last == IF m + 1 = 1 THEN ss[m + 1] ELSE f[m] \o ss[m + 1]
             g == [i \in 1..m + 1 |-> IF i \in 1..m THEN f[i] ELSE last]
  <2>2. last \in Seq(X)
    <3>1. ss[m + 1] \in Seq(X)
      OBVIOUS
    <3>2. m # 0 => f[m] \in Seq(X)
      BY <2>1
    <3> QED
      BY <3>1, <3>2
  <2>3. \A i \in 1..m + 1 : g[i] \in Seq(X)
    BY <2>1, <2>2
  <2>4. \A i \in 1..m : f[i] = IF i = 1 THEN ss[i] ELSE f[i - 1] \o ss[i]
    BY <2>1
  <2>5. \A i \in 1..m + 1 : g[i] = IF i = 1 THEN ss[i] ELSE g[i - 1] \o ss[i]
    <3> SUFFICES ASSUME NEW i \in 1..m + 1
                 PROVE  g[i] = IF i = 1 THEN ss[i] ELSE g[i - 1] \o ss[i]
      OBVIOUS
    <3>1. CASE i \in 1..m
      <4>1. g[i] = f[i] /\ (i # 1 => g[i - 1] = f[i - 1])
        BY <3>1
      <4> HIDE DEF g
      <4> QED
        BY <4>1, <3>1, <2>4
    <3>2. CASE i = m + 1
      <4>1. g[i] = last /\ (i # 1 => g[i - 1] = f[m])
        BY <3>2
      <4> HIDE DEF g
      <4> QED
        BY <4>1, <3>2
    <3> QED
      BY <3>1, <3>2
  <2>6. g = [i \in 1..m + 1 |-> IF i = 1 THEN ss[i] ELSE g[i - 1] \o ss[i]]
    <3>1. g = [i \in 1..m + 1 |-> g[i]]
      OBVIOUS
    <3> HIDE DEF g
    <3> QED
      BY <3>1, <2>5, Zenon
  <2> QED
    BY <2>3, <2>6, Zenon
<1>3. Nat \subseteq S
  <2> HIDE DEF S
  <2> QED
    BY <1>1, <1>2, SetInduction
<1>4. n \in S /\ n <= n
  <2> HIDE DEF S
  <2> QED
    BY <1>3
<1> QED
  BY <1>4, Zenon

\* What is put together from sequences over X is a sequence over X.
LEMMA FlattenType ==
  ASSUME NEW X, NEW ss \in Seq(Seq(X))
  PROVE  FlattenSeq(ss) \in Seq(X)
<1> DEFINE n == Len(ss)
           Flat(f) == f = [i \in 1..n |-> IF i = 1 THEN ss[i] ELSE f[i - 1] \o ss[i]]
<1>0. n \in Nat /\ \A k \in 1..n : ss[k] \in Seq(X)
  OBVIOUS
<1>1. CASE n = 0
  <2>1. ss = <<>>
    BY <1>1
  <2>2. <<>> \in Seq(X)
    OBVIOUS
  <2> QED
    BY <2>1, <2>2 DEF FlattenSeq
<1>2. CASE n # 0
  <2>1. PICK f : Flat(f) /\ \A i \in 1..n : f[i] \in Seq(X)
    <3> HIDE DEF n
    <3> QED
      BY <1>0, FlattenExists, Zenon
  <2>2. Flat(CHOOSE h : Flat(h))
    BY <2>1, Zenon
  <2> DEFINE c == CHOOSE h : Flat(h)
  <2>3. FlattenSeq(ss) = c[n]
    BY <1>2 DEF FlattenSeq
  <2>4. \A i \in 1..n : c[i] \in Seq(X)
    <3> DEFINE S == {m \in Nat : m \in 1..n => c[m] \in Seq(X)}
    <3> HIDE DEF c
    <3>0. \A i \in 1..n : c[i] = IF i = 1 THEN ss[i] ELSE c[i - 1] \o ss[i]
      BY <2>2 DEF c
    <3>1. 0 \in S
      OBVIOUS
    <3>2. ASSUME NEW m \in Nat, m \in S PROVE m + 1 \in S
      <4> SUFFICES ASSUME m + 1 \in 1..n PROVE c[m + 1] \in Seq(X)
        OBVIOUS
      <4>1. ss[m + 1] \in Seq(X)
        BY <1>0
      <4>2. CASE m = 0
        BY <4>1, <4>2, <3>0
      <4>3. CASE m # 0
        <5>1. c[m] \in Seq(X)
          BY <3>2, <4>3, <1>0
        <5>2. m + 1 # 1 /\ (m + 1) - 1 = m
          BY <4>3
        <5>3. c[m + 1] = c[m] \o ss[m + 1]
          BY <3>0, <5>2, Zenon
        <5> QED
          BY <4>1, <5>1, <5>3
      <4> QED
        BY <4>2, <4>3
    <3>3. Nat \subseteq S
      <4> HIDE DEF S
      <4> QED
        BY <3>1, <3>2, SetInduction
    <3> QED
      BY <3>3, <1>0
  <2>5. n \in 1..n
    BY <1>0, <1>2
  <2> QED
    BY <2>3, <2>4, <2>5, Zenon
<1> QED
  BY <1>1, <1>2

-----------------------------------------------------------------------------
(* RecordQuery.                                                            *)

\* Among numbers from 1 to some n there is a first, a second, and so on.
LEMMA RankExists ==
  ASSUME NEW n \in Nat, NEW A \in SUBSET (1..n), NEW i \in 1..Cardinality(A)
  PROVE  \E k \in A : Cardinality({j \in A : j <= k}) = i
<1> DEFINE Ranked(B) == \A r \in 1..Cardinality(B) :
                          \E k \in B : Cardinality({j \in B : j <= k}) = r
           S == {m \in Nat : \A B \in SUBSET (1..m) : Ranked(B)}
<1>1. 0 \in S
  <2> SUFFICES ASSUME NEW B \in SUBSET (1..0) PROVE Ranked(B)
    OBVIOUS
  <2>1. B = {}
    OBVIOUS
  <2>2. Cardinality(B) = 0
    BY <2>1, FS_EmptySet
  <2> QED
    BY <2>2
<1>2. ASSUME NEW m \in Nat, m \in S PROVE m + 1 \in S
  <2>0. m + 1 \in Nat
    OBVIOUS
  <2> SUFFICES ASSUME NEW B \in SUBSET (1..m + 1) PROVE Ranked(B)
    BY <2>0, Zenon
  <2>1. ASSUME NEW C \in SUBSET (1..m) PROVE Ranked(C)
    BY <1>2, Zenon
  <2>2. CASE m + 1 \notin B
    <3>1. B \in SUBSET (1..m)
      BY <2>2
    <3> QED
      BY <2>1, <3>1, Zenon
  <2>3. CASE m + 1 \in B
    <3> DEFINE C == B \ {m + 1}
    <3>1. C \in SUBSET (1..m)
      OBVIOUS
    <3>2. IsFiniteSet(B)
      <4>1. IsFiniteSet(1..m + 1)
        BY <2>0, FS_Interval
      <4> QED
        BY <4>1, FS_Subset
    <3>3. Cardinality(C) = Cardinality(B) - 1 /\ Cardinality(B) \in Nat
      BY <3>2, <2>3, FS_RemoveElement, FS_CardinalityType
    <3> SUFFICES ASSUME NEW r \in 1..Cardinality(B)
                 PROVE  \E k \in B : Cardinality({j \in B : j <= k}) = r
      OBVIOUS
    <3>4. CASE r = Cardinality(B)
      <4>1. \A j \in B : j <= m + 1
        OBVIOUS
      <4>2. {j \in B : j <= m + 1} = B
        BY <4>1, Zenon
      <4> QED
        BY <4>2, <3>4, <2>3, Zenon
    <3>5. CASE r # Cardinality(B)
      <4>1. r \in 1..Cardinality(C)
        BY <3>3, <3>5
      <4>2. PICK k \in C : Cardinality({j \in C : j <= k}) = r
        BY <2>1, <3>1, <4>1, Zenon
      <4>3. {j \in C : j <= k} = {j \in B : j <= k}
        BY <3>1, <4>2
      <4> QED
        BY <4>2, <4>3
    <3> QED
      BY <3>4, <3>5
  <2> QED
    BY <2>2, <2>3
<1>3. Nat \subseteq S
  <2> HIDE DEF S
  <2> QED
    BY <1>1, <1>2, SetInduction
<1>4. n \in S
  <2> HIDE DEF S
  <2> QED
    BY <1>3
<1> QED
  BY <1>4, Zenon

\* The paths in a text are as many as its ends, pieces of the text each.
LEMMA PathsType ==
  ASSUME NEW text \in Seq(Pieces)
  PROVE  Paths(text) \in Seq(Seq(Pieces))
<1> DEFINE ends == {k \in DOMAIN text : text[k][3] = "end.MP4"}
           end(i) == CHOOSE k \in ends : Cardinality({j \in ends : j <= k}) = i
           begin(i) == IF i = 1 THEN 1 ELSE end(i - 1) + 1
<1>1. Len(text) \in Nat /\ DOMAIN text = 1..Len(text)
  OBVIOUS
<1>2. ends \in SUBSET (1..Len(text))
  BY <1>1
<1>3. Cardinality(ends) \in Nat
  <2>1. IsFiniteSet(1..Len(text))
    BY <1>1, FS_Interval
  <2> QED
    BY <2>1, <1>2, FS_Subset, FS_CardinalityType
<1>4. ASSUME NEW i \in 1..Cardinality(ends) PROVE end(i) \in 1..Len(text)
  <2> HIDE DEF ends
  <2>1. \E k \in ends : Cardinality({j \in ends : j <= k}) = i
    BY <1>1, <1>2, RankExists
  <2>2. end(i) \in ends
    BY <2>1, Zenon
  <2> QED
    BY <2>2, <1>2
<1>5. ASSUME NEW i \in 1..Cardinality(ends) PROVE SubSeq(text, begin(i), end(i)) \in Seq(Pieces)
  <2>1. end(i) \in 1..Len(text)
    BY <1>4
  <2>2. begin(i) \in Nat \ {0}
    <3>1. CASE i = 1
      BY <3>1
    <3>2. CASE i # 1
      <4>1. i - 1 \in 1..Cardinality(ends)
        <5> HIDE DEF ends
        <5> QED
          BY <3>2, <1>3
      <4>2. end(i - 1) \in 1..Len(text)
        <5> HIDE DEF end, ends
        <5> QED
          BY <4>1, <1>4, Zenon
      <4> HIDE DEF end, ends
      <4> QED
        BY <4>2, <3>2
    <3> QED
      BY <3>1, <3>2
  <2> HIDE DEF begin, end, ends
  <2>3. \A k \in begin(i)..end(i) : k \in 1..Len(text)
    BY <2>1, <2>2
  <2> QED
    BY <2>1, <2>2, <2>3, <1>1
<1>6. Paths(text) = [i \in 1..Cardinality(ends) |-> SubSeq(text, begin(i), end(i))]
  BY DEF Paths
<1> DEFINE paths == [i \in 1..Cardinality(ends) |-> SubSeq(text, begin(i), end(i))]
<1> HIDE DEF begin, end, ends
<1>7. paths \in [1..Cardinality(ends) -> Seq(Pieces)]
  BY <1>5, Zenon
<1>8. paths \in Seq(Seq(Pieces))
  <2> HIDE DEF paths
  <2> QED
    BY <1>3, <1>7
<1> QED
  BY <1>6, <1>8, Zenon

\* A server's answer is made of pieces.
LEMMA AnswerType ==
  ASSUME NEW q \in Queries, NEW n \in 0..MaxFiles
  PROVE  Answer(q, n) \in Seq(Pieces)
<1>0. n \in Nat /\ 1..n \subseteq 1..MaxFiles
  BY QueryAssumption
<1>1. ASSUME NEW f \in 1..n PROVE Path(q, f) \in Seq(Pieces)
  <2>1. f \in 1..MaxFiles
    BY <1>0
  <2>2. <<q, f, "begin">> \in Pieces /\ <<q, f, "end.MP4">> \in Pieces
    BY <2>1 DEF Pieces
  <2> HIDE DEF Pieces
  <2> QED
    BY <2>2 DEF Path
<1> DEFINE ss == [f \in 1..n |-> Path(q, f)]
<1>2. ss \in Seq(Seq(Pieces))
  <2>1. ss \in [1..n -> Seq(Pieces)]
    BY <1>1, Zenon
  <2> HIDE DEF ss
  <2> QED
    BY <1>0, <2>1
<1> HIDE DEF ss
<1>3. FlattenSeq(ss) \in Seq(Pieces)
  BY <1>2, FlattenType
<1> QED
  BY <1>3 DEF Answer, ss

\* Each query takes at most one look that finds something; without one the
\* looks are limited.
LooksLimited ==
  /\ iRecordNum <= GiveUp + asked - (IF queryTimer THEN 1 ELSE 0)
  /\ queryTimer => asked > 0

\* Without downloads there is one query at a time: while a timer runs the
\* button is disabled and the table empty, so that it is filled only once.
TableWhole ==
  downloads = 0 =>
    /\ bar = "none" /\ rows = m_acFilePath
    /\ ~(queryTimer /\ fillTimer)
    /\ queryTimer \/ fillTimer => ~queryEnabled /\ rows = <<>>

\* The inductive invariant of the query.
QueryInv == QueryTypeOK /\ LooksLimited /\ TableWhole

\* It holds at the start.
LEMMA QueryInitInv == QueryInit => QueryInv
<1>1. <<>> \in Seq(Pieces) /\ <<>> \in Seq(Seq(Pieces))
  OBVIOUS
<1> SUFFICES ASSUME QueryInit PROVE QueryInv
  OBVIOUS
<1> USE QueryAssumption DEF QueryInit
<1>2. {queryEnabled, queryTimer, fillTimer} \subseteq BOOLEAN
  BY Zenon
<1>3. QueryTypeOK
  BY <1>1, <1>2 DEF QueryTypeOK
<1>4. LooksLimited
  BY DEF LooksLimited
<1>5. TableWhole
  BY DEF TableWhole
<1> QED
  BY <1>3, <1>4, <1>5 DEF QueryInv

\* Every step keeps the types.
LEMMA QueryTypeStep ==
  QueryInv /\ [QueryNext]_queryVars => QueryTypeOK'
<1> SUFFICES ASSUME QueryInv, [QueryNext]_queryVars PROVE QueryTypeOK'
  OBVIOUS
<1> USE QueryAssumption DEF QueryInv
<1>0. <<>> \in Seq(Pieces) /\ <<>> \in Seq(Seq(Pieces))
  OBVIOUS
<1>1. CASE RecordQuerySlot
  <2>1. asked + 1 \in Queries
    BY <1>1 DEF RecordQuerySlot, QueryTypeOK, Queries
  <2>2. coming' \in Seq(Pieces)
    <3>1. PICK n \in 0..MaxFiles : coming' = coming \o Answer(asked + 1, n)
      BY <1>1 DEF RecordQuerySlot
    <3>2. Answer(asked + 1, n) \in Seq(Pieces)
      BY <2>1, AnswerType
    <3>3. coming \in Seq(Pieces)
      BY DEF QueryTypeOK
    <3> QED
      BY <3>1, <3>2, <3>3
  <2>3. {queryEnabled', queryTimer', fillTimer'} \subseteq BOOLEAN
    BY <1>1, Zenon DEF RecordQuerySlot, QueryTypeOK
  <2>4. asked' \in 0..MaxQueries
    BY <1>1, <2>1 DEF RecordQuerySlot, Queries
  <2>5. /\ m_pcRecordFileBuf' \in Seq(Pieces)
        /\ rows' \in Seq(Seq(Pieces)) /\ m_acFilePath' \in Seq(Seq(Pieces))
    BY <1>0, <1>1 DEF RecordQuerySlot, EmptyTable
  <2>6. UNCHANGED <<iRecordNum, bar, downloads>>
    BY <1>1 DEF RecordQuerySlot, download
  <2> QED
    BY <2>2, <2>3, <2>4, <2>5, <2>6 DEF QueryTypeOK
<1>2. CASE RecordQueryCtrl
  <2>1. PICK k \in 1..Len(coming) :
          /\ m_pcRecordFileBuf' = m_pcRecordFileBuf \o SubSeq(coming, 1, k)
          /\ coming' = SubSeq(coming, k + 1, Len(coming))
    BY <1>2 DEF RecordQueryCtrl
  <2>2. coming \in Seq(Pieces) /\ m_pcRecordFileBuf \in Seq(Pieces)
    BY DEF QueryTypeOK
  <2>3. SubSeq(coming, 1, k) \in Seq(Pieces) /\ SubSeq(coming, k + 1, Len(coming)) \in Seq(Pieces)
    BY <2>2
  <2>4. coming' \in Seq(Pieces) /\ m_pcRecordFileBuf' \in Seq(Pieces)
    BY <2>1, <2>2, <2>3
  <2> QED
    BY <1>2, <2>4 DEF RecordQueryCtrl, QueryTypeOK, table, download
<1>3. CASE RecordQueryEndSlot
  <2>1. {queryEnabled', queryTimer', fillTimer'} \subseteq BOOLEAN
    BY <1>3, Zenon DEF RecordQueryEndSlot, QueryTypeOK
  <2>2. iRecordNum' \in 0..GiveUp + MaxQueries
    <3>1. /\ iRecordNum \in Nat /\ asked \in 0..MaxQueries
          /\ iRecordNum <= GiveUp + asked - 1
      BY <1>3 DEF RecordQueryEndSlot, QueryTypeOK, LooksLimited
    <3>2. iRecordNum' \in {0, iRecordNum + 1}
      BY <1>3, Zenon DEF RecordQueryEndSlot, Look
    <3> QED
      BY <3>1, <3>2
  <2>3. UNCHANGED <<asked, coming, m_pcRecordFileBuf, rows, m_acFilePath, bar, downloads>>
    BY <1>3 DEF RecordQueryEndSlot, table, download
  <2> QED
    BY <2>1, <2>2, <2>3 DEF QueryTypeOK
<1>4. CASE RecordTableWidgetFillFunc
  <2> DEFINE paths == Paths(m_pcRecordFileBuf)
  <2>1. paths \in Seq(Seq(Pieces))
    BY PathsType DEF QueryTypeOK
  <2>2. /\ rows' = paths \o rows
        /\ m_acFilePath' = paths \o SubSeq(m_acFilePath, Len(paths) + 1, Len(m_acFilePath))
    BY <1>4 DEF RecordTableWidgetFillFunc
  <2>3. rows \in Seq(Seq(Pieces)) /\ m_acFilePath \in Seq(Seq(Pieces))
    BY DEF QueryTypeOK
  <2> HIDE DEF paths
  <2>4. SubSeq(m_acFilePath, Len(paths) + 1, Len(m_acFilePath)) \in Seq(Seq(Pieces))
    BY <2>1, <2>3
  <2>5. rows' \in Seq(Seq(Pieces)) /\ m_acFilePath' \in Seq(Seq(Pieces))
    BY <2>1, <2>2, <2>3, <2>4
  <2> QED
    BY <1>4, <2>5 DEF RecordTableWidgetFillFunc, QueryTypeOK, download
<1>5. CASE RecordDownloadSlot
  BY <1>5 DEF RecordDownloadSlot, QueryTypeOK, table
<1>6. CASE DownloadProcessBarDisplaySlot
  BY <1>6 DEF DownloadProcessBarDisplaySlot, QueryTypeOK, table
<1>7. CASE UNCHANGED queryVars
  BY <1>7 DEF queryVars, QueryTypeOK, table, download
<1> QED
  BY <1>1, <1>2, <1>3, <1>4, <1>5, <1>6, <1>7 DEF QueryNext, Timers

\* Every step keeps the table whole and the looks limited.
LEMMA QueryTableStep ==
  QueryInv /\ [QueryNext]_queryVars => LooksLimited' /\ TableWhole'
<1> SUFFICES ASSUME QueryInv, [QueryNext]_queryVars PROVE LooksLimited' /\ TableWhole'
  OBVIOUS
<1> USE QueryAssumption DEF QueryInv
<1>0. asked \in Nat /\ iRecordNum \in Nat /\ downloads \in Nat
  BY DEF QueryTypeOK
<1>1. CASE RecordQuerySlot
  BY <1>0, <1>1 DEF RecordQuerySlot, EmptyTable, LooksLimited, TableWhole, download
<1>2. CASE RecordQueryCtrl
  BY <1>2 DEF RecordQueryCtrl, LooksLimited, TableWhole, table, download
<1>3. CASE RecordQueryEndSlot
  <2>1. UNCHANGED <<asked, rows, m_acFilePath, bar, downloads>> /\ queryTimer
    BY <1>3 DEF RecordQueryEndSlot, table, download
  <2>2. CASE m_pcRecordFileBuf # <<>>
    <3>1. iRecordNum' = iRecordNum + 1 /\ ~queryTimer' /\ fillTimer' /\ queryEnabled' = queryEnabled
      BY <1>3, <2>2 DEF RecordQueryEndSlot, Look
    <3> QED
      BY <1>0, <2>1, <3>1 DEF LooksLimited, TableWhole
  <2>3. CASE m_pcRecordFileBuf = <<>> /\ iRecordNum + 1 > GiveUp
    <3>0. ~(iRecordNum + 1 <= GiveUp)
      BY <1>0, <2>3
    <3>1. iRecordNum' = 0 /\ ~queryTimer' /\ fillTimer' = fillTimer
      BY <1>3, <2>3, <3>0, Zenon DEF RecordQueryEndSlot
    <3> QED
      BY <1>0, <2>1, <3>1 DEF LooksLimited, TableWhole
  <2>4. CASE m_pcRecordFileBuf = <<>> /\ iRecordNum + 1 <= GiveUp
    <3>0. ~(iRecordNum + 1 > GiveUp)
      BY <1>0, <2>4
    <3>1. /\ iRecordNum' = iRecordNum + 1
          /\ queryTimer' = queryTimer /\ fillTimer' = fillTimer
          /\ queryEnabled' = queryEnabled
      BY <1>3, <2>4, <3>0, Zenon DEF RecordQueryEndSlot, Look
    <3>2. LooksLimited'
      BY <1>0, <2>1, <2>4, <3>1 DEF LooksLimited
    <3>3. TableWhole'
      BY <2>1, <3>1, Zenon DEF TableWhole
    <3> QED
      BY <3>2, <3>3
  <2> QED
    BY <1>0, <2>2, <2>3, <2>4
<1>4. CASE RecordTableWidgetFillFunc
  <2> DEFINE paths == Paths(m_pcRecordFileBuf)
  <2>1. paths \in Seq(Seq(Pieces))
    BY PathsType DEF QueryTypeOK
  <2>2. /\ rows' = paths \o rows
        /\ m_acFilePath' = paths \o SubSeq(m_acFilePath, Len(paths) + 1, Len(m_acFilePath))
    BY <1>4 DEF RecordTableWidgetFillFunc
  <2> HIDE DEF paths
  <2>3. ASSUME downloads = 0 PROVE rows' = m_acFilePath'
    <3>1. rows = <<>> /\ m_acFilePath = <<>>
      BY <1>4, <2>3 DEF RecordTableWidgetFillFunc, TableWhole
    <3>2. SubSeq(<<>>, Len(paths) + 1, Len(<<>>)) = <<>>
      BY <2>1
    <3> QED
      BY <2>2, <3>1, <3>2
  <2> QED
    BY <1>0, <1>4, <2>3 DEF RecordTableWidgetFillFunc, LooksLimited, TableWhole, download
<1>5. CASE RecordDownloadSlot
  BY <1>0, <1>5 DEF RecordDownloadSlot, LooksLimited, TableWhole, table
<1>6. CASE DownloadProcessBarDisplaySlot
  BY <1>6 DEF DownloadProcessBarDisplaySlot, LooksLimited, TableWhole, table
<1>7. CASE UNCHANGED queryVars
  BY <1>7 DEF queryVars, LooksLimited, TableWhole, table, download
<1> QED
  BY <1>1, <1>2, <1>3, <1>4, <1>5, <1>6, <1>7 DEF QueryNext, Timers

\* The invariant of the query page (624-673, 405-466).
THEOREM QueryInvariant == QuerySpec => []QueryInv
<1>1. QueryInv /\ [QueryNext]_queryVars => QueryInv'
  BY QueryTypeStep, QueryTableStep DEF QueryInv
<1> QED
  BY QueryInitInv, <1>1, PTL DEF QuerySpec

\* Every variable of the query page keeps its type, and the looks stay
\* limited, however many queries and downloads there are.
THEOREM QueryTypeCorrect == QuerySpec => []QueryTypeOK
<1>1. QueryInv => QueryTypeOK
  BY DEF QueryInv
<1> QED
  BY QueryInvariant, <1>1, PTL

\* Without downloads the recording named in a row is the one that is played
\* with it, for any number of queries, recordings and packets (411-455,
\* 541-556).
THEOREM RowsCorrect == QuerySpec => []RowsHaveTheirPath
<1>1. QueryInv => RowsHaveTheirPath
  BY DEF QueryInv, TableWhole, RowsHaveTheirPath
<1> QED
  BY QueryInvariant, <1>1, PTL

-----------------------------------------------------------------------------
(* VideoChannels.                                                          *)

\* A command for channel i is followed by one that closes it.
ClosesAfter(i, k) == \E l \in DOMAIN m_ptQueue : l > k /\ m_ptQueue[l] = Destroy(i)

\* Channel i is closed, or will be: whatever opens it is not the last word.
Closing(i) ==
  /\ \A k \in DOMAIN m_ptQueue : m_ptQueue[k] = Create(i) => ClosesAfter(i, k)
  /\ tCmpPkt = Create(i) => ClosesAfter(i, 0)
  /\ Open(i) => tCmpPkt = Destroy(i) \/ ClosesAfter(i, 0)

\* While a recording is played the page is the one of the recordings, so that
\* the camera on display does not change, and all others are closing.
OthersClosing ==
  m_iRecordPlayFlag = 1 =>
    page = "record" /\ \A i \in CameraNos \ {videoPlayNo} : Closing(i)

\* monitorThread holds a command only while it waits for its slot, and sends
\* a second signal for the flag only after it has seen it change again.
MonitorState ==
  /\ monPc # "option" => tCmpPkt = Ignored
  /\ recordPlayCtrl = 2 => monPc = "old" \/ m_iOldRecordPlayFlag = m_iRecordPlayFlag

\* The inductive invariant of the channels.
ChannelsInv == VideoTypeOK /\ MonitorState /\ OthersClosing

\* Commands that differ are told apart.
LEMMA CommandsDiffer ==
  ASSUME NEW i \in CameraNos, NEW j \in CameraNos
  PROVE  /\ Create(i) # Destroy(j) /\ Ignored # Create(i) /\ Ignored # Destroy(i)
         /\ (Create(i) = Create(j) => i = j) /\ (Destroy(i) = Destroy(j) => i = j)
         /\ Create(i) \in Commands /\ Destroy(i) \in Commands /\ Ignored \in Commands
BY DEF Create, Destroy, Ignored, Commands, CameraNos, None

\* One command for each camera.
LEMMA ForEachType ==
  ASSUME N \in Nat
  PROVE  /\ ForEach(Destroy) \in Seq(Commands)
         /\ Len(ForEach(Destroy)) = N
         /\ \A i \in CameraNos : i + 1 \in 1..N /\ ForEach(Destroy)[i + 1] = Destroy(i)
         /\ \A k \in 1..N : \A i \in CameraNos : ForEach(Destroy)[k] # Create(i)
         /\ ForEach(Create) \in Seq(Commands)
         /\ IgnoredAll \in Seq({Ignored})
<1>0. \A k \in 1..N : k - 1 \in CameraNos
  BY DEF CameraNos
<1>1. ForEach(Destroy) = [k \in 1..N |-> Destroy(k - 1)]
  BY DEF ForEach
<1>2. ForEach(Create) = [k \in 1..N |-> Create(k - 1)]
  BY DEF ForEach
<1>3. IgnoredAll = [k \in 1..N |-> Ignored]
  BY DEF IgnoredAll, ForEach
<1>4. \A k \in 1..N : Destroy(k - 1) \in Commands /\ Create(k - 1) \in Commands
  BY <1>0, CommandsDiffer, Zenon
<1>5. ForEach(Destroy) \in [1..N -> Commands] /\ ForEach(Create) \in [1..N -> Commands]
  BY <1>1, <1>2, <1>4, Zenon
<1>6. IgnoredAll \in [1..N -> {Ignored}]
  BY <1>3, Zenon
<1>7. /\ ForEach(Destroy) \in Seq(Commands) /\ ForEach(Create) \in Seq(Commands)
      /\ IgnoredAll \in Seq({Ignored})
  BY <1>5, <1>6
<1>8. Len(ForEach(Destroy)) = N
  BY <1>5, <1>7
<1>9. ASSUME NEW i \in CameraNos PROVE i + 1 \in 1..N /\ ForEach(Destroy)[i + 1] = Destroy(i)
  <2>1. i + 1 \in 1..N /\ (i + 1) - 1 = i
    BY DEF CameraNos
  <2> QED
    BY <2>1, <1>1, Zenon
<1>10. ASSUME NEW k \in 1..N, NEW i \in CameraNos PROVE ForEach(Destroy)[k] # Create(i)
  <2>1. ForEach(Destroy)[k] = Destroy(k - 1) /\ k - 1 \in CameraNos
    BY <1>0, <1>1, Zenon
  <2> QED
    BY <2>1, CommandsDiffer, Zenon
<1> QED
  BY <1>7, <1>8, <1>9, <1>10, Zenon

\* One command, or none.
LEMMA ShortType ==
  ASSUME NEW X
  PROVE  <<>> \in Seq(X) /\ \A x \in X : <<x>> \in Seq(X)
OBVIOUS

\* While a recording is played videoChannelCtrl opens no camera but the one
\* on display.
LEMMA ChannelCommandType ==
  ASSUME N \in Nat, VideoTypeOK, NEW i \in CameraNos
  PROVE  /\ ChannelCommand(i) \in Seq(Commands)
         /\ m_iRecordPlayFlag = 1 =>
              ChannelCommand(i) \in Seq(Commands \ {Create(j) : j \in CameraNos \ {videoPlayNo}})
<1> DEFINE X == Commands \ {Create(j) : j \in CameraNos \ {videoPlayNo}}
<1>0. Create(i) \in Commands /\ Destroy(i) \in Commands /\ Ignored \in Commands
  BY CommandsDiffer
<1>1. m_iRecordPlayFlag = 1 \/ m_iRecordPlayFlag = 0
  BY DEF VideoTypeOK
<1>2. CASE m_iRecordPlayFlag = 1
  <2>0. Ignored \in X /\ Destroy(i) \in X /\ (i = videoPlayNo => Create(i) \in X)
    BY <1>0, CommandsDiffer, Zenon
  <2>1. \/ ChannelCommand(i) = <<Ignored>> \/ ChannelCommand(i) = <<Destroy(i)>>
        \/ ChannelCommand(i) = <<>> \/ (i = videoPlayNo /\ ChannelCommand(i) = <<Create(i)>>)
    <3>1. CASE i = videoPlayNo
      BY <1>2, <3>1 DEF ChannelCommand
    <3>2. CASE i # videoPlayNo /\ Open(i)
      BY <1>2, <3>2 DEF ChannelCommand
    <3>3. CASE i # videoPlayNo /\ ~Open(i)
      BY <1>2, <3>3 DEF ChannelCommand
    <3> QED
      BY <3>1, <3>2, <3>3, Zenon
  <2> HIDE DEF X
  <2>2. ChannelCommand(i) \in Seq(X)
    BY <2>0, <2>1, ShortType, Zenon
  <2>3. X \subseteq Commands
    BY DEF X
  <2>4. ChannelCommand(i) \in Seq(Commands)
    BY <2>2, <2>3
  <2> QED
    BY <2>2, <2>4 DEF X
<1>3. CASE m_iRecordPlayFlag = 0
  <2>1. ChannelCommand(i) \in {<<Create(i)>>, <<Destroy(i)>>, <<>>}
    BY <1>3 DEF ChannelCommand
  <2>2. ChannelCommand(i) \in Seq(Commands)
    BY <1>0, <2>1, ShortType, Zenon
  <2>3. m_iRecordPlayFlag # 1
    BY <1>3
  <2> QED
    BY <2>2, <2>3, Zenon
<1> QED
  BY <1>1, <1>2, <1>3

\* What videoChannelCtrl puts into the queue.
LEMMA VideoChannelCtrlType ==
  ASSUME N \in Nat, VideoTypeOK, VideoChannelCtrl
  PROVE  \E s \in Seq(Commands) :
           /\ m_ptQueue' = m_ptQueue \o s
           /\ m_iRecordPlayFlag = 1 =>
                \A i \in CameraNos \ {videoPlayNo} : \A k \in 1..Len(s) : s[k] # Create(i)
<1> DEFINE X == Commands \ {Create(j) : j \in CameraNos \ {videoPlayNo}}
           ss == ForEach(ChannelCommand)
           s == FlattenSeq(ss)
<1>1. ss = [k \in 1..N |-> ChannelCommand(k - 1)]
  BY DEF ForEach
<1>2. \A k \in 1..N : k - 1 \in CameraNos
  BY DEF CameraNos
<1>3. m_ptQueue' = m_ptQueue \o s
  BY DEF VideoChannelCtrl, Queue
<1>4. s \in Seq(Commands)
  <2>1. ss \in [1..N -> Seq(Commands)]
    BY <1>1, <1>2, ChannelCommandType, Zenon
  <2> HIDE DEF ss
  <2>2. ss \in Seq(Seq(Commands))
    BY <2>1
  <2> QED
    BY <2>2, FlattenType
<1>5. ASSUME m_iRecordPlayFlag = 1 PROVE s \in Seq(X)
  <2>1. ss \in [1..N -> Seq(X)]
    BY <1>1, <1>2, <1>5, ChannelCommandType, Zenon
  <2> HIDE DEF ss, X
  <2>2. ss \in Seq(Seq(X))
    BY <2>1
  <2> QED
    BY <2>2, FlattenType
<1> HIDE DEF s, ss
<1>6. ASSUME m_iRecordPlayFlag = 1, NEW i \in CameraNos \ {videoPlayNo}, NEW k \in 1..Len(s)
      PROVE  s[k] # Create(i)
  <2>1. s[k] \in X
    <3> HIDE DEF X
    <3> QED
      BY <1>5, <1>6
  <2> QED
    BY <2>1, Zenon
<1> QED
  BY <1>3, <1>4, <1>6, Zenon

\* Commands put behind the others that open nothing leave a channel closing.
LEMMA AppendCloses ==
  ASSUME NEW i \in CameraNos, NEW s \in Seq(Commands), m_ptQueue \in Seq(Commands), Closing(i),
         m_ptQueue' = m_ptQueue \o s, \A k \in 1..Len(s) : s[k] # Create(i),
         UNCHANGED <<tCmpPkt, iCmpOpenFlag>>
  PROVE  Closing(i)'
<1> DEFINE q == m_ptQueue
           n == Len(m_ptQueue)
<1>1. n \in Nat /\ DOMAIN q = 1..n /\ DOMAIN q' = 1..n + Len(s) /\ Len(s) \in Nat
  OBVIOUS
<1>2. \A k \in 1..n : q'[k] = q[k] /\ k \in DOMAIN q'
  OBVIOUS
<1>3. \A k \in DOMAIN q' : k \notin 1..n => q'[k] = s[k - n] /\ k - n \in 1..Len(s)
  OBVIOUS
<1>4. ASSUME NEW k, ClosesAfter(i, k) PROVE ClosesAfter(i, k)'
  BY <1>1, <1>2, <1>4, Zenon DEF ClosesAfter, Destroy
<1>5. ASSUME NEW k \in DOMAIN q', q'[k] = Create(i) PROVE ClosesAfter(i, k)'
  <2>1. k \in 1..n
    BY <1>3, <1>5, Zenon
  <2> QED
    BY <2>1, <1>1, <1>2, <1>4, <1>5, Zenon DEF Closing
<1>6. /\ tCmpPkt' = tCmpPkt /\ (Open(i)' <=> Open(i)) /\ Create(i)' = Create(i)
      /\ Destroy(i)' = Destroy(i)
  BY DEF Open, Create, Destroy
<1>7. tCmpPkt' = Create(i) => ClosesAfter(i, 0)'
  BY <1>4, <1>6, Zenon DEF Closing
<1>8. Open(i)' => tCmpPkt' = Destroy(i) \/ ClosesAfter(i, 0)'
  BY <1>4, <1>6, Zenon DEF Closing
<1> QED
  BY <1>5, <1>6, <1>7, <1>8, Zenon DEF Closing

\* The invariant holds at the start.
LEMMA ChannelsInitInv ==
  ASSUME N \in Nat \ {0}, VideoInit
  PROVE  ChannelsInv
<1>0. 0 \in CameraNos
  BY DEF CameraNos
<1>1. m_ptQueue \in Seq(Commands)
  <2>1. IgnoredAll \in Seq(Commands)
    <3>1. {Ignored} \subseteq Commands
      BY DEF Commands
    <3> QED
      BY <3>1, ForEachType
  <2>2. ForEach(Create) \in Seq(Commands)
    BY ForEachType
  <2> QED
    BY <2>1, <2>2 DEF VideoInit
<1>2. VideoTypeOK
  <2>1. tCmpPkt \in Commands
    BY DEF VideoInit, Commands
  <2> QED
    BY <1>0, <1>1, <2>1 DEF VideoInit, VideoTypeOK
<1>3. MonitorState /\ OthersClosing
  BY DEF VideoInit, MonitorState, OthersClosing
<1> QED
  BY <1>2, <1>3 DEF ChannelsInv

\* Every step keeps the types and the state of monitorThread.
LEMMA ChannelsTypeStep ==
  ASSUME N \in Nat \ {0}, ChannelsInv, [VideoNext]_videoVars
  PROVE  VideoTypeOK' /\ MonitorState'
<1> USE DEF ChannelsInv
<1>0. /\ m_ptQueue \in Seq(Commands) /\ tCmpPkt \in Commands /\ Ignored \in Commands
      /\ videoPlayNo \in CameraNos /\ recordPlayCtrl \in 0..2
  BY DEF VideoTypeOK, Commands
<1>1. CASE GetNodeFromCmpQueue
  <2>1. m_ptQueue' \in Seq(Commands) /\ tCmpPkt' \in Commands
    <3>1. CASE m_ptQueue # <<>>
      <4>1. Head(m_ptQueue) \in Commands /\ Tail(m_ptQueue) \in Seq(Commands)
        BY <1>0, <3>1
      <4> QED
        BY <4>1, <1>1, <3>1 DEF GetNodeFromCmpQueue
    <3>2. CASE m_ptQueue = <<>>
      BY <1>0, <1>1, <3>2 DEF GetNodeFromCmpQueue
    <3> QED
      BY <3>1, <3>2
  <2> QED
    BY <1>0, <1>1, <2>1 DEF GetNodeFromCmpQueue, VideoTypeOK, MonitorState, channels, flags
<1>2. CASE \E i \in CameraNos : SwitchTo(i)
  BY <1>2 DEF SwitchTo, VideoTypeOK, MonitorState, channels, flags
<1>3. CASE NoSwitch
  BY <1>3 DEF NoSwitch, VideoTypeOK, MonitorState, channels, flags
<1>4. CASE CheckRecordPlayFlag
  <2>1. recordPlayCtrl' \in 0..2
    BY <1>0, <1>4 DEF CheckRecordPlayFlag, MonitorState
  <2> QED
    BY <1>4, <2>1 DEF CheckRecordPlayFlag, VideoTypeOK, MonitorState, channels, flags
<1>5. CASE SaveRecordPlayFlag
  BY <1>5 DEF SaveRecordPlayFlag, VideoTypeOK, MonitorState, channels
<1>6. CASE CmpOptionCtrlSlot
  <2>1. iCmpOpenFlag' \in [CameraNos -> {0, 1}] /\ player' \in CameraNos \cup {None}
    <3>0. iCmpOpenFlag \in [CameraNos -> {0, 1}] /\ player \in CameraNos \cup {None}
      BY DEF VideoTypeOK
    <3>1. tCmpPkt.cmd = "CREATE" => tCmpPkt.ch \in CameraNos
      BY <1>0 DEF Commands, Ignored
    <3>2. CASE tCmpPkt.cmd = "CREATE"
      BY <1>6, <3>0, <3>1, <3>2 DEF CmpOptionCtrlSlot
    <3>3. CASE tCmpPkt.cmd = "DESTROY"
      BY <1>6, <3>0, <3>3 DEF CmpOptionCtrlSlot
    <3>4. CASE tCmpPkt.cmd \notin {"CREATE", "DESTROY"}
      BY <1>6, <3>0, <3>4 DEF CmpOptionCtrlSlot, channels
    <3> QED
      BY <3>2, <3>3, <3>4
  <2> QED
    BY <1>0, <1>6, <2>1 DEF CmpOptionCtrlSlot, VideoTypeOK, MonitorState, flags
<1>7. CASE VideoPollingSignalCtrlSlot
  <2>1. m_ptQueue' \in Seq(Commands)
    <3>1. VideoChannelCtrl
      BY <1>7, Zenon DEF VideoPollingSignalCtrlSlot
    <3>2. PICK s \in Seq(Commands) : m_ptQueue' = m_ptQueue \o s
      BY <3>1, VideoChannelCtrlType, Zenon
    <3> QED
      BY <1>0, <3>2
  <2> QED
    BY <1>7, <2>1 DEF VideoPollingSignalCtrlSlot, VideoTypeOK, MonitorState, channels, flags
<1>8. CASE RecordPlayCtrlSlot
  <2>1. m_ptQueue' \in Seq(Commands)
    <3>1. VideoChannelCtrl
      BY <1>8, Zenon DEF RecordPlayCtrlSlot
    <3>2. PICK s \in Seq(Commands) : m_ptQueue' = m_ptQueue \o s
      BY <3>1, VideoChannelCtrlType, Zenon
    <3> QED
      BY <1>0, <3>2
  <2> QED
    BY <1>0, <1>8, <2>1 DEF RecordPlayCtrlSlot, VideoTypeOK, MonitorState, channels, flags
<1>9. CASE \E f \in {0, 1} : SetRecordPlayFlag(f) /\ page = "record"
  <2>1. m_ptQueue' \in Seq(Commands)
    <3>1. m_ptQueue' = m_ptQueue \/ m_ptQueue' = m_ptQueue \o ForEach(Destroy)
      BY <1>9 DEF SetRecordPlayFlag, CloseAll, Queue
    <3>2. ForEach(Destroy) \in Seq(Commands)
      BY ForEachType
    <3>3. m_ptQueue' = m_ptQueue \/ \E s \in Seq(Commands) : m_ptQueue' = m_ptQueue \o s
      BY <3>1, <3>2, Zenon
    <3>4. CASE m_ptQueue' = m_ptQueue
      BY <1>0, <3>4
    <3>5. CASE \E s \in Seq(Commands) : m_ptQueue' = m_ptQueue \o s
      <4>1. PICK s \in Seq(Commands) : m_ptQueue' = m_ptQueue \o s
        BY <3>5
      <4> QED
        BY <1>0, <4>1
    <3> QED
      BY <3>3, <3>4, <3>5
  <2> QED
    BY <1>0, <1>9, <2>1 DEF SetRecordPlayFlag, Input, VideoTypeOK, MonitorState, channels
<1>10. CASE \E p \in {"monitor", "record", "other"} : MenuButtonClick(p)
  <2>1. m_ptQueue' \in Seq(Commands)
    <3>1. IgnoredAll \in Seq(Commands)
      <4>1. {Ignored} \subseteq Commands
        BY DEF Commands
      <4> QED
        BY <4>1, ForEachType
    <3> QED
      BY <1>0, <1>10, <3>1 DEF MenuButtonClick, Queue
  <2> QED
    BY <1>0, <1>10, <2>1 DEF MenuButtonClick, Input, VideoTypeOK, MonitorState, channels
<1>11. CASE UNCHANGED videoVars
  BY <1>11 DEF videoVars, VideoTypeOK, MonitorState, channels, flags
<1>12. \A i \in CameraNos : Next1(i) \in CameraNos /\ Last1(i) \in CameraNos
  BY DEF CameraNos, Next1, Last1
<1>13. TimedPoll \/ ManualSwitch => \E i \in CameraNos : SwitchTo(i)
  BY <1>0, <1>12, Zenon DEF TimedPoll, ManualSwitch
<1>14. PlayRecord \/ StopRecord => \E f \in {0, 1} : SetRecordPlayFlag(f) /\ page = "record"
  BY Zenon DEF PlayRecord, StopRecord
<1> QED
  BY <1>1, <1>2, <1>3, <1>4, <1>5, <1>6, <1>7, <1>8, <1>9, <1>10, <1>11, <1>13, <1>14, Zenon
  DEF VideoNext, Monitor, Slot, VideoOperator

\* Commands put behind the others that open no camera but the one on display
\* leave the others closing.
LEMMA OthersAppend ==
  ASSUME VideoTypeOK, OthersClosing, NEW s \in Seq(Commands), m_ptQueue' = m_ptQueue \o s,
         m_iRecordPlayFlag = 1 =>
           \A i \in CameraNos \ {videoPlayNo} : \A k \in 1..Len(s) : s[k] # Create(i),
         UNCHANGED <<tCmpPkt, iCmpOpenFlag, videoPlayNo, m_iRecordPlayFlag, page>>
  PROVE  OthersClosing'
<1> SUFFICES ASSUME m_iRecordPlayFlag = 1, NEW i \in CameraNos \ {videoPlayNo}
             PROVE  Closing(i)'
  BY Zenon DEF OthersClosing, CameraNos
<1>1. Closing(i)
  BY DEF OthersClosing
<1>2. m_ptQueue \in Seq(Commands) /\ UNCHANGED <<tCmpPkt, iCmpOpenFlag>>
  BY DEF VideoTypeOK
<1>3. \A k \in 1..Len(s) : s[k] # Create(i)
  OBVIOUS
<1> QED
  BY <1>1, <1>2, <1>3, AppendCloses, Zenon

\* Taking a command leaves a channel closing.
LEMMA GetCloses ==
  ASSUME NEW i \in CameraNos, m_ptQueue \in Seq(Commands), m_ptQueue # <<>>, Closing(i),
         tCmpPkt = Ignored, tCmpPkt' = Head(m_ptQueue), m_ptQueue' = Tail(m_ptQueue),
         UNCHANGED iCmpOpenFlag
  PROVE  Closing(i)'
<1> DEFINE q == m_ptQueue
           n == Len(m_ptQueue)
<1>1. /\ n \in Nat \ {0} /\ DOMAIN q = 1..n /\ DOMAIN q' = 1..n - 1
      /\ tCmpPkt' = q[1] /\ \A k \in 1..n - 1 : q'[k] = q[k + 1]
  OBVIOUS
<1>2. ASSUME NEW k \in 1..n, ClosesAfter(i, k) PROVE ClosesAfter(i, k - 1)'
  <2>1. PICK l \in 1..n : l > k /\ q[l] = Destroy(i)
    BY <1>1, <1>2, Zenon DEF ClosesAfter
  <2>2. l - 1 \in 1..n - 1 /\ l - 1 > k - 1 /\ (l - 1) + 1 = l
    BY <1>1, <2>1
  <2>3. q'[l - 1] = Destroy(i)
    BY <1>1, <2>1, <2>2, Zenon
  <2> QED
    BY <1>1, <2>2, <2>3, Zenon DEF ClosesAfter, Destroy
<1>3. Ignored # Destroy(i)
  BY CommandsDiffer
<1>4. 1 \in 1..n /\ 1 - 1 = 0
  BY <1>1
<1>5. ASSUME NEW k \in DOMAIN q', q'[k] = Create(i) PROVE ClosesAfter(i, k)'
  <2>1. k \in 1..n - 1 /\ k + 1 \in 1..n /\ (k + 1) - 1 = k
    BY <1>1
  <2>2. q[k + 1] = Create(i)
    BY <1>1, <1>5, <2>1, Zenon
  <2>3. ClosesAfter(i, k + 1)
    BY <1>1, <2>1, <2>2, Zenon DEF Closing
  <2>4. ClosesAfter(i, (k + 1) - 1)'
    BY <1>2, <2>1, <2>3, Zenon
  <2> QED
    BY <2>1, <2>4
<1>6. ASSUME tCmpPkt' = Create(i) PROVE ClosesAfter(i, 0)'
  <2>1. ClosesAfter(i, 1)
    BY <1>1, <1>4, <1>6, Zenon DEF Closing
  <2>2. ClosesAfter(i, 1 - 1)'
    BY <1>2, <1>4, <2>1, Zenon
  <2> QED
    BY <1>4, <2>2
<1>7. ASSUME Open(i)' PROVE tCmpPkt' = Destroy(i) \/ ClosesAfter(i, 0)'
  <2>1. ClosesAfter(i, 0)
    BY <1>3, <1>7, Zenon DEF Closing, Open
  <2>2. PICK l \in 1..n : q[l] = Destroy(i)
    BY <1>1, <2>1, Zenon DEF ClosesAfter
  <2>3. CASE l = 1
    BY <1>1, <2>2, <2>3
  <2>4. CASE l # 1
    <3>1. ClosesAfter(i, 1)
      <4>1. l > 1 /\ l \in DOMAIN m_ptQueue
        BY <1>1, <2>4
      <4> QED
        BY <4>1, <2>2, Zenon DEF ClosesAfter
    <3>2. ClosesAfter(i, 1 - 1)'
      BY <1>2, <1>4, <3>1, Zenon
    <3> QED
      BY <1>4, <3>2
  <2> QED
    BY <2>3, <2>4
<1>8. Create(i)' = Create(i) /\ Destroy(i)' = Destroy(i)
  BY DEF Create, Destroy
<1> QED
  BY <1>5, <1>6, <1>7, <1>8, Zenon DEF Closing

\* Executing a command leaves a channel closing.
LEMMA OptionCloses ==
  ASSUME NEW i \in CameraNos, VideoTypeOK, Closing(i), CmpOptionCtrlSlot
  PROVE  Closing(i)'
<1>0. /\ tCmpPkt' = Ignored /\ m_ptQueue' = m_ptQueue
      /\ tCmpPkt \in Commands /\ iCmpOpenFlag \in [CameraNos -> {0, 1}]
  BY DEF CmpOptionCtrlSlot, VideoTypeOK
<1>1. /\ Create(i)' = Create(i) /\ Destroy(i)' = Destroy(i) /\ Ignored # Create(i)
      /\ \A k : ClosesAfter(i, k)' <=> ClosesAfter(i, k)
  BY <1>0, CommandsDiffer DEF Create, Destroy, ClosesAfter
<1>2. ASSUME Open(i)' PROVE ClosesAfter(i, 0)
  <2>1. CASE tCmpPkt = Create(i)
    BY <2>1, Zenon DEF Closing
  <2>2. CASE tCmpPkt # Create(i)
    <3>1. Open(i) /\ tCmpPkt # Destroy(i)
      <4>1. CASE tCmpPkt.cmd = "CREATE"
        BY <1>0, <1>2, <2>2, <4>1
        DEF CmpOptionCtrlSlot, Open, Commands, Create, Destroy, Ignored
      <4>2. CASE tCmpPkt.cmd = "DESTROY"
        BY <1>0, <1>2, <2>2, <4>2
        DEF CmpOptionCtrlSlot, Open, Commands, Create, Destroy, Ignored
      <4>3. CASE tCmpPkt.cmd \notin {"CREATE", "DESTROY"}
        BY <1>0, <1>2, <4>3 DEF CmpOptionCtrlSlot, Open, channels, Destroy
      <4> QED
        BY <4>1, <4>2, <4>3
    <3> QED
      BY <3>1, Zenon DEF Closing
  <2> QED
    BY <2>1, <2>2
<1> QED
  BY <1>0, <1>1, <1>2, Zenon DEF Closing

\* setRecordPlayFlag puts a command that closes it behind all others of a
\* channel.
LEMMA PlayCloses ==
  ASSUME N \in Nat, NEW i \in CameraNos, m_ptQueue \in Seq(Commands),
         m_ptQueue' = m_ptQueue \o ForEach(Destroy)
  PROVE  Closing(i)'
<1> DEFINE q == m_ptQueue
           n == Len(m_ptQueue)
           d == ForEach(Destroy)
<1>1. /\ d \in Seq(Commands) /\ Len(d) = N /\ i + 1 \in 1..N /\ d[i + 1] = Destroy(i)
      /\ \A k \in 1..N : d[k] # Create(i)
  BY ForEachType
<1> HIDE DEF d
<1>2. q' = q \o d
  BY DEF d
<1>3. /\ n \in Nat /\ DOMAIN q' = 1..n + N
      /\ \A k \in 1..n + N : k \notin 1..n => q'[k] = d[k - n] /\ k - n \in 1..N
  <2>1. n \in Nat
    OBVIOUS
  <2>2. DOMAIN q' = 1..n + N
    <3>1. q \o d \in Seq(Commands) /\ Len(q \o d) = n + N
      BY <1>1
    <3> QED
      BY <1>2, <3>1
  <2>3. ASSUME NEW k \in 1..n + N, k \notin 1..n PROVE q'[k] = d[k - n] /\ k - n \in 1..N
    BY <1>1, <1>2, <2>1, <2>3
  <2> QED
    BY <2>1, <2>2, <2>3
<1> DEFINE x == n + i + 1
<1>4. /\ x \in 1..n + N /\ x \notin 1..n /\ x - n = i + 1
      /\ x > 0 /\ \A k \in 1..n : x > k
  BY <1>1, <1>3 DEF CameraNos
<1> HIDE DEF x
<1>5. q'[x] = Destroy(i)
  <2>1. q'[x] = d[x - n]
    BY <1>3, <1>4, Zenon
  <2> QED
    BY <1>1, <1>4, <2>1, Zenon
<1>6. ASSUME NEW k \in (1..n) \cup {0} PROVE ClosesAfter(i, k)'
  BY <1>3, <1>4, <1>5, Zenon DEF ClosesAfter, Destroy
<1>7. ASSUME NEW k \in DOMAIN q', q'[k] = Create(i) PROVE ClosesAfter(i, k)'
  <2>1. k \in 1..n
    BY <1>1, <1>3, <1>7, Zenon
  <2> QED
    BY <2>1, <1>6, Zenon
<1>8. Create(i)' = Create(i) /\ ClosesAfter(i, 0)'
  BY <1>6 DEF Create
<1> QED
  BY <1>7, <1>8, Zenon DEF Closing

\* Every step leaves the others closing while a recording is played.
LEMMA OthersStep ==
  ASSUME N \in Nat \ {0}, ChannelsInv, [VideoNext]_videoVars
  PROVE  OthersClosing'
<1>0. VideoTypeOK /\ MonitorState /\ OthersClosing /\ m_ptQueue \in Seq(Commands)
  BY DEF ChannelsInv, VideoTypeOK
<1>a. ASSUME UNCHANGED <<m_ptQueue, tCmpPkt, iCmpOpenFlag, videoPlayNo, m_iRecordPlayFlag, page>>
      PROVE  OthersClosing'
  <2>1. /\ m_ptQueue' = m_ptQueue /\ tCmpPkt' = tCmpPkt /\ iCmpOpenFlag' = iCmpOpenFlag
        /\ videoPlayNo' = videoPlayNo /\ m_iRecordPlayFlag' = m_iRecordPlayFlag
        /\ page' = page
    BY <1>a
  <2>2. ASSUME NEW i \in CameraNos, Closing(i) PROVE Closing(i)'
    BY <2>1, <2>2, Zenon DEF Closing, ClosesAfter, Open, Create, Destroy
  <2> QED
    BY <1>0, <2>1, <2>2, Zenon DEF OthersClosing, CameraNos
<1>b. ASSUME VideoChannelCtrl,
             UNCHANGED <<tCmpPkt, iCmpOpenFlag, videoPlayNo, m_iRecordPlayFlag, page>>
      PROVE  OthersClosing'
  <2>1. PICK s \in Seq(Commands) :
           /\ m_ptQueue' = m_ptQueue \o s
           /\ m_iRecordPlayFlag = 1 =>
                \A i \in CameraNos \ {videoPlayNo} : \A k \in 1..Len(s) : s[k] # Create(i)
    BY <1>0, <1>b, VideoChannelCtrlType
  <2> QED
    BY <1>0, <1>b, <2>1, OthersAppend
<1>1. CASE GetNodeFromCmpQueue
  <2>1. CASE m_ptQueue = <<>>
    BY <1>1, <1>a, <2>1 DEF GetNodeFromCmpQueue, channels, flags
  <2>2. CASE m_ptQueue # <<>>
    <3>1. /\ tCmpPkt' = Head(m_ptQueue) /\ m_ptQueue' = Tail(m_ptQueue) /\ tCmpPkt = Ignored
          /\ UNCHANGED <<iCmpOpenFlag, videoPlayNo, m_iRecordPlayFlag, page>>
      BY <1>0, <1>1, <2>2 DEF GetNodeFromCmpQueue, MonitorState, channels, flags
    <3>2. ASSUME NEW i \in CameraNos, Closing(i) PROVE Closing(i)'
      BY <1>0, <2>2, <3>1, <3>2, GetCloses
    <3> QED
      BY <1>0, <3>1, <3>2, Zenon DEF OthersClosing, CameraNos
  <2> QED
    BY <2>1, <2>2
<1>2. CASE TimedPoll \/ ManualSwitch
  <2>1. page = "monitor" /\ m_iRecordPlayFlag' = m_iRecordPlayFlag
    BY <1>2 DEF TimedPoll, ManualSwitch, SwitchTo, flags
  <2>2. m_iRecordPlayFlag' # 1
    BY <1>0, <2>1 DEF OthersClosing
  <2> QED
    BY <2>2 DEF OthersClosing
<1>3. CASE NoSwitch \/ CheckRecordPlayFlag \/ SaveRecordPlayFlag
  BY <1>3, <1>a DEF NoSwitch, CheckRecordPlayFlag, SaveRecordPlayFlag, channels, flags
<1>4. CASE CmpOptionCtrlSlot
  <2>1. UNCHANGED <<videoPlayNo, m_iRecordPlayFlag, page>>
    BY <1>4, Zenon DEF CmpOptionCtrlSlot, flags
  <2> QED
    BY <1>0, <1>4, <2>1, OptionCloses, Zenon DEF OthersClosing, CameraNos
<1>5. CASE VideoPollingSignalCtrlSlot \/ RecordPlayCtrlSlot
  BY <1>5, <1>b DEF VideoPollingSignalCtrlSlot, RecordPlayCtrlSlot, channels, flags
<1>6. CASE \E f \in {0, 1} : SetRecordPlayFlag(f) /\ page = "record"
  <2>1. PICK f \in {0, 1} : SetRecordPlayFlag(f) /\ page = "record"
    BY <1>6
  <2>2. m_iRecordPlayFlag' = f /\ page' = "record" /\ videoPlayNo' = videoPlayNo
    BY <2>1 DEF SetRecordPlayFlag
  <2>3. CASE f = 0
    BY <2>2, <2>3 DEF OthersClosing
  <2>4. CASE f = 1
    <3>1. m_ptQueue' = m_ptQueue \o ForEach(Destroy)
      BY <2>1, <2>4, Zenon DEF SetRecordPlayFlag, CloseAll, Queue
    <3>2. ASSUME NEW i \in CameraNos PROVE Closing(i)'
      BY <1>0, <3>1, PlayCloses
    <3> QED
      BY <2>2, <3>2, Zenon DEF OthersClosing, CameraNos
  <2> QED
    BY <2>3, <2>4
<1>7. CASE \E p \in {"monitor", "record", "other"} : MenuButtonClick(p)
  <2>1. PICK p \in {"monitor", "record", "other"} : MenuButtonClick(p)
    BY <1>7
  <2>2. CASE p # "record"
    BY <2>1, <2>2 DEF MenuButtonClick, OthersClosing
  <2>3. CASE p = "record"
    <3>1. /\ m_ptQueue' = m_ptQueue \o IgnoredAll /\ page' = "record"
          /\ UNCHANGED <<tCmpPkt, iCmpOpenFlag, videoPlayNo, m_iRecordPlayFlag>>
      BY <2>1, <2>3, Zenon DEF MenuButtonClick, Queue, channels
    <3>2. IgnoredAll \in Seq({Ignored})
      BY ForEachType
    <3>3. Ignored \in Commands
      BY DEF Commands
    <3>4. IgnoredAll \in Seq(Commands) /\ \A k \in 1..Len(IgnoredAll) : IgnoredAll[k] = Ignored
      BY <3>2, <3>3
    <3>5. ASSUME NEW i \in CameraNos, Closing(i) PROVE Closing(i)'
      <4>1. \A k \in 1..Len(IgnoredAll) : IgnoredAll[k] # Create(i)
        BY <3>4, CommandsDiffer, Zenon
      <4> QED
        BY <1>0, <3>1, <3>4, <3>5, <4>1, AppendCloses
    <3> QED
      BY <1>0, <3>1, <3>5, Zenon DEF OthersClosing, CameraNos
  <2> QED
    BY <2>2, <2>3
<1>8. CASE UNCHANGED videoVars
  BY <1>8, <1>a DEF videoVars, channels, flags
<1> QED
  BY <1>1, <1>2, <1>3, <1>4, <1>5, <1>6, <1>7, <1>8, Zenon
  DEF VideoNext, Monitor, Slot, VideoOperator, PlayRecord, StopRecord

\* The invariant of the channels, for any number of cameras.
THEOREM ChannelsInvariant ==
  ASSUME N \in Nat \ {0}
  PROVE  VideoSpec => []ChannelsInv
<1>1. VideoInit => ChannelsInv
  BY ChannelsInitInv
<1>2. ChannelsInv /\ [VideoNext]_videoVars => ChannelsInv'
  BY ChannelsTypeStep, OthersStep DEF ChannelsInv
<1> QED
  BY <1>1, <1>2, PTL DEF VideoSpec

\* The queue holds commands, and at most two signals for the record-play flag
\* are under way, however pages and playbacks are mixed.
THEOREM ChannelsTypeCorrect ==
  ASSUME N \in Nat \ {0}
  PROVE  VideoSpec => []VideoTypeOK
<1>1. ChannelsInv => VideoTypeOK
  BY DEF ChannelsInv
<1> QED
  BY ChannelsInvariant, <1>1, PTL

\* While a recording is played no channel but the current one stays open, for
\* any number of cameras and whatever was queued before (1251-1259,
\* 1603-1634).
THEOREM PlaybackCorrect ==
  ASSUME N \in Nat \ {0}
  PROVE  VideoSpec => []PlaybackClosesOthers
<1>1. ChannelsInv => PlaybackClosesOthers
  <2> SUFFICES ASSUME ChannelsInv, m_iRecordPlayFlag = 1, NEW i \in CameraNos, Open(i), ~Pending(i),
                      i # videoPlayNo
               PROVE  FALSE
    BY Zenon DEF PlaybackClosesOthers
  <2>1. Closing(i)
    BY Zenon DEF ChannelsInv, OthersClosing
  <2>2. Destroy(i).ch = i
    BY DEF Destroy
  <2>3. tCmpPkt # Destroy(i)
    BY <2>2, Zenon DEF Pending
  <2>4. \A k \in DOMAIN m_ptQueue : m_ptQueue[k] # Destroy(i)
    BY <2>2, Zenon DEF Pending
  <2> QED
    BY <2>1, <2>3, <2>4, Zenon DEF Closing, ClosesAfter
<1> QED
  BY ChannelsInvariant, <1>1, PTL

-----------------------------------------------------------------------------
(* FtpDownload: sums.                                                      *)

\* The sum of f over the subsets of its domain, one element after the other.
Pick(s) == CHOOSE x \in s : TRUE
\* The function that gives each subset its sum.
IsSum(sum, f, S) ==
  sum = [s \in SUBSET S |-> IF s = {} THEN 0 ELSE f[Pick(s)] + sum[s \ {Pick(s)}]]

\* What is picked is in the set, and there is one element less without it.
LEMMA PickOne ==
  ASSUME NEW S, IsFiniteSet(S), NEW s \in SUBSET S, s # {}
  PROVE  /\ Pick(s) \in s /\ s \ {Pick(s)} \in SUBSET S
         /\ Cardinality(s) \in Nat \ {0}
         /\ Cardinality(s \ {Pick(s)}) = Cardinality(s) - 1
<1>1. Pick(s) \in s
  BY Zenon DEF Pick
<1>2. IsFiniteSet(s)
  BY FS_Subset
<1>3. Cardinality(s) \in Nat /\ Cardinality(s) # 0
  BY <1>2, FS_CardinalityType, FS_EmptySet
<1>4. Cardinality(s \ {Pick(s)}) = Cardinality(s) - 1
  BY <1>1, <1>2, FS_RemoveElement
<1> QED
  BY <1>1, <1>3, <1>4

\* Every function with a finite domain has a sum.
LEMMA SumExists ==
  ASSUME NEW S, IsFiniteSet(S), NEW f \in [S -> Nat]
  PROVE  \E sum \in [SUBSET S -> Nat] : IsSum(sum, f, S)
<1> DEFINE Step(sum, s) == IF s = {} THEN 0 ELSE f[Pick(s)] + sum[s \ {Pick(s)}]
           Upto(sum, n) == \A s \in SUBSET S : Cardinality(s) <= n => sum[s] = Step(sum, s)
           T == {n \in Nat : \E sum \in [SUBSET S -> Nat] : Upto(sum, n)}
<1>0. ASSUME NEW s \in SUBSET S, NEW sum \in [SUBSET S -> Nat] PROVE Step(sum, s) \in Nat
  <2>1. CASE s = {}
    BY <2>1
  <2>2. CASE s # {}
    <3>1. Pick(s) \in S /\ s \ {Pick(s)} \in SUBSET S
      BY <2>2, PickOne
    <3>2. f[Pick(s)] \in Nat /\ sum[s \ {Pick(s)}] \in Nat
      BY <3>1, Zenon
    <3> QED
      BY <2>2, <3>2
  <2> QED
    BY <2>1, <2>2
<1>1. 0 \in T
  <2> DEFINE zero == [s \in SUBSET S |-> 0]
  <2>1. zero \in [SUBSET S -> Nat]
    OBVIOUS
  <2>2. ASSUME NEW s \in SUBSET S, Cardinality(s) <= 0 PROVE s = {}
    <3> SUFFICES ASSUME s # {} PROVE FALSE
      OBVIOUS
    <3>1. Cardinality(s) \in Nat \ {0}
      BY PickOne
    <3> QED
      BY <2>2, <3>1
  <2>3. Upto(zero, 0)
    BY <2>2, Zenon
  <2> QED
    BY <2>1, <2>3, Zenon
<1>2. ASSUME NEW n \in Nat, n \in T PROVE n + 1 \in T
  <2>1. PICK sum \in [SUBSET S -> Nat] : Upto(sum, n)
    BY <1>2, Zenon
  <2> DEFINE more == [s \in SUBSET S |-> Step(sum, s)]
  <2>2. more \in [SUBSET S -> Nat]
    BY <1>0, Zenon
  <2>3. ASSUME NEW s \in SUBSET S, Cardinality(s) <= n + 1 PROVE more[s] = Step(more, s)
    <3>0. more[s] = Step(sum, s)
      BY Zenon
    <3>1. CASE s = {}
      BY <3>0, <3>1, Zenon
    <3>2. CASE s # {}
      <4>1. s \ {Pick(s)} \in SUBSET S /\ Cardinality(s \ {Pick(s)}) <= n
        BY <2>3, <3>2, PickOne
      <4>2. sum[s \ {Pick(s)}] = Step(sum, s \ {Pick(s)})
        BY <2>1, <4>1, Zenon
      <4>3. more[s \ {Pick(s)}] = Step(sum, s \ {Pick(s)})
        BY <4>1, Zenon
      <4>4. more[s \ {Pick(s)}] = sum[s \ {Pick(s)}]
        BY <4>2, <4>3, Zenon
      <4> HIDE DEF more
      <4> QED
        BY <3>0, <3>2, <4>4, Zenon
    <3> QED
      BY <3>1, <3>2
  <2>4. Upto(more, n + 1)
    <3> HIDE DEF more, Step
    <3> QED
      BY <2>3, Zenon
  <2>5. n + 1 \in Nat
    OBVIOUS
  <2> HIDE DEF more, Upto
  <2> QED
    BY <2>2, <2>4, <2>5, Zenon
<1>3. Nat \subseteq T
  <2> HIDE DEF T
  <2> QED
    BY <1>1, <1>2, SetInduction
<1>4. Cardinality(S) \in Nat
  BY FS_CardinalityType
<1>5. PICK sum \in [SUBSET S -> Nat] : Upto(sum, Cardinality(S))
  <2> HIDE DEF Upto
  <2> QED
    BY <1>3, <1>4, Zenon
<1>6. \A s \in SUBSET S : Cardinality(s) <= Cardinality(S)
  BY FS_Subset
<1>7. \A s \in SUBSET S : sum[s] = Step(sum, s)
  BY <1>5, <1>6, Zenon
<1>8. sum = [s \in SUBSET S |-> Step(sum, s)]
  <2>1. sum = [s \in SUBSET S |-> sum[s]]
    BY <1>5, Zenon
  <2> HIDE DEF Step
  <2> QED
    BY <1>7, <2>1, Zenon
<1> QED
  BY <1>5, <1>8, Zenon DEF IsSum

\* A sum has a value for each subset.
LEMMA SumStep ==
  ASSUME NEW S, IsFiniteSet(S), NEW f, NEW sum, IsSum(sum, f, S), NEW s \in SUBSET S
  PROVE  sum[s] = IF s = {} THEN 0 ELSE f[Pick(s)] + sum[s \ {Pick(s)}]
BY Zenon DEF IsSum

\* SumFunction is the sum over the whole domain.
LEMMA SumFunctionIs ==
  ASSUME NEW S, IsFiniteSet(S), NEW f \in [S -> Nat]
  PROVE  \E sum : IsSum(sum, f, S) /\ SumFunction(f) = sum[S]
<1>1. \E sum : IsSum(sum, f, S)
  BY SumExists
<1> DEFINE c == CHOOSE sum : IsSum(sum, f, S)
<1>2. IsSum(c, f, S)
  BY <1>1, Zenon
<1>3. DOMAIN f = S
  OBVIOUS
<1>4. SumFunction(f) = c[S]
  BY <1>3, Zenon DEF SumFunction, SumFunctionOnSet, FoldFunctionOnSet, MapThenFoldSet, IsSum, Pick
<1> QED
  BY <1>2, <1>4, Zenon

\* Summands of at most m add up to at most m for each, and to so much only
\* when each is m.
LEMMA SumBounded ==
  ASSUME NEW S, IsFiniteSet(S), NEW m \in Nat, NEW f \in [S -> 0..m], NEW sum, IsSum(sum, f, S),
         NEW s \in SUBSET S
  PROVE  /\ sum[s] \in Nat /\ sum[s] <= m * Cardinality(s)
         /\ sum[s] = m * Cardinality(s) => \A x \in s : f[x] = m
<1> DEFINE Bounded(r) == /\ sum[r] \in Nat /\ sum[r] <= m * Cardinality(r)
                         /\ sum[r] = m * Cardinality(r) => \A x \in r : f[x] = m
           T == {n \in Nat : \A r \in SUBSET S : Cardinality(r) = n => Bounded(r)}
<1>0. ASSUME NEW r \in SUBSET S PROVE IsFiniteSet(r) /\ Cardinality(r) \in Nat
  BY FS_Subset, FS_CardinalityType
<1>1. 0 \in T
  <2> SUFFICES ASSUME NEW r \in SUBSET S, Cardinality(r) = 0 PROVE Bounded(r)
    BY Zenon
  <2>1. r = {}
    BY <1>0, FS_EmptySet
  <2>2. sum[r] = 0
    BY <2>1, SumStep
  <2> QED
    BY <2>1, <2>2
<1>2. ASSUME NEW n \in Nat, n \in T PROVE n + 1 \in T
  <2>0. n + 1 \in Nat /\ n + 1 # 0
    OBVIOUS
  <2> SUFFICES ASSUME NEW r \in SUBSET S, Cardinality(r) = n + 1 PROVE Bounded(r)
    BY <2>0, Zenon
  <2> DEFINE p == Pick(r)
             q == r \ {Pick(r)}
  <2>1. r # {}
    BY <2>0, FS_EmptySet
  <2>2. p \in r /\ q \in SUBSET S /\ Cardinality(q) = n
    BY <2>1, PickOne
  <2>3. Bounded(q)
    BY <1>2, <2>2, Zenon
  <2>4. sum[r] = f[p] + sum[q]
    <3>1. sum[r] = IF r = {} THEN 0 ELSE f[Pick(r)] + sum[r \ {Pick(r)}]
      BY SumStep
    <3> QED
      BY <2>1, <3>1, Zenon
  <2>5. f[p] \in 0..m
    BY <2>2
  <2>6. m * (n + 1) = m * n + m
    OBVIOUS
  <2>7. \A x \in r : x = p \/ x \in q
    OBVIOUS
  <2> HIDE DEF p, q
  <2>8. m * n \in Nat
    OBVIOUS
  <2>9. sum[r] \in Nat /\ sum[r] <= m * (n + 1)
    BY <2>2, <2>3, <2>4, <2>5, <2>6, <2>8
  <2>10. ASSUME sum[r] = m * (n + 1) PROVE f[p] = m /\ sum[q] = m * n
    BY <2>2, <2>3, <2>4, <2>5, <2>6, <2>8, <2>10
  <2>11. ASSUME sum[r] = m * Cardinality(r) PROVE \A x \in r : f[x] = m
    <3>1. f[p] = m /\ \A x \in q : f[x] = m
      BY <2>2, <2>3, <2>10, <2>11, Zenon
    <3> QED
      BY <2>7, <3>1, Zenon
  <2> QED
    BY <2>9, <2>11
<1>3. Nat \subseteq T
  <2> HIDE DEF T
  <2> QED
    BY <1>1, <1>2, SetInduction
<1> HIDE DEF Bounded
<1>4. Bounded(s)
  BY <1>0, <1>3, Zenon
<1> QED
  BY <1>4, Zenon DEF Bounded

\* Every summand is at most the sum.
LEMMA SumAtLeast ==
  ASSUME NEW S, IsFiniteSet(S), NEW f \in [S -> Nat], NEW sum, IsSum(sum, f, S), NEW s \in SUBSET S
  PROVE  sum[s] \in Nat /\ \A x \in s : f[x] <= sum[s]
<1> DEFINE Covers(r) == sum[r] \in Nat /\ \A x \in r : f[x] <= sum[r]
           T == {n \in Nat : \A r \in SUBSET S : Cardinality(r) = n => Covers(r)}
<1>0. ASSUME NEW r \in SUBSET S PROVE IsFiniteSet(r) /\ Cardinality(r) \in Nat
  BY FS_Subset, FS_CardinalityType
<1>1. 0 \in T
  <2> SUFFICES ASSUME NEW r \in SUBSET S, Cardinality(r) = 0 PROVE Covers(r)
    BY Zenon
  <2>1. r = {}
    BY <1>0, FS_EmptySet
  <2>2. sum[r] = 0
    BY <2>1, SumStep
  <2> QED
    BY <2>1, <2>2
<1>2. ASSUME NEW n \in Nat, n \in T PROVE n + 1 \in T
  <2>0. n + 1 \in Nat /\ n + 1 # 0
    OBVIOUS
  <2> SUFFICES ASSUME NEW r \in SUBSET S, Cardinality(r) = n + 1 PROVE Covers(r)
    BY <2>0, Zenon
  <2> DEFINE p == Pick(r)
             q == r \ {Pick(r)}
  <2>1. r # {}
    BY <2>0, FS_EmptySet
  <2>2. p \in r /\ q \in SUBSET S /\ Cardinality(q) = n
    BY <2>1, PickOne
  <2>3. Covers(q)
    BY <1>2, <2>2, Zenon
  <2>4. sum[r] = f[p] + sum[q]
    <3>1. sum[r] = IF r = {} THEN 0 ELSE f[Pick(r)] + sum[r \ {Pick(r)}]
      BY SumStep
    <3> QED
      BY <2>1, <3>1, Zenon
  <2>5. f[p] \in Nat /\ \A x \in q : f[x] \in Nat
    BY <2>2
  <2>6. \A x \in r : x = p \/ x \in q
    OBVIOUS
  <2> HIDE DEF p, q
  <2> QED
    BY <2>3, <2>4, <2>5, <2>6
<1>3. Nat \subseteq T
  <2> HIDE DEF T
  <2> QED
    BY <1>1, <1>2, SetInduction
<1> HIDE DEF Covers
<1>4. Covers(s)
  BY <1>0, <1>3, Zenon
<1> QED
  BY <1>4, Zenon DEF Covers

\* One more in one place is one more in the sum.
LEMMA SumOneMore ==
  ASSUME NEW S, IsFiniteSet(S), NEW f \in [S -> Nat], NEW x \in S, NEW g,
         \A y \in S : g[y] = IF y = x THEN f[y] + 1 ELSE f[y],
         NEW sum, IsSum(sum, f, S), NEW more, IsSum(more, g, S), NEW s \in SUBSET S
  PROVE  more[s] = IF x \in s THEN sum[s] + 1 ELSE sum[s]
<1> DEFINE Follows(r) == /\ sum[r] \in Nat
                         /\ more[r] = IF x \in r THEN sum[r] + 1 ELSE sum[r]
           T == {n \in Nat : \A r \in SUBSET S : Cardinality(r) = n => Follows(r)}
<1>0. ASSUME NEW r \in SUBSET S PROVE IsFiniteSet(r) /\ Cardinality(r) \in Nat
  BY FS_Subset, FS_CardinalityType
<1>1. 0 \in T
  <2> SUFFICES ASSUME NEW r \in SUBSET S, Cardinality(r) = 0 PROVE Follows(r)
    BY Zenon
  <2>1. r = {}
    BY <1>0, FS_EmptySet
  <2>2. sum[r] = 0 /\ more[r] = 0
    BY <2>1, SumStep
  <2> QED
    BY <2>1, <2>2
<1>2. ASSUME NEW n \in Nat, n \in T PROVE n + 1 \in T
  <2>0. n + 1 \in Nat /\ n + 1 # 0
    OBVIOUS
  <2> SUFFICES ASSUME NEW r \in SUBSET S, Cardinality(r) = n + 1 PROVE Follows(r)
    BY <2>0, Zenon
  <2> DEFINE p == Pick(r)
             q == r \ {Pick(r)}
  <2>1. r # {}
    BY <2>0, FS_EmptySet
  <2>2. p \in r /\ q \in SUBSET S /\ Cardinality(q) = n
    BY <2>1, PickOne
  <2>3. Follows(q)
    BY <1>2, <2>2, Zenon
  <2>4. sum[r] = f[p] + sum[q] /\ more[r] = g[p] + more[q]
    <3>1. sum[r] = IF r = {} THEN 0 ELSE f[Pick(r)] + sum[r \ {Pick(r)}]
      BY Zenon DEF IsSum
    <3>2. more[r] = IF r = {} THEN 0 ELSE g[Pick(r)] + more[r \ {Pick(r)}]
      BY Zenon DEF IsSum
    <3> QED
      BY <2>1, <3>1, <3>2, Zenon
  <2>5. f[p] \in Nat /\ g[p] = IF p = x THEN f[p] + 1 ELSE f[p]
    BY <2>2
  <2>6. x \in q <=> x \in r /\ x # p
    OBVIOUS
  <2> HIDE DEF p, q
  <2>7. CASE x = p
    <3>1. x \in r /\ x \notin q
      BY <2>2, <2>6, <2>7, Zenon
    <3> QED
      BY <2>3, <2>4, <2>5, <2>7, <3>1
  <2>8. CASE x # p
    <3>1. x \in r <=> x \in q
      BY <2>6, <2>8, Zenon
    <3> QED
      BY <2>3, <2>4, <2>5, <2>8, <3>1
  <2> QED
    BY <2>7, <2>8
<1>3. Nat \subseteq T
  <2> HIDE DEF T
  <2> QED
    BY <1>1, <1>2, SetInduction
<1> HIDE DEF Follows
<1>4. Follows(s)
  BY <1>0, <1>3, Zenon
<1> QED
  BY <1>4, Zenon DEF Follows

\* The whole is a hundred per cent, and nothing less is.
LEMMA Percent ==
  ASSUME NEW got \in Nat, NEW total \in Nat \ {0}, got <= total
  PROVE  /\ (got * 100) \div total \in 0..100
         /\ (got * 100) \div total = 100 <=> got = total
<1> DEFINE p == (got * 100) \div total
<1>1. p \in Nat /\ total * p <= got * 100 /\ got * 100 < total * (p + 1)
  OBVIOUS
<1> HIDE DEF p
<1>2. p <= 100
  BY <1>1
<1>3. p = 100 => got = total
  BY <1>1
<1>4. got = total => p = 100
  BY <1>1
<1> QED
  BY <1>1, <1>2, <1>3, <1>4 DEF p

-----------------------------------------------------------------------------
(* FtpDownload.                                                            *)

\* A thread that has not ended.
Moving(d) == ftpPc[d] \in {"top", "setup", "recv", "close"}
\* No other download has been begun.
Only(d) == \A e \in Downloads \ {d} : ftpPc[e] = "none"
\* The last signal under way hides the bar, or it is hidden.
Hides(d) == IF events = <<>> THEN ~shown ELSE events[Len(events)] = Bar(d, 0)

\* The server gave the size of every file and has sent no more of any.
Known(d) == sized[d] = Files(d) /\ \A f \in Files(d) : received[d][f] <= Size
\* Of every file as much was written as it has.
Full(d) == \A f \in Files(d) : stored[d][f] = Size

\* A file in transfer is one of those queued.
NextPlanned ==
  \A d \in Downloads : ftpPc[d] \in {"setup", "recv", "close"} => next[d] <= plan[d]

\* No more is written of a file than came of it, and nothing of the files that
\* are still queued.
StoredCame ==
  \A d \in Downloads : \A f \in Files(d) :
    /\ received[d][f] <= Size => stored[d][f] <= received[d][f]
    /\ f > next[d] => stored[d][f] = 0

\* 100 is the value of a download only when every file is written, and announced
\* only when every file is closed as well; a download that has not begun has
\* neither.
HundredFull ==
  \A d \in Downloads :
    /\ ftpPc[d] = "none" => iPos[d] # 100 /\ ~Announced(d)
    /\ Known(d) /\ iPos[d] = 100 => Full(d)
    /\ Known(d) /\ Announced(d) => Full(d) /\ plan[d] < next[d]

\* The only download is the current connection until it has been joined, so
\* that none of its signals is dropped; what it has to say of its end is said,
\* or will be when the last file is closed.
OnlyOne ==
  \A d \in Downloads :
    Only(d) => /\ ftpPc[d] = "none" => events = <<>> /\ ~shown
               /\ Moving(d) => handle = d
               /\ Total(d) > 0 /\ Got(stored[d]) = Total(d)
                    => Hides(d) \/ (ftpPc[d] = "close" /\ iPos[d] = 100)

\* The inductive invariant of the downloads.
FtpInv == FtpTypeOK /\ NextPlanned /\ StoredCame /\ HundredFull /\ OnlyOne

\* What the types say of one download.
LEMMA DownloadType ==
  ASSUME FtpTypeOK, NEW d \in Downloads
  PROVE  /\ d \in Nat \ {0} /\ plan[d] \in Nat /\ Files(d) = 1..plan[d]
         /\ sized[d] \in SUBSET Files(d) /\ stored[d] \in [Files(d) -> Nat]
         /\ received[d] \in [Files(d) -> 0..Size + 1] /\ Size \in Nat \ {0}
         /\ next[d] \in Nat \ {0} /\ iPos[d] \in -3..100
<1>1. plan \in Seq(Nat) /\ Size \in Nat \ {0}
  BY FtpAssumption DEF FtpTypeOK
<1>2. d \in Nat \ {0} /\ plan[d] \in Nat
  BY <1>1 DEF Downloads
<1>3. next[d] \in 1..plan[d] + 1
  BY DEF FtpTypeOK
<1>4. stored[d] \in [Files(d) -> Nat]
  <2>1. stored[d] \in [Files(d) -> 0..Size * plan[d]]
    BY DEF FtpTypeOK
  <2>2. 0..Size * plan[d] \subseteq Nat
    BY <1>1, <1>2
  <2> QED
    BY <2>1, <2>2
<1> QED
  BY <1>1, <1>2, <1>3, <1>4 DEF FtpTypeOK, Files

\* The files of a download.
LEMMA FilesFinite ==
  ASSUME NEW n \in Nat
  PROVE  IsFiniteSet(1..n) /\ Cardinality(1..n) = n
<1>1. 1 \in Int /\ n \in Int
  OBVIOUS
<1>2. IsFiniteSet(1..n) /\ Cardinality(1..n) = IF 1 > n THEN 0 ELSE n - 1 + 1
  BY <1>1, FS_Interval, Zenon
<1>3. (IF 1 > n THEN 0 ELSE n - 1 + 1) = n
  OBVIOUS
<1> QED
  BY <1>2, <1>3

\* The chunks of some files and what they mean for each.
LEMMA GotBounded ==
  ASSUME NEW S, IsFiniteSet(S), NEW st \in [S -> 0..Size]
  PROVE  /\ Got(st) \in Nat /\ Got(st) <= Size * Cardinality(S)
         /\ Got(st) = Size * Cardinality(S) => \A f \in S : st[f] = Size
<1>1. Size \in Nat /\ S \in SUBSET S
  BY FtpAssumption
<1>2. st \in [S -> Nat]
  BY <1>1
<1>3. PICK sum : IsSum(sum, st, S) /\ SumFunction(st) = sum[S]
  BY <1>2, SumFunctionIs, Zenon
<1>4. /\ sum[S] \in Nat /\ sum[S] <= Size * Cardinality(S)
      /\ sum[S] = Size * Cardinality(S) => \A x \in S : st[x] = Size
  <2>1. \A s \in SUBSET S :
          /\ sum[s] \in Nat /\ sum[s] <= Size * Cardinality(s)
          /\ sum[s] = Size * Cardinality(s) => \A x \in s : st[x] = Size
    <3>1. IsSum(sum, st, S) /\ Size \in Nat
      BY <1>1, <1>3
    <3>2. ASSUME NEW s \in SUBSET S
          PROVE  /\ sum[s] \in Nat /\ sum[s] <= Size * Cardinality(s)
                 /\ sum[s] = Size * Cardinality(s) => \A x \in s : st[x] = Size
      BY <3>1, SumBounded
    <3> QED
      BY <3>2, Zenon
  <2> QED
    BY <1>1, <2>1, Zenon
<1> QED
  BY <1>3, <1>4, Zenon DEF Got

\* The chunks of some files are at least those of each.
LEMMA GotAtLeast ==
  ASSUME NEW S, IsFiniteSet(S), NEW st \in [S -> Nat]
  PROVE  Got(st) \in Nat /\ \A f \in S : st[f] <= Got(st)
<1>1. PICK sum : IsSum(sum, st, S) /\ SumFunction(st) = sum[S]
  BY SumFunctionIs, Zenon
<1>2. \A s \in SUBSET S : sum[s] \in Nat /\ \A x \in s : st[x] <= sum[s]
  <2>1. IsSum(sum, st, S)
    BY <1>1
  <2>2. ASSUME NEW s \in SUBSET S PROVE sum[s] \in Nat /\ \A x \in s : st[x] <= sum[s]
    BY <2>1, SumAtLeast
  <2> QED
    BY <2>2, Zenon
<1>3. S \in SUBSET S
  OBVIOUS
<1> QED
  BY <1>1, <1>2, <1>3, Zenon DEF Got

\* One chunk more.
LEMMA GotOneMore ==
  ASSUME NEW S, IsFiniteSet(S), NEW st \in [S -> Nat], NEW f \in S
  PROVE  Got([st EXCEPT ![f] = @ + 1]) = Got(st) + 1
<1> DEFINE g == [st EXCEPT ![f] = @ + 1]
<1>1. S \in SUBSET S
  OBVIOUS
<1>2. g \in [S -> Nat]
  OBVIOUS
<1>3. PICK sum : IsSum(sum, st, S) /\ SumFunction(st) = sum[S]
  BY SumFunctionIs, Zenon
<1>4. PICK more : IsSum(more, g, S) /\ SumFunction(g) = more[S]
  BY <1>2, SumFunctionIs, Zenon
<1>5. \A y \in S : g[y] = IF y = f THEN st[y] + 1 ELSE st[y]
  OBVIOUS
<1> HIDE DEF g
<1>6. more[S] = IF f \in S THEN sum[S] + 1 ELSE sum[S]
  <2>1. IsSum(sum, st, S) /\ IsSum(more, g, S)
    BY <1>3, <1>4
  <2>2. \A s \in SUBSET S : more[s] = IF f \in s THEN sum[s] + 1 ELSE sum[s]
    BY <1>2, <1>5, <2>1, SumOneMore
  <2> QED
    BY <1>1, <2>2, Zenon
<1>7. Got(g) = Got(st) + 1
  BY <1>3, <1>4, <1>6, Zenon DEF Got
<1> QED
  BY <1>7 DEF g

\* The total is that of the files whose size is known.
LEMMA TotalBounded ==
  ASSUME FtpTypeOK, NEW d \in Downloads
  PROVE  /\ Total(d) \in Nat /\ Total(d) <= Size * plan[d]
         /\ sized[d] = Files(d) => Total(d) = Size * plan[d]
<1>1. plan[d] \in Nat /\ Files(d) = 1..plan[d] /\ sized[d] \in SUBSET Files(d)
  BY DownloadType
<1>2. IsFiniteSet(Files(d)) /\ Cardinality(Files(d)) = plan[d]
  BY <1>1, FilesFinite, Zenon
<1>3. Cardinality(sized[d]) \in Nat /\ Cardinality(sized[d]) <= plan[d]
  BY <1>1, <1>2, FS_Subset, FS_CardinalityType
<1>4. Size \in Nat
  BY FtpAssumption
<1>5. \A a, b \in Nat : a <= b => Size * a \in Nat /\ Size * a <= Size * b
  BY <1>4
<1> QED
  BY <1>1, <1>2, <1>3, <1>5 DEF Total

\* What a callback of download d with value p adds to the signals.
Posted(d, p) == <<Bar(d, 1), Value(d, p)>> \o (IF p \in Finals THEN <<Bar(d, 0)>> ELSE <<>>)

\* The signals of a callback.
LEMMA PostedType ==
  ASSUME FtpTypeOK, NEW d \in Downloads, NEW p \in -3..100
  PROVE  /\ Posted(d, p) \in Seq(Signals)
         /\ Len(Posted(d, p)) \in {2, 3}
         /\ \A k \in 1..Len(Posted(d, p)) :
              Posted(d, p)[k] \in {Bar(d, 1), Bar(d, 0), Value(d, p)}
         /\ p \in Finals => Len(Posted(d, p)) = 3 /\ Posted(d, p)[3] = Bar(d, 0)
<1>1. Bar(d, 1) \in Signals /\ Bar(d, 0) \in Signals /\ Value(d, p) \in Signals
  BY DEF Bar, Value, Signals
<1>2. CASE p \in Finals
  <2> DEFINE s == <<Bar(d, 1), Value(d, p)>>
             t == <<Bar(d, 0)>>
  <2>1. /\ s \in Seq(Signals) /\ Len(s) = 2 /\ s[1] = Bar(d, 1) /\ s[2] = Value(d, p)
        /\ t \in Seq(Signals) /\ Len(t) = 1 /\ t[1] = Bar(d, 0)
    BY <1>1
  <2>2. Posted(d, p) = s \o t
    BY <1>2, Zenon DEF Posted
  <2> HIDE DEF s, t
  <2>3. /\ s \o t \in Seq(Signals) /\ Len(s \o t) = Len(s) + Len(t)
        /\ \A i \in 1..Len(s) + Len(t) :
             (s \o t)[i] = IF i <= Len(s) THEN s[i] ELSE t[i - Len(s)]
    BY <2>1, ConcatProperties, Zenon
  <2>4. Len(s \o t) = 3 /\ (s \o t)[3] = Bar(d, 0)
    BY <2>1, <2>3
  <2>5. ASSUME NEW k \in 1..Len(s \o t)
        PROVE  (s \o t)[k] \in {Bar(d, 1), Bar(d, 0), Value(d, p)}
    BY <2>1, <2>3, <2>4, k = 1 \/ k = 2 \/ k = 3
  <2> QED
    BY <2>2, <2>3, <2>4, <2>5
<1>3. CASE p \notin Finals
  <2>1. Posted(d, p) = <<Bar(d, 1), Value(d, p)>>
    BY <1>3 DEF Posted
  <2> QED
    BY <1>1, <1>3, <2>1
<1> QED
  BY <1>2, <1>3

\* Nothing arrives and no file is closed: what is reported is a failure.
Quietly(d) ==
  /\ ftpPc[d] # "close" /\ UNCHANGED <<received, stored>>
  /\ \E p \in {-3, -2, -1, iPos[d]} :
       /\ iPos' = [iPos EXCEPT ![d] = p]
       /\ events' = events \/ (p \in {-3, -1} /\ PftpProc(d, p))

\* A chunk is written, of one or two that came; only when it is the last one
\* nothing is reported before the file is closed.
Arrives(d) ==
  /\ next[d] \in Files(d) /\ Got(stored[d]) < Total(d)
  /\ \E more \in {1, 2} :
       received' = [received EXCEPT ![d][next[d]] = IF @ + more > Size THEN Size + 1 ELSE @ + more]
  /\ next' = next
  /\ LET st == [stored[d] EXCEPT ![next[d]] = @ + 1]
     IN /\ stored' = [stored EXCEPT ![d] = st]
        /\ \E p \in 0..100 :
             /\ iPos' = [iPos EXCEPT ![d] = p]
             /\ p = 100 <=> Got(st) = Total(d)
             /\ IF p = 100 THEN events' = events /\ ftpPc' = [ftpPc EXCEPT ![d] = "close"]
                ELSE PftpProc(d, p)

\* A file is closed, and what came of it is reported.
Closes(d) ==
  /\ ftpPc[d] = "close" /\ UNCHANGED <<received, stored, iPos>>
  /\ next' = [next EXCEPT ![d] = @ + 1]
  /\ IF iPos[d] \in Finals THEN PftpProc(d, iPos[d]) ELSE events' = events

\* Where the thread goes: on with a file of its plan, or to the end.
Moves(d) ==
  /\ Moving(d)
  /\ \E l \in {"top", "setup", "recv", "close", "done"} :
       /\ ftpPc' = [ftpPc EXCEPT ![d] = l]
       /\ l \in {"setup", "recv", "close"} => next'[d] <= plan[d]
  /\ next' = next \/ (next[d] <= plan[d] /\ next' = [next EXCEPT ![d] = @ + 1])

\* Every step of the thread moves it, and is one of the three.
LEMMA ThreadShape ==
  ASSUME FtpInv, NEW d \in Downloads, FTP_DownloadDataRecvThread(d)
  PROVE  Moves(d) /\ (Quietly(d) \/ Arrives(d) \/ Closes(d))
<1>0. /\ FtpTypeOK /\ iPos[d] \in -3..100 /\ Finals = {100, -1, -2, -3}
      /\ iPos \in [Downloads -> -3..100] /\ DOMAIN next = Downloads
      /\ ftpPc \in [Downloads -> {"none", "top", "setup", "recv", "close", "done"}]
  BY DEF FtpInv, FtpTypeOK, Finals
<1>a. iPos = [iPos EXCEPT ![d] = iPos[d]] /\ ftpPc = [ftpPc EXCEPT ![d] = ftpPc[d]]
  BY <1>0
<1>b. ftpPc[d] \in {"setup", "recv", "close"} => next[d] <= plan[d]
  BY DEF FtpInv, NextPlanned
<1>1. CASE Exit(d)
  BY <1>0, <1>a, <1>1 DEF Exit, At, FtpGoto, Moves, Moving, Quietly, files
<1>2. CASE NoStick(d)
  <2>1. PftpProc(d, -1) /\ iPos' = [iPos EXCEPT ![d] = -1]
    BY <1>0, <1>2 DEF NoStick, Fail
  <2>2. Quietly(d)
    BY <1>0, <1>2, <2>1 DEF NoStick, At, Quietly, files
  <2>3. Moves(d)
    BY <1>0, <1>a, <1>2 DEF NoStick, At, Moves, Moving
  <2> QED
    BY <2>2, <2>3
<1>3. CASE SkipFile(d)
  BY <1>0, <1>a, <1>3 DEF SkipFile, At, Moves, Moving, Quietly, files
<1>4. CASE TakeFile(d)
  BY <1>0, <1>a, <1>4 DEF TakeFile, At, FtpGoto, Moves, Moving, Quietly, files
<1>5. CASE SetUp(d)
  <2>0. ftpPc[d] = "setup" /\ next[d] <= plan[d] /\ UNCHANGED <<received, stored>>
    BY <1>5, <1>b DEF SetUp, At, files
  <2>1. CASE NextFile(d, -3)
    BY <1>0, <1>a, <2>0, <2>1 DEF NextFile, Fail, FtpGoto, Moves, Moving, Quietly
  <2>2. CASE FtpGoto(d, "recv") /\ UNCHANGED <<next, iPos, events>>
    BY <1>0, <1>a, <2>0, <2>2 DEF FtpGoto, Moves, Moving, Quietly
  <2> QED
    BY <1>5, <2>1, <2>2 DEF SetUp
<1>c. ASSUME NEW p \in {-3, -2, -1, iPos[d]}, Break(d, p), ftpPc[d] = "recv", UNCHANGED files
      PROVE  Moves(d) /\ Quietly(d)
  BY <1>0, <1>b, <1>c DEF Break, FtpGoto, Moves, Moving, Quietly, files
<1>6. CASE Receive(d)
  <2> DEFINE st == [stored[d] EXCEPT ![next[d]] = @ + 1]
             p == (Got(st) * 100) \div Total(d)
             t == Total(d)
             g == Got(stored[d])
  <2>1. /\ ftpPc[d] = "recv" /\ stored' = [stored EXCEPT ![d][next[d]] = @ + 1]
        /\ \E dropped \in {0, 1} :
             /\ 1 + dropped <= t - g
             /\ received' = [received EXCEPT ![d][next[d]] =
                  IF @ + 1 + dropped > Size THEN Size + 1 ELSE @ + 1 + dropped]
    BY <1>6, Zenon DEF Receive, Receiving, At, Missing
  <2>2. /\ next[d] <= plan[d] /\ plan[d] \in Nat /\ Files(d) = 1..plan[d] /\ next[d] \in Nat \ {0}
        /\ stored[d] \in [Files(d) -> Nat] /\ received[d] \in [Files(d) -> 0..Size + 1]
        /\ Size \in Nat /\ DOMAIN stored = Downloads /\ DOMAIN received = Downloads
    BY <1>0, <1>b, <2>1, DownloadType DEF FtpTypeOK
  <2>3. next[d] \in Files(d) /\ IsFiniteSet(Files(d))
    <3>1. IsFiniteSet(1..plan[d])
      BY <2>2, FilesFinite, Zenon
    <3>2. next[d] \in 1..plan[d]
      BY <2>2
    <3> QED
      BY <2>2, <3>1, <3>2, Zenon
  <2>4. g \in Nat /\ Got(st) = g + 1 /\ t \in Nat
    BY <1>0, <2>2, <2>3, GotAtLeast, GotOneMore, TotalBounded
  <2>5. Got(st) \in Nat /\ t \in Nat \ {0} /\ Got(st) <= t /\ g < t
    <3> HIDE DEF st, t, g
    <3> QED
      BY <2>1, <2>4
  <2>6. p \in 0..100 /\ (p = 100 <=> Got(st) = t)
    BY <2>5, Percent
  <2>7. stored'[d] = st /\ stored' = [stored EXCEPT ![d] = st]
    BY <2>1, <2>2
  <2>8. /\ p = 100 => Break(d, p)
        /\ p # 100 => iPos' = [iPos EXCEPT ![d] = p] /\ PftpProc(d, p) /\ UNCHANGED <<ftpPc, next>>
    <3>1. LET q == (Got(stored'[d]) * 100) \div Total(d)
          IN IF q = 100 THEN Break(d, q)
             ELSE iPos' = [iPos EXCEPT ![d] = q] /\ PftpProc(d, q) /\ UNCHANGED <<ftpPc, next>>
      BY <1>6, Zenon DEF Receive
    <3> QED
      BY <2>7, <3>1, Zenon
  <2>9. \E more \in {1, 2} :
          received' = [received EXCEPT ![d][next[d]] =
            IF @ + more > Size THEN Size + 1 ELSE @ + more]
    <3>1. PICK dropped \in {0, 1} : received' = [received EXCEPT ![d][next[d]] =
            IF @ + 1 + dropped > Size THEN Size + 1 ELSE @ + 1 + dropped]
      BY <2>1, Zenon
    <3>2. /\ 1 + dropped \in {1, 2}
          /\ received[d][next[d]] + 1 + dropped = received[d][next[d]] + (1 + dropped)
      BY <2>2, <2>3
    <3> QED
      BY <2>2, <2>3, <3>1, <3>2
  <2> HIDE DEF p, t, g
  <2>10. CASE p = 100
    <3>1. /\ iPos' = [iPos EXCEPT ![d] = p] /\ ftpPc' = [ftpPc EXCEPT ![d] = "close"]
          /\ next' = next /\ events' = events
      BY <2>8, <2>10 DEF Break, FtpGoto
    <3>2. Moves(d)
      BY <2>1, <2>2, <3>1 DEF Moves, Moving
    <3>3. Arrives(d)
      BY <2>3, <2>5, <2>6, <2>7, <2>9, <2>10, <3>1, Zenon DEF Arrives, st, t, g
    <3> QED
      BY <3>2, <3>3
  <2>11. CASE p # 100
    <3>1. iPos' = [iPos EXCEPT ![d] = p] /\ PftpProc(d, p) /\ ftpPc' = ftpPc /\ next' = next
      BY <2>8, <2>11
    <3>2. Moves(d)
      BY <1>a, <2>1, <2>2, <3>1 DEF Moves, Moving
    <3>3. Arrives(d)
      BY <2>3, <2>5, <2>6, <2>7, <2>9, <2>11, <3>1, Zenon DEF Arrives, st, t, g
    <3> QED
      BY <3>2, <3>3
  <2> QED
    BY <2>10, <2>11
<1>7. CASE TransferFails(d) \/ EndOfData(d) \/ StickPulled(d) \/ Stopped(d)
  <2>1. /\ ftpPc[d] = "recv" /\ UNCHANGED files
        /\ Break(d, -2) \/ Break(d, -3) \/ Break(d, -1) \/ Break(d, iPos[d])
    BY <1>7, Zenon DEF TransferFails, EndOfData, StickPulled, Stopped, Receiving, At
  <2> QED
    BY <1>c, <2>1
<1>8. CASE CloseFile(d)
  <2>1. /\ ftpPc[d] = "close" /\ NextFile(d, iPos[d]) /\ UNCHANGED <<received, stored>>
        /\ next[d] <= plan[d]
    BY <1>8, <1>b DEF CloseFile, At
  <2>2. Closes(d)
    BY <1>a, <2>1 DEF NextFile, Fail, Closes
  <2>3. Moves(d)
    BY <1>0, <2>1 DEF NextFile, FtpGoto, Moves, Moving
  <2> QED
    BY <2>2, <2>3
<1> QED
  BY <1>1, <1>2, <1>3, <1>4, <1>5, <1>6, <1>7, <1>8, Zenon
  DEF FTP_DownloadDataRecvThread, Transfer

\* What a callback does to the signals under way.
LEMMA CallBack ==
  ASSUME FtpTypeOK, NEW d \in Downloads, NEW p \in -3..100, PftpProc(d, p)
  PROVE  /\ events' \in Seq(Signals)
         /\ \A i \in 1..Len(events') :
              \/ i <= Len(events) /\ events'[i] = events[i]
              \/ events'[i] \in {Bar(d, 1), Bar(d, 0), Value(d, p)}
         /\ handle = d /\ p \in Finals =>
              events' # <<>> /\ events'[Len(events')] = Bar(d, 0)
<1>0. events \in Seq(Signals)
  BY DEF FtpTypeOK
<1>1. CASE handle # d
  <2>1. events' = events
    BY <1>1 DEF PftpProc
  <2> QED
    BY <1>0, <1>1, <2>1
<1>2. CASE handle = d
  <2> DEFINE s == <<Bar(d, 1), Value(d, p)>>
             t == IF p \in Finals THEN <<Bar(d, 0)>> ELSE <<>>
             r == Posted(d, p)
  <2>1. s \in Seq(Signals) /\ t \in Seq(Signals)
    BY DEF Bar, Value, Signals
  <2>2. r = s \o t
    BY DEF Posted
  <2>3. events' = (events \o s) \o t
    BY <1>2 DEF PftpProc
  <2>4. /\ r \in Seq(Signals) /\ Len(r) \in {2, 3}
        /\ \A k \in 1..Len(r) : r[k] \in {Bar(d, 1), Bar(d, 0), Value(d, p)}
        /\ p \in Finals => Len(r) = 3 /\ r[3] = Bar(d, 0)
    BY PostedType, Zenon
  <2> HIDE DEF s, t, r
  <2>5. events' = events \o r
    BY <1>0, <2>1, <2>2, <2>3, ConcatAssociative
  <2>6. /\ events \o r \in Seq(Signals) /\ Len(events \o r) = Len(events) + Len(r)
        /\ \A i \in 1..Len(events) + Len(r) :
             (events \o r)[i] = IF i <= Len(events) THEN events[i] ELSE r[i - Len(events)]
    BY <1>0, <2>4, ConcatProperties, Zenon
  <2>7. Len(events) \in Nat
    BY <1>0
  <2>8. ASSUME NEW i \in 1..Len(events')
        PROVE  \/ i <= Len(events) /\ events'[i] = events[i]
               \/ events'[i] \in {Bar(d, 1), Bar(d, 0), Value(d, p)}
    <3>1. CASE i <= Len(events)
      BY <2>5, <2>6, <3>1
    <3>2. CASE ~(i <= Len(events))
      <4>1. i - Len(events) \in 1..Len(r) /\ events'[i] = r[i - Len(events)]
        BY <2>4, <2>5, <2>6, <2>7, <3>2
      <4> QED
        BY <2>4, <4>1, Zenon
    <3> QED
      BY <3>1, <3>2
  <2>9. ASSUME p \in Finals PROVE events' # <<>> /\ events'[Len(events')] = Bar(d, 0)
    <3>1. Len(r) = 3 /\ r[3] = Bar(d, 0) /\ Len(events') = Len(events) + 3
      BY <2>4, <2>5, <2>6, <2>9
    <3>2. events'[Len(events) + 3] = r[3]
      BY <2>5, <2>6, <2>7, <3>1
    <3> QED
      BY <2>5, <2>6, <2>7, <3>1, <3>2
  <2> QED
    BY <2>5, <2>6, <2>8, <2>9
<1> QED
  BY <1>1, <1>2

\* Only the callback of a complete download announces that it is complete.
LEMMA CallBackAnnounces ==
  ASSUME FtpTypeOK, NEW d \in Downloads, NEW p \in -3..100, PftpProc(d, p),
         NEW e, Announced(e)'
  PROVE  Announced(e) \/ (e = d /\ p = 100)
<1>1. events \in Seq(Signals) /\ events' \in Seq(Signals)
  BY CallBack DEF FtpTypeOK
<1>2. PICK i \in DOMAIN events' : events'[i] = Value(e, 100)
  BY Zenon DEF Announced, ToSet, Value
<1>3. i \in 1..Len(events')
  BY <1>1, <1>2
<1>4. \/ i <= Len(events) /\ events'[i] = events[i]
      \/ events'[i] \in {Bar(d, 1), Bar(d, 0), Value(d, p)}
  BY <1>3, CallBack, Zenon
<1>5. CASE i <= Len(events) /\ events'[i] = events[i]
  <2>1. i \in DOMAIN events /\ events[i] = Value(e, 100)
    BY <1>1, <1>2, <1>3, <1>5
  <2> QED
    BY <2>1, Zenon DEF Announced, ToSet
<1>6. CASE events'[i] \in {Bar(d, 1), Bar(d, 0), Value(d, p)}
  <2>1. "bar" # "value"
    OBVIOUS
  <2> QED
    BY <1>2, <1>6, <2>1 DEF Bar, Value
<1> QED
  BY <1>4, <1>5, <1>6

\* Handling a signal announces nothing.
LEMMA TailAnnounces ==
  ASSUME FtpTypeOK, events # <<>>, events' = Tail(events)
  PROVE  /\ events' \in Seq(Signals)
         /\ \A e : Announced(e)' => Announced(e)
         /\ events' # <<>> => events'[Len(events')] = events[Len(events)]
         /\ events' = <<>> => Head(events) = events[Len(events)]
<1>0. /\ events \in Seq(Signals) /\ Len(events) \in Nat \ {0}
      /\ Tail(events) \in Seq(Signals) /\ Len(Tail(events)) = Len(events) - 1
      /\ \A i \in 1..Len(events) - 1 : Tail(events)[i] = events[i + 1]
      /\ Head(events) = events[1]
  BY DEF FtpTypeOK
<1>1. ASSUME NEW e, Announced(e)' PROVE Announced(e)
  <2>1. PICK i \in DOMAIN events' : events'[i] = Value(e, 100)
    BY <1>1, Zenon DEF Announced, ToSet, Value
  <2>2. i + 1 \in DOMAIN events /\ events[i + 1] = Value(e, 100)
    BY <1>0, <2>1
  <2> QED
    BY <2>2, Zenon DEF Announced, ToSet
<1>2. ASSUME events' # <<>> PROVE events'[Len(events')] = events[Len(events)]
  <2>1. Len(events') # 0
    BY <1>0, <1>2
  <2> QED
    BY <1>0, <2>1
<1>3. ASSUME events' = <<>> PROVE Head(events) = events[Len(events)]
  <2>1. Len(events') = 0
    <3>1. Len(<<>>) = 0
      OBVIOUS
    <3> QED
      BY <1>3, <3>1, Zenon
  <2> QED
    BY <1>0, <2>1
<1> QED
  BY <1>0, <1>1, <1>2, <1>3

\* FtpInv holds in the beginning.
LEMMA FtpInitInv == FtpInit => FtpInv
<1> SUFFICES ASSUME FtpInit PROVE FtpInv
  OBVIOUS
<1>0. /\ plan \in Seq(Nat) /\ Downloads = 1..Len(plan) /\ Size \in Nat \ {0}
      /\ \A d \in Downloads : plan[d] \in Nat
  BY FtpAssumption DEF FtpInit, Downloads
<1>1. FtpTypeOK
  <2>1. \A d \in Downloads : next[d] \in 1..plan[d] + 1
    BY <1>0 DEF FtpInit
  <2>2. ASSUME NEW d \in Downloads
        PROVE  /\ received[d] \in [Files(d) -> 0..Size + 1]
               /\ stored[d] \in [Files(d) -> 0..Size * plan[d]]
    <3>1. 0 \in 0..Size + 1 /\ 0 \in 0..Size * plan[d]
      BY <1>0
    <3> QED
      BY <3>1 DEF FtpInit
  <2>3. events \in Seq(Signals)
    BY DEF FtpInit
  <2>4. /\ ftpPc \in [Downloads -> {"none", "top", "setup", "recv", "close", "done"}]
        /\ run \in [Downloads -> BOOLEAN] /\ plan \in Plans
    BY DEF FtpInit
  <2>5. /\ DOMAIN next = Downloads /\ DOMAIN sized = Downloads /\ DOMAIN stored = Downloads
        /\ DOMAIN received = Downloads /\ DOMAIN unflushed = Downloads
    BY DEF FtpInit
  <2>6. \A d \in Downloads : sized[d] \subseteq Files(d) /\ unflushed[d] \subseteq Files(d)
    BY DEF FtpInit
  <2>7. iPos \in [Downloads -> -3..100]
    BY DEF FtpInit
  <2>8. /\ handle \in Downloads \cup {0} /\ shown \in BOOLEAN /\ usb \in BOOLEAN
        /\ uiPc \in {"loop", "join"} /\ uiValue \in Finals \cup {0} /\ boxes \in Nat
    BY DEF FtpInit
  <2> QED
    BY <2>1, <2>2, <2>3, <2>4, <2>5, <2>6, <2>7, <2>8, Zenon DEF FtpTypeOK
<1>2. NextPlanned
  BY DEF FtpInit, NextPlanned
<1>3. \A d : ~Announced(d)
  <2>1. DOMAIN events = {}
    BY DEF FtpInit
  <2> QED
    BY <2>1, Zenon DEF Announced, ToSet
<1>4. HundredFull
  BY <1>3 DEF FtpInit, HundredFull
<1>6. StoredCame
  BY DEF FtpInit, StoredCame
<1>5. OnlyOne
  BY DEF FtpInit, OnlyOne, Hides, Moving
<1> QED
  BY <1>1, <1>2, <1>4, <1>5, <1>6 DEF FtpInv

\* The downloads and their files stay the same.
LEMMA SamePlan ==
  ASSUME plan' = plan
  PROVE  /\ Downloads' = Downloads /\ Signals' = Signals
         /\ \A d : Files(d)' = Files(d)
BY DEF Downloads, Signals, Files

\* A step of a thread keeps the types.
LEMMA ThreadTypeStep ==
  ASSUME FtpInv, NEW d \in Downloads, FTP_DownloadDataRecvThread(d), plan' = plan
  PROVE  FtpTypeOK'
<1>0. FtpTypeOK /\ Downloads' = Downloads /\ Signals' = Signals
      /\ (\A e : Files(e)' = Files(e)) /\ Size \in Nat
  BY SamePlan, FtpAssumption DEF FtpInv
<1>1. /\ run' = run /\ sized' = sized /\ handle' = handle /\ usb' = usb
      /\ shown' = shown /\ uiPc' = uiPc /\ uiValue' = uiValue /\ boxes' = boxes
  BY DEF FTP_DownloadDataRecvThread, ui
<1>2. Moves(d) /\ (Quietly(d) \/ Arrives(d) \/ Closes(d))
  BY ThreadShape
<1>3. ftpPc' \in [Downloads -> {"none", "top", "setup", "recv", "close", "done"}]
  BY <1>0, <1>2 DEF Moves, FtpTypeOK
<1>4. DOMAIN next' = Downloads /\ \A e \in Downloads : next'[e] \in 1..plan[e] + 1
  <2>1. CASE next' = next
    BY <1>0, <2>1 DEF FtpTypeOK
  <2>2. CASE next[d] <= plan[d] /\ next' = [next EXCEPT ![d] = @ + 1]
    <3>1. next[d] \in Nat \ {0} /\ plan[d] \in Nat
      BY <1>0, DownloadType
    <3>2. next[d] + 1 \in 1..plan[d] + 1
      BY <2>2, <3>1
    <3> QED
      BY <1>0, <2>2, <3>2, Zenon DEF FtpTypeOK
  <2> QED
    BY <1>2, <2>1, <2>2 DEF Moves
<1>5. /\ DOMAIN stored' = Downloads /\ DOMAIN received' = Downloads
      /\ \A e \in Downloads : /\ stored'[e] \in [Files(e) -> 0..Size * plan[e]]
                              /\ received'[e] \in [Files(e) -> 0..Size + 1]
  <2>1. CASE Quietly(d) \/ Closes(d)
    <3>1. stored' = stored /\ received' = received
      BY <2>1 DEF Quietly, Closes
    <3> QED
      BY <1>0, <3>1 DEF FtpTypeOK
  <2>2. CASE Arrives(d)
    <3> DEFINE st == [stored[d] EXCEPT ![next[d]] = @ + 1]
    <3>1. /\ stored[d] \in [Files(d) -> Nat] /\ next[d] \in Files(d)
          /\ received[d] \in [Files(d) -> 0..Size + 1]
          /\ stored' = [stored EXCEPT ![d] = st] /\ Got(stored[d]) < Total(d)
          /\ plan[d] \in Nat /\ Files(d) = 1..plan[d]
      BY <1>0, <2>2, DownloadType DEF Arrives
    <3>2. st \in [Files(d) -> Nat] /\ IsFiniteSet(Files(d))
      <4>1. IsFiniteSet(1..plan[d])
        BY <3>1, FilesFinite, Zenon
      <4> QED
        BY <3>1, <4>1
    <3>3. Got(stored[d]) \in Nat /\ Got(st) = Got(stored[d]) + 1
      BY <3>1, <3>2, GotAtLeast, GotOneMore
    <3> HIDE DEF st
    <3>4. Got(st) \in Nat /\ \A f \in Files(d) : st[f] <= Got(st)
      BY <3>2, GotAtLeast
    <3>5. Total(d) \in Nat /\ Total(d) <= Size * plan[d] /\ Size * plan[d] \in Nat
      <4>1. Total(d) \in Nat /\ Total(d) <= Size * plan[d]
        BY <1>0, TotalBounded
      <4>2. Size * plan[d] \in Nat
        BY <1>0, <3>1
      <4> QED
        BY <4>1, <4>2
    <3>6. Got(st) <= Size * plan[d]
      BY <3>1, <3>3, <3>4, <3>5
    <3>7. \A f \in Files(d) : st[f] \in 0..Size * plan[d]
      BY <3>2, <3>4, <3>5, <3>6
    <3>8. st \in [Files(d) -> 0..Size * plan[d]]
      BY <3>2, <3>7
    <3>9. PICK more \in {1, 2} : received' = [received EXCEPT ![d][next[d]] =
             IF @ + more > Size THEN Size + 1 ELSE @ + more]
      BY <2>2, Zenon DEF Arrives
    <3>10. DOMAIN received = Downloads /\ DOMAIN stored = Downloads
      BY <1>0 DEF FtpTypeOK
    <3>11. received'[d] \in [Files(d) -> 0..Size + 1]
      BY <1>0, <3>1, <3>9, <3>10
    <3>12. DOMAIN received' = Downloads /\ \A e \in Downloads : e # d => received'[e] = received[e]
      BY <3>9, <3>10
    <3>13. DOMAIN stored' = Downloads /\ stored'[d] = st
           /\ \A e \in Downloads : e # d => stored'[e] = stored[e]
      BY <3>1, <3>10
    <3>14. \A e \in Downloads : /\ stored[e] \in [Files(e) -> 0..Size * plan[e]]
                                /\ received[e] \in [Files(e) -> 0..Size + 1]
      BY <1>0 DEF FtpTypeOK
    <3> QED
      BY <3>8, <3>11, <3>12, <3>13, <3>14, Zenon
  <2> QED
    BY <1>2, <2>1, <2>2
<1>6. iPos' \in [Downloads -> -3..100] /\ events' \in Seq(Signals)
  <2>0. iPos \in [Downloads -> -3..100] /\ events \in Seq(Signals)
    BY <1>0 DEF FtpTypeOK
  <2>1. PICK p \in -3..100 : /\ iPos' = [iPos EXCEPT ![d] = p]
                             /\ \/ events' = events
                                \/ \E q \in -3..100 : PftpProc(d, q)
    <3>0. iPos[d] \in -3..100 /\ iPos = [iPos EXCEPT ![d] = iPos[d]]
      BY <2>0
    <3>1. \A p \in {-3, -2, -1, iPos[d]} : p \in -3..100
      BY <3>0
    <3>2. \A p \in 0..100 : p \in -3..100
      OBVIOUS
    <3> QED
      BY <1>2, <3>0, <3>1, <3>2, Zenon DEF Quietly, Arrives, Closes
  <2>2. events' \in Seq(Signals)
    BY <1>0, <2>0, <2>1, CallBack, Zenon
  <2> QED
    BY <2>0, <2>1, <2>2
<1>7. sized' = sized /\ \A e \in Downloads : sized[e] \subseteq Files(e)
  BY <1>0, <1>1 DEF FtpTypeOK
<1>8. DOMAIN unflushed' = Downloads /\ \A e \in Downloads : unflushed'[e] \subseteq Files(e)
  <2>1. CASE unflushed' = unflushed
    BY <1>0, <2>1 DEF FtpTypeOK
  <2>2. CASE CloseFile(d) /\ unflushed' = [unflushed EXCEPT ![d] = @ \cup {next[d]}]
    <3>1. /\ next[d] <= plan[d] /\ next[d] \in Nat \ {0} /\ plan[d] \in Nat
          /\ Files(d) = 1..plan[d]
      BY <1>0, <2>2, DownloadType DEF CloseFile, At, FtpInv, NextPlanned
    <3>2. next[d] \in Files(d)
      BY <3>1
    <3> QED
      BY <1>0, <2>2, <3>2 DEF FtpTypeOK
  <2>3. unflushed' = unflushed
        \/ (CloseFile(d) /\ unflushed' = [unflushed EXCEPT ![d] = @ \cup {next[d]}])
    BY Zenon DEF FTP_DownloadDataRecvThread, Exit, NoStick, SkipFile, TakeFile, SetUp, Transfer,
       Receive, TransferFails, EndOfData, StickPulled, Stopped, CloseFile, files
  <2> QED
    BY <2>1, <2>2, <2>3
<1> QED
  BY <1>0, <1>1, <1>3, <1>4, <1>5, <1>6, <1>7, <1>8 DEF FtpTypeOK

\* The steps of the user interface keep the types.
LEMMA FtpTypeStep ==
  FtpInv /\ [FtpNext]_ftpVars => FtpTypeOK'
<1> SUFFICES ASSUME FtpInv, [FtpNext]_ftpVars PROVE FtpTypeOK'
  OBVIOUS
<1>0. FtpTypeOK /\ plan' = plan
  BY DEF FtpInv, FtpNext, ftpVars
<1>1. Downloads' = Downloads /\ Signals' = Signals /\ (\A e : Files(e)' = Files(e))
  BY <1>0, SamePlan
<1>2. ASSUME NEW d \in Downloads, FTP_DownloadDataRecvThread(d) PROVE FtpTypeOK'
  BY <1>0, <1>2, ThreadTypeStep
<1>3. ASSUME NEW d \in Downloads, recordDownload(d) PROVE FtpTypeOK'
  <2>0. /\ next' = next /\ UNCHANGED files /\ iPos' = iPos /\ events' = events
        /\ usb' = usb /\ shown' = shown /\ uiPc' = uiPc /\ uiValue' = uiValue /\ boxes' = boxes
    BY <1>3 DEF recordDownload, ui
  <2>1. handle' \in Downloads \cup {0} /\ run' \in [Downloads -> BOOLEAN]
    BY <1>0, <1>3, Zenon DEF recordDownload, FtpTypeOK
  <2>2. ftpPc' \in [Downloads -> {"none", "top", "setup", "recv", "close", "done"}]
    BY <1>0, <1>3 DEF recordDownload, FtpTypeOK, FtpGoto
  <2>3. DOMAIN sized' = Downloads /\ \A e \in Downloads : sized'[e] \subseteq Files(e)
    BY <1>0, <1>3, Zenon DEF recordDownload, FtpTypeOK
  <2> QED
    BY <1>0, <1>1, <2>0, <2>1, <2>2, <2>3 DEF FtpTypeOK, files
<1>4. CASE ShowBar
  <2>1. events' \in Seq(Signals)
    BY <1>0, <1>4, TailAnnounces DEF ShowBar
  <2>2. shown' \in BOOLEAN
    BY <1>4 DEF ShowBar
  <2> QED
    BY <1>0, <1>1, <1>4, <2>1, <2>2 DEF ShowBar, thread, files, FtpTypeOK
<1>5. CASE SetValue
  <2>1. events' \in Seq(Signals)
    BY <1>0, <1>5, TailAnnounces DEF SetValue
  <2>2. /\ uiPc' \in {"loop", "join"} /\ uiValue' \in Finals \cup {0}
        /\ run' \in [Downloads -> BOOLEAN]
    BY <1>0, <1>5, Zenon DEF SetValue, FtpTypeOK
  <2>3. boxes' \in Nat
    BY <1>0, <1>5 DEF SetValue, FtpTypeOK
  <2> QED
    BY <1>0, <1>1, <1>5, <2>1, <2>2, <2>3 DEF SetValue, thread, files, FtpTypeOK
<1>6. CASE Joined
  <2>1. boxes' \in Nat
    BY <1>0, <1>6 DEF Joined, FtpTypeOK
  <2> QED
    BY <1>0, <1>1, <1>6, <2>1 DEF Joined, thread, files, FtpTypeOK
<1>7. CASE CloseBox
  <2>1. boxes' \in Nat
    BY <1>0, <1>7 DEF CloseBox, FtpTypeOK
  <2> QED
    BY <1>0, <1>1, <1>7, <2>1 DEF CloseBox, thread, files, FtpTypeOK
<1>8. CASE Stick
  BY <1>0, <1>1, <1>8 DEF Stick, thread, files, ui, FtpTypeOK
<1>9. CASE UNCHANGED ftpVars
  BY <1>0, <1>1, <1>9 DEF ftpVars, thread, files, ui, FtpTypeOK
<1> QED
  BY <1>2, <1>3, <1>4, <1>5, <1>6, <1>7, <1>8, <1>9 DEF FtpNext, UiEvent

\* A step of the user interface other than a press of the download button
\* leaves the threads and what is known of the files, and announces nothing.
LEMMA UiLeaves ==
  ASSUME FtpInv, plan' = plan,
         ShowBar \/ SetValue \/ Joined \/ CloseBox \/ Stick \/ UNCHANGED ftpVars
  PROVE  /\ ftpPc' = ftpPc /\ next' = next /\ stored' = stored /\ iPos' = iPos
         /\ sized' = sized /\ received' = received
         /\ \A e : Announced(e)' => Announced(e)
<1>0. FtpTypeOK
  BY DEF FtpInv
<1>1. /\ ftpPc' = ftpPc /\ next' = next /\ stored' = stored /\ iPos' = iPos
      /\ sized' = sized /\ received' = received
  BY DEF ShowBar, SetValue, Joined, CloseBox, Stick, ftpVars, thread, files, ui
<1>2. CASE ShowBar \/ SetValue
  <2>1. events # <<>> /\ events' = Tail(events)
    BY <1>2 DEF ShowBar, SetValue
  <2>2. \A e : Announced(e)' => Announced(e)
    BY <1>0, <2>1, TailAnnounces
  <2> QED
    BY <1>1, <2>2
<1>3. CASE Joined \/ CloseBox \/ Stick \/ UNCHANGED ftpVars
  <2>1. events' = events
    BY <1>3 DEF Joined, CloseBox, Stick, ftpVars, thread, ui
  <2>2. \A e : Announced(e)' => Announced(e)
    BY <2>1 DEF Announced
  <2> QED
    BY <1>1, <2>2
<1> QED
  BY <1>2, <1>3

\* The thread never takes a file beyond those queued.
LEMMA PlannedStep ==
  FtpInv /\ [FtpNext]_ftpVars => NextPlanned'
<1> SUFFICES ASSUME FtpInv, [FtpNext]_ftpVars PROVE NextPlanned'
  OBVIOUS
<1>0. FtpTypeOK /\ NextPlanned /\ plan' = plan /\ Downloads' = Downloads
  BY SamePlan DEF FtpInv, FtpNext, ftpVars
<1>1. ASSUME NEW d \in Downloads, FTP_DownloadDataRecvThread(d) PROVE NextPlanned'
  <2>1. Moves(d)
    BY <1>1, ThreadShape
  <2>2. ASSUME NEW e \in Downloads, e # d PROVE ftpPc'[e] = ftpPc[e] /\ next'[e] = next[e]
    BY <1>0, <2>1, <2>2 DEF Moves, FtpTypeOK
  <2>3. ftpPc'[d] \in {"setup", "recv", "close"} => next'[d] <= plan[d]
    BY <1>0, <2>1 DEF Moves, FtpTypeOK
  <2> QED
    BY <1>0, <2>2, <2>3, Zenon DEF NextPlanned
<1>2. ASSUME NEW d \in Downloads, recordDownload(d) PROVE NextPlanned'
  <2>1. /\ next' = next
        /\ ftpPc' = [ftpPc EXCEPT ![d] = "top"] \/ ftpPc' = [ftpPc EXCEPT ![d] = "done"]
    BY <1>2 DEF recordDownload, FtpGoto
  <2> QED
    BY <1>0, <2>1 DEF NextPlanned, FtpTypeOK
<1>3. CASE ShowBar \/ SetValue \/ Joined \/ CloseBox \/ Stick \/ UNCHANGED ftpVars
  <2>1. ftpPc' = ftpPc /\ next' = next
    BY <1>0, <1>3, UiLeaves
  <2> QED
    BY <1>0, <2>1 DEF NextPlanned
<1> QED
  BY <1>1, <1>2, <1>3 DEF FtpNext, UiEvent

\* A step of a thread tells of no download but its own, and of its own that it
\* is complete only with the closing of a file.
LEMMA ThreadAnnounces ==
  ASSUME FtpTypeOK, NEW d \in Downloads, Quietly(d) \/ Arrives(d) \/ Closes(d),
         NEW e, Announced(e)'
  PROVE  Announced(e) \/ (e = d /\ Closes(d) /\ iPos[d] = 100)
<1>1. CASE events' = events
  BY <1>1, Zenon DEF Announced
<1>2. ASSUME NEW p \in -3..100, PftpProc(d, p), p # 100 PROVE Announced(e)
  BY <1>2, CallBackAnnounces, Zenon
<1>3. CASE Quietly(d)
  <2>1. PICK p \in {-3, -2, -1, iPos[d]} : events' = events \/ (p \in {-3, -1} /\ PftpProc(d, p))
    BY <1>3, Zenon DEF Quietly
  <2>2. \A q \in {-3, -1} : q \in -3..100 /\ q # 100
    OBVIOUS
  <2> QED
    BY <1>1, <1>2, <2>1, <2>2, Zenon
<1>4. CASE Arrives(d)
  <2>1. PICK p \in 0..100 : IF p = 100 THEN events' = events ELSE PftpProc(d, p)
    BY <1>4, Zenon DEF Arrives
  <2>2. p \in -3..100
    OBVIOUS
  <2> QED
    BY <1>1, <1>2, <2>1, <2>2, Zenon
<1>5. CASE Closes(d)
  <2>1. iPos[d] \in -3..100
    BY DownloadType
  <2>2. events' = events \/ PftpProc(d, iPos[d])
    BY <1>5, Zenon DEF Closes
  <2>3. CASE PftpProc(d, iPos[d])
    <3>1. Announced(e) \/ (e = d /\ iPos[d] = 100)
      BY <2>1, <2>3, CallBackAnnounces
    <3> QED
      BY <1>5, <3>1
  <2> QED
    BY <1>1, <2>2, <2>3
<1> QED
  BY <1>3, <1>4, <1>5

\* What a step of a thread leaves of the other downloads.
LEMMA OthersStay ==
  ASSUME FtpTypeOK, NEW d \in Downloads, Moves(d), Quietly(d) \/ Arrives(d) \/ Closes(d),
         NEW e \in Downloads, e # d
  PROVE  /\ stored'[e] = stored[e] /\ received'[e] = received[e] /\ iPos'[e] = iPos[e]
         /\ ftpPc'[e] = ftpPc[e] /\ next'[e] = next[e]
<1>1. ftpPc'[e] = ftpPc[e] /\ next'[e] = next[e]
  BY DEF Moves, FtpTypeOK
<1>2. DOMAIN stored = Downloads /\ DOMAIN received = Downloads /\ iPos \in [Downloads -> -3..100]
  BY DEF FtpTypeOK
<1>3. CASE Quietly(d)
  <2>1. PICK p : iPos' = [iPos EXCEPT ![d] = p]
    BY <1>3, Zenon DEF Quietly
  <2> QED
    BY <1>1, <1>2, <1>3, <2>1 DEF Quietly
<1>4. CASE Arrives(d)
  <2>1. PICK p : iPos' = [iPos EXCEPT ![d] = p]
    BY <1>4, Zenon DEF Arrives
  <2>2. PICK more : received' = [received EXCEPT ![d][next[d]] =
           IF @ + more > Size THEN Size + 1 ELSE @ + more]
    BY <1>4, Zenon DEF Arrives
  <2>3. PICK st : stored' = [stored EXCEPT ![d] = st]
    BY <1>4, Zenon DEF Arrives
  <2> QED
    BY <1>1, <1>2, <2>1, <2>2, <2>3
<1>5. CASE Closes(d)
  BY <1>1, <1>5 DEF Closes
<1> QED
  BY <1>3, <1>4, <1>5

\* What an arrival does to the file in transfer and to the others of its download.
LEMMA ArrivesAt ==
  ASSUME FtpTypeOK, NEW d \in Downloads, Arrives(d), NEW f \in Files(d)
  PROVE  /\ stored'[d] = [stored[d] EXCEPT ![next[d]] = @ + 1]
         /\ f # next[d] => stored'[d][f] = stored[d][f] /\ received'[d][f] = received[d][f]
         /\ f = next[d] => /\ stored'[d][f] = stored[d][f] + 1
                           /\ received'[d][f] <= Size => received'[d][f] >= received[d][f] + 1
<1>1. /\ stored[d] \in [Files(d) -> Nat] /\ received[d] \in [Files(d) -> 0..Size + 1]
      /\ Size \in Nat \ {0} /\ DOMAIN stored = Downloads /\ DOMAIN received = Downloads
      /\ next[d] \in Files(d)
  BY DownloadType DEF FtpTypeOK, Arrives
<1>2. PICK more \in {1, 2} : received' = [received EXCEPT ![d][next[d]] =
         IF @ + more > Size THEN Size + 1 ELSE @ + more]
  BY Zenon DEF Arrives
<1>3. stored' = [stored EXCEPT ![d] = [stored[d] EXCEPT ![next[d]] = @ + 1]]
  BY Zenon DEF Arrives
<1>4. stored'[d] = [stored[d] EXCEPT ![next[d]] = @ + 1]
  BY <1>1, <1>3
<1>5. received'[d] = [received[d] EXCEPT ![next[d]] =
         IF @ + more > Size THEN Size + 1 ELSE @ + more]
  BY <1>1, <1>2
<1> QED
  BY <1>1, <1>4, <1>5

\* Every step keeps StoredCame.
LEMMA StoredStep ==
  FtpInv /\ [FtpNext]_ftpVars => StoredCame'
<1> SUFFICES ASSUME FtpInv, [FtpNext]_ftpVars PROVE StoredCame'
  OBVIOUS
<1>0. /\ FtpTypeOK /\ StoredCame /\ plan' = plan /\ Downloads' = Downloads
      /\ \A e : Files(e)' = Files(e)
  BY SamePlan DEF FtpInv, FtpNext, ftpVars
<1>1. ASSUME NEW d \in Downloads, FTP_DownloadDataRecvThread(d) PROVE StoredCame'
  <2>0. Moves(d) /\ (Quietly(d) \/ Arrives(d) \/ Closes(d))
    BY <1>1, ThreadShape
  <2> SUFFICES ASSUME NEW e \in Downloads, NEW f \in Files(e)
               PROVE  /\ received'[e][f] <= Size => stored'[e][f] <= received'[e][f]
                      /\ f > next'[e] => stored'[e][f] = 0
    BY <1>0, Zenon DEF StoredCame
  <2>1. /\ received[e][f] <= Size => stored[e][f] <= received[e][f]
        /\ f > next[e] => stored[e][f] = 0
    BY <1>0, Zenon DEF StoredCame
  <2>2. CASE e # d
    BY <1>0, <2>0, <2>1, <2>2, OthersStay
  <2>3. ASSUME e = d PROVE next[e] \in Nat /\ f \in Nat /\ next'[e] \in Nat /\ next'[e] >= next[e]
    <3>1. next[d] \in Nat /\ Files(d) = 1..plan[d] /\ plan[d] \in Nat /\ DOMAIN next = Downloads
      BY <1>0, DownloadType DEF FtpTypeOK
    <3> QED
      BY <2>0, <2>3, <3>1 DEF Moves
  <2>4. CASE e = d /\ (Quietly(d) \/ Closes(d))
    <3>1. stored' = stored /\ received' = received
      BY <2>4 DEF Quietly, Closes
    <3> QED
      BY <2>1, <2>3, <2>4, <3>1
  <2>5. CASE e = d /\ Arrives(d)
    <3>1. /\ next' = next /\ stored[d] \in [Files(d) -> Nat]
          /\ received[d] \in [Files(d) -> 0..Size + 1] /\ Size \in Nat
      BY <1>0, <2>5, DownloadType DEF Arrives
    <3>2. CASE f # next[d]
      BY <1>0, <2>1, <2>5, <3>1, <3>2, ArrivesAt
    <3>3. CASE f = next[d]
      <4>1. /\ stored'[d][f] = stored[d][f] + 1
            /\ received'[d][f] <= Size => received'[d][f] >= received[d][f] + 1
        BY <1>0, <2>5, <3>3, ArrivesAt
      <4>2. received'[d][f] \in 0..Size + 1
        <5>1. received'[d] \in [Files(d) -> 0..Size + 1]
          BY <1>0, <1>1, ThreadTypeStep, Zenon DEF FtpTypeOK
        <5> QED
          BY <2>5, <5>1
      <4> QED
        BY <2>1, <2>3, <2>5, <3>1, <3>3, <4>1, <4>2
    <3> QED
      BY <3>2, <3>3
  <2> QED
    BY <2>0, <2>2, <2>4, <2>5
<1>2. ASSUME NEW d \in Downloads, recordDownload(d) PROVE StoredCame'
  <2>1. next' = next /\ stored' = stored /\ received' = received
    BY <1>2 DEF recordDownload, files
  <2> QED
    BY <1>0, <2>1, Zenon DEF StoredCame
<1>3. CASE ShowBar \/ SetValue \/ Joined \/ CloseBox \/ Stick \/ UNCHANGED ftpVars
  <2>1. next' = next /\ stored' = stored /\ received' = received
    BY <1>0, <1>3, UiLeaves
  <2> QED
    BY <1>0, <2>1, Zenon DEF StoredCame
<1> QED
  BY <1>1, <1>2, <1>3 DEF FtpNext, UiEvent

\* A download with every file written is at its last file.
LEMMA FullIsLast ==
  ASSUME FtpInv, NEW d \in Downloads, Full(d)
  PROVE  plan[d] <= next[d]
<1>1. /\ plan[d] \in Nat /\ Files(d) = 1..plan[d] /\ Size \in Nat \ {0} /\ next[d] \in Nat
  BY DownloadType DEF FtpInv
<1> SUFFICES ASSUME plan[d] > next[d] PROVE FALSE
  BY <1>1
<1>2. plan[d] \in Files(d)
  BY <1>1
<1>3. stored[d][plan[d]] = Size /\ stored[d][plan[d]] = 0
  BY <1>2, Zenon DEF Full, FtpInv, StoredCame
<1> QED
  BY <1>1, <1>3

\* A step of a thread reports 100 only with every file written and closed.
LEMMA ThreadHundred ==
  ASSUME FtpInv, NEW d \in Downloads, FTP_DownloadDataRecvThread(d), plan' = plan
  PROVE  HundredFull'
<1>0. /\ FtpTypeOK /\ HundredFull /\ StoredCame /\ Downloads' = Downloads
      /\ \A e : Files(e)' = Files(e)
  BY SamePlan DEF FtpInv
<1>1. sized' = sized
  BY DEF FTP_DownloadDataRecvThread
<1>2. Moves(d) /\ (Quietly(d) \/ Arrives(d) \/ Closes(d))
  BY ThreadShape
<1> SUFFICES ASSUME NEW e \in Downloads
             PROVE  /\ ftpPc'[e] = "none" => iPos'[e] # 100 /\ ~Announced(e)'
                    /\ Known(e)' /\ iPos'[e] = 100 => Full(e)'
                    /\ Known(e)' /\ Announced(e)' => Full(e)' /\ plan[e] < next'[e]
  BY <1>0, Zenon DEF HundredFull
<1>3. /\ ftpPc[e] = "none" => iPos[e] # 100 /\ ~Announced(e)
      /\ Known(e) /\ iPos[e] = 100 => Full(e)
      /\ Known(e) /\ Announced(e) => Full(e) /\ plan[e] < next[e]
  BY <1>0, Zenon DEF HundredFull
<1>4. CASE e # d
  <2>1. /\ stored'[e] = stored[e] /\ received'[e] = received[e] /\ iPos'[e] = iPos[e]
        /\ ftpPc'[e] = ftpPc[e] /\ next'[e] = next[e]
    BY <1>0, <1>2, <1>4, OthersStay
  <2>2. Announced(e)' => Announced(e)
    BY <1>0, <1>2, <1>4, ThreadAnnounces
  <2>3. (Known(e)' <=> Known(e)) /\ (Full(e)' <=> Full(e))
    BY <1>0, <1>1, <2>1, Zenon DEF Known, Full
  <2> QED
    BY <1>3, <2>1, <2>2, <2>3, Zenon
<1>5. CASE e = d
  <2>0. /\ ftpPc'[d] # "none" /\ next[d] \in Nat /\ plan[d] \in Nat /\ DOMAIN next = Downloads
        /\ iPos[d] \in -3..100 /\ iPos \in [Downloads -> -3..100]
    BY <1>0, <1>2, DownloadType DEF Moves, FtpTypeOK
  <2>1. next'[d] \in Nat /\ next'[d] >= next[d]
    BY <1>2, <2>0 DEF Moves
  <2>2. CASE Quietly(d)
    <3>1. PICK p \in {-3, -2, -1, iPos[d]} : iPos' = [iPos EXCEPT ![d] = p]
      BY <2>2, Zenon DEF Quietly
    <3>2. iPos'[d] = 100 => iPos[d] = 100
      BY <2>0, <3>1
    <3>3. stored' = stored /\ received' = received /\ ~Closes(d)
      BY <2>2 DEF Quietly, Closes
    <3>4. Announced(d)' => Announced(d)
      BY <1>0, <2>2, <3>3, ThreadAnnounces
    <3>5. (Known(d)' <=> Known(d)) /\ (Full(d)' <=> Full(d))
      BY <1>0, <1>1, <3>3, Zenon DEF Known, Full
    <3> QED
      BY <1>3, <1>5, <2>0, <2>1, <3>2, <3>4, <3>5
  <2>3. CASE Closes(d)
    <3>1. /\ stored' = stored /\ received' = received /\ iPos' = iPos
          /\ next'[d] = next[d] + 1
      BY <2>0, <2>3 DEF Closes
    <3>2. Announced(d)' => Announced(d) \/ iPos[d] = 100
      BY <1>0, <2>3, ThreadAnnounces
    <3>3. (Known(d)' <=> Known(d)) /\ (Full(d)' <=> Full(d))
      BY <1>0, <1>1, <3>1, Zenon DEF Known, Full
    <3>4. Full(d) => plan[d] < next'[d]
      BY <2>0, <3>1, FullIsLast
    <3> QED
      BY <1>3, <1>5, <2>0, <3>1, <3>2, <3>3, <3>4, Zenon
  <2>4. CASE Arrives(d)
    <3>1. /\ stored[d] \in [Files(d) -> Nat] /\ received[d] \in [Files(d) -> 0..Size + 1]
          /\ Size \in Nat \ {0} /\ Files(d) = 1..plan[d] /\ next[d] \in Files(d)
      BY <1>0, <2>4, DownloadType DEF Arrives
    <3>2. ~Closes(d) /\ next[d] <= plan[d]
      <4>1. next[d] <= plan[d]
        BY <2>0, <3>1
      <4>2. next' = next
        BY <2>4 DEF Arrives
      <4> QED
        BY <2>0, <4>1, <4>2 DEF Closes
    <3>3. Known(d)' => Known(d)
      <4> SUFFICES ASSUME Known(d)', NEW f \in Files(d) PROVE received[d][f] <= Size
        BY <1>0, <1>1, Zenon DEF Known
      <4>1. received'[d][f] <= Size
        BY <1>0, Zenon DEF Known
      <4>2. \/ received'[d][f] = received[d][f]
            \/ received'[d][f] <= Size => received'[d][f] >= received[d][f] + 1
        BY <1>0, <2>4, ArrivesAt
      <4>3. received'[d][f] \in 0..Size + 1
        <5>1. received'[d] \in [Files(d) -> 0..Size + 1]
          BY <1>0, ThreadTypeStep, Zenon DEF FtpTypeOK
        <5> QED
          BY <5>1
      <4>4. received[d][f] \in 0..Size + 1
        BY <3>1
      <4> QED
        BY <3>1, <4>1, <4>2, <4>3, <4>4
    <3>4. ~(Known(d)' /\ Announced(d)')
      <4> SUFFICES ASSUME Known(d)', Announced(d)' PROVE FALSE
        OBVIOUS
      <4>1. Announced(d)
        BY <1>0, <2>4, <3>2, ThreadAnnounces
      <4>2. plan[d] < next[d]
        BY <1>3, <1>5, <3>3, <4>1
      <4> QED
        BY <2>0, <3>2, <4>2
    <3>5. ASSUME Known(d)', iPos'[d] = 100 PROVE Full(d)'
      <4> DEFINE st == [stored[d] EXCEPT ![next[d]] = @ + 1]
      <4>1. PICK p \in 0..100 : iPos' = [iPos EXCEPT ![d] = p] /\ (p = 100 <=> Got(st) = Total(d))
        BY <2>4, Zenon DEF Arrives
      <4>2. p = 100
        BY <2>0, <3>5, <4>1
      <4>3. stored'[d] = st /\ st \in [Files(d) -> Nat]
        <5>1. stored'[d] = st
          BY <1>0, <2>4, <3>1, ArrivesAt, Zenon
        <5>2. \A g \in [Files(d) -> Nat], x \in Files(d) :
                [g EXCEPT ![x] = @ + 1] \in [Files(d) -> Nat]
          OBVIOUS
        <5>3. st \in [Files(d) -> Nat]
          BY <3>1, <5>2, Zenon
        <5> QED
          BY <5>1, <5>3, Zenon
      <4> HIDE DEF st
      <4>4. StoredCame'
        BY StoredStep DEF FtpNext
      <4>5. ASSUME NEW f \in Files(d) PROVE st[f] \in 0..Size
        <5>1. received'[d][f] <= Size
          BY <1>0, <3>5, Zenon DEF Known
        <5>2. stored'[d][f] <= received'[d][f]
          BY <1>0, <4>4, <5>1, Zenon DEF StoredCame
        <5>3. received'[d] \in [Files(d) -> 0..Size + 1]
          BY <1>0, ThreadTypeStep, Zenon DEF FtpTypeOK
        <5>4. received'[d][f] \in 0..Size + 1 /\ st[f] \in Nat
          BY <4>3, <5>3
        <5> QED
          BY <3>1, <4>3, <5>1, <5>2, <5>4
      <4>6. st \in [Files(d) -> 0..Size]
        BY <4>3, <4>5
      <4>7. Known(d)
        BY <3>3, <3>5
      <4>8. Got(st) = Size * plan[d]
        BY <1>0, <4>1, <4>2, <4>7, TotalBounded, Zenon DEF Known
      <4>9. IsFiniteSet(Files(d)) /\ Cardinality(Files(d)) = plan[d]
        BY <2>0, <3>1, FilesFinite, Zenon
      <4>10. \A f \in Files(d) : st[f] = Size
        BY <4>6, <4>8, <4>9, GotBounded, Zenon
      <4> QED
        BY <1>0, <4>3, <4>10, Zenon DEF Full
    <3> QED
      BY <1>5, <2>0, <3>4, <3>5, Zenon
  <2> QED
    BY <1>2, <2>2, <2>3, <2>4
<1> QED
  BY <1>4, <1>5

\* Neither does the user interface.
LEMMA HundredStep ==
  FtpInv /\ [FtpNext]_ftpVars => HundredFull'
<1> SUFFICES ASSUME FtpInv, [FtpNext]_ftpVars PROVE HundredFull'
  OBVIOUS
<1>0. FtpTypeOK /\ HundredFull /\ plan' = plan /\ Downloads' = Downloads
      /\ \A e : Files(e)' = Files(e)
  BY SamePlan DEF FtpInv, FtpNext, ftpVars
<1>1. ASSUME NEW d \in Downloads, FTP_DownloadDataRecvThread(d) PROVE HundredFull'
  BY <1>0, <1>1, ThreadHundred
<1>2. ASSUME NEW d \in Downloads, recordDownload(d) PROVE HundredFull'
  <2>1. /\ stored' = stored /\ received' = received /\ next' = next /\ iPos' = iPos
        /\ events' = events /\ ftpPc[d] = "none"
        /\ ftpPc' = [ftpPc EXCEPT ![d] = "top"] \/ ftpPc' = [ftpPc EXCEPT ![d] = "done"]
        /\ \A e \in Downloads : e # d => sized'[e] = sized[e]
    BY <1>0, <1>2, Zenon DEF recordDownload, FtpGoto, FtpTypeOK, files
  <2>2. \A e \in Downloads :
          /\ Announced(e)' <=> Announced(e)
          /\ Full(e)' <=> Full(e)
          /\ e # d => (Known(e)' <=> Known(e))
    BY <1>0, <2>1, Zenon DEF Announced, Full, Known
  <2>3. ftpPc'[d] # "none" /\ \A e \in Downloads : e # d => ftpPc'[e] = ftpPc[e]
    BY <1>0, <2>1 DEF FtpTypeOK
  <2>4. iPos[d] # 100 /\ ~Announced(d)
    BY <1>0, <2>1, Zenon DEF HundredFull
  <2>5. \A e \in Downloads :
          /\ ftpPc'[e] = "none" => iPos'[e] # 100 /\ ~Announced(e)'
          /\ Known(e)' /\ iPos'[e] = 100 => Full(e)'
          /\ Known(e)' /\ Announced(e)' => Full(e)' /\ plan[e] < next'[e]
    BY <1>0, <2>1, <2>2, <2>3, <2>4, Zenon DEF HundredFull
  <2> QED
    BY <1>0, <2>5, Zenon DEF HundredFull
<1>3. CASE ShowBar \/ SetValue \/ Joined \/ CloseBox \/ Stick \/ UNCHANGED ftpVars
  <2>1. /\ ftpPc' = ftpPc /\ stored' = stored /\ iPos' = iPos /\ sized' = sized
        /\ next' = next /\ received' = received
        /\ \A e : Announced(e)' => Announced(e)
    BY <1>0, <1>3, UiLeaves
  <2>2. \A e : (Full(e)' <=> Full(e)) /\ (Known(e)' <=> Known(e))
    BY <1>0, <2>1, Zenon DEF Full, Known
  <2> QED
    BY <1>0, <2>1, <2>2, Zenon DEF HundredFull
<1> QED
  BY <1>1, <1>2, <1>3 DEF FtpNext, UiEvent

\* A step of a thread keeps OnlyOne.
LEMMA ThreadOnly ==
  ASSUME FtpInv, NEW d \in Downloads, FTP_DownloadDataRecvThread(d), plan' = plan
  PROVE  OnlyOne'
<1>0. /\ FtpTypeOK /\ OnlyOne /\ Downloads' = Downloads
      /\ Finals = {100, -1, -2, -3} /\ iPos \in [Downloads -> -3..100]
      /\ DOMAIN stored = Downloads
  BY SamePlan DEF FtpInv, FtpTypeOK, Finals
<1>1. sized' = sized /\ handle' = handle /\ shown' = shown
  BY DEF FTP_DownloadDataRecvThread, ui
<1>2. Moves(d) /\ (Quietly(d) \/ Arrives(d) \/ Closes(d))
  BY ThreadShape
<1>3. /\ Moving(d) /\ ftpPc[d] # "none" /\ ftpPc'[d] # "none"
      /\ \A e \in Downloads : e # d => ftpPc'[e] = ftpPc[e]
  BY <1>0, <1>2 DEF Moves, FtpTypeOK, Moving
<1> SUFFICES ASSUME NEW e \in Downloads, Only(e)'
             PROVE  /\ ftpPc'[e] = "none" => events' = <<>> /\ ~shown'
                    /\ Moving(e)' => handle' = e
                    /\ Total(e)' > 0 /\ Got(stored'[e]) = Total(e)'
                         => Hides(e)' \/ (ftpPc'[e] = "close" /\ iPos'[e] = 100)
  BY <1>0, Zenon DEF OnlyOne
<1>4. e = d /\ Only(d)
  BY <1>0, <1>3, Zenon DEF Only
<1>5. /\ Moving(d) => handle = d
      /\ Total(d) > 0 /\ Got(stored[d]) = Total(d)
           => Hides(d) \/ (ftpPc[d] = "close" /\ iPos[d] = 100)
  BY <1>0, <1>4, Zenon DEF OnlyOne
<1>6. handle = d
  BY <1>3, <1>5
<1>7. Total(d)' = Total(d)
  BY <1>1 DEF Total
<1>8. ASSUME NEW p \in -3..100, PftpProc(d, p), p \in Finals PROVE Hides(d)'
  <2>1. events' # <<>> /\ events'[Len(events')] = Bar(d, 0)
    BY <1>0, <1>6, <1>8, CallBack, Zenon
  <2> QED
    BY <2>1, Zenon DEF Hides, Bar
<1>9. ASSUME events' = events, Hides(d) PROVE Hides(d)'
  BY <1>1, <1>9, Zenon DEF Hides, Bar
<1>10. ASSUME Total(d) > 0, Got(stored'[d]) = Total(d)
       PROVE  Hides(d)' \/ (ftpPc'[d] = "close" /\ iPos'[d] = 100)
  <2>1. CASE Quietly(d)
    <3>1. Hides(d)
      BY <1>5, <1>10, <2>1 DEF Quietly
    <3>2. PICK p \in {-3, -2, -1, iPos[d]} : events' = events \/ (p \in {-3, -1} /\ PftpProc(d, p))
      BY <2>1, Zenon DEF Quietly
    <3>3. \A q \in {-3, -1} : q \in -3..100 /\ q \in Finals
      BY <1>0
    <3> QED
      BY <1>8, <1>9, <3>1, <3>2, <3>3, Zenon
  <2>2. CASE Arrives(d)
    <3> DEFINE st == [stored[d] EXCEPT ![next[d]] = @ + 1]
    <3>1. stored' = [stored EXCEPT ![d] = st]
      BY <2>2, Zenon DEF Arrives
    <3>2. PICK p \in 0..100 : /\ iPos' = [iPos EXCEPT ![d] = p]
                              /\ p = 100 <=> Got(st) = Total(d)
                              /\ p = 100 => ftpPc' = [ftpPc EXCEPT ![d] = "close"]
      BY <2>2, Zenon DEF Arrives
    <3> HIDE DEF st
    <3>3. stored'[d] = st
      BY <1>0, <3>1
    <3>4. p = 100
      BY <1>10, <3>2, <3>3, Zenon
    <3>5. ftpPc' = [ftpPc EXCEPT ![d] = "close"]
      BY <3>2, <3>4
    <3>6. ftpPc \in [Downloads -> {"none", "top", "setup", "recv", "close", "done"}]
      BY <1>0 DEF FtpTypeOK
    <3>7. iPos'[d] = 100 /\ ftpPc'[d] = "close"
      BY <1>0, <3>2, <3>4, <3>5, <3>6
    <3> QED
      BY <3>7
  <2>3. CASE Closes(d)
    <3>1. stored' = stored /\ iPos[d] \in -3..100
      BY <1>0, <2>3, DownloadType DEF Closes
    <3>2. Hides(d) \/ iPos[d] = 100
      BY <1>5, <1>10, <3>1, Zenon
    <3>3. IF iPos[d] \in Finals THEN PftpProc(d, iPos[d]) ELSE events' = events
      BY <2>3, Zenon DEF Closes
    <3>4. CASE iPos[d] \in Finals
      BY <1>8, <3>1, <3>3, <3>4
    <3>5. CASE iPos[d] \notin Finals
      <4>1. Hides(d) /\ events' = events
        BY <1>0, <3>2, <3>3, <3>5
      <4> QED
        BY <1>9, <4>1
    <3> QED
      BY <3>4, <3>5
  <2> QED
    BY <1>2, <2>1, <2>2, <2>3
<1> QED
  BY <1>1, <1>3, <1>4, <1>6, <1>7, <1>10, Zenon

\* So does every step of the user interface.
LEMMA OnlyStep ==
  FtpInv /\ [FtpNext]_ftpVars => OnlyOne'
<1> SUFFICES ASSUME FtpInv, [FtpNext]_ftpVars PROVE OnlyOne'
  OBVIOUS
<1>0. /\ FtpTypeOK /\ OnlyOne /\ plan' = plan /\ Downloads' = Downloads
      /\ ftpPc \in [Downloads -> {"none", "top", "setup", "recv", "close", "done"}]
  BY SamePlan DEF FtpInv, FtpTypeOK, FtpNext, ftpVars
<1>1. ASSUME NEW d \in Downloads, FTP_DownloadDataRecvThread(d) PROVE OnlyOne'
  BY <1>0, <1>1, ThreadOnly
<1>2. ASSUME NEW d \in Downloads, recordDownload(d) PROVE OnlyOne'
  <2>1. /\ events' = events /\ shown' = shown /\ ftpPc[d] = "none"
        /\ \/ handle' = d /\ ftpPc' = [ftpPc EXCEPT ![d] = "top"]
           \/ ftpPc' = [ftpPc EXCEPT ![d] = "done"]
    BY <1>2 DEF recordDownload, FtpGoto, ui
  <2>2. /\ ftpPc'[d] # "none" /\ \A e \in Downloads : e # d => ftpPc'[e] = ftpPc[e]
        /\ ftpPc'[d] \in {"top", "setup", "recv", "close"} => handle' = d
    BY <1>0, <2>1
  <2> SUFFICES ASSUME NEW e \in Downloads, Only(e)'
               PROVE  /\ ftpPc'[e] = "none" => events' = <<>> /\ ~shown'
                      /\ Moving(e)' => handle' = e
                      /\ Total(e)' > 0 /\ Got(stored'[e]) = Total(e)'
                         => Hides(e)' \/ (ftpPc'[e] = "close" /\ iPos'[e] = 100)
    BY <1>0, Zenon DEF OnlyOne
  <2>3. e = d /\ Only(d)
    BY <1>0, <2>2, Zenon DEF Only
  <2>4. events' = <<>> /\ ~shown'
    BY <1>0, <2>1, <2>3, Zenon DEF OnlyOne
  <2>5. Hides(d)'
    BY <2>4, Zenon DEF Hides
  <2>6. Moving(d)' => handle' = d
    BY <2>2 DEF Moving
  <2> QED
    BY <2>3, <2>4, <2>5, <2>6, Zenon
<1>3. CASE ShowBar \/ SetValue \/ Joined \/ CloseBox \/ Stick \/ UNCHANGED ftpVars
  <2>0. ftpPc' = ftpPc /\ stored' = stored /\ sized' = sized /\ iPos' = iPos
    BY <1>0, <1>3, UiLeaves
  <2> SUFFICES ASSUME NEW e \in Downloads, Only(e)'
               PROVE  /\ ftpPc[e] = "none" => events' = <<>> /\ ~shown'
                      /\ Moving(e) => handle' = e
                      /\ Total(e)' > 0 /\ Got(stored[e]) = Total(e)'
                         => Hides(e)' \/ (ftpPc[e] = "close" /\ iPos[e] = 100)
    BY <1>0, <2>0, Zenon DEF OnlyOne, Moving
  <2>1. Only(e) /\ Total(e)' = Total(e)
    BY <1>0, <2>0, Zenon DEF Only, Total
  <2>2. /\ ftpPc[e] = "none" => events = <<>> /\ ~shown
        /\ Moving(e) => handle = e
        /\ Total(e) > 0 /\ Got(stored[e]) = Total(e)
             => Hides(e) \/ (ftpPc[e] = "close" /\ iPos[e] = 100)
    BY <1>0, <2>1, Zenon DEF OnlyOne
  <2>3. CASE ShowBar \/ SetValue
    <3>1. /\ events # <<>> /\ events' = Tail(events) /\ handle' = handle
          /\ \/ shown' = (Head(events).v = 1)
             \/ shown' = shown /\ Head(events).to = "value"
      BY <2>3 DEF ShowBar, SetValue
    <3>2. /\ events' # <<>> => events'[Len(events')] = events[Len(events)]
          /\ events' = <<>> => Head(events) = events[Len(events)]
      BY <1>0, <3>1, TailAnnounces
    <3>3. ASSUME Hides(e) PROVE Hides(e)'
      <4>1. events[Len(events)] = Bar(e, 0)
        BY <3>1, <3>3, Zenon DEF Hides
      <4>2. CASE events' # <<>>
        BY <3>2, <4>1, <4>2, Zenon DEF Hides, Bar
      <4>3. CASE events' = <<>>
        <5>1. Head(events).v = 0 /\ Head(events).to = "bar"
          BY <3>2, <4>1, <4>3 DEF Bar
        <5>2. ~shown'
          <6>1. Head(events).v # 1 /\ Head(events).to # "value"
            BY <5>1
          <6> QED
            BY <3>1, <6>1, Zenon
        <5> QED
          BY <4>3, <5>2, Zenon DEF Hides
      <4> QED
        BY <4>2, <4>3
    <3> QED
      BY <2>1, <2>2, <3>1, <3>3, Zenon
  <2>4. CASE Joined
    <3>1. ftpPc[handle] = "done" /\ events' = events /\ shown' = shown
      BY <2>4 DEF Joined
    <3>2. ~Moving(e)
      <4> SUFFICES ASSUME Moving(e) PROVE FALSE
        OBVIOUS
      <4>1. ftpPc[e] = "done"
        BY <2>2, <3>1, Zenon
      <4> QED
        BY <4>1 DEF Moving
    <3>3. Hides(e)' <=> Hides(e)
      BY <3>1, Zenon DEF Hides, Bar
    <3> QED
      BY <2>1, <2>2, <3>1, <3>2, <3>3, Zenon
  <2>5. CASE CloseBox \/ Stick \/ UNCHANGED ftpVars
    <3>1. events' = events /\ shown' = shown /\ handle' = handle
      BY <2>5 DEF CloseBox, Stick, ftpVars, ui
    <3>2. Hides(e)' <=> Hides(e)
      BY <3>1, Zenon DEF Hides, Bar
    <3> QED
      BY <2>1, <2>2, <3>1, <3>2, Zenon
  <2> QED
    BY <1>3, <2>3, <2>4, <2>5
<1> QED
  BY <1>1, <1>2, <1>3 DEF FtpNext, UiEvent

\* FtpInv is the inductive invariant of the downloads (recordplaywidget.cpp and
\* ftpApi.c).
THEOREM FtpInvariant == FtpSpec => []FtpInv
<1>1. FtpInit => FtpInv
  BY FtpInitInv
<1>2. FtpInv /\ [FtpNext]_ftpVars => FtpInv'
  BY FtpTypeStep, PlannedStep, StoredStep, HundredStep, OnlyStep DEF FtpInv
<1> QED
  BY <1>1, <1>2, PTL DEF FtpSpec

\* The variables of the downloads keep their types, whatever is downloaded.
THEOREM FtpTypeCorrect == FtpSpec => []FtpTypeOK
<1>1. FtpInv => FtpTypeOK
  BY DEF FtpInv
<1> QED
  BY <1>1, FtpInvariant, PTL

\* 100 is only reported with every file whole on the stick, for any number of
\* downloads and files, when the server has given the size of each and sends no
\* more of it, and no flush fails (HundredMeansAll; ftpApi.c 1024-1147).
THEOREM HundredCorrect == FtpSpec => []HundredMeansAll
<1>1. ASSUME FtpInv PROVE HundredMeansAll
  <2> SUFFICES ASSUME NEW d \in Downloads, Announced(d), sized[d] = Files(d), unflushed[d] = {},
                      \A f \in Files(d) : received[d][f] <= Size,
                      NEW f \in Files(d)
               PROVE  OnStick(d, f) = Size
    BY Zenon DEF HundredMeansAll
  <2>1. Full(d) /\ plan[d] < next[d]
    BY <1>1, Zenon DEF FtpInv, HundredFull, Known
  <2>2. f < next[d]
    <3>1. plan[d] \in Nat /\ Files(d) = 1..plan[d] /\ next[d] \in Nat
      BY <1>1, DownloadType DEF FtpInv
    <3> QED
      BY <2>1, <3>1
  <2>3. stored[d][f] = Size
    BY <2>1, Zenon DEF Full
  <2> QED
    BY <2>2, <2>3 DEF OnStick
<1> QED
  BY <1>1, FtpInvariant, PTL

\* When the only download has received everything, the bar is hidden in the
\* end, whatever the thread still reports before it is stopped
\* (recordplaywidget.cpp 324-338).
THEOREM FinishedCorrect == FtpSpec => []FinishedHidesBar
<1>1. FtpInv => FinishedHidesBar
  <2> SUFFICES ASSUME FtpInv, NEW d \in Downloads, Total(d) > 0, Got(stored[d]) = Total(d),
                      \A e \in Downloads \ {d} : ftpPc[e] = "none", events = <<>>, handle = 0
               PROVE  ~shown
    BY Zenon DEF FinishedHidesBar
  <2>1. Only(d)
    BY Zenon DEF Only
  <2>2. /\ Moving(d) => handle = d
        /\ Hides(d) \/ ftpPc[d] = "close"
    BY <2>1, Zenon DEF FtpInv, OnlyOne
  <2>3. handle # d
    BY DownloadType DEF FtpInv
  <2>4. Hides(d)
    BY <2>2, <2>3 DEF Moving
  <2> QED
    BY <2>4, Zenon DEF Hides
<1> QED
  BY <1>1, FtpInvariant, PTL
-----------------------------------------------------------------------------
(* RecordPlay.                                                             *)

\* What plays and what is assumed of it are lengths, times are seconds.
LEMMA PlayNumbers ==
  /\ Times \subseteq Nat /\ Unknown \in Nat \ {0}
  /\ Seconds \subseteq Nat
  /\ \A l \in Times \cup {Unknown} : 0..l \subseteq Seconds
<1>1. Lengths \subseteq Nat
  BY PlayAssumption DEF Lengths, ToSet
<1>2. Times \subseteq Nat /\ Unknown \in Nat \ {0}
  BY <1>1, PlayAssumption DEF Times
<1>3. Seconds \subseteq Nat
  <2> SUFFICES ASSUME NEW l \in Lengths \cup {Unknown}, NEW s \in 0..l PROVE s \in Nat
    BY Zenon DEF Seconds
  <2> QED
    BY <1>1, <1>2
<1>4. \A l \in Lengths \cup {Unknown} : 0..l \subseteq Seconds
  BY Zenon DEF Seconds
<1>5. 0..0 \subseteq Seconds
  <2>1. 0..0 \subseteq 0..Unknown
    BY <1>2
  <2> QED
    BY <1>4, <2>1, Zenon
<1> QED
  BY <1>2, <1>3, <1>4, <1>5, Zenon DEF Times

\* A row of the table has a length and may be the one on play.
LEMMA RowOfTable ==
  ASSUME PlayTypeOK, NEW r \in Nat, r < Len(playRows)
  PROVE  /\ playRows[r + 1] \in Times
         /\ r \in {-1} \cup {q - 1 : q \in UNION {DOMAIN t : t \in Tables}}
<1>1. playRows \in Tables /\ playRows \in Seq(Nat \ {0})
  BY PlayAssumption DEF PlayTypeOK
<1>2. r + 1 \in DOMAIN playRows
  BY <1>1
<1>3. playRows[r + 1] \in Times
  <2>1. playRows[r + 1] \in ToSet(playRows)
    BY <1>2, Zenon DEF ToSet
  <2> QED
    BY <1>1, <2>1, Zenon DEF Times, Lengths
<1>4. r + 1 \in UNION {DOMAIN t : t \in Tables}
  BY <1>1, <1>2, Zenon
<1>5. r = (r + 1) - 1
  OBVIOUS
<1> QED
  BY <1>3, <1>4, <1>5, Zenon

\* To play a row of the table keeps the types.
LEMMA PlayRowType ==
  ASSUME PlayTypeOK, NEW r \in Nat, r < Len(playRows), RecordPlayCtrl(r)
  PROVE  PlayTypeOK'
<1>1. media' \in Times /\ m_iRecordIdex' \in {-1} \cup {q - 1 : q \in UNION {DOMAIN t : t \in Tables}}
  BY RowOfTable, Zenon DEF RecordPlayCtrl
<1>2. /\ 0 \in Times /\ 0 \in 0..media' /\ 0 \in Seconds
  BY <1>1, PlayNumbers DEF Times
<1>3. /\ totalplaytime' \in Times /\ iDuration' \in Times /\ m_iPlayRange' \in Times
      /\ playingTime' \in Seconds /\ m_iSliderValue' \in Seconds /\ pos' \in 0..media'
  BY <1>2, Zenon DEF PlayTypeOK, RecordPlayCtrl
<1>4. playRows' = playRows /\ closes' = closes /\ crashed' = crashed
      /\ iTryGetPlayRangeNum' = iTryGetPlayRangeNum
  BY DEF RecordPlayCtrl
<1>5. /\ playPc' \in {"none", "top", "range", "set", "check", "value", "compare"}
      /\ recordPlayFlag' \in {0, 1} /\ m_iPlayFlag' \in {0, 1}
      /\ playerState' \in {"Stopped", "Playing", "Paused"}
  BY DEF PlayTypeOK, RecordPlayCtrl
<1> QED
  BY <1>1, <1>3, <1>4, <1>5 DEF PlayTypeOK

\* To close the playback keeps the types, when closes keeps its own.
LEMMA CloseType ==
  ASSUME PlayTypeOK, ClosePlayback, closes' \in 0..MaxCloses
  PROVE  PlayTypeOK'
<1>1. media' = media /\ 0 \in 0..media /\ 0 \in Seconds
  BY PlayNumbers DEF ClosePlayback, PlayTypeOK, Times
<1>2. pos' \in 0..media' /\ playingTime' \in Seconds
  BY <1>1 DEF ClosePlayback, PlayTypeOK
<1>3. UNCHANGED <<playRows, media, totalplaytime, m_iPlayRange, m_iSliderValue, playPc,
                  iDuration, iTryGetPlayRangeNum, crashed>>
  BY DEF ClosePlayback, playThread
<1>4. /\ m_iRecordIdex' = -1 /\ recordPlayFlag' = 0 /\ m_iPlayFlag' = 0
      /\ playerState' = "Stopped"
  BY DEF ClosePlayback, ClosePlayWin
<1> QED
  BY <1>2, <1>3, <1>4 DEF PlayTypeOK

\* The thread keeps the types.
LEMMA ThreadType ==
  ASSUME PlayTypeOK, SlideValueSetThread
  PROVE  PlayTypeOK'
<1> USE DEF AtLine, ToLine, Steps, playPage, medium, times
<1>1. CASE Top
  BY <1>1 DEF PlayTypeOK, Top
<1>2. CASE GetRange
  BY <1>2, PlayAssumption DEF PlayTypeOK, GetRange
<1>3. CASE SetRange
  BY <1>3 DEF PlayTypeOK, SetRange
<1>4. CASE Check
  BY <1>4 DEF PlayTypeOK, Check
<1>5. CASE GetValue
  BY <1>5 DEF PlayTypeOK, GetValue
<1>6. CASE Compare
  BY <1>6, PlayAssumption DEF PlayTypeOK, Compare
<1> QED
  BY <1>1, <1>2, <1>3, <1>4, <1>5, <1>6 DEF SlideValueSetThread

\* The player and its signals keep the types: it is never behind its end.
LEMMA PlayerType ==
  ASSUME PlayTypeOK, Player
  PROVE  PlayTypeOK'
<1> USE DEF playPage, medium, times, slider, playThread
<1>1. CASE PositionChanged
  <2>1. media \in Nat /\ 0..media \subseteq Seconds
    BY PlayNumbers DEF PlayTypeOK
  <2>2. media' = media /\ pos' \in 0..media
    BY <1>1, <2>1 DEF PlayTypeOK, PositionChanged
  <2>3. playingTime' \in Seconds
    BY <1>1, <2>1, <2>2, Zenon DEF PositionChanged
  <2> QED
    BY <1>1, <2>2, <2>3 DEF PlayTypeOK, PositionChanged
<1>2. CASE EndOfMedia
  BY <1>2 DEF PlayTypeOK, EndOfMedia
<1>3. CASE DurationChanged
  BY <1>3 DEF PlayTypeOK, DurationChanged
<1> QED
  BY <1>1, <1>2, <1>3 DEF Player

\* The operator keeps the types: the next row and the one before are in the
\* table, or the program ends.
LEMMA OperatorType ==
  ASSUME PlayTypeOK, PlayOperator
  PROVE  PlayTypeOK'
<1> USE DEF playPage, medium, times, slider, playThread
<1>0. /\ Len(playRows) \in Nat /\ m_iRecordIdex \in Int /\ m_iRecordIdex >= -1
  <2>1. \A t \in Tables : t \in Seq(Nat \ {0}) /\ DOMAIN t \subseteq Nat \ {0}
    BY PlayAssumption
  <2>2. <<>> \in Seq(Nat \ {0})
    OBVIOUS
  <2>3. playRows \in Seq(Nat \ {0})
    BY <2>1, <2>2, Zenon DEF PlayTypeOK
  <2>4. UNION {DOMAIN t : t \in Tables} \subseteq Nat \ {0}
    BY <2>1, Zenon
  <2>5. m_iRecordIdex \in {-1} \cup {r - 1 : r \in Nat \ {0}}
    BY <2>4, Zenon DEF PlayTypeOK
  <2> QED
    BY <2>3, <2>5
<1>1. CASE PlayRow
  BY <1>0, <1>1, PlayRowType DEF PlayRow
<1>2. CASE NextOne
  BY <1>0, <1>2, PlayRowType DEF NextOne
<1>3. CASE LastOne
  <2>1. CASE m_iRecordIdex - 1 < Len(playRows)
    BY <1>0, <1>3, <2>1, PlayRowType DEF LastOne
  <2>2. CASE ~(m_iRecordIdex - 1 < Len(playRows))
    BY <1>3, <2>2 DEF LastOne, PlayTypeOK
  <2> QED
    BY <2>1, <2>2
<1>4. CASE PlayButton
  BY <1>4 DEF PlayButton, PlayTypeOK
<1>5. CASE StopPlayback
  BY <1>5, CloseType DEF StopPlayback, PlayTypeOK
<1>6. CASE Seek
  <2>1. 1..totalplaytime \subseteq Seconds /\ 1..m_iPlayRange \subseteq Seconds
    <3>1. 0..totalplaytime \subseteq Seconds /\ 0..m_iPlayRange \subseteq Seconds
      BY PlayNumbers DEF PlayTypeOK
    <3>2. totalplaytime \in Nat /\ m_iPlayRange \in Nat
      BY PlayNumbers DEF PlayTypeOK
    <3> QED
      BY <3>1, <3>2
  <2>2. playingTime' \in Seconds
    BY <1>6, <2>1, Zenon DEF Seek
  <2>3. media' = media /\ pos' \in 0..media'
    <3>1. media \in Nat
      BY PlayNumbers DEF PlayTypeOK
    <3> QED
      BY <1>6, <3>1 DEF Seek
  <2>4. UNCHANGED <<playRows, m_iRecordIdex, recordPlayFlag, crashed, playerState,
                    totalplaytime, m_iPlayRange, m_iSliderValue, playPc, iDuration,
                    iTryGetPlayRangeNum, closes>> /\ m_iPlayFlag' = 1
    BY <1>6 DEF Seek
  <2>5. m_iRecordIdex' \in {-1} \cup {r - 1 : r \in UNION {DOMAIN t : t \in Tables}}
    BY <2>4, Zenon DEF PlayTypeOK
  <2>6. /\ {media', totalplaytime', iDuration'} \subseteq Times
        /\ m_iPlayRange' \in Times \cup {Unknown} /\ m_iSliderValue' \in Seconds
    BY <2>3, <2>4, Zenon DEF PlayTypeOK
  <2> QED
    BY <2>2, <2>3, <2>4, <2>5, <2>6 DEF PlayTypeOK
<1>7. CASE NewTable
  BY <1>7 DEF NewTable, PlayTypeOK
<1> QED
  BY <1>1, <1>2, <1>3, <1>4, <1>5, <1>6, <1>7, Zenon DEF PlayOperator

\* The variables of the play-back keep their types, for recordings of any
\* length and any tables: the row on play has been in a table, no recording is
\* played behind its end, and the slider's range is the length of a recording
\* or the one assumed.
THEOREM PlayTypeCorrect == PlaySpec => []PlayTypeOK
<1>1. PlayInit => PlayTypeOK
  <2> SUFFICES ASSUME PlayInit PROVE PlayTypeOK
    OBVIOUS
  <2>1. 0 \in 0..0 /\ 0 \in 0..Tries /\ Tries \in 0..Tries /\ 0 \in 0..MaxCloses
    BY PlayAssumption
  <2>2. 0 \in Times
    BY DEF Times
  <2>3. 0 \in Seconds
    BY <2>1, <2>2, PlayNumbers, Zenon
  <2> QED
    BY <2>1, <2>2, <2>3 DEF PlayInit, PlayTypeOK
<1>2. PlayTypeOK /\ [PlayNext]_playVars => PlayTypeOK'
  <2> SUFFICES ASSUME PlayTypeOK, [PlayNext]_playVars PROVE PlayTypeOK'
    OBVIOUS
  <2>1. CASE Player
    BY <2>1, PlayerType
  <2>2. CASE SlideValueSetThread
    BY <2>2, ThreadType
  <2>3. CASE PlayOperator
    BY <2>3, OperatorType
  <2>4. CASE CloseRecordPlaySlot
    <3>1. closes' \in 0..MaxCloses
      BY <2>4, PlayAssumption DEF CloseRecordPlaySlot, PlayTypeOK
    <3> QED
      BY <2>4, <3>1, CloseType, Zenon DEF CloseRecordPlaySlot
  <2>5. CASE UNCHANGED playVars
    BY <2>5 DEF playVars, playPage, medium, times, slider, playThread, PlayTypeOK
  <2> QED
    BY <2>1, <2>2, <2>3, <2>4, <2>5, Zenon DEF PlayNext, Gone
<1> QED
  BY <1>1, <1>2, PTL DEF PlaySpec
=============================================================================
