---------------------------- MODULE LogFileProofs ---------------------------
(***************************************************************************)
(* The log of log.c, for any threads, any length and any number of records *)
(* cut: until a kill cuts a copy short, the log holds the records up to    *)
(* the newest without a gap, and as many of them as it should keep.        *)
(***************************************************************************)
EXTENDS LogFile, FiniteSetTheorems, SequenceTheorems, TLAPS

\* Threads that have been let in and have not written their record yet.
Pending == {t \in Threads : pc[t] \in {"lock", "write", "shorten"}}
\* The thread has locked the mutex.
Inside(t) == pc[t] \notin {"idle", "lock"}

\* No more records are written than are allowed, and counted than written.
Bounds ==
  /\ last + Cardinality(Pending) <= MaxRecords
  /\ Len(log) <= last /\ Len(tmp) <= last /\ g_iLogCount <= last
  /\ \A t \in Threads :
       /\ pc[t] = "shorten" => g_iLogCount >= MAX_LOG_NUMBER + Cut
       /\ pc[t] \in {"truncate", "copy"} => g_iLogCount + 1 <= last

\* One thread at a time, and the mutex is held while it is inside.
Exclusion ==
  \A t \in Threads : Inside(t) =>
    g_tLogMutex /\ \A u \in Threads : Inside(u) => u = t

\* s holds the records up to j without a gap.
Ends(s, j) == \A i \in 1..Len(s) : s[i] = j - Len(s) + i

\* What the files hold, and what is counted, while none is being copied and
\* while one is.
Kept ==
  /\ Ends(log, last) /\ g_iLogCount = Len(log)
  /\ Len(log) <= MAX_LOG_NUMBER + Cut
  /\ Len(log) = last \/ Len(log) > MAX_LOG_NUMBER
\* The records that stay are in the second file.
InTmp ==
  /\ Ends(tmp, last) /\ Len(tmp) = MAX_LOG_NUMBER + 1 /\ g_iLogCount = MAX_LOG_NUMBER
\* As many of them as have been copied back are the first.
Copied == Len(log) <= Len(tmp) /\ \A i \in 1..Len(log) : log[i] = tmp[i]
\* The two files, line by line of the function.
Contents ==
  /\ (\A t \in Threads : pc[t] \notin {"truncate", "copy"}) => Kept
  /\ \A t \in Threads : pc[t] \in {"truncate", "copy"} => InTmp
  /\ \A t \in Threads : pc[t] = "copy" => Copied

\* A kill in the middle of the copy damages the log: the contents are claimed
\* until then.
IInv == TypeOK /\ Bounds /\ Exclusion /\ (~damaged => Contents)

-----------------------------------------------------------------------------
(* Types and bounds.                                                       *)

\* A thread that is let in, and one that has written, change who is pending.
LEMMA PendingStep ==
  ASSUME TypeOK, NEW t \in Threads, NEW l, pc' = [pc EXCEPT ![t] = l]
  PROVE  /\ IsFiniteSet(Pending) /\ Cardinality(Pending) \in Nat /\ Cardinality(Pending') \in Nat
         /\ t \notin Pending /\ l = "lock" => Cardinality(Pending') = Cardinality(Pending) + 1
         /\ t \in Pending /\ l \notin {"lock", "write", "shorten"} =>
              Cardinality(Pending') = Cardinality(Pending) - 1
         /\ Cardinality(Pending') <= Cardinality(Pending) \/ t \notin Pending
         /\ t \notin Pending /\ l \notin {"lock", "write", "shorten"} => Pending' = Pending
<1>1. IsFiniteSet(Pending) /\ IsFiniteSet(Pending')
  BY FS_Subset, LogAssumption DEF Pending
<1>2. Cardinality(Pending) \in Nat /\ Cardinality(Pending') \in Nat
  BY <1>1, FS_CardinalityType
<1>3. Pending' = IF l \in {"lock", "write", "shorten"} THEN Pending \cup {t} ELSE Pending \ {t}
  BY DEF Pending, TypeOK
<1>4. /\ Cardinality(Pending \cup {t}) = IF t \in Pending THEN Cardinality(Pending)
                                         ELSE Cardinality(Pending) + 1
      /\ Cardinality(Pending \ {t}) = IF t \in Pending THEN Cardinality(Pending) - 1
                                      ELSE Cardinality(Pending)
  BY <1>1, FS_AddElement, FS_RemoveElement
<1>5. t \notin Pending => Pending \ {t} = Pending
  OBVIOUS
<1> QED
  BY <1>1, <1>2, <1>3, <1>4, <1>5

\* Cutting leaves no more than there was, and nothing when there was less.
LEMMA CutLength ==
  ASSUME TypeOK
  PROVE  /\ WithoutOldest(log) \in Seq(1..MaxRecords)
         /\ Len(WithoutOldest(log)) = IF Len(log) >= Cut THEN Len(log) - Cut ELSE 0
         /\ \A i \in 1..Len(WithoutOldest(log)) : WithoutOldest(log)[i] = log[i + Cut]
<1>1. Cut \in Nat \ {0} /\ log \in Seq(1..MaxRecords) /\ Len(log) \in Nat
  BY LogAssumption DEF TypeOK
<1>2. \A i \in (Cut + 1)..Len(log) : log[i] \in 1..MaxRecords
  <2> SUFFICES ASSUME NEW i \in (Cut + 1)..Len(log) PROVE log[i] \in 1..MaxRecords
    OBVIOUS
  <2>1. i \in 1..Len(log)
    BY <1>1
  <2> QED
    BY <1>1, <2>1, ElementOfSeq
<1>3. Cut + 1 \in Int /\ Len(log) \in Int
  BY <1>1
<1> DEFINE s == SubSeq(log, Cut + 1, Len(log))
<1>4. /\ s \in Seq(1..MaxRecords)
      /\ Len(s) = IF Cut + 1 <= Len(log) THEN Len(log) - (Cut + 1) + 1 ELSE 0
      /\ \A i \in 1..(Len(log) - (Cut + 1) + 1) : s[i] = log[(Cut + 1) + i - 1]
  BY <1>2, <1>3, SubSeqProperties
<1>5. WithoutOldest(log) = s
  BY DEF WithoutOldest
<1> HIDE DEF s
<1>6. Len(s) = IF Len(log) >= Cut THEN Len(log) - Cut ELSE 0
  BY <1>1, <1>4
<1>7. \A i \in 1..Len(s) : s[i] = log[i + Cut]
  <2> SUFFICES ASSUME NEW i \in 1..Len(s) PROVE s[i] = log[i + Cut]
    OBVIOUS
  <2>1. i \in 1..(Len(log) - (Cut + 1) + 1) /\ (Cut + 1) + i - 1 = i + Cut
    BY <1>1, <1>6
  <2> QED
    BY <1>4, <2>1
<1> QED
  BY <1>4, <1>5, <1>6, <1>7

\* Types and numbers of records are kept by every step.
LEMMA BoundsStep ==
  ASSUME TypeOK, Bounds, Exclusion, [Next]_vars
  PROVE  TypeOK' /\ Bounds'
<1>1. /\ MAX_LOG_NUMBER \in Nat \ {0} /\ Cut \in Nat \ {0} /\ MaxRecords \in Nat \ {0}
      /\ log \in Seq(1..MaxRecords) /\ tmp \in Seq(1..MaxRecords)
      /\ Len(log) \in Nat /\ Len(tmp) \in Nat /\ last \in Nat /\ g_iLogCount \in Nat
  BY LogAssumption DEF TypeOK
<1>2. ASSUME NEW t \in Threads, Begin(t) PROVE TypeOK' /\ Bounds'
  <2> DEFINE busy == {u \in Threads : pc[u] # "idle"}
  <2>1. /\ pc[t] = "idle" /\ last + Cardinality(busy) < MaxRecords
        /\ pc' = [pc EXCEPT ![t] = "lock"]
        /\ UNCHANGED <<log, tmp, g_iLogCount, g_tLogMutex, last, damaged>>
    BY <1>2 DEF Begin, Goto
  <2>2. Cardinality(Pending) <= Cardinality(busy) /\ Cardinality(busy) \in Nat
    <3>1. IsFiniteSet(busy)
      BY FS_Subset, LogAssumption
    <3>2. Pending \subseteq busy
      BY DEF Pending
    <3> HIDE DEF busy
    <3> QED
      BY <3>1, <3>2, FS_Subset, FS_CardinalityType
  <2>3. t \notin Pending
    BY <2>1 DEF Pending
  <2>4. Cardinality(Pending') = Cardinality(Pending) + 1 /\ Cardinality(Pending) \in Nat
    BY <2>1, <2>3, PendingStep
  <2> HIDE DEF busy
  <2>5. last' + Cardinality(Pending') <= MaxRecords
    BY <1>1, <2>1, <2>2, <2>4
  <2>6. TypeOK'
    BY <2>1 DEF TypeOK
  <2> QED
    BY <2>1, <2>5, <2>6 DEF Bounds, TypeOK
<1>3. ASSUME NEW t \in Threads, WriteLog(t) PROVE TypeOK' /\ Bounds'
  <2>1. ASSUME NEW l \in {"write", "shorten"}, pc' = [pc EXCEPT ![t] = l], t \in Pending,
               UNCHANGED <<log, g_iLogCount, last, damaged>>,
               tmp' \in {tmp, <<>>}, g_tLogMutex' \in BOOLEAN,
               l = "shorten" => g_iLogCount >= MAX_LOG_NUMBER + Cut
        PROVE  TypeOK' /\ Bounds'
    <3>1. Cardinality(Pending') <= Cardinality(Pending) /\ Cardinality(Pending) \in Nat
          /\ Cardinality(Pending') \in Nat
      BY <2>1, PendingStep
    <3>2. tmp' \in Seq(1..MaxRecords) /\ Len(tmp') <= last
      <4>1. <<>> \in Seq(1..MaxRecords) /\ Len(<<>>) = 0
        OBVIOUS
      <4>2. Len(tmp) <= last /\ 0 <= last
        BY <1>1 DEF Bounds
      <4>3. CASE tmp' = tmp
        BY <1>1, <4>2, <4>3
      <4>4. CASE tmp' = <<>>
        BY <4>1, <4>2, <4>4
      <4> QED
        BY <2>1, <4>3, <4>4
    <3>3. TypeOK'
      BY <2>1, <3>2 DEF TypeOK
    <3>4. last' + Cardinality(Pending') <= MaxRecords
      BY <1>1, <2>1, <3>1 DEF Bounds
    <3> QED
      BY <2>1, <3>2, <3>3, <3>4 DEF Bounds, TypeOK
  <2>2. CASE Lock(t) \/ OpenTmp(t)
    <3>1. t \in Pending
      BY <2>2 DEF Lock, OpenTmp, Pending
    <3> QED
      BY <2>1, <2>2, <3>1 DEF Lock, OpenTmp, Goto, TypeOK
  <2>3. ASSUME NEW l \in {"idle", "truncate", "copy"}, pc' = [pc EXCEPT ![t] = l],
               log' \in Seq(1..MaxRecords), tmp' \in Seq(1..MaxRecords),
               g_tLogMutex' \in BOOLEAN, damaged' \in BOOLEAN,
               g_iLogCount' \in Nat, g_iLogCount' <= last', Len(log') <= last', Len(tmp') <= last',
               l \in {"truncate", "copy"} => g_iLogCount' + 1 <= last',
               \A u \in Threads : u # t => pc[u] \in {"idle", "lock"},
               last' = last \/ (t \in Pending /\ last' = last + 1)
        PROVE  TypeOK' /\ Bounds'
    <3>1. /\ last' + Cardinality(Pending') <= last + Cardinality(Pending)
          /\ Cardinality(Pending) \in Nat /\ Cardinality(Pending') \in Nat
      <4>0. l \notin {"lock", "write", "shorten"}
        BY <2>3
      <4>1. CASE t \in Pending
        <5>1. /\ Cardinality(Pending') = Cardinality(Pending) - 1
              /\ Cardinality(Pending) \in Nat /\ Cardinality(Pending') \in Nat
          BY <2>3, <4>0, <4>1, PendingStep
        <5> QED
          BY <1>1, <2>3, <5>1
      <4>2. CASE t \notin Pending
        <5>1. Pending' = Pending
          BY <2>3, <4>0, <4>2, PendingStep
        <5>2. Cardinality(Pending) \in Nat
          BY <2>3, PendingStep
        <5> QED
          BY <1>1, <2>3, <4>2, <5>1, <5>2
      <4> QED
        BY <4>1, <4>2
    <3>2. last' + Cardinality(Pending') <= MaxRecords /\ last' \in 0..MaxRecords
      BY <1>1, <2>3, <3>1 DEF Bounds
    <3>3. TypeOK'
      BY <1>1, <2>3, <3>2 DEF TypeOK
    <3>4. \A u \in Threads : pc'[u] # "shorten"
      BY <2>3 DEF TypeOK
    <3>5. \A u \in Threads : pc'[u] \in {"truncate", "copy"} => g_iLogCount' + 1 <= last'
      BY <2>3 DEF TypeOK
    <3> QED
      BY <2>3, <3>2, <3>3, <3>4, <3>5 DEF Bounds
  <2>4. ASSUME pc[t] \in {"write", "shorten", "truncate", "copy"}
        PROVE  \A u \in Threads : u # t => pc[u] \in {"idle", "lock"}
    BY <2>4 DEF Exclusion, Inside, TypeOK
  <2>5. CASE OpenFails(t)
    <3>1. /\ pc[t] = "write" /\ pc' = [pc EXCEPT ![t] = "idle"] /\ g_tLogMutex' = FALSE
          /\ UNCHANGED <<log, tmp, g_iLogCount, last, damaged>>
      BY <2>5 DEF OpenFails, Return, Goto
    <3>2. \A u \in Threads : u # t => pc[u] \in {"idle", "lock"}
      BY <2>4, <3>1
    <3>3. g_iLogCount' <= last' /\ Len(log') <= last' /\ Len(tmp') <= last'
      BY <3>1 DEF Bounds
    <3>4. /\ log' \in Seq(1..MaxRecords) /\ tmp' \in Seq(1..MaxRecords)
          /\ g_tLogMutex' \in BOOLEAN /\ damaged' \in BOOLEAN
          /\ g_iLogCount' \in Nat /\ last' = last
      BY <1>1, <3>1 DEF TypeOK
    <3>5. pc' = [pc EXCEPT ![t] = "idle"]
      BY <3>1
    <3> QED
      BY <2>3, <3>2, <3>3, <3>4, <3>5
  <2>6. CASE AppendRecord(t)
    <3>1. /\ pc[t] = "write" /\ pc' = [pc EXCEPT ![t] = "idle"] /\ g_tLogMutex' = FALSE
          /\ log' = Append(log, last + 1) /\ last' = last + 1
          /\ g_iLogCount' = g_iLogCount + 1 /\ UNCHANGED <<tmp, damaged>>
      BY <2>6 DEF AppendRecord, Return, Goto
    <3>2. t \in Pending /\ last + 1 \in 1..MaxRecords
      <4>1. t \in Pending
        BY <3>1 DEF Pending
      <4>2. Cardinality(Pending) \in Nat /\ Cardinality(Pending) # 0
        <5>1. IsFiniteSet(Pending)
          BY FS_Subset, LogAssumption DEF Pending
        <5> QED
          BY <4>1, <5>1, FS_EmptySet, FS_CardinalityType
      <4> QED
        BY <1>1, <4>1, <4>2 DEF Bounds
    <3>3. log' \in Seq(1..MaxRecords) /\ Len(log') = Len(log) + 1
      BY <1>1, <3>1, <3>2
    <3>4. g_iLogCount' <= last' /\ Len(log') <= last' /\ Len(tmp') <= last' /\ g_iLogCount' \in Nat
      BY <1>1, <3>1, <3>3 DEF Bounds
    <3> QED
      BY <1>1, <2>3, <2>4, <3>1, <3>2, <3>3, <3>4 DEF TypeOK
  <2>7. CASE Shorten(t)
    <3>1. /\ pc[t] = "shorten" /\ pc' = [pc EXCEPT ![t] = "truncate"]
          /\ tmp' = Append(WithoutOldest(log), last + 1) /\ last' = last + 1
          /\ g_iLogCount' = g_iLogCount - Cut /\ UNCHANGED <<log, g_tLogMutex, damaged>>
      BY <2>7 DEF Shorten, Goto
    <3>2. t \in Pending /\ last + 1 \in 1..MaxRecords
      <4>1. t \in Pending
        BY <3>1 DEF Pending
      <4>2. Cardinality(Pending) \in Nat /\ Cardinality(Pending) # 0
        <5>1. IsFiniteSet(Pending)
          BY FS_Subset, LogAssumption DEF Pending
        <5> QED
          BY <4>1, <5>1, FS_EmptySet, FS_CardinalityType
      <4> QED
        BY <1>1, <4>1, <4>2 DEF Bounds
    <3>3. tmp' \in Seq(1..MaxRecords) /\ Len(tmp') = Len(WithoutOldest(log)) + 1
      BY <3>1, <3>2, CutLength
    <3>4. Len(tmp') <= last'
      BY <1>1, <3>1, <3>3, CutLength DEF Bounds
    <3>5. g_iLogCount' \in Nat /\ g_iLogCount' + 1 <= last' /\ g_iLogCount' <= last' /\ Len(log') <= last'
      BY <1>1, <3>1 DEF Bounds
    <3> QED
      BY <1>1, <2>3, <2>4, <3>1, <3>2, <3>3, <3>4, <3>5 DEF TypeOK
  <2>8. CASE CopyFails(t) \/ CopyDone(t)
    <3>1. /\ pc[t] \in {"truncate", "copy"} /\ pc' = [pc EXCEPT ![t] = "idle"]
          /\ g_tLogMutex' = FALSE /\ g_iLogCount' = g_iLogCount + 1
          /\ damaged' \in BOOLEAN /\ UNCHANGED <<log, tmp, last>>
      BY <2>8 DEF CopyFails, CopyDone, Return, Goto, TypeOK
    <3>2. \A u \in Threads : u # t => pc[u] \in {"idle", "lock"}
      BY <2>4, <3>1
    <3>3. /\ g_iLogCount' \in Nat /\ g_iLogCount' <= last'
          /\ Len(log') <= last' /\ Len(tmp') <= last'
      BY <1>1, <3>1 DEF Bounds
    <3>4. /\ log' \in Seq(1..MaxRecords) /\ tmp' \in Seq(1..MaxRecords)
          /\ g_tLogMutex' \in BOOLEAN /\ damaged' \in BOOLEAN
          /\ last' = last
      BY <1>1, <3>1 DEF TypeOK
    <3>5. pc' = [pc EXCEPT ![t] = "idle"]
      BY <3>1
    <3> QED
      BY <2>3, <3>2, <3>3, <3>4, <3>5
  <2>9. CASE CopyOpen(t)
    <3>1. /\ pc[t] = "truncate" /\ pc' = [pc EXCEPT ![t] = "copy"] /\ log' = <<>>
          /\ UNCHANGED <<tmp, g_iLogCount, g_tLogMutex, last, damaged>>
      BY <2>9 DEF CopyOpen, Goto
    <3>2. log' \in Seq(1..MaxRecords) /\ Len(log') = 0
      BY <3>1
    <3>3. \A u \in Threads : u # t => pc[u] \in {"idle", "lock"}
      BY <2>4, <3>1
    <3>4. g_iLogCount' + 1 <= last' /\ g_iLogCount' <= last' /\ Len(log') <= last' /\ Len(tmp') <= last'
      BY <1>1, <3>1, <3>2 DEF Bounds
    <3>5. /\ log' \in Seq(1..MaxRecords) /\ tmp' \in Seq(1..MaxRecords)
          /\ g_tLogMutex' \in BOOLEAN /\ damaged' \in BOOLEAN
          /\ g_iLogCount' \in Nat /\ last' = last
      BY <1>1, <3>1, <3>2 DEF TypeOK
    <3>6. pc' = [pc EXCEPT ![t] = "copy"]
      BY <3>1
    <3> QED
      BY <2>3, <3>3, <3>4, <3>5, <3>6
  <2>10. CASE CopyBlock(t)
    <3>1. /\ pc[t] = "copy" /\ Len(log) < Len(tmp) /\ log' = Append(log, tmp[Len(log) + 1])
          /\ UNCHANGED <<tmp, g_iLogCount, g_tLogMutex, pc, last, damaged>>
      BY <2>10 DEF CopyBlock
    <3>2. tmp[Len(log) + 1] \in 1..MaxRecords
      BY <1>1, <3>1
    <3>3. log' \in Seq(1..MaxRecords) /\ Len(log') = Len(log) + 1
      BY <1>1, <3>1, <3>2
    <3>4. Len(log') <= last
      BY <1>1, <3>1, <3>3 DEF Bounds
    <3>5. TypeOK'
      BY <3>1, <3>3 DEF TypeOK
    <3>6. Pending' = Pending
      BY <3>1 DEF Pending
    <3> QED
      BY <3>1, <3>4, <3>5, <3>6 DEF Bounds
  <2> QED
    BY <1>3, <2>2, <2>5, <2>6, <2>7, <2>8, <2>9, <2>10 DEF WriteLog
<1>4. ASSUME Restart PROVE TypeOK' /\ Bounds'
  <2>1. /\ g_tLogMutex' = FALSE /\ pc' = [t \in Threads |-> "idle"]
        /\ g_iLogCount' = Len(log) /\ damaged' \in BOOLEAN /\ UNCHANGED <<log, tmp, last>>
    BY <1>4 DEF Restart, TypeOK
  <2>2. Pending' = {}
    BY <2>1 DEF Pending
  <2>3. Cardinality(Pending') = 0
    BY <2>2, FS_EmptySet
  <2>4. TypeOK'
    <3>1. g_iLogCount' \in 0..MaxRecords
      BY <1>1, <2>1 DEF Bounds, TypeOK
    <3> QED
      BY <2>1, <3>1 DEF TypeOK
  <2> QED
    BY <1>1, <2>1, <2>3, <2>4 DEF Bounds, TypeOK
<1>5. ASSUME UNCHANGED vars PROVE TypeOK' /\ Bounds'
  BY <1>5 DEF vars, TypeOK, Bounds, Pending
<1> QED
  BY <1>2, <1>3, <1>4, <1>5 DEF Next

-----------------------------------------------------------------------------
(* One thread at a time.                                                   *)

\* The mutex admits one thread, until it returns or the process dies.
LEMMA ExclusionStep ==
  ASSUME TypeOK, Exclusion, [Next]_vars
  PROVE  Exclusion'
<1> USE DEF TypeOK, Exclusion, Inside, Goto, Return
<1>1. ASSUME NEW t \in Threads, Begin(t) PROVE Exclusion'
  BY <1>1 DEF Begin
<1>2. ASSUME NEW t \in Threads, WriteLog(t) PROVE Exclusion'
  <2>1. CASE Lock(t)
    BY <2>1 DEF Lock
  <2>2. CASE OpenFails(t) \/ AppendRecord(t) \/ CopyFails(t) \/ CopyDone(t)
    BY <2>2 DEF OpenFails, AppendRecord, CopyFails, CopyDone
  <2>3. CASE OpenTmp(t) \/ Shorten(t) \/ CopyOpen(t) \/ CopyBlock(t)
    BY <2>3 DEF OpenTmp, Shorten, CopyOpen, CopyBlock
  <2> QED
    BY <1>2, <2>1, <2>2, <2>3 DEF WriteLog
<1>3. ASSUME Restart PROVE Exclusion'
  BY <1>3 DEF Restart
<1>4. ASSUME UNCHANGED vars PROVE Exclusion'
  BY <1>4 DEF vars
<1> QED
  BY <1>1, <1>2, <1>3, <1>4 DEF Next

-----------------------------------------------------------------------------
(* What the files hold.                                                    *)

\* Writing the next record keeps the records without a gap.
LEMMA AppendEnds ==
  ASSUME NEW s \in Seq(1..MaxRecords), NEW j \in Nat, Ends(s, j)
  PROVE  Ends(Append(s, j + 1), j + 1)
<1> DEFINE a == Append(s, j + 1)
<1>1. Len(s) \in Nat /\ Len(a) = Len(s) + 1 /\ a[Len(s) + 1] = j + 1
      /\ \A i \in 1..Len(s) : a[i] = s[i]
  OBVIOUS
<1> HIDE DEF a
<1>2. \A i \in 1..Len(a) : a[i] = (j + 1) - Len(a) + i
  <2> SUFFICES ASSUME NEW i \in 1..Len(a) PROVE a[i] = (j + 1) - Len(a) + i
    OBVIOUS
  <2>1. CASE i \in 1..Len(s)
    BY <1>1, <2>1 DEF Ends
  <2>2. CASE i = Len(s) + 1
    BY <1>1, <2>2
  <2> QED
    BY <1>1, <2>1, <2>2
<1> QED
  BY <1>2 DEF Ends, a

\* So does cutting off the oldest ones.
LEMMA CutEnds ==
  ASSUME TypeOK, Ends(log, last), Len(log) >= Cut
  PROVE  Ends(WithoutOldest(log), last)
<1> DEFINE s == WithoutOldest(log)
<1>1. Len(s) = Len(log) - Cut /\ \A i \in 1..Len(s) : s[i] = log[i + Cut]
  BY CutLength
<1> HIDE DEF s
<1>2. Cut \in Nat /\ Len(log) \in Nat /\ last \in Nat
  BY LogAssumption DEF TypeOK
<1>3. ASSUME NEW i \in 1..Len(s) PROVE s[i] = last - Len(s) + i
  <2>1. i + Cut \in 1..Len(log)
    BY <1>1, <1>2
  <2>2. log[i + Cut] = last - Len(log) + (i + Cut)
    BY <2>1 DEF Ends
  <2> QED
    BY <1>1, <1>2, <2>2
<1> QED
  BY <1>3 DEF Ends, s

\* Every step keeps the newest records where Contents says.
LEMMA ContentsStep ==
  ASSUME TypeOK, Bounds, Exclusion, ~damaged => Contents, [Next]_vars, ~damaged'
  PROVE  Contents'
<1>0. /\ MAX_LOG_NUMBER \in Nat \ {0} /\ Cut \in Nat \ {0}
      /\ log \in Seq(1..MaxRecords) /\ tmp \in Seq(1..MaxRecords)
      /\ Len(log) \in Nat /\ Len(tmp) \in Nat /\ last \in Nat /\ g_iLogCount \in Nat
  BY LogAssumption DEF TypeOK
<1>1. ~damaged /\ Contents
  <2>1. ASSUME NEW t \in Threads, Begin(t), damaged PROVE damaged'
    BY <2>1 DEF Begin
  <2>2. ASSUME NEW t \in Threads, WriteLog(t), damaged PROVE damaged'
    BY <2>2, Zenon DEF WriteLog, Lock, OpenFails, AppendRecord, OpenTmp, Shorten,
       CopyFails, CopyOpen, CopyBlock, CopyDone
  <2>3. ASSUME Restart, damaged PROVE damaged'
    BY <2>3, Zenon DEF Restart
  <2>4. ASSUME UNCHANGED vars, damaged PROVE damaged'
    BY <2>4 DEF vars
  <2> QED
    BY <2>1, <2>2, <2>3, <2>4, Zenon DEF Next
<1>2. ASSUME NEW t \in Threads, pc[t] \in {"write", "shorten", "truncate", "copy"}
      PROVE  \A u \in Threads : u # t => pc[u] \in {"idle", "lock"}
  BY <1>2 DEF Exclusion, Inside, TypeOK
<1>3. ASSUME NEW t \in Threads, NEW l \in {"lock", "write", "shorten", "idle"},
             pc' = [pc EXCEPT ![t] = l], pc[t] \notin {"truncate", "copy"},
             UNCHANGED <<log, g_iLogCount, last>>,
             tmp' = tmp \/ \A u \in Threads : pc[u] \notin {"truncate", "copy"}
      PROVE  Contents'
  <2>1. \A u \in Threads :
          /\ pc'[u] \in {"truncate", "copy"} <=> pc[u] \in {"truncate", "copy"}
          /\ pc'[u] = "copy" <=> pc[u] = "copy"
    BY <1>3 DEF TypeOK
  <2> QED
    BY <1>1, <1>3, <2>1 DEF Contents, Kept, InTmp, Copied, Ends
<1>4. ASSUME NEW t \in Threads, Begin(t) PROVE Contents'
  BY <1>3, <1>4 DEF Begin, Goto
<1>5. ASSUME NEW t \in Threads, WriteLog(t) PROVE Contents'
  <2>1. CASE Lock(t) \/ OpenFails(t)
    BY <1>3, <2>1 DEF Lock, OpenFails, Goto, Return
  <2>2. CASE OpenTmp(t)
    <3>1. pc[t] = "write" /\ pc' = [pc EXCEPT ![t] = "shorten"]
          /\ UNCHANGED <<log, g_iLogCount, last>>
      BY <2>2 DEF OpenTmp, Goto
    <3>2. \A u \in Threads : pc[u] \notin {"truncate", "copy"}
      BY <1>2, <3>1
    <3> QED
      BY <1>3, <3>1, <3>2
  <2>3. CASE AppendRecord(t)
    <3>1. /\ pc[t] = "write" /\ g_iLogCount < MAX_LOG_NUMBER + Cut
          /\ pc' = [pc EXCEPT ![t] = "idle"]
          /\ log' = Append(log, last + 1) /\ last' = last + 1
          /\ g_iLogCount' = g_iLogCount + 1
      BY <2>3 DEF AppendRecord, Goto, Return
    <3>2. \A u \in Threads : pc[u] \notin {"truncate", "copy"} /\ pc'[u] \notin {"truncate", "copy"}
      BY <1>2, <3>1 DEF TypeOK
    <3>3. Kept
      BY <1>1, <3>2 DEF Contents
    <3>4. Ends(log', last')
      BY <1>0, <3>1, <3>3, AppendEnds DEF Kept
    <3>5. Len(log') = Len(log) + 1
      BY <1>0, <3>1
    <3>6. Kept'
      BY <1>0, <3>1, <3>3, <3>4, <3>5 DEF Kept, Ends
    <3> QED
      BY <3>2, <3>6 DEF Contents
  <2>4. CASE Shorten(t)
    <3>1. /\ pc[t] = "shorten" /\ pc' = [pc EXCEPT ![t] = "truncate"]
          /\ tmp' = Append(WithoutOldest(log), last + 1) /\ last' = last + 1
          /\ g_iLogCount' = g_iLogCount - Cut
      BY <2>4 DEF Shorten, Goto
    <3>2. \A u \in Threads : pc[u] \notin {"truncate", "copy"}
      BY <1>2, <3>1
    <3>3. Kept /\ g_iLogCount = MAX_LOG_NUMBER + Cut
      <4>1. Kept
        BY <1>1, <3>2 DEF Contents
      <4> QED
        BY <1>0, <3>1, <4>1 DEF Kept, Bounds
    <3>4. Ends(WithoutOldest(log), last) /\ Len(log) >= Cut
      BY <1>0, <3>3, CutEnds DEF Kept
    <3>5. WithoutOldest(log) \in Seq(1..MaxRecords) /\ Len(WithoutOldest(log)) = MAX_LOG_NUMBER
      BY <1>0, <3>3, CutLength DEF Kept
    <3>6. Ends(tmp', last')
      BY <1>0, <3>1, <3>4, <3>5, AppendEnds
    <3>7. Len(tmp') = MAX_LOG_NUMBER + 1
      BY <3>1, <3>5
    <3>8. InTmp'
      BY <1>0, <3>1, <3>3, <3>6, <3>7 DEF InTmp, Ends
    <3>9. pc'[t] = "truncate" /\ \A u \in Threads : pc'[u] # "copy"
      BY <3>1, <3>2 DEF TypeOK
    <3> QED
      BY <3>8, <3>9 DEF Contents
  <2>5. CASE CopyFails(t)
    BY <2>5 DEF CopyFails
  <2>6. CASE CopyOpen(t)
    <3>1. /\ pc[t] = "truncate" /\ pc' = [pc EXCEPT ![t] = "copy"]
          /\ log' = <<>> /\ UNCHANGED <<tmp, g_iLogCount, last>>
      BY <2>6 DEF CopyOpen, Goto
    <3>2. InTmp' /\ Copied'
      <4>1. Len(log') = 0
        BY <3>1
      <4> QED
        BY <1>0, <1>1, <3>1, <4>1 DEF Contents, InTmp, Copied, Ends
    <3>3. pc'[t] = "copy"
      BY <3>1 DEF TypeOK
    <3> QED
      BY <3>2, <3>3 DEF Contents
  <2>7. CASE CopyBlock(t)
    <3>1. /\ pc[t] = "copy" /\ Len(log) < Len(tmp) /\ log' = Append(log, tmp[Len(log) + 1])
          /\ UNCHANGED <<tmp, g_iLogCount, pc, last>>
      BY <2>7 DEF CopyBlock
    <3>2. InTmp /\ Copied
      BY <1>1, <3>1 DEF Contents
    <3>3. tmp[Len(log) + 1] \in 1..MaxRecords
      <4>1. Len(log) + 1 \in 1..Len(tmp)
        BY <1>0, <3>1
      <4> QED
        BY <1>0, <4>1, ElementOfSeq
    <3>4. /\ Len(log') = Len(log) + 1 /\ log'[Len(log) + 1] = tmp[Len(log) + 1]
          /\ \A i \in 1..Len(log) : log'[i] = log[i]
      BY <1>0, <3>1, <3>3
    <3>5. \A i \in 1..Len(log') : log'[i] = tmp'[i]
      BY <1>0, <3>1, <3>2, <3>4 DEF Copied
    <3>6. Copied' /\ InTmp'
      BY <1>0, <3>1, <3>2, <3>4, <3>5 DEF Copied, InTmp, Ends
    <3> QED
      BY <3>1, <3>6 DEF Contents
  <2>8. CASE CopyDone(t)
    <3>1. /\ pc[t] = "copy" /\ Len(log) = Len(tmp) /\ pc' = [pc EXCEPT ![t] = "idle"]
          /\ g_iLogCount' = g_iLogCount + 1 /\ UNCHANGED <<log, tmp, last>>
      BY <2>8 DEF CopyDone, Goto, Return
    <3>2. InTmp /\ Copied
      BY <1>1, <3>1 DEF Contents
    <3>3. Ends(log, last)
      BY <3>1, <3>2 DEF InTmp, Copied, Ends
    <3>4. Len(log) = MAX_LOG_NUMBER + 1 /\ g_iLogCount' = MAX_LOG_NUMBER + 1
      BY <1>0, <3>1, <3>2 DEF InTmp
    <3>5. Kept'
      <4>1. Ends(log', last')
        BY <3>1, <3>3
      <4>2. Len(log') = MAX_LOG_NUMBER + 1
        BY <3>1, <3>4
      <4> QED
        BY <1>0, <3>4, <4>1, <4>2 DEF Kept, Ends
    <3>6. \A u \in Threads : pc'[u] \notin {"truncate", "copy"}
      BY <1>2, <3>1 DEF TypeOK
    <3> QED
      BY <3>5, <3>6 DEF Contents
  <2> QED
    BY <1>5, <2>1, <2>2, <2>3, <2>4, <2>5, <2>6, <2>7, <2>8 DEF WriteLog
<1>6. ASSUME Restart PROVE Contents'
  <2>1. /\ \A u \in Threads : pc[u] \notin {"truncate", "copy"}
        /\ \A u \in Threads : pc'[u] = "idle"
        /\ g_iLogCount' = Len(log) /\ UNCHANGED <<log, tmp, last>>
    BY <1>6 DEF Restart
  <2> QED
    BY <1>1, <2>1 DEF Contents, Kept, Ends
<1>7. ASSUME UNCHANGED vars PROVE Contents'
  BY <1>1, <1>7 DEF vars, Contents, Kept, InTmp, Copied, Ends
<1> QED
  BY <1>4, <1>5, <1>6, <1>7 DEF Next

\* The invariant holds at every moment, and after every crash.
THEOREM ContentsCorrect == Spec => []IInv
<1>1. Init => IInv
  <2> SUFFICES ASSUME Init PROVE IInv
    OBVIOUS
  <2>1. <<>> \in Seq(1..MaxRecords) /\ Len(<<>>) = 0
    OBVIOUS
  <2>2. TypeOK
    <3>1. 0 \in 0..MaxRecords
      BY LogAssumption
    <3> QED
      BY <2>1, <3>1 DEF Init, TypeOK
  <2>3. Pending = {}
    BY DEF Init, Pending
  <2>4. Bounds
    BY <2>1, <2>3, FS_EmptySet, LogAssumption DEF Init, Bounds
  <2>5. Exclusion
    BY DEF Init, Exclusion, Inside
  <2>6. Contents
    BY <2>1, LogAssumption DEF Init, Contents, Kept, Ends
  <2> QED
    BY <2>2, <2>4, <2>5, <2>6 DEF IInv
<1>2. IInv /\ [Next]_vars => IInv'
  BY BoundsStep, ExclusionStep, ContentsStep DEF IInv
<1> QED
  BY <1>1, <1>2, PTL DEF Spec

\* Every variable keeps its type: the counter does not outgrow the records.
THEOREM TypeCorrect == Spec => []TypeOK
<1>1. IInv => TypeOK
  BY DEF IInv
<1> QED
  BY <1>1, ContentsCorrect, PTL

\* Between calls the file holds the newest records without a gap (142-233).
THEOREM RetainedCorrect == Spec => []Retained
<1>1. IInv => Retained
  <2> SUFFICES ASSUME IInv, ~g_tLogMutex, ~damaged
               PROVE  /\ log = From(last - Len(log) + 1, last)
                      /\ g_iLogCount = Len(log)
                      /\ Len(log) <= MAX_LOG_NUMBER + Cut
                      /\ Len(log) = last \/ Len(log) > MAX_LOG_NUMBER
    BY DEF Retained
  <2>1. \A t \in Threads : pc[t] \notin {"truncate", "copy"}
    BY DEF IInv, Exclusion, Inside
  <2>2. Kept
    BY <2>1 DEF IInv, Contents
  <2>3. log \in Seq(1..MaxRecords) /\ last \in Nat /\ Len(log) \in Nat
    BY DEF IInv, TypeOK
  <2>4. log = From(last - Len(log) + 1, last)
    <3>1. last - (last - Len(log) + 1) + 1 = Len(log)
      BY <2>3
    <3>2. From(last - Len(log) + 1, last) = [k \in 1..Len(log) |-> last - Len(log) + 1 + k - 1]
      BY <3>1 DEF From
    <3>3. \A k \in 1..Len(log) : log[k] = last - Len(log) + 1 + k - 1
      BY <2>2, <2>3 DEF Kept, Ends
    <3>4. log = [k \in 1..Len(log) |-> log[k]]
      BY <2>3
    <3> QED
      BY <3>2, <3>3, <3>4
  <2> QED
    BY <2>2, <2>4 DEF Kept
<1> QED
  BY <1>1, ContentsCorrect, PTL

\* A crash at any point leaves the newest MAX_LOG_NUMBER records in one of the
\* two files (185-231).
THEOREM NewestCorrect == Spec => []NewestInReach
<1>1. IInv => NewestInReach
  <2> SUFFICES ASSUME IInv, ~damaged,
                      NEW r \in 1..last, r > last - MAX_LOG_NUMBER
               PROVE  \E s \in {log, tmp} : \E i \in DOMAIN s : s[i] = r
    BY DEF NewestInReach
  <2>1. /\ log \in Seq(1..MaxRecords) /\ tmp \in Seq(1..MaxRecords)
        /\ last \in Nat /\ MAX_LOG_NUMBER \in Nat /\ Len(log) \in Nat /\ Len(tmp) \in Nat
        /\ Len(log) <= last
    BY LogAssumption DEF IInv, TypeOK, Bounds
  <2>2. ASSUME NEW s \in {log, tmp}, Ends(s, last), Len(s) = last \/ Len(s) > MAX_LOG_NUMBER
        PROVE  \E i \in DOMAIN s : s[i] = r
    <3>1. s \in Seq(1..MaxRecords) /\ Len(s) \in Nat /\ DOMAIN s = 1..Len(s)
      BY <2>1
    <3> DEFINE i == r - (last - Len(s))
    <3>2. i \in 1..Len(s) /\ last - Len(s) + i = r
      <4>1. i \in Int /\ i <= Len(s) /\ last - Len(s) + i = r
        BY <2>1, <3>1
      <4>2. i >= 1
        <5>1. CASE Len(s) = last
          BY <2>1, <3>1, <5>1
        <5>2. CASE Len(s) > MAX_LOG_NUMBER
          BY <2>1, <3>1, <5>2
        <5> QED
          BY <2>2, <5>1, <5>2
      <4> QED
        BY <3>1, <4>1, <4>2
    <3>3. s[i] = r
      BY <2>2, <3>2 DEF Ends
    <3> QED
      BY <3>1, <3>2, <3>3
  <2>3. CASE \A t \in Threads : pc[t] \notin {"truncate", "copy"}
    BY <2>2, <2>3 DEF IInv, Contents, Kept
  <2>4. CASE \E t \in Threads : pc[t] \in {"truncate", "copy"}
    <3>1. Ends(tmp, last) /\ Len(tmp) > MAX_LOG_NUMBER
      BY <2>1, <2>4 DEF IInv, Contents, InTmp
    <3> QED
      BY <2>2, <3>1
  <2> QED
    BY <2>3, <2>4
<1> QED
  BY <1>1, ContentsCorrect, PTL

=============================================================================
