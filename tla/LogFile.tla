------------------------------ MODULE LogFile -------------------------------
(***************************************************************************)
(* The log of the program (log.c): threads append records under one mutex; *)
(* when the file is full the oldest records are cut off by copying the     *)
(* rest to LOG_FILE_NAME~ and back.  The process may be killed between any *)
(* two steps (SIGPIPE, power) and LOG_Init then counts what it finds.      *)
(*                                                                         *)
(* A record is its number.  LOG_FsyncFile is left out: its only caller,    *)
(* blackScreenMonitorThread, is not started by main.cpp.                   *)
(***************************************************************************)
EXTENDS Integers, Sequences, FiniteSets

CONSTANTS
  Threads,
  MAX_LOG_NUMBER,
  Cut,          \* the 1000 of lines 142, 199 and 204
  MaxRecords    \* bound: records logged

ASSUME LogAssumption ==
  {MAX_LOG_NUMBER, Cut, MaxRecords} \subseteq Nat \ {0} /\ IsFiniteSet(Threads)

VARIABLES
  log, tmp,       \* LOG_FILE_NAME and LOG_FILE_NAME~, sequences of records
  g_iLogCount,
  g_tLogMutex,    \* TRUE when held
  pc,
  last,           \* the last record written: what the log should end with
  damaged         \* a copy was cut short by a crash, or could not be started

vars == <<log, tmp, g_iLogCount, g_tLogMutex, pc, last, damaged>>

From(i, j) == [k \in 1..(j - i + 1) |-> i + k - 1]
WithoutOldest(s) == SubSeq(s, Cut + 1, Len(s))

TypeOK ==
  /\ log \in Seq(1..MaxRecords) /\ tmp \in Seq(1..MaxRecords)
  /\ g_iLogCount \in 0..MaxRecords /\ g_tLogMutex \in BOOLEAN
  /\ pc \in [Threads -> {"idle", "lock", "write", "shorten", "truncate", "copy"}]
  /\ last \in 0..MaxRecords /\ damaged \in BOOLEAN

Init ==
  /\ log = <<>> /\ tmp = <<>> /\ g_iLogCount = 0 /\ g_tLogMutex = FALSE
  /\ pc = [t \in Threads |-> "idle"] /\ last = 0 /\ damaged = FALSE

Goto(t, l) == pc' = [pc EXCEPT ![t] = l]
Return(t) == Goto(t, "idle") /\ g_tLogMutex' = FALSE

-----------------------------------------------------------------------------
(* LOG_WriteLog                                                            *)

Begin(t) ==
  /\ pc[t] = "idle"
  /\ last + Cardinality({u \in Threads : pc[u] # "idle"}) < MaxRecords
  /\ Goto(t, "lock") /\ UNCHANGED <<log, tmp, g_iLogCount, g_tLogMutex, last, damaged>>

Lock(t) ==
  /\ pc[t] = "lock" /\ ~g_tLogMutex
  /\ g_tLogMutex' = TRUE
  /\ Goto(t, "write") /\ UNCHANGED <<log, tmp, g_iLogCount, last, damaged>>

\* Mutant: the failing open returns without unlocking.
OpenFailsLocked(t) ==
  /\ pc[t] = "write"
  /\ Goto(t, "idle") /\ UNCHANGED <<log, tmp, g_iLogCount, g_tLogMutex, last, damaged>>

\* fopen fails, for want of descriptors or space: the record is not logged.
OpenFails(t) ==
  /\ pc[t] = "write"
  /\ Return(t) /\ UNCHANGED <<log, tmp, g_iLogCount, last, damaged>>

\* Mutant: the count is not advanced.
AppendUncounted(t) ==
  /\ pc[t] = "write" /\ g_iLogCount < MAX_LOG_NUMBER + Cut
  /\ log' = Append(log, last + 1) /\ last' = last + 1
  /\ Return(t) /\ UNCHANGED <<tmp, g_iLogCount, damaged>>

AppendRecord(t) ==
  /\ pc[t] = "write" /\ g_iLogCount < MAX_LOG_NUMBER + Cut
  /\ log' = Append(log, last + 1) /\ last' = last + 1
  /\ g_iLogCount' = g_iLogCount + 1
  /\ Return(t) /\ UNCHANGED <<tmp, damaged>>

\* The temporary file is opened with "wb": its old contents go.
OpenTmp(t) ==
  /\ pc[t] = "write" /\ g_iLogCount >= MAX_LOG_NUMBER + Cut
  /\ tmp' = <<>>
  /\ Goto(t, "shorten") /\ UNCHANGED <<log, g_iLogCount, g_tLogMutex, last, damaged>>

\* Mutant: the operands of the subtraction are swapped.
ShortenSwapped(t) ==
  /\ pc[t] = "shorten"
  /\ tmp' = Append(WithoutOldest(log), last + 1) /\ last' = last + 1
  /\ g_iLogCount' = Cut - g_iLogCount
  /\ Goto(t, "truncate") /\ UNCHANGED <<log, g_tLogMutex, damaged>>

\* Mutant: the new record is forgotten.
ShortenForgets(t) ==
  /\ pc[t] = "shorten"
  /\ tmp' = WithoutOldest(log) /\ last' = last + 1
  /\ g_iLogCount' = g_iLogCount - Cut
  /\ Goto(t, "truncate") /\ UNCHANGED <<log, g_tLogMutex, damaged>>

Shorten(t) ==
  /\ pc[t] = "shorten"
  /\ tmp' = Append(WithoutOldest(log), last + 1) /\ last' = last + 1
  /\ g_iLogCount' = g_iLogCount - Cut
  /\ Goto(t, "truncate") /\ UNCHANGED <<log, g_tLogMutex, damaged>>

\* CopyFile(LOG_FILE_NAME, acTmpName); its result is not looked at.
CopyFails(t) ==
  /\ pc[t] = "truncate"
  /\ damaged' = TRUE /\ g_iLogCount' = g_iLogCount + 1
  /\ Return(t) /\ UNCHANGED <<log, tmp, last>>

CopyOpen(t) ==
  /\ pc[t] = "truncate"
  /\ log' = <<>>
  /\ Goto(t, "copy") /\ UNCHANGED <<tmp, g_iLogCount, g_tLogMutex, last, damaged>>

CopyBlock(t) ==
  /\ pc[t] = "copy" /\ Len(log) < Len(tmp)
  /\ log' = Append(log, tmp[Len(log) + 1])
  /\ UNCHANGED <<tmp, g_iLogCount, g_tLogMutex, pc, last, damaged>>

CopyDone(t) ==
  /\ pc[t] = "copy" /\ Len(log) = Len(tmp)
  /\ g_iLogCount' = g_iLogCount + 1
  /\ Return(t) /\ UNCHANGED <<log, tmp, last, damaged>>

WriteLog(t) ==
  \/ Lock(t) \/ OpenFails(t) \/ AppendRecord(t) \/ OpenTmp(t) \/ Shorten(t)
  \/ CopyFails(t) \/ CopyOpen(t) \/ CopyBlock(t) \/ CopyDone(t)

\* The process dies and is started again: LOG_Init counts the records.
Restart ==
  /\ g_tLogMutex' = FALSE /\ pc' = [t \in Threads |-> "idle"]
  /\ g_iLogCount' = Len(log)
  /\ damaged' = (damaged \/ \E t \in Threads : pc[t] \in {"truncate", "copy"})
  /\ UNCHANGED <<log, tmp, last>>

Next == (\E t \in Threads : Begin(t) \/ WriteLog(t)) \/ Restart

Fairness == \A t \in Threads : WF_vars(WriteLog(t)) /\ SF_vars(Lock(t))
Spec == Init /\ [][Next]_vars
FairSpec == Spec /\ Fairness
-----------------------------------------------------------------------------
(* Properties.                                                             *)

\* Between calls, unless a copy was interrupted, the file holds the newest
\* records without a gap, the count says how many, and at least
\* MAX_LOG_NUMBER and at most Cut more are kept (142-233).
Retained ==
  ~g_tLogMutex /\ ~damaged =>
    /\ log = From(last - Len(log) + 1, last)
    /\ g_iLogCount = Len(log)
    /\ Len(log) <= MAX_LOG_NUMBER + Cut
    /\ Len(log) = last \/ Len(log) > MAX_LOG_NUMBER

\* A crash at any point leaves the newest MAX_LOG_NUMBER records in the log
\* or in the temporary file, although LOG_Init never reads the latter.
NewestInReach ==
  ~damaged =>
    \A r \in 1..last : r > last - MAX_LOG_NUMBER =>
       \E s \in {log, tmp} : \E i \in DOMAIN s : s[i] = r

\* A thread that logs gets out of LOG_WriteLog: no error path keeps the
\* mutex that all threads of the program share (140-233).
LoggersReturn == \A t \in Threads : pc[t] = "lock" ~> pc[t] = "idle"
=============================================================================
