----------------------------- MODULE RecordQuery ----------------------------
(***************************************************************************)
(* The list of recordings (recordplaywidget.cpp): a query is sent to a     *)
(* server, its answer comes in packets that are put one behind the other,  *)
(* a timer of 500 ms looks whether anything has come and gives up after a  *)
(* number of looks, and a second timer fills the table one second later.   *)
(* The progress bar of a download shares the query button.                 *)
(*                                                                         *)
(* A path is two pieces of text, so that packets and resets may cut it.    *)
(* Every answer fits the buffer.                                           *)
(***************************************************************************)
EXTENDS Integers, Sequences, SequencesExt, FiniteSets

CONSTANTS
  MaxQueries,    \* bound: queries
  MaxFiles,      \* bound: recordings in one answer
  GiveUp,        \* 10: looks without an answer
  MaxDownloads   \* bound: downloads

ASSUME QueryAssumption ==
  MaxQueries \in Nat /\ MaxFiles \in Nat /\ GiveUp \in Nat /\ MaxDownloads \in Nat

Queries == 1..MaxQueries

VARIABLES
  asked,          \* queries so far
  coming,         \* pieces on their way or in the packet queue
  queryEnabled,   \* the query button
  queryTimer, fillTimer,   \* m_recorQueryTimer, m_recordTabelWidgetFillTimer run
  iRecordNum,
  m_pcRecordFileBuf,
  rows,           \* the paths whose names the table shows
  m_acFilePath,   \* the paths that are played and downloaded
  bar,            \* download progress bar: "none", "begun", "shown"
  downloads       \* downloads so far

table == <<rows, m_acFilePath>>
download == <<bar, downloads>>
queryVars == <<asked, coming, queryEnabled, queryTimer, fillTimer, iRecordNum,
          m_pcRecordFileBuf, table, download>>

Pieces == Queries \X (1..MaxFiles) \X {"begin", "end.MP4"}
Path(q, f) == <<<<q, f, "begin">>, <<q, f, "end.MP4">>>>
Answer(q, n) == FlattenSeq([f \in 1..n |-> Path(q, f)])

QueryTypeOK ==
  /\ asked \in 0..MaxQueries /\ coming \in Seq(Pieces)
  /\ {queryEnabled, queryTimer, fillTimer} \subseteq BOOLEAN
  /\ iRecordNum \in 0..GiveUp + MaxQueries
  /\ m_pcRecordFileBuf \in Seq(Pieces)
  /\ rows \in Seq(Seq(Pieces)) /\ m_acFilePath \in Seq(Seq(Pieces))
  /\ bar \in {"none", "begun", "shown"} /\ downloads \in 0..MaxDownloads

QueryInit ==
  /\ asked = 0 /\ coming = <<>>
  /\ queryEnabled = TRUE /\ queryTimer = FALSE /\ fillTimer = FALSE
  /\ iRecordNum = 0 /\ m_pcRecordFileBuf = <<>>
  /\ rows = <<>> /\ m_acFilePath = <<>>
  /\ bar = "none" /\ downloads = 0

\* Mutant: the table keeps the rows it has.
EmptyPathsOnly == m_acFilePath' = <<>> /\ UNCHANGED rows
EmptyTable == rows' = <<>> /\ m_acFilePath' = <<>>

\* The request may be lost: the connection may be down, the send may fail.
RecordQuerySlot ==
  /\ queryEnabled /\ asked < MaxQueries
  /\ asked' = asked + 1
  /\ \E n \in 0..MaxFiles : coming' = coming \o Answer(asked + 1, n)
  /\ m_pcRecordFileBuf' = <<>> /\ EmptyTable
  /\ queryEnabled' = FALSE /\ queryTimer' = TRUE
  /\ UNCHANGED <<fillTimer, iRecordNum, download>>

\* One packet: any number of pieces, whoever asked for them.
RecordQueryCtrl ==
  /\ coming # <<>>
  /\ \E k \in 1..Len(coming) :
       /\ m_pcRecordFileBuf' = m_pcRecordFileBuf \o SubSeq(coming, 1, k)
       /\ coming' = SubSeq(coming, k + 1, Len(coming))
  /\ UNCHANGED <<asked, queryEnabled, queryTimer, fillTimer, iRecordNum, table, download>>

Look == iRecordNum' = iRecordNum + 1

RecordQueryEndSlot ==
  /\ queryTimer
  /\ \/ /\ m_pcRecordFileBuf # <<>>
        /\ Look /\ queryTimer' = FALSE /\ fillTimer' = TRUE
        /\ UNCHANGED queryEnabled
     \/ /\ m_pcRecordFileBuf = <<>> /\ iRecordNum + 1 > GiveUp
        /\ iRecordNum' = 0 /\ queryTimer' = FALSE /\ queryEnabled' = TRUE
        /\ UNCHANGED fillTimer
     \/ /\ m_pcRecordFileBuf = <<>> /\ iRecordNum + 1 <= GiveUp
        /\ Look /\ UNCHANGED <<queryTimer, fillTimer, queryEnabled>>
  /\ UNCHANGED <<asked, coming, m_pcRecordFileBuf, table, download>>

\* The paths in a text: each ends with ".MP4" and begins where the last ended.
Paths(text) ==
  LET ends == {k \in DOMAIN text : text[k][3] = "end.MP4"}
      end(i) == CHOOSE k \in ends : Cardinality({j \in ends : j <= k}) = i
      begin(i) == IF i = 1 THEN 1 ELSE end(i - 1) + 1
  IN [i \in 1..Cardinality(ends) |-> SubSeq(text, begin(i), end(i))]

\* Rows are inserted from the top; what is there moves down.
RecordTableWidgetFillFunc ==
  /\ fillTimer /\ fillTimer' = FALSE
  /\ LET paths == Paths(m_pcRecordFileBuf) IN
     /\ rows' = paths \o rows
     /\ m_acFilePath' = paths \o SubSeq(m_acFilePath, Len(paths) + 1, Len(m_acFilePath))
  /\ queryEnabled' = TRUE
  /\ UNCHANGED <<asked, coming, queryTimer, iRecordNum, m_pcRecordFileBuf, download>>

-----------------------------------------------------------------------------
(* The download of a selected row (FtpDownload), as the query button sees  *)
(* it: the bar comes with the first signal of the thread.                  *)

RecordDownloadSlot ==
  /\ rows # <<>> /\ bar = "none" /\ downloads < MaxDownloads
  /\ bar' = "begun" /\ downloads' = downloads + 1
  /\ UNCHANGED <<asked, coming, queryEnabled, queryTimer, fillTimer, iRecordNum,
                 m_pcRecordFileBuf, table>>

DownloadProcessBarDisplaySlot ==
  /\ \/ bar = "begun" /\ bar' = "shown" /\ queryEnabled' = FALSE
     \/ bar = "shown" /\ bar' = "none" /\ queryEnabled' = TRUE
  /\ UNCHANGED <<asked, coming, queryTimer, fillTimer, iRecordNum,
                 m_pcRecordFileBuf, table, downloads>>

Timers == RecordQueryEndSlot \/ RecordTableWidgetFillFunc
QueryNext ==
  \/ RecordQuerySlot \/ RecordQueryCtrl \/ Timers
  \/ RecordDownloadSlot \/ DownloadProcessBarDisplaySlot

QuerySpec == QueryInit /\ [][QueryNext]_queryVars
-----------------------------------------------------------------------------
(* Properties.                                                             *)

\* Without downloads the recording named in a row is the one that is played
\* or downloaded with it, however late or cut the packets of earlier queries
\* come (411-455, 541-556).
RowsHaveTheirPath == downloads = 0 => rows = m_acFilePath

\* "Until the query is finished the query key cannot be pressed again" (611).
OneQueryAtATime == queryTimer => ~queryEnabled
=============================================================================
