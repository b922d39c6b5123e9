------------------------------ MODULE RecordPlay ----------------------------
(***************************************************************************)
(* Playing a recording (recordplaywidget.cpp): the QMediaPlayer with its   *)
(* signals, the slots of the page and slideValueSetThread, which is        *)
(* started with the first recording and never stops.  It finds out how     *)
(* long the recording is, follows the time played and, when that has come  *)
(* to the end, has the UI thread close the playback.                       *)
(*                                                                         *)
(* A recording is known by its length in seconds.  Slots are steps; the    *)
(* thread takes its steps between them.  Speed and colours are left out, so *)
(* is the branch of pmsgCtrl (1463-1475) that takes the length of a        *)
(* recording for m_iPlayRange from a server: it answers a request that the *)
(* program never sends (0x42 is only named in pmsgcli.h:42).               *)
(***************************************************************************)
EXTENDS Integers, Sequences, SequencesExt

CONSTANTS
  Tables,      \* bound: what queries find, the lengths of the recordings
  Unknown,     \* 600: range assumed when the player gives none
  Tries,       \* 5: looks for the length of a recording
  MaxCloses    \* bound: queued signals when the thread posts another

ASSUME PlayAssumption ==
  /\ \A t \in Tables : t \in Seq(Nat \ {0})
  /\ Unknown \in Nat \ {0} /\ Tries \in Nat /\ MaxCloses \in Nat

VARIABLES
  playRows,          \* lengths of the recordings in the table
  m_iRecordIdex,     \* row on play, -1 when none
  recordPlayFlag,    \* m_iRecordPlayFlag, set in the monitor page by setRecordPlayFlagSignal
  playerState,       \* of the player
  media, pos,        \* what it plays, 0 when it never played, and how far it is
  totalplaytime, playingTime,
  m_iPlayFlag,
  m_iPlayRange, m_iSliderValue,
  playPc, iDuration, iTryGetPlayRangeNum,   \* slideValueSetThread
  closes,            \* queued signals closeRecordPlaySignal
  crashed            \* a row that is not there was used

playPage == <<playRows, m_iRecordIdex, recordPlayFlag, crashed>>
medium == <<playerState, media, pos>>
times == <<totalplaytime, playingTime>>
slider == <<m_iPlayFlag, m_iPlayRange, m_iSliderValue>>
playThread == <<playPc, iDuration, iTryGetPlayRangeNum>>
playVars == <<playPage, medium, times, slider, playThread, closes>>

Lengths == UNION {ToSet(t) : t \in Tables}
Times == {0} \cup Lengths
Seconds == UNION {0..l : l \in Lengths \cup {Unknown}}

PlayTypeOK ==
  /\ playRows \in Tables \cup {<<>>}
  /\ m_iRecordIdex \in {-1} \cup {r - 1 : r \in UNION {DOMAIN t : t \in Tables}}
  /\ recordPlayFlag \in {0, 1}
  /\ playerState \in {"Stopped", "Playing", "Paused"}
  /\ {media, totalplaytime, iDuration} \subseteq Times
  /\ m_iPlayRange \in Times \cup {Unknown}
  /\ pos \in 0..media /\ {playingTime, m_iSliderValue} \subseteq Seconds
  /\ m_iPlayFlag \in {0, 1}
  /\ playPc \in {"none", "top", "range", "set", "check", "value", "compare"}
  /\ iTryGetPlayRangeNum \in 0..Tries
  /\ closes \in 0..MaxCloses /\ crashed \in BOOLEAN

PlayInit ==
  /\ playRows = <<>> /\ m_iRecordIdex = -1 /\ recordPlayFlag = 0
  /\ playerState = "Stopped" /\ media = 0 /\ pos = 0
  /\ totalplaytime = 0 /\ playingTime = 0
  /\ m_iPlayFlag = 0 /\ m_iPlayRange = 0 /\ m_iSliderValue = 0
  /\ playPc = "none" /\ iDuration = 0 /\ iTryGetPlayRangeNum = Tries
  /\ closes = 0 /\ crashed = FALSE

-----------------------------------------------------------------------------
(* The player.  stop() and setMedia() go back to the beginning.            *)

\* While it plays, and after a seek in any state.
PositionChanged ==
  /\ media # 0 /\ pos' \in {pos, pos + 1} /\ pos' <= media
  /\ playerState # "Playing" => pos' = pos
  /\ playingTime' = pos'
  /\ UNCHANGED <<playPage, playerState, media, totalplaytime, slider, playThread, closes>>

EndOfMedia ==
  /\ playerState = "Playing" /\ pos = media
  /\ playerState' = "Stopped"
  /\ UNCHANGED <<playPage, media, pos, times, slider, playThread, closes>>

DurationChanged ==
  /\ playerState = "Playing" /\ totalplaytime # media
  /\ totalplaytime' = media
  /\ UNCHANGED <<playPage, medium, playingTime, slider, playThread, closes>>

-----------------------------------------------------------------------------
(* slideValueSetThread.                                                    *)

AtLine(l) == playPc = l
ToLine(l) == playPc' = l
Steps == UNCHANGED <<playPage, medium, times, m_iPlayFlag>>

Top ==
  /\ AtLine("top") /\ (IF m_iPlayRange = 0 THEN ToLine("range") ELSE ToLine("check"))
  /\ Steps
  /\ UNCHANGED <<m_iPlayRange, m_iSliderValue, iDuration, iTryGetPlayRangeNum, closes>>

\* The number of tries is for the life of the thread.
GetRange ==
  /\ AtLine("range")
  /\ \/ /\ iTryGetPlayRangeNum > 0 /\ iDuration' = totalplaytime
        /\ IF totalplaytime > 0
           THEN ToLine("set") /\ UNCHANGED iTryGetPlayRangeNum
           ELSE ToLine("range") /\ iTryGetPlayRangeNum' = iTryGetPlayRangeNum - 1
     \/ /\ iTryGetPlayRangeNum = 0
        /\ ToLine("set") /\ UNCHANGED <<iDuration, iTryGetPlayRangeNum>>
  /\ Steps /\ UNCHANGED <<m_iPlayRange, m_iSliderValue, closes>>

SetRange ==
  /\ AtLine("set") /\ ToLine("check")
  /\ m_iPlayRange' = IF iDuration > 0 THEN iDuration ELSE Unknown
  /\ Steps /\ UNCHANGED <<m_iSliderValue, iDuration, iTryGetPlayRangeNum, closes>>

Check ==
  /\ AtLine("check")
  /\ IF m_iPlayRange > 0 /\ m_iPlayFlag # 0 THEN ToLine("value") ELSE ToLine("top")
  /\ Steps
  /\ UNCHANGED <<m_iPlayRange, m_iSliderValue, iDuration, iTryGetPlayRangeNum, closes>>

GetValue ==
  /\ AtLine("value") /\ ToLine("compare")
  /\ m_iSliderValue' = playingTime
  /\ Steps /\ UNCHANGED <<m_iPlayRange, iDuration, iTryGetPlayRangeNum, closes>>

\* Mutant: the end is only seen beyond the range.
BeyondRange == m_iSliderValue > m_iPlayRange
AtRange == m_iSliderValue >= m_iPlayRange

Compare ==
  /\ AtLine("compare") /\ closes < MaxCloses /\ ToLine("top")
  /\ closes' = IF AtRange THEN closes + 1 ELSE closes
  /\ Steps /\ UNCHANGED <<m_iPlayRange, m_iSliderValue, iDuration, iTryGetPlayRangeNum>>

SlideValueSetThread == Top \/ GetRange \/ SetRange \/ Check \/ GetValue \/ Compare

-----------------------------------------------------------------------------
(* The slots.                                                              *)

\* closePlayWin, what it does to the two pages.  A player that has stopped
\* need not say again where it is.
ClosePlayWin == recordPlayFlag' = 0 /\ m_iRecordIdex' = -1

ClosePlayback ==
  /\ ClosePlayWin /\ m_iPlayFlag' = 0
  /\ playerState' = "Stopped" /\ pos' = 0
  /\ playingTime' \in IF playerState = "Stopped" THEN {playingTime, 0} ELSE {0}
  /\ UNCHANGED <<playRows, media, totalplaytime, m_iPlayRange, m_iSliderValue, playThread, crashed>>

\* recordPlayCtrl.  The player may forget the length of the last recording
\* at once or keep it until it knows the next one.
RecordPlayCtrl(r) ==
  /\ recordPlayFlag' = 1 /\ m_iRecordIdex' = r
  /\ m_iPlayRange' = 0 /\ m_iSliderValue' = 0 /\ m_iPlayFlag' = 1
  /\ media' = playRows[r + 1] /\ playerState' = "Playing"
  /\ pos' = 0 /\ playingTime' = 0
  /\ totalplaytime' \in {totalplaytime, 0}
  /\ playPc' = IF playPc = "none" THEN "top" ELSE playPc
  /\ UNCHANGED <<playRows, iDuration, iTryGetPlayRangeNum, closes, crashed>>

\* recordPlaySlot: what was played before is closed or replaced.
PlayRow == ~crashed /\ \E r \in 0..Len(playRows) - 1 : RecordPlayCtrl(r)

NextOne ==
  /\ ~crashed /\ playRows # <<>> /\ m_iRecordIdex + 1 < Len(playRows)
  /\ RecordPlayCtrl(m_iRecordIdex + 1)

\* The row before need not be in the table: a query may have shortened it.
LastOne ==
  /\ ~crashed /\ playRows # <<>> /\ m_iRecordIdex - 1 >= 0
  /\ IF m_iRecordIdex - 1 < Len(playRows)
     THEN RecordPlayCtrl(m_iRecordIdex - 1)
     ELSE /\ crashed' = TRUE
          /\ UNCHANGED <<playRows, m_iRecordIdex, recordPlayFlag, medium, times, slider,
                         playThread, closes>>

\* recordPlayStartSlot: play and pause.  Without a medium the player rests.
PlayButton ==
  /\ ~crashed
  /\ m_iPlayFlag' = 1 - m_iPlayFlag
  /\ playerState' = CASE media = 0 -> playerState
                 [] media # 0 /\ m_iPlayFlag = 0 /\ playerState # "Playing" -> "Playing"
                 [] OTHER -> "Paused"
  /\ UNCHANGED <<playPage, media, pos, times, m_iPlayRange, m_iSliderValue, playThread, closes>>

\* recordPlayStopSlot, and menuButtonClick to another page.
StopPlayback == ~crashed /\ ClosePlayback /\ UNCHANGED closes

CloseRecordPlaySlot ==
  /\ ~crashed /\ closes > 0 /\ closes' = closes - 1 /\ ClosePlayback

\* playSliderPressSlot, or playSliderMoveSlot when the player has stopped at
\* the end: it takes the seconds for milliseconds, only playingTime shows
\* them.  A closed playback has a slider without a range.
Seek ==
  /\ ~crashed /\ (playerState = "Stopped" => m_iRecordIdex # -1)
  /\ m_iPlayFlag' = 1 /\ pos' = 0
  /\ playingTime' \in (1..totalplaytime) \cup (1..m_iPlayRange)
  /\ UNCHANGED <<playPage, playerState, media, totalplaytime, m_iPlayRange, m_iSliderValue,
                 playThread, closes>>

\* recordQuerySlot and the answer: playing goes on over a new table.
NewTable ==
  /\ ~crashed
  /\ playRows' \in Tables \cup {<<>>}
  /\ UNCHANGED <<m_iRecordIdex, recordPlayFlag, crashed, medium, times, slider, playThread, closes>>

Gone == crashed /\ UNCHANGED playVars

Player == PositionChanged \/ EndOfMedia \/ DurationChanged
PlayOperator == PlayRow \/ NextOne \/ LastOne \/ PlayButton \/ StopPlayback \/ Seek \/ NewTable
PlayNext ==
  (~crashed /\ (Player \/ SlideValueSetThread)) \/ CloseRecordPlaySlot \/ PlayOperator \/ Gone

\* The thread runs and queued signals are handled.
PlayFairness ==
  WF_playVars(~crashed /\ SlideValueSetThread) /\ WF_playVars(CloseRecordPlaySlot)
PlaySpec == PlayInit /\ [][PlayNext]_playVars
FairPlaySpec == PlaySpec /\ PlayFairness
-----------------------------------------------------------------------------
(* Properties.                                                             *)

\* A playback whose time has come to the end of its range is not left open:
\* it is closed, paused or begun anew (1374).
EndCloses ==
  (<>[](~crashed)) =>
    []<>~(m_iPlayFlag = 1 /\ m_iPlayRange > 0 /\ playingTime >= m_iPlayRange)

\* "Progress is at 100 %, the recording has been played to its end: close"
\* (1374): no playback is closed before.
ClosesOnlyAtEnd ==
  [][CloseRecordPlaySlot /\ m_iRecordIdex # -1 => playingTime = media]_playVars
=============================================================================
