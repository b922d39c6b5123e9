---------------------------- MODULE PresetReturn ----------------------------
(***************************************************************************)
(* Presets of the cameras (pvmsmonitorwidget.cpp): the operator moves a    *)
(* camera or sends it to a preset, and monitorThread has it sent back to   *)
(* preset 1 when it has not been operated for some minutes.  The signal    *)
(* for that is queued: the operator may act before it is handled.          *)
(*                                                                         *)
(* monitorThread writes m_iCameraPlayNo and waits until the UI thread has  *)
(* shown that camera.  A slot may run in between, and the write may come   *)
(* while one runs, at most once: the step of a slot says which of its      *)
(* reads come after it.                                                    *)
(*                                                                         *)
(* Whether a camera's minutes are over is a flag.  Preset 0 is none.       *)
(***************************************************************************)
EXTENDS Integers

CONSTANTS
  Cameras,   \* pairs of phandle and iPosNO
  Presets    \* 1..8

phandle(c) == c[1]   \* the connection to the server of camera c
iPosNO(c) == c[2]    \* its number on that server
Servers == {phandle(c) : c \in Cameras}

ASSUME CamerasArePairs == Cameras \subseteq Servers \X {iPosNO(c) : c \in Cameras}

VARIABLES
  iPresetNo,             \* preset a camera was sent to last
  due,                   \* tPtzOprateTime is iPresetReturnTime ago
  presetReturn,          \* cameras with a queued presetReturnSignal
  m_iCameraPlayNo,       \* camera on display
  polled,                \* monitorThread waits for videoPollingSignalCtrl
  m_iSelectPresetNo,     \* preset the two buttons act on
  m_iPresetPasswdOkFlag,
  net,                   \* link to a server: "up", "gone" but not noticed, "down"
  position,              \* preset the camera is at
  lost,                  \* what is recorded comes of a command that did not arrive
  torn                   \* m_iCameraPlayNo changed between command and record

buttons == <<m_iSelectPresetNo, m_iPresetPasswdOkFlag>>
view == <<m_iCameraPlayNo, polled, buttons>>
camera == <<net, position, lost, torn>>
presetVars == <<iPresetNo, due, presetReturn, view, camera>>

Numbers == Presets \cup {0}

PresetTypeOK ==
  /\ iPresetNo \in [Cameras -> Numbers] /\ position \in [Cameras -> Numbers]
  /\ due \in [Cameras -> BOOLEAN] /\ presetReturn \subseteq Cameras
  /\ m_iCameraPlayNo \in Cameras /\ m_iSelectPresetNo \in Numbers
  /\ polled \in BOOLEAN /\ m_iPresetPasswdOkFlag \in BOOLEAN
  /\ net \in [Servers -> {"up", "gone", "down"}]
  /\ lost \in [Cameras -> BOOLEAN] /\ torn \in [Cameras -> BOOLEAN]

PresetInit ==
  /\ iPresetNo = [c \in Cameras |-> 0] /\ due = [c \in Cameras |-> FALSE]
  /\ presetReturn = {} /\ m_iSelectPresetNo = 1 /\ m_iPresetPasswdOkFlag = FALSE
  /\ m_iCameraPlayNo \in Cameras /\ polled = TRUE
  /\ net \in [Servers -> {"up", "down"}]
  /\ position \in [Cameras -> Numbers]
  /\ lost = [c \in Cameras |-> FALSE] /\ torn = [c \in Cameras |-> FALSE]

-----------------------------------------------------------------------------
LinkTo(c) == net[phandle(c)]
Accepted(c) == LinkTo(c) # "down"

\* Of a command that is written down: the cameras it is for, and the preset it
\* brings each of them to.
Command(cs, to) ==
  /\ position' = [c \in Cameras |->
       IF c \in cs /\ LinkTo(c) = "up" THEN to[c] ELSE position[c]]
  /\ lost' = [c \in Cameras |-> IF c \in cs THEN LinkTo(c) # "up" ELSE lost[c]]
  /\ UNCHANGED net

Record(c, n) == iPresetNo' = [iPresetNo EXCEPT ![c] = n]
Operated(c) == due' = [due EXCEPT ![c] = FALSE]
Mark(cs, x) == torn' = [c \in Cameras |-> IF c \in cs THEN x ELSE torn[c]]

\* The cameras that the reads of m_iCameraPlayNo in a slot may find, for the
\* position and the server of the command, the time and the preset recorded.
Reads ==
  {[k \in 1..4 |-> IF k < i THEN m_iCameraPlayNo ELSE c] :
     i \in 2..4, c \in IF polled THEN {m_iCameraPlayNo} ELSE Cameras}
Found(c) ==
  /\ m_iCameraPlayNo' = c /\ polled' = (polled \/ c # m_iCameraPlayNo)
  /\ UNCHANGED <<presetReturn, buttons>>

\* A message that goes to the server of d with the position of c.
Told(c, d) == {e \in Cameras : phandle(e) = phandle(d) /\ iPosNO(e) = iPosNO(c)}

\* The command of a slot, and its record.
Operate(r, to, n) ==
  /\ Command(Told(r[1], r[2]), to)
  /\ Operated(r[3]) /\ Record(r[4], n)
  /\ Mark(Told(r[1], r[2]) \cup {r[4]}, r[1] # r[4])

Elsewhere == [c \in Cameras |-> 0]

\* Mutant: the record of the preset stays.
PtzKeepsRecord ==
  \E r \in Reads :
    /\ IF Accepted(r[2]) THEN Operate(r, Elsewhere, iPresetNo[r[4]])
                         ELSE UNCHANGED <<iPresetNo, due, camera>>
    /\ Found(r[4])

\* The press or the release of one of the eight buttons.
Ptz ==
  \E r \in Reads :
    /\ IF Accepted(r[2]) THEN Operate(r, Elsewhere, 0)
                         ELSE UNCHANGED <<iPresetNo, due, camera>>
    /\ Found(r[4])

\* The record is made whether the command went out or not.
UsePreset ==
  LET n == m_iSelectPresetNo
      to == [c \in Cameras |-> IF n = 0 THEN position[c] ELSE n]
  IN \E r \in Reads : Operate(r, to, n) /\ Found(r[4])

\* To set a preset makes it the place where the camera is.
PresetGetCtrl == UsePreset
PresetSetCtrl == m_iPresetPasswdOkFlag /\ UsePreset

Buttons == UNCHANGED <<iPresetNo, due, presetReturn, m_iCameraPlayNo, polled, camera>>

SetPreset ==
  /\ ~m_iPresetPasswdOkFlag /\ m_iPresetPasswdOkFlag' = TRUE
  /\ UNCHANGED m_iSelectPresetNo /\ Buttons

RegistOut ==
  /\ m_iPresetPasswdOkFlag' = FALSE
  /\ UNCHANGED m_iSelectPresetNo /\ Buttons

PresetNoGroupButtonClick ==
  /\ m_iSelectPresetNo' \in Presets
  /\ UNCHANGED m_iPresetPasswdOkFlag /\ Buttons

-----------------------------------------------------------------------------
(* monitorThread, and the slots it waits for and posts.                    *)

TurnTo(c) ==
  /\ ~polled /\ polled' = TRUE /\ m_iCameraPlayNo' = c
  /\ UNCHANGED <<iPresetNo, due, presetReturn, buttons, camera>>

VideoPollingSignalCtrl ==
  /\ polled /\ polled' = FALSE
  /\ m_iSelectPresetNo' = iPresetNo[m_iCameraPlayNo]
  /\ UNCHANGED <<iPresetNo, due, presetReturn, m_iCameraPlayNo, m_iPresetPasswdOkFlag, camera>>

\* Minutes pass; a queued signal is handled in less.
MinutesPass(c) ==
  /\ ~due[c] /\ c \notin presetReturn /\ due' = [due EXCEPT ![c] = TRUE]
  /\ UNCHANGED <<iPresetNo, presetReturn, view, camera>>

\* The minutes start again, so that a command that fails is tried again.
TriggerPresetReturn(c) ==
  /\ ~polled /\ iPresetNo[c] # 1 /\ due[c] /\ Operated(c)
  /\ presetReturn' = presetReturn \cup {c}
  /\ UNCHANGED <<iPresetNo, view, camera>>

ToOne(c) ==
  /\ Command({c}, [d \in Cameras |-> 1]) /\ Record(c, 1) /\ Mark({c}, FALSE)
  /\ m_iSelectPresetNo' = 1

\* Mutant: the camera is taken for returned although the command failed.
ReturnedAnyhow(c) ==
  /\ c \in presetReturn /\ presetReturn' = presetReturn \ {c}
  /\ IF Accepted(c) THEN ToOne(c)
                    ELSE Record(c, 1) /\ UNCHANGED <<m_iSelectPresetNo, camera>>
  /\ UNCHANGED <<due, m_iCameraPlayNo, polled, m_iPresetPasswdOkFlag>>

PresetReturnSignalCtrl(c) ==
  /\ c \in presetReturn /\ presetReturn' = presetReturn \ {c}
  /\ IF Accepted(c) THEN ToOne(c) ELSE UNCHANGED <<iPresetNo, m_iSelectPresetNo, camera>>
  /\ UNCHANGED <<due, m_iCameraPlayNo, polled, m_iPresetPasswdOkFlag>>

NetChanges(s) ==
  /\ \E x \in {"up", "gone", "down"} \ {net[s]} : net' = [net EXCEPT ![s] = x]
  /\ UNCHANGED <<iPresetNo, due, presetReturn, view, position, lost, torn>>

Operator ==
  \/ Ptz \/ PresetGetCtrl \/ PresetSetCtrl \/ SetPreset \/ RegistOut
  \/ PresetNoGroupButtonClick
Camera(c) == MinutesPass(c) \/ TriggerPresetReturn(c) \/ PresetReturnSignalCtrl(c)
PresetNext ==
  \/ Operator \/ VideoPollingSignalCtrl
  \/ \E c \in Cameras : Camera(c) \/ TurnTo(c)
  \/ \E s \in Servers : NetChanges(s)

\* Time passes, the slots run, and the thread looks at the presets in each
\* round, after the turn of the display that the round may have.
PresetFairness ==
  /\ WF_presetVars(VideoPollingSignalCtrl)
  /\ \A c \in Cameras : SF_presetVars(Camera(c))
PresetSpec == PresetInit /\ [][PresetNext]_presetVars
PresetFairSpec == PresetSpec /\ PresetFairness
-----------------------------------------------------------------------------
(* Properties.                                                             *)

\* What the program has written down of a camera's preset is where the
\* camera is, unless its last command was lost, or the display turned in the
\* slot that commanded or recorded it last, between the read for the command
\* and the one for the record (907-916, 937-947, 1891-1905): buttons, presets,
\* turns and the queued return may come in any order.
RecordFollowsCamera ==
  \A c \in Cameras : lost[c] \/ torn[c] \/ iPresetNo[c] \in {0, position[c]}

OnCamera(c) ==
  /\ c \in {m_iCameraPlayNo, m_iCameraPlayNo'}
  /\ Ptz \/ PresetGetCtrl \/ PresetSetCtrl

\* A camera that the operator leaves alone is at preset 1 in the end, once
\* its link is up for good, unless a return was lost without a sign or a slot
\* was torn by a turn of the display: a return that was refused is tried
\* again (492-500, 1388-1409).
CamerasReturn ==
  \A c \in Cameras :
    <>[](LinkTo(c) = "up") /\ <>[][~OnCamera(c)]_presetVars
      => <>[](lost[c] \/ torn[c] \/ position[c] = 1)
=============================================================================
