-------------------------- MODULE PantographLight ---------------------------
(***************************************************************************)
(* The fill lights of the pantograph cameras (pvmsmonitorwidget.cpp): the  *)
(* servers report the pantographs up or down, up switches a light on, ten  *)
(* minutes of down switch it off, and the operator switches the light of   *)
(* the displayed camera by hand.                                           *)
(*                                                                         *)
(* Everything here runs on the UI thread, one handler per step; only       *)
(* m_iCameraPlayNo is written by monitorThread, which then waits until the *)
(* UI thread has run videoPollingSignalCtrl.  So one login writes it at    *)
(* most once while a slot runs, and the step of fillLightSwitchSlot says   *)
(* which of its reads come after that write.  Several logins, and the ways *)
(* polling is started and paused, are the subject of CameraPolling: here a *)
(* turn may come at any time.  The text of the button is left out, nothing *)
(* but the operator reads it.                                              *)
(***************************************************************************)
EXTENDS Naturals

CONSTANTS
  Cameras   \* pairs of phandle and iPosNO; at most 4, pvmsUpdownCtrl knows no more

phandle(c) == c[1]   \* the connection to the server of camera c
iPosNO(c) == c[2]    \* its number on that server
Servers == {phandle(c) : c \in Cameras}

ASSUME CamerasArePairs == Cameras \subseteq Servers \X {iPosNO(c) : c \in Cameras}

VARIABLES
  iFillLightSwitchState,     \* what the program thinks the lamp does
  iManualFillLightCtrlFlag,
  iPvmsUpdownState,
  pvmsDownMonitorTimer,      \* TRUE while the timer exists and runs
  m_iCameraPlayNo,
  polled,                    \* monitorThread waits for videoPollingSignalCtrl
  enabled,                   \* fillLightSwitchPushButton can be pressed
  net,                       \* "up", "gone": send() succeeds to no effect, "down"
  lamp,                      \* the lamps themselves
  lost,                      \* the last command to the lamp did not get there
  torn                       \* m_iCameraPlayNo changed between record and command

record == <<iFillLightSwitchState, iManualFillLightCtrlFlag>>
pantograph == <<iPvmsUpdownState, pvmsDownMonitorTimer>>
polling == <<m_iCameraPlayNo, polled>>
outside == <<net, lamp, lost, torn>>
vars == <<record, pantograph, polling, enabled, outside>>

Light == {"on", "off"}
TypeOK ==
  /\ iFillLightSwitchState \in [Cameras -> Light]
  /\ iManualFillLightCtrlFlag \in [Cameras -> BOOLEAN]
  /\ iPvmsUpdownState \in [Cameras -> {"PVMS_UP", "PVMS_DOWN"}]
  /\ pvmsDownMonitorTimer \in [Cameras -> BOOLEAN]
  /\ m_iCameraPlayNo \in Cameras
  /\ {polled, enabled} \subseteq BOOLEAN
  /\ net \in [Servers -> {"up", "gone", "down"}]
  /\ lamp \in [Cameras -> Light]
  /\ lost \in [Cameras -> BOOLEAN] /\ torn \in [Cameras -> BOOLEAN]

-----------------------------------------------------------------------------
(* Commands: cs are the cameras told, x what they are told.                *)

All(cs, x) == [c \in cs |-> x]
Set(f, cs, x) == [c \in Cameras |-> IF c \in cs THEN x ELSE f[c]]

LinkTo(c) == net[phandle(c)]
Accepted(c) == LinkTo(c) # "down"
Command(cs, x) ==
  /\ lamp' = Set(lamp, {c \in cs : LinkTo(c) = "up"}, x)
  /\ lost' = [c \in Cameras |-> IF c \in cs THEN LinkTo(c) # "up" ELSE lost[c]]
  /\ UNCHANGED net

\* Of a handler whose camera is its own and not m_iCameraPlayNo.
OwnCommand(cs, x) == Command(cs, x) /\ torn' = Set(torn, cs, FALSE)

\* The first login, all lights commanded on whatever came of the commands.
Init ==
  /\ iFillLightSwitchState = All(Cameras, "on")
  /\ iManualFillLightCtrlFlag = All(Cameras, FALSE)
  /\ iPvmsUpdownState = All(Cameras, "PVMS_DOWN")
  /\ pvmsDownMonitorTimer = All(Cameras, FALSE)
  /\ m_iCameraPlayNo \in Cameras
  /\ polled = TRUE /\ enabled = TRUE
  /\ net \in [Servers -> {"up", "down"}]
  /\ lamp \in [Cameras -> Light] /\ \A c \in Cameras : LinkTo(c) = "up" => lamp[c] = "on"
  /\ lost = [c \in Cameras |-> LinkTo(c) # "up"] /\ torn = All(Cameras, FALSE)

-----------------------------------------------------------------------------
(* pmsgCtrl and pvmsUpdownCtrl: a recorder reports all pantographs up or   *)
(* down, the train information system each of them.                        *)

\* Mutant: up lights a camera the operator has switched off.
ToOpenAll(raised) == {c \in raised : iFillLightSwitchState[c] = "off"}
ToOpen(raised) ==
  {c \in raised : iFillLightSwitchState[c] = "off" /\ ~iManualFillLightCtrlFlag[c]}

\* Mutant: up leaves the timer of the last down.
TimersLeft(raised) == [c \in Cameras |->
  pvmsDownMonitorTimer[c] \/ (c \notin raised /\ iFillLightSwitchState[c] = "on")]
TimersAfter(raised) == [c \in Cameras |->
  c \notin raised /\ (pvmsDownMonitorTimer[c] \/ iFillLightSwitchState[c] = "on")]

PvmsUpdown(raised) ==
  /\ iPvmsUpdownState' = [c \in Cameras |-> IF c \in raised THEN "PVMS_UP" ELSE "PVMS_DOWN"]
  /\ pvmsDownMonitorTimer' = TimersAfter(raised)
  /\ OwnCommand(ToOpen(raised), "on")
  /\ iFillLightSwitchState' = Set(iFillLightSwitchState, ToOpen(raised), "on")
  /\ UNCHANGED <<iManualFillLightCtrlFlag, polling, enabled>>

\* Mutant: a copy of the slot that closes its camera's light by "open".
CloseByOpen(c) == OwnCommand({c}, "on")
Close(c) == OwnCommand({c}, "off")

\* pvmsDownEndSlot1 to 4: ten minutes after the report.
DownEnd(c) ==
  /\ pvmsDownMonitorTimer[c]
  /\ Close(c)
  /\ iManualFillLightCtrlFlag' =
       [iManualFillLightCtrlFlag EXCEPT ![c] = @ /\ ~Accepted(c)]
  /\ iFillLightSwitchState' = [iFillLightSwitchState EXCEPT ![c] = "off"]
  /\ pvmsDownMonitorTimer' = [pvmsDownMonitorTimer EXCEPT ![c] = FALSE]
  /\ UNCHANGED <<iPvmsUpdownState, polling, enabled>>

-----------------------------------------------------------------------------
(* The operator                                                            *)

Other(x) == IF x = "on" THEN "off" ELSE "on"

\* The cameras that the six reads of m_iCameraPlayNo in a slot may find,
\* monitorThread writing it before one of them or not at all.
Reads ==
  {[k \in 1..6 |-> IF k < i THEN m_iCameraPlayNo ELSE c] :
     i \in 2..6, c \in IF polled THEN {m_iCameraPlayNo} ELSE Cameras}
Found(c) == m_iCameraPlayNo' = c /\ polled' = (polled \/ c # m_iCameraPlayNo)

\* A message that goes to the server of d with the position of c.
Told(c, d) == {e \in Cameras : phandle(e) = phandle(d) /\ iPosNO(e) = iPosNO(c)}

\* r: the state that is tested and the one that is written, the position and
\* the server of the command, the flag that is tested and the one that is set.
FillLightSwitch ==
  /\ enabled
  /\ \E r \in Reads :
       LET x == Other(iFillLightSwitchState[r[1]])
           told == Told(r[3], r[4])
       IN /\ Command(told, x)
          /\ iFillLightSwitchState' = [iFillLightSwitchState EXCEPT ![r[2]] = x]
          /\ torn' = Set(torn, told \cup {r[2]}, r[2] # r[4])
          /\ iManualFillLightCtrlFlag' = [iManualFillLightCtrlFlag EXCEPT
               ![r[6]] = @ \/ (Accepted(r[4]) /\ ~iManualFillLightCtrlFlag[r[5]])]
          /\ enabled' = ~Accepted(r[4])
          /\ Found(r[6])
  /\ UNCHANGED pantograph

FillLightSwitchEnd ==
  /\ ~enabled /\ enabled' = TRUE
  /\ UNCHANGED <<record, pantograph, polling, outside>>

-----------------------------------------------------------------------------
(* Polling, or the previous and next buttons, which work when it is paused *)

Poll(c) ==
  /\ ~polled /\ polled' = TRUE /\ m_iCameraPlayNo' = c
  /\ UNCHANGED <<record, pantograph, enabled, outside>>

VideoPollingSignalCtrl ==
  /\ polled /\ polled' = FALSE
  /\ UNCHANGED <<record, pantograph, m_iCameraPlayNo, enabled, outside>>

-----------------------------------------------------------------------------
NetChanges(s) ==
  /\ \E x \in {"up", "gone", "down"} \ {net[s]} : net' = [net EXCEPT ![s] = x]
  /\ UNCHANGED <<record, pantograph, polling, enabled, lamp, lost, torn>>

Next ==
  \/ \E raised \in SUBSET Cameras : PvmsUpdown(raised)
  \/ FillLightSwitch \/ FillLightSwitchEnd \/ VideoPollingSignalCtrl
  \/ \E c \in Cameras : DownEnd(c) \/ Poll(c)
  \/ \E s \in Servers : NetChanges(s)

\* The timers fire and the UI thread runs the slots it is sent.
Fairness ==
  /\ WF_vars(VideoPollingSignalCtrl) /\ WF_vars(FillLightSwitchEnd)
  /\ \A c \in Cameras : WF_vars(DownEnd(c))

Spec == Init /\ [][Next]_vars
FairSpec == Spec /\ Fairness
-----------------------------------------------------------------------------
(* Properties.                                                             *)

\* The record of a light is wrong only if the last command for it was lost, or
\* if m_iCameraPlayNo changed in the slot that recorded or commanded it last,
\* after the state was written (1130, 1138) and before the command had its
\* position and server (1140-1141).  A change at any other read of the slot,
\* and every other handler, leaves record and lamp together.
RecordFollowsLamp ==
  \A c \in Cameras : lost[c] \/ torn[c] \/ lamp[c] = iFillLightSwitchState[c]

\* Nothing but the operator lights a lamp that the operator's accepted
\* command turned off, until the ten minutes of a later down have passed
\* (2225: iManualFillLightCtrlFlag).  The light that the button switches is
\* that of the camera displayed before it or after it.
ManualOffStays ==
  [][\A c \in Cameras :
       iManualFillLightCtrlFlag[c] /\ iManualFillLightCtrlFlag'[c]
         /\ iFillLightSwitchState[c] = "off" /\ iFillLightSwitchState'[c] = "on"
       => FillLightSwitch /\ c \in {m_iCameraPlayNo, m_iCameraPlayNo'}]_vars

\* A light whose pantograph is up is not turned off by what an earlier down
\* began: only the operator's button does it, a report up takes the timer away
\* also of a light that it does not switch (2215-2223, 1915-2113).
UpKeepsLight ==
  [][\A c \in Cameras :
       iPvmsUpdownState[c] = "PVMS_UP" /\ lamp[c] = "on" /\ lamp'[c] = "off"
       => FillLightSwitch]_vars

\* "Ten minutes after the down signal the light is closed" (2266), at the
\* latest when a link that was away is back for good.
DownClosesLight ==
  \A c \in Cameras :
    pvmsDownMonitorTimer[c] /\ <>[](LinkTo(c) = "up")
      ~> lamp[c] = "off" \/ iPvmsUpdownState[c] = "PVMS_UP"
=============================================================================
