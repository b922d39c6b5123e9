---------------------------- MODULE MCDevAlarms -----------------------------
(* DevAlarms with a record of the losses that getDevStateSignalCtrl has     *)
(* noticed, one server with one camera.                                     *)
EXTENDS DevAlarms

VARIABLE foundLost   \* servers seen on line, then found lost, and not back yet

NoticedLost(s) == m_aiNvrOnlineFlag[s] = 1 /\ m_aiNvrOnlineFlag'[s] = 0

LossInit == DevInit /\ foundLost = {}
LossNext ==
  /\ DevNext
  /\ foundLost' = {s \in Nvrs : ~connected'[s] /\ (s \in foundLost \/ NoticedLost(s))}
LossSpec == LossInit /\ [][LossNext]_<<devVars, foundLost>>
-----------------------------------------------------------------------------
\* "When a server is off line all alarms of it and its cameras are cleared"
\* (alarmwidget.cpp 406): while a server that was found lost stays away, it
\* has none.
OfflineClearsAlarms ==
  \A s \in foundLost : \A c \in Cams : iErrFlag[<<s, c>>] = "none"
=============================================================================
