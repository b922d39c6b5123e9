------------------------------ MODULE MCPages -------------------------------
(* The pages of the UI thread, each with the threads and servers it works   *)
(* with.  They share no state that is modelled, so part says which of them  *)
(* moves and the run explores the sum of their states, not the product.     *)
(* Fairness and the liveness properties are those of the modules, asked of  *)
(* the part that moves.                                                     *)
(*                                                                          *)
(* CameraPolling has two cameras and one login.  DevAlarms has one server   *)
(* with one camera, a table that is full with three rows and gives one up,  *)
(* a grace period of two messages.  PantographLight has a camera displayed  *)
(* and one that is not, of one server, as its position names the lamp.      *)
(* RecordPlay has a table of two recordings, one longer than the other,     *)
(* that a query may replace by a shorter one; both are shorter than what is *)
(* assumed of a recording that tells no length.                             *)
EXTENDS PantographLight, DevAlarms, RecordPlay

VARIABLES
  part,
  \* CameraPolling
  logins, m_iCameraNum, pollPlayNo, pollFlag, iPollFlag,
  m_iCameraSwitchState, monPc, iCameraIdex, iPollingFlag, uiPc, iFlag, changes,
  iCameraSwitchState, stream, label, title, labels, m_iPtzMoveType,
  m_iPtzCtrType, pressed, moving

Polling == INSTANCE CameraPolling WITH
             N <- 2, MaxLogins <- 1, PtzButtons <- {}, m_iCameraPlayNo <- pollPlayNo,
             m_iPollingFlag <- pollFlag, text <- title

\* PantographLight: two cameras of one server.
TwoCameras == {<<1, 8>>, <<1, 9>>}

\* RecordPlay: what queries find.
ShortAndLong == {<<1, 2>>, <<2>>}

cameras == <<logins, m_iCameraNum, pollPlayNo, pollFlag, iPollFlag,
  m_iCameraSwitchState, monPc, iCameraIdex, iPollingFlag, uiPc, iFlag, changes,
  iCameraSwitchState, stream, label, title, labels, m_iPtzMoveType,
  m_iPtzCtrType, pressed, moving>>

\* A part that does not move stands in one of its initial states.
Parked ==
  part # "light" => m_iCameraPlayNo = <<1, 8>> /\ net = [s \in Servers |-> "up"]

PagesInit ==
  /\ part \in {"light", "polling", "dev", "play"}
  /\ Init /\ Polling!Init /\ DevInit /\ PlayInit
  /\ Parked

PagesNext ==
  /\ \/ part = "light" /\ Next /\ UNCHANGED <<cameras, devVars, playVars>>
     \/ part = "polling" /\ Polling!Next /\ UNCHANGED <<vars, devVars, playVars>>
     \/ part = "dev" /\ DevNext /\ UNCHANGED <<vars, cameras, playVars>>
     \/ part = "play" /\ PlayNext /\ UNCHANGED <<vars, cameras, devVars>>
  /\ UNCHANGED part

PagesFairness ==
  /\ WF_cameras(part = "polling" /\ Polling!Slot)
  /\ WF_cameras(part = "polling" /\ Polling!Monitor(1))
  /\ SF_cameras(part = "polling" /\ Polling!VideoPollingSignalCtrl(1))
  /\ SF_cameras(part = "polling" /\ Polling!CheckDue(1))
  /\ \A s \in Nvrs :
       /\ WF_devVars(part = "dev" /\ RecvPmsgCtrl(s))
       /\ WF_devVars(part = "dev" /\ GetDevState(s))
  /\ WF_playVars(part = "play" /\ ~crashed /\ SlideValueSetThread)
  /\ WF_playVars(part = "play" /\ CloseRecordPlaySlot)

PagesSpec ==
  /\ PagesInit /\ [][PagesNext]_<<part, vars, cameras, devVars, playVars>>
  /\ PagesFairness
-----------------------------------------------------------------------------

\* Every variable of the pages keeps its type.
TypesOK ==
  CASE part = "light" -> TypeOK
    [] part = "polling" -> Polling!TypeOK
    [] part = "dev" -> DevTypeOK
    [] part = "play" -> PlayTypeOK

\* Every camera has its turn while polling is on (435-446).
EveryCameraVisited == part = "polling" => Polling!PollingVisits
\* The display rests when polling is paused (827-838).
DisplayRests == part = "polling" => Polling!PauseHolds

\* A server that stays away is shown off line (devmanagewidget.cpp 552-602).
ServersShownOffline == part = "dev" => OfflineShown
=============================================================================
