------------------------------- MODULE MCLive -------------------------------
(* What has to come about again and again while links fail: the connection  *)
(* of PmsgClient to its server is made again, and the cameras of            *)
(* PresetReturn are sent back to preset 1.  The two share no state that is  *)
(* modelled, so part says which of them moves.                              *)
(*                                                                          *)
(* PmsgClient has one handle.  PresetReturn has the camera displayed and    *)
(* another of the same server, and two places: preset 1 and any other.      *)
EXTENDS PmsgClient, PresetReturn

VARIABLE part

\* PmsgClient: two descriptors, of one handle and of the files.
OneConn == {"nvr1"}
TwoFds == 1..2

\* PresetReturn: two cameras of one server.
TwoCameras == {<<1, 8>>, <<1, 9>>}

\* A part that does not move stands in one of its initial states.
Parked ==
  /\ part # "client" => server = [c \in Conns |-> "down"]
  /\ part # "preset" =>
       /\ m_iCameraPlayNo = <<1, 8>> /\ net = [s \in Servers |-> "up"]
       /\ position = [c \in Cameras |-> 1]

LiveInit ==
  /\ part \in {"client", "preset"}
  /\ Init /\ PresetInit /\ Parked

LiveNext ==
  /\ \/ part = "client" /\ Next /\ UNCHANGED presetVars
     \/ part = "preset" /\ PresetNext /\ UNCHANGED vars
  /\ UNCHANGED part

\* That of the modules, asked of the part that moves.
LiveSpec ==
  /\ LiveInit /\ [][LiveNext]_<<part, vars, presetVars>>
  /\ \A c \in Conns :
       /\ WF_vars(part = "client" /\ ~killed /\ CliProcessThread(c))
       /\ SF_vars(part = "client" /\ ~killed /\ LockBeat(c))
  /\ WF_vars(part = "client" /\ ~killed /\ UiStep)
  /\ WF_presetVars(part = "preset" /\ VideoPollingSignalCtrl)
  /\ \A c \in Cameras : SF_presetVars(part = "preset" /\ Camera(c))
=============================================================================
