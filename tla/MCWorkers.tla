----------------------------- MODULE MCWorkers ------------------------------
(* The threads that write the log, fetch recordings and have streams        *)
(* opened, each with the UI thread that waits for it or is told by it.      *)
(* The parts share no state that is modelled, so part says which of them    *)
(* moves and the run explores the sum of their states, not the product.     *)
(*                                                                          *)
(* LogFile keeps three records and cuts two: the first cut comes at the     *)
(* sixth record, the second before the tenth.  FtpDownload has one download *)
(* of two files or two of one, of two chunks each.                          *)
(* VideoChannels has four cameras - one is neither on the display nor next  *)
(* to it - and a command waiting behind another.                            *)
EXTENDS LogFile, FtpDownload, VideoChannels

VARIABLE part

\* FtpDownload: the presses of the download button.
TwoFilesOrTwice == {<<2>>, <<1, 1>>}

\* A part that does not move stands in one of its initial states.
Parked == part # "ftp" => plan = <<2>>

WorkersInit ==
  /\ part \in {"log", "ftp", "video"}
  /\ Init /\ FtpInit /\ VideoInit
  /\ Parked

WorkersNext ==
  /\ \/ part = "log" /\ Next /\ UNCHANGED <<ftpVars, videoVars>>
     \/ part = "ftp" /\ FtpNext /\ UNCHANGED <<vars, videoVars>>
     \/ part = "video" /\ VideoNext /\ UNCHANGED <<vars, ftpVars>>
  /\ UNCHANGED part

\* That of the modules, asked of the part that moves.
WorkersSpec ==
  /\ WorkersInit /\ [][WorkersNext]_<<part, vars, ftpVars, videoVars>>
  /\ \A t \in Threads :
       WF_vars(part = "log" /\ WriteLog(t)) /\ SF_vars(part = "log" /\ Lock(t))
  /\ WF_ftpVars(part = "ftp" /\ UiEvent /\ UNCHANGED plan)
  /\ \A d \in {1, 2} : WF_ftpVars(part = "ftp" /\ ThreadStep(d))
  /\ WF_videoVars(part = "video" /\ Monitor)
  /\ WF_videoVars(part = "video" /\ CmpOptionCtrlSlot)
  /\ WF_videoVars(part = "video" /\ VideoPollingSignalCtrlSlot)
  /\ WF_videoVars(part = "video" /\ RecordPlayCtrlSlot)
-----------------------------------------------------------------------------

\* Every variable keeps its type.
TypesOK ==
  CASE part = "log" -> TypeOK
    [] part = "ftp" -> FtpTypeOK
    [] part = "video" -> VideoTypeOK
=============================================================================
