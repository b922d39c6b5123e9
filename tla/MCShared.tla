------------------------------ MODULE MCShared ------------------------------
(* What threads share, and what is said of it at every moment: the packet   *)
(* queue, the parsers in front of it, a second monitorThread on the fields  *)
(* of the first, the settings, the answer to a query that comes in pieces   *)
(* or late.                                                                 *)
(* The parts share no state with each other, so part says which of them     *)
(* moves and the run explores the sum of their states, not the product.     *)
(*                                                                          *)
(* PktQueue has two producers, more than any queue of the program, two      *)
(* packets and three nodes, so that it empties and refills and addresses    *)
(* are reused.  PmsgStream has four byte values: 0 is the heartbeat's type, *)
(* 1 a report's, 3 the start flag; lengths up to 2 pass the length check, a *)
(* server sends at most 1.  Rs485Frames has byte values below and above the *)
(* sign and a buffer that a frame and a half fill.  CameraPolling has two   *)
(* logins with one camera and one PTZ button.  Settings has two keys in two *)
(* groups, RecordQuery three queries of up to two recordings, given up at   *)
(* the second look.                                                         *)
EXTENDS CameraPolling, PktQueue, RecordQuery, PmsgStream, Rs485Frames, Settings

VARIABLE part

\* PmsgStream: exclusive or of two bits.
XorOfTwoBits(a, b) == ((a + b) % 2) + 2 * (((a \div 2) + (b \div 2)) % 2)

TwoEntries == {<<"[PantoMoniTime]", "MoniTime">>, <<"[PantoBackTime]", "BackTime">>}

\* A part that does not move stands in one of its initial states.
Parked ==
  part # "settings" => file = CHOOSE f \in Delivered : TRUE

SharedInit ==
  /\ part \in {"queue", "stream", "serial", "polling", "settings", "query"}
  /\ QInit /\ StreamInit /\ SerialInit /\ Init
  /\ SettingsInit /\ QueryInit /\ Parked

\* After the third query nothing need happen.
SharedNext ==
  /\ \/ part = "queue" /\ QNext
        /\ UNCHANGED <<streamVars, serialVars, vars, settingsVars, queryVars>>
     \/ part = "stream" /\ StreamNext
        /\ UNCHANGED <<qvars, serialVars, vars, settingsVars, queryVars>>
     \/ part = "serial" /\ SerialNext
        /\ UNCHANGED <<qvars, streamVars, vars, settingsVars, queryVars>>
     \/ part = "polling" /\ Next
        /\ UNCHANGED <<qvars, streamVars, serialVars, settingsVars, queryVars>>
     \/ part = "settings" /\ SettingsNext
        /\ UNCHANGED <<qvars, streamVars, serialVars, vars, queryVars>>
     \/ part = "query" /\ QueryNext
        /\ UNCHANGED <<qvars, streamVars, serialVars, vars, settingsVars>>
     \/ part = "query" /\ asked = MaxQueries
        /\ UNCHANGED <<qvars, streamVars, serialVars, vars, settingsVars, queryVars>>
  /\ UNCHANGED part

SharedSpec ==
  SharedInit /\ [][SharedNext]_<<part, qvars, streamVars, serialVars, vars, settingsVars, queryVars>>
-----------------------------------------------------------------------------

\* Every variable keeps its type.
TypesOK ==
  CASE part = "queue" -> QTypeOK
    [] part = "stream" -> StreamTypeOK
    [] part = "serial" -> SerialTypeOK
    [] part = "polling" -> TypeOK
    [] part = "settings" -> SettingsTypeOK
    [] part = "query" -> QueryTypeOK
=============================================================================
