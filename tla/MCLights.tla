------------------------------ MODULE MCLights ------------------------------
(* PantographLight with one camera, whose light the operator leaves alone:  *)
(* no slot can find two cameras, what is left are the links that fail.      *)
EXTENDS PantographLight

OneCamera == {<<1, 8>>}

UntouchedSpec == Init /\ [][Next /\ ~FillLightSwitch]_vars /\ Fairness
=============================================================================
