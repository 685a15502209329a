-------------------------------- MODULE MCLogin --------------------------------
(* The two ways to log in, for TLC: a behaviour takes one of them.         *)
EXTENDS QrLogin, EsiaReplay

LoginInit == QrInit /\ EsiaInit
LoginNext == \/ at = "idle" /\ QrNext /\ UNCHANGED esiaVars
             \/ pc = "idle" /\ EsiaNext /\ UNCHANGED qrVars
LoginSpec == LoginInit /\ [][LoginNext]_<<qrVars, esiaVars>> /\ QrFairness

\* Every variable of the two logins has its type (client.py:217, manager.py:188).
LoginTypeOK == QrTypeOK /\ EsiaTypeOK

===============================================================================
