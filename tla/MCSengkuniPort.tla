---------------------------- MODULE MCSengkuniPort ----------------------------
(* SengkuniPort for TLC: a port with a SIM that may be taken out.          *)
EXTENDS SengkuniPort
CONSTANT k1

MCTasks == {k1}
MCSims == {"ready", "cme_error"}

MCInit == Init /\ sim = "ready"
MCSpec == MCInit /\ [][Next]_vars /\ Fairness
===============================================================================
