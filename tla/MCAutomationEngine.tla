------------------------- MODULE MCAutomationEngine -------------------------
(* A small instance of AutomationEngine: two ports compete for one slot.   *)
EXTENDS AutomationEngine

CONSTANTS p1, p2, c1, t1, t2

MCPorts == {p1, p2}
MCCallers == {c1}
MCThreads == {t1, t2}
MCPriorities == {5}
OnlineOnly == {"MODEM_ONLINE"}
=============================================================================
