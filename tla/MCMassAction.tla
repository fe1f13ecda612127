----------------------------- MODULE MCMassAction -----------------------------
(* The worker of one port and mass actions, with three kinds of SIM.       *)
EXTENDS MassAction

CONSTANT Act

MCActions == {Act}
MCSims == {"READY", "NOT_INSERTED", "UNKNOWN"}
=============================================================================
