----------------------------- MODULE MCSerialLink -----------------------------
(* SerialLink for TLC: the workflows each run starts, and the texts.       *)
EXTENDS SerialLink

FullAndRestart == {"reactivate_full", "hardware_restart"}

AnyText == {"TEXT", "TEXT+OK"}
===============================================================================
