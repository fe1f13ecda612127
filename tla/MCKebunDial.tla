----------------------------- MODULE MCKebunDial -----------------------------
(* KebunDial for TLC.                                                      *)
EXTENDS KebunDial
===============================================================================
