----------------------------- MODULE MCKebunTable ----------------------------
(* KebunTable for TLC.                                                     *)
EXTENDS KebunTable
===============================================================================
