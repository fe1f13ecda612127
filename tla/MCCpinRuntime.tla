---------------------------- MODULE MCCpinRuntime ----------------------------
(* CpinRuntime for TLC: what a misread answer can be.                      *)
EXTENDS CpinRuntime

(* Everything the parser tells apart, a raw answer of None included.       *)
AnyClient == Raws
===============================================================================
