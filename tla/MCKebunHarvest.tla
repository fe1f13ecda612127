---------------------------- MODULE MCKebunHarvest ---------------------------
(* KebunHarvest for TLC: two cards; a file with the columns in an order of *)
(* its own, one without a header, and one that leaves out a NIK and has a  *)
(* number for a KK.                                                        *)
EXTENDS KebunHarvest

CONSTANTS a, b

MCCards == {a, b}
N(c) == Cell("nomor", c)
I(c) == Cell("nik", c)
K(c) == Cell("kk", c)
MCFiles == {
  [header |-> <<"kk", "nik", "nomor">>,
   rows |-> <<<<K(a), I(a), N(a)>>, <<K(b), I(b), N(b)>>>>],
  [header |-> <<>>, rows |-> <<<<N(b), I(b), K(b)>>>>],
  [header |-> <<"nomor", "nik", "kk">>,
   rows |-> <<<<N(a), None, K(a)>>, <<N(b), I(b), N(a)>>>>]}
===============================================================================
