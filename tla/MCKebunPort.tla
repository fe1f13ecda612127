----------------------------- MODULE MCKebunPort -----------------------------
(* KebunPort for TLC.  The cards differ in nothing, so the one in the slot *)
(* at the start is fixed.                                                  *)
EXTENDS KebunPort

MCInit == Init /\ slot \in {NoCard, CHOOSE c \in Cards : TRUE}

MCSpec == MCInit /\ [][Next]_vars /\ WF_vars(Worker)
===============================================================================
