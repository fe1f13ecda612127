---------------------------- MODULE MCKebunBadPort ----------------------------
(* KebunBadPort for TLC, with one card that may be in the slot, or none.   *)
EXTENDS KebunBadPort

MCInit == Init /\ slot \in {NoCard, CHOOSE c \in Cards : TRUE}

MCSpec ==
  MCInit /\ [][Next]_vars /\ WF_vars(Worker) /\ WF_vars(PromptTimeout)
================================================================================
