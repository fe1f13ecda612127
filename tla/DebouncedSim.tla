----------------------------- MODULE DebouncedSim -----------------------------
(***************************************************************************)
(* What CpinRuntime promises to those who read a port's SIM state: READY   *)
(* is never taken away on the word of one answer.  A first bad answer only *)
(* raises a doubt; the view leaves READY while a doubt is pending, when a  *)
(* second bad answer arrives.  A view other than READY follows every       *)
(* answer at once.                                                         *)
(***************************************************************************)
CONSTANTS States, Ready, Unknown

VARIABLES view, doubtful

Init == view = Unknown /\ doubtful = FALSE

(* A bad answer while the view is READY.                                   *)
Doubt == view = Ready /\ doubtful' = TRUE /\ UNCHANGED view

(* The doubt was unfounded, or whoever keeps it forgets it.                *)
Dismiss == doubtful' = FALSE /\ UNCHANGED view

(* A second bad answer: READY is given up.                                 *)
Drop ==
  /\ view = Ready /\ doubtful
  /\ view' \in States \ {Ready}
  /\ doubtful' \in BOOLEAN

(* The view is not READY: it takes the answer that arrived.                *)
Follow ==
  /\ view # Ready
  /\ view' \in States
  /\ doubtful' = FALSE

Next == Doubt \/ Dismiss \/ Drop \/ Follow

DebounceSpec == Init /\ [][Next]_<<view, doubtful>>
===============================================================================
