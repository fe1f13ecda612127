------------------------------ MODULE MassAction ------------------------------
(***************************************************************************)
(* The mass action of SAIKI beside the worker of one port: MassAction sets *)
(* the single action of the worker from a thread of its own, watches the   *)
(* worker's status and counts what it takes for the outcome.               *)
(*                                                                         *)
(* The commands come from one thread, the user's.  There is one port, so   *)
(* a mass action has one to do; without an eligible port none is begun.    *)
(* No program makes a MassAction: it is used as its tests use it.          *)
(***************************************************************************)
EXTENDS PortWorker

CONSTANT MaxMass   \* bound: mass actions

ASSUME MassAssumption == MaxMass \in Nat \ {0}

Masses == 1 .. MaxMass
Total == 1

VARIABLES
  begun,     \* how many mass actions there were; _thread is that of the last
  mass,      \* per mass action: where its thread is, the progress it uses
  current,   \* _current_action: the progress of that mass action, or 0
  progress   \* per progress: the ports completed, and with success

massVars == <<begun, mass, current, progress>>
allVars == <<vars, massVars>>

MassInit ==
  /\ Init
  /\ begun = 0 /\ current = 0
  /\ mass = [k \in Masses |-> [pc |-> "off", uses |-> 0]]
  /\ progress = [k \in Masses |-> [completed |-> 0, success |-> 0]]

MassIsRunning == begun # 0 /\ mass[begun].pc # "ended"

(* get_eligible_ports.                                                     *)
Eligible == registered /\ ThreadIsAlive /\ online

BeginsMass ==
  /\ begun' = begun + 1 /\ current' = begun + 1
  /\ mass' = [mass EXCEPT ![begun + 1].pc = "begin"]
  /\ UNCHANGED <<vars, progress>>

(* Mutant of StartMass: is_running is not asked.                           *)
StartMassAnyhow ==
  At(User, "idle") /\ begun < MaxMass /\ Eligible /\ BeginsMass

(* start_mass_number_check and start_mass_reactivation.                    *)
StartMass ==
  /\ At(User, "idle") /\ begun < MaxMass
  /\ ~MassIsRunning /\ Eligible /\ BeginsMass

(* The thread takes what the current action is by then, and asks the       *)
(* worker.                                                                 *)
SetsAction(k) ==
  /\ mass[k].pc = "begin" /\ current # 0
  /\ mass' = [mass EXCEPT ![k] = [pc |-> "wait", uses |-> current]]
  /\ action' \in Actions
  /\ UNCHANGED <<place, online, control, autoRun, reset, retry, auto, status,
                 hw, thread, restarting, clicks, begun, current, progress>>

(* It waits while the worker is BUSY or CHECKING, sixty seconds at most,   *)
(* reads the status once more, and has then done the one port there is.    *)
Completes(k) ==
  /\ mass[k].pc = "wait"
  /\ mass' = [mass EXCEPT ![k].pc = "ended"]
  /\ progress' = [progress EXCEPT
       ![mass[k].uses].completed = @ + 1,
       ![mass[k].uses].success = IF status = "READY" THEN @ + 1 ELSE @]
  /\ current' = 0
  /\ UNCHANGED <<vars, begun>>

GoesOn(k) == SetsAction(k) \/ Completes(k)

MassNext ==
  \/ WorkerNext /\ UNCHANGED massVars
  \/ StartMass
  \/ \E k \in Masses : GoesOn(k)

(* Threads that can go on do.                                              *)
Fairness ==
  /\ \A l \in Lives : WF_vars(Works(l))
  /\ \A c \in Controllers : WF_vars(Controls(c))
  /\ \A k \in Masses : WF_allVars(GoesOn(k))

MassSpec == MassInit /\ [][MassNext]_allVars /\ Fairness

(* What a mass action reports when it is complete is its own: as many      *)
(* ports as it set out to do, none of them counted twice or for another    *)
(* action that was begun beside it.                                        *)
MassAddsUp ==
  \A k \in Masses :
    /\ mass[k].pc = "ended" => progress[k].completed = Total
    /\ progress[k].completed <= Total
=============================================================================
