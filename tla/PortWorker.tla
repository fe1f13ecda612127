------------------------------ MODULE PortWorker ------------------------------
(***************************************************************************)
(* The port worker of SAIKI: its thread with the requests it consumes, the *)
(* hardware restart and its state machine, and the threads that start,     *)
(* stop, restart and destroy it.                                           *)
(*                                                                         *)
(* The requests are flags behind one lock; a tick of the thread consumes   *)
(* the first of them that is set.                                          *)
(* stop() waits five seconds for the thread while it holds the lock of the *)
(* worker, and goes on without it.  restart() runs the hardware restart on *)
(* the thread of its caller, which then shares the AT client, the status   *)
(* and the state machine with a thread that has outlived the five seconds. *)
(*                                                                         *)
(* An exchange with the modem is one step, whatever it answers; a port     *)
(* that is closed, or that never opened, answers nothing.  The programs    *)
(* call start, stop, force_retry and set_modem_online; restart and the     *)
(* request for an automatic run are called from tests alone.  A tick that  *)
(* raises belongs to the module WorkerManager, polling to CpinRuntime.     *)
(***************************************************************************)
EXTENDS Integers, Sequences

CONSTANTS
  User, Manager,   \* the threads that control the worker
  NoAction,        \* no single action is requested
  Actions,         \* what a single action can ask for
  Sims,            \* CpinStates an open port can answer with
  MaxLives,        \* bound: threads of the worker, one after another
  MaxSteps,        \* bound: steps of an automatic run
  MaxClicks        \* bound: commands of the user

CpinState == {"READY", "NOT_READY", "NOT_INSERTED", "PIN_REQUIRED", "UNKNOWN"}

ASSUME WorkerAssumption ==
  /\ User # Manager /\ {User, Manager} \cap Nat = {}
  /\ NoAction \notin Actions
  /\ Sims \subseteq CpinState
  /\ {MaxLives, MaxSteps} \subseteq Nat \ {0} /\ MaxClicks \in Nat

Lives == 1 .. MaxLives
Controllers == {User, Manager}
Threads == Lives \cup Controllers

PortStatus == {"OFF", "READY", "BUSY", "CHECKING", "RESET", "IDLE", "GAGAL"}

HwState == {"OFFLINE", "MODEM_DETECTED", "PORT_READY", "SIM_INSERTED",
            "CPIN_READY", "READY", "SIM_REMOVED"}

VARIABLES
  line,       \* the serial port: "open", "closed", or "none" without a client
  announced,  \* the monitor takes the modem for online
  registered, \* the manager has the worker
  online,     \* _modem_online
  running,    \* _running
  life,       \* the number of _thread
  autoRun,    \* AutoRunConfig.auto_run_enabled
  reset, action, retry, auto, \* what is requested
  status,     \* PortWorkerState.status
  hw,         \* HwStateMachine.current_state
  thread,     \* per thread: where it is, the steps left, the SIM it has
              \* found, the transitions it still has to make
  restarting, \* the user's stop is part of a restart
  clicks

requests == <<reset, action, retry, auto>>
place == <<line, announced, registered>>
control == <<running, life>>
vars == <<place, online, control, autoRun, requests, status, hw, thread,
          restarting, clicks>>

Ticking == {"begin", "look"}
Stepping == {"step", "sim", "dial", "next"}
Restarting == {"restart", "atz", "up"}
Controlling == {"idle", "on", "lock", "join", "put_off"}
Places == {"off", "ended"} \cup Ticking \cup Stepping \cup Restarting
            \cup Controlling

-----------------------------------------------------------------------------
(* HwStateMachine.                                                         *)

(* Mutant of ValidTransitions: a row of the table is missing.              *)
TransitionsButOne ==
  {<<"OFFLINE", "MODEM_DETECTED">>, <<"PORT_READY", "SIM_INSERTED">>,
   <<"SIM_INSERTED", "CPIN_READY">>, <<"CPIN_READY", "READY">>,
   <<"READY", "SIM_REMOVED">>, <<"READY", "OFFLINE">>,
   <<"SIM_REMOVED", "OFFLINE">>, <<"SIM_REMOVED", "SIM_INSERTED">>,
   <<"OFFLINE", "READY">>}

ValidTransitions ==
  {<<"OFFLINE", "MODEM_DETECTED">>, <<"MODEM_DETECTED", "PORT_READY">>,
   <<"PORT_READY", "SIM_INSERTED">>, <<"SIM_INSERTED", "CPIN_READY">>,
   <<"CPIN_READY", "READY">>, <<"READY", "SIM_REMOVED">>,
   <<"READY", "OFFLINE">>, <<"SIM_REMOVED", "OFFLINE">>,
   <<"SIM_REMOVED", "SIM_INSERTED">>, <<"OFFLINE", "READY">>}

(* A transition that the table does not have is refused.                   *)
Transition(to) ==
  hw' = IF <<hw, to>> \in ValidTransitions THEN to ELSE hw

(* The transitions a restart tries, by the SIM it has found.               *)
BringUp(sim) ==
  <<"MODEM_DETECTED", "PORT_READY">>
    \o (IF sim = "NOT_INSERTED" THEN << >> ELSE <<"SIM_INSERTED">>)
    \o (IF sim = "READY" THEN <<"CPIN_READY", "READY">> ELSE << >>)

-----------------------------------------------------------------------------
At(t, pc) == thread[t].pc = pc
Goes(t, pc) == thread' = [thread EXCEPT ![t].pc = pc]

Alive(l) == thread[l].pc \notin {"off", "ended"}
ThreadIsAlive == Alive(life)

(* PortWorker._lock is held by a stop that waits for the thread.           *)
LockIsFree == \A c \in Controllers : ~At(c, "join")

(* What the modem can say about the SIM.                                   *)
Answers == IF line = "open" THEN Sims ELSE {"UNKNOWN"}

NoWork(pc) == [pc |-> pc, left |-> 0, sim |-> "UNKNOWN", todo |-> << >>]

(* create_worker has made the worker, connected it, if its port opened,    *)
(* and started it.                                                         *)
Init ==
  /\ line \in {"none", "closed", "open"} /\ announced = FALSE
  /\ registered = TRUE
  /\ online = FALSE /\ running = TRUE /\ life = 1
  /\ autoRun = FALSE
  /\ reset = FALSE /\ action = NoAction /\ retry = FALSE /\ auto = FALSE
  /\ status = "OFF"
  /\ hw = IF line = "open" THEN "MODEM_DETECTED" ELSE "OFFLINE"
  /\ thread = [t \in Threads |-> NoWork(IF t = 1 THEN "begin"
                                        ELSE IF t \in Lives THEN "off"
                                        ELSE "idle")]
  /\ restarting = FALSE /\ clicks = 0

-----------------------------------------------------------------------------
(* The thread of the worker, of life l.                                    *)

Quiet == UNCHANGED <<place, control, autoRun, restarting, clicks>>

Begins(l) ==
  /\ At(l, "begin") /\ Goes(l, "look")
  /\ status' = "READY"
  /\ UNCHANGED <<online, requests, hw>> /\ Quiet

Ends(l) ==
  /\ At(l, "look") /\ ~running /\ Goes(l, "ended")
  /\ UNCHANGED <<online, requests, status, hw>> /\ Quiet

(* A tick: offline, the thread sleeps; online, it consumes the first of    *)
(* the requests, in this order.  They are read one after the other: one    *)
(* that is made when it has been passed over waits for the next tick, as   *)
(* if it had been made after this one.                                     *)
Ticks(l) == At(l, "look") /\ running /\ online

TakesReset(l) ==
  /\ Ticks(l) /\ reset /\ reset' = FALSE
  /\ Goes(l, "restart")
  /\ UNCHANGED <<online, action, retry, auto, status, hw>> /\ Quiet

TakesAction(l) ==
  /\ Ticks(l) /\ ~reset /\ action # NoAction /\ action' = NoAction
  /\ Goes(l, "step")
  /\ UNCHANGED <<online, reset, retry, auto, status, hw>> /\ Quiet

NoClick == ~reset /\ action = NoAction

(* Mutant of TakesRetry: the request waits for a worker that is READY.     *)
RetryWhenReady(l) ==
  /\ Ticks(l) /\ NoClick /\ retry /\ status = "READY" /\ retry' = FALSE
  /\ Goes(l, "step")
  /\ UNCHANGED <<online, reset, action, auto, status, hw>> /\ Quiet

TakesRetry(l) ==
  /\ Ticks(l) /\ NoClick /\ retry /\ retry' = FALSE
  /\ Goes(l, "step")
  /\ UNCHANGED <<online, reset, action, auto, status, hw>> /\ Quiet

(* should_block_auto_run: the modem was online when the tick began, and    *)
(* nobody writes the other fields it looks at.                             *)
TakesAuto(l) ==
  /\ Ticks(l) /\ NoClick /\ ~retry
  /\ autoRun /\ auto /\ auto' = FALSE
  /\ thread' = [thread EXCEPT ![l].pc = "next", ![l].left = MaxSteps]
  /\ UNCHANGED <<online, reset, action, retry, status, hw>> /\ Quiet

(* The next step of an automatic run, or its end.                          *)
NextStep(l) ==
  /\ At(l, "next")
  /\ thread' = [thread EXCEPT
       ![l].pc = IF running /\ online THEN "step" ELSE "look",
       ![l].left = IF running /\ online THEN @ - 1 ELSE 0]
  /\ status' = IF running /\ ~online THEN "CHECKING" ELSE status
  /\ UNCHANGED <<online, requests, hw>> /\ Quiet

StepBegins(l) ==
  /\ At(l, "step")
  /\ Goes(l, IF line = "none" THEN "dial" ELSE "sim")
  /\ status' = "BUSY"
  /\ UNCHANGED <<online, requests, hw>> /\ Quiet

(* A run goes on after a step that ended in whatever way.                  *)
StepReturns(l) ==
  thread' = [thread EXCEPT ![l].pc = IF thread[l].left > 0 THEN "next"
                                     ELSE "look"]

(* Mutant of NotReady: the status is left as it is.                        *)
NotReadyStaysBusy(l) ==
  /\ Answers # {"READY"} /\ StepReturns(l) /\ UNCHANGED status

NotReady(l) ==
  /\ Answers # {"READY"} /\ StepReturns(l) /\ status' = "CHECKING"

ChecksSim(l) ==
  /\ At(l, "sim")
  /\ \/ "READY" \in Answers /\ Goes(l, "dial") /\ UNCHANGED status
     \/ NotReady(l)
  /\ UNCHANGED <<online, requests, hw>> /\ Quiet

(* The command, its cleanup and the cooldown.                              *)
StepEnds(l) ==
  /\ At(l, "dial") /\ StepReturns(l)
  /\ status' = "READY"
  /\ UNCHANGED <<online, requests, hw>> /\ Quiet

-----------------------------------------------------------------------------
(* The hardware restart, on the thread t.                                  *)

Resumes(t) == IF t \in Lives THEN "look" ELSE "on"

RestartBegins(t) ==
  /\ At(t, "restart") /\ Goes(t, "atz")
  /\ status' = "RESET" /\ Transition("OFFLINE")
  /\ UNCHANGED <<online, requests>> /\ Quiet

(* ATZ, and the question whether the modem answers again.  They take       *)
(* seconds: what another thread does without the modem is done by then.    *)
Settled(t) == \A o \in Threads \ {t} : ~At(o, "up")

ModemIsMute(t) ==
  /\ At(t, "atz") /\ line # "none" /\ Settled(t)
  /\ Goes(t, Resumes(t))
  /\ online' = FALSE /\ status' = "GAGAL"
  /\ UNCHANGED <<requests, hw>> /\ Quiet

ModemIsBack(t) ==
  /\ At(t, "atz") /\ line = "open" /\ Settled(t)
  /\ \E sim \in Sims : thread' = [thread EXCEPT
       ![t].pc = "up", ![t].sim = sim, ![t].todo = BringUp(sim)]
  /\ online' = TRUE
  /\ UNCHANGED <<requests, status, hw>> /\ Quiet

NoModem(t) ==
  /\ At(t, "atz") /\ line = "none"
  /\ Goes(t, Resumes(t)) /\ status' = "READY"
  /\ UNCHANGED <<online, requests, hw>> /\ Quiet

Climbs(t) ==
  /\ At(t, "up") /\ thread[t].todo # << >>
  /\ Transition(Head(thread[t].todo))
  /\ thread' = [thread EXCEPT ![t].todo = Tail(@)]
  /\ UNCHANGED <<online, requests, status>> /\ Quiet

RestartEnds(t) ==
  /\ At(t, "up") /\ thread[t].todo = << >>
  /\ thread' = [thread EXCEPT ![t].pc = Resumes(t), ![t].sim = "UNKNOWN"]
  /\ LET queues == thread[t].sim = "READY" /\ autoRun IN
     /\ auto' = (auto \/ queues)
     /\ status' = IF queues THEN "READY" ELSE "IDLE"
  /\ UNCHANGED <<online, reset, action, retry, hw>> /\ Quiet

Restarts(t) ==
  RestartBegins(t) \/ ModemIsMute(t) \/ ModemIsBack(t) \/ NoModem(t)
    \/ Climbs(t) \/ RestartEnds(t)

-----------------------------------------------------------------------------
(* start and stop, on the thread c.                                        *)

(* Mutant of Start: only the flag is looked at.                            *)
StartIfNotRunning(c) ==
  \/ running /\ Goes(c, "idle") /\ UNCHANGED control
  \/ /\ ~running /\ life < MaxLives
     /\ running' = TRUE /\ life' = life + 1
     /\ thread' = [thread EXCEPT ![c].pc = "idle", ![life + 1].pc = "begin"]

(* A thread that is alive is left alone, whether it will end or not.       *)
Start(c) ==
  \/ ThreadIsAlive /\ Goes(c, "idle") /\ UNCHANGED control
  \/ /\ ~ThreadIsAlive /\ life < MaxLives
     /\ running' = TRUE /\ life' = life + 1
     /\ thread' = [thread EXCEPT ![c].pc = "idle", ![life + 1].pc = "begin"]

Starts(c) ==
  /\ At(c, "on") /\ LockIsFree /\ Start(c)
  /\ UNCHANGED <<place, online, autoRun, requests, status, hw, restarting,
                 clicks>>

(* stop() has cleared the flag; now it waits for the lock, then for the    *)
(* thread.                                                                 *)
TakesLock(c) ==
  /\ At(c, "lock") /\ LockIsFree
  /\ Goes(c, IF ThreadIsAlive THEN "join" ELSE "put_off")
  /\ UNCHANGED <<online, requests, status, hw>> /\ Quiet

(* The thread outlives the five seconds only in an exchange with the modem;*)
(* everything else it does takes a second at most.                         *)
Joins(c) ==
  /\ At(c, "join")
  /\ ThreadIsAlive => thread[life].pc \in {"sim", "dial", "atz"}
  /\ Goes(c, "put_off")
  /\ UNCHANGED <<online, requests, status, hw>> /\ Quiet

(* request_reset.                                                          *)
DropRequests ==
  reset' = TRUE /\ retry' = FALSE /\ action' = NoAction /\ auto' = FALSE

(* The end of stop(), after which restart() requests a reset and carries   *)
(* one out itself.                                                         *)
PutsOff(c) ==
  /\ At(c, "put_off") /\ status' = "OFF"
  /\ IF c = User /\ restarting
     THEN DropRequests /\ restarting' = FALSE /\ Goes(c, "restart")
     ELSE UNCHANGED <<requests, restarting>> /\ Goes(c, "idle")
  /\ UNCHANGED <<place, online, control, autoRun, hw, clicks>>

-----------------------------------------------------------------------------
(* What the user does: one command at a time, to a worker that the manager *)
(* still has.                                                              *)

Clicks ==
  /\ registered /\ At(User, "idle")
  /\ clicks < MaxClicks /\ clicks' = clicks + 1

PortOn ==
  /\ Clicks /\ life < MaxLives /\ Goes(User, "on")
  /\ UNCHANGED <<place, online, control, autoRun, requests, status, hw,
                 restarting>>

StopBegins(isRestart) ==
  /\ Clicks /\ Goes(User, "lock")
  /\ running' = FALSE /\ restarting' = isRestart
  /\ UNCHANGED <<place, online, life, autoRun, requests, status, hw>>

PortOff == StopBegins(FALSE)
Restart == life < MaxLives /\ StopBegins(TRUE)

ForceRetry ==
  /\ Clicks /\ retry' = TRUE
  /\ UNCHANGED <<place, online, control, autoRun, reset, action, auto, status,
                 hw, thread, restarting>>

QueueAutoRun ==
  /\ Clicks /\ auto' = TRUE
  /\ UNCHANGED <<place, online, control, autoRun, reset, action, retry, status,
                 hw, thread, restarting>>

ToggleAutoRun ==
  /\ Clicks /\ autoRun' = ~autoRun
  /\ UNCHANGED <<place, online, control, requests, status, hw, thread,
                 restarting>>

-----------------------------------------------------------------------------
(* The monitor tells once that the modem answers.                          *)
ModemOnline ==
  /\ line = "open" /\ registered /\ ~announced
  /\ announced' = TRUE /\ online' = TRUE
  /\ UNCHANGED <<line, registered, control, autoRun, requests, status, hw,
                 thread, restarting, clicks>>

(* destroy_worker: the worker leaves the registry, then its port is closed *)
(* and the flag of the loop cleared.                                       *)
Destroys ==
  /\ registered /\ At(Manager, "idle")
  /\ registered' = FALSE /\ Goes(Manager, "lock")
  /\ line' = IF line = "open" THEN "closed" ELSE line
  /\ online' = FALSE /\ running' = FALSE
  /\ Transition("OFFLINE")
  /\ UNCHANGED <<announced, life, autoRun, requests, status, restarting,
                 clicks>>

-----------------------------------------------------------------------------
Steps(l) ==
  NextStep(l) \/ StepBegins(l) \/ ChecksSim(l) \/ StepEnds(l)

Works(l) ==
  Begins(l) \/ Ends(l) \/ TakesReset(l) \/ TakesAction(l) \/ TakesRetry(l)
    \/ TakesAuto(l) \/ Steps(l) \/ Restarts(l)

Controls(c) ==
  Starts(c) \/ TakesLock(c) \/ Joins(c) \/ PutsOff(c) \/ Restarts(c)

Commands ==
  PortOn \/ PortOff \/ Restart \/ ForceRetry \/ QueueAutoRun \/ ToggleAutoRun

WorkerNext ==
  \/ \E l \in Lives : Works(l)
  \/ \E c \in Controllers : Controls(c)
  \/ Commands \/ ModemOnline \/ Destroys

-----------------------------------------------------------------------------
StatusType == status \in PortStatus /\ hw \in HwState

ThreadType ==
  thread \in [Threads -> [pc : Places, left : 0 .. MaxSteps, sim : CpinState,
                          todo : Seq(HwState)]]

TypeOK ==
  /\ line \in {"none", "closed", "open"}
  /\ {announced, registered, online, running, autoRun, reset, retry, auto,
      restarting} \subseteq BOOLEAN
  /\ life \in Lives /\ clicks \in 0 .. MaxClicks
  /\ action \in Actions \cup {NoAction}
  /\ StatusType /\ ThreadType

(* The port has one thread, though a stop may leave its thread behind and  *)
(* a start follow: "One thread per COM port" (port_worker.py:3).           *)
OneLoop == \A k, l \in Lives : Alive(k) /\ Alive(l) => k = l

(* The status says BUSY only while the thread is in a step, and RESET only *)
(* during a restart, whoever else has written the status in between.       *)
BusyIsWorking ==
  /\ status = "BUSY" => \E l \in Lives : thread[l].pc \in {"sim", "dial"}
  /\ status = "RESET" => \E t \in Threads : thread[t].pc \in {"atz", "up"}

(* A restart that has found the SIM ready has brought the state machine to *)
(* READY when it says so, from whatever state it began in and with whom it *)
(* shared it.                                                              *)
BringUpIsComplete ==
  [][\A t \in Threads :
       (thread[t].todo = <<"READY">> /\ thread'[t].todo = << >>)
         => hw' = "READY"]_vars

(* Every request is consumed in the end, or dropped by a reset, unless the *)
(* worker is stopped or its modem goes offline: none starves behind the    *)
(* others, and none waits for a status that does not come.                 *)
Requested == reset \/ action # NoAction \/ retry
Excused == ~running \/ ~online

RequestsAreServed == Requested ~> ~Requested \/ Excused
=============================================================================
