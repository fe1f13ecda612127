----------------------------- MODULE SengkuniPort -----------------------------
(***************************************************************************)
(* One COM port of SENGKUNI: the window that starts, stops and restarts    *)
(* the worker, the worker's thread with the workflows it runs, the threads *)
(* that run the skills of a command, and the SIM monitor.                  *)
(*                                                                         *)
(* A start makes a serial adapter, an AT client, a SIM monitor and a       *)
(* thread of its own; a life is what one start has made.  stop() waits     *)
(* five seconds for the thread and for the monitor and goes on without     *)
(* them, so those of an earlier life can still be at work in a later one.  *)
(* All they share is the flag _running, the request for an automatic run,  *)
(* the last CPIN state and the session fence of the port.                  *)
(*                                                                         *)
(* The fence has no owner: it only tells whether it was touched less than  *)
(* a quarter of a second ago, so that it keeps dials apart that begin      *)
(* together but not a second dial from a longer first one; that is left to *)
(* the lock of the AT client.  It is the SessionFence of SAIKI, the only   *)
(* one in the repository.  SerialAdapter, WorkerManager, the skills and    *)
(* the rules of automatic runs are not there: they are modelled from their *)
(* use.  A skill dials once or does without the line.  What the window     *)
(* shows is left out.                                                      *)
(***************************************************************************)
EXTENDS Integers

CONSTANTS
  Sims,             \* the answers of the SIMs, lines of the modem
  Tasks,            \* bound: threads of run_skills
  MaxLives,         \* bound: starts that open the port
  MaxSteps,         \* bound: skills of an automatic run
  MaxClicks,        \* bound: commands of the user
  MaxFaults,        \* bound: changes of the SIM and lost answers
  ReadyThreshold,   \* _READY_CONFIRM_THRESHOLD
  CheckingThreshold, \* CPIN_CHECKING_THRESHOLD
  RemovalThreshold  \* CPIN_MAX_REMOVAL_CONFIRM

(* The lines that parse_cpin_response tells apart.                         *)
Lines == {"cme_error", "not_inserted", "not_ready", "pin", "ready"}

ASSUME SengkuniAssumption ==
  /\ {MaxLives, MaxSteps, MaxClicks, MaxFaults} \subseteq Nat \ {0}
  /\ ReadyThreshold \in Nat /\ ReadyThreshold > 1
  /\ {CheckingThreshold, RemovalThreshold} \subseteq Nat \ {0}
  /\ Tasks \cap Nat = {}
  /\ Sims \subseteq Lines

Lives == 1 .. MaxLives
Threads == Lives \cup Tasks   \* a worker thread is named by its life

CpinState == {"UNKNOWN", "NOT_INSERTED", "NOT_READY", "PIN_REQUIRED", "READY"}

(* parse_cpin_response: the first pattern that matches a line decides.     *)
ParseCpin(raw) ==
  IF raw \cap {"cme_error", "not_inserted"} # {} THEN "NOT_INSERTED"
  ELSE IF "not_ready" \in raw THEN "NOT_READY"
  ELSE IF "pin" \in raw THEN "PIN_REQUIRED"
  ELSE IF "ready" \in raw THEN "READY" ELSE "UNKNOWN"

VARIABLES
  sim,      \* outside: the line the modem answers about the SIM
  notice,   \* outside: unsolicited +CPIN lines in a poll that is read
  faults,   \* how many changes of the SIM and lost answers there were
  life,     \* how many starts have opened the port
  client,   \* _at_client and its companions: those of this life, or 0
  open,     \* the life whose serial adapter is open, or 0
  running,  \* PortWorker._running
  pending,  \* PortWorker._pending_auto_run
  cpin,     \* PortWorkerState.cpin_state
  fence,    \* SessionFence: whether it may have been touched just now
  thread,   \* per thread: where it is, its AT client, the skills left
  poller,   \* per life: the SIM monitor, and whether it heard READY last
  ui,       \* how far a start or stop has come, and whether a start follows
  clicks    \* how many commands there were

outside == <<sim, notice, faults>>
port == <<life, client, open, running>>
vars == <<outside, port, pending, cpin, fence, thread, poller, ui, clicks>>

Places == {"off", "loop", "step", "busy", "cancelling", "asleep",
           "again", "dial", "dialling", "ended"}
Polling == {"off", "sleep", "waiting", "reading", "ended"}
UiSteps == {"idle", "join", "join_poller", "close", "open", "start_thread"}

TypeOK ==
  /\ sim \in Sims /\ notice \in SUBSET Sims /\ faults \in 0 .. MaxFaults
  /\ {life, client, open} \subseteq 0 .. MaxLives
  /\ {running, pending, fence} \subseteq BOOLEAN
  /\ cpin \in CpinState
  /\ thread \in [Threads -> [pc : Places, client : 0 .. MaxLives,
                             left : 0 .. MaxSteps]]
  /\ poller \in [Lives -> [pc : Polling, running : BOOLEAN, state : CpinState,
                           ready : 0 .. ReadyThreshold,
                           checking : 0 .. CheckingThreshold,
                           removal : 0 .. RemovalThreshold, heard : BOOLEAN]]
  /\ ui \in [pc : UiSteps, again : BOOLEAN]
  /\ clicks \in 0 .. MaxClicks

NoThread == [pc |-> "off", client |-> 0, left |-> 0]
NoPoller == [pc |-> "off", running |-> FALSE, state |-> "UNKNOWN", ready |-> 0,
             checking |-> 0, removal |-> 0, heard |-> FALSE]
Quiet == [pc |-> "idle", again |-> FALSE]

Init ==
  /\ sim \in Sims /\ notice = {} /\ faults = 0
  /\ life = 0 /\ client = 0 /\ open = 0 /\ running = FALSE
  /\ pending = FALSE /\ cpin = "UNKNOWN"
  /\ fence = FALSE
  /\ thread = [t \in Threads |-> NoThread]
  /\ poller = [l \in Lives |-> NoPoller]
  /\ ui = Quiet /\ clicks = 0

-----------------------------------------------------------------------------
(* The AT client: a command is written under the lock of the client, and   *)
(* the lock is held until its answer or its timeout.                       *)

Sending == {"cancelling", "dialling"}
LockIsFree(c) ==
  /\ \A t \in Threads : ~(thread[t].client = c /\ thread[t].pc \in Sending)
  /\ poller[c].pc # "reading"

At(t, pc) == thread[t].pc = pc
Goes(t, pc) == thread' = [thread EXCEPT ![t].pc = pc]

-----------------------------------------------------------------------------
(* A workflow, by the worker's thread or one of run_skills.                *)

(* Mutant of Finish: a workflow ends the worker's thread.                  *)
FinishForGood(t) ==
  thread' = [thread EXCEPT ![t] = [NoThread EXCEPT
               !.pc = IF t \in Tasks THEN "off" ELSE "ended"]]

(* A workflow is over: the worker's thread returns to its loop.            *)
Finish(t) ==
  thread' = [thread EXCEPT ![t] = [NoThread EXCEPT
               !.pc = IF t \in Tasks THEN "off" ELSE "loop"]]

(* A skill was successful: the next one follows.                           *)
GoOn(t) ==
  IF thread[t].left = 1 THEN Finish(t)
  ELSE thread' = [thread EXCEPT ![t] = [pc |-> "step", client |-> 0,
                                        left |-> @.left - 1]]

(* _execute_workflow, before a skill: a stopped worker begins no more.     *)
Aborts(t) ==
  /\ At(t, "step") /\ ~running
  /\ Finish(t)
  /\ UNCHANGED <<outside, port, pending, cpin, fence, poller, ui, clicks>>

(* A skill that reads the cache only, or that finds no AT client.          *)
LookUp(t) ==
  /\ At(t, "step") /\ running
  /\ Finish(t) \/ (client # 0 /\ GoOn(t))
  /\ UNCHANGED <<outside, port, pending, cpin, fence, poller, ui, clicks>>

(* SessionFence.acquire: it is refused only less than the quiet minimum    *)
(* after a touch, and is a touch itself when it is not.                    *)
MayAcquire == fence' = TRUE
MayBeRefused == fence /\ UNCHANGED fence

(* A skill is made from the AT client of the moment, which may be of a     *)
(* later life than the workflow, and dials.  SessionFence.acquire does not *)
(* wait: if the fence is not quiet, the session under way is cancelled.    *)
Dial(t) ==
  /\ At(t, "step") /\ running /\ client # 0
  /\ \E pc \in {"dial", "busy"} :
       /\ IF pc = "dial" THEN MayAcquire ELSE MayBeRefused
       /\ thread' = [thread EXCEPT ![t].client = client, ![t].pc = pc]
  /\ UNCHANGED <<outside, port, pending, cpin, poller, ui, clicks>>

(* After that the fence is tried once more; if it is refused again, the    *)
(* dial is skipped.                                                        *)
AcquireAgain(t) ==
  /\ At(t, "again")
  /\ (MayAcquire /\ Goes(t, "dial")) \/ (MayBeRefused /\ Finish(t))
  /\ UNCHANGED <<outside, port, pending, cpin, poller, ui, clicks>>

(* send_command and send_ussd: the lock, the flush and the write.  The     *)
(* AT+CUSD=2 that goes before each dial is one command with it here.       *)
Send(t) ==
  /\ thread[t].pc \in {"busy", "dial"}
  /\ LockIsFree(thread[t].client)
  /\ \/ At(t, "busy") /\ Goes(t, "cancelling")
     \/ At(t, "dial") /\ Goes(t, "dialling")
  /\ UNCHANGED <<outside, port, pending, cpin, fence, poller, ui, clicks>>

(* AT+CUSD=2 has been answered or has timed out; nobody looks at which.    *)
(* Half a second follows, but not after an error of a closed port.         *)
Cancelled(t) ==
  /\ At(t, "cancelling")
  /\ \/ Goes(t, "asleep")
     \/ open # thread[t].client /\ Goes(t, "again")
  /\ UNCHANGED <<outside, port, pending, cpin, fence, poller, ui, clicks>>

(* Half a second is twice the quiet minimum: the fence falls quiet in it,  *)
(* and refuses the second acquire only if it is touched after that.        *)
Wake(t) ==
  /\ At(t, "asleep") /\ Goes(t, "again")
  /\ fence' = FALSE
  /\ UNCHANGED <<outside, port, pending, cpin, poller, ui, clicks>>

(* The text of the dial has come; only an open port has one.               *)
DialAnswered(t) ==
  /\ At(t, "dialling") /\ open = thread[t].client
  /\ fence' = TRUE
  /\ GoOn(t)
  /\ UNCHANGED <<outside, port, pending, cpin, poller, ui, clicks>>

(* An error, a write to a closed port, or no text in time.  A dial that    *)
(* raises an error does not reach release().                               *)
DialFails(t) ==
  /\ At(t, "dialling")
  /\ fence' \in {TRUE, fence}
  /\ Finish(t)
  /\ UNCHANGED <<outside, port, pending, cpin, poller, ui, clicks>>

-----------------------------------------------------------------------------
(* The worker's thread, _run_loop.  modem_online is TRUE as long as the    *)
(* worker runs: both are set and cleared together.                         *)

LoopEnds(l) ==
  /\ At(l, "loop") /\ ~running
  /\ Goes(l, "ended")
  /\ UNCHANGED <<outside, port, pending, cpin, fence, poller, ui, clicks>>

TakePending(l) ==
  /\ At(l, "loop") /\ running /\ pending
  /\ pending' = FALSE
  /\ thread' = [thread EXCEPT ![l] = [pc |-> "step", client |-> 0,
                                      left |-> MaxSteps]]
  /\ UNCHANGED <<outside, port, cpin, fence, poller, ui, clicks>>

-----------------------------------------------------------------------------
(* The SIM monitor of a life.                                              *)

Count(n, threshold) == IF n < threshold THEN n + 1 ELSE n

(* Mutant of HeardReady: the first READY is accepted.                      *)
HeardReadyOnce(p) ==
  [p EXCEPT !.ready = Count(@, ReadyThreshold), !.state = "READY",
            !.checking = 0, !.removal = 0]

(* READY is accepted after ReadyThreshold of them in a row.  Until then    *)
(* the other counters go on from where they are.                           *)
HeardReady(p) ==
  LET ready == Count(p.ready, ReadyThreshold)
  IN IF ready < ReadyThreshold THEN [p EXCEPT !.ready = ready]
     ELSE [p EXCEPT !.ready = ready, !.state = "READY", !.checking = 0,
                    !.removal = 0]

(* From READY, an UNKNOWN and a removal are counted, each on its own.      *)
HeardUnknown(p) ==
  LET checking == Count(p.checking, CheckingThreshold)
  IN [p EXCEPT !.ready = 0, !.checking = checking,
               !.state = IF checking < CheckingThreshold THEN @ ELSE "UNKNOWN"]

(* Mutant of HeardRemoval: never confirmed, as NOT_READY is not.           *)
HeardRemovalInVain(p) == [p EXCEPT !.ready = 0]

HeardRemoval(p) ==
  LET removal == Count(p.removal, RemovalThreshold)
  IN [p EXCEPT !.ready = 0, !.removal = removal,
               !.state = IF removal < RemovalThreshold THEN @
                         ELSE "NOT_INSERTED"]

(* _apply_stabilization.  From READY a NOT_READY is never accepted, and    *)
(* PIN_REQUIRED at once.                                                   *)
Stabilised(p, new) ==
  IF new = "READY" THEN HeardReady(p)
  ELSE IF p.state = "READY" /\ new = "UNKNOWN" THEN HeardUnknown(p)
  ELSE IF p.state = "READY" /\ new = "NOT_INSERTED" THEN HeardRemoval(p)
  ELSE IF p.state = "READY" /\ new = "NOT_READY" THEN [p EXCEPT !.ready = 0]
  ELSE [p EXCEPT !.ready = 0, !.state = new, !.checking = 0, !.removal = 0]

(* _poll_loop.  What an ended monitor has counted is forgotten.            *)
PollEnds(l) ==
  /\ poller[l].pc = "sleep" /\ ~poller[l].running
  /\ poller' = [poller EXCEPT ![l] = [NoPoller EXCEPT !.pc = "ended"]]
  /\ UNCHANGED <<outside, port, pending, cpin, fence, thread, ui, clicks>>

(* _poll_once                                                              *)
PollBegins(l) ==
  /\ poller[l].pc = "sleep" /\ poller[l].running
  /\ poller' = [poller EXCEPT ![l].pc = "waiting"]
  /\ UNCHANGED <<outside, port, pending, cpin, fence, thread, ui, clicks>>
PollSends(l) ==
  /\ poller[l].pc = "waiting" /\ LockIsFree(l)
  /\ poller' = [poller EXCEPT ![l].pc = "reading"]
  /\ notice' = {}
  /\ UNCHANGED <<sim, faults, port, pending, cpin, fence, thread, ui, clicks>>

(* _on_cpin_transition: READY asks for an automatic run, unless these are  *)
(* off, a rule blocks it, or the poll is not fresh, as it had to wait for  *)
(* the lock.                                                               *)
MayAsk(new) == IF new = "READY" THEN BOOLEAN ELSE {FALSE}

(* The poll of l has heard raw: it is weighed and, if the state changes,   *)
(* published.                                                              *)
Hear(l, raw) ==
  LET new == ParseCpin(raw)
      after == Stabilised(poller[l], new)
  IN /\ poller' = [poller EXCEPT ![l] = [after EXCEPT !.pc = "sleep",
                                                       !.heard = new = "READY"]]
     /\ IF after.state = poller[l].state THEN UNCHANGED <<cpin, pending>>
        ELSE /\ cpin' = after.state
             /\ \E ask \in MayAsk(after.state) : pending' = (pending \/ ask)
     /\ UNCHANGED <<sim, port, fence, thread, ui, clicks>>

(* An open port hears the SIM, and notices that came meanwhile.            *)
PollAnswered(l) ==
  /\ poller[l].pc = "reading" /\ open = l
  /\ \E lines \in SUBSET notice : Hear(l, {sim} \cup lines)
  /\ notice' = {}
  /\ UNCHANGED faults

(* The answer is lost; on a closed port there never is one.                *)
PollTimesOut(l) ==
  /\ poller[l].pc = "reading"
  /\ open = l => faults < MaxFaults
  /\ faults' = IF open = l THEN faults + 1 ELSE faults
  /\ Hear(l, {})
  /\ notice' = {}

-----------------------------------------------------------------------------
(* The window's thread: start and stop.                                    *)

InSkill(t) == thread[t].pc \notin {"off", "loop", "step", "ended"}

(* Mutant of JoinThread: the monitor is not told.                          *)
JoinOnlyThread ==
  /\ ui.pc = "join" /\ client # 0
  /\ At(client, "ended") \/ InSkill(client)
  /\ ui' = [ui EXCEPT !.pc = "join_poller"]
  /\ UNCHANGED <<outside, port, pending, cpin, fence, thread, poller, clicks>>

(* stop() goes on when the thread has ended or, after five seconds, when   *)
(* it is in a skill; then it tells the monitor to stop.                    *)
JoinThread ==
  /\ ui.pc = "join" /\ client # 0
  /\ At(client, "ended") \/ InSkill(client)
  /\ poller' = [poller EXCEPT ![client].running = FALSE]
  /\ ui' = [ui EXCEPT !.pc = "join_poller"]
  /\ UNCHANGED <<outside, port, pending, cpin, fence, thread, clicks>>

(* CpinRuntime.stop: five seconds again, for a poll under way.             *)
JoinPoller ==
  /\ ui.pc = "join_poller"
  /\ poller[client].pc \in {"waiting", "reading", "ended"}
  /\ ui' = [ui EXCEPT !.pc = "close"]
  /\ UNCHANGED <<outside, port, pending, cpin, fence, thread, poller, clicks>>

(* The port is closed and forgotten; a restart goes on with a start.       *)
Close ==
  /\ ui.pc = "close" \/ (ui.pc = "join" /\ client = 0)
  /\ open' = 0 /\ client' = 0
  /\ ui' = IF ui.again THEN [pc |-> "open", again |-> FALSE] ELSE Quiet
  /\ UNCHANGED <<outside, life, running, pending, cpin, fence, thread,
                 poller, clicks>>

(* start(): no modem at any baud rate, or the port does not open.          *)
OpenFails ==
  /\ ui.pc = "open"
  /\ ui' = Quiet
  /\ UNCHANGED <<outside, port, pending, cpin, fence, thread, poller, clicks>>
(* The AT client and the SIM monitor of the new life, then its thread.     *)
Open ==
  /\ ui.pc = "open" /\ life < MaxLives
  /\ life' = life + 1 /\ open' = life + 1 /\ client' = life + 1
  /\ poller' = [poller EXCEPT ![life + 1] = [NoPoller EXCEPT !.pc = "sleep",
                                                            !.running = TRUE]]
  /\ ui' = [ui EXCEPT !.pc = "start_thread"]
  /\ UNCHANGED <<outside, running, pending, cpin, fence, thread, clicks>>
StartThread ==
  /\ ui.pc = "start_thread"
  /\ running' = TRUE
  /\ Goes(client, "loop")
  /\ ui' = Quiet
  /\ UNCHANGED <<outside, life, client, open, pending, cpin, fence,
                 poller, clicks>>

-----------------------------------------------------------------------------
(* The commands of the user, on the window's thread.                       *)

Click == ui = Quiet /\ clicks < MaxClicks /\ clicks' = clicks + 1
StopPort(again) ==
  /\ running' = FALSE
  /\ ui' = [pc |-> "join", again |-> again]
  /\ UNCHANGED <<outside, life, client, open, pending, cpin, fence,
                 thread, poller>>

PortOn ==
  /\ Click /\ ~running
  /\ ui' = [pc |-> "open", again |-> FALSE]
  /\ UNCHANGED <<outside, port, pending, cpin, fence, thread, poller>>
PortOff == Click /\ StopPort(FALSE)
RestartAll == Click /\ StopPort(TRUE)

(* Not asked: whether the worker runs.                                     *)
ForceRetry ==
  /\ Click
  /\ pending' = TRUE
  /\ UNCHANGED <<outside, port, cpin, fence, thread, poller, ui>>

(* PortWorker.run_skills: a thread of its own, with one skill.             *)
RunSkills(k) ==
  /\ At(k, "off")
  /\ thread' = [thread EXCEPT ![k] = [pc |-> "step", client |-> 0, left |-> 1]]
  /\ UNCHANGED <<outside, port, pending, cpin, fence, poller, ui>>
PortCommand(k) == Click /\ running /\ RunSkills(k)
MassAction(k) == Click /\ running /\ cpin = "READY" /\ RunSkills(k)

(* The SIM changes; the modem gives notice of it.                          *)
SwapSim ==
  /\ faults < MaxFaults /\ faults' = faults + 1
  /\ sim' \in Sims \ {sim}
  /\ notice' = IF \E l \in Lives : poller[l].pc = "reading"
               THEN notice \cup {sim'} ELSE {}
  /\ UNCHANGED <<port, pending, cpin, fence, thread, poller, ui, clicks>>

-----------------------------------------------------------------------------
Workflow(t) ==
  \/ Aborts(t) \/ LookUp(t) \/ Dial(t) \/ AcquireAgain(t)
  \/ Send(t) \/ Cancelled(t) \/ Wake(t) \/ DialAnswered(t) \/ DialFails(t)
Loop(l) == LoopEnds(l) \/ TakePending(l)
Poll(l) ==
  \/ PollEnds(l) \/ PollBegins(l) \/ PollSends(l)
  \/ PollAnswered(l) \/ PollTimesOut(l)
Window == \/ JoinThread \/ JoinPoller \/ Close \/ OpenFails \/ Open
          \/ StartThread
User == \/ PortOn \/ PortOff \/ RestartAll \/ ForceRetry
        \/ \E k \in Tasks : PortCommand(k) \/ MassAction(k)
Next == \/ \E t \in Threads : Workflow(t)
        \/ \E l \in Lives : Loop(l) \/ Poll(l)
        \/ Window \/ User \/ SwapSim

Spec == Init /\ [][Next]_vars

(* Threads run and commands end by their timeout.  A thread that waits for *)
(* the lock of an AT client gets it: a monitor sleeps between its polls.   *)
(* The user and the SIM are free.                                          *)
Fairness ==
  /\ \A l \in Lives : /\ WF_vars(Workflow(l) \/ Loop(l)) /\ SF_vars(Send(l))
                      /\ WF_vars(Poll(l))
  /\ \A k \in Tasks : WF_vars(Workflow(k))
  /\ WF_vars(Window)

FairSpec == Spec /\ Fairness

-----------------------------------------------------------------------------
(* The port goes from another state to READY only after two READY answers  *)
(* in a row to one monitor, whatever monitors of earlier lives still hear: *)
(* no automatic run is asked for on one stray READY.                       *)
ReadyIsConfirmed ==
  [][cpin # "READY" /\ cpin' = "READY" =>
       \E l \in Lives : /\ poller[l].pc = "reading"
                        /\ poller[l].heard /\ poller'[l].heard]_vars

(* A SIM that stays out of a port that stays on is noticed: the port is    *)
(* not taken for READY for ever, and no mass action is sent to it.         *)
RemovalIsNoticed ==
  <>[](running /\ sim \in {"cme_error", "not_inserted"}) => <>[](cpin # "READY")

(* A request for an automatic run is taken if the port stays on: neither   *)
(* the dials and polls that contend for the line, nor a fence that another *)
(* thread keeps touching, nor what an earlier life left behind stops the   *)
(* worker's loop for ever.                                                 *)
RequestIsTaken == <>[]running => []<>~pending

(* A port that stays stopped comes to rest: whatever was under way when    *)
(* stop() went on without it ends, and the port is closed.                 *)
StoppedComesToRest ==
  <>[]~running =>
    <>[](/\ open = 0
         /\ \A t \in Threads : thread[t].pc \in {"off", "ended"}
         /\ \A l \in Lives : poller[l].pc \in {"off", "ended"})
===============================================================================
