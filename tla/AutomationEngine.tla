-------------------------- MODULE AutomationEngine --------------------------
(***************************************************************************)
(* The workflow dispatcher of SAIKI (SAIKI/automation): AutomationEngine   *)
(* with its WorkflowQueue, its AutomationScheduler (one AutomationState    *)
(* per port) and its AutomationPolicy.                                     *)
(*                                                                         *)
(* Four kinds of threads share them:                                       *)
(*   - callers: the CPIN pollers, the modem monitor, the UI and the mass-  *)
(*     dispatch threads, which run handle_trigger or enqueue_workflow;     *)
(*   - the engine's worker loop, which moves items from the queue to       *)
(*     workflow threads;                                                   *)
(*   - the workflow threads, one per execution;                            *)
(*   - the UI thread, which excludes and includes ports, toggles auto-run  *)
(*     and stops the engine.                                               *)
(* An action is one of their steps between two points where another thread *)
(* can be seen.  _enqueue runs under the engine's lock; the gates of       *)
(* handle_trigger, the scheduler's decision and the writes of a port's     *)
(* status do not, so each of these is a step of its own.                   *)
(***************************************************************************)
EXTENDS Integers, FiniteSets

CONSTANTS
  Ports,             \* the COM ports
  Callers,           \* threads that call into the engine
  Threads,           \* names for the threads that execute workflows
  MaxConcurrent,     \* WorkflowQueue.max_concurrent
  MaxSteps,          \* bound: the most steps a workflow has
  MaxCalls,          \* bound: calls made into the engine
  ManualPriorities,  \* priorities passed to enqueue_workflow
  DedupKinds,        \* bound: triggers whose 5-second window is tracked
  NoPort

ASSUME ConstantsAssumption ==
  /\ IsFiniteSet(Threads)
  /\ MaxConcurrent \in Nat \ {0}
  /\ MaxConcurrent < Cardinality(Threads)
  /\ MaxSteps \in Nat \ {0}
  /\ MaxCalls \in Nat
  /\ ManualPriorities \subseteq Nat
  /\ NoPort \notin Ports

(* Trigger: the members some code raises.  SIM_INSERTED, SIM_REMOVED, the  *)
(* WORKFLOW_* and the USER_MASS_* members are raised nowhere.  Manual      *)
(* stands for a call of enqueue_workflow.                                  *)
TriggerKinds == {"MODEM_ONLINE", "MODEM_OFFLINE", "CPIN_READY", "CPIN_REQUIRED"}
Manual == "MANUAL"
Kinds == TriggerKinds \cup {Manual}

(* QueueItem.priority of the items _enqueue makes.                         *)
TriggerPriority == 10
RetryPriority == 5
Priorities == ManualPriorities \cup {TriggerPriority, RetryPriority}

AutomationStatus == {"IDLE", "RUNNING", "STANDBY", "QUEUED"}
CallSteps == {"idle", "autorun", "evaluate", "cancel", "setidle", "standby", "enqueue"}
JobSteps == {"free", "spawned", "command", "cooldown", "release"}

Items == [port : Ports, priority : Priorities, created : Nat]

VARIABLES
  portState,   \* WorkerManager._port_states, as far as the engine reads it
  autoRun,     \* AutoRunConfig._auto_run_enabled
  running,     \* AutomationEngine._running
  queue,       \* WorkflowQueue._queue: a set, ordered by Precedes
  slots,       \* WorkflowQueue._running
  status,      \* AutomationState._status of every port
  recent,      \* _recent_triggers: <<port, trigger>> seen in the last 5 s
  calls,       \* what every caller is doing
  loop,        \* where the worker loop is
  held,        \* the item the worker loop has dequeued, in a set
  jobs,        \* the workflow threads
  ui,          \* what the UI thread is in the middle of
  count        \* the engine's counters

vars == <<portState, autoRun, running, queue, slots, status, recent, calls,
          loop, held, jobs, ui, count>>

NoCall == [pc |-> "idle", port |-> NoPort, kind |-> Manual,
           priority |-> TriggerPriority, dup |-> FALSE]
NoJob == [pc |-> "free", port |-> NoPort, left |-> 0]
Quiet == [pc |-> "idle", port |-> NoPort]

CallType == [pc : CallSteps, port : Ports \cup {NoPort}, kind : Kinds,
             priority : Priorities, dup : BOOLEAN]
JobType == [pc : JobSteps, port : Ports \cup {NoPort}, left : 0 .. MaxSteps]
UiType == [pc : {"idle", "excluding", "stopping"}, port : Ports \cup {NoPort}]
Counters == {"received", "enqueued", "started", "completed", "failed",
             "retried", "cancelled"}

-----------------------------------------------------------------------------
(* WorkflowQueue.                                                          *)

(* The list order of the queue: priority, then creation time.              *)
Precedes(i, j) ==
  \/ i.priority < j.priority
  \/ i.priority = j.priority /\ i.created < j.created

IsHead(i) == i \in queue /\ \A j \in queue \ {i} : Precedes(i, j)

Queued(p) == \E i \in queue : i.port = p

WithoutPort(p) == {i \in queue : i.port # p}

AvailableSlots == MaxConcurrent - slots

Busy == {t \in Threads : jobs[t].pc # "free"}
Live(p) == {t \in Threads : jobs[t].pc # "free" /\ jobs[t].port = p}
Executing(p) == {t \in Threads : jobs[t].pc \in {"command", "cooldown"}
                                 /\ jobs[t].port = p}

Bump(k) == [count EXCEPT ![k] = @ + 1]

-----------------------------------------------------------------------------
(* Initial state: SystemBootstrap.start has called start(), which sets the *)
(* flag, starts the worker loop and subscribes to port.excluded.  Nothing  *)
(* calls start() a second time.                                            *)
Init ==
  /\ portState = [p \in Ports |-> "ACTIVE"]
  /\ autoRun = FALSE
  /\ running = TRUE
  /\ queue = {}
  /\ slots = 0
  /\ status = [p \in Ports |-> "IDLE"]
  /\ recent = {}
  /\ calls = [c \in Callers |-> NoCall]
  /\ loop = "sleep"
  /\ held = {}
  /\ jobs = [t \in Threads |-> NoJob]
  /\ ui = Quiet
  /\ count = [k \in Counters |-> 0]

-----------------------------------------------------------------------------
(* Callers: handle_trigger and enqueue_workflow.                           *)

(* AutomationScheduler.evaluate_trigger.                                   *)
EvaluateTrigger(kind, st) ==
  CASE kind = "MODEM_ONLINE"  -> "enqueue"
    [] kind = "MODEM_OFFLINE" -> "cancel"
    [] kind = "CPIN_REQUIRED" -> "standby"
    [] kind = "CPIN_READY" /\ st \in {"IDLE", "STANDBY"} -> "enqueue"
    [] OTHER -> "idle"

(* The call arrives: the trigger is noted in its 5-second window, then the *)
(* port's participation is read.  A duplicate is only recorded.            *)
HandleTrigger(c, p, kind) ==
  /\ calls[c].pc = "idle"
  /\ count["received"] < MaxCalls
  /\ count' = Bump("received")
  /\ recent' = IF kind \in DedupKinds THEN recent \cup {<<p, kind>>} ELSE recent
  /\ IF portState[p] = "EXCLUDED"
     THEN UNCHANGED calls
     ELSE calls' = [calls EXCEPT ![c] =
                      [pc |-> "autorun", port |-> p, kind |-> kind,
                       priority |-> TriggerPriority, dup |-> <<p, kind>> \in recent]]
  /\ UNCHANGED <<portState, autoRun, running, queue, slots, status, loop, held,
                 jobs, ui>>

(* Mutant of EnqueueWorkflow: the participation gate is missing.           *)
EnqueueWorkflowUngated(c, p, priority) ==
  /\ calls[c].pc = "idle"
  /\ count["received"] < MaxCalls
  /\ count' = Bump("received")
  /\ calls' = [calls EXCEPT ![c] =
                 [pc |-> "enqueue", port |-> p, kind |-> Manual,
                  priority |-> priority, dup |-> FALSE]]
  /\ UNCHANGED <<portState, autoRun, running, queue, slots, status, recent,
                 loop, held, jobs, ui>>

EnqueueWorkflow(c, p, priority) ==
  /\ calls[c].pc = "idle"
  /\ count["received"] < MaxCalls
  /\ count' = Bump("received")
  /\ portState[p] # "EXCLUDED"
  /\ calls' = [calls EXCEPT ![c] =
                 [pc |-> "enqueue", port |-> p, kind |-> Manual,
                  priority |-> priority, dup |-> FALSE]]
  /\ UNCHANGED <<portState, autoRun, running, queue, slots, status, recent,
                 loop, held, jobs, ui>>

AutoRunGate(c) ==
  /\ calls[c].pc = "autorun"
  /\ calls' = [calls EXCEPT ![c] =
                 IF autoRun THEN [@ EXCEPT !.pc = "evaluate"] ELSE NoCall]
  /\ UNCHANGED <<portState, autoRun, running, queue, slots, status, recent,
                 loop, held, jobs, ui, count>>

Evaluate(c) ==
  /\ calls[c].pc = "evaluate"
  /\ LET action == EvaluateTrigger(calls[c].kind, status[calls[c].port])
     IN  calls' = [calls EXCEPT ![c] =
                     IF action = "idle" THEN NoCall ELSE [@ EXCEPT !.pc = action]]
  /\ UNCHANGED <<portState, autoRun, running, queue, slots, status, recent,
                 loop, held, jobs, ui, count>>

(* "cancel": remove_by_port and the cancelled counter (one for a call,     *)
(* whatever the number of items); then, in a step of its own, set_idle.    *)
CountCancelled(p) == IF Queued(p) THEN Bump("cancelled") ELSE count

Cancel(c) ==
  /\ calls[c].pc = "cancel"
  /\ queue' = WithoutPort(calls[c].port)
  /\ count' = CountCancelled(calls[c].port)
  /\ calls' = [calls EXCEPT ![c].pc = "setidle"]
  /\ UNCHANGED <<portState, autoRun, running, slots, status, recent, loop,
                 held, jobs, ui>>

CancelSetIdle(c) ==
  /\ calls[c].pc = "setidle"
  /\ status' = [status EXCEPT ![calls[c].port] = "IDLE"]
  /\ calls' = [calls EXCEPT ![c] = NoCall]
  /\ UNCHANGED <<portState, autoRun, running, queue, slots, recent, loop,
                 held, jobs, ui, count>>

Standby(c) ==
  /\ calls[c].pc = "standby"
  /\ status' = [status EXCEPT ![calls[c].port] = "STANDBY"]
  /\ calls' = [calls EXCEPT ![c] = NoCall]
  /\ UNCHANGED <<portState, autoRun, running, queue, slots, recent, loop,
                 held, jobs, ui, count>>

(* _enqueue, under the engine's lock: nothing if the port is queued, else  *)
(* the item and the status QUEUED.  One step: a thread that starts the     *)
(* item, or counts its cancellation, takes the lock before it writes the   *)
(* status.  created_at is the number of items made before it; cs are the   *)
(* counters as the caller leaves them.                                     *)
EnqueueItem(p, priority, cs) ==
  IF Queued(p)
  THEN count' = cs /\ UNCHANGED <<queue, status>>
  ELSE /\ queue' = queue \cup {[port |-> p, priority |-> priority,
                                created |-> cs["enqueued"]]}
       /\ status' = [status EXCEPT ![p] = "QUEUED"]
       /\ count' = [cs EXCEPT !["enqueued"] = @ + 1]

Enqueue(c) ==
  /\ calls[c].pc = "enqueue"
  /\ EnqueueItem(calls[c].port, calls[c].priority, count)
  /\ calls' = [calls EXCEPT ![c] = NoCall]
  /\ UNCHANGED <<portState, autoRun, running, slots, recent, loop, held, jobs, ui>>

(* An entry of _recent_triggers is older than five seconds.                *)
WindowCloses(p, kind) ==
  /\ <<p, kind>> \in recent
  /\ recent' = recent \ {<<p, kind>>}
  /\ UNCHANGED <<portState, autoRun, running, queue, slots, status, calls,
                 loop, held, jobs, ui, count>>

-----------------------------------------------------------------------------
(* The worker loop: _worker_loop and _process_queue.                       *)

LoopWakes ==
  /\ loop = "sleep"
  /\ loop' = IF running THEN "drain" ELSE "exited"
  /\ UNCHANGED <<portState, autoRun, running, queue, slots, status, recent,
                 calls, held, jobs, ui, count>>

(* Mutant of Dequeue: dequeues without a look at available_slots.          *)
DequeueUnchecked ==
  /\ loop = "drain"
  /\ IF queue # {}
     THEN \E i \in queue : /\ IsHead(i)
                           /\ held' = {i}
                           /\ queue' = queue \ {i}
                           /\ loop' = "dispatch"
     ELSE loop' = "sleep" /\ UNCHANGED <<held, queue>>
  /\ UNCHANGED <<portState, autoRun, running, slots, status, recent, calls,
                 jobs, ui, count>>

(* Mutant of Dequeue: the worker returns when it finds nothing to do.      *)
DequeueExits ==
  /\ loop = "drain"
  /\ IF AvailableSlots > 0 /\ queue # {}
     THEN \E i \in queue : /\ IsHead(i)
                           /\ held' = {i}
                           /\ queue' = queue \ {i}
                           /\ loop' = "dispatch"
     ELSE loop' = "exited" /\ UNCHANGED <<held, queue>>
  /\ UNCHANGED <<portState, autoRun, running, slots, status, recent, calls,
                 jobs, ui, count>>

Dequeue ==
  /\ loop = "drain"
  /\ IF AvailableSlots > 0 /\ queue # {}
     THEN \E i \in queue : /\ IsHead(i)
                           /\ held' = {i}
                           /\ queue' = queue \ {i}
                           /\ loop' = "dispatch"
     ELSE loop' = "sleep" /\ UNCHANGED <<held, queue>>
  /\ UNCHANGED <<portState, autoRun, running, slots, status, recent, calls,
                 jobs, ui, count>>

(* acquire_slot, then the workflow's thread; without a slot the item goes  *)
(* back to the queue, which is not done under the engine's lock.           *)
Dispatch ==
  /\ loop = "dispatch"
  /\ held' = {}
  /\ IF slots < MaxConcurrent
     THEN /\ slots' = slots + 1
          /\ \E t \in Threads \ Busy, i \in held, n \in 1 .. MaxSteps :
               jobs' = [jobs EXCEPT ![t] = [pc |-> "spawned", port |-> i.port, left |-> n]]
          /\ loop' = "drain"
          /\ UNCHANGED queue
     ELSE /\ queue' = queue \cup held
          /\ loop' = "sleep"
          /\ UNCHANGED <<slots, jobs>>
  /\ UNCHANGED <<portState, autoRun, running, status, recent, calls, ui, count>>

-----------------------------------------------------------------------------
(* Workflow threads: _execute_workflow, and the steps of WorkflowRunner.   *)

SetJob(t, pc) == jobs' = [jobs EXCEPT ![t].pc = pc]

JobStarts(t) ==
  /\ jobs[t].pc = "spawned"
  /\ SetJob(t, "command")
  /\ status' = [status EXCEPT ![jobs[t].port] = "RUNNING"]
  /\ count' = Bump("started")
  /\ UNCHANGED <<portState, autoRun, running, queue, slots, recent, calls,
                 loop, held, ui>>

(* A skill succeeded and is not the last one: cleanup and cooldown, then   *)
(* the next skill.                                                         *)
StepSucceeds(t) ==
  /\ jobs[t].pc = "command" /\ jobs[t].left > 1
  /\ jobs' = [jobs EXCEPT ![t].pc = "cooldown", ![t].left = @ - 1]
  /\ UNCHANGED <<portState, autoRun, running, queue, slots, status, recent,
                 calls, loop, held, ui, count>>

NextStep(t) ==
  /\ jobs[t].pc = "cooldown"
  /\ SetJob(t, "command")
  /\ UNCHANGED <<portState, autoRun, running, queue, slots, status, recent,
                 calls, loop, held, ui, count>>

(* Mutant of JobCompletes: set_idle is left to the result handler.         *)
JobCompletesStillRunning(t) ==
  /\ jobs[t].pc = "command" /\ jobs[t].left = 1
  /\ SetJob(t, "release")
  /\ count' = Bump("completed")
  /\ UNCHANGED <<portState, autoRun, running, queue, slots, status, recent,
                 calls, loop, held, ui>>

JobCompletes(t) ==
  /\ jobs[t].pc = "command" /\ jobs[t].left = 1
  /\ SetJob(t, "release")
  /\ status' = [status EXCEPT ![jobs[t].port] = "IDLE"]
  /\ count' = Bump("completed")
  /\ UNCHANGED <<portState, autoRun, running, queue, slots, recent, calls,
                 loop, held, ui>>

(* evaluate_result's verdict, which _should_retry takes for "retry".  The  *)
(* two grace dates are read from context keys that nothing writes.         *)
EvaluateResult(before, after) == before # after
ShouldRetry == EvaluateResult("", "")

(* A skill failed: _should_retry, then the retry's _enqueue or set_idle.   *)
StepFails(t) ==
  /\ jobs[t].pc = "command"
  /\ SetJob(t, "release")
  /\ IF ShouldRetry
     THEN EnqueueItem(jobs[t].port, RetryPriority, Bump("retried"))
     ELSE /\ status' = [status EXCEPT ![jobs[t].port] = "IDLE"]
          /\ count' = Bump("failed")
          /\ UNCHANGED queue
  /\ UNCHANGED <<portState, autoRun, running, slots, recent, calls, loop,
                 held, ui>>

(* The workflow or one of its skills is not registered.                    *)
JobRaises(t) ==
  /\ jobs[t].pc = "command"
  /\ SetJob(t, "release")
  /\ status' = [status EXCEPT ![jobs[t].port] = "IDLE"]
  /\ count' = Bump("failed")
  /\ UNCHANGED <<portState, autoRun, running, queue, slots, recent, calls,
                 loop, held, ui>>

(* finally: release_slot.                                                  *)
ReleaseSlot(t) ==
  /\ jobs[t].pc = "release"
  /\ jobs' = [jobs EXCEPT ![t] = NoJob]
  /\ slots' = IF slots > 0 THEN slots - 1 ELSE 0
  /\ UNCHANGED <<portState, autoRun, running, queue, status, recent, calls,
                 loop, held, ui, count>>

-----------------------------------------------------------------------------
(* The UI thread: one command at a time.                                   *)

(* WorkerManager.exclude_port: the flag, then the port.excluded event,     *)
(* delivered by the same thread to _on_port_excluded.                      *)
ExcludePort(p) ==
  /\ ui = Quiet
  /\ portState[p] = "ACTIVE"
  /\ portState' = [portState EXCEPT ![p] = "EXCLUDED"]
  /\ ui' = [pc |-> "excluding", port |-> p]
  /\ UNCHANGED <<autoRun, running, queue, slots, status, recent, calls, loop,
                 held, jobs, count>>

OnPortExcluded ==
  /\ ui.pc = "excluding"
  /\ ui' = Quiet
  /\ queue' = WithoutPort(ui.port)
  /\ count' = CountCancelled(ui.port)
  /\ UNCHANGED <<portState, autoRun, running, slots, status, recent, calls,
                 loop, held, jobs>>

IncludePort(p) ==
  /\ ui = Quiet
  /\ portState[p] = "EXCLUDED"
  /\ portState' = [portState EXCEPT ![p] = "ACTIVE"]
  /\ UNCHANGED <<autoRun, running, queue, slots, status, recent, calls, loop,
                 held, jobs, ui, count>>

ToggleAutoRun ==
  /\ ui = Quiet
  /\ autoRun' = ~autoRun
  /\ UNCHANGED <<portState, running, queue, slots, status, recent, calls, loop,
                 held, jobs, ui, count>>

(* stop(): the queued items are counted as cancelled; then the flag is     *)
(* cleared and the queue emptied, with whatever it holds by then.          *)
Stop ==
  /\ ui = Quiet
  /\ running
  /\ count' = [count EXCEPT !["cancelled"] = @ + Cardinality(queue)]
  /\ ui' = [Quiet EXCEPT !.pc = "stopping"]
  /\ UNCHANGED <<portState, autoRun, running, queue, slots, status, recent,
                 calls, loop, held, jobs>>

StopClears ==
  /\ ui.pc = "stopping"
  /\ running' = FALSE
  /\ queue' = {}
  /\ ui' = Quiet
  /\ UNCHANGED <<portState, autoRun, slots, status, recent, calls, loop, held,
                 jobs, count>>

-----------------------------------------------------------------------------
CallArrives(c) ==
  \E p \in Ports :
    \/ \E kind \in TriggerKinds : HandleTrigger(c, p, kind)
    \/ \E priority \in ManualPriorities : EnqueueWorkflow(c, p, priority)

CallProceeds(c) ==
  AutoRunGate(c) \/ Evaluate(c) \/ Cancel(c) \/ CancelSetIdle(c) \/ Standby(c) \/ Enqueue(c)

LoopStep == LoopWakes \/ Dequeue \/ Dispatch

JobStep(t) ==
  \/ JobStarts(t) \/ StepSucceeds(t) \/ NextStep(t) \/ JobCompletes(t)
  \/ StepFails(t) \/ JobRaises(t) \/ ReleaseSlot(t)

UiCommand ==
  \/ \E p \in Ports : ExcludePort(p) \/ IncludePort(p)
  \/ ToggleAutoRun
  \/ Stop

UiProceeds == OnPortExcluded \/ StopClears

Next ==
  \/ \E c \in Callers : CallArrives(c) \/ CallProceeds(c)
  \/ \E p \in Ports, kind \in DedupKinds : WindowCloses(p, kind)
  \/ LoopStep
  \/ \E t \in Threads : JobStep(t)
  \/ UiCommand
  \/ UiProceeds

Spec == Init /\ [][Next]_vars

(* Every thread that is in the middle of something keeps being scheduled,  *)
(* and the commands a workflow sends end (each has a read timeout).        *)
Fairness ==
  /\ WF_vars(LoopStep)
  /\ \A c \in Callers : WF_vars(CallProceeds(c))
  /\ \A t \in Threads : WF_vars(JobStep(t))
  /\ WF_vars(UiProceeds)

FairSpec == Spec /\ Fairness

-----------------------------------------------------------------------------
(* What must hold.                                                         *)

TypeOK ==
  /\ portState \in [Ports -> {"ACTIVE", "EXCLUDED"}]
  /\ autoRun \in BOOLEAN
  /\ running \in BOOLEAN
  /\ queue \subseteq Items
  /\ slots \in Nat
  /\ status \in [Ports -> AutomationStatus]
  /\ recent \subseteq Ports \X TriggerKinds
  /\ calls \in [Callers -> CallType]
  /\ loop \in {"sleep", "drain", "dispatch", "exited"}
  /\ held \subseteq Items
  /\ jobs \in [Threads -> JobType]
  /\ ui \in UiType
  /\ count \in [Counters -> Nat]

(* At most max_concurrent workflows run (docs/DOMAIN_RULES.md, WF-006):    *)
(* the slot counter, which is all acquire_slot looks at, equals the number *)
(* of workflow threads alive, however they end.                            *)
SlotsAreThreads ==
  /\ slots = Cardinality(Busy)
  /\ slots <= MaxConcurrent

(* A port waits in the queue at most once: _enqueue tests and appends      *)
(* under the engine's lock while the worker loop and the cancellers change *)
(* the queue without it.                                                   *)
OneQueuedPerPort == \A i, j \in queue : i.port = j.port => i = j

(* The queue keeps a total order, so the oldest item of the best priority  *)
(* is the one dispatched: no two items compare equal, nor with the one the *)
(* worker loop holds and may put back.                                     *)
QueueIsOrdered ==
  \A i, j \in queue \cup held : i # j => Precedes(i, j) \/ Precedes(j, i)

(* A port shown RUNNING has a workflow executing: of several workflows of  *)
(* a port and the triggers that overwrite its status, none leaves RUNNING  *)
(* behind.                                                                 *)
RunningIsExecuting == \A p \in Ports : status[p] = "RUNNING" => Executing(p) # {}

(* Once nothing of an excluded port is in flight, queued or executing, it  *)
(* stays so until the port is included again: no trigger, command, retry   *)
(* or item put back gets past the participation gates.                     *)
AtRest(p) ==
  /\ portState[p] = "EXCLUDED"
  /\ \A c \in Callers : calls[c].port # p
  /\ \A i \in queue \cup held : i.port # p
  /\ Live(p) = {}

ExcludedStaysAtRest ==
  [][\A p \in Ports : AtRest(p) /\ portState'[p] = "EXCLUDED" => AtRest(p)']_vars

(* The engine implements WorkflowDispatch.  An item is under way from the  *)
(* moment the loop takes it from the queue: the slot found free then is    *)
(* still free when acquire_slot asks for it, so no item is put back, where *)
(* a newer one of the same port could already wait.                        *)
Dispatcher ==
  INSTANCE WorkflowDispatch WITH
    Capacity <- MaxConcurrent,
    pending <- {i.port : i \in queue},
    underway <- slots + Cardinality(held)

ImplementsDispatch == Dispatcher!DispatchSpec

(* Every queued workflow leaves the queue unless the engine is stopped.    *)
QueuedIsServed ==
  \A p \in Ports : Queued(p) ~> (~Queued(p) \/ ~running)

-----------------------------------------------------------------------------
(* What a document says and the code does not do.                          *)

=============================================================================
