----------------------- MODULE AutomationEngineProofs -----------------------
(***************************************************************************)
(* Theorems about AutomationEngine, for every set of ports, callers and    *)
(* threads and every bound.                                                *)
(***************************************************************************)
EXTENDS AutomationEngine, FiniteSetTheorems, TLAPS

-----------------------------------------------------------------------------
(* Types.                                                                  *)

LEMMA PrioritiesAreNaturals == Priorities \subseteq Nat
BY ConstantsAssumption DEF Priorities, TriggerPriority, RetryPriority

LEMMA ConstantTypes == /\ MaxConcurrent \in Nat /\ MaxConcurrent > 0
                       /\ MaxSteps \in Nat /\ MaxSteps > 0
                       /\ NoCall \in CallType /\ NoJob \in JobType /\ Quiet \in UiType
<1>1. MaxConcurrent \in Nat /\ MaxConcurrent > 0 /\ MaxSteps \in Nat /\ MaxSteps > 0
  BY ConstantsAssumption
<1>2. TriggerPriority \in Priorities /\ Manual \in Kinds
  BY DEF Priorities, Kinds
<1>3. NoCall \in CallType
  BY <1>2 DEF NoCall, CallType, CallSteps
<1>4. NoJob \in JobType
  BY <1>1 DEF NoJob, JobType, JobSteps
<1>5. Quiet \in UiType
  BY DEF Quiet, UiType
<1> QED
  BY <1>1, <1>3, <1>4, <1>5

(* A counter goes up by one: the counters keep their type.                 *)
LEMMA BumpType == ASSUME count \in [Counters -> Nat], NEW k \in Counters
                  PROVE  Bump(k) \in [Counters -> Nat]
BY DEF Bump

LEMMA CountCancelledType == ASSUME count \in [Counters -> Nat], NEW p \in Ports
                            PROVE  CountCancelled(p) \in [Counters -> Nat]
<1>1. "cancelled" \in Counters
  BY DEF Counters
<1> QED
  BY <1>1, BumpType DEF CountCancelled

(* The type of the state _enqueue leaves.                                  *)
LEMMA EnqueueType ==
  ASSUME TypeOK, NEW p \in Ports, NEW r \in Priorities,
         NEW cs \in [Counters -> Nat], EnqueueItem(p, r, cs)
  PROVE  /\ queue' \subseteq Items
         /\ status' \in [Ports -> AutomationStatus]
         /\ count' \in [Counters -> Nat]
<1>1. "enqueued" \in Counters /\ cs["enqueued"] \in Nat
  BY DEF Counters
<1>2. CASE Queued(p)
  BY <1>2 DEF EnqueueItem, TypeOK
<1>3. CASE ~Queued(p)
  <2>1. [port |-> p, priority |-> r, created |-> cs["enqueued"]] \in Items
    BY <1>1 DEF Items
  <2>2. queue' \subseteq Items
    BY <1>3, <2>1 DEF EnqueueItem, TypeOK
  <2>3. status' \in [Ports -> AutomationStatus]
    BY <1>3 DEF EnqueueItem, TypeOK, AutomationStatus
  <2>4. count' = [cs EXCEPT !["enqueued"] = @ + 1]
    BY <1>3 DEF EnqueueItem
  <2>5. count' \in [Counters -> Nat]
    BY <2>4, <1>1
  <2> QED
    BY <2>2, <2>3, <2>5
<1> QED
  BY <1>2, <1>3

(* A call past its gates names a port of the system.                       *)
CallsNamePorts == \A c \in Callers : calls[c].pc # "idle" => calls[c].port \in Ports
JobsNamePorts == \A t \in Threads : jobs[t].pc # "free" => jobs[t].port \in Ports
UiNamesPort == ui.pc = "excluding" => ui.port \in Ports
Names == CallsNamePorts /\ JobsNamePorts /\ UiNamesPort

(* Each step of a caller keeps the types; Names says the port is one.      *)
LEMMA CallStepType ==
  ASSUME TypeOK, Names, NEW c \in Callers, CallArrives(c) \/ CallProceeds(c)
  PROVE  TypeOK' /\ Names'
<1> USE ConstantTypes
<1>1. ASSUME NEW p \in Ports, NEW kind \in TriggerKinds, HandleTrigger(c, p, kind)
      PROVE  TypeOK' /\ Names'
  <2>1. count' \in [Counters -> Nat]
    <3>1. "received" \in Counters
      BY DEF Counters
    <3> QED
      BY <1>1, <3>1, BumpType DEF HandleTrigger, TypeOK
  <2>2. recent' \subseteq Ports \X TriggerKinds
    BY <1>1 DEF HandleTrigger, TypeOK
  <2>3. [pc |-> "autorun", port |-> p, kind |-> kind, priority |-> TriggerPriority,
         dup |-> <<p, kind>> \in recent] \in CallType
    BY DEF CallType, CallSteps, Kinds, Priorities
  <2>4. calls' \in [Callers -> CallType] /\ CallsNamePorts'
    BY <1>1, <2>3 DEF HandleTrigger, TypeOK, Names, CallsNamePorts
  <2> QED
    BY <1>1, <2>1, <2>2, <2>4
    DEF HandleTrigger, TypeOK, Names, JobsNamePorts, UiNamesPort
<1>2. ASSUME NEW p \in Ports, NEW r \in ManualPriorities, EnqueueWorkflow(c, p, r)
      PROVE  TypeOK' /\ Names'
  <2>1. count' \in [Counters -> Nat]
    <3>1. "received" \in Counters
      BY DEF Counters
    <3> QED
      BY <1>2, <3>1, BumpType DEF EnqueueWorkflow, TypeOK
  <2>2. [pc |-> "enqueue", port |-> p, kind |-> Manual, priority |-> r, dup |-> FALSE]
          \in CallType
    BY DEF CallType, CallSteps, Kinds, Priorities
  <2>3. calls' \in [Callers -> CallType] /\ CallsNamePorts'
    BY <1>2, <2>2 DEF EnqueueWorkflow, TypeOK, Names, CallsNamePorts
  <2> QED
    BY <1>2, <2>1, <2>3
    DEF EnqueueWorkflow, TypeOK, Names, JobsNamePorts, UiNamesPort
<1>3. ASSUME AutoRunGate(c) PROVE TypeOK' /\ Names'
  <2>1. calls' \in [Callers -> CallType] /\ CallsNamePorts'
    BY <1>3 DEF AutoRunGate, TypeOK, Names, CallsNamePorts, CallType, CallSteps, NoCall
  <2> QED
    BY <1>3, <2>1 DEF AutoRunGate, TypeOK, Names, JobsNamePorts, UiNamesPort
<1>4. ASSUME Evaluate(c) PROVE TypeOK' /\ Names'
  <2>1. EvaluateTrigger(calls[c].kind, status[calls[c].port]) \in CallSteps
    BY <1>4
    DEF Evaluate, EvaluateTrigger, CallSteps, TypeOK, CallType, Kinds, TriggerKinds, Manual
  <2>2. calls' \in [Callers -> CallType] /\ CallsNamePorts'
    BY <1>4, <2>1 DEF Evaluate, TypeOK, Names, CallsNamePorts, CallType, NoCall
  <2> QED
    BY <1>4, <2>2 DEF Evaluate, TypeOK, Names, JobsNamePorts, UiNamesPort
<1>5. ASSUME Cancel(c) PROVE TypeOK' /\ Names'
  <2>1. calls' \in [Callers -> CallType] /\ CallsNamePorts' /\ calls[c].port \in Ports
    BY <1>5 DEF Cancel, TypeOK, Names, CallsNamePorts, CallType, CallSteps
  <2>2. count' \in [Counters -> Nat]
    BY <1>5, <2>1, CountCancelledType DEF Cancel, TypeOK
  <2> QED
    BY <1>5, <2>1, <2>2 DEF Cancel, WithoutPort, TypeOK, Names, JobsNamePorts, UiNamesPort
<1>6. ASSUME CancelSetIdle(c) PROVE TypeOK' /\ Names'
  BY <1>6 DEF CancelSetIdle, TypeOK, AutomationStatus, Names, CallsNamePorts,
              JobsNamePorts, UiNamesPort, NoCall
<1>7. ASSUME Standby(c) PROVE TypeOK' /\ Names'
  BY <1>7 DEF Standby, TypeOK, AutomationStatus, Names, CallsNamePorts,
              JobsNamePorts, UiNamesPort, NoCall
<1>8. ASSUME Enqueue(c) PROVE TypeOK' /\ Names'
  <2>1. calls[c].port \in Ports /\ calls[c].priority \in Priorities
    BY <1>8 DEF Enqueue, TypeOK, Names, CallsNamePorts, CallType
  <2>2. /\ queue' \subseteq Items
        /\ status' \in [Ports -> AutomationStatus]
        /\ count' \in [Counters -> Nat]
    BY <1>8, <2>1, EnqueueType DEF Enqueue, TypeOK
  <2> QED
    BY <1>8, <2>2
    DEF Enqueue, TypeOK, Names, CallsNamePorts, JobsNamePorts, UiNamesPort, NoCall
<1> QED
  BY <1>1, <1>2, <1>3, <1>4, <1>5, <1>6, <1>7, <1>8 DEF CallArrives, CallProceeds

(* The worker loop.                                                        *)
LEMMA LoopStepType ==
  ASSUME TypeOK, Names, LoopStep
  PROVE  TypeOK' /\ Names'
<1> USE ConstantTypes
<1>1. CASE LoopWakes
  BY <1>1 DEF LoopWakes, TypeOK, Names, CallsNamePorts, JobsNamePorts, UiNamesPort
<1>2. CASE Dequeue
  BY <1>2 DEF Dequeue, IsHead, TypeOK, Names, CallsNamePorts, JobsNamePorts, UiNamesPort
<1>3. CASE Dispatch
  <2>1. CASE slots < MaxConcurrent
    <3>1. PICK t \in Threads \ Busy, i \in held, n \in 1 .. MaxSteps :
            jobs' = [jobs EXCEPT ![t] = [pc |-> "spawned", port |-> i.port, left |-> n]]
      BY <1>3, <2>1 DEF Dispatch
    <3>2. [pc |-> "spawned", port |-> i.port, left |-> n] \in JobType /\ i.port \in Ports
      BY <3>1 DEF JobType, JobSteps, TypeOK, Items
    <3>3. jobs' \in [Threads -> JobType] /\ JobsNamePorts'
      BY <3>1, <3>2 DEF TypeOK, Names, JobsNamePorts
    <3> QED
      BY <1>3, <2>1, <3>3 DEF Dispatch, TypeOK, Names, CallsNamePorts, UiNamesPort
  <2>2. CASE ~(slots < MaxConcurrent)
    BY <1>3, <2>2 DEF Dispatch, TypeOK, Names, CallsNamePorts, JobsNamePorts, UiNamesPort
  <2> QED
    BY <2>1, <2>2
<1> QED
  BY <1>1, <1>2, <1>3 DEF LoopStep

(* The workflow threads.                                                   *)
LEMMA JobStepType ==
  ASSUME TypeOK, Names, NEW t \in Threads, JobStep(t)
  PROVE  TypeOK' /\ Names'
<1> USE ConstantTypes
<1> DEFINE Kept == TypeOK' /\ Names'
<1>1. \A k \in Counters : Bump(k) \in [Counters -> Nat]
  BY BumpType DEF TypeOK
<1>2. "started" \in Counters /\ "completed" \in Counters /\ "failed" \in Counters
      /\ "retried" \in Counters
  BY DEF Counters
<1>3. ASSUME NEW pc \in JobSteps, SetJob(t, pc), jobs[t].pc # "free"
      PROVE  jobs' \in [Threads -> JobType] /\ JobsNamePorts'
  BY <1>3 DEF SetJob, TypeOK, JobType, Names, JobsNamePorts
<1>4. CASE JobStarts(t)
  <2>1. jobs' \in [Threads -> JobType] /\ JobsNamePorts'
    BY <1>3, <1>4 DEF JobStarts, JobSteps
  <2> QED
    BY <1>1, <1>2, <1>4, <2>1
    DEF JobStarts, TypeOK, AutomationStatus, Names, CallsNamePorts, UiNamesPort
<1>5. CASE StepSucceeds(t)
  <2>1. jobs' \in [Threads -> JobType] /\ JobsNamePorts'
    BY <1>5 DEF StepSucceeds, TypeOK, JobType, JobSteps, Names, JobsNamePorts
  <2> QED
    BY <1>5, <2>1 DEF StepSucceeds, TypeOK, Names, CallsNamePorts, UiNamesPort
<1>6. CASE NextStep(t)
  <2>1. jobs' \in [Threads -> JobType] /\ JobsNamePorts'
    BY <1>3, <1>6 DEF NextStep, JobSteps
  <2> QED
    BY <1>6, <2>1 DEF NextStep, TypeOK, Names, CallsNamePorts, UiNamesPort
<1>7. CASE JobCompletes(t)
  <2>1. jobs' \in [Threads -> JobType] /\ JobsNamePorts'
    BY <1>3, <1>7 DEF JobCompletes, JobSteps
  <2> QED
    BY <1>1, <1>2, <1>7, <2>1
    DEF JobCompletes, TypeOK, AutomationStatus, Names, CallsNamePorts, UiNamesPort
<1>8. CASE StepFails(t)
  <2>1. jobs' \in [Threads -> JobType] /\ JobsNamePorts' /\ jobs[t].port \in Ports
    BY <1>3, <1>8 DEF StepFails, JobSteps, Names, JobsNamePorts
  <2>2. /\ queue' \subseteq Items
        /\ status' \in [Ports -> AutomationStatus]
        /\ count' \in [Counters -> Nat]
    <3>1. CASE ShouldRetry
      <4>1. RetryPriority \in Priorities
        BY DEF Priorities
      <4> QED
        BY <1>1, <1>2, <1>8, <2>1, <3>1, <4>1, EnqueueType DEF StepFails
    <3>2. CASE ~ShouldRetry
      BY <1>1, <1>2, <1>8, <3>2 DEF StepFails, TypeOK, AutomationStatus
    <3> QED
      BY <3>1, <3>2
  <2> QED
    BY <1>8, <2>1, <2>2 DEF StepFails, TypeOK, Names, CallsNamePorts, UiNamesPort
<1>9. CASE JobRaises(t)
  <2>1. jobs' \in [Threads -> JobType] /\ JobsNamePorts'
    BY <1>3, <1>9 DEF JobRaises, JobSteps
  <2> QED
    BY <1>1, <1>2, <1>9, <2>1
    DEF JobRaises, TypeOK, AutomationStatus, Names, CallsNamePorts, UiNamesPort
<1>10. CASE ReleaseSlot(t)
  <2>1. jobs' \in [Threads -> JobType] /\ JobsNamePorts'
    BY <1>10 DEF ReleaseSlot, TypeOK, Names, JobsNamePorts, NoJob
  <2>2. slots' \in Nat
    BY <1>10 DEF ReleaseSlot, TypeOK
  <2> QED
    BY <1>10, <2>1, <2>2 DEF ReleaseSlot, TypeOK, Names, CallsNamePorts, UiNamesPort
<1> QED
  BY <1>4, <1>5, <1>6, <1>7, <1>8, <1>9, <1>10 DEF JobStep

(* The UI thread; the queue is finite, so that its length is a number.     *)
LEMMA UiStepType ==
  ASSUME TypeOK, Names, IsFiniteSet(queue), UiCommand \/ UiProceeds
  PROVE  TypeOK' /\ Names'
<1> USE ConstantTypes DEF TypeOK, Names, CallsNamePorts, JobsNamePorts, UiNamesPort, UiType, Quiet
<1>1. ASSUME NEW p \in Ports, ExcludePort(p) PROVE TypeOK' /\ Names'
  BY <1>1 DEF ExcludePort
<1>2. ASSUME NEW p \in Ports, IncludePort(p) PROVE TypeOK' /\ Names'
  BY <1>2 DEF IncludePort
<1>3. CASE ToggleAutoRun
  BY <1>3 DEF ToggleAutoRun
<1>4. CASE Stop
  <2>1. Cardinality(queue) \in Nat /\ "cancelled" \in Counters
    BY FS_CardinalityType DEF Counters
  <2>2. count' \in [Counters -> Nat]
    BY <1>4, <2>1 DEF Stop
  <2> QED
    BY <1>4, <2>2 DEF Stop
<1>5. CASE OnPortExcluded
  <2>1. count' \in [Counters -> Nat]
    BY <1>5, CountCancelledType DEF OnPortExcluded
  <2> QED
    BY <1>5, <2>1 DEF OnPortExcluded, WithoutPort
<1>6. CASE StopClears
  BY <1>6 DEF StopClears
<1> QED
  BY <1>1, <1>2, <1>3, <1>4, <1>5, <1>6 DEF UiCommand, UiProceeds

-----------------------------------------------------------------------------
(* Slots.  The worker loop holds an item exactly while it dispatches, and  *)
(* then a slot is free: the loop alone takes slots, so acquire_slot cannot *)
(* fail and nothing is ever put back.                                      *)
HeldForDispatch ==
  /\ loop = "dispatch" => slots < MaxConcurrent /\ \E i \in Items : held = {i}
  /\ loop # "dispatch" => held = {}

SlotInv == IsFiniteSet(queue) /\ HeldForDispatch /\ SlotsAreThreads

(* A step that leaves every thread free or busy leaves Busy alone.         *)
LEMMA SameBusy ==
  ASSUME \A t \in Threads : jobs'[t].pc = "free" <=> jobs[t].pc = "free"
  PROVE  Busy' = Busy
BY DEF Busy

LEMMA BusyIsFinite == IsFiniteSet(Busy)
BY FS_Subset, ConstantsAssumption DEF Busy

(* _enqueue adds at most one item.                                         *)
LEMMA EnqueueFinite ==
  ASSUME IsFiniteSet(queue), NEW p, NEW r, NEW cs, EnqueueItem(p, r, cs)
  PROVE  IsFiniteSet(queue')
<1> DEFINE item == [port |-> p, priority |-> r, created |-> cs["enqueued"]]
<1>1. queue' = queue \/ queue' = queue \cup {item}
  BY DEF EnqueueItem
<1>2. IsFiniteSet(queue \cup {item})
  BY FS_AddElement
<1> QED
  BY <1>1, <1>2

LEMMA CallStepSlots ==
  ASSUME TypeOK, SlotInv, NEW c \in Callers, CallArrives(c) \/ CallProceeds(c)
  PROVE  SlotInv'
<1>1. UNCHANGED <<loop, held, slots, jobs>>
  BY DEF CallArrives, CallProceeds, HandleTrigger, EnqueueWorkflow, AutoRunGate,
         Evaluate, Cancel, CancelSetIdle, Standby, Enqueue
<1>2. HeldForDispatch' /\ SlotsAreThreads'
  BY <1>1 DEF SlotInv, HeldForDispatch, SlotsAreThreads, Busy
<1>3. IsFiniteSet(queue')
  <2>1. CASE Enqueue(c)
    BY <2>1, EnqueueFinite DEF Enqueue, SlotInv
  <2>2. CASE Cancel(c)
    BY <2>2, FS_Subset DEF Cancel, WithoutPort, SlotInv
  <2>3. CASE ~Enqueue(c) /\ ~Cancel(c)
    BY <2>3 DEF SlotInv, CallArrives, CallProceeds, HandleTrigger, EnqueueWorkflow,
                AutoRunGate, Evaluate, CancelSetIdle, Standby
  <2> QED
    BY <2>1, <2>2, <2>3
<1> QED
  BY <1>2, <1>3 DEF SlotInv

LEMMA LoopStepSlots ==
  ASSUME TypeOK, SlotInv, LoopStep
  PROVE  SlotInv'
<1> USE ConstantTypes
<1>1. CASE LoopWakes
  BY <1>1 DEF LoopWakes, SlotInv, HeldForDispatch, SlotsAreThreads, Busy
<1>2. CASE Dequeue
  <2>1. SlotsAreThreads'
    BY <1>2 DEF Dequeue, SlotInv, SlotsAreThreads, Busy
  <2>2. IsFiniteSet(queue')
    BY <1>2, FS_Subset DEF Dequeue, SlotInv
  <2>3. HeldForDispatch'
    BY <1>2 DEF Dequeue, SlotInv, HeldForDispatch, AvailableSlots, IsHead, TypeOK
  <2> QED
    BY <2>1, <2>2, <2>3 DEF SlotInv
<1>3. CASE Dispatch
  <2>1. slots < MaxConcurrent
    BY <1>3 DEF Dispatch, SlotInv, HeldForDispatch
  <2>2. HeldForDispatch' /\ IsFiniteSet(queue')
    BY <1>3, <2>1 DEF Dispatch, SlotInv, HeldForDispatch
  <2>3. PICK t \in Threads \ Busy, i \in held, n \in 1 .. MaxSteps :
          jobs' = [jobs EXCEPT ![t] = [pc |-> "spawned", port |-> i.port, left |-> n]]
    BY <1>3, <2>1 DEF Dispatch
  <2>4. Busy' = Busy \cup {t}
    BY <2>3 DEF Busy, TypeOK
  <2>5. Cardinality(Busy') = Cardinality(Busy) + 1
    BY <2>3, <2>4, BusyIsFinite, FS_AddElement
  <2>6. slots' = slots + 1
    BY <1>3, <2>1 DEF Dispatch
  <2>7. SlotsAreThreads'
    BY <2>1, <2>5, <2>6 DEF SlotInv, SlotsAreThreads, TypeOK
  <2> QED
    BY <2>2, <2>7 DEF SlotInv
<1> QED
  BY <1>1, <1>2, <1>3 DEF LoopStep

LEMMA JobStepSlots ==
  ASSUME TypeOK, SlotInv, NEW t \in Threads, JobStep(t)
  PROVE  SlotInv'
<1> USE ConstantTypes
<1>1. UNCHANGED <<loop, held>>
  BY DEF JobStep, JobStarts, StepSucceeds, NextStep, JobCompletes, StepFails, JobRaises,
         ReleaseSlot
<1>2. CASE ReleaseSlot(t)
  <2>1. t \in Busy /\ Busy' = Busy \ {t}
    BY <1>2 DEF ReleaseSlot, Busy, NoJob, TypeOK
  <2>2. Cardinality(Busy') = Cardinality(Busy) - 1
    BY <2>1, BusyIsFinite, FS_RemoveElement
  <2>3. Cardinality(Busy) # 0
    BY <2>1, BusyIsFinite, FS_EmptySet
  <2>4. slots > 0
    BY <2>3 DEF SlotInv, SlotsAreThreads, TypeOK
  <2>5. slots' = slots - 1
    BY <1>2, <2>4 DEF ReleaseSlot
  <2>6. SlotsAreThreads' /\ HeldForDispatch'
    BY <1>1, <2>2, <2>5 DEF SlotInv, SlotsAreThreads, HeldForDispatch, TypeOK
  <2> QED
    BY <1>2, <2>6 DEF ReleaseSlot, SlotInv
<1>3. CASE ~ReleaseSlot(t)
  <2>1. slots' = slots
    BY <1>3 DEF JobStep, JobStarts, StepSucceeds, NextStep, JobCompletes, StepFails, JobRaises
  <2>2. \A u \in Threads : jobs'[u].pc = "free" <=> jobs[u].pc = "free"
    BY <1>3 DEF JobStep, JobStarts, StepSucceeds, NextStep, JobCompletes, StepFails,
                JobRaises, SetJob, TypeOK, JobType
  <2>3. SlotsAreThreads' /\ HeldForDispatch'
    BY <1>1, <2>1, <2>2, SameBusy DEF SlotInv, SlotsAreThreads, HeldForDispatch
  <2>4. IsFiniteSet(queue')
    <3>1. CASE StepFails(t)
      BY <3>1, EnqueueFinite DEF StepFails, SlotInv
    <3>2. CASE ~StepFails(t)
      BY <1>3, <3>2 DEF SlotInv, JobStep, JobStarts, StepSucceeds, NextStep, JobCompletes,
                        JobRaises
    <3> QED
      BY <3>1, <3>2
  <2> QED
    BY <2>3, <2>4 DEF SlotInv
<1> QED
  BY <1>2, <1>3

LEMMA UiStepSlots ==
  ASSUME TypeOK, SlotInv, UiCommand \/ UiProceeds
  PROVE  SlotInv'
<1>1. UNCHANGED <<loop, held, slots, jobs>> /\ queue' \subseteq queue
  BY DEF UiCommand, UiProceeds, ExcludePort, IncludePort, ToggleAutoRun, Stop,
         OnPortExcluded, StopClears, WithoutPort
<1>2. IsFiniteSet(queue')
  BY <1>1, FS_Subset DEF SlotInv
<1> QED
  BY <1>1, <1>2 DEF SlotInv, HeldForDispatch, SlotsAreThreads, Busy

-----------------------------------------------------------------------------
TypeInv == TypeOK /\ Names /\ SlotInv

LEMMA TypeInvInit == Init => TypeInv
<1> SUFFICES ASSUME Init PROVE TypeInv
  OBVIOUS
<1> USE ConstantTypes DEF Init
<1>1. TypeOK
  BY DEF TypeOK, AutomationStatus
<1>2. Names
  BY DEF Names, CallsNamePorts, JobsNamePorts, UiNamesPort, NoCall, NoJob, Quiet
<1>3. Busy = {}
  BY DEF Busy, NoJob
<1>4. SlotInv
  BY <1>3, FS_EmptySet DEF SlotInv, HeldForDispatch, SlotsAreThreads
<1> QED
  BY <1>1, <1>2, <1>4 DEF TypeInv

LEMMA TypeInvNext == TypeInv /\ [Next]_vars => TypeInv'
<1> SUFFICES ASSUME TypeInv, [Next]_vars PROVE TypeInv'
  OBVIOUS
<1> USE DEF TypeInv
<1>1. ASSUME NEW c \in Callers, CallArrives(c) \/ CallProceeds(c) PROVE TypeInv'
  BY <1>1, CallStepType, CallStepSlots
<1>2. ASSUME NEW p \in Ports, NEW kind \in DedupKinds, WindowCloses(p, kind) PROVE TypeInv'
  BY <1>2 DEF WindowCloses, TypeOK, Names, CallsNamePorts, JobsNamePorts, UiNamesPort,
              SlotInv, HeldForDispatch, SlotsAreThreads, Busy
<1>3. CASE LoopStep
  BY <1>3, LoopStepType, LoopStepSlots
<1>4. ASSUME NEW t \in Threads, JobStep(t) PROVE TypeInv'
  BY <1>4, JobStepType, JobStepSlots
<1>5. CASE UiCommand \/ UiProceeds
  BY <1>5, UiStepType, UiStepSlots DEF SlotInv
<1>6. CASE UNCHANGED vars
  BY <1>6 DEF vars, TypeOK, Names, CallsNamePorts, JobsNamePorts, UiNamesPort,
              SlotInv, HeldForDispatch, SlotsAreThreads, Busy
<1> QED
  BY <1>1, <1>2, <1>3, <1>4, <1>5, <1>6 DEF Next

THEOREM TypeInvariant == Spec => []TypeInv
BY TypeInvInit, TypeInvNext, PTL DEF Spec

(* Every variable keeps its type, for any number of ports and threads.     *)
THEOREM TypeCorrect == Spec => []TypeOK
BY TypeInvariant, PTL DEF TypeInv

(* The slot counter is the number of workflow threads alive and never      *)
(* exceeds max_concurrent: the finally of _execute_workflow gives back     *)
(* exactly the slot _process_queue took.                                   *)
THEOREM SlotsCorrect == Spec => []SlotsAreThreads
BY TypeInvariant, PTL DEF TypeInv, SlotInv

-----------------------------------------------------------------------------
(* The queue.  Items carry distinct creation times, all of them in the     *)
(* past: a new item differs from every other, also from the one in hand.   *)
DistinctStamps ==
  /\ \A i \in queue \cup held : i.created < count["enqueued"]
  /\ \A i, j \in queue \cup held : i.created = j.created => i = j

QueueInv == DistinctStamps /\ OneQueuedPerPort

LEMMA OtherCounters ==
  ASSUME TypeOK, NEW k \in Counters, k # "enqueued"
  PROVE  Bump(k)["enqueued"] = count["enqueued"]
BY DEF TypeOK, Bump, Counters

LEMMA CountCancelledKeepsStamps ==
  ASSUME TypeOK, NEW p
  PROVE  CountCancelled(p)["enqueued"] = count["enqueued"]
<1>1. "cancelled" \in Counters
  BY DEF Counters
<1> QED
  BY <1>1, OtherCounters DEF CountCancelled

(* Fewer items, the same clock.                                            *)
LEMMA FewerItems ==
  ASSUME QueueInv, queue' \subseteq queue, held' \subseteq queue \cup held,
         count'["enqueued"] = count["enqueued"]
  PROVE  QueueInv'
BY DEF QueueInv, DistinctStamps, OneQueuedPerPort

(* _enqueue tests and appends in one step: no port is queued twice.        *)
LEMMA EnqueueKeepsQueue ==
  ASSUME TypeOK, QueueInv, held' = held, NEW p \in Ports, NEW r \in Priorities,
         NEW cs \in [Counters -> Nat], cs["enqueued"] = count["enqueued"],
         EnqueueItem(p, r, cs)
  PROVE  QueueInv'
<1> DEFINE item == [port |-> p, priority |-> r, created |-> cs["enqueued"]]
<1>1. CASE Queued(p)
  BY <1>1, FewerItems DEF EnqueueItem
<1>2. CASE ~Queued(p)
  <2>1. queue' = queue \cup {item}
    BY <1>2 DEF EnqueueItem
  <2>2. count'["enqueued"] = count["enqueued"] + 1 /\ count["enqueued"] \in Nat
    BY <1>2 DEF EnqueueItem, Counters
  <2>3. \A i \in queue \cup held : i.created \in Nat /\ i.created < count["enqueued"]
    BY DEF QueueInv, DistinctStamps, TypeOK, Items
  <2>4. item.created = count["enqueued"] /\ item.port = p
    OBVIOUS
  <2>5. \A i \in (queue \cup held)' : i.created < count'["enqueued"]
    BY <2>1, <2>2, <2>3, <2>4
  <2>6. \A i, j \in (queue \cup held)' : i.created = j.created => i = j
    BY <2>1, <2>2, <2>3, <2>4 DEF QueueInv, DistinctStamps
  <2>7. \A i, j \in queue' : i.port = j.port => i = j
    BY <1>2, <2>1, <2>4 DEF Queued, QueueInv, OneQueuedPerPort
  <2> QED
    BY <2>5, <2>6, <2>7 DEF QueueInv, DistinctStamps, OneQueuedPerPort
<1> QED
  BY <1>1, <1>2

LEMMA QueueInvNext == TypeInv /\ QueueInv /\ [Next]_vars => QueueInv'
<1> SUFFICES ASSUME TypeInv, QueueInv, [Next]_vars PROVE QueueInv'
  OBVIOUS
<1> USE DEF TypeInv
<1>1. "received" \in Counters /\ "started" \in Counters /\ "completed" \in Counters
      /\ "failed" \in Counters /\ "retried" \in Counters
  BY DEF Counters
<1>2. ASSUME NEW c \in Callers, Enqueue(c) PROVE QueueInv'
  <2>1. calls[c].port \in Ports /\ calls[c].priority \in Priorities
    BY <1>2 DEF Enqueue, TypeOK, Names, CallsNamePorts, CallType
  <2>2. held' = held /\ count \in [Counters -> Nat]
    BY <1>2 DEF Enqueue, TypeOK
  <2> QED
    BY <1>2, <2>1, <2>2, EnqueueKeepsQueue DEF Enqueue
<1>3. ASSUME NEW c \in Callers, CallArrives(c) \/ CallProceeds(c), ~Enqueue(c)
      PROVE  QueueInv'
  <2>1. queue' \subseteq queue /\ held' = held
    BY <1>3 DEF CallArrives, CallProceeds, HandleTrigger, EnqueueWorkflow, AutoRunGate,
                Evaluate, Cancel, CancelSetIdle, Standby, WithoutPort
  <2>2. count' = count \/ count' = Bump("received") \/ \E p : count' = CountCancelled(p)
    BY <1>3 DEF CallArrives, CallProceeds, HandleTrigger, EnqueueWorkflow, AutoRunGate,
                Evaluate, Cancel, CancelSetIdle, Standby
  <2>3. count'["enqueued"] = count["enqueued"]
    BY <1>1, <2>2, OtherCounters, CountCancelledKeepsStamps
  <2> QED
    BY <2>1, <2>3, FewerItems
<1>4. CASE LoopStep
  <2>1. CASE Dispatch /\ ~(slots < MaxConcurrent)
    BY <2>1 DEF Dispatch, SlotInv, HeldForDispatch
  <2>2. CASE LoopWakes \/ Dequeue \/ (Dispatch /\ slots < MaxConcurrent)
    <3>1. /\ queue' \subseteq queue /\ held' \subseteq queue \cup held
          /\ count' = count
      BY <2>2 DEF LoopWakes, Dequeue, Dispatch, IsHead
    <3> QED
      BY <3>1, FewerItems
  <2> QED
    BY <1>4, <2>1, <2>2 DEF LoopStep
<1>5. ASSUME NEW t \in Threads, JobStep(t) PROVE QueueInv'
  <2>1. CASE StepFails(t) /\ ShouldRetry
    <3>1. /\ jobs[t].port \in Ports /\ RetryPriority \in Priorities
          /\ Bump("retried") \in [Counters -> Nat]
          /\ Bump("retried")["enqueued"] = count["enqueued"]
      BY <1>1, <2>1, BumpType, OtherCounters
      DEF StepFails, TypeOK, Names, JobsNamePorts, Priorities
    <3>2. EnqueueItem(jobs[t].port, RetryPriority, Bump("retried")) /\ held' = held
      BY <2>1 DEF StepFails
    <3> QED
      BY <3>1, <3>2, EnqueueKeepsQueue
  <2>2. CASE ~(StepFails(t) /\ ShouldRetry)
    <3>1. queue' = queue /\ held' = held
      BY <1>5, <2>2 DEF JobStep, JobStarts, StepSucceeds, NextStep, JobCompletes,
                        StepFails, JobRaises, ReleaseSlot
    <3>2. \/ count' = count \/ count' = Bump("started")
          \/ count' = Bump("completed") \/ count' = Bump("failed")
      BY <1>5, <2>2 DEF JobStep, JobStarts, StepSucceeds, NextStep, JobCompletes,
                        StepFails, JobRaises, ReleaseSlot
    <3>3. count'["enqueued"] = count["enqueued"]
      BY <1>1, <3>2, OtherCounters
    <3> QED
      BY <3>1, <3>3, FewerItems
  <2> QED
    BY <2>1, <2>2
<1>6. CASE UiCommand \/ UiProceeds
  <2>1. queue' \subseteq queue /\ held' = held
    BY <1>6 DEF UiCommand, UiProceeds, ExcludePort, IncludePort, ToggleAutoRun, Stop,
                OnPortExcluded, StopClears, WithoutPort
  <2>2. count'["enqueued"] = count["enqueued"]
    <3>1. CASE Stop
      BY <3>1 DEF Stop, TypeOK, Counters
    <3>2. CASE OnPortExcluded
      BY <3>2, CountCancelledKeepsStamps DEF OnPortExcluded
    <3>3. CASE ~Stop /\ ~OnPortExcluded
      BY <1>6, <3>3 DEF UiCommand, UiProceeds, ExcludePort, IncludePort, ToggleAutoRun,
                        StopClears
    <3> QED
      BY <3>1, <3>2, <3>3
  <2> QED
    BY <2>1, <2>2, FewerItems
<1>7. ASSUME NEW p \in Ports, NEW kind \in DedupKinds, WindowCloses(p, kind) PROVE QueueInv'
  BY <1>7, FewerItems DEF WindowCloses
<1>8. CASE UNCHANGED vars
  BY <1>8, FewerItems DEF vars
<1> QED
  BY <1>2, <1>3, <1>4, <1>5, <1>6, <1>7, <1>8 DEF Next

THEOREM QueueInvariant == Spec => []QueueInv
<1>1. Init => QueueInv
  BY DEF Init, QueueInv, DistinctStamps, OneQueuedPerPort
<1> QED
  BY <1>1, QueueInvNext, TypeInvariant, PTL DEF Spec

(* A port waits in the queue at most once, however its callers, its        *)
(* cancellers and the worker loop interleave.                              *)
THEOREM OneQueued == Spec => []OneQueuedPerPort
BY QueueInvariant, PTL DEF QueueInv

(* No two items compare equal: the head of the queue is always unique.     *)
THEOREM OrderTotal == Spec => []QueueIsOrdered
<1>1. TypeInv /\ QueueInv => QueueIsOrdered
  <2> SUFFICES ASSUME TypeInv, QueueInv, NEW i \in queue \cup held,
                      NEW j \in queue \cup held, i # j
               PROVE  Precedes(i, j) \/ Precedes(j, i)
    BY DEF QueueIsOrdered
  <2>1. i.created \in Nat /\ j.created \in Nat /\ i.created # j.created
    BY DEF TypeInv, TypeOK, Items, QueueInv, DistinctStamps
  <2>2. i.priority \in Nat /\ j.priority \in Nat
    BY PrioritiesAreNaturals DEF TypeInv, TypeOK, Items
  <2> QED
    BY <2>1, <2>2 DEF Precedes
<1> QED
  BY <1>1, TypeInvariant, QueueInvariant, PTL

-----------------------------------------------------------------------------
(* Status.  A thread leaves "command" only with a write of its port's      *)
(* status: IDLE always, as _should_retry never says yes.                   *)
LEMMA NeverRetries == ~ShouldRetry
BY DEF ShouldRetry, EvaluateResult

LEMMA RunningNext == TypeInv /\ RunningIsExecuting /\ [Next]_vars => RunningIsExecuting'
<1> SUFFICES ASSUME TypeInv, RunningIsExecuting, [Next]_vars,
                    NEW p \in Ports, status'[p] = "RUNNING"
             PROVE  \E t \in Threads : /\ jobs'[t].pc \in {"command", "cooldown"}
                                       /\ jobs'[t].port = p
  BY DEF RunningIsExecuting, Executing
<1> USE DEF TypeInv
<1>1. ASSUME jobs' = jobs, status'[p] = status[p]
      PROVE  \E t \in Threads : /\ jobs'[t].pc \in {"command", "cooldown"}
                                /\ jobs'[t].port = p
  BY <1>1 DEF RunningIsExecuting, Executing
<1>2. CASE \E t \in Threads : JobStep(t)
  <2>1. PICK t \in Threads : JobStep(t)
    BY <1>2
  <2>2. CASE JobStarts(t)
    <3>1. jobs'[t].pc = "command" /\ jobs'[t].port = jobs[t].port
          /\ \A u \in Threads : u # t => jobs'[u] = jobs[u]
      BY <2>2 DEF JobStarts, SetJob, TypeOK, JobType
    <3>2. p # jobs[t].port => status[p] = "RUNNING"
      BY <2>2 DEF JobStarts, TypeOK
    <3>3. jobs[t].pc \notin {"command", "cooldown"}
      BY <2>2 DEF JobStarts
    <3> QED
      BY <3>1, <3>2, <3>3 DEF RunningIsExecuting, Executing
  <2>3. CASE StepSucceeds(t) \/ NextStep(t)
    <3>1. /\ jobs'[t].pc \in {"command", "cooldown"} /\ jobs'[t].port = jobs[t].port
          /\ \A u \in Threads : u # t => jobs'[u] = jobs[u]
          /\ status' = status
      BY <2>3 DEF StepSucceeds, NextStep, SetJob, TypeOK, JobType
    <3> QED
      BY <3>1 DEF RunningIsExecuting, Executing
  <2>4. CASE JobCompletes(t) \/ StepFails(t) \/ JobRaises(t)
    <3>1. status' = [status EXCEPT ![jobs[t].port] = "IDLE"]
          /\ \A u \in Threads : u # t => jobs'[u] = jobs[u]
      BY <2>4, NeverRetries DEF JobCompletes, StepFails, JobRaises, SetJob, TypeOK
    <3>2. p # jobs[t].port /\ status[p] = "RUNNING"
      BY <3>1 DEF TypeOK
    <3> QED
      BY <3>1, <3>2 DEF RunningIsExecuting, Executing
  <2>5. CASE ReleaseSlot(t)
    <3>1. status' = status /\ jobs[t].pc = "release"
          /\ \A u \in Threads : u # t => jobs'[u] = jobs[u]
      BY <2>5 DEF ReleaseSlot, TypeOK
    <3> QED
      BY <3>1 DEF RunningIsExecuting, Executing
  <2> QED
    BY <2>1, <2>2, <2>3, <2>4, <2>5 DEF JobStep
<1>3. CASE LoopStep
  <2>1. status' = status
    BY <1>3 DEF LoopStep, LoopWakes, Dequeue, Dispatch
  <2>2. \A u \in Threads : jobs[u].pc # "free" => jobs'[u] = jobs[u]
    BY <1>3 DEF LoopStep, LoopWakes, Dequeue, Dispatch, Busy, TypeOK
  <2> QED
    BY <2>1, <2>2 DEF RunningIsExecuting, Executing
<1>4. ASSUME NEW c \in Callers, CallArrives(c) \/ CallProceeds(c)
      PROVE  jobs' = jobs /\ status'[p] = status[p]
  <2>1. CASE Enqueue(c)
    BY <2>1 DEF Enqueue, EnqueueItem, TypeOK
  <2>2. CASE CancelSetIdle(c) \/ Standby(c)
    BY <2>2 DEF CancelSetIdle, Standby, TypeOK
  <2>3. CASE ~Enqueue(c) /\ ~CancelSetIdle(c) /\ ~Standby(c)
    BY <1>4, <2>3 DEF CallArrives, CallProceeds, HandleTrigger, EnqueueWorkflow,
                      AutoRunGate, Evaluate, Cancel
  <2> QED
    BY <2>1, <2>2, <2>3 DEF Enqueue, CancelSetIdle, Standby
<1>5. CASE UiCommand \/ UiProceeds
  BY <1>1, <1>5 DEF UiCommand, UiProceeds, ExcludePort, IncludePort, ToggleAutoRun, Stop,
                    OnPortExcluded, StopClears
<1>6. ASSUME NEW q \in Ports, NEW kind \in DedupKinds, WindowCloses(q, kind)
      PROVE  jobs' = jobs /\ status'[p] = status[p]
  BY <1>6 DEF WindowCloses
<1>7. CASE UNCHANGED vars
  BY <1>1, <1>7 DEF vars
<1> QED
  BY <1>1, <1>2, <1>3, <1>4, <1>5, <1>6, <1>7 DEF Next

(* No port is left RUNNING once its workflows have ended.                  *)
THEOREM RunningCorrect == Spec => []RunningIsExecuting
<1>1. Init => RunningIsExecuting
  BY DEF Init, RunningIsExecuting
<1> QED
  BY <1>1, RunningNext, TypeInvariant, PTL DEF Spec

-----------------------------------------------------------------------------
(* Refinement.                                                             *)

LEMMA HeldCount ==
  ASSUME HeldForDispatch
  PROVE  Cardinality(held) = (IF loop = "dispatch" THEN 1 ELSE 0)
BY FS_EmptySet, FS_Singleton DEF HeldForDispatch

LEMMA InitRefines == Init => Dispatcher!DispatchInit
<1> SUFFICES ASSUME Init PROVE Dispatcher!DispatchInit
  OBVIOUS
<1>1. Cardinality(held) = 0
  BY FS_EmptySet DEF Init
<1> QED
  BY <1>1 DEF Init, Dispatcher!DispatchInit

(* A step that neither takes an item nor touches a slot submits a port,    *)
(* withdraws ports or stutters.                                            *)
LEMMA EnqueueRefines ==
  ASSUME UNCHANGED <<slots, held>>, NEW p \in Ports, NEW r, NEW cs, EnqueueItem(p, r, cs)
  PROVE  [Dispatcher!DispatchNext]_Dispatcher!dispatchVars
<1> DEFINE Waiting == {i.port : i \in queue}
<1>1. CASE Queued(p)
  <2>1. queue' = queue
    BY <1>1 DEF EnqueueItem
  <2> QED
    BY <2>1 DEF Dispatcher!dispatchVars
<1>2. CASE ~Queued(p)
  <2> DEFINE item == [port |-> p, priority |-> r, created |-> cs["enqueued"]]
  <2>1. queue' = queue \cup {item} /\ item.port = p
    BY <1>2 DEF EnqueueItem
  <2>2. p \notin Waiting /\ Waiting' = Waiting \cup {p}
    BY <1>2, <2>1 DEF Queued
  <2>3. Dispatcher!Submit(p)
    BY <2>2 DEF Dispatcher!Submit
  <2> QED
    BY <2>3 DEF Dispatcher!DispatchNext
<1> QED
  BY <1>1, <1>2

LEMMA WithdrawRefines ==
  ASSUME UNCHANGED <<slots, held>>, NEW p \in Ports, queue' = WithoutPort(p)
  PROVE  [Dispatcher!DispatchNext]_Dispatcher!dispatchVars
<1> DEFINE Waiting == {i.port : i \in queue}
<1>1. Waiting' = Waiting \ {p}
  BY DEF WithoutPort
<1>2. CASE p \in Waiting
  <2>1. Dispatcher!Withdraw({p})
    BY <1>1, <1>2 DEF Dispatcher!Withdraw
  <2> QED
    BY <2>1 DEF Dispatcher!DispatchNext
<1>3. CASE p \notin Waiting
  <2>1. Waiting' = Waiting
    BY <1>1, <1>3
  <2> QED
    BY <2>1 DEF Dispatcher!dispatchVars
<1> QED
  BY <1>2, <1>3

LEMMA StutterRefines ==
  ASSUME UNCHANGED <<slots, held, queue>>
  PROVE  [Dispatcher!DispatchNext]_Dispatcher!dispatchVars
BY DEF Dispatcher!dispatchVars

LEMMA LoopRefines ==
  ASSUME TypeInv, TypeInv', QueueInv, LoopStep
  PROVE  [Dispatcher!DispatchNext]_Dispatcher!dispatchVars
<1> USE DEF TypeInv
<1> DEFINE Waiting == {i.port : i \in queue}
<1>1. HeldForDispatch /\ HeldForDispatch' /\ slots \in Nat
  BY DEF SlotInv, TypeOK
<1>2. /\ Cardinality(held) = (IF loop = "dispatch" THEN 1 ELSE 0)
      /\ Cardinality(held') = (IF loop' = "dispatch" THEN 1 ELSE 0)
  <2>1. /\ held = {} => Cardinality(held) = 0
        /\ held' = {} => Cardinality(held') = 0
    BY FS_EmptySet
  <2>2. /\ \A i : held = {i} => Cardinality(held) = 1
        /\ \A i : held' = {i} => Cardinality(held') = 1
    BY FS_Singleton
  <2> QED
    BY <1>1, <2>1, <2>2 DEF HeldForDispatch
<1>3. CASE LoopWakes
  BY <1>3, StutterRefines DEF LoopWakes
<1>4. CASE Dequeue /\ AvailableSlots > 0 /\ queue # {}
  <2>1. PICK i \in queue : held' = {i} /\ queue' = queue \ {i} /\ loop' = "dispatch"
    BY <1>4 DEF Dequeue
  <2>2. i.port \in Ports /\ i.port \in Waiting
    BY DEF TypeOK, Items
  <2>3. Waiting' = Waiting \ {i.port}
    BY <2>1 DEF QueueInv, OneQueuedPerPort
  <2>4. loop = "drain" /\ slots' = slots /\ slots < MaxConcurrent
    BY <1>1, <1>4, ConstantTypes DEF Dequeue, AvailableSlots
  <2>5. /\ slots + Cardinality(held) < MaxConcurrent
        /\ slots' + Cardinality(held') = slots + Cardinality(held) + 1
    BY <1>1, <1>2, <2>1, <2>4
  <2>6. Dispatcher!Launch(i.port)
    BY <2>2, <2>3, <2>5 DEF Dispatcher!Launch
  <2> QED
    BY <2>2, <2>6 DEF Dispatcher!DispatchNext
<1>5. CASE Dequeue /\ ~(AvailableSlots > 0 /\ queue # {})
  BY <1>5, StutterRefines DEF Dequeue
<1>6. CASE Dispatch
  <2>1. slots < MaxConcurrent
    BY <1>1, <1>6 DEF Dispatch, HeldForDispatch
  <2>2. queue' = queue /\ slots' = slots + 1 /\ loop = "dispatch" /\ loop' = "drain"
    BY <1>6, <2>1 DEF Dispatch
  <2>3. slots' + Cardinality(held') = slots + Cardinality(held)
    BY <1>1, <1>2, <2>2
  <2> QED
    BY <2>2, <2>3 DEF Dispatcher!dispatchVars
<1> QED
  BY <1>3, <1>4, <1>5, <1>6 DEF LoopStep

LEMMA NextRefines ==
  TypeInv /\ TypeInv' /\ QueueInv /\ [Next]_vars
    => [Dispatcher!DispatchNext]_Dispatcher!dispatchVars
<1> SUFFICES ASSUME TypeInv, TypeInv', QueueInv, [Next]_vars
             PROVE  [Dispatcher!DispatchNext]_Dispatcher!dispatchVars
  OBVIOUS
<1> USE DEF TypeInv
<1>1. ASSUME NEW c \in Callers, CallArrives(c) \/ CallProceeds(c)
      PROVE  [Dispatcher!DispatchNext]_Dispatcher!dispatchVars
  <2>1. CASE Enqueue(c)
    <3>1. calls[c].port \in Ports
      BY <2>1 DEF Enqueue, Names, CallsNamePorts
    <3> QED
      BY <2>1, <3>1, EnqueueRefines DEF Enqueue
  <2>2. CASE Cancel(c)
    <3>1. calls[c].port \in Ports
      BY <2>2 DEF Cancel, Names, CallsNamePorts
    <3> QED
      BY <2>2, <3>1, WithdrawRefines DEF Cancel
  <2>3. CASE ~Enqueue(c) /\ ~Cancel(c)
    BY <1>1, <2>3, StutterRefines
    DEF CallArrives, CallProceeds, HandleTrigger, EnqueueWorkflow, AutoRunGate, Evaluate,
        CancelSetIdle, Standby
  <2> QED
    BY <2>1, <2>2, <2>3
<1>2. CASE LoopStep
  BY <1>2, LoopRefines
<1>3. ASSUME NEW t \in Threads, JobStep(t)
      PROVE  [Dispatcher!DispatchNext]_Dispatcher!dispatchVars
  <2>1. CASE ReleaseSlot(t)
    <3>1. t \in Busy /\ slots = Cardinality(Busy) /\ slots \in Nat
      BY <2>1 DEF ReleaseSlot, Busy, SlotInv, SlotsAreThreads, TypeOK
    <3>2. slots > 0
      BY <3>1, BusyIsFinite, FS_EmptySet
    <3>3. Cardinality(held) \in Nat
      BY HeldCount DEF SlotInv
    <3>4. /\ slots' = slots - 1 /\ slots + Cardinality(held) > 0
          /\ queue' = queue /\ held' = held
      BY <2>1, <3>1, <3>2, <3>3 DEF ReleaseSlot
    <3>5. /\ slots + Cardinality(held) > 0
          /\ (slots + Cardinality(held))' = (slots + Cardinality(held)) - 1
          /\ UNCHANGED {i.port : i \in queue}
      BY <3>1, <3>3, <3>4
    <3>6. Dispatcher!Finish
      BY <3>5, Zenon DEF Dispatcher!Finish
    <3> QED
      BY <3>6 DEF Dispatcher!DispatchNext
  <2>2. CASE ~ReleaseSlot(t)
    BY <1>3, <2>2, NeverRetries, StutterRefines
    DEF JobStep, JobStarts, StepSucceeds, NextStep, JobCompletes, StepFails, JobRaises
  <2> QED
    BY <2>1, <2>2
<1>4. CASE OnPortExcluded
  BY <1>4, WithdrawRefines DEF OnPortExcluded, Names, UiNamesPort
<1>5. CASE StopClears
  <2>1. Dispatcher!Withdraw({i.port : i \in queue})
    BY <1>5 DEF StopClears, Dispatcher!Withdraw
  <2> QED
    BY <2>1 DEF Dispatcher!DispatchNext
<1>6. CASE UiCommand
  BY <1>6, StutterRefines DEF UiCommand, ExcludePort, IncludePort, ToggleAutoRun, Stop
<1>7. ASSUME NEW p \in Ports, NEW kind \in DedupKinds, WindowCloses(p, kind)
      PROVE  [Dispatcher!DispatchNext]_Dispatcher!dispatchVars
  BY <1>7, StutterRefines DEF WindowCloses
<1>8. CASE UNCHANGED vars
  BY <1>8, StutterRefines DEF vars
<1> QED
  BY <1>1, <1>2, <1>3, <1>4, <1>5, <1>6, <1>7, <1>8 DEF Next, UiProceeds

(* The engine implements the dispatcher it promises to be.                 *)
THEOREM Refinement == Spec => ImplementsDispatch
BY InitRefines, NextRefines, TypeInvariant, QueueInvariant, PTL
DEF Spec, ImplementsDispatch, Dispatcher!DispatchSpec

-----------------------------------------------------------------------------
(* Participation.                                                          *)

LEMMA ExclusionNext ==
  TypeInv /\ [Next]_vars =>
    \A p \in Ports : AtRest(p) /\ portState'[p] = "EXCLUDED" => AtRest(p)'
<1> SUFFICES ASSUME TypeInv, [Next]_vars, NEW p \in Ports, AtRest(p),
                    portState'[p] = "EXCLUDED"
             PROVE  AtRest(p)'
  OBVIOUS
<1> USE DEF TypeInv
<1>1. /\ \A c \in Callers : calls[c].port # p
      /\ \A i \in queue \cup held : i.port # p
      /\ \A t \in Threads : jobs[t].pc # "free" => jobs[t].port # p
      /\ NoPort # p
  BY ConstantsAssumption DEF AtRest, Live
<1>2. ASSUME \A c \in Callers : calls'[c].port # p,
             \A i \in queue' \cup held' : i.port # p,
             \A t \in Threads : jobs'[t].pc # "free" => jobs'[t].port # p
      PROVE  AtRest(p)'
  BY <1>2 DEF AtRest, Live
<1>3. ASSUME NEW q, NEW r, NEW cs, q # p, EnqueueItem(q, r, cs)
      PROVE  \A i \in queue' : i.port # p
  BY <1>1, <1>3 DEF EnqueueItem
<1>4. ASSUME NEW c \in Callers, CallArrives(c) \/ CallProceeds(c)
      PROVE  AtRest(p)'
  <2>1. UNCHANGED <<held, jobs>>
    BY <1>4 DEF CallArrives, CallProceeds, HandleTrigger, EnqueueWorkflow, AutoRunGate,
                Evaluate, Cancel, CancelSetIdle, Standby, Enqueue
  <2>2. \A d \in Callers : calls'[d].port # p
    <3>1. CASE CallArrives(c)
      <4>1. PICK q \in Ports :
              \/ \E kind \in TriggerKinds : HandleTrigger(c, q, kind)
              \/ \E r \in ManualPriorities : EnqueueWorkflow(c, q, r)
        BY <3>1 DEF CallArrives
      <4>2. CASE portState[q] = "EXCLUDED"
        BY <1>1, <4>1, <4>2 DEF HandleTrigger, EnqueueWorkflow
      <4>3. CASE portState[q] # "EXCLUDED"
        <5>1. q # p
          BY <4>3 DEF AtRest
        <5>2. calls'[c].port = q /\ \A d \in Callers : d # c => calls'[d] = calls[d]
          <6>1. ASSUME NEW kind \in TriggerKinds, HandleTrigger(c, q, kind)
                PROVE  calls'[c].port = q /\ \A d \in Callers : d # c => calls'[d] = calls[d]
            BY <4>3, <6>1 DEF HandleTrigger, TypeOK
          <6>2. ASSUME NEW r \in ManualPriorities, EnqueueWorkflow(c, q, r)
                PROVE  calls'[c].port = q /\ \A d \in Callers : d # c => calls'[d] = calls[d]
            BY <6>2 DEF EnqueueWorkflow, TypeOK
          <6> QED
            BY <4>1, <6>1, <6>2
        <5> QED
          BY <1>1, <5>1, <5>2
      <4> QED
        BY <4>2, <4>3
    <3>2. CASE CallProceeds(c)
      <4>1. calls'[c].port \in {calls[c].port, NoPort}
        <5>1. calls[c] \in CallType /\ NoCall.port = NoPort
          BY DEF TypeOK, NoCall
        <5>2. \/ calls' = [calls EXCEPT ![c] = NoCall]
              \/ \E pc : calls' = [calls EXCEPT ![c] = [calls[c] EXCEPT !.pc = pc]]
          BY <3>2 DEF CallProceeds, AutoRunGate, Evaluate, Cancel, CancelSetIdle, Standby,
                      Enqueue
        <5> QED
          BY <5>1, <5>2 DEF TypeOK, CallType
      <4>2. \A d \in Callers : d # c => calls'[d] = calls[d]
        <5>1. AutoRunGate(c) => \A d \in Callers : d # c => calls'[d] = calls[d]
          BY DEF AutoRunGate, TypeOK
        <5>2. Evaluate(c) => \A d \in Callers : d # c => calls'[d] = calls[d]
          BY DEF Evaluate, TypeOK
        <5> QED
          BY <3>2, <5>1, <5>2 DEF CallProceeds, Cancel, CancelSetIdle, Standby, Enqueue, TypeOK
      <4> QED
        BY <1>1, <4>1, <4>2
    <3> QED
      BY <1>4, <3>1, <3>2
  <2>3. \A i \in queue' : i.port # p
    <3>1. CASE Enqueue(c)
      BY <1>1, <1>3, <3>1 DEF Enqueue
    <3>2. CASE ~Enqueue(c)
      BY <1>1, <1>4, <3>2 DEF CallArrives, CallProceeds, HandleTrigger, EnqueueWorkflow,
                              AutoRunGate, Evaluate, Cancel, CancelSetIdle, Standby,
                              WithoutPort
    <3> QED
      BY <3>1, <3>2
  <2> QED
    BY <1>1, <1>2, <2>1, <2>2, <2>3
<1>5. CASE LoopStep
  <2>1. calls' = calls /\ \A i \in queue' \cup held' : i.port # p
    BY <1>1, <1>5 DEF LoopStep, LoopWakes, Dequeue, Dispatch
  <2>2. \A t \in Threads : jobs'[t].pc # "free" => jobs'[t].port # p
    BY <1>1, <1>5 DEF LoopStep, LoopWakes, Dequeue, Dispatch, TypeOK
  <2> QED
    BY <1>1, <1>2, <2>1, <2>2
<1>6. ASSUME NEW t \in Threads, JobStep(t) PROVE AtRest(p)'
  <2>1. calls' = calls /\ queue' = queue /\ held' = held
    BY <1>6, NeverRetries DEF JobStep, JobStarts, StepSucceeds, NextStep, JobCompletes,
                              StepFails, JobRaises, ReleaseSlot
  <2>2. jobs[t].pc # "free" /\ jobs[t].port # p
    BY <1>1, <1>6 DEF JobStep, JobStarts, StepSucceeds, NextStep, JobCompletes,
                      StepFails, JobRaises, ReleaseSlot
  <2>3. \A u \in Threads : jobs'[u].pc # "free" => jobs'[u].port # p
    BY <1>1, <1>6, <2>2 DEF JobStep, JobStarts, StepSucceeds, NextStep, JobCompletes,
                            StepFails, JobRaises, ReleaseSlot, SetJob, TypeOK, JobType, NoJob
  <2> QED
    BY <1>1, <1>2, <2>1, <2>3
<1>7. CASE UiCommand \/ UiProceeds
  <2>1. calls' = calls /\ queue' \subseteq queue /\ held' = held /\ jobs' = jobs
    BY <1>7 DEF UiCommand, UiProceeds, ExcludePort, IncludePort, ToggleAutoRun, Stop,
                OnPortExcluded, StopClears, WithoutPort
  <2> QED
    BY <1>1, <1>2, <2>1
<1>8. ASSUME NEW q \in Ports, NEW kind \in DedupKinds, WindowCloses(q, kind)
      PROVE  AtRest(p)'
  BY <1>1, <1>2, <1>8 DEF WindowCloses
<1>9. CASE UNCHANGED vars
  BY <1>1, <1>2, <1>9 DEF vars
<1> QED
  BY <1>4, <1>5, <1>6, <1>7, <1>8, <1>9 DEF Next

(* Nothing starts for an excluded port once what was in flight has ended.  *)
THEOREM ExclusionHolds == Spec => ExcludedStaysAtRest
BY ExclusionNext, TypeInvariant, PTL DEF Spec, ExcludedStaysAtRest
=============================================================================
