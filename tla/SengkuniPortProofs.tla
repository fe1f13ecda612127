-------------------------- MODULE SengkuniPortProofs --------------------------
(***************************************************************************)
(* Proofs about a port of SENGKUNI: for any number of lives, commands,     *)
(* skills, faults and thresholds (of READY, at least two).                 *)
(***************************************************************************)
EXTENDS SengkuniPort, TLAPS

ThreadRecord == [pc : Places, client : 0 .. MaxLives, left : 0 .. MaxSteps]

PollerRecord == [pc : Polling, running : BOOLEAN, state : CpinState,
                 ready : 0 .. ReadyThreshold,
                 checking : 0 .. CheckingThreshold,
                 removal : 0 .. RemovalThreshold, heard : BOOLEAN]

(* The parts of the type invariant.                                        *)
OutsideType ==
  sim \in Sims /\ notice \in SUBSET Sims /\ faults \in 0 .. MaxFaults
PortType == life \in 0 .. MaxLives /\ client \in 0 .. life /\ open \in 0 .. life
FlagType == running \in BOOLEAN /\ pending \in BOOLEAN /\ fence \in BOOLEAN
UiType == ui \in [pc : UiSteps, again : BOOLEAN] /\ clicks \in 0 .. MaxClicks
ThreadType == thread \in [Threads -> ThreadRecord]
PollerType == cpin \in CpinState /\ poller \in [Lives -> PollerRecord]

(* A workflow has a skill left as long as it is in one.                    *)
Working == {"step", "busy", "cancelling", "asleep", "again", "dial", "dialling"}
WorkIsLeft ==
  \A t \in Threads : thread[t].pc \in Working => thread[t].left > 0

(* What no start has reached yet is untouched; a thread is started in the  *)
(* life that has just opened the port, and not before.                     *)
Untouched ==
  /\ ui.pc = "start_thread" => client = life /\ life > 0
  /\ \A l \in Lives :
       (l > life \/ (l = life /\ ui.pc = "start_thread"))
         => thread[l].pc = "off"

(* A monitor that counts READYs has heard one last.                        *)
CountedIsHeard ==
  \A l \in Lives : poller[l].ready > 0 => poller[l].heard = TRUE

LEMMA Names ==
  /\ Lives \subseteq Threads /\ Tasks \subseteq Threads
  /\ Lives \subseteq Nat /\ 0 \notin Threads
  /\ MaxLives \in Nat /\ MaxLives > 0 /\ MaxSteps \in Nat /\ MaxSteps > 0
  /\ MaxClicks \in Nat /\ MaxFaults \in Nat
  /\ ReadyThreshold \in Nat /\ ReadyThreshold > 1
  /\ CheckingThreshold \in Nat /\ CheckingThreshold > 0
  /\ RemovalThreshold \in Nat /\ RemovalThreshold > 0
<1>1. Lives \subseteq Nat /\ 0 \notin Lives
  BY SengkuniAssumption DEF Lives
<1>2. Tasks \cap Nat = {} /\ 0 \in Nat
  BY SengkuniAssumption
<1>3. 0 \notin Threads
  BY <1>1, <1>2 DEF Threads
<1>4. QED
  BY <1>1, <1>3, SengkuniAssumption DEF Threads

LEMMA PlaceNames ==
  /\ {"off", "loop", "ended"} \cup Working = Places
  /\ Working \cap {"off", "loop", "ended"} = {}
BY DEF Places, Working

-----------------------------------------------------------------------------
(* The threads of workflows.                                               *)

(* Only the thread t moves, to the place pc, and stays in its types.       *)
MovesTo(t, pc) ==
  /\ thread' \in [Threads -> ThreadRecord]
  /\ \A o \in Threads \ {t} : thread'[o] = thread[o]
  /\ thread'[t].pc = pc
  /\ pc \in Working => thread'[t].left > 0

LEMMA Replaced ==
  ASSUME ThreadType, NEW t \in Threads, NEW r \in ThreadRecord,
         r.pc \in Working => r.left > 0, thread' = [thread EXCEPT ![t] = r]
  PROVE  MovesTo(t, r.pc)
BY DEF ThreadType, MovesTo

LEMMA Goings ==
  ASSUME ThreadType, NEW t \in Threads, NEW pc \in Places, Goes(t, pc),
         pc \in Working => thread[t].left > 0
  PROVE  MovesTo(t, pc)
<1> DEFINE r == [thread[t] EXCEPT !.pc = pc]
<1>1. /\ r \in ThreadRecord /\ r.pc = pc /\ r.left = thread[t].left
  BY DEF ThreadType, ThreadRecord
<1>2. thread' = [thread EXCEPT ![t] = r]
  BY DEF Goes
<1> HIDE DEF r
<1>3. QED
  BY <1>1, <1>2, Replaced

LEMMA Finishing ==
  ASSUME ThreadType, NEW t \in Threads, Finish(t)
  PROVE  MovesTo(t, "off") \/ MovesTo(t, "loop")
<1> DEFINE r == [NoThread EXCEPT !.pc = IF t \in Tasks THEN "off" ELSE "loop"]
<1>1. /\ r \in ThreadRecord /\ r.pc \in {"off", "loop"}
  BY Names, PlaceNames DEF NoThread, ThreadRecord
<1>2. thread' = [thread EXCEPT ![t] = r]
  BY DEF Finish
<1> HIDE DEF r
<1>3. MovesTo(t, r.pc)
  BY <1>1, <1>2, PlaceNames, Replaced
<1>4. QED
  BY <1>1, <1>3

LEMMA GoingOn ==
  ASSUME ThreadType, NEW t \in Threads, thread[t].left > 0, GoOn(t)
  PROVE  MovesTo(t, "off") \/ MovesTo(t, "loop") \/ MovesTo(t, "step")
<1>1. CASE thread[t].left = 1
  BY <1>1, Finishing DEF GoOn
<1>2. CASE thread[t].left # 1
  <2> DEFINE r == [pc |-> "step", client |-> 0, left |-> thread[t].left - 1]
  <2>1. /\ r \in ThreadRecord /\ r.pc = "step" /\ r.left > 0
    <3>1. thread[t].left \in 0 .. MaxSteps
      BY DEF ThreadType, ThreadRecord
    <3>2. thread[t].left - 1 \in 0 .. MaxSteps /\ thread[t].left - 1 > 0
      BY <1>2, <3>1, Names
    <3>3. 0 \in 0 .. MaxLives /\ "step" \in Places
      BY Names, PlaceNames DEF Working
    <3>4. QED
      BY <3>2, <3>3 DEF ThreadRecord
  <2>2. thread' = [thread EXCEPT ![t] = r]
    BY <1>2 DEF GoOn
  <2> HIDE DEF r
  <2>3. QED
    BY <2>1, <2>2, Replaced
<1>3. QED
  BY <1>1, <1>2

LEMMA WorkflowMoves ==
  ASSUME ThreadType, PortType, WorkIsLeft, NEW t \in Threads, Workflow(t)
  PROVE  /\ thread[t].pc \in Working
         /\ \E pc \in Places \ {"ended"} : MovesTo(t, pc)
<1>1. thread[t].pc \in Working
  BY DEF Workflow, Aborts, LookUp, Dial, AcquireAgain, Send, Cancelled, Wake,
         DialAnswered, DialFails, At, Working
<1>2. thread[t].left > 0
  BY <1>1 DEF WorkIsLeft
<1>3. Places \ {"ended"} = {"off", "loop"} \cup Working
  BY PlaceNames DEF Working
<1>4. CASE Finish(t) \/ GoOn(t)
  <2>1. PICK pc \in {"off", "loop", "step"} : MovesTo(t, pc)
    BY <1>2, <1>4, Finishing, GoingOn
  <2>2. QED
    BY <1>1, <1>3, <2>1 DEF Working
<1>5. CASE Dial(t)
  <2>1. PICK pc \in {"dial", "busy"} :
          thread' = [thread EXCEPT ![t].client = client, ![t].pc = pc]
    BY <1>5 DEF Dial
  <2>2. pc \in Working /\ pc \in Places
    BY <2>1, PlaceNames DEF Working
  <2> DEFINE r == [thread[t] EXCEPT !.client = client, !.pc = pc]
  <2>3. /\ r \in ThreadRecord /\ r.pc = pc /\ r.left = thread[t].left
    <3>1. client \in 0 .. MaxLives
      BY Names DEF PortType
    <3>2. QED
      BY <2>2, <3>1 DEF ThreadType, ThreadRecord
  <2>4. thread' = [thread EXCEPT ![t] = r]
    BY <2>1
  <2> HIDE DEF r
  <2>5. MovesTo(t, pc)
    BY <1>2, <2>3, <2>4, Replaced
  <2>6. QED
    BY <1>1, <1>3, <2>2, <2>5
<1>6. ASSUME NEW pc \in Working, Goes(t, pc)
      PROVE  \E to \in Places \ {"ended"} : MovesTo(t, to)
  <2>1. pc \in Places \ {"ended"}
    BY <1>3
  <2>2. MovesTo(t, pc)
    BY <1>2, <1>6, <2>1, Goings
  <2>3. QED
    BY <2>1, <2>2
<1>7. \/ Dial(t) \/ Finish(t) \/ GoOn(t)
      \/ \E pc \in {"cancelling", "dialling", "asleep", "again", "dial"} :
           Goes(t, pc)
  BY Zenon DEF Workflow, Aborts, LookUp, AcquireAgain, Send, Cancelled, Wake,
               DialAnswered, DialFails
<1>8. {"cancelling", "dialling", "asleep", "again", "dial"} \subseteq Working
  BY DEF Working
<1>9. QED
  BY <1>1, <1>4, <1>5, <1>6, <1>7, <1>8

-----------------------------------------------------------------------------
(* The other steps of threads: one that begins or ends.                    *)

LEMMA LoopMoves ==
  ASSUME ThreadType, NEW l \in Lives, Loop(l)
  PROVE  /\ thread[l].pc = "loop"
         /\ \E pc \in {"ended", "step"} : MovesTo(l, pc)
<1>1. l \in Threads
  BY Names
<1>2. thread[l].pc = "loop"
  BY DEF Loop, LoopEnds, TakePending, At
<1>3. CASE LoopEnds(l)
  <2>1. Goes(l, "ended") /\ "ended" \in Places /\ "ended" \notin Working
    BY <1>3, PlaceNames DEF LoopEnds
  <2>2. MovesTo(l, "ended")
    BY <1>1, <2>1, Goings
  <2>3. QED
    BY <1>2, <2>2
<1>4. CASE TakePending(l)
  <2> DEFINE r == [pc |-> "step", client |-> 0, left |-> MaxSteps]
  <2>1. r \in ThreadRecord /\ r.pc = "step" /\ r.left > 0
    BY Names, PlaceNames DEF ThreadRecord, Working
  <2>2. thread' = [thread EXCEPT ![l] = r]
    BY <1>4 DEF TakePending
  <2> HIDE DEF r
  <2>3. MovesTo(l, "step")
    BY <1>1, <2>1, <2>2, Replaced
  <2>4. QED
    BY <1>2, <2>3
<1>5. QED
  BY <1>3, <1>4 DEF Loop

LEMMA SkillMoves ==
  ASSUME ThreadType, NEW k \in Tasks, RunSkills(k)
  PROVE  thread[k].pc = "off" /\ MovesTo(k, "step")
<1>1. k \in Threads
  BY Names
<1>2. thread[k].pc = "off"
  BY DEF RunSkills, At
<1> DEFINE r == [pc |-> "step", client |-> 0, left |-> 1]
<1>3. r \in ThreadRecord /\ r.pc = "step" /\ r.left > 0
  BY Names, PlaceNames DEF ThreadRecord, Working
<1>4. thread' = [thread EXCEPT ![k] = r]
  BY DEF RunSkills
<1> HIDE DEF r
<1>5. MovesTo(k, "step")
  BY <1>1, <1>3, <1>4, Replaced
<1>6. QED
  BY <1>2, <1>5

LEMMA StartMoves ==
  ASSUME ThreadType, PortType, Untouched, StartThread
  PROVE  /\ client = life /\ life \in Lives /\ thread[life].pc = "off"
         /\ MovesTo(life, "loop")
<1>1. client = life /\ life \in Lives
  BY Names DEF StartThread, Untouched, PortType, Lives
<1>2. thread[life].pc = "off"
  BY <1>1 DEF StartThread, Untouched
<1>3. /\ life \in Threads /\ Goes(life, "loop")
      /\ "loop" \in Places /\ "loop" \notin Working
  BY <1>1, Names, PlaceNames DEF StartThread
<1>4. MovesTo(life, "loop")
  BY <1>3, Goings
<1>5. QED
  BY <1>1, <1>2, <1>4

-----------------------------------------------------------------------------
(* The threads.                                                            *)
ThreadsInv == ThreadType /\ WorkIsLeft /\ Untouched

LEMMA MoveKeepsWork ==
  ASSUME ThreadsInv, NEW t \in Threads, NEW pc, MovesTo(t, pc)
  PROVE  ThreadType' /\ WorkIsLeft'
BY DEF MovesTo, ThreadType, WorkIsLeft, ThreadsInv

LEMMA MoveKeepsUntouched ==
  ASSUME Untouched, NEW t \in Threads, NEW pc, MovesTo(t, pc),
         t \in Lives => thread[t].pc # "off", UNCHANGED <<port, ui>>
  PROVE  Untouched'
<1>1. /\ life' = life /\ client' = client /\ ui' = ui
  BY DEF port
<1>2. \A l \in Lives : thread[l].pc = "off" => thread'[l].pc = "off"
  BY Names DEF MovesTo
<1>3. QED
  BY <1>1, <1>2 DEF Untouched

LEMMA StillKeepsThreads ==
  ASSUME ThreadsInv, UNCHANGED <<thread, life>>,
         UNCHANGED <<client, ui>> \/ ui'.pc # "start_thread"
  PROVE  ThreadsInv'
BY DEF ThreadsInv, ThreadType, WorkIsLeft, Untouched

LEMMA OpenKeepsThreads ==
  ASSUME ThreadsInv, PortType, Open
  PROVE  ThreadsInv'
<1>1. /\ life' = life + 1 /\ client' = life + 1
      /\ thread' = thread /\ life \in Nat
  BY Names DEF Open, PortType
<1>2. Untouched'
  <2>1. life' > 0 /\ client' = life'
    BY <1>1
  <2>2. ASSUME NEW l \in Lives, l > life' \/ l = life'
        PROVE  thread'[l].pc = "off"
    <3>1. l > life
      BY <1>1, <2>2, Names
    <3>2. QED
      BY <1>1, <3>1 DEF ThreadsInv, Untouched
  <2>3. QED
    BY <2>1, <2>2 DEF Untouched
<1>3. QED
  BY <1>1, <1>2 DEF ThreadsInv, ThreadType, WorkIsLeft

LEMMA StartKeepsThreads ==
  ASSUME ThreadsInv, PortType, StartThread
  PROVE  ThreadsInv'
<1>1. /\ life \in Lives /\ MovesTo(life, "loop")
  BY StartMoves DEF ThreadsInv
<1>2. life \in Threads
  BY <1>1, Names
<1>3. ThreadType' /\ WorkIsLeft'
  BY <1>1, <1>2, MoveKeepsWork
<1>4. /\ life' = life /\ ui'.pc = "idle"
  BY DEF StartThread, Quiet
<1>5. ASSUME NEW l \in Lives, l > life PROVE thread'[l].pc = "off"
  <2>1. l # life /\ l \in Threads /\ thread[l].pc = "off"
    BY <1>1, <1>5, Names DEF ThreadsInv, Untouched
  <2>2. QED
    BY <1>1, <2>1 DEF MovesTo
<1>6. Untouched'
  BY <1>4, <1>5 DEF Untouched
<1>7. QED
  BY <1>3, <1>6 DEF ThreadsInv

LEMMA ThreadsKept ==
  ASSUME ThreadsInv, PortType, UiType, [Next]_vars
  PROVE  ThreadsInv'
<1>1. ASSUME NEW t \in Threads, Workflow(t) PROVE ThreadsInv'
  <2>1. /\ thread[t].pc \in Working
        /\ \E pc \in Places \ {"ended"} : MovesTo(t, pc)
    BY <1>1, WorkflowMoves DEF ThreadsInv
  <2>2. UNCHANGED <<port, ui>>
    BY <1>1 DEF Workflow, Aborts, LookUp, Dial, AcquireAgain, Send, Cancelled, Wake,
                DialAnswered, DialFails
  <2>3. thread[t].pc # "off"
    BY <2>1 DEF Working
  <2>4. QED
    BY <2>1, <2>2, <2>3, MoveKeepsWork, MoveKeepsUntouched DEF ThreadsInv
<1>2. ASSUME NEW l \in Lives, Loop(l) PROVE ThreadsInv'
  <2>1. /\ thread[l].pc = "loop" /\ l \in Threads
        /\ \E pc \in {"ended", "step"} : MovesTo(l, pc)
    BY <1>2, Names, LoopMoves DEF ThreadsInv
  <2>2. UNCHANGED <<port, ui>>
    BY <1>2 DEF Loop, LoopEnds, TakePending
  <2>3. QED
    BY <2>1, <2>2, MoveKeepsWork, MoveKeepsUntouched DEF ThreadsInv
<1>3. ASSUME NEW l \in Lives, Poll(l) PROVE ThreadsInv'
  <2>1. UNCHANGED <<thread, port, ui>>
    BY <1>3 DEF Poll, PollEnds, PollBegins, PollSends, PollAnswered,
                PollTimesOut, Hear
  <2>2. QED
    BY <2>1, StillKeepsThreads DEF port
<1>4. CASE JoinThread \/ JoinPoller \/ Close \/ OpenFails
  <2>1. UNCHANGED <<thread, life>> /\ ui'.pc # "start_thread"
    BY <1>4 DEF JoinThread, JoinPoller, Close, OpenFails, port, Quiet,
                UiType
  <2>2. QED
    BY <2>1, StillKeepsThreads
<1>5. CASE PortOn \/ PortOff \/ RestartAll \/ ForceRetry
  <2>1. /\ UNCHANGED <<thread, life>>
        /\ UNCHANGED <<client, ui>> \/ ui'.pc # "start_thread"
    BY <1>5 DEF PortOn, PortOff, RestartAll, ForceRetry, StopPort, port
  <2>2. QED
    BY <2>1, StillKeepsThreads
<1>6. ASSUME NEW k \in Tasks, PortCommand(k) \/ MassAction(k)
      PROVE  ThreadsInv'
  <2>1. RunSkills(k) /\ UNCHANGED <<port, ui>>
    BY <1>6 DEF PortCommand, MassAction, RunSkills
  <2>2. /\ MovesTo(k, "step")
        /\ k \in Threads /\ k \notin Lives
    BY <2>1, Names, SkillMoves, SengkuniAssumption DEF ThreadsInv
  <2>3. QED
    BY <2>1, <2>2, MoveKeepsWork, MoveKeepsUntouched DEF ThreadsInv
<1>7. CASE SwapSim \/ UNCHANGED vars
  <2>1. UNCHANGED <<thread, port, ui>>
    BY <1>7 DEF SwapSim, vars
  <2>2. QED
    BY <2>1, StillKeepsThreads DEF port
<1>8. QED
  BY <1>1, <1>2, <1>3, <1>4, <1>5, <1>6, <1>7, OpenKeepsThreads,
     StartKeepsThreads DEF Next, Window, User

-----------------------------------------------------------------------------
(* The SIM monitor.                                                        *)

LEMMA CountFacts ==
  ASSUME NEW threshold \in Nat, threshold > 0, NEW n \in 0 .. threshold
  PROVE  /\ Count(n, threshold) \in 0 .. threshold
         /\ threshold > 1 /\ Count(n, threshold) >= threshold => n > 0
BY DEF Count

(* What _apply_stabilization keeps: its types, that READYs are counted in  *)
(* a row, and that READY takes a second one.                               *)
LEMMA StabilisedFacts ==
  ASSUME NEW p \in PollerRecord, NEW new \in CpinState
  PROVE  /\ Stabilised(p, new) \in PollerRecord
         /\ Stabilised(p, new).ready > 0 => new = "READY"
         /\ (Stabilised(p, new).state = "READY" /\ p.state # "READY")
              => new = "READY" /\ p.ready > 0
<1>1. /\ p.ready \in 0 .. ReadyThreshold /\ p.state \in CpinState
      /\ p.checking \in 0 .. CheckingThreshold
      /\ p.removal \in 0 .. RemovalThreshold
  BY DEF PollerRecord
<1>2. 0 \in 0 .. ReadyThreshold /\ 0 \in 0 .. CheckingThreshold
        /\ 0 \in 0 .. RemovalThreshold
  BY Names
<1>3. {"UNKNOWN", "READY", "NOT_INSERTED"} \subseteq CpinState
  BY DEF CpinState
<1>4. CASE new = "READY"
  <2> DEFINE n == Count(p.ready, ReadyThreshold)
  <2>1. /\ n \in 0 .. ReadyThreshold
        /\ n >= ReadyThreshold => p.ready > 0
    BY <1>1, Names, CountFacts
  <2>2. Stabilised(p, new) =
          IF n < ReadyThreshold THEN [p EXCEPT !.ready = n]
          ELSE [p EXCEPT !.ready = n, !.state = "READY", !.checking = 0,
                         !.removal = 0]
    BY <1>4 DEF Stabilised, HeardReady
  <2> HIDE DEF n
  <2>3. CASE n < ReadyThreshold
    <3>1. Stabilised(p, new) = [p EXCEPT !.ready = n]
      BY <2>2, <2>3
    <3>2. /\ Stabilised(p, new) \in PollerRecord
          /\ Stabilised(p, new).state = p.state
      BY <2>1, <3>1 DEF PollerRecord
    <3>3. QED
      BY <1>4, <3>2
  <2>4. CASE ~(n < ReadyThreshold)
    <3>1. Stabilised(p, new) = [p EXCEPT !.ready = n, !.state = "READY",
                                         !.checking = 0, !.removal = 0]
      BY <2>2, <2>4
    <3>2. Stabilised(p, new) \in PollerRecord
      BY <1>2, <1>3, <2>1, <3>1 DEF PollerRecord
    <3>3. p.ready > 0
      BY <2>1, <2>4, Names
    <3>4. QED
      BY <1>4, <3>2, <3>3
  <2>5. QED
    BY <2>3, <2>4
<1>5. CASE p.state = "READY" /\ new = "UNKNOWN"
  <2> DEFINE n == Count(p.checking, CheckingThreshold)
             st == IF n < CheckingThreshold THEN p.state ELSE "UNKNOWN"
  <2>1. n \in 0 .. CheckingThreshold
    BY <1>1, Names, CountFacts
  <2>2. st \in CpinState
    BY <1>1, <1>3
  <2>3. Stabilised(p, new) =
          [p EXCEPT !.ready = 0, !.checking = n, !.state = st]
    BY <1>5 DEF Stabilised, HeardUnknown
  <2> HIDE DEF n, st
  <2>4. Stabilised(p, new) \in PollerRecord /\ Stabilised(p, new).ready = 0
    BY <1>2, <2>1, <2>2, <2>3 DEF PollerRecord
  <2>5. QED
    BY <1>5, <2>4
<1>6. CASE p.state = "READY" /\ new = "NOT_INSERTED"
  <2> DEFINE n == Count(p.removal, RemovalThreshold)
             st == IF n < RemovalThreshold THEN p.state ELSE "NOT_INSERTED"
  <2>1. n \in 0 .. RemovalThreshold
    BY <1>1, Names, CountFacts
  <2>2. st \in CpinState
    BY <1>1, <1>3
  <2>3. Stabilised(p, new) =
          [p EXCEPT !.ready = 0, !.removal = n, !.state = st]
    BY <1>6 DEF Stabilised, HeardRemoval
  <2> HIDE DEF n, st
  <2>4. Stabilised(p, new) \in PollerRecord /\ Stabilised(p, new).ready = 0
    BY <1>2, <2>1, <2>2, <2>3 DEF PollerRecord
  <2>5. QED
    BY <1>6, <2>4
<1>7. CASE p.state = "READY" /\ new = "NOT_READY"
  <2>1. Stabilised(p, new) = [p EXCEPT !.ready = 0]
    BY <1>7 DEF Stabilised
  <2>2. Stabilised(p, new) \in PollerRecord /\ Stabilised(p, new).ready = 0
    BY <1>2, <2>1 DEF PollerRecord
  <2>3. QED
    BY <1>7, <2>2
<1>8. CASE /\ new # "READY"
           /\ ~(p.state = "READY"
                  /\ new \in {"UNKNOWN", "NOT_INSERTED", "NOT_READY"})
  <2>1. Stabilised(p, new) = [p EXCEPT !.ready = 0, !.state = new,
                                       !.checking = 0, !.removal = 0]
    BY <1>8 DEF Stabilised
  <2>2. /\ Stabilised(p, new) \in PollerRecord /\ Stabilised(p, new).ready = 0
        /\ Stabilised(p, new).state = new
    BY <1>2, <2>1 DEF PollerRecord
  <2>3. QED
    BY <1>8, <2>2
<1>9. QED
  BY <1>4, <1>5, <1>6, <1>7, <1>8

LEMMA ParseType == \A raw : ParseCpin(raw) \in CpinState
BY DEF ParseCpin, CpinState

LEMMA HearFacts ==
  ASSUME PollerType, NEW l \in Lives, NEW raw, Hear(l, raw)
  PROVE  /\ PollerType'
         /\ \A o \in Lives \ {l} : poller'[o] = poller[o]
         /\ poller'[l].ready > 0 => poller'[l].heard = TRUE
         /\ (cpin # "READY" /\ cpin' = "READY")
              => poller'[l].heard = TRUE /\ poller[l].ready > 0
<1> DEFINE new == ParseCpin(raw)
           after == Stabilised(poller[l], new)
           heard == new = "READY"
           q == [after EXCEPT !.pc = "sleep", !.heard = heard]
<1>1. new \in CpinState /\ poller[l] \in PollerRecord
  BY ParseType DEF PollerType
<1>2. heard \in BOOLEAN /\ (new = "READY" => heard = TRUE)
  BY Zenon
<1>3. /\ poller' = [poller EXCEPT ![l] = q]
      /\ \/ cpin' = cpin
         \/ after.state # poller[l].state /\ cpin' = after.state
  BY Zenon DEF Hear
<1> HIDE DEF new, heard
<1>4. /\ after \in PollerRecord
      /\ after.ready > 0 => new = "READY"
      /\ (after.state = "READY" /\ poller[l].state # "READY")
           => new = "READY" /\ poller[l].ready > 0
  BY <1>1, StabilisedFacts
<1> HIDE DEF after
<1>5. /\ q \in PollerRecord /\ q.ready = after.ready /\ q.heard = heard
  BY <1>2, <1>4 DEF PollerRecord, Polling
<1> HIDE DEF q
<1>6. /\ poller' \in [Lives -> PollerRecord] /\ poller'[l] = q
      /\ \A o \in Lives \ {l} : poller'[o] = poller[o]
  BY <1>3, <1>5 DEF PollerType
<1>7. cpin' \in CpinState
  BY <1>3, <1>4 DEF PollerType, PollerRecord
<1>8. poller'[l].ready > 0 => poller'[l].heard = TRUE
  BY <1>2, <1>4, <1>5, <1>6
<1>9. (cpin # "READY" /\ cpin' = "READY")
        => poller'[l].heard = TRUE /\ poller[l].ready > 0
  BY <1>2, <1>3, <1>4, <1>5, <1>6
<1>10. QED
  BY <1>6, <1>7, <1>8, <1>9 DEF PollerType

PollersInv == PollerType /\ CountedIsHeard

LEMMA HearKeepsPollers ==
  ASSUME PollersInv, NEW l \in Lives, NEW raw, Hear(l, raw)
  PROVE  PollersInv'
BY HearFacts DEF PollersInv, CountedIsHeard

(* A monitor that is begun, ended, or moved on.                            *)
LEMMA PollerReplaced ==
  ASSUME PollersInv, NEW l, NEW q \in PollerRecord,
         q.ready > 0 => q.heard = TRUE,
         poller' = [poller EXCEPT ![l] = q], cpin' = cpin
  PROVE  PollersInv'
BY DEF PollersInv, PollerType, CountedIsHeard

LEMMA NewPoller == NoPoller \in PollerRecord /\ ~(NoPoller.ready > 0)
<1>1. /\ 0 \in 0 .. ReadyThreshold /\ 0 \in 0 .. CheckingThreshold
      /\ 0 \in 0 .. RemovalThreshold
  BY Names
<1>2. QED
  BY <1>1 DEF NoPoller, PollerRecord, Polling, CpinState

LEMMA PollersKept ==
  ASSUME PollersInv, PortType, [Next]_vars
  PROVE  PollersInv'
<1>1. ASSUME NEW t \in Threads, Workflow(t) PROVE UNCHANGED <<poller, cpin>>
  BY <1>1 DEF Workflow, Aborts, LookUp, Dial, AcquireAgain, Send, Cancelled, Wake,
              DialAnswered, DialFails
<1>2. ASSUME NEW l \in Lives, Loop(l) PROVE UNCHANGED <<poller, cpin>>
  BY <1>2 DEF Loop, LoopEnds, TakePending
<1>3. ASSUME NEW l \in Lives, Poll(l) PROVE PollersInv'
  <2>0. /\ poller[l] \in PollerRecord
        /\ poller[l].ready > 0 => poller[l].heard = TRUE
    BY DEF PollersInv, PollerType, CountedIsHeard
  <2>1. CASE PollEnds(l)
    <3> DEFINE q == [NoPoller EXCEPT !.pc = "ended"]
    <3>1. q \in PollerRecord /\ ~(q.ready > 0)
      BY NewPoller DEF PollerRecord, Polling
    <3>2. poller' = [poller EXCEPT ![l] = q] /\ cpin' = cpin
      BY <2>1 DEF PollEnds
    <3> HIDE DEF q
    <3>3. QED
      BY <3>1, <3>2, PollerReplaced
  <2>2. CASE PollBegins(l) \/ PollSends(l)
    <3>1. PICK pc \in {"waiting", "reading"} :
            poller' = [poller EXCEPT ![l].pc = pc] /\ cpin' = cpin
      BY <2>2 DEF PollBegins, PollSends
    <3> DEFINE q == [poller[l] EXCEPT !.pc = pc]
    <3>2. /\ q \in PollerRecord /\ q.ready = poller[l].ready
          /\ q.heard = poller[l].heard
      BY <2>0 DEF PollerRecord, Polling
    <3>3. poller' = [poller EXCEPT ![l] = q]
      BY <3>1
    <3> HIDE DEF q
    <3>4. QED
      BY <2>0, <3>1, <3>2, <3>3, PollerReplaced
  <2>3. CASE PollAnswered(l) \/ PollTimesOut(l)
    <3>1. \E raw : Hear(l, raw)
      BY <2>3 DEF PollAnswered, PollTimesOut
    <3>2. QED
      BY <3>1, HearKeepsPollers
  <2>4. QED
    BY <1>3, <2>1, <2>2, <2>3 DEF Poll
<1>4. CASE JoinThread
  <2>1. poller' = [poller EXCEPT ![client].running = FALSE] /\ cpin' = cpin
    BY <1>4 DEF JoinThread
  <2>2. client \in Lives
    BY <1>4, Names DEF JoinThread, PortType, Lives
  <2>3. /\ poller[client] \in PollerRecord
        /\ poller[client].ready > 0 => poller[client].heard = TRUE
    BY <2>2 DEF PollersInv, PollerType, CountedIsHeard
  <2> DEFINE q == [poller[client] EXCEPT !.running = FALSE]
  <2>4. /\ q \in PollerRecord /\ q.ready = poller[client].ready
        /\ q.heard = poller[client].heard
    BY <2>3 DEF PollerRecord
  <2>5. poller' = [poller EXCEPT ![client] = q]
    BY <2>1
  <2> HIDE DEF q
  <2>6. QED
    BY <2>1, <2>3, <2>4, <2>5, PollerReplaced
<1>5. CASE Open
  <2> DEFINE q == [NoPoller EXCEPT !.pc = "sleep", !.running = TRUE]
  <2>1. q \in PollerRecord /\ ~(q.ready > 0)
      BY NewPoller DEF PollerRecord, Polling
  <2>2. poller' = [poller EXCEPT ![life + 1] = q] /\ cpin' = cpin
    BY <1>5 DEF Open
  <2> HIDE DEF q
  <2>3. QED
    BY <2>1, <2>2, PollerReplaced
<1>6. CASE \/ JoinPoller \/ Close \/ OpenFails \/ StartThread
           \/ User \/ SwapSim \/ UNCHANGED vars
  <2>1. UNCHANGED <<poller, cpin>>
    BY <1>6 DEF JoinPoller, Close, OpenFails, StartThread, User, PortOn,
                PortOff, RestartAll, ForceRetry, StopPort, PortCommand,
                MassAction, RunSkills, SwapSim, vars
  <2>2. QED
    BY <2>1 DEF PollersInv, PollerType, CountedIsHeard
<1>7. UNCHANGED <<poller, cpin>> => PollersInv'
  BY DEF PollersInv, PollerType, CountedIsHeard
<1>8. QED
  BY <1>1, <1>2, <1>3, <1>4, <1>5, <1>6, <1>7 DEF Next, Window

-----------------------------------------------------------------------------
(* The other fields.                                                       *)

LEMMA OutsideKept == OutsideType /\ [Next]_vars => OutsideType'
<1> SUFFICES ASSUME OutsideType, [Next]_vars PROVE OutsideType'
  OBVIOUS
<1>1. CASE UNCHANGED outside
  BY <1>1 DEF outside, OutsideType
<1>2. ASSUME NEW l \in Lives,
             PollSends(l) \/ PollAnswered(l) \/ PollTimesOut(l)
      PROVE  OutsideType'
  <2>1. sim' = sim /\ notice' = {}
    BY <1>2 DEF PollSends, PollAnswered, PollTimesOut, Hear
  <2>2. faults' \in 0 .. MaxFaults
    <3>1. faults' = faults \/ (faults < MaxFaults /\ faults' = faults + 1)
      BY <1>2 DEF PollSends, PollAnswered, PollTimesOut
    <3>2. QED
      BY <3>1, Names DEF OutsideType
  <2>3. QED
    BY <2>1, <2>2 DEF OutsideType
<1>3. CASE SwapSim
  <2>1. sim' \in Sims /\ (notice' = notice \cup {sim'} \/ notice' = {})
    BY <1>3 DEF SwapSim
  <2>2. faults' \in 0 .. MaxFaults
    BY <1>3, Names DEF SwapSim, OutsideType
  <2>3. QED
    BY <2>1, <2>2 DEF OutsideType
<1>4. ASSUME NEW t \in Threads, Workflow(t) PROVE UNCHANGED outside
  BY <1>4 DEF Workflow, Aborts, LookUp, Dial, AcquireAgain, Send, Cancelled, Wake,
              DialAnswered, DialFails
<1>5. ASSUME NEW l \in Lives, Loop(l) \/ PollEnds(l) \/ PollBegins(l)
      PROVE  UNCHANGED outside
  BY <1>5 DEF Loop, LoopEnds, TakePending, PollEnds, PollBegins
<1>6. CASE Window
  BY <1>1, <1>6 DEF Window, JoinThread, JoinPoller, Close, OpenFails, Open,
                    StartThread
<1>7. CASE User
  BY <1>1, <1>7 DEF User, PortOn, PortOff, RestartAll, ForceRetry, StopPort,
                    PortCommand, MassAction, RunSkills
<1>8. CASE UNCHANGED vars
  BY <1>1, <1>8 DEF vars
<1>9. QED
  BY <1>1, <1>2, <1>3, <1>4, <1>5, <1>6, <1>7, <1>8 DEF Next, Poll

LEMMA PortKept == PortType /\ [Next]_vars => PortType'
<1> SUFFICES ASSUME PortType, [Next]_vars PROVE PortType'
  OBVIOUS
<1>1. CASE UNCHANGED <<life, client, open>>
  BY <1>1 DEF PortType
<1>2. CASE Close
  <2>1. life' = life /\ client' = 0 /\ open' = 0
    BY <1>2 DEF Close
  <2>2. QED
    BY <2>1, Names DEF PortType
<1>3. CASE Open
  <2>1. /\ life < MaxLives /\ life' = life + 1
        /\ open' = life' /\ client' = life'
    BY <1>3 DEF Open
  <2>2. QED
    BY <2>1, Names DEF PortType
<1>4. ASSUME NEW t \in Threads, Workflow(t) PROVE UNCHANGED port
  BY <1>4 DEF Workflow, Aborts, LookUp, Dial, AcquireAgain, Send, Cancelled, Wake,
              DialAnswered, DialFails
<1>5. ASSUME NEW l \in Lives, Loop(l) \/ Poll(l) PROVE UNCHANGED port
  BY <1>5 DEF Loop, LoopEnds, TakePending, Poll, PollEnds, PollBegins,
              PollSends, PollAnswered, PollTimesOut, Hear
<1>6. CASE JoinThread \/ JoinPoller \/ OpenFails \/ StartThread
  BY <1>1, <1>6 DEF JoinThread, JoinPoller, OpenFails, StartThread, port
<1>7. CASE User
  BY <1>1, <1>7 DEF User, PortOn, PortOff, RestartAll, ForceRetry, StopPort,
                    PortCommand, MassAction, RunSkills, port
<1>8. CASE SwapSim \/ UNCHANGED vars
  BY <1>1, <1>8 DEF SwapSim, vars, port
<1>9. QED
  BY <1>1, <1>2, <1>3, <1>4, <1>5, <1>6, <1>7, <1>8 DEF Next, Window, port

LEMMA FlagsKept == FlagType /\ [Next]_vars => FlagType'
<1> SUFFICES ASSUME FlagType, [Next]_vars PROVE FlagType'
  OBVIOUS
<1>1. ASSUME running' = running \/ running' \in BOOLEAN,
             pending' = pending \/ pending' \in BOOLEAN,
             fence' = fence \/ fence' \in BOOLEAN
      PROVE  FlagType'
  BY Zenon, <1>1 DEF FlagType
<1>2. running' = running \/ running' \in BOOLEAN
  <2>1. ASSUME NEW t \in Threads, Workflow(t) PROVE running' = running
    BY Zenon, <2>1 DEF Workflow, Aborts, LookUp, Dial, AcquireAgain, Send,
                       Cancelled, Wake, DialAnswered, DialFails, port
  <2>2. ASSUME NEW l \in Lives, Loop(l) \/ Poll(l) PROVE running' = running
    BY Zenon, <2>2 DEF Loop, LoopEnds, TakePending, Poll, PollEnds,
                       PollBegins, PollSends, PollAnswered, PollTimesOut,
                       Hear, port
  <2>3. CASE Window
    BY Zenon, <2>3 DEF Window, JoinThread, JoinPoller, Close, OpenFails, Open,
                       StartThread, port
  <2>4. CASE User
    BY Zenon, <2>4 DEF User, PortOn, PortOff, RestartAll, ForceRetry,
                       StopPort, PortCommand, MassAction, RunSkills, port
  <2>5. CASE SwapSim \/ UNCHANGED vars
    BY Zenon, <2>5 DEF SwapSim, vars, port
  <2>6. QED
    BY Zenon, <2>1, <2>2, <2>3, <2>4, <2>5 DEF Next
<1>3. pending' = pending \/ pending' \in BOOLEAN
  <2>1. ASSUME NEW t \in Threads, Workflow(t) PROVE pending' = pending
    BY Zenon, <2>1 DEF Workflow, Aborts, LookUp, Dial, AcquireAgain, Send,
                       Cancelled, Wake, DialAnswered, DialFails
  <2>2. ASSUME NEW l \in Lives, Loop(l) \/ Poll(l)
        PROVE  pending' = pending \/ pending' \in BOOLEAN
    BY Zenon, <2>2 DEF Loop, LoopEnds, TakePending, Poll, PollEnds,
                       PollBegins, PollSends, PollAnswered, PollTimesOut, Hear
  <2>3. CASE Window
    BY Zenon, <2>3 DEF Window, JoinThread, JoinPoller, Close, OpenFails, Open,
                       StartThread
  <2>4. CASE User
    BY Zenon, <2>4 DEF User, PortOn, PortOff, RestartAll, ForceRetry,
                       StopPort, PortCommand, MassAction, RunSkills
  <2>5. CASE SwapSim \/ UNCHANGED vars
    BY Zenon, <2>5 DEF SwapSim, vars
  <2>6. QED
    BY Zenon, <2>1, <2>2, <2>3, <2>4, <2>5 DEF Next
<1>4. fence' = fence \/ fence' \in BOOLEAN
  <2>1. ASSUME NEW t \in Threads, Workflow(t)
        PROVE  fence' = fence \/ fence' \in BOOLEAN
    <3>1. fence' = fence \/ fence' = TRUE \/ fence' = FALSE
      BY Zenon, <2>1 DEF Workflow, Aborts, LookUp, Dial, AcquireAgain, Send,
                         Cancelled, Wake, DialAnswered, DialFails, MayAcquire,
                         MayBeRefused
    <3>2. QED
      BY Zenon, <3>1
  <2>2. ASSUME NEW l \in Lives, Loop(l) \/ Poll(l) PROVE fence' = fence
    BY Zenon, <2>2 DEF Loop, LoopEnds, TakePending, Poll, PollEnds,
                       PollBegins, PollSends, PollAnswered, PollTimesOut, Hear
  <2>3. CASE Window
    BY Zenon, <2>3 DEF Window, JoinThread, JoinPoller, Close, OpenFails, Open,
                       StartThread
  <2>4. CASE User
    BY Zenon, <2>4 DEF User, PortOn, PortOff, RestartAll, ForceRetry,
                       StopPort, PortCommand, MassAction, RunSkills
  <2>5. CASE SwapSim \/ UNCHANGED vars
    BY Zenon, <2>5 DEF SwapSim, vars
  <2>6. QED
    BY Zenon, <2>1, <2>2, <2>3, <2>4, <2>5 DEF Next
<1>5. QED
  BY Zenon, <1>1, <1>2, <1>3, <1>4

LEMMA UiSteppings ==
  ASSUME NEW u \in [pc : UiSteps, again : BOOLEAN], NEW pc \in UiSteps
  PROVE  [u EXCEPT !.pc = pc] \in [pc : UiSteps, again : BOOLEAN]
OBVIOUS

LEMMA UiRecords ==
  ASSUME NEW pc \in UiSteps, NEW again \in BOOLEAN
  PROVE  [pc |-> pc, again |-> again] \in [pc : UiSteps, again : BOOLEAN]
OBVIOUS

LEMMA UiKept == UiType /\ [Next]_vars => UiType'
<1> SUFFICES ASSUME UiType, [Next]_vars PROVE UiType'
  OBVIOUS
<1>1. CASE UNCHANGED <<ui, clicks>>
  BY <1>1 DEF UiType
<1>2. CASE Window
  <2>1. clicks' = clicks
    BY <1>2 DEF Window, JoinThread, JoinPoller, Close, OpenFails, Open,
                StartThread
  <2>2. ui' \in [pc : UiSteps, again : BOOLEAN]
    <3>1. CASE JoinThread \/ JoinPoller \/ Open
      <4>1. PICK pc \in {"join_poller", "close", "start_thread"} :
              ui' = [ui EXCEPT !.pc = pc]
        BY <3>1 DEF JoinThread, JoinPoller, Open
      <4>2. pc \in UiSteps
        BY <4>1 DEF UiSteps
      <4>3. ui \in [pc : UiSteps, again : BOOLEAN]
        BY DEF UiType
      <4>4. [ui EXCEPT !.pc = pc] \in [pc : UiSteps, again : BOOLEAN]
        BY Zenon, <4>2, <4>3, UiSteppings
      <4>5. QED
        BY Zenon, <4>1, <4>4
    <3>2. CASE Close \/ OpenFails \/ StartThread
      <4>1. ui' \in {[pc |-> "open", again |-> FALSE],
                     [pc |-> "idle", again |-> FALSE]}
        BY <3>2 DEF Close, OpenFails, StartThread, Quiet
      <4>2. "open" \in UiSteps /\ "idle" \in UiSteps
        BY DEF UiSteps
      <4>3. /\ [pc |-> "open", again |-> FALSE] \in
                 [pc : UiSteps, again : BOOLEAN]
            /\ [pc |-> "idle", again |-> FALSE] \in
                 [pc : UiSteps, again : BOOLEAN]
        BY <4>2, UiRecords
      <4>4. QED
        BY Zenon, <4>1, <4>3
    <3>3. QED
      BY <1>2, <3>1, <3>2 DEF Window
  <2>3. QED
    BY <2>1, <2>2 DEF UiType
<1>3. CASE User
  <2>1. Click
    BY <1>3 DEF User, PortOn, PortOff, RestartAll, ForceRetry, PortCommand,
                MassAction
  <2>2. clicks' \in 0 .. MaxClicks
    BY <2>1, Names DEF Click, UiType
  <2>3. \/ ui' = ui
        \/ ui' = [pc |-> "open", again |-> FALSE]
        \/ ui' = [pc |-> "join", again |-> FALSE]
        \/ ui' = [pc |-> "join", again |-> TRUE]
    BY <1>3 DEF User, PortOn, PortOff, RestartAll, ForceRetry, StopPort,
                PortCommand, MassAction, RunSkills
  <2>4. ui' \in [pc : UiSteps, again : BOOLEAN]
    <3>1. "open" \in UiSteps /\ "join" \in UiSteps
      BY DEF UiSteps
    <3>2. ui \in [pc : UiSteps, again : BOOLEAN]
      BY DEF UiType
    <3>3. {[pc |-> "open", again |-> FALSE], [pc |-> "join", again |-> FALSE],
           [pc |-> "join", again |-> TRUE]}
             \subseteq [pc : UiSteps, again : BOOLEAN]
      BY <3>1, UiRecords
    <3>4. QED
      BY Zenon, <2>3, <3>2, <3>3
  <2>5. QED
    BY <2>2, <2>4 DEF UiType
<1>4. ASSUME NEW t \in Threads, Workflow(t) PROVE UNCHANGED <<ui, clicks>>
  BY <1>4 DEF Workflow, Aborts, LookUp, Dial, AcquireAgain, Send, Cancelled, Wake,
              DialAnswered, DialFails
<1>5. ASSUME NEW l \in Lives, Loop(l) \/ Poll(l)
      PROVE  UNCHANGED <<ui, clicks>>
  BY <1>5 DEF Loop, LoopEnds, TakePending, Poll, PollEnds, PollBegins,
              PollSends, PollAnswered, PollTimesOut, Hear
<1>6. CASE SwapSim \/ UNCHANGED vars
  BY <1>1, <1>6 DEF SwapSim, vars
<1>7. QED
  BY <1>1, <1>2, <1>3, <1>4, <1>5, <1>6 DEF Next

-----------------------------------------------------------------------------
(* The theorems.                                                           *)
PortInv ==
  /\ OutsideType /\ PortType /\ FlagType /\ UiType
  /\ ThreadsInv /\ PollersInv

LEMMA InitHolds == Init => PortInv
<1> SUFFICES ASSUME Init PROVE PortInv
  OBVIOUS
<1>1. OutsideType /\ PortType
  BY Names DEF Init, OutsideType, PortType
<1>2. FlagType
  BY Zenon DEF Init, FlagType
<1>3. UiType
  <2>1. /\ "idle" \in UiSteps /\ 0 \in 0 .. MaxClicks
    BY Names DEF UiSteps
  <2>2. QED
    BY <2>1 DEF Init, UiType, Quiet
<1>4. ThreadsInv
  <2>1. /\ NoThread \in ThreadRecord /\ NoThread.pc = "off"
        /\ "off" \notin Working
    BY Names, PlaceNames DEF NoThread, ThreadRecord
  <2>2. /\ thread = [t \in Threads |-> NoThread] /\ life = 0
        /\ ui.pc # "start_thread"
    BY DEF Init, Quiet
  <2> HIDE DEF Init
  <2>3. ThreadType /\ WorkIsLeft
    BY <2>1, <2>2 DEF ThreadType, WorkIsLeft
  <2>4. Untouched
    BY <2>1, <2>2, Names DEF Untouched
  <2>5. QED
    BY <2>3, <2>4 DEF ThreadsInv
<1>5. PollersInv
  BY NewPoller DEF Init, PollersInv, PollerType, CountedIsHeard, CpinState
<1>6. QED
  BY <1>1, <1>2, <1>3, <1>4, <1>5 DEF PortInv

LEMMA PortInvKept == PortInv /\ [Next]_vars => PortInv'
BY ThreadsKept, PollersKept, OutsideKept, PortKept, FlagsKept, UiKept
   DEF PortInv

LEMMA PortInvHolds == Spec => []PortInv
BY InitHolds, PortInvKept, PTL DEF Spec

(* The state of a port has its types.                                      *)
THEOREM SengkuniTypeCorrect == Spec => []TypeOK
<1>1. PortInv => TypeOK
  <2> SUFFICES ASSUME PortInv PROVE TypeOK
    OBVIOUS
  <2>1. {running, pending, fence} \subseteq BOOLEAN
    BY Zenon DEF PortInv, FlagType
  <2>2. {life, client, open} \subseteq 0 .. MaxLives
    BY Names DEF PortInv, PortType
  <2>3. QED
    BY <2>1, <2>2
       DEF PortInv, TypeOK, OutsideType, UiType, ThreadsInv, ThreadType,
           ThreadRecord, PollersInv, PollerType, PollerRecord
<1>2. QED
  BY <1>1, PortInvHolds, PTL

(* The port becomes READY only on the second READY in a row to one         *)
(* monitor.                                                                *)
THEOREM ReadyCorrect == Spec => ReadyIsConfirmed
<1> DEFINE Confirmed == cpin # "READY" /\ cpin' = "READY" =>
              \E l \in Lives : /\ poller[l].pc = "reading"
                               /\ poller[l].heard /\ poller'[l].heard
<1>1. ASSUME PortInv, [Next]_vars, cpin # "READY", cpin' = "READY"
      PROVE  \E l \in Lives : /\ poller[l].pc = "reading"
                              /\ poller[l].heard /\ poller'[l].heard
  <2>1. \E l \in Lives : PollAnswered(l) \/ PollTimesOut(l)
    <3>1. cpin' # cpin
      BY <1>1
    <3>2. ASSUME NEW t \in Threads, Workflow(t) PROVE cpin' = cpin
      BY <3>2 DEF Workflow, Aborts, LookUp, Dial, AcquireAgain, Send,
                  Cancelled, Wake, DialAnswered, DialFails
    <3>3. ASSUME NEW l \in Lives, Loop(l) \/ PollEnds(l) \/ PollBegins(l)
                                    \/ PollSends(l)
          PROVE  cpin' = cpin
      BY <3>3 DEF Loop, LoopEnds, TakePending, PollEnds, PollBegins,
                  PollSends
    <3>4. ASSUME Window PROVE cpin' = cpin
      BY <3>4 DEF Window, JoinThread, JoinPoller, Close, OpenFails, Open,
                  StartThread
    <3>5. ASSUME User PROVE cpin' = cpin
      BY <3>5 DEF User, PortOn, PortOff, RestartAll, ForceRetry, StopPort,
                  PortCommand, MassAction, RunSkills
    <3>6. ASSUME SwapSim \/ UNCHANGED vars PROVE cpin' = cpin
      BY <3>6 DEF SwapSim, vars
    <3>7. QED
      BY <1>1, <3>1, <3>2, <3>3, <3>4, <3>5, <3>6 DEF Next, Poll
  <2>2. PICK l \in Lives : PollAnswered(l) \/ PollTimesOut(l)
    BY <2>1
  <2>3. poller[l].pc = "reading" /\ \E raw : Hear(l, raw)
    BY <2>2 DEF PollAnswered, PollTimesOut
  <2>4. poller'[l].heard = TRUE /\ poller[l].ready > 0
    BY <1>1, <2>3, HearFacts DEF PortInv, PollersInv
  <2>5. poller[l].heard = TRUE
    BY <1>1, <2>4 DEF PortInv, PollersInv, CountedIsHeard
  <2>6. QED
    BY Zenon, <2>3, <2>4, <2>5
<1>2. PortInv /\ [Next]_vars => [Confirmed]_vars
  BY <1>1
<1>3. QED
  BY <1>2, PortInvHolds, PTL DEF Spec, ReadyIsConfirmed
=============================================================================
