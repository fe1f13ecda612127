--------------------------- MODULE MassActionProofs ---------------------------
(***************************************************************************)
(* Proofs about the port worker of SAIKI and its mass actions: for any     *)
(* number of lives, steps, commands and mass actions, any single actions   *)
(* and any kinds of SIM.                                                   *)
(*                                                                         *)
(* A step of the worker is a step of one thread t.  Moves(t) says what is  *)
(* common to all of them, and the invariants follow from it; only a start, *)
(* which moves two threads, and the climb of a restart need more.          *)
(***************************************************************************)
EXTENDS MassAction, SequenceTheorems, TLAPS

ThreadRecord == [pc : Places, left : 0 .. MaxSteps, sim : CpinState,
                 todo : Seq(HwState)]

(* The rest of the type invariant: the hardware, the flags, the counters.  *)
PlaceType ==
  /\ line \in {"none", "closed", "open"}
  /\ announced \in BOOLEAN /\ registered \in BOOLEAN

FlagType ==
  /\ online \in BOOLEAN /\ running \in BOOLEAN /\ autoRun \in BOOLEAN
  /\ restarting \in BOOLEAN

RequestType ==
  /\ reset \in BOOLEAN /\ retry \in BOOLEAN /\ auto \in BOOLEAN
  /\ action \in Actions \cup {NoAction}

ClickType == clicks \in 0 .. MaxClicks

FieldType == PlaceType /\ FlagType /\ RequestType /\ ClickType

(* An automatic run that comes back for its next step has one left.        *)
RunHasStep ==
  \A t \in Threads : thread[t].pc = "next" => thread[t].left > 0

(* A thread that is alive is the last that was started.                    *)
AliveIsLast == \A l \in Lives : Alive(l) => l = life

Dialling == {"sim", "dial"}
Resetting == {"atz", "up"}

(* Only the thread t moves, and it stays in its types.                     *)
Only(t) ==
  /\ thread' \in [Threads -> ThreadRecord]
  /\ \A o \in Threads \ {t} : thread'[o] = thread[o]

(* Whoever leaves a step or a restart takes BUSY or RESET along.           *)
Tells(t) ==
  /\ status' \in PortStatus
  /\ status' = "BUSY" =>
       \/ t \in Lives /\ thread'[t].pc \in Dialling
       \/ status = "BUSY" /\ thread[t].pc \notin Dialling
  /\ status' = "RESET" =>
       \/ thread'[t].pc \in Resetting
       \/ status = "RESET" /\ thread[t].pc \notin Resetting

Moves(t) ==
  /\ Only(t) /\ Tells(t) /\ life' = life
  /\ thread'[t].pc = "next" => thread'[t].left > 0
  /\ t \in Lives => Alive(t)

(* Between two climbs the state machine only falls from READY.             *)
Falls == hw' = hw \/ (hw = "READY" /\ hw' = "OFFLINE")

(* A step that has nothing to do with a climb.                             *)
Calm(t) ==
  /\ Falls /\ thread'[t].todo = thread[t].todo
  /\ thread[t].pc # "up" /\ thread'[t].pc # "up"

-----------------------------------------------------------------------------
LEMMA Names ==
  /\ Lives \subseteq Threads /\ Controllers \subseteq Threads
  /\ User \in Controllers /\ Manager \in Controllers
  /\ Lives \cap Controllers = {} /\ Lives \subseteq Nat
  /\ MaxLives \in Nat /\ MaxSteps \in Nat /\ MaxSteps > 0
  /\ MaxLives > 0 /\ MaxClicks \in Nat
BY WorkerAssumption DEF Lives, Controllers, Threads

LEMMA GoesFacts ==
  ASSUME ThreadType, NEW t \in Threads, NEW pc \in Places, Goes(t, pc)
  PROVE  /\ Only(t) /\ thread'[t].pc = pc
         /\ thread'[t].left = thread[t].left
         /\ thread'[t].sim = thread[t].sim
         /\ thread'[t].todo = thread[t].todo
<1>1. thread \in [Threads -> ThreadRecord]
  BY DEF ThreadType, ThreadRecord
<1> DEFINE r == [thread[t] EXCEPT !.pc = pc]
<1>2. /\ r \in ThreadRecord /\ r.pc = pc /\ r.left = thread[t].left
      /\ r.sim = thread[t].sim /\ r.todo = thread[t].todo
  BY <1>1 DEF ThreadRecord
<1>3. thread' = [thread EXCEPT ![t] = r]
  BY DEF Goes
<1> HIDE DEF r
<1>4. QED
  BY <1>1, <1>2, <1>3 DEF Only

(* The places, as far as the steps name them.                              *)
LEMMA PlaceNames ==
  /\ {"off", "ended", "begin", "look", "step", "sim", "dial", "next",
      "restart", "atz", "up", "idle", "on", "lock", "join",
      "put_off"} = Places
BY DEF Places, Ticking, Stepping, Restarting, Controlling

-----------------------------------------------------------------------------
(* The steps of the worker's thread.                                       *)

LEMMA TickMoves ==
  ASSUME ThreadType, StatusType, NEW l \in Lives,
         \/ Begins(l) \/ Ends(l) \/ TakesReset(l) \/ TakesAction(l)
         \/ TakesRetry(l)
  PROVE  Moves(l) /\ Calm(l)
<1>1. l \in Threads
  BY Names
<1>2. PICK pc \in {"look", "ended", "restart", "step"} : Goes(l, pc)
  BY DEF Begins, Ends, TakesReset, TakesAction, TakesRetry
<1>3. /\ thread[l].pc \in {"begin", "look"} /\ hw' = hw /\ life' = life
      /\ status' = status \/ status' = "READY"
  BY DEF Begins, Ends, TakesReset, TakesAction, TakesRetry, Ticks, At,
         Quiet, control
<1>4. pc \in Places
  BY PlaceNames
<1>5. /\ Only(l) /\ thread'[l].pc = pc
      /\ thread'[l].todo = thread[l].todo
  BY <1>1, <1>2, <1>4, GoesFacts
<1>6. Tells(l)
  BY <1>3, <1>5 DEF Tells, StatusType, PortStatus, Dialling, Resetting
<1>7. QED
  BY <1>3, <1>5, <1>6 DEF Moves, Alive, Calm, Falls

LEMMA RunMoves ==
  ASSUME ThreadType, StatusType, RunHasStep, NEW l \in Lives,
         TakesAuto(l) \/ NextStep(l)
  PROVE  Moves(l) /\ Calm(l)
<1>1. l \in Threads /\ MaxSteps \in Nat /\ MaxSteps > 0
  BY Names
<1>2. thread \in [Threads -> ThreadRecord]
  BY DEF ThreadType, ThreadRecord
<1>3. PICK pc \in {"next", "step", "look"}, n \in 0 .. MaxSteps :
        /\ thread' = [thread EXCEPT ![l].pc = pc, ![l].left = n]
        /\ pc = "next" => n > 0
  <2>1. CASE TakesAuto(l)
    <3>1. /\ thread' = [thread EXCEPT ![l].pc = "next", ![l].left = MaxSteps]
          /\ MaxSteps \in 0 .. MaxSteps
      BY <2>1, <1>1 DEF TakesAuto
    <3>2. QED
      BY <3>1, <1>1
  <2>2. CASE NextStep(l)
    <3>1. thread[l].left \in 0 .. MaxSteps /\ thread[l].left > 0
      BY <2>2, <1>1, <1>2 DEF NextStep, At, RunHasStep, ThreadRecord
    <3>2. CASE running /\ online
      <4>1. thread[l].left - 1 \in 0 .. MaxSteps
        BY <3>1, <1>1
      <4>2. QED
        BY <2>2, <3>2, <4>1 DEF NextStep
    <3>3. CASE ~(running /\ online)
      <4>1. thread' = [thread EXCEPT ![l].pc = "look", ![l].left = 0]
        BY <2>2, <3>3 DEF NextStep
      <4>2. 0 \in 0 .. MaxSteps
        BY <1>1
      <4>3. QED
        BY <4>1, <4>2
    <3>4. QED
      BY <3>2, <3>3
  <2>3. QED
    BY <2>1, <2>2
<1>4. /\ thread[l].pc \in {"next", "look"} /\ hw' = hw /\ life' = life
      /\ status' = status \/ status' = "CHECKING"
  BY DEF TakesAuto, NextStep, Ticks, At, Quiet, control
<1> DEFINE r == [thread[l] EXCEPT !.pc = pc, !.left = n]
<1>5. /\ r \in ThreadRecord /\ r.pc = pc /\ r.left = n
      /\ r.todo = thread[l].todo
  BY <1>1, <1>2, PlaceNames DEF ThreadRecord
<1>6. thread' = [thread EXCEPT ![l] = r]
  BY <1>3
<1> HIDE DEF r
<1>7. /\ Only(l) /\ thread'[l].pc = pc /\ thread'[l].left = n
      /\ thread'[l].todo = thread[l].todo
  BY <1>1, <1>2, <1>5, <1>6 DEF Only
<1>8. Tells(l)
  BY <1>4, <1>7 DEF Tells, StatusType, PortStatus, Dialling, Resetting
<1>9. QED
  BY <1>3, <1>4, <1>7, <1>8 DEF Moves, Alive, Calm, Falls

LEMMA StepMoves ==
  ASSUME ThreadType, StatusType, NEW l \in Lives,
         StepBegins(l) \/ ChecksSim(l) \/ StepEnds(l)
  PROVE  Moves(l) /\ Calm(l)
<1>1. l \in Threads
  BY Names
<1>2. PICK pc \in {"sim", "dial", "next", "look"} :
        /\ Goes(l, pc)
        /\ pc = "next" => thread[l].left > 0
        /\ \/ status' = "BUSY" /\ pc \in Dialling
           \/ status' \in {"CHECKING", "READY"} /\ pc \notin Dialling
           \/ status' = status /\ pc = "dial" /\ thread[l].pc = "sim"
  BY DEF StepBegins, ChecksSim, StepEnds, NotReady, StepReturns, Goes,
         Dialling, At
<1>3. /\ thread[l].pc \in {"step", "sim", "dial"} /\ hw' = hw /\ life' = life
  BY DEF StepBegins, ChecksSim, StepEnds, At, Quiet, control
<1>4. pc \in Places
  BY PlaceNames
<1>5. /\ Only(l) /\ thread'[l].pc = pc
      /\ thread'[l].left = thread[l].left
      /\ thread'[l].todo = thread[l].todo
  BY <1>1, <1>2, <1>4, GoesFacts
<1>6. Tells(l)
  BY <1>2, <1>3, <1>5 DEF Tells, StatusType, PortStatus, Dialling, Resetting
<1>7. QED
  BY <1>2, <1>3, <1>5, <1>6 DEF Moves, Alive, Calm, Falls

-----------------------------------------------------------------------------
(* The state machine while a restart climbs.                               *)

(* Nothing leads to SIM_REMOVED.                                           *)
Reached == {"OFFLINE", "MODEM_DETECTED", "PORT_READY", "SIM_INSERTED",
            "CPIN_READY", "READY"}

(* What is left of the way to READY, and the states it can be left in; the *)
(* ways that end below READY promise nothing.                              *)
Way1 == <<"READY">>
Way2 == <<"CPIN_READY", "READY">>
Way3 == <<"SIM_INSERTED", "CPIN_READY", "READY">>
Way4 == <<"PORT_READY", "SIM_INSERTED", "CPIN_READY", "READY">>
Way5 == <<"MODEM_DETECTED", "PORT_READY", "SIM_INSERTED", "CPIN_READY",
          "READY">>
ShortWays == {<<"MODEM_DETECTED", "PORT_READY", "SIM_INSERTED">>,
              <<"PORT_READY", "SIM_INSERTED">>, <<"SIM_INSERTED">>,
              <<"MODEM_DETECTED", "PORT_READY">>, <<"PORT_READY">>}

OnTheWay(way, at) ==
  \/ way = << >> \/ way \in ShortWays
  \/ way \in {Way4, Way5}
  \/ way = Way3 /\ at # "MODEM_DETECTED"
  \/ way = Way2 /\ at \notin {"MODEM_DETECTED", "PORT_READY"}
  \/ way = Way1 /\ at \in {"CPIN_READY", "READY", "OFFLINE"}

LEMMA TransitionFacts ==
  ASSUME hw \in Reached, NEW to \in Reached, Transition(to)
  PROVE  hw' \in {hw, to} /\ (to = "OFFLINE" => Falls)
BY DEF Transition, ValidTransitions, Reached, Falls

LEMMA FallKeepsWay ==
  ASSUME hw \in Reached, Falls, NEW way, OnTheWay(way, hw)
  PROVE  hw' \in Reached /\ OnTheWay(way, hw')
BY DEF Falls, Reached, OnTheWay

LEMMA WayTails ==
  /\ Tail(Way1) = << >> /\ Tail(Way2) = Way1 /\ Tail(Way3) = Way2
  /\ Tail(Way4) = Way3 /\ Tail(Way5) = Way4
  /\ \A way \in ShortWays : Tail(way) \in ShortWays \cup {<< >>}
BY DEF Way1, Way2, Way3, Way4, Way5, ShortWays

LEMMA WayHeads ==
  /\ Head(Way1) = "READY" /\ Head(Way2) = "CPIN_READY"
  /\ Head(Way3) = "SIM_INSERTED" /\ Head(Way4) = "PORT_READY"
  /\ Head(Way5) = "MODEM_DETECTED"
  /\ \A way \in ShortWays :
       Head(way) \in {"MODEM_DETECTED", "PORT_READY", "SIM_INSERTED"}
BY DEF Way1, Way2, Way3, Way4, Way5, ShortWays, Reached

LEMMA ClimbKeepsWay ==
  ASSUME hw \in Reached, NEW way, way # << >>, OnTheWay(way, hw),
         Transition(Head(way))
  PROVE  /\ hw' \in Reached /\ OnTheWay(Tail(way), hw')
         /\ way = Way1 => hw' = "READY"
<1>1. CASE way \in ShortWays
  <2>1. Head(way) \in Reached /\ way # Way1
    BY <1>1, WayHeads DEF Reached
  <2>2. Tail(way) \in ShortWays \cup {<< >>}
    BY <1>1, WayTails
  <2>3. hw' \in Reached
    BY <2>1, TransitionFacts
  <2>4. QED
    BY <2>1, <2>2, <2>3 DEF OnTheWay
<1>2. CASE way = Way5
  <2>1. hw' \in Reached /\ way # Way1
    BY <1>2, WayHeads, TransitionFacts DEF Reached
  <2>2. QED
    BY <1>2, <2>1, WayTails DEF OnTheWay
<1>3. CASE way = Way4
  <2>1. hw' \in Reached /\ way # Way1 /\ hw' # "MODEM_DETECTED"
    BY <1>3, WayHeads DEF Reached, Transition, ValidTransitions
  <2>2. QED
    BY <1>3, <2>1, WayTails DEF OnTheWay
<1>4. CASE way = Way3 /\ hw # "MODEM_DETECTED"
  <2>1. /\ hw' \in Reached /\ way # Way1
        /\ hw' \notin {"MODEM_DETECTED", "PORT_READY"}
    BY <1>4, WayHeads DEF Reached, Transition, ValidTransitions
  <2>2. QED
    BY <1>4, <2>1, WayTails DEF OnTheWay
<1>5. CASE way = Way2 /\ hw \notin {"MODEM_DETECTED", "PORT_READY"}
  <2>1. /\ hw' \in {"CPIN_READY", "READY", "OFFLINE"} /\ way # Way1
    BY <1>5, WayHeads DEF Reached, Transition, ValidTransitions
  <2>2. QED
    BY <1>5, <2>1, WayTails DEF OnTheWay, Reached
<1>6. CASE way = Way1 /\ hw \in {"CPIN_READY", "READY", "OFFLINE"}
  <2>1. hw' = "READY"
    BY <1>6, WayHeads DEF Transition, ValidTransitions
  <2>2. QED
    BY <1>6, <2>1, WayTails DEF OnTheWay, Reached
<1>7. QED
  BY <1>1, <1>2, <1>3, <1>4, <1>5, <1>6 DEF OnTheWay

(* The transitions a restart tries, put together.                          *)
LEMMA ThreeSteps ==
  <<"MODEM_DETECTED", "PORT_READY">> \o <<"SIM_INSERTED">>
    = <<"MODEM_DETECTED", "PORT_READY", "SIM_INSERTED">>
<1> DEFINE a == <<"MODEM_DETECTED", "PORT_READY">>
           b == <<"SIM_INSERTED">>
           c == <<"MODEM_DETECTED", "PORT_READY", "SIM_INSERTED">>
<1>1. /\ a \in Seq(HwState) /\ b \in Seq(HwState) /\ c \in Seq(HwState)
      /\ Len(a) = 2 /\ Len(b) = 1 /\ Len(c) = 3
  BY DEF HwState
<1>2. /\ a \o b \in Seq(HwState) /\ Len(a \o b) = 3
      /\ \A i \in 1 .. 3 : (a \o b)[i] = IF i <= 2 THEN a[i] ELSE b[i - 2]
  <2> HIDE DEF a, b, c
  <2>1. QED
    BY <1>1, ConcatProperties
<1>3. ASSUME NEW i \in 1 .. 3 PROVE (a \o b)[i] = c[i]
  <2>1. (a \o b)[1] = c[1] /\ (a \o b)[2] = c[2] /\ (a \o b)[3] = c[3]
    BY <1>2
  <2>2. i \in {1, 2, 3}
    BY Z3
  <2> HIDE DEF a, b, c
  <2>3. QED
    BY <2>1, <2>2
<1> HIDE DEF a, b, c
<1>4. a \o b = c
  BY <1>1, <1>2, <1>3, SeqEqual
<1>5. QED
  BY <1>4 DEF a, b, c

LEMMA FiveSteps ==
  <<"MODEM_DETECTED", "PORT_READY", "SIM_INSERTED">>
    \o <<"CPIN_READY", "READY">> = Way5
<1> DEFINE a == <<"MODEM_DETECTED", "PORT_READY", "SIM_INSERTED">>
           b == <<"CPIN_READY", "READY">>
           c == Way5
<1>1. /\ a \in Seq(HwState) /\ b \in Seq(HwState) /\ c \in Seq(HwState)
      /\ Len(a) = 3 /\ Len(b) = 2 /\ Len(c) = 5
  BY DEF HwState, Way5
<1>2. /\ a \o b \in Seq(HwState) /\ Len(a \o b) = 5
      /\ \A i \in 1 .. 5 : (a \o b)[i] = IF i <= 3 THEN a[i] ELSE b[i - 3]
  <2> HIDE DEF a, b, c
  <2>1. /\ a \o b \in Seq(HwState) /\ Len(a \o b) = Len(a) + Len(b)
        /\ \A i \in 1 .. Len(a) + Len(b) :
             (a \o b)[i] = IF i <= Len(a) THEN a[i] ELSE b[i - Len(a)]
    BY <1>1, ConcatProperties
  <2>2. Len(a) = 3 /\ Len(b) = 2 /\ Len(a) + Len(b) = 5
    BY <1>1
  <2>3. QED
    BY <2>1, <2>2
<1>3. ASSUME NEW i \in 1 .. 5 PROVE (a \o b)[i] = c[i]
  <2>1. /\ (a \o b)[1] = c[1] /\ (a \o b)[2] = c[2] /\ (a \o b)[3] = c[3]
        /\ (a \o b)[4] = c[4] /\ (a \o b)[5] = c[5]
    BY <1>2 DEF Way5
  <2>2. i \in {1, 2, 3, 4, 5}
    BY Z3
  <2> HIDE DEF a, b, c
  <2>3. QED
    BY <2>1, <2>2
<1> HIDE DEF a, b, c
<1>4. a \o b = c
  BY <1>1, <1>2, <1>3, SeqEqual
<1>5. QED
  BY <1>4 DEF a, b, c

(* A restart begins on one of the ways.                                    *)
LEMMA BringUpIsWay ==
  ASSUME NEW sim \in CpinState
  PROVE  /\ BringUp(sim) \in ShortWays \cup {Way5}
         /\ BringUp(sim) # << >>
<1>1. CASE sim = "NOT_INSERTED"
  <2>1. BringUp(sim) = <<"MODEM_DETECTED", "PORT_READY">>
    BY <1>1 DEF BringUp
  <2>2. QED
    BY <2>1 DEF ShortWays
<1>2. CASE sim = "READY"
  <2>1. BringUp(sim) = Way5
    <3>1. BringUp(sim) =
            (<<"MODEM_DETECTED", "PORT_READY">> \o <<"SIM_INSERTED">>)
               \o <<"CPIN_READY", "READY">>
      BY <1>2 DEF BringUp
    <3>2. QED
      BY <3>1, ThreeSteps, FiveSteps, Zenon
  <2>2. QED
    BY <2>1 DEF Way5
<1>3. CASE sim \notin {"NOT_INSERTED", "READY"}
  <2>1. BringUp(sim) = <<"MODEM_DETECTED", "PORT_READY">> \o <<"SIM_INSERTED">>
    BY <1>3 DEF BringUp
  <2>2. QED
    BY <2>1, ThreeSteps DEF ShortWays
<1>4. QED
  BY <1>1, <1>2, <1>3

-----------------------------------------------------------------------------
(* The steps of a restart, on whatever thread.                             *)

LEMMA RestartMoves ==
  ASSUME ThreadType, StatusType, hw \in Reached, NEW t \in Threads,
         RestartBegins(t) \/ ModemIsMute(t) \/ NoModem(t)
  PROVE  Moves(t) /\ Calm(t)
<1>1. PICK pc \in {"atz", "look", "on"} :
        /\ Goes(t, pc)
        /\ \/ pc = "atz" /\ status' = "RESET"
           \/ status' \in {"GAGAL", "READY"}
  BY DEF RestartBegins, ModemIsMute, NoModem, Resumes
<1>2. thread[t].pc \in {"restart", "atz"} /\ life' = life
  BY DEF RestartBegins, ModemIsMute, NoModem, At, Quiet, control
<1>3. Falls
  <2>1. CASE RestartBegins(t)
    <3>1. Transition("OFFLINE") /\ "OFFLINE" \in Reached
      BY <2>1 DEF RestartBegins, Reached
    <3>2. QED
      BY <3>1, TransitionFacts
  <2>2. CASE ModemIsMute(t) \/ NoModem(t)
    BY <2>2 DEF ModemIsMute, NoModem, Falls
  <2>3. QED
    BY <2>1, <2>2
<1>4. pc \in Places
  BY PlaceNames
<1>5. /\ Only(t) /\ thread'[t].pc = pc
      /\ thread'[t].todo = thread[t].todo
  BY <1>1, <1>4, GoesFacts
<1>6. Tells(t)
  BY <1>1, <1>2, <1>5 DEF Tells, PortStatus, Dialling, Resetting
<1>7. QED
  BY <1>1, <1>2, <1>3, <1>5, <1>6 DEF Moves, Alive, Calm

LEMMA WaysAreSequences ==
  ShortWays \cup {Way1, Way2, Way3, Way4, Way5, << >>} \subseteq Seq(HwState)
BY DEF ShortWays, Way1, Way2, Way3, Way4, Way5, HwState

LEMMA BackMoves ==
  ASSUME ThreadType, StatusType, NEW t \in Threads, ModemIsBack(t)
  PROVE  /\ Moves(t) /\ hw' = hw
         /\ thread'[t].pc = "up" /\ Settled(t)
         /\ thread'[t].todo \in ShortWays \cup {Way5}
<1>1. thread \in [Threads -> ThreadRecord]
  BY DEF ThreadType, ThreadRecord
<1>2. PICK sim \in Sims : thread' = [thread EXCEPT
        ![t].pc = "up", ![t].sim = sim, ![t].todo = BringUp(sim)]
  BY DEF ModemIsBack
<1>3. sim \in CpinState
  BY WorkerAssumption
<1>4. /\ BringUp(sim) \in ShortWays \cup {Way5}
      /\ BringUp(sim) \in Seq(HwState)
  BY <1>3, BringUpIsWay, WaysAreSequences
<1> DEFINE r == [thread[t] EXCEPT !.pc = "up", !.sim = sim,
                                  !.todo = BringUp(sim)]
<1>5. /\ r \in ThreadRecord /\ r.pc = "up" /\ r.todo = BringUp(sim)
  BY <1>1, <1>3, <1>4, PlaceNames DEF ThreadRecord
<1>6. thread' = [thread EXCEPT ![t] = r]
  BY <1>2
<1> HIDE DEF r
<1>7. /\ Only(t) /\ thread'[t].pc = "up" /\ thread'[t].todo = BringUp(sim)
  BY <1>1, <1>5, <1>6 DEF Only
<1>8. /\ thread[t].pc = "atz" /\ status' = status /\ hw' = hw
      /\ life' = life /\ Settled(t)
  BY DEF ModemIsBack, At, Quiet, control
<1>9. Tells(t)
  BY <1>7, <1>8 DEF Tells, StatusType, PortStatus, Dialling, Resetting
<1>10. QED
  BY <1>4, <1>7, <1>8, <1>9 DEF Moves, Alive

LEMMA ClimbMoves ==
  ASSUME ThreadType, StatusType, NEW t \in Threads, Climbs(t)
  PROVE  /\ Moves(t) /\ thread[t].pc = "up" /\ thread'[t].pc = "up"
         /\ thread[t].todo # << >> /\ thread'[t].todo = Tail(thread[t].todo)
         /\ Transition(Head(thread[t].todo))
<1>1. thread \in [Threads -> ThreadRecord]
  BY DEF ThreadType, ThreadRecord
<1>2. /\ thread[t].pc = "up" /\ thread[t].todo # << >>
      /\ Transition(Head(thread[t].todo))
      /\ thread' = [thread EXCEPT ![t].todo = Tail(@)]
      /\ status' = status /\ life' = life
  BY DEF Climbs, At, Quiet, control
<1>3. Tail(thread[t].todo) \in Seq(HwState)
  <2>1. thread[t].todo \in Seq(HwState)
    BY <1>1 DEF ThreadRecord
  <2>2. QED
    BY <1>2, <2>1
<1> DEFINE r == [thread[t] EXCEPT !.todo = Tail(thread[t].todo)]
<1>4. /\ r \in ThreadRecord /\ r.pc = "up"
      /\ r.todo = Tail(thread[t].todo)
  BY <1>1, <1>2, <1>3 DEF ThreadRecord
<1>5. thread' = [thread EXCEPT ![t] = r]
  BY <1>2
<1> HIDE DEF r
<1>6. /\ Only(t) /\ thread'[t].pc = "up"
      /\ thread'[t].todo = Tail(thread[t].todo)
  BY <1>1, <1>4, <1>5 DEF Only
<1>7. Tells(t)
  BY <1>2, <1>6 DEF Tells, StatusType, PortStatus, Dialling, Resetting
<1>8. QED
  BY <1>2, <1>6, <1>7 DEF Moves, Alive

LEMMA EndMoves ==
  ASSUME ThreadType, StatusType, NEW t \in Threads, RestartEnds(t)
  PROVE  /\ Moves(t) /\ hw' = hw /\ thread'[t].pc # "up"
         /\ thread'[t].todo = << >> /\ thread[t].todo = << >>
<1>1. thread \in [Threads -> ThreadRecord]
  BY DEF ThreadType, ThreadRecord
<1>2. PICK pc \in {"look", "on"} : thread' = [thread EXCEPT
        ![t].pc = pc, ![t].sim = "UNKNOWN"]
  BY DEF RestartEnds, Resumes
<1>3. /\ thread[t].pc = "up" /\ thread[t].todo = << >> /\ hw' = hw
      /\ status' \in {"READY", "IDLE"} /\ life' = life
  BY DEF RestartEnds, At, Quiet, control
<1> DEFINE r == [thread[t] EXCEPT !.pc = pc, !.sim = "UNKNOWN"]
<1>4. /\ r \in ThreadRecord /\ r.pc = pc /\ r.todo = thread[t].todo
  BY <1>1, PlaceNames DEF ThreadRecord, CpinState
<1>5. thread' = [thread EXCEPT ![t] = r]
  BY <1>2
<1> HIDE DEF r
<1>6. /\ Only(t) /\ thread'[t].pc = pc
      /\ thread'[t].todo = thread[t].todo
  BY <1>1, <1>4, <1>5 DEF Only
<1>7. Tells(t)
  BY <1>3, <1>6 DEF Tells, PortStatus, Dialling, Resetting
<1>8. QED
  BY <1>3, <1>6, <1>7 DEF Moves, Alive

-----------------------------------------------------------------------------
(* The steps of the threads that control the worker.                       *)

LEMMA StopMoves ==
  ASSUME ThreadType, StatusType, NEW c \in Controllers,
         TakesLock(c) \/ Joins(c) \/ PutsOff(c)
  PROVE  Moves(c) /\ Calm(c)
<1>1. PICK pc \in {"join", "put_off", "restart", "idle"} : Goes(c, pc)
  BY DEF TakesLock, Joins, PutsOff
<1>2. /\ thread[c].pc \in {"lock", "join", "put_off"} /\ life' = life
      /\ hw' = hw /\ status' \in {status, "OFF"}
  BY DEF TakesLock, Joins, PutsOff, At, Quiet, control
<1>3. pc \in Places /\ c \in Threads /\ c \notin Lives
  BY PlaceNames, Names
<1>4. /\ Only(c) /\ thread'[c].pc = pc
      /\ thread'[c].todo = thread[c].todo
  BY <1>1, <1>3, GoesFacts
<1>5. Tells(c)
  BY <1>2, <1>4 DEF Tells, StatusType, PortStatus, Dialling, Resetting
<1>6. QED
  BY <1>2, <1>3, <1>4, <1>5 DEF Moves, Calm, Falls

LEMMA CommandMoves ==
  ASSUME ThreadType, StatusType, PortOn \/ PortOff \/ Restart
  PROVE  Moves(User) /\ Calm(User)
<1>1. PICK pc \in {"on", "lock"} : Goes(User, pc)
  BY DEF PortOn, PortOff, Restart, StopBegins
<1>2. /\ thread[User].pc = "idle" /\ life' = life
      /\ hw' = hw /\ status' = status
  BY DEF PortOn, PortOff, Restart, StopBegins, Clicks, At, control
<1>3. pc \in Places /\ User \in Threads /\ User \notin Lives
  BY PlaceNames, Names
<1>4. /\ Only(User) /\ thread'[User].pc = pc
      /\ thread'[User].todo = thread[User].todo
  BY <1>1, <1>3, GoesFacts
<1>5. Tells(User)
  BY <1>2, <1>4 DEF Tells, StatusType, PortStatus, Dialling, Resetting
<1>6. QED
  BY <1>2, <1>3, <1>4, <1>5 DEF Moves, Calm, Falls

LEMMA DestroyMoves ==
  ASSUME ThreadType, StatusType, hw \in Reached, Destroys
  PROVE  Moves(Manager) /\ Calm(Manager)
<1>1. /\ Goes(Manager, "lock") /\ thread[Manager].pc = "idle"
      /\ life' = life /\ status' = status /\ Transition("OFFLINE")
  BY DEF Destroys, At
<1>2. "lock" \in Places /\ Manager \in Threads /\ Manager \notin Lives
  BY PlaceNames, Names
<1>3. /\ Only(Manager) /\ thread'[Manager].pc = "lock"
      /\ thread'[Manager].todo = thread[Manager].todo
  BY <1>1, <1>2, GoesFacts
<1>4. Falls
  BY <1>1, TransitionFacts DEF Reached
<1>5. Tells(Manager)
  BY <1>1, <1>3 DEF Tells, StatusType, PortStatus, Dialling, Resetting
<1>6. QED
  BY <1>1, <1>2, <1>3, <1>4, <1>5 DEF Moves, Calm

(* A start that finds a thread alive goes away; another one starts the     *)
(* next thread, when none is alive.                                        *)
Begets(c) ==
  /\ ~ThreadIsAlive /\ life < MaxLives /\ life' = life + 1
  /\ thread' = [thread EXCEPT ![c].pc = "idle", ![life + 1].pc = "begin"]

LEMMA StartMoves ==
  ASSUME ThreadType, StatusType, NEW c \in Controllers, Starts(c)
  PROVE  /\ thread[c].pc = "on" /\ hw' = hw /\ status' = status
         /\ (Moves(c) /\ Calm(c)) \/ Begets(c)
<1>1. /\ thread[c].pc = "on" /\ hw' = hw /\ status' = status
  BY DEF Starts, At
<1>2. ASSUME Goes(c, "idle"), UNCHANGED control
      PROVE  Moves(c) /\ Calm(c)
  <2>1. "idle" \in Places /\ c \in Threads /\ c \notin Lives
    BY PlaceNames, Names
  <2>2. /\ Only(c) /\ thread'[c].pc = "idle"
        /\ thread'[c].todo = thread[c].todo
    BY <1>2, <2>1, GoesFacts
  <2>3. Tells(c)
    BY <1>1, <2>2 DEF Tells, StatusType, PortStatus, Dialling, Resetting
  <2>4. QED
    BY <1>1, <1>2, <2>1, <2>2, <2>3 DEF Moves, Calm, Falls, control
<1>3. QED
  BY <1>1, <1>2 DEF Starts, Start, Begets

LEMMA BegetFacts ==
  ASSUME ThreadType, life \in Lives, NEW c \in Controllers, Begets(c)
  PROVE  /\ thread' \in [Threads -> ThreadRecord]
         /\ life + 1 \in Lives
         /\ \A o \in Threads : thread'[o].todo = thread[o].todo
         /\ \A o \in Threads \ {c, life + 1} : thread'[o] = thread[o]
         /\ thread'[c].pc = "idle" /\ thread'[life + 1].pc = "begin"
<1>1. thread \in [Threads -> ThreadRecord]
  BY DEF ThreadType, ThreadRecord
<1>2. /\ life \in Nat /\ life + 1 \in Lives /\ life + 1 \in Threads
      /\ c \in Threads /\ c # life + 1
  <2>1. life + 1 \in Lives
    BY Names DEF Begets, Lives
  <2>2. QED
    BY <2>1, Names
<1> DEFINE r == [thread[c] EXCEPT !.pc = "idle"]
           q == [thread[life + 1] EXCEPT !.pc = "begin"]
<1>3. /\ r \in ThreadRecord /\ r.pc = "idle" /\ r.todo = thread[c].todo
      /\ q \in ThreadRecord /\ q.pc = "begin"
      /\ q.todo = thread[life + 1].todo
  BY <1>1, <1>2, PlaceNames DEF ThreadRecord
<1>4. thread' = [thread EXCEPT ![c] = r, ![life + 1] = q]
  BY <1>1, <1>2 DEF Begets
<1> HIDE DEF r, q
<1>5. QED
  BY <1>1, <1>2, <1>3, <1>4

-----------------------------------------------------------------------------
(* The inductive invariant of the worker: the threads, who is alive, what  *)
(* the status says, and the one restart that climbs.                       *)
ThreadsInv ==
  /\ ThreadType /\ status \in PortStatus /\ life \in Lives
  /\ RunHasStep /\ AliveIsLast /\ BusyIsWorking

ClimbInv ==
  /\ hw \in Reached
  /\ \A t, o \in Threads :
       (thread[t].pc = "up" /\ thread[o].pc = "up") => t = o
  /\ \A t \in Threads :
       /\ thread[t].todo # << >> => thread[t].pc = "up"
       /\ OnTheWay(thread[t].todo, hw)

WorkInv == ThreadsInv /\ ClimbInv

LEMMA WorkTypes ==
  ASSUME WorkInv
  PROVE  /\ ThreadType /\ StatusType /\ hw \in Reached /\ life \in Lives
         /\ RunHasStep
BY DEF WorkInv, ThreadsInv, ClimbInv, StatusType, Reached, HwState

LEMMA MovesKeepThreads ==
  ASSUME ThreadsInv, NEW t \in Threads, Moves(t)
  PROVE  ThreadsInv'
<1>1. /\ thread' \in [Threads -> ThreadRecord]
      /\ \A o \in Threads \ {t} : thread'[o] = thread[o]
      /\ life' = life /\ status' \in PortStatus
  BY DEF Moves, Only, Tells
<1>2. ThreadType' /\ life' \in Lives
  BY <1>1 DEF ThreadsInv, ThreadType, ThreadRecord
<1>3. RunHasStep'
  BY <1>1 DEF ThreadsInv, RunHasStep, Moves
<1>4. AliveIsLast'
  <2>1. \A l \in Lives : Alive(l)' => Alive(l)
    BY <1>1, Names DEF Alive, Moves
  <2>2. QED
    BY <1>1, <2>1 DEF ThreadsInv, AliveIsLast
<1>5. BusyIsWorking'
  <2>1. ASSUME status' = "BUSY"
        PROVE  \E l \in Lives : thread'[l].pc \in {"sim", "dial"}
    <3>1. CASE t \in Lives /\ thread'[t].pc \in Dialling
      BY <3>1 DEF Dialling
    <3>2. CASE status = "BUSY" /\ thread[t].pc \notin Dialling
      <4>1. PICK l \in Lives : thread[l].pc \in {"sim", "dial"}
        BY <3>2 DEF ThreadsInv, BusyIsWorking
      <4>2. l \in Threads \ {t}
        BY <3>2, <4>1, Names DEF Dialling
      <4>3. QED
        BY <1>1, <4>1, <4>2
    <3>3. QED
      BY <2>1, <3>1, <3>2 DEF Moves, Tells
  <2>2. ASSUME status' = "RESET"
        PROVE  \E o \in Threads : thread'[o].pc \in {"atz", "up"}
    <3>1. CASE thread'[t].pc \in Resetting
      BY <3>1 DEF Resetting
    <3>2. CASE status = "RESET" /\ thread[t].pc \notin Resetting
      <4>1. PICK o \in Threads : thread[o].pc \in {"atz", "up"}
        BY <3>2 DEF ThreadsInv, BusyIsWorking
      <4>2. o \in Threads \ {t}
        BY <3>2, <4>1 DEF Resetting
      <4>3. QED
        BY <1>1, <4>1, <4>2
    <3>3. QED
      BY <2>2, <3>1, <3>2 DEF Moves, Tells
  <2>3. QED
    BY <2>1, <2>2 DEF BusyIsWorking
<1>6. QED
  BY <1>1, <1>2, <1>3, <1>4, <1>5 DEF ThreadsInv

LEMMA CalmKeepsClimb ==
  ASSUME ClimbInv, NEW t \in Threads, Only(t), Calm(t)
  PROVE  ClimbInv'
<1>1. /\ \A o \in Threads : thread'[o].todo = thread[o].todo
      /\ \A o \in Threads : thread'[o].pc = "up" <=> thread[o].pc = "up"
  BY DEF Only, Calm
<1>2. hw' \in Reached
  BY DEF ClimbInv, Calm, Falls, Reached
<1>3. \A o \in Threads : OnTheWay(thread'[o].todo, hw')
  BY <1>1, FallKeepsWay DEF ClimbInv, Calm
<1>4. QED
  BY <1>1, <1>2, <1>3 DEF ClimbInv

LEMMA BackKeepsClimb ==
  ASSUME WorkInv, NEW t \in Threads, ModemIsBack(t)
  PROVE  ClimbInv'
<1>1. /\ Moves(t) /\ hw' = hw /\ thread'[t].pc = "up" /\ Settled(t)
      /\ thread'[t].todo \in ShortWays \cup {Way5}
  BY WorkTypes, BackMoves
<1>2. \A o \in Threads \ {t} :
        thread'[o] = thread[o] /\ thread'[o].pc # "up"
  BY <1>1 DEF Moves, Only, Settled, At
<1>3. OnTheWay(thread'[t].todo, hw')
  BY <1>1 DEF OnTheWay
<1>4. QED
  BY <1>1, <1>2, <1>3 DEF WorkInv, ClimbInv

LEMMA ClimbKeepsClimb ==
  ASSUME WorkInv, NEW t \in Threads, Climbs(t)
  PROVE  ClimbInv'
<1>1. /\ Moves(t) /\ thread[t].pc = "up" /\ thread'[t].pc = "up"
      /\ thread[t].todo # << >> /\ thread'[t].todo = Tail(thread[t].todo)
      /\ Transition(Head(thread[t].todo))
  BY WorkTypes, ClimbMoves
<1>2. \A o \in Threads \ {t} :
        /\ thread'[o] = thread[o] /\ thread'[o].pc # "up"
        /\ thread'[o].todo = << >>
  BY <1>1 DEF WorkInv, ClimbInv, Moves, Only
<1>3. hw \in Reached /\ OnTheWay(thread[t].todo, hw)
  BY DEF WorkInv, ClimbInv
<1>4. hw' \in Reached /\ OnTheWay(thread'[t].todo, hw')
  BY <1>1, <1>3, ClimbKeepsWay
<1>5. \A o \in Threads \ {t} : OnTheWay(thread'[o].todo, hw')
  BY <1>2 DEF OnTheWay
<1>6. QED
  BY <1>1, <1>2, <1>4, <1>5 DEF ClimbInv

LEMMA EndKeepsClimb ==
  ASSUME WorkInv, NEW t \in Threads, RestartEnds(t)
  PROVE  ClimbInv'
<1>1. /\ Moves(t) /\ hw' = hw /\ thread'[t].pc # "up"
      /\ thread'[t].todo = << >>
  BY WorkTypes, EndMoves
<1>2. \A o \in Threads \ {t} : thread'[o] = thread[o]
  BY <1>1 DEF Moves, Only
<1>3. OnTheWay(thread'[t].todo, hw')
  BY <1>1 DEF OnTheWay
<1>4. QED
  BY <1>1, <1>2, <1>3 DEF WorkInv, ClimbInv

LEMMA StartKeeps ==
  ASSUME WorkInv, NEW c \in Controllers, Starts(c)
  PROVE  WorkInv'
<1>1. /\ thread[c].pc = "on" /\ hw' = hw /\ status' = status
      /\ (Moves(c) /\ Calm(c)) \/ Begets(c)
  BY WorkTypes, StartMoves
<1>2. c \in Threads
  BY Names
<1>3. CASE Moves(c) /\ Calm(c)
  <2>1. Only(c)
    BY <1>3 DEF Moves
  <2>2. QED
    BY <1>2, <1>3, <2>1, MovesKeepThreads, CalmKeepsClimb DEF WorkInv
<1>4. CASE Begets(c)
  <2>1. /\ thread' \in [Threads -> ThreadRecord]
        /\ life + 1 \in Lives /\ life \in Lives
        /\ \A o \in Threads : thread'[o].todo = thread[o].todo
        /\ \A o \in Threads \ {c, life + 1} : thread'[o] = thread[o]
        /\ thread'[c].pc = "idle" /\ thread'[life + 1].pc = "begin"
    BY <1>4, WorkTypes, BegetFacts
  <2>2. /\ life' = life + 1 /\ ~Alive(life)
        /\ c \notin Lives /\ life \in Nat
    BY <1>4, <2>1, Names DEF Begets, ThreadIsAlive
  <2>3. \A l \in Lives : ~Alive(l)
    BY <2>2 DEF WorkInv, ThreadsInv, AliveIsLast
  <2>4. \A l \in Lives \ {life + 1} : thread'[l] = thread[l]
    BY <2>1, <2>2, Names
  <2>5. thread[life + 1].pc \in {"off", "ended"}
    BY <2>1, <2>3 DEF Alive
  <2>6. ThreadType' /\ RunHasStep'
    <3>1. ThreadType'
      BY <2>1 DEF ThreadType, ThreadRecord
    <3>2. RunHasStep'
      BY <2>1 DEF WorkInv, ThreadsInv, RunHasStep
    <3>3. QED
      BY <3>1, <3>2
  <2>7. AliveIsLast'
    BY <2>2, <2>3, <2>4 DEF AliveIsLast, Alive
  <2>8. BusyIsWorking'
    BY <1>1, <2>1, <2>3, <2>4, <2>5
       DEF WorkInv, ThreadsInv, BusyIsWorking, Alive
  <2>9. ClimbInv'
    <3>1. \A o \in Threads : thread'[o].pc = "up" => thread[o].pc = "up"
      BY <2>1
    <3>2. \A o \in Threads : thread[o].pc = "up" => thread'[o].pc = "up"
      BY <1>1, <2>1, <2>5
    <3>3. QED
      BY <1>1, <2>1, <3>1, <3>2 DEF WorkInv, ClimbInv
  <2>10. QED
    BY <1>1, <2>1, <2>2, <2>6, <2>7, <2>8, <2>9 DEF WorkInv, ThreadsInv
<1>5. QED
  BY <1>1, <1>3, <1>4

-----------------------------------------------------------------------------
LEMMA WorkInit == Init => WorkInv
<1> SUFFICES ASSUME Init PROVE WorkInv
  OBVIOUS
<1>1. /\ thread \in [Threads -> ThreadRecord] /\ 1 \in Lives
      /\ \A t \in Threads : thread[t].todo = << >>
      /\ \A t \in Threads : thread[t].pc \in {"begin", "off", "idle"}
      /\ \A l \in Lives \ {1} : thread[l].pc = "off"
  <2>1. \A t \in Threads : NoWork(IF t = 1 THEN "begin"
                                  ELSE IF t \in Lives THEN "off"
                                  ELSE "idle") \in ThreadRecord
    <3>1. << >> \in Seq(HwState) /\ "UNKNOWN" \in CpinState
      BY DEF CpinState
    <3>2. 0 \in 0 .. MaxSteps
      BY Names
    <3>3. QED
      BY <3>1, <3>2, PlaceNames DEF NoWork, ThreadRecord
  <2>2. 1 \in Lives
    BY Names DEF Lives
  <2>3. QED
    BY <2>1, <2>2, Names DEF Init, NoWork
<1>2. ThreadsInv
  BY <1>1 DEF Init, ThreadsInv, ThreadType, ThreadRecord, PortStatus,
              RunHasStep, AliveIsLast, Alive, BusyIsWorking
<1>3. ClimbInv
  BY <1>1 DEF Init, ClimbInv, Reached, OnTheWay
<1>4. QED
  BY <1>2, <1>3 DEF WorkInv

(* A step of a thread that is not part of a climb.                         *)
LEMMA CalmKeeps ==
  ASSUME WorkInv, NEW t \in Threads, Moves(t), Calm(t)
  PROVE  WorkInv'
<1>1. Only(t)
  BY DEF Moves
<1>2. QED
  BY <1>1, MovesKeepThreads, CalmKeepsClimb DEF WorkInv

LEMMA RestartKeeps ==
  ASSUME WorkInv, NEW t \in Threads, Restarts(t)
  PROVE  WorkInv'
<1>1. CASE RestartBegins(t) \/ ModemIsMute(t) \/ NoModem(t)
  BY <1>1, WorkTypes, RestartMoves, CalmKeeps
<1>2. CASE ModemIsBack(t)
  BY <1>2, WorkTypes, BackMoves, MovesKeepThreads, BackKeepsClimb DEF WorkInv
<1>3. CASE Climbs(t)
  BY <1>3, WorkTypes, ClimbMoves, MovesKeepThreads, ClimbKeepsClimb DEF WorkInv
<1>4. CASE RestartEnds(t)
  BY <1>4, WorkTypes, EndMoves, MovesKeepThreads, EndKeepsClimb DEF WorkInv
<1>5. QED
  BY <1>1, <1>2, <1>3, <1>4 DEF Restarts

(* What the other steps leave alone.                                       *)
LEMMA StillKeeps ==
  ASSUME WorkInv, UNCHANGED <<thread, status, hw, life>>
  PROVE  WorkInv'
BY DEF WorkInv, ThreadsInv, ClimbInv, ThreadType, RunHasStep, AliveIsLast,
       Alive, BusyIsWorking

LEMMA WorkerKeeps ==
  ASSUME WorkInv, WorkerNext
  PROVE  WorkInv'
<1>1. ASSUME NEW l \in Lives, Works(l) PROVE WorkInv'
  <2>1. l \in Threads
    BY Names
  <2>2. CASE \/ Begins(l) \/ Ends(l) \/ TakesReset(l) \/ TakesAction(l)
             \/ TakesRetry(l)
    BY <2>1, <2>2, WorkTypes, TickMoves, CalmKeeps
  <2>3. CASE TakesAuto(l) \/ NextStep(l)
    BY <2>1, <2>3, WorkTypes, RunMoves, CalmKeeps
  <2>4. CASE StepBegins(l) \/ ChecksSim(l) \/ StepEnds(l)
    BY <2>1, <2>4, WorkTypes, StepMoves, CalmKeeps
  <2>5. CASE Restarts(l)
    BY <2>1, <2>5, RestartKeeps
  <2>6. QED
    BY <1>1, <2>2, <2>3, <2>4, <2>5 DEF Works, Steps
<1>2. ASSUME NEW c \in Controllers, Controls(c) PROVE WorkInv'
  <2>1. c \in Threads
    BY Names
  <2>2. CASE TakesLock(c) \/ Joins(c) \/ PutsOff(c)
    BY <2>1, <2>2, WorkTypes, StopMoves, CalmKeeps
  <2>3. CASE Starts(c)
    BY <2>3, StartKeeps
  <2>4. CASE Restarts(c)
    BY <2>1, <2>4, RestartKeeps
  <2>5. QED
    BY <1>2, <2>2, <2>3, <2>4 DEF Controls
<1>3. CASE PortOn \/ PortOff \/ Restart
  BY <1>3, Names, WorkTypes, CommandMoves, CalmKeeps
<1>4. CASE ForceRetry \/ QueueAutoRun \/ ToggleAutoRun \/ ModemOnline
  <2>1. UNCHANGED <<thread, status, hw, life>>
    BY <1>4 DEF ForceRetry, QueueAutoRun, ToggleAutoRun, ModemOnline, control
  <2>2. QED
    BY <2>1, StillKeeps
<1>5. CASE Destroys
  BY <1>5, Names, WorkTypes, DestroyMoves, CalmKeeps
<1>6. QED
  BY <1>1, <1>2, <1>3, <1>4, <1>5 DEF WorkerNext, Commands

LEMMA WorkKept == WorkInv /\ [MassNext]_allVars => WorkInv'
<1> SUFFICES ASSUME WorkInv, [MassNext]_allVars PROVE WorkInv'
  OBVIOUS
<1>1. CASE WorkerNext
  BY <1>1, WorkerKeeps
<1>2. CASE StartMass \/ (\E k \in Masses : GoesOn(k)) \/ UNCHANGED allVars
  <2>1. UNCHANGED <<thread, status, hw, life>>
    BY <1>2 DEF StartMass, BeginsMass, GoesOn, SetsAction, Completes, allVars,
                vars, control
  <2>2. QED
    BY <2>1, StillKeeps
<1>3. QED
  BY <1>1, <1>2 DEF MassNext

LEMMA WorkHolds == MassSpec => []WorkInv
<1>1. MassInit => WorkInv
  BY WorkInit DEF MassInit
<1>2. QED
  BY <1>1, WorkKept, PTL DEF MassSpec

(* The port has one thread, whatever is stopped, started and restarted.    *)
THEOREM OneLoopHolds == MassSpec => []OneLoop
<1>1. WorkInv => OneLoop
  BY DEF WorkInv, ThreadsInv, AliveIsLast, OneLoop
<1>2. QED
  BY <1>1, WorkHolds, PTL

(* BUSY and RESET are shown only while a thread works on them.             *)
THEOREM BusyCorrect == MassSpec => []BusyIsWorking
<1>1. WorkInv => BusyIsWorking
  BY DEF WorkInv, ThreadsInv
<1>2. QED
  BY <1>1, WorkHolds, PTL

-----------------------------------------------------------------------------
(* Every step but a climb leaves the ways alone, or begins a new one.      *)
Finishes(t) == thread[t].todo = Way1 /\ thread'[t].todo = << >>
Complete == \A t \in Threads : Finishes(t) => hw' = "READY"

LEMMA WaysAreNotEmpty ==
  Way1 # << >> /\ \A way \in ShortWays \cup {Way5} : way # << >>
BY DEF Way1, Way5, ShortWays

LEMMA CalmIsComplete ==
  ASSUME NEW t \in Threads, Moves(t), Calm(t)
  PROVE  Complete
BY WaysAreNotEmpty DEF Moves, Only, Calm, Complete, Finishes

LEMMA RestartIsComplete ==
  ASSUME WorkInv, NEW t \in Threads, Restarts(t)
  PROVE  Complete
<1>1. CASE RestartBegins(t) \/ ModemIsMute(t) \/ NoModem(t)
  BY <1>1, WorkTypes, RestartMoves, CalmIsComplete
<1>2. CASE ModemIsBack(t)
  <2>1. Only(t) /\ thread'[t].todo # << >>
    BY <1>2, WorkTypes, BackMoves, WaysAreNotEmpty DEF Moves
  <2>2. QED
    BY <2>1, WaysAreNotEmpty DEF Only, Complete, Finishes
<1>3. CASE Climbs(t)
  <2>1. /\ Only(t) /\ thread[t].todo # << >>
        /\ Transition(Head(thread[t].todo))
    BY <1>3, WorkTypes, ClimbMoves DEF Moves
  <2>2. hw \in Reached /\ OnTheWay(thread[t].todo, hw)
    BY DEF WorkInv, ClimbInv
  <2>3. thread[t].todo = Way1 => hw' = "READY"
    BY <2>1, <2>2, ClimbKeepsWay
  <2>4. \A o \in Threads \ {t} : ~Finishes(o)
    BY <2>1, WaysAreNotEmpty DEF Only, Finishes
  <2>5. QED
    BY <2>3, <2>4 DEF Complete, Finishes
<1>4. CASE RestartEnds(t)
  <2>1. Only(t) /\ thread'[t].todo = thread[t].todo
    BY <1>4, WorkTypes, EndMoves DEF Moves
  <2>2. QED
    BY <2>1, WaysAreNotEmpty DEF Only, Complete, Finishes
<1>5. QED
  BY <1>1, <1>2, <1>3, <1>4 DEF Restarts

LEMMA StillIsComplete ==
  ASSUME thread' = thread
  PROVE  Complete
BY WaysAreNotEmpty DEF Complete, Finishes

LEMMA WorkerIsComplete ==
  ASSUME WorkInv, WorkerNext
  PROVE  Complete
<1>1. ASSUME NEW l \in Lives, Works(l) PROVE Complete
  <2>1. l \in Threads
    BY Names
  <2>2. CASE \/ Begins(l) \/ Ends(l) \/ TakesReset(l) \/ TakesAction(l)
             \/ TakesRetry(l)
    BY <2>1, <2>2, WorkTypes, TickMoves, CalmIsComplete
  <2>3. CASE TakesAuto(l) \/ NextStep(l)
    BY <2>1, <2>3, WorkTypes, RunMoves, CalmIsComplete
  <2>4. CASE StepBegins(l) \/ ChecksSim(l) \/ StepEnds(l)
    BY <2>1, <2>4, WorkTypes, StepMoves, CalmIsComplete
  <2>5. CASE Restarts(l)
    BY <2>1, <2>5, RestartIsComplete
  <2>6. QED
    BY <1>1, <2>2, <2>3, <2>4, <2>5 DEF Works, Steps
<1>2. ASSUME NEW c \in Controllers, Controls(c) PROVE Complete
  <2>1. c \in Threads
    BY Names
  <2>2. CASE TakesLock(c) \/ Joins(c) \/ PutsOff(c)
    BY <2>1, <2>2, WorkTypes, StopMoves, CalmIsComplete
  <2>3. CASE Starts(c)
    <3>1. CASE Moves(c) /\ Calm(c)
      BY <2>1, <3>1, CalmIsComplete
    <3>2. CASE Begets(c)
      <4>1. \A o \in Threads : thread'[o].todo = thread[o].todo
        BY <3>2, WorkTypes, BegetFacts
      <4>2. QED
        BY <4>1, WaysAreNotEmpty DEF Complete, Finishes
    <3>3. QED
      BY <2>3, <3>1, <3>2, WorkTypes, StartMoves
  <2>4. CASE Restarts(c)
    BY <2>1, <2>4, RestartIsComplete
  <2>5. QED
    BY <1>2, <2>2, <2>3, <2>4 DEF Controls
<1>3. CASE PortOn \/ PortOff \/ Restart
  BY <1>3, Names, WorkTypes, CommandMoves, CalmIsComplete
<1>4. CASE ForceRetry \/ QueueAutoRun \/ ToggleAutoRun \/ ModemOnline
  BY <1>4, StillIsComplete
     DEF ForceRetry, QueueAutoRun, ToggleAutoRun, ModemOnline
<1>5. CASE Destroys
  BY <1>5, Names, WorkTypes, DestroyMoves, CalmIsComplete
<1>6. QED
  BY <1>1, <1>2, <1>3, <1>4, <1>5 DEF WorkerNext, Commands

(* A restart that has found the SIM ready says so with the state machine   *)
(* at READY, from whatever state it began in and whatever other threads    *)
(* did to the state machine meanwhile.                                     *)
THEOREM BringUpHolds == MassSpec => BringUpIsComplete
<1>1. ASSUME WorkInv, [MassNext]_allVars PROVE Complete
  <2>1. CASE WorkerNext
    BY <2>1, <1>1, WorkerIsComplete
  <2>2. CASE StartMass \/ (\E k \in Masses : GoesOn(k)) \/ UNCHANGED allVars
    <3>1. thread' = thread
      BY <2>2 DEF StartMass, BeginsMass, GoesOn, SetsAction, Completes,
                  allVars, vars
    <3>2. QED
      BY <3>1, StillIsComplete
  <2>3. QED
    BY <1>1, <2>1, <2>2 DEF MassNext
<1>2. Complete => \A t \in Threads :
        (thread[t].todo = <<"READY">> /\ thread'[t].todo = << >>)
          => hw' = "READY"
  BY DEF Complete, Finishes, Way1
<1>3. WorkInv /\ [MassNext]_allVars
        => [\A t \in Threads :
              (thread[t].todo = <<"READY">> /\ thread'[t].todo = << >>)
                => hw' = "READY"]_vars
  BY <1>1, <1>2
<1>4. QED
  BY <1>3, WorkHolds, PTL DEF MassSpec, BringUpIsComplete

-----------------------------------------------------------------------------
(* The fields that no thread's place depends on stay in their types.       *)

LEMMA QuietKeeps ==
  ASSUME PlaceType, ClickType, Quiet
  PROVE  PlaceType' /\ ClickType'
BY Zenon DEF PlaceType, ClickType, Quiet, place

LEMMA TickTypes ==
  ASSUME FieldType, NEW l \in Lives,
         \/ Begins(l) \/ Ends(l) \/ TakesReset(l) \/ TakesAction(l)
         \/ TakesRetry(l) \/ TakesAuto(l) \/ Steps(l)
  PROVE  FieldType'
<1>1. /\ Quiet /\ online' = online
      /\ reset' \in {reset, FALSE} /\ retry' \in {retry, FALSE}
      /\ auto' \in {auto, FALSE} /\ action' \in {action, NoAction}
  BY Zenon DEF Begins, Ends, TakesReset, TakesAction, TakesRetry, TakesAuto,
               Steps, NextStep, StepBegins, ChecksSim, StepEnds, requests
<1>2. FlagType'
  BY Zenon, <1>1 DEF FieldType, FlagType, Quiet, control
<1>3. RequestType'
  BY Zenon, <1>1 DEF FieldType, RequestType
<1>4. QED
  BY <1>1, <1>2, <1>3, QuietKeeps DEF FieldType

LEMMA RestartTypes ==
  ASSUME FieldType, NEW t \in Threads, Restarts(t)
  PROVE  FieldType'
<1>1. /\ Quiet /\ online' \in {online, TRUE, FALSE}
      /\ UNCHANGED <<reset, action, retry>>
  BY Zenon DEF Restarts, RestartBegins, ModemIsMute, ModemIsBack, NoModem,
               Climbs, RestartEnds, requests
<1>2. auto' \in BOOLEAN
  <2>1. auto' = auto \/ auto' \in BOOLEAN
    BY Zenon DEF Restarts, RestartBegins, ModemIsMute, ModemIsBack, NoModem,
                 Climbs, RestartEnds, requests
  <2>2. QED
    BY Zenon, <2>1 DEF FieldType, RequestType
<1>3. FlagType'
  BY Zenon, <1>1 DEF FieldType, FlagType, Quiet, control
<1>4. RequestType'
  BY Zenon, <1>1, <1>2 DEF FieldType, RequestType
<1>5. QED
  BY <1>1, <1>3, <1>4, QuietKeeps DEF FieldType

LEMMA ControlTypes ==
  ASSUME FieldType, NEW c \in Controllers,
         Starts(c) \/ TakesLock(c) \/ Joins(c) \/ PutsOff(c)
  PROVE  FieldType'
<1>1. CASE Starts(c)
  <2>1. /\ UNCHANGED <<place, online, autoRun, requests, restarting, clicks>>
        /\ running' \in {running, TRUE}
    BY Zenon, <1>1 DEF Starts, Start, control
  <2>2. QED
    BY Zenon, <2>1 DEF FieldType, PlaceType, FlagType, RequestType, ClickType,
                       place, requests
<1>2. CASE TakesLock(c) \/ Joins(c)
  <2>1. UNCHANGED <<online, requests>> /\ Quiet
    BY Zenon, <1>2 DEF TakesLock, Joins
  <2>2. QED
    BY Zenon, <2>1 DEF FieldType, PlaceType, FlagType, RequestType, ClickType,
                       Quiet, place, requests, control
<1>3. CASE PutsOff(c)
  <2>1. /\ UNCHANGED <<place, online, control, autoRun, clicks>>
        /\ restarting' \in {restarting, FALSE}
        /\ \/ DropRequests
           \/ UNCHANGED requests
    BY Zenon, <1>3 DEF PutsOff
  <2>2. RequestType'
    BY Zenon, <2>1 DEF FieldType, RequestType, requests, DropRequests
  <2>3. QED
    BY Zenon, <2>1, <2>2 DEF FieldType, PlaceType, FlagType, ClickType, place,
                             control
<1>4. QED
  BY <1>1, <1>2, <1>3

LEMMA ClickTypes ==
  ASSUME ClickType, Clicks
  PROVE  ClickType'
BY Names DEF ClickType, Clicks

LEMMA CommandTypes ==
  ASSUME FieldType, Commands
  PROVE  FieldType'
<1>1. Clicks
  BY DEF Commands, PortOn, PortOff, Restart, StopBegins, ForceRetry,
         QueueAutoRun, ToggleAutoRun
<1>2. ClickType'
  BY <1>1, ClickTypes DEF FieldType
<1>3. PlaceType'
  <2>1. UNCHANGED place
    BY Zenon DEF Commands, PortOn, PortOff, Restart, StopBegins, ForceRetry,
                 QueueAutoRun, ToggleAutoRun
  <2>2. QED
    BY Zenon, <2>1 DEF FieldType, PlaceType, place
<1>4. RequestType'
  <2>1. /\ reset' = reset /\ action' = action
        /\ retry' \in {retry, TRUE} /\ auto' \in {auto, TRUE}
    BY Zenon DEF Commands, PortOn, PortOff, Restart, StopBegins, ForceRetry,
                 QueueAutoRun, ToggleAutoRun, requests
  <2>2. QED
    BY Zenon, <2>1 DEF FieldType, RequestType
<1>5. FlagType'
  <2>1. /\ online' = online /\ running' \in {running, FALSE}
        /\ autoRun' \in {autoRun, ~autoRun}
        /\ restarting' \in {restarting, TRUE, FALSE}
    BY Zenon DEF Commands, PortOn, PortOff, Restart, StopBegins, ForceRetry,
                 QueueAutoRun, ToggleAutoRun, control
  <2>2. QED
    BY Zenon, <2>1 DEF FieldType, FlagType
<1>6. QED
  BY <1>2, <1>3, <1>4, <1>5 DEF FieldType

LEMMA OutsideTypes ==
  ASSUME FieldType, ModemOnline \/ Destroys
  PROVE  FieldType'
<1>1. /\ UNCHANGED <<autoRun, requests, restarting, clicks>>
      /\ online' \in {TRUE, FALSE} /\ running' \in {running, FALSE}
      /\ announced' \in {announced, TRUE}
      /\ registered' \in {registered, FALSE}
      /\ line' \in {line, "closed"}
  BY Zenon DEF ModemOnline, Destroys, control
<1>2. PlaceType'
  BY Zenon, <1>1 DEF FieldType, PlaceType
<1>3. FlagType'
  BY Zenon, <1>1 DEF FieldType, FlagType
<1>4. RequestType' /\ ClickType'
  BY Zenon, <1>1 DEF FieldType, RequestType, ClickType, requests
<1>5. QED
  BY <1>2, <1>3, <1>4 DEF FieldType

LEMMA MassTypes ==
  ASSUME FieldType,
         StartMass \/ (\E k \in Masses : GoesOn(k)) \/ UNCHANGED allVars
  PROVE  FieldType'
<1>1. CASE StartMass \/ (\E k \in Masses : Completes(k)) \/ UNCHANGED allVars
  <2>1. UNCHANGED vars
    BY Zenon, <1>1 DEF StartMass, BeginsMass, Completes, allVars
  <2>2. QED
    BY Zenon, <2>1 DEF FieldType, PlaceType, FlagType, RequestType, ClickType,
                       vars, place, control, requests
<1>2. ASSUME NEW k \in Masses, SetsAction(k) PROVE FieldType'
  <2>1. /\ UNCHANGED <<place, online, control, autoRun, reset, retry, auto,
                       restarting, clicks>>
        /\ action' \in Actions
    BY Zenon, <1>2 DEF SetsAction
  <2>2. QED
    BY Zenon, <2>1 DEF FieldType, PlaceType, FlagType, RequestType, ClickType,
                       place, control
<1>3. QED
  BY <1>1, <1>2 DEF GoesOn

LEMMA FieldsKept == FieldType /\ [MassNext]_allVars => FieldType'
<1> SUFFICES ASSUME FieldType, [MassNext]_allVars PROVE FieldType'
  OBVIOUS
<1>1. CASE WorkerNext
  <2>1. ASSUME NEW l \in Lives, Works(l) PROVE FieldType'
    BY <2>1, Names, TickTypes, RestartTypes DEF Works
  <2>2. ASSUME NEW c \in Controllers, Controls(c) PROVE FieldType'
    BY <2>2, Names, ControlTypes, RestartTypes DEF Controls
  <2>3. QED
    BY <1>1, <2>1, <2>2, CommandTypes, OutsideTypes DEF WorkerNext
<1>2. CASE StartMass \/ (\E k \in Masses : GoesOn(k)) \/ UNCHANGED allVars
  BY <1>2, MassTypes
<1>3. QED
  BY <1>1, <1>2 DEF MassNext

(* The worker's state has its types.                                       *)
THEOREM WorkerTypeCorrect == MassSpec => []TypeOK
<1>1. MassInit => FieldType
  <2>1. Init => PlaceType /\ FlagType
    BY Zenon DEF Init, PlaceType, FlagType
  <2>2. Init => RequestType
    BY Zenon DEF Init, RequestType
  <2>3. Init => ClickType
    BY Names DEF Init, ClickType
  <2>4. QED
    BY <2>1, <2>2, <2>3 DEF MassInit, FieldType
<1>2. WorkInv /\ FieldType => TypeOK
  <2> SUFFICES ASSUME WorkInv, FieldType PROVE TypeOK
    OBVIOUS
  <2>1. {announced, registered, online, running, autoRun, reset, retry, auto,
         restarting} \subseteq BOOLEAN
    BY Zenon DEF FieldType, PlaceType, FlagType, RequestType
  <2>2. QED
    BY <2>1, WorkTypes
       DEF TypeOK, FieldType, PlaceType, RequestType, ClickType
<1>3. QED
  BY <1>1, <1>2, FieldsKept, WorkHolds, PTL DEF MassSpec

-----------------------------------------------------------------------------
(* The mass actions: the last one that was begun is the only one that may  *)
(* still run, and the current action is its own until it has ended.        *)
MassInv ==
  /\ begun \in 0 .. MaxMass
  /\ mass \in [Masses -> [pc : {"off", "begin", "wait", "ended"},
                          uses : 0 .. MaxMass]]
  /\ progress \in [Masses -> [completed : Nat, success : Nat]]
  /\ \A k \in Masses :
       /\ mass[k].pc \in {"begin", "wait"} => k = begun /\ current = k
       /\ mass[k].pc = "wait" => mass[k].uses = k
       /\ mass[k].pc = "off" <=> k > begun
       /\ progress[k].completed = IF mass[k].pc = "ended" THEN Total ELSE 0

LEMMA ProgressFacts ==
  ASSUME NEW p \in [completed : Nat, success : Nat],
         NEW m \in Nat, NEW n \in Nat
  PROVE  LET r == [p EXCEPT !.completed = m, !.success = n] IN
         r \in [completed : Nat, success : Nat] /\ r.completed = m
OBVIOUS

LEMMA MassKept == MassInv /\ [MassNext]_allVars => MassInv'
<1> SUFFICES ASSUME MassInv, [MassNext]_allVars PROVE MassInv'
  OBVIOUS
<1>0. MaxMass \in Nat \ {0} /\ Masses \subseteq Nat
  BY MassAssumption DEF Masses
<1>1. CASE UNCHANGED massVars
  BY <1>1 DEF massVars, MassInv
<1>2. CASE StartMass
  <2>1. /\ begun + 1 \in Masses /\ begun' = begun + 1 /\ current' = begun + 1
        /\ mass' = [mass EXCEPT ![begun + 1].pc = "begin"]
        /\ progress' = progress
    BY <1>0, <1>2 DEF StartMass, BeginsMass, MassInv, Masses
  <2>2. \A k \in Masses : mass[k].pc \notin {"begin", "wait"}
    BY <1>0, <1>2 DEF StartMass, MassIsRunning, MassInv, Masses
  <2> DEFINE r == [mass[begun + 1] EXCEPT !.pc = "begin"]
  <2>3. /\ r \in [pc : {"off", "begin", "wait", "ended"}, uses : 0 .. MaxMass]
        /\ r.pc = "begin"
    BY <2>1 DEF MassInv
  <2>4. mass' = [mass EXCEPT ![begun + 1] = r]
    BY <2>1
  <2> HIDE DEF r
  <2>5. /\ mass' \in [Masses -> [pc : {"off", "begin", "wait", "ended"},
                                 uses : 0 .. MaxMass]]
        /\ mass'[begun + 1].pc = "begin"
        /\ \A k \in Masses \ {begun + 1} : mass'[k] = mass[k]
    BY <2>1, <2>3, <2>4 DEF MassInv
  <2>6. progress[begun + 1].completed = 0
    BY <1>0, <2>1 DEF MassInv
  <2>7. begun' \in 0 .. MaxMass
    BY <1>0, <2>1 DEF Masses
  <2>8. ASSUME NEW k \in Masses
        PROVE  mass'[k].pc = "off" <=> k > begun'
    <3>1. k # begun + 1 => (k > begun <=> k > begun')
      BY <1>0, <2>1 DEF MassInv
    <3>2. CASE k = begun + 1
      BY <1>0, <2>1, <2>5, <3>2
    <3>3. CASE k # begun + 1
      <4>1. mass[k].pc = "off" <=> k > begun
        BY DEF MassInv
      <4>2. QED
        BY <2>5, <3>1, <3>3, <4>1
    <3>4. QED
      BY <3>2, <3>3
  <2>9. QED
    BY <2>1, <2>2, <2>5, <2>6, <2>7, <2>8 DEF MassInv
<1>3. ASSUME NEW k \in Masses, SetsAction(k) PROVE MassInv'
  <2>1. /\ mass[k].pc = "begin" /\ k = begun /\ current = k
        /\ mass' = [mass EXCEPT ![k] = [pc |-> "wait", uses |-> k]]
        /\ UNCHANGED <<begun, current, progress>>
    BY <1>3 DEF SetsAction, MassInv
  <2>2. k \in 0 .. MaxMass
    BY <1>0 DEF Masses
  <2>3. QED
    BY <2>1, <2>2 DEF MassInv
<1>4. ASSUME NEW k \in Masses, Completes(k) PROVE MassInv'
  <2>1. /\ mass[k].pc = "wait" /\ k = begun /\ mass[k].uses = k
        /\ mass' = [mass EXCEPT ![k].pc = "ended"]
        /\ begun' = begun /\ progress[k].completed = 0
    BY <1>4 DEF Completes, MassInv
  <2>2. PICK n \in Nat : progress' =
          [progress EXCEPT ![k].completed = @ + 1, ![k].success = n]
    <3>1. progress[k].success \in Nat /\ progress[k].success + 1 \in Nat
      BY DEF MassInv
    <3>2. CASE status = "READY"
      BY <1>4, <2>1, <3>1, <3>2 DEF Completes
    <3>3. CASE status # "READY"
      BY <1>4, <2>1, <3>1, <3>3 DEF Completes
    <3>4. QED
      BY <3>2, <3>3
  <2>3. /\ progress' \in [Masses -> [completed : Nat, success : Nat]]
        /\ progress'[k].completed = 1
        /\ \A j \in Masses \ {k} : progress'[j] = progress[j]
    <3> DEFINE r == [progress[k] EXCEPT !.completed = progress[k].completed + 1,
                                        !.success = n]
    <3>1. r \in [completed : Nat, success : Nat] /\ r.completed = 1
      <4>1. progress[k].completed + 1 = 1
        BY <2>1
      <4>2. progress[k] \in [completed : Nat, success : Nat]
        BY DEF MassInv
      <4>3. QED
        BY <4>1, <4>2, ProgressFacts
    <3>2. progress' = [progress EXCEPT ![k] = r]
      BY <2>2
    <3> HIDE DEF r
    <3>3. QED
      BY <3>1, <3>2 DEF MassInv
  <2>4. /\ mass' \in [Masses -> [pc : {"off", "begin", "wait", "ended"},
                                 uses : 0 .. MaxMass]]
        /\ mass'[k].pc = "ended"
        /\ \A j \in Masses \ {k} : mass'[j] = mass[j]
    BY <2>1 DEF MassInv
  <2>5. QED
    BY <2>1, <2>3, <2>4 DEF MassInv, Total
<1>5. QED
  BY <1>1, <1>2, <1>3, <1>4 DEF MassNext, GoesOn, allVars, massVars

(* A mass action that has ended reports its one port, and no other counts  *)
(* in its report.                                                          *)
THEOREM MassCorrect == MassSpec => []MassAddsUp
<1>1. MassInit => MassInv
  <2>1. MaxMass \in Nat \ {0} /\ Masses \subseteq Nat
    BY MassAssumption DEF Masses
  <2>2. \A k \in Masses : k > 0
    BY DEF Masses
  <2>3. QED
    BY <2>1, <2>2 DEF MassInit, MassInv
<1>2. MassInv => MassAddsUp
  BY DEF MassInv, MassAddsUp, Total
<1>3. QED
  BY <1>1, <1>2, MassKept, PTL DEF MassSpec
=============================================================================
