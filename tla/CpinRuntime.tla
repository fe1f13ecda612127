----------------------------- MODULE CpinRuntime -----------------------------
(***************************************************************************)
(* The SIM monitor of one port (SAIKI/worker/cpin_runtime.py): a thread    *)
(* polls the modem with AT+CPIN?, asks a second time before it gives READY *)
(* up, counts the answers it does not believe yet, and publishes           *)
(* cpin.transition when the state changes.                                 *)
(*                                                                         *)
(* Three actors:                                                           *)
(*   - the poller, _poll_loop;                                             *)
(*   - the thread that takes the worker down (PortWorker.disconnect), which*)
(*     stops the poller, waits for it at most five seconds, clears the     *)
(*     counters under its feet and closes the serial port;                 *)
(*   - the modem, whose SIM is put in and taken out and which sometimes    *)
(*     answers something else: nothing, or a line meant for another        *)
(*     command.                                                            *)
(***************************************************************************)
EXTENDS Integers, FiniteSets

CONSTANTS
  UnknownThreshold,  \* CPIN_UNKNOWN_THRESHOLD, 3
  RemovalThreshold,  \* CPIN_MAX_REMOVAL_CONFIRM, 2
  Glitches,          \* what a misread answer can be
  AbsentAnswer,      \* how the modem says that it has no SIM
  MaxGlitches,       \* bound: misread answers
  MaxSwaps           \* bound: changes of the SIM

(* The answers the parser tells apart, by the text of the modem.  NONE is  *)
(* a raw answer of None, which the runtime allows for and ATClient never   *)
(* returns.                                                                *)
Raws == {"+CPIN: READY", "+CPIN: NOT READY", "+CME ERROR: SIM NOT INSERTED",
         "+CME ERROR: 10", "+CPIN: SIM PIN", "OTHER LINE", "", "NONE"}

CpinState == {"READY", "NOT_INSERTED", "PIN_REQUIRED", "NOT_READY", "UNKNOWN"}

SimConditions == {"ready", "absent", "locked", "starting"}

ASSUME CpinAssumption ==
  /\ UnknownThreshold \in Nat \ {0, 1}
  /\ RemovalThreshold \in Nat \ {0, 1}
  /\ Glitches \subseteq Raws
  /\ AbsentAnswer \in Raws
  /\ MaxGlitches \in Nat
  /\ MaxSwaps \in Nat

(* The answers that are counted before they are believed.                  *)
Counted == {"UNKNOWN", "NOT_INSERTED"}

Threshold == [k \in Counted |-> IF k = "UNKNOWN" THEN UnknownThreshold
                                                ELSE RemovalThreshold]

VARIABLES
  sim,       \* the SIM in the modem
  swaps,     \* how often it changed
  glitches,  \* answers misread so far
  open,      \* whether the serial port is open
  running,   \* CpinRuntime._running
  poller,    \* the poll thread
  state,     \* _current_state
  count,     \* _unknown_count and _removal_confirm_count
  heard,     \* the "new" of the last cpin.transition delivered
  polled,    \* _first_poll_done
  stopper,   \* how far PortWorker.disconnect has come
  late       \* transitions published after the poller was told to stop

cpinVars == <<sim, swaps, glitches, open, running, poller, state, count, heard,
              polled, stopper, late>>
modem == <<sim, swaps, glitches>>

PollSteps == {"sleep", "query", "judge", "confirm", "confirmed", "store", "weigh",
              "publish", "exited"}
StopSteps == {"idle", "joining", "stopped", "reset", "closed"}

PollerType == [pc : PollSteps, raw : Raws, answer : CpinState,
               before : CpinState, loaded : Nat]

-----------------------------------------------------------------------------
(* Mutant of ParseCpin: READY is looked for before NOT READY, which        *)
(* contains it.                                                            *)
ParseReadyFirst(raw) ==
  CASE raw = "NONE" -> "UNKNOWN"
    [] raw \in {"+CPIN: READY", "+CPIN: NOT READY"} -> "READY"
    [] raw = "+CME ERROR: SIM NOT INSERTED" -> "NOT_INSERTED"
    [] raw = "+CPIN: SIM PIN" -> "PIN_REQUIRED"
    [] OTHER -> "NOT_READY"

(* parse_cpin_response.                                                    *)
ParseCpin(raw) ==
  CASE raw = "NONE" -> "UNKNOWN"
    [] raw = "+CPIN: NOT READY" -> "NOT_READY"
    [] raw = "+CPIN: READY" -> "READY"
    [] raw = "+CME ERROR: SIM NOT INSERTED" -> "NOT_INSERTED"
    [] raw = "+CPIN: SIM PIN" -> "PIN_REQUIRED"
    [] OTHER -> "NOT_READY"

(* What a modem with this SIM answers.                                     *)
SimAnswer(s) ==
  CASE s = "ready" -> "+CPIN: READY"
    [] s = "absent" -> AbsentAnswer
    [] s = "locked" -> "+CPIN: SIM PIN"
    [] OTHER -> "+CPIN: NOT READY"

(* _send_cpin_query: the text that comes back and the glitches spent.  A   *)
(* closed port takes no command, and the answer is empty.                  *)
Answers ==
  IF ~open
  THEN {<<"", glitches>>}
  ELSE {<<SimAnswer(sim), glitches>>}
       \cup {<<g, glitches + 1>> : g \in IF glitches < MaxGlitches THEN Glitches ELSE {}}

-----------------------------------------------------------------------------
CpinInit ==
  /\ sim \in SimConditions
  /\ swaps = 0
  /\ glitches = 0
  /\ open = TRUE
  /\ running = TRUE
  /\ poller = [pc |-> "sleep", raw |-> "", answer |-> "UNKNOWN",
               before |-> "UNKNOWN", loaded |-> 0]
  /\ state = "UNKNOWN"
  /\ count = [k \in Counted |-> 0]
  /\ heard = "UNKNOWN"
  /\ polled = FALSE
  /\ stopper = "idle"
  /\ late = 0

-----------------------------------------------------------------------------
(* The poller.                                                             *)

(* The loop's test after the sleep.                                        *)
LoopTest ==
  /\ poller.pc = "sleep"
  /\ poller' = [poller EXCEPT !.pc = IF running THEN "query" ELSE "exited"]
  /\ UNCHANGED <<modem, open, running, state, count, heard, polled, stopper, late>>

(* AT+CPIN? and its answer, after the input buffer is flushed.             *)
Ask(from, to) ==
  /\ poller.pc = from
  /\ \E a \in Answers :
       /\ glitches' = a[2]
       /\ poller' = [poller EXCEPT !.pc = to, !.raw = a[1],
                                   !.answer = ParseCpin(a[1]), !.before = poller.answer]
  /\ UNCHANGED <<sim, swaps, open, running, state, count, heard, polled, stopper, late>>

Query == Ask("query", "judge")
ConfirmQuery == Ask("confirm", "confirmed")

(* The poll comes to a state: a change is published, the same state ends   *)
(* the poll.                                                               *)
Conclude(new) ==
  /\ state' = new
  /\ poller' = [poller EXCEPT !.pc = IF new = state THEN "sleep" ELSE "publish"]
  /\ polled' = (polled \/ new = state)

(* Mutant of NeedsConfirmation: NOT_READY is believed at once.             *)
NeedsNoConfirmation ==
  /\ state = "READY"
  /\ poller.answer \notin {"READY", "NOT_READY"}
  /\ poller.answer \in Counted => count[poller.answer] >= Threshold[poller.answer]

(* _check_confirmation_needed.                                             *)
NeedsConfirmation ==
  /\ state = "READY"
  /\ poller.answer # "READY"
  /\ poller.answer \in Counted => count[poller.answer] >= Threshold[poller.answer]

AskAgain ==
  /\ poller.pc = "judge"
  /\ NeedsConfirmation
  /\ poller' = [poller EXCEPT !.pc = "confirm"]
  /\ UNCHANGED <<modem, open, running, state, count, heard, polled, stopper, late>>

Confirmed ==
  /\ poller.pc = "confirmed"
  /\ Conclude(IF poller.answer = "READY" THEN state ELSE poller.answer)
  /\ UNCHANGED <<modem, open, running, count, heard, stopper, late>>

(* _apply_stabilization, the cases that count: self._count += 1 is a load  *)
(* and a store, and reset_stabilization can run between them.              *)
LoadCount ==
  /\ poller.pc = "judge"
  /\ ~NeedsConfirmation
  /\ state = "READY" /\ poller.answer \in Counted
  /\ poller' = [poller EXCEPT !.pc = "store", !.loaded = count[poller.answer]]
  /\ UNCHANGED <<modem, open, running, state, count, heard, polled, stopper, late>>

StoreCount ==
  /\ poller.pc = "store"
  /\ count' = [count EXCEPT ![poller.answer] = poller.loaded + 1]
  /\ poller' = [poller EXCEPT !.pc = "weigh"]
  /\ UNCHANGED <<modem, open, running, state, heard, polled, stopper, late>>

Zeros == [k \in Counted |-> 0]

Weigh ==
  /\ poller.pc = "weigh"
  /\ IF count[poller.answer] < Threshold[poller.answer]
     THEN Conclude(state) /\ UNCHANGED count
     ELSE IF poller.answer = "UNKNOWN"
          THEN Conclude("NOT_READY") /\ count' = [count EXCEPT !["UNKNOWN"] = 0]
          ELSE Conclude("NOT_INSERTED") /\ count' = Zeros
  /\ UNCHANGED <<modem, open, running, heard, stopper, late>>

(* Mutant of Accept: READY is accepted from UNKNOWN and NOT_READY alone.   *)
AcceptReadyFromStarting ==
  /\ poller.pc = "judge"
  /\ ~NeedsConfirmation
  /\ ~ (state = "READY" /\ poller.answer \in Counted)
  /\ LET new == IF poller.answer = "READY" /\ state \in {"NOT_INSERTED", "PIN_REQUIRED"}
                THEN state ELSE poller.answer
     IN Conclude(new) /\ count' = IF new = state THEN count ELSE Zeros
  /\ UNCHANGED <<modem, open, running, heard, stopper, late>>

(* _apply_stabilization, the other cases: the answer is taken, and a       *)
(* change clears the counters.  READY answered to READY clears nothing.    *)
Accept ==
  /\ poller.pc = "judge"
  /\ ~NeedsConfirmation
  /\ ~ (state = "READY" /\ poller.answer \in Counted)
  /\ Conclude(poller.answer)
  /\ count' = IF poller.answer = state THEN count ELSE Zeros
  /\ UNCHANGED <<modem, open, running, heard, stopper, late>>

(* Mutant of Publish: the event carries the raw answer.                    *)
PublishAnswer ==
  /\ poller.pc = "publish"
  /\ heard' = poller.answer
  /\ polled' = TRUE
  /\ late' = IF running THEN late ELSE late + 1
  /\ poller' = [poller EXCEPT !.pc = "sleep"]
  /\ UNCHANGED <<modem, open, running, state, count, stopper>>

(* cpin.transition is delivered, and its handlers run, on this thread.     *)
(* cpin_state has already shown the new state to the other threads.        *)
Publish ==
  /\ poller.pc = "publish"
  /\ heard' = state
  /\ polled' = TRUE
  /\ late' = IF running THEN late ELSE late + 1
  /\ poller' = [poller EXCEPT !.pc = "sleep"]
  /\ UNCHANGED <<modem, open, running, state, count, stopper>>

Poll == \/ LoopTest \/ Query \/ AskAgain \/ ConfirmQuery \/ Confirmed
        \/ LoadCount \/ StoreCount \/ Weigh \/ Accept \/ Publish

-----------------------------------------------------------------------------
(* PortWorker.disconnect.                                                  *)

StopRequested ==
  /\ stopper = "idle"
  /\ running' = FALSE
  /\ stopper' = "joining"
  /\ UNCHANGED <<modem, open, poller, state, count, heard, polled, late>>

(* join returns because the poller is gone, or after five seconds.  A poll *)
(* waits for the AT client's lock and then for two answers of three        *)
(* seconds each, so five seconds can pass wherever the poller is.          *)
JoinReturns ==
  /\ stopper = "joining"
  /\ stopper' = "stopped"
  /\ UNCHANGED <<modem, open, running, poller, state, count, heard, polled, late>>

ResetStabilization ==
  /\ stopper = "stopped"
  /\ count' = Zeros
  /\ stopper' = "reset"
  /\ UNCHANGED <<modem, open, running, poller, state, heard, polled, late>>

CloseSerial ==
  /\ stopper = "reset"
  /\ open' = FALSE
  /\ stopper' = "closed"
  /\ UNCHANGED <<modem, running, poller, state, count, heard, polled, late>>

Disconnect == StopRequested \/ JoinReturns \/ ResetStabilization \/ CloseSerial

(* Somebody puts a SIM in, takes it out, or it finishes starting.          *)
SwapSim ==
  /\ swaps < MaxSwaps
  /\ sim' \in SimConditions \ {sim}
  /\ swaps' = swaps + 1
  /\ UNCHANGED <<glitches, open, running, poller, state, count, heard, polled,
                 stopper, late>>

CpinNext == Poll \/ Disconnect \/ SwapSim

(* The poller runs, and a disconnect that has begun runs to its end.       *)
CpinFairness == WF_cpinVars(Poll) /\ WF_cpinVars(Disconnect /\ stopper # "idle")

CpinSpec == CpinInit /\ [][CpinNext]_cpinVars
FairCpinSpec == CpinSpec /\ CpinFairness

-----------------------------------------------------------------------------
(* Every variable keeps its type.                                          *)
CpinTypeOK ==
  /\ sim \in SimConditions
  /\ swaps \in 0 .. MaxSwaps
  /\ glitches \in 0 .. MaxGlitches
  /\ open \in BOOLEAN
  /\ running \in BOOLEAN
  /\ poller \in PollerType
  /\ state \in CpinState
  /\ count \in [Counted -> Nat]
  /\ heard \in CpinState
  /\ polled \in BOOLEAN
  /\ stopper \in StopSteps
  /\ late \in Nat

AtRest == poller.pc \in {"sleep", "query", "exited"}

(* Between two polls no counter stands at its threshold: the counters are  *)
(* cleared whenever they take READY away, also when reset_stabilization    *)
(* runs in the middle of an increment.  So the confirmation that           *)
(* _check_confirmation_needed reserves for counters at their threshold     *)
(* never happens.                                                          *)
CountsBelowThreshold ==
  poller.pc \in {"sleep", "query", "judge", "exited"} =>
    \A k \in Counted : count[k] < Threshold[k]

(* Between two polls a state other than READY is what the modem said last  *)
(* (a run of unknown answers counts as NOT_READY): stabilisation delays    *)
(* the loss of READY and nothing else.                                     *)
BadStateIsLastAnswer ==
  AtRest /\ state # "READY" =>
    \/ state = poller.answer
    \/ state = "NOT_READY" /\ poller.answer = "UNKNOWN"

(* Between two polls the subscribers of cpin.transition have been told the *)
(* state that cpin_state returns: no change is published twice, late or    *)
(* with the wrong value.                                                   *)
SubscribersAgree == AtRest => heard = state

(* Once the poller was told to stop, at most the poll under way publishes  *)
(* a transition, however long the disconnect takes.                        *)
OneLateTransition == late <= 1

(* READY is never lost to one answer.                                      *)
Doubtful ==
  /\ state = "READY"
  /\ \/ poller.pc \in {"confirm", "confirmed"}
     \/ \E k \in Counted :
          count[k] > IF poller.pc = "weigh" /\ poller.answer = k THEN 1 ELSE 0

Debounced == INSTANCE DebouncedSim
  WITH States <- CpinState, Ready <- "READY", Unknown <- "UNKNOWN",
       view <- state, doubtful <- Doubtful

(* The state a port shows is debounced as DebouncedSim says, whatever the  *)
(* modem answers and whenever the counters are cleared.                    *)
ImplementsDebounce == Debounced!DebounceSpec

(* A SIM that stays unusable takes READY away in the end, unless the       *)
(* poller is stopped: counting and confirming never hold on to READY.      *)
LossIsNoticed ==
  <>[](sim # "ready") => <>[](state # "READY" \/ ~running)

(* A SIM that stays usable is shown READY in the end, unless the poller is *)
(* stopped, from every state the port can be in.                           *)
ReadyIsNoticed ==
  <>[](sim = "ready") => <>[](state = "READY" \/ ~running)
===============================================================================
