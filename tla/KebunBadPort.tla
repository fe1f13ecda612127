----------------------------- MODULE KebunBadPort -----------------------------
(***************************************************************************)
(* The worker of one port of BAD, a later variant of the single-file       *)
(* program GOOD (KebunPort).  What is new: a reset that cancels a running  *)
(* flow at its checkpoints, injections that are repeated when the operator *)
(* refuses them, operator's menus that wait for an answer until they       *)
(* expire, and a shutdown from the thread of the window.                   *)
(*                                                                         *)
(* In run() all that serves requests and polls the SIM stands behind the   *)
(* inner loop, not in it: the thread turns in the inner loop until the     *)
(* port is reset, switched off or shut down, goes through the rest of the  *)
(* round once, and closes the serial port.                                 *)
(*                                                                         *)
(* An action is a stretch of the thread between two waits.  A dial is two: *)
(* past its checkpoint the thread waits for its turn, for the pause after  *)
(* the last dial and for the line to be quiet, and then writes the         *)
(* command; the second action chooses what send_ussd returns.  A number is *)
(* known by its card.  The modem answers when the port is opened; the      *)
(* outcome history and the status texts are left out.                      *)
(***************************************************************************)
EXTENDS Integers

CONSTANTS
  Cards,           \* SIM cards
  NoCard,
  AutoRunOnInsert, \* the setting trigger_mode
  MaxEvents        \* bound: cards put in or taken out, requests, wrong
                   \* answers to a poll and errors of the port, together

ASSUME BadPortAssumption ==
  /\ NoCard \notin Cards /\ AutoRunOnInsert \in BOOLEAN
  /\ MaxEvents \in Nat

CPIN_UNKNOWN_THRESHOLD == 3
CPIN_MAX_REMOVAL_CONFIRM == 2
MAX_INJECT_RETRY == 3

MaybeCard == Cards \cup {NoCard}

(* A grace date: the one the card came with, the one after the network has *)
(* extended it, or none that could be read.                                *)
Old == 0
New == 1
NoDate == 2
Dates == {Old, New, NoDate}

CardStatus == {"AKTIF", "TENGGANG", "HANGUS", "UNKNOWN"}
Definite == {"READY", "NOT_INSERTED", "PIN_REQUIRED"}
CpinAnswers == Definite \cup {"NOT_READY", "UNKNOWN"}
Singles == {"cek_nomor", "cek_nik", "reaktivasi"}

(* What send_ussd returns: a text; a text that refuses the request; +CUSD  *)
(* without a text, with code 0 or another; an empty text; OK alone; a menu *)
(* of the operator; part of an answer or an error, with what came of the   *)
(* text; timeout.                                                          *)
Results == {"text", "refused", "status0", "status", "empty", "executed",
            "prompt", "part", "failed"}
Texts == {"text", "refused"}
Dated == Texts \cup {"part"}   \* what may show a date or a NIK

Dialling == {"number", "nik", "inject", "verify", "cek_nomor", "cek_nik"}
Flow == {"stabilise", "kk", "pause", "reaktivasi"} \cup Dialling
Polling == {"poll", "final", "confirm"}
Round == {"tail", "clear", "retry", "auto"}
Steps == {"outer", "connect", "inner", "look", "reset", "ended"}
         \cup Round \cup Flow \cup Polling

VARIABLES
  slot,      \* the card in the slot
  date,      \* the grace date the network holds for each card
  disabled,  \* the port is in disabled_ports
  events,    \* how many of the bounded events have happened
  running,   \* is_running
  pc,        \* where the thread is
  after,     \* where the thread goes on after a flow or a single action
  open,      \* the serial port of this round is open
  sent,      \* the command of the dial under way has been written
  held,      \* history: a dial waited to be written when the reset was asked
  ask,       \* reset_requested, single_action, force_retry, pending_auto_run
  attached,  \* the PortStateMachine listens to the event bus
  nomor,     \* the number a full flow is about
  tries,     \* inject_attempt
  before,    \* business_snapshot: before_grace_date
  menu,      \* _prompt_pending, and whether its time is over
  row,       \* the port in the registry: nomor, nik, kk, masa_aktif
  cpin,      \* cpin_state, which the PortStateMachine copies
  seen,      \* detected_state
  unknown,   \* unknown_failure_count
  removals,  \* removal_confirmation_count; -1: no removal is pending
  awaiting,  \* PortStateMachine.awaiting_card_cycle
  known,     \* phone_cache: the numbers whose NIK and KK are known
  harvested, \* panen_raya: the numbers written after a verification
  swapped    \* history: a flow was about another card than the one put in

world == <<slot, date, disabled, events>>
life == <<running, attached>>
air == <<sent, held>>
job == <<nomor, tries, before, after>>
sim == <<cpin, seen, unknown, removals, awaiting>>
records == <<row, known, harvested, swapped>>
vars == <<world, life, air, pc, open, ask, menu, job, sim, records>>

NoAsk == [reset |-> FALSE, single |-> "none", retry |-> FALSE, auto |-> FALSE]
NoRow == [nomor |-> NoCard, nik |-> FALSE, kk |-> FALSE, date |-> NoDate]

-----------------------------------------------------------------------------
(* What the parsers make of an answer.                                     *)

(* Mutant of Changed: a date that cannot be read differs from any other.   *)
ChangedIfUnread(old, new) == old # new

(* has_grace_date_changed: both dates are known and they differ.           *)
Changed(old, new) == old # NoDate /\ new # NoDate /\ old # new

(* evaluate_business_outcome, for the outcome that is harvested.           *)
Succeeded(old, new, status) ==
  Changed(old, new) /\ status \notin {"HANGUS", "UNKNOWN"}

(* The dates a text about the card can show.                               *)
Shown == IF slot = NoCard THEN {NoDate} ELSE {date[slot], NoDate}

(* What the slot answers to AT+CPIN?; anything else is a fault.            *)
Truthful(answer) ==
  \/ answer \in {"NOT_READY", "UNKNOWN"}
  \/ answer = IF slot = NoCard THEN "NOT_INSERTED" ELSE "READY"

Event == events < MaxEvents /\ events' = events + 1

Hears(answer) ==
  /\ \/ Truthful(answer) /\ UNCHANGED events
     \/ ~Truthful(answer) /\ Event
  /\ UNCHANGED <<slot, date, disabled>>

-----------------------------------------------------------------------------
Init ==
  /\ slot \in MaybeCard
  /\ date = [c \in Cards |-> Old]
  /\ disabled = FALSE /\ events = 0
  /\ running = TRUE /\ attached = TRUE
  /\ pc = "outer" /\ after = "poll" /\ open = FALSE
  /\ sent = FALSE /\ held = FALSE
  /\ ask = NoAsk
  /\ nomor = NoCard /\ tries = 0 /\ before = NoDate
  /\ menu = "none"
  /\ row = NoRow
  /\ cpin = "UNKNOWN" /\ seen = "UNKNOWN"
  /\ unknown = 0 /\ removals = -1 /\ awaiting = FALSE
  /\ known = {} /\ harvested = {} /\ swapped = FALSE

-----------------------------------------------------------------------------
(* The loops of the thread.                                                *)

(* _clear_temporary_workflow_state.                                        *)
ClearTemporary == before' = NoDate /\ menu' = "none"

(* The end of a round: the serial port is closed.                          *)
EndRound == pc' = "outer" /\ open' = FALSE

(* Mutant of Ends: the port that is off is waited for in any case.         *)
EndsIfOn == ~running /\ ~disabled

(* The test of the outer loop.                                             *)
Ends == ~running

(* _release_eventbus_listener, on the way out of run.                      *)
End ==
  /\ pc = "outer" /\ Ends
  /\ pc' = "ended" /\ attached' = FALSE
  /\ UNCHANGED <<world, running, air, open, ask, menu, job, sim, records>>

(* The modem is asked at every baud rate; then the port is opened, shut    *)
(* down in the meantime or not.                                            *)
Probe ==
  /\ pc = "outer" /\ running /\ ~disabled
  /\ pc' = "connect"
  /\ UNCHANGED <<world, life, air, open, ask, menu, job, sim, records>>

Connect ==
  /\ pc = "connect"
  /\ pc' = "inner" /\ open' = TRUE
  /\ UNCHANGED <<world, life, air, ask, menu, job, sim, records>>

(* The test of the inner loop.                                             *)
Turn ==
  /\ pc = "inner"
  /\ pc' = IF running /\ ~disabled THEN "look" ELSE "tail"
  /\ UNCHANGED <<world, life, air, open, ask, menu, job, sim, records>>

TakeReset ==
  /\ pc = "look" /\ ask.reset
  /\ ask' = [ask EXCEPT !.reset = FALSE]
  /\ pc' = "reset"
  /\ UNCHANGED <<world, life, air, open, menu, job, sim, records>>

(* Mutant of AfterTimeout: the menu is reported as failed and kept.        *)
KeptMenu == menu

(* The menu, once the time to answer it is over.                           *)
AfterTimeout == IF menu = "due" THEN "none" ELSE menu

(* _advance_prompt_lifecycle.                                              *)
AdvancePrompt ==
  /\ pc = "look" /\ ~ask.reset
  /\ menu' = AfterTimeout
  /\ pc' = "inner"
  /\ UNCHANGED <<world, life, air, open, ask, job, sim, records>>

(* PROMPT_LIFECYCLE_TIMEOUT_SECONDS have passed.                           *)
PromptTimeout ==
  /\ menu = "asked" /\ menu' = "due"
  /\ UNCHANGED <<world, life, air, pc, open, ask, job, sim, records>>

(* _perform_modem_reset closes the port; then the loop is left.            *)
PerformReset ==
  /\ pc = "reset"
  /\ pc' = "tail" /\ open' = FALSE
  /\ \/ ask' = [ask EXCEPT !.auto = TRUE]
     \/ UNCHANGED ask
  /\ ClearTemporary
  /\ UNCHANGED <<world, life, air, nomor, tries, after, sim, records>>

(* single_action is read in one statement and cleared in the next.         *)
ReadSingle ==
  /\ pc = "tail"
  /\ IF ask.single = "none" THEN pc' = "retry" /\ UNCHANGED after
     ELSE pc' = "clear" /\ after' = ask.single
  /\ UNCHANGED <<world, life, air, open, ask, menu, nomor, tries, before, sim, records>>

(* execute_single_action up to its first dial.                             *)
ClearSingle ==
  /\ pc = "clear"
  /\ ask' = [ask EXCEPT !.single = "none"]
  /\ pc' = IF ask.reset THEN "retry" ELSE after
  /\ after' = "retry"
  /\ ClearTemporary
  /\ UNCHANGED <<world, life, air, open, nomor, tries, sim, records>>

(* execute_full_flow up to the stabilisation, or past it.                  *)
BeginFlow(request, next) ==
  /\ ask' = [ask EXCEPT ![request] = FALSE]
  /\ IF ~ask[request] THEN pc' = next /\ UNCHANGED <<after, before, menu>>
     ELSE /\ ClearTemporary
          /\ IF ask.reset THEN pc' = next /\ UNCHANGED after
             ELSE pc' = "stabilise" /\ after' = next
  /\ UNCHANGED <<world, life, air, open, nomor, tries, sim, records>>

TakeRetry == pc = "retry" /\ BeginFlow("retry", "auto")

TakeAuto == pc = "auto" /\ BeginFlow("auto", "poll")

(* A reset that waits ends the round before the poll.                      *)
SkipPoll ==
  /\ pc = "poll" /\ ask.reset
  /\ EndRound
  /\ UNCHANGED <<world, life, air, ask, menu, job, sim, records>>

(* The network may extend the card that is given its NIK and KK, whatever  *)
(* the dial returns.                                                       *)
MayExtend ==
  \/ UNCHANGED date
  \/ /\ slot # NoCard /\ sent
     /\ date' = [date EXCEPT ![slot] = New]

(* An exception: of the serial port, certain in a poll when it is closed   *)
(* and caught in a dial until its command is written, or of a flow whose      *)
(* state machine shutdown has taken away.                                  *)
LoopError ==
  /\ pc \in Dialling \cup Polling \cup {"connect"}
  /\ pc \in Dialling => sent
  /\ pc = "poll" => ~ask.reset
  /\ Event \/ (pc # "connect" /\ ~open /\ UNCHANGED events)
  /\ EndRound
  /\ after' = "poll" /\ nomor' = NoCard /\ tries' = 0 /\ seen' = "UNKNOWN"
  /\ IF pc = "inject" THEN MayExtend ELSE UNCHANGED date
  /\ sent' = FALSE
  /\ UNCHANGED <<slot, disabled, life, held, ask, menu, before,
                 cpin, unknown, removals, awaiting, records>>

-----------------------------------------------------------------------------
(* The steps of a flow; a single action is a flow that returns to "retry". *)

Return == pc' = after /\ after' = "poll" /\ nomor' = NoCard /\ tries' = 0

Full == after # "retry"

FlowKeeps ==
  /\ sent' = FALSE
  /\ UNCHANGED <<slot, disabled, events, life, held, open, ask, sim>>

(* The end of the waits of a dial: power_injection_lock, the pause after   *)
(* the last dial, and the fence that cancels the last session and reads    *)
(* until the line is quiet.  The reset is not looked at again.             *)
WriteDial ==
  /\ pc \in Dialling /\ ~sent /\ open
  /\ sent' = TRUE /\ held' = FALSE
  /\ UNCHANGED <<world, life, pc, open, ask, menu, job, sim, records>>

(* A dial ends, and the checkpoint behind it lets the flow go on.  Nothing *)
(* is answered without a card or on a closed port, or before the command   *)
(* is written.                                                             *)
Answered(step, result) ==
  /\ pc = step /\ ~ask.reset
  /\ sent \/ result = "failed"
  /\ result \in Results
  /\ slot = NoCard => result \notin Texts
  /\ ~open => result = "failed"

(* Mutant of DropFlow: the flow takes the reset for done.                  *)
DropFlowAndReset ==
  /\ ask.reset /\ Return
  /\ ask' = [ask EXCEPT !.reset = FALSE]

(* _should_cooperative_cancel: the flow ends, the request stays.           *)
DropFlow == ask.reset /\ Return /\ UNCHANGED ask

(* The end of a dial that was begun when the reset was asked for; one that *)
(* waits on an open port is written first.                                 *)
Cancel ==
  /\ pc \in Dialling \cup {"kk", "reaktivasi"} /\ DropFlow
  /\ IF pc = "inject" THEN MayExtend ELSE UNCHANGED date
  /\ sent' = FALSE
  /\ UNCHANGED <<slot, disabled, events, life, held, open, sim, before, menu, records>>

GiveUp ==
  /\ Return
  /\ FlowKeeps
  /\ UNCHANGED <<date, before, menu, records>>

(* _set_prompt_pending: the flow ends, the loop looks after the menu.      *)
Prompts ==
  /\ \E step \in Dialling \ {"inject"} : Answered(step, "prompt")
  /\ menu' = IF menu = "none" THEN "asked" ELSE menu
  /\ Return
  /\ FlowKeeps
  /\ UNCHANGED <<date, before, records>>

(* The number and the old date are dialled for.                            *)
Stabilise ==
  /\ pc = "stabilise"
  /\ IF running /\ ~disabled /\ ~ask.reset
     THEN pc' = "number" /\ UNCHANGED <<after, nomor, tries>> ELSE Return
  /\ FlowKeeps
  /\ UNCHANGED <<date, before, menu, records>>

NumberFails ==
  /\ \E result \in Results \ {"prompt"} : Answered("number", result)
  /\ GiveUp

NumberRead(shown, status) ==
  /\ \E text \in Texts : Answered("number", text)
  /\ before' = shown
  /\ row' = [row EXCEPT !.nomor = slot, !.date = shown,
                        !.nik = @ \/ (status = "HANGUS" /\ slot \in known),
                        !.kk = @ \/ (status = "HANGUS" /\ slot \in known)]
  /\ awaiting' = (awaiting \/ status \in {"AKTIF", "TENGGANG"})
  /\ IF status = "HANGUS"
     THEN /\ nomor' = slot
          /\ IF slot \in known THEN pc' = "inject" /\ tries' = 1
             ELSE pc' = "nik" /\ UNCHANGED tries
          /\ UNCHANGED after
     ELSE Return
  /\ sent' = FALSE
  /\ UNCHANGED <<world, life, held, open, ask, menu, cpin, seen, unknown, removals,
                 known, harvested, swapped>>

CheckNumber ==
  NumberFails \/ \E shown \in Shown, status \in CardStatus : NumberRead(shown, status)

(* The NIK is dialled for, and its KK looked for in the database or by the *)
(* gateway; in the mode NIK & NIK it is the NIK.                           *)
NikFails ==
  /\ \E result \in Results \ {"prompt"} : Answered("nik", result)
  /\ GiveUp

NikRead ==
  /\ \E text \in Texts : Answered("nik", text)
  /\ row' = [row EXCEPT !.nik = TRUE]
  /\ pc' = "kk"
  /\ FlowKeeps
  /\ UNCHANGED <<date, before, after, nomor, tries, menu, known, harvested, swapped>>

KkMissing == pc = "kk" /\ ~ask.reset /\ GiveUp

KkFound ==
  /\ pc = "kk" /\ ~ask.reset
  /\ known' = known \cup {nomor}
  /\ row' = [row EXCEPT !.kk = TRUE]
  /\ pc' = "inject" /\ tries' = 1
  /\ FlowKeeps
  /\ UNCHANGED <<date, before, after, nomor, menu, harvested, swapped>>

FindData == NikFails \/ NikRead \/ KkMissing \/ KkFound

-----------------------------------------------------------------------------
(* The injection, of a full flow and of a single action.                   *)

(* Answers that are provisional: the card is read again.                   *)
Provisional ==
  {"text", "status0", "empty"} \cup (IF Full THEN {"executed"} ELSE {"status"})

MayRetry == tries < MAX_INJECT_RETRY

InjectRefused ==
  /\ Answered("inject", "refused")
  /\ IF MayRetry THEN pc' = "pause" /\ UNCHANGED <<after, nomor, tries>>
     ELSE Return
  /\ UNCHANGED menu

InjectAccepted ==
  /\ \E result \in Provisional : Answered("inject", result)
  /\ pc' = "verify"
  /\ UNCHANGED <<after, nomor, tries, menu>>

InjectFails ==
  /\ \E result \in Results \ (Provisional \cup {"refused", "prompt"}) :
       Answered("inject", result)
  /\ Return
  /\ UNCHANGED menu

InjectPrompts ==
  /\ Answered("inject", "prompt")
  /\ menu' = IF menu = "none" THEN "asked" ELSE menu
  /\ Return

Inject ==
  /\ InjectRefused \/ InjectAccepted \/ InjectFails \/ InjectPrompts
  /\ MayExtend
  /\ FlowKeeps
  /\ UNCHANGED <<before, records>>

(* Mutant of InjectAgain: no checkpoint after the pause.                   *)
InjectAgainAnyhow ==
  /\ pc' = "inject" /\ tries' = tries + 1
  /\ UNCHANGED <<after, nomor>>

InjectAgain ==
  IF ask.reset THEN Return
  ELSE pc' = "inject" /\ tries' = tries + 1 /\ UNCHANGED <<after, nomor>>

(* USSD_RETRY_DELAY_SECONDS, and the next attempt.                         *)
Pause ==
  /\ pc = "pause"
  /\ InjectAgain
  /\ FlowKeeps
  /\ UNCHANGED <<date, before, menu, records>>

(* The card is read again; without a new date the outcome is TENGGANG, as  *)
(* the answer to the injection told, or FAILED.                            *)
VerifyFails ==
  /\ \E result \in Results \ {"prompt"} :
       /\ Answered("verify", result)
       /\ \/ Full /\ UNCHANGED row
          \/ \E shown \in IF result \in Dated THEN Shown ELSE {NoDate} :
               /\ Full => /\ ~Changed(before, shown)
                          /\ result \notin {"status", "status0"}
               /\ row' = [row EXCEPT !.date = shown]
  /\ Return
  /\ FlowKeeps
  /\ UNCHANGED <<date, before, menu, known, harvested, swapped>>

(* A full flow writes the harvest, with it both caches, and asks for       *)
(* another card; a single action shows the outcome.                        *)
Verified(shown, status) ==
  /\ \E text \in Dated : Answered("verify", text)
  /\ row' = [row EXCEPT !.date = shown]
  /\ Succeeded(before, shown, status)
  /\ IF Full THEN /\ harvested' = harvested \cup {nomor}
                  /\ known' = known \cup {nomor}
                  /\ awaiting' = TRUE
     ELSE UNCHANGED <<harvested, known, awaiting>>
  /\ Return
  /\ sent' = FALSE
  /\ UNCHANGED <<world, life, held, open, ask, before, menu, cpin, seen, unknown,
                 removals, swapped>>

Verify ==
  VerifyFails \/ \E shown \in Shown, status \in CardStatus : Verified(shown, status)

-----------------------------------------------------------------------------
(* The other steps of single actions.                                      *)

CekNomor ==
  /\ \E result \in Results \ {"prompt"} : Answered("cek_nomor", result)
  /\ \/ UNCHANGED row
     \/ /\ \E text \in Texts : Answered("cek_nomor", text)
        /\ \E n \in {slot, row.nomor}, d \in {date[slot], row.date} :
             row' = [row EXCEPT !.nomor = n, !.date = d]
  /\ Return
  /\ FlowKeeps
  /\ UNCHANGED <<date, before, menu, known, harvested, swapped>>

CekNik ==
  /\ \E result \in Results \ {"prompt"} : Answered("cek_nik", result)
  /\ \/ UNCHANGED <<row, known>>
     \/ /\ \E text \in Dated : Answered("cek_nik", text)
        /\ slot # NoCard
        /\ row' = [row EXCEPT !.nik = TRUE]
        /\ known' = IF row.kk THEN known \cup ({row.nomor} \ {NoCard}) ELSE known
  /\ Return
  /\ FlowKeeps
  /\ UNCHANGED <<date, before, menu, harvested, swapped>>

(* The snapshot and the command are made of what the row shows; the cache  *)
(* is not asked, an unknown value being "-".                               *)
Reaktivasi ==
  /\ pc = "reaktivasi" /\ ~ask.reset
  /\ before' = row.date
  /\ IF row.nik /\ row.kk
     THEN pc' = "inject" /\ tries' = 1 /\ UNCHANGED <<after, nomor>>
     ELSE Return
  /\ known' = IF row.nik /\ row.kk THEN known \cup ({row.nomor} \ {NoCard}) ELSE known
  /\ FlowKeeps
  /\ UNCHANGED <<date, menu, row, harvested, swapped>>

-----------------------------------------------------------------------------
(* The poll of the SIM and what run makes of it.                           *)

AtThreshold(count) == count >= CPIN_UNKNOWN_THRESHOLD

(* The table forgets the card.                                             *)
ClearRow == row' = NoRow

(* PortStateMachine._on_cpin_transition, while it listens.                 *)
Announce(state) ==
  CASE ~attached -> UNCHANGED <<ask, awaiting, row>>
    [] attached /\ state = "READY" ->
         /\ ask' = [ask EXCEPT !.auto = @ \/ (AutoRunOnInsert /\ ~awaiting)]
         /\ UNCHANGED <<awaiting, row>>
    [] attached /\ state = "PIN_REQUIRED" ->
         awaiting' = FALSE /\ UNCHANGED <<ask, row>>
    [] attached /\ state = "NOT_INSERTED" ->
         awaiting' = FALSE /\ ClearRow /\ UNCHANGED ask

(* _handle_cpin_transition.                                                *)
Transition(state) ==
  /\ cpin' = state
  /\ IF state = "NOT_INSERTED" THEN ClearTemporary ELSE UNCHANGED <<before, menu>>
  /\ Announce(state)

(* The end of the poll: what was detected is counted, and a definite state *)
(* that is new is a transition.                                            *)
Settle(state, count, rem) ==
  /\ EndRound
  /\ seen' = "UNKNOWN"
  /\ unknown' = IF state = "UNKNOWN" \/ (state = "NOT_READY" /\ cpin # "READY")
                THEN count ELSE 0
  /\ removals' = IF state \in Definite THEN -1 ELSE rem
  /\ IF state \in Definite /\ state # cpin THEN Transition(state)
     ELSE UNCHANGED <<cpin, awaiting, ask, before, menu, row>>

(* The round waits for the answer to another AT+CPIN?.                     *)
AskAgain(step, state, count, rem) ==
  /\ pc' = step
  /\ seen' = state /\ unknown' = count /\ removals' = rem
  /\ UNCHANGED <<open, cpin, awaiting, ask, before, menu, row>>

ConfirmOrSettle(state, count, rem) ==
  IF rem # -1 /\ cpin = "READY" THEN AskAgain("confirm", state, count, rem)
  ELSE Settle(state, count, rem)

Polls(step, answer) ==
  /\ pc = step /\ open /\ (step = "poll" => ~ask.reset)
  /\ Hears(answer)
  /\ UNCHANGED <<life, air, nomor, tries, after, known, harvested, swapped>>

PollReady == Polls("poll", "READY") /\ Settle("READY", 0, -1)

PollNotReady ==
  /\ Polls("poll", "NOT_READY")
  /\ ConfirmOrSettle("NOT_READY", unknown,
       IF cpin = "READY" /\ removals = -1 THEN 0 ELSE removals)

PollUnknown ==
  /\ Polls("poll", "UNKNOWN")
  /\ LET count == IF cpin = "READY" THEN unknown + 1 ELSE unknown
     IN  IF cpin = "READY" /\ AtThreshold(count)
         THEN AskAgain("final", "UNKNOWN", count, removals)
         ELSE ConfirmOrSettle("UNKNOWN", count, removals)

PollGone ==
  \E answer \in {"NOT_INSERTED", "PIN_REQUIRED"} :
    Polls("poll", answer) /\ ConfirmOrSettle(answer, unknown, removals)

(* Too many unknown answers: one more query, and only READY keeps the SIM. *)
FinalQuery ==
  \/ Polls("final", "READY") /\ ConfirmOrSettle("READY", 0, removals)
  \/ \E answer \in CpinAnswers \ {"READY"} :
       Polls("final", answer) /\ Settle("NOT_INSERTED", 0, -1)

(* A NOT_READY is asked about again; an error is taken for a removal.      *)
Confirm ==
  \/ \E answer \in {"READY", "NOT_INSERTED"} :
       Polls("confirm", answer) /\ Settle(answer, unknown, -1)
  \/ /\ Polls("confirm", "NOT_READY")
     /\ IF removals + 1 >= CPIN_MAX_REMOVAL_CONFIRM
        THEN Settle("NOT_INSERTED", 0, -1)
        ELSE Settle("NOT_READY", unknown, removals + 1)
  \/ \E answer \in {"UNKNOWN", "PIN_REQUIRED"} :
       /\ Polls("confirm", answer)
       /\ \/ Settle(seen, unknown, removals)
          \/ Settle("NOT_INSERTED", 0, -1)

-----------------------------------------------------------------------------
(* The user, whose requests are flags set from the thread of the window,   *)
(* and the shutdown when the port vanishes or the window is closed.        *)

Click ==
  /\ Event
  /\ UNCHANGED <<slot, date, life, sent, pc, open, menu, job, sim, records>>

(* The reset is asked for while a dial waits to be written, or not.        *)
Hold == held' = (pc \in Dialling /\ ~sent)

(* request_modem_reset takes the other requests back.                      *)
ClickReset ==
  /\ running
  /\ ask' = [NoAsk EXCEPT !.reset = TRUE]
  /\ Hold
  /\ UNCHANGED disabled
  /\ Click

ClickSingle ==
  /\ running
  /\ \E action \in Singles : ask' = [ask EXCEPT !.single = action]
  /\ UNCHANGED <<disabled, held>>
  /\ Click

ClickRestart ==
  /\ running
  /\ ask' = [ask EXCEPT !.retry = TRUE]
  /\ UNCHANGED <<disabled, held>>
  /\ Click

ClickOff ==
  /\ ~disabled /\ disabled' = TRUE
  /\ UNCHANGED <<ask, held>>
  /\ Click

ClickOn ==
  /\ disabled /\ disabled' = FALSE
  /\ UNCHANGED <<slot, date, events, life, air, pc, open, ask, menu, job, sim, records>>

(* force_retry is not taken back.                                          *)
Shutdown ==
  /\ running /\ running' = FALSE
  /\ ask' = [NoAsk EXCEPT !.reset = TRUE, !.retry = ask.retry]
  /\ ClearTemporary
  /\ attached' = FALSE /\ open' = FALSE
  /\ Hold
  /\ UNCHANGED <<world, sent, pc, nomor, tries, after, sim, records>>

-----------------------------------------------------------------------------
(* The cards.                                                              *)

InsertCard(c) ==
  /\ slot = NoCard /\ Event
  /\ slot' = c
  /\ swapped' = (swapped \/ nomor \notin {c, NoCard})
  /\ UNCHANGED <<date, disabled, life, air, pc, open, ask, menu, job, sim,
                 row, known, harvested>>

RemoveCard ==
  /\ slot # NoCard /\ Event
  /\ slot' = NoCard
  /\ UNCHANGED <<date, disabled, life, air, pc, open, ask, menu, job, sim, records>>

-----------------------------------------------------------------------------
Loop == \/ End \/ Probe \/ Connect \/ Turn \/ TakeReset \/ AdvancePrompt \/ PerformReset
        \/ ReadSingle \/ ClearSingle \/ TakeRetry \/ TakeAuto \/ SkipPoll
        \/ LoopError
FullFlow == WriteDial \/ Cancel \/ Prompts \/ Stabilise \/ CheckNumber \/ FindData
            \/ Inject \/ Pause \/ Verify
SingleAction == CekNomor \/ CekNik \/ Reaktivasi
SimPoll == PollReady \/ PollNotReady \/ PollUnknown \/ PollGone
           \/ FinalQuery \/ Confirm
Worker == Loop \/ FullFlow \/ SingleAction \/ SimPoll

User == ClickReset \/ ClickSingle \/ ClickRestart \/ ClickOff \/ ClickOn \/ Shutdown
World == PromptTimeout \/ (\E c \in Cards : InsertCard(c)) \/ RemoveCard

Next == Worker \/ User \/ World

Spec == Init /\ [][Next]_vars

(* The thread is scheduled, every wait of it has a limit, and time passes. *)
FairSpec == Spec /\ WF_vars(Worker) /\ WF_vars(PromptTimeout)

-----------------------------------------------------------------------------
AskType == [reset : BOOLEAN, single : Singles \cup {"none"}, retry : BOOLEAN,
            auto : BOOLEAN]
RowType == [nomor : MaybeCard, nik : BOOLEAN, kk : BOOLEAN, date : Dates]

WorldOK ==
  /\ slot \in MaybeCard
  /\ date \in [Cards -> {Old, New}]
  /\ disabled \in BOOLEAN
  /\ events \in 0 .. MaxEvents

ThreadOK ==
  /\ running \in BOOLEAN /\ attached \in BOOLEAN /\ open \in BOOLEAN
  /\ sent \in BOOLEAN /\ held \in BOOLEAN
  /\ pc \in Steps
  /\ ask \in AskType
  /\ menu \in {"none", "asked", "due"}

JobOK ==
  /\ nomor \in MaybeCard
  /\ tries \in 0 .. MAX_INJECT_RETRY
  /\ before \in Dates
  /\ after \in {"retry", "auto", "poll"} \cup Singles

SimOK ==
  /\ cpin \in Definite \cup {"UNKNOWN"}
  /\ seen \in CpinAnswers
  /\ unknown \in Nat
  /\ removals \in -1 .. CPIN_MAX_REMOVAL_CONFIRM - 1
  /\ awaiting \in BOOLEAN

RecordsOK ==
  /\ row \in RowType
  /\ known \subseteq Cards /\ harvested \subseteq Cards
  /\ swapped \in BOOLEAN

(* Every variable has its type: injections and removals are counted up to  *)
(* the limits the code names and no further.  Unknown answers are not: an  *)
(* error in the last query leaves the count at its limit.                  *)
TypeOK == WorldOK /\ ThreadOK /\ JobOK /\ SimOK /\ RecordsOK

(* A number is put in the harvest only if the network has extended its     *)
(* card, whatever resets, shutdowns and refused injections came between    *)
(* the two readings of the date, and as long as no other card was put in.  *)
HarvestIsExtended == ~swapped => \A c \in harvested : date[c] = New

(* A dial goes on the air while a reset is asked for only if it was past   *)
(* its checkpoint, in the waits before the command is written, when the    *)
(* reset was asked for: one dial at most overtakes a reset.                *)
ResetComesFirst == [][(ask.reset /\ sent' /\ ~sent) => held]_vars

(* A reset that is asked for is begun, whatever the thread was doing, as   *)
(* long as the port is left on and the worker is not shut down.            *)
ResetIsPerformed ==
  (ask.reset /\ running) ~> (pc = "reset" \/ disabled \/ ~running)

(* A menu of the operator is not left waiting for an answer for ever.      *)
MenuIsResolved == (menu # "none") ~> (menu = "none" \/ disabled \/ ~running)

(* A worker that is shut down ends, wherever it was, with the port closed  *)
(* and its state machine off the event bus.                                *)
ShutdownEnds == ~running ~> (pc = "ended" /\ ~open /\ ~attached)

(* What the comment in the loop says: the SIM is polled periodically, on a *)
(* port that is on.  It is not: the poll is behind the inner loop.         *)
SimIsPolled == <>[](disabled \/ ~running) \/ []<>(pc = "poll")

================================================================================
