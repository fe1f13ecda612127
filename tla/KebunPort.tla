------------------------------- MODULE KebunPort -------------------------------
(***************************************************************************)
(* The worker of one port of GOOD, the single-file program: PortWorker.run *)
(* with its poll of the SIM, the reactivation it runs on a card, and the   *)
(* user and the cards around it.  A worker does one thing at a time: while *)
(* it dials nobody looks at the slot, and the user's requests are flags    *)
(* that its loop finds later.                                              *)
(*                                                                         *)
(* An action is a stretch of the thread between two waits.  A dial is one  *)
(* action that chooses what send_ussd returns (KebunDial is about whose    *)
(* answer that is).  A number, a NIK and a KK are known by the card they   *)
(* belong to.  What the worker reports to the table is taken to be in the  *)
(* registry at once (KebunTable is about the way there); status texts are  *)
(* left out.                                                               *)
(***************************************************************************)
EXTENDS Integers

CONSTANTS
  Cards,        \* SIM cards
  NoCard,
  AutoRunOnInsert, \* the setting trigger_mode
  MaxEvents        \* bound: cards put in, requests of the user, wrong
                   \* answers to a poll and errors of the port, together

ASSUME KebunAssumption ==
  /\ NoCard \notin Cards /\ AutoRunOnInsert \in BOOLEAN
  /\ MaxEvents \in Nat

CPIN_UNKNOWN_THRESHOLD == 3
PROMPT_RECOVERY_MAX == 2

MaybeCard == Cards \cup {NoCard}

(* A grace date: the one the card came with, the one after the network has *)
(* extended it, or none that could be read.                                *)
Old == 0
New == 1
NoDate == 2
Dates == {Old, New, NoDate}

CardStatus == {"AKTIF", "TENGGANG", "HANGUS", "UNKNOWN"}
Definite == {"READY", "NOT_INSERTED", "PIN_REQUIRED"}
CpinAnswers == Definite \cup {"NOT_READY", "UNKNOWN"}
Singles == {"cek_nomor", "cek_nik", "reaktivasi"}

(* What send_ussd returns: a text; a text that is cut off or that speaks   *)
(* of an error; +CUSD without one, with code 0 or another; an empty text;  *)
(* an operator's menu; timeout or error.                                   *)
Results == {"text", "part", "status0", "status", "empty", "prompt", "failed"}

(* The results that data of the card can be read from.                     *)
Texts == {"text", "part"}

Flow == {"stabilise", "number", "nik", "inject", "verify"}
Single == {"cek_nomor", "cek_nik", "reaktivasi", "reverify"}
Dialling == {"number", "nik", "inject", "verify"} \cup Single
Polling == {"poll", "final", "confirm"}
Steps == {"outer", "inner", "clear", "reset", "retry", "auto"}
         \cup Flow \cup Single \cup Polling

VARIABLES
  slot,      \* the card in the slot
  date,      \* the grace date the network holds for each card
  disabled,  \* the port is in disabled_ports
  pc,        \* where the thread is
  after,     \* where the thread goes on after a flow
  ask,       \* reset_requested, single_action, force_retry, pending_auto_run
  flow,      \* the variables of the flow: number, NIK, date before
  row,       \* the port in the registry: nomor, nik, kk
  cpin,      \* cpin_state, which the PortStateMachine copies
  seen,      \* detected_state
  unknown,   \* unknown_failure_count
  pending,   \* pending_removal_confirmation
  prompts,   \* prompt_recovery_count
  awaiting,  \* PortStateMachine.awaiting_card_cycle
  known,     \* phone_cache: the NIK and KK of a number
  search,    \* menu_cari_kk: the NIK whose KK is being looked for
  harvested, \* panen_raya: the numbers written after a verification
  left,      \* history: the card that left the slot, until the program
             \* has announced that the slot is empty
  crossed,   \* history: another card was put in before that, or a KK that
             \* was looked for went into the row of another NIK
  events     \* how many of the bounded events have happened

world == <<slot, date, disabled, events>>
sim == <<cpin, seen, unknown, pending>>
job == <<flow, after>>
caches == <<known, harvested, search>>
history == <<left, crossed>>
records == <<row, caches, history>>
budget == <<ask, prompts, awaiting>>
vars == <<world, pc, sim, job, records, budget>>

Pair(nik, kk) == [nik |-> nik, kk |-> kk]
NoPair == Pair(NoCard, NoCard)
NoFlow == [nomor |-> NoCard, pair |-> NoPair, before |-> NoDate]
NoRow == [nomor |-> NoCard, nik |-> NoCard, kk |-> NoCard]
NoAsk == [reset |-> FALSE, single |-> "none", retry |-> FALSE, auto |-> FALSE]

-----------------------------------------------------------------------------
(* What the parsers make of an answer.                                     *)

(* Mutant of Changed: a date that cannot be read differs from any other.   *)
ChangedIfUnread(before, later) == before # later

(* has_grace_date_changed: both dates are known and they differ.           *)
Changed(before, later) ==
  before # NoDate /\ later # NoDate /\ before # later

(* evaluate_business_outcome, for the outcome that is harvested.           *)
Succeeded(before, later, status) ==
  Changed(before, later) /\ status \notin {"HANGUS", "UNKNOWN"}

(* The dates a text about the card can show.                               *)
Shown == IF slot = NoCard THEN {NoDate} ELSE {date[slot], NoDate}

(* What the slot answers to AT+CPIN?; anything else is a fault.            *)
Truthful(answer) ==
  \/ answer \in {"NOT_READY", "UNKNOWN"}
  \/ answer = IF slot = NoCard THEN "NOT_INSERTED" ELSE "READY"

Event == events < MaxEvents /\ events' = events + 1

Hears(answer) ==
  /\ \/ Truthful(answer) /\ UNCHANGED events
     \/ ~Truthful(answer) /\ Event
  /\ UNCHANGED <<slot, date, disabled>>

(* update_phone_cache: an unknown number, NIK or KK, the text "-", is no    *)
(* digits, and nothing is written.                                         *)
UpdatePhoneCache(nomor, pair) ==
  known' = IF NoCard \in {nomor, pair.nik, pair.kk} THEN known
           ELSE [known EXCEPT ![nomor] = pair]

-----------------------------------------------------------------------------
Init ==
  /\ slot \in MaybeCard
  /\ date = [c \in Cards |-> Old]
  /\ disabled = FALSE
  /\ pc = "outer" /\ after = "poll"
  /\ ask = NoAsk
  /\ flow = NoFlow
  /\ row = NoRow
  /\ cpin = "UNKNOWN" /\ seen = "UNKNOWN"
  /\ unknown = 0 /\ pending = FALSE
  /\ prompts = 0 /\ awaiting = FALSE
  /\ known = [c \in Cards |-> NoPair]
  /\ search = NoCard
  /\ harvested = {}
  /\ left = NoCard /\ crossed = FALSE
  /\ events = 0

-----------------------------------------------------------------------------
(* The loop of the thread.                                                 *)

(* A port that is off, or whose modem does not answer at any baud rate, is *)
(* tried again later: nothing changes.                                     *)
Connect ==
  /\ pc = "outer" /\ ~disabled
  /\ pc' = "inner"
  /\ UNCHANGED <<world, sim, job, records, budget>>

Leave ==
  /\ pc = "inner" /\ disabled
  /\ pc' = "outer"
  /\ UNCHANGED <<world, sim, job, records, budget>>

AtWork == pc = "inner" /\ ~disabled

TakeReset ==
  /\ AtWork /\ ask.reset
  /\ ask' = [ask EXCEPT !.reset = FALSE]
  /\ pc' = "reset"
  /\ UNCHANGED <<world, sim, job, records, prompts, awaiting>>

(* _perform_modem_reset, after which the loop is left.                     *)
PerformReset ==
  /\ pc = "reset"
  /\ pc' = "outer"
  /\ \/ /\ ask' = [ask EXCEPT !.auto = TRUE]
        /\ prompts' = 0
     \/ UNCHANGED <<ask, prompts>>
  /\ UNCHANGED <<world, sim, job, records, awaiting>>

(* Where the loop has come to in one round.                                *)
PastSingle == pc = "retry" \/ (AtWork /\ ~ask.reset /\ ask.single = "none")
PastRetry == pc = "auto" \/ (PastSingle /\ ~ask.retry)
PastAuto == pc = "poll" \/ (PastRetry /\ ~ask.auto)

(* An exception of the serial port: what the thread was doing is dropped.  *)
LoopError ==
  /\ Event
  /\ pc \in Dialling \cup Polling \/ PastAuto
  /\ pc' = "outer" /\ after' = "poll" /\ flow' = NoFlow /\ seen' = "UNKNOWN"
  /\ UNCHANGED <<slot, date, disabled, cpin, unknown, pending, records, budget>>

(* single_action is read in one statement and cleared in the next.         *)
ReadSingle ==
  /\ AtWork /\ ~ask.reset /\ ask.single # "none"
  /\ pc' = "clear"
  /\ after' = ask.single
  /\ UNCHANGED <<world, sim, flow, records, budget>>

ClearSingle ==
  /\ pc = "clear"
  /\ ask' = [ask EXCEPT !.single = "none"]
  /\ pc' = after
  /\ after' = "retry"
  /\ UNCHANGED <<world, sim, flow, records, prompts, awaiting>>

BeginFlow(next) ==
  /\ pc' = "stabilise"
  /\ after' = next
  /\ UNCHANGED <<world, sim, flow, records, prompts, awaiting>>

TakeRetry ==
  /\ PastSingle /\ ask.retry
  /\ ask' = [ask EXCEPT !.retry = FALSE]
  /\ BeginFlow("auto")

TakeAuto ==
  /\ PastRetry /\ ask.auto
  /\ ask' = [ask EXCEPT !.auto = FALSE]
  /\ BeginFlow("poll")

-----------------------------------------------------------------------------
(* execute_full_flow.                                                      *)

Return == pc' = after /\ after' = "poll" /\ flow' = NoFlow

(* Mutant of Recover: the budget is never used up.                         *)
RecoverAgain ==
  /\ ask' = [ask EXCEPT !.auto = TRUE]
  /\ UNCHANGED prompts

(* _recover_from_prompt with requeue: the flow is queued again until the   *)
(* budget is used up.                                                      *)
Recover ==
  /\ prompts' = IF prompts < PROMPT_RECOVERY_MAX THEN prompts + 1 ELSE 0
  /\ ask' = [ask EXCEPT !.auto = prompts < PROMPT_RECOVERY_MAX]

GiveUp ==
  /\ Return
  /\ UNCHANGED <<world, sim, records, budget>>

Requeue ==
  /\ Recover
  /\ Return
  /\ UNCHANGED <<world, sim, records, awaiting>>

(* The dial of this step is answered; without a card there is no text.     *)
Answered(step, result) ==
  /\ pc = step
  /\ result \in Results
  /\ slot = NoCard => result \notin Texts

Stabilise ==
  /\ pc = "stabilise"
  /\ IF ~disabled THEN pc' = "number" /\ UNCHANGED job ELSE Return
  /\ UNCHANGED <<world, sim, records, budget>>

(* The number is dialled for.                                              *)
NumberFails ==
  \E result \in Results : Answered("number", result) /\ result # "prompt" /\ GiveUp

NumberPrompts == Answered("number", "prompt") /\ Requeue

NumberRead(shown, status) ==
  /\ Answered("number", "text")
  /\ row' = IF status = "HANGUS" /\ known[slot] # NoPair
            THEN [nomor |-> slot, nik |-> known[slot].nik, kk |-> known[slot].kk]
            ELSE [row EXCEPT !.nomor = slot]
  /\ awaiting' = (awaiting \/ status \in {"AKTIF", "TENGGANG"})
  /\ IF status = "HANGUS"
     THEN /\ flow' = [nomor |-> slot, pair |-> known[slot], before |-> shown]
          /\ pc' = IF known[slot] = NoPair THEN "nik" ELSE "inject"
          /\ UNCHANGED after
     ELSE Return
  /\ UNCHANGED <<world, sim, caches, history, ask, prompts>>

CheckNumber ==
  \/ NumberFails
  \/ NumberPrompts
  \/ \E shown \in Shown, status \in CardStatus : NumberRead(shown, status)

(* The NIK is dialled for and its KK looked up, in the cache or by the     *)
(* gateway.                                                                *)
NikFails ==
  \E result \in Results : Answered("nik", result) /\ result # "prompt" /\ GiveUp

NikPrompts == Answered("nik", "prompt") /\ Requeue

KkMissing ==
  /\ Answered("nik", "text")
  /\ row' = [row EXCEPT !.nik = slot]
  /\ Return
  /\ UNCHANGED <<world, sim, caches, history, budget>>

NikRead ==
  /\ Answered("nik", "text")
  /\ row' = [row EXCEPT !.nik = slot, !.kk = slot]
  /\ UpdatePhoneCache(flow.nomor, Pair(slot, slot))
  /\ flow' = [flow EXCEPT !.pair = Pair(slot, slot)]
  /\ pc' = "inject"
  /\ UNCHANGED <<world, sim, after, harvested, search, history, budget>>

CheckNik == NikFails \/ NikPrompts \/ KkMissing \/ NikRead

(* The network may extend the card, whatever the dial returns, when it is  *)
(* given the card's own NIK and KK.                                        *)
MayExtend(pair) ==
  \/ UNCHANGED date
  \/ /\ slot # NoCard /\ pair = Pair(slot, slot)
     /\ date' = [date EXCEPT ![slot] = New]

Provisional == {"text", "status0", "empty"}

Inject ==
  \E result \in Results :
    /\ Answered("inject", result)
    /\ MayExtend(flow.pair)
    /\ \/ result \in Provisional /\ pc' = "verify" /\ UNCHANGED <<job, ask, prompts>>
       \/ result \notin Provisional \cup {"prompt"} /\ Return /\ UNCHANGED <<ask, prompts>>
       \/ result = "prompt" /\ Recover /\ Return
    /\ UNCHANGED <<slot, disabled, events,
                   sim, records, awaiting>>

(* The card is read again.  Only +CUSD without a text and a menu end the   *)
(* flow at once; what is left, a timeout too, is searched for a date, and  *)
(* whatever is no success changes nothing here.                            *)
VerifyFails ==
  \E result \in Results : Answered("verify", result) /\ result # "prompt" /\ GiveUp

VerifyPrompts == Answered("verify", "prompt") /\ Requeue

(* save_to_harvest_db writes the row and both caches.                      *)
Verified(shown, status) ==
  /\ \E result \in Texts : Answered("verify", result)
  /\ Succeeded(flow.before, shown, status)
  /\ harvested' = harvested \cup {flow.nomor}
  /\ known' = [known EXCEPT ![flow.nomor] = flow.pair]
  /\ awaiting' = TRUE
  /\ Return
  /\ UNCHANGED <<world, sim, row, search, history, ask, prompts>>

Verify ==
  \/ VerifyFails
  \/ VerifyPrompts
  \/ \E shown \in Shown, status \in CardStatus : Verified(shown, status)

-----------------------------------------------------------------------------
(* execute_single_action: one request of the context menu.  A menu of the  *)
(* operator ends it without a retry.                                       *)

SingleEnds ==
  /\ Return
  /\ UNCHANGED <<world, sim, caches, history, budget>>

(* A text without a number leaves the old one.                             *)
CekNomor ==
  /\ \E result \in Results : Answered("cek_nomor", result)
  /\ \/ UNCHANGED row
     \/ Answered("cek_nomor", "text") /\ row' = [row EXCEPT !.nomor = slot]
  /\ SingleEnds

CekNikFails ==
  /\ \E result \in Results : Answered("cek_nik", result)
  /\ UNCHANGED row
  /\ SingleEnds

(* A NIK that is read goes to the cache with the number and KK of the row. *)
CekNik ==
  /\ \E result \in Texts : Answered("cek_nik", result)
  /\ row' = [row EXCEPT !.nik = slot]
  /\ UpdatePhoneCache(row.nomor, Pair(slot, row.kk))
  /\ Return
  /\ UNCHANGED <<world, sim, harvested, search, history, budget>>

(* The test for an empty NIK or KK never finds one, an unknown value being *)
(* "-": the cache is not asked, and no command can be built.               *)
ReaktivasiLacksData ==
  /\ pc = "reaktivasi" /\ NoCard \in {row.nik, row.kk}
  /\ UNCHANGED row
  /\ SingleEnds

Reaktivasi ==
  /\ NoCard \notin {row.nik, row.kk}
  /\ LET pair == Pair(row.nik, row.kk)
     IN  UpdatePhoneCache(row.nomor, pair) /\ MayExtend(pair)
  /\ \E result \in Results :
       /\ Answered("reaktivasi", result)
       /\ IF result \in {"prompt", "failed", "part"} THEN Return
          ELSE pc' = "reverify" /\ UNCHANGED job
  /\ UNCHANGED <<slot, disabled, events,
                 sim, row, harvested, search, history, budget>>

Reverify ==
  /\ \E result \in Results : Answered("reverify", result)
  /\ UNCHANGED row
  /\ SingleEnds

-----------------------------------------------------------------------------
(* The poll of the SIM and what run makes of it.                           *)

AtThreshold(count) == count >= CPIN_UNKNOWN_THRESHOLD

(* Mutant of ClearRow: the KK of the card that is gone stays.              *)
ClearRowButKk == row' = [NoRow EXCEPT !.kk = row.kk]

(* The table forgets the card.                                             *)
ClearRow == row' = NoRow

(* _handle_cpin_transition and PortStateMachine._on_cpin_transition; that  *)
(* the slot is empty is announced here and nowhere else.                   *)
Transition(state) ==
  /\ cpin' = state
  /\ \/ /\ state = "READY"
        /\ prompts' = 0
        /\ ask' = [ask EXCEPT !.auto = @ \/ (AutoRunOnInsert /\ ~awaiting)]
        /\ UNCHANGED <<awaiting, row>>
     \/ /\ state = "PIN_REQUIRED"
        /\ awaiting' = FALSE
        /\ UNCHANGED <<prompts, ask, row>>
     \/ /\ state = "NOT_INSERTED"
        /\ awaiting' = FALSE
        /\ ClearRow
        /\ UNCHANGED <<prompts, ask>>
  /\ left' = IF state = "NOT_INSERTED" /\ slot = NoCard THEN NoCard ELSE left

(* The end of a round: what was detected is counted, and a definite state  *)
(* that is new is a transition.                                            *)
Settle(state, count, confirming) ==
  /\ pc' = "inner"
  /\ seen' = "UNKNOWN"
  /\ IF state \in Definite THEN unknown' = 0 /\ pending' = FALSE
     ELSE /\ unknown' = IF state = "NOT_READY" /\ cpin = "READY" THEN 0 ELSE count
          /\ pending' = confirming
  /\ IF state \in Definite /\ state # cpin THEN Transition(state)
     ELSE UNCHANGED <<cpin, prompts, ask, awaiting, row, left>>

(* The round waits for the answer to another AT+CPIN?.                     *)
AskAgain(step, state, count, confirming) ==
  /\ pc' = step
  /\ seen' = state
  /\ unknown' = count
  /\ pending' = confirming
  /\ UNCHANGED <<cpin, prompts, ask, awaiting, row, left>>

ConfirmOrSettle(state, count, confirming) ==
  IF confirming /\ cpin = "READY"
  THEN AskAgain("confirm", state, count, confirming)
  ELSE Settle(state, count, confirming)

Polled == UNCHANGED <<job, caches, crossed>>

(* AT+CPIN? is asked; an answer that does not come is UNKNOWN.             *)
PollReady ==
  /\ PastAuto /\ Hears("READY")
  /\ Settle("READY", 0, FALSE)
  /\ Polled

PollNotReady ==
  /\ PastAuto /\ Hears("NOT_READY")
  /\ ConfirmOrSettle("NOT_READY", unknown, pending \/ cpin = "READY")
  /\ Polled

PollUnknown ==
  /\ PastAuto /\ Hears("UNKNOWN")
  /\ LET count == IF cpin = "READY" THEN unknown + 1 ELSE unknown
     IN  IF cpin = "READY" /\ AtThreshold(count)
         THEN AskAgain("final", "UNKNOWN", count, pending)
         ELSE ConfirmOrSettle("UNKNOWN", count, pending)
  /\ Polled

PollGone ==
  /\ PastAuto
  /\ \E answer \in {"NOT_INSERTED", "PIN_REQUIRED"} :
       Hears(answer) /\ ConfirmOrSettle(answer, unknown, pending)
  /\ Polled

Poll == PollReady \/ PollNotReady \/ PollUnknown \/ PollGone

(* Too many unknown answers: one more query; only NOT_INSERTED counts.     *)
FinalQuery ==
  /\ pc = "final"
  /\ \/ Hears("NOT_INSERTED") /\ Settle("NOT_INSERTED", 0, FALSE)
     \/ \E answer \in CpinAnswers \ {"NOT_INSERTED"} :
          Hears(answer) /\ ConfirmOrSettle("READY", 0, pending)
  /\ Polled

(* A NOT_READY is asked about again, in this round and in every later one: *)
(* removal_confirmation_count is compared with nothing and left out.       *)
Confirm ==
  /\ pc = "confirm"
  /\ \/ \E answer \in {"READY", "NOT_INSERTED"} :
          Hears(answer) /\ Settle(answer, unknown, FALSE)
     \/ Hears("NOT_READY") /\ Settle("NOT_READY", unknown, pending)
     \/ \E answer \in {"UNKNOWN", "PIN_REQUIRED"} :
          Hears(answer) /\ Settle(seen, unknown, pending)
  /\ Polled

-----------------------------------------------------------------------------
(* The user, whose requests are flags set from the thread of the window.   *)

Click ==
  /\ Event
  /\ UNCHANGED <<slot, date, pc, sim, job,
                 row, known, harvested, history, prompts, awaiting>>

(* request_modem_reset takes the other requests back.                      *)
ClickReset ==
  /\ ask' = [NoAsk EXCEPT !.reset = TRUE]
  /\ UNCHANGED <<disabled, search>>
  /\ Click

ClickSingle ==
  /\ \E action \in Singles : ask' = [ask EXCEPT !.single = action]
  /\ UNCHANGED <<disabled, search>>
  /\ Click

ClickRestart ==
  /\ ask' = [ask EXCEPT !.retry = TRUE]
  /\ UNCHANGED <<disabled, search>>
  /\ Click

ClickOnOff ==
  /\ disabled' = ~disabled
  /\ UNCHANGED <<ask, search>>
  /\ Click

(* menu_cari_kk: a thread of its own looks for the KK of the NIK in the    *)
(* row, one at a time here.                                                *)
ClickFindKk ==
  /\ search = NoCard /\ row.nik # NoCard
  /\ search' = row.nik
  /\ UNCHANGED <<ask, disabled>>
  /\ Click

(* What it finds goes into the row, whatever card that is about by then.   *)
KkFound ==
  /\ search # NoCard
  /\ search' = NoCard
  /\ \/ UNCHANGED <<row, crossed>>
     \/ /\ row' = [row EXCEPT !.kk = search]
        /\ crossed' = (crossed \/ row.nik # search)
  /\ UNCHANGED <<world, pc, sim, job, known, harvested, left, budget>>

-----------------------------------------------------------------------------
(* The cards.                                                              *)

InsertCard(c) ==
  /\ slot = NoCard /\ Event
  /\ slot' = c
  /\ left' = NoCard
  /\ crossed' = (crossed \/ left \notin {c, NoCard})
  /\ UNCHANGED <<date, disabled, pc,
                 sim, job, row, caches, budget>>

RemoveCard ==
  /\ slot # NoCard /\ slot' = NoCard
  /\ left' = slot
  /\ UNCHANGED <<date, disabled, events, pc,
                 sim, job, row, caches, crossed, budget>>

-----------------------------------------------------------------------------
Loop == \/ Connect \/ LoopError \/ Leave \/ TakeReset \/ PerformReset
        \/ ReadSingle \/ ClearSingle \/ TakeRetry \/ TakeAuto
FullFlow == Stabilise \/ CheckNumber \/ CheckNik \/ Inject \/ Verify
SingleAction == \/ CekNomor \/ CekNikFails \/ CekNik \/ ReaktivasiLacksData
                \/ Reaktivasi \/ Reverify
SimPoll == Poll \/ FinalQuery \/ Confirm
Worker == Loop \/ FullFlow \/ SingleAction \/ SimPoll

User == \/ ClickReset \/ ClickSingle \/ ClickRestart \/ ClickOnOff
        \/ ClickFindKk \/ KkFound
World == (\E c \in Cards : InsertCard(c)) \/ RemoveCard

Next == Worker \/ User \/ World

Spec == Init /\ [][Next]_vars

(* The thread is scheduled and every wait of it has a limit.               *)
FairSpec == Spec /\ WF_vars(Worker)

-----------------------------------------------------------------------------
AskType == [reset : BOOLEAN, single : Singles \cup {"none"}, retry : BOOLEAN,
            auto : BOOLEAN]
PairType == [nik : MaybeCard, kk : MaybeCard]
RowType == [nomor : MaybeCard, nik : MaybeCard, kk : MaybeCard]
FlowType == [nomor : MaybeCard, pair : PairType, before : Dates]

WorldOK ==
  /\ slot \in MaybeCard
  /\ date \in [Cards -> {Old, New}]
  /\ disabled \in BOOLEAN
  /\ events \in 0 .. MaxEvents

SimOK ==
  /\ cpin \in Definite \cup {"UNKNOWN"}
  /\ seen \in CpinAnswers
  /\ unknown \in Nat
  /\ pending \in BOOLEAN

JobOK ==
  /\ pc \in Steps
  /\ after \in {"auto", "poll", "retry"} \cup Singles
  /\ flow \in FlowType
  /\ pc \in {"nik", "inject", "verify"} => flow.nomor # NoCard

RecordsOK ==
  /\ row \in RowType
  /\ known \in [Cards -> PairType]
  /\ harvested \subseteq Cards
  /\ left \in MaybeCard /\ crossed \in BOOLEAN
  /\ search \in MaybeCard

BudgetOK ==
  /\ ask \in AskType
  /\ prompts \in 0 .. PROMPT_RECOVERY_MAX
  /\ awaiting \in BOOLEAN

(* Every variable has its type; the operator's menus are counted up to the *)
(* limit the code names.                                                   *)
TypeOK == WorldOK /\ SimOK /\ JobOK /\ RecordsOK /\ BudgetOK

(* A number is put in the harvest only if the network has extended its     *)
(* card, although cards are exchanged and the worker never looks at the    *)
(* slot between the dial that reads the old date and the one that reads    *)
(* the new.  What is excepted is an exchange within that time and the like *)
(* that no poll can see: the new card is in the slot before the program    *)
(* has announced that the old one is gone.                                 *)
HarvestIsExtended == ~crossed => \A c \in harvested : date[c] = New

(* The phone cache, which flows and requests of the user all write from    *)
(* the row, gives every number its own NIK and KK: when a card is gone and *)
(* the program has said so, nothing of it is left anywhere to be written   *)
(* down with the next card.  The exceptions are those of the exchange that *)
(* no poll can see, and a KK that a thread of menu_cari_kk brings to a row *)
(* of another card.                                                        *)
PairsAreOwn ==
  ~crossed => \A c \in Cards : known[c] \in {Pair(c, c), NoPair}

(* However often the operator answers with a menu, after the last request, *)
(* card and fault the port stops dialling by itself.                       *)
AutomationEnds == <>[](pc \notin Flow)

================================================================================
