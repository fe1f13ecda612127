------------------------------- MODULE KebunTable ------------------------------
(***************************************************************************)
(* The window of GOOD and the worker of one COM port.  The scanner thread  *)
(* looks for ports, the main thread makes and stops workers by what it     *)
(* found, a worker reports its status.  The registry is written by the     *)
(* worker at once and by the main thread once more, when it takes the      *)
(* report out of the queue; the main thread alone writes the table.        *)
(*                                                                         *)
(* Of a row only the status is modelled; every report comes with another   *)
(* text (respon), which puts the row back if it is absent.  What the SIM   *)
(* answers to a poll is taken as confirmed, see KebunPort for that.  The   *)
(* drain empties the queue and keeps the last update of a column, so that  *)
(* is all the model keeps of the queue.                                    *)
(***************************************************************************)
EXTENDS Integers

CONSTANTS
  MaxWorkers,  \* bound: workers that the port gets
  MaxChanges   \* bound: plugging, SIM changes, failed scans and clicks

ASSUME TableAssumption == MaxWorkers \in Nat /\ MaxChanges \in Nat

Workers == 1 .. MaxWorkers
Statuses == {"IDLE", "OFF", "READY", "PROSES", "DONE", "RESET"}
SimStates == {"READY", "NOT_INSERTED"}

VARIABLES
  step,      \* per worker: where its thread is
  stopped,   \* per worker: is_running is FALSE
  cpin,      \* per worker: cpin_state
  asked,     \* per worker: reset_requested
  holder,    \* the worker that has the COM port open, 0 if none
  worker,    \* workers[port], 0 if there is none
  status,    \* the registry: status
  lastCpin,  \* the registry: last_cpin
  update,    \* ui_updates: the last report, "none" if it is empty
  batch,     \* the update that the main thread has taken out
  row,       \* the status that the table shows, "none" without a row
  main,      \* the main thread: idle, or a step of drain_background_events
  scanning,  \* scan_in_progress
  scanner,   \* the scanner thread: idle, looking, or about to end
  found,     \* port_scan_results: the newest
  disabled,  \* the port is in disabled_ports
  plugged, simIn, \* hardware: the modem is there, its SIM is in
  changes    \* how many changes there were

thread == <<step, stopped, cpin, asked, holder>>
registry == <<status, lastCpin>>
window == <<batch, row, main, worker>>
scan == <<scanning, scanner, found>>
outside == <<plugged, simIn, disabled, changes>>
others == <<window, scan, outside>>
tableVars == <<thread, registry, update, others>>

-----------------------------------------------------------------------------
(* A new worker is no worker's successor in the code; numbers tell them    *)
(* apart here.                                                             *)
Fresh(w) == step[w] = "unused" /\ \A v \in Workers : v < w => step[v] # "unused"

(* _should_accept_status_update                                            *)
Accepts(new) ==
  new = "IDLE" /\ status \in {"OFF", "READY"} => lastCpin = "NOT_INSERTED"

(* What _on_cpin_transition makes of a state of the SIM.                   *)
StatusOf(state) == IF state = "READY" THEN "READY" ELSE "IDLE"

TableInit ==
  /\ step = [w \in Workers |-> "unused"]
  /\ stopped = [w \in Workers |-> FALSE]
  /\ cpin = [w \in Workers |-> "UNKNOWN"]
  /\ asked = [w \in Workers |-> FALSE]
  /\ holder = 0 /\ worker = 0
  /\ status = "IDLE" /\ lastCpin = "UNKNOWN"
  /\ update = "none" /\ batch = "none" /\ row = "none" /\ main = "idle"
  /\ scanning = FALSE /\ scanner = "idle" /\ found = "none"
  /\ disabled = FALSE
  /\ plugged \in BOOLEAN /\ simIn \in BOOLEAN
  /\ changes = 0

-----------------------------------------------------------------------------
(* The thread of a worker.                                                 *)

At(w, from, to) == step[w] = from /\ step' = [step EXCEPT ![w] = to]

Reports(s) == update' = s

(* The loop of run() ends.                                                 *)
Ends(w) ==
  /\ At(w, "loop", "ended") /\ stopped[w]
  /\ UNCHANGED <<stopped, cpin, asked, holder, registry, update, others>>

ReportsOff(w) ==
  /\ step[w] = "loop" /\ ~stopped[w] /\ disabled
  /\ Reports("OFF")
  /\ UNCHANGED <<thread, registry, others>>

(* No modem answers, or another thread has the port open.                  *)
ReportsNoModem(w) ==
  /\ step[w] = "loop" /\ ~stopped[w] /\ ~disabled
  /\ ~plugged \/ holder # 0
  /\ Reports("OFF")
  /\ UNCHANGED <<thread, registry, others>>

Opens(w) ==
  /\ At(w, "loop", "open") /\ ~stopped[w] /\ ~disabled
  /\ plugged /\ holder = 0
  /\ holder' = w
  /\ UNCHANGED <<stopped, cpin, asked, registry, update, others>>

Leaves(w) ==
  /\ At(w, "open", "loop") /\ (stopped[w] \/ disabled)
  /\ holder' = 0
  /\ UNCHANGED <<stopped, cpin, asked, registry, update, others>>

(* _perform_modem_reset; then the port is opened again.                    *)
Resets(w) ==
  /\ At(w, "open", "loop") /\ ~stopped[w] /\ ~disabled /\ asked[w]
  /\ asked' = [asked EXCEPT ![w] = FALSE]
  /\ holder' = 0
  /\ Reports("RESET")
  /\ UNCHANGED <<stopped, cpin, registry, others>>

(* A round of the inner loop: a flow if one is asked for, then the poll.   *)
StartsRound(w) ==
  /\ step[w] = "open" /\ ~stopped[w] /\ ~disabled /\ ~asked[w]
  /\ \E to \in {"round", "poll"} : step' = [step EXCEPT ![w] = to]
  /\ UNCHANGED <<stopped, cpin, asked, holder, registry, update, others>>

(* execute_full_flow and the single actions: PROSES, then a result.        *)
BeginsFlow(w) ==
  /\ At(w, "round", "flow")
  /\ Reports("PROSES")
  /\ UNCHANGED <<stopped, cpin, asked, holder, registry, others>>

EndsFlow(w) ==
  /\ At(w, "flow", "poll")
  /\ Reports("DONE")
  /\ UNCHANGED <<stopped, cpin, asked, holder, registry, others>>

(* The port fails; the exception ends a flow too.                          *)
LinkError(w) ==
  /\ step[w] \in {"flow", "poll"} /\ ~plugged
  /\ step' = [step EXCEPT ![w] = "loop"]
  /\ holder' = 0
  /\ UNCHANGED <<stopped, cpin, asked, registry, update, others>>

SimState == IF simIn THEN "READY" ELSE "NOT_INSERTED"

NothingNew(w) ==
  /\ At(w, "poll", "open") /\ plugged /\ cpin[w] = SimState
  /\ UNCHANGED <<stopped, cpin, asked, holder, registry, update, others>>

(* _handle_cpin_transition                                                 *)
Hears(w) ==
  /\ At(w, "poll", "heard") /\ plugged /\ cpin[w] # SimState
  /\ cpin' = [cpin EXCEPT ![w] = SimState]
  /\ lastCpin' = SimState
  /\ UNCHANGED <<stopped, asked, holder, status, update, others>>

(* PortStateMachine._set_status, the registry first.                       *)
Writes(w) ==
  /\ At(w, "heard", "wrote")
  /\ status' = IF Accepts(StatusOf(cpin[w])) THEN StatusOf(cpin[w]) ELSE status
  /\ UNCHANGED <<stopped, cpin, asked, holder, lastCpin, update, others>>

(* Mutant of Tells: the window is not told.                                *)
TellsNobody(w) ==
  /\ At(w, "wrote", "open")
  /\ UNCHANGED <<stopped, cpin, asked, holder, registry, update, others>>

Tells(w) ==
  /\ At(w, "wrote", "open")
  /\ Reports(StatusOf(cpin[w]))
  /\ UNCHANGED <<stopped, cpin, asked, holder, registry, others>>

-----------------------------------------------------------------------------
(* drain_background_events on the main thread.                             *)

(* Of the updates of a column only the last is kept.                       *)
TakeUpdates ==
  /\ main = "idle" /\ update # "none"
  /\ batch' = update
  /\ update' = "none"
  /\ main' = "update"
  /\ UNCHANGED <<thread, registry, row, worker, scan, outside>>

NoUpdates ==
  /\ main = "idle" /\ update = "none" /\ found # "none"
  /\ main' = "scan"
  /\ UNCHANGED <<thread, registry, update, batch, row, worker, scan, outside>>

(* _update_tree_row_main                                                   *)
UpdateRow ==
  /\ main = "update"
  /\ status' = IF Accepts(batch) THEN batch ELSE status
  /\ row' = IF Accepts(batch) THEN batch
            ELSE IF row = "none" THEN status ELSE row
  /\ batch' = "none" /\ main' = "scan"
  /\ UNCHANGED <<thread, lastCpin, update, worker, scan, outside>>

NoScan ==
  /\ main = "scan" /\ found = "none"
  /\ main' = "idle"
  /\ UNCHANGED <<thread, registry, update, batch, row, worker, scan, outside>>

(* _apply_port_scan                                                        *)
PortFound ==
  /\ main = "scan" /\ found = "there"
  /\ IF worker = 0
     THEN \E w \in Workers :
            /\ Fresh(w) /\ worker' = w
            /\ step' = [step EXCEPT ![w] = "loop"]
     ELSE UNCHANGED <<worker, step>>
  /\ row' = status
  /\ found' = "none" /\ main' = "idle"
  /\ UNCHANGED <<stopped, cpin, asked, holder, registry, update, batch,
                 scanning, scanner, outside>>

(* Mutant of PortGone: the thread is not told.                             *)
PortForgotten ==
  /\ main = "scan" /\ found = "absent"
  /\ worker' = 0 /\ row' = IF worker = 0 THEN row ELSE "none"
  /\ found' = "none" /\ main' = "idle"
  /\ UNCHANGED <<thread, registry, update, batch, scanning, scanner, outside>>

PortGone ==
  /\ main = "scan" /\ found = "absent"
  /\ stopped' = [w \in Workers |-> stopped[w] \/ w = worker]
  /\ worker' = 0 /\ row' = IF worker = 0 THEN row ELSE "none"
  /\ found' = "none" /\ main' = "idle"
  /\ UNCHANGED <<step, cpin, asked, holder, registry, update, batch,
                 scanning, scanner, outside>>

-----------------------------------------------------------------------------
(* Clicks and timers, on the main thread between two drains.               *)

Changes == changes < MaxChanges /\ changes' = changes + 1

TurnOff ==
  /\ main = "idle" /\ row # "none" /\ Changes
  /\ disabled' = TRUE
  /\ status' = "OFF" /\ row' = "OFF"
  /\ UNCHANGED <<thread, lastCpin, update, batch, main, worker, scan,
                 plugged, simIn>>

TurnOn ==
  /\ main = "idle" /\ disabled /\ Changes
  /\ disabled' = FALSE
  /\ UNCHANGED <<thread, registry, update, window, scan, plugged, simIn>>

(* Reset modem marks the row and asks the worker.                          *)
MarkReset ==
  /\ main = "idle" /\ worker # 0 /\ Changes
  /\ status' = "RESET" /\ row' = "RESET"
  /\ asked' = [asked EXCEPT ![worker] = TRUE]
  /\ UNCHANGED <<step, stopped, cpin, holder, lastCpin, update, batch, main,
                 worker, scan, plugged, simIn, disabled>>

(* Back to the workspace: the rows of registered workers, as registered.   *)
RestoreTable ==
  /\ main = "idle" /\ Changes
  /\ row' = IF worker = 0 THEN "none" ELSE status
  /\ UNCHANGED <<thread, registry, update, batch, main, worker, scan,
                 plugged, simIn, disabled>>

(* Every three seconds, and with each restored table; it touches nothing   *)
(* that a drain reads or writes before its end.                            *)
RequestScan ==
  /\ ~scanning
  /\ scanning' = TRUE /\ scanner' = "looking"
  /\ UNCHANGED <<thread, registry, update, window, found, outside>>

-----------------------------------------------------------------------------
(* The scanner thread, which may raise instead.                            *)

(* Mutant of LookFails: the flag is not cleared when the scan raises.      *)
LookDies ==
  /\ scanner = "looking" /\ Changes
  /\ scanner' = "idle"
  /\ UNCHANGED <<thread, registry, update, window, scanning, found,
                 plugged, simIn, disabled>>

LookFails ==
  /\ scanner = "looking" /\ Changes
  /\ scanner' = "ending"
  /\ UNCHANGED <<thread, registry, update, window, scanning, found,
                 plugged, simIn, disabled>>

Looks ==
  /\ scanner = "looking"
  /\ found' = IF plugged THEN "there" ELSE "absent"
  /\ scanner' = "ending"
  /\ UNCHANGED <<thread, registry, update, window, scanning, outside>>

ScanEnds ==
  /\ scanner = "ending"
  /\ scanning' = FALSE /\ scanner' = "idle"
  /\ UNCHANGED <<thread, registry, update, window, found, outside>>

-----------------------------------------------------------------------------
(* The hardware.                                                           *)

Plug ==
  /\ Changes /\ plugged' = ~plugged
  /\ UNCHANGED <<thread, registry, update, window, scan, simIn, disabled>>

ChangeSim ==
  /\ Changes /\ simIn' = ~simIn
  /\ UNCHANGED <<thread, registry, update, window, scan, plugged, disabled>>

-----------------------------------------------------------------------------
Runs(w) == \/ Ends(w) \/ ReportsOff(w) \/ ReportsNoModem(w) \/ Opens(w)
           \/ Leaves(w) \/ Resets(w) \/ StartsRound(w) \/ BeginsFlow(w)
           \/ EndsFlow(w) \/ LinkError(w) \/ NothingNew(w) \/ Hears(w)
           \/ Writes(w) \/ Tells(w)
Drain == \/ TakeUpdates \/ NoUpdates \/ UpdateRow
         \/ NoScan \/ PortFound \/ PortGone
Clicks == TurnOff \/ TurnOn \/ MarkReset \/ RestoreTable
Scan == RequestScan \/ Looks \/ ScanEnds
TableNext == \/ \E w \in Workers : Runs(w)
             \/ Drain \/ Clicks \/ Scan \/ LookFails \/ Plug \/ ChangeSim

TableSpec == TableInit /\ [][TableNext]_tableVars

(* Threads run and timers fire.                                            *)
FairTableSpec ==
  /\ TableSpec
  /\ \A w \in Workers : WF_tableVars(Runs(w))
  /\ WF_tableVars(Drain) /\ WF_tableVars(Scan)

-----------------------------------------------------------------------------
Steps == {"unused", "loop", "open", "round", "flow", "poll", "heard",
          "wrote", "ended"}

(* Every variable has its type.                                            *)
TableTypeOK ==
  /\ step \in [Workers -> Steps] /\ stopped \in [Workers -> BOOLEAN]
  /\ cpin \in [Workers -> SimStates \cup {"UNKNOWN"}]
  /\ asked \in [Workers -> BOOLEAN]
  /\ holder \in 0 .. MaxWorkers /\ worker \in 0 .. MaxWorkers
  /\ status \in Statuses /\ lastCpin \in SimStates \cup {"UNKNOWN"}
  /\ update \in Statuses \cup {"none"}
  /\ batch \in Statuses \cup {"none"} /\ row \in Statuses \cup {"none"}
  /\ main \in {"idle", "update", "scan"} /\ (main = "update" <=> batch # "none")
  /\ scanning \in BOOLEAN /\ scanner \in {"idle", "looking", "ending"}
  /\ found \in {"none", "there", "absent"}
  /\ disabled \in BOOLEAN /\ plugged \in BOOLEAN /\ simIn \in BOOLEAN
  /\ changes \in 0 .. MaxChanges

(* With no report under way the table shows what the registry holds,       *)
(* although the worker wrote the registry first, the main thread writes it *)
(* again later, and either write may be refused.                           *)
RowTellsRegistry ==
  update = "none" /\ main # "update" /\ (\A w \in Workers : step[w] # "wrote")
    => row \in {"none", status}

(* A modem that stays plugged, its port enabled, is always served again by *)
(* the worker that the window knows.                                       *)
PortIsServed ==
  <>[](plugged /\ ~disabled) => []<>(worker # 0 /\ holder = worker)

(* A modem that left for good leaves no worker behind.                     *)
GoneIsReleased ==
  <>[]~plugged =>
    <>[](/\ worker = 0 /\ holder = 0
         /\ \A w \in Workers : step[w] \in {"unused", "ended"})

================================================================================
