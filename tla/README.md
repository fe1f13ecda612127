# SAIKI, GOOD, BAD and SENGKUNI: a verification project

The programs in this repository drive a rack of GSM modems on a Windows PC: they
find COM ports, keep one worker per modem, poll the SIM of each with `AT+CPIN?`,
dial USSD codes on the ports, and record what the network answers. There are four
of them:

- **GOOD** (`src/GOOD/app/kebun_reaktivasi(rev).py`), one file with threads,
  window, database and serial protocol;
- **BAD** (`src/BAD/app/kebun_reaktivasi.py`), a later variant of that file, which its
  authors keep as a counterexample;
- **SENGKUNI** (`src/SENGKUNI`), a smaller worker split into modules;
- **SAIKI** (`src/SAIKI`), the program GOOD was split into, with a dispatcher of
  workflows, a fleet of workers and a pipeline of skills.

This directory holds TLA+ models of the parts where threads, timeouts and hardware
events meet, the TLC runs that check them on small instances, and theorems about
them that TLAPS checks for all instances. Paths in the parts about SAIKI are relative
to `src/SAIKI`.

## 1. Inventory

### Parts

| Part | Source | State it keeps | Operations |
|---|---|---|---|
| SAIKI workflow dispatcher | `automation/engine.py`, `queue.py`, `scheduler.py`, `state.py`, `policy.py`, `retry.py`, `triggers.py` | the queue, the slot counter, a status per port, a duplicate window, counters | `handle_trigger`, `enqueue_workflow`, the worker loop, one thread per workflow, `_on_port_excluded`, `stop` |
| SAIKI SIM monitor | `worker/cpin_runtime.py`, `app/domain/classifier.py` | the believed CPIN state, two counters, the poll thread | poll, confirmation poll, stabilisation, publication, `stop`, `reset_stabilization` |
| SAIKI fleet of port workers | `worker/worker_manager.py`, `worker/modem_discovery.py` | workers by port, port states, failed ports with a cooldown | scan loop, `create_worker`, `destroy_worker`, `exclude_port`, `include_port`, `stop_all` |
| SAIKI modem monitor | `worker/modem_monitor.py` | the ports it knows, the ports it found online | `_check_ports` every three seconds |
| SAIKI port worker | `worker/port_worker.py`, `worker/state.py`, `worker/rules.py`, `app/domain/state_machine/hw_sm.py` | status, requests, modem online, the hardware state machine, the thread | `start`, `stop`, `restart`, tick, step, automatic run, hardware restart, `connect`, `disconnect` |
| SAIKI mass action | `worker/mass_action.py` | the current action, its progress, its thread | begin, set the single action of each worker, wait on its status, report |
| SAIKI serial link | `app/infrastructure/serial/`, `worker/ussd_runtime.py`, `worker/cleanup.py` | the input buffer, a lock per AT client, the modem's USSD session | `send_command`, `send_ussd`, `dial`, `open`, `close`, `reset_input_buffer` |
| SAIKI workflow runner, skills | `workflow/`, `worker/skills/` | the context of one execution | run the skills of a workflow in order |
| SAIKI reactivation retry | `worker/reactivation_retry.py` | the attempt | inject, verify, reset, again |
| SAIKI controller, programs | `worker/ui/controller.py`, `main.py`, `gui.py`, `worker/system_bootstrap.py` | command bookkeeping | event handlers, commands, wiring |
| SAIKI event bus | `worker/ui/event_bus.py` | handlers by event | `subscribe`, `publish` (synchronous) |
| SAIKI caches, window | `worker/intelligence/`, `worker/db_lookup.py`, `worker/ui/` | phone numbers, database rows, cell values | lookup, store, redraw |
| GOOD, worker of a port | `PortWorker`, `PortStateMachine` | requests, SIM state and its counters, prompts, the card cycle, the row of the port | `run`, full flow, single action, modem reset, SIM poll |
| GOOD, serial port | `PortWorker.send_ussd` and its session methods | the input buffer, the number of the session | dial with fence, read loop and grace read; poll |
| GOOD, window | `KebunAutomasiGUI`, `PortRegistry` | registry of ports, queues of updates and scan results, the tree | scan, apply a scan, drain, menus |
| GOOD, harvest | `init_database` ... `iter_import_records`, `delete_panen_rows` | SQLite tables, `phone_cache`, `db_cache` | save, import, delete, look up |
| BAD, worker of a port | `PortWorker`, `PortStateMachine` | as GOOD, and a pending menu, a record of the flow, an active serial port | as GOOD, and cancellation, shutdown |
| SENGKUNI, a port | `worker/port_worker.py`, `worker/cpin_runtime.py`, `worker/ussd_runtime.py`, `app/infrastructure/serial/at_client.py`, `worker/ui/controller.py` | the flag of the thread, a pending run, the SIM state, the session fence, one AT client per start | `start`, `stop`, `restart`, workflows, `dial`, poll, commands of the window |

### How they interact

SAIKI: every port worker has a thread (tick), a SIM monitor thread, one serial port
and one AT client with a lock. Events are delivered by `event_bus.publish` on the
thread that publishes, and exceptions of handlers are swallowed. So
`_on_port_excluded` runs on the UI thread, `handle_trigger` on the thread of whichever
monitor published, and `destroy_worker` can run on the thread of the worker it
destroys. The bootstrap and the controller both subscribe to the modem and CPIN events
and both call `handle_trigger`; duplicate triggers are normal. The dispatcher reads
port states from the fleet and auto-run from the policy, both without its own lock.
Workflow threads and the SIM monitor share the AT client of a port.

GOOD and BAD: one thread per port owns the serial port and does everything on it in
turn. The main thread sets flags of the worker (`reset_requested`, `single_action`,
`force_retry`, `pending_auto_run`), makes and stops workers by what the scanner thread
found, and reads two queues ten times a second. Workers write the registry themselves
and report every change through a queue as well. The caches and the SQLite file are
shared by worker threads, the import thread and the main thread without a lock.

SENGKUNI: a start makes a serial adapter, an AT client, a SIM monitor and a thread;
the window's commands run skills on threads of their own. What a stop did not wait
for shares the flag, the pending run, the SIM state and the session fence with the
next start. The fence has no owner: it refuses a dial that begins less than a quarter of
a second after the fence was touched, and lets a second dial begin during a longer one.

### What is hard, and what makes each part correct

| Part | What is hard | What makes it correct |
|---|---|---|
| Dispatcher | gates, scheduling and enqueueing are separate steps; slots are taken by the loop and given back by the workflow threads; two cancellers do not take the engine lock | slots never leak; a port waits once; an excluded port stays at rest; what is queued is served |
| SIM monitor | an increment that another thread's reset can run through; misread answers; a poller that outlives the wait for it | READY is never lost to one answer; subscribers know the state; a change that lasts is noticed |
| Fleet | two scans, the monitor, a failing worker and `stop_all` create and destroy the same worker on what they saw seconds ago | the two maps agree; no worker leaks or is taken down twice; a modem that stays is served; a port that left is released |
| Serial link | a command returns at the first OK; late lines are read by the next command; the poller flushes without the lock | until a command times out an answer is read by the command it belongs to; a poll never tells of a SIM from before its flush; every workflow ends |
| SAIKI port worker | a stop that gives up after five seconds, with a start after it; a restart on the caller's thread; five flags set from anywhere | one thread; BUSY is not left behind; a restart ends where it says; requests are served |
| Mass action | a thread that takes the current action when it runs, and a status of a worker it does not control | it reports its own ports |
| GOOD, port | minutes of dialling on a card nobody watches; menus that queue the flow again | only extended cards are harvested, pairs belong together, dialling ends |
| GOOD, serial port | texts that come after their dial was given up | a dial returns its own text unless an older one comes after its fence, a poll the state of the SIM |
| GOOD, window | two writers of the registry, a coalesced queue, old scans | the table shows the registry, a modem is served, a lost one released |
| GOOD, harvest | caches filled inside a transaction, columns in any order | a number is never paired with foreign data; table and cache agree; deleted is deleted |
| SENGKUNI | the remains of an earlier life of the port | READY is confirmed; a removal is noticed; a request is taken; a stopped port comes to rest |
| BAD, port | cancellation at checkpoints with long waits behind them, menus that wait, a shutdown under a dial | at most one dial overtakes a reset; it is performed; menus are resolved; a shutdown ends |

`PROJECT.json` lists every component, and every hazard with the line where it
bites and the properties that would catch it.

## 2. What is modelled

### SAIKI, the dispatcher: `AutomationEngine`, `WorkflowDispatch`

| Variable | In the code |
|---|---|
| `queue`, `slots`, `held` | `WorkflowQueue._queue`, `_running`, and the item `_process_queue` has dequeued |
| `status` | `AutomationState._status` of every port |
| `portState`, `autoRun`, `running` | what the gates read: `WorkerManager._port_states`, `AutoRunConfig`, `AutomationEngine._running` |
| `recent` | `_recent_triggers`, within the five seconds |
| `calls`, `loop`, `jobs`, `ui` | where each caller, the worker loop, each workflow thread and the UI thread are |
| `count` | the audit counters |

| Action | Code |
|---|---|
| `HandleTrigger`, `AutoRunGate`, `Evaluate`, then `Cancel`, `CancelSetIdle`, `Standby` or `Enqueue` | `handle_trigger` up to its `_enqueue`: participation gate, auto-run gate, `evaluate_trigger`, the branch it chooses |
| `EnqueueWorkflow`, `Enqueue` | `enqueue_workflow` |
| `LoopWakes`, `Dequeue`, `Dispatch` | `_worker_loop`, `_process_queue` |
| `JobStarts`, `StepSucceeds`, `NextStep`, `JobCompletes`, `StepFails`, `JobRaises`, `ReleaseSlot` | `_execute_workflow` and the loop of the workflow runner |
| `ExcludePort`, `OnPortExcluded`, `IncludePort`, `ToggleAutoRun`, `Stop`, `StopClears` | the UI thread |
| `WindowCloses` | five seconds pass |

The queue is a set ordered by `Precedes` (priority, then creation time), the order
the code's sort keeps. `_enqueue` is one step although it does not hold the queue's
lock throughout: it runs under the engine's lock, and whatever reads the item it
has just added either takes that lock before it writes a status or removes the item,
which gives the same result either way. A caller that looks at a port and returns
without effect is left out where nothing can tell. `StepFails` has a retry branch
which the code never takes: the two dates that `_should_retry` compares come from
context keys that nothing writes (`ShouldRetry` evaluates the comparison of two
empty strings).

`WorkflowDispatch` is what the dispatcher promises: a port waits at most once, a
workflow starts only for a port that waited and only while fewer than `Capacity`
are under way, and each ends once. The refinement maps `pending` to the ports of
the queue and `underway` to the slots in use plus the item in the loop's hand.

### SAIKI, the SIM monitor: `CpinRuntime`, `DebouncedSim`

`poller` is the poll thread, with the answer it has read (`raw`, `answer`) and the
counter value it has loaded; `state`, `count`, `polled`, `running` are the runtime's
fields; `stopper` says how far `PortWorker.disconnect` has come; `sim`, `swaps` and
`glitches` are the modem; `heard` is what the last `cpin.transition` said.

| Action | Code |
|---|---|
| `LoopTest`, `Query` | `_poll_loop`, `_send_cpin_query`, `parse_cpin_response` |
| `AskAgain`, `ConfirmQuery`, `Confirmed` | `_check_confirmation_needed`, the confirmation poll |
| `LoadCount`, `StoreCount`, `Weigh`, `Accept` | `_apply_stabilization`; the increment is a load and a store |
| `Publish` | the publication in `_poll_once` |
| `StopRequested`, `JoinReturns`, `ResetStabilization`, `CloseSerial` | `stop()` with its five-second wait, `reset_stabilization()`, the closing of the port |

The parser is modelled on the answers it tells apart (`Raws`); a misread answer is
one of `Glitches`, drawn from what another command on the same line can leave:
nothing, another line, another CPIN answer. `reset_stabilization` is one step as
nothing reads two counters together. `_checking_count` and the statistics feed the
log only and are left out.

`DebouncedSim` is the promise: a first bad answer raises a doubt, only a second one
takes READY away, and any other state follows the answers at once.

### SAIKI, the fleet: `WorkerManager`

| Variable | In the code |
|---|---|
| `registered`, `portState`, `failed`, `scanning` | `_workers`, `_port_states`, `_failed_ports` within the cooldown, `_scanning` |
| `alive`, `holder`, `probing` | worker threads that run, and who has the COM port open |
| `scan` | for the scan loop and the scan command: the enumeration, the snapshots and the probe results they hold while they work |
| `known`, `watch` | `ModemMonitor._known_ports`, and the event it is handling |
| `dying` | workers that their own failing thread is taking down |
| `program`, `plugged`, `plugs` | which main program runs; the hardware |

One action is one locked section: `Enumerate`, `Snapshot`, `RemoveGone`,
`ScanTakesDown`, `FilterCandidates`, `ProbeOpens`, `ProbeAnswers`, `HandOffBad`,
`HandOffGood`, `CreateVerified`, `MarkOffline` are `_scan_with_discovery` in order;
`Look`, `Appeared`, `Gone`, `WatchTakesDown` are `_check_ports` and the controller's
handlers; `Fails` and `DyingTakenDown` are an exception in a worker's tick;
`StopAll`, `ExcludePort`, `IncludePort` are the commands. The `create_worker` and
`destroy_worker` of all of them are `CreateWorker`, `Unregister` and `TakeDown`.
The monitor exists in the command-line program only, `stop_all` in the windowed one
only. `stop_all` is one step: it holds the manager's lock to the end, and the
take-downs outside the lock commute with it. `_handle_modem_offline` reads the
state before it destroys; since a port that is OFFLINE or participating always has a
worker (proved below), testing and destroying in one step gives the same outcome.

### SAIKI, the serial link: `SerialLink`

One port with its AT client, its input buffer, its modem, the SIM monitor's poller
and the workflow threads that use it.

| Variable | In the code |
|---|---|
| `open`, `lock`, `rx` | `SerialAdapter._is_open`, `ATClient._lock`, the driver's input buffer |
| `clients` | where the poller and each workflow thread are in `send_command`, and the lines read so far |
| `script` | the skills a workflow has left, each by its command |
| `modem`, `network`, `sim` | outside: commands not answered yet, dials whose text is under way, whether the SIM is usable |
| `sent`, `started` | the number of the next command; how often the bounded things have happened |
| `wasReady`, `stray` | history: the SIM was usable since the poller's last flush; a line may have lost its reader |

| Action | Code |
|---|---|
| `Send`, `ReadLine`, `TimesOut` | `send_command` and `send_ussd`: the write under the lock, `_read_response` line by line, its end |
| `Poll`, `PollEnds` | `_flush_buffers` (which does not take the client's lock) and `_send_cpin_query`; its confirmation poll flushes and asks the same way |
| `StartWorkflow`, `BeginSkill`, `EndSkill` | the loop of `WorkflowRunner.run`; what each skill must hear is `CekNomor` ... `CheckModem` |
| `Close` | `SerialAdapter.close`, by `PortWorker.disconnect`, also under a reader |
| `Inform`, `Accept`, `Refuse`, `Lose`, `NetworkAnswers`, `SwapSim` | the modem, the network and the SIM: external, as the parsers and the tests expect them |

A line is a record with the number of the command it belongs to, which no action of
the program reads, and one of seven kinds, the ones the parsers and `_read_response`
tell apart. Lines arrive whole. An answer to a dial is `OK` first and the `+CUSD`
text later, at a time of the network's choice; such a text may itself contain the
letters OK. The client ends its read at the first line with OK or ERROR in it.

The bootstrap passes no cleanup manager to `ATClient` or `WorkflowRunner`
(`system_bootstrap.py:101`, `:205`), so nothing but the poller clears the buffer, and
the model has no other flush. The runner hands a skill the port, the resolver and the
command id only. So `cek_kk` has no number or NIK to look up and always fails, which
makes `reactivate_full` end before its injection; the dial-up fallback of `cek_nomor`
has no code; and `verify_grace` can only ever see the text of an earlier dial, since
its own comes after the OK that ends it.

### SAIKI, the port worker and the mass action: `PortWorker`, `MassAction`

| Variable | In the code |
|---|---|
| `thread` | per life of the worker thread, and for the user's and the manager's thread: where it is, the steps of an automatic run it has left, the SIM it found, the transitions a restart still has to make |
| `running`, `life`, `online` | `_running`, which thread `_thread` is, `_modem_online` |
| `reset`, `action`, `retry`, `auto` | the requests in `PortWorkerState` |
| `status`, `hw` | `PortWorkerState._status`, `HwStateMachine.current_state` |
| `line`, `announced`, `registered` | the serial port, what the monitor has told, the manager's registry |
| `begun`, `mass`, `current`, `progress` | the threads of the mass actions, `_current_action`, the `MassActionProgress` objects |

| Action | Code |
|---|---|
| `Begins`, `Ends`, `TakesReset`, `TakesAction`, `TakesRetry`, `TakesAuto` | `_run_loop` and `_tick` with the `consume_` methods |
| `StepBegins`, `ChecksSim`, `StepEnds`, `NextStep` | `_execute_step`, `_execute_auto_run` |
| `RestartBegins`, `ModemIsMute`, `ModemIsBack`, `NoModem`, `Climbs`, `RestartEnds` | `_execute_hardware_restart`, on the worker's thread or on the thread that called `restart()` |
| `Starts`, `StopBegins`, `TakesLock`, `Joins`, `PutsOff`, `Destroys` | `start`, `stop` with its five-second wait under the lock, `restart`, `disconnect` from `destroy_worker` |
| `PortOn`, `PortOff`, `Restart`, `ForceRetry`, `QueueAutoRun`, `ToggleAutoRun`, `ModemOnline` | the callers |
| `StartMass`, `SetsAction`, `Completes` | `start_mass_*`, `_execute_mass_action` |

Two guards speak of time. `Joins` lets the wait of `stop` end before the thread only
while the thread is in an exchange with the modem, as everything else it does takes a
second at most. `Settled` lets the answers of a modem after ATZ come, seconds later,
only when no other thread is in the middle of the transitions of a restart.

The programs call only `start`, `stop`, `force_retry` and `set_modem_online`; `restart`,
`queue_auto_run`, single actions and mass actions are called by tests alone. In the
shipped programs the monitor's online check calls a method that `ATClient` does not
have, so `modem.online` never comes and the ticks stay idle; the model has it come.

### GOOD, the worker of a port: `KebunPort`

The thread of one port with two cards that are put in and taken out. An action is a
stretch of the thread between two waits; a dial chooses what `send_ussd` returns.

| Variable | In the code |
|---|---|
| `pc`, `after`, `flow` | where the thread is, and what a flow holds: number, NIK, date before |
| `ask` | `reset_requested`, `single_action`, `force_retry`, `pending_auto_run` |
| `cpin`, `seen`, `unknown`, `pending`, `prompts`, `awaiting` | the fields of the SIM poll, of the menus, and the card cycle of `PortStateMachine` |
| `row`, `known`, `search`, `harvested` | the port's row in the registry, `phone_cache`, a KK search of the window, `panen_raya` |
| `slot`, `date`, `disabled` | the card in the slot, the date the network holds for it, `disabled_ports` |
| `left`, `crossed` | history: the card that left the slot, until its removal has been announced; another card was put in before that, or a KK came to the row of another NIK |

Its actions are those of the loop (`_perform_modem_reset`, taking the requests), of
the full flow (`_execute_full_flow_body`: number, grace date, NIK, KK, injection,
verification), of the single actions, and of the SIM poll with its confirmation query.
A result that is part of a text, or an error, is searched for a date and a NIK as the
code does (`part`). `UpdatePhoneCache` keeps a pair only if NIK and KK are both known,
which is what its test for 16 digits comes to here.

Most exchanges of the card are noticed, though minutes later: the old card's data is in
the row, the flow and the window's search meanwhile, and the announcement of the removal
must leave nothing behind. Those that no poll can see, since the next card is in the slot
before the removal is announced, set `crossed` and are the properties' exception.

### GOOD, the serial port: `KebunDial`

`send_ussd` in its steps: the session number, the fence (discarding until 0.35 s of
silence, or giving up), the write, the read loop by `classify_ussd_response`, the flush
and the grace read that completes a text; and the poll of the SIM, which flushes,
writes and reads. What the modem sends is a line of a kind the parsers tell apart, with
the number of the exchange it belongs to. The fence gives up only on a modem that
goes on sending: one line in each of its quiet times, `FenceLines` of them (`noise`). Old
lines may be in the buffer when a dial begins, come in during its fence in any order and
in halves, or come later. `late` holds the kinds of those that come later, after the
fence has been quiet or after the poll's flush: the program cannot tell them from its own
answers, and only they are the properties' exception.

### GOOD, the window: `KebunTable`

`step`, `cpin`, `asked`, `stopped` are the workers the port gets one after another;
`holder` has the COM port open; `plugged` and `simIn` are the hardware. `status` and
`lastCpin` are the port's row in `PortRegistry`, `update`, `batch`, `found` the queues
to the main thread, `row` what the table shows. `Tells` and `Reports` are
`update_tree_row` (registry, then queue), `UpdateRow` is `_update_tree_row_main`
(registry again, then table) with the rule of `_should_accept_status_update`;
`PortFound` and `PortGone` are `_apply_port_scan`; `Looks`, `LookFails`, `ScanEnds`
the scanner thread with `scan_in_progress`; `TurnOff`, `TurnOn`, `MarkReset`,
`RestoreTable` the menus.

### GOOD, the harvest: `KebunHarvest`

`db` is the table of the SQLite file, `phone` and `kkOf` the two caches, `flow` the
saving of a worker, `importer` the import thread with the records it still has,
`deleter` the main thread between the table and the caches, `shown` the rows it saw.
`ParseImportRow`, `Column` and `RecordOf` are the guessing of columns of
`iter_import_records`, on cells that are known by what they are; a NIK and a KK look
alike. History variables: `odd`, a file was imported that leaves a cell to guess;
`raced`, a deletion met a flow or an import; `gone`, the numbers that were deleted and
not stored since, where a number of a batch counts as stored when the batch is committed
(`given` are those of the open transaction); `met`, those of the deleted numbers that a
flow or an import was about when they were deleted, or began to be since.

| Action | Code |
|---|---|
| `StartFlow`, `CachePhone`, `DropPair`, `CacheKk`, `SaveToHarvestDb`, `FlowFails` | the flow up to its pair, `update_phone_cache` (both caches, only with two 16-digit values: `IsKept`), `save_to_harvest_db`, which caches what it saves whatever it is |
| `Import`, `ReadRecord`, `TakeBatch`, `InsertRecord`, `CommitBatch`, `BatchFails` | `import_bibit` with `iter_import_records`, `save_to_harvest_db_batch`: `importer.trans` is the table as the open transaction sees it; a roll-back drops it and leaves the caches |
| `ReadTable`, `FillCaches`, `Restart` | `init_database`, after an import and at the start of the program |
| `Refresh`, `DeleteAll`, `DeleteRow`, `ClearCaches`, `PopRow` | `_refresh_panen_monitor_table`, `delete_panen_rows`: the table first, the caches behind it |

The mode NIK & NIK, where the KK is the NIK itself, is left out.

### SENGKUNI: `SengkuniPort`

A life is what one `start()` has made: adapter, client, monitor, thread. `thread` has a
workflow per life and per command of the window, each with the client it was given;
`poller` a SIM monitor per life with its counters; `ui` how far a start or stop of the
window has come. `HeardReady`, `HeardUnknown`, `HeardRemoval`, `Stabilised` are
`_apply_stabilization`; `Dial`, `Wake`, `AcquireAgain`, `Send`, `DialAnswered`, `DialFails`
are `dial()` and `send_ussd()`; `JoinThread`, `JoinPoller`, `Close` are `stop()`, of which
the two joins may give up.

`fence` tells whether the session fence may have been touched just now, so that an
`acquire` may be refused (`MayBeRefused`); it may succeed at any time (`MayAcquire`), since
a quarter of a second may have passed. The half second that `dial()` sleeps (`Wake`) lets
the fence fall quiet, but other threads may touch it again before the second `acquire`;
a cancellation that raises skips the sleep. SENGKUNI imports its fence, which is not in
its directory; the one that is in the repository, SAIKI's
`worker/intelligence/session_fence.py`, is what is modelled. The serial adapter, the
skills and the rules of automatic runs are not in the repository, and are modelled from
their use.

### BAD, the worker of a port: `KebunBadPort`

Like `KebunPort`, with what is new in BAD: the checkpoints
`_should_cooperative_cancel` in front of every dial, the waits between a checkpoint and
the writing of the command (`power_injection_lock`, the pause after the last dial, the
fence: a dial is under way from its checkpoint on, and `WriteDial` puts it on the air,
`sent`), injections repeated up to
`MAX_INJECT_RETRY`, a menu that waits until it expires (`menu`, `PromptTimeout`), and
`shutdown()`, which clears the requests, closes the serial port and takes the state
machine off the bus while the thread goes on. The structure of `run()` is kept as it
is in the file: the inner loop (`Turn`, `TakeReset`, `AdvancePrompt`) contains only
the reset and the menus, and the requests and the poll come once, after it has been
left, on a port that is closed or about to be. `unknown` has no bound but the events:
an error of the port in the final query of a poll leaves it at its limit.

## 3. The runs

### Runs that pass

| Run | Instance | Shows |
|---|---|---|
| `engine_dispatch` | 2 ports, 1 caller, 1 slot, 2 thread names, 2 calls, workflows of up to 2 steps, manual priority 5, the duplicate window of MODEM_ONLINE, fairness | RUNNING is never left behind, an excluded port at rest stays at rest, what is queued is served, `WorkflowDispatch` is implemented |
| `cpin_monitor` | the code's thresholds 3 and 2, 3 misread answers, 2 SIM changes, fairness | `DebouncedSim` is implemented, subscribers know the state, a lasting loss and a lasting return of the SIM are noticed |
| `fleet_scans` | one modem port, 2 plug events, 1 failure, both programs, fairness | the maps agree, nothing leaks, a modem is served, an unplugged port released |
| `link_session` | one workflow thread that runs `reactivate_full` or `hardware_restart`, the poller with 2 polls, 1 change of the SIM, texts with and without OK in them, a modem that may lose any command, the port closed at any time, fairness | a poll that hears READY tells of a SIM usable after its flush; answers keep step with commands until one times out; every workflow ends |
| `worker_port` | one worker with 3 lives, automatic runs of 2 steps, 2 commands, 2 mass actions, a port that is open, closed or was never opened, three kinds of SIM, fairness | one thread; BUSY and RESET only while someone works; a restart that finds the SIM ready brings the state machine to READY; requests are served; mass actions report their own port |
| `kebun_port` | 2 cards, 2 events (cards, requests, wrong answers, errors), fairness of the thread | only extended cards are harvested and pairs belong together through every exchange of cards whose removal was announced; the port stops dialling |
| `kebun_dial` | 2 exchanges, 3 lines, a fence that 2 lines can keep from being quiet | a dial returns its own text wherever older texts, whole or in halves, come before or during its fence, and a poll tells a state the SIM had, whatever was in the buffer |
| `kebun_table` | 2 workers, 3 changes, fairness | with nothing under way the table shows the registry; a plugged modem is served, a lost one released |
| `kebun_harvest` | 2 cards, 3 files (one in an order of its own, one without a header, one with a gap and a number for a KK), batches of one record, 5 events | with files that leave nothing to guess, no number is paired with foreign data; table and cache agree at rest; what was deleted does not come back to the table, through failed batches and races, nor to the cache unless a flow or an import was about it |
| `sengkuni_port` | 2 lives, workflows of 1 skill, 1 command thread, 3 commands, 1 fault, the code's thresholds of two, fairness | READY takes two answers in a row to one monitor; a removal is noticed; a request for a run is taken while the port stays on; a stopped port comes to rest |
| `bad_port` | 2 cards, 4 events, fairness of the thread and of the menu's timeout | only extended cards are harvested; a reset is overtaken by one waiting dial at most; a reset is begun, a menu resolved, a shutdown ends the thread |

### Why the bounds are enough

- Dispatcher: two ports with one slot make the ports compete; two calls with the
  items a retry puts back give one that executes and one that waits. `Threads` has one
  more name than there are slots, which leaves a name for a slot given away twice;
  `ConstantsAssumption` demands it. Several callers at a time, and several slots, are
  left to the proofs, which hold for all numbers of both.
- Three misread answers reach the higher threshold and outlast the lower one; two
  changes of the SIM give in, out, in. Thresholds are the code's.
- In the fleet ports do not interact except inside a scan's sets, so one port and
  all the actors is where the races are. Two plug events give in-out-in and
  out-in-out. `MaxWorkers` (5) is larger than the number of workers of one port
  that ever run at once, so it never restricts `CreateWorker`.
- On the link two clients are enough to compete for the lock and for the buffer.
  Texts of dials are delayed past any number of commands.
- Port worker: three lives are a thread, its successor and a third; a command of the
  user together with the manager's destruction gives a stop inside a stop, two commands
  a start after a stop that gave up, or a request during a restart. Two mass actions can
  overlap or follow each other.
- GOOD's port: two events are two exchanges of cards around a flow, or a card and a
  fault, or a request and a card. The proofs of `KebunPortProofs` hold for any number.
- GOOD's serial port: two exchanges with three lines are an abandoned dial whose text
  comes in halves before, during or behind the fence of the next. Two lines for
  `FenceLines` leave the fence both its ends.
- GOOD's window: a worker and its successor; three changes are, for instance, unplug,
  plug, and a failed scan or a menu. When the workers are used up, ports are not found
  again: the liveness properties say so by the worker that is left.
- GOOD's harvest: two cards are the one and the other; batches of one record put a
  failure between any two records. Five events are, for instance, an import, a failed
  batch, a deletion, a flow, a restart. The number that stands for a KK gives a flow a
  pair that the cache does not keep.
- SENGKUNI: two lives are an old and a new one, three commands a start, a restart and a
  command in between; the counters' limits are two, as in the code.
- BAD: four events are a card, a request, an error and a reset.

Deadlock is checked for the dispatcher, which goes on for ever. It is not checked
where the model may really stop: a poller that was told to stop (`cpin_monitor`), the
windowed program after `stop_all` (`fleet_scans`), a link on which nobody has anything
left to ask (`link_session`), workers that were stopped or destroyed (`worker_port`,
`sengkuni_port`, `bad_port`, `kebun_table`), and bounded environments that have
nothing left to do (`kebun_port`, `kebun_dial`, `kebun_harvest`).

### Fairness

Weak fairness on threads that are in the middle of something, nothing else.
In SAIKI: the worker loop, a call under way, a workflow thread (its commands have read
timeouts), the delivery of an event; the poller and a disconnect that has begun; a scan,
the monitor, a take-down under way, the next round of the scan loop, and the passing of
the 30-second cooldown; the worker's thread, a start or stop under way and the thread of
a mass action. On the link reads (which end by their timeout) and the steps of a thread
are weakly fair; taking the client's lock is strongly fair, as the poller sleeps for
seconds between two polls with the lock free, and a released lock wakes a waiting thread.
In GOOD and BAD: the thread of the port, all of whose reads have deadlines; the main
thread's drain, which Tk calls ten times a second; the scanner, which the window starts
every few seconds; in BAD also the time-out of a menu. In SENGKUNI: each workflow, each
poller, and the window in a start or stop that has begun; the writing of a worker thread's
command is strongly fair, as the lock of its AT client is free again and again while
monitors sleep and commands end by their timeout. None for calls, user commands,
plugging, failures, cards or SIM changes. The modem and the network owe nothing. The
liveness properties assume, in their left-hand side, hardware and settings that stay as
they are.

### A run that finds a difference

| Run | What a comment says | What happens |
|---|---|---|
| `bad_idle` | `src/BAD/app/kebun_reaktivasi.py:1629`: "Periodically poll SIM state only (no USSD here)" | the poll, and everything that serves the user, is indented behind the inner loop of `run()` (1602); on a port that is on, the thread turns in that loop without a pause and polls nothing |

### Differences seen while reading, without a run

SAIKI:

- DD-015 (`docs/DESIGN_DECISIONS.md:144`, "No overlapping commands"): `_enqueue` does not
  look at what executes, so with two slots two workflows of one port overlap.
- PL-003 (`docs/DOMAIN_RULES.md:68`): a call past the gate enqueues after an exclusion has
  emptied the queue. `tests/test_sprint11a_port_participation.py:161` takes the status
  QUEUED for "enqueued"; exclusion leaves QUEUED behind, and the scheduler then ignores
  CPIN_READY.
- WF-007 (`docs/DOMAIN_RULES.md:85`): a duplicate trigger within 5 s is recorded, and
  handled. MODEM_OFFLINE cancels no queued item while auto-run is off, the default
  (`docs/SPRINT8_REPORT.md:96` says it does).
- BR-015 (`docs/DOMAIN_RULES.md:29`, two consecutive NOT_INSERTED): READY in between does
  not reset the counter; a confirmed NOT_READY skips it. BR-003 and BR-006: an answer
  `+CME ERROR: 10`, or one that is not recognised, is NOT_READY. BR-018: a branch that
  cannot be taken. `CpinRuntime.stop` "Ensures thread has exited": its join gives up
  after five seconds.
- `worker_manager.py:553` ("Stop all workers and scanning."): a scan in flight creates
  workers afterwards. `worker_manager.py:4` ("Only VALID_MODEM ports become active
  workers."): every COM port that appears gets a worker without a probe. A worker whose
  port did not open is registered ACTIVE and never retried; exclusion is forgotten when a
  port is pulled and comes back; `_scanning.wait(interval)` returns at once while the flag
  is set, so scans follow each other without a pause.
- `worker/cleanup.py:20` (every command closes the USSD session and clears the buffer
  before the next): nothing wires it; a dial returns at its OK, and the text of the
  injection is what the verification dial returns. `cek_kk` always fails, see section 2.
- The port worker: `stop()` from the worker's own thread (a tick that raises is destroyed
  from there) joins the current thread and raises before OFF is written; a start while the
  old thread is alive is lost although "Worker started" is published; a thread that
  outlives a stop writes its status over OFF; `restart()` carries out a restart and leaves
  a request for another; after a restart that failed the monitor still takes the modem for
  online, so the worker stays offline; `_execute_auto_run` publishes under a lock that is
  not reentrant. A mass action counts a READY from before as success
  (`mass_action.py:239`), and two threads that start one could overlap (`:138`).

GOOD:

- BR-011 (`src/GOOD/docs/BUSINESS_RULES.md:160`): an automatic run may begin before the
  card was exchanged, by a restart or a reset. BR-022: a retry by force runs without
  READY. BR-023: the second reset in a row uses 9600 baud, since `current_baud` is None.
  BR-007: its 15 seconds are not in the code.
- The registry's empty value is "-", which is true, so the single action `reaktivasi` never
  asks the cache. `removal_confirmation_count` is counted and never compared. A
  verification never looks at the number. An exception in a flow drops it and leaves
  PROSES, a failed reset leaves RESET. A late KK search puts its result on the row of the
  card that is in by then. A text followed by an empty payload is returned as empty. A late
  update of a stopped worker puts the row of a vanished port back.
- A deletion that meets a flow or an import is undone in the caches; a failed import batch
  leaves its records there; a row with a header and an empty NIK stores the KK as NIK.
  `save_to_harvest_db` swallows "database is locked".

SENGKUNI: `worker/port_worker.py:3` ("One thread per COM port."): a restart during a
skill of more than five seconds leaves two threads, and the old workflow goes on. A
request for a run survives PORT_OFF. After a restart on a modem that does not answer,
READY from before stands. Every `+CME ERROR` counts as NOT_INSERTED; the confirmation
of NOT_READY (`cpin_runtime.py:216`) never comes. `dial()` calls
`release` in no `finally`, which does no harm, as the fence has no owner. For the same
reason it does not do what `session_fence.py` says ("Prevents USSD collision on the same
port"): a dial that takes longer than a quarter of a second does not keep a second one
out. Two threads with one AT client wait for its lock; two of different lives have
different clients.

BAD: the loop of `run()`, see above. A run that a reset queues is taken by the flow behind
the loop on the handle that the reset has closed, before the reconnection that its message
(1403) announces. A reset that is asked for in the waits of a dial does not keep that
dial from going on the air (2276, 1796, 1492-1512, 1523), though its answer is dropped.
A reset during an injection discards the answer and the verification, so an extended
card is not recorded. `force_retry` is not cleared by a shutdown; a scan waits two
seconds for the thread it has shut down. An error in the final query behind three
unknown answers (1660-1672) leaves `unknown_failure_count` at its limit, from where the
next unknown answer takes it past it.

## 4. The theorems

| Module | Proves about |
|---|---|
| `AutomationEngineProofs` | `AutomationEngine`, and that it implements `WorkflowDispatch` |
| `FleetProofs` | `WorkerManager`; `CpinRuntime`, and that it implements `DebouncedSim` |
| `SerialLinkProofs` | `SerialLink` |
| `MassActionProofs` | `PortWorker` and `MassAction` |
| `SengkuniPortProofs` | `SengkuniPort` |
| `KebunPortProofs` | `KebunPort` |
| `KebunPartsProofs` | `KebunDial`, `KebunTable` and `KebunHarvest` |
| `KebunBadProofs` | `KebunBadPort` |

The theorems hold for every number of ports, callers, slots, thresholds, steps, workflows,
lives, commands, polls, texts, cards, workers, records and events, and for every set of
files; the runs check small ones. They assume `ConstantsAssumption`, `CpinAssumption`,
`FleetAssumption`, `LinkAssumption` with `WorkflowsAssumption`, `WorkerAssumption` with
`MassAssumption`, `SengkuniAssumption`, `KebunAssumption`, `DialAssumption`,
`TableAssumption`, `HarvestAssumption` and `BadPortAssumption`, which TLC evaluates in the
runs.

| Theorem | Property | Argument |
|---|---|---|
| `TypeCorrect`, `CpinTypeCorrect`, `FleetTypeCorrect`, `LinkTypeCorrect`, `PortTypeCorrect`, `DialTypeCorrect` | `TypeOK` | inductive as it stands |
| `HarvestTypeCorrect`, `TableTypeCorrect` | `HarvestTypeOK`, `TableTypeOK` | inductive with the rest of `HarvestInv` and `TableInv` below, whose type parts say per thread which fields it has; lemmas about the reading of files give every cell of a record a type |
| `BadTypeCorrect` | `TypeOK` | not inductive alone: that the count of injections stays in bounds takes `FlowShape` (a pause comes only while tries are left), that what is harvested is a card takes `SnapshotIsTrue` (a full flow behind its number is about a card) |
| `WorkerTypeCorrect`, `SengkuniTypeCorrect` | `TypeOK` | inductive together with a fact about the steps that count down: a run that comes back for its next step, or a workflow inside a skill, has one left (`RunHasStep`, `WorkIsLeft`) |
| `SlotsCorrect` | `SlotsAreThreads` | inductive with the loop's state: a slot that `Dequeue` saw free is still free at `Dispatch`, as only the loop takes slots; cardinalities of the set of busy threads change by one |
| `OneQueued` | `OneQueuedPerPort` | an item in the loop's hand is never put back (the slot is free), so only `EnqueueItem` adds, after its test |
| `OrderTotal` | `QueueIsOrdered` | creation times of items are below the counter of enqueued ones and pairwise different |
| `RunningCorrect` | `RunningIsExecuting` | every write of a status by an ending workflow leaves IDLE or QUEUED |
| `ExclusionHolds` | `ExcludedStaysAtRest` | action property from the type invariant: each action that could wake a port needs a call, item or thread of that port |
| `Refinement` | `ImplementsDispatch` | every step is a step of `WorkflowDispatch` or a stutter, from the invariants above |
| `CountsCorrect`, `LastAnswerCorrect`, `SubscribersCorrect`, `LateCorrect` | the four invariants of `CpinRuntime` | one inductive invariant that says, for each place the poller can be, what its loaded counter, its answer and the published state have to do with each other. Also with a reset in the middle of an increment: the store then writes a value the threshold still bounds |
| `DebounceRefinement` | `ImplementsDebounce` | from the same invariant |
| `ParticipatingCorrect`, `LeaksCorrect`, `UndertakerCorrect` | the three invariants of `WorkerManager` | `FleetInv`: every step that is about a worker has a target; a registered worker runs; whoever takes a worker down is alone and took it out of the registry first; an open port belongs to a running worker. None of the three is inductive alone: `NoLeaks` needs that a take-down's victim is not registered, `OneUndertaker` that a fresh number is not one being taken down |
| `FreshCorrect`, `AnswersCorrect` | `PollIsFresh`, `AnswersInStep` | `LinkInv`: whoever reads holds the lock; who waits has heard nothing; a READY in the buffer, or heard by the poller, means the SIM was usable since the flush (the modem gives no READY from an unusable SIM, and the flush empties the buffer). `InStep`, as long as nothing is stray: every line in the buffer that is not a text, and every command the modem still owes an answer, is of the one command under way, and only one of them ends it; so when the lock is free nothing is owed. The flush can only take away |
| `OneLoopHolds`, `BusyCorrect` | `OneLoop`, `BusyIsWorking` | `WorkInv`: the thread that is alive is the last that was started (`AliveIsLast`), since a start looks at the thread and not at the flags; and whoever leaves a step or a restart takes BUSY or RESET along (`Tells`), whatever was written in between |
| `BringUpHolds` | `BringUpIsComplete` | for each part of the climb still to be done, the states the machine may be in when it does it (`OnTheWay`), starting from all of them; only one thread climbs, and between climbs the machine only falls from READY (`Falls`) |
| `MassCorrect` | `MassAddsUp` | `MassInv`: a mass action begins only when the last has ended, so the only one that can be under way is the last begun |
| `ReadyCorrect` | `ReadyIsConfirmed` | a monitor that has counted a READY heard one last (`CountedIsHeard`); turning READY takes a count that reaches the threshold, which is above one, so there was one before |
| `HarvestCorrect`, `PairsCorrect` | `HarvestIsExtended`, `PairsAreOwn` | `OwnInv`: the date a flow holds is the one the network held for its card (`DateKept`); a flow holds data only where the loop does not look at the slot (`FlowGone`); and as long as nothing is crossed, all that the row and the flow hold is of the card in the slot or of the one that left it and has not been missed yet (`OneCard`). So a noticed exchange is where it is decided: the announcement must clear the row and the request of a flow before the next card |
| `AnswersAreOwn`, `PollsAreTrue` | `AnswerIsOwn`, `PollIsTrue` | `Own`: between a quiet fence and its end a dial has only quoted lines of its own in the buffer and among what it has read (`OwnOnly`), which the fence establishes by emptying the buffer and the flushes keep; it is lost only by a line that is sent later. The same for what tells a state of the SIM, behind the flush of a poll (`PollHonest`) |
| `OneServesHolds` | `OneServes` | `OthersAreStopped`: a worker that runs and was not told to stop is the one the window knows, since the window makes one only where it knows none and forgets one only after it has told it to stop |
| `RowCorrect` | `RowTellsRegistry` | `ReportIsComing`: a row that tells another status than the registry was overtaken by a worker that has written the registry; its report is under way, and `_should_accept_status_update` refuses only IDLE, which the registry then has already. Needs `OneOnPort`: what a worker heard last is what the registry holds, as only the holder of the COM port hears |
| `HarvestPairsCorrect` | `PairsAreGiven` | `AllIsGiven`: as long as no file left a cell to guess, rows, caches, the flow's pair, what the import has read and its open transaction belong to one card each. Rests on what `RecordOf` returns for a clear file (`ClearIsOwn`, by `HeaderIsRead` for its columns and `OrderIsRead` for the guess), and that on the least and greatest of a set of columns |
| `StoreCorrect`, `DeletionCorrect` | `StoredIsCached`, `DeletedStaysGone` | `AllIsCached`: a stored number is cached, or the flow that stored it caches it next, also in the open transaction; `AllAreGone`: a number that is gone is not in the table, nor in an open transaction but by an insertion in it (`OutOfTable`), so that a roll-back cannot bring it back there; and if no flow or import has met it, none is busy with it and only its deletion leaves it in the cache, to drop it next (`OutOfCache`). The cache part of a batch that fails is in `met`. `StoreCorrect` needs `DeletesAlone`: a deletion that met nobody is alone to its end |
| `BadHarvestCorrect` | `HarvestIsExtended` | `SnapshotIsTrue`: a new date that a flow remembers is still the date of its card, as dates only move forward; `OneCard`: without an exchange of cards, the number of the flow is the card in the slot |
| `ResetIsFirst` | `ResetComesFirst` | action property. `HeldBefore`: a dial that waits to be written while a reset is asked for was waiting when it was asked for, since every way into a dial tests the reset in the same step (`FlowShape`: a flow returns to a request or to the poll, never to a dial) and only a request after that makes the two meet. Behind the waits the code does not look again, so this is all that holds |

Each is laid out the same way: initial state, one step per action, the invariant
implies the property, and a temporal step.

Every invariant and every action property that the passing runs check is stated by one of
these theorems. The type invariants and the invariants without a run
(`SlotsAreThreads`, `OneQueuedPerPort`, `QueueIsOrdered`, `OneUndertaker`,
`CountsBelowThreshold`, `BadStateIsLastAnswer`, `OneLateTransition`, `OneServes`) are
proved, which makes a run unnecessary.

Only model-checked: the liveness properties, as fairness and ENABLED are outside the
prover's reach. No module declares a recursive operator; where the guessing of columns
needs the first or the last of a set, it is chosen, and the proofs take its existence from
the well-founded order of the natural numbers.

## 5. Not modelled, and why

- SAIKI: the workflow a mode selects, the context and the phone cache a workflow
  fills; `worker/cleanup.py` and `cancel_ussd`, `check_sim`, `reconnect`, which no
  program calls; lines cut in two by a read timeout of the driver;
  `_scan_with_validator`, the rescan request, the port validator and detector, which no
  program starts; `ReactivationRetry` and the SIM, USSD and flow state machines, which
  only tests use; `PhoneCache` and `DbCache`, which are maps behind a lock, and `SessionFence`,
  which is modelled where it is used, in `SengkuniPort`.
- The steps of SAIKI's mass action beyond one port, and the summaries it publishes.
- GOOD: export, statistics, the licence, the sender of a free USSD code. The composition
  of its four modules: `KebunPort` chooses what a dial returns, which `KebunDial` works out.
- SENGKUNI: the watchdog and the bookkeeping of commands, which change nothing a port
  does; the phone cache.
- BAD: the record of outcomes, the table and the scanner, the inside of a dial but for
  its waits. They
  are variants of what `KebunDial` and `KebunTable` have for GOOD.
- Tk widgets, layout, formatting, the parsing of USSD texts, tier scoring, licence
  generators: no state shared between threads. Packaged builds are generated.

## 6. Plan

1. `SerialLink` composed with `CpinRuntime`, to justify its `Glitches`, and with the
   fleet: which worker's link a workflow gets after a removal. `KebunPort` on top of
   `KebunDial` in the same way.
2. `ReactivationRetry`: what a lost answer is taken for. SAIKI's update queue, the
   controller's command bookkeeping and mass dispatch.
3. The window and the scanner of BAD, with its shutdown under a scan.

Abstract specifications to state: a worker that performs each accepted request once,
and a link that answers each command once or not at all, under the workflow.
