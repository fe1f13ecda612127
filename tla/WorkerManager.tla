---------------------------- MODULE WorkerManager ----------------------------
(***************************************************************************)
(* The life of the port workers of SAIKI: WorkerManager with the discovery *)
(* pipeline that finds modems, and ModemMonitor with the two handlers of   *)
(* UIController that create and destroy workers on its events.             *)
(*                                                                         *)
(* Every map of the manager is touched under its lock, one action per      *)
(* locked section; connecting a worker happens under the lock, probing a   *)
(* port and taking a worker down do not.  The threads:                     *)
(*   - "loop", the scan loop, and in the command-line program "user", whose*)
(*     scan command runs the same scan beside it;                          *)
(*   - in the command-line program the modem monitor;                      *)
(*   - the threads of the workers, which report themselves offline;        *)
(*   - the user, who excludes and includes ports and, in the windowed      *)
(*     program, stops everything.                                          *)
(* A COM port of Windows has one owner: it can be opened once.             *)
(***************************************************************************)
EXTENDS Integers

CONSTANTS
  Ports,        \* the COM ports
  Candidates,   \* ports whose metadata looks like a modem
  Modems,       \* ports that answer AT with OK
  NoPort,
  MaxPlugs,     \* bound: times a port is plugged in or pulled out
  MaxWorkers,   \* bound: workers of one port that run at the same time
  MaxFailures   \* bound: exceptions in worker threads, unanswered probes

ASSUME FleetAssumption ==
  /\ Modems \subseteq Candidates /\ Candidates \subseteq Ports
  /\ NoPort \notin Ports
  /\ MaxPlugs \in Nat /\ MaxWorkers \in Nat \ {0} /\ MaxFailures \in Nat

Scanners == {"loop", "user"}

(* PortState, and NONE for a port the map does not have.  DISCOVERED is    *)
(* set by the scan without a discovery pipeline, which nothing starts.     *)
PortState == {"NONE", "VALID_MODEM", "ACTIVE", "EXCLUDED", "OFFLINE", "REMOVED"}
Participating == {"ACTIVE", "EXCLUDED"}

ScanSteps == {"idle", "snapshot", "remove", "teardown", "probe", "create"}
WatchSteps == {"events", "teardown"}

VARIABLES
  program,    \* which main program runs
  plugged,    \* the COM ports that exist
  plugs,      \* how often that changed
  scanning,   \* WorkerManager._scanning
  registered, \* _workers: the number of the port's worker, 0 if it has none
  alive,      \* workers whose threads run
  holder,     \* the worker that has the port open, 0 if none
  probing,    \* scans that have the port open
  portState,  \* _port_states
  failed,     \* _failed_ports within their cooldown
  scan,       \* what the scans are doing
  known,      \* ModemMonitor._known_ports
  watch,      \* what the monitor is doing
  dying,      \* workers being taken down by a worker thread
  failures    \* exceptions and unanswered probes so far

registry == <<registered, alive, holder, portState>>
world == <<program, plugged, plugs>>
vars == <<world, scanning, registry, probing, failed, scan, known, watch,
          dying, failures>>

Workers == Ports \X (1 .. MaxWorkers)

NoScan == [pc |-> "idle", detected |-> {}, current |-> {}, skip |-> {},
           todo |-> {}, good |-> {}, bad |-> {}, port |-> NoPort, victim |-> 0]
NoWatch == [pc |-> "events", appeared |-> {}, gone |-> {}, port |-> NoPort,
            victim |-> 0]

ScanType == [pc : ScanSteps, detected : SUBSET Ports, current : SUBSET Ports,
             skip : SUBSET Ports, todo : SUBSET Ports, good : SUBSET Ports,
             bad : SUBSET Ports, port : Ports \cup {NoPort}, victim : 0 .. MaxWorkers]
WatchType == [pc : WatchSteps, appeared : SUBSET Ports, gone : SUBSET Ports,
              port : Ports \cup {NoPort}, victim : 0 .. MaxWorkers]

-----------------------------------------------------------------------------
(* The locked sections.                                                    *)

Free(p) == holder[p] = 0 /\ probing[p] = {}

(* A worker that is made gets a number no running worker of the port has.   *)
Fresh(p) == {n \in 1 .. MaxWorkers : <<p, n>> \notin alive}

(* _inject_dependencies opens the port if it can; the worker is registered *)
(* and started in any case.                                                *)
Register(p) ==
  \E n \in Fresh(p) :
    /\ \A k \in Fresh(p) : n <= k
    /\ registered' = [registered EXCEPT ![p] = n]
    /\ alive' = alive \cup {<<p, n>>}
    /\ holder' = [holder EXCEPT ![p] = IF p \in plugged /\ Free(p) THEN n ELSE @]
    /\ portState' = [portState EXCEPT ![p] = IF @ = "EXCLUDED" THEN @ ELSE "ACTIVE"]

(* Mutant of CreateWorker: the registry is not looked at.                  *)
CreateWorkerAgain(p) == Register(p)

(* create_worker.                                                          *)
CreateWorker(p) ==
  \/ registered[p] # 0 /\ UNCHANGED registry
  \/ registered[p] = 0 /\ Register(p)

(* Mutant of Unregister: the state of the port is left alone.              *)
UnregisterWorkerOnly(p) ==
  /\ registered' = [registered EXCEPT ![p] = 0]
  /\ UNCHANGED <<alive, holder, portState>>

(* The locked half of destroy_worker.                                      *)
Unregister(p) ==
  /\ registered' = [registered EXCEPT ![p] = 0]
  /\ portState' = [portState EXCEPT ![p] = IF @ \in Participating \cup {"OFFLINE"}
                                           THEN "REMOVED" ELSE @]
  /\ UNCHANGED <<alive, holder>>

(* Mutant of TakeDown: the serial port is left open.                       *)
TakeDownOpen(p, n) ==
  /\ alive' = alive \ {<<p, n>>}
  /\ UNCHANGED <<registered, holder, portState>>

(* The other half: disconnect closes the port, stop ends the thread.       *)
TakeDown(p, n) ==
  /\ alive' = alive \ {<<p, n>>}
  /\ holder' = [holder EXCEPT ![p] = IF @ = n THEN 0 ELSE @]
  /\ UNCHANGED <<registered, portState>>

-----------------------------------------------------------------------------
Init ==
  /\ program \in {"cli", "gui"}
  /\ plugged \in SUBSET Ports
  /\ plugs = 0
  /\ scanning = TRUE
  /\ registered = [p \in Ports |-> 0]
  /\ alive = {}
  /\ holder = [p \in Ports |-> 0]
  /\ probing = [p \in Ports |-> {}]
  /\ portState = [p \in Ports |-> "NONE"]
  /\ failed = {}
  /\ scan = [s \in Scanners |-> NoScan]
  /\ known = plugged
  /\ watch = NoWatch
  /\ dying = {}
  /\ failures = 0

-----------------------------------------------------------------------------
(* A scan, _scan_with_discovery.                                           *)

(* The loop goes on while _scanning is set; the scan command calls         *)
(* _scan_and_update past the lock that makes scans single-flight.          *)
Enumerate(s) ==
  /\ scan[s].pc = "idle"
  /\ IF s = "loop" THEN scanning ELSE program = "cli"
  /\ scan' = [scan EXCEPT ![s].pc = "snapshot", ![s].detected = plugged]
  /\ UNCHANGED <<world, scanning, registry, probing, failed, known, watch, dying, failures>>

(* Mutant of Snapshot: every port the state map knows is passed over.      *)
SnapshotSkipsKnown(s) ==
  /\ scan[s].pc = "snapshot"
  /\ LET current == {p \in Ports : registered[p] # 0} IN
       scan' = [scan EXCEPT ![s].pc = "remove",
                  ![s].current = current,
                  ![s].skip = {p \in Ports : portState[p] # "NONE"},
                  ![s].todo = current \ scan[s].detected]
  /\ UNCHANGED <<world, scanning, registry, probing, failed, known, watch, dying, failures>>

(* Mutant of Snapshot: ports that are gone are left to the monitor.         *)
SnapshotLeavesGone(s) ==
  /\ scan[s].pc = "snapshot"
  /\ LET current == {p \in Ports : registered[p] # 0} IN
       scan' = [scan EXCEPT ![s].pc = "remove",
                  ![s].current = current,
                  ![s].skip = {p \in Ports : portState[p] \in Participating},
                  ![s].todo = {}]
  /\ UNCHANGED <<world, scanning, registry, probing, failed, known, watch, dying, failures>>

(* The snapshot of the workers and of the ports that take part.            *)
Snapshot(s) ==
  /\ scan[s].pc = "snapshot"
  /\ LET current == {p \in Ports : registered[p] # 0} IN
       scan' = [scan EXCEPT ![s].pc = "remove",
                  ![s].current = current,
                  ![s].skip = {p \in Ports : portState[p] \in Participating},
                  ![s].todo = current \ scan[s].detected]
  /\ UNCHANGED <<world, scanning, registry, probing, failed, known, watch, dying, failures>>

(* destroy_worker for a port that is gone.                                 *)
RemoveGone(s, p) ==
  /\ scan[s].pc = "remove" /\ p \in scan[s].todo
  /\ Unregister(p)
  /\ scan' = [scan EXCEPT ![s].pc = IF registered[p] # 0 THEN "teardown" ELSE "remove",
                ![s].todo = @ \ {p}, ![s].victim = registered[p],
                ![s].port = IF registered[p] # 0 THEN p ELSE NoPort]
  /\ UNCHANGED <<world, scanning, probing, failed, known, watch, dying, failures>>

ScanTakesDown(s) ==
  /\ scan[s].pc = "teardown"
  /\ TakeDown(scan[s].port, scan[s].victim)
  /\ scan' = [scan EXCEPT ![s].pc = "remove", ![s].port = NoPort, ![s].victim = 0]
  /\ UNCHANGED <<world, scanning, probing, failed, known, watch, dying, failures>>

(* filter_candidates and filter_active_workers.                            *)
FilterCandidates(s) ==
  /\ scan[s].pc = "remove" /\ scan[s].todo = {}
  /\ scan' = [scan EXCEPT ![s].pc = "probe",
                ![s].todo = (scan[s].detected \cap Candidates) \ (scan[s].skip \cup failed),
                ![s].skip = {}, ![s].port = NoPort]
  /\ UNCHANGED <<world, scanning, registry, probing, failed, known, watch, dying, failures>>

(* probe_port opens the port, or fails.                                    *)
ProbeOpens(s, p) ==
  /\ scan[s].pc = "probe" /\ p \in scan[s].todo
  /\ IF p \in plugged /\ Free(p)
     THEN /\ probing' = [probing EXCEPT ![p] = {s}]
          /\ scan' = [scan EXCEPT ![s].todo = @ \ {p}]
     ELSE /\ scan' = [scan EXCEPT ![s].todo = @ \ {p}, ![s].bad = @ \cup {p}]
          /\ UNCHANGED probing
  /\ UNCHANGED <<world, scanning, registry, failed, known, watch, dying, failures>>

(* AT is answered with OK, or with something else, or not at all, as a     *)
(* modem may fail to once; the port is closed.                             *)
ProbeAnswers(s, p) ==
  /\ s \in probing[p]
  /\ probing' = [probing EXCEPT ![p] = @ \ {s}]
  /\ \/ /\ p \in plugged \cap Modems
        /\ scan' = [scan EXCEPT ![s].good = @ \cup {p}]
        /\ UNCHANGED failures
     \/ /\ failures' = IF p \in plugged \cap Modems THEN failures + 1 ELSE failures
        /\ failures' <= MaxFailures
        /\ scan' = [scan EXCEPT ![s].bad = @ \cup {p}]
  /\ UNCHANGED <<world, scanning, registry, failed, known, watch, dying>>

(* probe_concurrent returns when every port is probed.                     *)
Probed(s) ==
  scan[s].pc = "probe" /\ scan[s].todo = {} /\ \A p \in Ports : s \notin probing[p]

(* A port that failed its probe waits for the cooldown.  A port that had a *)
(* worker at the snapshot is passed over, whatever its probe said.         *)
HandOffBad(s, p) ==
  /\ Probed(s) /\ p \in scan[s].bad
  /\ failed' = IF p \in scan[s].current THEN failed ELSE failed \cup {p}
  /\ scan' = [scan EXCEPT ![s].bad = @ \ {p}]
  /\ UNCHANGED <<world, scanning, registry, probing, known, watch, dying, failures>>

(* A verified port: its state is set in one locked section, its worker is  *)
(* made in the next.                                                       *)
HandOffGood(s, p) ==
  /\ Probed(s) /\ p \in scan[s].good
  /\ IF p \in scan[s].current
     THEN /\ scan' = [scan EXCEPT ![s].good = @ \ {p}]
          /\ UNCHANGED portState
     ELSE /\ portState' = [portState EXCEPT ![p] = "VALID_MODEM"]
          /\ scan' = [scan EXCEPT ![s].pc = "create", ![s].good = @ \ {p}, ![s].port = p]
  /\ UNCHANGED <<world, scanning, registered, alive, holder, probing, failed,
                 known, watch, dying, failures>>

CreateVerified(s) ==
  /\ scan[s].pc = "create"
  /\ CreateWorker(scan[s].port)
  /\ scan' = [scan EXCEPT ![s].pc = "probe", ![s].port = NoPort]
  /\ UNCHANGED <<world, scanning, probing, failed, known, watch, dying, failures>>

(* The last locked section: ports that were not enumerated go OFFLINE.     *)
MarkOffline(s) ==
  /\ Probed(s) /\ scan[s].good = {} /\ scan[s].bad = {}
  /\ portState' = [p \in Ports |->
                     IF portState[p] \in Participating /\ p \notin scan[s].detected
                     THEN "OFFLINE" ELSE portState[p]]
  /\ scan' = [scan EXCEPT ![s] = NoScan]
  /\ UNCHANGED <<world, scanning, registered, alive, holder, probing, failed,
                 known, watch, dying, failures>>

(* The 30 seconds after a failed probe are over.                           *)
CooldownEnds(p) ==
  /\ p \in failed
  /\ failed' = failed \ {p}
  /\ UNCHANGED <<world, scanning, registry, probing, scan, known, watch, dying, failures>>

-----------------------------------------------------------------------------
(* ModemMonitor._check_ports and the handlers of its events.               *)

Look ==
  /\ program = "cli" /\ watch = NoWatch /\ plugged # known
  /\ watch' = [watch EXCEPT !.appeared = plugged \ known,
                             !.gone = known \ plugged]
  /\ known' = plugged
  /\ UNCHANGED <<world, scanning, registry, probing, failed, scan, dying, failures>>

(* _handle_modem_appeared: a worker for every port that appears.           *)
Appeared(p) ==
  /\ watch.pc = "events" /\ p \in watch.appeared
  /\ CreateWorker(p)
  /\ watch' = [watch EXCEPT !.appeared = @ \ {p}]
  /\ UNCHANGED <<world, scanning, probing, failed, scan, known, dying, failures>>

(* _handle_modem_disappeared.                                              *)
Gone(p) ==
  /\ watch.pc = "events" /\ watch.appeared = {} /\ p \in watch.gone
  /\ Unregister(p)
  /\ watch' = IF registered[p] = 0
              THEN [watch EXCEPT !.gone = @ \ {p}]
              ELSE [watch EXCEPT !.gone = @ \ {p}, !.pc = "teardown", !.port = p,
                                !.victim = registered[p]]
  /\ UNCHANGED <<world, scanning, probing, failed, scan, known, dying, failures>>

WatchTakesDown ==
  /\ watch.pc = "teardown"
  /\ TakeDown(watch.port, watch.victim)
  /\ watch' = [watch EXCEPT !.pc = "events", !.port = NoPort, !.victim = 0]
  /\ UNCHANGED <<world, scanning, probing, failed, scan, known, dying, failures>>

-----------------------------------------------------------------------------
(* The other threads.                                                      *)

(* An exception in a worker's tick publishes modem.offline from the        *)
(* worker's own thread; the handler destroys whatever worker the port has  *)
(* by now.                                                                 *)
Fails(p, n) ==
  /\ failures < MaxFailures /\ <<p, n>> \in alive
  /\ failures' = failures + 1
  /\ IF registered[p] = 0
     THEN UNCHANGED <<registry, dying>>
     ELSE /\ Unregister(p)
          /\ dying' = dying \cup {<<p, registered[p]>>}
  /\ UNCHANGED <<world, scanning, probing, failed, scan, known, watch>>

DyingTakenDown(p, n) ==
  /\ <<p, n>> \in dying
  /\ TakeDown(p, n)
  /\ dying' = dying \ {<<p, n>>}
  /\ UNCHANGED <<world, scanning, probing, failed, scan, known, watch, failures>>

(* The command-line program runs its commands one after the other.         *)
UserIsFree == scan["user"].pc = "idle"

ExcludePort(p) ==
  /\ UserIsFree /\ portState[p] = "ACTIVE"
  /\ portState' = [portState EXCEPT ![p] = "EXCLUDED"]
  /\ UNCHANGED <<world, scanning, registered, alive, holder, probing, failed, scan,
                 known, watch, dying, failures>>

IncludePort(p) ==
  /\ UserIsFree /\ portState[p] = "EXCLUDED"
  /\ portState' = [portState EXCEPT ![p] = "ACTIVE"]
  /\ UNCHANGED <<world, scanning, registered, alive, holder, probing, failed, scan,
                 known, watch, dying, failures>>

(* stop_all, a button of the windowed program; the lock is held until the  *)
(* last worker is down.                                                    *)
StopAll ==
  /\ program = "gui" /\ scanning
  /\ scanning' = FALSE
  /\ alive' = {w \in alive : registered[w[1]] # w[2]}
  /\ holder' = [p \in Ports |-> IF holder[p] = registered[p] THEN 0 ELSE holder[p]]
  /\ registered' = [p \in Ports |-> 0]
  /\ portState' = [p \in Ports |-> "NONE"]
  /\ failed' = {}
  /\ UNCHANGED <<world, probing, scan, known, watch, dying, failures>>

Plug(p) ==
  /\ plugs < MaxPlugs
  /\ plugs' = plugs + 1
  /\ plugged' = IF p \in plugged THEN plugged \ {p} ELSE plugged \cup {p}
  /\ UNCHANGED <<program, scanning, registry, probing, failed, scan, known, watch,
                 dying, failures>>

-----------------------------------------------------------------------------
ScanStep(s) ==
  \/ Snapshot(s) \/ ScanTakesDown(s) \/ FilterCandidates(s)
  \/ CreateVerified(s) \/ MarkOffline(s)
  \/ \E p \in Ports : \/ RemoveGone(s, p) \/ ProbeOpens(s, p) \/ ProbeAnswers(s, p)
                      \/ HandOffBad(s, p) \/ HandOffGood(s, p)

WatchStep ==
  \/ WatchTakesDown
  \/ \E p \in Ports : Appeared(p) \/ Gone(p)

Next ==
  \/ \E s \in Scanners : Enumerate(s) \/ ScanStep(s)
  \/ Look \/ WatchStep \/ StopAll
  \/ \E p \in Ports : \/ CooldownEnds(p) \/ ExcludePort(p) \/ IncludePort(p) \/ Plug(p)
                      \/ \E n \in 1 .. MaxWorkers : Fails(p, n) \/ DyingTakenDown(p, n)

Spec == Init /\ [][Next]_vars

(* Threads that have begun go on, the loop begins again, time passes.      *)
Fairness ==
  /\ WF_vars(Enumerate("loop"))
  /\ \A s \in Scanners : WF_vars(ScanStep(s))
  /\ WF_vars(Look) /\ WF_vars(WatchStep)
  /\ \A p \in Ports : /\ WF_vars(CooldownEnds(p))
                      /\ \A n \in 1 .. MaxWorkers : WF_vars(DyingTakenDown(p, n))

FairSpec == Spec /\ Fairness

-----------------------------------------------------------------------------
(* Every variable keeps its type.                                          *)
TypeOK ==
  /\ program \in {"cli", "gui"} /\ plugged \subseteq Ports /\ plugs \in 0 .. MaxPlugs
  /\ scanning \in BOOLEAN
  /\ registered \in [Ports -> 0 .. MaxWorkers]
  /\ alive \subseteq Workers
  /\ holder \in [Ports -> 0 .. MaxWorkers]
  /\ probing \in [Ports -> SUBSET Scanners]
  /\ portState \in [Ports -> PortState]
  /\ failed \subseteq Ports
  /\ scan \in [Scanners -> ScanType]
  /\ known \subseteq Ports
  /\ watch \in WatchType
  /\ dying \subseteq Workers
  /\ failures \in 0 .. MaxFailures

(* A port the state map calls ACTIVE, EXCLUDED or OFFLINE has a worker:    *)
(* the two maps of the manager cannot drift apart that way, whatever scan  *)
(* marks ports offline with a stale enumeration.  (A participating port    *)
(* without one would be passed over by every scan for ever.)               *)
ParticipatingIsRegistered ==
  \A p \in Ports : portState[p] \in Participating \cup {"OFFLINE"} => registered[p] # 0

(* Who takes worker n of port p down.                                      *)
Undertakers(p, n) ==
  {s \in Scanners : scan[s].pc = "teardown" /\ scan[s].port = p /\ scan[s].victim = n}
  \cup (IF watch.pc = "teardown" /\ watch.port = p /\ watch.victim = n THEN {"watch"} ELSE {})
  \cup (IF <<p, n>> \in dying THEN {"worker"} ELSE {})

(* No worker leaks: one that runs is in the registry or somebody is taking *)
(* it down, and an open serial port belongs to a worker that runs.         *)
NoLeaks ==
  /\ \A w \in alive : registered[w[1]] = w[2] \/ Undertakers(w[1], w[2]) # {}
  /\ \A p \in Ports : holder[p] # 0 => <<p, holder[p]>> \in alive

(* Destroying is not done twice: scans, the monitor and failing workers    *)
(* that destroy the same port at once never take the same worker down, and *)
(* never one that is in the registry.                                      *)
OneUndertaker ==
  \A p \in Ports, n \in 1 .. MaxWorkers :
    /\ \A a, b \in Undertakers(p, n) : a = b
    /\ Undertakers(p, n) # {} => <<p, n>> \in alive /\ registered[p] # n

(* A modem that stays plugged in gets a worker and keeps one while the     *)
(* program scans, whatever happened to the port before.                    *)
ModemIsServed ==
  \A p \in Modems : <>[](p \in plugged /\ scanning) => <>[](registered[p] # 0)

(* A port that stays unplugged loses its worker and is closed, whatever    *)
(* stale enumeration or late event created the worker.                     *)
UnpluggedIsReleased ==
  \A p \in Ports : <>[](p \notin plugged /\ scanning)
                  => <>[](registered[p] = 0 /\ holder[p] = 0)

=============================================================================
