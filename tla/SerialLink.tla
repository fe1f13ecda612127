------------------------------ MODULE SerialLink ------------------------------
(***************************************************************************)
(* The serial link of one port of SAIKI and those who talk over it: the    *)
(* ATClient with its lock, the SIM monitor's poller, the workflows that    *)
(* WorkflowRunner executes skill by skill, and the modem.                  *)
(*                                                                         *)
(* The client writes a command and reads lines until one of them contains  *)
(* OK or ERROR, or its time is up.  Nothing on the line says which command *)
(* a line answers, and three kinds of lines come at moments of their own:  *)
(* the answer to a command whose client has stopped waiting, the text the  *)
(* network sends for a dialled code, which comes after the OK that ended   *)
(* the dial, and lines the poller's flush has not thrown away.  In the     *)
(* model a line carries the number of the command it belongs to; the code  *)
(* never sees it.                                                          *)
(***************************************************************************)
EXTENDS Integers, Sequences

CONSTANTS
  Jobs,       \* workflow threads
  Nobody,     \* the lock's owner when it is free
  Workflows,  \* bound: the workflows that are started
  Texts,      \* what the text of a dialled code can be
  MaxRuns,    \* bound: workflows started
  MaxPolls,   \* bound: polls of the SIM
  MaxSwaps    \* bound: changes of the SIM

Poller == "poller"
Clients == Jobs \cup {Poller}

(* The commands of the skills, by what they are for.  KK sends none.       *)
Dials == {"NIK", "INJECT", "GRACE"}
Commands == {"AT", "ATZ", "AT+CNUM", "AT+CPIN?"} \cup Dials
Steps == Commands \cup {"KK"}

(* The lines the parsers tell apart: the texts of dialled codes, a text    *)
(* that happens to contain OK, and a text with an active date; the two     *)
(* lines of information; the two that end an answer.  ERROR is a plain one *)
(* or one with a number: READY next to it is still read as READY.          *)
Payloads == {"TEXT", "TEXT+OK", "ACTIVE"}
Kinds == Payloads \cup {"READY", "NUMBER", "OK", "ERROR"}

ASSUME LinkAssumption ==
  /\ Poller \notin Jobs /\ Nobody \notin Clients
  /\ Texts \subseteq Payloads
  /\ MaxRuns \in Nat /\ MaxPolls \in Nat /\ MaxSwaps \in Nat

VARIABLES
  open,      \* SerialAdapter._is_open
  lock,      \* ATClient._lock: who holds it
  rx,        \* the input buffer: lines not read yet
  modem,     \* commands the modem has received and not answered
  network,   \* dials whose text is under way
  sim,       \* whether the SIM is usable
  clients,   \* what every client is doing
  script,    \* the commands of each workflow not finished yet
  sent,      \* commands written so far
  started,   \* polls and workflows begun, and changes of the SIM
  wasReady,  \* history: the SIM was usable at some time since the last flush
  stray      \* history: some line may reach a client it does not belong to

vars == <<open, lock, rx, modem, network, sim, clients, script, sent, started,
          wasReady, stray>>

ClientSteps == {"idle", "next", "wait", "read", "parse"}
Idle == [pc |-> "idle", step |-> "AT", cmd |-> 0, heard |-> {}]

Lines == [cmd : Nat, kind : Kinds]
Orders == [cmd : Nat, step : Steps \cup {"OK"}]
ClientType == [pc : ClientSteps, step : Steps, cmd : Nat, heard : SUBSET Lines]

-----------------------------------------------------------------------------
(* Lines and answers.                                                      *)

(* _read_response stops at a line with OK or ERROR in it, whatever it is.  *)
Ends(line) == line.kind \in {"OK", "ERROR", "TEXT+OK"}

Says(heard, kind) == \E line \in heard : line.kind = kind

(* AtResponse.success.                                                     *)
Success(heard) == (\E line \in heard : Ends(line)) /\ ~Says(heard, "ERROR")

(* The steps of the registered workflows.  restart_hardware is two         *)
(* commands, the others are one each.                                      *)
WorkflowSteps ==
  [check_number |-> <<"AT+CNUM">>,
   check_status |-> <<"AT+CPIN?">>,
   check_nik |-> <<"NIK">>,
   check_kk |-> <<"KK">>,
   check_data |-> <<"AT+CNUM", "NIK", "KK">>,
   reactivate_fast |-> <<"INJECT", "GRACE">>,
   reactivate_full |-> <<"AT+CNUM", "AT+CPIN?", "NIK", "KK", "INJECT", "GRACE">>,
   hardware_restart |-> <<"ATZ", "AT">>]

ASSUME WorkflowsAssumption == Workflows \subseteq DOMAIN WorkflowSteps

(* What each skill makes of what it heard.  The runner hands a skill the   *)
(* port and nothing else: the fallback of cek_nomor has no code to dial,   *)
(* cek_kk no number to look up.  A dial counts however empty its text is.  *)
CekNomor(heard) == Success(heard) /\ Says(heard, "NUMBER")
CekStatus(heard) == Says(heard, "READY")
CekNik(heard) == Success(heard)
CekKk(heard) == FALSE
InjectReaktivasi(heard) == Success(heard)
VerifyGrace(heard) == Success(heard) /\ Says(heard, "ACTIVE")
CheckModem(heard) == Success(heard)

SkillSucceeds(step, heard) ==
  CASE step = "AT+CNUM"  -> CekNomor(heard)
    [] step = "AT+CPIN?" -> CekStatus(heard)
    [] step = "NIK"      -> CekNik(heard)
    [] step = "KK"       -> CekKk(heard)
    [] step = "INJECT"   -> InjectReaktivasi(heard)
    [] step = "GRACE"    -> VerifyGrace(heard)
    [] step = "AT"       -> CheckModem(heard)
    [] OTHER             -> TRUE

-----------------------------------------------------------------------------
(* PortWorker.connect has opened the port and sent ATE0.                   *)
Init ==
  /\ open = TRUE
  /\ lock = Nobody
  /\ rx = <<>>
  /\ modem = <<>>
  /\ network = {}
  /\ sim \in BOOLEAN
  /\ clients = [c \in Clients |-> Idle]
  /\ script = [j \in Jobs |-> <<>>]
  /\ sent = 0
  /\ started = [runs |-> 0, polls |-> 0, swaps |-> 0]
  /\ wasReady = sim
  /\ stray = FALSE

-----------------------------------------------------------------------------
(* ATClient.                                                               *)

(* Mutant of Send: a dial does not wait for the lock.                      *)
SendUnlocked(c) ==
  /\ clients[c].pc = "wait"
  /\ lock = Nobody \/ clients[c].step \in Dials
  /\ IF open
     THEN /\ lock' = c
          /\ sent' = sent + 1
          /\ modem' = Append(modem, [cmd |-> sent + 1, step |-> clients[c].step])
          /\ clients' = [clients EXCEPT ![c].pc = "read", ![c].cmd = sent + 1]
     ELSE /\ clients' = [clients EXCEPT ![c].pc = "parse"]
          /\ UNCHANGED <<lock, sent, modem>>
  /\ UNCHANGED <<open, rx, network, sim, wasReady, script, started, stray>>

(* send_command and send_ussd up to the write.  A closed port takes no     *)
(* command and the call returns an error without a line.                   *)
Send(c) ==
  /\ clients[c].pc = "wait" /\ lock = Nobody
  /\ IF open
     THEN /\ lock' = c
          /\ sent' = sent + 1
          /\ modem' = Append(modem, [cmd |-> sent + 1, step |-> clients[c].step])
          /\ clients' = [clients EXCEPT ![c].pc = "read", ![c].cmd = sent + 1]
     ELSE /\ clients' = [clients EXCEPT ![c].pc = "parse"]
          /\ UNCHANGED <<lock, sent, modem>>
  /\ UNCHANGED <<open, rx, network, sim, wasReady, script, started, stray>>

(* _read_response reads a line; the last one releases the lock.            *)
ReadLine(c) ==
  /\ clients[c].pc = "read" /\ rx # <<>>
  /\ rx' = Tail(rx)
  /\ LET line == Head(rx) IN
       /\ lock' = IF Ends(line) THEN Nobody ELSE lock
       /\ clients' = [clients EXCEPT ![c].heard = @ \cup {line},
                                     ![c].pc = IF Ends(line) THEN "parse" ELSE "read"]
  /\ UNCHANGED <<open, modem, network, sim, script, sent, started, wasReady,
                 stray>>

(* Mutant of TimesOut: the loop waits for the last line.                   *)
TimesOutNever(c) == FALSE /\ UNCHANGED vars

(* The time is up, whatever is in the buffer by then; a closed port only   *)
(* ever ends this way.                                                     *)
TimesOut(c) ==
  /\ clients[c].pc = "read"
  /\ lock' = Nobody
  /\ clients' = [clients EXCEPT ![c].pc = "parse"]
  /\ stray' = TRUE
  /\ UNCHANGED <<open, rx, modem, network, sim, wasReady, script, sent,
                 started>>

Receive(c) == ReadLine(c) \/ TimesOut(c)

-----------------------------------------------------------------------------
(* The poller.                                                             *)

(* Mutant of Poll: without the flush.                                      *)
PollUnflushed ==
  /\ clients[Poller].pc = "idle"
  /\ started.polls < MaxPolls
  /\ started' = [started EXCEPT !.polls = @ + 1]
  /\ wasReady' = sim
  /\ clients' = [clients EXCEPT ![Poller] =
       [Idle EXCEPT !.pc = "wait", !.step = "AT+CPIN?"]]
  /\ UNCHANGED <<open, lock, rx, modem, network, sim, script, sent, stray>>

(* _poll_once flushes the input buffer, without the client's lock, and     *)
(* sends its query; its confirmation poll does the same once more.         *)
Poll ==
  /\ clients[Poller].pc = "idle"
  /\ started.polls < MaxPolls
  /\ started' = [started EXCEPT !.polls = @ + 1]
  /\ rx' = <<>>
  /\ wasReady' = sim
  /\ clients' = [clients EXCEPT ![Poller] =
       [Idle EXCEPT !.pc = "wait", !.step = "AT+CPIN?"]]
  /\ UNCHANGED <<open, lock, modem, network, sim, script, sent, stray>>

(* What the poll makes of the answer is the matter of CpinRuntime.         *)
PollEnds ==
  /\ clients[Poller].pc = "parse"
  /\ clients' = [clients EXCEPT ![Poller] = Idle]
  /\ UNCHANGED <<open, lock, rx, modem, network, sim, wasReady, script,
                 sent, started, stray>>

-----------------------------------------------------------------------------
(* WorkflowRunner.run.                                                     *)

StartWorkflow(j, w) ==
  /\ clients[j].pc = "idle"
  /\ started.runs < MaxRuns
  /\ started' = [started EXCEPT !.runs = @ + 1]
  /\ script' = [script EXCEPT ![j] = WorkflowSteps[w]]
  /\ clients' = [clients EXCEPT ![j].pc = "next"]
  /\ UNCHANGED <<open, lock, rx, modem, network, sim, wasReady, sent, stray>>

(* The next skill; cek_kk does without the modem.                          *)
BeginSkill(j) ==
  /\ clients[j].pc = "next"
  /\ LET step == Head(script[j]) IN
       clients' = [clients EXCEPT ![j] =
         [Idle EXCEPT !.pc = IF step = "KK" THEN "parse" ELSE "wait", !.step = step]]
  /\ UNCHANGED <<open, lock, rx, modem, network, sim, wasReady, script,
                 sent, started, stray>>

(* The first failure ends the workflow.  The program's runner has no       *)
(* cleanup manager: between two skills it only waits.                      *)
EndSkill(j) ==
  /\ clients[j].pc = "parse"
  /\ LET left == IF SkillSucceeds(clients[j].step, clients[j].heard)
                 THEN Tail(script[j]) ELSE <<>>
     IN /\ script' = [script EXCEPT ![j] = left]
        /\ clients' = [clients EXCEPT ![j] =
                         [Idle EXCEPT !.pc = IF left = <<>> THEN "idle" ELSE "next"]]
  /\ UNCHANGED <<open, lock, rx, modem, network, sim, wasReady, sent,
                 started, stray>>

-----------------------------------------------------------------------------
(* The modem and its surroundings.                                         *)

(* A line reaches the input buffer unless the port is closed.              *)
Deliver(cmd, kind) ==
  rx' = IF open THEN Append(rx, [cmd |-> cmd, kind |-> kind]) ELSE rx

(* A line of information before the OK: the state of the SIM, or a number  *)
(* if the SIM has one.                                                     *)
Inform ==
  /\ modem # <<>> /\ sim
  /\ LET m == Head(modem) IN
       /\ \/ m.step = "AT+CPIN?" /\ Deliver(m.cmd, "READY")
          \/ m.step = "AT+CNUM" /\ Deliver(m.cmd, "NUMBER")
       /\ modem' = [modem EXCEPT ![1].step = "OK"]
  /\ UNCHANGED <<open, lock, network, sim, wasReady, clients, script, sent,
                 started, stray>>

(* OK.  That of a dial says that the code is on its way.                   *)
Accept ==
  /\ modem # <<>>
  /\ LET m == Head(modem) IN
       /\ m.step # "AT+CPIN?"
       /\ m.step \in Dials \cup {"AT+CNUM"} => sim
       /\ Deliver(m.cmd, "OK")
       /\ network' = IF m.step \in Dials THEN network \cup {m} ELSE network
  /\ modem' = Tail(modem)
  /\ UNCHANGED <<open, lock, sim, wasReady, clients, script, sent, started,
                 stray>>

(* ERROR: no SIM, or a code that cannot be dialled.                        *)
Refuse ==
  /\ modem # <<>>
  /\ LET m == Head(modem) IN
       /\ m.step \in Dials \/ (m.step \in {"AT+CPIN?", "AT+CNUM"} /\ ~sim)
       /\ Deliver(m.cmd, "ERROR")
  /\ modem' = Tail(modem)
  /\ UNCHANGED <<open, lock, network, sim, wasReady, clients, script, sent,
                 started, stray>>

(* The modem forgets a command, as ATZ and a brown-out make it do.         *)
Lose ==
  /\ modem # <<>>
  /\ modem' = Tail(modem)
  /\ UNCHANGED <<open, lock, rx, network, sim, wasReady, clients, script,
                 sent, started, stray>>

(* The network's text for a dialled code, at any time or never.            *)
NetworkAnswers(m, kind) ==
  /\ m \in network
  /\ kind = "ACTIVE" => m.step = "GRACE"
  /\ Deliver(m.cmd, kind)
  /\ network' = network \ {m}
  /\ stray' = (stray \/ kind = "TEXT+OK")
  /\ UNCHANGED <<open, lock, modem, sim, wasReady, clients, script, sent,
                 started>>

SwapSim ==
  /\ started.swaps < MaxSwaps
  /\ started' = [started EXCEPT !.swaps = @ + 1]
  /\ sim' = ~sim
  /\ wasReady' = (wasReady \/ sim')
  /\ UNCHANGED <<open, lock, rx, modem, network, clients, script, sent, stray>>

(* PortWorker.disconnect closes the port under whoever is reading.         *)
Close ==
  /\ open
  /\ open' = FALSE
  /\ rx' = <<>>
  /\ UNCHANGED <<lock, modem, network, sim, wasReady, clients, script, sent,
                 started, stray>>

-----------------------------------------------------------------------------
JobStep(j) == BeginSkill(j) \/ EndSkill(j)

Surroundings ==
  \/ Inform \/ Accept \/ Refuse \/ Lose \/ SwapSim \/ Close
  \/ \E m \in network, kind \in Texts : NetworkAnswers(m, kind)

Next ==
  \/ \E c \in Clients : Send(c) \/ Receive(c)
  \/ Poll \/ PollEnds
  \/ \E j \in Jobs : JobStep(j) \/ \E w \in Workflows : StartWorkflow(j, w)
  \/ Surroundings

Spec == Init /\ [][Next]_vars

(* Threads run on; a read ends by its time.  A thread that waits for the   *)
(* client's lock gets it in the end: the lock is free for seconds between  *)
(* two polls, and its release wakes who waits.  The modem owes nothing.    *)
Fairness ==
  /\ \A c \in Clients : SF_vars(Send(c)) /\ WF_vars(Receive(c))
  /\ \A j \in Jobs : WF_vars(JobStep(j))
  /\ WF_vars(PollEnds)

FairSpec == Spec /\ Fairness

-----------------------------------------------------------------------------
(* Every variable keeps its type, and a thread is under way exactly as     *)
(* long as its workflow has skills left.                                   *)
TypeOK ==
  /\ open \in BOOLEAN
  /\ lock \in Clients \cup {Nobody}
  /\ rx \in Seq(Lines)
  /\ modem \in Seq(Orders)
  /\ network \subseteq Orders
  /\ sim \in BOOLEAN
  /\ clients \in [Clients -> ClientType]
  /\ script \in [Jobs -> Seq(Steps)]
  /\ \A j \in Jobs : clients[j].pc = "idle" <=> script[j] = <<>>
  /\ sent \in Nat
  /\ started \in [runs : Nat, polls : Nat, swaps : Nat]
  /\ wasReady \in BOOLEAN
  /\ stray \in BOOLEAN

(* A poll that hears READY, even in the answer to another command, tells   *)
(* of a SIM that was usable after the poll began: what the flush cannot    *)
(* throw away it need not throw away.                                      *)
PollIsFresh ==
  clients[Poller].pc = "parse" /\ Says(clients[Poller].heard, "READY") => wasReady

(* The answers keep step with the commands, in spite of a flush that takes *)
(* lines from under a reader and of texts that come when they like: until  *)
(* some command has timed out, or a text contained OK, whoever has heard   *)
(* anything but texts has heard the answer to its own command.             *)
AnswersInStep ==
  ~stray => \A c \in Clients : clients[c].pc = "parse" =>
              \A line \in clients[c].heard :
                line.kind \in Payloads \/ line.cmd = clients[c].cmd

(* Every workflow ends, whatever the modem does and also when the port is  *)
(* closed under it: no thread of the dispatcher is held up for ever.       *)
RunsEnd == \A j \in Jobs : clients[j].pc # "idle" ~> clients[j].pc = "idle"

-----------------------------------------------------------------------------
(* A statement of the documentation that the code does not keep.           *)

===============================================================================
