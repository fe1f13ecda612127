--------------------------- MODULE SerialLinkProofs ---------------------------
(* For any jobs, workflows, texts and bounds: SerialLink keeps its types,  *)
(* a poll is fresh, and answers keep step with commands.                   *)
EXTENDS SerialLink, SequenceTheorems, TLAPS

(* Who reads is who holds the client's lock.                               *)
ReaderHasLock == \A c \in Clients : clients[c].pc = "read" <=> lock = c

(* A client that waits for the lock has heard nothing yet.                 *)
WaiterHeardNothing == \A c \in Clients : clients[c].pc = "wait" => clients[c].heard = {}

(* Since the last flush every READY on the way was true when it was sent.  *)
ReadyIsTrue ==
  /\ sim => wasReady
  /\ \A i \in 1..Len(rx) : rx[i].kind = "READY" => wasReady
  /\ \A line \in clients[Poller].heard : line.kind = "READY" => wasReady

(* Until something is stray: a line that is no text is the reader's own;   *)
(* so is the one command the modem works on; behind a line that ends an    *)
(* answer nothing but texts follows; what was heard is one's own.          *)
LinesOwned ==
  \A i \in 1..Len(rx) :
    /\ rx[i].kind # "TEXT+OK"
    /\ rx[i].kind \notin Payloads => lock # Nobody /\ rx[i].cmd = clients[lock].cmd

OrderOwned ==
  /\ Len(modem) \in {0, 1}
  /\ Len(modem) = 1 => lock # Nobody /\ modem[1].cmd = clients[lock].cmd

OneEnd ==
  \A i \in 1..Len(rx) : Ends(rx[i]) =>
    /\ Len(modem) = 0
    /\ \A k \in 1..Len(rx) : k > i => rx[k].kind \in Payloads

HeardOwned ==
  \A c \in Clients : \A line \in clients[c].heard :
    line.kind \notin Payloads => line.cmd = clients[c].cmd

InStep == LinesOwned /\ OrderOwned /\ OneEnd /\ HeardOwned

LinkInv ==
  /\ TypeOK
  /\ ReaderHasLock /\ WaiterHeardNothing
  /\ ReadyIsTrue
  /\ ~stray => InStep
-----------------------------------------------------------------------------
(* Sequences.                                                              *)

LEMMA TailFacts ==
  ASSUME NEW T, NEW s \in Seq(T), s # <<>>
  PROVE  /\ Len(s) \in Nat \ {0} /\ Head(s) = s[1] /\ s[1] \in T
         /\ Tail(s) \in Seq(T) /\ Len(Tail(s)) = Len(s) - 1
         /\ \A i \in 1..Len(Tail(s)) : i + 1 \in 1..Len(s) /\ Tail(s)[i] = s[i + 1]
  OBVIOUS

LEMMA FirstReplaced ==
  ASSUME NEW T, NEW s \in Seq(T), s # <<>>, NEW e \in T
  PROVE  /\ [s EXCEPT ![1] = e] \in Seq(T) /\ Len([s EXCEPT ![1] = e]) = Len(s)
         /\ [s EXCEPT ![1] = e][1] = e
  <1>1. 1 \in 1..Len(s)
    BY TailFacts
  <1>2. QED
    BY <1>1, ExceptSeq

(* What Deliver leaves in the input buffer.                                *)
LEMMA DeliverFacts ==
  ASSUME TypeOK, NEW cmd \in Nat, NEW kind \in Kinds, Deliver(cmd, kind)
  PROVE  /\ rx' \in Seq(Lines)
         /\ Len(rx') <= Len(rx) + 1
         /\ \A i \in 1..Len(rx') :
              \/ i \in 1..Len(rx) /\ rx'[i] = rx[i]
              \/ i = Len(rx) + 1 /\ rx'[i] = [cmd |-> cmd, kind |-> kind]
  <1>1. [cmd |-> cmd, kind |-> kind] \in Lines
    BY DEF Lines
  <1>2. QED
    BY <1>1 DEF Deliver, TypeOK

LEMMA ScriptsAreScripts ==
  \A w \in Workflows : WorkflowSteps[w] \in Seq(Steps) /\ WorkflowSteps[w] # <<>>
  <1>1. /\ "AT" \in Steps /\ "ATZ" \in Steps /\ "AT+CNUM" \in Steps
        /\ "AT+CPIN?" \in Steps /\ "NIK" \in Steps /\ "INJECT" \in Steps
        /\ "GRACE" \in Steps /\ "KK" \in Steps
    BY DEF Steps, Commands, Dials
  <1>2. \A a, b, c, d, e, f \in Steps :
          /\ <<a>> \in Seq(Steps) /\ <<a, b>> \in Seq(Steps) /\ <<a, b, c>> \in Seq(Steps)
          /\ <<a, b, c, d, e, f>> \in Seq(Steps)
    OBVIOUS
  <1>3. SUFFICES ASSUME NEW w \in DOMAIN WorkflowSteps
                 PROVE  WorkflowSteps[w] \in Seq(Steps) /\ WorkflowSteps[w] # <<>>
    BY WorkflowsAssumption
  <1>4. \/ w = "check_number" \/ w = "check_status" \/ w = "check_nik" \/ w = "check_kk"
        \/ w = "check_data" \/ w = "reactivate_fast" \/ w = "reactivate_full"
        \/ w = "hardware_restart"
    BY DEF WorkflowSteps
  <1>5. WorkflowSteps[w] \in Seq(Steps)
    <2>1. CASE w \in {"check_number", "check_status", "check_nik", "check_kk"}
      <3>1. WorkflowSteps[w] \in {<<"AT+CNUM">>, <<"AT+CPIN?">>, <<"NIK">>, <<"KK">>}
        BY <2>1 DEF WorkflowSteps
      <3>2. /\ <<"AT+CNUM">> \in Seq(Steps) /\ <<"AT+CPIN?">> \in Seq(Steps)
            /\ <<"NIK">> \in Seq(Steps) /\ <<"KK">> \in Seq(Steps)
        BY <1>1, <1>2
      <3>3. QED
        BY <3>1, <3>2
    <2>2. CASE w \in {"reactivate_fast", "hardware_restart"}
      <3>1. WorkflowSteps[w] \in {<<"INJECT", "GRACE">>, <<"ATZ", "AT">>}
        BY <2>2 DEF WorkflowSteps
      <3>2. /\ <<"INJECT", "GRACE">> \in Seq(Steps) /\ <<"ATZ", "AT">> \in Seq(Steps)
        BY <1>1, <1>2
      <3>3. QED
        BY <3>1, <3>2
    <2>3. CASE w = "check_data"
      <3>1. WorkflowSteps[w] = <<"AT+CNUM", "NIK", "KK">>
        BY <2>3 DEF WorkflowSteps
      <3>2. QED
        BY <1>1, <1>2, <3>1
    <2>4. CASE w = "reactivate_full"
      <3>1. WorkflowSteps[w] = <<"AT+CNUM", "AT+CPIN?", "NIK", "KK", "INJECT", "GRACE">>
        BY <2>4 DEF WorkflowSteps
      <3>2. QED
        BY <1>1, <1>2, <3>1
    <2>5. QED
      BY <1>4, <2>1, <2>2, <2>3, <2>4
  <1>6. WorkflowSteps[w] # <<>>
    <2>1. CASE w \in {"check_number", "check_status", "check_nik", "check_kk"}
      BY <2>1 DEF WorkflowSteps
    <2>2. CASE w \in {"check_data", "reactivate_fast", "hardware_restart"}
      BY <2>2 DEF WorkflowSteps
    <2>3. CASE w = "reactivate_full"
      BY <2>3 DEF WorkflowSteps
    <2>4. QED
      BY <1>4, <2>1, <2>2, <2>3
  <1>7. QED
    BY <1>5, <1>6

LEMMA PayloadsAreKinds == Texts \subseteq Payloads /\ Payloads \subseteq Kinds
  BY LinkAssumption DEF Kinds

-----------------------------------------------------------------------------
(* Types.                                                                  *)

LEMMA InitType == ASSUME Init PROVE TypeOK
  <1>1. Idle \in ClientType
    BY DEF Idle, ClientType, ClientSteps, Steps, Commands
  <1>2. clients \in [Clients -> ClientType]
    BY <1>1 DEF Init
  <1>3. \A j \in Jobs : clients[j].pc = "idle" /\ script[j] = <<>>
    BY DEF Init, Clients, Idle
  <1>4. script \in [Jobs -> Seq(Steps)]
    BY DEF Init
  <1>5. started \in [runs : Nat, polls : Nat, swaps : Nat]
    BY DEF Init
  <1>6. open \in BOOLEAN /\ sim \in BOOLEAN /\ wasReady \in BOOLEAN /\ stray \in BOOLEAN
    BY Zenon DEF Init
  <1>7. /\ lock \in Clients \cup {Nobody} /\ rx \in Seq(Lines) /\ modem \in Seq(Orders)
        /\ network \subseteq Orders /\ sent \in Nat
    BY DEF Init
  <1>8. QED
    BY Zenon, <1>2, <1>3, <1>4, <1>5, <1>6, <1>7 DEF TypeOK

(* What the steps of a client make of its record.                          *)

Others(c) == \A d \in Clients \ {c} : clients'[d] = clients[d]

LEMMA Moves ==
  ASSUME clients \in [Clients -> ClientType], NEW c \in Clients, NEW r \in ClientType,
         clients' = [clients EXCEPT ![c] = r]
  PROVE  clients' \in [Clients -> ClientType] /\ clients'[c] = r /\ Others(c)
  BY DEF Others

LEMMA SendMoves ==
  ASSUME TypeOK, NEW c \in Clients, Send(c)
  PROVE  /\ clients' \in [Clients -> ClientType] /\ Others(c)
         /\ open => clients'[c].pc = "read" /\ clients'[c].cmd = sent + 1
         /\ ~open => clients'[c].pc = "parse"
         /\ clients'[c].heard = clients[c].heard
  <1>1. clients \in [Clients -> ClientType] /\ clients[c] \in ClientType /\ sent + 1 \in Nat
    BY DEF TypeOK
  <1>2. CASE open
    <2> DEFINE r == [clients[c] EXCEPT !.pc = "read", !.cmd = sent + 1]
    <2>1. clients' = [clients EXCEPT ![c] = r]
      BY <1>1, <1>2 DEF Send
    <2>2. r \in ClientType /\ r.pc = "read" /\ r.cmd = sent + 1 /\ r.heard = clients[c].heard
      BY <1>1 DEF ClientType, ClientSteps
    <2> HIDE DEF r
    <2>3. QED
      BY <1>1, <1>2, <2>1, <2>2, Moves
  <1>3. CASE ~open
    <2> DEFINE r == [clients[c] EXCEPT !.pc = "parse"]
    <2>1. clients' = [clients EXCEPT ![c] = r]
      BY <1>1, <1>3 DEF Send
    <2>2. r \in ClientType /\ r.pc = "parse" /\ r.heard = clients[c].heard
      BY <1>1 DEF ClientType, ClientSteps
    <2> HIDE DEF r
    <2>3. QED
      BY <1>1, <1>3, <2>1, <2>2, Moves
  <1>4. QED
    BY <1>2, <1>3

LEMMA ReadMoves ==
  ASSUME TypeOK, NEW c \in Clients, ReadLine(c)
  PROVE  /\ clients' \in [Clients -> ClientType] /\ Others(c)
         /\ clients'[c].pc = (IF Ends(rx[1]) THEN "parse" ELSE "read")
         /\ clients'[c].heard = clients[c].heard \cup {rx[1]}
         /\ clients'[c].cmd = clients[c].cmd
  <1> DEFINE r == [clients[c] EXCEPT !.heard = @ \cup {rx[1]},
                                     !.pc = IF Ends(rx[1]) THEN "parse" ELSE "read"]
  <1>1. clients \in [Clients -> ClientType] /\ clients[c] \in ClientType
    BY DEF TypeOK
  <1>2. rx[1] \in Lines /\ Head(rx) = rx[1]
    BY TailFacts DEF TypeOK, ReadLine
  <1>3. clients' = [clients EXCEPT ![c] = r]
    BY <1>1, <1>2 DEF ReadLine
  <1>4. /\ r \in ClientType /\ r.heard = clients[c].heard \cup {rx[1]}
        /\ r.pc = (IF Ends(rx[1]) THEN "parse" ELSE "read") /\ r.cmd = clients[c].cmd
    BY <1>1, <1>2 DEF ClientType, ClientSteps
  <1> HIDE DEF r
  <1>5. QED
    BY <1>1, <1>3, <1>4, Moves

LEMMA TimeOutMoves ==
  ASSUME TypeOK, NEW c \in Clients, TimesOut(c)
  PROVE  /\ clients' \in [Clients -> ClientType] /\ Others(c)
         /\ clients'[c].pc = "parse" /\ clients'[c].heard = clients[c].heard
  <1> DEFINE r == [clients[c] EXCEPT !.pc = "parse"]
  <1>1. clients \in [Clients -> ClientType] /\ clients[c] \in ClientType
    BY DEF TypeOK
  <1>2. clients' = [clients EXCEPT ![c] = r]
    BY <1>1 DEF TimesOut
  <1>3. r \in ClientType /\ r.pc = "parse" /\ r.heard = clients[c].heard
    BY <1>1 DEF ClientType, ClientSteps
  <1> HIDE DEF r
  <1>4. QED
    BY <1>1, <1>2, <1>3, Moves

(* A poll or a skill begins, or a workflow or a poll ends, with nothing    *)
(* heard; the client does not read.                                        *)
LEMMA FreshMoves ==
  ASSUME TypeOK, NEW c \in Clients, NEW pc \in ClientSteps, NEW step \in Steps,
         \/ clients' = [clients EXCEPT ![c] = [Idle EXCEPT !.pc = pc, !.step = step]]
         \/ clients' = [clients EXCEPT ![c] = [Idle EXCEPT !.pc = pc]]
  PROVE  /\ clients' \in [Clients -> ClientType] /\ Others(c)
         /\ clients'[c].pc = pc /\ clients'[c].heard = {}
  <1>1. \A r \in ClientType : clients' = [clients EXCEPT ![c] = r]
          => clients' \in [Clients -> ClientType] /\ clients'[c] = r /\ Others(c)
    BY Moves DEF TypeOK
  <1>2. CASE clients' = [clients EXCEPT ![c] = [Idle EXCEPT !.pc = pc, !.step = step]]
    <2> DEFINE r == [Idle EXCEPT !.pc = pc, !.step = step]
    <2>1. r \in ClientType /\ r.pc = pc /\ r.heard = {}
      BY DEF Idle, ClientType
    <2>2. clients' = [clients EXCEPT ![c] = r]
      BY <1>2
    <2> HIDE DEF r
    <2>3. QED
      BY <1>1, <2>1, <2>2
  <1>3. CASE clients' = [clients EXCEPT ![c] = [Idle EXCEPT !.pc = pc]]
    <2> DEFINE r == [Idle EXCEPT !.pc = pc]
    <2>1. r \in ClientType /\ r.pc = pc /\ r.heard = {}
      BY DEF Idle, ClientType, Steps, Commands
    <2>2. clients' = [clients EXCEPT ![c] = r]
      BY <1>3
    <2> HIDE DEF r
    <2>3. QED
      BY <1>1, <2>1, <2>2
  <1>4. QED
    BY <1>2, <1>3

(* The type invariant in parts.                                            *)
FlagTypes == /\ open \in BOOLEAN /\ sim \in BOOLEAN
             /\ wasReady \in BOOLEAN /\ stray \in BOOLEAN

LineTypes == /\ lock \in Clients \cup {Nobody} /\ rx \in Seq(Lines)
             /\ modem \in Seq(Orders) /\ network \subseteq Orders

CountTypes == sent \in Nat /\ started \in [runs : Nat, polls : Nat, swaps : Nat]

ThreadTypes ==
  /\ clients \in [Clients -> ClientType]
  /\ script \in [Jobs -> Seq(Steps)]
  /\ \A j \in Jobs : clients[j].pc = "idle" <=> script[j] = <<>>

LEMMA TypeParts == TypeOK <=> FlagTypes /\ LineTypes /\ CountTypes /\ ThreadTypes
  BY Zenon DEF TypeOK, FlagTypes, LineTypes, CountTypes, ThreadTypes

LEMMA TypeStep == ASSUME TypeOK, [Next]_vars PROVE TypeOK'
  <1>1. FlagTypes /\ LineTypes /\ CountTypes /\ ThreadTypes
    BY TypeParts
  <1>2. Poller \in Clients /\ Jobs \subseteq Clients /\ Poller \notin Jobs
    BY LinkAssumption DEF Clients
  <1> SUFFICES FlagTypes' /\ LineTypes' /\ CountTypes' /\ ThreadTypes'
    BY Zenon DEF TypeOK, FlagTypes, LineTypes, CountTypes, ThreadTypes
  <1>3. ASSUME NEW c \in Clients, Send(c)
       PROVE  FlagTypes' /\ LineTypes' /\ CountTypes' /\ ThreadTypes'
    <2>1. FlagTypes'
      BY Zenon, <1>1, <1>3 DEF Send, FlagTypes
    <2>2. LineTypes'
      <3>1. [cmd |-> sent + 1, step |-> clients[c].step] \in Orders
        <4>1. clients[c].step \in Steps /\ sent + 1 \in Nat
          BY <1>1 DEF ThreadTypes, CountTypes, ClientType
        <4>2. QED
          BY <4>1 DEF Orders
      <3>2. modem' \in Seq(Orders) /\ lock' \in Clients \cup {Nobody}
        <4>1. CASE open
          <5>1. /\ lock' = c
                /\ modem' = Append(modem, [cmd |-> sent + 1,
                                          step |-> clients[c].step])
            BY <1>3, <4>1 DEF Send
          <5>2. modem \in Seq(Orders)
            BY <1>1 DEF LineTypes
          <5>3. QED
            BY <5>1, <5>2, <3>1
        <4>2. CASE ~open
          BY <1>1, <1>3, <4>2 DEF Send, LineTypes
        <4>3. QED
          BY <4>1, <4>2
      <3>3. QED
        BY <1>1, <1>3, <3>2 DEF Send, LineTypes
    <2>3. CountTypes'
      BY <1>1, <1>3 DEF Send, CountTypes
    <2>4. ThreadTypes'
      BY <1>1, <1>2, <1>3, SendMoves DEF Send, ThreadTypes, Others
    <2>5. QED
      BY <2>1, <2>2, <2>3, <2>4
  <1>4. ASSUME NEW c \in Clients, ReadLine(c)
       PROVE  FlagTypes' /\ LineTypes' /\ CountTypes' /\ ThreadTypes'
    <2>1. FlagTypes'
      BY Zenon, <1>1, <1>4 DEF ReadLine, FlagTypes
    <2>2. LineTypes'
      BY <1>1, <1>4, TailFacts DEF ReadLine, LineTypes
    <2>3. CountTypes'
      BY <1>1, <1>4 DEF ReadLine, CountTypes
    <2>4. ThreadTypes'
      <3>1. /\ clients' \in [Clients -> ClientType] /\ Others(c)
            /\ clients'[c].pc = (IF Ends(rx[1]) THEN "parse" ELSE "read")
        BY <1>4, ReadMoves
      <3>2. clients'[c].pc # "idle" /\ clients[c].pc # "idle" /\ script' = script
        BY <1>4, <3>1 DEF ReadLine
      <3>3. QED
        BY <1>1, <1>2, <3>1, <3>2 DEF ThreadTypes, Others
    <2>5. QED
      BY <2>1, <2>2, <2>3, <2>4
  <1>5. ASSUME NEW c \in Clients, TimesOut(c)
       PROVE  FlagTypes' /\ LineTypes' /\ CountTypes' /\ ThreadTypes'
    <2>1. FlagTypes'
      BY Zenon, <1>1, <1>5 DEF TimesOut, FlagTypes
    <2>2. LineTypes'
      BY <1>1, <1>5 DEF TimesOut, LineTypes
    <2>3. CountTypes'
      BY <1>1, <1>5 DEF TimesOut, CountTypes
    <2>4. ThreadTypes'
      BY <1>1, <1>2, <1>5, TimeOutMoves DEF TimesOut, ThreadTypes, Others
    <2>5. QED
      BY <2>1, <2>2, <2>3, <2>4
  <1>6. CASE Poll
    <2>1. clients' = [clients EXCEPT ![Poller] = [Idle EXCEPT !.pc = "wait", !.step = "AT+CPIN?"]]
      BY <1>6 DEF Poll
    <2>2. FlagTypes'
      BY Zenon, <1>1, <1>6 DEF Poll, FlagTypes
    <2>3. LineTypes'
      BY <1>1, <1>6 DEF Poll, LineTypes
    <2>4. CountTypes'
      BY <1>1, <1>6 DEF Poll, CountTypes
    <2>5. ThreadTypes'
      <3>1. "wait" \in ClientSteps /\ "AT+CPIN?" \in Steps
        BY DEF ClientSteps, Steps, Commands
      <3>2. clients' \in [Clients -> ClientType] /\ Others(Poller)
        BY <1>2, <2>1, <3>1, FreshMoves
      <3>3. QED
        BY <1>1, <1>2, <1>6, <3>2 DEF Poll, ThreadTypes, Others
    <2>6. QED
      BY <2>2, <2>3, <2>4, <2>5
  <1>7. CASE PollEnds
    <2>1. clients' = [clients EXCEPT ![Poller] = [Idle EXCEPT !.pc = "idle", !.step = "AT"]]
      BY <1>7 DEF PollEnds, Idle
    <2>2. FlagTypes'
      BY Zenon, <1>1, <1>7 DEF PollEnds, FlagTypes
    <2>3. LineTypes'
      BY <1>1, <1>7 DEF PollEnds, LineTypes
    <2>4. CountTypes'
      BY <1>1, <1>7 DEF PollEnds, CountTypes
    <2>5. ThreadTypes'
      BY <1>1, <1>2, <2>1, <1>7, FreshMoves DEF PollEnds, ThreadTypes, Others, ClientSteps, Steps, Commands
    <2>6. QED
      BY <2>2, <2>3, <2>4, <2>5
  <1>8. ASSUME NEW j \in Jobs, BeginSkill(j)
        PROVE  FlagTypes' /\ LineTypes' /\ CountTypes' /\ ThreadTypes'
    <2> DEFINE step == Head(script[j])
               pc == IF step = "KK" THEN "parse" ELSE "wait"
    <2>1. script[j] # <<>> /\ script[j] \in Seq(Steps)
      BY <1>1, <1>8 DEF BeginSkill, ThreadTypes
    <2>2. step \in Steps /\ pc \in ClientSteps /\ pc # "idle"
      BY <2>1, TailFacts DEF ClientSteps
    <2>3. clients' = [clients EXCEPT ![j] = [Idle EXCEPT !.pc = pc, !.step = step]]
      BY <1>8 DEF BeginSkill
    <2> HIDE DEF step, pc
    <2>4. ThreadTypes'
      <3>1. clients' \in [Clients -> ClientType] /\ Others(j) /\ clients'[j].pc = pc
        BY <1>2, <2>2, <2>3, FreshMoves
      <3>2. QED
        BY <1>1, <1>2, <1>8, <2>1, <2>2, <3>1 DEF BeginSkill, ThreadTypes, Others
    <2>5. FlagTypes'
      BY Zenon, <1>1, <1>8 DEF BeginSkill, FlagTypes
    <2>6. LineTypes' /\ CountTypes'
      BY <1>1, <1>8 DEF BeginSkill, LineTypes, CountTypes
    <2>7. QED
      BY <2>4, <2>5, <2>6
  <1>9. ASSUME NEW j \in Jobs, EndSkill(j)
        PROVE  FlagTypes' /\ LineTypes' /\ CountTypes' /\ ThreadTypes'
    <2>1. script[j] # <<>> /\ script[j] \in Seq(Steps)
      BY <1>1, <1>9 DEF EndSkill, ThreadTypes
    <2>2. PICK left : /\ left = (IF SkillSucceeds(clients[j].step, clients[j].heard)
                                 THEN Tail(script[j]) ELSE <<>>)
                      /\ script' = [script EXCEPT ![j] = left]
                      /\ clients' = [clients EXCEPT ![j] =
                           [Idle EXCEPT !.pc = IF left = <<>> THEN "idle" ELSE "next"]]
      BY <1>9 DEF EndSkill
    <2>3. left \in Seq(Steps)
      BY <2>1, <2>2, TailFacts
    <2> DEFINE pc == IF left = <<>> THEN "idle" ELSE "next"
    <2>4. clients' = [clients EXCEPT ![j] = [Idle EXCEPT !.pc = pc]]
      BY <2>2
    <2>5. pc \in ClientSteps /\ (pc = "idle" <=> left = <<>>) /\ "AT" \in Steps
      BY DEF ClientSteps, Steps, Commands
    <2> HIDE DEF pc
    <2>6. /\ clients' \in [Clients -> ClientType] /\ Others(j) /\ clients'[j].pc = pc
      BY <1>2, <2>4, <2>5, FreshMoves
    <2>7. ThreadTypes'
      BY <1>1, <1>2, <2>2, <2>3, <2>5, <2>6 DEF ThreadTypes, Others
    <2>8. FlagTypes'
      BY Zenon, <1>1, <1>9 DEF EndSkill, FlagTypes
    <2>9. LineTypes' /\ CountTypes'
      BY <1>1, <1>9 DEF EndSkill, LineTypes, CountTypes
    <2>10. QED
      BY <2>7, <2>8, <2>9
  <1>10. ASSUME NEW j \in Jobs, NEW w \in Workflows, StartWorkflow(j, w)
       PROVE  FlagTypes' /\ LineTypes' /\ CountTypes' /\ ThreadTypes'
    <2>1. clients[j] \in ClientType /\ clients[j].pc = "idle"
      BY <1>1, <1>2, <1>10 DEF StartWorkflow, ThreadTypes
    <2>2. [clients[j] EXCEPT !.pc = "next"] \in ClientType
      BY <2>1 DEF ClientType, ClientSteps
    <2>3. clients' = [clients EXCEPT ![j] = [clients[j] EXCEPT !.pc = "next"]]
      BY <1>1, <1>2, <1>10 DEF StartWorkflow, ThreadTypes
    <2>4. clients' \in [Clients -> ClientType] /\ clients'[j].pc = "next" /\ Others(j)
      BY <1>1, <1>2, <2>1, <2>2, <2>3, Moves DEF ThreadTypes, ClientType
    <2>5. FlagTypes'
      BY Zenon, <1>1, <1>10 DEF StartWorkflow, FlagTypes
    <2>6. LineTypes'
      BY <1>1, <1>10 DEF StartWorkflow, LineTypes
    <2>7. CountTypes'
      BY <1>1, <1>10 DEF StartWorkflow, CountTypes
    <2>8. ThreadTypes'
      BY <1>1, <1>2, <1>10, <2>4, ScriptsAreScripts DEF StartWorkflow, ThreadTypes, Others
    <2>9. QED
      BY <2>5, <2>6, <2>7, <2>8
  <1>11. \A m \in Orders : m.cmd \in Nat /\ [m EXCEPT !.step = "OK"] \in Orders
    BY DEF Orders
  <1>12. CASE Inform
    <2>1. modem[1].cmd \in Nat /\ Head(modem) = modem[1] /\ modem \in Seq(Orders)
      BY <1>1, <1>11, <1>12, TailFacts DEF Inform, LineTypes
    <2>2. "READY" \in Kinds /\ "NUMBER" \in Kinds
      BY DEF Kinds
    <2>3. rx' \in Seq(Lines)
      BY <1>12, <2>1, <2>2, DeliverFacts DEF Inform
    <2>4. [modem[1] EXCEPT !.step = "OK"] \in Orders
      BY <1>1, <1>11, <1>12, TailFacts DEF Inform, LineTypes
    <2>5. modem' = [modem EXCEPT ![1] = [modem[1] EXCEPT !.step = "OK"]]
      BY <1>12, <2>1 DEF Inform
    <2>6. modem' \in Seq(Orders)
      BY <1>12, <2>1, <2>4, <2>5, FirstReplaced DEF Inform
    <2>7. FlagTypes'
      BY Zenon, <1>1, <1>12 DEF Inform, FlagTypes
    <2>8. LineTypes' /\ CountTypes' /\ ThreadTypes'
      BY <1>1, <1>12, <2>3, <2>6 DEF Inform, LineTypes, CountTypes, ThreadTypes
    <2>9. QED
      BY <2>7, <2>8
  <1>13. CASE Accept
    <2>1. /\ modem[1].cmd \in Nat /\ modem[1] \in Orders /\ Head(modem) = modem[1]
          /\ Tail(modem) \in Seq(Orders)
      BY <1>1, <1>11, <1>13, TailFacts DEF Accept, LineTypes
    <2>2. "OK" \in Kinds /\ Deliver(modem[1].cmd, "OK")
      BY <1>13, <2>1 DEF Accept, Kinds
    <2>3. rx' \in Seq(Lines)
      BY <2>1, <2>2, DeliverFacts
    <2>4. LineTypes'
      BY <1>1, <1>13, <2>1, <2>3 DEF Accept, LineTypes
    <2>5. FlagTypes'
      BY Zenon, <1>1, <1>13 DEF Accept, FlagTypes
    <2>6. CountTypes' /\ ThreadTypes'
      BY <1>1, <1>13 DEF Accept, CountTypes, ThreadTypes
    <2>7. QED
      BY <2>4, <2>5, <2>6
  <1>14. CASE Refuse
    <2>1. /\ modem[1].cmd \in Nat /\ modem[1] \in Orders /\ Head(modem) = modem[1]
          /\ Tail(modem) \in Seq(Orders)
      BY <1>1, <1>11, <1>14, TailFacts DEF Refuse, LineTypes
    <2>2. "ERROR" \in Kinds /\ Deliver(modem[1].cmd, "ERROR")
      BY <1>14, <2>1 DEF Refuse, Kinds
    <2>3. rx' \in Seq(Lines)
      BY <2>1, <2>2, DeliverFacts
    <2>4. LineTypes'
      BY <1>1, <1>14, <2>1, <2>3 DEF Refuse, LineTypes
    <2>5. FlagTypes'
      BY Zenon, <1>1, <1>14 DEF Refuse, FlagTypes
    <2>6. CountTypes' /\ ThreadTypes'
      BY <1>1, <1>14 DEF Refuse, CountTypes, ThreadTypes
    <2>7. QED
      BY <2>4, <2>5, <2>6
  <1>15. CASE Lose
    <2>1. FlagTypes'
      BY Zenon, <1>1, <1>15 DEF Lose, FlagTypes
    <2>2. LineTypes'
      BY <1>1, <1>15, TailFacts DEF Lose, LineTypes
    <2>3. CountTypes'
      BY <1>1, <1>15 DEF Lose, CountTypes
    <2>4. ThreadTypes'
      BY <1>1, <1>15 DEF Lose, ThreadTypes
    <2>5. QED
      BY <2>1, <2>2, <2>3, <2>4
  <1>16. ASSUME NEW m \in network, NEW kind \in Texts, NetworkAnswers(m, kind)
       PROVE  FlagTypes' /\ LineTypes' /\ CountTypes' /\ ThreadTypes'
    <2>1. m.cmd \in Nat /\ kind \in Kinds
      BY <1>1, PayloadsAreKinds DEF LineTypes, Orders
    <2>2. rx' \in Seq(Lines)
      BY <2>1, <1>16, DeliverFacts DEF NetworkAnswers
    <2>3. FlagTypes'
      BY Zenon, <1>1, <1>16 DEF NetworkAnswers, FlagTypes
    <2>4. LineTypes'
      BY <1>1, <1>16, <2>2 DEF NetworkAnswers, LineTypes
    <2>5. CountTypes'
      BY <1>1, <1>16 DEF NetworkAnswers, CountTypes
    <2>6. ThreadTypes'
      BY <1>1, <1>16 DEF NetworkAnswers, ThreadTypes
    <2>7. QED
      BY <2>3, <2>4, <2>5, <2>6
  <1>17. CASE SwapSim
    <2>1. FlagTypes'
      BY Zenon, <1>1, <1>17 DEF SwapSim, FlagTypes
    <2>2. LineTypes'
      BY <1>1, <1>17 DEF SwapSim, LineTypes
    <2>3. CountTypes'
      BY <1>1, <1>17 DEF SwapSim, CountTypes
    <2>4. ThreadTypes'
      BY <1>1, <1>17 DEF SwapSim, ThreadTypes
    <2>5. QED
      BY <2>1, <2>2, <2>3, <2>4
  <1>18. CASE Close
    <2>1. FlagTypes'
      BY Zenon, <1>1, <1>18 DEF Close, FlagTypes
    <2>2. LineTypes'
      BY <1>1, <1>18 DEF Close, LineTypes
    <2>3. CountTypes'
      BY <1>1, <1>18 DEF Close, CountTypes
    <2>4. ThreadTypes'
      BY <1>1, <1>18 DEF Close, ThreadTypes
    <2>5. QED
      BY <2>1, <2>2, <2>3, <2>4
  <1>19. CASE UNCHANGED vars
    <2>1. FlagTypes'
      BY Zenon, <1>1, <1>19 DEF vars, FlagTypes
    <2>2. LineTypes'
      BY <1>1, <1>19 DEF vars, LineTypes
    <2>3. CountTypes'
      BY <1>1, <1>19 DEF vars, CountTypes
    <2>4. ThreadTypes'
      BY <1>1, <1>19 DEF vars, ThreadTypes
    <2>5. QED
      BY <2>1, <2>2, <2>3, <2>4
  <1>20. QED
    BY <1>3, <1>4, <1>5, <1>6, <1>7, <1>8, <1>9, <1>10, <1>12, <1>13, <1>14, <1>15,
       <1>16, <1>17, <1>18, <1>19 DEF Next, Receive, JobStep, Surroundings

(* TypeOK: every variable keeps its type, and a thread is under way as     *)
(* long as its workflow has skills left.                                   *)
THEOREM LinkTypeCorrect == Spec => []TypeOK
  <1>1. Init => TypeOK
    BY InitType
  <1>2. TypeOK /\ [Next]_vars => TypeOK'
    BY TypeStep
  <1>3. QED
    BY <1>1, <1>2, PTL DEF Spec

-----------------------------------------------------------------------------
(* A step of a poll, a skill or a workflow, neither a write nor a read.    *)

Flushed == rx' = <<>> /\ wasReady' = sim

Quiet(c) ==
  /\ clients' \in [Clients -> ClientType] /\ Others(c)
  /\ clients[c].pc # "read" /\ clients'[c].pc # "read"
  /\ \/ clients'[c].heard = {}
     \/ /\ clients'[c].pc # "wait" /\ c # Poller
        /\ clients'[c].heard = clients[c].heard /\ clients'[c].cmd = clients[c].cmd
  /\ \/ Flushed /\ c = Poller /\ clients'[c].heard = {}
     \/ rx' = rx /\ wasReady' = wasReady
  /\ UNCHANGED <<lock, modem, sim, stray>>

LEMMA PollIsQuiet == ASSUME TypeOK, Poll PROVE Quiet(Poller)
  <1>1. "wait" \in ClientSteps /\ "AT+CPIN?" \in Steps /\ Poller \in Clients
    BY DEF ClientSteps, Steps, Commands, Clients
  <1>2. clients' = [clients EXCEPT ![Poller] = [Idle EXCEPT !.pc = "wait", !.step = "AT+CPIN?"]]
    BY DEF Poll
  <1>3. /\ clients' \in [Clients -> ClientType] /\ Others(Poller)
        /\ clients'[Poller].pc = "wait" /\ clients'[Poller].heard = {}
    BY <1>1, <1>2, FreshMoves
  <1>4. Flushed /\ clients[Poller].pc = "idle" /\ UNCHANGED <<lock, modem, sim, stray>>
    BY Zenon DEF Poll, Flushed
  <1>5. QED
    BY <1>3, <1>4 DEF Quiet

LEMMA PollEndIsQuiet == ASSUME TypeOK, PollEnds PROVE Quiet(Poller)
  <1>1. Idle \in ClientType /\ Idle.pc = "idle" /\ Idle.heard = {} /\ Poller \in Clients
    BY DEF Idle, ClientType, ClientSteps, Steps, Commands, Clients
  <1>2. clients' = [clients EXCEPT ![Poller] = Idle]
    BY DEF PollEnds
  <1>3. clients' \in [Clients -> ClientType] /\ Others(Poller) /\ clients'[Poller] = Idle
    BY <1>1, <1>2, Moves DEF TypeOK
  <1>4. QED
    BY <1>1, <1>3 DEF PollEnds, Quiet

LEMMA BeginIsQuiet == ASSUME TypeOK, NEW j \in Jobs, BeginSkill(j) PROVE Quiet(j)
  <1> DEFINE step == Head(script[j])
             pc == IF step = "KK" THEN "parse" ELSE "wait"
  <1>1. script[j] # <<>> /\ script[j] \in Seq(Steps)
    BY DEF BeginSkill, TypeOK
  <1>2. step \in Steps /\ pc \in ClientSteps /\ pc # "read" /\ j \in Clients
    BY <1>1, TailFacts DEF ClientSteps, Clients
  <1>3. clients' = [clients EXCEPT ![j] = [Idle EXCEPT !.pc = pc, !.step = step]]
    BY DEF BeginSkill
  <1> HIDE DEF step, pc
  <1>4. /\ clients' \in [Clients -> ClientType] /\ Others(j)
        /\ clients'[j].pc = pc /\ clients'[j].heard = {}
    BY <1>2, <1>3, FreshMoves
  <1>5. QED
    BY <1>2, <1>4 DEF BeginSkill, Quiet

LEMMA EndIsQuiet == ASSUME TypeOK, NEW j \in Jobs, EndSkill(j) PROVE Quiet(j)
  <1>1. PICK pc \in {"idle", "next"} : clients' = [clients EXCEPT ![j] = [Idle EXCEPT !.pc = pc]]
    BY DEF EndSkill
  <1>2. pc \in ClientSteps /\ "AT" \in Steps /\ j \in Clients
    BY DEF ClientSteps, Steps, Commands, Clients
  <1>3. /\ clients' \in [Clients -> ClientType] /\ Others(j)
        /\ clients'[j].pc = pc /\ clients'[j].heard = {}
    BY <1>1, <1>2, FreshMoves
  <1>4. QED
    BY <1>3 DEF EndSkill, Quiet

LEMMA StartIsQuiet ==
  ASSUME TypeOK, NEW j \in Jobs, NEW w \in Workflows, StartWorkflow(j, w)
  PROVE  Quiet(j)
  <1> DEFINE r == [clients[j] EXCEPT !.pc = "next"]
  <1>1. j \in Clients /\ j # Poller /\ clients \in [Clients -> ClientType]
    BY LinkAssumption DEF Clients, TypeOK
  <1>2. clients' = [clients EXCEPT ![j] = r]
    BY <1>1 DEF StartWorkflow
  <1>3. /\ r \in ClientType /\ r.pc = "next"
        /\ r.heard = clients[j].heard /\ r.cmd = clients[j].cmd
    BY <1>1 DEF ClientType, ClientSteps
  <1> HIDE DEF r
  <1>4. clients' \in [Clients -> ClientType] /\ clients'[j] = r /\ Others(j)
    BY <1>1, <1>2, <1>3, Moves
  <1>5. QED
    BY <1>1, <1>3, <1>4 DEF StartWorkflow, Quiet

(* Every step is one of five kinds.                                        *)
LEMMA KindsOfStep ==
  ASSUME TypeOK, [Next]_vars
  PROVE  \/ \E c \in Clients : Send(c) \/ ReadLine(c) \/ TimesOut(c) \/ Quiet(c)
         \/ Surroundings
         \/ UNCHANGED vars
  <1>1. Poller \in Clients /\ Jobs \subseteq Clients
    BY DEF Clients
  <1>2. QED
    BY <1>1, PollIsQuiet, PollEndIsQuiet, BeginIsQuiet, EndIsQuiet, StartIsQuiet
    DEF Next, Receive, JobStep

LEMMA SurroundingsLeave == ASSUME Surroundings PROVE UNCHANGED <<lock, clients>>
  BY DEF Surroundings, Inform, Accept, Refuse, Lose, NetworkAnswers, SwapSim, Close

-----------------------------------------------------------------------------
(* The lock.                                                               *)

LEMMA LockStep ==
  ASSUME TypeOK, ReaderHasLock, WaiterHeardNothing, [Next]_vars
  PROVE  ReaderHasLock' /\ WaiterHeardNothing'
  <1>1. Nobody \notin Clients
    BY LinkAssumption
  <1>2. ASSUME NEW c \in Clients, Send(c) PROVE ReaderHasLock' /\ WaiterHeardNothing'
    <2>1. CASE open
      BY <1>1, <1>2, <2>1, SendMoves DEF Send, ReaderHasLock, WaiterHeardNothing, Others
    <2>2. CASE ~open
      BY <1>1, <1>2, <2>2, SendMoves DEF Send, ReaderHasLock, WaiterHeardNothing, Others
    <2>3. QED
      BY <2>1, <2>2
  <1>3. ASSUME NEW c \in Clients, ReadLine(c) PROVE ReaderHasLock' /\ WaiterHeardNothing'
    <2>1. lock = c /\ Head(rx) = rx[1]
      BY <1>3, TailFacts DEF ReadLine, ReaderHasLock, TypeOK
    <2>2. lock' = (IF Ends(rx[1]) THEN Nobody ELSE c)
      BY <1>3, <2>1 DEF ReadLine
    <2>3. /\ Others(c) /\ clients'[c].pc = (IF Ends(rx[1]) THEN "parse" ELSE "read")
      BY <1>3, ReadMoves
    <2>4. QED
      BY <1>1, <2>1, <2>2, <2>3 DEF ReaderHasLock, WaiterHeardNothing, Others
  <1>4. ASSUME NEW c \in Clients, TimesOut(c) PROVE ReaderHasLock' /\ WaiterHeardNothing'
    BY <1>1, <1>4, TimeOutMoves DEF TimesOut, ReaderHasLock, WaiterHeardNothing, Others
  <1>5. ASSUME NEW c \in Clients, Quiet(c) PROVE ReaderHasLock' /\ WaiterHeardNothing'
    BY <1>5 DEF Quiet, ReaderHasLock, WaiterHeardNothing, Others
  <1>6. CASE Surroundings
    BY <1>6, SurroundingsLeave DEF ReaderHasLock, WaiterHeardNothing
  <1>7. CASE UNCHANGED vars
    BY <1>7 DEF vars, ReaderHasLock, WaiterHeardNothing
  <1>8. QED
    BY <1>2, <1>3, <1>4, <1>5, <1>6, <1>7, KindsOfStep

-----------------------------------------------------------------------------
(* READY lines.                                                            *)

LEMMA ReadyStep ==
  ASSUME TypeOK, ReadyIsTrue, [Next]_vars
  PROVE  ReadyIsTrue'
  <1>1. ASSUME NEW c \in Clients, Send(c) PROVE ReadyIsTrue'
    <2>1. clients'[Poller].heard = clients[Poller].heard
      BY <1>1, SendMoves DEF Others, Clients
    <2>2. UNCHANGED <<rx, sim, wasReady>>
      BY <1>1 DEF Send
    <2>3. QED
      BY <2>1, <2>2 DEF ReadyIsTrue
  <1>2. ASSUME NEW c \in Clients, ReadLine(c) PROVE ReadyIsTrue'
    <2>1. /\ rx' = Tail(rx) /\ UNCHANGED <<sim, wasReady>>
          /\ 1 \in 1..Len(rx)
          /\ \A i \in 1..Len(rx') : i + 1 \in 1..Len(rx) /\ rx'[i] = rx[i + 1]
      BY <1>2, TailFacts DEF ReadLine, TypeOK
    <2>2. clients'[Poller].heard \subseteq clients[Poller].heard \cup {rx[1]}
      BY <1>2, ReadMoves DEF Others, Clients
    <2>3. QED
      BY <2>1, <2>2 DEF ReadyIsTrue
  <1>3. ASSUME NEW c \in Clients, TimesOut(c) PROVE ReadyIsTrue'
    <2>1. clients'[Poller].heard = clients[Poller].heard
      BY <1>3, TimeOutMoves DEF Others, Clients
    <2>2. UNCHANGED <<rx, sim, wasReady>>
      BY <1>3 DEF TimesOut
    <2>3. QED
      BY <2>1, <2>2 DEF ReadyIsTrue
  <1>4. ASSUME NEW c \in Clients, Quiet(c) PROVE ReadyIsTrue'
    <2>1. CASE Flushed /\ c = Poller /\ clients'[c].heard = {}
      BY <1>4, <2>1 DEF Quiet, Flushed, ReadyIsTrue
    <2>2. CASE rx' = rx /\ wasReady' = wasReady
      <3>1. clients'[Poller].heard = clients[Poller].heard \/ clients'[Poller].heard = {}
        BY <1>4 DEF Quiet, Others, Clients
      <3>2. sim' = sim
        BY <1>4 DEF Quiet
      <3>3. QED
        BY <2>2, <3>1, <3>2 DEF ReadyIsTrue
    <2>3. QED
      BY <1>4, <2>1, <2>2 DEF Quiet
  <1>5. ASSUME NEW cmd \in Nat, NEW kind \in Kinds, Deliver(cmd, kind),
               kind = "READY" => sim, UNCHANGED <<clients, sim, wasReady>>
        PROVE  ReadyIsTrue'
    <2>1. /\ Len(rx) \in Nat
          /\ \A i \in 1..Len(rx') :
               \/ i \in 1..Len(rx) /\ rx'[i] = rx[i]
               \/ i = Len(rx) + 1 /\ rx'[i] = [cmd |-> cmd, kind |-> kind]
      BY <1>5, DeliverFacts DEF TypeOK
    <2>2. \A i \in 1..Len(rx') : rx'[i].kind = "READY" => wasReady'
      BY <1>5, <2>1 DEF ReadyIsTrue
    <2>3. QED
      BY <1>5, <2>2 DEF ReadyIsTrue
  <1>6. \A i \in 1..Len(modem) : modem[i].cmd \in Nat
    <2>1. \A i \in 1..Len(modem) : modem[i] \in Orders
      BY DEF TypeOK
    <2>2. QED
      BY <2>1 DEF Orders
  <1>7. modem # <<>> => Head(modem) = modem[1] /\ modem[1].cmd \in Nat
    BY <1>6, TailFacts DEF TypeOK
  <1>8. /\ "READY" \in Kinds /\ "NUMBER" \in Kinds /\ "OK" \in Kinds /\ "ERROR" \in Kinds
        /\ Payloads \subseteq Kinds /\ "READY" \notin Payloads
    BY DEF Kinds, Payloads
  <1>9. CASE Inform
    BY <1>5, <1>7, <1>8, <1>9 DEF Inform
  <1>10. CASE Accept
    BY <1>5, <1>7, <1>8, <1>10 DEF Accept
  <1>11. CASE Refuse
    BY <1>5, <1>7, <1>8, <1>11 DEF Refuse
  <1>12. CASE Lose
    BY <1>12 DEF Lose, ReadyIsTrue
  <1>13. ASSUME NEW m \in network, NEW kind \in Texts, NetworkAnswers(m, kind)
         PROVE  ReadyIsTrue'
    <2>1. m.cmd \in Nat
      <3>1. m \in Orders
        BY DEF TypeOK
      <3>2. QED
        BY <3>1 DEF Orders
    <2>2. kind \in Kinds /\ kind # "READY"
      BY <1>8, PayloadsAreKinds
    <2>3. QED
      BY <1>5, <1>13, <2>1, <2>2 DEF NetworkAnswers
  <1>14. CASE SwapSim
    BY <1>14 DEF SwapSim, ReadyIsTrue
  <1>15. CASE Close
    BY <1>15 DEF Close, ReadyIsTrue
  <1>16. CASE UNCHANGED vars
    BY <1>16 DEF vars, ReadyIsTrue
  <1>17. QED
    BY <1>1, <1>2, <1>3, <1>4, <1>9, <1>10, <1>11, <1>12, <1>13, <1>14, <1>15, <1>16,
       KindsOfStep DEF Surroundings

-----------------------------------------------------------------------------
(* Answers in step.                                                        *)

LEMMA OrderFacts ==
  ASSUME InStep
  PROVE  /\ Len(modem) \in {0, 1}
         /\ Len(modem) = 1 => lock # Nobody /\ modem[1].cmd = clients[lock].cmd
  BY Zenon DEF InStep, OrderOwned

(* The modem's line for the one command it works on.                       *)
LEMMA AnsweredInStep ==
  ASSUME TypeOK, InStep, modem # <<>>, UNCHANGED <<lock, clients>>,
         NEW kind \in Kinds, kind # "TEXT+OK", Deliver(modem[1].cmd, kind),
         modem' \in Seq(Orders),
         \/ Len(modem') = 0
         \/ /\ kind \notin {"OK", "ERROR"} /\ Len(modem') = 1
            /\ modem'[1].cmd = modem[1].cmd
  PROVE  InStep'
  <1>1. /\ Len(modem) = 1 /\ lock # Nobody
        /\ modem[1].cmd = clients[lock].cmd /\ modem[1].cmd \in Nat
    <2>1. modem \in Seq(Orders)
      BY DEF TypeOK
    <2>2. Len(modem) \in Nat \ {0} /\ modem[1] \in Orders
      BY <2>1, TailFacts
    <2>3. modem[1].cmd \in Nat
      BY <2>2 DEF Orders
    <2>4. Len(modem) \in {0, 1}
      BY Zenon, OrderFacts
    <2>5. Len(modem) = 1
      BY <2>2, <2>4
    <2>6. QED
      BY Zenon, <2>3, <2>5, OrderFacts
  <1>2. rx \in Seq(Lines)
    BY DEF TypeOK
  <1>3. /\ Len(rx) \in Nat /\ Len(rx') \in Nat /\ Len(rx') <= Len(rx) + 1
        /\ \A i \in 1..Len(rx') :
             \/ i \in 1..Len(rx) /\ rx'[i] = rx[i]
             \/ i = Len(rx) + 1 /\ rx'[i] = [cmd |-> modem[1].cmd, kind |-> kind]
    <2>1. rx' \in Seq(Lines)
      BY <1>1, DeliverFacts
    <2>2. Len(rx) \in Nat /\ Len(rx') \in Nat
      BY <1>2, <2>1
    <2>3. QED
      BY <1>1, <2>2, DeliverFacts
  <1>4. \A i \in 1..Len(rx) : ~Ends(rx[i])
    BY <1>1 DEF InStep, OneEnd
  <1>5. LinesOwned'
    BY <1>1, <1>3 DEF InStep, LinesOwned
  <1>6. OrderOwned'
    BY <1>1 DEF InStep, OrderOwned
  <1>7. OneEnd'
    <2>1. ASSUME NEW i \in 1..Len(rx'), Ends(rx'[i])
          PROVE  i = Len(rx) + 1 /\ kind \in {"OK", "ERROR"}
      BY <1>3, <1>4, <2>1 DEF Ends
    <2>2. QED
      BY <1>3, <2>1 DEF OneEnd, Ends
  <1>8. HeardOwned'
    BY DEF InStep, HeardOwned
  <1>9. QED
    BY <1>5, <1>6, <1>7, <1>8 DEF InStep

LEMMA SendInStep ==
  ASSUME TypeOK, ReaderHasLock, WaiterHeardNothing, InStep, NEW c \in Clients, Send(c)
  PROVE  InStep'
  <1>1. lock = Nobody /\ clients[c].pc = "wait" /\ rx' = rx /\ Nobody \notin Clients
    BY LinkAssumption DEF Send
  <1>2. Len(modem) = 0 /\ modem \in Seq(Orders)
    <2>1. modem \in Seq(Orders) /\ Len(modem) \in Nat
      BY DEF TypeOK
    <2>2. Len(modem) # 1 /\ Len(modem) \in {0, 1}
      BY <1>1, OrderFacts
    <2>3. QED
      BY <2>1, <2>2
  <1>3. \A i \in 1..Len(rx) : rx[i].kind \in Payloads /\ rx[i].kind # "TEXT+OK"
    BY <1>1 DEF InStep, LinesOwned
  <1>4. LinesOwned'
    BY <1>1, <1>3 DEF LinesOwned
  <1>5. OneEnd'
    BY <1>1, <1>3 DEF OneEnd, Ends, Payloads
  <1>6. OrderOwned'
    <2>1. CASE open
      <3>1. /\ lock' = c /\ clients'[c].cmd = sent + 1
            /\ modem' = Append(modem, [cmd |-> sent + 1, step |-> clients[c].step])
        BY <2>1, SendMoves DEF Send
      <3>2. Len(modem') = 1 /\ modem'[1] = [cmd |-> sent + 1, step |-> clients[c].step]
        BY <1>2, <3>1
      <3>3. QED
        BY <1>1, <3>1, <3>2 DEF OrderOwned
    <2>2. CASE ~open
      BY <1>2, <2>2 DEF Send, OrderOwned
    <2>3. QED
      BY <2>1, <2>2
  <1>7. HeardOwned'
    <2>1. clients'[c].heard = {} /\ Others(c)
      BY <1>1, SendMoves DEF WaiterHeardNothing
    <2>2. QED
      BY <2>1 DEF InStep, HeardOwned, Others
  <1>8. QED
    BY <1>4, <1>5, <1>6, <1>7 DEF InStep

LEMMA ReadInStep ==
  ASSUME TypeOK, ReaderHasLock, InStep, NEW c \in Clients, ReadLine(c)
  PROVE  InStep'
  <1>1. lock = c /\ c # Nobody /\ modem' = modem
    BY LinkAssumption DEF ReadLine, ReaderHasLock
  <1>2. /\ rx' = Tail(rx) /\ Head(rx) = rx[1] /\ Len(rx) \in Nat \ {0} /\ Len(rx') = Len(rx) - 1
        /\ \A i \in 1..Len(rx') : i + 1 \in 1..Len(rx) /\ rx'[i] = rx[i + 1]
    BY TailFacts DEF ReadLine, TypeOK
  <1>3. lock' = IF Ends(rx[1]) THEN Nobody ELSE c
    BY <1>1, <1>2 DEF ReadLine
  <1>4. /\ Others(c) /\ clients'[c].heard = clients[c].heard \cup {rx[1]}
        /\ clients'[c].cmd = clients[c].cmd
    BY ReadMoves
  <1>5. HeardOwned'
    BY <1>1, <1>2, <1>4 DEF InStep, HeardOwned, LinesOwned, Others
  <1>6. CASE Ends(rx[1])
    <2>1. Len(modem) = 0
      BY <1>2, <1>6 DEF InStep, OneEnd
    <2>2. \A i \in 1..Len(rx') : rx'[i].kind \in Payloads /\ rx'[i].kind # "TEXT+OK"
      BY <1>2, <1>6 DEF InStep, OneEnd, LinesOwned
    <2>3. LinesOwned' /\ OrderOwned' /\ OneEnd'
      BY <1>1, <2>1, <2>2 DEF LinesOwned, OrderOwned, OneEnd, Ends, Payloads
    <2>4. QED
      BY <1>5, <2>3 DEF InStep
  <1>7. CASE ~Ends(rx[1])
    <2>1. lock' = c
      BY <1>3, <1>7
    <2>2. LinesOwned' /\ OrderOwned'
      BY <1>1, <1>2, <1>4, <2>1 DEF InStep, LinesOwned, OrderOwned
    <2>3. OneEnd'
      BY <1>1, <1>2 DEF InStep, OneEnd
    <2>4. QED
      BY <1>5, <2>2, <2>3 DEF InStep
  <1>8. QED
    BY <1>6, <1>7

LEMMA QuietInStep ==
  ASSUME TypeOK, ReaderHasLock, InStep, NEW c \in Clients, Quiet(c)
  PROVE  InStep'
  <1>1. UNCHANGED <<lock, modem>> /\ (rx' = rx \/ rx' = <<>>) /\ lock # c /\ Others(c)
    BY DEF Quiet, Flushed, ReaderHasLock
  <1>2. lock # Nobody => lock \in Clients /\ clients'[lock] = clients[lock]
    BY <1>1 DEF Others, TypeOK
  <1>3. LinesOwned' /\ OrderOwned' /\ OneEnd'
    BY <1>1, <1>2 DEF InStep, LinesOwned, OrderOwned, OneEnd
  <1>4. HeardOwned'
    BY <1>1 DEF Quiet, InStep, HeardOwned, Others
  <1>5. QED
    BY <1>3, <1>4 DEF InStep

LEMMA SurroundingsInStep ==
  ASSUME TypeOK, InStep, Surroundings, ~stray'
  PROVE  InStep'
  <1>1. UNCHANGED <<lock, clients>>
    BY SurroundingsLeave
  <1>2. modem \in Seq(Orders)
    BY DEF TypeOK
  <1>3. ASSUME modem # <<>>
        PROVE  /\ Head(modem) = modem[1] /\ Len(modem) = 1 /\ Tail(modem) \in Seq(Orders)
               /\ Len(Tail(modem)) = 0 /\ modem[1] \in Orders
    <2>1. Len(modem) \in Nat \ {0} /\ Len(modem) \in {0, 1}
      BY <1>2, <1>3, TailFacts DEF InStep, OrderOwned
    <2>2. Len(modem) = 1
      BY <2>1
    <2>3. QED
      BY <1>2, <1>3, <2>2, TailFacts
  <1>4. /\ "READY" \in Kinds /\ "NUMBER" \in Kinds /\ "OK" \in Kinds /\ "ERROR" \in Kinds
    BY DEF Kinds
  <1>5. CASE Inform
    <2>1. PICK kind \in {"READY", "NUMBER"} : Deliver(modem[1].cmd, kind)
      BY <1>3, <1>5 DEF Inform
    <2> DEFINE m == [modem[1] EXCEPT !.step = "OK"]
    <2>2. m \in Orders /\ m.cmd = modem[1].cmd
      BY <1>3, <1>5 DEF Orders, Inform
    <2>3. modem' = [modem EXCEPT ![1] = m]
      BY <1>2, <1>3, <1>5 DEF Inform
    <2> HIDE DEF m
    <2>4. modem' \in Seq(Orders) /\ Len(modem') = 1 /\ modem'[1] = m
      BY <1>2, <1>3, <1>5, <2>2, <2>3, FirstReplaced DEF Inform
    <2>5. QED
      BY <1>1, <1>4, <1>5, <2>1, <2>2, <2>4, AnsweredInStep DEF Inform
  <1>6. CASE Accept
    BY <1>1, <1>3, <1>4, <1>6, AnsweredInStep DEF Accept
  <1>7. CASE Refuse
    BY <1>1, <1>3, <1>4, <1>7, AnsweredInStep DEF Refuse
  <1>8. CASE Lose
    BY <1>1, <1>3, <1>8 DEF Lose, InStep, LinesOwned, OrderOwned, OneEnd, HeardOwned
  <1>9. ASSUME NEW m \in network, NEW kind \in Texts, NetworkAnswers(m, kind)
        PROVE  InStep'
    <2>1. m.cmd \in Nat
      <3>1. m \in Orders
        BY DEF TypeOK
      <3>2. QED
        BY <3>1 DEF Orders
    <2>2. kind \in Payloads /\ kind # "TEXT+OK" /\ kind \in Kinds
      BY <1>9, PayloadsAreKinds DEF NetworkAnswers
    <2>3. /\ Len(rx) \in Nat /\ Len(rx') \in Nat /\ Len(rx') <= Len(rx) + 1
          /\ \A i \in 1..Len(rx') :
               \/ i \in 1..Len(rx) /\ rx'[i] = rx[i]
               \/ i = Len(rx) + 1 /\ rx'[i] = [cmd |-> m.cmd, kind |-> kind]
      <3>1. Deliver(m.cmd, kind)
        BY <1>9 DEF NetworkAnswers
      <3>2. rx' \in Seq(Lines) /\ rx \in Seq(Lines)
        BY <2>1, <2>2, <3>1, DeliverFacts DEF TypeOK
      <3>3. Len(rx) \in Nat /\ Len(rx') \in Nat
        BY <3>2
      <3>4. QED
        BY <2>1, <2>2, <3>1, <3>3, DeliverFacts
    <2>4. modem' = modem
      BY <1>9 DEF NetworkAnswers
    <2>5. LinesOwned'
      BY <1>1, <2>2, <2>3 DEF InStep, LinesOwned
    <2>6. OneEnd'
      BY <2>2, <2>3, <2>4 DEF InStep, OneEnd, Ends, Payloads
    <2>7. QED
      BY <1>1, <2>4, <2>5, <2>6 DEF InStep, OrderOwned, HeardOwned
  <1>10. CASE SwapSim
    BY <1>10 DEF SwapSim, InStep, LinesOwned, OrderOwned, OneEnd, HeardOwned
  <1>11. CASE Close
    BY <1>11 DEF Close, InStep, LinesOwned, OrderOwned, OneEnd, HeardOwned
  <1>12. QED
    BY <1>5, <1>6, <1>7, <1>8, <1>9, <1>10, <1>11 DEF Surroundings

-----------------------------------------------------------------------------
(* The invariant and what it gives.                                        *)

LEMMA StrayStays == ASSUME TypeOK, [Next]_vars, ~stray' PROVE ~stray
  BY Zenon DEF Next, vars, Send, Receive, ReadLine, TimesOut, Poll, PollEnds, JobStep, BeginSkill,
     EndSkill, StartWorkflow, Surroundings, Inform, Accept, Refuse, Lose, NetworkAnswers,
     SwapSim, Close

LEMMA InitLink == ASSUME Init PROVE LinkInv
  <1>1. \A c \in Clients : clients[c].pc = "idle" /\ clients[c].heard = {}
    BY DEF Init, Idle
  <1>2. Nobody \notin Clients /\ Poller \in Clients /\ Len(rx) = 0 /\ Len(modem) = 0
    BY LinkAssumption DEF Init, Clients
  <1>3. ReaderHasLock /\ WaiterHeardNothing
    BY <1>1, <1>2 DEF Init, ReaderHasLock, WaiterHeardNothing
  <1>4. sim => wasReady
    BY Zenon DEF Init
  <1>5. ReadyIsTrue
    BY <1>1, <1>2, <1>4 DEF ReadyIsTrue
  <1>6. InStep
    BY <1>1, <1>2 DEF InStep, LinesOwned, OrderOwned, OneEnd, HeardOwned
  <1>7. QED
    BY <1>3, <1>5, <1>6, InitType DEF LinkInv

LEMMA LinkStep == ASSUME LinkInv, [Next]_vars PROVE LinkInv'
  <1>1. TypeOK'
    BY TypeStep DEF LinkInv
  <1>2. ReaderHasLock' /\ WaiterHeardNothing'
    BY LockStep DEF LinkInv
  <1>3. ReadyIsTrue'
    BY ReadyStep DEF LinkInv
  <1>4. ASSUME ~stray' PROVE InStep'
    <2>1. InStep /\ TypeOK /\ ReaderHasLock /\ WaiterHeardNothing
      BY <1>4, StrayStays DEF LinkInv
    <2>2. ASSUME NEW c \in Clients, TimesOut(c) PROVE FALSE
      BY <1>4, <2>2 DEF TimesOut
    <2>3. CASE UNCHANGED vars
      BY <2>1, <2>3 DEF vars, InStep, LinesOwned, OrderOwned, OneEnd, HeardOwned
    <2>4. QED
      BY <1>4, <2>1, <2>2, <2>3, KindsOfStep, SendInStep, ReadInStep, QuietInStep,
         SurroundingsInStep
  <1>5. QED
    BY <1>1, <1>2, <1>3, <1>4 DEF LinkInv

LEMMA LinkInvariant == Spec => []LinkInv
  BY InitLink, LinkStep, PTL DEF Spec

(* PollIsFresh: a poll that hears READY, in whatever line, tells of a SIM  *)
(* that was usable after the poll began.                                   *)
THEOREM FreshCorrect == Spec => []PollIsFresh
  <1>1. LinkInv => PollIsFresh
    BY DEF LinkInv, ReadyIsTrue, PollIsFresh, Says
  <1>2. QED
    BY <1>1, LinkInvariant, PTL

(* AnswersInStep: until a command has timed out or a text contained OK,    *)
(* whoever has heard anything but texts has heard its own answer.          *)
THEOREM AnswersCorrect == Spec => []AnswersInStep
  <1>1. LinkInv => AnswersInStep
    BY DEF LinkInv, InStep, HeardOwned, AnswersInStep
  <1>2. QED
    BY <1>1, LinkInvariant, PTL

===============================================================================
