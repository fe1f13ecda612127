-------------------------------- MODULE KebunDial -------------------------------
(***************************************************************************)
(* The serial port of a worker of GOOD: send_ussd with its fence, its read *)
(* loop and its grace read, and the poll of the SIM, which take turns on   *)
(* one thread.  A text of the network does not say which dial it answers,  *)
(* and it may come long after that dial was given up.                      *)
(*                                                                         *)
(* Dials and polls are exchanges and are numbered; what the modem sends is *)
(* a line, known by what the parsers make of it and by the exchange it     *)
(* belongs to.  A text may arrive in two halves.  Waits (quiet periods,    *)
(* deadlines) end at any time that the lines on the way allow.             *)
(***************************************************************************)
EXTENDS Integers, Sequences

CONSTANTS
  FenceLines,    \* how many lines keep a fence from being quiet until its
                 \* deadline (one in each 0.25 s of 3 s in the code)
  MaxExchanges,  \* bound: dials and polls
  MaxLines       \* bound: lines that the modem sends

ASSUME DialAssumption ==
  FenceLines \in Nat \ {0} /\ MaxExchanges \in Nat /\ MaxLines \in Nat

(* Lines: a quoted text, one that speaks of a PIN, the halves of a text, an *)
(* empty text, +CUSD without a text, an operator's menu, +CME ERROR, OK,   *)
(* and the two answers to AT+CPIN?.                                        *)
NetworkKinds == {"text", "pin", "open", "empty", "status", "prompt", "error"}
Kinds == NetworkKinds \cup {"close", "ok", "READY", "gone"}
Exchanges == 1 .. MaxExchanges
Lines == [kind : Kinds, of : Exchanges]

(* The lines that a text is made of or ended by, and those that tell a     *)
(* state of the SIM.                                                       *)
Quoted == {"text", "pin", "empty", "open", "close"}
Telling == {"READY", "gone", "pin"}

DialSteps == {"fence", "write", "read", "empty", "grace", "menu"}

(* What a dial returns and what a poll finds.                              *)
Verdicts == {"READY", "NOT_INSERTED", "PIN_REQUIRED", "UNKNOWN"}
Outcomes == {"text", "empty", "status", "prompt", "partial", "error", "timeout"}

VARIABLES
  pc,       \* the thread: idle, a step of a dial, or a poll
  exchange, \* the exchange under way, or the last one
  rx,       \* the input buffer of the port
  heard,    \* what the exchange has read
  result,   \* what the last exchange returned
  dials,    \* dials that the network may still answer
  polls,    \* polls that the modem may still answer
  half,     \* the text whose second half comes next, 0 if none
  sim,      \* a SIM is in
  conditions, \* history: the values of sim since the poll began
  noise,    \* history: how many lines the modem has sent in this fence
  late,     \* history: what lines of earlier exchanges the modem has sent
            \* since the fence, or since the poll emptied the buffer
  lines     \* how many lines the modem has sent

modem == <<dials, polls, half, sim, lines>>
past == <<conditions, noise, late>>
vars == <<pc, exchange, rx, heard, result, modem, past>>

-----------------------------------------------------------------------------
(* What the parsers make of the lines that were read.                      *)

Has(kind, h) == \E i \in DOMAIN h : h[i].kind = kind

(* The rest of a text ends the quotation that its first half opened; so     *)
(* does any other quoted text that comes first.                            *)
Closing(h, i) ==
  \E j \in 1 .. i - 1 :
    /\ h[j].kind = "open"
    /\ \A k \in j + 1 .. i - 1 : h[k].kind \notin Quoted

(* A quoted payload: a text, or an opened one that was closed.             *)
IsPayload(h, i) ==
  /\ ~Closing(h, i)
  /\ \/ h[i].kind \in {"text", "pin", "empty"}
     \/ h[i].kind = "open" /\ \E j \in DOMAIN h : j > i /\ h[j].kind \in Quoted

(* extract_ussd_payload: the last payload counts.                          *)
IsLast(h, i) ==
  IsPayload(h, i) /\ \A j \in DOMAIN h : IsPayload(h, j) => j <= i

NoPayload(h) == \A i \in DOMAIN h : ~IsPayload(h, i)

(* has_incomplete_ussd_payload                                             *)
Incomplete(h) ==
  \E i \in DOMAIN h :
    /\ h[i].kind = "open"
    /\ \A j \in DOMAIN h : j > i => h[j].kind \notin Quoted

(* extract_ussd_status_only, for lines without a payload: the last +CUSD.  *)
StatusOnly(h) ==
  \E i \in DOMAIN h :
    h[i].kind = "status" /\ \A j \in DOMAIN h : j > i => h[j].kind # "open"

(* classify_ussd_response without a payload, in the order of its tests; OK, *)
(* an echo, a notification and nothing at all end alike.                   *)
WithoutPayload(h) ==
  IF StatusOnly(h) THEN "status"
  ELSE IF Incomplete(h) THEN "partial"
  ELSE IF Has("prompt", h) THEN "prompt"
  ELSE IF Has("error", h) \/ Has("gone", h) THEN "error"
  ELSE "timeout"

(* _extract_cpin_state, which looks at texts of the network too.           *)
CpinState(h) ==
  IF Has("READY", h) THEN "READY"
  ELSE IF Has("pin", h) THEN "PIN_REQUIRED"
  ELSE IF Has("gone", h) THEN "NOT_INSERTED"
  ELSE "UNKNOWN"

-----------------------------------------------------------------------------
Nothing == [kind |-> "timeout", of |-> 0, asked |-> 0, late |-> {}]

Init ==
  /\ pc = "idle" /\ exchange = 0
  /\ rx = <<>> /\ heard = <<>>
  /\ result = Nothing
  /\ dials = {} /\ polls = {} /\ half = 0
  /\ sim \in BOOLEAN /\ conditions = {sim}
  /\ noise = 0 /\ late = {}
  /\ lines = 0

-----------------------------------------------------------------------------
(* send_ussd.                                                              *)

Returned(kind, of) ==
  result' = [kind |-> kind, of |-> of, asked |-> exchange, late |-> late]

(* The session before is cancelled; its answer may come all the same.      *)
Dial ==
  /\ pc = "idle" /\ exchange < MaxExchanges
  /\ exchange' = exchange + 1
  /\ pc' = "fence"
  /\ noise' = 0
  /\ UNCHANGED <<rx, heard, result, modem, conditions, late>>

(* What comes during the fence is thrown away.                             *)
Discard ==
  /\ pc = "fence" /\ rx # <<>>
  /\ rx' = <<>>
  /\ UNCHANGED <<pc, exchange, heard, result, modem, past>>

(* Mutant of FenceQuiet: the fence lasts its least time and no longer.     *)
FenceShort ==
  /\ pc = "fence"
  /\ pc' = "write"
  /\ late' = {}
  /\ UNCHANGED <<exchange, rx, heard, result, modem, conditions, noise>>

(* Nothing has come for a while.                                           *)
FenceQuiet ==
  /\ pc = "fence" /\ rx = <<>>
  /\ pc' = "write"
  /\ late' = {}
  /\ UNCHANGED <<exchange, rx, heard, result, modem, conditions, noise>>

(* The deadline of the fence, which is met only by a modem that has not    *)
(* stopped sending: any line may be the next.                              *)
FenceExpires ==
  /\ pc = "fence" /\ noise >= FenceLines
  /\ pc' = "write"
  /\ late' = Kinds
  /\ UNCHANGED <<exchange, rx, heard, result, modem, conditions, noise>>

(* The dial is sent.                                                       *)
Write ==
  /\ pc = "write"
  /\ pc' = "read"
  /\ heard' = <<>>
  /\ dials' = dials \cup {exchange}
  /\ UNCHANGED <<exchange, rx, result, polls, half, sim, lines, past>>

(* The port fails while the cancellation or the dial is written.           *)
WriteFails ==
  /\ pc \in {"fence", "write"}
  /\ pc' = "idle"
  /\ Returned("timeout", 0)
  /\ UNCHANGED <<exchange, rx, heard, modem, past>>

Read ==
  /\ pc \in {"read", "grace", "poll"} /\ rx # <<>>
  /\ heard' = heard \o rx
  /\ rx' = <<>>
  /\ UNCHANGED <<pc, exchange, result, modem, past>>

(* The read loop ends when an answer is complete and nothing follows, or   *)
(* after 20 s.                                                             *)
ReadsText ==
  /\ pc = "read"
  /\ \E i \in DOMAIN heard :
       /\ IsLast(heard, i) /\ heard[i].kind # "empty"
       /\ Returned("text", heard[i].of)
  /\ pc' = "idle"
  /\ UNCHANGED <<exchange, rx, heard, modem, past>>

ReadsEmpty ==
  /\ pc = "read"
  /\ \E i \in DOMAIN heard : IsLast(heard, i) /\ heard[i].kind = "empty"
  /\ pc' = "empty"
  /\ UNCHANGED <<exchange, rx, heard, result, modem, past>>

ReadsNoText ==
  /\ pc = "read" /\ NoPayload(heard)
  /\ Returned(WithoutPayload(heard), 0)
  /\ pc' = IF WithoutPayload(heard) = "prompt" THEN "menu" ELSE "idle"
  /\ UNCHANGED <<exchange, rx, heard, modem, past>>

(* _recover_from_prompt: the session is cancelled, the buffer emptied.     *)
LeaveMenu ==
  /\ pc = "menu"
  /\ rx' = <<>>
  /\ pc' = "idle"
  /\ UNCHANGED <<exchange, heard, result, modem, past>>

(* After an empty text another one is waited for; what has come before     *)
(* that wait is thrown away.                                               *)
BeginGrace ==
  /\ pc = "empty"
  /\ rx' = <<>>
  /\ pc' = "grace"
  /\ UNCHANGED <<exchange, heard, result, modem, past>>

EndGrace ==
  /\ pc = "grace"
  /\ \E i \in DOMAIN heard :
       /\ IsLast(heard, i)
       /\ IF heard[i].kind = "empty" THEN Returned("empty", 0)
          ELSE Returned("text", heard[i].of)
  /\ pc' = "idle"
  /\ UNCHANGED <<exchange, rx, heard, modem, past>>

-----------------------------------------------------------------------------
(* The poll of the SIM.                                                    *)

(* Mutant of Poll: the buffer is not emptied first.                        *)
PollUnflushed ==
  /\ pc = "idle" /\ exchange < MaxExchanges
  /\ exchange' = exchange + 1
  /\ UNCHANGED rx
  /\ heard' = <<>>
  /\ polls' = polls \cup {exchange'}
  /\ conditions' = {sim}
  /\ late' = {}
  /\ pc' = "poll"
  /\ UNCHANGED <<result, dials, half, sim, lines, noise>>

Poll ==
  /\ pc = "idle" /\ exchange < MaxExchanges
  /\ exchange' = exchange + 1
  /\ rx' = <<>>
  /\ heard' = <<>>
  /\ polls' = polls \cup {exchange'}
  /\ conditions' = {sim}
  /\ late' = {}
  /\ pc' = "poll"
  /\ UNCHANGED <<result, dials, half, sim, lines, noise>>

(* After 3 s, whatever has come.                                           *)
PollEnds ==
  /\ pc = "poll"
  /\ Returned(CpinState(heard), 0)
  /\ pc' = "idle"
  /\ UNCHANGED <<exchange, rx, heard, modem, past>>

(* An exception ends the exchange; the port is closed and opened again.    *)
PortError ==
  /\ pc \notin {"idle", "fence", "write"}
  /\ rx' = <<>>
  /\ pc' = "idle"
  /\ UNCHANGED <<exchange, heard, result, modem, past>>

-----------------------------------------------------------------------------
(* The modem and the network.                                              *)

Sends(kind, e) ==
  /\ lines < MaxLines
  /\ lines' = lines + 1
  /\ rx' = Append(rx, [kind |-> kind, of |-> e])
  /\ noise' = IF pc = "fence" THEN noise + 1 ELSE noise
  /\ late' = IF pc = "fence" \/ e = exchange THEN late ELSE late \cup {kind}
  /\ UNCHANGED <<pc, exchange, heard, result>>

(* A dial may be answered more than once: an empty text, then a full one.  *)
NetworkAnswers ==
  /\ half = 0
  /\ \E e \in dials, kind \in NetworkKinds :
       /\ Sends(kind, e)
       /\ dials' \in {dials, dials \ {e}}
       /\ half' = IF kind = "open" THEN e ELSE 0
  /\ UNCHANGED <<polls, sim, conditions>>

SecondHalf ==
  /\ half # 0
  /\ Sends("close", half)
  /\ half' = 0
  /\ UNCHANGED <<dials, polls, sim, conditions>>

Acknowledges ==
  /\ half = 0
  /\ \E e \in dials : Sends("ok", e)
  /\ UNCHANGED <<dials, polls, half, sim, conditions>>

AnswersPoll ==
  /\ half = 0
  /\ \E e \in polls :
       /\ Sends(IF sim THEN "READY" ELSE "gone", e)
       /\ polls' = polls \ {e}
  /\ UNCHANGED <<dials, half, sim, conditions>>

SwapSim ==
  /\ sim' = ~sim
  /\ conditions' = conditions \cup {sim'}
  /\ UNCHANGED <<pc, exchange, rx, heard, result, dials, polls, half, noise, late,
                 lines>>

-----------------------------------------------------------------------------
Dialling == \/ Dial \/ Discard \/ FenceQuiet \/ FenceExpires
            \/ Write \/ WriteFails
            \/ ReadsText \/ ReadsEmpty \/ ReadsNoText \/ LeaveMenu
            \/ BeginGrace \/ EndGrace
Worker == Dialling \/ Read \/ Poll \/ PollEnds \/ PortError
Modem == NetworkAnswers \/ SecondHalf \/ Acknowledges \/ AnswersPoll \/ SwapSim

Next == Worker \/ Modem

Spec == Init /\ [][Next]_vars

-----------------------------------------------------------------------------
ResultType == [kind : Outcomes \cup Verdicts, of : 0 .. MaxExchanges,
               asked : 0 .. MaxExchanges, late : SUBSET Kinds]

(* Every variable has its type, and only what was asked is answered.       *)
TypeOK ==
  /\ pc \in {"idle", "poll"} \cup DialSteps
  /\ exchange \in 0 .. MaxExchanges
  /\ pc # "idle" => exchange > 0
  /\ rx \in Seq(Lines) /\ heard \in Seq(Lines)
  /\ result \in ResultType
  /\ dials \subseteq 1 .. exchange /\ polls \subseteq 1 .. exchange
  /\ half \in 0 .. exchange
  /\ sim \in BOOLEAN /\ conditions \subseteq BOOLEAN
  /\ noise \in Nat /\ late \subseteq Kinds
  /\ lines \in 0 .. MaxLines

(* What the fence is for: a dial returns a text only if it is the          *)
(* network's answer to this dial, wherever the answers to earlier dials    *)
(* come, in parts, while nobody reads or while this dial throws away what  *)
(* comes, and whatever else comes afterwards.  The exception is a quoted   *)
(* line of an earlier dial that the network keeps back until the fence has *)
(* been quiet, or that a modem sends that is never quiet.                  *)
AnswerIsOwn ==
  result.kind = "text" /\ result.late \cap Quoted = {} => result.of = result.asked

(* A poll tells the SIM's state at a time since it began, unless an answer *)
(* to an earlier poll, or a text of the network that speaks of a PIN,      *)
(* comes after the poll has emptied the buffer.                            *)
PollIsTrue ==
  [][PollEnds /\ late \cap Telling = {} =>
       /\ result'.kind = "READY" => TRUE \in conditions
       /\ result'.kind = "NOT_INSERTED" => FALSE \in conditions
       /\ result'.kind # "PIN_REQUIRED"]_vars

================================================================================
