---------------------------- MODULE KebunPartsProofs ---------------------------
(***************************************************************************)
(* Proofs about the parts of GOOD around a worker's session: the serial    *)
(* port (KebunDial), the window (KebunTable) and the table of pairs with   *)
(* its caches (KebunHarvest).  Each part has its types and one inductive   *)
(* invariant, and its safety properties follow from that.                  *)
(***************************************************************************)
EXTENDS KebunDial, KebunTable, KebunHarvest, WellFoundedInduction, TLAPS

-----------------------------------------------------------------------------
(* The serial port: behind its fence a dial and a poll take only their own *)
(* lines for an answer.                                                    *)

LEMMA SeqWider ==
  ASSUME NEW S, NEW T, S \subseteq T, NEW s \in Seq(S)
  PROVE  s \in Seq(T)
  OBVIOUS

-----------------------------------------------------------------------------
(* Types.                                                                  *)

PortTyped == /\ pc \in {"idle", "poll"} \cup DialSteps
             /\ exchange \in 0 .. MaxExchanges
             /\ pc # "idle" => exchange > 0
BufferTyped == rx \in Seq(Lines) /\ heard \in Seq(Lines)
ModemTyped == /\ dials \subseteq 1 .. exchange /\ polls \subseteq 1 .. exchange
              /\ half \in 0 .. exchange
              /\ lines \in 0 .. MaxLines
HistoryTyped == /\ sim \in BOOLEAN /\ conditions \subseteq BOOLEAN
                /\ noise \in Nat /\ late \subseteq Kinds

LEMMA Parts ==
  TypeOK <=> PortTyped /\ BufferTyped /\ result \in ResultType
               /\ ModemTyped /\ HistoryTyped
  BY DEF TypeOK, PortTyped, BufferTyped, ModemTyped, HistoryTyped

LEMMA PartsNext ==
  ASSUME PortTyped', BufferTyped', result' \in ResultType, ModemTyped', HistoryTyped'
  PROVE  TypeOK'
  BY DEF TypeOK, PortTyped, BufferTyped, ModemTyped, HistoryTyped

LEMMA InitTyped == Init => TypeOK
  <1> SUFFICES ASSUME Init PROVE TypeOK
    OBVIOUS
  <1> USE DEF Init
  <1>1. PortTyped
    BY DialAssumption DEF PortTyped
  <1>2. BufferTyped
    BY DEF BufferTyped
  <1>3. result \in ResultType
    BY DialAssumption DEF Nothing, ResultType, Outcomes
  <1>4. ModemTyped
    BY DialAssumption DEF ModemTyped
  <1>5. HistoryTyped
    BY DEF HistoryTyped
  <1> QED
    BY <1>1, <1>2, <1>3, <1>4, <1>5, Parts

LEMMA ReturnedTyped ==
  ASSUME TypeOK, NEW k \in Outcomes \cup Verdicts, NEW e \in 0 .. MaxExchanges,
         Returned(k, e)
  PROVE  result' \in ResultType
  BY DEF TypeOK, Returned, ResultType

LEMMA PortStepTyped ==
  ASSUME TypeOK, Dial \/ Discard \/ FenceQuiet \/ FenceExpires \/ Write \/ WriteFails
                 \/ ReadsText \/ ReadsEmpty \/ ReadsNoText \/ LeaveMenu
                 \/ BeginGrace \/ EndGrace \/ Read \/ Poll \/ PollEnds \/ PortError
  PROVE  PortTyped'
  <1> USE DialAssumption DEF TypeOK, PortTyped, DialSteps
  <1>1. CASE Dial \/ Poll
    BY <1>1 DEF Dial, Poll
  <1>2. CASE Discard \/ Read \/ ReadsEmpty \/ BeginGrace \/ LeaveMenu \/ PortError
    BY <1>2 DEF Discard, Read, ReadsEmpty, BeginGrace, LeaveMenu, PortError
  <1>3. CASE FenceQuiet \/ FenceExpires \/ Write \/ WriteFails
    BY <1>3 DEF FenceQuiet, FenceExpires, Write, WriteFails
  <1>4. CASE ReadsText \/ ReadsNoText \/ EndGrace \/ PollEnds
    BY <1>4 DEF ReadsText, ReadsNoText, EndGrace, PollEnds
  <1> QED
    BY <1>1, <1>2, <1>3, <1>4

LEMMA BufferStepTyped ==
  ASSUME TypeOK, Worker
  PROVE  BufferTyped'
  <1>0. rx \in Seq(Lines) /\ heard \in Seq(Lines)
    BY DEF TypeOK
  <1>1. rx' \in {rx, <<>>} /\ heard' \in {heard, <<>>, heard \o rx}
    <2>1. CASE Read \/ Discard \/ Poll
      BY <2>1 DEF Read, Discard, Poll
    <2>2. CASE Dial \/ FenceQuiet \/ FenceExpires \/ Write \/ WriteFails
      BY <2>2 DEF Dial, FenceQuiet, FenceExpires, Write, WriteFails
    <2>3. CASE ReadsText \/ ReadsEmpty \/ ReadsNoText \/ LeaveMenu \/ BeginGrace
      BY <2>3 DEF ReadsText, ReadsEmpty, ReadsNoText, LeaveMenu, BeginGrace
    <2>4. CASE EndGrace \/ PollEnds \/ PortError
      BY <2>4 DEF EndGrace, PollEnds, PortError
    <2> QED
      BY <2>1, <2>2, <2>3, <2>4 DEF Worker, Dialling
  <1>2. heard \o rx \in Seq(Lines) /\ <<>> \in Seq(Lines)
    BY <1>0
  <1> QED
    BY <1>0, <1>1, <1>2 DEF BufferTyped

LEMMA ResultStepTyped ==
  ASSUME TypeOK, Worker
  PROVE  result' \in ResultType
  <1>0. /\ result \in ResultType
        /\ \A i \in DOMAIN heard : heard[i].of \in 0 .. MaxExchanges
    <2>1. \A l \in Lines : l.of \in 0 .. MaxExchanges
      BY DialAssumption DEF Lines, Exchanges
    <2>2. \A i \in DOMAIN heard : heard[i] \in Lines
      BY DEF TypeOK
    <2> QED
      BY <2>1, <2>2 DEF TypeOK
  <1>1. CASE Dial \/ Discard \/ FenceQuiet \/ FenceExpires \/ Write \/ ReadsEmpty
             \/ LeaveMenu \/ BeginGrace \/ Read \/ Poll \/ PortError
    BY <1>0, <1>1 DEF Dial, Discard, FenceQuiet, FenceExpires, Write, ReadsEmpty,
      LeaveMenu, BeginGrace, Read, Poll, PortError
  <1>2. CASE WriteFails
    BY <1>2, ReturnedTyped, DialAssumption DEF WriteFails, Outcomes
  <1>3. CASE ReadsText
    BY <1>0, <1>3, ReturnedTyped DEF ReadsText, Outcomes
  <1>4. CASE ReadsNoText
    <2>1. WithoutPayload(heard) \in Outcomes
      BY DEF WithoutPayload, Outcomes
    <2> QED
      BY <1>4, <2>1, ReturnedTyped, DialAssumption DEF ReadsNoText
  <1>5. CASE EndGrace
    <2>1. PICK i \in DOMAIN heard : Returned("empty", 0) \/ Returned("text", heard[i].of)
      BY <1>5 DEF EndGrace
    <2> QED
      BY <1>0, <2>1, ReturnedTyped, DialAssumption DEF Outcomes
  <1>6. CASE PollEnds
    <2>1. CpinState(heard) \in Verdicts
      BY DEF CpinState, Verdicts
    <2> QED
      BY <1>6, <2>1, ReturnedTyped, DialAssumption DEF PollEnds
  <1> QED
    BY <1>1, <1>2, <1>3, <1>4, <1>5, <1>6 DEF Worker, Dialling

LEMMA ModemKept ==
  ASSUME TypeOK, Worker
  PROVE  ModemTyped' /\ HistoryTyped'
  <1>0. /\ dials \subseteq 1 .. exchange /\ polls \subseteq 1 .. exchange
        /\ half \in 0 .. exchange /\ lines \in 0 .. MaxLines
        /\ sim \in BOOLEAN /\ conditions \subseteq BOOLEAN
        /\ noise \in Nat /\ late \subseteq Kinds
        /\ exchange \in Nat /\ (pc = "write" => exchange > 0)
    BY DialAssumption DEF TypeOK
  <1>1. CASE Dial
    BY <1>0, <1>1 DEF Dial, ModemTyped, HistoryTyped, modem
  <1>2. CASE FenceQuiet \/ FenceExpires
    BY <1>0, <1>2 DEF FenceQuiet, FenceExpires, ModemTyped, HistoryTyped, modem
  <1>w. CASE Write
    BY <1>0, <1>w DEF Write, ModemTyped, HistoryTyped, past
  <1>3. CASE Poll
    <2>1. /\ exchange' = exchange + 1 /\ polls' = polls \cup {exchange'}
          /\ UNCHANGED <<dials, half, sim, lines, noise>>
          /\ conditions' = {sim} /\ late' = {}
      BY <1>3 DEF Poll
    <2>2. /\ 1 .. exchange \subseteq 1 .. exchange + 1
          /\ exchange + 1 \in 1 .. exchange + 1 /\ half \in 0 .. exchange + 1
      BY <1>0
    <2> QED
      BY <1>0, <2>1, <2>2 DEF ModemTyped, HistoryTyped
  <1>4. CASE Discard \/ WriteFails \/ ReadsText \/ ReadsEmpty \/ ReadsNoText
    <2>1. UNCHANGED <<exchange, modem, past>>
      BY <1>4 DEF Discard, WriteFails, ReadsText, ReadsEmpty, ReadsNoText
    <2> QED
      BY <1>0, <2>1 DEF ModemTyped, HistoryTyped, modem, past
  <1>5. CASE LeaveMenu \/ BeginGrace \/ EndGrace \/ Read \/ PollEnds \/ PortError
    <2>1. UNCHANGED <<exchange, modem, past>>
      BY <1>5 DEF LeaveMenu, BeginGrace, EndGrace, Read, PollEnds, PortError
    <2> QED
      BY <1>0, <2>1 DEF ModemTyped, HistoryTyped, modem, past
  <1> QED
    BY <1>1, <1>2, <1>w, <1>3, <1>4, <1>5 DEF Worker, Dialling

LEMMA SendsTyped ==
  ASSUME TypeOK, NEW k \in Kinds, NEW e \in 1 .. exchange, Sends(k, e)
  PROVE  /\ PortTyped' /\ BufferTyped' /\ result' \in ResultType
         /\ noise' \in Nat /\ late' \subseteq Kinds
         /\ lines' \in 0 .. MaxLines /\ exchange' = exchange
  <1>1. [kind |-> k, of |-> e] \in Lines
    BY DialAssumption DEF TypeOK, Lines, Exchanges
  <1>2. BufferTyped'
    BY <1>1 DEF TypeOK, Sends, BufferTyped
  <1>3. noise' \in Nat /\ late' \subseteq Kinds
    BY DEF TypeOK, Sends
  <1> QED
    BY <1>2, <1>3, DialAssumption DEF TypeOK, Sends, PortTyped

LEMMA ModemTypes ==
  ASSUME TypeOK, Modem
  PROVE  TypeOK'
  <1>0. /\ dials \subseteq 1 .. exchange /\ polls \subseteq 1 .. exchange
        /\ half \in 0 .. exchange /\ sim \in BOOLEAN /\ conditions \subseteq BOOLEAN
        /\ exchange \in 0 .. MaxExchanges
    BY DEF TypeOK
  <1>1. CASE NetworkAnswers
    <2>1. PICK e \in dials, k \in NetworkKinds :
            /\ Sends(k, e) /\ dials' \in {dials, dials \ {e}}
            /\ half' = IF k = "open" THEN e ELSE 0
      BY <1>1 DEF NetworkAnswers
    <2>2. k \in Kinds /\ e \in 1 .. exchange
      BY <1>0 DEF Kinds
    <2> QED
      BY <1>0, <1>1, <2>1, <2>2, SendsTyped, PartsNext
        DEF NetworkAnswers, ModemTyped, HistoryTyped
  <1>2. CASE SecondHalf
    <2>1. "close" \in Kinds /\ half \in 1 .. exchange
      BY <1>0, <1>2 DEF Kinds, SecondHalf
    <2> QED
      BY <1>0, <1>2, <2>1, SendsTyped, PartsNext DEF SecondHalf, ModemTyped, HistoryTyped
  <1>3. CASE Acknowledges
    <2>1. PICK e \in dials : Sends("ok", e)
      BY <1>3 DEF Acknowledges
    <2>2. "ok" \in Kinds /\ e \in 1 .. exchange
      BY <1>0 DEF Kinds
    <2> QED
      BY <1>0, <1>3, <2>1, <2>2, SendsTyped, PartsNext
        DEF Acknowledges, ModemTyped, HistoryTyped
  <1>4. CASE AnswersPoll
    <2>1. PICK e \in polls, k \in {"READY", "gone"} :
            Sends(k, e) /\ polls' = polls \ {e}
      BY <1>4 DEF AnswersPoll
    <2>2. k \in Kinds /\ e \in 1 .. exchange
      BY <1>0 DEF Kinds
    <2> QED
      BY <1>0, <1>4, <2>1, <2>2, SendsTyped, PartsNext
        DEF AnswersPoll, ModemTyped, HistoryTyped
  <1>5. CASE SwapSim
    BY <1>5 DEF SwapSim, TypeOK
  <1> QED
    BY <1>1, <1>2, <1>3, <1>4, <1>5 DEF Modem

LEMMA StepTyped == TypeOK /\ [Next]_vars => TypeOK'
  <1> SUFFICES ASSUME TypeOK, [Next]_vars PROVE TypeOK'
    OBVIOUS
  <1>1. CASE Worker
    <2>1. PortTyped'
      BY <1>1, PortStepTyped DEF Worker, Dialling
    <2> QED
      BY <1>1, <2>1, BufferStepTyped, ResultStepTyped, ModemKept, PartsNext
  <1>2. CASE Modem
    BY <1>2, ModemTypes
  <1>3. CASE UNCHANGED vars
    BY <1>3 DEF vars, modem, past, TypeOK
  <1> QED
    BY <1>1, <1>2, <1>3 DEF Next

(* For any number of exchanges and lines, every variable of the port keeps *)
(* its type: send_ussd and the poll of the SIM.                            *)
THEOREM DialTypeCorrect == Spec => []TypeOK
  BY InitTyped, StepTyped, PTL DEF Spec

-----------------------------------------------------------------------------
(* Own lines.  Behind the fence, and as long as no quoted line of an        *)
(* earlier dial has come, every quoted line in the buffer and among those  *)
(* that were read is of this dial.                                         *)

OwnLines(e) == {l \in Lines : l.kind \in Quoted => l.of = e}
Reading == pc \in {"read", "empty", "grace"}
OwnOnly == (pc = "write" \/ Reading) /\ late \cap Quoted = {} =>
             /\ rx \in Seq(OwnLines(exchange))
             /\ Reading => heard \in Seq(OwnLines(exchange))

(* While a poll waits: the dials are of earlier exchanges, and an answer   *)
(* tells a state that the SIM has had.                                     *)
Honest(C) == {l \in Lines : /\ l.kind = "READY" => TRUE \in C
                            /\ l.kind = "gone" => FALSE \in C
                            /\ l.kind # "pin"}
PollAlone == pc = "poll" => exchange \notin dials /\ half # exchange /\ sim \in conditions
PollHonest == pc = "poll" /\ late \cap Telling = {} =>
                rx \in Seq(Honest(conditions)) /\ heard \in Seq(Honest(conditions))

Own == OwnOnly /\ PollAlone /\ PollHonest /\ AnswerIsOwn

LEMMA InitOwn == Init => Own
  BY DEF Init, Own, OwnOnly, Reading, PollAlone, PollHonest, AnswerIsOwn, Nothing

LEMMA WorkerKeepsOwnOnly ==
  ASSUME TypeOK, Own, Worker
  PROVE  OwnOnly'
  <1> USE DEF Own, OwnOnly, Reading
  <1>1. CASE Read
    BY <1>1 DEF Read, past
  <1>2. CASE FenceQuiet
    BY <1>2 DEF FenceQuiet
  <1>x. CASE FenceExpires
    <2>1. "text" \in late' \cap Quoted
      BY <1>x DEF FenceExpires, Kinds, NetworkKinds, Quoted
    <2> QED
      BY <2>1
  <1>w. CASE Write
    <2>1. /\ pc = "write" /\ UNCHANGED <<exchange, rx, late>> /\ heard' = <<>>
      BY <1>w DEF Write, past
    <2>2. <<>> \in Seq(OwnLines(exchange))
      OBVIOUS
    <2> QED
      BY <2>1, <2>2
  <1>3. CASE Dial \/ Discard \/ WriteFails \/ Poll \/ PollEnds \/ PortError
    BY <1>3 DEF Dial, Discard, WriteFails, Poll, PollEnds, PortError
  <1>4. CASE ReadsText \/ ReadsNoText \/ LeaveMenu \/ EndGrace
    BY <1>4 DEF ReadsText, ReadsNoText, LeaveMenu, EndGrace
  <1>5. CASE ReadsEmpty \/ BeginGrace
    <2>1. /\ Reading /\ UNCHANGED <<exchange, heard, late>>
          /\ rx' = rx \/ rx' = <<>>
      BY <1>5 DEF ReadsEmpty, BeginGrace, Reading, past
    <2>2. <<>> \in Seq(OwnLines(exchange))
      OBVIOUS
    <2>3. late \cap Quoted = {} =>
            rx' \in Seq(OwnLines(exchange)) /\ heard \in Seq(OwnLines(exchange))
      BY <2>1, <2>2
    <2> QED
      BY <2>1, <2>3
  <1> QED
    BY <1>1, <1>2, <1>x, <1>w, <1>3, <1>4, <1>5 DEF Worker, Dialling

LEMMA WorkerKeepsPoll ==
  ASSUME TypeOK, Own, Worker
  PROVE  PollAlone' /\ PollHonest'
  <1> USE DEF Own, PollAlone, PollHonest
  <1>1. CASE Read
    BY <1>1 DEF Read, modem, past
  <1>2. CASE Poll
    BY <1>2 DEF Poll, TypeOK
  <1>3. CASE Dial \/ Discard \/ FenceQuiet \/ FenceExpires \/ Write \/ WriteFails
    BY <1>3 DEF Dial, Discard, FenceQuiet, FenceExpires, Write, WriteFails
  <1>4. CASE ReadsText \/ ReadsEmpty \/ ReadsNoText \/ LeaveMenu \/ BeginGrace
    BY <1>4 DEF ReadsText, ReadsEmpty, ReadsNoText, LeaveMenu, BeginGrace
  <1>5. CASE EndGrace \/ PollEnds \/ PortError
    BY <1>5 DEF EndGrace, PollEnds, PortError
  <1> QED
    BY <1>1, <1>2, <1>3, <1>4, <1>5 DEF Worker, Dialling

LEMMA WorkerKeepsAnswer ==
  ASSUME TypeOK, Own, Worker
  PROVE  AnswerIsOwn'
  <1> USE DEF Own, AnswerIsOwn
  <1>0. Reading /\ late \cap Quoted = {} =>
          \A i \in DOMAIN heard : heard[i].kind \in Quoted => heard[i].of = exchange
    BY DEF OwnOnly, OwnLines
  <1>q. \A i \in DOMAIN heard : IsLast(heard, i) => heard[i].kind \in Quoted
    BY DEF IsLast, IsPayload, Quoted
  <1>1. CASE Dial \/ Discard \/ FenceQuiet \/ FenceExpires \/ Write \/ ReadsEmpty
             \/ LeaveMenu \/ BeginGrace \/ Read \/ Poll \/ PortError
    BY <1>1 DEF Dial, Discard, FenceQuiet, FenceExpires, Write, ReadsEmpty,
      LeaveMenu, BeginGrace, Read, Poll, PortError
  <1>2. CASE WriteFails
    BY <1>2 DEF WriteFails, Returned
  <1>3. CASE ReadsText
    BY <1>0, <1>q, <1>3 DEF ReadsText, Returned, Reading
  <1>4. CASE ReadsNoText
    BY <1>4 DEF ReadsNoText, Returned, WithoutPayload
  <1>5. CASE EndGrace
    <2>1. PICK i \in DOMAIN heard :
            /\ heard[i].kind \in Quoted
            /\ Returned("empty", 0) \/ Returned("text", heard[i].of)
      BY <1>q, <1>5 DEF EndGrace
    <2> QED
      BY <1>0, <1>5, <2>1 DEF EndGrace, Returned, Reading
  <1>6. CASE PollEnds
    BY <1>6 DEF PollEnds, Returned, CpinState
  <1> QED
    BY <1>1, <1>2, <1>3, <1>4, <1>5, <1>6 DEF Worker, Dialling

LEMMA SendsKeepsOwnOnly ==
  ASSUME TypeOK, Own, NEW k \in Kinds, NEW e \in 1 .. exchange, Sends(k, e)
  PROVE  OwnOnly' /\ AnswerIsOwn'
  <1>1. [kind |-> k, of |-> e] \in Lines
    BY DialAssumption DEF TypeOK, Lines, Exchanges
  <1>2. /\ rx' = Append(rx, [kind |-> k, of |-> e])
        /\ UNCHANGED <<pc, exchange, heard, result>>
        /\ pc # "fence" => late' = IF e = exchange THEN late ELSE late \cup {k}
    BY DEF Sends
  <1>3. ASSUME pc = "write" \/ Reading, late' \cap Quoted = {}
        PROVE  rx' \in Seq(OwnLines(exchange))
    <2>1. pc # "fence" BY <1>3 DEF Reading
    <2>2. late \cap Quoted = {} /\ (k \in Quoted => e = exchange)
      BY <1>2, <1>3, <2>1
    <2>3. [kind |-> k, of |-> e] \in OwnLines(exchange)
      BY <1>1, <2>2 DEF OwnLines
    <2>4. rx \in Seq(OwnLines(exchange)) BY <1>3, <2>2 DEF Own, OwnOnly
    <2> QED
      BY <1>2, <2>3, <2>4
  <1>4. Reading /\ late' \cap Quoted = {} => late \cap Quoted = {}
    BY <1>2 DEF Reading
  <1> QED
    BY <1>2, <1>3, <1>4 DEF Own, OwnOnly, AnswerIsOwn, Reading

LEMMA SendsKeepsHonest ==
  ASSUME TypeOK, Own, NEW k \in Kinds, NEW e \in 1 .. exchange, Sends(k, e),
         UNCHANGED conditions,
         pc = "poll" => \/ e # exchange
                        \/ k = "READY" /\ TRUE \in conditions
                        \/ k = "gone" /\ FALSE \in conditions
  PROVE  PollHonest'
  <1>1. [kind |-> k, of |-> e] \in Lines
    BY DialAssumption DEF TypeOK, Lines, Exchanges
  <1> SUFFICES ASSUME pc = "poll", late' \cap Telling = {}
               PROVE  rx' \in Seq(Honest(conditions)) /\ heard' \in Seq(Honest(conditions))
    BY DEF Sends, PollHonest
  <1>2. /\ rx' = Append(rx, [kind |-> k, of |-> e]) /\ UNCHANGED heard
        /\ late' = IF e = exchange THEN late ELSE late \cup {k}
    BY DEF Sends
  <1>3. late \cap Telling = {} /\ (e # exchange => k \notin Telling)
    BY <1>2
  <1>4. [kind |-> k, of |-> e] \in Honest(conditions)
    BY <1>1, <1>3 DEF Honest, Telling
  <1> QED
    BY <1>2, <1>3, <1>4 DEF Own, PollHonest

LEMMA ModemKeepsOwn ==
  ASSUME TypeOK, Own, Modem
  PROVE  Own'
  <1>0. /\ dials \subseteq 1 .. exchange /\ polls \subseteq 1 .. exchange
        /\ half \in 0 .. exchange /\ sim \in BOOLEAN /\ PollAlone
    BY DEF TypeOK, Own
  <1>1. CASE NetworkAnswers
    <2>1. PICK e \in dials, k \in NetworkKinds :
            /\ Sends(k, e) /\ dials' \in {dials, dials \ {e}}
            /\ half' = IF k = "open" THEN e ELSE 0
      BY <1>1 DEF NetworkAnswers
    <2>2. k \in Kinds /\ e \in 1 .. exchange
      BY <1>0 DEF Kinds
    <2>3. pc = "poll" => e # exchange
      BY <1>0 DEF PollAlone
    <2>4. PollAlone'
      BY <1>0, <1>1, <2>1, <2>2, <2>3 DEF NetworkAnswers, PollAlone, Sends
    <2> QED
      BY <1>1, <2>1, <2>2, <2>3, <2>4, SendsKeepsOwnOnly, SendsKeepsHonest
        DEF Own, NetworkAnswers
  <1>2. CASE SecondHalf
    <2>1. "close" \in Kinds /\ half \in 1 .. exchange
      BY <1>0, <1>2 DEF Kinds, SecondHalf
    <2>2. pc = "poll" => half # exchange
      BY <1>0 DEF PollAlone
    <2>3. PollAlone'
      BY <1>0, <1>2, <2>1 DEF SecondHalf, PollAlone, Sends
    <2> QED
      BY <1>2, <2>1, <2>2, <2>3, SendsKeepsOwnOnly, SendsKeepsHonest DEF Own, SecondHalf
  <1>3. CASE Acknowledges
    <2>1. PICK e \in dials : Sends("ok", e)
      BY <1>3 DEF Acknowledges
    <2>2. "ok" \in Kinds /\ e \in 1 .. exchange
      BY <1>0 DEF Kinds
    <2>3. pc = "poll" => e # exchange
      BY <1>0 DEF PollAlone
    <2>4. PollAlone'
      BY <1>0, <1>3, <2>1 DEF Acknowledges, PollAlone, Sends
    <2> QED
      BY <1>3, <2>1, <2>2, <2>3, <2>4, SendsKeepsOwnOnly, SendsKeepsHonest
        DEF Own, Acknowledges
  <1>4. CASE AnswersPoll
    <2>1. PICK e \in polls : Sends(IF sim THEN "READY" ELSE "gone", e)
      BY <1>4 DEF AnswersPoll
    <2> DEFINE k == IF sim THEN "READY" ELSE "gone"
    <2>2. k \in Kinds /\ e \in 1 .. exchange
      BY <1>0 DEF Kinds
    <2>3. pc = "poll" => \/ k = "READY" /\ TRUE \in conditions
                         \/ k = "gone" /\ FALSE \in conditions
      BY <1>0, Zenon DEF PollAlone
    <2>4. PollAlone'
      BY <1>0, <1>4, <2>1 DEF AnswersPoll, PollAlone, Sends
    <2> HIDE DEF k
    <2>5. Sends(k, e)
      BY <2>1 DEF k
    <2> QED
      BY <1>4, <2>2, <2>3, <2>4, <2>5, SendsKeepsOwnOnly, SendsKeepsHonest
        DEF Own, AnswersPoll
  <1>5. CASE SwapSim
    <2>1. OwnOnly' /\ AnswerIsOwn' /\ PollAlone'
      BY <1>5 DEF SwapSim, Own, OwnOnly, AnswerIsOwn, PollAlone, Reading
    <2>2. Honest(conditions) \subseteq Honest(conditions')
      BY <1>5 DEF SwapSim, Honest
    <2>3. PollHonest'
      BY <1>5, <2>2, SeqWider DEF SwapSim, Own, PollHonest
    <2> QED
      BY <2>1, <2>3 DEF Own
  <1> QED
    BY <1>1, <1>2, <1>3, <1>4, <1>5 DEF Modem

LEMMA StepOwn == TypeOK /\ Own /\ [Next]_vars => Own'
  <1> SUFFICES ASSUME TypeOK, Own, [Next]_vars PROVE Own'
    OBVIOUS
  <1>1. CASE Worker
    BY <1>1, WorkerKeepsOwnOnly, WorkerKeepsPoll, WorkerKeepsAnswer DEF Own
  <1>2. CASE Modem
    BY <1>2, ModemKeepsOwn
  <1>3. CASE UNCHANGED vars
    BY <1>3 DEF vars, modem, past, Own, OwnOnly, Reading, PollAlone, PollHonest, AnswerIsOwn
  <1> QED
    BY <1>1, <1>2, <1>3 DEF Next

LEMMA AlwaysOwn == Spec => [](TypeOK /\ Own)
  <1>1. Init => TypeOK /\ Own
    BY InitTyped, InitOwn
  <1>2. TypeOK /\ Own /\ [Next]_vars => (TypeOK /\ Own)'
    BY StepTyped, StepOwn
  <1> QED
    BY <1>1, <1>2, PTL DEF Spec

(* send_ussd: for any number of dials, lines and delays of the network,    *)
(* the text that a dial returns answers this dial, unless the network      *)
(* keeps a quoted line of an earlier one back until the fence is over.     *)
THEOREM AnswersAreOwn == Spec => []AnswerIsOwn
  <1>1. TypeOK /\ Own => AnswerIsOwn
    BY DEF Own
  <1> QED
    BY <1>1, AlwaysOwn, PTL

LEMMA PollTells ==
  ASSUME Own, PollEnds, late \cap Telling = {}
  PROVE  /\ result'.kind = "READY" => TRUE \in conditions
         /\ result'.kind = "NOT_INSERTED" => FALSE \in conditions
         /\ result'.kind # "PIN_REQUIRED"
  <1>1. \A i \in DOMAIN heard : heard[i] \in Honest(conditions)
    BY DEF Own, PollHonest, PollEnds
  <1>2. result'.kind = CpinState(heard)
    BY DEF PollEnds, Returned
  <1> QED
    BY <1>1, <1>2 DEF Honest, CpinState, Has

(* The poll of the SIM: for any number of exchanges, a poll that no older   *)
(* answer or text about a PIN reached tells a state the SIM had since it   *)
(* began.                                                                  *)
THEOREM PollsAreTrue == Spec => PollIsTrue
  <1>1. TypeOK /\ Own /\ [Next]_vars =>
          [PollEnds /\ late \cap Telling = {} =>
             /\ result'.kind = "READY" => TRUE \in conditions
             /\ result'.kind = "NOT_INSERTED" => FALSE \in conditions
             /\ result'.kind # "PIN_REQUIRED"]_vars
    BY PollTells
  <1> QED
    BY <1>1, AlwaysOwn, PTL DEF Spec, PollIsTrue

-----------------------------------------------------------------------------
(* The window.  The types, in parts.                                       *)

WorkersTyped ==
  /\ step \in [Workers -> Steps] /\ stopped \in [Workers -> BOOLEAN]
  /\ cpin \in [Workers -> SimStates \cup {"UNKNOWN"}]
  /\ asked \in [Workers -> BOOLEAN]
  /\ holder \in 0 .. MaxWorkers /\ worker \in 0 .. MaxWorkers
RegistryTyped == status \in Statuses /\ lastCpin \in SimStates \cup {"UNKNOWN"}
TableTyped ==
  /\ update \in Statuses \cup {"none"}
  /\ batch \in Statuses \cup {"none"} /\ row \in Statuses \cup {"none"}
  /\ main \in {"idle", "update", "scan"} /\ (main = "update" <=> batch # "none")
ScanTyped ==
  /\ scanning \in BOOLEAN /\ scanner \in {"idle", "looking", "ending"}
  /\ found \in {"none", "there", "absent"}
OutsideTyped ==
  disabled \in BOOLEAN /\ plugged \in BOOLEAN /\ simIn \in BOOLEAN
ChangesTyped == changes \in 0 .. MaxChanges

(* The worker that is beyond opening the port has it open, so only one is  *)
(* on the port at a time; what it heard last is what the registry holds.   *)
OnPort == {"open", "round", "flow", "poll", "heard", "wrote"}
OneOnPort ==
  \A w \in Workers :
    /\ step[w] \in OnPort => holder = w
    /\ step[w] \in {"heard", "wrote"} => /\ cpin[w] = lastCpin
                                         /\ cpin[w] \in SimStates

(* A row that tells another status than the registry was overtaken by a    *)
(* worker; its report is under way, and the registry will not refuse it:   *)
(* only IDLE is ever refused, and then the registry has it already.        *)
Stale == row \notin {"none", status}
LastReport == IF update # "none" THEN update ELSE batch
ReportIsComing ==
  Stale =>
    /\ \/ \E w \in Workers : step[w] = "wrote"
       \/ LastReport # "none" /\ (LastReport = "IDLE" => status = "IDLE")
    /\ \A w \in Workers :
         step[w] = "wrote" /\ StatusOf(cpin[w]) = "IDLE" => status = "IDLE"

(* A thread that has not been told to stop is the one the window knows.    *)
OthersAreStopped ==
  /\ \A w \in Workers :
       step[w] \notin {"unused", "ended"} /\ ~stopped[w] => w = worker
  /\ worker # 0 => step[worker] # "unused"

TableInv ==
  /\ WorkersTyped /\ RegistryTyped /\ TableTyped /\ ScanTyped
  /\ OutsideTyped /\ ChangesTyped
  /\ OneOnPort /\ ReportIsComing /\ OthersAreStopped

LEMMA TableInitial == TableInit => TableInv
  <1> SUFFICES ASSUME TableInit PROVE TableInv
    OBVIOUS
  <1> USE DEF TableInit
  <1>1. WorkersTyped
    BY TableAssumption DEF WorkersTyped, Steps, SimStates
  <1>2. RegistryTyped /\ TableTyped /\ ScanTyped
    BY DEF RegistryTyped, TableTyped, ScanTyped, Statuses, SimStates
  <1>3. OutsideTyped
    BY DEF OutsideTyped
  <1>4. ChangesTyped
    BY TableAssumption DEF ChangesTyped
  <1>5. OneOnPort /\ ReportIsComing /\ OthersAreStopped
    BY DEF OneOnPort, OnPort, ReportIsComing, Stale, OthersAreStopped
  <1>6. QED
    BY <1>1, <1>2, <1>3, <1>4, <1>5 DEF TableInv

(* What one thread may do to the steps and to what belongs to it.          *)
Turns(w, from, to) ==
  /\ step[w] \in from
  /\ step' = [step EXCEPT ![w] = step'[w]] /\ step'[w] \in to
  /\ worker' = worker /\ stopped' = stopped

LEMMA RunsTurn ==
  ASSUME TableInv, NEW w \in Workers, Runs(w)
  PROVE  /\ \/ Turns(w, {"loop"}, {"ended"}) /\ holder' = holder
            \/ step' = step /\ worker' = worker /\ stopped' = stopped
               /\ holder' = holder
            \/ Turns(w, {"loop"}, {"open"}) /\ holder = 0 /\ holder' = w
            \/ Turns(w, OnPort, {"loop"}) /\ holder' = 0
            \/ Turns(w, OnPort, OnPort) /\ holder' = holder
  BY DEF TableInv, WorkersTyped, Steps, Runs, Ends, ReportsOff, ReportsNoModem,
         Opens, Leaves, Resets, StartsRound, BeginsFlow, EndsFlow, LinkError,
         NothingNew, Hears, Writes, Tells, At, Turns, OnPort, thread, window,
         others

(* What the others may do to the threads.                                  *)
LEMMA OthersTurn ==
  ASSUME TableInv, Drain \/ Clicks \/ Scan \/ LookFails \/ Plug \/ ChangeSim
  PROVE  /\ UNCHANGED <<cpin, lastCpin, holder>>
         /\ asked' = asked \/ asked' = [asked EXCEPT ![worker] = TRUE]
         /\ \/ UNCHANGED <<step, stopped, worker>>
            \/ /\ worker = 0 /\ stopped' = stopped
               /\ \E w \in Workers : /\ worker' = w /\ step[w] = "unused"
                                     /\ step' = [step EXCEPT ![w] = "loop"]
            \/ /\ worker' = 0 /\ step' = step
               /\ stopped' = [w \in Workers |-> stopped[w] \/ w = worker]
  BY DEF Drain, TakeUpdates, NoUpdates, UpdateRow, NoScan, PortFound, PortGone,
         Clicks, TurnOff, TurnOn, MarkReset, RestoreTable, Scan, RequestScan,
         Looks, ScanEnds, LookFails, Plug, ChangeSim, Fresh, thread, registry,
         window

LEMMA RunsHear ==
  ASSUME TableInv, NEW w \in Workers, Runs(w)
  PROVE  \/ /\ cpin' = cpin /\ lastCpin' = lastCpin
            /\ step'[w] \in {"heard", "wrote"} => step[w] \in {"heard", "wrote"}
         \/ /\ step[w] = "poll" /\ lastCpin' \in SimStates
            /\ cpin' = [cpin EXCEPT ![w] = lastCpin']
  BY DEF TableInv, WorkersTyped, Steps, Runs, Ends, ReportsOff, ReportsNoModem,
         Opens, Leaves, Resets, StartsRound, BeginsFlow, EndsFlow, LinkError,
         NothingNew, Hears, Writes, Tells, At, SimState, SimStates, thread,
         registry

LEMMA RunsAsked ==
  ASSUME NEW w \in Workers, Runs(w)
  PROVE  asked' = asked \/ asked' = [asked EXCEPT ![w] = FALSE]
  BY DEF Runs, Ends, ReportsOff, ReportsNoModem, Opens, Leaves, Resets,
         StartsRound, BeginsFlow, EndsFlow, LinkError, NothingNew, Hears, Writes,
         Tells, thread

LEMMA ThreadsKept ==
  TableInv /\ [TableNext]_tableVars => WorkersTyped' /\ OneOnPort' /\ OthersAreStopped'
  <1> SUFFICES ASSUME TableInv, [TableNext]_tableVars
               PROVE  WorkersTyped' /\ OneOnPort' /\ OthersAreStopped'
    OBVIOUS
  <1>0. /\ WorkersTyped /\ OneOnPort /\ OthersAreStopped /\ RegistryTyped
        /\ MaxWorkers \in Nat
    BY TableAssumption DEF TableInv
  <1>1. ASSUME NEW w \in Workers, Runs(w)
        PROVE  WorkersTyped' /\ OneOnPort' /\ OthersAreStopped'
    <2>1. /\ step' \in [Workers -> Steps] /\ stopped' \in [Workers -> BOOLEAN]
          /\ holder' \in 0 .. MaxWorkers /\ worker' \in 0 .. MaxWorkers
      BY <1>0, <1>1, RunsTurn
      DEF Turns, WorkersTyped, Steps, Workers, OnPort
    <2>2. cpin' \in [Workers -> SimStates \cup {"UNKNOWN"}]
      BY <1>0, <1>1, RunsHear DEF WorkersTyped
    <2>3. asked' \in [Workers -> BOOLEAN]
      BY <1>0, <1>1, RunsAsked DEF WorkersTyped
    <2>4. \A v \in Workers : step'[v] \in OnPort => holder' = v
      BY <1>0, <1>1, RunsTurn
      DEF Turns, WorkersTyped, OneOnPort, OnPort, Workers
    <2>5. \A v \in Workers :
            step'[v] \in {"heard", "wrote"} => cpin'[v] = lastCpin' /\ cpin'[v] \in SimStates
      BY <1>0, <1>1, <2>1, <2>4, RunsTurn, RunsHear
      DEF Turns, WorkersTyped, OneOnPort, OnPort, Workers
    <2>6. OthersAreStopped'
      BY <1>0, <1>1, RunsTurn
      DEF Turns, WorkersTyped, OthersAreStopped, OnPort, Workers
    <2>7. QED
      BY <2>1, <2>2, <2>3, <2>4, <2>5, <2>6 DEF WorkersTyped, OneOnPort
  <1>2. CASE Drain \/ Clicks \/ Scan \/ LookFails \/ Plug \/ ChangeSim
    <2>1. WorkersTyped'
      <3>1. step' \in [Workers -> Steps] /\ worker' \in 0 .. MaxWorkers
        BY <1>0, <1>2, OthersTurn DEF WorkersTyped, Workers, Steps
      <3>2. stopped' \in [Workers -> BOOLEAN]
        BY Zenon, <1>0, <1>2, OthersTurn DEF WorkersTyped
      <3>3. asked' \in [Workers -> BOOLEAN]
        <4>1. asked \in [Workers -> BOOLEAN]
          BY <1>0 DEF WorkersTyped
        <4>2. [asked EXCEPT ![worker] = TRUE] \in [Workers -> BOOLEAN]
          BY <4>1
        <4>3. QED
          BY Zenon, <4>1, <4>2, <1>2, OthersTurn
      <3>4. QED
        BY <1>0, <1>2, <3>1, <3>2, <3>3, OthersTurn DEF WorkersTyped
    <2>2. OneOnPort'
      BY <1>0, <1>2, OthersTurn DEF WorkersTyped, OneOnPort, OnPort
    <2>3. OthersAreStopped'
      <3>1. CASE UNCHANGED <<step, stopped, worker>>
        BY <1>0, <3>1 DEF OthersAreStopped
      <3>2. CASE worker = 0 /\ stopped' = stopped
                 /\ \E w \in Workers : /\ worker' = w /\ step[w] = "unused"
                                       /\ step' = [step EXCEPT ![w] = "loop"]
        BY <1>0, <3>2 DEF WorkersTyped, OthersAreStopped, Workers
      <3>3. CASE /\ worker' = 0 /\ step' = step
                 /\ stopped' = [w \in Workers |-> stopped[w] \/ w = worker]
        <4>1. ASSUME NEW w \in Workers, step[w] \notin {"unused", "ended"}
              PROVE  stopped'[w]
          BY Zenon, <1>0, <3>3, <4>1 DEF OthersAreStopped
        <4>2. QED
          BY <3>3, <4>1 DEF OthersAreStopped
      <3>4. QED
        BY <1>2, <3>1, <3>2, <3>3, OthersTurn
    <2>4. QED
      BY <2>1, <2>2, <2>3
  <1>3. CASE UNCHANGED tableVars
    BY <1>0, <1>3 DEF tableVars, thread, registry, others, window, WorkersTyped,
                      OneOnPort, OthersAreStopped
  <1>4. QED
    BY <1>1, <1>2, <1>3 DEF TableNext

-----------------------------------------------------------------------------
(* The registry and the table.                                             *)

(* A step that leaves registry and table alone, but for a report that the  *)
(* registry will accept.                                                   *)
Calm ==
  /\ UNCHANGED <<row, status, batch>>
  /\ update' = update \/ update' \in Statuses \ {"IDLE"}
  /\ \A w \in Workers : step[w] = "wrote" <=> step'[w] = "wrote"
  /\ \A w \in Workers : step[w] = "wrote" => cpin'[w] = cpin[w]

LEMMA CalmKeeps ==
  ASSUME TableInv, Calm
  PROVE  ReportIsComing'
  <1>1. CASE \E w \in Workers : step[w] = "wrote"
    BY <1>1 DEF TableInv, Calm, ReportIsComing, Stale, StatusOf
  <1>2. CASE LastReport # "none" /\ (LastReport = "IDLE" => status = "IDLE")
    BY <1>2 DEF TableInv, Calm, ReportIsComing, Stale, LastReport, Statuses
  <1>3. CASE ~Stale
    BY <1>3 DEF Calm, ReportIsComing, Stale
  <1>4. QED
    BY <1>1, <1>2, <1>3 DEF TableInv, ReportIsComing

LEMMA RunsAreCalm ==
  ASSUME TableInv, NEW w \in Workers, Runs(w), ~Writes(w), ~Tells(w)
  PROVE  Calm
  <1>1. /\ UNCHANGED <<row, status, batch>>
        /\ update' = update \/ update' \in Statuses \ {"IDLE"}
    BY DEF Runs, Ends, ReportsOff, ReportsNoModem, Opens, Leaves, Resets,
           StartsRound, BeginsFlow, EndsFlow, LinkError, NothingNew, Hears,
           Reports, Statuses, registry, window, others
  <1>2. step[w] # "wrote" /\ step'[w] # "wrote"
    BY DEF TableInv, WorkersTyped, Runs, Ends, ReportsOff, ReportsNoModem, Opens, Leaves, Resets,
           StartsRound, BeginsFlow, EndsFlow, LinkError, NothingNew, Hears, At,
           thread
  <1>3. \A v \in Workers \ {w} : step'[v] = step[v] /\ cpin'[v] = cpin[v]
    BY RunsTurn, RunsHear DEF Turns, TableInv, WorkersTyped
  <1>4. QED
    BY <1>1, <1>2, <1>3 DEF Calm

LEMMA RunsKeepReport ==
  ASSUME TableInv, NEW w \in Workers, Runs(w)
  PROVE  ReportIsComing'
  <1>0. WorkersTyped /\ OneOnPort /\ ReportIsComing /\ RegistryTyped
    BY DEF TableInv
  <1>1. CASE Writes(w)
    <2>1. step'[w] = "wrote" /\ cpin' = cpin
      BY <1>0, <1>1 DEF Writes, At, WorkersTyped
    <2>2. StatusOf(cpin[w]) = "IDLE" => status' = "IDLE"
      BY <1>0, <1>1 DEF Writes, At, OneOnPort, StatusOf, Accepts, SimStates
    <2>3. \A v \in Workers : step'[v] = "wrote" => v = w
      BY <1>0, <1>1 DEF Writes, At, WorkersTyped, OneOnPort, OnPort
    <2>4. QED
      BY <2>1, <2>2, <2>3 DEF ReportIsComing, StatusOf
  <1>2. CASE Tells(w)
    <2>1. /\ UNCHANGED <<row, status>> /\ step[w] = "wrote"
          /\ update' = StatusOf(cpin[w])
      BY <1>2 DEF Tells, At, Reports, registry, window, others
    <2>2. \A v \in Workers : step[v] = "wrote" => v = w
      BY <1>0, <2>1 DEF OneOnPort, OnPort
    <2>3. ~Stale \/ StatusOf(cpin[w]) # "IDLE" \/ status = "IDLE"
      BY <1>0, <2>1 DEF ReportIsComing
    <2>4. \A v \in Workers : step'[v] # "wrote"
      BY <1>0, <1>2, <2>2 DEF Tells, At, WorkersTyped
    <2>5. QED
      BY <2>1, <2>3, <2>4 DEF ReportIsComing, Stale, LastReport, StatusOf
  <1>3. CASE ~Writes(w) /\ ~Tells(w)
    BY <1>3, RunsAreCalm, CalmKeeps
  <1>4. QED
    BY <1>1, <1>2, <1>3

LEMMA DrainKeepsReport ==
  ASSUME TableInv, Drain
  PROVE  ReportIsComing'
  <1>0. /\ WorkersTyped /\ OneOnPort /\ ReportIsComing /\ RegistryTyped
        /\ TableTyped
    BY DEF TableInv
  <1>1. CASE TakeUpdates
    <2>1. UNCHANGED <<row, status, step, cpin>> /\ LastReport' = LastReport
      BY <1>0, <1>1 DEF TakeUpdates, TableTyped, LastReport, thread, registry
    <2>2. QED
      BY <1>0, <2>1 DEF ReportIsComing, Stale, StatusOf
  <1>2. CASE UpdateRow
    <2>1. UNCHANGED <<step, cpin, update, lastCpin>> /\ batch # "none"
      BY <1>0, <1>2 DEF UpdateRow, TableTyped, thread
    <2>2. CASE Accepts(batch)
      BY <1>2, <2>2 DEF UpdateRow, ReportIsComing, Stale
    <2>3. CASE ~Accepts(batch)
      <3>1. status' = status /\ (Stale' => Stale)
        BY <1>2, <2>3 DEF UpdateRow, Stale
      <3>2. batch = "IDLE" /\ status # "IDLE"
        BY <2>3 DEF Accepts
      <3>3. QED
        BY <1>0, <2>1, <3>1, <3>2 DEF ReportIsComing, LastReport, StatusOf
    <2>4. QED
      BY <2>2, <2>3
  <1>3. CASE NoUpdates \/ NoScan
    BY <1>3, CalmKeeps
    DEF NoUpdates, NoScan, Calm, thread, registry
  <1>4. CASE PortFound \/ PortGone
    <2>1. CASE ~Stale'
      BY <2>1 DEF ReportIsComing
    <2>2. CASE Stale'
      <3>1. UNCHANGED <<row, status, batch, update, step, cpin>>
        BY <1>4, <2>2 DEF PortFound, PortGone, Stale, registry
      <3>2. QED
        BY <3>1, CalmKeeps DEF Calm
    <2>3. QED
      BY <2>1, <2>2
  <1>5. QED
    BY <1>1, <1>2, <1>3, <1>4 DEF Drain

LEMMA ReportKept == TableInv /\ [TableNext]_tableVars => ReportIsComing'
  <1> SUFFICES ASSUME TableInv, [TableNext]_tableVars PROVE ReportIsComing'
    OBVIOUS
  <1>1. CASE \E w \in Workers : Runs(w)
    BY <1>1, RunsKeepReport
  <1>2. CASE Drain
    BY <1>2, DrainKeepsReport
  <1>3. CASE TurnOff \/ MarkReset \/ RestoreTable
    BY <1>3 DEF TurnOff, MarkReset, RestoreTable, ReportIsComing, Stale, registry
  <1>4. CASE TurnOn \/ Scan \/ LookFails \/ Plug \/ ChangeSim
    BY <1>4, CalmKeeps
    DEF TurnOn, Scan, RequestScan, Looks, ScanEnds, LookFails, Plug, ChangeSim,
        Calm, thread, registry, window
  <1>5. CASE UNCHANGED tableVars
    BY <1>5, CalmKeeps DEF tableVars, Calm, thread, registry, window, others
  <1>6. QED
    BY <1>1, <1>2, <1>3, <1>4, <1>5 DEF TableNext, Clicks

LEMMA TablePartsKept ==
  TableInv /\ [TableNext]_tableVars
    => RegistryTyped' /\ TableTyped' /\ ScanTyped' /\ OutsideTyped' /\ ChangesTyped'
  <1> SUFFICES ASSUME TableInv, [TableNext]_tableVars
               PROVE  /\ RegistryTyped' /\ TableTyped' /\ ScanTyped'
                      /\ OutsideTyped' /\ ChangesTyped'
    OBVIOUS
  <1>0. /\ RegistryTyped /\ TableTyped /\ ScanTyped /\ OutsideTyped
        /\ ChangesTyped /\ WorkersTyped /\ MaxChanges \in Nat
    BY TableAssumption DEF TableInv
  <1> USE <1>0
  <1>1. ASSUME NEW w \in Workers, Runs(w)
        PROVE  /\ RegistryTyped' /\ TableTyped' /\ ScanTyped'
               /\ OutsideTyped' /\ ChangesTyped'
    <2>1. UNCHANGED <<batch, row, main, scanning, scanner, found>>
      BY <1>1 DEF Runs, Ends, ReportsOff, ReportsNoModem, Opens, Leaves, Resets,
                  StartsRound, BeginsFlow, EndsFlow, LinkError, NothingNew,
                  Hears, Writes, Tells, window, scan, others
    <2>2. UNCHANGED <<disabled, plugged, simIn, changes>>
      BY <1>1 DEF Runs, Ends, ReportsOff, ReportsNoModem, Opens, Leaves, Resets,
                  StartsRound, BeginsFlow, EndsFlow, LinkError, NothingNew,
                  Hears, Writes, Tells, outside, others
    <2>3. update' \in Statuses \cup {"none"} /\ RegistryTyped'
      BY <1>1 DEF Runs, Ends, ReportsOff, ReportsNoModem, Opens, Leaves, Resets,
                  StartsRound, BeginsFlow, EndsFlow, LinkError, NothingNew,
                  Hears, Writes, Tells, Reports, StatusOf, SimState, registry,
                  RegistryTyped, TableTyped, Statuses, SimStates
    <2>4. QED
      BY <2>1, <2>2, <2>3 DEF TableTyped, ScanTyped, OutsideTyped, ChangesTyped
  <1>2. CASE Drain
    <2>1. RegistryTyped' /\ TableTyped'
      BY <1>2 DEF Drain, TakeUpdates, NoUpdates, UpdateRow, NoScan, PortFound,
                  PortGone, registry, RegistryTyped, TableTyped, Statuses
    <2>2. /\ UNCHANGED <<scanning, scanner>> /\ found' \in {found, "none"}
      BY <1>2 DEF Drain, TakeUpdates, NoUpdates, UpdateRow, NoScan, PortFound,
                  PortGone, scan
    <2>3. UNCHANGED <<disabled, plugged, simIn, changes>>
      BY <1>2 DEF Drain, TakeUpdates, NoUpdates, UpdateRow, NoScan, PortFound,
                  PortGone, outside
    <2>4. QED
      BY <2>1, <2>2, <2>3 DEF ScanTyped, OutsideTyped, ChangesTyped
  <1>3. CASE Clicks
    <2>1. RegistryTyped' /\ TableTyped'
      BY <1>3 DEF Clicks, TurnOff, TurnOn, MarkReset, RestoreTable, registry,
                  window, RegistryTyped, TableTyped, Statuses
    <2>2. UNCHANGED <<scanning, scanner, found, plugged, simIn>>
      BY <1>3 DEF Clicks, TurnOff, TurnOn, MarkReset, RestoreTable, scan
    <2>3. disabled' \in {disabled, TRUE, FALSE}
      BY Zenon, <1>3 DEF Clicks, TurnOff, TurnOn, MarkReset, RestoreTable
    <2>4. ChangesTyped'
      BY <1>3 DEF Clicks, TurnOff, TurnOn, MarkReset, RestoreTable, Changes,
                  ChangesTyped
    <2>5. ScanTyped'
      BY <2>2 DEF ScanTyped
    <2>6. OutsideTyped'
      BY Zenon, <2>2, <2>3 DEF OutsideTyped
    <2>7. QED
      BY <2>1, <2>4, <2>5, <2>6
  <1>4. CASE Scan \/ LookFails \/ Plug \/ ChangeSim
    <2>1. RegistryTyped' /\ TableTyped'
      BY <1>4 DEF Scan, RequestScan, Looks, ScanEnds, LookFails, Plug, ChangeSim,
                  registry, window, RegistryTyped, TableTyped
    <2>2. /\ scanner' \in {scanner, "idle", "looking", "ending"}
          /\ found' \in {found, "there", "absent"}
      BY <1>4 DEF Scan, RequestScan, Looks, ScanEnds, LookFails, Plug, ChangeSim,
                  scan
    <2>3. /\ scanning' \in {scanning, TRUE, FALSE} /\ disabled' = disabled
          /\ plugged' \in {plugged, ~plugged} /\ simIn' \in {simIn, ~simIn}
      BY Zenon, <1>4 DEF Scan, RequestScan, Looks, ScanEnds, LookFails, Plug,
                         ChangeSim, scan, outside
    <2>4. ChangesTyped'
      BY <1>4 DEF Scan, RequestScan, Looks, ScanEnds, LookFails, Plug, ChangeSim,
                  outside, Changes, ChangesTyped
    <2>5. ScanTyped' /\ OutsideTyped'
      BY Zenon, <2>2, <2>3 DEF ScanTyped, OutsideTyped
    <2>6. QED
      BY <2>1, <2>4, <2>5
  <1>5. CASE UNCHANGED tableVars
    BY <1>5 DEF tableVars, registry, window, scan, outside, others,
                RegistryTyped, TableTyped, ScanTyped, OutsideTyped, ChangesTyped
  <1>6. QED
    BY <1>1, <1>2, <1>3, <1>4, <1>5 DEF TableNext

LEMMA TableHolds == TableSpec => []TableInv
  <1>1. TableInv /\ [TableNext]_tableVars => TableInv'
    BY ThreadsKept, ReportKept, TablePartsKept DEF TableInv
  <1>2. QED
    BY <1>1, TableInitial, PTL DEF TableSpec

(* Every variable of the window keeps its type.                            *)
THEOREM TableTypeCorrect == TableSpec => []TableTypeOK
  <1>1. TableInv => TableTypeOK
    BY DEF TableInv, TableTypeOK, WorkersTyped, RegistryTyped, TableTyped,
           ScanTyped, OutsideTyped, ChangesTyped
  <1>2. QED
    BY <1>1, TableHolds, PTL

(* Two threads are never on the port together, and one that has not been   *)
(* told to stop is the one that the window knows.                          *)
OneServes ==
  /\ \A v, w \in Workers : step[v] \in OnPort /\ step[w] \in OnPort => v = w
  /\ \A w \in Workers :
       step[w] \notin {"unused", "ended"} /\ ~stopped[w] => w = worker

THEOREM OneServesHolds == TableSpec => []OneServes
  <1>1. TableInv => OneServes
    BY DEF TableInv, OneServes, OneOnPort, OthersAreStopped
  <1>2. QED
    BY <1>1, TableHolds, PTL

(* However worker, scanner and clicks interleave, a table with no report   *)
(* under way shows what the registry holds.                                *)
THEOREM RowCorrect == TableSpec => []RowTellsRegistry
  <1>1. TableInv => RowTellsRegistry
    BY DEF TableInv, RowTellsRegistry, ReportIsComing, Stale, LastReport,
           TableTyped
  <1>2. QED
    BY <1>1, TableHolds, PTL

-----------------------------------------------------------------------------
(* The table of pairs.  A record as it is read, and a complete one.        *)
Readings == [nomor : Cells \cup {None}, nik : Cells \cup {None},
             kk : Cells \cup {None}]
FullRecords == [nomor : Cells, nik : Cells, kk : Cells]

FlowTyped ==
  \/ flow = FlowIdle
  \/ flow \in [pc : {"phone", "kk", "inject"}, nomor : Cells, pair : Pairs,
               saved : BOOLEAN]
ImporterTyped ==
  \/ importer = ImportIdle
  \/ importer \in [pc : {"read"}, left : Seq(Readings), batch : Seq(FullRecords)]
  \/ importer \in [pc : {"batch"}, left : Seq(Readings),
                   batch : Seq(FullRecords), trans : Tables]
  \/ importer \in [pc : {"fill"}, table : Tables]
DeleterTyped ==
  \/ deleter = DeleterIdle
  \/ deleter \in [pc : {"all"}]
  \/ deleter \in [pc : {"row"}, nomor : Cells]
TablesTyped ==
  /\ db \in Tables /\ phone \in Tables /\ shown \in Tables
  /\ kkOf \in [Cells -> Cells \cup {None}]
RecordTyped ==
  /\ odd \in BOOLEAN /\ raced \in BOOLEAN
  /\ gone \subseteq Cells /\ met \subseteq Cells /\ given \subseteq Cells
  /\ events \in 0 .. MaxEvents

(* While the files were clear, all there is belongs to one card: rows and  *)
(* caches, the flow's pair, and what the import has read and holds.        *)
OwnRecord(r) ==
  \E c \in Cards : r = [nomor |-> Cell("nomor", c), nik |-> Cell("nik", c),
                        kk |-> Cell("kk", c)]
OwnTable(table) == \A n \in Cells : IsOwn(n, table[n])
OwnKks(cache) == \A k \in Cells : cache[k] # None => cache[k] = Cell("kk", k.of)
StoreIsGiven == OwnTable(db) /\ OwnTable(phone) /\ OwnKks(kkOf)
FlowIsGiven == flow.pc # "idle" => IsOwn(flow.nomor, flow.pair)
ImportIsGiven ==
  /\ importer.pc \in {"read", "batch"} =>
       /\ \A i \in DOMAIN importer.left : OwnRecord(importer.left[i])
       /\ \A i \in DOMAIN importer.batch : OwnRecord(importer.batch[i])
  /\ importer.pc = "batch" => OwnTable(importer.trans)
  /\ importer.pc = "fill" => OwnTable(importer.table)
AllIsGiven == ~odd => StoreIsGiven /\ FlowIsGiven /\ ImportIsGiven

(* What is stored is cached, or about to be: the flow that stored it       *)
(* caches it next.                                                         *)
Pending(n) == flow.pc = "phone" /\ flow.saved /\ flow.nomor = n
Cached(table) == \A n \in Cells : table[n] # None => phone[n] # None \/ Pending(n)
AllIsCached ==
  ~raced => Cached(db) /\ (importer.pc = "batch" => Cached(importer.trans))

(* A deletion that met nobody is alone until its end.                      *)
DeletesAlone == ~raced /\ deleter.pc # "idle" => Quiet

(* A number that is gone is not in the table, nor in an open transaction   *)
(* unless it was inserted there; and unless a flow or an import met it,    *)
(* none is busy with it, and only its deletion leaves it in the cache,     *)
(* which drops it next.                                                    *)
Deleting(n) == deleter.pc = "all" \/ (deleter.pc = "row" /\ deleter.nomor = n)
DeletedAreGone == ~raced => \A n \in Cells : Deleting(n) => n \in gone
OutOfTable ==
  /\ \A n \in gone : db[n] = None
  /\ importer.pc = "batch" => \A n \in gone \ given : importer.trans[n] = None
Forgotten(n) == n \notin UnderWay /\ (phone[n] = None \/ Deleting(n))
OutOfCache == \A n \in gone \ met : Forgotten(n)
AllAreGone == DeletedAreGone /\ OutOfTable /\ OutOfCache

HarvestTyped ==
  FlowTyped /\ ImporterTyped /\ DeleterTyped /\ TablesTyped /\ RecordTyped
HarvestInv ==
  HarvestTyped /\ AllIsGiven /\ AllIsCached /\ DeletesAlone /\ AllAreGone

-----------------------------------------------------------------------------
(* Reading a file.                                                         *)

LEMMA Least ==
  ASSUME NEW places \in SUBSET Nat, places # {}
  PROVE  /\ Earliest(places) \in places
         /\ \A j \in places : Earliest(places) <= j
  <1>1. PICK i \in places : \A j \in places : ~ (<<j, i>> \in OpToRel(<, Nat))
    BY NatLessThanWellFounded, WFMin
  <1>2. \A j \in places : ~ (j < i)
    BY <1>1 DEF OpToRel
  <1>3. \A j \in places : i <= j
    BY <1>2
  <1>4. QED
    BY <1>3 DEF Earliest

LEMMA Greatest ==
  ASSUME NEW n \in Nat, NEW places \in SUBSET (1 .. n), places # {}
  PROVE  Latest(places) \in places
  <1> DEFINE behind == {n - i : i \in places}
  <1>1. behind \in SUBSET Nat
    <2>1. \A k \in behind : \E i \in places : k = n - i
      OBVIOUS
    <2>2. \A i \in places : n - i \in Nat
      OBVIOUS
    <2>3. QED
      BY <2>1, <2>2
  <1>2. behind # {}
    <2>1. PICK i \in places : TRUE
      OBVIOUS
    <2>2. n - i \in behind
      OBVIOUS
    <2>3. QED
      BY <2>2
  <1>3. Earliest(behind) \in behind /\ \A l \in behind : Earliest(behind) <= l
    BY <1>1, <1>2, Least
  <1>4. PICK i \in places : Earliest(behind) = n - i
    BY <1>3
  <1>5. \A j \in places : n - i <= n - j
    BY <1>3, <1>4
  <1>6. \A j \in places : j <= i
    BY <1>5
  <1>7. QED
    BY <1>6 DEF Latest

LEMMA NoneIsNoCell == None \notin Cells
  BY DEF None, Cells, CellKinds

LEMMA CellTyped ==
  ASSUME NEW c \in Cards, NEW kind \in CellKinds
  PROVE  Cell(kind, c) \in Cells /\ Cell(kind, c) # None
  BY NoneIsNoCell DEF Cell, Cells

LEMMA FirstCellTyped ==
  ASSUME NEW cells \in Seq(Cells \cup {None}), NEW places \in SUBSET DOMAIN cells
  PROVE  FirstCell(cells, places) \in Cells \cup {None}
  BY Least DEF FirstCell

LEMMA ColumnTyped ==
  ASSUME NEW header, NEW cells \in Seq(Cells \cup {None}), NEW kind
  PROVE  Column(header, cells, kind) \in Cells \cup {None}
  BY DEF Column

LEMMA RecordOfTyped ==
  ASSUME NEW header, NEW cells \in Seq(Cells \cup {None})
  PROVE  RecordOf(header, cells) \in Readings
  <1>1. ParseImportRow(cells) \in Readings
    BY FirstCellTyped DEF ParseImportRow, Readings
  <1>2. \A kind \in CellKinds : Column(header, cells, kind) \in Cells \cup {None}
    BY ColumnTyped
  <1>3. QED
    BY <1>1, <1>2 DEF RecordOf, Readings, CellKinds

LEMMA RecordsTyped ==
  ASSUME NEW f \in Files
  PROVE  Records(f) \in Seq(Readings)
  <1>1. f.rows \in Seq(Seq(Cells \cup {None}))
    BY HarvestAssumption DEF FileType
  <1>2. \A i \in 1 .. Len(f.rows) : RecordOf(f.header, f.rows[i]) \in Readings
    BY <1>1, RecordOfTyped
  <1>3. Records(f) = [i \in 1 .. Len(f.rows) |-> RecordOf(f.header, f.rows[i])]
    BY <1>1 DEF Records
  <1>4. QED
    BY <1>1, <1>2, <1>3

(* The numbers of records.                                                 *)
LEMMA NumbersTyped ==
  ASSUME NEW records \in Seq(Readings)
  PROVE  NumbersOf(records) \subseteq Cells
  <1>1. \A r \in Readings : r.nomor \in Cells \cup {None}
    BY DEF Readings
  <1>2. \A i \in DOMAIN records : records[i] \in Readings
    OBVIOUS
  <1>3. QED
    BY <1>1, <1>2 DEF NumbersOf

LEMMA NumbersOfTail ==
  ASSUME NEW S, NEW records \in Seq(S), records # <<>>
  PROVE  /\ NumbersOf(Tail(records)) \subseteq NumbersOf(records)
         /\ Head(records).nomor # None
              => Head(records).nomor \in NumbersOf(records)
  <1>1. \A i \in DOMAIN Tail(records) :
          i + 1 \in DOMAIN records /\ Tail(records)[i] = records[i + 1]
    OBVIOUS
  <1>2. 1 \in DOMAIN records /\ Head(records) = records[1]
    OBVIOUS
  <1>3. QED
    BY <1>1, <1>2 DEF NumbersOf

LEMMA NumbersOfMore ==
  ASSUME NEW S, NEW records \in Seq(S), NEW r
  PROVE  NumbersOf(Append(records, r)) \subseteq NumbersOf(records) \cup {r.nomor}
  <1>1. \A i \in DOMAIN Append(records, r) :
          \/ Append(records, r)[i] = r
          \/ i \in DOMAIN records /\ Append(records, r)[i] = records[i]
    OBVIOUS
  <1>2. QED
    BY <1>1 DEF NumbersOf

(* The rows of a clear file are read as they are meant.                    *)
LEMMA HeaderIsRead ==
  ASSUME NEW c \in Cards, NEW o \in Orders, NEW kind \in CellKinds
  PROVE  Column(o, [j \in 1 .. 3 |-> Cell(o[j], c)], kind) = Cell(kind, c)
  <1> DEFINE columns == {i \in DOMAIN o : o[i] = kind}
  <1>1. columns \in SUBSET (1 .. 3) /\ columns # {}
    BY DEF Orders
  <1>2. Latest(columns) \in columns
    BY <1>1, Greatest
  <1>3. QED
    BY <1>1, <1>2 DEF Column

LEMMA OrderIsRead ==
  ASSUME NEW c \in Cards, NEW o \in Orders, NikFirst(o),
         NEW cells, cells = [j \in 1 .. 3 |-> Cell(o[j], c)]
  PROVE  /\ ParseImportRow(cells).nomor = Cell("nomor", c)
         /\ ParseImportRow(cells).nik = Cell("nik", c)
         /\ ParseImportRow(cells).kk = Cell("kk", c)
  <1>1. PICK i \in 1 .. 3, j \in 1 .. 3 : i < j /\ o[i] = "nik" /\ o[j] = "kk"
    BY DEF NikFirst
  <1>2. PICK n \in 1 .. 3 : o[n] = "nomor"
    BY DEF Orders, CellKinds
  <1>3. \A m \in 1 .. 3 : m \in {n, i, j}
    BY <1>1, <1>2
  <1>4. DOMAIN cells = 1 .. 3 /\ \A m \in 1 .. 3 : cells[m] = Cell(o[m], c)
    OBVIOUS
  <1> DEFINE numbers == {m \in DOMAIN cells : cells[m].kind = "nomor"}
             sixteen == {m \in DOMAIN cells : Sixteen(cells[m])}
             later == {m \in sixteen : \E l \in sixteen : l < m}
  <1>5. numbers = {n} /\ sixteen = {i, j}
    BY <1>1, <1>2, <1>3, <1>4 DEF Cell, Sixteen
  <1>6. later = {j}
    BY <1>1, <1>5
  <1>7. Earliest(numbers) = n /\ Earliest(sixteen) = i /\ Earliest(later) = j
    <2>1. {n} \in SUBSET Nat /\ {i, j} \in SUBSET Nat /\ {j} \in SUBSET Nat
      OBVIOUS
    <2>2. /\ Earliest({n}) \in {n} /\ Earliest({j}) \in {j}
          /\ Earliest({i, j}) \in {i, j} /\ Earliest({i, j}) <= i
      BY <2>1, Least
    <2> HIDE DEF numbers, sixteen, later
    <2>3. Earliest({n}) = n /\ Earliest({i, j}) = i /\ Earliest({j}) = j
      BY <1>1, <2>2
    <2>4. QED
      BY <1>5, <1>6, <2>3
  <1>8. QED
    BY <1>1, <1>2, <1>4, <1>5, <1>6, <1>7 DEF ParseImportRow, FirstCell

LEMMA ClearIsOwn ==
  ASSUME NEW f \in Files, Clear(f), NEW i \in DOMAIN Records(f)
  PROVE  OwnRecord(Records(f)[i])
  <1>1. i \in DOMAIN f.rows /\ Records(f)[i] = RecordOf(f.header, f.rows[i])
    BY DEF Records
  <1>2. PICK c \in Cards, o \in Orders :
          /\ f.rows[i] = [j \in 1 .. 3 |-> Cell(o[j], c)]
          /\ f.header = o \/ (f.header = <<>> /\ NikFirst(o))
    BY <1>1 DEF Clear
  <1>3. /\ Cell("nomor", c) # None /\ Cell("nik", c) # None
        /\ Cell("kk", c) # None
    BY CellTyped DEF CellKinds
  <1>4. CASE f.header = o
    <2>1. o # <<>>
      BY DEF Orders
    <2>2. /\ Column(f.header, f.rows[i], "nomor") = Cell("nomor", c)
          /\ Column(f.header, f.rows[i], "nik") = Cell("nik", c)
          /\ Column(f.header, f.rows[i], "kk") = Cell("kk", c)
      BY <1>2, <1>4, HeaderIsRead DEF CellKinds
    <2>3. QED
      BY <1>1, <1>3, <2>2 DEF RecordOf, OwnRecord, CellKinds
  <1>5. CASE f.header = <<>> /\ NikFirst(o)
    <2>1. /\ Column(f.header, f.rows[i], "nomor") = None
          /\ Column(f.header, f.rows[i], "nik") = None
          /\ Column(f.header, f.rows[i], "kk") = None
      BY <1>5 DEF Column
    <2>2. /\ ParseImportRow(f.rows[i]).nomor = Cell("nomor", c)
          /\ ParseImportRow(f.rows[i]).nik = Cell("nik", c)
          /\ ParseImportRow(f.rows[i]).kk = Cell("kk", c)
      BY <1>2, <1>5, OrderIsRead
    <2>3. QED
      BY <1>1, <1>5, <2>1, <2>2 DEF RecordOf, OwnRecord, CellKinds
  <1>6. QED
    BY <1>2, <1>4, <1>5

-----------------------------------------------------------------------------
(* Types.                                                                  *)

LEMMA NotIdle ==
  ASSUME FlowTyped, flow.pc # "idle"
  PROVE  flow \in [pc : {"phone", "kk", "inject"}, nomor : Cells, pair : Pairs,
                   saved : BOOLEAN]
  BY DEF FlowTyped, FlowIdle

LEMMA ImporterShape ==
  ASSUME ImporterTyped
  PROVE  /\ importer.pc = "read" =>
              importer \in [pc : {"read"}, left : Seq(Readings),
                            batch : Seq(FullRecords)]
         /\ importer.pc = "batch" =>
              importer \in [pc : {"batch"}, left : Seq(Readings),
                            batch : Seq(FullRecords), trans : Tables]
         /\ importer.pc = "fill" => importer \in [pc : {"fill"}, table : Tables]
  BY DEF ImporterTyped, ImportIdle

LEMMA DeleterShape ==
  ASSUME DeleterTyped
  PROVE  /\ deleter.pc \in {"idle", "all", "row"}
         /\ deleter.pc = "row" => deleter.nomor \in Cells
  BY DEF DeleterTyped, DeleterIdle

LEMMA PairIsTyped ==
  ASSUME NEW r \in FullRecords
  PROVE  /\ r.nomor \in Cells /\ r.nik \in Cells /\ r.kk \in Cells
         /\ Pair(r) \in Pairs /\ Pair(r) # None
  BY DEF FullRecords, Pair, Pairs, None

LEMMA HarvestInitial == HarvestInit => HarvestInv
  <1> SUFFICES ASSUME HarvestInit PROVE HarvestInv
    OBVIOUS
  <1> USE DEF HarvestInit
  <1>1. HarvestTyped
    <2>1. Empty \in Tables /\ Empty \in [Cells -> Cells \cup {None}]
      BY DEF Empty, Tables
    <2>2. FlowTyped /\ ImporterTyped /\ DeleterTyped
      BY DEF FlowTyped, ImporterTyped, DeleterTyped
    <2>3. /\ TablesTyped /\ events \in 0 .. MaxEvents
          /\ gone \subseteq Cells /\ met \subseteq Cells /\ given \subseteq Cells
      BY <2>1, HarvestAssumption DEF TablesTyped
    <2>4. QED
      BY <2>2, <2>3 DEF HarvestTyped, RecordTyped
  <1>2. \A n \in Cells : db[n] = None /\ phone[n] = None /\ kkOf[n] = None
    BY DEF Empty
  <1>3. flow.pc = "idle" /\ importer.pc = "idle" /\ deleter.pc = "idle"
    BY DEF FlowIdle, ImportIdle, DeleterIdle
  <1>4. AllIsGiven
    BY <1>2, <1>3 DEF AllIsGiven, StoreIsGiven, FlowIsGiven, ImportIsGiven,
                      OwnTable, OwnKks, IsOwn
  <1>5. AllIsCached /\ DeletesAlone /\ AllAreGone
    BY <1>2, <1>3 DEF AllIsCached, Cached, DeletesAlone, AllAreGone, Deleting,
                      DeletedAreGone, OutOfTable, OutOfCache
  <1>6. QED
    BY <1>1, <1>4, <1>5 DEF HarvestInv

LEMMA StartedPair ==
  ASSUME HarvestTyped, NEW c \in Cards, StartFlow(c)
  PROVE  /\ flow'.pc = "phone" /\ flow'.nomor = Cell("nomor", c)
         /\ flow'.saved = FALSE /\ flow' = [pc |-> "phone", nomor |-> Cell("nomor", c),
                                           pair |-> flow'.pair, saved |-> FALSE]
         /\ flow'.pair \in Pairs
         /\ \/ flow'.pair = phone[Cell("nomor", c)] /\ flow'.pair # None
            \/ flow'.pair = PairOf(c)
            \/ /\ kkOf[Cell("nik", c)] # None
               /\ flow'.pair = [PairOf(c) EXCEPT !.kk = kkOf[Cell("nik", c)]]
  <1>1. /\ Cell("nomor", c) \in Cells /\ Cell("nik", c) \in Cells
        /\ Cell("kk", c) \in Cells
    BY CellTyped DEF CellKinds
  <1>2. PairOf(c) \in Pairs /\ PairOf(c).nik = Cell("nik", c)
    BY <1>1 DEF PairOf, Pairs
  <1>3. /\ phone[Cell("nomor", c)] \in Pairs \cup {None}
        /\ kkOf[Cell("nik", c)] \in Cells \cup {None}
    BY <1>1 DEF HarvestTyped, TablesTyped, Tables
  <1>4. kkOf[Cell("nik", c)] # None =>
          [PairOf(c) EXCEPT !.kk = kkOf[Cell("nik", c)]] \in Pairs
    BY <1>2, <1>3 DEF Pairs
  <1>5. QED
    BY <1>2, <1>3, <1>4 DEF StartFlow, LookupPhoneCache

LEMMA FlowKept ==
  HarvestTyped /\ [HarvestNext]_harvestVars => FlowTyped'
  <1> SUFFICES ASSUME HarvestTyped, [HarvestNext]_harvestVars PROVE FlowTyped'
    OBVIOUS
  <1>0. FlowTyped
    BY DEF HarvestTyped
  <1>1. ASSUME NEW c \in Cards, StartFlow(c) PROVE FlowTyped'
    <2>1. Cell("nomor", c) \in Cells
      BY CellTyped DEF CellKinds
    <2>2. [pc |-> "phone", nomor |-> Cell("nomor", c), pair |-> flow'.pair,
           saved |-> FALSE]
            \in [pc : {"phone", "kk", "inject"}, nomor : Cells, pair : Pairs,
                saved : BOOLEAN]
      BY <1>1, <2>1, StartedPair
    <2>3. QED
      BY Zenon, <1>1, <2>2, StartedPair DEF FlowTyped
  <1>2. CASE DropPair \/ CachePhone \/ CacheKk \/ SaveToHarvestDb \/ FlowFails
    <2>1. flow.pc # "idle"
      BY <1>2 DEF CachePhone, CacheKk, SaveToHarvestDb, DropPair, FlowFails
    <2>2. flow \in [pc : {"phone", "kk", "inject"}, nomor : Cells, pair : Pairs,
                    saved : BOOLEAN]
      BY <1>0, <2>1, NotIdle
    <2>3. /\ [flow EXCEPT !.pc = "kk"] \in [pc : {"phone", "kk", "inject"},
                 nomor : Cells, pair : Pairs, saved : BOOLEAN]
          /\ [flow EXCEPT !.pc = "inject"] \in [pc : {"phone", "kk", "inject"},
                 nomor : Cells, pair : Pairs, saved : BOOLEAN]
          /\ [flow EXCEPT !.pc = "phone", !.saved = TRUE] \in
                [pc : {"phone", "kk", "inject"}, nomor : Cells, pair : Pairs,
                 saved : BOOLEAN]
      BY <2>2
    <2>4. flow' \in {FlowIdle, [flow EXCEPT !.pc = "kk"],
                    [flow EXCEPT !.pc = "inject"],
                    [flow EXCEPT !.pc = "phone", !.saved = TRUE]}
      BY Zenon, <1>2 DEF CachePhone, CacheKk, SaveToHarvestDb, DropPair, FlowFails
    <2>5. QED
      BY Zenon, <2>3, <2>4 DEF FlowTyped
  <1>3. CASE flow' = flow \/ flow' = FlowIdle
    BY <1>0, <1>3 DEF FlowTyped
  <1>4. Importing \/ Window \/ BatchFails \/ Restart
        \/ (\E f \in Files : Import(f)) \/ UNCHANGED harvestVars
          => flow' = flow \/ flow' = FlowIdle
    BY DEF Importing, ReadRecord, TakeBatch, InsertRecord, CommitBatch,
           ReadTable, FillCaches, Window, Refresh, DeleteAll, DeleteRow,
           ClearCaches, PopRow, BatchFails, Restart, Import, harvestVars
  <1>5. QED
    BY <1>1, <1>2, <1>3, <1>4 DEF HarvestNext, Flow

LEMMA WithRowsTyped ==
  ASSUME NEW cache \in [Cells -> Cells \cup {None}], NEW table \in Tables
  PROVE  WithRows(cache, table) \in [Cells -> Cells \cup {None}]
  <1>1. ASSUME NEW k \in Cells,
               {n \in Cells : table[n] # None /\ table[n].nik = k} # {}
        PROVE  table[CHOOSE n \in {n \in Cells : table[n] # None /\ table[n].nik = k} :
                       TRUE].kk \in Cells
    <2> DEFINE rows == {n \in Cells : table[n] # None /\ table[n].nik = k}
    <2>1. (CHOOSE n \in rows : TRUE) \in rows
      BY <1>1
    <2>2. table[CHOOSE n \in rows : TRUE] \in Pairs
      BY <2>1 DEF Tables
    <2>3. QED
      BY <2>2 DEF Pairs
  <1>2. QED
    BY <1>1 DEF WithRows

LEMMA TablesKept ==
  HarvestTyped /\ [HarvestNext]_harvestVars => TablesTyped'
  <1> SUFFICES ASSUME HarvestTyped, [HarvestNext]_harvestVars PROVE TablesTyped'
    OBVIOUS
  <1>0. TablesTyped /\ FlowTyped /\ ImporterTyped /\ DeleterTyped
    BY DEF HarvestTyped
  <1>1. Empty \in Tables /\ Empty \in [Cells -> Cells \cup {None}]
    BY DEF Empty, Tables
  <1>2. shown' \in {shown, db, Empty}
    BY DEF HarvestNext, Flow, StartFlow, CachePhone, CacheKk, SaveToHarvestDb,
           DropPair, FlowFails, Importing, ReadRecord, TakeBatch, InsertRecord,
           CommitBatch, ReadTable, FillCaches, Window, Refresh, DeleteAll,
           DeleteRow, ClearCaches, PopRow, BatchFails, Restart, Import,
           harvestVars
  <1>3. shown' \in Tables
    BY <1>0, <1>1, <1>2 DEF TablesTyped
  <1>4. CASE UNCHANGED <<db, phone, kkOf>>
    BY <1>0, <1>3, <1>4 DEF TablesTyped
  <1>5. CASE CachePhone \/ CacheKk \/ SaveToHarvestDb
    <2>1. flow.pc # "idle"
      BY <1>5 DEF CachePhone, CacheKk, SaveToHarvestDb
    <2>2. flow.nomor \in Cells /\ flow.pair \in Pairs
      BY <1>0, <2>1, NotIdle
    <2>3. flow.pair.nik \in Cells /\ flow.pair.kk \in Cells
      BY <2>2 DEF Pairs
    <2>4. QED
      BY <1>0, <1>3, <1>5, <2>2, <2>3
      DEF CachePhone, CacheKk, SaveToHarvestDb, TablesTyped, Tables, caches
  <1>6. CASE InsertRecord
    <2>1. importer.batch \in Seq(FullRecords) /\ importer.batch # <<>>
      BY <1>0, <1>6, ImporterShape DEF InsertRecord
    <2>2. Head(importer.batch) \in FullRecords
      BY <2>1
    <2>3. QED
      BY <1>0, <1>3, <1>6, <2>2, PairIsTyped DEF InsertRecord, TablesTyped, Tables
  <1>7. CASE CommitBatch
    BY <1>0, <1>3, <1>7, ImporterShape DEF CommitBatch, TablesTyped, caches
  <1>8. CASE FillCaches
    <2>1. importer.table \in Tables
      BY <1>0, <1>8, ImporterShape DEF FillCaches
    <2>2. phone' \in Tables
      BY <1>0, <1>8, <2>1 DEF FillCaches, TablesTyped, Tables
    <2>3. QED
      BY <1>0, <1>3, <1>8, <2>1, <2>2, WithRowsTyped DEF FillCaches, TablesTyped
  <1>9. CASE DeleteAll \/ (\E n \in Cells : DeleteRow(n)) \/ ClearCaches
    BY <1>0, <1>1, <1>3, <1>9
    DEF DeleteAll, DeleteRow, ClearCaches, TablesTyped, Tables, caches
  <1>10. CASE PopRow
    <2>1. kkOf' \in [Cells -> Cells \cup {None}]
      BY <1>0, <1>10 DEF PopRow, TablesTyped
    <2>2. QED
      BY <1>0, <1>3, <1>10, <2>1 DEF PopRow, TablesTyped, Tables
  <1>11. CASE Restart
    BY <1>0, <1>1, <1>3, <1>11, WithRowsTyped DEF Restart, TablesTyped
  <1>12. (\E c \in Cards : StartFlow(c)) \/ DropPair \/ FlowFails \/ ReadRecord \/ TakeBatch
         \/ ReadTable \/ Refresh \/ BatchFails \/ (\E f \in Files : Import(f))
         \/ UNCHANGED harvestVars => UNCHANGED <<db, phone, kkOf>>
    BY DEF StartFlow, DropPair, FlowFails, ReadRecord, TakeBatch, ReadTable, Refresh,
           BatchFails, Import, harvestVars, caches
  <1>13. QED
    BY <1>4, <1>5, <1>6, <1>7, <1>8, <1>9, <1>10, <1>11, <1>12
    DEF HarvestNext, Flow, Importing, Window

LEMMA ImporterKept ==
  HarvestTyped /\ [HarvestNext]_harvestVars => ImporterTyped'
  <1> SUFFICES ASSUME HarvestTyped, [HarvestNext]_harvestVars PROVE ImporterTyped'
    OBVIOUS
  <1>0. TablesTyped /\ ImporterTyped
    BY DEF HarvestTyped
  <1>1. CASE importer' = importer \/ importer' = ImportIdle
    BY <1>0, <1>1 DEF ImporterTyped
  <1>2. ASSUME NEW f \in Files, Import(f) PROVE ImporterTyped'
    BY <1>2, RecordsTyped DEF Import, ImporterTyped
  <1>3. CASE ReadRecord
    <2>1. importer \in [pc : {"read"}, left : Seq(Readings), batch : Seq(FullRecords)]
      BY <1>0, <1>3, ImporterShape DEF ReadRecord
    <2>2. /\ Head(importer.left) \in Readings
          /\ Tail(importer.left) \in Seq(Readings)
      BY <1>3, <2>1 DEF ReadRecord
    <2>3. Complete(Head(importer.left)) =>
            Append(importer.batch, Head(importer.left)) \in Seq(FullRecords)
      <3>1. Complete(Head(importer.left)) => Head(importer.left) \in FullRecords
        BY <2>2 DEF Complete, Readings, FullRecords
      <3>2. QED
        BY <2>1, <3>1
    <2>4. importer' \in [pc : {"read"}, left : Seq(Readings), batch : Seq(FullRecords)]
      BY <1>3, <2>1, <2>2, <2>3 DEF ReadRecord
    <2>5. QED
      BY <2>4 DEF ImporterTyped
  <1>4. CASE TakeBatch
    BY <1>0, <1>4, ImporterShape DEF TakeBatch, ImporterTyped, TablesTyped
  <1>5. CASE InsertRecord
    <2>1. importer \in [pc : {"batch"}, left : Seq(Readings),
                        batch : Seq(FullRecords), trans : Tables]
      BY <1>0, <1>5, ImporterShape DEF InsertRecord
    <2>2. /\ Head(importer.batch) \in FullRecords
          /\ Tail(importer.batch) \in Seq(FullRecords)
      BY <1>5, <2>1 DEF InsertRecord
    <2>3. [importer.trans EXCEPT ![Head(importer.batch).nomor] =
             Pair(Head(importer.batch))] \in Tables
      BY <2>1, <2>2, PairIsTyped DEF Tables
    <2>4. importer' = [[importer EXCEPT !.batch = Tail(importer.batch)]
                         EXCEPT !.trans =
                           [importer.trans EXCEPT ![Head(importer.batch).nomor] =
                              Pair(Head(importer.batch))]]
      BY <1>5, <2>1 DEF InsertRecord
    <2>5. QED
      BY <2>1, <2>2, <2>3, <2>4 DEF ImporterTyped
  <1>6. CASE CommitBatch \/ BatchFails
    <2>1. importer.left \in Seq(Readings) /\ <<>> \in Seq(FullRecords)
      BY <1>0, <1>6, ImporterShape DEF CommitBatch, BatchFails
    <2>2. importer' = [pc |-> "read", left |-> importer.left, batch |-> <<>>]
      BY <1>6 DEF CommitBatch, BatchFails
    <2>3. QED
      BY <2>1, <2>2 DEF ImporterTyped
  <1>7. CASE ReadTable
    BY <1>0, <1>7 DEF ReadTable, ImporterTyped, TablesTyped
  <1>8. Flow \/ Window \/ FillCaches \/ Restart \/ UNCHANGED harvestVars
          => importer' = importer \/ importer' = ImportIdle
    BY DEF Flow, StartFlow, CachePhone, CacheKk, SaveToHarvestDb, DropPair, FlowFails,
           FillCaches, Window, Refresh, DeleteAll, DeleteRow, ClearCaches,
           PopRow, Restart, harvestVars
  <1>9. QED
    BY <1>1, <1>2, <1>3, <1>4, <1>5, <1>6, <1>7, <1>8 DEF HarvestNext, Importing

LEMMA DeleterKept ==
  HarvestTyped /\ [HarvestNext]_harvestVars => DeleterTyped' /\ RecordTyped'
  <1> SUFFICES ASSUME HarvestTyped, [HarvestNext]_harvestVars
               PROVE  DeleterTyped' /\ RecordTyped'
    OBVIOUS
  <1>0. DeleterTyped /\ RecordTyped
    BY DEF HarvestTyped
  <1>1. DeleterTyped'
    <2>1. \/ deleter' = deleter \/ deleter' = DeleterIdle
          \/ deleter' = [pc |-> "all"]
          \/ \E n \in Cells : deleter' = [pc |-> "row", nomor |-> n]
      BY DEF HarvestNext, Flow, StartFlow, CachePhone, CacheKk, SaveToHarvestDb,
             DropPair, FlowFails, Importing, ReadRecord, TakeBatch, InsertRecord,
             CommitBatch, ReadTable, FillCaches, Window, Refresh, DeleteAll,
             DeleteRow, ClearCaches, PopRow, BatchFails, Restart, Import,
             harvestVars
    <2>2. QED
      BY <1>0, <2>1 DEF DeleterTyped
  <1>2. gone' \subseteq Cells /\ met' \subseteq Cells /\ given' \subseteq Cells
    <2>0. gone \subseteq Cells /\ met \subseteq Cells /\ given \subseteq Cells
      BY <1>0 DEF RecordTyped
    <2>1. CASE DeleteAll \/ \E n \in Cells : DeleteRow(n)
      BY <2>0, <2>1 DEF DeleteAll, DeleteRow, Deletes, UnderWay
    <2>2. ASSUME NEW c \in Cards, StartFlow(c)
          PROVE  gone' \subseteq Cells /\ met' \subseteq Cells /\ given' \subseteq Cells
      BY <2>0, <2>2, CellTyped DEF StartFlow, Begins, CellKinds
    <2>3. ASSUME NEW f \in Files, Import(f)
          PROVE  gone' \subseteq Cells /\ met' \subseteq Cells /\ given' \subseteq Cells
      BY <2>0, <2>3, RecordsTyped, NumbersTyped DEF Import, Begins
    <2>4. CASE InsertRecord
      <3>1. importer.batch \in Seq(FullRecords) /\ importer.batch # <<>>
        BY <2>4, ImporterShape DEF InsertRecord, HarvestTyped
      <3>2. Head(importer.batch).nomor \in Cells
        BY <3>1, PairIsTyped
      <3>3. QED
        BY <2>0, <2>4, <3>2 DEF InsertRecord
    <2>5. CASE /\ gone' \in {gone, gone \ given, gone \ {flow.nomor}}
               /\ met' \in {met, {}} /\ given' \in {given, {}}
      BY <2>0, <2>5
    <2>6. DropPair \/ CachePhone \/ CacheKk \/ SaveToHarvestDb \/ FlowFails
          \/ ReadRecord \/ TakeBatch \/ CommitBatch \/ ReadTable \/ FillCaches
          \/ Refresh \/ ClearCaches \/ PopRow \/ BatchFails \/ Restart
          \/ UNCHANGED harvestVars
            => /\ gone' \in {gone, gone \ given, gone \ {flow.nomor}}
               /\ met' \in {met, {}} /\ given' \in {given, {}}
      BY DEF DropPair, CachePhone, CacheKk, SaveToHarvestDb, FlowFails,
             ReadRecord, TakeBatch, CommitBatch, ReadTable, FillCaches, Refresh,
             ClearCaches, PopRow, BatchFails, Restart, harvestVars, history,
             deletions
    <2>7. QED
      BY <2>1, <2>2, <2>3, <2>4, <2>5, <2>6 DEF HarvestNext, Flow, Importing, Window
  <1>3. events' \in 0 .. MaxEvents
    BY <1>0, HarvestAssumption
    DEF HarvestNext, Flow, StartFlow, CachePhone, CacheKk, SaveToHarvestDb,
        DropPair, FlowFails, Importing, ReadRecord, TakeBatch, InsertRecord, CommitBatch,
        ReadTable, FillCaches, Window, Refresh, DeleteAll, DeleteRow,
        ClearCaches, PopRow, BatchFails, Restart, Import, harvestVars, Event,
        Deletes, Begins, RecordTyped
  <1>4. odd' \in BOOLEAN /\ raced' \in BOOLEAN
    BY Zenon, <1>0
    DEF HarvestNext, Flow, StartFlow, CachePhone, CacheKk, SaveToHarvestDb,
        DropPair, FlowFails, Importing, ReadRecord, TakeBatch, InsertRecord, CommitBatch,
        ReadTable, FillCaches, Window, Refresh, DeleteAll, DeleteRow,
        ClearCaches, PopRow, BatchFails, Restart, Import, harvestVars, history,
        Deletes, Begins, RecordTyped
  <1>5. QED
    BY <1>1, <1>2, <1>3, <1>4 DEF RecordTyped

LEMMA HarvestTypesKept ==
  HarvestTyped /\ [HarvestNext]_harvestVars => HarvestTyped'
  BY FlowKept, ImporterKept, DeleterKept, TablesKept DEF HarvestTyped

-----------------------------------------------------------------------------
(* What is stored was given.                                               *)

LEMMA OwnIsOwn ==
  ASSUME NEW r \in FullRecords, OwnRecord(r)
  PROVE  /\ IsOwn(r.nomor, Pair(r))
         /\ r.kk = Cell("kk", r.nik.of)
  BY DEF OwnRecord, IsOwn, Pair, PairOf, Cell

LEMMA WithOwnRows ==
  ASSUME NEW cache \in [Cells -> Cells \cup {None}], NEW table \in Tables,
         OwnKks(cache), OwnTable(table)
  PROVE  OwnKks(WithRows(cache, table))
  <1>1. ASSUME NEW k \in Cells,
               {n \in Cells : table[n] # None /\ table[n].nik = k} # {}
        PROVE  table[CHOOSE n \in {n \in Cells : table[n] # None /\ table[n].nik = k} :
                       TRUE].kk = Cell("kk", k.of)
    <2> DEFINE rows == {n \in Cells : table[n] # None /\ table[n].nik = k}
    <2>1. (CHOOSE n \in rows : TRUE) \in rows
      BY <1>1
    <2>2. PICK n \in rows : n = CHOOSE m \in rows : TRUE
      BY <2>1
    <2>3. table[n] = PairOf(n.of) /\ table[n].nik = k
      BY <2>2 DEF OwnTable, IsOwn
    <2>4. QED
      BY <2>2, <2>3 DEF PairOf, Cell
  <1>2. QED
    BY <1>1 DEF WithRows, OwnKks

LEMMA StoreKept ==
  ASSUME HarvestTyped, AllIsGiven, ~odd, HarvestNext
  PROVE  StoreIsGiven'
  <1>0. /\ TablesTyped /\ FlowTyped /\ ImporterTyped
        /\ StoreIsGiven /\ FlowIsGiven /\ ImportIsGiven
    BY DEF HarvestTyped, AllIsGiven
  <1>1. OwnTable(Empty) /\ OwnKks(Empty) /\ Empty \in [Cells -> Cells \cup {None}]
    BY DEF OwnTable, OwnKks, Empty, IsOwn
  <1>2. CASE UNCHANGED <<db, phone, kkOf>>
    BY <1>0, <1>2 DEF StoreIsGiven
  <1>3. CASE CachePhone \/ CacheKk \/ SaveToHarvestDb
    <2>1. flow.pc # "idle"
      BY <1>3 DEF CachePhone, CacheKk, SaveToHarvestDb
    <2>2. /\ flow.nomor \in Cells /\ flow.pair \in Pairs
          /\ IsOwn(flow.nomor, flow.pair) /\ flow.pair # None
      BY <1>0, <2>1, NotIdle DEF FlowIsGiven, Pairs, None
    <2>3. flow.pair.kk = Cell("kk", flow.pair.nik.of)
      BY <2>2 DEF IsOwn, PairOf, Cell
    <2>4. QED
      BY <1>0, <1>3, <2>2, <2>3
      DEF CachePhone, CacheKk, SaveToHarvestDb, StoreIsGiven, OwnTable, OwnKks,
          TablesTyped, Tables, caches
  <1>4. CASE InsertRecord
    <2>1. /\ importer.batch \in Seq(FullRecords) /\ importer.batch # <<>>
          /\ OwnRecord(importer.batch[1])
      BY <1>0, <1>4, ImporterShape DEF InsertRecord, ImportIsGiven
    <2>2. /\ Head(importer.batch) \in FullRecords
          /\ OwnRecord(Head(importer.batch))
      BY <2>1
    <2>3. QED
      BY <1>0, <1>4, <2>2, OwnIsOwn
      DEF InsertRecord, StoreIsGiven, OwnTable, OwnKks, TablesTyped, Tables
  <1>5. CASE CommitBatch
    BY <1>0, <1>5 DEF CommitBatch, StoreIsGiven, ImportIsGiven, caches
  <1>6. CASE FillCaches
    <2>1. importer.table \in Tables /\ OwnTable(importer.table)
      BY <1>0, <1>6, ImporterShape DEF FillCaches, ImportIsGiven
    <2>2. OwnTable(phone')
      BY <1>0, <1>6, <2>1 DEF FillCaches, StoreIsGiven, OwnTable
    <2>3. OwnKks(kkOf')
      BY <1>0, <1>6, <2>1, WithOwnRows DEF FillCaches, StoreIsGiven, TablesTyped
    <2>4. QED
      BY <1>0, <1>6, <2>2, <2>3 DEF FillCaches, StoreIsGiven
  <1>7. CASE DeleteAll \/ ClearCaches
    BY <1>0, <1>1, <1>7 DEF DeleteAll, ClearCaches, StoreIsGiven, caches
  <1>8. ASSUME NEW n \in Cells, DeleteRow(n) PROVE StoreIsGiven'
    BY <1>0, <1>8
    DEF DeleteRow, StoreIsGiven, OwnTable, IsOwn, TablesTyped, Tables, caches
  <1>9. CASE PopRow
    <2>1. OwnTable(phone')
      BY <1>0, <1>9
      DEF PopRow, StoreIsGiven, OwnTable, IsOwn, TablesTyped, Tables
    <2>2. OwnKks(kkOf')
      BY <1>0, <1>9 DEF PopRow, StoreIsGiven, OwnKks, TablesTyped
    <2>3. QED
      BY <1>0, <1>9, <2>1, <2>2 DEF PopRow, StoreIsGiven
  <1>10. CASE Restart
    BY <1>0, <1>1, <1>10, WithOwnRows DEF Restart, StoreIsGiven, TablesTyped
  <1>11. (\E c \in Cards : StartFlow(c)) \/ DropPair \/ FlowFails \/ ReadRecord \/ TakeBatch
         \/ ReadTable \/ Refresh \/ BatchFails \/ (\E f \in Files : Import(f))
           => UNCHANGED <<db, phone, kkOf>>
    BY DEF StartFlow, DropPair, FlowFails, ReadRecord, TakeBatch, ReadTable, Refresh,
           BatchFails, Import, caches
  <1>12. QED
    BY <1>2, <1>3, <1>4, <1>5, <1>6, <1>7, <1>8, <1>9, <1>10, <1>11
    DEF HarvestNext, Flow, Importing, Window

LEMMA FlowStaysGiven ==
  ASSUME HarvestTyped, AllIsGiven, ~odd, HarvestNext
  PROVE  FlowIsGiven'
  <1>0. TablesTyped /\ FlowTyped /\ StoreIsGiven /\ FlowIsGiven
    BY DEF HarvestTyped, AllIsGiven
  <1>1. ASSUME NEW c \in Cards, StartFlow(c) PROVE FlowIsGiven'
    <2>1. Cell("nomor", c) \in Cells /\ Cell("nik", c) \in Cells
      BY CellTyped DEF CellKinds
    <2>2. IsOwn(Cell("nomor", c), phone[Cell("nomor", c)])
      BY <1>0, <2>1 DEF StoreIsGiven, OwnTable
    <2>3. kkOf[Cell("nik", c)] # None => kkOf[Cell("nik", c)] = Cell("kk", c)
      BY <1>0, <2>1 DEF StoreIsGiven, OwnKks, Cell
    <2>4. [PairOf(c) EXCEPT !.kk = Cell("kk", c)] = PairOf(c)
      BY DEF PairOf
    <2>5. IsOwn(Cell("nomor", c), PairOf(c))
      BY DEF IsOwn, Cell
    <2>6. IsOwn(Cell("nomor", c), flow'.pair) /\ flow'.nomor = Cell("nomor", c)
      BY <1>1, <2>2, <2>3, <2>4, <2>5, StartedPair
    <2>7. QED
      BY <2>6 DEF FlowIsGiven
  <1>2. CASE DropPair \/ CachePhone \/ CacheKk \/ SaveToHarvestDb \/ FlowFails
    <2>1. flow.pc # "idle"
      BY <1>2 DEF CachePhone, CacheKk, SaveToHarvestDb, DropPair, FlowFails
    <2>2. flow \in [pc : {"phone", "kk", "inject"}, nomor : Cells, pair : Pairs,
                    saved : BOOLEAN]
      BY <1>0, <2>1, NotIdle
    <2> DEFINE Same(f) == f.nomor = flow.nomor /\ f.pair = flow.pair
    <2>3. /\ Same([flow EXCEPT !.pc = "kk"]) /\ Same([flow EXCEPT !.pc = "inject"])
          /\ Same([flow EXCEPT !.pc = "phone", !.saved = TRUE])
      BY <2>2
    <2>4. flow' \in {FlowIdle, [flow EXCEPT !.pc = "kk"],
                    [flow EXCEPT !.pc = "inject"],
                    [flow EXCEPT !.pc = "phone", !.saved = TRUE]}
      BY Zenon, <1>2 DEF CachePhone, CacheKk, SaveToHarvestDb, DropPair, FlowFails
    <2>5. flow' = FlowIdle \/ Same(flow')
      <3> HIDE DEF Same
      <3>1. QED
        BY Zenon, <2>3, <2>4
    <2>6. QED
      BY <1>0, <2>1, <2>5 DEF FlowIsGiven, FlowIdle
  <1>3. Importing \/ Window \/ BatchFails \/ Restart \/ (\E f \in Files : Import(f))
          => flow' = flow \/ flow' = FlowIdle
    BY DEF Importing, ReadRecord, TakeBatch, InsertRecord, CommitBatch,
           ReadTable, FillCaches, Window, Refresh, DeleteAll, DeleteRow,
           ClearCaches, PopRow, BatchFails, Restart, Import
  <1>4. CASE flow' = flow \/ flow' = FlowIdle
    BY <1>0, <1>4 DEF FlowIsGiven, FlowIdle
  <1>5. QED
    BY <1>1, <1>2, <1>3, <1>4 DEF HarvestNext, Flow

LEMMA ImportStaysGiven ==
  ASSUME HarvestTyped, AllIsGiven, ~odd', ~odd, HarvestNext
  PROVE  ImportIsGiven'
  <1>0. TablesTyped /\ ImporterTyped /\ StoreIsGiven /\ ImportIsGiven
    BY DEF HarvestTyped, AllIsGiven
  <1>1. ASSUME NEW f \in Files, Import(f) PROVE ImportIsGiven'
    <2>1. Clear(f)
      BY <1>1 DEF Import
    <2>2. importer' = [pc |-> "read", left |-> Records(f), batch |-> <<>>]
      BY <1>1 DEF Import
    <2>3. QED
      BY <2>1, <2>2, ClearIsOwn DEF ImportIsGiven
  <1>2. CASE ReadRecord
    <2>1. importer \in [pc : {"read"}, left : Seq(Readings), batch : Seq(FullRecords)]
      BY <1>0, <1>2, ImporterShape DEF ReadRecord
    <2> DEFINE r == Head(importer.left)
    <2>2. importer.left # <<>> /\ importer.pc = "read"
      BY <1>2 DEF ReadRecord
    <2>3. OwnRecord(r)
      BY <1>0, <2>1, <2>2 DEF ImportIsGiven
    <2>4. \A i \in DOMAIN Tail(importer.left) : OwnRecord(Tail(importer.left)[i])
      <3>1. \A i \in DOMAIN Tail(importer.left) :
              /\ i + 1 \in DOMAIN importer.left
              /\ Tail(importer.left)[i] = importer.left[i + 1]
        BY <2>1, <2>2
      <3>2. QED
        BY <1>0, <2>2, <3>1 DEF ImportIsGiven
    <2>5. \A i \in DOMAIN Append(importer.batch, r) :
            OwnRecord(Append(importer.batch, r)[i])
      <3>1. \A i \in DOMAIN Append(importer.batch, r) :
              \/ Append(importer.batch, r)[i] = r
              \/ /\ i \in DOMAIN importer.batch
                 /\ Append(importer.batch, r)[i] = importer.batch[i]
        BY <2>1
      <3>2. QED
        BY <1>0, <2>2, <2>3, <3>1 DEF ImportIsGiven
    <2>6. /\ importer'.left = Tail(importer.left) /\ importer'.pc = "read"
          /\ importer'.batch \in {importer.batch, Append(importer.batch, r)}
      BY <1>2, <2>1 DEF ReadRecord
    <2> HIDE DEF r
    <2>7. QED
      BY <1>0, <2>2, <2>4, <2>5, <2>6 DEF ImportIsGiven
  <1>3. CASE TakeBatch
    BY <1>0, <1>3 DEF TakeBatch, ImportIsGiven, StoreIsGiven
  <1>4. CASE InsertRecord
    <2>1. importer \in [pc : {"batch"}, left : Seq(Readings),
                        batch : Seq(FullRecords), trans : Tables]
      BY <1>0, <1>4, ImporterShape DEF InsertRecord
    <2> DEFINE r == Head(importer.batch)
    <2>2. importer.batch # <<>> /\ importer.pc = "batch"
      BY <1>4 DEF InsertRecord
    <2>3. r \in FullRecords /\ OwnRecord(r)
      BY <1>0, <2>1, <2>2 DEF ImportIsGiven
    <2>4. \A i \in DOMAIN Tail(importer.batch) : OwnRecord(Tail(importer.batch)[i])
      <3>1. \A i \in DOMAIN Tail(importer.batch) :
              /\ i + 1 \in DOMAIN importer.batch
              /\ Tail(importer.batch)[i] = importer.batch[i + 1]
        BY <2>1, <2>2
      <3>2. QED
        BY <1>0, <2>2, <3>1 DEF ImportIsGiven
    <2>5. OwnTable([importer.trans EXCEPT ![r.nomor] = Pair(r)])
      <3>1. importer.trans \in Tables /\ OwnTable(importer.trans)
        BY <1>0, <2>1, <2>2 DEF ImportIsGiven
      <3> HIDE DEF r
      <3>2. QED
        BY <2>3, <3>1, OwnIsOwn, PairIsTyped DEF OwnTable, Tables
    <2>6. /\ importer'.left = importer.left /\ importer'.pc = "batch"
          /\ importer'.batch = Tail(importer.batch)
          /\ importer'.trans = [importer.trans EXCEPT ![r.nomor] = Pair(r)]
      BY <1>4, <2>1 DEF InsertRecord
    <2> HIDE DEF r
    <2>7. QED
      BY <1>0, <2>2, <2>4, <2>5, <2>6 DEF ImportIsGiven
  <1>5. CASE CommitBatch \/ BatchFails
    BY <1>0, <1>5 DEF CommitBatch, BatchFails, ImportIsGiven
  <1>6. CASE ReadTable
    BY <1>0, <1>6 DEF ReadTable, ImportIsGiven, StoreIsGiven
  <1>7. Flow \/ Window \/ FillCaches \/ Restart
          => importer' = importer \/ importer' = ImportIdle
    BY DEF Flow, StartFlow, CachePhone, CacheKk, SaveToHarvestDb, DropPair, FlowFails,
           FillCaches, Window, Refresh, DeleteAll, DeleteRow, ClearCaches,
           PopRow, Restart
  <1>8. CASE importer' = importer \/ importer' = ImportIdle
    BY <1>0, <1>8 DEF ImportIsGiven, ImportIdle
  <1>9. QED
    BY <1>1, <1>2, <1>3, <1>4, <1>5, <1>6, <1>7, <1>8 DEF HarvestNext, Importing

LEMMA GivenKept ==
  HarvestTyped /\ AllIsGiven /\ [HarvestNext]_harvestVars => AllIsGiven'
  <1> SUFFICES ASSUME HarvestTyped, AllIsGiven, [HarvestNext]_harvestVars, ~odd'
               PROVE  StoreIsGiven' /\ FlowIsGiven' /\ ImportIsGiven'
    BY DEF AllIsGiven
  <1>1. ~odd
    BY DEF HarvestNext, Flow, StartFlow, CachePhone, CacheKk, SaveToHarvestDb,
           DropPair, FlowFails, Importing, ReadRecord, TakeBatch, InsertRecord,
           CommitBatch, ReadTable, FillCaches, Window, Refresh, DeleteAll,
           DeleteRow, ClearCaches, PopRow, BatchFails, Restart, Import,
           harvestVars, history
  <1>2. CASE HarvestNext
    BY <1>1, <1>2, StoreKept, FlowStaysGiven, ImportStaysGiven
  <1>3. CASE UNCHANGED harvestVars
    BY <1>1, <1>3 DEF harvestVars, caches, history, AllIsGiven, StoreIsGiven,
                      FlowIsGiven, ImportIsGiven
  <1>4. QED
    BY <1>2, <1>3

-----------------------------------------------------------------------------
(* What is stored is cached, and what is gone stays gone.                  *)

(* A step of a flow, in a history that no deletion met.                    *)
LEMMA NotRacedBefore ==
  ASSUME [HarvestNext]_harvestVars, ~raced'
  PROVE  ~raced
  BY DEF HarvestNext, Flow, StartFlow, CachePhone, CacheKk, SaveToHarvestDb,
         DropPair, FlowFails, Importing, ReadRecord, TakeBatch, InsertRecord, CommitBatch,
         ReadTable, FillCaches, Window, Refresh, DeleteAll, DeleteRow,
         ClearCaches, PopRow, BatchFails, Restart, Import, harvestVars, history,
         Deletes, Begins

LEMMA DeletesStayAlone ==
  HarvestTyped /\ DeletesAlone /\ [HarvestNext]_harvestVars => DeletesAlone'
  <1> SUFFICES ASSUME HarvestTyped, DeletesAlone, [HarvestNext]_harvestVars,
                      ~raced', deleter'.pc # "idle"
               PROVE  Quiet'
    BY DEF DeletesAlone
  <1>1. ~raced
    BY NotRacedBefore
  <1>2. CASE deleter.pc # "idle"
    <2>1. Quiet
      BY <1>1, <1>2 DEF DeletesAlone
    <2>2. /\ \A c \in Cards : ~StartFlow(c)
          /\ \A f \in Files : ~Import(f)
      BY Zenon, <1>2 DEF StartFlow, Import, Begins
    <2>3. UNCHANGED <<flow, importer>>
      BY <1>2, <2>1, <2>2 DEF Quiet, HarvestNext, Flow, CachePhone,
           CacheKk, SaveToHarvestDb, DropPair, FlowFails, Importing, ReadRecord,
           TakeBatch, InsertRecord, CommitBatch, ReadTable, FillCaches, Window,
           Refresh, DeleteAll, DeleteRow, ClearCaches, PopRow, BatchFails,
           Restart, harvestVars, DeleterIdle, Deletes
    <2>4. QED
      BY <2>1, <2>3 DEF Quiet
  <1>3. CASE deleter.pc = "idle"
    <2>1. DeleteAll \/ \E n \in Cells : DeleteRow(n)
      BY <1>3 DEF HarvestNext, Flow, StartFlow, CachePhone, CacheKk,
           SaveToHarvestDb, DropPair, FlowFails, Importing, ReadRecord, TakeBatch,
           InsertRecord, CommitBatch, ReadTable, FillCaches, Window, Refresh,
           ClearCaches, PopRow, BatchFails, Restart, Import, harvestVars,
           DeleterIdle, Begins
    <2>2. QED
      BY <2>1 DEF DeleteAll, DeleteRow, Deletes, Quiet
  <1>4. QED
    BY <1>2, <1>3

LEMMA CachedKept ==
  HarvestTyped /\ AllIsCached /\ DeletesAlone /\ AllAreGone
    /\ [HarvestNext]_harvestVars => AllIsCached'
  <1> SUFFICES ASSUME HarvestTyped, AllIsCached, DeletesAlone, AllAreGone,
                      [HarvestNext]_harvestVars, ~raced'
               PROVE  /\ Cached(db)' /\ (importer'.pc = "batch" => Cached(importer.trans)')
    BY DEF AllIsCached
  <1>0. /\ TablesTyped /\ FlowTyped /\ ImporterTyped /\ DeleterTyped /\ ~raced
        /\ Cached(db) /\ (importer.pc = "batch" => Cached(importer.trans))
    BY NotRacedBefore DEF HarvestTyped, AllIsCached
  <1> DEFINE Goal == /\ Cached(db)'
                     /\ importer'.pc = "batch" => Cached(importer.trans)'
  <1>1. ASSUME NEW c \in Cards, StartFlow(c) PROVE Goal
    <2>1. flow.pc = "idle" /\ UNCHANGED <<db, phone, importer>>
      BY <1>1 DEF StartFlow, caches
    <2>2. QED
      BY <1>0, <2>1 DEF Cached, Pending
  <1>2. CASE CachePhone
    <2>1. flow.pair # None /\ flow.nomor \in Cells
      BY <1>0, <1>2, NotIdle DEF CachePhone, Pairs, None
    <2>2. QED
      BY <1>0, <1>2, <2>1 DEF CachePhone, Cached, Pending, TablesTyped, Tables
  <1>3. CASE DropPair \/ CacheKk \/ FlowFails
    <2>1. /\ flow.pc = "phone" => ~flow.saved
          /\ UNCHANGED <<db, phone, importer>>
      BY <1>3 DEF CacheKk, DropPair, IsKept, FlowFails, caches
    <2>2. QED
      BY <1>0, <2>1 DEF Cached, Pending
  <1>4. CASE SaveToHarvestDb
    <2>1. /\ flow'.pc = "phone" /\ flow'.saved /\ flow'.nomor = flow.nomor
          /\ flow.nomor \in Cells
      <3>1. flow \in [pc : {"phone", "kk", "inject"}, nomor : Cells, pair : Pairs,
                      saved : BOOLEAN]
        BY <1>0, <1>4, NotIdle DEF SaveToHarvestDb
      <3>2. flow' = [flow EXCEPT !.pc = "phone", !.saved = TRUE]
        BY <1>4 DEF SaveToHarvestDb
      <3>3. QED
        BY <3>1, <3>2
    <2>2. /\ importer.pc # "batch" /\ UNCHANGED <<phone, importer>>
          /\ flow.pc = "inject" /\ db' = [db EXCEPT ![flow.nomor] = flow.pair]
      BY <1>4 DEF SaveToHarvestDb, caches
    <2>3. \A n \in Cells : db'[n] # None => db[n] # None \/ n = flow.nomor
      BY <1>0, <2>2 DEF TablesTyped, Tables
    <2>4. QED
      BY <1>0, <2>1, <2>2, <2>3 DEF Cached, Pending
  <1>5. CASE ReadRecord \/ TakeBatch \/ ReadTable \/ BatchFails
             \/ \E f \in Files : Import(f)
    <2>1. /\ UNCHANGED <<db, phone, flow>>
          /\ importer'.pc = "batch" => importer'.trans = db
      <3>1. CASE ReadRecord
        <4>1. importer'.pc = "read"
          BY <1>0, <3>1, ImporterShape DEF ReadRecord
        <4>2. QED
          BY <3>1, <4>1 DEF ReadRecord, caches
      <3>2. QED
        BY <1>5, <3>1 DEF TakeBatch, ReadTable, BatchFails, Import, caches
    <2>2. QED
      BY <1>0, <2>1 DEF Cached, Pending
  <1>6. CASE InsertRecord
    <2>1. importer \in [pc : {"batch"}, left : Seq(Readings),
                        batch : Seq(FullRecords), trans : Tables]
      BY <1>0, <1>6, ImporterShape DEF InsertRecord
    <2> DEFINE r == Head(importer.batch)
    <2>2. r \in FullRecords /\ importer.pc = "batch"
      BY <1>6, <2>1 DEF InsertRecord
    <2>3. /\ phone' = [phone EXCEPT ![r.nomor] = Pair(r)] /\ UNCHANGED <<db, flow>>
          /\ importer'.trans = [importer.trans EXCEPT ![r.nomor] = Pair(r)]
      BY <1>6, <2>1 DEF InsertRecord
    <2> HIDE DEF r
    <2>4. \A n \in Cells :
            /\ phone[n] # None => phone'[n] # None
            /\ importer'.trans[n] # None =>
                 importer.trans[n] # None \/ phone'[n] # None
      BY <1>0, <2>1, <2>2, <2>3, PairIsTyped DEF TablesTyped, Tables
    <2>5. QED
      BY <1>0, <2>2, <2>3, <2>4 DEF Cached, Pending
  <1>7. CASE CommitBatch
    BY <1>0, <1>7 DEF CommitBatch, Cached, Pending, caches
  <1>8. CASE FillCaches
    BY <1>0, <1>8 DEF FillCaches, Cached, Pending, ImportIdle
  <1>9. CASE Refresh
    BY <1>0, <1>9 DEF Refresh, Cached, Pending, caches
  <1>10. CASE DeleteAll \/ \E n \in Cells : DeleteRow(n)
    <2>1. /\ importer.pc # "batch" /\ UNCHANGED <<phone, flow, importer>>
          /\ \A n \in Cells : db[n] = None => db'[n] = None
      BY <1>0, <1>10
      DEF DeleteAll, DeleteRow, Empty, caches, TablesTyped, Tables
    <2>2. QED
      BY <1>0, <2>1 DEF Cached, Pending
  <1>11. CASE ClearCaches \/ PopRow
    <2>1. Quiet /\ UNCHANGED <<db, importer>>
      BY <1>0, <1>11 DEF ClearCaches, PopRow, DeletesAlone
    <2>2. \A n \in Cells : Deleting(n) => db[n] = None
      BY <1>0 DEF AllAreGone, DeletedAreGone, OutOfTable
    <2>3. \A n \in Cells : Deleting(n) \/ phone'[n] = phone[n]
      BY <1>0, <1>11 DEF ClearCaches, PopRow, Deleting, TablesTyped, Tables
    <2>4. QED
      BY <1>0, <2>1, <2>2, <2>3 DEF Quiet, Cached, Pending
  <1>12. CASE Restart
    BY <1>12 DEF Restart, Cached, ImportIdle
  <1>13. CASE UNCHANGED harvestVars
    BY <1>0, <1>13 DEF harvestVars, caches, Cached, Pending
  <1>14. QED
    BY <1>1, <1>2, <1>3, <1>4, <1>5, <1>6, <1>7, <1>8, <1>9, <1>10, <1>11,
       <1>12, <1>13
    DEF HarvestNext, Flow, Importing, Window

(* What every step keeps of the numbers that are gone.                     *)
LEMMA DeletedStayGone ==
  HarvestTyped /\ DeletesAlone /\ DeletedAreGone /\ [HarvestNext]_harvestVars
    => DeletedAreGone'
  <1> SUFFICES ASSUME HarvestTyped, DeletesAlone, DeletedAreGone,
                      [HarvestNext]_harvestVars, ~raced'
               PROVE  \A n \in Cells : Deleting(n)' => n \in gone'
    BY DEF DeletedAreGone
  <1>0. ~raced /\ \A n \in Cells : Deleting(n) => n \in gone
    BY NotRacedBefore DEF DeletedAreGone
  <1>1. CASE SaveToHarvestDb \/ CommitBatch
    <2>1. ~Quiet /\ deleter' = deleter
      BY <1>1 DEF SaveToHarvestDb, CommitBatch, Quiet
    <2>2. deleter.pc = "idle"
      BY <1>0, <2>1 DEF DeletesAlone
    <2>3. QED
      BY <2>1, <2>2 DEF Deleting
  <1>2. CASE DeleteAll \/ \E n \in Cells : DeleteRow(n)
    <2>1. \/ gone' = gone \cup Cells
          \/ \E n \in Cells : gone' = gone \cup {n}
                              /\ deleter' = [pc |-> "row", nomor |-> n]
      BY <1>2 DEF DeleteAll, DeleteRow, Deletes
    <2>2. QED
      BY <2>1 DEF Deleting
  <1>3. CASE gone' = gone /\ deleter' \in {deleter, DeleterIdle}
    BY <1>0, <1>3 DEF Deleting, DeleterIdle
  <1>4. (\E c \in Cards : StartFlow(c)) \/ DropPair \/ CachePhone \/ CacheKk
        \/ FlowFails \/ ReadRecord \/ TakeBatch \/ InsertRecord \/ ReadTable
        \/ FillCaches \/ Refresh \/ ClearCaches \/ PopRow \/ BatchFails \/ Restart
        \/ (\E f \in Files : Import(f)) \/ UNCHANGED harvestVars
          => gone' = gone /\ deleter' \in {deleter, DeleterIdle}
    BY DEF StartFlow, CachePhone, CacheKk, DropPair, FlowFails, ReadRecord,
           TakeBatch, InsertRecord, ReadTable, FillCaches, Refresh, ClearCaches,
           PopRow, BatchFails, Restart, Import, harvestVars, history, deletions,
           Begins
  <1>5. QED
    BY <1>1, <1>2, <1>3, <1>4 DEF HarvestNext, Flow, Importing, Window

(* The table: a batch brings back what was inserted, when it is committed. *)
LEMMA OutOfTableKept ==
  HarvestTyped /\ OutOfTable /\ [HarvestNext]_harvestVars => OutOfTable'
  <1> SUFFICES ASSUME HarvestTyped, OutOfTable, [HarvestNext]_harvestVars
               PROVE  OutOfTable'
    OBVIOUS
  <1>0. /\ TablesTyped /\ FlowTyped /\ ImporterTyped /\ gone \subseteq Cells
        /\ \A n \in gone : db[n] = None
        /\ importer.pc = "batch" =>
             \A n \in gone \ given : importer.trans[n] = None
    BY DEF HarvestTyped, RecordTyped, OutOfTable
  <1>1. CASE SaveToHarvestDb
    <2>1. /\ importer.pc # "batch" /\ importer' = importer
          /\ gone' = gone \ {flow.nomor}
          /\ db' = [db EXCEPT ![flow.nomor] = flow.pair]
      BY <1>1 DEF SaveToHarvestDb
    <2>2. \A n \in gone' : db'[n] = None
      BY <1>0, <2>1 DEF TablesTyped, Tables
    <2>3. QED
      BY <2>1, <2>2 DEF OutOfTable
  <1>2. CASE TakeBatch
    BY <1>0, <1>2 DEF TakeBatch, OutOfTable
  <1>3. CASE InsertRecord
    <2>1. importer \in [pc : {"batch"}, left : Seq(Readings),
                        batch : Seq(FullRecords), trans : Tables]
      BY <1>0, <1>3, ImporterShape DEF InsertRecord
    <2> DEFINE r == Head(importer.batch)
    <2>2. /\ importer.pc = "batch" /\ UNCHANGED <<db, gone>>
          /\ given' = given \cup {r.nomor}
          /\ importer'.trans = [importer.trans EXCEPT ![r.nomor] = Pair(r)]
      BY <1>3, <2>1 DEF InsertRecord
    <2> HIDE DEF r
    <2>3. \A n \in gone' \ given' : importer'.trans[n] = None
      BY <1>0, <2>1, <2>2 DEF Tables
    <2>4. QED
      BY <1>0, <2>2, <2>3 DEF OutOfTable
  <1>4. CASE CommitBatch
    BY <1>0, <1>4 DEF CommitBatch, OutOfTable
  <1>5. CASE DeleteAll \/ \E n \in Cells : DeleteRow(n)
    <2>1. importer.pc # "batch" /\ importer' = importer
      BY <1>5 DEF DeleteAll, DeleteRow
    <2>2. CASE DeleteAll
      <3>1. gone' \subseteq Cells /\ db' = Empty
        BY <1>0, <2>2 DEF DeleteAll, Deletes
      <3>2. QED
        BY <2>1, <3>1 DEF OutOfTable, Empty
    <2>3. ASSUME NEW n \in Cells, DeleteRow(n) PROVE OutOfTable'
      <3>1. gone' = gone \cup {n} /\ db' = [db EXCEPT ![n] = None]
        BY <2>3 DEF DeleteRow, Deletes
      <3>2. \A m \in gone' : db'[m] = None
        BY <1>0, <3>1 DEF TablesTyped, Tables
      <3>3. QED
        BY <2>1, <3>2 DEF OutOfTable
    <2>4. QED
      BY <1>5, <2>2, <2>3
  <1>6. CASE UNCHANGED <<db, gone>> /\ importer'.pc # "batch"
    BY <1>0, <1>6 DEF OutOfTable
  <1>7. CASE UNCHANGED <<db, gone, given, importer>>
    BY <1>0, <1>7 DEF OutOfTable
  <1>8. (\E f \in Files : Import(f)) \/ ReadTable \/ FillCaches \/ BatchFails \/ Restart
          => UNCHANGED <<db, gone>> /\ importer'.pc # "batch"
    BY DEF Import, ReadTable, FillCaches, BatchFails, Restart, Begins, ImportIdle,
           history, deletions
  <1>9. ReadRecord => UNCHANGED <<db, gone>> /\ importer'.pc # "batch"
    BY <1>0, ImporterShape DEF ReadRecord, history, deletions
  <1>10. (\E c \in Cards : StartFlow(c)) \/ DropPair \/ CachePhone \/ CacheKk
         \/ FlowFails \/ Refresh \/ ClearCaches \/ PopRow \/ UNCHANGED harvestVars
           => UNCHANGED <<db, gone, given, importer>>
    BY DEF StartFlow, DropPair, CachePhone, CacheKk, FlowFails, Refresh,
           ClearCaches, PopRow, harvestVars, history, deletions, Begins
  <1>11. QED
    BY <1>1, <1>2, <1>3, <1>4, <1>5, <1>6, <1>7, <1>8, <1>9, <1>10
    DEF HarvestNext, Flow, Importing, Window

(* What a flow or an import is busy with it was before, or it has begun,   *)
(* or it has read it in the table.                                         *)
LEMMA UnderWayStep ==
  ASSUME HarvestTyped, HarvestNext, NEW n \in UnderWay'
  PROVE  n \in UnderWay \/ n \in met' \/ db[n] # None
  <1>0. FlowTyped /\ ImporterTyped
    BY DEF HarvestTyped
  <1>1. n \in Cells /\ (\/ flow'.pc # "idle" /\ flow'.nomor = n
                        \/ /\ importer'.pc \in {"read", "batch"}
                           /\ n \in NumbersOf(importer'.left)
                                    \cup NumbersOf(importer'.batch)
                        \/ importer'.pc = "fill" /\ importer'.table[n] # None)
    BY DEF UnderWay, NumbersOf
  <1> DEFINE Goal == n \in UnderWay \/ n \in met' \/ db[n] # None
             Flows(f) == f.pc # "idle" /\ f.nomor = n
             Imports(i) == \/ /\ i.pc \in {"read", "batch"}
                              /\ n \in NumbersOf(i.left) \cup NumbersOf(i.batch)
                           \/ i.pc = "fill" /\ i.table[n] # None
  <1>2. /\ Flows(flow') \/ Imports(importer')
        /\ Flows(flow) \/ Imports(importer) => n \in UnderWay
    BY <1>1 DEF UnderWay
  <1>3. CASE Flows(flow')
    <2>1. ASSUME NEW c \in Cards, StartFlow(c) PROVE Goal
      <3>1. flow'.nomor = Cell("nomor", c)
        BY <2>1, StartedPair
      <3>2. QED
        BY <1>3, <2>1, <3>1 DEF StartFlow, Begins
    <2>2. CASE DropPair \/ CachePhone \/ CacheKk \/ SaveToHarvestDb \/ FlowFails
      <3>1. flow.pc # "idle"
        BY <2>2 DEF CachePhone, CacheKk, SaveToHarvestDb, DropPair, FlowFails
      <3>2. flow \in [pc : {"phone", "kk", "inject"}, nomor : Cells, pair : Pairs,
                      saved : BOOLEAN]
        BY <1>0, <3>1, NotIdle
      <3> DEFINE Same(f) == f.nomor = flow.nomor
      <3>3. /\ Same([flow EXCEPT !.pc = "kk"]) /\ Same([flow EXCEPT !.pc = "inject"])
            /\ Same([flow EXCEPT !.pc = "phone", !.saved = TRUE])
        BY <3>2
      <3>4. flow' \in {FlowIdle, [flow EXCEPT !.pc = "kk"],
                      [flow EXCEPT !.pc = "inject"],
                      [flow EXCEPT !.pc = "phone", !.saved = TRUE]}
        BY Zenon, <2>2 DEF CachePhone, CacheKk, SaveToHarvestDb, DropPair, FlowFails
      <3>5. flow' = FlowIdle \/ Same(flow')
        <4> HIDE DEF Same
        <4>1. QED
          BY Zenon, <3>3, <3>4
      <3>6. QED
        BY <1>2, <1>3, <3>1, <3>5 DEF FlowIdle
    <2>3. CASE flow' = flow \/ flow' = FlowIdle
      BY <1>2, <1>3, <2>3 DEF FlowIdle
    <2>4. Importing \/ Window \/ BatchFails \/ Restart \/ (\E f \in Files : Import(f))
            => flow' = flow \/ flow' = FlowIdle
      BY DEF Importing, ReadRecord, TakeBatch, InsertRecord, CommitBatch,
             ReadTable, FillCaches, Window, Refresh, DeleteAll, DeleteRow,
             ClearCaches, PopRow, BatchFails, Restart, Import
    <2>5. QED
      BY <2>1, <2>2, <2>3, <2>4 DEF HarvestNext, Flow
  <1>4. CASE Imports(importer')
    <2>1. ASSUME NEW f \in Files, Import(f) PROVE Goal
      <3>1. /\ importer' = [pc |-> "read", left |-> Records(f), batch |-> <<>>]
            /\ met' = met \cup NumbersOf(Records(f)) /\ NumbersOf(<<>>) = {}
        BY <2>1 DEF Import, Begins, NumbersOf
      <3>2. QED
        BY <1>4, <3>1
    <2>2. CASE ReadRecord
      <3>1. /\ importer \in [pc : {"read"}, left : Seq(Readings),
                             batch : Seq(FullRecords)]
            /\ importer.left # <<>> /\ importer.pc = "read"
        BY <1>0, <2>2, ImporterShape DEF ReadRecord
      <3> DEFINE r == Head(importer.left)
      <3>2. /\ importer'.left = Tail(importer.left) /\ importer'.pc = "read"
            /\ \/ importer'.batch = importer.batch
               \/ /\ Complete(r)
                  /\ importer'.batch = Append(importer.batch, r)
        BY <2>2, <3>1 DEF ReadRecord
      <3>3. /\ NumbersOf(Tail(importer.left)) \subseteq NumbersOf(importer.left)
            /\ Complete(r) => r.nomor \in NumbersOf(importer.left)
        BY <3>1, NumbersOfTail DEF Complete
      <3>4. NumbersOf(Append(importer.batch, r))
              \subseteq NumbersOf(importer.batch) \cup {r.nomor}
        BY <3>1, NumbersOfMore
      <3> HIDE DEF r
      <3>5. n \in NumbersOf(importer.left) \cup NumbersOf(importer.batch)
        <4>1. \/ NumbersOf(importer'.batch) \subseteq NumbersOf(importer.batch)
              \/ NumbersOf(importer'.batch)
                   \subseteq NumbersOf(importer.batch) \cup NumbersOf(importer.left)
          <5>1. CASE importer'.batch = importer.batch
            BY <5>1
          <5>2. CASE Complete(r) /\ importer'.batch = Append(importer.batch, r)
            <6>1. r.nomor \in NumbersOf(importer.left)
              BY <3>3, <5>2
            <6>2. NumbersOf(importer'.batch)
                    \subseteq NumbersOf(importer.batch) \cup {r.nomor}
              BY <3>4, <5>2
            <6>3. QED
              BY <6>1, <6>2
          <5>3. QED
            BY <3>2, <5>1, <5>2
        <4>2. n \in NumbersOf(importer'.left) \cup NumbersOf(importer'.batch)
          BY <1>4, <3>2
        <4>3. NumbersOf(importer'.left) \subseteq NumbersOf(importer.left)
          BY <3>2, <3>3
        <4> QED
          BY <4>1, <4>2, <4>3
      <3>6. QED
        BY <1>2, <3>1, <3>5
    <2>3. CASE TakeBatch
      <3>1. /\ importer'.left = importer.left /\ importer'.batch = importer.batch
            /\ importer'.pc = "batch" /\ importer.pc = "read"
        BY <2>3 DEF TakeBatch
      <3>2. QED
        BY <1>2, <1>4, <3>1
    <2>4. CASE InsertRecord
      <3>1. /\ importer \in [pc : {"batch"}, left : Seq(Readings),
                             batch : Seq(FullRecords), trans : Tables]
            /\ importer.batch # <<>>
        BY <1>0, <2>4, ImporterShape DEF InsertRecord
      <3>2. /\ importer'.left = importer.left /\ importer'.pc = "batch"
            /\ importer'.batch = Tail(importer.batch) /\ importer.pc = "batch"
        BY <2>4, <3>1 DEF InsertRecord
      <3>3. NumbersOf(Tail(importer.batch)) \subseteq NumbersOf(importer.batch)
        BY <3>1, NumbersOfTail
      <3>4. QED
        BY <1>2, <1>4, <3>2, <3>3
    <2>5. CASE CommitBatch \/ BatchFails
      <3>1. /\ importer' = [pc |-> "read", left |-> importer.left, batch |-> <<>>]
            /\ importer.pc = "batch" /\ NumbersOf(<<>>) = {}
        BY <2>5 DEF CommitBatch, BatchFails, NumbersOf
      <3>2. QED
        BY <1>2, <1>4, <3>1
    <2>6. CASE ReadTable
      <3>1. importer' = [pc |-> "fill", table |-> db]
        BY <2>6 DEF ReadTable
      <3>2. QED
        BY <1>4, <3>1
    <2>7. CASE importer' = importer \/ importer' = ImportIdle
      BY <1>2, <1>4, <2>7 DEF ImportIdle
    <2>8. Flow \/ Window \/ FillCaches \/ Restart
            => importer' = importer \/ importer' = ImportIdle
      BY DEF Flow, StartFlow, CachePhone, CacheKk, SaveToHarvestDb, DropPair,
             FlowFails, FillCaches, Window, Refresh, DeleteAll, DeleteRow,
             ClearCaches, PopRow, Restart
    <2>9. QED
      BY <2>1, <2>2, <2>3, <2>4, <2>5, <2>6, <2>7, <2>8 DEF HarvestNext, Importing
  <1>5. QED
    BY <1>2, <1>3, <1>4

(* The cache gets a number only from who is busy with it.                  *)
LEMMA CachedIsUnderWay ==
  ASSUME HarvestTyped, HarvestNext, NEW n \in Cells, phone[n] = None,
         phone'[n] # None
  PROVE  n \in UnderWay \/ db[n] # None
  <1>0. TablesTyped /\ FlowTyped /\ ImporterTyped
    BY DEF HarvestTyped
  <1>1. CASE CachePhone
    <2>1. flow.pc # "idle" /\ phone' = [phone EXCEPT ![flow.nomor] = flow.pair]
      BY <1>1 DEF CachePhone
    <2>2. flow.nomor = n
      BY <1>0, <2>1 DEF TablesTyped, Tables
    <2>3. QED
      BY <2>1, <2>2 DEF UnderWay
  <1>2. CASE InsertRecord
    <2>1. /\ importer.batch \in Seq(FullRecords) /\ importer.batch # <<>>
          /\ importer.pc = "batch"
      BY <1>0, <1>2, ImporterShape DEF InsertRecord
    <2> DEFINE r == Head(importer.batch)
    <2>2. phone' = [phone EXCEPT ![r.nomor] = Pair(r)]
      BY <1>2 DEF InsertRecord
    <2>3. r.nomor # None => r.nomor \in NumbersOf(importer.batch)
      BY <2>1, NumbersOfTail
    <2> HIDE DEF r
    <2>4. r.nomor = n
      BY <1>0, <2>2 DEF TablesTyped, Tables
    <2>5. QED
      BY <2>1, <2>3, <2>4, NoneIsNoCell DEF UnderWay
  <1>3. CASE FillCaches
    <2>1. importer.pc = "fill" /\ importer.table[n] # None
      BY <1>3 DEF FillCaches
    <2>2. QED
      BY <2>1 DEF UnderWay
  <1>4. CASE Restart
    BY <1>4 DEF Restart
  <1>5. CASE PopRow
    BY <1>0, <1>5 DEF PopRow, TablesTyped, Tables
  <1>6. CASE ClearCaches
    BY <1>6 DEF ClearCaches, Empty
  <1>7. CASE phone' = phone
    BY <1>7
  <1>8. (\E c \in Cards : StartFlow(c)) \/ DropPair \/ CacheKk \/ SaveToHarvestDb
        \/ FlowFails \/ ReadRecord \/ TakeBatch \/ CommitBatch \/ ReadTable
        \/ Refresh \/ DeleteAll \/ (\E m \in Cells : DeleteRow(m)) \/ BatchFails
        \/ (\E f \in Files : Import(f))
          => phone' = phone
    BY DEF StartFlow, DropPair, CacheKk, SaveToHarvestDb, FlowFails, ReadRecord,
           TakeBatch, CommitBatch, ReadTable, Refresh, DeleteAll, DeleteRow,
           BatchFails, Import, caches
  <1>9. QED
    BY <1>1, <1>2, <1>3, <1>4, <1>5, <1>6, <1>7, <1>8
    DEF HarvestNext, Flow, Importing, Window

LEMMA OutOfCacheKept ==
  HarvestTyped /\ OutOfTable /\ OutOfCache /\ [HarvestNext]_harvestVars
    => OutOfCache'
  <1> SUFFICES ASSUME HarvestTyped, OutOfTable, OutOfCache,
                      [HarvestNext]_harvestVars, NEW n \in gone' \ met'
               PROVE  Forgotten(n)'
    BY DEF OutOfCache
  <1>0. /\ TablesTyped /\ DeleterTyped /\ gone \subseteq Cells
        /\ \A m \in gone : db[m] = None
        /\ \A m \in gone \ met : Forgotten(m)
    BY DEF HarvestTyped, RecordTyped, OutOfTable, OutOfCache
  <1>1. CASE UNCHANGED harvestVars
    BY <1>0, <1>1 DEF harvestVars, caches, history, deletions, Forgotten, UnderWay,
                      NumbersOf, Deleting
  <1>2. CASE DeleteAll \/ \E m \in Cells : DeleteRow(m)
    <2>1. PICK numbers \in SUBSET Cells :
            /\ gone' = gone \cup numbers
            /\ met' = (met \ numbers) \cup (UnderWay \cap numbers)
            /\ \A m \in numbers : Deleting(m)'
      <3>1. CASE DeleteAll
        <4>1. \A m \in Cells : Deleting(m)'
          BY <3>1 DEF DeleteAll, Deleting
        <4>2. QED
          BY Zenon, <3>1, <4>1 DEF DeleteAll, Deletes
      <3>2. ASSUME NEW m \in Cells, DeleteRow(m)
            PROVE  \E numbers \in SUBSET Cells :
                     /\ gone' = gone \cup numbers
                     /\ met' = (met \ numbers) \cup (UnderWay \cap numbers)
                     /\ \A k \in numbers : Deleting(k)'
        <4>1. \A k \in {m} : Deleting(k)'
          BY <3>2 DEF DeleteRow, Deleting
        <4>2. {m} \in SUBSET Cells
          OBVIOUS
        <4>3. QED
          BY Zenon, <3>2, <4>1, <4>2 DEF DeleteRow, Deletes
      <3>3. QED
        BY <1>2, <3>1, <3>2
    <2>2. /\ UNCHANGED <<phone, flow, importer>> /\ deleter.pc = "idle"
      BY <1>2 DEF DeleteAll, DeleteRow, caches
    <2>3. UnderWay' = UnderWay
      BY <2>2 DEF UnderWay, NumbersOf
    <2>4. CASE n \in numbers
      BY <2>1, <2>3, <2>4 DEF Forgotten
    <2>5. CASE n \notin numbers
      <3>1. n \in gone \ met
        BY <2>1, <2>5
      <3>2. n \notin UnderWay /\ phone[n] = None
        BY <1>0, <2>2, <3>1 DEF Forgotten, Deleting
      <3>3. QED
        BY <2>2, <2>3, <3>2 DEF Forgotten
    <2>6. QED
      BY <2>4, <2>5
  <1>3. CASE Restart
    <2>1. n \in gone /\ phone' = db /\ flow'.pc = "idle" /\ importer'.pc = "idle"
      BY <1>3 DEF Restart, FlowIdle, ImportIdle
    <2>2. QED
      BY <1>0, <2>1 DEF Forgotten, UnderWay
  <1>4. CASE /\ HarvestNext /\ gone' \subseteq gone /\ met \subseteq met'
             /\ deleter' = deleter \/ ClearCaches \/ PopRow
    <2>1. n \in gone /\ n \notin met /\ db[n] = None /\ Forgotten(n)
      BY <1>0, <1>4
    <2>2. n \notin UnderWay
      BY <2>1 DEF Forgotten
    <2>3. n \notin UnderWay'
      BY <1>4, <2>1, <2>2, UnderWayStep
    <2>4. phone[n] = None => phone'[n] = None
      BY <1>0, <1>4, <2>1, <2>2, CachedIsUnderWay
    <2>5. CASE deleter' = deleter
      BY <2>1, <2>3, <2>4, <2>5 DEF Forgotten, Deleting
    <2>6. CASE ClearCaches \/ PopRow
      <3>1. Deleting(n) => phone'[n] = None
        BY <1>0, <2>1, <2>6
        DEF ClearCaches, PopRow, Empty, Deleting, TablesTyped, Tables
      <3>2. QED
        BY <2>1, <2>3, <2>4, <3>1 DEF Forgotten
    <2>7. QED
      BY <1>4, <2>5, <2>6
  <1>5. Flow \/ Importing \/ Refresh \/ ClearCaches \/ PopRow \/ BatchFails
        \/ (\E f \in Files : Import(f))
          => /\ gone' \subseteq gone /\ met \subseteq met'
             /\ deleter' = deleter \/ ClearCaches \/ PopRow
    BY DEF Flow, StartFlow, DropPair, CachePhone, CacheKk, SaveToHarvestDb,
           FlowFails, Importing, ReadRecord, TakeBatch, InsertRecord, CommitBatch,
           ReadTable, FillCaches, Refresh, ClearCaches, PopRow, BatchFails, Import,
           Begins, history, deletions
  <1>6. QED
    BY <1>1, <1>2, <1>3, <1>4, <1>5 DEF HarvestNext, Window

LEMMA GoneKept ==
  HarvestTyped /\ DeletesAlone /\ AllAreGone /\ [HarvestNext]_harvestVars
    => AllAreGone'
  BY DeletedStayGone, OutOfTableKept, OutOfCacheKept DEF AllAreGone

LEMMA HarvestHolds == HarvestSpec => []HarvestInv
  <1>1. HarvestInv /\ [HarvestNext]_harvestVars => HarvestInv'
    BY HarvestTypesKept, GivenKept, CachedKept, DeletesStayAlone, GoneKept
    DEF HarvestInv
  <1>2. QED
    BY <1>1, HarvestInitial, PTL DEF HarvestSpec

(* Tables and caches, flow, import and deletion keep their types.          *)
THEOREM HarvestTypeCorrect == HarvestSpec => []HarvestTypeOK
  <1>1. HarvestInv => HarvestTypeOK
    <2> SUFFICES ASSUME HarvestInv PROVE HarvestTypeOK
      OBVIOUS
    <2>1. HarvestTyped
      BY DEF HarvestInv
    <2>2. importer.pc \in {"idle", "read", "batch", "fill"}
      BY <2>1 DEF HarvestTyped, ImporterTyped, ImportIdle
    <2>3. QED
      BY Zenon, <2>1, <2>2, DeleterShape
      DEF HarvestTyped, HarvestTypeOK, FlowTyped, TablesTyped, RecordTyped
  <1>2. QED
    BY <1>1, HarvestHolds, PTL

(* No number is ever paired with data of another card, whatever flows,     *)
(* imports, failed batches and restarts do with clear files.               *)
THEOREM HarvestPairsCorrect == HarvestSpec => []PairsAreGiven
  <1>1. HarvestInv => PairsAreGiven
    BY DEF HarvestInv, PairsAreGiven, AllIsGiven, StoreIsGiven, FlowIsGiven,
           OwnTable, OwnKks
  <1>2. QED
    BY <1>1, HarvestHolds, PTL

(* What is stored is in the cache when nothing runs.                       *)
THEOREM StoreCorrect == HarvestSpec => []StoredIsCached
  <1>1. HarvestInv => StoredIsCached
    BY DEF HarvestInv, StoredIsCached, AllIsCached, Cached, Pending, Quiet
  <1>2. QED
    BY <1>1, HarvestHolds, PTL

(* A deleted number is not in the table until it is stored again, and not  *)
(* in the cache unless a flow or an import was about it.                   *)
THEOREM DeletionCorrect == HarvestSpec => []DeletedStaysGone
  <1>1. HarvestInv => DeletedStaysGone
    BY DeleterShape DEF HarvestInv, DeletedStaysGone, AllAreGone, OutOfTable,
       OutOfCache, Forgotten, Deleting
  <1>2. QED
    BY <1>1, HarvestHolds, PTL

================================================================================
