---------------------------- MODULE KebunBadProofs ----------------------------
(* For any set of cards and any bound on events: KebunBadPort keeps its    *)
(* types, only extended cards are harvested, and only a dial that waits to *)
(* be written overtakes a reset.                                           *)
EXTENDS KebunBadPort, TLAPS

-----------------------------------------------------------------------------
(* What the shape of a flow is, wherever the thread is in it.              *)

InFlow == {"nik", "kk", "inject", "pause", "verify"}

(* Where a flow goes on, and which of the steps only a full flow has.      *)
FlowShape ==
  /\ pc # "clear" => after \in {"retry", "auto", "poll"}
  /\ pc = "reaktivasi" => after = "retry"
  /\ pc \in {"stabilise", "number", "nik", "kk"} => Full
  /\ pc = "pause" => tries < MAX_INJECT_RETRY

(* A full flow is about a number, and a new date that it remembers is      *)
(* still the card's date.                                                  *)
SnapshotIsTrue ==
  pc \in InFlow /\ Full => nomor \in Cards /\ (before = New => date[nomor] = New)

FlowInv == TypeOK /\ FlowShape /\ SnapshotIsTrue

-----------------------------------------------------------------------------
(* Types, part by part.                                                    *)

LEMMA AskSet ==
  ASSUME ask \in AskType, NEW b \in BOOLEAN
  PROVE  /\ [ask EXCEPT !.reset = b] \in AskType
         /\ [ask EXCEPT !.retry = b] \in AskType
         /\ [ask EXCEPT !.auto = b] \in AskType
         /\ \A s \in Singles \cup {"none"} : [ask EXCEPT !.single = s] \in AskType
  BY DEF AskType

LEMMA AskCleared ==
  ASSUME ask \in AskType
  PROVE  /\ NoAsk \in AskType
         /\ [NoAsk EXCEPT !.reset = TRUE] \in AskType
         /\ [NoAsk EXCEPT !.reset = TRUE, !.retry = ask.retry] \in AskType
  BY DEF AskType, NoAsk

LEMMA TypeInit == Init => TypeOK
  <1>. SUFFICES ASSUME Init PROVE TypeOK
    OBVIOUS
  <1>1. WorldOK
    <2>1. disabled \in BOOLEAN BY Zenon DEF Init
    <2>2. events \in 0 .. MaxEvents BY BadPortAssumption DEF Init
    <2>3. date \in [Cards -> {Old, New}] BY DEF Init
    <2>. QED BY <2>1, <2>2, <2>3 DEF Init, WorldOK
  <1>2. ThreadOK
    <2>1. /\ running \in BOOLEAN /\ attached \in BOOLEAN /\ open \in BOOLEAN
          /\ sent \in BOOLEAN /\ held \in BOOLEAN
      BY Zenon DEF Init
    <2>2. ask \in AskType BY DEF Init, AskType, NoAsk
    <2>3. pc \in Steps /\ menu \in {"none", "asked", "due"} BY DEF Init, Steps
    <2>. QED BY <2>1, <2>2, <2>3, Zenon DEF ThreadOK
  <1>3. JobOK BY DEF Init, JobOK, MaybeCard, Dates, MAX_INJECT_RETRY
  <1>4. SimOK
    <2>1. awaiting \in BOOLEAN BY Zenon DEF Init
    <2>. QED BY <2>1 DEF Init, SimOK, CpinAnswers, CPIN_MAX_REMOVAL_CONFIRM
  <1>5. RecordsOK
    <2>1. swapped \in BOOLEAN BY Zenon DEF Init
    <2>2. row \in RowType BY DEF Init, RowType, NoRow, MaybeCard, Dates
    <2>. QED BY <2>1, <2>2 DEF Init, RecordsOK
  <1>. QED BY <1>1, <1>2, <1>3, <1>4, <1>5 DEF TypeOK

LEMMA WorldKept == WorldOK /\ UNCHANGED world => WorldOK'
  BY DEF WorldOK, world

LEMMA JobKept == JobOK /\ UNCHANGED job => JobOK'
  BY DEF JobOK, job

LEMMA SimKept == SimOK /\ UNCHANGED sim => SimOK'
  BY DEF SimOK, sim

LEMMA RecordsKept == RecordsOK /\ UNCHANGED records => RecordsOK'
  BY DEF RecordsOK, records

(* The state of the thread, after a step that names what it changes.       *)
LEMMA ThreadTyped ==
  ASSUME ThreadOK,
         running' \in {running, FALSE}, attached' \in {attached, FALSE},
         open' \in {open, TRUE, FALSE}, sent' \in {sent, TRUE, FALSE},
         held' \in {held, FALSE, (pc \in Dialling /\ ~sent)},
         pc' \in Steps, ask' \in AskType,
         menu' \in {menu, "none", "asked", "due"}
  PROVE  ThreadOK'
  <1>1. /\ running' \in BOOLEAN /\ attached' \in BOOLEAN /\ open' \in BOOLEAN
        /\ sent' \in BOOLEAN
    BY Zenon DEF ThreadOK
  <1>3. held' \in BOOLEAN
    <2>1. (pc \in Dialling /\ ~sent) \in BOOLEAN OBVIOUS
    <2>. QED BY <2>1, Zenon DEF ThreadOK
  <1>2. menu' \in {"none", "asked", "due"} BY DEF ThreadOK
  <1>. QED BY <1>1, <1>2, <1>3, Zenon DEF ThreadOK

LEMMA AfterIsStep == JobOK => after \in Steps
  BY DEF JobOK, Steps, Singles, Round, Flow, Dialling, Polling

LEMMA ReturnTyped == JobOK /\ Return /\ before' \in Dates => JobOK' /\ pc' \in Steps
  BY AfterIsStep DEF JobOK, Return, MaybeCard, MAX_INJECT_RETRY

LEMMA ExtendTyped ==
  ASSUME WorldOK, MayExtend, UNCHANGED slot
  PROVE  /\ date' \in [Cards -> {Old, New}]
         /\ \A c \in Cards : date[c] = New => date'[c] = New
  BY DEF WorldOK, MayExtend, MaybeCard

-----------------------------------------------------------------------------
LEMMA TypeLoop == FlowInv /\ Loop => TypeOK'
  <1>. SUFFICES ASSUME FlowInv, Loop PROVE TypeOK'
    OBVIOUS
  <1>t. WorldOK /\ ThreadOK /\ JobOK /\ SimOK /\ RecordsOK BY DEF FlowInv, TypeOK
  <1>a. ask \in AskType BY <1>t DEF ThreadOK
  <1>b. {"outer", "connect", "inner", "look", "reset", "ended", "tail", "clear",
         "retry", "auto", "poll", "stabilise"} \subseteq Steps
    BY DEF Steps, Round, Flow, Polling
  <1>. USE <1>t, WorldKept, JobKept, SimKept, RecordsKept DEF TypeOK
  <1>1. CASE End
    BY <1>1, <1>a, <1>b, ThreadTyped DEF End, air
  <1>2. CASE Probe
    BY <1>2, <1>a, <1>b, ThreadTyped DEF Probe, life, air
  <1>3. CASE Connect
    BY <1>3, <1>a, <1>b, ThreadTyped DEF Connect, life, air
  <1>4. CASE Turn
    <2>1. pc' \in {"look", "tail"} BY <1>4 DEF Turn
    <2>. QED BY <1>4, <2>1, <1>a, <1>b, ThreadTyped DEF Turn, life, air
  <1>5. CASE TakeReset
    <2>1. ask' \in AskType BY <1>5, <1>a, AskSet DEF TakeReset
    <2>. QED BY <1>5, <1>b, <2>1, ThreadTyped DEF TakeReset, life, air
  <1>6. CASE AdvancePrompt
    <2>1. menu' \in {menu, "none"} BY <1>6 DEF AdvancePrompt, AfterTimeout
    <2>. QED BY <1>6, <1>a, <1>b, <2>1, ThreadTyped DEF AdvancePrompt, life, air
  <1>7. CASE PerformReset
    <2>1. ask' \in AskType BY <1>7, <1>a, AskSet DEF PerformReset
    <2>2. JobOK' BY <1>7 DEF PerformReset, ClearTemporary, JobOK, Dates
    <2>. QED BY <1>7, <1>b, <2>1, <2>2, ThreadTyped
      DEF PerformReset, ClearTemporary, life, air
  <1>8. CASE ReadSingle
    <2>1. pc' \in {"retry", "clear"} /\ after' \in {after} \cup Singles
      BY <1>8, <1>a DEF ReadSingle, AskType
    <2>2. JobOK' BY <1>8, <2>1 DEF ReadSingle, JobOK
    <2>. QED BY <1>8, <1>a, <1>b, <2>1, <2>2, ThreadTyped DEF ReadSingle, life, air
  <1>9. CASE ClearSingle
    <2>1. ask' \in AskType BY <1>9, <1>a, AskSet DEF ClearSingle
    <2>2. pc' \in Steps BY <1>9, <1>b, AfterIsStep DEF ClearSingle
    <2>3. JobOK' BY <1>9 DEF ClearSingle, ClearTemporary, JobOK, Dates
    <2>. QED BY <1>9, <2>1, <2>2, <2>3, ThreadTyped
      DEF ClearSingle, ClearTemporary, life, air
  <1>10. ASSUME NEW request \in {"retry", "auto"}, NEW next \in {"auto", "poll"},
                BeginFlow(request, next)
         PROVE  TypeOK'
    <2>1. ask' \in AskType BY <1>10, <1>a, AskSet DEF BeginFlow
    <2>2. pc' \in Steps BY <1>10, <1>b DEF BeginFlow
    <2>3. JobOK' BY <1>10 DEF BeginFlow, ClearTemporary, JobOK, Dates
    <2>4. menu' \in {menu, "none"} BY <1>10 DEF BeginFlow, ClearTemporary
    <2>. QED BY <1>10, <2>1, <2>2, <2>3, <2>4, ThreadTyped DEF BeginFlow, life, air
  <1>11. CASE TakeRetry \/ TakeAuto
    BY <1>10, <1>11 DEF TakeRetry, TakeAuto
  <1>12. CASE SkipPoll
    BY <1>12, <1>a, <1>b, ThreadTyped DEF SkipPoll, EndRound, life, air
  <1>13. CASE LoopError
    <2>1. WorldOK'
      <3>1. date' \in [Cards -> {Old, New}]
        BY <1>13, ExtendTyped DEF LoopError, WorldOK
      <3>2. events' \in 0 .. MaxEvents
        BY <1>13, BadPortAssumption DEF LoopError, WorldOK, Event
      <3>. QED BY <1>13, <3>1, <3>2 DEF LoopError, WorldOK
    <2>2. JobOK' BY <1>13 DEF LoopError, JobOK, MaybeCard, MAX_INJECT_RETRY
    <2>3. SimOK' BY <1>13 DEF LoopError, SimOK, CpinAnswers
    <2>4. ThreadOK'
      BY <1>13, <1>a, <1>b, ThreadTyped DEF LoopError, EndRound, life, air
    <2>. QED BY <1>13, <2>1, <2>2, <2>3, <2>4 DEF LoopError
  <1>. QED BY <1>1, <1>2, <1>3, <1>4, <1>5, <1>6, <1>7, <1>8, <1>9, <1>11, <1>12,
              <1>13 DEF Loop

-----------------------------------------------------------------------------
(* What the steps of a flow leave alone, or have in common.                *)

LEMMA FlowThread ==
  ASSUME ThreadOK, UNCHANGED <<life, held, open>>, sent' = FALSE,
         pc' \in Steps, ask' = ask,
         menu' \in {menu, "asked"}
  PROVE  ThreadOK'
  BY ThreadTyped DEF ThreadOK, life, air

LEMMA FlowIsStep == Flow \subseteq Steps
  BY DEF Steps

(* The next step of a flow that goes on.                                   *)
LEMMA JobGoesOn ==
  ASSUME JobOK, UNCHANGED after, nomor' \in {nomor, slot}, slot \in MaybeCard,
         tries' \in {tries, 1} \/ (tries' = tries + 1 /\ tries < MAX_INJECT_RETRY),
         before' \in Dates
  PROVE  JobOK'
  BY DEF JobOK, MAX_INJECT_RETRY

LEMMA ShownTyped ==
  ASSUME WorldOK
  PROVE  Shown \subseteq Dates
  BY DEF WorldOK, Shown, MaybeCard, Dates

LEMMA RowSet ==
  ASSUME row \in RowType, NEW n \in MaybeCard, NEW d \in Dates, NEW b \in BOOLEAN
  PROVE  /\ [row EXCEPT !.nomor = n] \in RowType
         /\ [row EXCEPT !.date = d] \in RowType
         /\ [row EXCEPT !.nik = b] \in RowType
         /\ [row EXCEPT !.kk = b] \in RowType
         /\ [row EXCEPT !.nomor = n, !.date = d] \in RowType
  BY DEF RowType

LEMMA RecordsTyped ==
  ASSUME RecordsOK, row' \in RowType, known' \subseteq Cards, harvested' \subseteq Cards,
         UNCHANGED swapped
  PROVE  RecordsOK'
  BY DEF RecordsOK

LEMMA TypeGiveUp == TypeOK /\ GiveUp => TypeOK'
  <1>. SUFFICES ASSUME TypeOK, GiveUp PROVE TypeOK'
    OBVIOUS
  <1>1. JobOK' /\ pc' \in Steps
    BY ReturnTyped DEF TypeOK, GiveUp, JobOK
  <1>2. ThreadOK' BY <1>1, FlowThread DEF TypeOK, GiveUp, FlowKeeps
  <1>3. WorldOK' /\ SimOK' /\ RecordsOK'
    BY WorldKept, SimKept, RecordsKept DEF TypeOK, GiveUp, FlowKeeps, world
  <1>. QED BY <1>1, <1>2, <1>3 DEF TypeOK

LEMMA TypeFlow == FlowInv /\ FullFlow => TypeOK'
  <1>. SUFFICES ASSUME FlowInv, FullFlow PROVE TypeOK'
    OBVIOUS
  <1>t. /\ WorldOK /\ ThreadOK /\ JobOK /\ SimOK /\ RecordsOK
        /\ FlowShape /\ SnapshotIsTrue
    BY DEF FlowInv, TypeOK
  <1>a. /\ slot \in MaybeCard /\ nomor \in MaybeCard /\ before \in Dates
        /\ row \in RowType /\ known \subseteq Cards /\ harvested \subseteq Cards
    BY <1>t DEF WorldOK, JobOK, RecordsOK
  <1>b. {"number", "nik", "kk", "inject", "pause", "verify"} \subseteq Steps
    BY DEF Steps, Flow, Dialling
  <1>. USE <1>t, <1>a, <1>b, WorldKept, JobKept, SimKept, RecordsKept DEF TypeOK
  <1>1. CASE Cancel
    <2>1. JobOK' /\ pc' \in Steps BY <1>1, ReturnTyped DEF Cancel, DropFlow
    <2>2. ThreadOK' BY <1>1, <2>1, FlowThread DEF Cancel, DropFlow
    <2>3. date' \in [Cards -> {Old, New}]
      BY <1>1, ExtendTyped DEF Cancel, WorldOK
    <2>4. WorldOK' BY <1>1, <2>3 DEF Cancel, WorldOK
    <2>. QED BY <1>1, <2>1, <2>2, <2>4 DEF Cancel
  <1>2. CASE Prompts
    <2>1. JobOK' /\ pc' \in Steps BY <1>2, ReturnTyped DEF Prompts
    <2>2. menu' \in {menu, "asked"} BY <1>2 DEF Prompts
    <2>3. ThreadOK' BY <1>2, <2>1, <2>2, FlowThread DEF Prompts, FlowKeeps
    <2>. QED BY <1>2, <2>1, <2>3 DEF Prompts, FlowKeeps, world
  <1>3. CASE Stabilise
    <2>1. JobOK' /\ pc' \in Steps
      BY <1>3, ReturnTyped, JobGoesOn DEF Stabilise
    <2>2. ThreadOK' BY <1>3, <2>1, FlowThread DEF Stabilise, FlowKeeps
    <2>. QED BY <1>3, <2>1, <2>2 DEF Stabilise, FlowKeeps, world
  <1>4. CASE CheckNumber
    <2>1. CASE NumberFails BY <2>1, TypeGiveUp DEF NumberFails
    <2>2. ASSUME NEW shown \in Shown, NEW status \in CardStatus,
                 NumberRead(shown, status)
          PROVE  TypeOK'
      <3>1. shown \in Dates BY ShownTyped
      <3>2. JobOK' /\ pc' \in Steps
        <4>1. CASE status = "HANGUS"
          BY <2>2, <4>1, <3>1, JobGoesOn DEF NumberRead
        <4>2. CASE status # "HANGUS" BY <2>2, <4>2, <3>1, ReturnTyped DEF NumberRead
        <4>. QED BY <4>1, <4>2
      <3>3. ThreadOK' BY <2>2, <3>2, FlowThread DEF NumberRead
      <3>4. row' \in RowType
        <4>. DEFINE told == status = "HANGUS" /\ slot \in known
        <4>1. row' = [row EXCEPT !.nomor = slot, !.date = shown,
                                 !.nik = @ \/ told, !.kk = @ \/ told]
          BY <2>2 DEF NumberRead
        <4>2. (row.nik \/ told) \in BOOLEAN /\ (row.kk \/ told) \in BOOLEAN
          BY Zenon
        <4>. HIDE DEF told
        <4>. QED BY <4>1, <4>2, <3>1 DEF RowType
      <3>5. RecordsOK' BY <2>2, <3>4, RecordsTyped DEF NumberRead
      <3>6. awaiting' \in BOOLEAN BY <2>2, Zenon DEF NumberRead
      <3>7. SimOK' BY <2>2, <3>6 DEF NumberRead, SimOK
      <3>. QED BY <2>2, <3>2, <3>3, <3>5, <3>7 DEF NumberRead
    <2>. QED BY <1>4, <2>1, <2>2 DEF CheckNumber
  <1>5. CASE FindData
    <2>1. CASE NikFails BY <2>1, TypeGiveUp DEF NikFails
    <2>2. CASE NikRead
      <3>1. JobOK' BY <2>2, JobGoesOn DEF NikRead
      <3>2. ThreadOK' BY <2>2, FlowThread DEF NikRead, FlowKeeps
      <3>3. RecordsOK' BY <2>2, RowSet, RecordsTyped DEF NikRead
      <3>. QED BY <2>2, <3>1, <3>2, <3>3 DEF NikRead, FlowKeeps, world
    <2>3. CASE KkMissing BY <2>3, TypeGiveUp DEF KkMissing
    <2>4. CASE KkFound
      <3>1. JobOK' BY <2>4, JobGoesOn DEF KkFound
      <3>2. ThreadOK' BY <2>4, FlowThread DEF KkFound, FlowKeeps
      <3>3. nomor \in Cards
        BY <2>4 DEF KkFound, FlowShape, SnapshotIsTrue, InFlow
      <3>4. RecordsOK' BY <2>4, <3>3, RowSet, RecordsTyped DEF KkFound
      <3>. QED BY <2>4, <3>1, <3>2, <3>4 DEF KkFound, FlowKeeps, world
    <2>. QED BY <1>5, <2>1, <2>2, <2>3, <2>4 DEF FindData
  <1>6. CASE Inject
    <2>1. JobOK' /\ pc' \in Steps
      BY <1>6, ReturnTyped, JobGoesOn
      DEF Inject, InjectRefused, InjectAccepted, InjectFails, InjectPrompts
    <2>2. menu' \in {menu, "asked"}
      BY <1>6 DEF Inject, InjectRefused, InjectAccepted, InjectFails, InjectPrompts
    <2>3. ThreadOK' BY <1>6, <2>1, <2>2, FlowThread DEF Inject, FlowKeeps
    <2>4. date' \in [Cards -> {Old, New}]
      BY <1>6, ExtendTyped DEF Inject, FlowKeeps, WorldOK
    <2>5. WorldOK' BY <1>6, <2>4 DEF Inject, FlowKeeps, WorldOK
    <2>. QED BY <1>6, <2>1, <2>3, <2>5 DEF Inject, FlowKeeps
  <1>7. CASE Pause
    <2>1. tries < MAX_INJECT_RETRY BY <1>7 DEF Pause, FlowShape
    <2>2. JobOK' /\ pc' \in Steps
      BY <1>7, <2>1, ReturnTyped, JobGoesOn DEF Pause, InjectAgain
    <2>3. ThreadOK' BY <1>7, <2>2, FlowThread DEF Pause, FlowKeeps
    <2>. QED BY <1>7, <2>2, <2>3 DEF Pause, FlowKeeps, world
  <1>8. CASE Verify
    <2>1. CASE VerifyFails
      <3>1. JobOK' /\ pc' \in Steps BY <2>1, ReturnTyped DEF VerifyFails
      <3>2. ThreadOK' BY <2>1, <3>1, FlowThread DEF VerifyFails, FlowKeeps
      <3>3. row' = row \/ \E d \in Dates : row' = [row EXCEPT !.date = d]
        BY <2>1, ShownTyped DEF VerifyFails, Dates
      <3>4. RecordsOK' BY <2>1, <3>3, RowSet, RecordsTyped DEF VerifyFails
      <3>. QED BY <2>1, <3>1, <3>2, <3>4 DEF VerifyFails, FlowKeeps, world
    <2>2. ASSUME NEW shown \in Shown, NEW status \in CardStatus, Verified(shown, status)
          PROVE  TypeOK'
      <3>1. JobOK' /\ pc' \in Steps BY <2>2, ReturnTyped DEF Verified
      <3>2. ThreadOK' BY <2>2, <3>1, FlowThread DEF Verified
      <3>3. row' \in RowType BY <2>2, ShownTyped, RowSet DEF Verified
      <3>4. CASE Full
        <4>1. nomor \in Cards
          BY <2>2, <3>4 DEF Verified, Answered, SnapshotIsTrue, InFlow
        <4>2. /\ harvested' = harvested \cup {nomor} /\ known' = known \cup {nomor}
              /\ awaiting' = TRUE
          BY <2>2, <3>4 DEF Verified
        <4>3. RecordsOK' BY <2>2, <3>3, <4>1, <4>2, RecordsTyped DEF Verified
        <4>4. SimOK' BY <2>2, <4>2 DEF Verified, SimOK
        <4>. QED BY <2>2, <3>1, <3>2, <4>3, <4>4 DEF Verified
      <3>5. CASE ~Full
        <4>1. UNCHANGED <<harvested, known, awaiting>> BY <2>2, <3>5 DEF Verified
        <4>2. RecordsOK' BY <2>2, <3>3, <4>1, RecordsTyped DEF Verified
        <4>3. SimOK' BY <2>2, <4>1 DEF Verified, SimOK
        <4>. QED BY <2>2, <3>1, <3>2, <4>2, <4>3 DEF Verified
      <3>. QED BY <3>4, <3>5
    <2>. QED BY <1>8, <2>1, <2>2 DEF Verify
  <1>9. CASE WriteDial
    <2>1. pc \in Steps /\ ask \in AskType BY DEF ThreadOK
    <2>2. ThreadOK' BY <1>9, <2>1, ThreadTyped DEF WriteDial, life
    <2>. QED BY <1>9, <2>2 DEF WriteDial
  <1>. QED BY <1>1, <1>2, <1>3, <1>4, <1>5, <1>6, <1>7, <1>8, <1>9 DEF FullFlow

LEMMA TypeSingle == FlowInv /\ SingleAction => TypeOK'
  <1>. SUFFICES ASSUME FlowInv, SingleAction PROVE TypeOK'
    OBVIOUS
  <1>t. WorldOK /\ ThreadOK /\ JobOK /\ SimOK /\ RecordsOK
    BY DEF FlowInv, TypeOK
  <1>a. /\ slot \in MaybeCard /\ before \in Dates
        /\ row \in RowType /\ known \subseteq Cards /\ harvested \subseteq Cards
        /\ row.nomor \in MaybeCard /\ row.date \in Dates
    BY <1>t DEF WorldOK, JobOK, RecordsOK, RowType
  <1>b. "inject" \in Steps BY DEF Steps, Flow, Dialling
  <1>c. row.nomor # NoCard => row.nomor \in Cards BY <1>a DEF MaybeCard
  <1>. USE <1>t, <1>a, <1>b, <1>c, WorldKept, SimKept, RecordsKept DEF TypeOK
  <1>1. CASE CekNomor
    <2>1. JobOK' /\ pc' \in Steps BY <1>1, ReturnTyped DEF CekNomor
    <2>2. ThreadOK' BY <1>1, <2>1, FlowThread DEF CekNomor, FlowKeeps
    <2>3. row' \in RowType
      <3>1. ASSUME NEW text \in Texts, Answered("cek_nomor", text)
            PROVE  date[slot] \in Dates
        BY <3>1 DEF Answered, WorldOK, MaybeCard, Dates
      <3>2. \/ row' = row
            \/ \E n \in MaybeCard, d \in Dates :
                 row' = [row EXCEPT !.nomor = n, !.date = d]
        BY <1>1, <3>1 DEF CekNomor
      <3>. QED BY <3>2, RowSet
    <2>4. RecordsOK' BY <1>1, <2>3, RecordsTyped DEF CekNomor
    <2>. QED BY <1>1, <2>1, <2>2, <2>4 DEF CekNomor, FlowKeeps, world
  <1>2. CASE CekNik
    <2>1. JobOK' /\ pc' \in Steps BY <1>2, ReturnTyped DEF CekNik
    <2>2. ThreadOK' BY <1>2, <2>1, FlowThread DEF CekNik, FlowKeeps
    <2>3. row' \in RowType BY <1>2, RowSet DEF CekNik
    <2>4. known' \subseteq Cards BY <1>2 DEF CekNik
    <2>5. RecordsOK' BY <1>2, <2>3, <2>4, RecordsTyped DEF CekNik
    <2>. QED BY <1>2, <2>1, <2>2, <2>5 DEF CekNik, FlowKeeps, world
  <1>3. CASE Reaktivasi
    <2>1. JobOK' /\ pc' \in Steps
      BY <1>3, ReturnTyped, JobGoesOn DEF Reaktivasi
    <2>2. ThreadOK' BY <1>3, <2>1, FlowThread DEF Reaktivasi, FlowKeeps
    <2>3. known' \subseteq Cards BY <1>3 DEF Reaktivasi
    <2>4. RecordsOK' BY <1>3, <2>3, RecordsTyped DEF Reaktivasi
    <2>. QED BY <1>3, <2>1, <2>2, <2>4 DEF Reaktivasi, FlowKeeps, world
  <1>. QED BY <1>1, <1>2, <1>3 DEF SingleAction

-----------------------------------------------------------------------------
(* The poll.                                                               *)

Removals == -1 .. CPIN_MAX_REMOVAL_CONFIRM - 1

LEMMA HearsTyped ==
  ASSUME WorldOK, NEW answer, Hears(answer)
  PROVE  WorldOK'
  BY BadPortAssumption DEF WorldOK, Hears, Event

LEMMA AnnounceTyped ==
  ASSUME ask \in AskType, row \in RowType, awaiting \in BOOLEAN,
         NEW state \in Definite, Announce(state)
  PROVE  /\ ask' \in AskType /\ awaiting' \in BOOLEAN
         /\ row' \in {row, NoRow}
  <1>. DEFINE auto == ask.auto \/ (AutoRunOnInsert /\ ~awaiting)
  <1>a. auto \in BOOLEAN BY Zenon
  <1>1. CASE ~attached
    <2>1. UNCHANGED <<ask, awaiting, row>> BY <1>1 DEF Announce
    <2>. QED BY <2>1
  <1>2. CASE attached /\ state = "READY"
    <2>1. ask' = [ask EXCEPT !.auto = auto] /\ UNCHANGED <<awaiting, row>>
      BY <1>2 DEF Announce
    <2>. HIDE DEF auto
    <2>. QED BY <1>a, <2>1, AskSet
  <1>3. CASE attached /\ state = "PIN_REQUIRED"
    <2>1. awaiting' = FALSE /\ UNCHANGED <<ask, row>> BY <1>3 DEF Announce
    <2>. QED BY <2>1
  <1>4. CASE attached /\ state = "NOT_INSERTED"
    <2>1. awaiting' = FALSE /\ row' = NoRow /\ ask' = ask
      BY <1>4 DEF Announce, ClearRow
    <2>. QED BY <2>1
  <1>. QED BY <1>1, <1>2, <1>3, <1>4 DEF Definite

(* What a poll may do to the types, whichever way it ends.                 *)
LEMMA SettleTyped ==
  ASSUME TypeOK, NEW state, NEW count \in Nat, NEW rem \in Removals,
         UNCHANGED <<life, air, nomor, tries, after, known, harvested, swapped>>,
         Settle(state, count, rem)
  PROVE  ThreadOK' /\ JobOK' /\ SimOK' /\ RecordsOK'
  <1>t. ThreadOK /\ JobOK /\ SimOK /\ RecordsOK BY DEF TypeOK
  <1>a. ask \in AskType /\ row \in RowType /\ awaiting \in BOOLEAN
    BY <1>t DEF ThreadOK, RecordsOK, SimOK
  <1>b. NoRow \in RowType BY DEF NoRow, RowType, MaybeCard, Dates
  <1>1. /\ cpin' \in Definite \cup {"UNKNOWN"} /\ awaiting' \in BOOLEAN
        /\ ask' \in AskType /\ row' \in RowType
        /\ before' \in Dates /\ menu' \in {menu, "none"}
    <2>1. CASE state \in Definite /\ state # cpin
      <3>1. Transition(state) BY <2>1 DEF Settle
      <3>2. ask' \in AskType /\ awaiting' \in BOOLEAN /\ row' \in {row, NoRow}
        BY <1>a, <2>1, <3>1, AnnounceTyped DEF Transition
      <3>3. cpin' = state BY <3>1 DEF Transition
      <3>4. before' \in Dates /\ menu' \in {menu, "none"}
        BY <1>t, <3>1 DEF Transition, ClearTemporary, JobOK, Dates
      <3>. QED BY <1>a, <1>b, <2>1, <3>2, <3>3, <3>4
    <2>2. CASE ~(state \in Definite /\ state # cpin)
      <3>1. UNCHANGED <<cpin, awaiting, ask, before, menu, row>> BY <2>2 DEF Settle
      <3>. QED BY <1>a, <1>t, <3>1 DEF SimOK, JobOK
    <2>. QED BY <2>1, <2>2
  <1>2. seen' \in CpinAnswers BY DEF Settle, CpinAnswers
  <1>3. unknown' \in Nat BY DEF Settle
  <1>4. removals' \in Removals
    BY DEF Settle, Removals, CPIN_MAX_REMOVAL_CONFIRM
  <1>5. SimOK' BY <1>1, <1>2, <1>3, <1>4 DEF SimOK, Removals
  <1>6. JobOK' BY <1>1, <1>t DEF JobOK
  <1>7. RecordsOK' BY <1>1, <1>t DEF RecordsOK
  <1>8. pc' \in Steps /\ open' = FALSE BY DEF Settle, EndRound, Steps
  <1>9. ThreadOK' BY <1>1, <1>8, <1>t, ThreadTyped DEF life, air
  <1>. QED BY <1>5, <1>6, <1>7, <1>9

LEMMA AskAgainTyped ==
  ASSUME TypeOK, NEW step \in Polling, NEW state \in CpinAnswers,
         NEW count \in Nat, NEW rem \in Removals,
         UNCHANGED <<life, air, nomor, tries, after, known, harvested, swapped>>,
         AskAgain(step, state, count, rem)
  PROVE  ThreadOK' /\ JobOK' /\ SimOK' /\ RecordsOK'
  <1>t. ThreadOK /\ JobOK /\ SimOK /\ RecordsOK BY DEF TypeOK
  <1>1. SimOK' BY <1>t DEF AskAgain, SimOK, Removals
  <1>2. JobOK' /\ RecordsOK' BY <1>t DEF AskAgain, JobOK, RecordsOK
  <1>3. step \in Steps BY DEF Steps
  <1>4. ask \in AskType BY <1>t DEF ThreadOK
  <1>5. ThreadOK' BY <1>t, <1>3, <1>4, ThreadTyped DEF AskAgain, life, air
  <1>. QED BY <1>1, <1>2, <1>5

LEMMA PollTyped ==
  ASSUME TypeOK, NEW step, NEW answer, Polls(step, answer),
         NEW state \in CpinAnswers, NEW count \in Nat, NEW rem \in Removals,
         \/ Settle(state, count, rem)
         \/ AskAgain("final", state, count, rem)
         \/ ConfirmOrSettle(state, count, rem)
  PROVE  TypeOK'
  <1>1. \/ Settle(state, count, rem)
        \/ AskAgain("final", state, count, rem)
        \/ AskAgain("confirm", state, count, rem)
    BY DEF ConfirmOrSettle
  <1>2. ThreadOK' /\ JobOK' /\ SimOK' /\ RecordsOK'
    BY <1>1, SettleTyped, AskAgainTyped DEF Polls, Polling
  <1>3. WorldOK' BY HearsTyped DEF TypeOK, Polls
  <1>. QED BY <1>2, <1>3 DEF TypeOK

LEMMA TypePoll == TypeOK /\ SimPoll => TypeOK'
  <1>. SUFFICES ASSUME TypeOK, SimPoll PROVE TypeOK'
    OBVIOUS
  <1>a. /\ unknown \in Nat /\ unknown + 1 \in Nat /\ 0 \in Nat
        /\ removals \in Removals /\ 0 \in Removals /\ -1 \in Removals
        /\ seen \in CpinAnswers
    BY DEF TypeOK, SimOK, Removals, CPIN_MAX_REMOVAL_CONFIRM
  <1>b. /\ {"READY", "NOT_READY", "UNKNOWN", "NOT_INSERTED", "PIN_REQUIRED"}
             \subseteq CpinAnswers
    BY DEF CpinAnswers, Definite
  <1>1. CASE PollReady
    BY <1>1, <1>a, <1>b, PollTyped DEF PollReady
  <1>2. CASE PollNotReady
    BY <1>2, <1>a, <1>b, PollTyped DEF PollNotReady
  <1>3. CASE PollUnknown
    <2>. DEFINE count == IF cpin = "READY" THEN unknown + 1 ELSE unknown
    <2>1. count \in Nat BY <1>a
    <2>2. \/ AskAgain("final", "UNKNOWN", count, removals)
          \/ ConfirmOrSettle("UNKNOWN", count, removals)
      BY <1>3 DEF PollUnknown
    <2>. HIDE DEF count
    <2>. QED BY <1>3, <1>a, <1>b, <2>1, <2>2, PollTyped DEF PollUnknown
  <1>4. CASE PollGone
    BY <1>4, <1>a, <1>b, PollTyped DEF PollGone
  <1>5. CASE FinalQuery
    BY <1>5, <1>a, <1>b, PollTyped DEF FinalQuery
  <1>6. CASE Confirm
    <2>1. CASE Polls("confirm", "NOT_READY") /\ removals + 1 < CPIN_MAX_REMOVAL_CONFIRM
               /\ Settle("NOT_READY", unknown, removals + 1)
      <3>1. removals + 1 \in Removals
        BY <2>1, <1>a DEF Removals, CPIN_MAX_REMOVAL_CONFIRM
      <3>. QED BY <2>1, <3>1, <1>a, <1>b, PollTyped
    <2>2. CASE Polls("confirm", "NOT_READY") /\ Settle("NOT_INSERTED", 0, -1)
      BY <2>2, <1>a, <1>b, PollTyped
    <2>3. ASSUME NEW answer \in {"READY", "NOT_INSERTED"}, Polls("confirm", answer),
                 Settle(answer, unknown, -1)
          PROVE  TypeOK'
      BY <2>3, <1>a, <1>b, PollTyped
    <2>4. ASSUME NEW answer, Polls("confirm", answer),
                 Settle(seen, unknown, removals) \/ Settle("NOT_INSERTED", 0, -1)
          PROVE  TypeOK'
      BY <2>4, <1>a, <1>b, PollTyped
    <2>5. removals + 1 >= CPIN_MAX_REMOVAL_CONFIRM
          \/ removals + 1 < CPIN_MAX_REMOVAL_CONFIRM
      BY <1>a DEF Removals, CPIN_MAX_REMOVAL_CONFIRM
    <2>. QED BY <1>6, <2>1, <2>2, <2>3, <2>4, <2>5 DEF Confirm
  <1>. QED BY <1>1, <1>2, <1>3, <1>4, <1>5, <1>6 DEF SimPoll

-----------------------------------------------------------------------------
LEMMA TypeUser == TypeOK /\ User => TypeOK'
  <1>. SUFFICES ASSUME TypeOK, User PROVE TypeOK'
    OBVIOUS
  <1>. USE WorldKept, JobKept, SimKept, RecordsKept DEF TypeOK
  <1>a. ask \in AskType /\ pc \in Steps BY DEF ThreadOK
  <1>b. Event => events' \in 0 .. MaxEvents
    BY BadPortAssumption DEF Event, WorldOK
  <1>c. ASSUME Click, disabled' \in BOOLEAN, ask' \in AskType, UNCHANGED held \/ Hold
        PROVE  TypeOK'
    <2>1. WorldOK' BY <1>c, <1>b DEF Click, WorldOK
    <2>2. ThreadOK' BY <1>c, <1>a, ThreadTyped DEF Click, Hold, life
    <2>. QED BY <1>c, <2>1, <2>2 DEF Click
  <1>d. disabled \in BOOLEAN BY DEF WorldOK
  <1>1. CASE ClickReset
    BY <1>1, <1>a, <1>c, <1>d, AskCleared DEF ClickReset
  <1>2. CASE ClickSingle
    BY <1>2, <1>a, <1>c, <1>d, AskSet DEF ClickSingle
  <1>3. CASE ClickRestart
    BY <1>3, <1>a, <1>c, <1>d, AskSet DEF ClickRestart
  <1>4. CASE ClickOff
    BY <1>4, <1>a, <1>c DEF ClickOff
  <1>5. CASE ClickOn
    <2>1. WorldOK' BY <1>5 DEF ClickOn, WorldOK
    <2>2. ThreadOK' BY <1>5, <1>a, ThreadTyped DEF ClickOn, life, air
    <2>. QED BY <1>5, <2>1, <2>2 DEF ClickOn
  <1>6. CASE Shutdown
    <2>1. ask' \in AskType BY <1>6, <1>a, AskCleared DEF Shutdown
    <2>2. ThreadOK' BY <1>6, <1>a, <2>1, ThreadTyped DEF Shutdown, ClearTemporary, Hold
    <2>3. JobOK' BY <1>6 DEF Shutdown, ClearTemporary, JobOK, Dates
    <2>. QED BY <1>6, <2>2, <2>3 DEF Shutdown
  <1>. QED BY <1>1, <1>2, <1>3, <1>4, <1>5, <1>6 DEF User

LEMMA TypeCards == TypeOK /\ World => TypeOK'
  <1>. SUFFICES ASSUME TypeOK, World PROVE TypeOK'
    OBVIOUS
  <1>. USE WorldKept, JobKept, SimKept, RecordsKept DEF TypeOK
  <1>a. ask \in AskType /\ pc \in Steps BY DEF ThreadOK
  <1>b. Event => events' \in 0 .. MaxEvents
    BY BadPortAssumption DEF Event, WorldOK
  <1>1. CASE PromptTimeout
    <2>1. ThreadOK' BY <1>1 DEF PromptTimeout, ThreadOK, life, air
    <2>. QED BY <1>1, <2>1 DEF PromptTimeout
  <1>2. ASSUME NEW c \in Cards, InsertCard(c) PROVE TypeOK'
    <2>1. WorldOK' BY <1>2, <1>b DEF InsertCard, WorldOK, MaybeCard
    <2>2. swapped' \in BOOLEAN BY <1>2, Zenon DEF InsertCard
    <2>3. RecordsOK' BY <1>2, <2>2 DEF InsertCard, RecordsOK
    <2>4. ThreadOK' BY <1>2, <1>a, ThreadTyped DEF InsertCard, life, air
    <2>. QED BY <1>2, <2>1, <2>3, <2>4 DEF InsertCard
  <1>3. CASE RemoveCard
    <2>1. WorldOK' BY <1>3, <1>b DEF RemoveCard, WorldOK, MaybeCard
    <2>2. ThreadOK' BY <1>3, <1>a, ThreadTyped DEF RemoveCard, life, air
    <2>. QED BY <1>3, <2>1, <2>2 DEF RemoveCard
  <1>. QED BY <1>1, <1>2, <1>3 DEF World

LEMMA TypeStutter == TypeOK /\ UNCHANGED vars => TypeOK'
  BY WorldKept, JobKept, SimKept, RecordsKept DEF TypeOK, vars, ThreadOK, life, air

-----------------------------------------------------------------------------
(* The shape of the flow, action by action.                                *)

Resting == {"retry", "auto", "poll"}

(* Steps that are in no flow, and steps that stay where they are.          *)
LEMMA OutOfFlow ==
  ASSUME pc' \notin Flow \cup {"clear"}, after' \in Resting
  PROVE  FlowShape' /\ SnapshotIsTrue'
  BY DEF FlowShape, SnapshotIsTrue, InFlow, Flow, Dialling, Resting

LEMMA StaysPut ==
  ASSUME FlowShape, SnapshotIsTrue, UNCHANGED <<pc, after, nomor, tries, date>>,
         before' \in {before, NoDate}
  PROVE  FlowShape' /\ SnapshotIsTrue'
  BY DEF FlowShape, SnapshotIsTrue, Full, New, NoDate

(* A full flow that goes on with what it knows.                            *)
LEMMA GoesOn ==
  ASSUME FlowShape, SnapshotIsTrue, UNCHANGED <<after, nomor, before>>,
         pc \in InFlow, pc' \in InFlow, pc' \in {"nik", "kk"} => Full,
         pc' = "pause" => tries' < MAX_INJECT_RETRY,
         \A c \in Cards : date[c] = New => date'[c] = New
  PROVE  FlowShape' /\ SnapshotIsTrue'
  BY DEF FlowShape, SnapshotIsTrue, Full, InFlow

LEMMA Returns ==
  ASSUME FlowShape, Return, pc # "clear"
  PROVE  FlowShape' /\ SnapshotIsTrue' /\ pc' \in Resting
  <1>1. pc' \in Resting /\ after' \in Resting
    BY DEF FlowShape, Return, Resting
  <1>. QED BY <1>1, OutOfFlow DEF Resting, Flow, Dialling

LEMMA DateGrows ==
  ASSUME TypeOK, UNCHANGED date \/ (MayExtend /\ UNCHANGED slot)
  PROVE  \A c \in Cards : date[c] = New => date'[c] = New
  BY ExtendTyped DEF TypeOK

LEMMA ShapeInit == Init => FlowShape /\ SnapshotIsTrue
  BY DEF Init, FlowShape, SnapshotIsTrue, InFlow

LEMMA ShapeLoop == FlowInv /\ Loop => FlowShape' /\ SnapshotIsTrue'
  <1>. SUFFICES ASSUME FlowInv, Loop PROVE FlowShape' /\ SnapshotIsTrue'
    OBVIOUS
  <1>t. TypeOK /\ FlowShape /\ SnapshotIsTrue BY DEF FlowInv
  <1>a. pc # "clear" => after \in Resting BY <1>t DEF FlowShape, Resting
  <1>1. CASE End \/ Probe \/ Connect \/ Turn \/ TakeReset \/ AdvancePrompt \/ PerformReset
             \/ SkipPoll \/ LoopError
    <2>1. /\ pc' \in {"ended", "connect", "inner", "look", "tail", "reset", "outer"}
          /\ after' \in {after, "poll"} /\ pc # "clear"
      BY <1>1
      DEF End, Probe, Connect, Turn, TakeReset, AdvancePrompt, PerformReset, SkipPoll,
          LoopError, EndRound, job, Dialling, Polling
    <2>. QED BY <1>a, <2>1, OutOfFlow DEF Resting, Flow, Dialling
  <1>2. CASE ReadSingle
    <2>1. CASE pc' = "clear"
      BY <2>1 DEF FlowShape, SnapshotIsTrue, InFlow
    <2>2. CASE pc' # "clear"
      <3>1. pc' = "retry" /\ after' \in Resting
        BY <1>2, <2>2, <1>a DEF ReadSingle
      <3>. QED BY <3>1, OutOfFlow DEF Flow, Dialling
    <2>. QED BY <2>1, <2>2
  <1>3. CASE ClearSingle
    <2>1. after' = "retry" /\ pc' \in {after, "retry"} BY <1>3 DEF ClearSingle
    <2>2. after \in {"retry", "auto", "poll"} \cup Singles BY <1>t DEF TypeOK, JobOK
    <2>. QED BY <2>1, <2>2 DEF FlowShape, SnapshotIsTrue, Full, Singles
  <1>4. CASE TakeRetry \/ TakeAuto
    <2>1. /\ pc' \in {"auto", "poll", "stabilise"}
          /\ after' \in {"auto", "poll"} \cup {after}
          /\ pc' = "stabilise" => after' \in {"auto", "poll"}
          /\ pc # "clear"
      BY <1>4 DEF TakeRetry, TakeAuto, BeginFlow
    <2>2. CASE pc' = "stabilise"
      BY <2>1, <2>2 DEF FlowShape, SnapshotIsTrue, Full, InFlow
    <2>3. CASE pc' # "stabilise"
      <3>1. after' \in Resting BY <1>a, <2>1 DEF Resting
      <3>. QED BY <2>1, <2>3, <3>1, OutOfFlow DEF Flow, Dialling
    <2>. QED BY <2>2, <2>3
  <1>. QED BY <1>1, <1>2, <1>3, <1>4 DEF Loop

LEMMA ShapeFlow == FlowInv /\ FullFlow => FlowShape' /\ SnapshotIsTrue'
  <1>. SUFFICES ASSUME FlowInv, FullFlow PROVE FlowShape' /\ SnapshotIsTrue'
    OBVIOUS
  <1>t. TypeOK /\ FlowShape /\ SnapshotIsTrue BY DEF FlowInv
  <1>a. slot \in MaybeCard BY <1>t DEF TypeOK, WorldOK
  <1>. USE <1>t
  <1>1. CASE Cancel
    BY <1>1, Returns DEF Cancel, DropFlow, Dialling
  <1>2. CASE Prompts
    BY <1>2, Returns DEF Prompts, Answered, Dialling
  <1>3. CASE Stabilise
    <2>1. CASE pc' = "number" /\ UNCHANGED <<after, nomor, tries>> /\ pc = "stabilise"
      BY <2>1 DEF FlowShape, SnapshotIsTrue, Full, InFlow
    <2>2. CASE Return BY <1>3, <2>2, Returns DEF Stabilise
    <2>. QED BY <1>3, <2>1, <2>2 DEF Stabilise
  <1>4. CASE CheckNumber
    <2>1. CASE NumberFails BY <2>1, Returns DEF NumberFails, GiveUp, Answered
    <2>2. ASSUME NEW shown \in Shown, NEW status \in CardStatus,
                 NumberRead(shown, status)
          PROVE  FlowShape' /\ SnapshotIsTrue'
      <3>1. /\ pc = "number" /\ slot # NoCard /\ before' = shown /\ date' = date
        BY <2>2 DEF NumberRead, Answered, world
      <3>2. shown = New => date[slot] = New BY <3>1 DEF Shown, New, NoDate
      <3>3. CASE status = "HANGUS"
        <4>1. nomor' = slot /\ pc' \in {"inject", "nik"} /\ after' = after
          BY <2>2, <3>3 DEF NumberRead
        <4>2. slot \in Cards BY <1>a, <3>1 DEF MaybeCard
        <4>. QED BY <3>1, <3>2, <4>1, <4>2 DEF FlowShape, SnapshotIsTrue, Full, InFlow
      <3>4. CASE status # "HANGUS" BY <2>2, <3>1, <3>4, Returns DEF NumberRead
      <3>. QED BY <3>3, <3>4
    <2>. QED BY <1>4, <2>1, <2>2 DEF CheckNumber
  <1>5. CASE FindData
    <2>1. CASE NikFails BY <2>1, Returns DEF NikFails, GiveUp, Answered
    <2>2. CASE NikRead
      <3>1. pc = "nik" /\ pc' = "kk" /\ Full
        BY <2>2 DEF NikRead, Answered, FlowShape
      <3>. QED BY <2>2, <3>1, GoesOn DEF NikRead, InFlow
    <2>3. CASE KkMissing BY <2>3, Returns DEF KkMissing, GiveUp
    <2>4. CASE KkFound BY <2>4, GoesOn DEF KkFound, InFlow
    <2>. QED BY <1>5, <2>1, <2>2, <2>3, <2>4 DEF FindData
  <1>6. CASE Inject
    <2>1. CASE Return
      BY <1>6, <2>1, Returns
      DEF Inject, InjectRefused, InjectAccepted, InjectFails, InjectPrompts, Answered
    <2>2. CASE ~Return
      <3>1. /\ pc = "inject" /\ pc' \in {"pause", "verify"} /\ UNCHANGED <<after, nomor>>
            /\ pc' = "pause" => tries' < MAX_INJECT_RETRY
        BY <1>6, <2>2
        DEF Inject, InjectRefused, InjectAccepted, InjectFails, InjectPrompts, Answered,
            MayRetry
      <3>2. before' = before /\ slot' = slot /\ MayExtend
        BY <1>6 DEF Inject, FlowKeeps
      <3>. QED BY <3>1, <3>2, DateGrows, GoesOn DEF InFlow
    <2>. QED BY <2>1, <2>2
  <1>7. CASE Pause
    <2>1. CASE Return BY <1>7, <2>1, Returns DEF Pause
    <2>2. CASE ~Return
      BY <1>7, <2>2, GoesOn DEF Pause, InjectAgain, InFlow
    <2>. QED BY <2>1, <2>2
  <1>8. CASE Verify
    BY <1>8, Returns DEF Verify, VerifyFails, Verified, Answered
  <1>9. CASE WriteDial
    BY <1>9, StaysPut DEF WriteDial, world, job
  <1>. QED BY <1>1, <1>2, <1>3, <1>4, <1>5, <1>6, <1>7, <1>8, <1>9 DEF FullFlow

LEMMA ShapeSingle == FlowInv /\ SingleAction => FlowShape' /\ SnapshotIsTrue'
  <1>. SUFFICES ASSUME FlowInv, SingleAction PROVE FlowShape' /\ SnapshotIsTrue'
    OBVIOUS
  <1>t. TypeOK /\ FlowShape /\ SnapshotIsTrue BY DEF FlowInv
  <1>1. CASE CekNomor \/ CekNik
    BY <1>1, <1>t, Returns DEF CekNomor, CekNik, Answered
  <1>2. CASE Reaktivasi
    <2>1. CASE Return BY <1>2, <2>1, <1>t, Returns DEF Reaktivasi
    <2>2. CASE ~Return
      <3>1. pc' = "inject" /\ after' = "retry"
        BY <1>2, <2>2, <1>t DEF Reaktivasi, FlowShape
      <3>. QED BY <3>1 DEF FlowShape, SnapshotIsTrue, Full
    <2>. QED BY <2>1, <2>2
  <1>. QED BY <1>1, <1>2 DEF SingleAction

LEMMA PollOutOfFlow ==
  ASSUME SimPoll
  PROVE  /\ pc \in Polling /\ pc' \in {"outer", "final", "confirm"}
         /\ UNCHANGED <<after, nomor, slot, date, harvested, swapped>>
  BY DEF SimPoll, PollReady, PollNotReady, PollUnknown, PollGone, FinalQuery, Confirm,
     Polls, Hears, ConfirmOrSettle, Settle, EndRound, AskAgain, Polling

LEMMA ShapePoll == FlowInv /\ SimPoll => FlowShape' /\ SnapshotIsTrue'
  <1>. SUFFICES ASSUME FlowInv, SimPoll PROVE FlowShape' /\ SnapshotIsTrue'
    OBVIOUS
  <1>1. /\ pc # "clear" /\ after' = after /\ pc' \in {"outer", "final", "confirm"}
    BY PollOutOfFlow DEF Polling
  <1>2. after' \in Resting BY <1>1 DEF FlowInv, FlowShape, Resting
  <1>. QED BY <1>1, <1>2, OutOfFlow DEF Flow, Dialling

LEMMA ShapeOthers ==
  FlowInv /\ (User \/ World \/ UNCHANGED vars) => FlowShape' /\ SnapshotIsTrue'
  <1>. SUFFICES ASSUME FlowInv, User \/ World \/ UNCHANGED vars
                PROVE  FlowShape' /\ SnapshotIsTrue'
    OBVIOUS
  <1>1. /\ UNCHANGED <<pc, after, nomor, tries, date>>
        /\ before' \in {before, NoDate}
    BY DEF User, ClickReset, ClickSingle, ClickRestart, ClickOff, ClickOn, Click,
       Shutdown, ClearTemporary, World, PromptTimeout, InsertCard, RemoveCard,
       vars, job, world
  <1>. QED BY <1>1, StaysPut DEF FlowInv

LEMMA FlowStep == FlowInv /\ [Next]_vars => FlowInv'
  <1>1. FlowInv /\ [Next]_vars => TypeOK'
    BY TypeLoop, TypeFlow, TypeSingle, TypePoll, TypeUser, TypeCards, TypeStutter
    DEF Next, Worker, FlowInv
  <1>2. FlowInv /\ [Next]_vars => FlowShape' /\ SnapshotIsTrue'
    BY ShapeLoop, ShapeFlow, ShapeSingle, ShapePoll, ShapeOthers DEF Next, Worker
  <1>. QED BY <1>1, <1>2 DEF FlowInv

LEMMA FlowInvariant == Spec => []FlowInv
  <1>1. Init => FlowInv BY TypeInit, ShapeInit DEF FlowInv
  <1>. QED BY <1>1, FlowStep, PTL DEF Spec

(* Every variable of the port's worker keeps its type; neither injections  *)
(* nor removals are counted past their limits.                             *)
THEOREM BadTypeCorrect == Spec => []TypeOK
  <1>1. FlowInv => TypeOK BY DEF FlowInv
  <1>. QED BY <1>1, FlowInvariant, PTL

-----------------------------------------------------------------------------
(* The cards: a flow is about the card in the slot, until another card is  *)
(* put in while a flow is running.                                         *)

OneCard == ~swapped /\ nomor # NoCard => slot \in {nomor, NoCard}

CardInv == FlowInv /\ OneCard /\ HarvestIsExtended

(* A step that moves no card: the flow keeps its number, drops it, or      *)
(* reads the one in the slot.                                              *)
LEMMA CardsRest ==
  ASSUME CardInv, UNCHANGED <<slot, swapped, harvested>>,
         nomor' \in {nomor, NoCard, slot},
         \A c \in Cards : date[c] = New => date'[c] = New
  PROVE  OneCard' /\ HarvestIsExtended'
  <1>1. OneCard' BY DEF CardInv, OneCard
  <1>2. harvested \subseteq Cards BY DEF CardInv, FlowInv, TypeOK, RecordsOK
  <1>3. HarvestIsExtended' BY <1>2 DEF CardInv, HarvestIsExtended
  <1>. QED BY <1>1, <1>3

LEMMA CardsLoop == CardInv /\ Loop => OneCard' /\ HarvestIsExtended'
  <1>. SUFFICES ASSUME CardInv, Loop PROVE OneCard' /\ HarvestIsExtended'
    OBVIOUS
  <1>1. /\ UNCHANGED <<slot, swapped, harvested>> /\ nomor' \in {nomor, NoCard}
        /\ UNCHANGED date \/ (MayExtend /\ UNCHANGED slot)
    BY DEF Loop, End, Probe, Connect, Turn, TakeReset, AdvancePrompt, PerformReset,
       ReadSingle, ClearSingle, TakeRetry, TakeAuto, BeginFlow, SkipPoll, LoopError,
       world, job, records
  <1>2. TypeOK BY DEF CardInv, FlowInv
  <1>. QED BY <1>1, <1>2, DateGrows, CardsRest

(* A number is harvested when the date of the card in the slot has changed *)
(* since the flow read it; the card is the one the flow is about.          *)
LEMMA HarvestGrows ==
  ASSUME CardInv, NEW shown \in Shown, NEW status \in CardStatus,
         Verified(shown, status)
  PROVE  OneCard' /\ HarvestIsExtended'
  <1>t. TypeOK /\ SnapshotIsTrue BY DEF CardInv, FlowInv
  <1>1. /\ pc = "verify" /\ slot # NoCard /\ UNCHANGED <<slot, date, swapped>>
        /\ nomor' = NoCard
    BY DEF Verified, Answered, Return, world, Succeeded, Changed, Shown
  <1>2. OneCard' BY <1>1 DEF OneCard
  <1>3. CASE ~Full
    <2>1. harvested' = harvested BY <1>3 DEF Verified
    <2>. QED BY <1>1, <1>2, <2>1 DEF CardInv, HarvestIsExtended
  <1>4. CASE Full
    <2>1. nomor \in Cards /\ (before = New => date[nomor] = New)
      BY <1>t, <1>1, <1>4 DEF SnapshotIsTrue, InFlow
    <2>2. harvested' = harvested \cup {nomor} BY <1>4 DEF Verified
    <2>3. ASSUME ~swapped PROVE date[nomor] = New
      <3>1. slot = nomor BY <1>1, <2>1, <2>3, BadPortAssumption DEF CardInv, OneCard
      <3>2. /\ before # NoDate /\ shown # NoDate /\ before # shown
        BY DEF Verified, Succeeded, Changed
      <3>3. shown = date[nomor] BY <1>1, <3>1, <3>2 DEF Shown
      <3>4. before \in Dates /\ date[nomor] \in {Old, New}
        BY <1>t, <2>1 DEF TypeOK, JobOK, WorldOK
      <3>. QED BY <2>1, <3>2, <3>3, <3>4 DEF Dates
    <2>. QED BY <1>1, <1>2, <2>2, <2>3 DEF CardInv, HarvestIsExtended
  <1>. QED BY <1>3, <1>4

LEMMA CardsFlow == CardInv /\ FullFlow => OneCard' /\ HarvestIsExtended'
  <1>. SUFFICES ASSUME CardInv, FullFlow PROVE OneCard' /\ HarvestIsExtended'
    OBVIOUS
  <1>t. TypeOK BY DEF CardInv, FlowInv
  <1>1. ASSUME NEW shown \in Shown, NEW status \in CardStatus, Verified(shown, status)
        PROVE  OneCard' /\ HarvestIsExtended'
    BY <1>1, HarvestGrows
  <1>2. CASE WriteDial \/ Cancel \/ Prompts \/ Stabilise \/ FindData \/ Inject \/ Pause \/ VerifyFails
    <2>1. /\ UNCHANGED <<slot, swapped, harvested>> /\ nomor' \in {nomor, NoCard}
          /\ UNCHANGED date \/ (MayExtend /\ UNCHANGED slot)
      BY <1>2
      DEF WriteDial, Cancel, DropFlow, Prompts, Stabilise, FindData, NikFails, NikRead,
          KkMissing, KkFound, GiveUp, Inject, InjectRefused, InjectAccepted, InjectFails,
          InjectPrompts, Pause, InjectAgain, VerifyFails, Return, FlowKeeps,
          world, job, records
    <2>. QED BY <2>1, <1>t, DateGrows, CardsRest
  <1>3. CASE CheckNumber
    <2>1. /\ UNCHANGED <<slot, date, swapped, harvested>>
          /\ nomor' \in {nomor, NoCard, slot}
      BY <1>3
      DEF CheckNumber, NumberFails, GiveUp, NumberRead, Return, FlowKeeps, world, records
    <2>. QED BY <2>1, <1>t, CardsRest
  <1>. QED BY <1>1, <1>2, <1>3 DEF FullFlow, Verify

LEMMA CardsSingle == CardInv /\ SingleAction => OneCard' /\ HarvestIsExtended'
  <1>. SUFFICES ASSUME CardInv, SingleAction PROVE OneCard' /\ HarvestIsExtended'
    OBVIOUS
  <1>1. UNCHANGED <<slot, date, swapped, harvested>> /\ nomor' \in {nomor, NoCard}
    BY DEF SingleAction, CekNomor, CekNik, Reaktivasi, Return, FlowKeeps
  <1>. QED BY <1>1, CardsRest

LEMMA CardsPoll == CardInv /\ SimPoll => OneCard' /\ HarvestIsExtended'
  BY PollOutOfFlow, CardsRest

LEMMA CardsUser == CardInv /\ (User \/ UNCHANGED vars) => OneCard' /\ HarvestIsExtended'
  <1>. SUFFICES ASSUME CardInv, User \/ UNCHANGED vars
                PROVE  OneCard' /\ HarvestIsExtended'
    OBVIOUS
  <1>1. UNCHANGED <<slot, date, nomor, swapped, harvested>>
    BY DEF User, ClickReset, ClickSingle, ClickRestart, ClickOff, ClickOn, Click,
       Shutdown, vars, job, world, records
  <1>. QED BY <1>1, CardsRest

LEMMA CardsWorld == CardInv /\ World => OneCard' /\ HarvestIsExtended'
  <1>. SUFFICES ASSUME CardInv, World PROVE OneCard' /\ HarvestIsExtended'
    OBVIOUS
  <1>1. ASSUME NEW c \in Cards, InsertCard(c) PROVE OneCard' /\ HarvestIsExtended'
    <2>1. /\ UNCHANGED <<date, nomor, harvested>> /\ slot' = c
          /\ swapped' = (swapped \/ nomor \notin {c, NoCard})
      BY <1>1 DEF InsertCard, job
    <2>2. ~swapped' => ~swapped /\ nomor \in {c, NoCard} BY <2>1, Zenon
    <2>. QED BY <2>1, <2>2 DEF CardInv, OneCard, HarvestIsExtended
  <1>2. CASE RemoveCard
    <2>1. UNCHANGED <<date, nomor, swapped, harvested>> /\ slot' = NoCard
      BY <1>2 DEF RemoveCard, job, records
    <2>. QED BY <2>1 DEF CardInv, OneCard, HarvestIsExtended
  <1>3. CASE PromptTimeout
    <2>1. UNCHANGED <<slot, date, nomor, swapped, harvested>>
      BY <1>3 DEF PromptTimeout, world, job, records
    <2>. QED BY <2>1, CardsRest
  <1>. QED BY <1>1, <1>2, <1>3 DEF World

(* A card whose number is harvested has been extended by the network,      *)
(* whatever resets and repeated injections came in between.                *)
THEOREM BadHarvestCorrect == Spec => []HarvestIsExtended
  <1>1. Init => CardInv
    BY TypeInit, ShapeInit DEF CardInv, FlowInv, Init, OneCard, HarvestIsExtended
  <1>2. CardInv /\ [Next]_vars => OneCard' /\ HarvestIsExtended'
    BY CardsLoop, CardsFlow, CardsSingle, CardsPoll, CardsUser, CardsWorld
    DEF Next, Worker
  <1>3. CardInv /\ [Next]_vars => CardInv' BY <1>2, FlowStep DEF CardInv
  <1>4. CardInv => HarvestIsExtended BY DEF CardInv
  <1>. QED BY <1>1, <1>3, <1>4, PTL DEF Spec

-----------------------------------------------------------------------------
(* The checkpoints: how each step comes to a dial.                         *)

BeginsDial == pc' \in Dialling /\ pc' # pc

LEMMA ReturnsFromFlow ==
  ASSUME FlowShape, pc # "clear", Return
  PROVE  pc' \notin Dialling
  BY Returns DEF Resting, Dialling

(* The steps of the loop, of the poll and of the world: a dial is begun    *)
(* only past a checkpoint, and none is written.                            *)
LEMMA ResetLoop ==
  ASSUME FlowInv, Loop
  PROVE  /\ ask'.reset => ask.reset
         /\ sent' \in {sent, FALSE}
         /\ pc' \in Dialling => BeginsDial /\ ~ask.reset
  <1>a. ask \in AskType BY DEF FlowInv, TypeOK, ThreadOK
  <1>1. CASE ClearSingle
    <2>1. ask'.reset = ask.reset BY <1>a, <1>1 DEF ClearSingle, AskType
    <2>2. pc = "clear" /\ sent' = sent BY <1>1 DEF ClearSingle, air
    <2>3. CASE ask.reset
      <3>1. pc' = "retry" BY <1>1, <2>3 DEF ClearSingle
      <3>. QED BY <2>1, <2>2, <3>1 DEF Dialling
    <2>. QED BY <2>1, <2>2, <2>3 DEF BeginsDial, Dialling
  <1>2. CASE ~ClearSingle
    <2>1. pc' \notin Dialling
      BY <1>2
      DEF Loop, End, Probe, Connect, Turn, TakeReset, AdvancePrompt, PerformReset,
          ReadSingle, TakeRetry, TakeAuto, BeginFlow, SkipPoll, LoopError, EndRound,
          Dialling
    <2>2. sent' \in {sent, FALSE}
      BY <1>2
      DEF Loop, End, Probe, Connect, Turn, TakeReset, AdvancePrompt, PerformReset,
          ReadSingle, TakeRetry, TakeAuto, BeginFlow, SkipPoll, LoopError, air
    <2>3. ask'.reset => ask.reset
      BY <1>a, <1>2
      DEF Loop, End, Probe, Connect, Turn, TakeReset, AdvancePrompt, PerformReset,
          ReadSingle, TakeRetry, TakeAuto, BeginFlow, SkipPoll, LoopError, AskType
    <2>. QED BY <2>1, <2>2, <2>3
  <1>. QED BY <1>1, <1>2

LEMMA ResetFlow ==
  ASSUME FlowInv, FullFlow \/ SingleAction, ~WriteDial
  PROVE  /\ ask' = ask /\ sent' = FALSE
         /\ pc' \in Dialling => ~ask.reset
  <1>1. pc \in Flow
    BY DEF FullFlow, SingleAction, Cancel, Prompts, Stabilise, CheckNumber, NumberFails,
       NumberRead, FindData, NikFails, NikRead, KkMissing, KkFound, Inject,
       InjectRefused, InjectAccepted, InjectFails, InjectPrompts, Pause, Verify,
       VerifyFails, Verified, CekNomor, CekNik, Reaktivasi, Answered, Flow, Dialling
  <1>2. Return => pc' \notin Dialling
    BY <1>1, ReturnsFromFlow DEF FlowInv, Flow, Dialling
  <1>3. ask' = ask /\ sent' = FALSE
    BY DEF FullFlow, SingleAction, Cancel, DropFlow, Prompts, Stabilise, CheckNumber,
       NumberFails, NumberRead, FindData, NikFails, NikRead, KkMissing, KkFound, GiveUp,
       Inject, Pause, Verify, VerifyFails, Verified, CekNomor, CekNik, Reaktivasi,
       FlowKeeps
  <1>4. Return \/ ~ask.reset
    BY DEF FullFlow, SingleAction, Cancel, DropFlow, Prompts, Stabilise, CheckNumber,
        NumberFails, NumberRead, FindData, NikFails, NikRead, KkMissing, KkFound, GiveUp,
        Inject, InjectRefused, InjectAccepted, InjectFails, InjectPrompts, Pause,
        InjectAgain, Verify, VerifyFails, Verified, CekNomor, CekNik, Reaktivasi, Answered
  <1>. QED BY <1>2, <1>3, <1>4

LEMMA ResetPoll ==
  ASSUME FlowInv, SimPoll
  PROVE  /\ ask'.reset => ask.reset
         /\ sent' = sent /\ pc' \notin Dialling
  <1>a. ask \in AskType BY DEF FlowInv, TypeOK, ThreadOK
  <1>1. pc' \notin Dialling BY PollOutOfFlow DEF Dialling
  <1>2. sent' = sent
    BY DEF SimPoll, PollReady, PollNotReady, PollUnknown, PollGone, FinalQuery, Confirm,
       Polls, air
  <1>3. ask' = ask \/ \E b : ask' = [ask EXCEPT !.auto = b]
    BY DEF SimPoll, PollReady, PollNotReady, PollUnknown, PollGone, FinalQuery, Confirm,
       ConfirmOrSettle, Settle, AskAgain, Transition, Announce, Definite
  <1>. QED BY <1>a, <1>1, <1>2, <1>3 DEF AskType

(* The user asks for a reset, and what waits to be written is noted; or    *)
(* the reset and the dial are left as they are.                            *)
LEMMA ResetOthers ==
  ASSUME FlowInv, User \/ World \/ UNCHANGED vars
  PROVE  /\ UNCHANGED <<pc, sent>>
         /\ Hold \/ (held' = held /\ (ask'.reset => ask.reset))
  <1>a. ask \in AskType BY DEF FlowInv, TypeOK, ThreadOK
  <1>. QED BY <1>a
    DEF User, ClickReset, ClickSingle, ClickRestart, ClickOff, ClickOn, Click, Shutdown,
        World, PromptTimeout, InsertCard, RemoveCard, vars, air, AskType

(* A dial that waits while a reset is asked for waited already when it was *)
(* asked for.                                                              *)
HeldBefore == (ask.reset /\ pc \in Dialling /\ ~sent) => held

LEMMA HeldStep == FlowInv /\ HeldBefore /\ [Next]_vars => HeldBefore'
  <1>. SUFFICES ASSUME FlowInv, HeldBefore, [Next]_vars PROVE HeldBefore'
    OBVIOUS
  <1>1. CASE Loop BY <1>1, ResetLoop DEF HeldBefore
  <1>2. CASE WriteDial BY <1>2 DEF WriteDial, HeldBefore
  <1>3. CASE (FullFlow \/ SingleAction) /\ ~WriteDial
    BY <1>3, ResetFlow DEF HeldBefore
  <1>4. CASE SimPoll BY <1>4, ResetPoll DEF HeldBefore
  <1>5. CASE User \/ World \/ UNCHANGED vars
    <2>1. UNCHANGED <<pc, sent>> BY <1>5, ResetOthers
    <2>2. CASE held' = held /\ (ask'.reset => ask.reset)
      BY <2>1, <2>2, Zenon DEF HeldBefore
    <2>3. CASE Hold
      <3>1. held' = (pc \in Dialling /\ ~sent) BY <2>3 DEF Hold
      <3>. QED BY <2>1, <3>1, Zenon DEF HeldBefore
    <2>. QED BY <1>5, <2>2, <2>3, ResetOthers
  <1>. QED BY <1>1, <1>2, <1>3, <1>4, <1>5 DEF Next, Worker

LEMMA WritesHeld ==
  FlowInv /\ HeldBefore /\ [Next]_vars => ((ask.reset /\ sent' /\ ~sent) => held)
  <1>. SUFFICES ASSUME FlowInv, HeldBefore, [Next]_vars, ask.reset, sent', ~sent
                PROVE  held
    OBVIOUS
  <1>1. CASE WriteDial BY <1>1 DEF WriteDial, HeldBefore
  <1>2. CASE Loop BY <1>2, ResetLoop
  <1>3. CASE (FullFlow \/ SingleAction) /\ ~WriteDial BY <1>3, ResetFlow
  <1>4. CASE SimPoll BY <1>4, ResetPoll
  <1>5. CASE User \/ World \/ UNCHANGED vars BY <1>5, ResetOthers
  <1>. QED BY <1>1, <1>2, <1>3, <1>4, <1>5 DEF Next, Worker

(* A dial goes on the air while a reset is asked for only if it was past   *)
(* its checkpoint when the reset was asked for.                            *)
THEOREM ResetIsFirst == Spec => ResetComesFirst
  <1>1. Init => HeldBefore BY DEF Init, HeldBefore, NoAsk
  <1>2. FlowInv /\ HeldBefore /\ [Next]_vars
          => [(ask.reset /\ sent' /\ ~sent) => held]_vars
    BY WritesHeld
  <1>. QED BY <1>1, <1>2, HeldStep, FlowInvariant, PTL DEF Spec, ResetComesFirst
===============================================================================
