---------------------------- MODULE KebunPortProofs ----------------------------
(* For any set of cards and any bound on events: KebunPort keeps its types, *)
(* only extended cards are harvested, and the phone cache pairs a number   *)
(* with its own NIK and KK.                                                *)
EXTENDS KebunPort, TLAPS

-----------------------------------------------------------------------------
(* Types, part by part.                                                    *)

LEMMA TypeInit == Init => TypeOK
  <1>. SUFFICES ASSUME Init PROVE TypeOK
    OBVIOUS
  <1>1. WorldOK
    <2>1. disabled \in BOOLEAN BY Zenon DEF Init
    <2>2. events \in 0 .. MaxEvents BY KebunAssumption DEF Init
    <2>3. date \in [Cards -> {Old, New}] BY DEF Init
    <2>. QED BY <2>1, <2>2, <2>3 DEF Init, WorldOK
  <1>2. SimOK BY DEF Init, SimOK, CpinAnswers, Definite
  <1>3. JobOK BY DEF Init, JobOK, Steps, FlowType, NoFlow, PairType, NoPair,
    Pair, MaybeCard, Dates, NoDate
  <1>4. RecordsOK BY DEF Init, RecordsOK, RowType, NoRow, PairType, NoPair, Pair,
    MaybeCard
  <1>5. BudgetOK
    <2>1. awaiting \in BOOLEAN BY Zenon DEF Init
    <2>2. ask \in AskType BY DEF Init, AskType, NoAsk
    <2>3. prompts \in 0 .. PROMPT_RECOVERY_MAX BY DEF Init, PROMPT_RECOVERY_MAX
    <2>. QED BY <2>1, <2>2, <2>3 DEF BudgetOK
  <1>. QED BY <1>1, <1>2, <1>3, <1>4, <1>5 DEF TypeOK

LEMMA WorldKept == WorldOK /\ UNCHANGED world => WorldOK'
  BY DEF WorldOK, world

LEMMA SimKept == SimOK /\ UNCHANGED sim => SimOK'
  BY DEF SimOK, sim

LEMMA RecordsKept == RecordsOK /\ UNCHANGED records => RecordsOK'
  BY DEF RecordsOK, records, caches, history

LEMMA BudgetKept == BudgetOK /\ UNCHANGED budget => BudgetOK'
  BY DEF BudgetOK, budget

LEMMA ReturnTyped == JobOK /\ Return => JobOK'
  BY DEF JobOK, Return, Steps, Single, Singles, Polling, FlowType, NoFlow,
     PairType, NoPair, Pair, MaybeCard, Dates, NoDate

LEMMA AutoSet ==
  ASSUME ask \in AskType, NEW b \in BOOLEAN
  PROVE  [ask EXCEPT !.auto = b] \in AskType
  BY DEF AskType

LEMMA RecoverTyped ==
  ASSUME BudgetOK, Recover, UNCHANGED awaiting
  PROVE  BudgetOK'
  <1>1. prompts' \in 0 .. PROMPT_RECOVERY_MAX
    BY DEF BudgetOK, Recover, PROMPT_RECOVERY_MAX
  <1>2. ask' \in AskType
    <2>1. CASE prompts < PROMPT_RECOVERY_MAX
      <3>1. (prompts < PROMPT_RECOVERY_MAX) = TRUE BY <2>1
      <3>2. ask' = [ask EXCEPT !.auto = TRUE] BY <3>1, Zenon DEF Recover
      <3>. QED BY <3>2, AutoSet DEF BudgetOK
    <2>2. CASE ~(prompts < PROMPT_RECOVERY_MAX)
      <3>1. (prompts < PROMPT_RECOVERY_MAX) = FALSE BY <2>2
      <3>2. ask' = [ask EXCEPT !.auto = FALSE] BY <3>1, Zenon DEF Recover
      <3>. QED BY <3>2, AutoSet DEF BudgetOK
    <2>. QED BY <2>1, <2>2
  <1>. QED BY <1>1, <1>2, Zenon DEF BudgetOK

-----------------------------------------------------------------------------
LEMMA TypeLoop == TypeOK /\ Loop => TypeOK'
  <1>. SUFFICES ASSUME TypeOK, Loop PROVE TypeOK'
    OBVIOUS
  <1>. USE KebunAssumption, WorldKept, SimKept, RecordsKept, BudgetKept DEF TypeOK
  <1>a. pc' \in Steps \ Flow /\ UNCHANGED job => JobOK' BY DEF JobOK, job, Flow
  <1>1. CASE Connect
    BY <1>1, <1>a DEF Connect, Steps, Flow
  <1>2. CASE LoopError
    <2>1. WorldOK' BY <1>2 DEF LoopError, WorldOK, Event
    <2>2. SimOK' BY <1>2 DEF LoopError, SimOK, CpinAnswers
    <2>3. JobOK' BY <1>2 DEF LoopError, JobOK, Steps, FlowType, NoFlow, PairType,
      NoPair, Pair, MaybeCard, Dates, NoDate
    <2>. QED BY <1>2, <2>1, <2>2, <2>3 DEF LoopError
  <1>3. CASE Leave BY <1>3, <1>a DEF Leave, Steps, Flow
  <1>4. CASE TakeReset
    <2>1. BudgetOK' BY <1>4 DEF TakeReset, BudgetOK, AskType
    <2>. QED BY <1>4, <1>a, <2>1 DEF TakeReset, Steps, Flow
  <1>5. CASE PerformReset
    <2>1. ask' \in AskType BY <1>5, AutoSet DEF PerformReset, BudgetOK
    <2>2. prompts' \in 0 .. PROMPT_RECOVERY_MAX
      BY <1>5 DEF PerformReset, BudgetOK, PROMPT_RECOVERY_MAX
    <2>3. BudgetOK' BY <1>5, <2>1, <2>2, Zenon DEF PerformReset, BudgetOK
    <2>. QED BY <1>5, <1>a, <2>3 DEF PerformReset, Steps, Flow
  <1>6. CASE ReadSingle
    <2>1. JobOK' BY <1>6 DEF ReadSingle, JobOK, BudgetOK, AskType, Steps
    <2>. QED BY <1>6, <2>1 DEF ReadSingle
  <1>7. CASE ClearSingle
    <2>1. JobOK'
      BY <1>7 DEF ClearSingle, JobOK, Steps, Single, Singles, Polling
    <2>2. BudgetOK' BY <1>7 DEF ClearSingle, BudgetOK, AskType
    <2>. QED BY <1>7, <2>1, <2>2 DEF ClearSingle
  <1>8. CASE TakeRetry
    <2>1. JobOK' BY <1>8 DEF TakeRetry, BeginFlow, JobOK, Steps, Flow
    <2>2. BudgetOK' BY <1>8 DEF TakeRetry, BeginFlow, BudgetOK, AskType
    <2>. QED BY <1>8, <2>1, <2>2 DEF TakeRetry, BeginFlow
  <1>9. CASE TakeAuto
    <2>1. JobOK' BY <1>9 DEF TakeAuto, BeginFlow, JobOK, Steps, Flow
    <2>2. BudgetOK' BY <1>9 DEF TakeAuto, BeginFlow, BudgetOK, AskType
    <2>. QED BY <1>9, <2>1, <2>2 DEF TakeAuto, BeginFlow
  <1>. QED BY <1>1, <1>2, <1>3, <1>4, <1>5, <1>6, <1>7, <1>8, <1>9 DEF Loop

(* A flow or a single action that ends without having changed the records. *)
LEMMA TypeGiveUp == TypeOK /\ GiveUp => TypeOK'
  BY WorldKept, SimKept, RecordsKept, BudgetKept, ReturnTyped DEF TypeOK, GiveUp

LEMMA TypeRequeue == TypeOK /\ Requeue => TypeOK'
  BY WorldKept, SimKept, RecordsKept, RecoverTyped, ReturnTyped DEF TypeOK, Requeue

LEMMA CacheTyped ==
  ASSUME RecordsOK, NEW nomor \in MaybeCard, NEW pair \in PairType,
         UpdatePhoneCache(nomor, pair)
  PROVE  known' \in [Cards -> PairType]
  BY DEF RecordsOK, UpdatePhoneCache, MaybeCard

LEMMA TypeFlow == TypeOK /\ FullFlow => TypeOK'
  <1>. SUFFICES ASSUME TypeOK, FullFlow PROVE TypeOK'
    OBVIOUS
  <1>. USE KebunAssumption, WorldKept, SimKept, RecordsKept, BudgetKept,
           ReturnTyped DEF TypeOK
  <1>1. CASE Stabilise
    <2>1. JobOK' BY <1>1 DEF Stabilise, JobOK, job, Steps, Flow
    <2>. QED BY <1>1, <2>1 DEF Stabilise
  <1>2. CASE CheckNumber
    <2>1. CASE NumberFails BY <2>1, TypeGiveUp DEF NumberFails
    <2>2. CASE NumberPrompts BY <2>2, TypeRequeue DEF NumberPrompts
    <2>3. ASSUME NEW shown \in Shown, NEW status \in CardStatus,
                 NumberRead(shown, status)
          PROVE  TypeOK'
      <3>1. shown \in Dates BY DEF Shown, WorldOK, MaybeCard, Dates
      <3>2. slot \in MaybeCard BY DEF WorldOK
      <3>3. slot \in Cards BY <2>3, <3>2 DEF NumberRead, Answered, Texts, MaybeCard
      <3>4. RecordsOK'
        BY <2>3, <3>2, <3>3
        DEF NumberRead, RecordsOK, caches, history, RowType, PairType
      <3>5. JobOK'
        <4>1. CASE status = "HANGUS"
          BY <2>3, <4>1, <3>1, <3>2, <3>3, KebunAssumption
          DEF NumberRead, JobOK, RecordsOK, FlowType, Steps, Flow
        <4>2. CASE status # "HANGUS" BY <2>3, <4>2 DEF NumberRead
        <4>. QED BY <4>1, <4>2
      <3>6. BudgetOK' BY <2>3 DEF NumberRead, BudgetOK, CardStatus
      <3>. QED BY <2>3, <3>4, <3>5, <3>6 DEF NumberRead
    <2>. QED BY <1>2, <2>1, <2>2, <2>3 DEF CheckNumber
  <1>3. CASE CheckNik
    <2>1. CASE NikFails BY <2>1, TypeGiveUp DEF NikFails
    <2>2. CASE NikPrompts BY <2>2, TypeRequeue DEF NikPrompts
    <2>3. CASE KkMissing
      <3>1. RecordsOK' 
        BY <2>3 DEF KkMissing, RecordsOK, caches, history, RowType, WorldOK
      <3>. QED BY <2>3, <3>1 DEF KkMissing
    <2>4. CASE NikRead
      <3>1. Pair(slot, slot) \in PairType BY DEF Pair, PairType, WorldOK
      <3>n. flow.nomor \in MaybeCard BY DEF JobOK, FlowType
      <3>k. known' \in [Cards -> PairType] BY <2>4, <3>1, <3>n, CacheTyped DEF NikRead
      <3>2. RecordsOK' BY <2>4, <3>k DEF NikRead, RecordsOK, RowType, WorldOK, history
      <3>3. JobOK' BY <2>4, <3>1 DEF NikRead, Answered, JobOK, FlowType, Steps, Flow
      <3>. QED BY <2>4, <3>2, <3>3 DEF NikRead
    <2>. QED BY <1>3, <2>1, <2>2, <2>3, <2>4 DEF CheckNik
  <1>4. CASE Inject
    <2>1. WorldOK' BY <1>4 DEF Inject, MayExtend, WorldOK, Old, New, MaybeCard
    <2>2. JobOK' BY <1>4 DEF Inject, Answered, JobOK, job, Steps, Flow
    <2>3. BudgetOK' BY <1>4, RecoverTyped DEF Inject, BudgetOK
    <2>. QED BY <1>4, <2>1, <2>2, <2>3 DEF Inject
  <1>5. CASE Verify
    <2>1. CASE VerifyFails BY <2>1, TypeGiveUp DEF VerifyFails
    <2>2. CASE VerifyPrompts BY <2>2, TypeRequeue DEF VerifyPrompts
    <2>3. ASSUME NEW shown \in Shown, NEW status \in CardStatus, Verified(shown, status)
          PROVE  TypeOK'
      <3>1. RecordsOK' 
        BY <2>3
        DEF Verified, Answered, RecordsOK, JobOK, FlowType, MaybeCard, history
      <3>2. BudgetOK' BY <2>3 DEF Verified, BudgetOK
      <3>. QED BY <2>3, <3>1, <3>2 DEF Verified
    <2>. QED BY <1>5, <2>1, <2>2, <2>3 DEF Verify
  <1>. QED BY <1>1, <1>2, <1>3, <1>4, <1>5 DEF FullFlow

LEMMA TypeSingle == TypeOK /\ SingleAction => TypeOK'
  <1>. SUFFICES ASSUME TypeOK, SingleAction PROVE TypeOK'
    OBVIOUS
  <1>. USE KebunAssumption, WorldKept, SimKept, RecordsKept, BudgetKept,
           ReturnTyped DEF TypeOK
  <1>a. row' \in RowType /\ UNCHANGED <<caches, history>> => RecordsOK'
    BY DEF RecordsOK, caches, history
  <1>1. CASE CekNomor
    <2>1. row' \in RowType BY <1>1 DEF CekNomor, SingleEnds, RecordsOK, RowType, WorldOK
    <2>. QED BY <1>1, <1>a, <2>1 DEF CekNomor, SingleEnds
  <1>2. CASE CekNikFails
    <2>1. row' \in RowType BY <1>2 DEF CekNikFails, RecordsOK
    <2>. QED BY <1>2, <1>a, <2>1 DEF CekNikFails, SingleEnds
  <1>3. CASE CekNik
    <2>1. Pair(slot, row.kk) \in PairType
      BY DEF Pair, PairType, WorldOK, RecordsOK, RowType
    <2>2. RecordsOK'
      BY <1>3, <2>1, CacheTyped DEF CekNik, RecordsOK, RowType, WorldOK, history
    <2>. QED BY <1>3, <2>2 DEF CekNik
  <1>4. CASE ReaktivasiLacksData
    <2>1. row' \in RowType BY <1>4 DEF ReaktivasiLacksData, RecordsOK
    <2>. QED BY <1>4, <1>a, <2>1 DEF ReaktivasiLacksData, SingleEnds
  <1>5. CASE Reaktivasi
    <2>1. Pair(row.nik, row.kk) \in PairType
      BY DEF Pair, PairType, RecordsOK, RowType
    <2>n. row.nomor \in MaybeCard BY DEF RecordsOK, RowType
    <2>k. known' \in [Cards -> PairType] BY <1>5, <2>1, <2>n, CacheTyped DEF Reaktivasi
    <2>2. RecordsOK' BY <1>5, <2>k DEF Reaktivasi, RecordsOK, history
    <2>3. WorldOK' BY <1>5 DEF Reaktivasi, MayExtend, WorldOK, MaybeCard
    <2>4. JobOK' BY <1>5 DEF Reaktivasi, JobOK, job, Steps, Single
    <2>. QED BY <1>5, <2>2, <2>3, <2>4 DEF Reaktivasi
  <1>6. CASE Reverify
    <2>1. row' \in RowType BY <1>6 DEF Reverify, RecordsOK
    <2>. QED BY <1>6, <1>a, <2>1 DEF Reverify, SingleEnds
  <1>. QED BY <1>1, <1>2, <1>3, <1>4, <1>5, <1>6 DEF SingleAction

-----------------------------------------------------------------------------
LEMMA HearsTyped ==
  ASSUME WorldOK, NEW answer, Hears(answer)
  PROVE  WorldOK'
  BY KebunAssumption DEF WorldOK, Hears, Event

LEMMA TransitionTyped ==
  ASSUME SimOK, RecordsOK, BudgetOK, UNCHANGED <<caches, crossed>>,
         NEW state \in Definite, Transition(state)
  PROVE  cpin' \in Definite /\ RecordsOK' /\ BudgetOK'
  <1>1. cpin' \in Definite BY DEF Transition
  <1>2. RecordsOK'
    <2>1. row' \in RowType
      BY DEF Transition, RecordsOK, ClearRow, NoRow, RowType, MaybeCard
    <2>2. left' \in MaybeCard BY DEF Transition, RecordsOK, MaybeCard
    <2>. QED BY <2>1, <2>2 DEF RecordsOK, caches
  <1>3. ask' \in AskType
    <2>. DEFINE auto == ask.auto \/ (AutoRunOnInsert /\ ~awaiting)
    <2>1. auto \in BOOLEAN BY Zenon
    <2>2. ask' = ask \/ ask' = [ask EXCEPT !.auto = auto] BY DEF Transition
    <2>. HIDE DEF auto
    <2>. QED BY <2>1, <2>2, AutoSet DEF BudgetOK
  <1>4. prompts' \in 0 .. PROMPT_RECOVERY_MAX
    BY DEF Transition, BudgetOK, PROMPT_RECOVERY_MAX
  <1>5. awaiting' \in BOOLEAN BY Zenon DEF Transition, BudgetOK
  <1>. QED BY <1>1, <1>2, <1>3, <1>4, <1>5 DEF BudgetOK

LEMMA SettleTyped ==
  ASSUME SimOK, RecordsOK, BudgetOK, UNCHANGED <<caches, crossed>>,
         NEW state, NEW count \in Nat,
         NEW confirming \in BOOLEAN, Settle(state, count, confirming)
  PROVE  SimOK' /\ RecordsOK' /\ BudgetOK'
  <1>1. cpin' \in Definite \cup {"UNKNOWN"} /\ RecordsOK' /\ BudgetOK'
    <2>1. CASE state \in Definite /\ state # cpin
      BY <2>1, TransitionTyped DEF Settle
    <2>2. CASE ~(state \in Definite /\ state # cpin)
      BY <2>2, BudgetKept, RecordsKept DEF Settle, SimOK, budget, records, history
    <2>. QED BY <2>1, <2>2
  <1>2. seen' \in CpinAnswers BY DEF Settle, CpinAnswers
  <1>3. unknown' \in Nat BY DEF Settle
  <1>4. pending' \in BOOLEAN
    <2>1. pending' = FALSE \/ pending' = confirming BY Zenon DEF Settle
    <2>. QED BY <2>1
  <1>. QED BY <1>1, <1>2, <1>3, <1>4 DEF SimOK

LEMMA AskAgainTyped ==
  ASSUME SimOK, RecordsOK, BudgetOK, UNCHANGED <<caches, crossed>>, NEW step,
         NEW state \in CpinAnswers, NEW count \in Nat,
         NEW confirming \in BOOLEAN, AskAgain(step, state, count, confirming)
  PROVE  SimOK' /\ RecordsOK' /\ BudgetOK'
  <1>1. SimOK' BY DEF AskAgain, SimOK
  <1>2. RecordsOK' /\ BudgetOK'
    BY BudgetKept, RecordsKept DEF AskAgain, budget, records, history
  <1>. QED BY <1>1, <1>2

LEMMA PollTyped ==
  ASSUME TypeOK, Polled, WorldOK', NEW state \in CpinAnswers, NEW count \in Nat,
         NEW confirming \in BOOLEAN,
         \/ Settle(state, count, confirming)
         \/ AskAgain("final", state, count, confirming)
         \/ ConfirmOrSettle(state, count, confirming)
  PROVE  TypeOK'
  <1>1. \/ Settle(state, count, confirming)
        \/ AskAgain("final", state, count, confirming)
        \/ AskAgain("confirm", state, count, confirming)
    BY DEF ConfirmOrSettle
  <1>2. SimOK' /\ RecordsOK' /\ BudgetOK'
    BY <1>1, SettleTyped, AskAgainTyped DEF TypeOK, Polled
  <1>3. JobOK'
    BY <1>1 DEF TypeOK, JobOK, Polled, job, Settle, AskAgain, Steps, Polling
  <1>. QED BY <1>2, <1>3 DEF TypeOK

LEMMA TypePoll == TypeOK /\ SimPoll => TypeOK'
  <1>. SUFFICES ASSUME TypeOK, SimPoll PROVE TypeOK'
    OBVIOUS
  <1>. USE HearsTyped DEF TypeOK
  <1>a. /\ unknown \in Nat /\ unknown + 1 \in Nat /\ 0 \in Nat
        /\ pending \in BOOLEAN /\ seen \in CpinAnswers
    BY DEF SimOK
  <1>b. /\ {"READY", "NOT_READY", "UNKNOWN", "NOT_INSERTED", "PIN_REQUIRED"}
             \subseteq CpinAnswers
    BY DEF CpinAnswers, Definite
  <1>1. CASE PollReady
    BY <1>1, <1>a, <1>b, PollTyped DEF PollReady
  <1>2. CASE PollNotReady
    <2>. DEFINE confirming == pending \/ cpin = "READY"
    <2>1. confirming \in BOOLEAN BY Zenon
    <2>2. ConfirmOrSettle("NOT_READY", unknown, confirming) BY <1>2 DEF PollNotReady
    <2>. HIDE DEF confirming
    <2>. QED BY <1>2, <1>a, <1>b, <2>1, <2>2, PollTyped DEF PollNotReady
  <1>3. CASE PollUnknown
    <2>. DEFINE count == IF cpin = "READY" THEN unknown + 1 ELSE unknown
    <2>1. count \in Nat BY <1>a
    <2>2. \/ AskAgain("final", "UNKNOWN", count, pending)
          \/ ConfirmOrSettle("UNKNOWN", count, pending)
      BY <1>3 DEF PollUnknown
    <2>. HIDE DEF count
    <2>. QED BY <1>3, <1>a, <1>b, <2>1, <2>2, PollTyped DEF PollUnknown
  <1>4. CASE PollGone
    BY <1>4, <1>a, <1>b, PollTyped DEF PollGone
  <1>5. CASE FinalQuery
    BY <1>5, <1>a, <1>b, PollTyped DEF FinalQuery
  <1>6. CASE Confirm
    BY <1>6, <1>a, <1>b, PollTyped DEF Confirm
  <1>. QED BY <1>1, <1>2, <1>3, <1>4, <1>5, <1>6 DEF SimPoll, Poll

-----------------------------------------------------------------------------
LEMMA TypeUser == TypeOK /\ User => TypeOK'
  <1>. SUFFICES ASSUME TypeOK, User PROVE TypeOK'
    OBVIOUS
  <1>. USE KebunAssumption, WorldKept, SimKept, RecordsKept, BudgetKept DEF TypeOK
  <1>a. UNCHANGED <<job, pc>> => JobOK' BY DEF JobOK, job
  <1>b. Event => events' \in 0 .. MaxEvents BY DEF Event, WorldOK
  <1>c. Click /\ UNCHANGED <<disabled, search>> => WorldOK' /\ RecordsOK'
    BY <1>b DEF Click, WorldOK, RecordsOK, history
  <1>d. Click /\ ask' \in AskType => BudgetOK' BY DEF Click, BudgetOK
  <1>1. CASE ClickReset
    <2>1. ask' \in AskType BY <1>1 DEF ClickReset, AskType, NoAsk
    <2>. QED BY <1>1, <1>a, <1>c, <1>d, <2>1 DEF ClickReset, Click
  <1>2. CASE ClickSingle
    <2>1. ask' \in AskType BY <1>2 DEF ClickSingle, AskType, BudgetOK
    <2>. QED BY <1>2, <1>a, <1>c, <1>d, <2>1 DEF ClickSingle, Click
  <1>3. CASE ClickRestart
    <2>1. ask' \in AskType BY <1>3 DEF ClickRestart, AskType, BudgetOK
    <2>. QED BY <1>3, <1>a, <1>c, <1>d, <2>1 DEF ClickRestart, Click
  <1>4. CASE ClickOnOff
    <2>1. disabled' \in BOOLEAN BY <1>4, Zenon DEF ClickOnOff
    <2>2. WorldOK' BY <1>4, <1>b, <2>1 DEF ClickOnOff, Click, WorldOK
    <2>3. RecordsOK' BY <1>4 DEF ClickOnOff, Click, RecordsOK, history
    <2>4. ask' \in AskType BY <1>4 DEF ClickOnOff, BudgetOK
    <2>. QED BY <1>4, <1>a, <1>d, <2>2, <2>3, <2>4 DEF ClickOnOff, Click
  <1>5. CASE ClickFindKk
    <2>1. WorldOK' BY <1>5, <1>b DEF ClickFindKk, Click, WorldOK
    <2>2. RecordsOK' BY <1>5 DEF ClickFindKk, Click, RecordsOK, RowType, history
    <2>3. ask' \in AskType BY <1>5 DEF ClickFindKk, BudgetOK
    <2>. QED BY <1>5, <1>a, <1>d, <2>1, <2>2, <2>3 DEF ClickFindKk, Click
  <1>6. CASE KkFound
    <2>1. row' \in RowType BY <1>6 DEF KkFound, RecordsOK, RowType
    <2>2. crossed' \in BOOLEAN BY <1>6, Zenon DEF KkFound, RecordsOK
    <2>3. RecordsOK' BY <1>6, <2>1, <2>2 DEF KkFound, RecordsOK, MaybeCard
    <2>. QED BY <1>6, <1>a, <2>3 DEF KkFound
  <1>. QED BY <1>1, <1>2, <1>3, <1>4, <1>5, <1>6 DEF User

LEMMA TypeCards == TypeOK /\ World => TypeOK'
  <1>. SUFFICES ASSUME TypeOK, World PROVE TypeOK'
    OBVIOUS
  <1>. USE KebunAssumption, SimKept, RecordsKept, BudgetKept DEF TypeOK
  <1>a. UNCHANGED <<job, pc>> => JobOK' BY DEF JobOK, job
  <1>1. ASSUME NEW c \in Cards, InsertCard(c) PROVE TypeOK'
    <2>1. WorldOK' BY <1>1 DEF InsertCard, WorldOK, Event, MaybeCard
    <2>2. crossed' \in BOOLEAN BY <1>1, Zenon DEF InsertCard
    <2>3. RecordsOK' BY <1>1, <2>2 DEF InsertCard, RecordsOK, caches, MaybeCard
    <2>. QED BY <1>1, <1>a, <2>1, <2>3 DEF InsertCard
  <1>2. CASE RemoveCard
    <2>1. WorldOK' BY <1>2 DEF RemoveCard, WorldOK, MaybeCard
    <2>2. RecordsOK' BY <1>2 DEF RemoveCard, RecordsOK, caches, WorldOK
    <2>. QED BY <1>2, <1>a, <2>1, <2>2 DEF RemoveCard
  <1>. QED BY <1>1, <1>2 DEF World

LEMMA TypeStutter == TypeOK /\ UNCHANGED vars => TypeOK'
  BY WorldKept, SimKept, RecordsKept, BudgetKept DEF TypeOK, vars, JobOK, job

(* Every variable of the port's worker keeps its type, and the operator's  *)
(* menus are never counted past the limit.                                 *)
THEOREM PortTypeCorrect == Spec => []TypeOK
  <1>1. TypeOK /\ [Next]_vars => TypeOK'
    BY TypeLoop, TypeFlow, TypeSingle, TypePoll, TypeUser, TypeCards, TypeStutter
    DEF Next, Worker
  <1>. QED BY TypeInit, <1>1, PTL DEF Spec

-----------------------------------------------------------------------------
(* Whose data the worker holds: as long as no cards are crossed, the row    *)
(* and the flow are about one card, the one in the slot or the one that    *)
(* left it without having been missed yet; and there is a flow only where  *)
(* the loop does not look at the slot.                                     *)

InFlow == {"nik", "inject", "verify"}

Holder == IF slot # NoCard THEN slot ELSE left

Held == {row.nomor, row.nik, row.kk, flow.nomor, flow.pair.nik, flow.pair.kk}

OneCard == Held \subseteq {Holder, NoCard}

FlowGone == pc \notin InFlow => flow = NoFlow

PairsOwn == \A c \in Cards : known[c] \in {Pair(c, c), NoPair}

FlowOwn == pc \in {"inject", "verify"} => flow.pair = Pair(flow.nomor, flow.nomor)

(* A new date that the flow remembers is still the card's date.            *)
DateKept == flow.before = New => flow.nomor \in Cards /\ date[flow.nomor] = New

HarvestExtended == \A c \in harvested : c \in Cards /\ date[c] = New

OwnInv == /\ DateKept /\ FlowGone
          /\ ~crossed => OneCard /\ PairsOwn /\ FlowOwn /\ HarvestExtended

CardInv == TypeOK /\ OwnInv

LEMMA OwnInit == Init => OwnInv
  <1>. SUFFICES ASSUME Init PROVE OwnInv
    OBVIOUS
  <1>1. DateKept BY DEF Init, NoFlow, DateKept, New, NoDate
  <1>2. FlowGone BY DEF Init, FlowGone
  <1>3. OneCard BY DEF Init, OneCard, Held, NoFlow, NoRow, NoPair, Pair
  <1>4. PairsOwn /\ FlowOwn /\ HarvestExtended
    BY DEF Init, PairsOwn, FlowOwn, HarvestExtended
  <1>. QED BY <1>1, <1>2, <1>3, <1>4 DEF OwnInv

LEMMA Shrinks ==
  ASSUME OneCard, UNCHANGED <<slot, left>>, Held' \subseteq Held \cup {slot, NoCard}
  PROVE  OneCard'
  BY DEF OneCard, Holder

(* The flow goes on waiting, or is none any more.                          *)
Waits == UNCHANGED <<flow, pc>>
Drops == /\ pc' \notin InFlow
         /\ flow' = NoFlow \/ (UNCHANGED flow /\ pc \notin InFlow)

LEMMA DropsFlow == OwnInv /\ Drops => flow' = NoFlow /\ pc' \notin InFlow
  BY DEF OwnInv, Drops, FlowGone

(* A step that leaves cards and caches alone, and at most drops the flow   *)
(* and the row; a removal is announced only when it drops both.            *)
LEMMA QuietKeeps ==
  ASSUME OwnInv, UNCHANGED <<slot, date, known, harvested, crossed>>,
         row' \in {row, NoRow}, Waits \/ Drops,
         left' = left \/ (row' = NoRow /\ Drops)
  PROVE  OwnInv'
  <1>1. CASE Waits /\ ~Drops
    <2>1. left' = left /\ UNCHANGED <<flow, pc>> BY <1>1 DEF Waits
    <2>2. Held' \subseteq Held \cup {NoCard} BY <2>1 DEF Held, NoRow
    <2>3. ~crossed => OneCard' BY <2>1, <2>2, Shrinks DEF OwnInv
    <2>. QED BY <2>1, <2>3
      DEF OwnInv, DateKept, FlowGone, PairsOwn, FlowOwn, HarvestExtended
  <1>2. CASE Drops
    <2>1. flow' = NoFlow /\ pc' \notin InFlow BY <1>2, DropsFlow
    <2>2. Held' \subseteq {row'.nomor, row'.nik, row'.kk, NoCard}
      BY <2>1 DEF Held, NoFlow, NoPair, Pair
    <2>3. ~crossed => OneCard'
      <3>1. CASE row' = NoRow BY <3>1, <2>2 DEF OneCard, NoRow
      <3>2. CASE row' = row /\ left' = left
        <4>1. Held' \subseteq Held \cup {NoCard} BY <2>2, <3>2 DEF Held
        <4>. QED BY <3>2, <4>1, Shrinks DEF OwnInv
      <3>. QED BY <3>1, <3>2
    <2>. QED BY <2>1, <2>3
      DEF OwnInv, DateKept, FlowGone, PairsOwn, FlowOwn, HarvestExtended, InFlow,
          NoFlow, New, NoDate
  <1>. QED BY <1>1, <1>2

LEMMA AfterIsNoFlow == TypeOK => after \notin InFlow
  BY DEF TypeOK, JobOK, Singles, InFlow

LEMMA OwnLoop == CardInv /\ Loop => OwnInv'
  <1>. SUFFICES ASSUME CardInv, Loop PROVE OwnInv'
    OBVIOUS
  <1>1. /\ UNCHANGED <<slot, date, known, harvested, crossed, row, left>>
        /\ Drops
    BY AfterIsNoFlow DEF CardInv, Loop, Connect, LoopError, Leave, TakeReset,
       PerformReset, ReadSingle, ClearSingle, TakeRetry, TakeAuto, BeginFlow, world,
       job, records, caches, history, Drops, InFlow, AtWork, PastSingle, PastRetry
  <1>. QED BY <1>1, QuietKeeps DEF CardInv

LEMMA OwnGiveUp == CardInv /\ (GiveUp \/ Requeue) => OwnInv'
  <1>. SUFFICES ASSUME CardInv, GiveUp \/ Requeue PROVE OwnInv'
    OBVIOUS
  <1>1. UNCHANGED <<slot, date, known, harvested, crossed, row, left>> /\ Drops
    BY AfterIsNoFlow
    DEF CardInv, GiveUp, Requeue, Return, world, records, caches, history, Drops
  <1>. QED BY <1>1, QuietKeeps DEF CardInv

(* Which card a text in a flow is about.                                   *)
LEMMA OneInSlot ==
  ASSUME TypeOK, OneCard, slot # NoCard
  PROVE  slot \in Cards /\ Held \subseteq {slot, NoCard}
  BY DEF TypeOK, WorldOK, OneCard, Holder, MaybeCard

LEMMA OwnFlow == CardInv /\ FullFlow => OwnInv'
  <1>. SUFFICES ASSUME CardInv, FullFlow PROVE OwnInv'
    OBVIOUS
  <1>. USE DEF CardInv
  <1>t. TypeOK /\ OwnInv OBVIOUS
  <1>1. CASE Stabilise
    <2>1. UNCHANGED <<slot, date, known, harvested, crossed, left, row>> /\ Drops
      BY <1>1, AfterIsNoFlow
      DEF Stabilise, Return, world, job, records, caches, history, Drops, InFlow
    <2>. QED BY <2>1, QuietKeeps
  <1>2. CASE CheckNumber
    <2>1. CASE NumberFails \/ NumberPrompts
      BY <2>1, OwnGiveUp DEF NumberFails, NumberPrompts
    <2>2. ASSUME NEW shown \in Shown, NEW status \in CardStatus,
                 NumberRead(shown, status)
          PROVE  OwnInv'
      <3>1. /\ UNCHANGED <<slot, date, known, harvested, crossed, left>>
            /\ slot # NoCard /\ slot \in Cards
        BY <2>2, <1>t
        DEF NumberRead, Answered, world, caches, history, Texts, TypeOK, WorldOK, MaybeCard
      <3>2. CASE status = "HANGUS"
        <4>1. /\ flow' = [nomor |-> slot, pair |-> known[slot], before |-> shown]
              /\ pc' = IF known[slot] = NoPair THEN "nik" ELSE "inject"
              /\ row' = IF known[slot] # NoPair
                        THEN [nomor |-> slot, nik |-> known[slot].nik,
                              kk |-> known[slot].kk]
                        ELSE [row EXCEPT !.nomor = slot]
          BY <2>2, <3>2 DEF NumberRead
        <4>2. DateKept'
          <5>1. shown = New => date[slot] = New BY <3>1 DEF Shown, New, NoDate
          <5>. QED BY <3>1, <4>1, <5>1 DEF DateKept
        <4>3. ASSUME ~crossed PROVE OneCard' /\ PairsOwn' /\ FlowOwn' /\ HarvestExtended'
          <5>1. known[slot] \in {Pair(slot, slot), NoPair}
            BY <4>3, <3>1, <1>t DEF OwnInv, PairsOwn
          <5>2. known[slot].nik \in {slot, NoCard} /\ known[slot].kk \in {slot, NoCard}
            BY <5>1 DEF Pair, NoPair
          <5>3. row \in RowType BY <1>t DEF TypeOK, RecordsOK
          <5>4. {row'.nomor, row'.nik, row'.kk} \subseteq {slot, NoCard, row.nik, row.kk}
            BY <4>1, <5>2, <5>3 DEF RowType
          <5>5. /\ flow'.nomor = slot
                /\ {flow'.pair.nik, flow'.pair.kk} \subseteq {slot, NoCard}
            BY <4>1, <5>2
          <5>6. OneCard' BY <4>3, <3>1, <5>4, <5>5, <1>t, Shrinks DEF OwnInv, Held
          <5>7. FlowOwn' BY <4>1, <5>1 DEF FlowOwn
          <5>. QED BY <4>3, <3>1, <5>6, <5>7, <1>t DEF OwnInv, PairsOwn, HarvestExtended
        <4>4. FlowGone' BY <4>1 DEF FlowGone, InFlow
        <4>. QED BY <4>2, <4>3, <4>4, <3>1 DEF OwnInv
      <3>3. CASE status # "HANGUS"
        <4>1. /\ flow' = NoFlow /\ pc' \notin InFlow
              /\ row' = [row EXCEPT !.nomor = slot]
          BY <2>2, <3>3, <1>t, AfterIsNoFlow DEF NumberRead, Return
        <4>2. DateKept' BY <4>1 DEF DateKept, NoFlow, New, NoDate
        <4>3. ASSUME ~crossed PROVE OneCard' /\ PairsOwn' /\ FlowOwn' /\ HarvestExtended'
          <5>1. row \in RowType BY <1>t DEF TypeOK, RecordsOK
          <5>2. {row'.nomor, row'.nik, row'.kk} \subseteq {slot, row.nik, row.kk}
            BY <4>1, <5>1 DEF RowType
          <5>3. OneCard'
            BY <4>3, <3>1, <4>1, <5>2, <1>t, Shrinks
            DEF OwnInv, Held, NoFlow, NoPair, Pair
          <5>. QED BY <4>3, <3>1, <4>1, <5>3, <1>t
            DEF OwnInv, PairsOwn, HarvestExtended, FlowOwn, InFlow
        <4>4. FlowGone' BY <4>1 DEF FlowGone
        <4>. QED BY <4>2, <4>3, <4>4, <3>1 DEF OwnInv
      <3>. QED BY <3>2, <3>3
    <2>. QED BY <1>2, <2>1, <2>2 DEF CheckNumber
  <1>3. CASE CheckNik
    <2>1. CASE NikFails \/ NikPrompts
      BY <2>1, OwnGiveUp DEF NikFails, NikPrompts
    <2>2. CASE KkMissing
      <3>1. /\ UNCHANGED <<slot, date, known, harvested, crossed, left>>
            /\ flow' = NoFlow /\ pc' \notin InFlow
            /\ row' = [row EXCEPT !.nik = slot]
                BY <2>2, <1>t, AfterIsNoFlow DEF KkMissing, Return, world, caches, history
      <3>2. row \in RowType BY <1>t DEF TypeOK, RecordsOK
      <3>3. {row'.nomor, row'.nik, row'.kk} \subseteq {slot, row.nomor, row.kk}
        BY <3>1, <3>2 DEF RowType
      <3>4. ~crossed => OneCard'
        BY <3>1, <3>3, <1>t, Shrinks DEF OwnInv, Held, NoFlow, NoPair, Pair
      <3>. QED BY <3>1, <3>4, <1>t
        DEF OwnInv, PairsOwn, HarvestExtended, FlowOwn, FlowGone, InFlow, DateKept,
            NoFlow, New, NoDate
    <2>3. CASE NikRead
      <3>1. /\ UNCHANGED <<slot, date, harvested, crossed, left>>
            /\ slot # NoCard /\ slot \in MaybeCard
            /\ flow' = [flow EXCEPT !.pair = Pair(slot, slot)]
            /\ pc' = "inject"
            /\ row' = [row EXCEPT !.nik = slot, !.kk = slot]
            /\ flow.nomor # NoCard
        BY <2>3, <1>t
        DEF NikRead, Answered, Texts, world, history, TypeOK, JobOK, WorldOK
      <3>k. known' = [known EXCEPT ![flow.nomor] = Pair(slot, slot)]
        BY <2>3, <3>1 DEF NikRead, UpdatePhoneCache, Pair
      <3>2. /\ row \in RowType /\ flow \in FlowType
            /\ known \in [Cards -> PairType]
        BY <1>t DEF TypeOK, RecordsOK, JobOK
      <3>3. {row'.nomor, row'.nik, row'.kk} \subseteq {slot, row.nomor}
        BY <3>1, <3>2 DEF RowType
      <3>4. /\ flow'.nomor = flow.nomor /\ flow'.before = flow.before
            /\ flow'.pair = Pair(slot, slot)
            /\ flow'.pair.nik = slot /\ flow'.pair.kk = slot
        BY <3>1, <3>2 DEF FlowType, Pair
      <3>5. DateKept' BY <3>1, <3>4, <1>t DEF DateKept, OwnInv
      <3>6. ASSUME ~crossed PROVE OneCard' /\ PairsOwn' /\ FlowOwn' /\ HarvestExtended'
        <4>1. slot \in Cards /\ flow.nomor = slot
          BY <3>1, <3>6, <1>t, OneInSlot DEF OwnInv, Held
        <4>2. OneCard' BY <3>1, <3>3, <3>4, <3>6, <1>t, Shrinks DEF OwnInv, Held
        <4>3. PairsOwn' BY <3>k, <3>2, <3>6, <4>1, <1>t DEF OwnInv, PairsOwn
        <4>4. FlowOwn' BY <3>4, <4>1 DEF FlowOwn
        <4>. QED BY <3>1, <3>6, <4>2, <4>3, <4>4, <1>t DEF OwnInv, HarvestExtended
      <3>7. FlowGone' BY <3>1 DEF FlowGone, InFlow
      <3>. QED BY <3>1, <3>5, <3>6, <3>7 DEF OwnInv
    <2>. QED BY <1>3, <2>1, <2>2, <2>3 DEF CheckNik
  <1>4. CASE Inject
    <2>1. /\ UNCHANGED <<slot, row, known, harvested, crossed, left>>
          /\ \/ UNCHANGED flow
             \/ flow' = NoFlow /\ pc' \notin InFlow
          /\ pc = "inject"
          /\ flow' = flow => pc' \in InFlow \/ flow = NoFlow
      BY <1>4, <1>t, AfterIsNoFlow
      DEF Inject, Answered, Return, job, records, caches, history, InFlow
    <2>2. \A c \in Cards : date[c] = New => date'[c] = New
      <3>1. date \in [Cards -> {Old, New}] BY <1>t DEF TypeOK, WorldOK
      <3>. QED BY <3>1, <1>4 DEF Inject, MayExtend
    <2>3. DateKept' BY <2>1, <2>2, <1>t DEF OwnInv, DateKept, NoFlow, New, NoDate
    <2>4. ~crossed => OneCard'
      BY <2>1, <1>t, Shrinks DEF OwnInv, Held, NoFlow, NoPair, Pair
    <2>5. FlowGone' BY <2>1 DEF FlowGone
    <2>. QED BY <2>1, <2>2, <2>3, <2>4, <2>5, <1>t
      DEF OwnInv, PairsOwn, HarvestExtended, FlowOwn, InFlow
  <1>5. CASE Verify
    <2>1. CASE VerifyFails \/ VerifyPrompts
      BY <2>1, OwnGiveUp DEF VerifyFails, VerifyPrompts
    <2>2. ASSUME NEW shown \in Shown, NEW status \in CardStatus, Verified(shown, status)
          PROVE  OwnInv'
      <3>1. /\ UNCHANGED <<slot, date, row, crossed, left>>
            /\ slot # NoCard
            /\ flow' = NoFlow /\ pc' \notin InFlow
            /\ harvested' = harvested \cup {flow.nomor}
            /\ known' = [known EXCEPT ![flow.nomor] = flow.pair]
            /\ flow.nomor # NoCard
            /\ pc = "verify"
        BY <2>2, <1>t, AfterIsNoFlow
        DEF Verified, Answered, Texts, Return, world, history, TypeOK, JobOK
      <3>2. known \in [Cards -> PairType] BY <1>t DEF TypeOK, RecordsOK
      <3>3. DateKept' BY <3>1 DEF DateKept, NoFlow, New, NoDate
      <3>4. ASSUME ~crossed PROVE OneCard' /\ PairsOwn' /\ FlowOwn' /\ HarvestExtended'
        <4>1. slot \in Cards /\ flow.nomor = slot
          BY <3>1, <3>4, <1>t, OneInSlot DEF OwnInv, Held
        <4>2. flow.pair = Pair(slot, slot)
          BY <3>1, <3>4, <4>1, <1>t DEF OwnInv, FlowOwn
        <4>3. OneCard'
          BY <3>1, <3>4, <1>t, Shrinks DEF OwnInv, Held, NoFlow, NoPair, Pair
        <4>4. PairsOwn' BY <3>1, <3>2, <3>4, <4>1, <4>2, <1>t DEF OwnInv, PairsOwn
        <4>5. FlowOwn' BY <3>1 DEF FlowOwn, InFlow
        <4>6. date[slot] = New
          <5>1. /\ flow.before # NoDate /\ shown # NoDate /\ flow.before # shown
            BY <2>2 DEF Verified, Succeeded, Changed
          <5>2. shown = date[slot] BY <3>1, <5>1 DEF Shown
          <5>3. flow.before \in Dates /\ date[slot] \in {Old, New}
            BY <1>t, <4>1 DEF TypeOK, JobOK, FlowType, WorldOK
          <5>4. flow.before = New => date[slot] = New
            BY <4>1, <1>t DEF OwnInv, DateKept
          <5>. QED BY <5>1, <5>2, <5>3, <5>4 DEF Dates
        <4>7. HarvestExtended'
          BY <3>1, <3>4, <4>1, <4>6, <1>t DEF OwnInv, HarvestExtended
        <4>. QED BY <4>3, <4>4, <4>5, <4>7
      <3>5. FlowGone' BY <3>1 DEF FlowGone
      <3>. QED BY <3>1, <3>3, <3>4, <3>5 DEF OwnInv
    <2>. QED BY <1>5, <2>1, <2>2 DEF Verify
  <1>. QED BY <1>1, <1>2, <1>3, <1>4, <1>5 DEF FullFlow

LEMMA OwnSingle == CardInv /\ SingleAction => OwnInv'
  <1>. SUFFICES ASSUME CardInv, SingleAction PROVE OwnInv'
    OBVIOUS
  <1>. USE DEF CardInv
  <1>t. TypeOK /\ OwnInv OBVIOUS
  <1>r. row \in RowType BY <1>t DEF TypeOK, RecordsOK
  <1>1. CASE CekNomor
    <2>1. /\ UNCHANGED <<slot, date, known, harvested, crossed, left>>
          /\ flow' = NoFlow /\ pc' \notin InFlow
          /\ row' \in {row, [row EXCEPT !.nomor = slot]}
      BY <1>1, <1>t, AfterIsNoFlow
      DEF CekNomor, SingleEnds, Answered, Texts, Return, world, caches, history
    <2>2. {row'.nomor, row'.nik, row'.kk} \subseteq {slot, row.nomor, row.nik, row.kk}
      BY <2>1, <1>r DEF RowType
    <2>3. ~crossed => OneCard'
      BY <2>1, <2>2, <1>t, Shrinks DEF OwnInv, Held, NoFlow, NoPair, Pair
    <2>. QED BY <2>1, <2>3, <1>t
      DEF OwnInv, PairsOwn, HarvestExtended, FlowOwn, FlowGone, InFlow, DateKept,
          NoFlow, New, NoDate
  <1>2. CASE CekNikFails \/ ReaktivasiLacksData \/ Reverify
    <2>1. /\ UNCHANGED <<slot, date, known, harvested, crossed, left, row>>
          /\ Drops
      BY <1>2, <1>t, AfterIsNoFlow
      DEF CekNikFails, ReaktivasiLacksData, Reverify, SingleEnds, Return, world, caches,
          history, Drops
    <2>. QED BY <2>1, <1>t, QuietKeeps
  <1>3. CASE CekNik
    <2>1. /\ UNCHANGED <<slot, date, harvested, crossed, left>>
          /\ slot # NoCard
          /\ flow' = NoFlow /\ pc' \notin InFlow
          /\ row' = [row EXCEPT !.nik = slot]
          /\ \/ known' = known
             \/ row.kk # NoCard /\ known' = [known EXCEPT ![row.nomor] = Pair(slot, row.kk)]
      BY <1>3, <1>t, AfterIsNoFlow
      DEF CekNik, UpdatePhoneCache, Pair, Answered, Texts, Return, world, history
    <2>2. {row'.nomor, row'.nik, row'.kk} \subseteq {slot, row.nomor, row.kk}
      BY <2>1, <1>r DEF RowType
    <2>3. ASSUME ~crossed PROVE OneCard' /\ PairsOwn'
      <3>1. OneCard'
        BY <2>1, <2>2, <2>3, <1>t, Shrinks DEF OwnInv, Held, NoFlow, NoPair, Pair
      <3>2. slot \in Cards /\ {row.nomor, row.kk} \subseteq {slot, NoCard}
        BY <2>1, <2>3, <1>t, OneInSlot DEF OwnInv, Held
      <3>3. known \in [Cards -> PairType] BY <1>t DEF TypeOK, RecordsOK
      <3>4. PairsOwn BY <2>3, <1>t DEF OwnInv
      <3>5. CASE known' = known BY <3>1, <3>4, <3>5 DEF PairsOwn
      <3>6. CASE row.kk # NoCard /\ known' = [known EXCEPT ![row.nomor] = Pair(slot, row.kk)]
        <4>1. row.kk = slot BY <3>2, <3>6
        <4>2. \A c \in Cards : known'[c] = IF c = row.nomor THEN Pair(slot, slot) ELSE known[c]
          BY <3>3, <3>6, <4>1
        <4>3. \A c \in Cards : c = row.nomor => c = slot BY <3>2, KebunAssumption
        <4>. QED BY <3>1, <3>4, <4>2, <4>3 DEF PairsOwn
      <3>. QED BY <2>1, <3>1, <3>5, <3>6
    <2>. QED BY <2>1, <2>3, <1>t
      DEF OwnInv, HarvestExtended, FlowOwn, FlowGone, InFlow, DateKept, NoFlow, New,
          NoDate
  <1>4. CASE Reaktivasi
    <2>1. /\ UNCHANGED <<slot, row, harvested, crossed, left>>
          /\ NoCard \notin {row.nik, row.kk}
          /\ Drops
          /\ \/ known' = known
             \/ /\ row.nomor # NoCard
                /\ known' = [known EXCEPT ![row.nomor] = Pair(row.nik, row.kk)]
      BY <1>4, <1>t, AfterIsNoFlow
      DEF Reaktivasi, UpdatePhoneCache, Pair, Answered, Return, job, history, Drops, InFlow
    <2>d. flow' = NoFlow /\ pc' \notin InFlow BY <2>1, <1>t, DropsFlow
    <2>2. \A c \in Cards : date[c] = New => date'[c] = New
      <3>1. date \in [Cards -> {Old, New}] BY <1>t DEF TypeOK, WorldOK
      <3>. QED BY <3>1, <1>4 DEF Reaktivasi, MayExtend
    <2>3. DateKept' BY <2>d DEF DateKept, NoFlow, New, NoDate
    <2>4. ASSUME ~crossed PROVE OneCard' /\ PairsOwn'
      <3>1. OneCard'
        BY <2>1, <2>d, <2>4, <1>t, Shrinks DEF OwnInv, Held, NoFlow, NoPair, Pair
      <3>2. Held \subseteq {Holder, NoCard} BY <2>4, <1>t DEF OwnInv, OneCard
      <3>3. /\ row.nik = Holder /\ row.kk = Holder
            /\ row.nomor # NoCard => row.nomor = Holder /\ Holder \in Cards
        BY <2>1, <3>2, <1>r DEF Held, RowType, MaybeCard
      <3>4. known \in [Cards -> PairType] BY <1>t DEF TypeOK, RecordsOK
      <3>5. PairsOwn' BY <2>1, <2>4, <3>3, <3>4, <1>t DEF OwnInv, PairsOwn
      <3>. QED BY <3>1, <3>5
    <2>. QED BY <2>1, <2>d, <2>2, <2>3, <2>4, <1>t
      DEF OwnInv, HarvestExtended, FlowOwn, FlowGone, InFlow
  <1>. QED BY <1>1, <1>2, <1>3, <1>4 DEF SingleAction

LEMMA OwnPoll == CardInv /\ SimPoll => OwnInv'
  <1>. SUFFICES ASSUME CardInv, SimPoll PROVE OwnInv'
    OBVIOUS
  <1>1. /\ Polled /\ UNCHANGED <<slot, date>>
        /\ pc \notin InFlow /\ pc' \notin InFlow
        /\ row' \in {row, NoRow}
        /\ left' = left \/ row' = NoRow
    BY DEF SimPoll, Poll, PollReady, PollNotReady, PollUnknown, PollGone, FinalQuery,
       Confirm, Hears, ConfirmOrSettle, Settle, AskAgain, Transition, ClearRow, InFlow,
       PastAuto, PastRetry, PastSingle, AtWork
  <1>. QED BY <1>1, QuietKeeps DEF CardInv, Polled, job, caches, Drops

LEMMA OwnUser == CardInv /\ User => OwnInv'
  <1>. SUFFICES ASSUME CardInv, User PROVE OwnInv'
    OBVIOUS
  <1>. USE DEF CardInv
  <1>t. TypeOK /\ OwnInv OBVIOUS
  <1>1. CASE ClickReset \/ ClickSingle \/ ClickRestart \/ ClickOnOff
    <2>1. /\ UNCHANGED <<slot, date, known, harvested, crossed, left, row>>
          /\ Waits
      BY <1>1
      DEF ClickReset, ClickSingle, ClickRestart, ClickOnOff, Click, job, history, Waits
    <2>. QED BY <2>1, <1>t, QuietKeeps
  <1>2. CASE ClickFindKk
    <2>1. UNCHANGED <<slot, date, known, harvested, crossed, left, row>> /\ Waits
      BY <1>2 DEF ClickFindKk, Click, job, history, Waits
    <2>. QED BY <2>1, <1>t, QuietKeeps
  <1>3. CASE KkFound
    <2>1. UNCHANGED <<slot, left, date, known, harvested, flow, pc>>
      BY <1>3 DEF KkFound, world, job
    <2>2. row \in RowType BY <1>t DEF TypeOK, RecordsOK
    <2>3. ~crossed' => ~crossed /\ (row' = row \/ (row.nik = search /\ row'.kk = search
                          /\ row'.nomor = row.nomor /\ row'.nik = row.nik))
      BY <1>3, <2>2, Zenon DEF KkFound, RowType
    <2>4. ~crossed' => Held' \subseteq Held BY <2>1, <2>3 DEF Held
    <2>5. ~crossed' => OneCard' BY <2>1, <2>3, <2>4, <1>t, Shrinks DEF OwnInv
    <2>. QED BY <2>1, <2>3, <2>5, <1>t
      DEF OwnInv, PairsOwn, HarvestExtended, FlowOwn, FlowGone, DateKept
  <1>. QED BY <1>1, <1>2, <1>3 DEF User

LEMMA OwnCards == CardInv /\ World => OwnInv'
  <1>. SUFFICES ASSUME CardInv, World PROVE OwnInv'
    OBVIOUS
  <1>. USE DEF CardInv
  <1>t. TypeOK /\ OwnInv OBVIOUS
  <1>1. ASSUME NEW c \in Cards, InsertCard(c) PROVE OwnInv'
    <2>1. /\ UNCHANGED <<date, known, harvested, row, flow, pc>>
          /\ slot = NoCard /\ slot' = c
          /\ crossed' = (crossed \/ left \notin {c, NoCard})
      BY <1>1 DEF InsertCard, job, caches
    <2>2. ~crossed' => ~crossed /\ left \in {c, NoCard} BY <2>1, Zenon
    <2>3. ~crossed' => OneCard'
      BY <2>1, <2>2, <1>t, KebunAssumption DEF OwnInv, OneCard, Holder, Held
    <2>. QED BY <2>1, <2>2, <2>3, <1>t
      DEF OwnInv, PairsOwn, HarvestExtended, FlowOwn, FlowGone, DateKept
  <1>2. CASE RemoveCard
    <2>1. /\ UNCHANGED <<date, known, harvested, crossed, row, flow, pc>>
          /\ slot # NoCard /\ slot' = NoCard /\ left' = slot
      BY <1>2 DEF RemoveCard, job, records, caches
    <2>2. ~crossed => OneCard' BY <2>1, <1>t DEF OwnInv, OneCard, Holder, Held
    <2>. QED BY <2>1, <2>2, <1>t
      DEF OwnInv, PairsOwn, HarvestExtended, FlowOwn, FlowGone, DateKept
  <1>. QED BY <1>1, <1>2 DEF World

LEMMA OwnStutter == CardInv /\ UNCHANGED vars => OwnInv'
  <1>. SUFFICES ASSUME CardInv, UNCHANGED vars PROVE OwnInv'
    OBVIOUS
  <1>1. /\ UNCHANGED <<slot, date, known, harvested, crossed, left, row>>
        /\ Waits
    BY DEF vars, world, job, records, caches, history, Waits
  <1>. QED BY <1>1, QuietKeeps DEF CardInv

LEMMA CardInvariant == Spec => []CardInv
  <1>1. Init => CardInv BY TypeInit, OwnInit DEF CardInv
  <1>2. CardInv /\ [Next]_vars => OwnInv'
    BY OwnLoop, OwnFlow, OwnSingle, OwnPoll, OwnUser, OwnCards, OwnStutter
    DEF Next, Worker
  <1>3. TypeOK /\ [Next]_vars => TypeOK'
    BY TypeLoop, TypeFlow, TypeSingle, TypePoll, TypeUser, TypeCards, TypeStutter
    DEF Next, Worker
  <1>4. CardInv /\ [Next]_vars => CardInv' BY <1>2, <1>3 DEF CardInv
  <1>. QED BY <1>1, <1>4, PTL DEF Spec

(* A card whose number is harvested has been extended by the network, as   *)
(* long as no card came into the slot before the last was missed.          *)
THEOREM HarvestCorrect == Spec => []HarvestIsExtended
  <1>1. CardInv => HarvestIsExtended
    BY DEF CardInv, OwnInv, HarvestIsExtended, HarvestExtended
  <1>. QED BY <1>1, CardInvariant, PTL

(* The phone cache, which flows and the user's requests all write, pairs a *)
(* number with its own NIK and KK, through any number of exchanges of the  *)
(* card that the poll has noticed.                                         *)
THEOREM PairsCorrect == Spec => []PairsAreOwn
  <1>1. CardInv => PairsAreOwn BY DEF CardInv, OwnInv, PairsAreOwn, PairsOwn
  <1>. QED BY <1>1, CardInvariant, PTL
===============================================================================
