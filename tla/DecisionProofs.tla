---------------------------- MODULE DecisionProofs ----------------------------
(***************************************************************************)
(* Proofs about DecisionPipeline: the budgets, the breaker and the record of *)
(* decisions, the cooldowns of symbols that are refused, and the share of the *)
(* canary, for every set of symbols, limit, window and setting, although any *)
(* handler may be cut short between two Redis commands.                    *)
(***************************************************************************)
EXTENDS DecisionPipeline, FoldTheorems, SequenceTheorems

-----------------------------------------------------------------------------
(* The invariant *)

\* A counter has a TTL, or none yet, exactly when it exists.
LiveCounter(bound) ==
  {key \in [count : 0 .. bound, ttl : Nat \cup {-1}] : key.count = 0 <=> key.ttl = 0}

\* What Redis may hold.
Keys == [block : Nat, cooldown : [Symbols -> Nat],
         rejects : [Symbols -> LiveCounter(3)], errors : LiveCounter(ErrorThreshold),
         hour : 0 .. HourLimit, day : 0 .. DayLimit]

ClockTypeOK == minute \in 0 .. HourLength - 1 /\ hour \in 0 .. DayHours - 1

HistoryTypeOK ==
  /\ calls \in [hour : Nat, day : Nat]
  /\ rejected \in [Symbols -> SUBSET (0 .. RejectWindow - 1)]
  /\ failures \in [run : 0 .. ErrorThreshold, ago : 0 .. ErrorWindow - 1]

PlaceTypeOK == pc \in {"idle", "clear", "asking"} /\ who \in Symbols

\* Redis never counts fewer calls than there were, and a call that passed the
\* guard still fits into both budgets.
WithinBudget ==
  /\ calls.hour <= redis.hour /\ calls.day <= redis.day
  /\ pc = "clear" => redis.hour < HourLimit /\ redis.day < DayLimit

\* Redis knows of every failure of the run, as long as the run lasts, and the
\* block that a full run started is still on.
BreakerHolds ==
  /\ failures.run > 0 => /\ failures.run <= redis.errors.count
                         /\ redis.errors.ttl + failures.ago >= ErrorWindow
  /\ failures.run = ErrorThreshold /\ failures.ago < ErrorBlock
       => pc = "idle" /\ redis.block + failures.ago >= ErrorBlock

GuardInv ==
  /\ redis \in Keys /\ ClockTypeOK /\ HistoryTypeOK /\ PlaceTypeOK
  /\ WithinBudget /\ BreakerHolds

\* While the guardian is asked, the analyst confirmed with at least 60, on the
\* route of the signal.
OpinionInv ==
  analyst # NoOpinion =>
    /\ pc = "asking" /\ analyst.decision = "CONFIRM" /\ analyst.confidence >= 60
    /\ analyst.by = Answering(Route)

LEMMA TypeParts == redis \in Keys /\ ClockTypeOK /\ HistoryTypeOK /\ PlaceTypeOK => TypeOK
<1> SUFFICES ASSUME redis \in Keys, ClockTypeOK, HistoryTypeOK, PlaceTypeOK PROVE TypeOK
  OBVIOUS
<1>1. /\ redis.block \in Nat /\ redis.cooldown \in [Symbols -> Nat]
      /\ redis.hour \in 0 .. HourLimit /\ redis.day \in 0 .. DayLimit
      /\ redis.rejects \in [Symbols -> LiveCounter(3)]
      /\ redis.errors \in LiveCounter(ErrorThreshold)
      /\ redis = [block |-> redis.block, cooldown |-> redis.cooldown,
                  rejects |-> redis.rejects, errors |-> redis.errors,
                  hour |-> redis.hour, day |-> redis.day]
  BY DEF Keys
<1>2. redis.rejects \in [Symbols -> Counter(3)] /\ redis.errors \in Counter(ErrorThreshold)
  BY <1>1 DEF LiveCounter, Counter, NoExpiry
<1>3. redis \in [block : Nat, cooldown : [Symbols -> Nat],
                 rejects : [Symbols -> Counter(3)], errors : Counter(ErrorThreshold),
                 hour : 0 .. HourLimit, day : 0 .. DayLimit]
  BY <1>1, <1>2
<1>4. \A key \in {redis.errors} \cup {redis.rejects[s] : s \in Symbols} :
        key.count = 0 <=> key.ttl = 0
  BY <1>1 DEF LiveCounter
<1> QED
  BY <1>3, <1>4 DEF TypeOK, ClockTypeOK, HistoryTypeOK, PlaceTypeOK

-----------------------------------------------------------------------------
(* Counters and handlers *)

\* A counter that is incremented exists, and keeps the TTL it had.
LEMMA IncrementedCounter ==
  ASSUME NEW bound \in Nat \ {0}, NEW key \in LiveCounter(bound)
  PROVE  LET next == Incremented(key, bound) IN
         /\ next \in LiveCounter(bound)
         /\ next.count = AtMost(key.count + 1, bound)
         /\ next.count \in 1 .. bound /\ next.count >= key.count
         /\ key.count > 0 => next.ttl = key.ttl
<1>1. key.count \in 0 .. bound /\ key.ttl \in Nat \cup {-1} /\ (key.count = 0 <=> key.ttl = 0)
  BY DEF LiveCounter
<1>2. /\ AtMost(key.count + 1, bound) \in 1 .. bound
      /\ AtMost(key.count + 1, bound) >= key.count
  BY <1>1 DEF AtMost
<1>3. /\ Incremented(key, bound).count = AtMost(key.count + 1, bound)
      /\ Incremented(key, bound).ttl = IF key.count = 0 THEN -1 ELSE key.ttl
      /\ Incremented(key, bound) = [count |-> Incremented(key, bound).count,
                                    ttl |-> Incremented(key, bound).ttl]
  BY DEF Incremented, NoExpiry
<1>4. Incremented(key, bound).ttl \in Nat \cup {-1} /\ Incremented(key, bound).ttl # 0
  BY <1>1, <1>3
<1> QED
  BY <1>1, <1>2, <1>3, <1>4 DEF LiveCounter

\* EXPIRE on a counter that exists.
LEMMA DatedCounter ==
  ASSUME NEW bound \in Nat \ {0}, NEW key \in LiveCounter(bound), key.count > 0,
         NEW ttl \in Nat \ {0}
  PROVE  /\ [key EXCEPT !.ttl = ttl] \in LiveCounter(bound)
         /\ [key EXCEPT !.ttl = ttl].count = key.count
         /\ [key EXCEPT !.ttl = ttl].ttl = ttl
BY DEF LiveCounter

\* A handler leaves Redis as it was, or as one of its commands did.
LEMMA LeftIn ==
  ASSUME NEW S, NEW stages \in Seq(S), stages # <<>>, redis \in S,
         NEW complete \in BOOLEAN, NEW keys \in Left(stages, complete)
  PROVE  keys \in S /\ (complete => keys = stages[Len(stages)])
<1>1. Len(stages) \in Nat \ {0}
  BY EmptySeq
<1>2. \A i \in 1 .. Len(stages) : stages[i] \in S
  BY ElementOfSeq
<1>3. CASE complete
  BY <1>1, <1>2, <1>3 DEF Left, Last
<1>4. CASE ~complete
  <2>1. \A i \in 1 .. Len(stages) - 1 : stages[i] \in S
    BY <1>1, <1>2
  <2>2. Front(stages) \in Seq(S)
    BY <1>1, <2>1, SubSeqProperties DEF Front
  <2>3. ToSet(Front(stages)) \subseteq S
    BY <2>2, LenProperties, ElementOfSeq DEF ToSet
  <2> QED
    BY <1>4, <2>3 DEF Left
<1> QED
  BY <1>3, <1>4

-----------------------------------------------------------------------------
(* What the booking of a decision does to the keys *)

\* The usage counters are left alone by it.
Booked == {keys \in Keys : keys.hour = redis.hour /\ keys.day = redis.day}

\* What all refusals do: count and cool the symbol down, nothing else.
Cooled == {keys \in Booked : keys.errors = redis.errors /\ keys.block = redis.block}

\* The streak of errors is not shortened, nor does it end earlier.
Failed == {keys \in Booked :
             /\ keys.errors.count >= redis.errors.count
             /\ redis.errors.count > 0 =>
                  keys.errors.ttl = redis.errors.ttl \/ keys.errors.ttl = ErrorWindow}

LEMMA KeysField ==
  ASSUME NEW keys \in Keys
  PROVE  /\ keys.block \in Nat /\ keys.cooldown \in [Symbols -> Nat]
         /\ keys.rejects \in [Symbols -> LiveCounter(3)]
         /\ keys.errors \in LiveCounter(ErrorThreshold)
         /\ keys.hour \in 0 .. HourLimit /\ keys.day \in 0 .. DayLimit
BY DEF Keys

LEMMA GuardBounds ==
  /\ ErrorThreshold \in Nat \ {0} /\ RejectWindow \in Nat \ {0} /\ ErrorWindow \in Nat \ {0}
  /\ ErrorBlock \in Nat \ {0} /\ CreditBlock \in Nat \ {0} /\ HourLimit \in Nat \ {0}
  /\ DayLimit \in Nat \ {0} /\ HourLength \in Nat \ {0} /\ DayHours \in Nat \ {0}
BY GuardAssumption

\* No counter is a live one.
LEMMA NoCounterLive ==
  ASSUME NEW bound \in Nat \ {0}
  PROVE  NoCounter \in LiveCounter(bound) /\ NoCounter.count = 0
BY DEF NoCounter, LiveCounter

\* An approval forgets the symbol's refusals and the errors.
LEMMA ApprovalTyped ==
  ASSUME redis \in Keys, who \in Symbols
  PROVE  ApprovalStages \in Seq(Booked) /\ ApprovalStages # <<>>
<1> DEFINE forgiven == [redis EXCEPT !.rejects[who] = NoCounter]
           cleared == [forgiven EXCEPT !.errors = NoCounter]
<1>1. NoCounter \in LiveCounter(3) /\ NoCounter \in LiveCounter(ErrorThreshold)
  BY NoCounterLive, GuardBounds
<1>2. [redis.rejects EXCEPT ![who] = NoCounter] \in [Symbols -> LiveCounter(3)]
  BY <1>1, KeysField
<1>3. forgiven \in Keys /\ forgiven.hour = redis.hour /\ forgiven.day = redis.day
  BY <1>2 DEF Keys
<1>4. cleared \in Keys /\ cleared.hour = forgiven.hour /\ cleared.day = forgiven.day
  BY <1>1, <1>3 DEF Keys
<1>5. ApprovalStages = <<forgiven, cleared>>
  BY DEF ApprovalStages
<1>6. forgiven \in Booked /\ cleared \in Booked
  BY <1>3, <1>4 DEF Booked
<1> HIDE DEF forgiven, cleared
<1>7. <<forgiven, cleared>> \in Seq(Booked) /\ <<forgiven, cleared>> # <<>>
  BY <1>6
<1> QED
  BY <1>5, <1>7

\* A refusal counts for the symbol, renews the window and cools it down.
LEMMA RefusalTyped ==
  ASSUME redis \in Keys, who \in Symbols
  PROVE  /\ RefusalStages(who) \in Seq(Cooled) /\ Len(RefusalStages(who)) = 3
         /\ Last(RefusalStages(who)) \in Cooled
<1> DEFINE counter == Incremented(redis.rejects[who], 3)
           counted == [redis EXCEPT !.rejects[who] = counter]
           dated == [counted EXCEPT !.rejects[who].ttl = RejectWindow]
           cooled == [dated EXCEPT !.cooldown[who] = CooldownFor(dated.rejects[who].count)]
<1>1. /\ redis.rejects \in [Symbols -> LiveCounter(3)] /\ redis.rejects[who] \in LiveCounter(3)
      /\ 3 \in Nat \ {0}
  BY KeysField
<1>2. counter \in LiveCounter(3) /\ counter.count \in 1 .. 3
  BY <1>1, IncrementedCounter
<1>3. /\ [counter EXCEPT !.ttl = RejectWindow] \in LiveCounter(3)
      /\ [counter EXCEPT !.ttl = RejectWindow].count = counter.count
  BY <1>2, GuardBounds, DatedCounter
<1>4. RefusalStages(who) = <<counted, dated, cooled>>
  BY DEF RefusalStages
<1> HIDE DEF counter
<1>5. /\ counted \in Keys /\ counted.rejects[who] = counter
      /\ counted.hour = redis.hour /\ counted.day = redis.day
      /\ counted.errors = redis.errors /\ counted.block = redis.block
  BY <1>1, <1>2 DEF Keys
<1> HIDE DEF counted
<1>6. dated = [counted EXCEPT !.rejects = [counted.rejects EXCEPT ![who] = [counter EXCEPT !.ttl = RejectWindow]]]
  BY <1>5
<1>7. [counted.rejects EXCEPT ![who] = [counter EXCEPT !.ttl = RejectWindow]]
        \in [Symbols -> LiveCounter(3)]
  BY <1>3, <1>5, KeysField
<1>8. /\ dated \in Keys /\ dated.rejects[who].count = counter.count
      /\ dated.hour = counted.hour /\ dated.day = counted.day
      /\ dated.errors = counted.errors /\ dated.block = counted.block
  <2>1. /\ dated \in Keys
        /\ dated.rejects = [counted.rejects EXCEPT ![who] = [counter EXCEPT !.ttl = RejectWindow]]
        /\ dated.hour = counted.hour /\ dated.day = counted.day
        /\ dated.errors = counted.errors /\ dated.block = counted.block
    BY <1>5, <1>6, <1>7 DEF Keys
  <2>2. who \in DOMAIN counted.rejects
    BY <1>5, KeysField
  <2> QED
    BY <1>3, <2>1, <2>2
<1> HIDE DEF dated
<1>9. CooldownFor(dated.rejects[who].count) \in Nat
  BY <1>2, <1>8, GuardAssumption DEF CooldownFor, AtMost
<1>10. [dated.cooldown EXCEPT ![who] = CooldownFor(dated.rejects[who].count)] \in [Symbols -> Nat]
  BY <1>8, <1>9, KeysField
<1>11. /\ cooled \in Keys /\ cooled.hour = dated.hour /\ cooled.day = dated.day
       /\ cooled.errors = dated.errors /\ cooled.block = dated.block
  BY <1>8, <1>10 DEF Keys
<1> HIDE DEF cooled
<1>12. counted \in Cooled /\ dated \in Cooled /\ cooled \in Cooled
  BY <1>5, <1>8, <1>11 DEF Cooled, Booked
<1>13. /\ <<counted, dated, cooled>> \in Seq(Cooled) /\ Len(<<counted, dated, cooled>>) = 3
       /\ <<counted, dated, cooled>>[3] = cooled
  BY <1>12
<1> QED
  BY <1>4, <1>12, <1>13 DEF Last

\* An error counts, and a full streak blocks every symbol.
LEMMA ErrorTyped ==
  ASSUME redis \in Keys, NEW keys \in Cooled
  PROVE  LET stages == ErrorStages(keys)
             last == stages[Len(stages)]
         IN  /\ stages \in Seq(Failed) /\ stages # <<>>
             /\ last.errors.count = AtMost(redis.errors.count + 1, ErrorThreshold)
             /\ last.errors.ttl = ErrorWindow
             /\ last.errors.count = ErrorThreshold => last.block = ErrorBlock
<1> DEFINE counter == Incremented(keys.errors, ErrorThreshold)
           counted == [keys EXCEPT !.errors = counter]
           dated == [counted EXCEPT !.errors.ttl = ErrorWindow]
           blocked == [dated EXCEPT !.block = ErrorBlock]
<1>1. keys \in Keys /\ keys.errors = redis.errors /\ keys.hour = redis.hour /\ keys.day = redis.day
  BY DEF Cooled, Booked
<1>2. redis.errors \in LiveCounter(ErrorThreshold)
  BY KeysField
<1>3. /\ counter \in LiveCounter(ErrorThreshold) /\ counter.count \in 1 .. ErrorThreshold
      /\ counter.count = AtMost(redis.errors.count + 1, ErrorThreshold)
      /\ counter.count >= redis.errors.count
      /\ redis.errors.count > 0 => counter.ttl = redis.errors.ttl
  BY <1>1, <1>2, IncrementedCounter, GuardBounds
<1>4. /\ [counter EXCEPT !.ttl = ErrorWindow] \in LiveCounter(ErrorThreshold)
      /\ [counter EXCEPT !.ttl = ErrorWindow].count = counter.count
      /\ [counter EXCEPT !.ttl = ErrorWindow].ttl = ErrorWindow
  BY <1>3, GuardBounds, DatedCounter
<1>5. ErrorStages(keys)
        = <<counted, dated>> \o (IF dated.errors.count < ErrorThreshold THEN <<>> ELSE <<blocked>>)
  BY DEF ErrorStages
<1> HIDE DEF counter
<1>6. /\ counted \in Keys /\ counted.errors = counter
      /\ counted.hour = redis.hour /\ counted.day = redis.day
  BY <1>1, <1>3 DEF Keys
<1> HIDE DEF counted
<1>7. dated = [counted EXCEPT !.errors = [counter EXCEPT !.ttl = ErrorWindow]]
  BY <1>6
<1>8. /\ dated \in Keys /\ dated.errors = [counter EXCEPT !.ttl = ErrorWindow]
      /\ dated.hour = redis.hour /\ dated.day = redis.day
  BY <1>4, <1>6, <1>7 DEF Keys
<1> HIDE DEF dated
<1>9. /\ blocked \in Keys /\ blocked.errors = dated.errors /\ blocked.block = ErrorBlock
      /\ blocked.hour = redis.hour /\ blocked.day = redis.day
  BY <1>8, GuardBounds DEF Keys
<1> HIDE DEF blocked
<1>10. counted \in Failed /\ dated \in Failed /\ blocked \in Failed
  BY <1>3, <1>4, <1>6, <1>8, <1>9 DEF Failed, Booked
<1>11. dated.errors.count \in 1 .. ErrorThreshold /\ dated.errors.count = counter.count
  BY <1>3, <1>4, <1>8
<1>12. CASE dated.errors.count < ErrorThreshold
  <2>1. ErrorStages(keys) = <<counted, dated>>
    BY <1>5, <1>12
  <2>2. /\ <<counted, dated>> \in Seq(Failed) /\ <<counted, dated>> # <<>>
        /\ Len(<<counted, dated>>) = 2 /\ <<counted, dated>>[2] = dated
    BY <1>10
  <2>3. dated.errors.count # ErrorThreshold
    BY <1>11, <1>12, GuardBounds
  <2>4. /\ dated.errors.count = AtMost(redis.errors.count + 1, ErrorThreshold)
        /\ dated.errors.ttl = ErrorWindow
    BY <1>3, <1>4, <1>8
  <2> QED
    BY <2>1, <2>2, <2>3, <2>4
<1>13. CASE dated.errors.count = ErrorThreshold
  <2>1. ~(dated.errors.count < ErrorThreshold)
    BY <1>13, GuardBounds
  <2>2. ErrorStages(keys) = <<counted, dated>> \o <<blocked>>
    BY <1>5, <2>1
  <2>3. /\ <<counted, dated>> \in Seq(Failed) /\ Len(<<counted, dated>>) = 2
        /\ <<blocked>> \in Seq(Failed) /\ Len(<<blocked>>) = 1 /\ <<blocked>>[1] = blocked
    BY <1>10
  <2> DEFINE stages == ErrorStages(keys)
  <2> HIDE DEF stages
  <2>4. /\ stages \in Seq(Failed) /\ Len(stages) = 3
        /\ stages[3] = blocked
    <3>1. /\ stages \in Seq(Failed) /\ Len(stages) = 2 + 1
          /\ \A i \in 1 .. 2 + 1 :
               stages[i] = IF i <= 2 THEN <<counted, dated>>[i] ELSE <<blocked>>[i - 2]
      BY <2>2, <2>3, ConcatProperties DEF stages
    <3> QED
      BY <2>3, <3>1
  <2>5. stages # <<>>
    BY <2>4, EmptySeq
  <2>6. /\ blocked.errors.count = AtMost(redis.errors.count + 1, ErrorThreshold)
        /\ blocked.errors.ttl = ErrorWindow /\ blocked.block = ErrorBlock
    BY <1>3, <1>4, <1>8, <1>9
  <2> QED
    BY <2>4, <2>5, <2>6 DEF stages
<1> QED
  BY <1>11, <1>12, <1>13, GuardBounds

\* What a booked refusal leaves, and what of it counts for the breaker.
LEMMA RefusalLeaves ==
  ASSUME redis \in Keys, who \in Symbols,
         NEW verdict \in {"reject", "timeout", "error", "credit"}, NEW complete \in BOOLEAN,
         NEW keys \in Left(DecisionStages(verdict), complete)
  PROVE  /\ keys \in Booked
         /\ verdict \in {"error", "credit"} => keys \in Failed
         /\ verdict = "error" /\ complete =>
              /\ keys.errors.count = AtMost(redis.errors.count + 1, ErrorThreshold)
              /\ keys.errors.ttl = ErrorWindow
              /\ keys.errors.count = ErrorThreshold => keys.block = ErrorBlock
<1> DEFINE refusal == RefusalStages(who)
           last == Last(refusal)
           stages == DecisionStages(verdict)
<1>1. refusal \in Seq(Cooled) /\ Len(refusal) = 3 /\ last \in Cooled
  BY RefusalTyped
<1>2. redis.errors \in LiveCounter(ErrorThreshold)
  BY KeysField
<1>3. Cooled \subseteq Failed /\ Failed \subseteq Booked /\ Booked \subseteq Keys
  BY <1>2 DEF Cooled, Failed, Booked, LiveCounter
<1>4. redis \in Failed /\ redis \in Booked
  BY <1>2 DEF Failed, Booked, LiveCounter
<1>5. refusal \in Seq(Failed) /\ refusal \in Seq(Booked)
  BY <1>1, <1>3, SeqMonotonic
<1>6. stages = refusal \o (CASE verdict = "credit" -> <<[last EXCEPT !.block = CreditBlock]>>
                             [] verdict = "error"  -> ErrorStages(last)
                             [] OTHER -> <<[last EXCEPT !.errors = NoCounter]>>)
  BY DEF DecisionStages
<1> HIDE DEF refusal, last, stages
<1>7. keys \in Left(stages, complete)
  BY DEF stages
<1>8. CASE verdict = "credit"
  <2>1. [last EXCEPT !.block = CreditBlock] \in Failed
    <3>1. last \in Keys /\ last \in Failed
      BY <1>1, <1>3
    <3> QED
      BY <3>1, GuardBounds DEF Failed, Booked, Keys
  <2>2. <<[last EXCEPT !.block = CreditBlock]>> \in Seq(Failed)
    BY <2>1
  <2>3. stages = refusal \o <<[last EXCEPT !.block = CreditBlock]>>
    BY <1>6, <1>8
  <2>4. stages \in Seq(Failed) /\ stages # <<>>
    BY <1>1, <1>5, <2>2, <2>3, ConcatProperties, EmptySeq
  <2>5. keys \in Failed
    BY <1>4, <1>7, <2>4, LeftIn
  <2> QED
    BY <1>3, <1>8, <2>5
<1>9. CASE verdict = "error"
  <2> DEFINE errors == ErrorStages(last)
  <2>1. /\ errors \in Seq(Failed) /\ errors # <<>>
        /\ errors[Len(errors)].errors.count = AtMost(redis.errors.count + 1, ErrorThreshold)
        /\ errors[Len(errors)].errors.ttl = ErrorWindow
        /\ errors[Len(errors)].errors.count = ErrorThreshold
             => errors[Len(errors)].block = ErrorBlock
    BY <1>1, ErrorTyped
  <2>2. stages = refusal \o errors
    BY <1>6, <1>9
  <2> HIDE DEF errors
  <2>3. Len(errors) \in Nat \ {0}
    BY <2>1, EmptySeq
  <2>4. /\ stages \in Seq(Failed) /\ Len(stages) = 3 + Len(errors)
        /\ stages[Len(stages)] = errors[Len(errors)]
    <3>1. /\ stages \in Seq(Failed) /\ Len(stages) = Len(refusal) + Len(errors)
          /\ \A i \in 1 .. Len(refusal) + Len(errors) :
               stages[i] = IF i <= Len(refusal) THEN refusal[i] ELSE errors[i - Len(refusal)]
      BY <1>5, <2>1, <2>2, ConcatProperties
    <3> QED
      BY <1>1, <2>3, <3>1
  <2>5. stages # <<>>
    BY <2>3, <2>4, EmptySeq
  <2>6. keys \in Failed /\ (complete => keys = stages[Len(stages)])
    BY <1>4, <1>7, <2>4, <2>5, LeftIn
  <2> QED
    BY <1>3, <2>1, <2>4, <2>6
<1>10. CASE verdict \in {"reject", "timeout"}
  <2>1. [last EXCEPT !.errors = NoCounter] \in Booked
    <3>1. last \in Keys /\ last \in Booked /\ NoCounter \in LiveCounter(ErrorThreshold)
      BY <1>1, <1>3, NoCounterLive, GuardBounds
    <3> QED
      BY <3>1 DEF Booked, Keys
  <2>2. <<[last EXCEPT !.errors = NoCounter]>> \in Seq(Booked)
    BY <2>1
  <2>3. stages = refusal \o <<[last EXCEPT !.errors = NoCounter]>>
    BY <1>6, <1>10
  <2>4. stages \in Seq(Booked) /\ stages # <<>>
    BY <1>1, <1>5, <2>2, <2>3, ConcatProperties, EmptySeq
  <2>5. keys \in Booked
    BY <1>4, <1>7, <2>4, LeftIn
  <2> QED
    BY <1>10, <2>5
<1> QED
  BY <1>8, <1>9, <1>10

-----------------------------------------------------------------------------
(* The steps of the guard *)

LEMMA InitGuardInv == Init => GuardInv
<1> SUFFICES ASSUME Init PROVE GuardInv
  OBVIOUS
<1>1. /\ redis = NoKeys /\ pc = "idle" /\ who \in Symbols /\ minute = 0 /\ hour = 0
      /\ calls = [hour |-> 0, day |-> 0] /\ rejected = [s \in Symbols |-> {}]
      /\ failures = NoFailure
  BY DEF Init
<1>2. NoCounter \in LiveCounter(3) /\ NoCounter \in LiveCounter(ErrorThreshold)
  BY NoCounterLive, GuardBounds
<1>3. redis \in Keys /\ redis.hour = 0 /\ redis.day = 0
  BY <1>1, <1>2, GuardBounds DEF NoKeys, Keys
<1>4. ClockTypeOK /\ PlaceTypeOK
  BY <1>1, GuardBounds DEF ClockTypeOK, PlaceTypeOK
<1>5. HistoryTypeOK
  BY <1>1, GuardBounds DEF HistoryTypeOK, NoFailure
<1>6. WithinBudget /\ BreakerHolds
  BY <1>1, <1>3, GuardBounds DEF WithinBudget, BreakerHolds, NoFailure
<1> QED
  BY <1>3, <1>4, <1>5, <1>6 DEF GuardInv

\* The guard lets a call through only within the budgets and without a block.
LEMMA PassStep == ASSUME GuardInv, PassGuard PROVE GuardInv'
<1>1. /\ pc = "idle" /\ pc' = "clear" /\ who' \in Symbols /\ ~Blocked(who')
      /\ UNCHANGED <<redis, minute, hour, calls, rejected, failures>>
  BY DEF PassGuard
<1>2. redis \in Keys /\ ClockTypeOK /\ HistoryTypeOK /\ WithinBudget /\ BreakerHolds
  BY DEF GuardInv
<1>3. /\ ~(redis.block > 0) /\ redis.block \in Nat
      /\ redis.hour < HourLimit /\ redis.day < DayLimit
  BY <1>1, <1>2, KeysField, GuardBounds DEF Blocked
<1>4. redis.block = 0 /\ failures.ago \in Nat
  BY <1>2, <1>3 DEF HistoryTypeOK
<1>5. ~(failures.run = ErrorThreshold /\ failures.ago < ErrorBlock)
  BY <1>2, <1>4, GuardBounds DEF BreakerHolds
<1>6. ClockTypeOK' /\ HistoryTypeOK' /\ PlaceTypeOK' /\ redis' \in Keys
  BY <1>1, <1>2 DEF ClockTypeOK, HistoryTypeOK, PlaceTypeOK
<1>7. WithinBudget'
  BY <1>1, <1>2, <1>3 DEF WithinBudget
<1>8. BreakerHolds'
  BY <1>1, <1>2, <1>5 DEF BreakerHolds
<1> QED
  BY <1>6, <1>7, <1>8 DEF GuardInv

\* A call that is counted still fits.
LEMMA CountedKeys ==
  ASSUME redis \in Keys
  PROVE  /\ Counted(redis) \in Keys
         /\ Counted(redis).hour = AtMost(redis.hour + 1, HourLimit)
         /\ Counted(redis).day = AtMost(redis.day + 1, DayLimit)
         /\ Counted(redis).errors = redis.errors /\ Counted(redis).block = redis.block
<1>1. redis.hour \in 0 .. HourLimit /\ redis.day \in 0 .. DayLimit
  BY KeysField
<1>2. /\ AtMost(redis.hour + 1, HourLimit) \in 0 .. HourLimit
      /\ AtMost(redis.day + 1, DayLimit) \in 0 .. DayLimit
  BY <1>1, GuardBounds DEF AtMost
<1> QED
  BY <1>2 DEF Counted, Keys

LEMMA MarkStep == ASSUME GuardInv, MarkCall PROVE GuardInv'
<1>1. /\ pc = "clear" /\ pc' = "asking" /\ redis' = Counted(redis)
      /\ calls' = [hour |-> calls.hour + 1, day |-> calls.day + 1]
      /\ UNCHANGED <<who, minute, hour, rejected, failures>>
  BY DEF MarkCall
<1>2. /\ redis \in Keys /\ ClockTypeOK /\ HistoryTypeOK /\ PlaceTypeOK
      /\ WithinBudget /\ BreakerHolds
  BY DEF GuardInv
<1>3. /\ redis' \in Keys
      /\ redis'.hour = AtMost(redis.hour + 1, HourLimit)
      /\ redis'.day = AtMost(redis.day + 1, DayLimit)
      /\ redis'.errors = redis.errors /\ redis'.block = redis.block
  BY <1>1, <1>2, CountedKeys
<1>4. /\ redis.hour \in Nat /\ redis.hour < HourLimit /\ calls.hour \in Nat
      /\ redis.day \in Nat /\ redis.day < DayLimit /\ calls.day \in Nat
      /\ calls.hour <= redis.hour /\ calls.day <= redis.day
  BY <1>1, <1>2, KeysField DEF WithinBudget, HistoryTypeOK
<1>5. redis'.hour = redis.hour + 1 /\ redis'.day = redis.day + 1
  BY <1>3, <1>4, GuardBounds DEF AtMost
<1>6. calls' \in [hour : Nat, day : Nat] /\ calls'.hour <= redis'.hour /\ calls'.day <= redis'.day
  BY <1>1, <1>4, <1>5
<1>7. ClockTypeOK' /\ HistoryTypeOK' /\ PlaceTypeOK'
  BY <1>1, <1>2, <1>6 DEF ClockTypeOK, HistoryTypeOK, PlaceTypeOK
<1>8. WithinBudget' /\ BreakerHolds'
  BY <1>1, <1>2, <1>3, <1>6 DEF WithinBudget, BreakerHolds
<1> QED
  BY <1>3, <1>7, <1>8 DEF GuardInv

\* A call that is counted in one budget only, or in both, and not made.
LEMMA FailMarkStep == ASSUME GuardInv, FailMark PROVE GuardInv'
<1>1. /\ pc = "clear" /\ pc' = "idle"
      /\ redis' \in {redis, [redis EXCEPT !.hour = Counted(redis).hour], Counted(redis)}
      /\ UNCHANGED <<who, minute, hour, calls, rejected, failures>>
  BY DEF FailMark
<1>2. /\ redis \in Keys /\ ClockTypeOK /\ HistoryTypeOK /\ PlaceTypeOK
      /\ WithinBudget /\ BreakerHolds
  BY DEF GuardInv
<1>3. /\ Counted(redis) \in Keys
      /\ Counted(redis).hour = AtMost(redis.hour + 1, HourLimit)
      /\ Counted(redis).day = AtMost(redis.day + 1, DayLimit)
      /\ Counted(redis).errors = redis.errors /\ Counted(redis).block = redis.block
  BY <1>2, CountedKeys
<1>4. /\ redis.hour \in 0 .. HourLimit /\ redis.day \in 0 .. DayLimit
      /\ Counted(redis).hour \in 0 .. HourLimit
  BY <1>2, <1>3, KeysField
<1>5. AtMost(redis.hour + 1, HourLimit) >= redis.hour /\ AtMost(redis.day + 1, DayLimit) >= redis.day
  BY <1>4, GuardBounds DEF AtMost
<1>6. /\ redis' \in Keys /\ redis'.hour >= redis.hour /\ redis'.day >= redis.day
      /\ redis'.errors = redis.errors /\ redis'.block = redis.block
  <2>1. CASE redis' = redis
    BY <1>2, <1>4, <2>1
  <2>2. CASE redis' = [redis EXCEPT !.hour = Counted(redis).hour]
    BY <1>2, <1>3, <1>4, <1>5, <2>2 DEF Keys
  <2>3. CASE redis' = Counted(redis)
    BY <1>3, <1>5, <2>3
  <2> QED
    BY <1>1, <2>1, <2>2, <2>3
<1>7. redis'.hour \in Nat /\ redis'.day \in Nat /\ calls.hour \in Nat /\ calls.day \in Nat
  BY <1>2, <1>6, KeysField DEF HistoryTypeOK
<1>8. calls.hour <= redis'.hour /\ calls.day <= redis'.day
  BY <1>2, <1>4, <1>6, <1>7 DEF WithinBudget
<1>9. ClockTypeOK' /\ HistoryTypeOK' /\ PlaceTypeOK'
  BY <1>1, <1>2 DEF ClockTypeOK, HistoryTypeOK, PlaceTypeOK
<1>10. WithinBudget' /\ BreakerHolds'
  BY <1>1, <1>2, <1>6, <1>8 DEF WithinBudget, BreakerHolds
<1> QED
  BY <1>6, <1>9, <1>10 DEF GuardInv

LEMMA ApproveStep == ASSUME GuardInv, Approve PROVE GuardInv'
<1>1. /\ pc = "asking" /\ pc' = "idle"
      /\ \E complete \in BOOLEAN : redis' \in Left(ApprovalStages, complete)
      /\ rejected' = [rejected EXCEPT ![who] = {}] /\ failures' = NoFailure
      /\ UNCHANGED <<who, minute, hour, calls>>
  BY DEF Approve
<1>2. /\ redis \in Keys /\ ClockTypeOK /\ HistoryTypeOK /\ PlaceTypeOK /\ WithinBudget
  BY DEF GuardInv
<1>3. redis \in Booked
  BY <1>2 DEF Booked
<1>4. ApprovalStages \in Seq(Booked) /\ ApprovalStages # <<>>
  BY <1>2, ApprovalTyped DEF PlaceTypeOK
<1>5. redis' \in Booked
  BY <1>1, <1>3, <1>4, LeftIn
<1>6. redis' \in Keys /\ redis'.hour = redis.hour /\ redis'.day = redis.day
  BY <1>5 DEF Booked
<1>7. HistoryTypeOK'
  <2>1. rejected' \in [Symbols -> SUBSET (0 .. RejectWindow - 1)]
    BY <1>1, <1>2 DEF HistoryTypeOK
  <2>2. failures' \in [run : 0 .. ErrorThreshold, ago : 0 .. ErrorWindow - 1]
    BY <1>1, GuardBounds DEF NoFailure
  <2> QED
    BY <1>1, <1>2, <2>1, <2>2 DEF HistoryTypeOK
<1>8. ClockTypeOK' /\ PlaceTypeOK'
  BY <1>1, <1>2 DEF ClockTypeOK, PlaceTypeOK
<1>9. WithinBudget' /\ BreakerHolds'
  BY <1>1, <1>2, <1>6, GuardBounds DEF WithinBudget, BreakerHolds, NoFailure
<1> QED
  BY <1>6, <1>7, <1>8, <1>9 DEF GuardInv

\* A failure that is booked makes the run of failures longer in Redis too.
LEMMA RefuseStep ==
  ASSUME GuardInv, NEW verdict \in {"reject", "timeout", "error", "credit"}, Refuse(verdict)
  PROVE  GuardInv'
<1>1. PICK complete \in BOOLEAN :
        /\ redis' \in Left(DecisionStages(verdict), complete)
        /\ rejected' = IF complete THEN [rejected EXCEPT ![who] = @ \cup {0}] ELSE rejected
        /\ failures' =
             IF verdict \notin {"error", "credit"} THEN NoFailure
             ELSE IF complete /\ verdict = "error"
             THEN [run |-> AtMost(failures.run + 1, ErrorThreshold), ago |-> 0]
             ELSE failures
  BY DEF Refuse
<1>2. pc = "asking" /\ pc' = "idle" /\ UNCHANGED <<who, minute, hour, calls>>
  BY DEF Refuse
<1>3. /\ redis \in Keys /\ ClockTypeOK /\ HistoryTypeOK /\ PlaceTypeOK
      /\ WithinBudget /\ BreakerHolds
  BY DEF GuardInv
<1>4. who \in Symbols
  BY <1>3 DEF PlaceTypeOK
<1>5. /\ redis' \in Booked
      /\ verdict \in {"error", "credit"} => redis' \in Failed
      /\ verdict = "error" /\ complete =>
           /\ redis'.errors.count = AtMost(redis.errors.count + 1, ErrorThreshold)
           /\ redis'.errors.ttl = ErrorWindow
           /\ redis'.errors.count = ErrorThreshold => redis'.block = ErrorBlock
  BY <1>1, <1>3, <1>4, RefusalLeaves
<1>6. redis' \in Keys /\ redis'.hour = redis.hour /\ redis'.day = redis.day
  BY <1>5 DEF Booked
<1>7. failures \in [run : 0 .. ErrorThreshold, ago : 0 .. ErrorWindow - 1]
  BY <1>3 DEF HistoryTypeOK
<1>8. /\ failures.run \in 0 .. ErrorThreshold /\ failures.ago \in 0 .. ErrorWindow - 1
      /\ redis.errors.count \in 0 .. ErrorThreshold
      /\ redis.errors.ttl \in Int
  BY <1>3, <1>7, KeysField DEF LiveCounter
<1>9. ~(failures.run = ErrorThreshold /\ failures.ago < ErrorBlock)
  BY <1>2, <1>3 DEF BreakerHolds
<1>10. AtMost(failures.run + 1, ErrorThreshold) \in 1 .. ErrorThreshold
  BY <1>8, GuardBounds DEF AtMost
<1>11. rejected' \in [Symbols -> SUBSET (0 .. RejectWindow - 1)]
  BY <1>1, <1>3, <1>4, GuardBounds DEF HistoryTypeOK
<1>12. failures' \in [run : 0 .. ErrorThreshold, ago : 0 .. ErrorWindow - 1]
  <2>1. 0 \in 0 .. ErrorThreshold /\ 0 \in 0 .. ErrorWindow - 1
    BY GuardBounds
  <2>2. /\ [run |-> AtMost(failures.run + 1, ErrorThreshold), ago |-> 0]
             \in [run : 0 .. ErrorThreshold, ago : 0 .. ErrorWindow - 1]
        /\ NoFailure \in [run : 0 .. ErrorThreshold, ago : 0 .. ErrorWindow - 1]
    BY <1>10, <2>1, GuardBounds DEF NoFailure
  <2> QED
    BY <1>1, <1>7, <2>2
<1>13. ClockTypeOK' /\ HistoryTypeOK' /\ PlaceTypeOK'
  BY <1>2, <1>3, <1>11, <1>12 DEF ClockTypeOK, HistoryTypeOK, PlaceTypeOK
<1>14. WithinBudget'
  BY <1>2, <1>3, <1>6 DEF WithinBudget
<1>15. BreakerHolds'
  <2>1. CASE verdict \notin {"error", "credit"}
    <3>1. failures'.run = 0
      BY <1>1, <2>1 DEF NoFailure
    <3> QED
      BY <3>1, GuardBounds DEF BreakerHolds
  <2>2. CASE verdict \in {"error", "credit"} /\ ~(complete /\ verdict = "error")
    <3>1. failures' = failures
      BY <1>1, <2>2
    <3>2. /\ redis'.errors.count >= redis.errors.count
          /\ redis.errors.count > 0 =>
               redis'.errors.ttl = redis.errors.ttl \/ redis'.errors.ttl = ErrorWindow
      BY <1>5, <2>2 DEF Failed
    <3>3. redis'.errors.count \in Nat /\ redis'.errors.ttl \in Int
      BY <1>6, KeysField DEF LiveCounter
    <3>4. failures.run > 0 => /\ failures.run <= redis'.errors.count
                              /\ redis'.errors.ttl + failures.ago >= ErrorWindow
      BY <1>3, <1>8, <3>2, <3>3, GuardBounds DEF BreakerHolds
    <3> QED
      BY <1>9, <3>1, <3>4 DEF BreakerHolds
  <2>3. CASE complete /\ verdict = "error"
    <3>1. /\ failures'.run = AtMost(failures.run + 1, ErrorThreshold) /\ failures'.ago = 0
      BY <1>1, <2>3
    <3>2. /\ redis'.errors.count = AtMost(redis.errors.count + 1, ErrorThreshold)
          /\ redis'.errors.ttl = ErrorWindow
          /\ redis'.errors.count = ErrorThreshold => redis'.block = ErrorBlock
      BY <1>5, <2>3
    <3>3. failures.run <= redis.errors.count
      BY <1>3, <1>8 DEF BreakerHolds
    <3>4. /\ failures'.run \in 1 .. ErrorThreshold /\ failures'.run <= redis'.errors.count
          /\ redis'.errors.count <= ErrorThreshold
      BY <1>8, <3>1, <3>2, <3>3, GuardBounds DEF AtMost
    <3>5. redis'.errors.ttl + failures'.ago >= ErrorWindow
      BY <3>1, <3>2, GuardBounds
    <3>6. redis'.errors.count \in Nat
      BY <1>6, KeysField DEF LiveCounter
    <3>7. failures'.run = ErrorThreshold => redis'.block + failures'.ago >= ErrorBlock
      BY <3>1, <3>2, <3>4, <3>6, GuardBounds
    <3> QED
      BY <1>2, <3>4, <3>5, <3>7 DEF BreakerHolds
  <2> QED
    BY <2>1, <2>2, <2>3
<1> QED
  BY <1>6, <1>13, <1>14, <1>15 DEF GuardInv

\* A flag and a counter, one tick later.
LEMMA AgedTyped ==
  ASSUME NEW ttl \in Nat
  PROVE  Aged(ttl) \in Nat /\ (ttl > 0 => Aged(ttl) = ttl - 1)
BY DEF Aged

LEMMA AgedCounterTyped ==
  ASSUME NEW bound \in Nat \ {0}, NEW key \in LiveCounter(bound)
  PROVE  /\ AgedCounter(key) \in LiveCounter(bound)
         /\ key.ttl > 1 => /\ AgedCounter(key).count = key.count
                           /\ AgedCounter(key).ttl = key.ttl - 1
<1>1. /\ key.count \in 0 .. bound /\ key.ttl \in Nat \cup {-1} /\ (key.count = 0 <=> key.ttl = 0)
      /\ key = [count |-> key.count, ttl |-> key.ttl]
  BY DEF LiveCounter
<1>2. CASE key.ttl = 1
  BY <1>1, <1>2, NoCounterLive DEF AgedCounter
<1>3. CASE key.ttl # 1
  <2>1. AgedCounter(key) = [key EXCEPT !.ttl = Aged(key.ttl)]
    BY <1>3 DEF AgedCounter
  <2>2. /\ Aged(key.ttl) \in Nat \cup {-1} /\ (Aged(key.ttl) = 0 <=> key.ttl = 0)
        /\ key.ttl > 1 => Aged(key.ttl) = key.ttl - 1
    BY <1>1, <1>3 DEF Aged
  <2>3. /\ AgedCounter(key) = [count |-> key.count, ttl |-> Aged(key.ttl)]
        /\ AgedCounter(key).count = key.count /\ AgedCounter(key).ttl = Aged(key.ttl)
    BY <1>1, <2>1
  <2> QED
    BY <1>1, <2>2, <2>3 DEF LiveCounter
<1> QED
  BY <1>2, <1>3

\* Time ends a run of failures no later than Redis forgets it, and a block no
\* earlier than ErrorBlock after the last failure.
LEMMA TickStep == ASSUME GuardInv, Tick PROVE GuardInv'
<1> DEFINE newHour == minute' = 0
           newDay == newHour /\ hour' = 0
<1>1. /\ minute' = (minute + 1) % HourLength
      /\ hour' = IF minute' = 0 THEN (hour + 1) % DayHours ELSE hour
      /\ redis' = [block    |-> Aged(redis.block),
                   cooldown |-> [s \in Symbols |-> Aged(redis.cooldown[s])],
                   rejects  |-> [s \in Symbols |-> AgedCounter(redis.rejects[s])],
                   errors   |-> AgedCounter(redis.errors),
                   hour     |-> IF newHour THEN 0 ELSE redis.hour,
                   day      |-> IF newDay THEN 0 ELSE redis.day]
      /\ calls' = [hour |-> IF newHour THEN 0 ELSE calls.hour,
                   day  |-> IF newDay THEN 0 ELSE calls.day]
      /\ rejected' = [s \in Symbols |-> {ago + 1 : ago \in rejected[s]} \ {RejectWindow}]
      /\ failures' = IF failures.run = 0 \/ failures.ago + 1 = ErrorWindow
                     THEN NoFailure ELSE [failures EXCEPT !.ago = @ + 1]
      /\ UNCHANGED <<pc, who>>
  BY DEF Tick
<1>2. /\ redis \in Keys /\ ClockTypeOK /\ HistoryTypeOK /\ PlaceTypeOK
      /\ WithinBudget /\ BreakerHolds
  BY DEF GuardInv
<1>3. /\ redis.block \in Nat /\ redis.cooldown \in [Symbols -> Nat]
      /\ redis.rejects \in [Symbols -> LiveCounter(3)]
      /\ redis.errors \in LiveCounter(ErrorThreshold)
      /\ redis.hour \in 0 .. HourLimit /\ redis.day \in 0 .. DayLimit
  BY <1>2, KeysField
<1>4. ClockTypeOK' /\ PlaceTypeOK'
  <2>1. minute \in 0 .. HourLength - 1 /\ hour \in 0 .. DayHours - 1
    BY <1>2 DEF ClockTypeOK
  <2>2. minute' \in 0 .. HourLength - 1 /\ (hour + 1) % DayHours \in 0 .. DayHours - 1
    BY <1>1, <2>1, GuardBounds
  <2>3. hour' \in 0 .. DayHours - 1
    BY <1>1, <2>1, <2>2
  <2> QED
    BY <1>1, <1>2, <2>2, <2>3 DEF ClockTypeOK, PlaceTypeOK
<1> HIDE DEF newHour, newDay
<1>5. redis' \in Keys
  <2>1. Aged(redis.block) \in Nat
    BY <1>3, AgedTyped
  <2>2. [s \in Symbols |-> Aged(redis.cooldown[s])] \in [Symbols -> Nat]
    BY <1>3, AgedTyped
  <2>3. [s \in Symbols |-> AgedCounter(redis.rejects[s])] \in [Symbols -> LiveCounter(3)]
    <3>1. 3 \in Nat \ {0} /\ \A s \in Symbols : redis.rejects[s] \in LiveCounter(3)
      BY <1>3
    <3>2. \A s \in Symbols : AgedCounter(redis.rejects[s]) \in LiveCounter(3)
      BY <3>1, AgedCounterTyped
    <3> QED
      BY <3>2
  <2>4. AgedCounter(redis.errors) \in LiveCounter(ErrorThreshold)
    BY <1>3, AgedCounterTyped, GuardBounds
  <2>5. /\ (IF newHour THEN 0 ELSE redis.hour) \in 0 .. HourLimit
        /\ (IF newDay THEN 0 ELSE redis.day) \in 0 .. DayLimit
    BY <1>3, GuardBounds
  <2> QED
    BY <1>1, <2>1, <2>2, <2>3, <2>4, <2>5 DEF Keys
<1>6. /\ redis'.hour = (IF newHour THEN 0 ELSE redis.hour)
      /\ redis'.day = (IF newDay THEN 0 ELSE redis.day)
      /\ redis'.block = Aged(redis.block) /\ redis'.errors = AgedCounter(redis.errors)
      /\ calls'.hour = (IF newHour THEN 0 ELSE calls.hour)
      /\ calls'.day = (IF newDay THEN 0 ELSE calls.day)
  BY <1>1
<1>7. /\ calls \in [hour : Nat, day : Nat]
      /\ rejected \in [Symbols -> SUBSET (0 .. RejectWindow - 1)]
      /\ failures.run \in 0 .. ErrorThreshold /\ failures.ago \in 0 .. ErrorWindow - 1
      /\ failures = [run |-> failures.run, ago |-> failures.ago]
  BY <1>2 DEF HistoryTypeOK
<1>8. HistoryTypeOK'
  <2>1. calls' \in [hour : Nat, day : Nat]
    BY <1>1, <1>7
  <2>2. \A s \in Symbols :
          {ago + 1 : ago \in rejected[s]} \ {RejectWindow} \in SUBSET (0 .. RejectWindow - 1)
    BY <1>7, GuardBounds
  <2>3. rejected' \in [Symbols -> SUBSET (0 .. RejectWindow - 1)]
    BY <1>1, <2>2
  <2>4. failures' \in [run : 0 .. ErrorThreshold, ago : 0 .. ErrorWindow - 1]
    <3>1. NoFailure \in [run : 0 .. ErrorThreshold, ago : 0 .. ErrorWindow - 1]
      BY GuardBounds DEF NoFailure
    <3>2. ASSUME failures.ago + 1 # ErrorWindow
          PROVE  [failures EXCEPT !.ago = @ + 1]
                   \in [run : 0 .. ErrorThreshold, ago : 0 .. ErrorWindow - 1]
      <4>1. failures.ago + 1 \in 0 .. ErrorWindow - 1
        BY <1>7, <3>2, GuardBounds
      <4>2. [failures EXCEPT !.ago = @ + 1] = [run |-> failures.run, ago |-> failures.ago + 1]
        BY <1>7
      <4> QED
        BY <1>7, <4>1, <4>2
    <3> QED
      BY <1>1, <3>1, <3>2
  <2> QED
    BY <2>1, <2>3, <2>4 DEF HistoryTypeOK
<1>9. WithinBudget'
  <2>1. /\ calls.hour <= redis.hour /\ calls.day <= redis.day
        /\ pc = "clear" => redis.hour < HourLimit /\ redis.day < DayLimit
    BY <1>2 DEF WithinBudget
  <2>2. calls'.hour <= redis'.hour /\ calls'.day <= redis'.day
    BY <1>6, <2>1
  <2>3. pc' = "clear" => redis'.hour < HourLimit /\ redis'.day < DayLimit
    BY <1>1, <1>6, <2>1, GuardBounds
  <2> QED
    BY <2>2, <2>3 DEF WithinBudget
<1>10. BreakerHolds'
  <2>1. CASE failures.run = 0 \/ failures.ago + 1 = ErrorWindow
    <3>1. failures'.run = 0
      BY <1>1, <2>1 DEF NoFailure
    <3> QED
      BY <3>1, GuardBounds DEF BreakerHolds
  <2>2. CASE ~(failures.run = 0 \/ failures.ago + 1 = ErrorWindow)
    <3>1. failures'.run = failures.run /\ failures'.ago = failures.ago + 1
      BY <1>1, <1>7, <2>2
    <3>2. /\ failures.run > 0 /\ failures.ago + 1 < ErrorWindow
      BY <1>7, <2>2, GuardBounds
    <3>3. /\ failures.run <= redis.errors.count
          /\ redis.errors.ttl + failures.ago >= ErrorWindow
      BY <1>2, <3>2 DEF BreakerHolds
    <3>4. redis.errors.ttl \in Int /\ redis.errors.count \in Nat
      BY <1>3 DEF LiveCounter
    <3>5. redis.errors.ttl > 1
      BY <1>7, <3>2, <3>3, <3>4, GuardBounds
    <3>6. redis'.errors.count = redis.errors.count /\ redis'.errors.ttl = redis.errors.ttl - 1
      BY <1>3, <1>6, <3>5, AgedCounterTyped, GuardBounds
    <3>7. /\ failures'.run <= redis'.errors.count
          /\ redis'.errors.ttl + failures'.ago >= ErrorWindow
      BY <1>7, <3>1, <3>3, <3>4, <3>6, GuardBounds
    <3>8. ASSUME failures'.run = ErrorThreshold, failures'.ago < ErrorBlock
          PROVE  pc' = "idle" /\ redis'.block + failures'.ago >= ErrorBlock
      <4>1. failures.run = ErrorThreshold /\ failures.ago < ErrorBlock
        BY <1>7, <3>1, <3>8, GuardBounds
      <4>2. pc = "idle" /\ redis.block + failures.ago >= ErrorBlock
        BY <1>2, <4>1 DEF BreakerHolds
      <4>3. redis.block > 0
        BY <1>3, <1>7, <4>1, <4>2, GuardBounds
      <4>4. redis'.block = redis.block - 1
        BY <1>3, <1>6, <4>3, AgedTyped
      <4> QED
        BY <1>1, <1>3, <1>7, <3>1, <4>2, <4>4, GuardBounds
    <3> QED
      BY <3>7, <3>8 DEF BreakerHolds
  <2> QED
    BY <2>1, <2>2
<1> QED
  BY <1>4, <1>5, <1>8, <1>9, <1>10 DEF GuardInv

-----------------------------------------------------------------------------
(* The steps of the pipeline *)

\* A step that leaves the guard alone.
LEMMA GuardUnchanged == ASSUME GuardInv, UNCHANGED vars PROVE GuardInv'
BY DEF vars, GuardInv, ClockTypeOK, HistoryTypeOK, PlaceTypeOK, WithinBudget, BreakerHolds

\* The end of a run books it with the guard and forgets the analyst.
LEMMA ConcludeStep ==
  ASSUME GuardInv, NEW guardian,
         NEW verdict \in {"approve", "reject", "timeout", "error", "credit"},
         Conclude(verdict, guardian)
  PROVE  GuardInv' /\ OpinionInv' /\ pc' = "idle"
<1>1. (IF verdict = "approve" THEN Approve ELSE Refuse(verdict)) /\ analyst' = NoOpinion
  BY DEF Conclude
<1>2. CASE verdict = "approve"
  BY <1>1, <1>2, ApproveStep DEF OpinionInv, Approve
<1>3. CASE verdict # "approve"
  BY <1>1, <1>3, RefuseStep DEF OpinionInv, Refuse
<1> QED
  BY <1>2, <1>3

\* What is done beside the agents: no run is under way, or only time passes.
LEMMA BesideStep ==
  ASSUME GuardInv, OpinionInv, UNCHANGED analyst,
         PassGuard \/ MarkCall \/ FailMark \/ Tick
  PROVE  GuardInv' /\ OpinionInv'
<1>1. CASE PassGuard
  BY <1>1, PassStep DEF OpinionInv, PassGuard
<1>2. CASE MarkCall
  BY <1>2, MarkStep DEF OpinionInv, MarkCall
<1>3. CASE FailMark
  BY <1>3, FailMarkStep DEF OpinionInv, FailMark
<1>4. CASE Tick
  <2>1. pc' = pc /\ who' = who
    BY <1>4 DEF Tick
  <2> QED
    BY <1>4, <2>1, TickStep DEF OpinionInv, Answering, Route
<1> QED
  BY <1>1, <1>2, <1>3, <1>4

\* The analyst's word is a CONFIRM of at least 60, or the end of the run.
LEMMA AnalystStep == ASSUME GuardInv, OpinionInv, AnalystAnswers PROVE GuardInv' /\ OpinionInv'
<1>1. pc = "asking"
  BY DEF AnalystAnswers
<1>2. PICK decision \in {"CONFIRM", "REJECT"}, confidence \in Confidences :
        IF AnalystOpinion(decision, confidence).decision = "REJECT"
        THEN Conclude("reject", NoOpinion)
        ELSE /\ analyst' = AnalystOpinion(decision, confidence)
             /\ outcome' = NoOutcome /\ UNCHANGED vars
  BY DEF AnalystAnswers
<1>3. CASE AnalystOpinion(decision, confidence).decision = "REJECT"
  BY <1>2, <1>3, ConcludeStep
<1>4. CASE AnalystOpinion(decision, confidence).decision # "REJECT"
  <2>1. analyst' = AnalystOpinion(decision, confidence) /\ UNCHANGED vars
    BY <1>2, <1>4
  <2>2. confidence \in Int
    BY DecisionAssumption
  <2>3. analyst' = [decision |-> IF confidence < 60 THEN "REJECT" ELSE decision,
                    confidence |-> confidence, by |-> Answering(Route)]
    BY <2>1 DEF AnalystOpinion
  <2>4. ~(confidence < 60) /\ decision = "CONFIRM"
    BY <1>4, <2>1, <2>3
  <2>5. /\ analyst'.decision = "CONFIRM" /\ analyst'.confidence >= 60
        /\ analyst'.by = Answering(Route)
    BY <2>2, <2>3, <2>4
  <2>6. pc' = pc /\ Answering(Route)' = Answering(Route)
    BY <2>1 DEF vars, Answering, Route
  <2>7. OpinionInv'
    BY <1>1, <2>5, <2>6 DEF OpinionInv
  <2> QED
    BY <2>1, <2>7, GuardUnchanged
<1> QED
  BY <1>3, <1>4

LEMMA CrashStep == ASSUME GuardInv, Crash PROVE GuardInv' /\ OpinionInv'
<1>1. /\ pc = "asking" /\ pc' = "idle" /\ analyst' = NoOpinion
      /\ UNCHANGED <<redis, who, minute, hour, calls, rejected, failures>>
  BY DEF Crash
<1> QED
  BY <1>1 DEF GuardInv, ClockTypeOK, HistoryTypeOK, PlaceTypeOK, WithinBudget,
              BreakerHolds, OpinionInv

LEMMA InitIInv == DecisionInit => GuardInv /\ OpinionInv
BY InitGuardInv DEF DecisionInit, OpinionInv

LEMMA NextIInv ==
  GuardInv /\ OpinionInv /\ [DecisionNext]_<<vars, decisionVars>> => (GuardInv /\ OpinionInv)'
<1> SUFFICES ASSUME GuardInv, OpinionInv, [DecisionNext]_<<vars, decisionVars>>
             PROVE  GuardInv' /\ OpinionInv'
  OBVIOUS
<1>1. CASE Beside(PassGuard) \/ Beside(MarkCall) \/ Beside(FailMark) \/ Beside(Tick)
  BY <1>1, BesideStep DEF Beside
<1>2. CASE AnalystAnswers
  BY <1>2, AnalystStep
<1>3. CASE AnalystFails
  BY <1>3, ConcludeStep DEF AnalystFails, Failures
<1>4. CASE GuardianAnswers
  BY <1>4, ConcludeStep DEF GuardianAnswers, VerdictOf
<1>5. CASE GuardianFails
  BY <1>5, ConcludeStep DEF GuardianFails, Failures
<1>6. CASE TimeOut
  BY <1>6, ConcludeStep DEF TimeOut
<1>7. CASE Crash
  BY <1>7, CrashStep
<1>8. CASE UNCHANGED <<vars, decisionVars>>
  <2>1. UNCHANGED vars /\ analyst' = analyst
    BY <1>8 DEF decisionVars
  <2>2. pc' = pc /\ Answering(Route)' = Answering(Route)
    BY <2>1 DEF vars, Answering, Route
  <2> QED
    BY <2>1, <2>2, GuardUnchanged DEF OpinionInv
<1> QED
  BY <1>1, <1>2, <1>3, <1>4, <1>5, <1>6, <1>7, <1>8 DEF DecisionNext

-----------------------------------------------------------------------------
(* The theorems *)

\* Every state of the pipeline satisfies the invariant.
THEOREM DecisionInvariance == DecisionSpec => [](GuardInv /\ OpinionInv)
BY InitIInv, NextIInv, PTL DEF DecisionSpec

\* No clock hour and no day has more AI calls than its budget, although a call
\* is counted after the guard is read and either may be cut short.
THEOREM BudgetLimit == DecisionSpec => []BudgetHeld
<1>1. ASSUME GuardInv PROVE BudgetHeld
  <2>1. TypeOK
    BY <1>1, TypeParts DEF GuardInv
  <2>2. /\ redis.hour \in 0 .. HourLimit /\ redis.day \in 0 .. DayLimit
        /\ calls.hour \in Nat /\ calls.day \in Nat
    BY <1>1, KeysField DEF GuardInv, HistoryTypeOK
  <2>3. calls.hour <= redis.hour /\ calls.day <= redis.day
    BY <1>1 DEF GuardInv, WithinBudget
  <2>4. calls.hour <= HourLimit /\ calls.day <= DayLimit
    BY <2>2, <2>3, GuardBounds
  <2> QED
    BY <2>1, <2>4 DEF BudgetHeld
<1> QED
  BY <1>1, DecisionInvariance, PTL

\* After ErrorThreshold failures in a row no call passes the guard for
\* ErrorBlock, whatever else happens to the keys in the meantime.
THEOREM BreakerOpen == DecisionSpec => BreakerOpens
<1>1. ASSUME GuardInv, OpinionInv, [DecisionNext]_<<vars, decisionVars>>
      PROVE  [Passed => ~(failures.run = ErrorThreshold /\ failures.ago < ErrorBlock)]_vars
  <2> SUFFICES ASSUME Passed
               PROVE  ~(failures.run = ErrorThreshold /\ failures.ago < ErrorBlock)
    OBVIOUS
  <2>1. pc = "idle" /\ pc' = "clear"
    BY DEF Passed
  <2>2. PassGuard
    BY <1>1, <2>1
    DEF DecisionNext, Beside, MarkCall, FailMark, Tick, AnalystAnswers, AnalystFails,
        GuardianAnswers, GuardianFails, TimeOut, Crash, vars
  <2>3. /\ ~(redis.block > 0) /\ redis.block \in Nat
    BY <1>1, <2>2, KeysField DEF PassGuard, Blocked, GuardInv
  <2>4. failures.ago \in Nat
    BY <1>1 DEF GuardInv, HistoryTypeOK
  <2>5. BreakerHolds
    BY <1>1 DEF GuardInv
  <2> QED
    BY <2>3, <2>4, <2>5, GuardBounds DEF BreakerHolds
<1> QED
  BY <1>1, DecisionInvariance, PTL DEF DecisionSpec, BreakerOpens

\* What a concluded run leaves behind.
Recorded ==
  Concluded =>
    /\ outcome'.approved =>
         /\ analyst.decision = "CONFIRM" /\ analyst.confidence >= 60
         /\ outcome'.guardian.decision = "SAFE" /\ outcome'.guardian.by = analyst.by
         /\ \/ outcome'.row = [decision |-> "CONFIRM", by |-> analyst.by]
            \/ outcome'.lost \/ ModelUsedLength(Route) > ColumnWidth
    /\ outcome'.row # NoRow /\ ~outcome'.approved => outcome'.row.decision = "REJECT"

\* A run that is not approved leaves a REJECT or no row.
LEMMA RefusedRow ==
  ASSUME NEW verdict \in {"reject", "timeout", "error", "credit"}, NEW guardian,
         Conclude(verdict, guardian)
  PROVE  ~outcome'.approved /\ (outcome'.row # NoRow => outcome'.row.decision = "REJECT")
<1>1. verdict # "approve"
  OBVIOUS
<1>2. PICK failed \in BOOLEAN :
        outcome' = [approved |-> verdict = "approve", guardian |-> guardian,
                    row |-> RowOf(IF verdict = "approve" THEN "CONFIRM" ELSE "REJECT", failed),
                    lost |-> failed]
  BY DEF Conclude
<1>3. outcome'.approved = (verdict = "approve") /\ outcome'.row = RowOf("REJECT", failed)
  BY <1>1, <1>2
<1>4. ~outcome'.approved
  BY <1>1, <1>3
<1>5. \/ RowOf("REJECT", failed) = NoRow
      \/ RowOf("REJECT", failed) = [decision |-> "REJECT", by |-> Answering(Route)]
  BY DEF RowOf
<1>6. outcome'.row # NoRow => outcome'.row.decision = "REJECT"
  BY <1>3, <1>5
<1> QED
  BY <1>4, <1>6

\* An approval is the word of both agents, of one model, and is on record
\* unless the database failed or the model's name did not fit its column.
THEOREM Traceable == DecisionSpec => DecisionsAreTraceable
<1>1. ASSUME GuardInv, OpinionInv, [DecisionNext]_<<vars, decisionVars>>
      PROVE  [Recorded]_<<vars, decisionVars>>
  <2>1. ASSUME NEW verdict \in {"reject", "timeout", "error", "credit"}, NEW guardian,
               Conclude(verdict, guardian)
        PROVE  Recorded
    BY <2>1, RefusedRow DEF Recorded
  <2>2. CASE outcome' = NoOutcome
    BY <2>2 DEF Recorded, Concluded
  <2>3. CASE AnalystAnswers
    <3>1. \/ Conclude("reject", NoOpinion) \/ outcome' = NoOutcome
      BY <2>3 DEF AnalystAnswers
    <3> QED
      BY <2>1, <2>2, <3>1
  <2>4. CASE AnalystFails
    BY <2>1, <2>4 DEF AnalystFails, Failures
  <2>5. CASE GuardianFails
    BY <2>1, <2>5 DEF GuardianFails, Failures
  <2>6. CASE TimeOut
    BY <2>1, <2>6 DEF TimeOut
  <2>7. CASE GuardianAnswers
    <3>1. analyst # NoOpinion
      BY <2>7 DEF GuardianAnswers
    <3>2. PICK decision \in {"SAFE", "WARNING"} :
            Conclude(VerdictOf(decision),
                     [decision |-> decision, confidence |-> 0, by |-> Answering(Route)])
      BY <2>7 DEF GuardianAnswers
    <3>3. CASE decision = "WARNING"
      BY <2>1, <3>2, <3>3 DEF VerdictOf
    <3>4. CASE decision = "SAFE"
      <4>1. PICK failed \in BOOLEAN :
              outcome' = [approved |-> "approve" = "approve",
                          guardian |-> [decision |-> "SAFE", confidence |-> 0,
                                        by |-> Answering(Route)],
                          row |-> RowOf("CONFIRM", failed), lost |-> failed]
        BY <3>2, <3>4 DEF Conclude, VerdictOf
      <4>2. /\ analyst.decision = "CONFIRM" /\ analyst.confidence >= 60
            /\ analyst.by = Answering(Route)
        BY <1>1, <3>1 DEF OpinionInv
      <4>3. /\ outcome'.guardian.decision = "SAFE"
            /\ outcome'.guardian.by = Answering(Route)
            /\ outcome'.row = RowOf("CONFIRM", failed)
        BY <4>1
      <4>4. outcome'.lost = failed /\ outcome'.approved
        BY <4>1
      <4>5. \/ outcome'.row = [decision |-> "CONFIRM", by |-> Answering(Route)]
            \/ failed \/ ModelUsedLength(Route) > ColumnWidth
        BY <4>3 DEF RowOf
      <4> QED
        BY <4>2, <4>3, <4>4, <4>5 DEF Recorded
    <3> QED
      BY <3>3, <3>4
  <2> QED
    BY <1>1, <2>2, <2>3, <2>4, <2>5, <2>6, <2>7 DEF DecisionNext, Beside, Crash
<1> QED
  BY <1>1, DecisionInvariance, PTL DEF DecisionSpec, DecisionsAreTraceable, Recorded

-----------------------------------------------------------------------------
(* The invariant of the cooldowns *)

\* The cooldowns of config/strategy.py do: 5, 10 and 15 minutes.
CooldownsGrow == RejectCooldown[1] <= RejectCooldown[2] /\ RejectCooldown[2] <= RejectCooldown[3]

\* Redis knows of every refusal in the window, and waits from each of them.
CoolingInv ==
  \A s \in Symbols : \A ago \in rejected[s] :
    /\ AtMost(Cardinality(rejected[s]), 3) <= redis.rejects[s].count
    /\ redis.rejects[s].ttl + ago >= RejectWindow
    /\ redis.cooldown[s] + ago >= CooldownFor(Cardinality(rejected[s]))

-----------------------------------------------------------------------------
(* Sets of refusals *)

\* A set of natural numbers that is not empty has a least element.
LEMMA LeastAge ==
  ASSUME NEW S \in SUBSET Nat, S # {}
  PROVE  Min(S) \in S
<1> DEFINE R == OpToRel(<, Nat)
<1>1. IsWellFoundedOn(R, Nat)
  BY NatLessThanWellFounded
<1>2. \A x \in Nat, y \in Nat : <<x, y>> \in R <=> x < y
  BY DEF OpToRel
<1> HIDE DEF R
<1>3. PICK x \in S : \A y \in S : ~(<<y, x>> \in R)
  BY <1>1, WFMin
<1>4. \A y \in S : ~(y < x)
  BY <1>2, <1>3
<1>5. \A y \in S : x <= y
  BY <1>4
<1> QED
  BY <1>5 DEF Min

\* The ages of refusals in the window are finitely many.
LEMMA AgesFinite ==
  ASSUME NEW ages \in SUBSET (0 .. RejectWindow - 1)
  PROVE  IsFiniteSet(ages) /\ Cardinality(ages) \in Nat
<1>1. 0 \in Int /\ RejectWindow - 1 \in Int
  BY GuardBounds
<1>2. IsFiniteSet(0 .. RejectWindow - 1)
  BY <1>1, FS_Interval
<1>3. IsFiniteSet(ages)
  BY <1>2, FS_Subset
<1> QED
  BY <1>3, FS_CardinalityType

\* One more refusal is at most one more.
LEMMA OneMoreRefusal ==
  ASSUME NEW ages \in SUBSET (0 .. RejectWindow - 1)
  PROVE  /\ Cardinality(ages \cup {0}) \in Nat
         /\ Cardinality(ages \cup {0}) <= Cardinality(ages) + 1
         /\ Cardinality(ages \cup {0}) >= 1
<1>1. IsFiniteSet(ages) /\ Cardinality(ages) \in Nat
  BY AgesFinite
<1>2. /\ IsFiniteSet(ages \cup {0})
      /\ Cardinality(ages \cup {0}) = IF 0 \in ages THEN Cardinality(ages) ELSE Cardinality(ages) + 1
  BY <1>1, FS_AddElement
<1>3. Cardinality(ages \cup {0}) \in Nat /\ Cardinality(ages \cup {0}) # 0
  BY <1>2, FS_CardinalityType, FS_EmptySet
<1> QED
  BY <1>1, <1>2, <1>3

\* Time passes, and refusals leave the window.
LEMMA RefusalsAge ==
  ASSUME NEW ages \in SUBSET (0 .. RejectWindow - 1)
  PROVE  LET aged == {ago + 1 : ago \in ages} \ {RejectWindow} IN
         Cardinality(aged) \in Nat /\ Cardinality(aged) <= Cardinality(ages)
<1> DEFINE shifted == {ago + 1 : ago \in ages}
           aged == shifted \ {RejectWindow}
           f == [ago \in ages |-> ago + 1]
<1>1. IsFiniteSet(ages) /\ Cardinality(ages) \in Nat
  BY AgesFinite
<1>2. f \in Surjection(ages, shifted)
  BY DEF Surjection
<1>3. IsFiniteSet(shifted) /\ Cardinality(shifted) <= Cardinality(ages)
  BY <1>1, <1>2, FS_Surjection
<1>4. aged \in SUBSET shifted
  OBVIOUS
<1>5. IsFiniteSet(aged) /\ Cardinality(aged) <= Cardinality(shifted)
  BY <1>3, <1>4, FS_Subset
<1>6. Cardinality(aged) \in Nat /\ Cardinality(shifted) \in Nat
  BY <1>3, <1>5, FS_CardinalityType
<1> QED
  BY <1>1, <1>3, <1>5, <1>6

\* More refusals, a cooldown no shorter.
LEMMA CooldownGrows ==
  ASSUME CooldownsGrow, NEW a \in Nat \ {0}, NEW b \in Nat, AtMost(a, 3) <= b
  PROVE  /\ CooldownFor(a) \in Nat /\ CooldownFor(b) \in Nat
         /\ CooldownFor(a) <= CooldownFor(b)
<1>1. /\ RejectCooldown[1] \in Nat /\ RejectCooldown[2] \in Nat /\ RejectCooldown[3] \in Nat
  BY GuardAssumption
<1>2. AtMost(a, 3) \in {1, 2, 3} /\ AtMost(b, 3) \in {1, 2, 3} /\ AtMost(a, 3) <= AtMost(b, 3)
  BY DEF AtMost
<1>3. \/ AtMost(a, 3) = AtMost(b, 3)
      \/ AtMost(a, 3) = 1 /\ AtMost(b, 3) \in {2, 3}
      \/ AtMost(a, 3) = 2 /\ AtMost(b, 3) = 3
  BY <1>2
<1> QED
  BY <1>1, <1>2, <1>3 DEF CooldownFor, CooldownsGrow

-----------------------------------------------------------------------------
(* What the booking of a refusal does to the cooldowns *)

\* A handler that refuses counts first, then renews the window, then cools the
\* symbol down as long as the count says.
Refused ==
  {keys \in Keys :
     /\ \A s \in Symbols \ {who} : /\ keys.rejects[s] = redis.rejects[s]
                                   /\ keys.cooldown[s] = redis.cooldown[s]
     /\ keys.rejects[who].count >= redis.rejects[who].count
     /\ redis.rejects[who].count > 0 =>
          \/ keys.rejects[who].ttl = redis.rejects[who].ttl
          \/ keys.rejects[who].ttl = RejectWindow
     /\ \/ keys.cooldown[who] = redis.cooldown[who]
        \/ keys.cooldown[who] = CooldownFor(keys.rejects[who].count)}

\* All of it has been done.
RefusedToTheEnd(keys) ==
  /\ keys.rejects[who].count = AtMost(redis.rejects[who].count + 1, 3)
  /\ keys.rejects[who].ttl = RejectWindow
  /\ keys.cooldown[who] = CooldownFor(keys.rejects[who].count)

\* What follows leaves that alone.
SameCooling(keys) ==
  {later \in Keys : later.rejects = keys.rejects /\ later.cooldown = keys.cooldown}

LEMMA RefusalCools ==
  ASSUME redis \in Keys, who \in Symbols
  PROVE  /\ RefusalStages(who) \in Seq(Refused) /\ Len(RefusalStages(who)) = 3
         /\ Last(RefusalStages(who)) \in Refused
         /\ RefusedToTheEnd(Last(RefusalStages(who)))
<1> DEFINE counter == Incremented(redis.rejects[who], 3)
           renewed == [counter EXCEPT !.ttl = RejectWindow]
           counted == [redis EXCEPT !.rejects[who] = counter]
           dated == [counted EXCEPT !.rejects[who].ttl = RejectWindow]
           cooled == [dated EXCEPT !.cooldown[who] = CooldownFor(dated.rejects[who].count)]
<1>1. /\ redis.rejects \in [Symbols -> LiveCounter(3)] /\ redis.rejects[who] \in LiveCounter(3)
      /\ redis.cooldown \in [Symbols -> Nat] /\ 3 \in Nat \ {0}
  BY KeysField
<1>2. /\ counter \in LiveCounter(3) /\ counter.count \in 1 .. 3
      /\ counter.count = AtMost(redis.rejects[who].count + 1, 3)
      /\ counter.count >= redis.rejects[who].count
      /\ redis.rejects[who].count > 0 => counter.ttl = redis.rejects[who].ttl
  BY <1>1, IncrementedCounter
<1>3. renewed \in LiveCounter(3) /\ renewed.count = counter.count /\ renewed.ttl = RejectWindow
  BY <1>1, <1>2, GuardBounds, DatedCounter
<1>4. RefusalStages(who) = <<counted, dated, cooled>>
  BY DEF RefusalStages
<1> HIDE DEF counter
<1>5. /\ counted \in Keys /\ counted.cooldown = redis.cooldown
      /\ counted.rejects = [redis.rejects EXCEPT ![who] = counter]
  BY <1>1, <1>2 DEF Keys
<1>6. counted.rejects[who] = counter /\ counted.rejects \in [Symbols -> LiveCounter(3)]
  BY <1>1, <1>2, <1>5
<1> HIDE DEF counted
<1>7. dated = [counted EXCEPT !.rejects = [counted.rejects EXCEPT ![who] = renewed]]
  BY <1>6
<1> HIDE DEF renewed
<1>8. /\ dated \in Keys /\ dated.cooldown = redis.cooldown
      /\ dated.rejects = [counted.rejects EXCEPT ![who] = renewed]
  BY <1>3, <1>5, <1>6, <1>7 DEF Keys
<1>9. dated.rejects[who] = renewed /\ dated.rejects \in [Symbols -> LiveCounter(3)]
  BY <1>3, <1>6, <1>8
<1> HIDE DEF dated
<1>10. CooldownFor(dated.rejects[who].count) \in Nat
  BY <1>2, <1>3, <1>9, GuardAssumption DEF CooldownFor, AtMost
<1>11. /\ cooled \in Keys /\ cooled.rejects = dated.rejects
       /\ cooled.cooldown = [redis.cooldown EXCEPT ![who] = CooldownFor(dated.rejects[who].count)]
  BY <1>1, <1>8, <1>10 DEF Keys
<1>12. cooled.cooldown[who] = CooldownFor(dated.rejects[who].count)
  BY <1>1, <1>11
<1> HIDE DEF cooled
<1>13. \A s \in Symbols \ {who} :
         /\ counted.rejects[s] = redis.rejects[s] /\ counted.cooldown[s] = redis.cooldown[s]
         /\ dated.rejects[s] = redis.rejects[s] /\ dated.cooldown[s] = redis.cooldown[s]
         /\ cooled.rejects[s] = redis.rejects[s] /\ cooled.cooldown[s] = redis.cooldown[s]
  BY <1>1, <1>5, <1>6, <1>8, <1>11
<1>14. counted \in Refused
  BY <1>2, <1>5, <1>6, <1>13 DEF Refused
<1>15. dated \in Refused
  BY <1>2, <1>3, <1>8, <1>9, <1>13 DEF Refused
<1>16. cooled \in Refused /\ RefusedToTheEnd(cooled)
  BY <1>2, <1>3, <1>9, <1>11, <1>12, <1>13 DEF Refused, RefusedToTheEnd
<1>17. /\ <<counted, dated, cooled>> \in Seq(Refused) /\ Len(<<counted, dated, cooled>>) = 3
       /\ <<counted, dated, cooled>>[3] = cooled
  BY <1>14, <1>15, <1>16
<1> QED
  BY <1>4, <1>16, <1>17 DEF Last

\* The streak of errors is another matter.
LEMMA ErrorCools ==
  ASSUME NEW keys \in Keys
  PROVE  ErrorStages(keys) \in Seq(SameCooling(keys)) /\ ErrorStages(keys) # <<>>
<1> DEFINE counter == Incremented(keys.errors, ErrorThreshold)
           counted == [keys EXCEPT !.errors = counter]
           dated == [counted EXCEPT !.errors.ttl = ErrorWindow]
           blocked == [dated EXCEPT !.block = ErrorBlock]
           tail == IF dated.errors.count < ErrorThreshold THEN <<>> ELSE <<blocked>>
<1>1. counter \in LiveCounter(ErrorThreshold) /\ counter.count \in 1 .. ErrorThreshold
  BY KeysField, IncrementedCounter, GuardBounds
<1>2. [counter EXCEPT !.ttl = ErrorWindow] \in LiveCounter(ErrorThreshold)
  BY <1>1, GuardBounds, DatedCounter
<1>3. ErrorStages(keys) = <<counted, dated>> \o tail
  BY DEF ErrorStages
<1> HIDE DEF counter
<1>4. /\ counted \in Keys /\ counted.errors = counter
      /\ counted.rejects = keys.rejects /\ counted.cooldown = keys.cooldown
  BY <1>1 DEF Keys
<1> HIDE DEF counted
<1>5. dated = [counted EXCEPT !.errors = [counter EXCEPT !.ttl = ErrorWindow]]
  BY <1>4
<1>6. dated \in Keys /\ dated.rejects = keys.rejects /\ dated.cooldown = keys.cooldown
  BY <1>2, <1>4, <1>5 DEF Keys
<1> HIDE DEF dated
<1>7. blocked \in Keys /\ blocked.rejects = keys.rejects /\ blocked.cooldown = keys.cooldown
  BY <1>6, GuardBounds DEF Keys
<1> HIDE DEF blocked
<1>8. counted \in SameCooling(keys) /\ dated \in SameCooling(keys) /\ blocked \in SameCooling(keys)
  BY <1>4, <1>6, <1>7 DEF SameCooling
<1>9. <<counted, dated>> \in Seq(SameCooling(keys)) /\ Len(<<counted, dated>>) = 2
  BY <1>8
<1>10. tail \in Seq(SameCooling(keys))
  <2>1. <<>> \in Seq(SameCooling(keys)) /\ <<blocked>> \in Seq(SameCooling(keys))
    BY <1>8
  <2> QED
    BY <2>1
<1> HIDE DEF tail
<1>11. /\ ErrorStages(keys) \in Seq(SameCooling(keys))
       /\ Len(ErrorStages(keys)) = 2 + Len(tail) /\ Len(tail) \in Nat
  BY <1>3, <1>9, <1>10, ConcatProperties, LenProperties
<1> QED
  BY <1>11, EmptySeq

\* A refusal that is booked to the end cools down; one that is cut short takes
\* nothing back.
LEMMA DecisionCools ==
  ASSUME redis \in Keys, who \in Symbols,
         NEW verdict \in {"reject", "timeout", "error", "credit"}, NEW complete \in BOOLEAN,
         NEW keys \in Left(DecisionStages(verdict), complete)
  PROVE  keys \in Refused /\ (complete => RefusedToTheEnd(keys))
<1> DEFINE refusal == RefusalStages(who)
           last == Last(refusal)
           stages == DecisionStages(verdict)
           rest == CASE verdict = "credit" -> <<[last EXCEPT !.block = CreditBlock]>>
                     [] verdict = "error"  -> ErrorStages(last)
                     [] OTHER              -> <<[last EXCEPT !.errors = NoCounter]>>
<1>1. /\ refusal \in Seq(Refused) /\ Len(refusal) = 3
      /\ last \in Refused /\ RefusedToTheEnd(last)
  BY RefusalCools
<1>2. last \in Keys /\ redis \in Refused
  <2>1. redis.rejects[who] \in LiveCounter(3)
    BY KeysField
  <2> QED
    BY <1>1, <2>1 DEF Refused, LiveCounter
<1>3. stages = refusal \o rest
  BY DEF DecisionStages
<1>4. keys \in Left(stages, complete)
  OBVIOUS
<1> HIDE DEF refusal, last, stages
<1>5. rest \in Seq(SameCooling(last)) /\ rest # <<>>
  <2>1. [last EXCEPT !.block = CreditBlock] \in SameCooling(last)
    BY <1>2, GuardBounds DEF SameCooling, Keys
  <2>2. [last EXCEPT !.errors = NoCounter] \in SameCooling(last)
    BY <1>2, NoCounterLive, GuardBounds DEF SameCooling, Keys
  <2>3. CASE verdict = "credit"
    BY <2>1, <2>3
  <2>4. CASE verdict = "error"
    BY <1>2, <2>4, ErrorCools
  <2>5. CASE verdict \in {"reject", "timeout"}
    BY <2>2, <2>5
  <2> QED
    BY <2>3, <2>4, <2>5
<1>6. \A later \in SameCooling(last) : later \in Refused /\ RefusedToTheEnd(later)
  BY <1>1 DEF SameCooling, Refused, RefusedToTheEnd
<1>7. SameCooling(last) \subseteq Refused
  BY <1>6
<1>8. rest \in Seq(Refused)
  BY <1>5, <1>7, SeqMonotonic
<1> HIDE DEF rest
<1>9. /\ stages \in Seq(Refused) /\ Len(stages) = Len(refusal) + Len(rest)
      /\ \A i \in 1 .. Len(refusal) + Len(rest) :
           stages[i] = IF i <= Len(refusal) THEN refusal[i] ELSE rest[i - Len(refusal)]
  BY <1>1, <1>3, <1>8, ConcatProperties
<1>10. Len(rest) \in Nat \ {0}
  BY <1>5, EmptySeq
<1>11. stages[Len(stages)] = rest[Len(rest)] /\ Len(stages) # 0
  BY <1>1, <1>9, <1>10
<1>12. stages # <<>> /\ stages[Len(stages)] \in SameCooling(last)
  BY <1>5, <1>10, <1>11, EmptySeq, ElementOfSeq
<1>13. keys \in Refused /\ (complete => keys = stages[Len(stages)])
  BY <1>2, <1>4, <1>9, <1>12, LeftIn
<1> QED
  BY <1>6, <1>12, <1>13

\* An approval takes refusals of its symbol back, and those of no other.
LEMMA ApprovalCools ==
  ASSUME redis \in Keys, who \in Symbols, NEW complete \in BOOLEAN,
         NEW keys \in Left(ApprovalStages, complete)
  PROVE  \A s \in Symbols \ {who} :
           keys.rejects[s] = redis.rejects[s] /\ keys.cooldown[s] = redis.cooldown[s]
<1> DEFINE Others == {later \in Keys : \A s \in Symbols \ {who} :
                        /\ later.rejects[s] = redis.rejects[s]
                        /\ later.cooldown[s] = redis.cooldown[s]}
           forgiven == [redis EXCEPT !.rejects[who] = NoCounter]
           cleared == [forgiven EXCEPT !.errors = NoCounter]
<1>1. NoCounter \in LiveCounter(3) /\ NoCounter \in LiveCounter(ErrorThreshold)
  BY NoCounterLive, GuardBounds
<1>2. redis.rejects \in [Symbols -> LiveCounter(3)]
  BY KeysField
<1>3. /\ forgiven \in Keys /\ forgiven.rejects = [redis.rejects EXCEPT ![who] = NoCounter]
      /\ forgiven.cooldown = redis.cooldown
  BY <1>1, <1>2 DEF Keys
<1>4. ApprovalStages = <<forgiven, cleared>>
  BY DEF ApprovalStages
<1> HIDE DEF forgiven
<1>5. /\ cleared \in Keys /\ cleared.rejects = forgiven.rejects
      /\ cleared.cooldown = forgiven.cooldown
  BY <1>1, <1>3 DEF Keys
<1> HIDE DEF cleared
<1>6. forgiven \in Others /\ cleared \in Others /\ redis \in Others
  BY <1>2, <1>3, <1>5
<1> HIDE DEF Others
<1>7. <<forgiven, cleared>> \in Seq(Others) /\ <<forgiven, cleared>> # <<>>
  BY <1>6
<1>8. keys \in Others
  BY <1>4, <1>6, <1>7, LeftIn
<1> QED
  BY <1>8 DEF Others

-----------------------------------------------------------------------------
(* The steps of a cooldown *)

\* The facts about one symbol that CoolingInv states.
Cooling(s) ==
  \A ago \in rejected[s] :
    /\ AtMost(Cardinality(rejected[s]), 3) <= redis.rejects[s].count
    /\ redis.rejects[s].ttl + ago >= RejectWindow
    /\ redis.cooldown[s] + ago >= CooldownFor(Cardinality(rejected[s]))

LEMMA CoolingParts == CoolingInv <=> \A s \in Symbols : Cooling(s)
BY DEF CoolingInv, Cooling

\* What a step leaves alone stays true.
LEMMA CoolingKept ==
  ASSUME NEW s \in Symbols, Cooling(s), rejected'[s] = rejected[s],
         redis'.rejects[s] = redis.rejects[s], redis'.cooldown[s] = redis.cooldown[s]
  PROVE  Cooling(s)'
BY DEF Cooling

LEMMA ApproveCools == ASSUME GuardInv, CoolingInv, Approve PROVE CoolingInv'
<1>1. /\ \E complete \in BOOLEAN : redis' \in Left(ApprovalStages, complete)
      /\ rejected' = [rejected EXCEPT ![who] = {}]
  BY DEF Approve
<1>2. redis \in Keys /\ who \in Symbols /\ rejected \in [Symbols -> SUBSET (0 .. RejectWindow - 1)]
  BY DEF GuardInv, PlaceTypeOK, HistoryTypeOK
<1>3. \A s \in Symbols \ {who} :
        redis'.rejects[s] = redis.rejects[s] /\ redis'.cooldown[s] = redis.cooldown[s]
  BY <1>1, <1>2, ApprovalCools
<1>4. rejected'[who] = {} /\ \A s \in Symbols \ {who} : rejected'[s] = rejected[s]
  BY <1>1, <1>2
<1>5. ASSUME NEW s \in Symbols PROVE Cooling(s)'
  <2>1. CASE s = who
    <3>1. \A ago \in rejected'[s] : FALSE
      BY <1>4, <2>1
    <3> QED
      BY <3>1 DEF Cooling
  <2>2. CASE s # who
    BY <1>3, <1>4, <2>2, CoolingParts, CoolingKept
  <2> QED
    BY <2>1, <2>2
<1> QED
  BY <1>5 DEF Cooling, CoolingInv

\* A refusal adds at most one to the set, and one to the counter unless it is
\* at three; a cooldown that replaces another counts from now.
LEMMA RefuseCools ==
  ASSUME CooldownsGrow, GuardInv, CoolingInv,
         NEW verdict \in {"reject", "timeout", "error", "credit"}, Refuse(verdict)
  PROVE  CoolingInv'
<1>1. PICK complete \in BOOLEAN :
        /\ redis' \in Left(DecisionStages(verdict), complete)
        /\ rejected' = IF complete THEN [rejected EXCEPT ![who] = @ \cup {0}] ELSE rejected
  BY DEF Refuse
<1>2. redis \in Keys /\ who \in Symbols /\ rejected \in [Symbols -> SUBSET (0 .. RejectWindow - 1)]
  BY DEF GuardInv, PlaceTypeOK, HistoryTypeOK
<1>3. redis' \in Refused /\ (complete => RefusedToTheEnd(redis'))
  BY <1>1, <1>2, DecisionCools
<1>4. ASSUME NEW s \in Symbols \ {who} PROVE Cooling(s)'
  BY <1>1, <1>2, <1>3, CoolingParts, CoolingKept DEF Refused
<1> DEFINE ages == rejected[who]
           old == redis.rejects[who]
           new == redis'.rejects[who]
<1>5. redis' \in Keys
  BY <1>3 DEF Refused
<1>6. ages \in SUBSET (0 .. RejectWindow - 1) /\ ages \subseteq Nat
  BY <1>2, GuardBounds
<1>7. /\ old.count \in 0 .. 3 /\ old.ttl \in Int /\ new.count \in 0 .. 3
      /\ redis.cooldown[who] \in Nat /\ redis'.cooldown[who] \in Nat
  BY <1>2, <1>5, KeysField DEF LiveCounter
<1>8. Cardinality(ages) \in Nat
  BY <1>6, AgesFinite
<1>9. Cooling(who)
  BY <1>2, CoolingParts
<1>10. CASE complete
  <2>1. rejected'[who] = ages \cup {0}
    BY <1>1, <1>2, <1>10
  <2>2. /\ Cardinality(ages \cup {0}) \in Nat \ {0}
        /\ Cardinality(ages \cup {0}) <= Cardinality(ages) + 1
    BY <1>6, OneMoreRefusal
  <2>3. /\ new.count = AtMost(old.count + 1, 3) /\ new.ttl = RejectWindow
        /\ redis'.cooldown[who] = CooldownFor(new.count)
    BY <1>3, <1>10 DEF RefusedToTheEnd
  <2>4. AtMost(Cardinality(ages), 3) <= old.count
    <3>1. CASE ages = {}
      <4>1. Cardinality(ages) = 0
        BY <3>1, FS_EmptySet
      <4> QED
        BY <1>7, <4>1 DEF AtMost
    <3>2. CASE ages # {}
      BY <1>9, <3>2 DEF Cooling
    <3> QED
      BY <3>1, <3>2
  <2>5. AtMost(Cardinality(ages \cup {0}), 3) <= new.count
    BY <1>7, <1>8, <2>2, <2>3, <2>4 DEF AtMost
  <2>6. /\ CooldownFor(Cardinality(ages \cup {0})) \in Nat
        /\ CooldownFor(Cardinality(ages \cup {0})) <= redis'.cooldown[who]
    BY <1>7, <2>2, <2>3, <2>5, CooldownGrows
  <2>7. \A ago \in ages \cup {0} :
          /\ AtMost(Cardinality(ages \cup {0}), 3) <= redis'.rejects[who].count
          /\ redis'.rejects[who].ttl + ago >= RejectWindow
          /\ redis'.cooldown[who] + ago >= CooldownFor(Cardinality(ages \cup {0}))
    BY <1>6, <1>7, <2>3, <2>5, <2>6, GuardBounds
  <2>8. ASSUME NEW s \in Symbols, s = who PROVE Cooling(s)'
    BY <2>1, <2>7, <2>8 DEF Cooling
  <2> QED
    BY <1>4, <2>8 DEF Cooling, CoolingInv
<1>11. CASE ~complete
  <2>1. rejected' = rejected
    BY <1>1, <1>11
  <2>2. /\ new.count >= old.count
        /\ old.count > 0 => new.ttl = old.ttl \/ new.ttl = RejectWindow
        /\ redis'.cooldown[who] = redis.cooldown[who] \/ redis'.cooldown[who] = CooldownFor(new.count)
    BY <1>3 DEF Refused
  <2>3. ASSUME NEW ago \in ages
        PROVE  /\ AtMost(Cardinality(ages), 3) <= new.count
               /\ new.ttl + ago >= RejectWindow
               /\ redis'.cooldown[who] + ago >= CooldownFor(Cardinality(ages))
    <3>1. /\ AtMost(Cardinality(ages), 3) <= old.count
          /\ old.ttl + ago >= RejectWindow
          /\ redis.cooldown[who] + ago >= CooldownFor(Cardinality(ages))
      BY <1>9 DEF Cooling
    <3>2. Cardinality(ages) \in Nat \ {0} /\ ago \in Nat
      <4>1. IsFiniteSet(ages) /\ ages # {}
        BY <1>6, <2>3, AgesFinite
      <4>2. Cardinality(ages) # 0
        BY <4>1, FS_EmptySet
      <4> QED
        BY <1>6, <1>8, <4>2
    <3>3. old.count > 0 /\ AtMost(Cardinality(ages), 3) <= new.count
      BY <1>7, <2>2, <3>1, <3>2 DEF AtMost
    <3>4. new.ttl + ago >= RejectWindow
      BY <2>2, <3>1, <3>2, <3>3, GuardBounds
    <3>5. /\ CooldownFor(Cardinality(ages)) \in Nat /\ CooldownFor(new.count) \in Nat
          /\ CooldownFor(Cardinality(ages)) <= CooldownFor(new.count)
      BY <1>7, <3>2, <3>3, CooldownGrows
    <3>6. redis'.cooldown[who] + ago >= CooldownFor(Cardinality(ages))
      BY <2>2, <3>1, <3>2, <3>5
    <3> QED
      BY <3>3, <3>4, <3>6
  <2>4. ASSUME NEW s \in Symbols, s = who PROVE Cooling(s)'
    BY <2>1, <2>3, <2>4 DEF Cooling
  <2> QED
    BY <1>4, <2>4 DEF Cooling, CoolingInv
<1> QED
  BY <1>10, <1>11

\* A refusal leaves the window no later than its counter, and grows as old as
\* its cooldown gets shorter.
LEMMA TickCools ==
  ASSUME CooldownsGrow, GuardInv, CoolingInv, Tick
  PROVE  CoolingInv'
<1>1. redis \in Keys /\ rejected \in [Symbols -> SUBSET (0 .. RejectWindow - 1)]
  BY DEF GuardInv, HistoryTypeOK
<1>2. /\ redis'.cooldown = [s \in Symbols |-> Aged(redis.cooldown[s])]
      /\ redis'.rejects = [s \in Symbols |-> AgedCounter(redis.rejects[s])]
      /\ rejected' = [s \in Symbols |-> {ago + 1 : ago \in rejected[s]} \ {RejectWindow}]
  BY DEF Tick
<1>3. ASSUME NEW s \in Symbols PROVE Cooling(s)'
  <2> DEFINE ages == rejected[s]
             aged == {ago + 1 : ago \in ages} \ {RejectWindow}
             old == redis.rejects[s]
  <2>1. /\ rejected'[s] = aged /\ redis'.rejects[s] = AgedCounter(old)
        /\ redis'.cooldown[s] = Aged(redis.cooldown[s])
    BY <1>2
  <2>2. /\ ages \in SUBSET (0 .. RejectWindow - 1) /\ old \in LiveCounter(3)
        /\ redis.cooldown[s] \in Nat /\ 3 \in Nat \ {0}
    BY <1>1, KeysField
  <2>3. /\ Cardinality(aged) \in Nat /\ Cardinality(ages) \in Nat
        /\ Cardinality(aged) <= Cardinality(ages)
    BY <2>2, RefusalsAge, AgesFinite
  <2>4. ASSUME NEW ago \in ages, ago + 1 # RejectWindow, Cardinality(aged) # 0
        PROVE  /\ AtMost(Cardinality(aged), 3) <= AgedCounter(old).count
               /\ AgedCounter(old).ttl + (ago + 1) >= RejectWindow
               /\ Aged(redis.cooldown[s]) + (ago + 1) >= CooldownFor(Cardinality(aged))
    <3>1. /\ AtMost(Cardinality(ages), 3) <= old.count
          /\ old.ttl + ago >= RejectWindow
          /\ redis.cooldown[s] + ago >= CooldownFor(Cardinality(ages))
      BY CoolingParts DEF Cooling
    <3>2. ago \in Nat /\ ago + 1 < RejectWindow /\ old.ttl \in Int /\ old.count \in 0 .. 3
      BY <2>2, <2>4, GuardBounds DEF LiveCounter
    <3>3. old.ttl > 1
      BY <3>1, <3>2, GuardBounds
    <3>4. AgedCounter(old).count = old.count /\ AgedCounter(old).ttl = old.ttl - 1
      BY <2>2, <3>3, AgedCounterTyped
    <3>5. AtMost(Cardinality(aged), 3) <= AtMost(Cardinality(ages), 3)
      BY <2>3 DEF AtMost
    <3>6. AtMost(Cardinality(aged), 3) <= old.count
      BY <2>3, <3>1, <3>2, <3>5 DEF AtMost
    <3>7. /\ CooldownFor(Cardinality(aged)) \in Nat /\ CooldownFor(Cardinality(ages)) \in Nat
          /\ CooldownFor(Cardinality(aged)) <= CooldownFor(Cardinality(ages))
      <4>1. Cardinality(aged) \in Nat \ {0} /\ AtMost(Cardinality(aged), 3) <= Cardinality(ages)
        BY <2>3, <2>4 DEF AtMost
      <4> QED
        BY <2>3, <4>1, CooldownGrows
    <3>8. /\ Aged(redis.cooldown[s]) \in Nat
          /\ Aged(redis.cooldown[s]) + 1 >= redis.cooldown[s]
      BY <2>2, AgedTyped DEF Aged
    <3>9. Aged(redis.cooldown[s]) + (ago + 1) >= CooldownFor(Cardinality(aged))
      BY <2>2, <3>1, <3>2, <3>7, <3>8
    <3>10. AgedCounter(old).ttl + (ago + 1) >= RejectWindow
      BY <3>1, <3>2, <3>4, GuardBounds
    <3> QED
      BY <3>4, <3>6, <3>9, <3>10
  <2>5. ASSUME NEW older \in aged
        PROVE  /\ AtMost(Cardinality(aged), 3) <= AgedCounter(old).count
               /\ AgedCounter(old).ttl + older >= RejectWindow
               /\ Aged(redis.cooldown[s]) + older >= CooldownFor(Cardinality(aged))
    <3>1. PICK ago \in ages : older = ago + 1 /\ older # RejectWindow
      OBVIOUS
    <3>2. Cardinality(aged) # 0
      <4>1. aged \in SUBSET (0 .. RejectWindow - 1) /\ aged # {}
        BY <2>2, <2>5, GuardBounds
      <4>2. IsFiniteSet(aged)
        BY <4>1, AgesFinite
      <4> QED
        BY <4>1, <4>2, FS_EmptySet
    <3> QED
      BY <2>4, <3>1, <3>2
  <2> HIDE DEF aged
  <2> QED
    BY <2>1, <2>5 DEF Cooling
<1> QED
  BY <1>3 DEF Cooling, CoolingInv

\* The end of a run.
LEMMA ConcludeCools ==
  ASSUME CooldownsGrow, GuardInv, CoolingInv, NEW guardian,
         NEW verdict \in {"approve", "reject", "timeout", "error", "credit"},
         Conclude(verdict, guardian)
  PROVE  CoolingInv'
<1>1. IF verdict = "approve" THEN Approve ELSE Refuse(verdict)
  BY DEF Conclude
<1>2. CASE verdict = "approve"
  BY <1>1, <1>2, ApproveCools
<1>3. CASE verdict # "approve"
  BY <1>1, <1>3, RefuseCools
<1> QED
  BY <1>2, <1>3

\* A step that touches neither the refusals nor the cooldowns.
LEMMA CoolingUnchanged ==
  ASSUME CoolingInv, rejected' = rejected,
         redis'.rejects = redis.rejects, redis'.cooldown = redis.cooldown
  PROVE  CoolingInv'
BY DEF CoolingInv

\* The usage counters are not part of it.
LEMMA CountingCools == ASSUME GuardInv, CoolingInv, MarkCall \/ FailMark PROVE CoolingInv'
<1>1. /\ rejected' = rejected
      /\ redis' \in {redis, [redis EXCEPT !.hour = Counted(redis).hour], Counted(redis)}
  BY DEF MarkCall, FailMark
<1>2. redis \in Keys
  BY DEF GuardInv
<1>3. /\ Counted(redis).rejects = redis.rejects
      /\ Counted(redis).cooldown = redis.cooldown
      /\ [redis EXCEPT !.hour = Counted(redis).hour].rejects = redis.rejects
      /\ [redis EXCEPT !.hour = Counted(redis).hour].cooldown = redis.cooldown
  BY <1>2 DEF Counted, Keys
<1>4. redis'.rejects = redis.rejects /\ redis'.cooldown = redis.cooldown
  BY <1>1, <1>3
<1> QED
  BY <1>1, <1>4, CoolingUnchanged

LEMMA NextCooling ==
  ASSUME CooldownsGrow, GuardInv, CoolingInv, [DecisionNext]_<<vars, decisionVars>>
  PROVE  CoolingInv'
<1>1. CASE Beside(PassGuard) \/ Crash \/ UNCHANGED <<vars, decisionVars>>
  BY <1>1, CoolingUnchanged DEF Beside, PassGuard, Crash, vars
<1>2. CASE Beside(MarkCall) \/ Beside(FailMark)
  BY <1>2, CountingCools DEF Beside
<1>3. CASE Beside(Tick)
  BY <1>3, TickCools DEF Beside
<1>4. CASE AnalystAnswers
  <2>1. Conclude("reject", NoOpinion) \/ UNCHANGED vars
    BY <1>4 DEF AnalystAnswers
  <2> QED
    BY <2>1, ConcludeCools, CoolingUnchanged DEF vars
<1>5. CASE AnalystFails
  BY <1>5, ConcludeCools DEF AnalystFails, Failures
<1>6. CASE GuardianAnswers
  BY <1>6, ConcludeCools DEF GuardianAnswers, VerdictOf
<1>7. CASE GuardianFails
  BY <1>7, ConcludeCools DEF GuardianFails, Failures
<1>8. CASE TimeOut
  BY <1>8, ConcludeCools DEF TimeOut
<1> QED
  BY <1>1, <1>2, <1>3, <1>4, <1>5, <1>6, <1>7, <1>8 DEF DecisionNext

-----------------------------------------------------------------------------
(* Refusals cool down *)

\* Refused n times within the window, a symbol waits at least as long as the
\* n-th cooldown after the last refusal, if cooldowns do not get shorter.
THEOREM RefusalCooldown == ASSUME CooldownsGrow PROVE DecisionSpec => RefusalsCoolDown
<1>1. DecisionInit => CoolingInv
  BY DEF DecisionInit, Init, CoolingInv
<1>2. (GuardInv /\ OpinionInv /\ CoolingInv /\ [DecisionNext]_<<vars, decisionVars>>)
        => CoolingInv'
  <2> SUFFICES ASSUME GuardInv, CoolingInv, [DecisionNext]_<<vars, decisionVars>>
               PROVE  CoolingInv'
    OBVIOUS
  <2> QED
    BY NextCooling
<1>3. ASSUME GuardInv, CoolingInv, [DecisionNext]_<<vars, decisionVars>>
      PROVE  [Passed /\ rejected[who'] # {} =>
                Min(rejected[who']) >= CooldownFor(Cardinality(rejected[who']))]_vars
  <2> SUFFICES ASSUME Passed, rejected[who'] # {}
               PROVE  Min(rejected[who']) >= CooldownFor(Cardinality(rejected[who']))
    OBVIOUS
  <2>1. pc = "idle" /\ pc' = "clear"
    BY DEF Passed
  <2>2. PassGuard
    BY <1>3, <2>1
    DEF DecisionNext, Beside, MarkCall, FailMark, Tick, AnalystAnswers, AnalystFails,
        GuardianAnswers, GuardianFails, TimeOut, Crash, vars
  <2>3. who' \in Symbols /\ ~(redis.cooldown[who'] > 0)
    BY <2>2 DEF PassGuard, Blocked
  <2>4. redis.cooldown[who'] \in Nat
    BY <1>3, <2>3, KeysField DEF GuardInv
  <2>5. rejected[who'] \in SUBSET (0 .. RejectWindow - 1)
    BY <1>3, <2>3 DEF GuardInv, HistoryTypeOK
  <2>6. rejected[who'] \in SUBSET Nat
    BY <2>5
  <2>7. Min(rejected[who']) \in rejected[who']
    BY <2>6, LeastAge
  <2>8. /\ redis.cooldown[who'] = 0 /\ Min(rejected[who']) \in Nat
        /\ redis.cooldown[who'] + Min(rejected[who'])
             >= CooldownFor(Cardinality(rejected[who']))
    BY <1>3, <2>3, <2>4, <2>6, <2>7 DEF CoolingInv
  <2> QED
    BY <2>8
<1> QED
  BY <1>1, <1>2, <1>3, DecisionInvariance, PTL DEF DecisionSpec, RefusalsCoolDown

-----------------------------------------------------------------------------
(* The canary *)

\* Two names are told apart: the canary runs another model than the primary
\* one, as the defaults of agents/factory.py do, and no model is called "none",
\* which stands for an agent that was not asked.
CanaryNamed == Setting.canaryModel \notin {Setting.primaryModel, "none"}

\* Whatever is configured, the share is at most 20 percent.
LEMMA PercentClamped ==
  ASSUME NEW percent \in Int
  PROVE  CanaryPercent(percent) \in 0 .. 20
<1>1. 20 \in Nat
  OBVIOUS
<1>2. Max({0, Min({20, percent})}) \in 0 .. 20
  BY ONLY percent \in Int, <1>1, Clamped
<1> QED
  BY <1>2 DEF CanaryPercent

\* A provider without a key gives way to the other one, if that has its key.
LEMMA ResolvedKeyed ==
  ASSUME NEW provider \in Providers, NEW keys \in SUBSET Providers, keys # {}
  PROVE  Resolved(provider, keys) \in keys
<1>1. CASE provider \in keys
  BY <1>1 DEF Resolved
<1>2. CASE provider \notin keys
  <2>1. PICK other \in Providers : other # provider
    BY DEF Providers
  <2>2. \A third \in Providers : third # provider => third = other
    BY <2>1 DEF Providers
  <2>3. other \in keys
    BY <1>2, <2>2
  <2>4. (CHOOSE third \in Providers : third # provider) = other
    BY <2>1, <2>2
  <2>5. Providers \ {provider} \subseteq keys
    BY <2>2, <2>3
  <2> QED
    BY <1>2, <2>3, <2>4, <2>5 DEF Resolved
<1> QED
  BY <1>1, <1>2

\* The three ways a signal is routed.
LEMMA Routed ==
  ASSUME NEW setting \in Environment, NEW bucket \in Int
  PROVE  LET route == RouteOf(setting, bucket) IN
         /\ route.label = "canary"
              => /\ bucket < 20
                 /\ route.provider = setting.canaryProvider
                 /\ setting.canaryProvider \in setting.keys
         /\ route.label # "canary"
              => /\ route.provider = Resolved(setting.primary, setting.keys)
                 /\ route.model = setting.primaryModel
<1>1. setting.percent \in Int
  BY DEF Environment
<1>2. CanaryPercent(setting.percent) \in 0 .. 20
  BY <1>1, PercentClamped
<1> DEFINE primary == [provider |-> Resolved(setting.primary, setting.keys),
                       model |-> setting.primaryModel, label |-> "primary"]
           fallback == [primary EXCEPT !.label = "primary-fallback"]
           canary == [provider |-> setting.canaryProvider, model |-> setting.canaryModel,
                      label |-> "canary"]
<1>3. \/ RouteOf(setting, bucket) = primary
      \/ RouteOf(setting, bucket) = fallback
      \/ /\ RouteOf(setting, bucket) = canary
         /\ ~(bucket >= CanaryPercent(setting.percent))
         /\ setting.canaryProvider \in setting.keys
  BY DEF RouteOf
<1>4. /\ fallback.label = "primary-fallback" /\ fallback.provider = primary.provider
      /\ fallback.model = primary.model
  OBVIOUS
<1>5. ~(bucket >= CanaryPercent(setting.percent)) => bucket < 20
  BY <1>2
<1> HIDE DEF fallback
<1> QED
  BY <1>3, <1>4, <1>5

\* The shares hold for every configuration that SharesHold names.
LEMMA Shares == SharesHold
<1> SUFFICES ASSUME NEW keys \in SUBSET Providers,
                    NEW percent \in {-1, 0, 1, 10, 19, 20, 21, 100},
                    NEW canaryProvider \in Providers
             PROVE  LET setting == [Setting EXCEPT !.keys = keys, !.canary = TRUE,
                                      !.percent = percent, !.canaryProvider = canaryProvider]
                        canary  == {b \in 0 .. 99 : RouteOf(setting, b).label = "canary"}
                    IN  /\ Cardinality(canary) <= 20
                        /\ \A b \in canary : RouteOf(setting, b).provider = canaryProvider
                        /\ keys # {} => \A b \in 0 .. 99 : RouteOf(setting, b).provider \in keys
  BY DEF SharesHold
<1> DEFINE setting == [Setting EXCEPT !.keys = keys, !.canary = TRUE, !.percent = percent,
                                      !.canaryProvider = canaryProvider]
           canary == {b \in 0 .. 99 : RouteOf(setting, b).label = "canary"}
<1>1. /\ setting \in Environment /\ setting.keys = keys
      /\ setting.canaryProvider = canaryProvider /\ setting.primary \in Providers
  <2>1. Setting \in Environment /\ percent \in Int
    BY DecisionAssumption
  <2> QED
    BY <2>1 DEF Environment
<1> HIDE DEF setting
<1>2. \A b \in 0 .. 99 :
        /\ b \in canary => b \in 0 .. 19 /\ RouteOf(setting, b).provider = canaryProvider
        /\ b \in canary => canaryProvider \in keys
        /\ b \notin canary => RouteOf(setting, b).provider = Resolved(setting.primary, keys)
  <2> SUFFICES ASSUME NEW b \in 0 .. 99
               PROVE  /\ b \in canary => b \in 0 .. 19 /\ RouteOf(setting, b).provider = canaryProvider
                      /\ b \in canary => canaryProvider \in keys
                      /\ b \notin canary
                           => RouteOf(setting, b).provider = Resolved(setting.primary, keys)
    OBVIOUS
  <2>1. b \in Int
    OBVIOUS
  <2> QED
    BY <1>1, <2>1, Routed
<1>3. Cardinality(canary) <= 20
  <2>1. IsFiniteSet(0 .. 19) /\ Cardinality(0 .. 19) = 20
    <3>1. 0 \in Int /\ 19 \in Int
      OBVIOUS
    <3>2. /\ IsFiniteSet(0 .. 19)
          /\ Cardinality(0 .. 19) = IF 0 > 19 THEN 0 ELSE 19 - 0 + 1
      BY ONLY <3>1, FS_Interval
    <3> QED
      BY ONLY <3>2
  <2>2. canary \in SUBSET (0 .. 19)
    BY <1>2
  <2>3. Cardinality(canary) <= Cardinality(0 .. 19)
    BY <2>1, <2>2, FS_Subset
  <2> QED
    BY <2>1, <2>3
<1>4. keys # {} => Resolved(setting.primary, keys) \in keys
  BY <1>1, ResolvedKeyed
<1>5. ASSUME keys # {}, NEW b \in 0 .. 99 PROVE RouteOf(setting, b).provider \in keys
  <2>1. CASE b \in canary
    BY <1>2, <2>1
  <2>2. CASE b \notin canary
    <3>1. RouteOf(setting, b).provider = Resolved(setting.primary, keys)
      BY <1>2, <2>2
    <3>2. Resolved(setting.primary, keys) \in keys
      BY <1>4, <1>5
    <3> QED
      BY ONLY <3>1, <3>2
  <2> QED
    BY <2>1, <2>2
<1> QED
  BY <1>2, <1>3, <1>5 DEF setting

\* No more than 20 of 100 signals are ever answered by the canary model, none
\* of them without its key, and an opinion it gave is of a signal of its share:
\* for every setting whose two models are told apart.
THEOREM CanaryShare == ASSUME CanaryNamed PROVE DecisionSpec => []CanaryWithinShare
<1>1. ASSUME GuardInv, OpinionInv PROVE CanaryWithinShare
  <2>1. CASE analyst = NoOpinion
    <3>1. analyst.by.model = "none"
      BY <2>1 DEF NoOpinion, Nobody
    <3> QED
      BY <3>1, Shares, CanaryNamed DEF CanaryNamed, CanaryWithinShare
  <2>2. CASE analyst # NoOpinion
    <3>1. analyst.by.model = Route.model
      BY <1>1, <2>2 DEF OpinionInv, Answering
    <3>2. Setting \in Environment /\ Bucket[who] \in Int
      BY <1>1, DecisionAssumption DEF GuardInv, PlaceTypeOK
    <3>3. Route.label # "canary" => Route.model = Setting.primaryModel
      BY <3>2, Routed DEF Route
    <3>4. Route.label = "canary" => Bucket[who] < 20
      BY <3>2, Routed DEF Route
    <3> QED
      BY <3>1, <3>3, <3>4, Shares, CanaryNamed DEF CanaryNamed, CanaryWithinShare
  <2> QED
    BY <2>1, <2>2
<1> QED
  BY <1>1, DecisionInvariance, PTL

=============================================================================
