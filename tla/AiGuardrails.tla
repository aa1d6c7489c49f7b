------------------------------ MODULE AiGuardrails ------------------------------
(***************************************************************************)
(* The Redis guard keys of agents/guardrails.py around the AI call of a    *)
(* BUY: the bot loop reads them, counts the call, awaits the agents, and   *)
(* the executor books the decision.  A key is modelled by what TTL shows   *)
(* of it, so that no clock has to be bounded.  The process may die, or a   *)
(* Redis command fail, between any two commands.  DecisionPipeline says    *)
(* when the agents approve or refuse, and composes the steps.              *)
(***************************************************************************)
EXTENDS Integers, Sequences, FiniteSets, SequencesExt

CONSTANTS Symbols,
          RejectCooldown,  \* <<ai_reject_cooldown_min_1, _2, _3>>, ticks
          RejectWindow,    \* ai_reject_cooldown_window_min, ticks
          ErrorThreshold,  \* ai_error_streak_threshold
          ErrorWindow,     \* the literal 3600 s of the error streak, ticks
          ErrorBlock,      \* ai_error_block_minutes, ticks
          CreditBlock,     \* ai_credit_block_minutes, ticks
          HourLimit,       \* ai_max_calls_per_hour
          DayLimit,        \* ai_max_calls_per_day
          HourLength,      \* ticks of a clock hour
          DayHours         \* clock hours of a day

ASSUME GuardAssumption ==
  /\ RejectCooldown \in [1 .. 3 -> Nat \ {0}]
  /\ {RejectWindow, ErrorThreshold, ErrorWindow, ErrorBlock, CreditBlock,
      HourLimit, DayLimit, HourLength, DayHours} \subseteq Nat \ {0}

VARIABLES
  redis,         \* the guard keys
  pc, who,       \* where the BUY of which symbol is: "idle", "clear", "asking"
  minute, hour,  \* the clock, within the hour and within the day
  calls,         \* history: AI calls started in this clock hour and this day
  rejected,      \* history: per symbol, how long ago a rejection of it was
                 \* booked since its last approval, as far back as RejectWindow
  failures       \* history: the run of failed calls booked, and how long ago the
                 \* last one was; a run is over after ErrorWindow

vars == <<redis, pc, who, minute, hour, calls, rejected, failures>>

-----------------------------------------------------------------------------
(* Redis keys.  A flag lasts for its TTL.  A counter is created by INCR    *)
(* without a TTL and has one from EXPIRE on; counters saturate where the   *)
(* code stops telling values apart.                                        *)

NoExpiry == -1

NoCounter == [count |-> 0, ttl |-> 0]

AtMost(n, bound) == IF n > bound THEN bound ELSE n

Incremented(key, bound) ==
  [count |-> AtMost(key.count + 1, bound),
   ttl   |-> IF key.count = 0 THEN NoExpiry ELSE key.ttl]

MutantNeverExpires(ttl) == ttl

Aged(ttl) == IF ttl > 0 THEN ttl - 1 ELSE ttl

AgedCounter(key) == IF key.ttl = 1 THEN NoCounter ELSE [key EXCEPT !.ttl = Aged(@)]

NoKeys == [block    |-> 0,
           cooldown |-> [s \in Symbols |-> 0],
           rejects  |-> [s \in Symbols |-> NoCounter],
           errors   |-> NoCounter,
           hour     |-> 0,
           day      |-> 0]

\* The states a list of commands goes through: a handler that completes
\* leaves the last one, one that is cut short any of the earlier ones.
Left(stages, complete) ==
  IF complete THEN {Last(stages)} ELSE {redis} \cup ToSet(Front(stages))

NoFailure == [run |-> 0, ago |-> 0]

-----------------------------------------------------------------------------

Init ==
  /\ redis = NoKeys
  /\ pc = "idle" /\ who \in Symbols
  /\ minute = 0 /\ hour = 0
  /\ calls = [hour |-> 0, day |-> 0]
  /\ rejected = [s \in Symbols |-> {}]
  /\ failures = NoFailure

MutantNoGlobalBlock(s) ==
  \/ redis.cooldown[s] > 0
  \/ redis.hour >= HourLimit
  \/ redis.day >= DayLimit

\* should_block_ai_call
Blocked(s) ==
  \/ redis.block > 0
  \/ redis.cooldown[s] > 0
  \/ redis.hour >= HourLimit
  \/ redis.day >= DayLimit

\* An entry passed the rules: the guard lets its AI call through.
PassGuard ==
  /\ pc = "idle"
  /\ \E s \in Symbols : ~Blocked(s) /\ who' = s
  /\ pc' = "clear"
  /\ UNCHANGED <<redis, minute, hour, calls, rejected, failures>>

MutantHourUncounted(keys) == [keys EXCEPT !.day = AtMost(@ + 1, DayLimit)]

Counted(keys) ==
  [keys EXCEPT !.hour = AtMost(@ + 1, HourLimit), !.day = AtMost(@ + 1, DayLimit)]

\* mark_ai_call_started: the call counts for the hour and the day it is now,
\* which may have begun after the guard was read.
MarkCall ==
  /\ pc = "clear"
  /\ redis' = Counted(redis)
  /\ pc' = "asking"
  /\ calls' = [hour |-> calls.hour + 1, day |-> calls.day + 1]
  /\ UNCHANGED <<who, minute, hour, rejected, failures>>

\* Cut short while counting: the call is not made.
FailMark ==
  /\ pc = "clear"
  /\ redis' \in {redis, [redis EXCEPT !.hour = Counted(redis).hour], Counted(redis)}
  /\ pc' = "idle"
  /\ UNCHANGED <<who, minute, hour, calls, rejected, failures>>

\* get_reject_cooldown_minutes
CooldownFor(count) == RejectCooldown[AtMost(count, 3)]

\* update_ai_guardrails_after_decision, approved.
ApprovalStages ==
  LET forgiven == [redis EXCEPT !.rejects[who] = NoCounter]
  IN  <<forgiven, [forgiven EXCEPT !.errors = NoCounter]>>

MutantFirstCooldownOnly(s) ==
  LET counted == [redis EXCEPT !.rejects[s] = Incremented(@, 3)]
      dated   == [counted EXCEPT !.rejects[s].ttl = RejectWindow]
  IN  <<counted, dated, [dated EXCEPT !.cooldown[s] = CooldownFor(1)]>>

\* The part every refusal shares: count it and cool the symbol down.
RefusalStages(s) ==
  LET counted == [redis EXCEPT !.rejects[s] = Incremented(@, 3)]
      dated   == [counted EXCEPT !.rejects[s].ttl = RejectWindow]
  IN  <<counted, dated, [dated EXCEPT !.cooldown[s] = CooldownFor(dated.rejects[s].count)]>>

\* An error of the provider: the streak grows and may block every symbol.
ErrorStages(keys) ==
  LET counted == [keys EXCEPT !.errors = Incremented(@, ErrorThreshold)]
      dated   == [counted EXCEPT !.errors.ttl = ErrorWindow]
  IN  <<counted, dated>> \o
      (IF dated.errors.count < ErrorThreshold THEN <<>>
       ELSE <<[dated EXCEPT !.block = ErrorBlock]>>)

\* What follows a refusal, by its reasoning.  "reject": the agents say no, or
\* the analyst's output does not validate; "timeout": 40 seconds passed.
DecisionStages(verdict) ==
  LET refusal == RefusalStages(who)
      keys    == Last(refusal)
  IN  refusal \o
      (CASE verdict = "credit" -> <<[keys EXCEPT !.block = CreditBlock]>>
         [] verdict = "error"  -> ErrorStages(keys)
         [] OTHER              -> <<[keys EXCEPT !.errors = NoCounter]>>)

\* A handler that is cut short leaves some of its commands.  The history
\* counts the refusals and failures booked to the end; what ends a run ends
\* it whether or not it was booked.
Approve ==
  /\ pc = "asking"
  /\ \E complete \in BOOLEAN : redis' \in Left(ApprovalStages, complete)
  /\ rejected' = [rejected EXCEPT ![who] = {}]
  /\ failures' = NoFailure
  /\ pc' = "idle"
  /\ UNCHANGED <<who, minute, hour, calls>>

Refuse(verdict) ==
  /\ pc = "asking"
  /\ \E complete \in BOOLEAN :
       /\ redis' \in Left(DecisionStages(verdict), complete)
       /\ rejected' = IF complete THEN [rejected EXCEPT ![who] = @ \cup {0}] ELSE rejected
       /\ failures' =
            IF verdict \notin {"error", "credit"} THEN NoFailure
            ELSE IF complete /\ verdict = "error"
            THEN [run |-> AtMost(failures.run + 1, ErrorThreshold), ago |-> 0]
            ELSE failures
  /\ pc' = "idle"
  /\ UNCHANGED <<who, minute, hour, calls>>

\* Time passes.  The usage keys carry their hour and their day in the name,
\* so a new hour or day starts from nothing.
Tick ==
  /\ minute' = (minute + 1) % HourLength
  /\ hour' = IF minute' = 0 THEN (hour + 1) % DayHours ELSE hour
  /\ LET newHour == minute' = 0
         newDay  == newHour /\ hour' = 0
     IN  /\ redis' = [block    |-> Aged(redis.block),
                      cooldown |-> [s \in Symbols |-> Aged(redis.cooldown[s])],
                      rejects  |-> [s \in Symbols |-> AgedCounter(redis.rejects[s])],
                      errors   |-> AgedCounter(redis.errors),
                      hour     |-> IF newHour THEN 0 ELSE redis.hour,
                      day      |-> IF newDay THEN 0 ELSE redis.day]
         /\ calls' = [hour |-> IF newHour THEN 0 ELSE calls.hour,
                      day  |-> IF newDay THEN 0 ELSE calls.day]
  /\ rejected' = [s \in Symbols |-> {ago + 1 : ago \in rejected[s]} \ {RejectWindow}]
  /\ failures' = IF failures.run = 0 \/ failures.ago + 1 = ErrorWindow
                 THEN NoFailure
                 ELSE [failures EXCEPT !.ago = @ + 1]
  /\ UNCHANGED <<pc, who>>

-----------------------------------------------------------------------------

Counter(bound) == [count : 0 .. bound, ttl : Nat \cup {NoExpiry}]

TypeOK ==
  /\ redis \in [block : Nat, cooldown : [Symbols -> Nat],
                rejects : [Symbols -> Counter(3)], errors : Counter(ErrorThreshold),
                hour : 0 .. HourLimit, day : 0 .. DayLimit]
  /\ \A key \in {redis.errors} \cup {redis.rejects[s] : s \in Symbols} :
       key.count = 0 <=> key.ttl = 0
  /\ pc \in {"idle", "clear", "asking"} /\ who \in Symbols
  /\ minute \in 0 .. HourLength - 1 /\ hour \in 0 .. DayHours - 1
  /\ calls \in [hour : Nat, day : Nat]
  /\ rejected \in [Symbols -> SUBSET (0 .. RejectWindow - 1)]
  /\ failures \in [run : 0 .. ErrorThreshold, ago : 0 .. ErrorWindow - 1]

\* No clock hour and no day has more AI calls than its budget, although the
\* guard is read before the call is counted, the hour may change in between,
\* and either step may be cut short by a crash or a Redis error.
BudgetHeld == TypeOK /\ calls.hour <= HourLimit /\ calls.day <= DayLimit

Passed == pc = "idle" /\ pc' = "clear"

\* A symbol refused n times within the window waits at least as long as the
\* n-th cooldown after the last refusal before the agents are asked again,
\* whatever the other symbols did in the meantime.
RefusalsCoolDown ==
  [][Passed /\ rejected[who'] # {} =>
       Min(rejected[who']) >= CooldownFor(Cardinality(rejected[who']))]_vars

\* After ErrorThreshold failures in a row, of any symbols, no symbol's AI call
\* passes the guard for ErrorBlock.
BreakerOpens ==
  [][Passed => ~(failures.run = ErrorThreshold /\ failures.ago < ErrorBlock)]_vars

\* No symbol is shut out for good: whatever the others do, and with counters
\* left behind without a TTL, its guard opens again and again.
GuardReopens == \A s \in Symbols : []<>~Blocked(s)

=============================================================================
