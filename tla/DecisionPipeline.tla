--------------------------- MODULE DecisionPipeline ---------------------------
(***************************************************************************)
(* The AI call of a BUY: agents/factory.py routes the signal to a model,   *)
(* the graph of agents/runner.py asks the analyst and then the guardian    *)
(* within 40 seconds, the decision becomes a row of agent_decisions, and   *)
(* the executor books it with the guard.  What a provider answers, whether *)
(* it answers and whether the database takes the row is a choice; the      *)
(* reasoning is kept to what the guard reads in it.                        *)
(***************************************************************************)
EXTENDS AiGuardrails

CONSTANTS
  Setting,     \* the environment of the process: primary, primaryModel, keys,
               \* canary, percent, canaryProvider, canaryModel
  Bucket,      \* per symbol, the hash of its signal modulo 100
  Confidences, \* the confidences an analyst can state
  ColumnWidth  \* of agent_decisions.model_used

Providers == {"anthropic", "openai"}

Environment == [primary : Providers, primaryModel : STRING, keys : SUBSET Providers,
                canary : BOOLEAN, percent : Int,
                canaryProvider : Providers, canaryModel : STRING]

ASSUME DecisionAssumption ==
  /\ Setting \in Environment
  /\ Bucket \in [Symbols -> 0 .. 99]
  /\ Confidences \subseteq 0 .. 100
  /\ ColumnWidth \in Nat

VARIABLES
  analyst,  \* the analyst's decision of the run that is asking, or NoOpinion
  outcome   \* of the step that just concluded a run, or NoOutcome

decisionVars == <<analyst, outcome>>

-----------------------------------------------------------------------------
(* Routing *)

\* _resolve_provider_with_fallback: the model name stays as it is.
Resolved(provider, keys) ==
  IF provider \notin keys /\ Providers \ {provider} \subseteq keys
  THEN CHOOSE other \in Providers : other # provider
  ELSE provider

MutantUnclamped(percent) == percent

\* _parse_canary_percent
CanaryPercent(percent) == Max({0, Min({20, percent})})

MutantCanaryFallback(setting, bucket) ==
  LET primary == [provider |-> Resolved(setting.primary, setting.keys),
                  model |-> setting.primaryModel, label |-> "primary"]
  IN  IF ~setting.canary \/ bucket >= CanaryPercent(setting.percent) THEN primary
      ELSE [provider |-> Resolved(setting.canaryProvider, setting.keys),
            model |-> setting.canaryModel, label |-> "canary"]

\* select_ai_decision_route
RouteOf(setting, bucket) ==
  LET primary == [provider |-> Resolved(setting.primary, setting.keys),
                  model |-> setting.primaryModel, label |-> "primary"]
  IN  IF ~setting.canary \/ bucket >= CanaryPercent(setting.percent) THEN primary
      ELSE IF setting.canaryProvider \notin setting.keys
      THEN [primary EXCEPT !.label = "primary-fallback"]
      ELSE [provider |-> setting.canaryProvider, model |-> setting.canaryModel,
            label |-> "canary"]

\* The route of the signal that is asked about, chosen once per run.
Route == RouteOf(Setting, Bucket[who])

\* Whom get_analyst_llm and get_guardian_llm build a client for.
Answering(route) == [provider |-> route.provider, model |-> route.model]

\* _format_model_used: "provider:model (label)".
ModelUsedLength(route) ==
  Len(route.provider) + Len(route.model) + Len(route.label) + Len(": ()")

-----------------------------------------------------------------------------
(* The two agents *)

Nobody == [provider |-> "none", model |-> "none"]

NoOpinion == [decision |-> "none", confidence |-> 0, by |-> Nobody]

NoRow == [decision |-> "none", by |-> Nobody]

MutantAnyConfidence(decision, confidence) ==
  [decision |-> decision, confidence |-> confidence, by |-> Answering(Route)]

\* market_analyst_node: a CONFIRM below 60 becomes a REJECT.
AnalystOpinion(decision, confidence) ==
  [decision   |-> IF confidence < 60 THEN "REJECT" ELSE decision,
   confidence |-> confidence,
   by         |-> Answering(Route)]

NoOutcome == [approved |-> FALSE, guardian |-> NoOpinion, row |-> NoRow, lost |-> FALSE]

\* The row that _log_decision leaves, in a session of its own: none when the
\* database fails or the model does not fit its column.
RowOf(decision, failed) ==
  IF failed \/ ModelUsedLength(Route) > ColumnWidth THEN NoRow
  ELSE [decision |-> decision, by |-> Answering(Route)]

\* How a failed call is told apart: by its wording.  An answer that does not
\* validate and a connection that breaks carry no error code.
Failures == {"credit", "coded", "uncoded"}

\* runner.run: the run ends with this verdict, is logged, and is booked.
Conclude(verdict, guardian) ==
  /\ IF verdict = "approve" THEN Approve ELSE Refuse(verdict)
  /\ \E failed \in BOOLEAN :
       outcome' = [approved |-> verdict = "approve", guardian |-> guardian,
                   row |-> RowOf(IF verdict = "approve" THEN "CONFIRM" ELSE "REJECT", failed),
                   lost |-> failed]
  /\ analyst' = NoOpinion

\* The analyst answers: a REJECT ends the graph, a CONFIRM asks the guardian.
AnalystAnswers ==
  /\ pc = "asking" /\ analyst = NoOpinion
  /\ \E decision \in {"CONFIRM", "REJECT"}, confidence \in Confidences :
       LET opinion == AnalystOpinion(decision, confidence) IN
       IF opinion.decision = "REJECT" THEN Conclude("reject", NoOpinion)
       ELSE analyst' = opinion /\ outcome' = NoOutcome /\ UNCHANGED vars

\* The analyst node turns its failures into a REJECT, wording and all.
AnalystFails ==
  /\ pc = "asking" /\ analyst = NoOpinion
  /\ \E failure \in Failures :
       Conclude(CASE failure = "credit"  -> "credit"
                  [] failure = "coded"   -> "error"
                  [] failure = "uncoded" -> "reject", NoOpinion)

MutantWarningIgnored(decision) == "approve"

\* Both agents have answered.
VerdictOf(decision) == IF decision = "SAFE" THEN "approve" ELSE "reject"

GuardianAnswers ==
  /\ pc = "asking" /\ analyst # NoOpinion
  /\ \E decision \in {"SAFE", "WARNING"} :
       Conclude(VerdictOf(decision),
                [decision |-> decision, confidence |-> 0, by |-> Answering(Route)])

\* The guardian's failures end the graph: every one is an analysis error.
GuardianFails ==
  /\ pc = "asking" /\ analyst # NoOpinion
  /\ \E failure \in Failures :
       Conclude(IF failure = "credit" THEN "credit" ELSE "error", NoOpinion)

\* Forty seconds have passed, in whichever call.
TimeOut ==
  /\ pc = "asking"
  /\ Conclude("timeout", NoOpinion)

\* The process dies while it waits for an agent.
Crash ==
  /\ pc = "asking"
  /\ pc' = "idle" /\ analyst' = NoOpinion /\ outcome' = NoOutcome
  /\ UNCHANGED <<redis, who, minute, hour, calls, rejected, failures>>

-----------------------------------------------------------------------------

DecisionInit == Init /\ analyst = NoOpinion /\ outcome = NoOutcome

\* A step of the guard or of the clock, which no agent is part of.
Beside(step) == step /\ UNCHANGED analyst /\ outcome' = NoOutcome

DecisionNext ==
  \/ Beside(PassGuard) \/ Beside(MarkCall) \/ Beside(FailMark) \/ Beside(Tick)
  \/ AnalystAnswers \/ AnalystFails \/ GuardianAnswers \/ GuardianFails
  \/ TimeOut \/ Crash

DecisionSpec ==
  DecisionInit /\ [][DecisionNext]_<<vars, decisionVars>> /\ WF_<<vars, decisionVars>>(Beside(Tick))

-----------------------------------------------------------------------------

\* An approval is the word of two agents, asked one after the other and of one
\* model: a CONFIRM of at least 60 and a SAFE.  A row says what was decided
\* and who decided it, and an approval is missing from agent_decisions only
\* when the database failed or the model did not fit its column.
Concluded == pc = "asking" /\ outcome' # NoOutcome

DecisionsAreTraceable ==
  [][Concluded =>
       /\ outcome'.approved =>
            /\ analyst.decision = "CONFIRM" /\ analyst.confidence >= 60
            /\ outcome'.guardian.decision = "SAFE" /\ outcome'.guardian.by = analyst.by
            /\ \/ outcome'.row = [decision |-> "CONFIRM", by |-> analyst.by]
               \/ outcome'.lost \/ ModelUsedLength(Route) > ColumnWidth
       /\ outcome'.row # NoRow /\ ~outcome'.approved => outcome'.row.decision = "REJECT"]_<<vars, decisionVars>>

\* Whatever the deployment configures: at most 20 of 100 signals are routed to
\* the canary model, none without the canary provider's key, none to another
\* provider in its name, and while any key is there no call goes out without.
SharesHold ==
  \A keys \in SUBSET Providers, percent \in {-1, 0, 1, 10, 19, 20, 21, 100},
     canaryProvider \in Providers :
    LET setting == [Setting EXCEPT !.keys = keys, !.canary = TRUE, !.percent = percent,
                                   !.canaryProvider = canaryProvider]
        canary  == {b \in 0 .. 99 : RouteOf(setting, b).label = "canary"}
    IN  /\ Cardinality(canary) <= 20
        /\ \A b \in canary : RouteOf(setting, b).provider = canaryProvider
        /\ keys # {} => \A b \in 0 .. 99 : RouteOf(setting, b).provider \in keys

\* The canary answers none but the signals below its share, and the shares hold
\* for every percentage, pair of keys and canary provider one can configure.
CanaryWithinShare ==
  /\ analyst.by.model = Setting.canaryModel => Bucket[who] < 20
  /\ SharesHold

\* Every decision is on record with the model that made it, unless the
\* database fails (docs: routing and decision can be traced one to one).
EveryDecisionIsRecorded ==
  [][Concluded /\ ~outcome'.lost => outcome'.row # NoRow]_<<vars, decisionVars>>

=============================================================================
