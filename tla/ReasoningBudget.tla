--------------------------- MODULE ReasoningBudget ---------------------------
(***************************************************************************)
(* How much a model is asked to reason: G25 picks an effort, G12 turns it   *)
(* into the routed provider's own parameter, and providers.                 *)
(* outgoing_params_for makes of ctx.params what each call may carry: the    *)
(* primary, a failover to another provider, a tier of the G06 cascade.      *)
(*                                                                          *)
(* Efforts are REASONING_TIERS by number, "off" is 0.  A provider is one of *)
(* the adapters' families.  Who is told of a raised budget is in Routing.   *)
(***************************************************************************)
EXTENDS Integers, Sequences, SequencesExt, FiniteSetsExt

CONSTANTS
    Absent,          \* a parameter that is not set
    Callable,        \* the models a call may go to
    Family,          \* Family[m]: "anthropic", "gemini", "openai" or "generic"
    Able,            \* supports_reasoning(m): what the adapter says by itself
    Named,           \* supports_reasoning(m, config): and the provider's reasoning_models
    GenericMaps,     \* efforts an effort_map has a value for on a generic provider
    Budget,          \* Budget[f][e]: effort_map's thinking budget for effort e at a provider
                     \* that takes one: anthropic_tokens, gemini_thinking_budget; 0 for less
    MinThinking,     \* 1024: the least budget Anthropic takes
    Allowance,       \* Allowance[e]: output an o-series model needs to think
    AnswerFloor, OutputCap,   \* answer_floor_tokens, max_output_tokens
    ProbeCap,        \* cascade_tier1_max_tokens
    CallerParams,    \* the parameters a request may come with
    Controls,        \* the settings of G25 and G12
    MaxPlaced        \* bound: calls of a request

Medium == 2
Efforts == 0..3
ReasoningKeys == {"effort", "thinking", "config"}

\* A request's parameters; an output budget of 0 is one that is not set.
Params ==
    [effort : Efforts \cup {Absent}, thinking : Nat \cup {Absent}, config : Nat \cup {Absent},
     output : Nat, key : {"max_tokens", "max_completion_tokens"}, temperature : Nat \cup {Absent}]

ASSUME BudgetAssumption ==
    /\ Absent \notin Nat /\ Named \subseteq Able /\ MinThinking \in Nat
    /\ \A m \in Callable : Family[m] \in {"anthropic", "gemini", "openai", "generic"}
    /\ \A f \in {"anthropic", "gemini"} : Budget[f] \in [1..3 -> Nat]
    /\ Allowance \in [Efforts -> Nat] /\ AnswerFloor \in Nat /\ OutputCap \in Nat /\ ProbeCap \in Nat
    /\ CallerParams \subseteq Params
    /\ \A c \in Controls : /\ {c.floor, c.ceiling, c.default, c.unmatched} \subseteq Efforts
                            /\ c.keywords \subseteq Efforts

VARIABLES
    caller,    \* the request's own parameters
    control,   \* its tenant's settings, and what G06 and the keywords make of it
    routed,    \* ctx.routed_model
    cascade,   \* whether G06 deferred to the cascade
    params,    \* ctx.params
    placed,    \* the calls made: their model and what they carried
    turn      \* "G25", "G12" or "calls"

budgetOf == <<caller, control, routed, cascade>>
reasonVars == <<budgetOf, params, placed, turn>>

ReasonInit ==
    /\ caller \in CallerParams /\ control \in Controls
    /\ routed \in Callable /\ cascade \in BOOLEAN
    /\ params = caller /\ placed = << >> /\ turn = "G25"

Without(p, keys) == [k \in DOMAIN p |-> IF k \in keys THEN Absent ELSE p[k]]
NamesReasoning(p) == \E k \in ReasoningKeys : p[k] # Absent

-----------------------------------------------------------------------------
(* The adapters. *)

DefaultEffort(m) ==
    CASE Family[m] = "gemini" -> Medium
      [] Family[m] = "openai" -> IF m \in Named THEN Medium ELSE 0
      [] OTHER -> 0

(* map_reasoning_effort: the parameters that stand for an effort.  Anthropic's is
   whatever positive budget the operator wrote, be it below the least. *)
Mapped(m, e) ==
    CASE Family[m] = "anthropic" ->
           IF e = 0 \/ Budget["anthropic"][e] = 0 THEN << >> ELSE [thinking |-> Budget["anthropic"][e]]
      [] Family[m] = "gemini" -> [config |-> IF e = 0 THEN 0 ELSE Budget["gemini"][e]]
      [] Family[m] = "openai" -> IF e = 0 THEN << >> ELSE [effort |-> e]
      [] Family[m] = "generic" -> IF e \in GenericMaps \ {0} THEN [effort |-> e] ELSE << >>

Rejects(m) ==
    CASE Family[m] = "anthropic" -> {"effort"}
      [] Family[m] = "gemini" -> {"effort", "thinking"}
      [] Family[m] = "openai" -> {"thinking"}
      [] Family[m] = "generic" -> {}

Cooled(p) == IF p.thinking # Absent THEN Without(p, {"temperature"}) ELSE p

(* The output budget cap_reasoning_params is handed: under max_tokens only. *)
MaxTokens(p) == IF p.key = "max_tokens" THEN p.output ELSE 0

BugCapsAtLimit(m, p) ==
    IF Family[m] = "anthropic" /\ p.thinking # Absent /\ MaxTokens(p) # 0
      THEN [Cooled(p) EXCEPT !.thinking = Min({@, MaxTokens(p)})] ELSE p
(* cap_reasoning_params *)
Capped(m, p) ==
    LET limit == MaxTokens(p)
    IN  CASE Family[m] = "anthropic" ->
               IF limit = 0 THEN Cooled(p)
               ELSE IF limit <= MinThinking THEN Without(p, {"thinking", "effort"})
               ELSE IF p.thinking = Absent THEN p
               ELSE [Cooled(p) EXCEPT !.thinking = Min({@, limit - 1})]
          [] Family[m] = "gemini" ->
               IF limit = 0 \/ p.config = Absent THEN p ELSE [p EXCEPT !.config = Min({@, limit - 1})]
          [] OTHER -> p

(* reserve_reasoning_headroom, for the effort asked for before it was stripped. *)
Needed(e) == AnswerFloor + Allowance[IF e = Absent THEN Medium ELSE e]
Reserved(m, p, e) ==
    IF Family[m] # "openai" \/ m \notin Named \/ p.output = 0 THEN p
    ELSE [p EXCEPT !.output = Max({@, Min({Needed(e), OutputCap})})]

(* outgoing_params_for *)
Outgoing(m, p) ==
    LET reasons == IF m \in Named THEN p ELSE Without(p, ReasoningKeys)
        known == IF reasons.effort = 0 THEN Without(reasons, {"effort"}) ELSE reasons
        taken == Without(known, Rejects(m))
    IN  Reserved(m, Capped(m, taken), p.effort)

-----------------------------------------------------------------------------
(* G25: the effort of a request whose caller named none. *)

(* _classify_complexity: HIGH before MEDIUM before LOW before default_effort, unless
   G06 found the request simple. *)
Classified ==
    IF control.simple THEN 0 ELSE IF control.keywords = {} THEN control.unmatched ELSE Max(control.keywords)

Chosen ==
    LET ceiling == IF control.escalate THEN 3 ELSE DefaultEffort(routed)
    IN  Max({control.floor, Min({control.ceiling, ceiling, Classified})})

AdaptEffort ==
    /\ turn = "G25"
    /\ turn' = "G12"
    /\ params' = IF control.g25 /\ params.effort = Absent /\ routed \in Able
                   THEN [params EXCEPT !.effort = Chosen] ELSE params
    /\ UNCHANGED <<budgetOf, placed>>

(* G12: the effort that is sent, and the parameters it becomes. *)
BugUncapped(e) == e
EffortSent(e) ==
    IF NamesReasoning(params) \/ control.tenantChose THEN e ELSE Min({e, DefaultEffort(routed)})

ApplyBudget ==
    /\ turn = "G12"
    /\ turn' = "calls"
    /\ LET wanted == IF params.effort # Absent THEN params.effort ELSE control.default
           sent == EffortSent(wanted)
           mapped == Mapped(routed, sent)
           applied == {k \in DOMAIN mapped : params[k] = Absent}
           merged == [k \in DOMAIN params |-> IF k \in applied THEN mapped[k] ELSE params[k]]
           native == IF applied # {} /\ "effort" \notin DOMAIN mapped
                       THEN Without(merged, {"effort"}) ELSE merged
       IN  params' = IF ~control.g12 \/ routed \notin Named THEN params
                     ELSE IF sent = 0 THEN Without(native, ReasoningKeys \ DOMAIN mapped)
                     ELSE native
    /\ UNCHANGED <<budgetOf, placed>>

-----------------------------------------------------------------------------
(* The calls. *)

(* A call gets a copy of the parameters, but its thinking budget is the request's
   own dictionary, so a cap on it stays. *)
Place(m, kind, carried) ==
    /\ placed' = Append(placed, [model |-> m, kind |-> kind, carried |-> carried])
    /\ params' = [k \in DOMAIN params |->
                    IF k \in {"thinking", "config"} /\ carried[k] # Absent THEN carried[k] ELSE params[k]]
    /\ UNCHANGED <<budgetOf, turn>>

PlacePrimary ==
    /\ turn = "calls" /\ placed = << >> /\ ~cascade
    /\ Place(routed, "primary", Outgoing(routed, params))

(* _lazy_fallback_target: the call before failed. *)
FailOver ==
    /\ placed # << >> /\ Len(placed) < MaxPlaced /\ ~cascade
    /\ \E m \in Callable \ {routed} : Place(m, "failover", Outgoing(m, params))

(* The cascade's first tier: a budget of the cascade's own when the caller set none,
   and a temperature, both after outgoing_params_for. *)
Probe ==
    /\ turn = "calls" /\ placed = << >> /\ cascade
    /\ LET out == Outgoing(routed, params)
       IN  Place(routed, "probe",
                 [out EXCEPT !.output = IF @ = 0 THEN ProbeCap ELSE @,
                             !.temperature = IF @ = Absent THEN 0 ELSE @])

ClimbTier ==
    /\ placed # << >> /\ Len(placed) < MaxPlaced /\ cascade
    /\ \E m \in Callable \ {routed} : Place(m, "tier", Outgoing(m, params))

ReasonNext == AdaptEffort \/ ApplyBudget \/ PlacePrimary \/ FailOver \/ Probe \/ ClimbTier

ReasonSpec == ReasonInit /\ [][ReasonNext]_reasonVars

-----------------------------------------------------------------------------
Placed(kinds) == {c \in ToSet(placed) : c.kind \in kinds}

\* The caller's output budget came as max_completion_tokens: outgoing_params_for gives
\* cap_reasoning_params none to keep the thinking budget under.
Uncapped(p) == p.key = "max_completion_tokens"

ThinkingBelow(c) ==
    LET p == c.carried
    IN  /\ Family[c.model] = "anthropic" /\ p.thinking # Absent /\ p.output # 0 => p.thinking < p.output
        /\ Family[c.model] = "gemini" /\ p.config # Absent /\ p.output # 0 => p.config < p.output

\* The thinking budgets somebody wrote: the caller, or the operator for an effort.
Written == {caller.thinking} \cup {Budget["anthropic"][e] : e \in 1..3}

CallFits(c) ==
    LET p == c.carried
    IN  /\ \A k \in Rejects(c.model) : p[k] = Absent
        /\ p.effort # 0
        /\ c.model \notin Named => ~NamesReasoning(p)
        /\ ThinkingBelow(c) \/ Uncapped(p)
        /\ Family[c.model] = "anthropic" /\ p.thinking # Absent =>
              p.temperature = Absent /\ (p.thinking >= MinThinking \/ p.thinking \in Written)
        /\ Family[c.model] = "openai" /\ c.model \in Named /\ p.output # 0 =>
              p.output >= Min({Needed(IF p.effort = Absent THEN 0 ELSE p.effort), OutputCap})

(* Whichever provider a call ends up at, after whatever calls before it, what it
   carries fits there: a thinking budget stays below the output budget and is never
   cut below Anthropic's least, no temperature goes with it, the proxy's own "off" and
   an effort or a thinking that provider does not take stay behind, and an o-series
   model has room to think at its effort (at the least one if it names none) and to
   answer, up to the operator's cap.  Three things are outside this.  The cascade's
   probe: its cap and its temperature are put in after the reconciliation.  An output
   budget given as max_completion_tokens (Uncapped): the thinking budget is not held
   below it, see ThinkingStaysBelow.  And a budget that is too small as it was written:
   it is passed on, see BudgetsReachLeast. *)
EveryCallFits == \A c \in Placed({"primary", "failover", "tier"}) : CallFits(c)

Uninvited ==
    /\ ~NamesReasoning(caller)
    /\ ~control.escalate /\ ~control.tenantChose /\ control.floor = 0

ReasonsByItself(c) ==
    LET p == c.carried
    IN  CASE Family[c.model] = "anthropic" -> p.thinking = Absent
          [] Family[c.model] = "gemini" -> p.config = Absent \/ p.config <= Budget["gemini"][Medium]
          [] Family[c.model] = "openai" -> p.effort = Absent \/ p.effort <= Medium
          [] Family[c.model] = "generic" -> p.effort = Absent \/ c.kind \in {"failover", "tier"}

(* A request that names no reasoning is made to reason no more than the provider that
   gets it would have by itself, on the primary, on a tier and after a failover, unless
   the tenant or the operator chose so (a default effort, a floor, an escalation).  A
   failover or a tier at a generic provider is outside this: it gets the effort that
   was chosen for the routed one. *)
NoUninvitedReasoning == Uninvited => \A c \in ToSet(placed) : ReasonsByItself(c)

(* What a call reasons by is neither more than its provider takes nor more than
   anybody asked for, on every provider a request reaches. *)
ReasoningIsSound == EveryCallFits /\ NoUninvitedReasoning

(* The adapter says that it keeps the thinking budget strictly below the output budget,
   as Anthropic answers 400 otherwise (anthropic_adapter.py:221).  The code does not:
   of a budget under max_completion_tokens cap_reasoning_params is told nothing. *)
ThinkingStaysBelow ==
    \A c \in Placed({"primary", "failover", "tier"}) : Family[c.model] = "anthropic" => ThinkingBelow(c)

(* A thinking budget that is not the caller's is one Anthropic takes.  The adapter calls
   a smaller one impossible to honour (anthropic_adapter.py:172), and passes on whatever
   positive budget effort_map has: the template's for "low" is 1000. *)
BudgetsReachLeast ==
    \A c \in ToSet(placed) :
       Family[c.model] = "anthropic" /\ c.carried.thinking \notin {Absent, caller.thinking} =>
          c.carried.thinking >= MinThinking
=============================================================================
