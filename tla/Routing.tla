------------------------------- MODULE Routing -------------------------------
(***************************************************************************)
(* G06 routing (middleware/g06_routing.py, g06_rules.py, g06_jev.py) and   *)
(* the deferred cascade that main._serve_core runs: which model answers a  *)
(* request, what it is charged for and what it is told.                    *)
(*                                                                         *)
(* An "ask" is a request as G06 sees it (tenant, G6_routing config, model, *)
(* caller's x_complexity, the facts its rules may match, what the keyword  *)
(* rules make of its text).  Shared between requests, in one process: the  *)
(* rotation counters, the latency averages and the failure times.          *)
(***************************************************************************)
EXTENDS Integers, Sequences, FiniteSets

CONSTANTS
    Routings, Tenants, Models,
    Ask,           \* Ask[i]: the requests that may arrive
    Arrives,       \* Arrives[r]: the ids request r may have
    Provider,      \* Provider[m]: the provider whose prefixes own model m
    Cost,          \* Cost[m]: estimate_cost on one request's size
    Reasoning,     \* models whose output budget the provider seam raises
    Configured,    \* models the configuration lists
    DefaultModel,
    PlatformKeys,  \* providers with a platform key or ambient credentials
    OwnKeys,       \* OwnKeys[t]: providers tenant t stored a key for
    Strict,        \* tenants that may not use the platform's keys
    MaxRules, Hold, MaxRouteTime, MaxLatency,
    None

Tiers == <<"simple", "medium", "complex">>
TierNames == {"simple", "medium", "complex"}
TierOrder(t) == CHOOSE i \in 1 .. 3 : Tiers[i] = t

ASSUME RoutingAssumption ==
    /\ Cost \in [Models -> Nat]
    /\ Reasoning \subseteq Models /\ Configured \subseteq Models
    /\ None \notin Models /\ DefaultModel \in Models \cup {None}
    /\ \A i \in DOMAIN Ask : /\ Ask[i].tenant \in Tenants /\ Ask[i].model \in Models
                            /\ Ask[i].heuristic \in TierNames
    /\ \A r \in Routings : Arrives[r] \subseteq DOMAIN Ask
    /\ MaxRules \in Nat /\ Hold \in Nat /\ MaxRouteTime \in Nat /\ MaxLatency \in Nat

VARIABLES
    req,       \* req[r]: the request's RequestContext, as far as routing reads it
    rotation,  \* _RR_COUNTERS, per tenant and tier
    latency,   \* _MODEL_LATENCY_EWMA, 0 for a model not measured
    failedAt,  \* _MODEL_FAILED_AT
    clock,       \* _clock
    rotated    \* history: how often each tenant's rotation chose each model of a tier

routeShared == <<rotation, latency, failedAt, rotated>>
routeVars == <<req, rotation, latency, failedAt, clock, rotated>>

(***************************************************************************)
(* Configuration of one request.                                           *)
(***************************************************************************)
\* _resolve_tiers: the requested model's family ladder, the tenant's own picks
\* over it; None passes the request through.
ResolveTiers(cfg, m) ==
    LET family == IF Provider[m] \in DOMAIN cfg.ladders
                  THEN cfg.ladders[Provider[m]] ELSE << >>
        usable == \E t \in DOMAIN family : family[t] # << >>
        both == IF usable THEN DOMAIN family \cup DOMAIN cfg.picks ELSE DOMAIN cfg.picks
    IN  IF DOMAIN cfg.ladders = {} THEN cfg.flat
        ELSE IF ~usable /\ DOMAIN cfg.picks = {} THEN None
        ELSE [t \in both |-> IF t \in DOMAIN cfg.picks THEN cfg.picks[t] ELSE family[t]]

\* The candidates of a classified tier: a missing tier falls to medium's.
Candidates(tiers, t) ==
    IF t \in DOMAIN tiers THEN tiers[t]
    ELSE IF "medium" \in DOMAIN tiers THEN tiers["medium"] ELSE << >>

\* normalize_rules: the rank of rule i among the enabled ones, by priority, stable.
Rank(rules, i) ==
    Cardinality({j \in DOMAIN rules : /\ rules[j].enabled
                                      /\ \/ rules[j].priority > rules[i].priority
                                         \/ rules[j].priority = rules[i].priority /\ j < i})

\* rule_matches: every matcher of the rule passes; a rule without matchers never
\* does.  spent: the rank from which the request's time for patterns has run out.
RuleMatches(rules, i, facts, spent) ==
    /\ rules[i].match # {}
    /\ rules[i].match \subseteq facts
    /\ "pattern" \in rules[i].match => Rank(rules, i) < spent

\* match_for_ctx, evaluate_rules: the first enabled rule that matches, None without.
MatchFor(rules, facts, spent) ==
    LET live == {i \in DOMAIN rules : rules[i].enabled /\ Rank(rules, i) < MaxRules}
        hits == {i \in live : RuleMatches(rules, i, facts, spent)}
    IN  IF hits = {} THEN None
        ELSE rules[CHOOSE i \in hits : \A j \in hits : Rank(rules, i) <= Rank(rules, j)]

\* effective_cfg: the config a matched rule routes under.
EffectiveCfg(cfg, rule) ==
    [cfg EXCEPT !.strategy = IF rule.strategy = None THEN @ ELSE rule.strategy,
                !.allowAbove = @ \/ rule.allow]

(***************************************************************************)
(* Choosing a model within a tier.                                         *)
(***************************************************************************)
\* least_latency: failed within the hold last, then by average, then as listed.
Held(m) == failedAt[m] # None /\ clock - failedAt[m] < Hold
Before(models, i, j) ==
    \/ ~Held(models[i]) /\ Held(models[j])
    \/ /\ Held(models[i]) <=> Held(models[j])
       /\ \/ latency[models[i]] < latency[models[j]]
          \/ latency[models[i]] = latency[models[j]] /\ i <= j
Fastest(models) ==
    models[CHOOSE i \in DOMAIN models : \A j \in DOMAIN models : Before(models, i, j)]

\* _select_from_tier as a relation: the models strategy may answer with.  canary
\* and weighted split by a hash of the request id: any candidate with a share.
Selectable(models, cfg, tenant, tier) ==
    CASE Len(models) = 1 -> {models[1]}
      [] cfg.strategy = "round_robin" ->
            {models[(rotation[tenant][tier] % Len(models)) + 1]}
      [] cfg.strategy = "least_latency" -> {Fastest(models)}
      [] cfg.strategy = "canary" -> {models[1], models[2]}
      [] cfg.strategy = "weighted" -> {models[i] : i \in DOMAIN models}
      [] OTHER -> {models[1]}

\* A slip: one counter per tier label for all tenants.
BugSharedRotation(models, cfg, tenant, tier, m) ==
    IF Len(models) > 1 /\ cfg.strategy = "round_robin"
    THEN /\ rotation' = [t \in Tenants |-> [rotation[t] EXCEPT ![tier] = (@ + 1) % Len(models)]]
         /\ rotated' = [rotated EXCEPT ![tenant][tier][m] = @ + 1]
    ELSE UNCHANGED <<rotation, rotated>>

\* _RR_COUNTERS after the choice, and the history of what it chose.
Rotated(models, cfg, tenant, tier, m) ==
    IF Len(models) > 1 /\ cfg.strategy = "round_robin"
    THEN /\ rotation' = [rotation EXCEPT ![tenant][tier] = (@ + 1) % Len(models)]
         /\ rotated' = [rotated EXCEPT ![tenant][tier][m] = @ + 1]
    ELSE UNCHANGED <<rotation, rotated>>

(***************************************************************************)
(* Guards on what was selected.                                            *)
(***************************************************************************)
\* resolve_provider_key: the tenant's own key, or the platform's where allowed.
HasKey(t, m) == \/ Provider[m] \in OwnKeys[t]
                \/ t \notin Strict /\ Provider[m] \in PlatformKeys

\* 2b: the platform can reach the provider, or the tenant itself can.
Reachable(t, m) == Provider[m] \in PlatformKeys \/ HasKey(t, m)

\* _reasoning_budget_starved: the caller set a budget, and the operator's ceiling
\* keeps the seam from raising it to what the model's reasoning takes.
Starved(a, m) == a.budget /\ m \in Reasoning /\ a.cfg.ceiling

\* 2b and 2c: the model the request keeps, given the one selected.
Guarded(a, eff, m, override) ==
    LET reached == IF m # a.model /\ ~Reachable(a.tenant, m) /\ a.cfg.onUnreachable # "error"
                   THEN a.model ELSE m
    IN  IF /\ reached # a.model
           /\ ~override
           /\ ~eff.allowAbove
           /\ Cost[reached] > Cost[a.model] \/ Starved(a, reached)
        THEN a.model ELSE reached

\* A slip: the plan outlives the guards that rerouted its tier-1 model.
BugPlanKept(r, a, eff, m, override, plan) ==
    [req[r] EXCEPT !.routed = Guarded(a, eff, m, override), !.saved = Guarded(a, eff, m, override),
                   !.plan = plan, !.allowed = override \/ eff.allowAbove, !.phase = "decided"]

\* What process_request leaves on the context: routed_model, and a plan only if
\* the guards kept its tier-1 model (2d).
Decided(r, a, eff, m, override, plan) ==
    LET kept == Guarded(a, eff, m, override)
    IN  [req[r] EXCEPT !.routed = kept,
                       !.saved = kept,
                       !.plan = IF plan # None /\ kept = plan.tier1 THEN plan ELSE None,
                       !.allowed = override \/ eff.allowAbove,
                       !.phase = "decided"]

(***************************************************************************)
(* process_request.                                                        *)
(***************************************************************************)
\* The classifiers' outcomes: a tier and how many side calls were paid for it.
\* llm_judge: the judge's tier, or the keyword rules' when it fails.
JudgeOutcomes(a) == {<<t, 1>> : t \in TierNames} \cup {<<a.heuristic, 0>>}

\* cascade: the keyword rules, the judge where they are not sure.
CascadeOutcomes(a, eff) ==
    IF a.sure \/ ~eff.judge THEN {<<a.heuristic, 0>>} ELSE JudgeOutcomes(a)

\* routellm: the sidecar's weak or strong side, the keyword rules when it fails; the
\* mf router's embedding is paid for with the tenant's own key, bert needs none.
RouteLLMOutcomes(a, eff) ==
    LET paid == IF eff.embeds /\ "embedder" \in OwnKeys[a.tenant] THEN 1 ELSE 0
    IN  {<<t, paid>> : t \in {"simple", "complex", a.heuristic}} \cup {<<a.heuristic, 0>>}

\* jev: the level's tier, or the default classifier when there is no level to use;
\* a reply the check refuses was still billed.
JevOutcomes(a, eff) ==
    {<<t, 1>> : t \in eff.levels} \cup
    {<<o[1], o[2] + k>> : o \in CascadeOutcomes(a, eff), k \in {0, 1}}

\* _dispatch_classifier
ClassifierOutcomes(a, eff) ==
    CASE eff.classifier = "heuristic" -> {<<a.heuristic, 0>>}
      [] eff.classifier = "llm_judge" ->
            IF eff.judge THEN JudgeOutcomes(a) ELSE {<<a.heuristic, 0>>}
      [] eff.classifier = "routellm" -> RouteLLMOutcomes(a, eff)
      [] eff.classifier = "jev" -> JevOutcomes(a, eff)
      [] OTHER -> CascadeOutcomes(a, eff)

SideCalls(n) == [i \in 1 .. n |-> [model |-> None, side |-> TRUE]]

Routes(r) == /\ req[r].phase = "new"
             /\ Ask[req[r].id].cfg.enabled
             /\ ResolveTiers(Ask[req[r].id].cfg, Ask[req[r].id].model) \notin {None, << >>}
TiersOf(r) == ResolveTiers(Ask[req[r].id].cfg, Ask[req[r].id].model)

\* Routing is off, or nothing routes this model: an unconfigured model is served by
\* the default, unless its family just has no ladder.
PassThrough(r) ==
    LET a == Ask[req[r].id]
        swap == /\ ~a.cfg.enabled \/ TiersOf(r) = << >>
                /\ a.model \notin Configured
                /\ DefaultModel # None
        m == IF swap THEN DefaultModel ELSE a.model
    IN  /\ req[r].phase = "new" /\ ~Routes(r)
        /\ req' = [req EXCEPT ![r] = [@ EXCEPT !.phase = "decided", !.routed = m, !.saved = m,
                                               !.swapped = swap]]
        /\ UNCHANGED <<routeShared, clock>>

\* The model chosen from a tier's candidates, with the rotation it takes; the
\* requested one where there are none.
Chooses(r, models, cfg, tier, m) ==
    IF models = << >>
    THEN m = Ask[req[r].id].model /\ UNCHANGED <<rotation, rotated>>
    ELSE /\ m \in Selectable(models, cfg, Ask[req[r].id].tenant, tier)
         /\ Rotated(models, cfg, Ask[req[r].id].tenant, tier, m)

\* 1: the caller named a tier.
Override(r) ==
    LET a == Ask[req[r].id]
        models == IF a.complexity \in DOMAIN TiersOf(r) THEN TiersOf(r)[a.complexity] ELSE << >>
    IN  /\ Routes(r) /\ a.complexity # None
        /\ \E m \in Models :
              /\ Chooses(r, models, a.cfg, a.complexity, m)
              /\ req' = [req EXCEPT ![r] = Decided(r, a, a.cfg, m, models # << >>, None)]
        /\ UNCHANGED <<latency, failedAt, clock>>

\* 1.5: a tenant rule names a model or a tier that has candidates.
Pins(rule, tiers) ==
    \/ rule.model # None
    \/ rule.tier \in DOMAIN tiers /\ tiers[rule.tier] # << >>

RulePins(r) ==
    LET a == Ask[req[r].id] IN
    \E spent \in 0 .. MaxRules :
      LET rule == MatchFor(a.cfg.rules, a.facts, spent)
          eff == EffectiveCfg(a.cfg, rule)
      IN  /\ Routes(r) /\ a.complexity = None
          /\ rule # None /\ Pins(rule, TiersOf(r))
          /\ \E m \in Models :
                /\ IF rule.model # None
                   THEN m = rule.model /\ UNCHANGED <<rotation, rotated>>
                   ELSE Chooses(r, TiersOf(r)[rule.tier], eff, rule.tier, m)
                /\ req' = [req EXCEPT ![r] =
                             [Decided(r, a, eff, m, FALSE, None) EXCEPT !.pinned = rule.model # None]]
          /\ UNCHANGED <<latency, failedAt, clock>>

\* 2: no caller's tier and no pin, so the classifier decides; a rule without a pin
\* still sets the config.  A cascade is only planned, with its tier-1 model and cap.
Classify(r) ==
    LET a == Ask[req[r].id]
        simple == IF "simple" \in DOMAIN TiersOf(r) THEN TiersOf(r)["simple"] ELSE << >>
    IN  \E spent \in 0 .. MaxRules :
      LET rule == MatchFor(a.cfg.rules, a.facts, spent)
          eff == IF rule = None THEN a.cfg ELSE EffectiveCfg(a.cfg, rule)
      IN  /\ Routes(r) /\ a.complexity = None
          /\ rule # None => ~Pins(rule, TiersOf(r))
          /\ IF eff.classifier = "cascade" /\ eff.execute /\ ~a.stream /\ simple # << >>
             THEN \E m \in Models :
                    /\ Chooses(r, simple, eff, "simple", m)
                    /\ LET plan == [tier1 |-> m, cfg |-> eff,
                                    top |-> IF eff.capped THEN TierOrder(a.heuristic) ELSE 3]
                       IN  req' = [req EXCEPT ![r] = Decided(r, a, eff, m, FALSE, plan)]
             ELSE \E o \in ClassifierOutcomes(a, eff), m \in Models :
                    /\ Chooses(r, Candidates(TiersOf(r), o[1]), eff, o[1], m)
                    /\ req' = [req EXCEPT ![r] = [Decided(r, a, eff, m, FALSE, None)
                                                    EXCEPT !.calls = @ \o SideCalls(o[2])]]
          /\ UNCHANGED <<latency, failedAt, clock>>

(***************************************************************************)
(* main._serve_core: the deferred cascade, then the normal call.           *)
(***************************************************************************)
\* outgoing_params_for: what the seam raised the caller's output budget for.
Raised(a, m) == IF a.budget /\ m \in Reasoning /\ ~a.cfg.ceiling THEN m ELSE None

\* record_model_latency: the average moves, by any measure, to any value.
Measured(m) ==
    /\ \E l \in 1 .. MaxLatency : latency' = [latency EXCEPT ![m] = l]
    /\ failedAt' = [failedAt EXCEPT ![m] = None]

\* An answer goes out: routed_model names the model, record_routing_step discloses it.
RouteAnswered(c, m, kind, own) ==
    [c EXCEPT !.phase = "done", !.routed = m, !.saved = m,
              !.served = [model |-> m, cut |-> IF kind # "cut" THEN "no"
                                               ELSE IF own THEN "own" ELSE "other"],
              !.step = IF m = Ask[c.id].model THEN None ELSE m]

\* Tier 1's probe cap is ours where the caller set no output budget.
OwnCap(c) == ~Ask[c.id].budget /\ c.plan.cfg.probeCap

\* A slip: the disclosure of the last tier evaluated stays.
BugStaleRaise(c, best) ==
    IF best.model = c.plan.tier1 /\ OwnCap(c) /\ c.plan.cfg.retry /\ best.kind = "cut"
    THEN [c EXCEPT !.phase = "retry", !.best = best]
    ELSE RouteAnswered([c EXCEPT !.best = best], best.model, best.kind, best.own)

\* _serve: the raise disclosed is the final model's; an answer that our own cap cut
\* off is asked for again without it.
Served(c, best) ==
    LET d == [c EXCEPT !.raised = Raised(Ask[c.id], best.model), !.best = best]
    IN  IF best.model = c.plan.tier1 /\ OwnCap(c) /\ c.plan.cfg.retry /\ best.kind = "cut"
        THEN [d EXCEPT !.phase = "retry"]
        ELSE RouteAnswered(d, best.model, best.kind, best.own)

\* The cascade gave no answer: the caller's model rather than the failed tier 1.
CascadeErrored(c) ==
    LET m == IF c.routed = c.plan.tier1 THEN Ask[c.id].model ELSE c.routed
    IN  [c EXCEPT !.phase = "decided", !.plan = None, !.routed = m, !.saved = m, !.raised = None]

StartCascade(r) ==
    LET c == req[r] IN
    /\ c.phase = "decided" /\ c.plan # None
    /\ req' = [req EXCEPT ![r] =
                 IF HasKey(Ask[c.id].tenant, c.plan.tier1)
                 THEN [c EXCEPT !.phase = "tier1", !.pending = c.plan.tier1,
                                !.raised = Raised(Ask[c.id], c.plan.tier1)]
                 ELSE CascadeErrored(c)]
    /\ UNCHANGED <<routeShared, clock>>

\* A tier's answer, as the cascade keeps it: own, where our probe cap bound it.
Tried(c, kind) == [model |-> c.pending, kind |-> kind, own |-> c.phase = "tier1" /\ OwnCap(c)]

\* A tier's answer came: recorded, then judged (by the judge model, or by what the
\* answer looks like).  Tier 3's is final; a good one too; else the next tier is tried.
TierAnswers(r) ==
    LET c == req[r]
        m == c.pending
        paid == Append(c.calls, [model |-> m, side |-> FALSE])
    IN  /\ c.phase \in {"tier1", "tier2", "tier3"}
        /\ \E kind \in {"whole", "poor", "cut"}, good \in BOOLEAN, judged \in {0, 1} :
              /\ ~c.plan.cfg.judge => judged = 0 /\ (good <=> kind = "whole")
              /\ c.phase = "tier3" => judged = 0 /\ good
              /\ c.phase # "tier3" /\ c.plan.cfg.judge /\ judged = 0 => ~good
              /\ LET d == [c EXCEPT !.calls = paid \o SideCalls(judged), !.best = Tried(c, kind)]
                 IN  req' = [req EXCEPT ![r] =
                               IF good THEN Served(d, Tried(c, kind))
                               ELSE [d EXCEPT !.phase =
                                       IF c.phase = "tier1" THEN "climb2" ELSE "climb3"]]
        /\ IF req'[r].phase = "done" THEN Measured(m) ELSE UNCHANGED <<latency, failedAt>>
        /\ UNCHANGED <<rotation, rotated, clock>>

\* Tier 1 failed: no answer.  A later tier failed: the best answer so far.
TierFails(r) ==
    LET c == req[r]
        d == IF c.phase = "tier1" THEN CascadeErrored(c) ELSE Served(c, c.best)
    IN  /\ c.phase \in {"tier1", "tier2", "tier3"}
        /\ req' = [req EXCEPT ![r] = d]
        /\ IF d.phase = "done" THEN Measured(c.best.model) ELSE UNCHANGED <<latency, failedAt>>
        /\ UNCHANGED <<rotation, rotated, clock>>

\* _escalation_block_reason
Blocked(c, m) ==
    \/ Cost[m] - Cost[c.best.model] > c.plan.cfg.maxStep
    \/ ~c.plan.cfg.allowAbove /\ Cost[m] > Cost[Ask[c.id].model]

\* The climb to tier 2 or 3: a blocked tier 2 still lets tier 3 be considered.
Climb(r) ==
    LET c == req[r]
        i == IF c.phase = "climb2" THEN 2 ELSE 3
        tier == Tiers[i]
        models == IF tier \in DOMAIN TiersOf(r) THEN TiersOf(r)[tier] ELSE << >>
        over == IF i = 2 THEN [c EXCEPT !.phase = "climb3"] ELSE Served(c, c.best)
    IN  /\ c.phase \in {"climb2", "climb3"}
        /\ IF models = << >> \/ c.plan.top < i
           THEN /\ req' = [req EXCEPT ![r] = over]
                /\ UNCHANGED <<rotation, rotated>>
           ELSE \E m \in Models :
                   /\ Chooses(r, models, c.plan.cfg, tier, m)
                   /\ req' = [req EXCEPT ![r] =
                        IF Blocked(c, m) THEN over
                        ELSE [c EXCEPT !.phase = IF i = 2 THEN "tier2" ELSE "tier3",
                                       !.pending = m, !.raised = Raised(Ask[c.id], m)]]
        /\ IF req'[r].phase = "done"
           THEN Measured(c.best.model) ELSE UNCHANGED <<latency, failedAt>>
        /\ UNCHANGED clock

\* The uncapped retry of tier 1: its answer, or the capped one when it fails.
Retry(r) ==
    LET c == req[r] IN
    /\ c.phase = "retry"
    /\ \/ \E kind \in {"whole", "cut"} :
             req' = [req EXCEPT ![r] = RouteAnswered(
                       [c EXCEPT !.calls = Append(@, [model |-> c.best.model, side |-> FALSE])],
                       c.best.model, kind, FALSE)]
       \/ req' = [req EXCEPT ![r] = RouteAnswered(c, c.best.model, c.best.kind, c.best.own)]
    /\ Measured(c.best.model)
    /\ UNCHANGED <<rotation, rotated, clock>>

\* The single call to routed_model (failover is the resilience layer's).
RouteCall(r) ==
    LET c == req[r]
        d == [c EXCEPT !.raised = Raised(Ask[c.id], c.routed)]
    IN  /\ c.phase = "decided" /\ c.plan = None
        /\ UNCHANGED <<rotation, rotated, clock>>
        /\ \/ /\ ~HasKey(Ask[c.id].tenant, c.routed)
              /\ req' = [req EXCEPT ![r].phase = "refused"]
              /\ UNCHANGED <<latency, failedAt>>
           \/ /\ HasKey(Ask[c.id].tenant, c.routed)
              /\ \E kind \in {"whole", "cut"} :
                   req' = [req EXCEPT ![r] = RouteAnswered(
                             [d EXCEPT !.calls = Append(@, [model |-> c.routed, side |-> FALSE])],
                             c.routed, kind, FALSE)]
              /\ Measured(c.routed)
           \/ /\ HasKey(Ask[c.id].tenant, c.routed)
              /\ req' = [req EXCEPT ![r] = [d EXCEPT !.phase = "failed"]]
              /\ \E transient \in BOOLEAN :
                   failedAt' = IF transient THEN [failedAt EXCEPT ![c.routed] = clock] ELSE failedAt
              /\ UNCHANGED latency

RouteTick == clock < MaxRouteTime /\ clock' = clock + 1 /\ UNCHANGED <<req, routeShared>>

NewRequest(i) ==
    [id |-> i, phase |-> "new", routed |-> Ask[i].model, saved |-> Ask[i].model, plan |-> None,
     allowed |-> FALSE, pinned |-> FALSE, swapped |-> FALSE, pending |-> None,
     raised |-> None, best |-> None, calls |-> << >>, served |-> None, step |-> None]

RouteInit ==
    /\ \E ids \in [Routings -> DOMAIN Ask] :
          /\ \A r \in Routings : ids[r] \in Arrives[r]
          /\ req = [r \in Routings |-> NewRequest(ids[r])]
    /\ rotation = [t \in Tenants |-> [i \in TierNames |-> 0]]
    /\ latency = [m \in Models |-> 0]
    /\ failedAt = [m \in Models |-> None]
    /\ clock = 0
    /\ rotated = [t \in Tenants |-> [i \in TierNames |-> [m \in Models |-> 0]]]

RouteNext ==
    \/ \E r \in Routings :
          \/ PassThrough(r) \/ Override(r) \/ RulePins(r) \/ Classify(r)
          \/ StartCascade(r) \/ TierAnswers(r) \/ TierFails(r) \/ Climb(r)
          \/ Retry(r) \/ RouteCall(r)
    \/ RouteTick

RouteSpec == RouteInit /\ [][RouteNext]_routeVars

(***************************************************************************)
(* Properties.                                                             *)
(***************************************************************************)
Done(r) == req[r].phase = "done"

\* The answer never comes from a model dearer than the caller's own, whichever of
\* the cost floor, the cascade's per-hop guards, a blocked middle tier, a rollback
\* and the cascade's error path decided it; the caller's own tier, a rule or a
\* config that allows it, and the default for an unconfigured model excepted.
WithinCost ==
    \A r \in Routings :
        Done(r) /\ ~req[r].allowed /\ ~req[r].swapped =>
            Cost[req[r].served.model] <= Cost[Ask[req[r].id].model]

\* Whatever the cascade tried, rolled back or retried, what a response discloses
\* (routed_model, the routing step, the raise of the output budget) is about the call
\* that was served, not about one that was planned, blocked or failed, and the last
\* call that is not a side call, which G18 prices as the served one, is that call.
DisclosedIsServed ==
    \A r \in Routings :
        Done(r) => LET m == req[r].served.model
                       paid == {k \in DOMAIN req[r].calls : ~req[r].calls[k].side}
                   IN  /\ \E k \in paid : req[r].calls[k].model = m /\ \A j \in paid : j <= k
                       /\ req[r].routed = m /\ req[r].saved = m
                       /\ req[r].raised = Raised(Ask[req[r].id], m)
                       /\ req[r].step = IF m = Ask[req[r].id].model THEN None ELSE m

\* The models a tenant's requests rotate through in each tier.
Rotating ==
    [t \in Tenants |-> [i \in TierNames |->
        UNION {{ResolveTiers(a.cfg, a.model)[i][j] : j \in DOMAIN ResolveTiers(a.cfg, a.model)[i]} :
               a \in {b \in {Ask[k] : k \in DOMAIN Ask} :
                         /\ b.tenant = t
                         /\ b.cfg.strategy = "round_robin"
                         /\ ResolveTiers(b.cfg, b.model) # None
                         /\ i \in DOMAIN ResolveTiers(b.cfg, b.model)}}]]

\* Routings of one tenant that rotate through one tier's models share them evenly,
\* however requests of other tenants and blocked or failed hops come between.
RotationIsFair ==
    \A t \in Tenants, i \in TierNames :
        \A m, n \in Rotating[t][i] : rotated[t][i][m] <= rotated[t][i][n] + 1

=============================================================================
