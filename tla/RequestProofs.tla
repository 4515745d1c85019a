---------------------------- MODULE RequestProofs ----------------------------
(***************************************************************************)
(* Proofs about a request's route, its reasoning and its prefix-cache      *)
(* floor (Routing, ReasoningBudget, CacheFloor), for any number of         *)
(* requests, tenants, models, rules, configurations, sizes and calls. Of   *)
(* Routing: its types, that no answer is dearer than the caller's model,   *)
(* that what is disclosed is what was served, and that a rotation is even. *)
(* Of ReasoningBudget: that what a call reasons by was asked for and, with *)
(* the exemptions CallFits names, fits its provider. Of CacheFloor: that a *)
(* shrink which the floor lets through pays off.                           *)
(*                                                                         *)
(* Requests meet only in the rotation, the latencies and the failure       *)
(* times: but for the rotation, a theorem speaks of one request, whatever  *)
(* the shared state makes of its choices.                                  *)
(***************************************************************************)
EXTENDS Routing, ReasoningBudget, CacheFloor, TLAPS

-----------------------------------------------------------------------------
(* Types *)

Phases == {"new", "decided", "tier1", "tier2", "tier3", "climb2", "climb3", "retry",
           "done", "failed", "refused"}

\* The configurations an ask may be routed under: its own, or that with its rule's
\* overrides, whichever rule the time for patterns lets match.
ConfigsOf(a) ==
    {a.cfg} \cup {EffectiveCfg(a.cfg, MatchFor(a.cfg.rules, a.facts, spent)) :
                  spent \in {n \in 0 .. MaxRules : MatchFor(a.cfg.rules, a.facts, n) # None}}
AllConfigs == UNION {ConfigsOf(Ask[i]) : i \in DOMAIN Ask}

Plan == [tier1 : Models, cfg : AllConfigs, top : 1 .. 3]
Best == [model : Models, kind : {"whole", "poor", "cut"}, own : BOOLEAN]
ServedBy == [model : Models, cut : {"no", "own", "other"}]
Call == [model : Models \cup {None}, side : BOOLEAN]

Request ==
    [id : DOMAIN Ask, phase : Phases, routed : Models, saved : Models,
     plan : Plan \cup {None}, allowed : BOOLEAN, pinned : BOOLEAN, swapped : BOOLEAN,
     pending : Models \cup {None}, raised : Models \cup {None}, best : Best \cup {None},
     calls : Seq(Call), served : ServedBy \cup {None}, step : Models \cup {None}]

RouteType ==
    /\ req \in [Routings -> Request]
    /\ latency \in [Models -> 0 .. MaxLatency]
    /\ failedAt \in [Models -> Nat \cup {None}]
    /\ clock \in Nat

-----------------------------------------------------------------------------
(* A request on its way through the cascade: what it is planned under, what its
   models cost, and which call it would be answered from. *)

Trying == {"tier1", "tier2", "tier3"}
Answering == {"climb2", "tier2", "climb3", "tier3", "retry"}

\* The plan routes under a config of the request that allows what the context says.
PlanHolds(c) ==
    /\ c.phase = "new" => c.plan = None /\ ~c.swapped
    /\ c.phase \in Trying \cup Answering => c.plan # None /\ c.pending \in Models
    /\ c.phase \in Answering => c.best \in Best
    /\ c.phase = "done" => c.served \in ServedBy
    /\ c.plan # None =>
         /\ c.plan.cfg \in ConfigsOf(Ask[c.id])
         /\ ResolveTiers(Ask[c.id].cfg, Ask[c.id].model) # None
         /\ c.allowed <=> c.plan.cfg.allowAbove
         /\ c.phase \in {"decided", "tier1"} => c.plan.tier1 = c.routed

Within(c, m) == ~c.allowed /\ ~c.swapped => Cost[m] <= Cost[Ask[c.id].model]

CostHolds(c) ==
    /\ c.phase \in {"decided", "tier1"} => Within(c, c.routed)
    /\ c.phase \in Trying => Within(c, c.pending)
    /\ c.phase \in Answering => Within(c, c.best.model)
    /\ c.phase = "done" => Within(c, c.served.model)

\* The last call that is not a side call went to m.
LastPaid(calls, m) ==
    \E k \in DOMAIN calls :
        /\ ~calls[k].side /\ calls[k].model = m
        /\ \A j \in DOMAIN calls : j > k => calls[j].side

CallsHold(c) ==
    /\ c.phase \in Answering => LastPaid(c.calls, c.best.model)
    /\ c.phase = "retry" => c.raised = Raised(Ask[c.id], c.best.model)
    /\ c.phase = "done" =>
         LET m == c.served.model
         IN  /\ LastPaid(c.calls, m)
             /\ c.routed = m /\ c.saved = m
             /\ c.raised = Raised(Ask[c.id], m)
             /\ c.step = IF m = Ask[c.id].model THEN None ELSE m

Sound(c) == c \in Request /\ PlanHolds(c) /\ CostHolds(c) /\ CallsHold(c)

RouteInv == RouteType /\ \A r \in Routings : Sound(req[r])

\* What a step of request r leaves: r's own context, sound again.
Leaves(r) == req' = [req EXCEPT ![r] = req'[r]] /\ Sound(req'[r])

-----------------------------------------------------------------------------
(* Choices and calls *)

LEMMA OneConfig == ASSUME NEW i \in DOMAIN Ask PROVE Ask[i].cfg \in ConfigsOf(Ask[i])
  BY DEF ConfigsOf

LEMMA RuleConfig ==
    ASSUME NEW i \in DOMAIN Ask, NEW spent \in 0 .. MaxRules,
           MatchFor(Ask[i].cfg.rules, Ask[i].facts, spent) # None
    PROVE  EffectiveCfg(Ask[i].cfg, MatchFor(Ask[i].cfg.rules, Ask[i].facts, spent))
               \in ConfigsOf(Ask[i])
  BY DEF ConfigsOf

LEMMA TierOrderTyped == ASSUME NEW t \in TierNames PROVE TierOrder(t) \in 1 .. 3
<1>1. \E i \in 1 .. 3 : Tiers[i] = t
  <2>1. Tiers[1] = "simple" /\ Tiers[2] = "medium" /\ Tiers[3] = "complex"
    BY DEF Tiers
  <2> QED
    BY <2>1 DEF TierNames
<1> QED
  BY <1>1 DEF TierOrder

\* 2b and 2c leave a known model, no dearer than the caller's unless that is allowed.
LEMMA GuardedWithin ==
    ASSUME NEW a, a.model \in Models, NEW eff, NEW m \in Models, NEW override \in BOOLEAN
    PROVE  /\ Guarded(a, eff, m, override) \in Models
           /\ ~override /\ ~eff.allowAbove =>
                Cost[Guarded(a, eff, m, override)] <= Cost[a.model]
<1> DEFINE reached == IF m # a.model /\ ~Reachable(a.tenant, m) /\ a.cfg.onUnreachable # "error"
                      THEN a.model ELSE m
           g == Guarded(a, eff, m, override)
<1>1. reached \in Models
  OBVIOUS
<1>2. g \in {a.model, reached}
  BY DEF Guarded
<1>3. \A x, y \in Models : x = y \/ ~(Cost[x] > Cost[y]) => Cost[x] <= Cost[y]
  BY RoutingAssumption
<1>4. ASSUME ~override, ~eff.allowAbove, g # a.model PROVE ~(Cost[reached] > Cost[a.model])
  BY <1>4, Zenon DEF Guarded
<1> HIDE DEF g, reached
<1>5. ~override /\ ~eff.allowAbove => Cost[g] <= Cost[a.model]
  BY <1>1, <1>2, <1>3, <1>4
<1> QED
  BY <1>1, <1>2, <1>5 DEF g

LEMMA SidesTyped ==
    ASSUME NEW n \in Nat
    PROVE  /\ SideCalls(n) \in Seq(Call) /\ Len(SideCalls(n)) = n
           /\ \A i \in 1 .. n : SideCalls(n)[i].side
  BY DEF SideCalls, Call

LEMMA OutcomesTyped ==
    ASSUME NEW a, NEW eff, NEW o \in ClassifierOutcomes(a, eff) PROVE o[2] \in Nat
<1>1. \A x \in JudgeOutcomes(a) : x[2] \in Nat
  BY DEF JudgeOutcomes
<1>2. \A x \in CascadeOutcomes(a, eff) : x[2] \in Nat
  BY <1>1 DEF CascadeOutcomes
<1>3. \A x \in RouteLLMOutcomes(a, eff) : x[2] \in Nat
  BY DEF RouteLLMOutcomes
<1>4. \A x \in JevOutcomes(a, eff) : x[2] \in Nat
  BY <1>2 DEF JevOutcomes
<1> QED
  BY <1>1, <1>2, <1>3, <1>4 DEF ClassifierOutcomes

\* A call that is paid for, and the side calls after it.
LEMMA PaidLast ==
    ASSUME NEW calls \in Seq(Call), NEW m \in Models, NEW n \in Nat
    PROVE  LET paid == Append(calls, [model |-> m, side |-> FALSE]) \o SideCalls(n)
           IN  paid \in Seq(Call) /\ LastPaid(paid, m)
<1> DEFINE one == [model |-> m, side |-> FALSE]
           paid == Append(calls, one) \o SideCalls(n)
           k == Len(calls) + 1
<1>1. one \in Call /\ ~one.side /\ one.model = m
  BY DEF Call
<1>2. SideCalls(n) \in Seq(Call) /\ Len(SideCalls(n)) = n /\ \A i \in 1 .. n : SideCalls(n)[i].side
  BY SidesTyped
<1> HIDE DEF one
<1>3. paid \in Seq(Call) /\ Len(paid) = k + n
  BY <1>1, <1>2
<1>4. paid[k] = one
  BY <1>1, <1>2
<1>5. \A j \in 1 .. k + n : j > k => paid[j] = SideCalls(n)[j - k]
  BY <1>1, <1>2
<1>6. \A j \in DOMAIN paid : j > k => paid[j].side
  <2>1. DOMAIN paid = 1 .. k + n
    BY <1>3
  <2>2. ASSUME NEW j \in 1 .. k + n, j > k PROVE j - k \in 1 .. n
    BY <2>2
  <2> QED
    BY <1>2, <1>5, <2>1, <2>2
<1>7. k \in DOMAIN paid
  BY <1>3
<1> QED
  BY <1>1, <1>3, <1>4, <1>6, <1>7 DEF LastPaid, one

LEMMA PaidAlone ==
    ASSUME NEW calls \in Seq(Call), NEW m \in Models
    PROVE  LET paid == Append(calls, [model |-> m, side |-> FALSE])
           IN  paid \in Seq(Call) /\ LastPaid(paid, m)
<1> DEFINE one == [model |-> m, side |-> FALSE]
           paid == Append(calls, one)
<1>1. one \in Call /\ ~one.side /\ one.model = m
  BY DEF Call
<1> HIDE DEF one
<1>2. paid \in Seq(Call) /\ Len(paid) = Len(calls) + 1 /\ paid[Len(calls) + 1] = one
  BY <1>1
<1> QED
  BY <1>1, <1>2 DEF LastPaid, one

LEMMA RaisedTyped ==
    ASSUME NEW a, NEW m \in Models PROVE Raised(a, m) \in Models \cup {None}
  BY DEF Raised

-----------------------------------------------------------------------------
(* What process_request decides *)

LEMMA AskTyped ==
    ASSUME RouteInv, NEW r \in Routings
    PROVE  /\ req[r] \in Request /\ req[r].id \in DOMAIN Ask
           /\ Ask[req[r].id].model \in Models /\ Ask[req[r].id].heuristic \in TierNames
           /\ Sound(req[r])
  BY RoutingAssumption DEF RouteInv, Sound, Request

\* A decision under one of the request's configs, with a plan or without.
LEMMA DecidedSound ==
    ASSUME RouteInv, NEW r \in Routings, Routes(r),
           NEW eff \in ConfigsOf(Ask[req[r].id]), NEW m \in Models, NEW override \in BOOLEAN,
           NEW plan, plan = None \/ (plan \in Plan /\ plan.cfg = eff /\ ~override)
    PROVE  LET d == Decided(r, Ask[req[r].id], eff, m, override, plan)
           IN  Sound(d) /\ d.phase = "decided" /\ d.calls = req[r].calls
<1> DEFINE c == req[r]
           a == Ask[c.id]
           kept == Guarded(a, eff, m, override)
           d == Decided(r, a, eff, m, override, plan)
           p == IF plan # None /\ kept = plan.tier1 THEN plan ELSE None
           free == override \/ eff.allowAbove
<1>1. c \in Request /\ c.id \in DOMAIN Ask /\ a.model \in Models /\ c.phase = "new"
      /\ Sound(c)
  BY AskTyped DEF Routes
<1>2. kept \in Models /\ (~override /\ ~eff.allowAbove => Cost[kept] <= Cost[a.model])
  BY <1>1, GuardedWithin
<1>3. d = [c EXCEPT !.routed = kept, !.saved = kept, !.plan = p, !.allowed = free,
                    !.phase = "decided"]
  BY DEF Decided
<1>4. ResolveTiers(a.cfg, a.model) # None
  BY DEF Routes
<1>5. p \in Plan \cup {None} /\ free \in BOOLEAN
      /\ (p # None => p.cfg = eff /\ ~override /\ p.tier1 = kept)
  OBVIOUS
<1>6. ~c.swapped
  BY <1>1 DEF Sound, PlanHolds
<1> HIDE DEF kept, p, free, c, d
<1>7. d \in Request /\ d.id = c.id /\ d.phase = "decided" /\ d.routed = kept /\ d.plan = p
      /\ d.allowed = free /\ d.swapped = c.swapped /\ d.calls = c.calls
  <2>1. d.id = c.id /\ d.phase = "decided" /\ d.routed = kept /\ d.plan = p
      /\ d.allowed = free /\ d.swapped = c.swapped /\ d.calls = c.calls
    BY <1>1, <1>2, <1>3, <1>5 DEF Request, Phases
  <2>2. d \in Request
    BY ZenonT(40), <1>1, <1>2, <1>3, <1>5 DEF Request, Phases
  <2> QED
    BY <2>1, <2>2
<1>8. free <=> override \/ eff.allowAbove
  BY DEF free
<1> HIDE DEF a
<1>9. PlanHolds(d)
  BY <1>4, <1>5, <1>7, <1>8 DEF PlanHolds, a, c, Trying, Answering
<1>10. CostHolds(d)
  BY <1>2, <1>7, <1>8 DEF CostHolds, Within, a, c, Trying, Answering
<1>11. CallsHold(d)
  BY <1>7 DEF CallsHold, Answering
<1> QED
  BY <1>7, <1>9, <1>10, <1>11 DEF Sound, a, c, d

LEMMA PassThroughSound ==
    ASSUME RouteInv, NEW r \in Routings, PassThrough(r) PROVE Leaves(r)
<1> DEFINE c == req[r]
           a == Ask[c.id]
           swap == /\ ~a.cfg.enabled \/ TiersOf(r) = << >>
                   /\ a.model \notin Configured
                   /\ DefaultModel # None
           m == IF swap THEN DefaultModel ELSE a.model
           d == [c EXCEPT !.phase = "decided", !.routed = m, !.saved = m, !.swapped = swap]
<1>1. c \in Request /\ a.model \in Models /\ Sound(c)
  BY AskTyped
<1>2. c.phase = "new" /\ req' = [req EXCEPT ![r] = d]
  BY DEF PassThrough
<1>3. m \in Models /\ swap \in BOOLEAN /\ (~swap => m = a.model)
  BY <1>1, RoutingAssumption
<1> HIDE DEF swap, m
<1>4. d \in Request /\ d.id = c.id /\ d.phase = "decided" /\ d.routed = m /\ d.plan = c.plan
      /\ d.swapped = swap
  <2>1. d.id = c.id /\ d.phase = "decided" /\ d.routed = m /\ d.plan = c.plan
      /\ d.swapped = swap
    BY <1>1, <1>3 DEF Request, Phases
  <2>2. d \in Request
    BY ZenonT(40), <1>1, <1>3 DEF Request, Phases
  <2> QED
    BY <2>1, <2>2
<1>5. req'[r] = d
  BY <1>2 DEF RouteInv, RouteType
<1>6. c.plan = None
  BY <1>1, <1>2 DEF Sound, PlanHolds
<1>7. PlanHolds(d)
  BY <1>4, <1>6 DEF PlanHolds, Trying, Answering
<1>8. Cost[a.model] <= Cost[a.model]
  BY <1>1, RoutingAssumption
<1>9. CostHolds(d)
  BY <1>3, <1>4, <1>8 DEF CostHolds, Within, Trying, Answering
<1>10. CallsHold(d)
  BY <1>4 DEF CallsHold, Answering
<1> HIDE DEF d
<1> QED
  BY <1>2, <1>4, <1>5, <1>7, <1>9, <1>10 DEF Leaves, Sound

LEMMA OverrideSound ==
    ASSUME RouteInv, NEW r \in Routings, Override(r) PROVE Leaves(r)
<1> DEFINE a == Ask[req[r].id]
           models == IF a.complexity \in DOMAIN TiersOf(r) THEN TiersOf(r)[a.complexity] ELSE << >>
<1>1. PICK m \in Models :
        req' = [req EXCEPT ![r] = Decided(r, a, a.cfg, m, models # << >>, None)]
  BY DEF Override
<1>2. Routes(r) /\ req[r].id \in DOMAIN Ask
  BY AskTyped DEF Override
<1>3. a.cfg \in ConfigsOf(a) /\ (models # << >>) \in BOOLEAN
  BY <1>2, OneConfig
<1> HIDE DEF models
<1>4. Sound(Decided(r, a, a.cfg, m, models # << >>, None))
  BY <1>2, <1>3, DecidedSound
<1> QED
  BY <1>1, <1>4 DEF Leaves, RouteInv, RouteType

LEMMA RulePinsSound ==
    ASSUME RouteInv, NEW r \in Routings, RulePins(r) PROVE Leaves(r)
<1> DEFINE a == Ask[req[r].id]
           rule(spent) == MatchFor(a.cfg.rules, a.facts, spent)
           eff(spent) == EffectiveCfg(a.cfg, rule(spent))
<1>1. PICK spent \in 0 .. MaxRules, m \in Models :
        /\ Routes(r) /\ rule(spent) # None
        /\ req' = [req EXCEPT ![r] = [Decided(r, a, eff(spent), m, FALSE, None)
                                        EXCEPT !.pinned = rule(spent).model # None]]
  BY Zenon DEF RulePins
<1>2. req[r].id \in DOMAIN Ask
  BY AskTyped
<1>3. eff(spent) \in ConfigsOf(a)
  BY <1>1, <1>2, RuleConfig
<1> DEFINE d == Decided(r, a, eff(spent), m, FALSE, None)
           e == [d EXCEPT !.pinned = rule(spent).model # None]
<1>4. Sound(d) /\ d.phase = "decided"
  BY <1>1, <1>3, DecidedSound
<1>5. (rule(spent).model # None) \in BOOLEAN
  OBVIOUS
<1>6. req'[r] = e /\ req' = [req EXCEPT ![r] = e]
  BY <1>1 DEF RouteInv, RouteType
<1> HIDE DEF d, rule
<1>7. e \in Request /\ e.id = d.id /\ e.phase = d.phase /\ e.plan = d.plan /\ e.routed = d.routed
      /\ e.allowed = d.allowed /\ e.swapped = d.swapped
  <2>1. e.id = d.id /\ e.phase = d.phase /\ e.plan = d.plan /\ e.routed = d.routed
      /\ e.allowed = d.allowed /\ e.swapped = d.swapped
    BY <1>4, <1>5 DEF Sound, Request
  <2>2. e \in Request
    BY ZenonT(40), <1>4, <1>5 DEF Sound, Request
  <2> QED
    BY <2>1, <2>2
<1> HIDE DEF e
<1>8. PlanHolds(e)
  BY <1>4, <1>7 DEF Sound, PlanHolds, Trying, Answering
<1>9. CostHolds(e)
  BY <1>4, <1>7 DEF Sound, CostHolds, Within, Trying, Answering
<1>10. CallsHold(e)
  BY <1>4, <1>7 DEF CallsHold, Answering
<1> QED
  BY <1>6, <1>7, <1>8, <1>9, <1>10 DEF Leaves, Sound

LEMMA ClassifySound ==
    ASSUME RouteInv, NEW r \in Routings, Classify(r) PROVE Leaves(r)
<1> DEFINE a == Ask[req[r].id]
           rule(spent) == MatchFor(a.cfg.rules, a.facts, spent)
           eff(spent) == IF rule(spent) = None THEN a.cfg ELSE EffectiveCfg(a.cfg, rule(spent))
           plan(e, m) == [tier1 |-> m, cfg |-> e,
                          top |-> IF e.capped THEN TierOrder(a.heuristic) ELSE 3]
<1>1. PICK spent \in 0 .. MaxRules :
        /\ Routes(r)
        /\ \/ \E m \in Models :
                req' = [req EXCEPT ![r] = Decided(r, a, eff(spent), m, FALSE, plan(eff(spent), m))]
           \/ \E o \in ClassifierOutcomes(a, eff(spent)), m \in Models :
                req' = [req EXCEPT ![r] = [Decided(r, a, eff(spent), m, FALSE, None)
                                             EXCEPT !.calls = @ \o SideCalls(o[2])]]
  BY ZenonT(30) DEF Classify
<1>2. req[r].id \in DOMAIN Ask /\ a.heuristic \in TierNames
  BY AskTyped
<1>3. eff(spent) \in ConfigsOf(a) /\ eff(spent) \in AllConfigs
  <2>1. eff(spent) \in ConfigsOf(a)
    BY <1>2, RuleConfig, OneConfig
  <2> QED
    BY <1>2, <2>1 DEF AllConfigs
<1> HIDE DEF rule, eff
<1>4. CASE \E m \in Models :
             req' = [req EXCEPT ![r] = Decided(r, a, eff(spent), m, FALSE, plan(eff(spent), m))]
  <2>1. PICK m \in Models :
          req' = [req EXCEPT ![r] = Decided(r, a, eff(spent), m, FALSE, plan(eff(spent), m))]
    BY <1>4
  <2> DEFINE p == plan(eff(spent), m)
  <2>2. p \in Plan /\ p.cfg = eff(spent)
    BY <1>2, <1>3, TierOrderTyped DEF Plan
  <2> HIDE DEF p
  <2>3. Sound(Decided(r, a, eff(spent), m, FALSE, p))
    BY <1>1, <1>3, <2>2, DecidedSound
  <2> USE DEF p
  <2> QED
    BY <2>1, <2>3 DEF Leaves, RouteInv, RouteType
<1>5. CASE \E o \in ClassifierOutcomes(a, eff(spent)), m \in Models :
             req' = [req EXCEPT ![r] = [Decided(r, a, eff(spent), m, FALSE, None)
                                          EXCEPT !.calls = @ \o SideCalls(o[2])]]
  <2>1. PICK o \in ClassifierOutcomes(a, eff(spent)), m \in Models :
          req' = [req EXCEPT ![r] = [Decided(r, a, eff(spent), m, FALSE, None)
                                       EXCEPT !.calls = @ \o SideCalls(o[2])]]
    BY <1>5
  <2> DEFINE d == Decided(r, a, eff(spent), m, FALSE, None)
             e == [d EXCEPT !.calls = @ \o SideCalls(o[2])]
  <2>2. Sound(d) /\ d.phase = "decided"
    BY ZenonT(40), <1>1, <1>3, DecidedSound
  <2>3. SideCalls(o[2]) \in Seq(Call)
    BY OutcomesTyped, SidesTyped
  <2>4. req'[r] = e /\ req' = [req EXCEPT ![r] = e]
    BY <2>1 DEF RouteInv, RouteType
  <2> HIDE DEF d
  <2>5. d.calls \o SideCalls(o[2]) \in Seq(Call)
    BY <2>2, <2>3 DEF Sound, Request
  <2>6. e \in Request /\ e.id = d.id /\ e.phase = d.phase /\ e.plan = d.plan /\ e.routed = d.routed
        /\ e.allowed = d.allowed /\ e.swapped = d.swapped
    BY <2>2, <2>5 DEF Sound, Request
  <2> HIDE DEF e
  <2>7. PlanHolds(e)
    BY <2>2, <2>6 DEF Sound, PlanHolds, Trying, Answering
  <2>8. CostHolds(e)
    BY <2>2, <2>6 DEF Sound, CostHolds, Within, Trying, Answering
  <2>9. CallsHold(e)
    BY <2>2, <2>6 DEF CallsHold, Answering
  <2> QED
    BY <2>4, <2>6, <2>7, <2>8, <2>9 DEF Leaves, Sound
<1> QED
  BY <1>1, <1>4, <1>5

-----------------------------------------------------------------------------
(* The cascade and the normal call *)

\* An answer from m goes out of a context that was raised for m and last paid it.
LEMMA AnsweredSound ==
    ASSUME NEW c \in Request, NEW m \in Models, NEW kind, NEW own, PlanHolds(c), Within(c, m),
           LastPaid(c.calls, m), c.raised = Raised(Ask[c.id], m)
    PROVE  Sound(RouteAnswered(c, m, kind, own)) /\ RouteAnswered(c, m, kind, own).phase = "done"
<1> DEFINE s == [model |-> m, cut |-> IF kind # "cut" THEN "no" ELSE IF own THEN "own" ELSE "other"]
           told == IF m = Ask[c.id].model THEN None ELSE m
           d == RouteAnswered(c, m, kind, own)
<1>1. s \in ServedBy /\ s.model = m /\ told \in Models \cup {None}
  BY DEF ServedBy
<1>2. d = [c EXCEPT !.phase = "done", !.routed = m, !.saved = m, !.served = s, !.step = told]
  BY DEF RouteAnswered
<1> HIDE DEF s, told, d
<1>3. d \in Request /\ d.phase = "done" /\ d.id = c.id /\ d.routed = m /\ d.saved = m
      /\ d.served = s /\ d.step = told /\ d.plan = c.plan /\ d.allowed = c.allowed
      /\ d.swapped = c.swapped /\ d.calls = c.calls /\ d.raised = c.raised
  <2>1. d.phase = "done" /\ d.id = c.id /\ d.routed = m /\ d.saved = m
        /\ d.served = s /\ d.step = told /\ d.plan = c.plan /\ d.allowed = c.allowed
        /\ d.swapped = c.swapped /\ d.calls = c.calls /\ d.raised = c.raised
    BY <1>2 DEF Request
  <2>2. d \in Request
    BY ZenonT(40), <1>1, <1>2 DEF Request, Phases
  <2> QED
    BY <2>1, <2>2
<1>4. PlanHolds(d)
  BY <1>1, <1>3 DEF PlanHolds, Trying, Answering
<1>5. CostHolds(d)
  BY <1>1, <1>3 DEF CostHolds, Within, Trying, Answering
<1>6. CallsHold(d)
  BY <1>1, <1>3 DEF CallsHold, Answering, told
<1> QED
  BY <1>3, <1>4, <1>5, <1>6 DEF Sound, d

\* _serve: the best answer goes out, or is asked for again.
LEMMA ServedSound ==
    ASSUME NEW c \in Request, NEW best \in Best, PlanHolds(c), c.plan # None, c.pending \in Models,
           Within(c, best.model), LastPaid(c.calls, best.model)
    PROVE  Sound(Served(c, best))
<1> DEFINE raise == Raised(Ask[c.id], best.model)
           d == [c EXCEPT !.raised = raise, !.best = best]
           e == [d EXCEPT !.phase = "retry"]
           again == best.model = c.plan.tier1 /\ OwnCap(c) /\ c.plan.cfg.retry /\ best.kind = "cut"
<1>1. Served(c, best) = IF again THEN e ELSE RouteAnswered(d, best.model, best.kind, best.own)
  BY DEF Served
<1>2. best.model \in Models /\ raise \in Models \cup {None}
  BY RaisedTyped DEF Best
<1> HIDE DEF raise, again
<1>3. d \in Request /\ d.id = c.id /\ d.phase = c.phase /\ d.plan = c.plan /\ d.routed = c.routed
      /\ d.allowed = c.allowed /\ d.swapped = c.swapped /\ d.calls = c.calls /\ d.raised = raise
      /\ d.best = best /\ d.pending = c.pending /\ d.served = c.served
  BY <1>2 DEF Request
<1> HIDE DEF d
<1>4. PlanHolds(d) /\ Within(d, best.model)
  BY <1>3 DEF PlanHolds, Within
<1>5. Sound(RouteAnswered(d, best.model, best.kind, best.own))
  BY <1>2, <1>3, <1>4, AnsweredSound DEF raise
<1>6. e \in Request /\ e.phase = "retry" /\ e.id = d.id /\ e.plan = d.plan /\ e.allowed = d.allowed
      /\ e.swapped = d.swapped /\ e.calls = d.calls /\ e.raised = raise /\ e.best = best
      /\ e.pending = d.pending
  BY <1>3 DEF Request, Phases
<1> HIDE DEF e
<1>7. PlanHolds(e)
  BY <1>3, <1>4, <1>6 DEF PlanHolds, Trying, Answering
<1>8. CostHolds(e)
  BY <1>4, <1>6 DEF CostHolds, Within, Trying, Answering
<1>9. CallsHold(e)
  BY <1>3, <1>6 DEF CallsHold, Answering, raise
<1> QED
  BY <1>1, <1>5, <1>6, <1>7, <1>8, <1>9 DEF Sound

\* The cascade's error path: the caller's model, or the model kept, which is not dearer.
LEMMA ErroredSound ==
    ASSUME NEW c \in Request, Ask[c.id].model \in Models, PlanHolds(c), c.phase \in {"decided", "tier1"},
           Within(c, c.routed)
    PROVE  Sound(CascadeErrored(c))
<1> DEFINE m == IF c.routed = c.plan.tier1 THEN Ask[c.id].model ELSE c.routed
           d == CascadeErrored(c)
<1>1. m \in Models /\ m \in {c.routed, Ask[c.id].model}
  BY DEF Request
<1>2. d = [c EXCEPT !.phase = "decided", !.plan = None, !.routed = m, !.saved = m, !.raised = None]
  BY DEF CascadeErrored
<1> HIDE DEF m, d
<1>3. d \in Request /\ d.phase = "decided" /\ d.id = c.id /\ d.plan = None /\ d.routed = m
      /\ d.allowed = c.allowed /\ d.swapped = c.swapped
  BY <1>1, <1>2 DEF Request, Phases
<1>4. PlanHolds(d)
  BY <1>3 DEF PlanHolds, Trying, Answering
<1>5. Cost[Ask[c.id].model] <= Cost[Ask[c.id].model]
  BY RoutingAssumption
<1>6. CostHolds(d)
  BY <1>1, <1>3, <1>5 DEF CostHolds, Within, Trying, Answering
<1>7. CallsHold(d)
  BY <1>3 DEF CallsHold, Answering
<1> QED
  BY <1>3, <1>4, <1>6, <1>7 DEF Sound, d

LEMMA StartCascadeSound ==
    ASSUME RouteInv, NEW r \in Routings, StartCascade(r) PROVE Leaves(r)
<1> DEFINE c == req[r]
           m == c.plan.tier1
           d == [c EXCEPT !.phase = "tier1", !.pending = m, !.raised = Raised(Ask[c.id], m)]
<1>1. c \in Request /\ Ask[c.id].model \in Models /\ Sound(c)
  BY AskTyped
<1>2. c.phase = "decided" /\ c.plan # None
      /\ req' = [req EXCEPT ![r] = IF HasKey(Ask[c.id].tenant, m) THEN d ELSE CascadeErrored(c)]
  BY DEF StartCascade
<1>3. c.plan \in Plan /\ m \in Models /\ m = c.routed /\ Within(c, c.routed) /\ PlanHolds(c)
  BY <1>1, <1>2 DEF Request, Plan, Sound, PlanHolds, CostHolds
<1>4. Sound(CascadeErrored(c))
  BY <1>1, <1>2, <1>3, ErroredSound
<1>5. Raised(Ask[c.id], m) \in Models \cup {None}
  BY <1>3, RaisedTyped
<1> HIDE DEF m, c
<1>6. d \in Request /\ d.phase = "tier1" /\ d.id = c.id /\ d.plan = c.plan /\ d.pending = m
      /\ d.allowed = c.allowed /\ d.swapped = c.swapped /\ d.routed = c.routed
  <2>1. d.phase = "tier1" /\ d.id = c.id /\ d.plan = c.plan /\ d.pending = m
      /\ d.allowed = c.allowed /\ d.swapped = c.swapped /\ d.routed = c.routed
    BY <1>1, <1>3, <1>5 DEF Request, Phases
  <2>2. d \in Request
    BY ZenonT(40), <1>1, <1>3, <1>5 DEF Request, Phases
  <2> QED
    BY <2>1, <2>2
<1> HIDE DEF d
<1>7. PlanHolds(d)
  BY <1>2, <1>3, <1>6 DEF PlanHolds, Trying, Answering
<1>8. CostHolds(d)
  BY <1>3, <1>6 DEF CostHolds, Within, Trying, Answering
<1>9. CallsHold(d)
  BY <1>6 DEF CallsHold, Answering
<1>10. Sound(d)
  BY <1>6, <1>7, <1>8, <1>9 DEF Sound
<1> USE DEF c
<1> HIDE DEF m
<1> QED
  BY <1>2, <1>4, <1>10 DEF Leaves, RouteInv, RouteType

LEMMA TierAnswersSound ==
    ASSUME RouteInv, NEW r \in Routings, TierAnswers(r) PROVE Leaves(r)
<1> DEFINE c == req[r]
           m == c.pending
           paid(n) == Append(c.calls, [model |-> m, side |-> FALSE]) \o SideCalls(n)
           d(kind, n) == [c EXCEPT !.calls = paid(n), !.best = Tried(c, kind)]
           next == IF c.phase = "tier1" THEN "climb2" ELSE "climb3"
<1>1. PICK kind \in {"whole", "poor", "cut"}, good \in BOOLEAN, judged \in {0, 1} :
        req' = [req EXCEPT ![r] = IF good THEN Served(d(kind, judged), Tried(c, kind))
                                  ELSE [d(kind, judged) EXCEPT !.phase = next]]
  BY ZenonT(30) DEF TierAnswers
<1>2. c \in Request /\ Sound(c) /\ c.phase \in Trying
  BY AskTyped DEF TierAnswers, Trying
<1>3. m \in Models /\ c.plan # None /\ Within(c, m) /\ c.calls \in Seq(Call) /\ PlanHolds(c)
  BY <1>2 DEF Sound, PlanHolds, CostHolds, Request
<1> DEFINE p == paid(judged)
           b == Tried(c, kind)
<1>4. p \in Seq(Call) /\ LastPaid(p, m)
  BY <1>3, PaidLast
<1>5. b \in Best /\ b.model = m
  <2>1. (c.phase = "tier1" /\ OwnCap(c)) \in BOOLEAN
    OBVIOUS
  <2> HIDE DEF m
  <2> QED
    BY <1>3, <2>1 DEF Best, Tried, m
<1> HIDE DEF p, b
<1> DEFINE e == [c EXCEPT !.calls = p, !.best = b]
           f == [e EXCEPT !.phase = next]
<1>6. e \in Request /\ e.id = c.id /\ e.phase = c.phase /\ e.plan = c.plan /\ e.pending = m
      /\ e.allowed = c.allowed /\ e.swapped = c.swapped /\ e.calls = p /\ e.best = b
      /\ e.routed = c.routed /\ e.served = c.served
  BY <1>2, <1>3, <1>4, <1>5 DEF Request
<1>7. req' = [req EXCEPT ![r] = IF good THEN Served(e, b) ELSE f]
  BY <1>1 DEF p, b
<1> HIDE DEF e, c, m
<1>8. PlanHolds(e) /\ Within(e, b.model) /\ LastPaid(e.calls, b.model)
  BY <1>2, <1>3, <1>4, <1>5, <1>6 DEF PlanHolds, Within
<1>9. Sound(Served(e, b))
  BY <1>3, <1>5, <1>6, <1>8, ServedSound
<1>10. next \in {"climb2", "climb3"}
  OBVIOUS
<1> HIDE DEF next
<1>11. f \in Request /\ f.id = e.id /\ f.phase = next /\ f.plan = e.plan /\ f.pending = e.pending
      /\ f.allowed = e.allowed /\ f.swapped = e.swapped /\ f.calls = e.calls /\ f.best = e.best
  BY <1>6, <1>10 DEF Request, Phases
<1> HIDE DEF f
<1>12. PlanHolds(f)
  BY <1>2, <1>3, <1>5, <1>6, <1>8, <1>10, <1>11 DEF PlanHolds, Trying, Answering
<1>13. CostHolds(f)
  BY <1>6, <1>8, <1>10, <1>11 DEF CostHolds, Within, Trying, Answering
<1>14. CallsHold(f)
  BY <1>6, <1>8, <1>10, <1>11 DEF CallsHold, Answering
<1>15. Sound(f)
  BY <1>11, <1>12, <1>13, <1>14 DEF Sound
<1> QED
  BY <1>7, <1>9, <1>15 DEF Leaves, RouteInv, RouteType

LEMMA TierFailsSound ==
    ASSUME RouteInv, NEW r \in Routings, TierFails(r) PROVE Leaves(r)
<1> DEFINE c == req[r]
           d == IF c.phase = "tier1" THEN CascadeErrored(c) ELSE Served(c, c.best)
<1>1. c \in Request /\ Sound(c) /\ c.phase \in Trying /\ Ask[c.id].model \in Models
  BY AskTyped DEF TierFails, Trying
<1>2. req' = [req EXCEPT ![r] = d]
  BY DEF TierFails
<1>3. PlanHolds(c) /\ CostHolds(c) /\ CallsHold(c) /\ c.plan # None /\ c.pending \in Models
  BY <1>1 DEF Sound, PlanHolds
<1>4. Sound(d)
  <2>1. CASE c.phase = "tier1"
    <3>1. Sound(CascadeErrored(c))
      BY <1>1, <1>3, <2>1, ErroredSound DEF PlanHolds, CostHolds
    <3> QED
      BY <2>1, <3>1
  <2>2. CASE c.phase # "tier1"
    <3>1. c.phase \in Answering
      BY <1>1, <2>2 DEF Trying, Answering
    <3>2. c.best \in Best /\ Within(c, c.best.model) /\ LastPaid(c.calls, c.best.model)
      BY <1>3, <3>1 DEF PlanHolds, CostHolds, CallsHold
    <3>3. Sound(Served(c, c.best))
      BY <1>1, <1>3, <3>2, ServedSound
    <3> QED
      BY <2>2, <3>3
  <2> QED
    BY <2>1, <2>2
<1> HIDE DEF d
<1> QED
  BY <1>2, <1>4 DEF Leaves, RouteInv, RouteType

\* A hop that is not blocked stays within the caller's cost.
LEMMA HopWithin ==
    ASSUME NEW c \in Request, NEW m \in Models, PlanHolds(c), c.plan # None,
           Ask[c.id].model \in Models, ~Blocked(c, m)
    PROVE  Within(c, m)
<1>1. Cost[m] \in Nat /\ Cost[Ask[c.id].model] \in Nat
  BY RoutingAssumption
<1>2. c.allowed <=> c.plan.cfg.allowAbove
  BY DEF PlanHolds
<1>3. ~c.plan.cfg.allowAbove => ~(Cost[m] > Cost[Ask[c.id].model])
  BY DEF Blocked
<1> QED
  BY <1>1, <1>2, <1>3 DEF Within

LEMMA ClimbSound ==
    ASSUME RouteInv, NEW r \in Routings, Climb(r) PROVE Leaves(r)
<1> DEFINE c == req[r]
           i == IF c.phase = "climb2" THEN 2 ELSE 3
           up == [c EXCEPT !.phase = "climb3"]
           over == IF i = 2 THEN up ELSE Served(c, c.best)
           to == IF i = 2 THEN "tier2" ELSE "tier3"
           hop(m) == [c EXCEPT !.phase = to, !.pending = m, !.raised = Raised(Ask[c.id], m)]
<1>1. c \in Request /\ Sound(c) /\ Ask[c.id].model \in Models
      /\ c.phase \in {"climb2", "climb3"}
  BY AskTyped DEF Climb
<1>2. PlanHolds(c) /\ CostHolds(c) /\ CallsHold(c) /\ c.plan # None /\ c.pending \in Models
      /\ c.best \in Best /\ Within(c, c.best.model) /\ LastPaid(c.calls, c.best.model)
  BY <1>1 DEF Sound, PlanHolds, CostHolds, CallsHold, Trying, Answering
<1>3. \/ req' = [req EXCEPT ![r] = over]
      \/ \E m \in Models : ~Blocked(c, m) /\ req' = [req EXCEPT ![r] = hop(m)]
  BY Zenon DEF Climb
<1>4. Sound(over)
  <2>1. up \in Request /\ up.id = c.id /\ up.phase = "climb3" /\ up.plan = c.plan
        /\ up.pending = c.pending /\ up.best = c.best /\ up.allowed = c.allowed
        /\ up.swapped = c.swapped /\ up.calls = c.calls
    BY <1>1 DEF Request, Phases
  <2>2. Sound(Served(c, c.best))
    BY <1>1, <1>2, ServedSound
  <2> HIDE DEF up, c
  <2>3. PlanHolds(up)
    BY <1>2, <2>1 DEF PlanHolds, Trying, Answering
  <2>4. CostHolds(up)
    BY <1>2, <2>1 DEF CostHolds, Within, Trying, Answering
  <2>5. CallsHold(up)
    BY <1>2, <2>1 DEF CallsHold, Answering
  <2> QED
    BY <2>1, <2>2, <2>3, <2>4, <2>5 DEF Sound
<1>5. ASSUME NEW m \in Models, ~Blocked(c, m) PROVE Sound(hop(m))
  <2> DEFINE d == hop(m)
  <2>1. Within(c, m)
    BY <1>1, <1>2, <1>5, HopWithin
  <2>2. Raised(Ask[c.id], m) \in Models \cup {None} /\ to \in {"tier2", "tier3"}
    BY RaisedTyped
  <2> HIDE DEF to
  <2>3. d \in Request /\ d.id = c.id /\ d.phase = to /\ d.plan = c.plan /\ d.pending = m
        /\ d.best = c.best /\ d.allowed = c.allowed /\ d.swapped = c.swapped /\ d.calls = c.calls
    BY <1>1, <2>2 DEF Request, Phases
  <2> HIDE DEF d, c
  <2>4. PlanHolds(d)
    BY <1>2, <2>2, <2>3 DEF PlanHolds, Trying, Answering
  <2>5. CostHolds(d)
    BY <1>2, <2>1, <2>2, <2>3 DEF CostHolds, Within, Trying, Answering
  <2>6. CallsHold(d)
    BY <1>2, <2>2, <2>3 DEF CallsHold, Answering
  <2>7. Sound(d)
    BY <2>3, <2>4, <2>5, <2>6 DEF Sound
  <2> QED
    BY <2>7 DEF d
<1> HIDE DEF over, hop
<1> QED
  BY <1>3, <1>4, <1>5 DEF Leaves, RouteInv, RouteType

LEMMA RetrySound ==
    ASSUME RouteInv, NEW r \in Routings, Retry(r) PROVE Leaves(r)
<1> DEFINE c == req[r]
           m == c.best.model
           paid == Append(c.calls, [model |-> m, side |-> FALSE])
           d == [c EXCEPT !.calls = paid]
<1>1. c \in Request /\ Sound(c) /\ c.phase = "retry"
  BY AskTyped DEF Retry
<1>2. PlanHolds(c) /\ c.best \in Best /\ Within(c, m) /\ LastPaid(c.calls, m)
      /\ c.raised = Raised(Ask[c.id], m)
  BY <1>1 DEF Sound, PlanHolds, CostHolds, CallsHold, Answering
<1>3. m \in Models /\ c.calls \in Seq(Call)
  BY <1>1, <1>2 DEF Best, Request
<1>4. \/ \E kind \in {"whole", "cut"} :
            req' = [req EXCEPT ![r] = RouteAnswered(d, m, kind, FALSE)]
      \/ req' = [req EXCEPT ![r] = RouteAnswered(c, m, c.best.kind, c.best.own)]
  BY DEF Retry
<1>5. paid \in Seq(Call) /\ LastPaid(paid, m)
  BY <1>3, PaidAlone
<1>6. Sound(RouteAnswered(c, m, c.best.kind, c.best.own))
  BY <1>1, <1>2, <1>3, AnsweredSound
<1> HIDE DEF paid, m
<1>7. d \in Request /\ d.id = c.id /\ d.phase = c.phase /\ d.plan = c.plan /\ d.pending = c.pending
      /\ d.best = c.best /\ d.allowed = c.allowed /\ d.swapped = c.swapped /\ d.calls = paid
      /\ d.raised = c.raised /\ d.routed = c.routed /\ d.served = c.served
  BY <1>1, <1>5 DEF Request
<1> HIDE DEF d, c
<1>8. PlanHolds(d) /\ Within(d, m)
  BY <1>2, <1>7 DEF PlanHolds, Within
<1>9. \A kind : Sound(RouteAnswered(d, m, kind, FALSE))
  BY <1>2, <1>3, <1>5, <1>7, <1>8, AnsweredSound
<1> USE DEF c
<1> QED
  BY <1>4, <1>6, <1>9 DEF Leaves, RouteInv, RouteType

LEMMA RouteCallSound ==
    ASSUME RouteInv, NEW r \in Routings, RouteCall(r) PROVE Leaves(r)
<1> DEFINE c == req[r]
           m == c.routed
           raise == Raised(Ask[c.id], m)
           paid == Append(c.calls, [model |-> m, side |-> FALSE])
           d == [c EXCEPT !.raised = raise]
           e == [d EXCEPT !.calls = paid]
           refused == [c EXCEPT !.phase = "refused"]
           failed == [d EXCEPT !.phase = "failed"]
<1>1. c \in Request /\ Sound(c) /\ c.phase = "decided" /\ c.plan = None
  BY AskTyped DEF RouteCall
<1>2. PlanHolds(c) /\ Within(c, m) /\ m \in Models /\ c.calls \in Seq(Call)
  BY <1>1 DEF Sound, CostHolds, Request
<1>3. \/ req' = [req EXCEPT ![r].phase = "refused"]
      \/ \E kind \in {"whole", "cut"} :
            req' = [req EXCEPT ![r] = RouteAnswered(e, m, kind, FALSE)]
      \/ req' = [req EXCEPT ![r] = failed]
  BY Zenon DEF RouteCall
<1>4. paid \in Seq(Call) /\ LastPaid(paid, m) /\ raise \in Models \cup {None}
  BY <1>2, PaidAlone, RaisedTyped
<1>5. req' = [req EXCEPT ![r].phase = "refused"] => req' = [req EXCEPT ![r] = refused]
  BY DEF RouteInv, RouteType
<1> HIDE DEF paid, m, raise
<1>6. refused \in Request /\ refused.phase = "refused" /\ refused.plan = c.plan
  BY <1>1 DEF Request, Phases
<1>7. failed \in Request /\ failed.phase = "failed" /\ failed.plan = c.plan
  <2>1. failed.phase = "failed" /\ failed.plan = c.plan
    BY <1>1, <1>4 DEF Request, Phases
  <2>2. failed \in Request
    BY ZenonT(40), <1>1, <1>4 DEF Request, Phases
  <2> QED
    BY <2>1, <2>2
<1>8. d \in Request /\ d.id = c.id /\ d.phase = c.phase /\ d.plan = c.plan
      /\ d.allowed = c.allowed /\ d.swapped = c.swapped /\ d.raised = raise
  BY <1>1, <1>4 DEF Request
<1>9. e \in Request /\ e.id = c.id /\ e.phase = "decided" /\ e.plan = None
      /\ e.allowed = c.allowed /\ e.swapped = c.swapped /\ e.calls = paid /\ e.raised = raise
  <2>1. e.id = c.id /\ e.phase = "decided" /\ e.plan = None
      /\ e.allowed = c.allowed /\ e.swapped = c.swapped /\ e.calls = paid /\ e.raised = raise
    <3> HIDE DEF d
    <3> QED
      BY <1>1, <1>4, <1>8 DEF Request
  <2>2. e \in Request
    <3> HIDE DEF d
    <3> QED
      BY ZenonT(40), <1>1, <1>4, <1>8 DEF Request
  <2> QED
    BY <2>1, <2>2
<1> HIDE DEF d, e, c, refused, failed
<1>10. PlanHolds(e) /\ Within(e, m)
  BY <1>2, <1>9 DEF PlanHolds, Within, Trying, Answering
<1>11. \A kind : Sound(RouteAnswered(e, m, kind, FALSE))
  BY <1>2, <1>4, <1>9, <1>10, AnsweredSound DEF raise
<1>12. Sound(refused) /\ Sound(failed)
  BY <1>1, <1>6, <1>7 DEF Sound, PlanHolds, CostHolds, CallsHold, Trying, Answering
<1> USE DEF c
<1> QED
  BY <1>3, <1>5, <1>11, <1>12 DEF Leaves, RouteInv, RouteType

-----------------------------------------------------------------------------
(* The invariant *)

LEMMA MeasuresTyped ==
    ASSUME RouteType, NEW m, Measured(m) \/ UNCHANGED <<latency, failedAt>>
    PROVE  latency' \in [Models -> 0 .. MaxLatency] /\ failedAt' \in [Models -> Nat \cup {None}]
<1>1. CASE Measured(m)
  <2>1. PICK l \in 1 .. MaxLatency : latency' = [latency EXCEPT ![m] = l]
    BY <1>1 DEF Measured
  <2>2. failedAt' = [failedAt EXCEPT ![m] = None]
    BY <1>1 DEF Measured
  <2>3. l \in 0 .. MaxLatency
    BY RoutingAssumption
  <2> QED
    BY <2>1, <2>2, <2>3 DEF RouteType
<1>2. CASE UNCHANGED <<latency, failedAt>>
  BY <1>2 DEF RouteType
<1> QED
  BY <1>1, <1>2

LEMMA SharedTyped ==
    ASSUME RouteType, [RouteNext]_routeVars
    PROVE  /\ latency' \in [Models -> 0 .. MaxLatency] /\ failedAt' \in [Models -> Nat \cup {None}]
           /\ clock' \in Nat
<1>1. CASE UNCHANGED routeVars
  BY <1>1 DEF routeVars, RouteType
<1>2. CASE RouteTick
  BY <1>2 DEF RouteTick, routeShared, RouteType
<1>3. ASSUME NEW r \in Routings,
             PassThrough(r) \/ Override(r) \/ RulePins(r) \/ Classify(r) \/ StartCascade(r)
      PROVE  UNCHANGED <<latency, failedAt, clock>>
  <2>1. PassThrough(r) => UNCHANGED <<latency, failedAt, clock>>
    BY DEF PassThrough, routeShared
  <2>2. Override(r) => UNCHANGED <<latency, failedAt, clock>>
    BY DEF Override
  <2>3. RulePins(r) => UNCHANGED <<latency, failedAt, clock>>
    BY Zenon DEF RulePins
  <2>4. Classify(r) => UNCHANGED <<latency, failedAt, clock>>
    BY Zenon DEF Classify
  <2>5. StartCascade(r) => UNCHANGED <<latency, failedAt, clock>>
    BY DEF StartCascade, routeShared
  <2> QED
    BY <1>3, <2>1, <2>2, <2>3, <2>4, <2>5
<1>4. ASSUME NEW r \in Routings, TierAnswers(r) \/ TierFails(r) \/ Climb(r) \/ Retry(r)
      PROVE  /\ clock' = clock
             /\ \E m : Measured(m) \/ UNCHANGED <<latency, failedAt>>
  <2>1. TierAnswers(r) => clock' = clock /\ (Measured(req[r].pending) \/ UNCHANGED <<latency, failedAt>>)
    BY Zenon DEF TierAnswers
  <2>2. TierFails(r) => clock' = clock /\ (Measured(req[r].best.model) \/ UNCHANGED <<latency, failedAt>>)
    BY Zenon DEF TierFails
  <2>3. Climb(r) => clock' = clock /\ (Measured(req[r].best.model) \/ UNCHANGED <<latency, failedAt>>)
    BY Zenon DEF Climb
  <2>4. Retry(r) => clock' = clock /\ Measured(req[r].best.model)
    BY Zenon DEF Retry
  <2> QED
    BY <1>4, <2>1, <2>2, <2>3, <2>4
<1>5. ASSUME NEW r \in Routings, RouteCall(r)
      PROVE  /\ clock' = clock
             /\ \/ \E m : Measured(m) \/ UNCHANGED <<latency, failedAt>>
                \/ latency' = latency /\ failedAt' \in [Models -> Nat \cup {None}]
  <2>1. /\ clock' = clock
        /\ \/ Measured(req[r].routed) \/ UNCHANGED <<latency, failedAt>>
           \/ /\ latency' = latency
              /\ \E transient \in BOOLEAN :
                   failedAt' = IF transient THEN [failedAt EXCEPT ![req[r].routed] = clock]
                               ELSE failedAt
    BY <1>5, Zenon DEF RouteCall
  <2> QED
    BY <2>1 DEF RouteType
<1>6. ASSUME NEW r \in Routings,
             PassThrough(r) \/ Override(r) \/ RulePins(r) \/ Classify(r) \/ StartCascade(r)
      PROVE  /\ latency' \in [Models -> 0 .. MaxLatency] /\ failedAt' \in [Models -> Nat \cup {None}]
             /\ clock' \in Nat
  BY <1>3, <1>6 DEF RouteType
<1>7. ASSUME NEW r \in Routings, TierAnswers(r) \/ TierFails(r) \/ Climb(r) \/ Retry(r)
      PROVE  /\ latency' \in [Models -> 0 .. MaxLatency] /\ failedAt' \in [Models -> Nat \cup {None}]
             /\ clock' \in Nat
  <2>1. PICK m : Measured(m) \/ UNCHANGED <<latency, failedAt>>
    BY <1>4, <1>7
  <2>2. clock' = clock
    BY <1>4, <1>7
  <2> QED
    BY <2>1, <2>2, MeasuresTyped DEF RouteType
<1>8. ASSUME NEW r \in Routings, RouteCall(r)
      PROVE  /\ latency' \in [Models -> 0 .. MaxLatency] /\ failedAt' \in [Models -> Nat \cup {None}]
             /\ clock' \in Nat
  <2>1. CASE \E m : Measured(m) \/ UNCHANGED <<latency, failedAt>>
    <3>1. PICK m : Measured(m) \/ UNCHANGED <<latency, failedAt>>
      BY <2>1
    <3>2. clock' = clock
      BY <1>5, <1>8
    <3> QED
      BY <3>1, <3>2, MeasuresTyped DEF RouteType
  <2>2. CASE latency' = latency /\ failedAt' \in [Models -> Nat \cup {None}]
    <3>1. clock' = clock
      BY <1>5, <1>8
    <3> QED
      BY <2>2, <3>1 DEF RouteType
  <2> QED
    BY <1>5, <1>8, <2>1, <2>2
<1> QED
  BY <1>1, <1>2, <1>6, <1>7, <1>8 DEF RouteNext

LEMMA InitSound == ASSUME RouteInit PROVE RouteInv
<1>1. PICK ids \in [Routings -> DOMAIN Ask] : req = [r \in Routings |-> NewRequest(ids[r])]
  BY DEF RouteInit
<1>2. ASSUME NEW i \in DOMAIN Ask PROVE Sound(NewRequest(i))
  <2> DEFINE c == NewRequest(i)
  <2>1. Ask[i].model \in Models
    BY RoutingAssumption
  <2>2. << >> \in Seq(Call)
    OBVIOUS
  <2>3. c \in Request /\ c.phase = "new" /\ c.plan = None /\ ~c.swapped
    BY <2>1, <2>2 DEF NewRequest, Request, Phases
  <2> HIDE DEF c
  <2>4. PlanHolds(c) /\ CostHolds(c) /\ CallsHold(c)
    BY <2>3 DEF PlanHolds, CostHolds, CallsHold, Trying, Answering
  <2> QED
    BY <2>3, <2>4 DEF Sound, c
<1>3. \A r \in Routings : Sound(req[r])
  BY <1>1, <1>2
<1>4. req \in [Routings -> Request]
  BY <1>1, <1>2 DEF Sound
<1>5. latency \in [Models -> 0 .. MaxLatency] /\ failedAt \in [Models -> Nat \cup {None}]
      /\ clock \in Nat
  BY RoutingAssumption DEF RouteInit
<1> QED
  BY <1>3, <1>4, <1>5 DEF RouteInv, RouteType

LEMMA StepSound == ASSUME RouteInv, [RouteNext]_routeVars PROVE RouteInv'
<1>1. /\ latency' \in [Models -> 0 .. MaxLatency] /\ failedAt' \in [Models -> Nat \cup {None}]
      /\ clock' \in Nat
  BY SharedTyped DEF RouteInv
<1>2. req' = req \/ \E r \in Routings : Leaves(r)
  <2>1. CASE UNCHANGED routeVars
    BY <2>1 DEF routeVars
  <2>2. CASE RouteTick
    BY <2>2 DEF RouteTick
  <2>3. ASSUME NEW r \in Routings,
               PassThrough(r) \/ Override(r) \/ RulePins(r) \/ Classify(r) \/ StartCascade(r)
        PROVE  Leaves(r)
    BY <2>3, PassThroughSound, OverrideSound, RulePinsSound, ClassifySound, StartCascadeSound
  <2>4. ASSUME NEW r \in Routings,
               TierAnswers(r) \/ TierFails(r) \/ Climb(r) \/ Retry(r) \/ RouteCall(r)
        PROVE  Leaves(r)
    BY <2>4, TierAnswersSound, TierFailsSound, ClimbSound, RetrySound, RouteCallSound
  <2> QED
    BY <2>1, <2>2, <2>3, <2>4 DEF RouteNext
<1>3. req' \in [Routings -> Request] /\ \A r \in Routings : Sound(req'[r])
  <2>1. CASE req' = req
    BY <2>1 DEF RouteInv, RouteType
  <2>2. ASSUME NEW r \in Routings, Leaves(r)
        PROVE  req' \in [Routings -> Request] /\ \A q \in Routings : Sound(req'[q])
    <3>1. req \in [Routings -> Request] /\ \A q \in Routings : Sound(req[q])
      BY DEF RouteInv, RouteType
    <3>2. req' = [req EXCEPT ![r] = req'[r]] /\ Sound(req'[r]) /\ req'[r] \in Request
      BY <2>2 DEF Leaves, Sound
    <3>3. \A q \in Routings \ {r} : req'[q] = req[q]
      BY <3>1, <3>2
    <3>4. req' \in [Routings -> Request]
      BY <3>1, <3>2
    <3> QED
      BY <3>1, <3>2, <3>3, <3>4
  <2> QED
    BY <1>2, <2>1, <2>2
<1>4. \A r \in Routings : Sound(req[r])'
  BY <1>3 DEF Sound, PlanHolds, CostHolds, CallsHold, Within
<1> QED
  BY <1>1, <1>3, <1>4 DEF RouteInv, RouteType

\* Whatever arrives and in whatever order it is routed, every context, plan and
\* answer of G06 is of its type, and so is what requests share of latencies and
\* failures.
THEOREM TypeCorrect == RouteSpec => []RouteType
<1>1. RouteInit => RouteInv
  BY InitSound
<1>2. RouteInv /\ [RouteNext]_routeVars => RouteInv'
  BY StepSound
<1>3. RouteInv => RouteType
  BY DEF RouteInv
<1> QED
  BY <1>1, <1>2, <1>3, PTL DEF RouteSpec

\* No answer is dearer than the model the caller asked for, whichever of the cost
\* floor, a rule, a blocked hop, a rollback and the error path decided it, unless the
\* caller's tier or the configuration allows it.
THEOREM NeverDearer == RouteSpec => []WithinCost
<1>1. RouteInit => RouteInv
  BY InitSound
<1>2. RouteInv /\ [RouteNext]_routeVars => RouteInv'
  BY StepSound
<1>3. RouteInv => WithinCost
  BY DEF RouteInv, Sound, CostHolds, Within, WithinCost, Done
<1> QED
  BY <1>1, <1>2, <1>3, PTL DEF RouteSpec

\* What a response discloses of its model, its routing step and its raised output
\* budget is about the call it was answered from, the last one that is not a side
\* call, whatever the cascade tried, rolled back or retried.
THEOREM DisclosureTrue == RouteSpec => []DisclosedIsServed
<1>1. RouteInit => RouteInv
  BY InitSound
<1>2. RouteInv /\ [RouteNext]_routeVars => RouteInv'
  BY StepSound
<1>3. RouteInv => DisclosedIsServed
  <2> SUFFICES ASSUME RouteInv, NEW r \in Routings, Done(r)
               PROVE  LET c == req[r]
                          m == c.served.model
                          paid == {k \in DOMAIN c.calls : ~c.calls[k].side}
                      IN  /\ \E k \in paid : c.calls[k].model = m /\ \A j \in paid : j <= k
                          /\ c.routed = m /\ c.saved = m
                          /\ c.raised = Raised(Ask[c.id], m)
                          /\ c.step = IF m = Ask[c.id].model THEN None ELSE m
    BY DEF DisclosedIsServed
  <2> DEFINE c == req[r]
             m == c.served.model
             paid == {k \in DOMAIN c.calls : ~c.calls[k].side}
  <2>1. c \in Request /\ CallsHold(c) /\ c.phase = "done"
    BY DEF RouteInv, Sound, Done
  <2>2. /\ LastPaid(c.calls, m) /\ c.routed = m /\ c.saved = m
        /\ c.raised = Raised(Ask[c.id], m)
        /\ c.step = IF m = Ask[c.id].model THEN None ELSE m
    BY <2>1 DEF CallsHold
  <2>3. PICK k \in DOMAIN c.calls :
          /\ ~c.calls[k].side /\ c.calls[k].model = m
          /\ \A j \in DOMAIN c.calls : j > k => c.calls[j].side
    BY <2>2 DEF LastPaid
  <2>4. DOMAIN c.calls \subseteq Int
    BY <2>1 DEF Request
  <2>5. k \in paid /\ \A j \in paid : j <= k
    BY <2>3, <2>4
  <2> QED
    BY <2>2, <2>3, <2>5
<1> QED
  BY <1>1, <1>2, <1>3, PTL DEF RouteSpec

-----------------------------------------------------------------------------
(* Rotation *)

\* Some config of the ask selects by rotation.
MayRotate(a) == \E cfg \in ConfigsOf(a) : cfg.strategy = "round_robin"

\* The requests of a tenant that may rotate agree on what each tier rotates through,
\* medium's list under the name of a tier that has none included, and it lists a
\* model once.  (One counter per tenant and tier name cannot be fair to two lists.)
OneLadder(L) ==
    /\ L \in [Tenants -> [TierNames -> Seq(Models)]]
    /\ \A t \in Tenants, i \in TierNames :
          \A j, k \in 1 .. Len(L[t][i]) : L[t][i][j] = L[t][i][k] => j = k
    /\ \A n \in DOMAIN Ask :
          LET tiers == ResolveTiers(Ask[n].cfg, Ask[n].model)
          IN  MayRotate(Ask[n]) /\ tiers # None =>
                \A i \in TierNames : Candidates(tiers, i) = L[Ask[n].tenant][i]

\* q full turns were made, and the models before the counter are one ahead.
Even(l, n, count) ==
    /\ n = 0 \/ n < Len(l)
    /\ \E q \in Nat : \A j \in 1 .. Len(l) : count[l[j]] = q + (IF j <= n THEN 1 ELSE 0)

RotationInv(L) ==
    /\ rotation \in [Tenants -> [TierNames -> Nat]]
    /\ rotated \in [Tenants -> [TierNames -> [Models -> Nat]]]
    /\ \A t \in Tenants, i \in TierNames : Even(L[t][i], rotation[t][i], rotated[t][i])

\* A choice of request r among the candidates of a tier.
Takes(r) ==
    \E m \in Models, cfg \in ConfigsOf(Ask[req[r].id]) : \E tier, models :
        /\ TiersOf(r) # None
        /\ models = << >> \/ models = Candidates(TiersOf(r), tier)
        /\ Chooses(r, models, cfg, tier, m)

LEMMA Wraps == ASSUME NEW l \in Nat, l > 1, NEW n \in Nat, n < l
               PROVE  n % l = n /\ (n + 1) % l = IF n + 1 = l THEN 0 ELSE n + 1
<1>1. n % l = n
  OBVIOUS
<1>2. CASE n + 1 = l
  <2>1. l % l = 0
    OBVIOUS
  <2> QED
    BY <1>1, <1>2, <2>1
<1>3. CASE n + 1 # l
  <2>1. n + 1 \in Nat /\ n + 1 < l
    BY <1>3
  <2>2. (n + 1) % l = n + 1
    BY <2>1
  <2> QED
    BY <1>1, <1>3, <2>2
<1> QED
  BY <1>2, <1>3

\* One choice of a rotation keeps it even.
LEMMA TurnEven ==
    ASSUME NEW l \in Seq(Models), Len(l) > 1, \A j, k \in 1 .. Len(l) : l[j] = l[k] => j = k,
           NEW n \in Nat, NEW count \in [Models -> Nat], Even(l, n, count), NEW m \in Models,
           m = l[(n % Len(l)) + 1]
    PROVE  /\ (n + 1) % Len(l) \in Nat /\ [count EXCEPT ![m] = @ + 1] \in [Models -> Nat]
           /\ Even(l, (n + 1) % Len(l), [count EXCEPT ![m] = @ + 1])
<1> DEFINE new == [count EXCEPT ![m] = @ + 1]
           next == IF n + 1 = Len(l) THEN 0 ELSE n + 1
<1>1. Len(l) \in Nat /\ n < Len(l)
  BY DEF Even
<1>2. n % Len(l) = n /\ (n + 1) % Len(l) = next
  BY <1>1, Wraps
<1>3. m = l[n + 1] /\ n + 1 \in 1 .. Len(l) /\ next \in Nat
  BY <1>1, <1>2
<1>4. new \in [Models -> Nat]
  OBVIOUS
<1>5. PICK q \in Nat : \A j \in 1 .. Len(l) : count[l[j]] = q + (IF j <= n THEN 1 ELSE 0)
  BY DEF Even
<1>6. ASSUME NEW j \in 1 .. Len(l)
      PROVE  new[l[j]] = q + (IF j <= n + 1 THEN 1 ELSE 0)
  <2>1. l[j] \in Models
    OBVIOUS
  <2>2. CASE j = n + 1
    BY <1>3, <1>5, <2>1, <2>2
  <2>3. CASE j # n + 1
    <3>1. l[j] # m
      BY <1>3, <2>3
    <3>2. new[l[j]] = count[l[j]]
      BY <2>1, <3>1
    <3> QED
      BY <1>5, <2>3, <3>2
  <2> QED
    BY <2>2, <2>3
<1> HIDE DEF new
<1>7. CASE n + 1 = Len(l)
  <2>1. q + 1 \in Nat /\ \A j \in 1 .. Len(l) : new[l[j]] = (q + 1) + (IF j <= 0 THEN 1 ELSE 0)
    BY <1>1, <1>6, <1>7
  <2>2. Even(l, 0, new)
    BY <2>1 DEF Even
  <2> QED
    BY <1>2, <1>4, <1>7, <2>2 DEF new
<1>8. CASE n + 1 # Len(l)
  <2>1. n + 1 < Len(l)
    BY <1>1, <1>8
  <2>2. Even(l, n + 1, new)
    BY <1>6, <2>1 DEF Even
  <2> QED
    BY <1>2, <1>4, <1>8, <2>2 DEF new
<1> QED
  BY <1>7, <1>8

LEMMA ChoiceEven ==
    ASSUME NEW L, OneLadder(L), RotationInv(L), NEW r \in Routings, req[r].id \in DOMAIN Ask, Takes(r)
    PROVE  RotationInv(L)'
<1> DEFINE a == Ask[req[r].id]
           t == a.tenant
<1>0. PICK m \in Models, cfg \in ConfigsOf(a) :
        \E tier, models :
          /\ TiersOf(r) # None
          /\ models = << >> \/ models = Candidates(TiersOf(r), tier)
          /\ Chooses(r, models, cfg, tier, m)
  BY DEF Takes
<1>1. PICK tier, models :
        /\ TiersOf(r) # None
        /\ models = << >> \/ models = Candidates(TiersOf(r), tier)
        /\ Chooses(r, models, cfg, tier, m)
  BY <1>0
<1>2. CASE UNCHANGED <<rotation, rotated>>
  BY <1>2 DEF RotationInv
<1>3. CASE ~UNCHANGED <<rotation, rotated>>
  <2>1. /\ m \in Selectable(models, cfg, t, tier)
        /\ models # << >> /\ Rotated(models, cfg, t, tier, m)
    BY <1>1, <1>3 DEF Chooses
  <2>2. /\ Len(models) > 1 /\ cfg.strategy = "round_robin"
        /\ rotation' = [rotation EXCEPT ![t][tier] = (@ + 1) % Len(models)]
        /\ rotated' = [rotated EXCEPT ![t][tier][m] = @ + 1]
    BY <1>3, <2>1 DEF Rotated
  <2>3. t \in Tenants
    BY RoutingAssumption
  <2>4. CASE tier \notin TierNames
    <3>1. \A x : [rotation[t] EXCEPT ![tier] = x] = rotation[t]
      BY <2>3, <2>4 DEF RotationInv
    <3>2. \A x : [rotated[t] EXCEPT ![tier] = x] = rotated[t]
      BY <2>3, <2>4 DEF RotationInv
    <3>3. rotation' = rotation
      <4>1. rotation' = [rotation EXCEPT ![t] =
                           [rotation[t] EXCEPT ![tier] = (rotation[t][tier] + 1) % Len(models)]]
        BY <2>2
      <4>2. rotation' = [rotation EXCEPT ![t] = rotation[t]]
        BY <3>1, <4>1
      <4> QED
        BY <2>3, <4>2 DEF RotationInv
    <3>4. rotated' = rotated
      <4>1. \E x : rotated' = [rotated EXCEPT ![t] = [rotated[t] EXCEPT ![tier] = x]]
        BY <2>2
      <4>2. rotated' = [rotated EXCEPT ![t] = rotated[t]]
        BY <3>2, <4>1
      <4> QED
        BY <2>3, <4>2 DEF RotationInv
    <3> QED
      BY <1>3, <3>3, <3>4
  <2>5. CASE tier \in TierNames
    <3>1. models = L[t][tier]
      <4>1. MayRotate(a)
        BY <2>2 DEF MayRotate
      <4>2. Candidates(TiersOf(r), tier) = L[t][tier]
        BY <1>1, <2>5, <4>1 DEF OneLadder, TiersOf
      <4> QED
        BY <1>1, <2>1, <4>2
    <3> DEFINE n == rotation[t][tier]
               count == rotated[t][tier]
    <3>2. models \in Seq(Models) /\ \A j, k \in 1 .. Len(models) : models[j] = models[k] => j = k
      BY <2>3, <2>5, <3>1 DEF OneLadder
    <3>3. n \in Nat /\ count \in [Models -> Nat] /\ Even(models, n, count)
      BY <2>3, <2>5, <3>1 DEF RotationInv
    <3>4. m = models[(n % Len(models)) + 1]
      <4>1. Selectable(models, cfg, t, tier) = {models[(rotation[t][tier] % Len(models)) + 1]}
        <5>1. Len(models) # 1
          BY SMTT(30), <2>2, <3>2
        <5> QED
          BY <2>2, <5>1, Zenon DEF Selectable
      <4> QED
        BY <2>1, <4>1
    <3> DEFINE n2 == (n + 1) % Len(models)
               count2 == [count EXCEPT ![m] = @ + 1]
    <3>5. n2 \in Nat /\ count2 \in [Models -> Nat] /\ Even(models, n2, count2)
      BY <2>2, <3>2, <3>3, <3>4, TurnEven
    <3>6. rotation' = [rotation EXCEPT ![t] = [rotation[t] EXCEPT ![tier] = n2]]
      BY <2>2, <2>3, <2>5 DEF RotationInv
    <3>7. rotated' = [rotated EXCEPT ![t] = [rotated[t] EXCEPT ![tier] = count2]]
      BY <2>2, <2>3, <2>5 DEF RotationInv
    <3> HIDE DEF n2, count2
    <3>8. rotation' \in [Tenants -> [TierNames -> Nat]]
          /\ rotated' \in [Tenants -> [TierNames -> [Models -> Nat]]]
      BY <2>3, <2>5, <3>5, <3>6, <3>7 DEF RotationInv
    <3>9. ASSUME NEW u \in Tenants, NEW i \in TierNames
          PROVE  Even(L[u][i], rotation'[u][i], rotated'[u][i])
      <4>1. CASE u = t /\ i = tier
        <5>1. rotation'[u][i] = n2 /\ rotated'[u][i] = count2
          BY <2>3, <2>5, <3>6, <3>7, <4>1 DEF RotationInv
        <5> QED
          BY <3>1, <3>5, <4>1, <5>1
      <4>2. CASE ~(u = t /\ i = tier)
        <5>1. rotation'[u][i] = rotation[u][i] /\ rotated'[u][i] = rotated[u][i]
          BY <2>3, <2>5, <3>6, <3>7, <4>2 DEF RotationInv
        <5> QED
          BY <5>1 DEF RotationInv
      <4> QED
        BY <4>1, <4>2
    <3>10. \A u \in Tenants, i \in TierNames : Even(L[u][i], rotation[u][i], rotated[u][i])'
      BY <3>9 DEF Even
    <3> QED
      BY <3>8, <3>10 DEF RotationInv
  <2> QED
    BY <2>4, <2>5
<1> QED
  BY <1>2, <1>3

LEMMA OverrideTakes ==
    ASSUME RouteInv, NEW r \in Routings, Override(r) PROVE Takes(r)
<1> DEFINE a == Ask[req[r].id]
           models == IF a.complexity \in DOMAIN TiersOf(r) THEN TiersOf(r)[a.complexity] ELSE << >>
<1>1. PICK m \in Models : Chooses(r, models, a.cfg, a.complexity, m)
  BY Zenon DEF Override
<1>2. TiersOf(r) # None
  BY DEF Override, Routes, TiersOf
<1>3. a.cfg \in ConfigsOf(a)
  BY AskTyped, OneConfig
<1>4. models = << >> \/ models = Candidates(TiersOf(r), a.complexity)
  BY DEF Candidates
<1> HIDE DEF models
<1> QED
  BY <1>1, <1>2, <1>3, <1>4 DEF Takes

LEMMA RulePinsTakes ==
    ASSUME RouteInv, NEW r \in Routings, RulePins(r)
    PROVE  UNCHANGED <<rotation, rotated>> \/ Takes(r)
<1> DEFINE a == Ask[req[r].id]
           rule(spent) == MatchFor(a.cfg.rules, a.facts, spent)
           eff(spent) == EffectiveCfg(a.cfg, rule(spent))
<1>1. PICK spent \in 0 .. MaxRules, m \in Models :
        /\ Routes(r) /\ rule(spent) # None /\ Pins(rule(spent), TiersOf(r))
        /\ IF rule(spent).model # None
           THEN m = rule(spent).model /\ UNCHANGED <<rotation, rotated>>
           ELSE Chooses(r, TiersOf(r)[rule(spent).tier], eff(spent), rule(spent).tier, m)
  BY Zenon DEF RulePins
<1>2. TiersOf(r) # None
  BY <1>1 DEF Routes, TiersOf
<1>3. eff(spent) \in ConfigsOf(a)
  BY <1>1, AskTyped, RuleConfig
<1> HIDE DEF eff, rule
<1>4. CASE rule(spent).model # None
  BY <1>1, <1>4
<1>5. CASE rule(spent).model = None
  <2>1. TiersOf(r)[rule(spent).tier] = Candidates(TiersOf(r), rule(spent).tier)
    BY <1>1, <1>5 DEF Pins, Candidates
  <2>2. Chooses(r, TiersOf(r)[rule(spent).tier], eff(spent), rule(spent).tier, m)
    BY <1>1, <1>5
  <2> QED
    BY <1>2, <1>3, <2>1, <2>2 DEF Takes
<1> QED
  BY <1>4, <1>5

LEMMA ClassifyTakes ==
    ASSUME RouteInv, NEW r \in Routings, Classify(r) PROVE Takes(r)
<1> DEFINE a == Ask[req[r].id]
           simple == IF "simple" \in DOMAIN TiersOf(r) THEN TiersOf(r)["simple"] ELSE << >>
           rule(spent) == MatchFor(a.cfg.rules, a.facts, spent)
           eff(spent) == IF rule(spent) = None THEN a.cfg ELSE EffectiveCfg(a.cfg, rule(spent))
<1>1. PICK spent \in 0 .. MaxRules :
        /\ Routes(r)
        /\ \/ \E m \in Models : Chooses(r, simple, eff(spent), "simple", m)
           \/ \E o \in ClassifierOutcomes(a, eff(spent)), m \in Models :
                Chooses(r, Candidates(TiersOf(r), o[1]), eff(spent), o[1], m)
  BY Zenon DEF Classify
<1>2. TiersOf(r) # None
  BY <1>1 DEF Routes, TiersOf
<1>3. eff(spent) \in ConfigsOf(a)
  BY AskTyped, RuleConfig, OneConfig
<1>4. simple = << >> \/ simple = Candidates(TiersOf(r), "simple")
  BY DEF Candidates
<1> HIDE DEF eff, rule, simple
<1>5. CASE \E m \in Models : Chooses(r, simple, eff(spent), "simple", m)
  BY <1>2, <1>3, <1>4, <1>5 DEF Takes
<1>6. CASE \E o \in ClassifierOutcomes(a, eff(spent)), m \in Models :
             Chooses(r, Candidates(TiersOf(r), o[1]), eff(spent), o[1], m)
  <2>1. PICK o \in ClassifierOutcomes(a, eff(spent)), m \in Models :
          Chooses(r, Candidates(TiersOf(r), o[1]), eff(spent), o[1], m)
    BY <1>6
  <2> DEFINE tier == o[1]
  <2>2. Chooses(r, Candidates(TiersOf(r), tier), eff(spent), tier, m)
    BY <2>1
  <2> HIDE DEF tier
  <2> QED
    BY <1>2, <1>3, <2>2 DEF Takes
<1> QED
  BY <1>1, <1>5, <1>6

LEMMA ClimbTakes ==
    ASSUME RouteInv, NEW r \in Routings, Climb(r)
    PROVE  UNCHANGED <<rotation, rotated>> \/ Takes(r)
<1> DEFINE c == req[r]
           tier == Tiers[IF c.phase = "climb2" THEN 2 ELSE 3]
           models == IF tier \in DOMAIN TiersOf(r) THEN TiersOf(r)[tier] ELSE << >>
<1>1. \/ UNCHANGED <<rotation, rotated>>
      \/ \E m \in Models : Chooses(r, models, c.plan.cfg, tier, m)
  BY Zenon DEF Climb
<1>2. c.plan # None /\ PlanHolds(c)
  BY AskTyped DEF Climb, Sound, PlanHolds, Answering
<1>3. TiersOf(r) # None /\ c.plan.cfg \in ConfigsOf(Ask[c.id])
  BY <1>2 DEF PlanHolds, TiersOf
<1>4. models = << >> \/ models = Candidates(TiersOf(r), tier)
  BY DEF Candidates
<1> HIDE DEF models, tier
<1> QED
  BY <1>1, <1>3, <1>4 DEF Takes

LEMMA StepEven ==
    ASSUME NEW L, OneLadder(L), RouteInv, RotationInv(L), [RouteNext]_routeVars
    PROVE  RotationInv(L)'
<1>1. CASE UNCHANGED <<rotation, rotated>>
  BY <1>1 DEF RotationInv
<1>2. CASE \E r \in Routings : Takes(r)
  BY <1>2, AskTyped, ChoiceEven
<1>3. UNCHANGED routeVars \/ RouteTick => UNCHANGED <<rotation, rotated>>
  BY DEF routeVars, RouteTick, routeShared
<1>4. ASSUME NEW r \in Routings, PassThrough(r) \/ StartCascade(r)
      PROVE  UNCHANGED <<rotation, rotated>>
  BY <1>4 DEF PassThrough, StartCascade, routeShared
<1>5. ASSUME NEW r \in Routings, TierAnswers(r) \/ TierFails(r) \/ Retry(r) \/ RouteCall(r)
      PROVE  UNCHANGED <<rotation, rotated>>
  <2>1. TierAnswers(r) => UNCHANGED <<rotation, rotated>>
    BY Zenon DEF TierAnswers
  <2>2. TierFails(r) => UNCHANGED <<rotation, rotated>>
    BY Zenon DEF TierFails
  <2>3. Retry(r) => UNCHANGED <<rotation, rotated>>
    BY Zenon DEF Retry
  <2>4. RouteCall(r) => UNCHANGED <<rotation, rotated>>
    BY Zenon DEF RouteCall
  <2> QED
    BY <1>5, <2>1, <2>2, <2>3, <2>4
<1>6. ASSUME NEW r \in Routings, Override(r) \/ RulePins(r) \/ Classify(r) \/ Climb(r)
      PROVE  UNCHANGED <<rotation, rotated>> \/ Takes(r)
  BY <1>6, OverrideTakes, RulePinsTakes, ClassifyTakes, ClimbTakes
<1> QED
  BY <1>1, <1>2, <1>3, <1>4, <1>5, <1>6 DEF RouteNext

LEMMA InitEven ==
    ASSUME NEW L, OneLadder(L), RouteInit PROVE RotationInv(L)
<1>1. rotation \in [Tenants -> [TierNames -> Nat]]
      /\ rotated \in [Tenants -> [TierNames -> [Models -> Nat]]]
  BY DEF RouteInit
<1>2. ASSUME NEW t \in Tenants, NEW i \in TierNames PROVE Even(L[t][i], rotation[t][i], rotated[t][i])
  <2>1. rotation[t][i] = 0 /\ \A m \in Models : rotated[t][i][m] = 0
    BY DEF RouteInit
  <2>2. \A j \in 1 .. Len(L[t][i]) : L[t][i][j] \in Models
    BY DEF OneLadder
  <2>3. \A j \in 1 .. Len(L[t][i]) : rotated[t][i][L[t][i][j]] = 0 + (IF j <= 0 THEN 1 ELSE 0)
    BY <2>1, <2>2
  <2> QED
    BY <2>1, <2>3 DEF Even
<1> QED
  BY <1>1, <1>2 DEF RotationInv

LEMMA EvenIsFair == ASSUME NEW L, OneLadder(L), RotationInv(L) PROVE RotationIsFair
<1> SUFFICES ASSUME NEW t \in Tenants, NEW i \in TierNames, NEW m \in Rotating[t][i],
                    NEW n \in Rotating[t][i]
             PROVE  rotated[t][i][m] <= rotated[t][i][n] + 1
  BY DEF RotationIsFair
<1> DEFINE l == L[t][i]
<1>1. \A x \in Rotating[t][i] : \E j \in 1 .. Len(l) : x = l[j]
  <2> SUFFICES ASSUME NEW x \in Rotating[t][i] PROVE \E j \in 1 .. Len(l) : x = l[j]
    OBVIOUS
  <2>1. PICK k \in DOMAIN Ask :
          LET tiers == ResolveTiers(Ask[k].cfg, Ask[k].model)
          IN  /\ Ask[k].tenant = t /\ Ask[k].cfg.strategy = "round_robin"
              /\ tiers # None /\ i \in DOMAIN tiers
              /\ \E j \in DOMAIN tiers[i] : x = tiers[i][j]
    BY DEF Rotating
  <2>2. MayRotate(Ask[k])
    BY <2>1, OneConfig DEF MayRotate
  <2>3. Candidates(ResolveTiers(Ask[k].cfg, Ask[k].model), i) = l
    BY <2>1, <2>2 DEF OneLadder
  <2>4. ResolveTiers(Ask[k].cfg, Ask[k].model)[i] = l
    BY <2>1, <2>3 DEF Candidates
  <2>5. l \in Seq(Models)
    BY DEF OneLadder
  <2> QED
    BY <2>1, <2>4, <2>5
<1>2. PICK j \in 1 .. Len(l) : m = l[j]
  BY <1>1
<1>3. PICK k \in 1 .. Len(l) : n = l[k]
  BY <1>1
<1>4. PICK q \in Nat : \A x \in 1 .. Len(l) :
                         rotated[t][i][l[x]] = q + (IF x <= rotation[t][i] THEN 1 ELSE 0)
  BY DEF RotationInv, Even
<1>5. rotated[t][i][m] \in q .. q + 1 /\ rotated[t][i][n] \in q .. q + 1
  <2> HIDE DEF l
  <2> QED
    BY <1>2, <1>3, <1>4
<1> QED
  BY <1>5

\* Requests of one tenant that rotate through one tier's models share them evenly,
\* however other tenants' requests and blocked or failed hops come between, as long
\* as they agree on what the tier holds.
THEOREM RotationAlwaysFair ==
    ASSUME NEW L, OneLadder(L) PROVE RouteSpec => []RotationIsFair
<1>1. RouteInit => RouteInv /\ RotationInv(L)
  BY InitSound, InitEven
<1>2. RouteInv /\ RotationInv(L) /\ [RouteNext]_routeVars => (RouteInv /\ RotationInv(L))'
  BY StepSound, StepEven
<1>3. RotationInv(L) => RotationIsFair
  BY EvenIsFair
<1> QED
  BY <1>1, <1>2, <1>3, PTL DEF RouteSpec

-----------------------------------------------------------------------------
(* Reasoning: what is sent to a provider.  The parameters keep their shape, and a
   call takes from them no more than they hold. *)

\* What an operator's table of budgets and allowances is: "off" and low need no more
\* than medium, which a request that names no effort gets.
TablesOrdered == Budget["gemini"][1] <= Budget["gemini"][Medium] /\ Allowance[0] <= Allowance[Medium]

ParamKeys == {"effort", "thinking", "config", "output", "key", "temperature"}

\* Parameters as a function of their names.
IsParams(p) ==
    /\ p = [k \in ParamKeys |-> p[k]]
    /\ p.effort \in Efforts \cup {Absent} /\ p.output \in Nat
    /\ p.thinking \in Nat \cup {Absent} /\ p.config \in Nat \cup {Absent}
    /\ p.key \in {"max_tokens", "max_completion_tokens"} /\ p.temperature \in Nat \cup {Absent}

LEMMA ParamsByName == \A p : p \in Params <=> IsParams(p)
<1>1. ASSUME NEW p \in Params PROVE IsParams(p)
  BY DEF Params, IsParams, ParamKeys
<1>2. ASSUME NEW p, IsParams(p) PROVE p \in Params
  <2>1. p = [k \in ParamKeys |-> p[k]]
    BY <1>2 DEF IsParams
  <2>2. p = [effort |-> p.effort, thinking |-> p.thinking, config |-> p.config,
             output |-> p.output, key |-> p.key, temperature |-> p.temperature]
    BY <2>1 DEF ParamKeys
  <2> QED
    BY <1>2, <2>2 DEF IsParams, Params
<1> QED
  BY <1>1, <1>2

LEMMA MinOfTwo ==
    ASSUME NEW x \in Int, NEW y \in Int
    PROVE  Min({x, y}) \in {x, y} /\ Min({x, y}) <= x /\ Min({x, y}) <= y
<1>1. \E v \in {x, y} : \A w \in {x, y} : v <= w
  OBVIOUS
<1> QED
  BY <1>1 DEF Min

LEMMA MaxOfTwo ==
    ASSUME NEW x \in Int, NEW y \in Int
    PROVE  Max({x, y}) \in {x, y} /\ Max({x, y}) >= x /\ Max({x, y}) >= y
<1>1. \E v \in {x, y} : \A w \in {x, y} : v >= w
  OBVIOUS
<1> QED
  BY <1>1 DEF Max

LEMMA MinOfThree ==
    ASSUME NEW x \in Int, NEW y \in Int, NEW z \in Int
    PROVE  /\ Min({x, y, z}) \in {x, y, z}
           /\ Min({x, y, z}) <= x /\ Min({x, y, z}) <= y /\ Min({x, y, z}) <= z
<1>1. \E v \in {x, y, z} : \A w \in {x, y, z} : v <= w
  OBVIOUS
<1> QED
  BY <1>1 DEF Min

LEMMA MaxEffort ==
    ASSUME NEW S \in SUBSET Efforts, S # {} PROVE Max(S) \in Efforts
<1>1. \E v \in S : \A w \in S : v >= w
  <2>1. S \subseteq {0, 1, 2, 3}
    BY DEF Efforts
  <2>2. CASE 3 \in S
    BY <2>1, <2>2
  <2>3. CASE 3 \notin S /\ 2 \in S
    BY <2>1, <2>3
  <2>4. CASE 3 \notin S /\ 2 \notin S /\ 1 \in S
    BY <2>1, <2>4
  <2>5. CASE 3 \notin S /\ 2 \notin S /\ 1 \notin S
    <3>1. \A w \in S : w = 0
      BY <2>1, <2>5
    <3>2. PICK v \in S : TRUE
      OBVIOUS
    <3> QED
      BY <3>1, <3>2
  <2> QED
    BY <2>2, <2>3, <2>4, <2>5
<1>2. Max(S) \in S
  BY <1>1 DEF Max
<1> QED
  BY <1>2

LEMMA WithoutKept ==
    ASSUME NEW p, IsParams(p), NEW keys, keys \cap {"output", "key"} = {}
    PROVE  /\ IsParams(Without(p, keys))
           /\ \A k \in ParamKeys : Without(p, keys)[k] = IF k \in keys THEN Absent ELSE p[k]
<1> DEFINE q == Without(p, keys)
<1>1. DOMAIN p = ParamKeys
  BY DEF IsParams
<1>2. q = [k \in ParamKeys |-> IF k \in keys THEN Absent ELSE p[k]]
  BY <1>1 DEF Without
<1> HIDE DEF q
<1>3. \A k \in ParamKeys : q[k] = IF k \in keys THEN Absent ELSE p[k]
  BY <1>2
<1>4. q = [k \in ParamKeys |-> q[k]]
  BY <1>2
<1>5. IsParams(q)
  BY <1>3, <1>4 DEF IsParams, ParamKeys, ReasoningKeys
<1> QED
  BY <1>3, <1>5 DEF q

\* Changing one of the parameters that a provider may have changed.
LEMMA SetKept ==
    ASSUME NEW p, IsParams(p), NEW v, NEW q,
           \/ q = [p EXCEPT !.thinking = v] \/ q = [p EXCEPT !.config = v]
           \/ q = [p EXCEPT !.output = v] \/ q = [p EXCEPT !.effort = v]
    PROVE  /\ q = [k \in ParamKeys |-> q[k]]
           /\ q = [p EXCEPT !.thinking = v] => /\ q.thinking = v
                                               /\ \A k \in ParamKeys : k # "thinking" => q[k] = p[k]
           /\ q = [p EXCEPT !.config = v] => /\ q.config = v
                                             /\ \A k \in ParamKeys : k # "config" => q[k] = p[k]
           /\ q = [p EXCEPT !.output = v] => /\ q.output = v
                                             /\ \A k \in ParamKeys : k # "output" => q[k] = p[k]
           /\ q = [p EXCEPT !.effort = v] => /\ q.effort = v
                                             /\ \A k \in ParamKeys : k # "effort" => q[k] = p[k]
<1>1. p = [k \in ParamKeys |-> p[k]]
  BY DEF IsParams
<1> QED
  BY <1>1 DEF ParamKeys

\* What capping keeps, and what it makes of a thinking budget.
CapKept(m, p, q) ==
    /\ IsParams(q)
    /\ q.effort \in {Absent, p.effort} /\ q.output = p.output /\ q.key = p.key
    /\ q.thinking \in {Absent, p.thinking} \/ (p.thinking # Absent /\ q.thinking >= MinThinking)
    /\ q.config \in {Absent, p.config} \/ (p.config # Absent /\ q.config <= p.config)
    /\ Family[m] # "anthropic" => q.effort = p.effort
    /\ Family[m] = "anthropic" /\ q.thinking # Absent =>
         q.temperature = Absent /\ (MaxTokens(q) # 0 => q.thinking < MaxTokens(q))
    /\ Family[m] = "gemini" /\ q.config # Absent /\ MaxTokens(q) # 0 => q.config < MaxTokens(q)

LEMMA CappedKept ==
    ASSUME NEW m \in Callable, NEW p, IsParams(p) PROVE CapKept(m, p, Capped(m, p))
<1> DEFINE limit == MaxTokens(p)
           q == Capped(m, p)
<1> SUFFICES CapKept(m, p, q)
  OBVIOUS
<1>1. limit \in Nat /\ (limit # 0 => limit - 1 \in Nat)
  BY DEF MaxTokens, IsParams
<1>2. DOMAIN p = ParamKeys
  BY DEF IsParams
<1>3. /\ p.effort \in Efforts \cup {Absent} /\ p.output \in Nat
      /\ p.thinking \in Nat \cup {Absent} /\ p.config \in Nat \cup {Absent}
      /\ p.key \in {"max_tokens", "max_completion_tokens"} /\ p.temperature \in Nat \cup {Absent}
  BY DEF IsParams
<1>4. /\ IsParams(Cooled(p))
      /\ \A k \in ParamKeys \ {"temperature"} : Cooled(p)[k] = p[k]
      /\ p.thinking # Absent => Cooled(p).temperature = Absent
  BY WithoutKept DEF Cooled, ParamKeys, ReasoningKeys
<1>5. CASE Family[m] = "anthropic"
  <2>1. q = IF limit = 0 THEN Cooled(p)
            ELSE IF limit <= MinThinking THEN Without(p, {"thinking", "effort"})
            ELSE IF p.thinking = Absent THEN p
            ELSE [Cooled(p) EXCEPT !.thinking = Min({@, limit - 1})]
    BY <1>5 DEF Capped
  <2>2. CASE limit = 0
    <3>1. q = Cooled(p)
      BY <2>1, <2>2
    <3> HIDE DEF q
    <3>2. q.thinking = p.thinking /\ q.effort = p.effort /\ q.config = p.config
          /\ q.output = p.output /\ q.key = p.key
      BY <1>4, <3>1 DEF ParamKeys, ReasoningKeys
    <3>3. MaxTokens(q) = 0
      BY <2>2, <3>2 DEF MaxTokens
    <3> QED
      BY <1>4, <1>5, <3>1, <3>2, <3>3 DEF CapKept
  <2>3. CASE limit # 0 /\ limit <= MinThinking
    <3>1. q = Without(p, {"thinking", "effort"})
      BY <2>1, <2>3
    <3> HIDE DEF q
    <3>2. IsParams(q) /\ q.thinking = Absent /\ q.effort = Absent /\ q.config = p.config
          /\ q.output = p.output /\ q.key = p.key
      BY <3>1, WithoutKept DEF ParamKeys, ReasoningKeys
    <3> QED
      BY <1>5, <3>2 DEF CapKept
  <2>4. CASE limit # 0 /\ ~(limit <= MinThinking) /\ p.thinking = Absent
    <3>1. q = p
      BY <2>1, <2>4
    <3> QED
      BY <1>5, <2>4, <3>1 DEF CapKept
  <2>5. CASE limit # 0 /\ ~(limit <= MinThinking) /\ p.thinking # Absent
    <3> DEFINE t == Min({p.thinking, limit - 1})
    <3>1. q = [Cooled(p) EXCEPT !.thinking = t]
      <4>1. Cooled(p).thinking = p.thinking
        BY <1>4 DEF ParamKeys, ReasoningKeys
      <4> QED
        BY <2>1, <2>5, <4>1
    <3>2. t \in {p.thinking, limit - 1} /\ t <= limit - 1 /\ t \in Nat
      <4>1. p.thinking \in Int /\ limit - 1 \in Int /\ p.thinking \in Nat
        BY <1>1, <1>3, <2>5
      <4> HIDE DEF limit
      <4> QED
        BY <1>1, <2>5, <4>1, MinOfTwo
    <3>3. limit - 1 >= MinThinking
      BY <1>1, <2>5, BudgetAssumption
    <3> HIDE DEF q, t
    <3>4. q = [k \in ParamKeys |-> q[k]] /\ q.thinking = t
          /\ q.effort = p.effort /\ q.config = p.config /\ q.output = p.output /\ q.key = p.key
          /\ q.temperature = Absent
      BY <1>4, <2>5, <3>1, SetKept DEF ParamKeys, ReasoningKeys
    <3>5. IsParams(q)
      BY <1>3, <3>2, <3>4 DEF IsParams
    <3>6. MaxTokens(q) = limit
      BY <3>4 DEF MaxTokens
    <3>7. q.thinking \in {Absent, p.thinking} \/ (p.thinking # Absent /\ q.thinking >= MinThinking)
      BY <2>5, <3>2, <3>3, <3>4
    <3>8. q.thinking < MaxTokens(q)
      BY <1>1, <3>2, <3>4, <3>6
    <3> QED
      BY <1>5, <3>4, <3>5, <3>7, <3>8 DEF CapKept
  <2> QED
    BY <2>2, <2>3, <2>4, <2>5
<1>6. CASE Family[m] = "gemini"
  <2>1. q = IF limit = 0 \/ p.config = Absent THEN p ELSE [p EXCEPT !.config = Min({@, limit - 1})]
    BY <1>6 DEF Capped
  <2>2. CASE limit = 0 \/ p.config = Absent
    <3>1. q = p
      BY <2>1, <2>2
    <3> QED
      BY <1>6, <2>2, <3>1 DEF CapKept
  <2>3. CASE limit # 0 /\ p.config # Absent
    <3> DEFINE t == Min({p.config, limit - 1})
    <3>1. q = [p EXCEPT !.config = t]
      BY <2>1, <2>3
    <3>2. t \in {p.config, limit - 1} /\ t <= limit - 1 /\ t <= p.config /\ t \in Nat
      <4>1. p.config \in Int /\ limit - 1 \in Int /\ p.config \in Nat
        BY <1>1, <1>3, <2>3
      <4> HIDE DEF limit
      <4> QED
        BY <1>1, <2>3, <4>1, MinOfTwo
    <3> HIDE DEF q, t
    <3>3. q = [k \in ParamKeys |-> q[k]] /\ q.config = t /\ q.thinking = p.thinking
          /\ q.effort = p.effort /\ q.output = p.output /\ q.key = p.key
          /\ q.temperature = p.temperature
      BY <3>1, SetKept DEF ParamKeys, ReasoningKeys
    <3>4. IsParams(q)
      BY <1>3, <3>2, <3>3 DEF IsParams
    <3>5. MaxTokens(q) = limit
      BY <3>3 DEF MaxTokens
    <3>6. q.config < MaxTokens(q)
      BY <1>1, <3>2, <3>3, <3>5
    <3> QED
      BY <1>6, <2>3, <3>2, <3>3, <3>4, <3>6 DEF CapKept
  <2> QED
    BY <2>2, <2>3
<1>7. CASE Family[m] \notin {"anthropic", "gemini"}
  <2>1. q = p
    BY <1>7 DEF Capped
  <2> QED
    BY <1>7, <2>1 DEF CapKept
<1> QED
  BY <1>5, <1>6, <1>7

\* What a call carries of the parameters.
OutKept(m, p, q) ==
    /\ IsParams(q)
    /\ \A k \in Rejects(m) : q[k] = Absent
    /\ q.effort # 0 /\ q.effort \in {Absent, p.effort}
    /\ m \notin Named => ~NamesReasoning(q)
    /\ q.thinking \in {Absent, p.thinking} \/ (p.thinking # Absent /\ q.thinking >= MinThinking)
    /\ q.config \in {Absent, p.config} \/ (p.config # Absent /\ q.config <= p.config)
    /\ Family[m] = "anthropic" /\ q.thinking # Absent =>
         q.temperature = Absent /\ (MaxTokens(q) # 0 => q.thinking < MaxTokens(q))
    /\ Family[m] = "gemini" /\ q.config # Absent /\ MaxTokens(q) # 0 => q.config < MaxTokens(q)
    /\ Family[m] = "openai" /\ m \in Named /\ q.output # 0 =>
         q.output >= Min({Needed(IF q.effort = Absent THEN 0 ELSE q.effort), OutputCap})

LEMMA NeededTyped ==
    ASSUME NEW e \in Efforts \cup {Absent} PROVE Needed(e) \in Nat
<1>1. (IF e = Absent THEN Medium ELSE e) \in Efforts
  BY DEF Medium, Efforts
<1> QED
  BY <1>1, BudgetAssumption DEF Needed

\* Reserving room for thinking changes nothing but the output budget.
LEMMA ReservedKept ==
    ASSUME NEW m \in Callable, NEW p, IsParams(p), NEW e \in Efforts \cup {Absent}
    PROVE  LET q == Reserved(m, p, e)
           IN  /\ IsParams(q) /\ \A k \in ParamKeys : k # "output" => q[k] = p[k]
               /\ Family[m] # "openai" => q = p
               /\ Family[m] = "openai" /\ m \in Named /\ q.output # 0 =>
                    q.output >= Min({Needed(e), OutputCap})
<1> DEFINE q == Reserved(m, p, e)
           room == Min({Needed(e), OutputCap})
           out == Max({p.output, room})
<1>1. room \in Nat
  <2>1. Needed(e) \in Nat /\ OutputCap \in Nat
    BY NeededTyped, BudgetAssumption
  <2> QED
    BY <2>1, MinOfTwo
<1>2. p.output \in Nat
  BY DEF IsParams
<1> HIDE DEF room
<1>3. out \in Nat /\ out >= room
  <2>1. p.output \in Int /\ room \in Int
    BY <1>1, <1>2
  <2>2. out \in {p.output, room} /\ out >= room
    BY <2>1, MaxOfTwo
  <2> QED
    BY <1>1, <1>2, <2>2
<1>4. q = IF Family[m] # "openai" \/ m \notin Named \/ p.output = 0 THEN p
          ELSE [p EXCEPT !.output = out]
  BY DEF Reserved, room
<1> HIDE DEF q, out
<1>5. CASE q = p
  <2>1. Family[m] = "openai" /\ m \in Named /\ q.output # 0 => q.output >= room
    <3> SUFFICES ASSUME Family[m] = "openai", m \in Named, p.output # 0 PROVE q.output >= room
      BY <1>5
    <3>1. q = [p EXCEPT !.output = out]
      BY <1>4
    <3>2. q.output = out
      BY <3>1, SetKept
    <3> QED
      BY <1>3, <3>2
  <2> QED
    BY <1>5, <2>1 DEF q, room
<1>6. CASE q = [p EXCEPT !.output = out]
  <2>1. q = [k \in ParamKeys |-> q[k]] /\ q.output = out /\ \A k \in ParamKeys : k # "output" => q[k] = p[k]
    BY <1>6, SetKept
  <2>2. IsParams(q)
    BY <1>3, <2>1 DEF IsParams, ParamKeys
  <2>3. Family[m] # "openai" => q = p
    BY <1>4
  <2> QED
    BY <1>3, <2>1, <2>2, <2>3 DEF q, room
<1> QED
  BY <1>4, <1>5, <1>6

LEMMA OutgoingKept ==
    ASSUME TablesOrdered, NEW m \in Callable, NEW p, IsParams(p)
    PROVE  OutKept(m, p, Outgoing(m, p))
<1> DEFINE reasons == IF m \in Named THEN p ELSE Without(p, ReasoningKeys)
           known == IF reasons.effort = 0 THEN Without(reasons, {"effort"}) ELSE reasons
           taken == Without(known, Rejects(m))
           capped == Capped(m, taken)
           q == Reserved(m, capped, p.effort)
<1> SUFFICES OutKept(m, p, q)
  BY DEF Outgoing
<1>1. p.effort \in Efforts \cup {Absent} /\ Absent \notin Nat
  BY BudgetAssumption DEF IsParams
<1>2. /\ IsParams(reasons) /\ \A k \in ParamKeys : reasons[k] \in {p[k], Absent}
      /\ m \in Named => reasons = p
      /\ m \notin Named => reasons.effort = Absent /\ reasons.thinking = Absent
                           /\ reasons.config = Absent
  BY WithoutKept DEF ReasoningKeys, ParamKeys
<1> HIDE DEF reasons
<1>3. /\ IsParams(known) /\ \A k \in ParamKeys : known[k] \in {reasons[k], Absent}
      /\ known.effort # 0 /\ (reasons.effort # 0 => known = reasons)
  <2>1. CASE reasons.effort = 0
    <3>1. known = Without(reasons, {"effort"})
      BY <2>1
    <3> HIDE DEF known
    <3> QED
      BY <1>1, <1>2, <2>1, <3>1, WithoutKept DEF ParamKeys
  <2>2. CASE reasons.effort # 0
    BY <1>2, <2>2
  <2> QED
    BY <2>1, <2>2
<1> HIDE DEF known
<1>4. Rejects(m) \subseteq {"effort", "thinking"} /\ (Family[m] = "openai" => Rejects(m) = {"thinking"})
  <2>1. Family[m] \in {"anthropic", "gemini", "openai", "generic"}
    BY BudgetAssumption
  <2> QED
    BY <2>1 DEF Rejects
<1>5. /\ IsParams(taken)
      /\ \A k \in ParamKeys : taken[k] = IF k \in Rejects(m) THEN Absent ELSE known[k]
  BY <1>3, <1>4, WithoutKept
<1> HIDE DEF taken
<1>6. CapKept(m, taken, capped)
  BY <1>5, CappedKept
<1> HIDE DEF capped
<1>7. /\ IsParams(q) /\ \A k \in ParamKeys : k # "output" => q[k] = capped[k]
      /\ Family[m] # "openai" => q = capped
      /\ Family[m] = "openai" /\ m \in Named /\ q.output # 0 =>
           q.output >= Min({Needed(p.effort), OutputCap})
  BY <1>1, <1>6, ReservedKept DEF CapKept
<1> HIDE DEF q
<1>8. q.effort = capped.effort /\ q.thinking = capped.thinking /\ q.config = capped.config
      /\ q.temperature = capped.temperature
  BY <1>7 DEF ParamKeys
<1>9. /\ taken.effort \in {p.effort, Absent} /\ taken.thinking \in {p.thinking, Absent}
      /\ taken.config \in {p.config, Absent} /\ taken.effort # 0
      /\ "effort" \in Rejects(m) => taken.effort = Absent
      /\ "thinking" \in Rejects(m) => taken.thinking = Absent
      /\ m \notin Named => taken.effort = Absent /\ taken.thinking = Absent /\ taken.config = Absent
  BY <1>1, <1>2, <1>3, <1>5 DEF ParamKeys
<1>10. /\ q.effort \in {Absent, taken.effort}
       /\ q.thinking \in {Absent, taken.thinking} \/ (taken.thinking # Absent /\ q.thinking >= MinThinking)
       /\ q.config \in {Absent, taken.config} \/ (taken.config # Absent /\ q.config <= taken.config)
  BY <1>6, <1>8 DEF CapKept
<1>11. \A k \in Rejects(m) : q[k] = Absent
  <2>1. "effort" \in Rejects(m) => q.effort = Absent
    BY <1>9, <1>10
  <2>2. "thinking" \in Rejects(m) => q.thinking = Absent
    BY <1>9, <1>10
  <2> QED
    BY <1>4, <2>1, <2>2
<1>12. q.effort # 0 /\ q.effort \in {Absent, p.effort}
  BY <1>1, <1>9, <1>10
<1>13. m \notin Named => ~NamesReasoning(q)
  BY <1>9, <1>10 DEF NamesReasoning, ReasoningKeys
<1>14. q.thinking \in {Absent, p.thinking} \/ (p.thinking # Absent /\ q.thinking >= MinThinking)
  BY <1>9, <1>10
<1>15. q.config \in {Absent, p.config} \/ (p.config # Absent /\ q.config <= p.config)
  BY <1>9, <1>10
<1>16. /\ Family[m] = "anthropic" /\ q.thinking # Absent =>
            q.temperature = Absent /\ (MaxTokens(q) # 0 => q.thinking < MaxTokens(q))
       /\ Family[m] = "gemini" /\ q.config # Absent /\ MaxTokens(q) # 0 => q.config < MaxTokens(q)
  BY <1>6, <1>7 DEF CapKept
<1>17. ASSUME Family[m] = "openai", m \in Named, q.output # 0
       PROVE  q.output >= Min({Needed(IF q.effort = Absent THEN 0 ELSE q.effort), OutputCap})
  <2> DEFINE f == IF q.effort = Absent THEN 0 ELSE q.effort
  <2>1. q.effort = IF p.effort = 0 THEN Absent ELSE p.effort
    <3>1. q.effort = taken.effort
      BY <1>6, <1>8, <1>17 DEF CapKept
    <3>2. taken.effort = known.effort
      BY <1>4, <1>5, <1>17 DEF ParamKeys
    <3>3. known.effort = IF p.effort = 0 THEN Absent ELSE p.effort
      BY <1>1, <1>2, <1>3, <1>17 DEF ParamKeys
    <3> QED
      BY <3>1, <3>2, <3>3
  <2>2. f \in Efforts /\ (f = p.effort \/ (f = 0 /\ p.effort = Absent))
    BY <1>1, <2>1 DEF Efforts
  <2>3. 0 \in Efforts /\ Medium \in Efforts
    BY DEF Efforts, Medium
  <2>4. Needed(f) <= Needed(p.effort)
    <3>1. CASE f = p.effort
      BY <1>1, <3>1, NeededTyped
    <3>2. CASE f = 0 /\ p.effort = Absent
      <4>1. Needed(f) = AnswerFloor + Allowance[0]
        BY <1>1, <3>2 DEF Needed
      <4>2. Needed(p.effort) = AnswerFloor + Allowance[Medium]
        BY <3>2 DEF Needed
      <4>3. Allowance[0] \in Nat /\ Allowance[Medium] \in Nat /\ AnswerFloor \in Nat
            /\ Allowance[0] <= Allowance[Medium]
        BY <2>3, BudgetAssumption DEF TablesOrdered
      <4> QED
        BY <4>1, <4>2, <4>3
    <3> QED
      BY <2>2, <3>1, <3>2
  <2>5. Needed(f) \in Nat /\ Needed(p.effort) \in Nat /\ OutputCap \in Nat
    BY <1>1, <2>2, NeededTyped, BudgetAssumption
  <2>6. q.output >= Min({Needed(p.effort), OutputCap}) /\ q.output \in Nat
    BY <1>7, <1>17 DEF IsParams
  <2> HIDE DEF f
  <2>7. Min({Needed(f), OutputCap}) <= Min({Needed(p.effort), OutputCap})
    <3>1. /\ Min({Needed(f), OutputCap}) \in Int
          /\ Min({Needed(f), OutputCap}) <= Needed(f) /\ Min({Needed(f), OutputCap}) <= OutputCap
      BY <2>5, MinOfTwo
    <3>2. Min({Needed(p.effort), OutputCap}) \in {Needed(p.effort), OutputCap}
      BY <2>5, MinOfTwo
    <3> QED
      BY <2>4, <2>5, <3>1, <3>2
  <2>8. Min({Needed(f), OutputCap}) \in Int /\ Min({Needed(p.effort), OutputCap}) \in Int
    <3>1. /\ Min({Needed(f), OutputCap}) \in {Needed(f), OutputCap}
          /\ Min({Needed(p.effort), OutputCap}) \in {Needed(p.effort), OutputCap}
      <4>1. Needed(f) \in Int /\ Needed(p.effort) \in Int /\ OutputCap \in Int
        BY <2>5
      <4>2. Min({Needed(f), OutputCap}) \in {Needed(f), OutputCap}
        BY <4>1, MinOfTwo
      <4>3. Min({Needed(p.effort), OutputCap}) \in {Needed(p.effort), OutputCap}
        BY <4>1, MinOfTwo
      <4> QED
        BY <4>2, <4>3
    <3> QED
      BY <2>5, <3>1
  <2>9. q.output >= Min({Needed(f), OutputCap})
    BY <2>6, <2>7, <2>8
  <2> QED
    BY <2>9 DEF f
<1> QED
  BY <1>7, <1>11, <1>12, <1>13, <1>14, <1>15, <1>16, <1>17 DEF OutKept

-----------------------------------------------------------------------------
(* The calls of a request *)

Placement == [model : Callable, kind : {"primary", "failover", "probe", "tier"}, carried : Params]

ReasonType ==
    /\ caller \in CallerParams /\ control \in Controls
    /\ routed \in Callable /\ cascade \in BOOLEAN
    /\ params \in Params /\ placed \in Seq(Placement)
    /\ turn \in {"G25", "G12", "calls"} /\ (placed # << >> => turn = "calls")

\* A thinking budget that is not as the caller or the operator wrote it is never below
\* the least.
ThinkingHolds ==
    params.thinking \in Written \cup {Absent} \/ params.thinking >= MinThinking

\* A request that names no reasoning is given the routed provider's own at most.
QuietHolds ==
    Uninvited =>
        /\ params.thinking = Absent
        /\ params.config = Absent \/ (turn = "calls" /\ params.config <= Budget["gemini"][Medium])
        /\ params.effort = Absent \/ params.effort <= DefaultEffort(routed)

CallHolds(c) ==
    /\ c.kind # "probe" => CallFits(c)
    /\ Uninvited => ReasonsByItself(c)

PlacedHold == \A i \in DOMAIN placed : CallHolds(placed[i])

ReasonInv ==
    /\ ReasonType /\ ThinkingHolds /\ QuietHolds
    /\ PlacedHold

LEMMA DefaultTyped ==
    ASSUME NEW m \in Callable
    PROVE  /\ DefaultEffort(m) \in {0, Medium} /\ DefaultEffort(m) \in Efforts
           /\ Family[m] \in {"anthropic", "generic"} => DefaultEffort(m) = 0
<1>1. Family[m] \in {"anthropic", "gemini", "openai", "generic"}
  BY BudgetAssumption
<1> QED
  BY <1>1 DEF DefaultEffort, Medium, Efforts

LEMMA ReasonTyped ==
    ASSUME ReasonType
    PROVE  /\ IsParams(caller) /\ IsParams(params) /\ routed \in Callable
           /\ {control.floor, control.ceiling, control.default, control.unmatched} \subseteq Efforts
           /\ control.keywords \subseteq Efforts
<1>1. caller \in Params /\ params \in Params
  BY BudgetAssumption DEF ReasonType
<1>2. IsParams(caller) /\ IsParams(params)
  BY <1>1, ParamsByName
<1> QED
  BY <1>2, BudgetAssumption DEF ReasonType

\* What G25 chooses, within the provider's own unless the operator escalates.
LEMMA ChosenTyped ==
    ASSUME ReasonType
    PROVE  /\ Chosen \in Efforts
           /\ ~control.escalate /\ control.floor = 0 => Chosen <= DefaultEffort(routed)
<1> DEFINE ceiling == IF control.escalate THEN 3 ELSE DefaultEffort(routed)
           low == Min({control.ceiling, ceiling, Classified})
<1>1. Classified \in Efforts
  BY ReasonTyped, MaxEffort DEF Classified, Efforts
<1>2. ceiling \in Efforts
  BY ReasonTyped, DefaultTyped DEF Efforts
<1>3. control.floor \in Efforts /\ control.ceiling \in Efforts
  BY ReasonTyped
<1>4. Efforts \subseteq Int
  BY DEF Efforts
<1> HIDE DEF ceiling
<1>5. low \in Efforts /\ low <= ceiling
  <2>1. control.ceiling \in Int /\ ceiling \in Int /\ Classified \in Int
    BY <1>1, <1>2, <1>3, <1>4
  <2>2. low \in {control.ceiling, ceiling, Classified} /\ low <= ceiling
    BY <2>1, MinOfThree
  <2> QED
    BY <1>1, <1>2, <1>3, <2>2
<1>6. Chosen = Max({control.floor, low})
  BY DEF Chosen, ceiling
<1> HIDE DEF low
<1>7. Chosen \in {control.floor, low}
  <2>1. control.floor \in Int /\ low \in Int
    BY <1>3, <1>4, <1>5
  <2> QED
    BY <1>6, <2>1, MaxOfTwo
<1>8. ~control.escalate /\ control.floor = 0 => Chosen <= ceiling
  BY <1>2, <1>5, <1>7 DEF Efforts
<1> QED
  BY <1>3, <1>5, <1>7, <1>8 DEF ceiling

LEMMA AdaptHolds ==
    ASSUME ReasonInv, AdaptEffort PROVE ReasonInv'
<1> USE DEF ReasonInv
<1>1. /\ turn = "G25" /\ turn' = "G12" /\ UNCHANGED <<caller, control, routed, cascade, placed>>
      /\ params' = params \/ params' = [params EXCEPT !.effort = Chosen]
  BY DEF AdaptEffort, budgetOf
<1>2. IsParams(params) /\ routed \in Callable
  BY ReasonTyped
<1>3. /\ IsParams(params') /\ params'.thinking = params.thinking /\ params'.config = params.config
      /\ params'.effort \in {params.effort, Chosen}
  <2>1. CASE params' = params
    BY <1>2, <2>1
  <2>2. CASE params' = [params EXCEPT !.effort = Chosen]
    <3>1. params' = [k \in ParamKeys |-> params'[k]] /\ params'.effort = Chosen
          /\ \A k \in ParamKeys : k # "effort" => params'[k] = params[k]
      BY <1>2, <2>2, SetKept
    <3>2. Chosen \in Efforts
      BY ChosenTyped
    <3> QED
      BY <1>2, <3>1, <3>2 DEF IsParams, ParamKeys
  <2> QED
    BY <1>1, <2>1, <2>2
<1>4. ReasonType'
  BY <1>1, <1>3, ParamsByName DEF ReasonType
<1>5. ThinkingHolds'
  BY <1>1, <1>3 DEF ThinkingHolds, Written
<1>6. QuietHolds'
  <2> SUFFICES ASSUME Uninvited
               PROVE  /\ params'.thinking = Absent /\ params'.config = Absent
                      /\ params'.effort = Absent \/ params'.effort <= DefaultEffort(routed)
    BY <1>1 DEF QuietHolds, Uninvited, DefaultEffort
  <2>1. Chosen <= DefaultEffort(routed)
    BY ChosenTyped DEF Uninvited
  <2> QED
    BY <1>1, <1>3, <2>1 DEF QuietHolds
<1>7. PlacedHold'
  BY <1>1 DEF PlacedHold, CallHolds, CallFits, ThinkingBelow, Written, ReasonsByItself, Uninvited
<1> QED
  BY <1>4, <1>5, <1>6, <1>7

\* A call that carries what the parameters allow keeps the invariant, and so do the
\* parameters, whose thinking budget is then the one that was carried.
LEMMA PlaceHolds ==
    ASSUME ReasonInv, turn = "calls", NEW m \in Callable,
           NEW kind \in {"primary", "failover", "probe", "tier"}, NEW q, Place(m, kind, q),
           OutKept(m, params, q) \/ (kind = "probe" /\ \E out : /\ OutKept(m, params, out) /\ IsParams(q)
                                                              /\ \A k \in ReasoningKeys : q[k] = out[k]),
           kind \in {"failover", "tier"} \/ m = routed
    PROVE  ReasonInv'
<1> USE DEF ReasonInv
<1> DEFINE c == [model |-> m, kind |-> kind, carried |-> q]
<1>1. /\ placed' = Append(placed, c) /\ UNCHANGED <<caller, control, routed, cascade, turn>>
      /\ params' = [k \in DOMAIN params |->
                      IF k \in {"thinking", "config"} /\ q[k] # Absent THEN q[k] ELSE params[k]]
  BY DEF Place, budgetOf
<1>2. IsParams(params) /\ IsParams(caller) /\ routed \in Callable
  BY ReasonTyped
<1>3. /\ IsParams(q) /\ q.effort # 0 /\ q.effort \in {Absent, params.effort}
      /\ q.thinking \in {Absent, params.thinking} \/ (params.thinking # Absent /\ q.thinking >= MinThinking)
      /\ q.config \in {Absent, params.config} \/ (params.config # Absent /\ q.config <= params.config)
  BY DEF OutKept, ReasoningKeys
<1>4. q.thinking \in Written \cup {Absent} \/ q.thinking >= MinThinking
  BY <1>3 DEF ThinkingHolds
<1>5. /\ IsParams(params') /\ params'.effort = params.effort
      /\ params'.thinking = IF q.thinking # Absent THEN q.thinking ELSE params.thinking
      /\ params'.config = IF q.config # Absent THEN q.config ELSE params.config
  <2>1. params' = [k \in ParamKeys |->
                     IF k \in {"thinking", "config"} /\ q[k] # Absent THEN q[k] ELSE params[k]]
    BY <1>1, <1>2 DEF IsParams
  <2>2. params' = [k \in ParamKeys |-> params'[k]]
    BY <2>1
  <2> QED
    BY <1>2, <1>3, <2>1, <2>2 DEF IsParams, ParamKeys
<1>6. c \in Placement /\ c.model = m /\ c.kind = kind /\ c.carried = q
  BY <1>3, ParamsByName DEF Placement
<1> HIDE DEF c
<1>7. ReasonType'
  BY <1>1, <1>5, <1>6, ParamsByName DEF ReasonType
<1>8. ThinkingHolds'
  BY <1>1, <1>4, <1>5 DEF ThinkingHolds, Written
<1>9. ASSUME Uninvited
      PROVE  /\ q.thinking = Absent
             /\ q.config = Absent \/ q.config <= Budget["gemini"][Medium]
             /\ q.effort = Absent \/ q.effort <= DefaultEffort(routed)
  <2>1. Budget["gemini"][Medium] \in Nat
    BY BudgetAssumption DEF Medium
  <2>2. q.config \in Nat \cup {Absent} /\ params.config \in Nat \cup {Absent}
    BY <1>2, <1>3 DEF IsParams
  <2>3. q.thinking = Absent
    BY <1>3, <1>9 DEF QuietHolds
  <2>4. q.config = Absent \/ q.config <= Budget["gemini"][Medium]
    BY <1>3, <1>9, <2>1, <2>2 DEF QuietHolds
  <2>5. q.effort = Absent \/ q.effort <= DefaultEffort(routed)
    BY <1>3, <1>9 DEF QuietHolds
  <2> QED
    BY <2>3, <2>4, <2>5
<1>10. QuietHolds'
  <2> SUFFICES ASSUME Uninvited
               PROVE  /\ params'.thinking = Absent
                      /\ params'.config = Absent \/ params'.config <= Budget["gemini"][Medium]
                      /\ params'.effort = Absent \/ params'.effort <= DefaultEffort(routed)
    BY <1>1 DEF QuietHolds, Uninvited, DefaultEffort
  <2> QED
    BY <1>5, <1>9 DEF QuietHolds
<1>11. CallHolds(c)
  <2>1. ASSUME kind # "probe" PROVE CallFits(c)
    <3>1. OutKept(m, params, q)
      BY <2>1
    <3>2. ThinkingBelow(c) \/ Uncapped(q)
      <4>1. q.key = "max_tokens" => MaxTokens(q) = q.output
        BY DEF MaxTokens
      <4>2. q.key \in {"max_tokens", "max_completion_tokens"}
        BY <1>3 DEF IsParams
      <4> QED
        BY <1>6, <3>1, <4>1, <4>2 DEF OutKept, ThinkingBelow, Uncapped
    <3> QED
      BY <1>4, <1>6, <3>1, <3>2 DEF OutKept, CallFits
  <2>2. ASSUME Uninvited PROVE ReasonsByItself(c)
    <3>1. Family[m] \in {"anthropic", "gemini", "openai", "generic"}
      BY BudgetAssumption
    <3>2. q.effort = Absent \/ q.effort <= Medium
      BY <1>2, <1>3, <1>9, <2>2, DefaultTyped DEF IsParams, Efforts, Medium
    <3>3. Family[m] = "generic" /\ m = routed => q.effort = Absent
      <4>1. q.effort = Absent \/ q.effort <= DefaultEffort(routed)
        BY <1>9, <2>2
      <4>2. q.effort \in Efforts \cup {Absent}
        BY <1>3 DEF IsParams
      <4>3. Family[m] = "generic" /\ m = routed => DefaultEffort(routed) = 0
        BY <1>2, DefaultTyped
      <4> QED
        BY <1>3, <4>1, <4>2, <4>3 DEF Efforts
    <3> QED
      BY <1>6, <1>9, <2>2, <3>1, <3>2, <3>3 DEF ReasonsByItself
  <2> QED
    BY <1>6, <2>1, <2>2 DEF CallHolds
<1>12. PlacedHold'
  <2>1. placed \in Seq(Placement)
    BY DEF ReasonType
  <2>2. \A i \in DOMAIN placed' : placed'[i] = c \/ (i \in DOMAIN placed /\ placed'[i] = placed[i])
    BY <1>1, <1>6, <2>1
  <2>3. \A i \in DOMAIN placed' : CallHolds(placed'[i])
    BY <1>11, <2>2 DEF PlacedHold
  <2> QED
    BY <1>1, <2>3 DEF PlacedHold, CallHolds, CallFits, ThinkingBelow, Written, ReasonsByItself, Uninvited
<1> QED
  BY <1>7, <1>8, <1>10, <1>12

\* The parameters an effort stands for at a provider.
LEMMA MappedTyped ==
    ASSUME TablesOrdered, NEW m \in Callable, NEW e \in Efforts
    PROVE  LET mapped == Mapped(m, e)
           IN  /\ DOMAIN mapped \subseteq ReasoningKeys
               /\ "effort" \in DOMAIN mapped => mapped["effort"] = e
               /\ "thinking" \in DOMAIN mapped =>
                    /\ Family[m] = "anthropic" /\ e # 0
                    /\ mapped["thinking"] \in Nat /\ mapped["thinking"] \in Written
               /\ "config" \in DOMAIN mapped =>
                    /\ mapped["config"] \in Nat
                    /\ e <= Medium => mapped["config"] <= Budget["gemini"][Medium]
<1>1. Family[m] \in {"anthropic", "gemini", "openai", "generic"}
  BY BudgetAssumption
<1>2. e # 0 => /\ e \in 1 .. 3 /\ Budget["gemini"][e] \in Nat
              /\ Budget["anthropic"][e] \in Nat /\ Budget["anthropic"][e] \in Written
  BY BudgetAssumption DEF Efforts, Written
<1>3. e # 0 /\ e <= Medium => Budget["gemini"][e] <= Budget["gemini"][Medium]
  BY BudgetAssumption DEF Efforts, Medium, TablesOrdered
<1>4. Budget["gemini"][Medium] \in Nat
  BY BudgetAssumption DEF Medium
<1>5. CASE Family[m] = "anthropic"
  <2>1. Mapped(m, e) = IF e = 0 \/ Budget["anthropic"][e] = 0 THEN << >>
                       ELSE [thinking |-> Budget["anthropic"][e]]
    BY <1>5 DEF Mapped
  <2> QED
    BY <1>2, <1>5, <2>1 DEF ReasoningKeys
<1>6. CASE Family[m] = "gemini"
  <2>1. Mapped(m, e) = [config |-> IF e = 0 THEN 0 ELSE Budget["gemini"][e]]
    BY <1>6 DEF Mapped
  <2> QED
    BY <1>2, <1>3, <1>4, <2>1 DEF ReasoningKeys
<1>7. CASE Family[m] \in {"openai", "generic"}
  <2>1. Mapped(m, e) = << >> \/ Mapped(m, e) = [effort |-> e]
    BY <1>7 DEF Mapped
  <2> QED
    BY <2>1 DEF ReasoningKeys
<1> QED
  BY <1>1, <1>5, <1>6, <1>7

LEMMA SentTyped ==
    ASSUME ReasonType, NEW e \in Efforts
    PROVE  /\ EffortSent(e) \in Efforts
           /\ e <= DefaultEffort(routed) => EffortSent(e) <= DefaultEffort(routed)
           /\ ~NamesReasoning(params) /\ ~control.tenantChose => EffortSent(e) <= DefaultEffort(routed)
<1> DEFINE default == DefaultEffort(routed)
           least == Min({e, default})
<1>1. default \in Efforts
  BY ReasonTyped, DefaultTyped
<1>2. e \in Int /\ default \in Int
  BY <1>1 DEF Efforts
<1> HIDE DEF default
<1>3. least \in {e, default} /\ least <= default
  BY <1>2, MinOfTwo
<1>4. EffortSent(e) = IF NamesReasoning(params) \/ control.tenantChose THEN e ELSE least
  BY DEF EffortSent, default
<1> HIDE DEF least
<1> QED
  BY <1>1, <1>3, <1>4 DEF default

LEMMA ApplyHolds ==
    ASSUME TablesOrdered, ReasonInv, ApplyBudget PROVE ReasonInv'
<1> USE DEF ReasonInv
<1> DEFINE wanted == IF params.effort # Absent THEN params.effort ELSE control.default
           sent == EffortSent(wanted)
           mapped == Mapped(routed, sent)
           applied == {k \in DOMAIN mapped : params[k] = Absent}
           merged == [k \in DOMAIN params |-> IF k \in applied THEN mapped[k] ELSE params[k]]
           native == IF applied # {} /\ "effort" \notin DOMAIN mapped
                       THEN Without(merged, {"effort"}) ELSE merged
           final == IF ~control.g12 \/ routed \notin Named THEN params
                    ELSE IF sent = 0 THEN Without(native, ReasoningKeys \ DOMAIN mapped)
                    ELSE native
<1>1. /\ turn = "G12" /\ turn' = "calls" /\ UNCHANGED <<caller, control, routed, cascade, placed>>
      /\ params' = final
  BY DEF ApplyBudget, budgetOf
<1>2. IsParams(params) /\ routed \in Callable /\ control.default \in Efforts
  BY ReasonTyped
<1>3. wanted \in Efforts
  BY <1>2 DEF IsParams
<1>4. /\ sent \in Efforts
      /\ wanted <= DefaultEffort(routed) => sent <= DefaultEffort(routed)
      /\ ~NamesReasoning(params) /\ ~control.tenantChose => sent <= DefaultEffort(routed)
  <2> HIDE DEF wanted
  <2> QED
    BY <1>3, SentTyped
<1>5. Uninvited => sent <= DefaultEffort(routed)
  <2> SUFFICES ASSUME Uninvited PROVE sent <= DefaultEffort(routed)
    OBVIOUS
  <2>1. params.thinking = Absent /\ params.config = Absent
    BY <1>1 DEF QuietHolds
  <2>2. CASE params.effort = Absent
    <3>1. ~NamesReasoning(params)
      BY <2>1, <2>2 DEF NamesReasoning, ReasoningKeys
    <3> QED
      BY <1>4, <3>1 DEF Uninvited
  <2>3. CASE params.effort # Absent
    BY <1>4, <2>3 DEF QuietHolds
  <2> QED
    BY <2>2, <2>3
<1> HIDE DEF wanted, sent
<1>6. /\ DOMAIN mapped \subseteq ReasoningKeys
      /\ "effort" \in DOMAIN mapped => mapped["effort"] = sent
      /\ "thinking" \in DOMAIN mapped =>
           /\ Family[routed] = "anthropic" /\ sent # 0
           /\ mapped["thinking"] \in Nat /\ mapped["thinking"] \in Written
      /\ "config" \in DOMAIN mapped =>
           /\ mapped["config"] \in Nat
           /\ sent <= Medium => mapped["config"] <= Budget["gemini"][Medium]
  BY <1>2, <1>4, MappedTyped
<1> HIDE DEF mapped
<1>7. /\ IsParams(merged)
      /\ \A k \in ParamKeys : merged[k] = IF k \in applied THEN mapped[k] ELSE params[k]
  <2>1. merged = [k \in ParamKeys |-> IF k \in applied THEN mapped[k] ELSE params[k]]
    BY <1>2 DEF IsParams
  <2> HIDE DEF merged, applied
  <2>2. merged = [k \in ParamKeys |-> merged[k]]
    BY <2>1
  <2>3. /\ merged.effort \in {params.effort, sent} /\ merged.output = params.output
        /\ merged.key = params.key /\ merged.temperature = params.temperature
        /\ merged.thinking \in Nat \cup {Absent} /\ merged.config \in Nat \cup {Absent}
    BY <1>2, <1>6, <2>1 DEF IsParams, ParamKeys, ReasoningKeys, applied
  <2> QED
    BY <1>2, <1>4, <2>1, <2>2, <2>3 DEF IsParams
<1>8. /\ merged.effort \in {params.effort, sent}
      /\ merged.thinking = params.thinking \/ ("thinking" \in DOMAIN mapped /\ merged.thinking = mapped["thinking"])
      /\ merged.config = params.config \/ ("config" \in DOMAIN mapped /\ merged.config = mapped["config"])
  BY <1>6, <1>7 DEF ParamKeys
<1> HIDE DEF merged, applied
<1>9. IsParams(native) /\ \A k \in ParamKeys : native[k] \in {merged[k], Absent}
  BY <1>7, WithoutKept
<1> HIDE DEF native
<1>10. IsParams(final) /\ (\A k \in ReasoningKeys : final[k] \in {native[k], params[k], Absent})
  <2>1. (ReasoningKeys \ DOMAIN mapped) \cap {"output", "key"} = {} /\ ReasoningKeys \subseteq ParamKeys
    BY DEF ReasoningKeys, ParamKeys
  <2>2. /\ IsParams(Without(native, ReasoningKeys \ DOMAIN mapped))
        /\ \A k \in ReasoningKeys : Without(native, ReasoningKeys \ DOMAIN mapped)[k] \in {native[k], Absent}
    BY <1>9, <2>1, WithoutKept
  <2> QED
    BY <1>2, <1>9, <2>2
<1> HIDE DEF final
<1>11. /\ final.effort \in {params.effort, sent, Absent}
       /\ \/ final.thinking \in {params.thinking, Absent}
          \/ "thinking" \in DOMAIN mapped /\ final.thinking = mapped["thinking"]
       /\ \/ final.config \in {params.config, Absent}
          \/ "config" \in DOMAIN mapped /\ final.config = mapped["config"]
  BY <1>8, <1>9, <1>10 DEF ReasoningKeys, ParamKeys
<1>12. ReasonType'
  BY <1>1, <1>10, ParamsByName DEF ReasonType
<1>13. ThinkingHolds'
  BY <1>1, <1>6, <1>11 DEF ThinkingHolds, Written
<1>14. QuietHolds'
  <2> SUFFICES ASSUME Uninvited
               PROVE  /\ final.thinking = Absent
                      /\ final.config = Absent \/ final.config <= Budget["gemini"][Medium]
                      /\ final.effort = Absent \/ final.effort <= DefaultEffort(routed)
    BY <1>1 DEF QuietHolds, Uninvited, DefaultEffort
  <2>1. /\ params.thinking = Absent /\ params.config = Absent
        /\ params.effort = Absent \/ params.effort <= DefaultEffort(routed)
    BY <1>1 DEF QuietHolds
  <2>2. sent <= DefaultEffort(routed) /\ DefaultEffort(routed) \in {0, Medium}
        /\ (Family[routed] = "anthropic" => DefaultEffort(routed) = 0)
    BY <1>2, <1>5, DefaultTyped
  <2>3. "thinking" \notin DOMAIN mapped
    BY <1>4, <1>6, <2>2 DEF Efforts
  <2>4. sent <= Medium
    BY <1>4, <2>2 DEF Efforts, Medium
  <2> QED
    BY <1>6, <1>11, <2>1, <2>2, <2>3, <2>4
<1>15. PlacedHold'
  BY <1>1 DEF PlacedHold, CallHolds, CallFits, ThinkingBelow, Written, ReasonsByItself, Uninvited
<1> QED
  BY <1>12, <1>13, <1>14, <1>15

LEMMA ReasonInitHolds == ASSUME ReasonInit PROVE ReasonInv
<1>1. caller \in Params /\ params = caller /\ turn = "G25" /\ placed = << >>
  BY BudgetAssumption DEF ReasonInit
<1>2. ReasonType
  BY <1>1 DEF ReasonInit, ReasonType
<1>3. QuietHolds
  BY <1>1 DEF QuietHolds, Uninvited, NamesReasoning, ReasoningKeys
<1>4. ThinkingHolds /\ PlacedHold
  BY <1>1 DEF ThinkingHolds, Written, PlacedHold
<1> QED
  BY <1>2, <1>3, <1>4 DEF ReasonInv

LEMMA ReasonStepHolds ==
    ASSUME TablesOrdered, ReasonInv, [ReasonNext]_reasonVars PROVE ReasonInv'
<1>1. CASE UNCHANGED reasonVars
  BY <1>1 DEF reasonVars, budgetOf, ReasonInv, ReasonType, ThinkingHolds, QuietHolds, PlacedHold,
              CallHolds, CallFits, ThinkingBelow, Written, ReasonsByItself, Uninvited, DefaultEffort
<1>2. CASE AdaptEffort
  BY <1>2, AdaptHolds
<1>3. CASE ApplyBudget
  BY <1>3, ApplyHolds
<1>4. IsParams(params) /\ routed \in Callable /\ (placed # << >> => turn = "calls")
  BY ReasonTyped DEF ReasonInv, ReasonType
<1>5. CASE PlacePrimary
  <2>1. turn = "calls" /\ Place(routed, "primary", Outgoing(routed, params))
    BY <1>5 DEF PlacePrimary
  <2>2. OutKept(routed, params, Outgoing(routed, params))
    BY <1>4, OutgoingKept
  <2> QED
    BY <1>4, <2>1, <2>2, PlaceHolds
<1>6. CASE FailOver
  <2>1. PICK m \in Callable : Place(m, "failover", Outgoing(m, params))
    BY <1>6 DEF FailOver
  <2>2. OutKept(m, params, Outgoing(m, params)) /\ turn = "calls"
    BY <1>4, <1>6, OutgoingKept DEF FailOver
  <2> QED
    BY <2>1, <2>2, PlaceHolds
<1>7. CASE ClimbTier
  <2>1. PICK m \in Callable : Place(m, "tier", Outgoing(m, params))
    BY <1>7 DEF ClimbTier
  <2>2. OutKept(m, params, Outgoing(m, params)) /\ turn = "calls"
    BY <1>4, <1>7, OutgoingKept DEF ClimbTier
  <2> QED
    BY <2>1, <2>2, PlaceHolds
<1>8. CASE Probe
  <2> DEFINE out == Outgoing(routed, params)
             probe == [out EXCEPT !.output = IF @ = 0 THEN ProbeCap ELSE @,
                                  !.temperature = IF @ = Absent THEN 0 ELSE @]
  <2>1. turn = "calls" /\ Place(routed, "probe", probe)
    BY <1>8 DEF Probe
  <2>2. OutKept(routed, params, out)
    BY <1>4, OutgoingKept
  <2> HIDE DEF out
  <2>3. IsParams(out)
    BY <2>2 DEF OutKept
  <2>4. IsParams(probe) /\ \A k \in ReasoningKeys : probe[k] = out[k]
    <3>1. out = [k \in ParamKeys |-> out[k]] /\ ProbeCap \in Nat
      BY <2>3, BudgetAssumption DEF IsParams
    <3>2. /\ probe = [k \in ParamKeys |-> probe[k]]
          /\ probe.output \in {out.output, ProbeCap} /\ probe.temperature \in {out.temperature, 0}
          /\ probe.effort = out.effort /\ probe.thinking = out.thinking /\ probe.config = out.config
          /\ probe.key = out.key
      BY <3>1 DEF ParamKeys
    <3> HIDE DEF probe
    <3> QED
      BY <2>3, <3>1, <3>2 DEF IsParams, ReasoningKeys
  <2> HIDE DEF probe
  <2> QED
    BY <1>4, <2>1, <2>2, <2>4, PlaceHolds
<1> QED
  BY <1>1, <1>2, <1>3, <1>5, <1>6, <1>7, <1>8 DEF ReasonNext

\* Whichever provider a call ends up at, and after whatever calls before it, what it
\* carries to reason by is what that provider takes and no more than anybody asked
\* for, under any table of budgets and allowances that an operator keeps in order.
\* CallFits names what it leaves out: an output budget given as max_completion_tokens,
\* under which the code keeps no thinking budget down, and a budget below the provider's
\* least that the caller or the operator wrote.
THEOREM ReasoningAlwaysSound == TablesOrdered => (ReasonSpec => []ReasoningIsSound)
<1> SUFFICES ASSUME TablesOrdered PROVE ReasonSpec => []ReasoningIsSound
  OBVIOUS
<1>1. ReasonInit => ReasonInv
  BY ReasonInitHolds
<1>2. ReasonInv /\ [ReasonNext]_reasonVars => ReasonInv'
  BY ReasonStepHolds
<1>3. ReasonInv => ReasoningIsSound
  <2> SUFFICES ASSUME ReasonInv PROVE EveryCallFits /\ NoUninvitedReasoning
    BY DEF ReasoningIsSound
  <2>1. \A c \in ToSet(placed) : CallHolds(c)
    BY DEF ReasonInv, PlacedHold, ToSet
  <2>2. EveryCallFits
    BY <2>1 DEF EveryCallFits, Placed, CallHolds
  <2>3. NoUninvitedReasoning
    BY <2>1 DEF NoUninvitedReasoning, CallHolds
  <2> QED
    BY <2>2, <2>3
<1> QED
  BY <1>1, <1>2, <1>3, PTL DEF ReasonSpec

-----------------------------------------------------------------------------
(* The prefix-cache floor *)

\* Prompts by the sizes of their messages, and the reservation of a request.
Sizes == [Messages -> Nat]
Floors == [active : BOOLEAN, reuse : Nat \ {0}, snapshot : SUBSET Messages, roles : SUBSET Messages]

FloorType ==
    /\ size \in Sizes /\ tools \in Nat /\ seen \in Nat
    /\ fl \in Floors
    /\ opts.rate \in [read : Nat, write : Nat] /\ opts.sent \in Nat /\ opts.tools \in Nat

\* What was reserved is what the snapshot still covers.
SpanStays == fl.active /\ ~composed => Covered = reserved

\* The invariant: types, and the span unless its system prompt was composed anew.
FloorInv == FloorType /\ SpanStays

\* More tokens cost more.
LEMMA Scaled == ASSUME NEW c \in Nat, NEW a \in Nat, NEW b \in Nat, a <= b PROVE c * a <= c * b
  OBVIOUS

\* The largest message is one of them.
LEMMA MaxOfFour ==
    ASSUME NEW s \in Sizes
    PROVE  LET T == {s[m] : m \in Messages}
           IN  Max(T) \in T /\ \A x \in T : x <= Max(T)
<1> DEFINE T == {s[m] : m \in Messages}
<1>1. s["system"] \in Nat /\ s["assistant"] \in Nat /\ s["user"] \in Nat /\ s["document"] \in Nat
  BY DEF Sizes, Messages
<1>2. T = {s["system"], s["assistant"], s["user"], s["document"]}
  BY DEF Messages
<1>3. \E x \in T : \A y \in T : x >= y
  <2> HIDE DEF T
  <2>1. ASSUME NEW a \in Nat, NEW b \in Nat, NEW c \in Nat, NEW d \in Nat
        PROVE  \E x \in {a, b, c, d} : \A y \in {a, b, c, d} : x >= y
    <3>1. \E x \in {a, b} : x >= a /\ x >= b
      OBVIOUS
    <3>2. \E x \in {c, d} : x >= c /\ x >= d
      OBVIOUS
    <3>3. PICK x \in {a, b}, y \in {c, d} : x >= a /\ x >= b /\ y >= c /\ y >= d
      BY <3>1, <3>2
    <3> QED
      BY <3>3
  <2> QED
    BY <1>1, <1>2, <2>1
<1>4. Max(T) = CHOOSE x \in T : \A y \in T : x >= y
  BY DEF Max
<1>5. T \subseteq Nat
  BY <1>1, <1>2
<1> HIDE DEF T
<1>6. Max(T) \in T /\ \A y \in T : Max(T) >= y
  BY <1>3, <1>4
<1>7. \A x \in T : x <= Max(T)
  BY <1>5, <1>6
<1> QED
  BY <1>6, <1>7 DEF T

\* A span has a number of tokens.
LEMMA TotalType == ASSUME NEW s \in Sizes, NEW ids PROVE Total(ids, s) \in Nat
<1>1. s["system"] \in Nat /\ s["assistant"] \in Nat /\ s["user"] \in Nat /\ s["document"] \in Nat
  BY DEF Sizes, Messages
<1> QED
  BY <1>1 DEF Total

\* A span whose messages shrink does not grow.
LEMMA TotalFalls ==
    ASSUME NEW s \in Sizes, NEW t \in Sizes, NEW ids, ids \subseteq Messages,
           \A m \in ids : t[m] <= s[m]
    PROVE  Total(ids, t) <= Total(ids, s)
<1> DEFINE Of(f, m) == IF m \in ids THEN f[m] ELSE 0
<1>1. ASSUME NEW m \in Messages
      PROVE  Of(s, m) \in Nat /\ Of(t, m) \in Nat /\ Of(t, m) <= Of(s, m)
  BY DEF Sizes
<1>2. {"system", "assistant", "user", "document"} \subseteq Messages
  BY DEF Messages
<1>3. /\ Total(ids, s) = Of(s, "system") + Of(s, "assistant") + Of(s, "user") + Of(s, "document")
      /\ Total(ids, t) = Of(t, "system") + Of(t, "assistant") + Of(t, "user") + Of(t, "document")
  BY DEF Total
<1> HIDE DEF Of
<1> QED
  BY <1>1, <1>2, <1>3

\* A span whose messages stay keeps its tokens.
LEMMA TotalSame ==
    ASSUME NEW s \in Sizes, NEW t \in Sizes, NEW ids, ids \subseteq Messages,
           \A m \in ids : t[m] = s[m]
    PROVE  Total(ids, t) = Total(ids, s)
<1>1. \A m \in ids : t[m] \in Nat /\ s[m] \in Nat
  BY DEF Sizes
<1>2. Total(ids, t) <= Total(ids, s) /\ Total(ids, s) <= Total(ids, t)
  BY <1>1, TotalFalls
<1> QED
  BY <1>2, TotalType

\* No message of a shrunk prompt has grown.
LEMMA ShrunkFalls ==
    ASSUME NEW s \in Sizes, NEW ids \in SUBSET Messages, NEW t \in Shrunk(ids, s)
    PROVE  t \in Sizes /\ \A m \in Messages : t[m] <= s[m]
<1> DEFINE present == {m \in ids : s[m] > 0}
           top == Max({s[m] : m \in Messages})
<1>1. PICK f \in [present -> 1 .. top] :
         (\A m \in present : f[m] <= s[m]) /\ t = [m \in Messages |-> IF m \in present THEN f[m] ELSE s[m]]
  BY DEF Shrunk
<1>2. top \in Nat
  BY MaxOfFour DEF Sizes
<1> HIDE DEF top
<1>3. \A m \in present : f[m] \in Nat
  BY <1>1, <1>2
<1>4. \A m \in Messages : s[m] \in Nat
  BY DEF Sizes
<1> HIDE DEF present
<1> QED
  BY <1>1, <1>3, <1>4 DEF Sizes

\* Nothing is reserved before reserve().
LEMMA FloorTypeInit == FloorInit => FloorInv
<1> SUFFICES ASSUME FloorInit PROVE FloorInv
  OBVIOUS
<1>1. opts.rate \in [read : Nat, write : Nat] /\ opts.sent \in Nat /\ opts.tools \in Nat
  BY FloorTypes DEF FloorInit
<1>2. size \in Sizes
  BY <1>1, FloorTypes DEF FloorInit, Sent, Sizes, Messages
<1>3. fl \in Floors /\ ~fl.active
  BY DEF FloorInit, Floors, Inert
<1> QED
  BY <1>1, <1>2, <1>3 DEF FloorInit, FloorInv, FloorType, SpanStays

\* A prompt of other sizes is still one, and its span fits.
LEMMA Rewritten ==
    ASSUME FloorInv, NEW s \in Sizes, Rewrite(s)
    PROVE  /\ size' \in Sizes /\ fl' \in Floors
           /\ fl'.active = fl.active /\ fl'.reuse = fl.reuse /\ Covered' = Covered
<1>1. CASE s = size
  BY <1>1 DEF FloorInv, FloorType, Rewrite, Covered
<1>2. CASE s # size
  <2>1. fl' = [fl EXCEPT !.snapshot = Covered] /\ size' = s
    BY <1>2 DEF Rewrite, Resnapshot
  <2>2. Covered \subseteq Messages /\ Covered \in SUBSET Messages
    BY DEF FloorInv, FloorType, Floors, Covered
  <2>3. fl' \in Floors /\ fl'.active = fl.active /\ fl'.reuse = fl.reuse /\ fl'.roles = fl.roles
        /\ fl'.snapshot = Covered
    BY <2>1, <2>2 DEF FloorInv, FloorType, Floors
  <2>4. Covered' = Covered
    BY <2>3 DEF Covered
  <2> QED
    BY <2>1, <2>3, <2>4
<1> QED
  BY <1>1, <1>2

\* A rewritten span is the reserved one still.
LEMMA RewrittenHolds ==
    ASSUME FloorInv, NEW s \in Sizes, Rewrite(s), UNCHANGED <<seen, opts, composed, reserved>>,
           tools' \in Nat
    PROVE  FloorInv'
<1>1. FloorType'
  BY Rewritten DEF FloorInv, FloorType
<1>2. SpanStays'
  BY Rewritten DEF FloorInv, SpanStays
<1> QED
  BY <1>1, <1>2 DEF FloorInv

\* G01 compresses messages.
LEMMA CompressibleType == Compressible \in SUBSET Messages
  BY DEF Compressible, Messages

\* What G01 sends, as weighed or at a milder rate, is of no message more than there was.
LEMMA G01Sends ==
    ASSUME FloorInv, NEW s \in Shrunk(Compressible, size), NEW t \in Weighed(s)
    PROVE  /\ t \in Sizes /\ \A m \in Messages : t[m] <= size[m]
           /\ \/ t = s /\ \E c \in BOOLEAN : AllowsShrink(SpanTokens(size, tools), SpanTokens(t, tools), c)
              \/ SpanTokens(t, tools) >= Floor
              \/ \A m \in Covered : t[m] = size[m]
<1> DEFINE before == SpanTokens(size, tools)
           after == SpanTokens(s, tools)
           inSpan == {m \in Covered : s[m] # size[m]}
           whole == [m \in Messages |-> IF m \in inSpan THEN size[m] ELSE s[m]]
           shrinkable == Total(inSpan, size)
           milder == IF TargetRate(shrinkable, before - shrinkable)
                       THEN Shrunk(inSpan, whole) ELSE {whole}
           Lands(f) == f # whole /\ SpanTokens(f, tools) >= Floor
           fallback == IF AllowsShrink(before, after, FALSE) THEN s ELSE whole
<1>1. size \in Sizes /\ s \in Sizes /\ \A m \in Messages : s[m] <= size[m]
  BY CompressibleType, ShrunkFalls DEF FloorInv, FloorType
<1>2. Covered \subseteq Messages
  BY DEF FloorInv, FloorType, Floors, Covered
<1>3. whole \in Sizes /\ (\A m \in Messages : whole[m] <= size[m]) /\ \A m \in Covered : whole[m] = size[m]
  BY <1>1, <1>2 DEF Sizes
<1>4. CASE AllowsShrink(before, after, TRUE)
  <2>1. t = s
    BY <1>4 DEF Weighed
  <2> QED
    BY <1>1, <1>4, <2>1
<1>5. CASE ~AllowsShrink(before, after, TRUE)
  <2>1. Weighed(s) = {IF Lands(f) THEN f ELSE fallback : f \in milder}
    BY <1>5 DEF Weighed
  <2>2. inSpan \in SUBSET Messages
    BY <1>2
  <2> HIDE DEF inSpan
  <2> HIDE DEF whole
  <2>3. ASSUME NEW f \in milder PROVE f \in Sizes /\ \A m \in Messages : f[m] <= size[m]
    <3>1. f \in Sizes /\ \A m \in Messages : f[m] <= whole[m]
      <4>1. CASE f \in Shrunk(inSpan, whole)
        BY <4>1, <1>3, <2>2, ShrunkFalls
      <4>2. CASE f = whole
        BY <4>2, <1>3 DEF Sizes
      <4> QED
        BY <4>1, <4>2
    <3> QED
      BY <1>1, <1>3, <3>1 DEF Sizes
  <2>4. PICK f \in milder : t = IF Lands(f) THEN f ELSE fallback
    <3> HIDE DEF milder, Lands, fallback
    <3> QED
      BY <2>1
  <2>5. CASE Lands(f)
    BY <2>3, <2>4, <2>5
  <2>6. CASE ~Lands(f)
    <3>1. CASE AllowsShrink(before, after, FALSE)
      <4>1. t = s
        BY <2>4, <2>6, <3>1
      <4> QED
        BY <1>1, <3>1, <4>1
    <3>2. CASE ~AllowsShrink(before, after, FALSE)
      <4>1. t = whole
        BY <2>4, <2>6, <3>2
      <4> QED
        BY <1>3, <4>1
    <3> QED
      BY <3>1, <3>2
  <2> QED
    BY <2>5, <2>6
<1> QED
  BY <1>4, <1>5

\* Reserve: the span is covered as it is reserved.
LEMMA ReserveHolds == ASSUME FloorInv, Reserve PROVE FloorInv'
<1> DEFINE span == IF opts.whole THEN {"system", "assistant", "user"} ELSE {"system"}
           new == [active |-> TRUE, reuse |-> Max({1, Assumed, seen'}), snapshot |-> span,
                   roles |-> {RoleOf(m) : m \in span}]
<1>1. UNCHANGED <<size, tools, opts, composed>>
  BY DEF Reserve
<1>2. UNCHANGED <<fl, seen, reserved>> \/ (seen' = seen + 1 /\ reserved' = span /\ fl' = new)
  BY DEF Reserve
<1>3. CASE UNCHANGED <<fl, seen, reserved>>
  BY <1>1, <1>3 DEF FloorInv, FloorType, SpanStays, Covered
<1>4. CASE seen' = seen + 1 /\ reserved' = span /\ fl' = new
  <2>1. seen' \in Nat
    BY <1>4 DEF FloorInv, FloorType
  <2>2. Max({1, Assumed, seen'}) \in Nat \ {0}
    <3>1. Assumed \in Nat
      BY FloorTypes
    <3>2. \E x \in {1, Assumed, seen'} : \A y \in {1, Assumed, seen'} : x >= y
      BY <2>1, <3>1
    <3> QED
      BY <2>1, <3>1, <3>2 DEF Max
  <2>3. span \in SUBSET Messages /\ {RoleOf(m) : m \in span} \in SUBSET Messages
        /\ \A m \in span : RoleOf(m) \in {RoleOf(n) : n \in span}
    BY DEF Messages, RoleOf
  <2> HIDE DEF span
  <2>4. fl' \in Floors /\ fl'.snapshot = span /\ fl'.roles = {RoleOf(m) : m \in span}
    BY <1>4, <2>2, <2>3 DEF Floors
  <2>5. Covered' = span
    BY <2>3, <2>4 DEF Covered
  <2> QED
    BY <1>1, <1>4, <2>1, <2>4, <2>5 DEF FloorInv, FloorType, SpanStays
<1> QED
  BY <1>2, <1>3, <1>4

\* ComposeLayers: the composed prompt leaves the span, and says so.
LEMMA ComposeHolds == ASSUME FloorInv, ComposeLayers PROVE FloorInv'
<1>1. UNCHANGED <<tools, seen, opts, reserved>>
  BY DEF ComposeLayers
<1>2. CASE UNCHANGED <<size, fl, composed>>
  BY <1>1, <1>2 DEF FloorInv, FloorType, SpanStays, Covered
<1>3. CASE composed' = TRUE /\ (\E n \in SystemSizes : size' = [size EXCEPT !["system"] = n])
           /\ fl' = [fl EXCEPT !.snapshot = @ \ {"system"}]
  <2>1. PICK n \in SystemSizes : size' = [size EXCEPT !["system"] = n]
    BY <1>3
  <2>2. size' \in Sizes
    BY <2>1, FloorTypes DEF FloorInv, FloorType, Sizes
  <2>3. fl' \in Floors
    BY <1>3 DEF FloorInv, FloorType, Floors
  <2> QED
    BY <1>1, <1>3, <2>2, <2>3 DEF FloorInv, FloorType, SpanStays
<1> QED
  BY <1>2, <1>3 DEF ComposeLayers

\* The groups that may replace any message rewrite to sizes.
LEMMA G01Holds == ASSUME FloorInv, G01 PROVE FloorInv'
<1>1. PICK s \in Shrunk(Compressible, size) : \E t \in Weighed(s) : Rewrite(t)
  BY DEF G01
<1>2. PICK t \in Weighed(s) : Rewrite(t)
  BY <1>1
<1>3. t \in Sizes
  BY <1>1, <1>2, G01Sends
<1> QED
  BY <1>2, <1>3, RewrittenHolds DEF G01, FloorInv, FloorType

\* G20: a template of any size is a size.
LEMMA G20Holds == ASSUME FloorInv, G20 PROVE FloorInv'
<1>1. CASE UNCHANGED <<size, fl>>
  BY <1>1 DEF FloorInv, FloorType, SpanStays, Covered, G20
<1>2. CASE \E n \in SystemSizes : Rewrite([size EXCEPT !["system"] = n])
  <2>1. PICK n \in SystemSizes : Rewrite([size EXCEPT !["system"] = n])
    BY <1>2
  <2>2. [size EXCEPT !["system"] = n] \in Sizes
    BY FloorTypes DEF FloorInv, FloorType, Sizes
  <2> QED
    BY <2>1, <2>2, RewrittenHolds DEF G20, FloorInv, FloorType
<1> QED
  BY <1>1, <1>2 DEF G20

\* G07: a document joins no span.
LEMMA G07Holds == ASSUME FloorInv, G07 PROVE FloorInv'
<1>1. size' \in Sizes
  BY FloorTypes DEF G07, FloorInv, FloorType, Sizes
<1> QED
  BY <1>1 DEF G07, FloorInv, FloorType, SpanStays, Covered

\* G08: folding tools changes no message.
LEMMA G08Holds == ASSUME FloorInv, G08 PROVE FloorInv'
<1>1. PICK t \in 0 .. tools : tools' \in {t, tools}
  BY DEF G08
<1>2. tools' \in Nat
  BY <1>1 DEF FloorInv, FloorType
<1> QED
  BY <1>2 DEF G08, FloorInv, FloorType, SpanStays, Covered

\* G28: a reference takes the place of a message.
LEMMA G28Holds == ASSUME FloorInv, G28 PROVE FloorInv'
<1>1. PICK ids \in SUBSET Compressible :
        Rewrite([m \in Messages |-> IF m \in ids /\ size[m] > 1 THEN 1 ELSE size[m]])
  BY DEF G28
<1>2. [m \in Messages |-> IF m \in ids /\ size[m] > 1 THEN 1 ELSE size[m]] \in Sizes
  BY DEF FloorInv, FloorType, Sizes
<1> QED
  BY <1>1, <1>2, RewrittenHolds DEF G28, FloorInv, FloorType

\* What G19 sends, allowed or restored, is of no message more than there was.
LEMMA G19Sends ==
    ASSUME FloorInv, G19
    PROVE  \E t \in Sizes :
              /\ Rewrite(t) /\ \A m \in Messages : t[m] <= size[m]
              /\ \/ AllowsShrink(SpanTokens(size, tools), SpanTokens(t, tools), FALSE)
                 \/ \A m \in Covered : t[m] = size[m]
<1> DEFINE before == SpanTokens(size, tools)
           lost == stale \/ Unmeasurable(before)
           kept == IF lost THEN Messages ELSE Covered
           Restored(s) == [m \in Messages |-> IF m \in kept THEN size[m] ELSE s[m]]
<1>1. PICK s \in Shrunk(Messages, size) :
        Rewrite(IF AllowsShrink(before, SpanTokens(s, tools), FALSE) THEN s ELSE Restored(s))
  BY DEF G19
<1>2. size \in Sizes /\ s \in Sizes /\ \A m \in Messages : s[m] <= size[m]
  BY <1>1, ShrunkFalls DEF FloorInv, FloorType
<1>3. Covered \subseteq kept
  BY DEF FloorInv, FloorType, Floors, Covered
<1>4. CASE AllowsShrink(before, SpanTokens(s, tools), FALSE)
  BY <1>1, <1>2, <1>4
<1>5. CASE ~AllowsShrink(before, SpanTokens(s, tools), FALSE)
  <2>1. Restored(s) \in Sizes /\ (\A m \in Messages : Restored(s)[m] <= size[m])
        /\ \A m \in Covered : Restored(s)[m] = size[m]
    <3>1. Covered \subseteq Messages
      BY DEF FloorInv, FloorType, Floors, Covered
    <3> HIDE DEF kept
    <3> QED
      BY <1>2, <1>3, <3>1 DEF Sizes
  <2>2. Rewrite(Restored(s))
    BY <1>1, <1>5
  <2> HIDE DEF Restored
  <2> QED
    BY <2>1, <2>2
<1> QED
  BY <1>4, <1>5

\* G19: what it restores is a prompt.
LEMMA G19Holds == ASSUME FloorInv, G19 PROVE FloorInv'
<1>1. PICK t \in Sizes : Rewrite(t)
  BY G19Sends
<1> QED
  BY <1>1, RewrittenHolds DEF G19, FloorInv, FloorType

\* SentAgain: the next request starts over.
LEMMA SentAgainHolds == ASSUME FloorInv, SentAgain PROVE FloorInv'
<1>1. size' \in Sizes
  BY FloorTypes DEF SentAgain, Sent, Sizes, Messages, FloorInv, FloorType
<1>2. fl' \in Floors /\ ~fl'.active
  BY DEF SentAgain, Inert, Floors
<1>3. seen' \in Nat /\ tools' \in Nat /\ opts' = opts
  BY DEF SentAgain, FloorInv, FloorType
<1>4. FloorType'
  BY <1>1, <1>2, <1>3 DEF FloorInv, FloorType
<1> QED
  BY <1>2, <1>4 DEF FloorInv, SpanStays

\* At every stage of every request the floor measures the messages it reserved, unless
\* layered composition replaced the system prompt (reserve, resnapshot).
THEOREM FloorTyped == FloorSpec => []FloorInv
<1>1. ASSUME FloorInv, [FloorNext]_floorVars PROVE FloorInv'
  <2>1. CASE UNCHANGED floorVars
    BY <1>1, <2>1 DEF floorVars, FloorInv, FloorType, SpanStays, Covered
  <2> QED
    BY <1>1, <2>1, ReserveHolds, ComposeHolds, G01Holds, G20Holds, G07Holds, G08Holds, G28Holds,
       G19Holds, SentAgainHolds DEF FloorNext
<1> QED
  BY <1>1, FloorTypeInit, PTL DEF FloorSpec

\* The span's cost over its reuses.
CostOf(tokens) == IF tokens < Floor THEN 100 * fl.reuse * tokens ELSE KeepCost(tokens)

\* Where the rule prefers the shrink, the span costs no more over its reuses.
LEMMA CostFalls ==
    ASSUME FloorInv, fl.active, NEW b \in Nat, NEW a \in Nat, a <= b,
           \/ \E c \in BOOLEAN : AllowsShrink(b, a, c)
           \/ a >= Floor
           \/ a = b
    PROVE  CostOf(a) <= CostOf(b)
<1> DEFINE rate == opts.rate.write + (fl.reuse - 1) * opts.rate.read
           full == 100 * fl.reuse
<1>1. fl.reuse \in Nat \ {0} /\ opts.rate.write \in Nat /\ opts.rate.read \in Nat
  BY DEF FloorInv, FloorType, Floors
<1>2. rate \in Nat /\ full \in Nat
  <2>1. \A x \in Nat, y \in Nat : x * y \in Nat
    OBVIOUS
  <2>2. (fl.reuse - 1) * opts.rate.read \in Nat
    BY <1>1, <2>1
  <2> QED
    BY <1>1, <2>2
<1>3. \A n : KeepCost(n) = rate * n
  BY DEF KeepCost
<1>4. Floor \in Nat
  BY FloorTypes
<1>5. CASE a = b
  <2>1. CostOf(a) \in Int
    <3> HIDE DEF rate, full
    <3>1. full * a \in Int /\ rate * a \in Int
      BY <1>2
    <3> QED
      BY <1>3, <3>1 DEF CostOf, full
  <2> QED
    BY <1>5, <2>1
<1>6. CASE a # b /\ b < Floor
  <2>1. full * a <= full * b
    <3> HIDE DEF full
    <3> QED
      BY <1>2, Scaled
  <2> QED
    BY <1>4, <1>6, <2>1 DEF CostOf
<1>7. CASE a >= Floor
  <2>1. rate * a <= rate * b
    <3> HIDE DEF rate
    <3> QED
      BY <1>2, Scaled
  <2> QED
    BY <1>3, <1>4, <1>7, <2>1 DEF CostOf
<1>8. CASE a < Floor /\ b >= Floor /\ a # b
  <2>1. full * a <= rate * b
    <3>1. PICK c \in BOOLEAN : full * a <= rate * (IF c THEN Floor ELSE b)
      BY <1>3, <1>4, <1>8 DEF AllowsShrink, CompressIsCheaper
    <3>2. rate * Floor <= rate * b
      <4> HIDE DEF rate
      <4> QED
        BY <1>2, <1>4, <1>8, Scaled
    <3>3. full * a \in Int /\ rate * Floor \in Int /\ rate * b \in Int
      <4> HIDE DEF rate, full
      <4> QED
        BY <1>2, <1>4
    <3> HIDE DEF rate, full
    <3> QED
      BY <3>1, <3>2, <3>3
  <2> QED
    BY <1>3, <1>4, <1>8, <2>1 DEF CostOf
<1> QED
  BY <1>4, <1>5, <1>6, <1>7, <1>8

\* A span rewritten as its group weighed it costs no more.
LEMMA SendsPayOff ==
    ASSUME FloorInv, fl.active, ~composed, NEW t \in Sizes, Rewrite(t),
           UNCHANGED <<tools, opts, reserved>>,
           \A m \in Messages : t[m] <= size[m],
           \/ \E c \in BOOLEAN : AllowsShrink(SpanTokens(size, tools), SpanTokens(t, tools), c)
           \/ SpanTokens(t, tools) >= Floor
           \/ \A m \in Covered : t[m] = size[m]
    PROVE  SpanCost' <= SpanCost
<1> DEFINE b == Total(reserved, size) + tools
           a == Total(reserved, t) + tools
<1>1. Covered = reserved /\ Covered \subseteq Messages /\ size \in Sizes /\ tools \in Nat
  BY DEF FloorInv, FloorType, SpanStays, Floors, Covered
<1>2. a \in Nat /\ b \in Nat /\ a <= b
  BY <1>1, TotalType, TotalFalls
<1>3. SpanTokens(size, tools) = b /\ SpanTokens(t, tools) = a
  BY <1>1 DEF SpanTokens
<1>4. (\A m \in Covered : t[m] = size[m]) => a = b
  BY <1>1, TotalSame
<1>5. size' = t
  BY DEF Rewrite
<1>6. fl'.reuse = fl.reuse
  BY Rewritten
<1>7. SpanCost = CostOf(b) /\ SpanCost' = CostOf(a)
  BY <1>5, <1>6 DEF SpanCost, CostOf, KeepCost
<1> HIDE DEF a, b
<1>8. CostOf(a) <= CostOf(b)
  BY <1>2, <1>3, <1>4, CostFalls
<1> QED
  BY <1>7, <1>8

\* G01: each of its answers pays off or leaves the span.
LEMMA G01PaysOff == ASSUME FloorInv, G01, fl.active, ~composed PROVE SpanCost' <= SpanCost
<1>1. PICK s \in Shrunk(Compressible, size) : \E t \in Weighed(s) : Rewrite(t)
  BY DEF G01
<1>2. PICK t \in Weighed(s) : Rewrite(t)
  BY <1>1
<1>3. UNCHANGED <<tools, opts, reserved>>
  BY DEF G01
<1> QED
  BY <1>1, <1>2, <1>3, G01Sends, SendsPayOff

\* G19: each of its answers pays off or leaves the span.
LEMMA G19PaysOff == ASSUME FloorInv, G19, fl.active, ~composed PROVE SpanCost' <= SpanCost
<1>1. PICK t \in Sizes :
        /\ Rewrite(t) /\ \A m \in Messages : t[m] <= size[m]
        /\ \/ AllowsShrink(SpanTokens(size, tools), SpanTokens(t, tools), FALSE)
           \/ \A m \in Covered : t[m] = size[m]
  BY G19Sends
<1>2. UNCHANGED <<tools, opts, reserved>>
  BY DEF G19
<1> QED
  BY <1>1, <1>2, SendsPayOff

\* G08: folding the tools pays off.
LEMMA G08PaysOff == ASSUME FloorInv, G08, fl.active, ~composed PROVE SpanCost' <= SpanCost
<1>1. PICK t \in 0 .. tools :
        \/ tools' = tools
        \/ tools' = t /\ AllowsShrink(SpanTokens(size, tools), SpanTokens(size, t), FALSE)
  BY DEF G08
<1>2. UNCHANGED <<size, fl, opts, reserved>>
  BY DEF G08
<1>3. Covered = reserved /\ size \in Sizes /\ tools \in Nat
  BY DEF FloorInv, FloorType, SpanStays
<1> DEFINE b == Total(reserved, size) + tools
           a == Total(reserved, size) + tools'
<1>4. a \in Nat /\ b \in Nat /\ a <= b
  <2>1. Total(reserved, size) \in Nat
    BY <1>3, TotalType
  <2>2. t \in Nat /\ t <= tools
    BY <1>3
  <2>3. tools' = tools \/ tools' = t
    BY <1>1
  <2> QED
    BY <1>3, <2>1, <2>2, <2>3
<1>5. a = b \/ AllowsShrink(b, a, FALSE)
  BY <1>1, <1>3 DEF SpanTokens
<1>6. SpanCost = CostOf(b) /\ SpanCost' = CostOf(a)
  BY <1>2 DEF SpanCost, CostOf, KeepCost
<1> HIDE DEF a, b
<1>7. CostOf(a) <= CostOf(b)
  BY <1>4, <1>5, CostFalls
<1> QED
  BY <1>6, <1>7

\* With any prices, sizes, margin and reuse, no shrink that G01, G08 or G19 lets through
\* makes the reserved span dearer over its reuses than leaving it was (allows_shrink,
\* compress_is_cheaper).
THEOREM ShrinksPay == FloorSpec => ShrinksPayOff
<1> DEFINE Meets == stage \in {"G01", "G08", "G19"} /\ fl.active /\ ~composed
<1>1. ASSUME FloorInv, [FloorNext]_floorVars
      PROVE  [Meets => (SpanCost' <= SpanCost)]_floorVars
  <2>1. SUFFICES ASSUME FloorNext, Meets PROVE SpanCost' <= SpanCost
    BY <1>1
  <2>2. G01 \/ G08 \/ G19
    BY <2>1 DEF FloorNext, Reserve, ComposeLayers, G20, G07, G28, SentAgain
  <2> QED
    BY <1>1, <2>1, <2>2, G01PaysOff, G08PaysOff, G19PaysOff
<1> QED
  BY <1>1, FloorTyped, PTL DEF FloorSpec, ShrinksPayOff

==============================================================================
