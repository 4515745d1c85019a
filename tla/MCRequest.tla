----------------------------- MODULE MCRequest -----------------------------
(***************************************************************************)
(* A request on its way: the pipeline of Lifecycle for one request of any   *)
(* kind, its route, its prefix-cache floor, its reasoning parameters and    *)
(* the wire protocols.  The modules keep disjoint state, so their steps     *)
(* commute and each is explored on its own: "part" is the one that runs in  *)
(* a behaviour, the others stay in one of their initial states.             *)
(***************************************************************************)
EXTENDS MCLifecycle, Routing, CacheFloor, Wire, ReasoningBudget, ContextBudget

CONSTANTS a1, a2, a3

VARIABLE part

-----------------------------------------------------------------------------
(* Routing: two tenants, four models of one provider and one of another. *)

MCModels == {"mini", "mid", "large", "grand", "other"}
MCProvider == [mini |-> "p", mid |-> "p", large |-> "p", grand |-> "p", other |-> "q"]
MCCost == [mini |-> 2, mid |-> 3, large |-> 3, grand |-> 4, other |-> 1]
MCOwnKeys == [t \in Tenants |-> IF t = "ta" THEN {"p", "embedder"} ELSE {}]

Ladder == [simple |-> <<"mini", "other">>, medium |-> <<"mid">>, complex |-> <<"large", "mid">>]
Within == [simple |-> <<"mini">>, medium |-> <<"mid", "large">>]
NoRules == << >>

Base == [enabled |-> TRUE, ladders |-> << >>, flat |-> Ladder, picks |-> << >>,
         strategy |-> "priority", classifier |-> "cascade", execute |-> TRUE, capped |-> TRUE,
         allowAbove |-> FALSE, judge |-> FALSE, embeds |-> FALSE, levels |-> {},
         onUnreachable |-> "fallback", ceiling |-> FALSE, probeCap |-> TRUE, retry |-> TRUE,
         maxStep |-> 2, rules |-> NoRules]

Families == "p" :> Within
ARule(p, match, model, tier, allow) ==
    [enabled |-> TRUE, priority |-> p, match |-> match, model |-> model, tier |-> tier,
     strategy |-> None, allow |-> allow]
SomeRules == <<ARule(0, {"tag"}, "other", None, FALSE), ARule(1, {"pattern"}, None, "complex", TRUE),
               [ARule(1, {"tag", "pattern"}, None, None, TRUE) EXCEPT !.strategy = "canary"],
               ARule(2, {}, "mid", None, FALSE)>>

\* An ask's id is a config, the caller's model, whether it set an output budget and
\* what the keyword rules make of its text; tenant tb streams, by the last config.
MCConfigs == <<
    [Base EXCEPT !.strategy = "round_robin"],
    [Base EXCEPT !.judge = TRUE, !.capped = FALSE, !.retry = FALSE, !.flat.medium = <<"grand">>],
    [Base EXCEPT !.strategy = "least_latency", !.classifier = "heuristic", !.ceiling = TRUE],
    [Base EXCEPT !.strategy = "weighted", !.classifier = "routellm", !.embeds = TRUE],
    [Base EXCEPT !.classifier = "jev", !.levels = {"simple", "complex"}, !.judge = TRUE,
                 !.ladders = Families],
    [Base EXCEPT !.classifier = "llm_judge", !.judge = TRUE, !.ladders = Families,
                 !.picks = [complex |-> <<"other">>], !.onUnreachable = "error"],
    [Base EXCEPT !.rules = SomeRules],
    [Base EXCEPT !.flat = << >>],
    [Base EXCEPT !.enabled = FALSE],
    [Base EXCEPT !.strategy = "round_robin"]>>

AskIds == (1 .. Len(MCConfigs)) \X {"large", "other"} \X BOOLEAN \X {"medium", "complex"}
MCAsk == [i \in AskIds |->
    [tenant |-> IF i[1] = Len(MCConfigs) THEN "tb" ELSE "ta",
     cfg |-> MCConfigs[i[1]],
     model |-> i[2],
     complexity |-> IF i[1] = Len(MCConfigs) /\ i[3] THEN i[4] ELSE None,
     stream |-> i[1] = Len(MCConfigs),
     budget |-> i[3],
     heuristic |-> i[4],
     sure |-> i[1] = Len(MCConfigs),
     facts |-> IF i[3] THEN {"tag"} ELSE {"tag", "pattern"}]]

\* The first request is any of them (one that names the other provider's model is
\* tenant ta's and sets its budget), the second rotates as tenant ta's, the third is
\* tenant tb's and takes the same tiers.
FirstAsks == {i \in AskIds : i[2] = "large" \/ (i[3] /\ i[1] # Len(MCConfigs))}
MCArrives == (a1 :> FirstAsks @@ a2 :> {<<1, "large", FALSE, "complex">>}
              @@ a3 :> {<<Len(MCConfigs), "large", TRUE, "complex">>})

-----------------------------------------------------------------------------
(* CacheFloor: a provider that charges for a cache write and one that does not. *)
MCRates == {[read |-> 10, write |-> 125], [read |-> 50, write |-> 100]}

-----------------------------------------------------------------------------
(* ContextBudget: the groups and rungs a configuration enables. *)
MCPlans ==
    {{"prune", "compress", "summarize", "G07"}, {"summarize", "drop", "G10", "G22", "G07"},
     {"prune", "drop", "G22"}, {"prune", "summarize", "G10", "G22"}}

-----------------------------------------------------------------------------
(* ReasoningBudget: two models of a provider that thinks to a budget, one of each of the
   others, one that does not reason and one that its provider's list does not name. *)
MCFamily == [claude |-> "anthropic", haiku |-> "anthropic", gemini |-> "gemini",
             o4 |-> "openai", gpt |-> "openai", custom |-> "generic"]
MCBudget == [anthropic |-> <<2, 5, 9>>, gemini |-> <<3, 5, 9>>]
MCAllowance == [e \in Efforts |-> <<2, 2, 4, 8>>[e + 1]]

Bare(output, key) ==
    [effort |-> Absent, thinking |-> Absent, config |-> Absent, output |-> output, key |-> key,
     temperature |-> 0]
MCCaller ==
    LET bare == {Bare(0, "max_tokens"), Bare(4, "max_tokens"),
                 Bare(3, "max_tokens"), Bare(4, "max_completion_tokens")}
    IN  bare \cup {[p EXCEPT !.effort = e] : p \in bare, e \in {0, 3}}
             \cup {[p EXCEPT !.thinking = n] : p \in bare, n \in {2, 9}}
             \cup {[p EXCEPT !.config = 9] : p \in bare}
Room(floor, ceiling, escalate) == [floor |-> floor, ceiling |-> ceiling, escalate |-> escalate]
MCControls ==
    {[g25 |-> a, g12 |-> b, floor |-> r.floor, ceiling |-> r.ceiling, escalate |-> r.escalate,
      default |-> 3, tenantChose |-> c, simple |-> e[1], keywords |-> e[2], unmatched |-> 2] :
        a \in BOOLEAN, b \in BOOLEAN, c \in BOOLEAN,
        r \in {Room(0, 3, FALSE), Room(1, 2, FALSE), Room(0, 3, TRUE)},
        e \in {<<TRUE, {}>>, <<FALSE, {1, 3}>>, <<FALSE, {}>>}}

-----------------------------------------------------------------------------
(* The states the parts that do not run stay in. *)
NothingSent == [proto |-> "openai", stream |-> TRUE, whole |-> FALSE, mode |-> "none", withhold |-> FALSE,
             answer |-> [text |-> 0, calls |-> << >>]]
AnOption == [rate |-> [read |-> 10, write |-> 125], whole |-> FALSE, system |-> FALSE, layers |-> FALSE,
             sent |-> 2, tools |-> 0]
FirstOf(S) == CHOOSE x \in S : TRUE

Aside ==
    /\ part # "route" =>
          /\ req = [r \in Routings |-> NewRequest(FirstOf(Arrives[r]))]
          /\ rotation = [t \in Tenants |-> [i \in TierNames |-> 0]]
          /\ latency = [m \in Models |-> 0] /\ failedAt = [m \in Models |-> None] /\ clock = 0
          /\ rotated = [t \in Tenants |-> [i \in TierNames |-> [m \in Models |-> 0]]]
    /\ part # "floor" => opts = AnOption
    /\ part # "stream" => wire = NothingSent
    /\ part # "inbound" => inbound = [proto |-> "gemini", open |-> [k \in ToolNames |-> << >>],
                                      next |-> 1, messages |-> 0, blocks |-> 0]
    /\ part # "reason" => caller = FirstOf(MCCaller) /\ control = FirstOf(MCControls)
                          /\ routed = "claude" /\ cascade = FALSE
    /\ part # "budget" => enabled = FirstOf(MCPlans)
    /\ part # "pipeline" => config = Lax /\ cache = [k \in Keys |-> NoAnswer]

RequestInit ==
    /\ part \in {"pipeline", "route", "floor", "stream", "inbound", "reason", "budget"}
    /\ Aside
    /\ part = "route" => RouteInit
    /\ Init /\ FloorInit /\ StreamInit /\ InInit /\ ReasonInit /\ BudgetInit

Pipeline == part = "pipeline" /\ Next /\ UNCHANGED <<part, routeVars, floorVars, wireVars, reasonVars, budgetVars>>
RoutePart == part = "route" /\ RouteNext /\ UNCHANGED <<part, vars, floorVars, wireVars, reasonVars, budgetVars>>
FloorPart == part = "floor" /\ FloorNext /\ UNCHANGED <<part, vars, routeVars, wireVars, reasonVars, budgetVars>>
StreamPart == part = "stream" /\ StreamNext /\ UNCHANGED <<part, vars, routeVars, floorVars, inVars, reasonVars, budgetVars>>
InboundPart == part = "inbound" /\ ParseMessage /\ UNCHANGED <<part, vars, routeVars, floorVars, streamVars, reasonVars, budgetVars>>
ReasonPart == part = "reason" /\ ReasonNext /\ UNCHANGED <<part, vars, routeVars, floorVars, wireVars, budgetVars>>
BudgetPart == part = "budget" /\ BudgetNext /\ UNCHANGED <<part, vars, routeVars, floorVars, wireVars, reasonVars>>

RequestNext == Pipeline \/ RoutePart \/ FloorPart \/ StreamPart \/ InboundPart \/ ReasonPart \/ BudgetPart

RequestSpec == RequestInit /\ [][RequestNext]_<<part, vars, routeVars, floorVars, wireVars, reasonVars, budgetVars>>
=============================================================================
