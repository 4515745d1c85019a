------------------------------ MODULE MCShared ------------------------------
(***************************************************************************)
(* What concurrent requests share: the response cache (Lifecycle for two    *)
(* callers of one tenant), the tool registry's usage statistics, the        *)
(* settings in force and the tenants' overrides, the way in past the        *)
(* address and the key, and the keys answers are filed under.  The modules  *)
(* keep disjoint state, so their steps commute and each is explored on its  *)
(* own: "part" is the one that runs in a behaviour, the others stay in one  *)
(* of their initial states.                                                 *)
(***************************************************************************)
EXTENDS MCLifecycle, ToolPruning, Settings, ClientAddress, ResponseCache

CONSTANTS w1, w2, v1, v2

VARIABLE part

frontVars == <<settingsVars, addressVars, responseVars>>
Swaps == Interchangeable \cup Permutations({w1, w2})

-----------------------------------------------------------------------------
(* ClientAddress: one request is any of these, the other is the forwarder's. *)
Deployment(hops, legacy, cloudRun, observe) ==
    [hops |-> hops, legacy |-> legacy, cloudRun |-> cloudRun, observe |-> observe,
     verifier |-> hops = "two", cidrs |-> {}, override |-> TRUE, users |-> {"u"}]
MCDeployments ==
    {Deployment("unset", "unset", FALSE, FALSE),
     [Deployment("two", "unset", TRUE, FALSE) EXCEPT !.cidrs = {"peer", "user"}],
     Deployment("auto", "true", TRUE, FALSE),
     [Deployment("unset", "true", FALSE, FALSE) EXCEPT !.cidrs = {"peer"}],
     Deployment("auto", "unset", TRUE, TRUE)}
AKey == [valid |-> TRUE, tenant |-> "t", suspended |-> FALSE, contract |-> TRUE,
         cidrs |-> {"origin", "user"}, admin |-> FALSE, gateway |-> FALSE, users |-> {}]
OtherKeys ==
    {[AKey EXCEPT !.suspended = TRUE],
     [AKey EXCEPT !.admin = TRUE, !.gateway = TRUE, !.users = {"u"}]}
Vouch(present, genuine, address) == [sent |-> present, genuine |-> genuine, address |-> address]
PlainVisit == [lines |-> << >>, vouch |-> Vouch(FALSE, FALSE, "no address"), key |-> AKey,
          headers |-> [tenant |-> "s", team |-> "a", user |-> "u"]]
Vouched(v) == [PlainVisit EXCEPT !.lines = << <<"written">> >>, !.vouch = v]
AnyConnection ==
    {[PlainVisit EXCEPT !.lines = w] :
        w \in {<< >>, << <<"written", "no address">> >>, << <<"written">>, <<"written">> >>}}
    \cup {[PlainVisit EXCEPT !.key = k] : k \in OtherKeys}
    \cup {Vouched(Vouch(TRUE, FALSE, "written")), Vouched(Vouch(TRUE, TRUE, "user"))}
MCConnections == (v1 :> AnyConnection @@ v2 :> {c \in AnyConnection : c.vouch.genuine})

-----------------------------------------------------------------------------
(* ResponseCache: the plain question, and the ones that differ from it in one thing. *)
PlainAsk ==
    [tenant |-> "t", model |-> "m", system |-> "s", verbosity |-> "plain", params |-> "none",
     words |-> "w", meaning |-> "q", literals |-> "none", form |-> "question", semantic |-> TRUE,
     step |-> "st"]
Reworded == [PlainAsk EXCEPT !.words = "v"]
AnyAsk ==
    {PlainAsk, [PlainAsk EXCEPT !.tenant = "u"], [PlainAsk EXCEPT !.model = "d"],
     [PlainAsk EXCEPT !.system = "steered"], [PlainAsk EXCEPT !.params = "capped", !.step = "none"],
     [Reworded EXCEPT !.semantic = FALSE, !.step = "none"], [Reworded EXCEPT !.literals = "7"],
     [PlainAsk EXCEPT !.words = "compacted", !.form = "image"],
     [Reworded EXCEPT !.verbosity = "terse"], [Reworded EXCEPT !.meaning = "p"]}
MCAsks == (v1 :> AnyAsk @@ v2 :> {PlainAsk})
MCTtl == ("L1" :> 1 @@ "L2" :> 2 @@ "STEP" :> 2)

-----------------------------------------------------------------------------
SharedInit ==
    /\ part \in {"cache", "prune", "file", "overrides", "address", "answers", "index"}
    \* the file changes and the overrides' time passes in behaviours of their own
    /\ IF part = "file" THEN writes = 0 ELSE writes = MaxWrites
    /\ IF part = "overrides" THEN moment = 0 ELSE moment = MaxMoment
    \* settings of the parts that do not run
    /\ part # "address" => deployed = CHOOSE d \in MCDeployments : TRUE
    /\ part # "cache" => config = Lax /\ cache = [k \in Keys |-> NoAnswer]
    /\ ResponseInit
    /\ part # "index" => index = "valid"
    /\ (part = "answers") # (cache_l2 = {})
    /\ Init /\ PruneInit /\ SettingsInit /\ AddressInit

CachePart == part = "cache" /\ Next /\ UNCHANGED <<part, toolVars, frontVars>>
PrunePart == part = "prune" /\ PruneNext /\ UNCHANGED <<part, vars, frontVars>>
SettingsPart == part \in {"file", "overrides"} /\ SettingsNext /\ UNCHANGED <<part, vars, toolVars, addressVars, responseVars>>
AddressPart == part = "address" /\ AddressNext /\ UNCHANGED <<part, vars, toolVars, settingsVars, responseVars>>
AnswersPart == part = "answers" /\ AnswersNext /\ UNCHANGED <<part, vars, toolVars, settingsVars, addressVars>>
IndexPart == part = "index" /\ IndexNext /\ UNCHANGED <<part, vars, toolVars, settingsVars, addressVars>>

SharedNext == CachePart \/ PrunePart \/ SettingsPart \/ AddressPart \/ AnswersPart \/ IndexPart

SharedSpec == SharedInit /\ [][SharedNext]_<<part, vars, toolVars, frontVars>>

\* No lookup serves an unlike answer (process_request, _l2_lookup, _check_step_cache).
ServedIsAlike == [][HitsAreAlike']_responseVars

\* No step of a build leaves every process satisfied without an index
\* (_build_l2_vector_index).
BuildersAreRight == [][IndexIsBuilt']_responseVars

\* The shared cache is sound from both ends: what is stored may be shared and passed the
\* gates (Lifecycle.StoredIsFit: Storable, store_response), and what is served was stored
\* for a request like this one, from an index that was built (ResponseCache.HitsAreAlike,
\* IndexIsBuilt: process_request, _l2_lookup, _build_l2_vector_index).
CacheIsSound == StoredIsFit /\ ServedIsAlike /\ BuildersAreRight
=============================================================================
