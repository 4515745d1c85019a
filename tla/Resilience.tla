------------------------------ MODULE Resilience ------------------------------
(***************************************************************************)
(* Provider resilience of one proxy worker: circuit breakers per provider, *)
(* lockouts per model, cooldowns per tenant, retries and failover          *)
(* (src/src/proxy/providers/resilience.py), with the callers that feed the *)
(* same store from outside (note_provider_outcome, the Jev classifier).    *)
(*                                                                         *)
(* A worker is one asyncio event loop: a task runs until it awaits.        *)
(* `running' names the request task that holds the loop between two        *)
(* awaits; while it is set no other task takes a step, and the clock does  *)
(* not advance (the code between two awaits blocks on nothing).  Every     *)
(* request and every outside call runs once.                               *)
(***************************************************************************)
EXTENDS Integers, Sequences, FiniteSets

CONSTANTS
    Requests,     \* tasks inside call_with_resilience
    Outside,      \* provider calls made outside it (G06 tiers, G13, G10, Jev)
    Tenants,      \* redis_prefix of a request
    Providers,
    JevProvider,  \* jev.key_provider
    Models,
    ProviderOf,   \* model -> provider (_resolve_provider)
    Chains,       \* target lists a request may be given
    Configs,      \* resolved ResilienceConfig values a call may carry
    MaxTime,      \* bound: the clock stops here
    Nobody        \* the event loop is free

NoProbe == -1

BreakerStates == {"closed", "open", "half_open"}

Target == [model : Models, has_key : BOOLEAN, usable : BOOLEAN]

Config == [enabled : BOOLEAN, num_retries : Nat,
           failure_threshold : Nat, cooldown_seconds : Nat,
           model_lockout : BOOLEAN, model_failure_threshold : Nat,
           model_lockout_seconds : Nat]

CircuitBreaker == [failures : Nat, state : BreakerStates, opened_at : Nat,
                   probe_started_at : Nat \cup {NoProbe}]

ASSUME ConstantsAssumption ==
    /\ ProviderOf \in [Models -> Providers]
    /\ JevProvider \in Providers
    /\ Configs \subseteq Config
    /\ Chains \subseteq Seq(Target) \ {<<>>}
    /\ MaxTime \in Nat
    /\ Nobody \notin Requests /\ "outside" \notin Models
    /\ Tenants # {} /\ Chains # {} /\ Configs # {}

Errors == {"none", "transient", "rate_limit", "fatal"}

Skips == {"skipped_no_key", "skipped_cooldown", "skipped_breaker",
          "skipped_model_lockout"}

\* The arguments of one call: the caller's redis_prefix, its targets, its config.
Job == [tenant : Tenants, targets : Chains, cfg : Configs]

\* Stands for the arguments of a request that has not started.
IdleJob == CHOOSE j \in Job : TRUE

AttemptEntry == [model : Models, outcome : Skips \cup {"error", "success"}]

Answers == {"none", "served", "raised", "all_failed", "cancelled"}

VARIABLES
    now,        \* time.monotonic()
    running,    \* the request task that holds the event loop
    breakers,   \* ResilienceStore._breakers
    lockouts,   \* ResilienceStore._model_breakers, by model
    cooldowns,  \* ResilienceStore._cooldowns: expiry, 0 when absent
    pc,         \* where each request task is
    job,        \* the arguments of call_with_resilience
    idx,        \* index of the current target
    attempt,    \* attempt_i of the current target
    lastError,  \* last_error
    trail,      \* attempts_sink
    answer,     \* how call_with_resilience ended
    routed,     \* ctx.routed_model, re-pinned by on_success
    contacted,  \* history: some provider was sent this request
    outside,    \* where each outside call is
    streak,     \* history: health failures of a provider since its last success
    blamed,     \* history: who caused them, a model or an outside call
    limited,    \* history: tenants that met a 429 on a provider
    tripped     \* history: providers whose streak reached a threshold

storeVars == <<breakers, lockouts, cooldowns>>
reqVars == <<pc, job, idx, attempt, lastError, trail, answer, routed, contacted>>
histVars == <<streak, blamed, limited, tripped>>
vars == <<now, running, breakers, lockouts, cooldowns, pc, job, idx, attempt,
          lastError, trail, answer, routed, contacted, outside, streak, blamed,
          limited, tripped>>

-----------------------------------------------------------------------------
(* CircuitBreaker: a pure state machine over the clock. *)

NewBreaker == [failures |-> 0, state |-> "closed", opened_at |-> 0,
               probe_started_at |-> NoProbe]

\* The Boolean result of allow_request.
BugAllowsWhileProbing(b, cooldown) ==
    b.state = "open" => now - b.opened_at >= cooldown

Allows(b, cooldown) ==
    \/ b.state = "closed"
    \/ b.state = "open" /\ now - b.opened_at >= cooldown
    \/ /\ b.state = "half_open"
       /\ \/ b.probe_started_at = NoProbe
          \/ now - b.probe_started_at >= cooldown

\* The effect of allow_request: a caller admitted while not closed is the probe.
AfterAllow(b, cooldown) ==
    IF b.state # "closed" /\ Allows(b, cooldown)
    THEN [b EXCEPT !.state = "half_open", !.probe_started_at = now]
    ELSE b

BugDecayFailures(b) == [b EXCEPT !.failures = @ - 1, !.state = "closed"]

RecordSuccess(b) == [b EXCEPT !.failures = 0, !.state = "closed"]

RecordFailure(b, threshold) ==
    IF b.state = "half_open"
    THEN [b EXCEPT !.state = "open", !.opened_at = now]
    ELSE IF b.failures + 1 >= threshold
         THEN [b EXCEPT !.failures = @ + 1, !.state = "open", !.opened_at = now]
         ELSE [b EXCEPT !.failures = @ + 1]

-----------------------------------------------------------------------------
(* ResilienceStore. *)

BugSharedCooldown(t, p) == \E u \in Tenants : now < cooldowns[u][p]

in_cooldown(t, p) == now < cooldowns[t][p]

\* How a call outcome moves the provider's breaker: a success, or a 5xx or
\* timeout ("transient"); a 429 ("rate_limit") or a refused request ("fatal")
\* moves nothing.
BugFedByRateLimits(b, cfg, e) ==
    CASE cfg.enabled /\ e = "none" -> RecordSuccess(b)
      [] cfg.enabled /\ e # "fatal" -> RecordFailure(b, cfg.failure_threshold)
      [] OTHER -> b

Fed(b, cfg, e) ==
    CASE cfg.enabled /\ e = "none" -> RecordSuccess(b)
      [] cfg.enabled /\ e = "transient" -> RecordFailure(b, cfg.failure_threshold)
      [] OTHER -> b

\* The same signal for one model's lockout.
BugLockoutNotFed(b, cfg, e) ==
    IF cfg.enabled /\ cfg.model_lockout /\ e = "none" THEN RecordSuccess(b) ELSE b

LockoutFed(b, cfg, e) ==
    CASE cfg.enabled /\ cfg.model_lockout /\ e = "none" -> RecordSuccess(b)
      [] cfg.enabled /\ cfg.model_lockout /\ e = "transient" ->
             RecordFailure(b, cfg.model_failure_threshold)
      [] OTHER -> b

\* History of the health signals of provider p that the store was given.
Remember(p, cfg, e, source) ==
    LET failed == cfg.enabled /\ e = "transient"
        n == IF failed THEN streak[p] + 1
             ELSE IF cfg.enabled /\ e = "none" THEN 0 ELSE streak[p]
    IN  /\ streak' = [streak EXCEPT ![p] = n]
        /\ blamed' = [blamed EXCEPT ![p] = IF failed THEN @ \cup {source}
                                           ELSE IF n = 0 THEN {} ELSE @]
        /\ tripped' = IF failed /\ \E c \in Configs : n >= c.failure_threshold
                      THEN tripped \cup {p} ELSE tripped

-----------------------------------------------------------------------------
Init ==
    /\ now = 0
    /\ running = Nobody
    /\ breakers = [p \in Providers |-> NewBreaker]
    /\ lockouts = [m \in Models |-> NewBreaker]
    /\ cooldowns = [t \in Tenants |-> [p \in Providers |-> 0]]
    /\ pc = [r \in Requests |-> "idle"]
    /\ job = [r \in Requests |-> IdleJob]
    /\ idx = [r \in Requests |-> 1]
    /\ attempt = [r \in Requests |-> 0]
    /\ lastError = [r \in Requests |-> "none"]
    /\ trail = [r \in Requests |-> <<>>]
    /\ answer = [r \in Requests |-> "none"]
    /\ routed = [r \in Requests |-> IdleJob.targets[1].model]
    /\ contacted = [r \in Requests |-> FALSE]
    /\ outside = [o \in Outside |-> "idle"]
    /\ streak = [p \in Providers |-> 0]
    /\ blamed = [p \in Providers |-> {}]
    /\ limited = [t \in Tenants |-> {}]
    /\ tripped = {}

Tick ==
    /\ running = Nobody
    /\ now < MaxTime
    /\ now' = now + 1
    /\ UNCHANGED <<running, storeVars, reqVars, outside, histVars>>

-----------------------------------------------------------------------------
(* call_with_resilience: the targets in order. *)

Targets(r) == job[r].targets
Cfg(r) == job[r].cfg
Cur(r) == Targets(r)[idx[r]]
CurProvider(r) == ProviderOf[Cur(r).model]

Gating(r) == running = r /\ pc[r] = "gate" /\ idx[r] <= Len(Targets(r))

\* The three gates, each evaluated only when the ones before it let through.
CooldownGate(r) == in_cooldown(job[r].tenant, CurProvider(r))

BreakerGate(r) ==
    /\ ~CooldownGate(r)
    /\ ~Allows(breakers[CurProvider(r)], Cfg(r).cooldown_seconds)

LockoutGate(r) ==
    /\ ~CooldownGate(r) /\ ~BreakerGate(r)
    /\ Cfg(r).model_lockout
    /\ ~Allows(lockouts[Cur(r).model], Cfg(r).model_lockout_seconds)

Gated(r) ==
    Cfg(r).enabled /\ (CooldownGate(r) \/ BreakerGate(r) \/ LockoutGate(r))

BugAskBreakerFirst(r) ==
    /\ breakers' = IF Cfg(r).enabled
                   THEN [breakers EXCEPT ![CurProvider(r)] =
                            AfterAllow(@, Cfg(r).cooldown_seconds)]
                   ELSE breakers
    /\ UNCHANGED lockouts

\* Asking the breakers moves them: an admitted caller becomes the probe, also
\* when a later gate then skips it.
AskGates(r) ==
    /\ breakers' = IF Cfg(r).enabled /\ ~CooldownGate(r)
                   THEN [breakers EXCEPT ![CurProvider(r)] =
                            AfterAllow(@, Cfg(r).cooldown_seconds)]
                   ELSE breakers
    /\ lockouts' = IF /\ Cfg(r).enabled /\ Cfg(r).model_lockout
                      /\ ~CooldownGate(r) /\ ~BreakerGate(r)
                   THEN [lockouts EXCEPT ![Cur(r).model] =
                            AfterAllow(@, Cfg(r).model_lockout_seconds)]
                   ELSE lockouts

\* Skipping is allowed only when something is left: a later target with a key,
\* or an error a real attempt has already produced.
BugSkipWhenGated(r) == TRUE

MaySkip(r) ==
    \/ \E j \in idx[r] + 1 .. Len(Targets(r)) : Targets(r)[j].has_key
    \/ lastError[r] # "none"

Log(r, outcome) ==
    trail' = [trail EXCEPT ![r] = Append(@, [model |-> Cur(r).model,
                                              outcome |-> outcome])]

NextTarget(r) ==
    /\ idx' = [idx EXCEPT ![r] = @ + 1]
    /\ attempt' = [attempt EXCEPT ![r] = 0]

Start(r) ==
    /\ running = Nobody
    /\ pc[r] = "idle"
    /\ \E j \in Job :
         /\ job' = [job EXCEPT ![r] = j]
         /\ routed' = [routed EXCEPT ![r] = j.targets[1].model]
    /\ pc' = [pc EXCEPT ![r] = "gate"]
    /\ running' = r
    /\ UNCHANGED <<now, storeVars, idx, attempt, lastError, trail, answer,
                   contacted, outside, histVars>>

SkipNoKey(r) ==
    /\ Gating(r)
    /\ ~Cur(r).has_key
    /\ Log(r, "skipped_no_key")
    /\ NextTarget(r)
    /\ UNCHANGED <<now, running, storeVars, pc, job, lastError, answer, routed,
                   contacted, outside, histVars>>

SkipGated(r) ==
    /\ Gating(r)
    /\ Cur(r).has_key
    /\ Gated(r) /\ MaySkip(r)
    /\ AskGates(r)
    /\ Log(r, IF CooldownGate(r) THEN "skipped_cooldown"
              ELSE IF BreakerGate(r) THEN "skipped_breaker"
              ELSE "skipped_model_lockout")
    /\ NextTarget(r)
    /\ UNCHANGED <<now, running, cooldowns, pc, job, lastError, answer, routed,
                   contacted, outside, histVars>>

\* Open gates, or no alternative left (fail open).
BugOnlyWhenOpen(r) == ~Gated(r)

MustTry(r) == ~Gated(r) \/ ~MaySkip(r)

\* await target.invoke().
Invoke(r) ==
    /\ Gating(r)
    /\ Cur(r).has_key
    /\ MustTry(r)
    /\ AskGates(r)
    /\ pc' = [pc EXCEPT ![r] = "calling"]
    /\ running' = Nobody
    /\ UNCHANGED <<now, cooldowns, job, idx, attempt, lastError, trail, answer,
                   routed, contacted, outside, histVars>>

Finish(r, how) ==
    /\ pc' = [pc EXCEPT ![r] = "done"]
    /\ answer' = [answer EXCEPT ![r] = how]

\* What the end of a call tells the store.
Outcome(r, e) ==
    LET p == CurProvider(r)
        m == Cur(r).model
    IN  /\ breakers' = [breakers EXCEPT ![p] = Fed(@, Cfg(r), e)]
        /\ lockouts' = [lockouts EXCEPT ![m] = LockoutFed(@, Cfg(r), e)]
        /\ Remember(p, Cfg(r), e, m)

\* on_success (_make_pin_winner): the request now names the model that answered.
BugNoPin(r) == UNCHANGED routed

PinWinner(r) == routed' = [routed EXCEPT ![r] = Cur(r).model]

\* The call answered.
InvokeSucceeds(r) ==
    /\ running = Nobody
    /\ pc[r] = "calling"
    /\ Cur(r).usable
    /\ Outcome(r, "none")
    /\ Log(r, "success")
    /\ PinWinner(r)
    /\ contacted' = [contacted EXCEPT ![r] = TRUE]
    /\ Finish(r, "served")
    /\ UNCHANGED <<now, running, cooldowns, job, idx, attempt, lastError,
                   outside, limited>>

\* A lazy fallback whose key cannot be resolved raises before any provider is
\* contacted; the error is not retryable.
ErrorsOf(target) ==
    IF target.usable THEN Errors \ {"none"} ELSE {"fatal"}

Retryable(e) == e \in {"transient", "rate_limit"}

MaxTries(cfg) == IF cfg.enabled THEN cfg.num_retries + 1 ELSE 1

Retrying(r, e) == Retryable(e) /\ attempt[r] < MaxTries(Cfg(r)) - 1

Failed(r, e) ==
    /\ Outcome(r, e)
    /\ lastError' = [lastError EXCEPT ![r] = e]
    /\ contacted' = [contacted EXCEPT ![r] = @ \/ Cur(r).usable]

\* A transient error with tries left: await sleep, then the same target again.
InvokeFailsRetry(r, e) ==
    /\ running = Nobody
    /\ pc[r] = "calling"
    /\ e \in ErrorsOf(Cur(r))
    /\ Retrying(r, e)
    /\ Failed(r, e)
    /\ pc' = [pc EXCEPT ![r] = "backoff"]
    /\ attempt' = [attempt EXCEPT ![r] = @ + 1]
    /\ UNCHANGED <<now, running, cooldowns, job, idx, trail, answer, routed,
                   outside, limited>>

\* The target is exhausted: a 429 starts the tenant's cooldown, an error of the
\* caller's own on the primary is re-raised, anything else fails over.
InvokeFails(r, e) ==
    LET t == job[r].tenant
        p == CurProvider(r)
        cooling == Cfg(r).enabled /\ e = "rate_limit"
    IN  /\ running = Nobody
        /\ pc[r] = "calling"
        /\ e \in ErrorsOf(Cur(r))
        /\ ~Retrying(r, e)
        /\ Failed(r, e)
        /\ Log(r, "error")
        /\ cooldowns' = IF cooling
                        THEN [cooldowns EXCEPT ![t][p] = now + Cfg(r).cooldown_seconds]
                        ELSE cooldowns
        /\ limited' = IF cooling THEN [limited EXCEPT ![t] = @ \cup {p}]
                                 ELSE limited
        /\ IF ~Retryable(e) /\ idx[r] = 1
           THEN /\ Finish(r, "raised")
                /\ UNCHANGED <<running, idx, attempt>>
           ELSE /\ NextTarget(r)
                /\ pc' = [pc EXCEPT ![r] = "gate"]
                /\ running' = r
                /\ UNCHANGED answer
        /\ UNCHANGED <<now, job, routed, outside>>

Wake(r) ==
    /\ running = Nobody
    /\ pc[r] = "backoff"
    /\ pc' = [pc EXCEPT ![r] = "calling"]
    /\ UNCHANGED <<now, running, storeVars, job, idx, attempt, lastError, trail,
                   answer, routed, contacted, outside, histVars>>

\* CancelledError is no Exception: it ends the call and records nothing.
Cancel(r) ==
    /\ running = Nobody
    /\ pc[r] \in {"calling", "backoff"}
    /\ Finish(r, "cancelled")
    /\ UNCHANGED <<now, running, storeVars, job, idx, attempt, lastError, trail,
                   routed, contacted, outside, histVars>>

Exhausted(r) ==
    /\ running = r
    /\ pc[r] = "gate"
    /\ idx[r] > Len(Targets(r))
    /\ Finish(r, IF Len(Targets(r)) = 1 /\ lastError[r] # "none"
                 THEN "raised" ELSE "all_failed")
    /\ running' = Nobody
    /\ UNCHANGED <<now, storeVars, job, idx, attempt, lastError, trail, routed,
                   contacted, outside, histVars>>

-----------------------------------------------------------------------------
(* Calls made outside call_with_resilience. *)

\* note_provider_outcome: exc is None, a health failure, or anything else.
NoteOutcome(p, cfg, e) ==
    /\ breakers' = [breakers EXCEPT ![p] = Fed(@, cfg, e)]
    /\ Remember(p, cfg, e, "outside")

Verdict(e) == IF e = "none" THEN "answered" ELSE "failed"

\* A G06 tier, G13 batch item or G10 summary call ends: never gated, but seen.
OutsideCall(o) ==
    /\ running = Nobody
    /\ outside[o] = "idle"
    /\ \E p \in Providers, cfg \in Configs, e \in Errors :
         /\ NoteOutcome(p, cfg, e)
         /\ outside' = [outside EXCEPT ![o] = Verdict(e)]
    /\ UNCHANGED <<now, running, lockouts, cooldowns, reqVars, limited>>

\* The Jev classifier asks its provider's breaker first; refused, it falls back.
JevAsk(o) ==
    /\ running = Nobody
    /\ outside[o] = "idle"
    /\ \E cfg \in Configs :
         LET b == breakers[JevProvider]
             refused == cfg.enabled /\ ~Allows(b, cfg.cooldown_seconds)
         IN  /\ outside' = [outside EXCEPT ![o] = IF refused THEN "refused" ELSE "jev"]
             /\ breakers' = IF cfg.enabled
                            THEN [breakers EXCEPT ![JevProvider] =
                                    AfterAllow(b, cfg.cooldown_seconds)]
                            ELSE breakers
    /\ UNCHANGED <<now, running, lockouts, cooldowns, reqVars, histVars>>

JevAnswers(o) ==
    /\ running = Nobody
    /\ outside[o] = "jev"
    /\ \E cfg \in Configs, e \in Errors :
         /\ NoteOutcome(JevProvider, cfg, e)
         /\ outside' = [outside EXCEPT ![o] = Verdict(e)]
    /\ UNCHANGED <<now, running, lockouts, cooldowns, reqVars, limited>>

\* A cancellation passes the except clauses with outcome still None, and the
\* finally clause notes that None: to the store it is a success.
JevCancelled(o) ==
    /\ running = Nobody
    /\ outside[o] = "jev"
    /\ \E cfg \in Configs : NoteOutcome(JevProvider, cfg, "none")
    /\ outside' = [outside EXCEPT ![o] = "cancelled"]
    /\ UNCHANGED <<now, running, lockouts, cooldowns, reqVars, limited>>

-----------------------------------------------------------------------------
RequestStep(r) ==
    \/ SkipNoKey(r)
    \/ SkipGated(r)
    \/ Invoke(r)
    \/ InvokeSucceeds(r)
    \/ \E e \in Errors : InvokeFailsRetry(r, e)
    \/ \E e \in Errors : InvokeFails(r, e)
    \/ Wake(r)
    \/ Exhausted(r)

OutsideStep(o) ==
    OutsideCall(o) \/ JevAsk(o) \/ JevAnswers(o) \/ JevCancelled(o)

Next ==
    \/ Tick
    \/ \E r \in Requests : Start(r) \/ RequestStep(r) \/ Cancel(r)
    \/ \E o \in Outside : OutsideStep(o)

Spec == Init /\ [][Next]_vars

\* A started call goes on: every provider call ends (request_timeout_seconds),
\* every sleep ends, and the event loop runs the task again.
Fairness == \A r \in Requests : WF_vars(RequestStep(r))

FairSpec == Spec /\ Fairness

-----------------------------------------------------------------------------
(* Properties. *)

\* Types of the variables of one worker.
TypeOK ==
    /\ now \in Nat
    /\ running \in Requests \cup {Nobody}
    /\ breakers \in [Providers -> CircuitBreaker]
    /\ lockouts \in [Models -> CircuitBreaker]
    /\ cooldowns \in [Tenants -> [Providers -> Nat]]
    /\ pc \in [Requests -> {"idle", "gate", "calling", "backoff", "done"}]
    /\ job \in [Requests -> Job]
    /\ idx \in [Requests -> Nat \ {0}]
    /\ attempt \in [Requests -> Nat]
    /\ lastError \in [Requests -> Errors]
    /\ trail \in [Requests -> Seq(AttemptEntry)]
    /\ answer \in [Requests -> Answers]
    /\ routed \in [Requests -> Models]
    /\ contacted \in [Requests -> BOOLEAN]
    /\ outside \in [Outside -> {"idle", "jev", "answered", "failed", "refused",
                                "cancelled"}]
    /\ streak \in [Providers -> Nat]
    /\ blamed \in [Providers -> SUBSET (Models \cup {"outside"})]
    /\ limited \in [Tenants -> SUBSET Providers]
    /\ tripped \in SUBSET Providers

\* Fail-open: whatever the gates say and however the chain is skipped, a call
\* that ends without having produced one error had no target with a key
\* (call_with_resilience: "gates can never produce a zero-attempt failure").
GatesNeverStarve ==
    \A r \in Requests :
        answer[r] = "all_failed" /\ lastError[r] = "none"
            => \A j \in 1 .. Len(Targets(r)) : ~Targets(r)[j].has_key

\* Signal scoping: a closed breaker counts exactly the 5xx/timeout failures
\* since the provider's last success, and a breaker is open or half-open only
\* when that many of them reached a threshold.  Neither a 429, nor a refused
\* request, nor a cancelled call, of any tenant, moves a provider towards open.
BreakerCountsHealth ==
    \A p \in Providers :
        /\ breakers[p].state = "closed" => breakers[p].failures = streak[p]
        /\ breakers[p].state # "closed" => p \in tripped /\ streak[p] > 0

\* Tenant isolation: a target is skipped for a cooldown only if this tenant met
\* a 429 at this provider, and for an open breaker only if the provider's own
\* health failures tripped it; what other tenants' keys meet never skips it.
SkipsAreJustified ==
    \A r \in Requests : \A j \in 1 .. Len(trail[r]) :
        LET p == ProviderOf[trail[r][j].model]
        IN  /\ trail[r][j].outcome = "skipped_cooldown" => p \in limited[job[r].tenant]
            /\ trail[r][j].outcome = "skipped_breaker" => p \in tripped

\* With the lockout on and its threshold no higher than the breaker's, a
\* provider that is not closed through the failures of one model has that model
\* locked: the model is isolated no later than the provider trips.
LockoutTuned ==
    \A c, d \in Configs : /\ c.enabled /\ c.model_lockout
                          /\ c.model_failure_threshold <= d.failure_threshold

LockoutPrecedesTrip ==
    LockoutTuned =>
        \A p \in Providers, m \in Models :
            breakers[p].state # "closed" /\ blamed[p] = {m}
                => lockouts[m].state # "closed"

\* Attribution: the model pinned on the request is the one whose call answered,
\* it is the last entry of the trail, and every target before it is in the
\* trail once, in order, as skipped or failed.
WinnerIsPinned ==
    \A r \in Requests :
        answer[r] = "served" =>
            /\ Len(trail[r]) = idx[r]
            /\ trail[r][idx[r]] = [model |-> routed[r], outcome |-> "success"]
            /\ \A j \in 1 .. idx[r] : trail[r][j].model = Targets(r)[j].model
            /\ \A j \in 1 .. idx[r] - 1 : trail[r][j].outcome # "success"

\* The trail of a request tells the truth about every target: why it was skipped,
\* and which one answered.
TrailIsTrue == SkipsAreJustified /\ WinnerIsPinned

\* One probe per cooldown: two callers are admitted by a breaker that is not
\* closed only a cooldown apart, also when between the two a late answer of an
\* older call closed or re-opened it.
ProbesSpaced ==
    [][\A p \in Providers :
         LET before == breakers[p].probe_started_at
         IN  breakers'[p].probe_started_at # before
               => \/ before = NoProbe
                  \/ \E c \in Configs : now - before >= c.cooldown_seconds]_vars

\* Every call that starts ends: retries and failover are bounded and no gate
\* ever makes a request wait.
EveryCallEnds ==
    \A r \in Requests : pc[r] # "idle" ~> pc[r] = "done"

\* What the comment above the gates says: a target that is skipped never takes
\* the probe of its provider's half-open breaker.
SkippedTargetsTakeNoProbe ==
    [][\A r \in Requests :
         Len(trail'[r]) > Len(trail[r]) /\ trail'[r][Len(trail'[r])].outcome \in Skips
             => breakers' = breakers]_vars

\* No step trips a provider by the failures of one model that is not locked
\* (call_with_resilience gives the model's lockout the outcome the breaker gets).
LockoutClosesFirst == [][LockoutPrecedesTrip']_vars

\* The lockout of a model is the finer gate: it closes no later than its provider's
\* breaker, and what it keeps out does not touch that breaker.
LockoutIsFiner == LockoutClosesFirst /\ SkippedTargetsTakeNoProbe

\* What the module's docstring says: a request is never answered with an error
\* unless a provider was actually tried, or there is no usable key.
ErrorsOnlyAfterAnAttempt ==
    \A r \in Requests :
        answer[r] \in {"raised", "all_failed"} /\ ~contacted[r]
            => \A j \in 1 .. Len(Targets(r)) : ~Targets(r)[j].usable

\* What CircuitBreaker's docstring says: a success closes it.  A breaker that is
\* not closed becomes closed only in a step in which some call was answered.
CloseNeedsAnAnswer ==
    [][(\E p \in Providers : breakers[p].state # "closed" /\ breakers'[p].state = "closed")
         => \/ \E r \in Requests : answer[r] # "served" /\ answer'[r] = "served"
            \/ \E o \in Outside : outside[o] # "answered" /\ outside'[o] = "answered"]_vars

\* What CircuitBreaker's docstring lists as its transitions: an open breaker
\* becomes half-open, and only a half-open one closes.
OpenClosesThroughHalfOpen ==
    [][\A p \in Providers :
         breakers[p].state = "open" => breakers'[p].state # "closed"]_vars

=============================================================================
