------------------------------ MODULE Lifecycle ------------------------------
(***************************************************************************)
(* One request's way through the proxy: OptimisationPipeline               *)
(* (middleware/pipeline.py) and what main.py makes of its verdict          *)
(* (_serve_core, _stream_response, _process_and_serve).                     *)
(*                                                                          *)
(* Requests of one tenant share its configuration, which an operator or    *)
(* the tenant may change while they run, and its response cache (G05).     *)
(* Every stage that reads or writes something a property tells apart is an *)
(* action; the optimisers, which only change the prompt's size, leave no   *)
(* trace here, so a stage that G24 skips is a stage with no effect.        *)
(*                                                                          *)
(* An answer is described by what the stages look for in it, a prompt by    *)
(* what must not reach a provider.                                          *)
(***************************************************************************)
EXTENDS Integers, FiniteSets

CONSTANTS
    Requests,   \* the requests
    Keys,       \* cache keys: what _cache_key distinguishes
    Near,       \* the keys whose entries L2 finds for a key, itself included
    Wants,      \* what a request may ask for
    Configs,    \* the configurations the tenant may have
    Replies,    \* what the model may answer
    Legacy,     \* entries the cache may hold before the first request
    Options,    \* the optional paths of this instance
    Faults,     \* the parts that may fail in this instance
    MaxTiers,   \* calls a cascade may pay for
    NoAnswer,   \* no answer yet, or no entry
    NoWant      \* not started yet

PiiModes == {"off", "flag", "mask", "block"}
Texts == {"plain",    \* nothing a stage looks for
          "held",     \* G29's placeholders
          "leak",     \* personal data the model wrote itself
          "raw"}      \* the caller's own data, restored

Want == [key : Keys, stream : BOOLEAN, pii : BOOLEAN, json : BOOLEAN]
Config == [pii : PiiModes, guard : {"flag", "block"}, scan : {"off", "flag", "block"},
           trust : {"flag", "strip", "block"}, tools : {"flag", "block"},
           json : {"off", "flag", "block", "repair"}, cache : BOOLEAN]
Answer == [text : Texts, flagged : BOOLEAN, tool : BOOLEAN, valid : BOOLEAN,
           empty : BOOLEAN, by : {"model", "agent", "proxy"}]

AllOptions == {"bypass", "cascade", "agent", "side", "context", "batch", "reconfigure"}
AllFaults == {"gate", "stage", "store", "g32", "safety", "format", "provider", "key",
              "cascade", "usage"}

ASSUME LifecycleAssumption ==
    /\ Wants \subseteq Want /\ Configs \subseteq Config /\ Configs # {}
    /\ Near \in [Keys -> SUBSET Keys] /\ \A k \in Keys : k \in Near[k]
    /\ Replies \subseteq {a \in Answer : a.by = "model" /\ a.text # "raw"
                                          /\ ~(a.tool /\ a.empty)}
    /\ Legacy \subseteq {a \in Answer : a.by = "model" /\ a.text \notin {"raw", "held"}
                                         /\ ~(a.tool /\ a.empty)}
    /\ Options \subseteq AllOptions /\ Faults \subseteq AllFaults
    /\ MaxTiers \in Nat \ {0}
    /\ NoAnswer \notin Answer /\ NoWant \notin Want

\* content_filter_response: a refusal the proxy wrote (G29, G30, G31, G11).
Refusal == [text |-> "plain", flagged |-> FALSE, tool |-> FALSE, valid |-> FALSE,
            empty |-> FALSE, by |-> "proxy"]

RequestStages == <<"gate", "guardrails", "redaction", "bypass", "cache", "routing",
                   "agent", "shape", "trust", "tune">>
ResponseStages == <<"redactAnswer", "guardAnswer", "gateTools", "format", "observe",
                    "store">>
StageNames == {RequestStages[i] : i \in DOMAIN RequestStages}
              \cup {ResponseStages[i] : i \in DOMAIN ResponseStages}
              \cup {"idle", "core", "call", "streaming", "serve", "done"}

VARIABLES
    config,    \* the tenant's configuration now
    cache,     \* G05: the answer stored under each key
    at,        \* where each request is
    want,      \* what each asked for
    conf,      \* ctx.config, merged when the pipeline starts
    ctx,       \* the rest of each RequestContext
    outcome    \* what _record_outcome was told of each request

vars == <<config, cache, at, want, conf, ctx, outcome>>

\* RequestContext.create; "booked" is the length of provider_calls, "sent" what
\* the prompts sent for an answer held, "answered" the answers received whole.
Fresh ==
    [noCache |-> FALSE, masked |-> FALSE, blocked |-> FALSE, bypassed |-> FALSE,
     hit |-> FALSE, refused |-> FALSE, plan |-> FALSE, dispatched |-> FALSE,
     deferred |-> FALSE, context |-> "none", sized |-> FALSE, usage |-> TRUE,
     booked |-> 0, answered |-> 0, priced |-> 0, sent |-> {}, answer |-> NoAnswer]

\* No outcome yet; "times" counts the calls of _record_outcome.
Unrecorded == [times |-> 0, status |-> 0, path |-> "none", priced |-> 0, phantom |-> FALSE]

Init ==
    /\ config \in Configs
    /\ cache \in [Keys -> Legacy \cup {NoAnswer}]
    /\ at = [r \in Requests |-> "idle"]
    /\ want = [r \in Requests |-> NoWant]
    /\ conf = [r \in Requests |-> config]
    /\ ctx = [r \in Requests |-> Fresh]
    /\ outcome = [r \in Requests |-> Unrecorded]

-----------------------------------------------------------------------------
(* Helpers *)

Offers(o) == o \in Options
MayFail(f) == f \in Faults

\* The request goes on to stage s with context c.
Goto(r, s, c) ==
    /\ at' = [at EXCEPT ![r] = s]
    /\ ctx' = [ctx EXCEPT ![r] = c]

Unshared == UNCHANGED <<config, cache, want, conf>>

\* _record_outcome with what the row carries: the calls its cost covers.
Record(r, status, path, c) ==
    /\ outcome' = [outcome EXCEPT ![r] =
         [times |-> @.times + 1, status |-> status, path |-> path,
          priced |-> c.priced, phantom |-> c.priced > 0 /\ ~c.usage /\ ~c.sized]]
    /\ Goto(r, "done", c)
    /\ Unshared

\* A stage that ends the request with a content-filter refusal.
Block(r, c) == Goto(r, "core", [c EXCEPT !.blocked = TRUE, !.answer = Refusal])

\* What ctx.messages carries to whoever answers.
PromptOf(r, c) ==
    (IF want[r].pii /\ ~c.masked THEN {"raw"} ELSE {})
    \cup (IF c.context = "poisoned" THEN {"poisoned"} ELSE {})

\* An answer the model may give to this prompt: placeholders come back only
\* when the prompt held some.
RepliesTo(c) == {a \in Replies : a.text = "held" => c.masked}

\* G18's price_response: every call booked so far, the served one included.
Priced(c) == [c EXCEPT !.priced = c.booked]
-----------------------------------------------------------------------------
(* process_request: the stages before a provider is called *)

\* _serve_core starts the pipeline: the tenant's overrides are merged into
\* ctx.config once, so a later change does not reach this request.
Start(r) ==
    /\ at[r] = "idle"
    /\ \E w \in Wants : want' = [want EXCEPT ![r] = w]
    /\ conf' = [conf EXCEPT ![r] = config]
    /\ Goto(r, "gate", ctx[r])
    /\ UNCHANGED <<config, cache, outcome>>

\* G00: 402 for an ended trial, 429 for the other limits (module Admission).
Gate(r) ==
    /\ at[r] = "gate"
    /\ \/ Goto(r, "guardrails", ctx[r]) /\ Unshared /\ UNCHANGED outcome
       \/ /\ MayFail("gate")
          /\ \E status \in {402, 429} : Record(r, status, "gate", ctx[r])

\* G30 on the prompt.
Guardrails(r) ==
    /\ at[r] = "guardrails"
    /\ \/ Goto(r, "redaction", ctx[r])
       \/ conf[r].guard = "block" /\ Block(r, ctx[r])
    /\ Unshared /\ UNCHANGED outcome

\* G29 on the prompt: a masked prompt keeps out of the cache.
Redact(r) ==
    /\ at[r] = "redaction"
    /\ LET c == ctx[r] IN
       IF ~want[r].pii THEN Goto(r, "bypass", c)
       ELSE CASE conf[r].pii = "mask" ->
                     Goto(r, "bypass", [c EXCEPT !.masked = TRUE, !.noCache = TRUE])
              [] conf[r].pii = "block" -> Block(r, c)
              [] OTHER -> Goto(r, "bypass", c)
    /\ Unshared /\ UNCHANGED outcome

\* G04: a rule answers instead of the model.
Bypass(r) ==
    /\ at[r] = "bypass"
    /\ \/ Goto(r, "cache", ctx[r])
       \/ /\ Offers("bypass")
          /\ Goto(r, "core", [ctx[r] EXCEPT !.bypassed = TRUE, !.answer = [Refusal EXCEPT !.valid = TRUE]])
    /\ Unshared /\ UNCHANGED outcome

\* G05's lookup: L1 by key, then L2 by likeness.  A miss is always possible: the
\* entry expired, Redis or Postgres failed, or the likeness fell short.
Lookup(r) ==
    /\ at[r] = "cache"
    /\ \/ Goto(r, "routing", ctx[r])
       \/ /\ conf[r].cache /\ ~ctx[r].noCache
          /\ \E k \in Near[want[r].key] :
                /\ cache[k] # NoAnswer
                /\ Goto(r, "core", [ctx[r] EXCEPT !.hit = TRUE, !.answer = cache[k]])
    /\ Unshared /\ UNCHANGED outcome

\* G06: a judge may have been paid to choose, a cascade may be planned, never
\* for a stream.
Route(r) ==
    /\ at[r] = "routing"
    /\ \E judge \in IF Offers("side") THEN {0, 1} ELSE {0},
          plan \in IF Offers("cascade") /\ ~want[r].stream THEN BOOLEAN ELSE {FALSE} :
          Goto(r, "agent", [ctx[r] EXCEPT !.booked = @ + judge, !.plan = plan])
    /\ Unshared /\ UNCHANGED outcome

\* F2: a registered agent answers instead of the model; a failed dispatch falls
\* back to it.  A planned cascade is left alone.
Dispatch(r) ==
    /\ at[r] = "agent"
    /\ \/ Goto(r, "shape", ctx[r])
       \/ /\ Offers("agent") /\ ~ctx[r].plan
          /\ \E a \in RepliesTo(ctx[r]) :
                Goto(r, "core",
                     [ctx[r] EXCEPT !.dispatched = TRUE, !.sized = TRUE,
                        !.answered = @ + 1, !.sent = @ \cup PromptOf(r, ctx[r]),
                        !.answer = [a EXCEPT !.by = "agent"]])
    /\ Unshared /\ UNCHANGED outcome

\* Stage 3: the optimisers, of which G07 and G10 add documents and memories to
\* the prompt and G09, G10 and G26 may pay for a call of their own.
Shape(r) ==
    /\ at[r] = "shape"
    /\ \E side \in IF Offers("side") THEN {0, 1} ELSE {0},
          context \in IF Offers("context") THEN {"none", "clean", "poisoned"} ELSE {"none"} :
          Goto(r, "trust", [ctx[r] EXCEPT !.booked = @ + side, !.context = context])
    /\ Unshared /\ UNCHANGED outcome

\* Bug: G31 is skipped when a cascade is planned.
BugContextTrust(r) ==
    /\ at[r] = "trust"
    /\ LET c == ctx[r] IN
       IF c.context = "poisoned" /\ conf[r].trust = "strip" /\ ~c.plan
       THEN Goto(r, "tune", [c EXCEPT !.context = "clean"]) ELSE Goto(r, "tune", c)
    /\ Unshared /\ UNCHANGED outcome

\* G31 on what Stage 3 added.
ContextTrust(r) ==
    /\ at[r] = "trust"
    /\ LET c == ctx[r] IN
       IF c.context = "poisoned"
       THEN CASE conf[r].trust = "block" -> Block(r, c)
              [] conf[r].trust = "strip" -> Goto(r, "tune", [c EXCEPT !.context = "clean"])
              [] OTHER -> Goto(r, "tune", c)
       ELSE Goto(r, "tune", c)
    /\ Unshared /\ UNCHANGED outcome

\* Stages 4 and 5: G13 may queue a request whose answer needs no response stage
\* (module BatchQueue); then the prompt is sized for pricing.
Tune(r) ==
    /\ at[r] = "tune"
    /\ \E defer \in IF Offers("batch") /\ conf[r].pii # "mask" /\ conf[r].scan = "off"
                    THEN BOOLEAN ELSE {FALSE} :
          Goto(r, "core", [ctx[r] EXCEPT !.deferred = defer, !.sized = TRUE])
    /\ Unshared /\ UNCHANGED outcome

\* A request stage raises: nothing catches it but the framework's 500, and
\* _record_outcome is not called.
StageRaises(r) ==
    /\ MayFail("stage")
    /\ \E i \in DOMAIN RequestStages : at[r] = RequestStages[i]
    /\ outcome' = [outcome EXCEPT ![r].status = 500, ![r].path = "raised"]
    /\ Goto(r, "done", ctx[r])
    /\ Unshared

-----------------------------------------------------------------------------
(* _serve_core: what becomes of the pipeline's verdict *)

\* G32 over one answer: a denied call is stripped, an answer with nothing left
\* says so, and none of it is cached.
ToolsGated(c, a) ==
    [a EXCEPT !.tool = @ /\ c.tools # "block"]

ServeBlocked(r) ==
    /\ at[r] = "core" /\ ctx[r].blocked
    /\ Record(r, 200, "blocked", ctx[r])

\* _refuse_empty_cache_hit: the hit is undone, the request goes to the provider.
RefuseEmptyHit(r) ==
    /\ at[r] = "core" /\ ~ctx[r].blocked
    /\ ctx[r].hit /\ ctx[r].answer.empty
    /\ Goto(r, "core", [ctx[r] EXCEPT !.hit = FALSE, !.refused = TRUE, !.answer = NoAnswer])
    /\ Unshared /\ UNCHANGED outcome

\* Bug: the short circuit serves what the cache holds as it is.
BugServeShort(r) ==
    /\ at[r] = "core" /\ ~ctx[r].blocked
    /\ ctx[r].bypassed \/ (ctx[r].hit /\ ~ctx[r].answer.empty)
    /\ Record(r, 200, "short", ctx[r])

\* A bypass or a hit: of the response stages only G32, which fails open here.
ServeShort(r) ==
    /\ at[r] = "core" /\ ~ctx[r].blocked
    /\ ctx[r].bypassed \/ (ctx[r].hit /\ ~ctx[r].answer.empty)
    /\ \E a \in {ToolsGated(conf[r], ctx[r].answer)}
                \cup (IF MayFail("g32") THEN {ctx[r].answer} ELSE {}) :
          Record(r, 200, "short", [ctx[r] EXCEPT !.answer = a])

\* No stage of the pipeline ended the request.
Unanswered(r) ==
    /\ at[r] = "core"
    /\ ~ctx[r].blocked /\ ~ctx[r].bypassed /\ ~ctx[r].hit

\* _bill_batch_deferred prices the calls paid so far.
ServeDeferred(r) ==
    /\ Unanswered(r) /\ ctx[r].deferred
    /\ Record(r, 202, "deferred", Priced(ctx[r]))

\* Bug: a cascade that answered is followed by the ordinary call.
BugRunCascade(r) ==
    /\ Unanswered(r) /\ ~ctx[r].deferred
    /\ ctx[r].plan /\ ctx[r].answer = NoAnswer
    /\ \E n \in 1..MaxTiers, a \in RepliesTo(ctx[r]) :
          Goto(r, "call", [ctx[r] EXCEPT !.booked = @ + n, !.answered = @ + 1, !.answer = a])
    /\ Unshared /\ UNCHANGED outcome

\* A cascade pays for one call a tier.  Escalation failures serve an earlier
\* tier's answer; only the first tier's (or its check's) fails the cascade.
RunCascade(r) ==
    /\ Unanswered(r) /\ ~ctx[r].deferred
    /\ ctx[r].plan /\ ctx[r].answer = NoAnswer
    /\ LET c == [ctx[r] EXCEPT !.sent = @ \cup PromptOf(r, ctx[r])] IN
       \/ \E n \in 1..MaxTiers, a \in RepliesTo(c) :
             Goto(r, "redactAnswer",
                  [c EXCEPT !.booked = @ + n, !.answered = @ + 1, !.answer = a])
       \/ /\ MayFail("cascade")
          /\ \E n \in 0..1 : Goto(r, "call", [c EXCEPT !.booked = @ + n])
    /\ Unshared /\ UNCHANGED outcome

ServeAgent(r) ==
    /\ Unanswered(r) /\ ~ctx[r].deferred
    /\ ctx[r].dispatched
    /\ Goto(r, "redactAnswer", ctx[r])
    /\ Unshared /\ UNCHANGED outcome

ServeCall(r) ==
    /\ Unanswered(r)
    /\ ~ctx[r].deferred /\ ~ctx[r].plan /\ ~ctx[r].dispatched
    /\ Goto(r, "call", ctx[r])
    /\ Unshared /\ UNCHANGED outcome

\* No key for the routed model's provider: undecryptable, missing or unavailable.
NoKey(r) ==
    /\ at[r] = "call" /\ MayFail("key")
    /\ \E status \in {402, 502, 503} : Record(r, status, "key", ctx[r])

\* call_with_resilience (module Resilience) returned an answer.
Call(r) ==
    /\ at[r] = "call" /\ ~want[r].stream
    /\ \E a \in RepliesTo(ctx[r]), u \in IF MayFail("usage") THEN BOOLEAN ELSE {TRUE} :
          Goto(r, "redactAnswer",
               [ctx[r] EXCEPT !.booked = @ + 1, !.answered = @ + 1, !.usage = u,
                  !.sent = @ \cup PromptOf(r, ctx[r]), !.answer = a])
    /\ Unshared /\ UNCHANGED outcome

\* Every target failed; for a stream, before a chunk was relayed.
CallFails(r) ==
    /\ at[r] = "call" /\ MayFail("provider")
    /\ \E status \in IF want[r].stream THEN {429, 502} ELSE {401, 429, 502, 503} :
          Record(r, status, "call", [ctx[r] EXCEPT !.sent = @ \cup PromptOf(r, ctx[r])])

\* The first chunk is relayed, through G32's gate unless that could not be built.
OpenStream(r) ==
    /\ at[r] = "call" /\ want[r].stream
    /\ \E a \in RepliesTo(ctx[r]) :
       \E relayed \in {ToolsGated(conf[r], a)} \cup (IF MayFail("g32") THEN {a} ELSE {}) :
          Goto(r, "streaming",
               [ctx[r] EXCEPT !.answered = @ + 1, !.sent = @ \cup PromptOf(r, ctx[r]),
                  !.answer = relayed])
    /\ Unshared /\ UNCHANGED outcome

\* The stream ends, fails or loses its client: what was relayed is booked from
\* the usage chunk or from an estimate, priced and recorded as served.
EndStream(r) ==
    /\ at[r] = "streaming"
    /\ \E u \in IF MayFail("usage") THEN BOOLEAN ELSE {TRUE} :
          LET c == [ctx[r] EXCEPT !.booked = @ + 1, !.usage = u]
          IN  Record(r, 200, "stream", Priced(c))
-----------------------------------------------------------------------------
(* process_response: the stages over a whole answer *)

\* A stage that only looks at, or replaces, the answer.
Answers(r, s, c) == Goto(r, s, c) /\ Unshared /\ UNCHANGED outcome

\* G29: what the model wrote is masked for good, then the caller's own data is
\* put back.
RedactAnswer(r) ==
    /\ at[r] = "redactAnswer"
    /\ LET c == ctx[r]
           Restored(t) == CASE t = "leak" -> "plain" [] t = "held" -> "raw" [] OTHER -> t
       IN  Answers(r, "guardAnswer",
                   IF conf[r].pii = "mask" THEN [c EXCEPT !.answer.text = Restored(@)] ELSE c)

\* G30: a flagged answer is withheld and never cached.
GuardAnswer(r) ==
    /\ at[r] = "guardAnswer"
    /\ Answers(r, "gateTools",
               IF conf[r].scan = "block" /\ ctx[r].answer.flagged
               THEN [ctx[r] EXCEPT !.answer = Refusal, !.noCache = TRUE] ELSE ctx[r])

\* Bug: G32 reads the configuration of the moment instead of the request's own.
BugGateTools(r) ==
    /\ at[r] = "gateTools"
    /\ Answers(r, "format", [ctx[r] EXCEPT !.answer = ToolsGated(config, @)])

\* G32: a stripped answer is never cached.
GateTools(r) ==
    /\ at[r] = "gateTools"
    /\ LET gated == ToolsGated(conf[r], ctx[r].answer)
       IN  Answers(r, "format", [ctx[r] EXCEPT !.answer = gated,
                                               !.noCache = @ \/ gated # ctx[r].answer])

\* Bug: the withheld answer's call is not priced.
BugWithhold(r) ==
    /\ MayFail("safety")
    /\ at[r] \in {"redactAnswer", "guardAnswer", "gateTools"}
    /\ Record(r, 500, "withheld", ctx[r])

\* A safety stage fails: the answer is withheld, priced and recorded as a 500.
Withhold(r) ==
    /\ MayFail("safety")
    /\ at[r] \in {"redactAnswer", "guardAnswer", "gateTools"}
    /\ Record(r, 500, "withheld", Priced(ctx[r]))

\* G11 has an answer to validate: JSON was asked for and no tool call is left.
Malformed(r) ==
    want[r].json /\ conf[r].json # "off" /\ ~ctx[r].answer.tool /\ ~ctx[r].answer.valid

\* G11's repair asks the model again, once, showing it its own answer; a re-ask
\* that fails or is malformed again falls back to flagging or blocking.
Reask(r) ==
    LET c == [ctx[r] EXCEPT !.sent = @ \cup PromptOf(r, ctx[r])
                                      \cup ({ctx[r].answer.text} \cap {"raw"})]
    IN  \/ \E a \in RepliesTo(c) :
              /\ a.valid /\ ~a.tool
              /\ Goto(r, "observe", [c EXCEPT !.booked = @ + 1, !.answer.text = a.text,
                                        !.answer.flagged = a.flagged,
                                        !.answer.valid = TRUE, !.answer.empty = FALSE])
        \/ \E paid \in {0, 1}, withheld \in BOOLEAN :
              Goto(r, "observe",
                   [c EXCEPT !.booked = @ + paid, !.noCache = @ \/ withheld,
                             !.answer = IF withheld THEN Refusal ELSE @])

\* G14, G28, G23, G19 and G15 leave what the properties look at alone; G11 then
\* checks an answer that was to be JSON.  If it fails, it is skipped.
Format(r) ==
    /\ at[r] = "format"
    /\ \/ /\ ~Malformed(r) \/ conf[r].json = "flag" \/ MayFail("format")
          /\ Goto(r, "observe", ctx[r])
       \/ /\ Malformed(r) /\ conf[r].json = "block"
          /\ Goto(r, "observe", [ctx[r] EXCEPT !.answer = Refusal, !.noCache = TRUE])
       \/ /\ Malformed(r) /\ conf[r].json = "repair"
          /\ Reask(r)
    /\ Unshared /\ UNCHANGED outcome

\* G18: an empty answer keeps out of the cache, and the paid calls are priced,
\* which main does too when G18 fails.
Observe(r) ==
    /\ at[r] = "observe"
    /\ Answers(r, "store", [Priced(ctx[r]) EXCEPT !.noCache = @ \/ ctx[r].answer.empty])

\* Bug: a masked request's answer is kept too.
BugStorable(r) ==
    conf[r].cache /\ ~ctx[r].hit /\ ~ctx[r].dispatched /\ ~ctx[r].answer.empty

\* What store_response keeps.
Storable(r) ==
    /\ conf[r].cache
    /\ ~ctx[r].hit /\ ~ctx[r].bypassed /\ ~ctx[r].noCache
    /\ ~ctx[r].dispatched /\ ~ctx[r].answer.empty

\* G05's store, under the key its lookup computed; L1 and L2 are one entry here.
Store(r) ==
    /\ at[r] = "store"
    /\ \/ Storable(r) /\ cache' = [cache EXCEPT ![want[r].key] = ctx[r].answer]
       \/ (~Storable(r) \/ MayFail("store")) /\ UNCHANGED cache
    /\ Goto(r, "serve", ctx[r])
    /\ UNCHANGED <<config, want, conf, outcome>>

ServeAnswer(r) ==
    /\ at[r] = "serve"
    /\ Record(r, 200, "answer", ctx[r])
-----------------------------------------------------------------------------
(* The environment, and the whole *)

\* An operator or the tenant changes the configuration.
Reconfigure ==
    /\ Offers("reconfigure")
    /\ config' \in Configs \ {config}
    /\ UNCHANGED <<cache, at, want, conf, ctx, outcome>>

\* One step of request r.
Step(r) ==
    \/ Start(r) \/ Gate(r) \/ Guardrails(r) \/ Redact(r) \/ Bypass(r) \/ Lookup(r)
    \/ Route(r) \/ Dispatch(r) \/ Shape(r) \/ ContextTrust(r) \/ Tune(r) \/ StageRaises(r)
    \/ ServeBlocked(r) \/ RefuseEmptyHit(r) \/ ServeShort(r) \/ ServeDeferred(r)
    \/ RunCascade(r) \/ ServeAgent(r) \/ ServeCall(r) \/ NoKey(r) \/ Call(r)
    \/ CallFails(r) \/ OpenStream(r) \/ EndStream(r)
    \/ RedactAnswer(r) \/ GuardAnswer(r) \/ GateTools(r) \/ Withhold(r) \/ Format(r)
    \/ Observe(r) \/ Store(r) \/ ServeAnswer(r)

Next == Reconfigure \/ \E r \in Requests : Step(r)

Spec == Init /\ [][Next]_vars
-----------------------------------------------------------------------------
(* Properties *)

Answered(r) == at[r] = "done" /\ outcome[r].status = 200

\* The constants' types and the variables'.
TypeOK ==
    /\ config \in Configs
    /\ cache \in [Keys -> Answer \cup {NoAnswer}]
    /\ at \in [Requests -> StageNames]
    /\ want \in [Requests -> Wants \cup {NoWant}]
    /\ conf \in [Requests -> Configs]
    /\ \A r \in Requests :
          /\ ctx[r].answer \in Answer \cup {NoAnswer}
          /\ ctx[r].sent \subseteq {"raw", "poisoned"}
          /\ {ctx[r].booked, ctx[r].answered, ctx[r].priced} \subseteq Nat
          /\ outcome[r].times \in {0, 1}
          /\ outcome[r].status \in {0, 200, 202, 401, 402, 429, 500, 502, 503}

\* A 200 carries nothing its configuration withholds: no tool call under G32's
\* block on any path; no flagged text and no personal data but the caller's own
\* on the paths the response stages cover (not a bypass or a hit, not a stream).
ServedIsSafe ==
    \A r \in Requests : Answered(r) /\ ctx[r].answer # NoAnswer =>
        LET a == ctx[r].answer IN
        /\ conf[r].tools = "block" => ~a.tool
        /\ outcome[r].path = "answer" =>
              /\ conf[r].scan = "block" => ~a.flagged
              /\ conf[r].pii = "mask" => a.text \notin {"held", "leak"}

\* Under G29's mask or block, no prompt sent for an answer holds personal data;
\* under G31's strip or block, none holds an instruction from a document.
PromptsAreClean ==
    \A r \in Requests :
        /\ conf[r].pii \in {"mask", "block"} => "raw" \notin ctx[r].sent
        /\ conf[r].trust \in {"strip", "block"} => "poisoned" \notin ctx[r].sent

\* What enters the cache may be served to anyone of the tenant: an answer of the
\* model's own, not an agent's, not a refusal, not empty, without the data or the
\* placeholders of the caller it was written for.
StoredIsShareable ==
    [][\A k \in Keys : cache'[k] # cache[k] =>
          /\ cache'[k].by = "model" /\ ~cache'[k].empty
          /\ cache'[k].text \notin {"raw", "held"}]_cache

\* A tool call G32 denied never reaches the cache, nor what G30 withheld: what
\* is stored passed the gates of the request that stored it.
StoredIsGated ==
    [][\A k \in Keys : cache'[k] # cache[k] =>
          \E r \in Requests :
             /\ at[r] = "store" /\ at'[r] = "serve"
             /\ conf[r].tools = "block" => ~cache'[k].tool
             /\ conf[r].scan = "block" => ~cache'[k].flagged]_cache

\* What one caller leaves in the cache another one of its tenant may be served.
StoredIsFit == StoredIsShareable /\ StoredIsGated

\* At most one answer is received for a request, and none for a request that is
\* blocked, short-circuited or deferred: nothing is asked twice.
OneAnswer ==
    \A r \in Requests :
        /\ ctx[r].answered <= 1
        /\ outcome[r].path \in {"blocked", "short", "deferred", "gate"} => ctx[r].answered = 0

\* The cost of an answered, streamed, deferred or withheld request covers every
\* call paid for, and each request's outcome is recorded once.
ServedIsPriced ==
    \A r \in Requests :
        outcome[r].path \in {"answer", "stream", "deferred", "withheld"} =>
           outcome[r].priced = ctx[r].booked

\* A request is answered once and costs what was paid for it, whichever of bypass,
\* hit, deferral, cascade, agent, call and repair answered it, and failed before.
AnsweredOnceAndPriced == OneAnswer /\ ServedIsPriced
-----------------------------------------------------------------------------
(* What the source says of this program, and its code does not do *)

\* "EVERY provider call this request paid for" reaches the cost
\* (middleware/__init__.py): also of a request that ends in a refusal or an error.
EveryPaidCallPriced ==
    \A r \in Requests : outcome[r].times = 1 => outcome[r].priced = ctx[r].booked

\* A refused hit leaves no claim that nothing was sent (_refuse_empty_cache_hit).
NoPhantomSaving == \A r \in Requests : ~outcome[r].phantom

\* "the path self-heals on the first refusal" (_refuse_empty_cache_hit): once a
\* refused hit was answered with something, its key holds an answer.
RefusalHeals ==
    \A r \in Requests :
        Answered(r) /\ ctx[r].refused /\ ctx[r].answer # NoAnswer /\ ~ctx[r].answer.empty =>
           cache[want[r].key] # NoAnswer /\ ~cache[want[r].key].empty

\* _record_outcome runs "at every exit path - success, short-circuit, and error".
RecordedAtEveryExit == \A r \in Requests : at[r] = "done" => outcome[r].times = 1

\* The short circuit's answers are "already-redacted content" (_serve_core).
HitsAreRedacted ==
    \A r \in Requests :
        Answered(r) /\ ctx[r].hit /\ conf[r].pii = "mask" => ctx[r].answer.text # "leak"
=============================================================================
