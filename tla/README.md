# TokenLean: a TLA+ verification of the proxy

TokenLean is a proxy between applications and LLM providers. A request passes a
gate, some thirty middleware groups (G00 to G32) that shorten, redact, route or
answer it, then a provider or a substitute for one, then the response stages,
and leaves counters, rows and cache entries behind. This directory holds TLA+
models of the parts of the proxy whose correctness depends on order, on
concurrency or on failure, the TLC configurations that check them, and TLAPS
proofs about most of them.

Paths below are relative to the repository's root; the proxy is `src/proxy/`.

## 1. Inventory

A worker is one process with one asyncio event loop. A deployment runs several
workers (the image starts `uvicorn --workers 2`) over one Redis and one Postgres.
Between two awaits a task is alone on its loop; workers interleave everywhere.

| Component | State | Operations | Shared with | What is hard |
|---|---|---|---|---|
| Resilience (`providers/resilience.py`) | breaker per provider, lockout per model, cooldown per tenant and provider; in memory | `call_with_resilience`, `note_provider_outcome` | every request of the worker, G06 tiers, Jev, G10, G13 | outcomes that arrive after the state changed; probes; gates that skip everything |
| Batch queue (`middleware/g13_batch.py`) | Redis stream, consumer group, owner records, results, native jobs | defer, consume, hold, sweep, poll | all workers, the results endpoint, spend counter | crash between any two Redis calls, redelivery, two workers on one entry |
| Gate (`middleware/g00_rate_limit.py`, `trial.py`) | token buckets, quota, spend and trial counters, one-shot keys; Redis | four checks in order | outcome recording | counters written after the response; clock read before the script; fallback without EVAL |
| Outcome recording (`main.py`, `billing/metering.py`) | usage rows, counters, `_AFTER_RESPONSE` | `_record_outcome`, `_bill_batch_deferred`, drain | gate, batch queue | separate tasks that fail or are cut off alone |
| Lifecycle (`middleware/pipeline.py`, `main.py`) | `RequestContext`, tenant configuration | request stages, short circuits, provider call, stream, response stages | cache, all of the above | about a dozen exits spread over flags; safety stages whose place matters |
| Response cache G05 | L1 and step cache in Redis, L2 and its vector index in Postgres, hit statistics | look up, store, purge, build the index | requests of a tenant, all workers | entries written under one policy and read under another; tags taken before or after the stages that rewrite a request; clocks of two stores |
| Safety stages G29, G30, G31, G32 | per-request vault, verdicts, a stream's per-call verdicts | on the prompt, on the answer, on each chunk | cache, tools, wire | must see everything that is sent or served |
| G11 output format | history and floor of a workload in Redis | cap, validate, repair, raise | turns of a workload | learning from concurrent cut answers; a second call from inside the response stages |
| Routing G06, rules, Jev | rotation, latency and failure times per process | match, choose, plan, climb, roll back | resilience, cost | pays for calls before the answer; what is disclosed against what was served |
| Reasoning G25, G12, adapters | `ctx.params` | effort, provider's parameter, limits per call | failover, cascade | one set of parameters becomes many calls to different providers |
| Prefix-cache floor | reservation and snapshot of a request, sightings of a span in Redis | reserve, weigh, resnapshot | G01, G08, G19 | each group changes what the next one measures |
| Conversation budget G07, G10, G21, G22, G26 | summaries in Redis and in the process | inject, window, deduplicate, compact, align | turns of a conversation | tool calls separated from results; what a summary stands for |
| G17, G10 memories | Redis keys per workflow and session, Mem0 queue | count, stop, load, save, recall | turns of one conversation | concurrent turns, names that join ambiguously |
| G28 references | a block in Redis with copies per instance, the tenant's proof | replace, advertise, dispatch, judge | turns and instances | a reference nobody can resolve; proof against evidence |
| G08 tool pruning | usage records, marks, a lock and a day key in Redis | record, hide, daily pass | requests and replicas | a history that predates the hiding |
| Protocols (OpenAI, Anthropic, Gemini), stream translation | translator and gate per stream | parse, relay, translate, end | clients, G32 | fragments, interleaved calls, failures in the middle |
| Proxy keys (`auth/`) | cached key table, version, Postgres rows | validate, reload, mutate, refresh | all workers | revocation against stale caches, lost updates |
| Configuration (`config_loader.py`, `tenancy/config.py`) | current mapping, per-tenant cache | boot, hot reload, merge, invalidate | every request | changes while requests run, torn and failed reads |
| Client address, forwarder, authentication (`net/`, `main._authenticate`) | certificates of the forwarder's issuer | resolve, verify, gate, stamp | every request | key rotation, concurrent fetches, whose header it is |
| Audit, retention, events, billing API | Postgres rows | insert, purge, emit | operators | mostly independent I/O |
| Other optimisers, detectors, adapters' formats, savings | none across requests | text and format work | request | pure functions of text |
| Document and fine-tuning pipelines, sidecars, scripts, infrastructure | files, remote jobs | batch jobs | none | outside the request path |

What makes each core component correct:

- *Resilience*: a call always tries something it can try; only a provider's own
  health moves its breaker; what one tenant's keys meet never skips another's
  target; one probe per cooldown; a call ends, and names the target that answered.
- *Batch queue*: a request answered with 202 is never forgotten and, while loops
  run, is answered; an answer once readable stays; attempts are bounded; while
  nothing fails nobody runs an entry twice, unless it waited behind another stream's
  flush (section 5); cost is not added without a payment.
- *Gate and recording*: a window lets in no more than its capacity and refill; a
  refusal takes nothing; the quota is overshot by no more than what was in flight;
  counters agree with the billable rows; one-shot events fire once; every request
  is recorded.
- *Lifecycle*: nothing the configuration withholds is served or stored; nothing
  personal or poisoned is sent; nobody is asked twice; what was paid is priced.
- *Response cache*: a hit was stored for a request like this one in everything its
  scope names, is no older than its lifetime, and comes from an index that exists.
- *Routing and reasoning*: an answer costs no more than the caller's own model would,
  unless someone allowed it; what is disclosed is what was served; rotation is even;
  every call carries parameters its provider takes, as far as the code reconciles them
  (section 5), and nobody reasons uninvited.
- *Tenant state*: an answer that was cut is not cut again for ever; a caller that
  ignored a reference gets the content; a workflow is stopped; a session's memory
  grows, and is the speaker's own.
- *Conversation, floor, tools, wire*: tool results stay with their calls; nothing is
  lost silently; a shrink pays off; a tool is hidden only after a fair trial; a
  client that sees an end has seen everything.
- *Configuration and address*: a request runs by a whole configuration and by overrides
  no staler than promised; the address compared with an allowlist was seen by a
  trusted party.
- *Proxy keys*: the store changes only by whole operations on the store as it is;
  a tenant's restriction is on every key; a cache that counts as current is the
  store, so that a revoked key stops working.

`PROJECT.json` lists the hazards behind these, each at its line, and for every
component what is modelled and what is not.

## 2. Modules

| Module | Models | Checked by | Proved in |
|---|---|---|---|
| `Resilience` | one worker's store, calls with retries and failover, the calls outside it | `MCResilience` | `ResilienceProofs` |
| `BatchQueue` | the tenants' streams, any number of workers that read them together, their consumers, holders, sweeps and pollers | `MCBatchQueue` | `BatchProofs` |
| `Admission` | the four gates, the bucket script and its fallback, after-response tasks | `MCAdmission` | `AdmissionProofs` |
| `Lifecycle` | the request's way through all stages and exits, with the cache and a changing configuration | `MCLifecycle` | `LifecycleProofs` |
| `ResponseCache` | what an answer is filed and found under at three levels, lifetimes, purge, the vector index | `MCShared` | `SharedProofs` |
| `ToolPruning` | G08's usage records and the daily pass of several replicas | `MCShared` | `SharedProofs` |
| `Settings` | config file, params, hot reload; cached overrides of a tenant | `MCShared` | `SharedProofs` |
| `ClientAddress` | address, forwarder's vouch and certificates, authentication's gates | `MCShared` | `SharedProofs` |
| `Routing` | G06 with rules, classifiers, rotation, cascade | `MCRequest` | `RequestProofs` |
| `CacheFloor` | the reserved prefix and the stages that weigh against it | `MCRequest` | `RequestProofs` |
| `ContextBudget` | what shortens a growing conversation | `MCRequest` | `TurnProofs` |
| `ReasoningBudget` | effort and output limits of every call of a request | `MCRequest` | `RequestProofs` |
| `Wire` | streams and bodies to three protocols, tool histories from two | `MCRequest` | `TurnProofs` |
| `Places` | what is left of a list at a set of its places (`Taken`), for `ContextBudget` and `Wire` | `MCRequest` | `TurnProofs` |
| `OutputCap` | G11's learned cap and its floor | `MCTenant` | `TurnProofs` |
| `ContentRefs` | G28's references and the proof that they are resolved | `MCTenant` | `TurnProofs` |
| `Sessions` | G17's loop counter, G10's session summary and long-term memory | `MCTenant` | `TurnProofs` |
| `KeyOps` | the lifecycle operations as operators on a table of keys | `MCKeyStore` | `KeyStoreProofs` |
| `KeyTable` | what the key store promises: one table, changed by one operation at a time | `MCKeyStore`, as `ImplementsTable` | `KeyStoreProofs` |
| `KeyStore` | several instances over one secret or one Postgres table: lookups, writers, caches, refreshers | `MCKeyStore` | `KeyStoreProofs` |

Conventions. An action is what the code does between two awaits that another
task can see, and keeps the name of its function where there is one. An operator
whose name begins with `Bug`, placed right before the definition it resembles,
is a plausible mistake in that definition; no specification uses it. The
mutants of `PROJECT.json` put it in place of the real one and TLC then reports
the property, which shows that the property depends on that code. Variables
marked *history* or *ghost* record what happened for the properties' sake; no guard reads
them.

Compositions. `MCRequest`, `MCTenant` and `MCShared` put modules side by side whose
state is disjoint. Their steps commute, so the product would show nothing that the
modules alone do not: a behaviour picks one `part` and the others stay in one initial
state. What components share is inside one module instead: configuration and cache in
`Lifecycle`, gate and recording in `Admission`, five stages in `ContextBudget`, G25,
G12, failover and cascade in `ReasoningBudget`, four stages in `CacheFloor`, G32's gate
and the translators in `Wire`.

### Resilience

`running` is the task that holds the event loop. `Start` to `Exhausted` are the
loop of `call_with_resilience`: a target without a key is skipped (`SkipNoKey`),
a gated one is skipped when something else is left (`SkipGated`, `MaySkip`),
otherwise it is invoked. `AskGates` is separate because asking has an effect:
`allow_request` makes the caller the probe. `Invoke` gives up the loop;
`InvokeSucceeds`, `InvokeFailsRetry`, `InvokeFails` and `Cancel` are the ends of
a call. `OutsideCall` and the `Jev` actions feed the same breakers without
`call_with_resilience`. `Fed` is what an outcome does to a breaker: errors are
`transient` (5xx, timeout), `rate_limit` (429) or `fatal` (the caller's own). A
target's `usable` is whether its key resolves when it is invoked, which for a
lazy fallback is not known when the chain is built (`has_key`). Left out: the
length of backoffs, gauges, `peek_state`.

### BatchQueue

A request goes `RecordOwner`, `CheckBacklog`, `RegisterStream`, `Accumulate`, or
is answered at once. Each worker has a consumer (`Read`, `Submit` or `CallEnds`,
`Store`, `AddCost`, `Ack`, `Delete`), a holder (`Hold`) that re-claims what is
being flushed every third of the stale time, a sweep (`SweepClaim`,
`JudgeCompleted`, `JudgeDeliveries`, `SweepJudged`) and a poller (`PollStart` to
`PollEnd`). One XREADGROUP reads every stream the worker knows (`NewOf`, at most
`MaxBatch` of each); the streams it got are flushed one after another (`StartFlush`,
`Proceed`), and `Hold` covers only the one being flushed: the entries in `later` grow
old and may be swept before their turn. The Redis streams are `log`, `deleted` and
`given`, with `queue` naming the stream of each request; their pending lists are
`deliveries` and `idle`. `waited` is history: the entries that were delivered behind
another stream's. `Fault(kind)` is a failed Redis call of that kind;
`Crash` and `HandlerDies` end a process at any await. Left out: key expiry (an
hour for a result, three days for an owner), the removal of consumer names that
were silent for a day, TOON notation; a batch is one provider's.

### Admission

`Order` is the order of the gates. `Consume` is the Lua script, one atomic step
that runs up to `MaxDelay` ticks after its caller read the clock; `Fallback` is
its replacement by two reads and two writes. Tokens are counted in parts so that
a refill is an integer. `Serve` leaves the tasks of `_record_outcome` or
`_bill_batch_deferred` in `pending`; `RunTask` runs one; `Stop` ends the process
with the drain's deadline passed. Months pass with the clock. Where `Costs` is
empty (`Bucket.cfg`) admitted requests stay inside, since that run is about the
bucket alone. The choice of a scope's limits is a lookup whose result is the
constants `Cap`, `Rate`, `QuotaCap` and `SpendCap`.

### Lifecycle

One action a stage. An answer is a record of what the stages look for: the class
of its text (`plain`, `held` with placeholders, `leak` with data the model wrote,
`raw` with the caller's own data restored), whether G30 would flag it, whether
it calls a denied tool, whether it is valid JSON, whether it is empty, and who
wrote it. `ctx` is the part of `RequestContext` the exits read. The G00, G13 and
resilience steps are one action each here, their detail in the other modules.
Streams pass only G32's gate, and a bypass or a hit only G32, as in the code.
L1 and L2 are one entry per key, and `Near` is what L2's likeness finds. Stages
that only change the size of a prompt have no action of their own.

### ResponseCache

`Lifecycle` says which answers may be stored and served; here every answer may, and
the question is whether one is found only by a request it fits. An ask is what the
caller sends. `Arrive` fixes the L1 key and the tags that later stages must not
change, `LookUp` tries L1, L2 and the step cache, `LaterStagesRun` is what changes
the request in between (a prompt that is compacted, a model that is substituted) and
`StoreResponse` files the answer with what was fixed and what was sent. `Counted`
and `RecommendedTtl` are auto-TTL over a window of lookups. L1 expires by Redis's
clock, an L2 row by its own `expires_at`, and `Purges` deletes some of the expired.
`CheckIndex` to `Reensure` are the background build of the vector index in each
process. An entry's scope is the set of tags with what each was
computed from, which is what the hashed key amounts to. Left out: vectors (a `meaning` stands for what the likeness threshold
accepts), `warm_cache`, which nothing calls.

### ToolPruning

`LookUpPruned` to `RecordCalledTools` are one request's four meetings with the usage
records; `StartPass` to `MarkPruned` (or `PassAborts`, `DryRun`) is the daily pass of
a replica. `early` names the tools whose history began again while they were hidden,
which `JudgedAfresh` leaves out (see section 5).

### Settings

`ChangeSource` rewrites the file or the params directory at any time, also between
`ReloadReads` and `ReloadSwaps`. A request takes `running` when it asks
(`AskOverrides`), and goes on by the cached overrides, or by `ReadRow` and
`StoreOverrides`. Left out: the merge below section level, validation of values.

### ClientAddress

The chain of proxies is two addresses that someone trusted saw (`origin`, `peer`) and
whatever the caller wrote before them. `Resolve` to `FetchFails` verify a forwarder's
vouch with certificates that rotate (`signedBy` is the key the forwarder signed with
when the request passed it); `Authenticate` compares the address with the
allowlists and stamps tenant, team, user and impersonator. What a key resolves to is
`KeyStore`'s.

### Routing

An ask is a request as G06 sees it. `Routes` resolves the tiers and rules,
`PassThrough`, `RulePins`, `Classify` decide, the last with any outcome of the
configured classifier; `StartCascade`, `TierAnswers`, `TierFails`, `Climb` and `Retry`
are `_serve_core`'s cascade and `RouteCall` the call without one. A model's cost is a
number for the request's size. `swapped` and `allowed` mark the answers the cost
property exempts. Left out: the classifiers' scores, the Jev prompt.

### CacheFloor, ContextBudget

`CacheFloor` runs `Reserve` (the counter of sightings included), the stages that
rewrite the prompt in the pipeline's order, and the three that weigh a shrink
(`AllowsShrink`). Money is in percent of a token's price. `ContextBudget` is a
conversation that the client resends and extends: `SlidingWindow` (G10),
`Deduplicate` (G22), `Compact` (G26's rungs and its summaries, cached in Redis and in
the process), `AlignPrefix` (G21), with an injected document. A summary is the set of
messages the summariser was shown. `lossy` marks requests in which it failed or could
not be shown everything. What a stage keeps of a list is `Taken`: the messages at a set of
places, in their order.

### ReasoningBudget

`AdaptEffort` (G25) and `ApplyBudget` (G12) prepare `ctx.params`; every call of the
request is then a `Place` with what `outgoing_params_for` made of them for its model:
primary, failover, cascade tier. Providers are the four adapters' families; `Budget` is
what the operator's `effort_map` has for each effort at the two that take a number, and
may be any number. The cap is told of a budget under `max_tokens` only (`MaxTokens`), as
in the code; the properties look at the one the call carries (`output`).

### Wire

`NextChunk`, `UsageChunk`, `OneShot`, `Body`, `SourceEnds` and `SourceFails` are what
the provider sends, in any cut into chunks; `Filtered` is G32's gate and `Translate`
with `OnFinish` the translators. The events themselves are not kept: `received` is what a
client has made of those it got, its text and calls, stop reason, usage and the terminal
frame. An OpenAI client puts the chunks together itself (`Taking`), which `Merged` models
for it as for the translators. `ParseMessage` is the way in: one message of an Anthropic or
Gemini history, whose calls and results are matched by id or by function (`FanOut`).

### OutputCap, ContentRefs, Sessions

`OutputCap` is one workload's sorted set and floor; a turn is `CapStart`,
`ReadHistory`, `ReadFloor`, `CapAnswer` and, when it was cut, `Raise` or the
read and write that replace a refused script. `ContentRefs` is one block of one tenant:
`ReadProof`, `LookUp` or `StoreBlock` on the way out; `Retrieve`, `Mark`, `Judge` on
the way back. `Sessions` has three parts: `LoopStart` to `CheckLoop` (G17),
`MemStart` to `SaveSession` (G10's summary), `StartClient` to `Recall` (Mem0, whose
queue is bounded and whose ids are joined names). All keys expire at any time, or by
the clock where a property depends on it.

### KeyOps, KeyTable, KeyStore

`KeyOps` has the mutation of each operation (`create_key` to
`rotate_tenant_keys`); `KeyTable` applies one of them a step, and `KeyStore`
implements it (`Table == INSTANCE KeyTable WITH table <- store`). A thread runs
from one lock or store call to the next in one step, and a call takes effect
before its answer arrives. A lookup (`validate_proxy_key`) goes `LookBegin`,
perhaps `EnterReload`, `LoadVersion`, `LoadData`, `LoadApply` for a cold or old
cache, `EnterVersionCheck` and `AskVersion` when the version is due, a reload
again on a change or a miss, and answers. A writer (`_mutate_store`) goes
`WriteBegin`, `TakeWriteLock`, then over the secret `LoadFullStore`, `Persist`,
`Assign`, and over Postgres `BeginTransaction`, `Commit`, `Assign`, `Announce`;
`TransactTimeout` is the wait that runs out. The hook that carries an
announcement to the other instances belongs to the host: `mail` delivers it
later, once, in any order. `Request` to `RefreshApply` are `CacheRefresher`.
Creation times are numbers that only grow. `overtaken` is history: the tenants whose
newer rows in the cache a write for another tenant replaced by the copy its transaction
had taken (section 5). The comparisons of `time.monotonic()`
with `asked_at` are flags of a lookup, since the model's clock is coarser. The
local key file behaves as the secret.

## 3. Runs

Every constant is given in the `.cfg`; the bounds are the constants whose names begin
with `Max` and the sizes of the sets. Deadlock is not checked: each request runs once,
so every instance comes to rest. A property that names several others is their
conjunction; the parts are defined, with their comments, right before it.

| Run | Instance | Shows |
|---|---|---|
| `failover` | 2 requests of 2 tenants, 1 outside call, 2 providers, chains with a missing key and with no key, resilience on and off, cooldown 2, clock to 3 | types; fail-open; signal scoping; a trail that is true (skips, tenant isolation, attribution); spacing of probes |
| `providers` | 2 requests over 2 models of one provider, one retry, threshold 2, lockout on with a lock as long as the cooldown | the model is locked before its provider trips and a skipped target takes no probe (`LockoutIsFiner`); every call ends |
| `batch_loop` | 2 deferred requests, on one stream or on two, 2 workers, per-item lane, two failures among one crash and 14 kinds of failed call (one failure when there are two streams, `MaxTrouble`) | nothing forgotten unless its result write was lost; bounded attempts, and a holder that excludes unless the entry waited behind another stream (`RunsAreBounded`); owners and spend (`ResultsAreAccounted`); the stream is the backlog |
| `batch_native` | native lane, 2 workers with their pollers, one crash or failed call, a lost write among them, fair | every deferred request is answered unless a write was lost; answers stay |
| `shared` | `MCShared`, seven parts | safe answers and a fit store under a changing policy; alike hits and a built index (`CacheIsSound`); whole and fresh settings; a sound address; tools judged afresh |
| `request` | `MCRequest`, seven parts | clean prompts; one priced answer; cost, disclosure and rotation; faithful wires; sound reasoning; a history that holds; shrinks that pay off |
| `keys` | 2 instances, 2 lookups, 2 writers, the keys of 2 tenants; the secret with one writing instance, or Postgres with two; one lock wait or transaction that times out; clock to 2 | honest versions and current lookups (`ClaimsAreCurrent`); a quiet instance is current, `overtaken` tenants apart; implements `KeyTable` |
| `bucket` | 5 requests, capacity 2 tokens, delay up to 2 ticks, key expiry, one failed call | what the windows let in; a refusal takes nothing |
| `tenant` | `MCTenant`, six parts | quota overshoot; counters and rows; one-shot events; cuts heal; ignored references stop; loops stop; memories are own and whole |
| `recorded` | a tenant's and an impersonated request through all four gates, the bucket in its fallback, one failure, one exit, fair | every request leaves and is recorded |
| `keys_fetch` | 2 tenants, 1 writer over the secret, one failed fetch | **violated**: a write for one tenant drops every other tenant's keys |
| `repair_unsafe` | 1 request whose answer must be JSON, repair mode | **violated**: the second answer skips the safety stages |

The parts:

- `request`: `pipeline` (1 request of every kind, 5 configurations, every path and
  fault, 2 tiers), `route` (3 routings of 2 tenants over 3 tiers, clock and latencies
  to 1), `floor` (a prompt of four messages, spans seen up to 3 times, two rates),
  `stream` (2 pieces of text, 2 calls with one piece of arguments each, 3 protocols,
  live or whole, allowed and denied), `inbound` (3 messages), `reason` (6 models of 4
  families, 2 calls after the choice), `budget` (a conversation of up to 5 messages,
  one call and result among them, and the plans of `MCPlans`).
- `tenant`: `counters` (2 requests, trial, quota and spend gates, a month's end, one
  failure, one exit), `cap` (2 concurrent turns, 5 in all, answers of 1, 3 and 6
  tokens, a history of 2), `refs` (2 of 5 turns on 2 instances), `loop` (2 of 5 turns,
  a limit of 2, keys of 3 ticks, clock to 6), `memory` (2 turns, 4 messages), `long`
  (names whose joins coincide, a queue of 2); one failed call in each.
- `shared`: `cache` (2 requests, 2 like keys, lax and strict configurations that
  change, old entries, agents), `prune` (1 tool, 1 request, 2 replicas, a window of a
  day, 4 days, one failed call), `file` (2 sections, 2 changes), `overrides` (2
  readers, 2 versions, a lifetime of 2, clock to 3), `address` (2 callers of 3 visits, 5
  deployments, certificates of 5 ticks, keys that rotate once), `answers` (2 callers:
  one asks any of ten questions that differ from the plain one in one thing, the other
  the plain one; scopes empty and full; lifetimes of 1 and 2, clock to 1, one failed
  call), `index` (2 processes, from an absent, an invalid and a valid index, one
  failed call).

Why the bounds are enough. Two requests are the fewest whose awaits can
interleave, and each hazard of `Resilience` needs at most one earlier failure
(which the outside call gives) and two racing callers; the clock reaches one
cooldown and a tick more. One entry taken by one worker, lost and swept by
another is the whole of the queue's recovery, and two entries make a batch that
is half done, or one read of two streams of which the second waits. Five requests
empty a bucket of two tokens, refill it once and race for the rest. In `Lifecycle` requests meet only through the cache and the
configuration, so two suffice, and one suffices for what is about one request.
A hit of `ResponseCache` relates one entry and one lookup, and since every tag is
compared for equality, questions that differ in one thing each find every tag that is
missing; old rows that any earlier question left are in its initial states, so that
a clock to 1 passes every lifetime. `OutputCap` needs a turn that reads, one that is
cut meanwhile, and one that starts afterwards; `ContentRefs` the same around a
judgement, and a second instance for the copies. A stream's fragments of two calls are
the fewest that interleave. Five messages hold a call with its result and a turn
before and after it, and the windows are smaller than that. Two changes of a file are
the fewest that can hit both halves of one read.
Two lookups of one instance are the fewest that share its locks, two writers the
fewest that can overwrite each other, and a clock to 2 passes the TTL and the
check interval, both 1. `keys` was also run with all seven kinds of failed call,
once for each backend (7.0 and 6.4 million states), with the same result.
`batch_loop` was also run with two failures on two streams (3.5 million states), and
`SkippedTargetsTakeNoProbe` and `LockoutPrecedesTrip` with three requests and a clock
to 4 (7.3 million states), with the same result.

Symmetry is over requests, workers, lookups, instances or several of these, in runs of
safety properties only. `TypeOK` of `Resilience` is checked by `failover`, that of
`Admission`, `BatchQueue` and `KeyStore` are proved, as is `KeyStore`'s `OneRestriction`,
and in no run; that of `Lifecycle` was checked while the module was written.

### Fairness

- `Resilience`: weak fairness of each started request's steps. A provider call
  has a timeout (`request_timeout_seconds`), a sleep ends, the loop is fair.
- `BatchQueue`: weak fairness of each worker's consumer, holder and poller (they
  are endless loops that catch every exception), of the end of a provider's job
  (its completion window) and of time. Requests, crashes and failures are not fair.
- `Admission`: weak fairness of each request that has entered and of the
  after-response tasks.

The other modules assume none: what they promise is safety.

## 4. Proofs

TLAPS checks the following for every value of the constants that satisfies the named
assumptions. An assumption says what kind of value a constant is, and a little more where
noted. Each theorem follows from an inductive invariant: it holds initially, every action
keeps it, and it implies the property.

`ResilienceProofs` (from `ConstantsAssumption`)
- `TypeCorrect`: `TypeOK`. `TInv` adds `AtTarget`: a request that is calling or
  backing off has a current target, without which `Cur` has no type.
- `NeverStarve`: `GatesNeverStarve`, for chains of any length. `StarveInv` says
  that while no attempt has failed, either every target passed had no key or one
  with a key is still ahead: exactly what `MaySkip` preserves.
- `CountsHealth`: `BreakerCountsHealth`. `HealthOf` ties a breaker to the history
  of its provider's failures.
- `SpacedProbes`: `ProbesSpaced`. `ProbeOf` is the strengthening: a probe never
  lies in the future and never after its breaker opened, so an elapsed cooldown
  since the opening is an elapsed cooldown since the probe.
- `LockoutAlwaysFiner`: the action property `LockoutIsFiner`, where the tenants share a
  threshold and no lockout outlasts a cooldown (`OneTuning`; with a longer lockout a skipped
  target does take a probe, section 5). `BehindInv`: while a breaker is not closed, one more
  failure opens it again, and a model that is locked has been so no later than its provider.
  `BlameInv`: the lockout of a model that alone is charged with a provider's failures counts
  as many of them as the breaker does, or has closed already.
- `TrailAlwaysTrue`: `TrailIsTrue`. `TrailInv`: on its way a call has one entry for every
  target it passed, in order, none of them a success (`WayOf`), and every skip has its cause
  behind it (`SkipsOf`), a cooldown that of a 429 of the same tenant (`CoolInv`).

`AdmissionProofs` (from `RequestsAssumption`, `BucketAssumption`, `GateAssumption`)
- `TypeCorrect`: `TypeOK`.
- `BucketConserves`: `Conserved`, when Redis accepts EVAL. The invariant
  `Account` is a ledger: tokens taken and tokens left never exceed the capacity
  and the refill of the time up to the bucket's last stamp plus the time counted
  twice. The assumption that a key lives long enough to fill its window
  (`Rate * Ttl >= Cap`) is what makes expiry harmless.
- `NeverOverAdmits`: with no delay between clock and script, no time is counted
  twice and the limit is exact (`NeverOverAdmitted`).
- `QuotaOvershoots`: `QuotaOvershootBounded`, for a tenant with a Redis prefix.
  `QuotaInv` carries the requests that are past the gate and not yet counted
  (`Owed`) and a bound for the months past, present and to come.
- `RefusalTakesNothing`: `RefusedTakesNothing`, when Redis accepts EVAL (`Scripting`); the
  fallback writes the minute before it reads the hour.
- `EventsFireOnce`: `OneShotEvents`, unless Redis refuses the SET NX, for `TrialExpired`
  emits when it cannot tell.
- `CountersAlwaysMirror`: `CountersMirrorRows`, whatever fails. `MirrorInv` says what a
  request's pending tasks tell of the row and of the two counters still to come
  (`TasksTell`), and that each month's count is that of the requests counted in it
  (`CountsTell`), so that when nothing is pending the counters and the rows agree.

`BatchProofs` (from `ConstantsAssumption` of `BatchQueue`: among others, finitely many
requests and workers, and a stale time of two ticks or more, so that a holder can act
within it)
- `BatchTypes`: `TypeOK`. `TypeInv` adds that every entry a worker, a job or a pending
  list names is in the log.
- `AnswersAlwaysStay`: the action property `AnswerStays`.
- `ResultsAlwaysAccounted`: `ResultsAreAccounted`, without native batches and without an
  XADD that is applied although it raises; with either, section 5 has the counterexample.
  `OwnersInv` is the order of `process_request`; in `CostInv` what was added to a
  tenant's spend and the workers that still owe an addition (`Owing`) together do not
  exceed what the provider was paid.
- `StreamAlwaysBacklog`: `StreamIsBacklog`.
- `RunsAlwaysBounded`: `RunsAreBounded`. For the bound, `AttemptsInv` counts an entry's
  flushes together with the workers that may still flush it (`Chances`, `Granted`) against
  its delivery count. "Once, while nothing fails" is said of the entries that did not wait
  behind another stream's flush, for of the others it is false (section 5). `CalmInv` says
  of them that what is pending has one worker at work on it whose holder keeps it from
  going stale (`CalmShape`), so that a sweep takes none of them: what a worker sweeps or
  has put off did wait (`SweptWaited`). `PaidInv` says that what was paid for is answered,
  about to be, or out of every list.
- `NothingEverForgotten`: `NothingForgotten`. `SafeInv` follows every entry of a queued
  request through unread, pending, submitted, recorded and answered, and every worker's
  lists between two Redis calls.

`KeyStoreProofs` (from `KeysAssumption`, `StoreAssumption`, `FreshAssumption`,
`ThreadsAssumption`; the secret's fresh keys are the randomness of `token_urlsafe`).
Hypothesis `AllStamps` lifts the bound on creation times (`Stamps = Nat`), and
`OneSecretWriter` is the source's own demand (`api_key_manager.py:32`).
- `AlwaysOneRestriction`: `OneRestriction` of `KeyTable`, for any table the engine has
  built and any sequence of operations. The list a new key takes is the newest non-empty
  one, which is the tenant's only when all its keys already agree, and which exists only
  because finitely many creation times have a maximum (`NewestExists`).
- `KeyTypes`: `TypeOK`; no cache is marked with a version the store has not reached.
- `RestrictionHolds`: the same restriction in the store of any number of instances,
  whatever fails and whoever writes the secret.
- `StoreImplementsTable`: the refinement `ImplementsTable`. A step that writes maps to one
  operation of `KeyTable`, every other to a stutter. `LockInv` says what a thread holds (a
  writer its instance's lock from its read on, a transaction the advisory lock and the
  store as it is), `FreshInv` that a key yet to be issued is nowhere, so that `_write_diff`
  writes all it is given, and `CopyInv` that what is about to be persisted is one operation
  away from the store as it is now. Not where a fetch inside a write fails (`keys_fetch`).
- `ClaimsAlwaysCurrent`: `ClaimsAreCurrent`. `VersionInv` orders the version a loader
  read against the data it read next; `CheckInv` keeps, for every lookup on its way, that
  whatever it may come to answer with, its own data or a cache a thread beside it is about
  to install, was in the store while it ran.
- `QuietAlwaysCurrent`: `QuietIsCurrent`. `QuietInv`: where an instance's rows of a tenant
  differ from the table's, the announcement is pending, or the refresher holds the newer
  rows, or the tenant is `overtaken`. `OwnInv`, that no key changes hands, is what lets
  rows be replaced a tenant at a time.

`LifecycleProofs` (from `LifecycleAssumption`). The invariant `LifeInv` is local to a
request, since requests meet only in the cache and a hit passes no response stage: `Flow`
says which verdicts of the pipeline exclude each other at which stage and what the cost
covers, `Clean` what a prompt and an answer hold of the caller's data and of the documents',
`Safe` what the response stages leave of an answer. Hypothesis `RepairApart`: no
configuration combines repair mode with a mask or a blocking scan; section 5 has what
happens where one does.
- `TypeCorrect`: `TypeOK`. `Once` adds that a request that is not done has no outcome, so
  that none is recorded twice.
- `AlwaysAnsweredOnceAndPriced`: `AnsweredOnceAndPriced`, without a hypothesis.
- `PromptsAlwaysClean`: `PromptsAreClean`, under `RepairApart`.
- `ServedAlwaysSafe`: `ServedIsSafe`, under `RepairApart` and while G32 itself does not
  fail: it fails open where it is applied to a hit or a stream, and the statement is then
  false of a tool call.
- `StoredAlwaysFit`: the action property `StoredIsFit`, a conjunct of `CacheIsSound`, under
  `RepairApart`; `OnlyStoreWrites` finds the one action that can break it.

`TurnProofs` (from `CapAssumption`, `SessionAssumption`, `BudgetTypes`, `WireTypes`)
- `IgnoredGetsFull`: `IgnoredMeansFull`. `RefInv`: a turn that began after an ignored
  reference holds no leave to substitute.
- `CutsAlwaysHeal`: `CutsHeal`, if a raise raises (`BackoffRaises`; the code clamps
  `truncation_backoff_multiplier` to at least 1, `g11_output_format.py:292`, and 1
  raises nothing). `FloorInv`: until two raises race through the fallback, the floor is
  past every cap that cut an answer.
- `LoopAlwaysStops`: `LoopIsStopped`. `LoopInv` counts the turns let through (`Through`)
  against the counter that numbered them.
- `MemoryAlwaysOwnAndWhole`: `MemoryIsOwnAndWhole`, from `MemInv` (an undisturbed session's
  summary and its count agree with what was said) and `LongInv`.
- `HistoryKept`: `HistoryHolds` of `ContextBudget`, for a conversation of any length, any
  window (a misconfigured one too), any thresholds and limits of the summariser and any mix
  of groups and rungs. `BudgetInv` (`BudgetTyped`) has three parts. `TalkHolds`: the client
  sends every call with its results after it. `Sound(prompt)`: every message is one of the
  conversation in some size, or the system's, no turn is there twice, and results stand
  right after what they follow. `SummariesHold`: a cached summary that was not cut says all
  that its key says; without it a summary of a longer span, built on a cached one of its
  prefix, could not be known to be whole. While nothing is marked lossy, the prompt says
  what the conversation says (`Whole`). The invariant needs no order of the stages: each
  keeps `Sound` and says what it takes out (`StageHolds`).
  Nothing is proved by induction over a list. `Taken` is defined by ranks, so the order of
  what it keeps follows from counting (`TakenHolds`); `Repeats`, `SafeWindowSplit` and
  `_rung_drop` are statements about places; and that the first message to say something
  stays when its repeats go, or that a dropped repeat has a like one after it that is kept,
  takes the least or the last such place (`Least`).
- `WireKept`: `WireIsFaithful` of `Wire`, for answers of any length with any number of calls
  and arguments, any cut into chunks, any tools and denials, and for histories of any
  length, with any number of blocks in a message. Outwards, `StreamInv` says of every moment what
  `TerminalMeansWhole` says of the last: the translator's text behind the client's is the
  text that has arrived (`Pieces`), its slots are those of the calls that have begun and may
  pass, each with the arguments that have arrived (`Slots`), and the gate has judged every
  call that has begun by its name (`GateJudges`). A chunk is either of the next piece of one
  call or a whole answer, so `Merged` is needed for no fragment, for one (`MergedOne`), and
  for those of `Indexed`, where the function that its definition chooses is exhibited
  (`MergedIndexed`); the rest is the induction over the behaviour. Inwards, `InInv`: every
  call that is open was made in a message before (`OpenWereCalled`), and Gemini's are
  numbered below the next number, open once, and not any more after their result
  (`OpenOnce`). `FanOutKeeps` follows the blocks of a message by the ranks of their places,
  as `TakenHolds` does. `WireTyped` states both.

`SharedProofs` (from `SettingsAssumption`, `AddressAssumption`, `PruneAssumption`,
`CacheAssumption`)
- `SettingsAlwaysHold`: `SettingsHold`. A row that was read was in force at some time after
  it was asked for, and so was what the cache holds, up to its lifetime (`RowsFresh`).
- `AddressAlwaysSound`: `AddressIsSound`. A request on its way through a fetch keeps what it
  knew when it came (`KeyKept`), while others fetch and keys rotate.
- `AlwaysJudgedAfresh`: the action property `JudgedAfresh`. `SeenSince`: a history that began
  in sight began after the tool's last hiding ended.
- `HitsAlwaysAlike`, `IndexAlwaysBuilt`: two conjuncts of `CacheIsSound` about
  `ResponseCache`. For the first, every stored entry relates to the request it was made for
  as its tags say; for the second, somebody is on the way to an index whenever there is none
  to use. The second needs a process to build it (`Builders # {}`).

`RequestProofs` (from `RoutingAssumption`, `BudgetAssumption`, `FloorTypes`). Requests meet only in
G06's rotation, its latencies and its failure times, so `RouteInv` is local to a request:
`PlanHolds` (a plan routes under a configuration the request may have, and allows what the
context says), `CostHolds` (the model being tried, and the one an answer is kept from,
are within the caller's price) and `CallsHold` (the last call that is not a side call is
the one the answer comes from, and a raised budget is that model's).
- `TypeCorrect`: `RouteType`.
- `NeverDearer`: `WithinCost`. The guard of a hop compares with the caller's model, so
  nothing is asked of the order of the tiers.
- `DisclosureTrue`: `DisclosedIsServed`, by `CallsHold`.
- `RotationAlwaysFair`: `RotationIsFair`, for any `L` with `OneLadder(L)`: requests of a
  tenant that rotate agree on what a tier holds, and it holds no model twice. The code
  keeps one counter per tenant and tier name, whatever the list behind the name, so the
  statement is false where two configurations share it. `Even` counts the full turns and
  says that the models before the counter are one ahead.
- `ReasoningAlwaysSound`: `ReasoningIsSound`, under `TablesOrdered`: medium's thinking
  budget at Gemini is no smaller than low's, and its allowance no smaller than that of
  "off". Both tables are configuration; the defaults are ordered (`gemini_adapter.py:5`,
  `openai_adapter.py:204`). Of the budgets themselves nothing is assumed but that they
  are numbers. What `CallFits` says is not said of three kinds of call, each with its row
  in section 5: the cascade's probe; the comparison with an output budget that came as
  `max_completion_tokens` (`Uncapped`); and Anthropic's least for a budget that was
  below it as the caller or the operator wrote it (`Written`). The cap itself never cuts
  one below the least. `ReasonInv` follows the
  parameters from G25 and G12 through every call: `ThinkingHolds` and `QuietHolds` say what
  they hold between calls, `PlacedHold` what each call carried.
- `ShrinksPay`: the action property `ShrinksPayOff` of `CacheFloor`, for any prices, sizes,
  margin and reuse. `FloorInv` (`FloorTyped`) says that what the snapshot still covers is
  what was reserved (`SpanStays`), which each rewrite restores by `Resnapshot` and only
  layered composition breaks. With it the rule of `CompressIsCheaper`, which compares
  arms, implies that the cost over the span's reuses does not rise (`CostFalls`); that no
  compressor returns more tokens (`Shrunk`) is what the milder rates and G19's restored
  messages rest on.

`MCRequest` satisfies both hypotheses.

Model-checked only: liveness (`EveryCallEnds`, `EveryDeferredAnswered`,
`EveryRequestRecorded`), because the provers do not reason about fairness and `ENABLED`.
`CacheIsSound` itself is only checked: its conjuncts are proved one by one, under the
hypotheses named above. No module with a theorem uses a RECURSIVE operator.

## 5. Findings

Two are kept as runs: `keys_fetch` and `repair_unsafe` (see `findings` in
`PROJECT.json`).

### Refuted statements

While modelling, TLC also refuted the following statements of the source. Each
is a definition of its module, or follows from one; the instance that shows it
differs from a run of section 3 as given.

| Statement | Where it is said | What the code does | Instance |
|---|---|---|---|
| `SkippedTargetsTakeNoProbe`: a skipped target never takes a probe | `providers/resilience.py:497` | the provider's breaker is asked, and makes the caller its probe, before the model's lockout skips the target (`:501`) | `providers` with `model_lockout_seconds` longer than `cooldown_seconds` |
| `ErrorsOnlyAfterAnAttempt`: no error unless a provider was tried or no key is usable | `providers/resilience.py:18` | a gated primary is skipped in favour of a lazy fallback whose key then does not resolve (`:507`) | `failover` |
| `CloseNeedsAnAnswer`: a probe that succeeds closes a breaker | `providers/resilience.py:107` | a cancelled Jev call notes `None`, a success (`g06_jev.py:344`) | `failover` |
| `OpenClosesThroughHalfOpen` | `providers/resilience.py:106` | a call in flight when the breaker opened closes it directly (`:157`) | `failover` |
| cooldown state "is Redis-backed so it holds across workers" | `README.md:366` | it is a dictionary of the process (`providers/resilience.py:266`) | by inspection |
| `NothingForgotten` without its condition: "An error leaves the entries pending, for the sweep to retry" | `g13_batch.py:536` | a failed result write is logged and the entry acknowledged and deleted (`:597`) | `batch_loop` |
| `ResultsHaveOwners` under a late XADD | `g13_batch.py:109` | an XADD that was applied although it raised leaves an entry whose owner is deleted (`:116`) | `batch_loop` with `xadd_late` |
| `SpendIsPaid` with two pollers | `g00_rate_limit.py:136`, `docs/config-reference.md:829` | two workers finish one native job and both add its cost (`g13_batch.py:867`) | `batch_native` |
| `EveryDeferredAnswered` without its condition, under a lost job record | `g13_batch.py:536` | the entries of a submitted job are acknowledged without a record to poll (`:797`) | `batch_native` |
| `StaleMeansStopped`: "an entry goes stale only once nobody is working on it" | `g13_batch.py:535`, `docs/config-reference.md:841` | one read delivers several streams, which are flushed in turn, and only the one being flushed is held (`g13_batch.py:459`) | `batch_loop` |
| `HoldExcludes` without `waited`: two workers run an entry and the provider is paid twice, though nothing fails | `g13_batch.py:535` | what goes stale behind another stream's flush is swept, and then run by both | `batch_loop` |
| `BacklogCapped`: `max_backlog` queued at most | `docs/config-reference.md:838` | length check and XADD are two calls (`g13_batch.py:504`); the overshoot is the handlers in flight | `batch_loop` with `MaxBacklog = 1` |
| `NeverOverAdmitted` with a delay: time is never counted twice | `g00_rate_limit.py:33` | a script that runs late moves `last_refill` back (`:59`); `Conserved` bounds the excess | `bucket` |
| `RefusedTakesNothing` in the fallback | `g00_rate_limit.py:433` | the minute's token is taken before the hour refuses (`:450`) | `bucket` with `Scripting = FALSE` and an hour smaller than the minute |
| `OneShotEvents` when the key cannot be set | `g00_rate_limit.py:208`, `docs/config-reference.md:114` | every refused request emits `trial.expired` again | `tenant` with the `flag` fault |
| `FullMonthRefuses`: the counter bumped is the one checked | `g00_rate_limit.py:127` | for the default tenant gate and counter use two keys (`:284`) | `tenant` with `HasPrefix = FALSE` |
| `PromptsAreClean` in repair mode | `g29_pii_redaction.py:15` | the re-ask sends the restored answer (`g11_output_format.py:583`) | `repair_unsafe` |
| `EveryPaidCallPriced` | `middleware/__init__.py:113` | a request that is blocked or fails after a judge's, summary's or tier's call is recorded at no cost (`main.py:2106`) | `request` |
| `NoPhantomSaving` | `main.py:1018` | a refused hit leaves the token count at 0 (`main.py:1009`) | `request` |
| `RefusalHeals`: "the path self-heals on the first refusal" | `main.py:988` | a streamed request stores nothing (`main.py:2124`) | `request` |
| `RecordedAtEveryExit` | `main.py:1185` | an exception of a request stage other than a limit leaves no outcome (`main.py:2050`) | `request` |
| `HitsAreRedacted` | `main.py:2137` | a hit stored before the tenant switched to mask is served unmasked (`main.py:2135`) | `shared` with an old entry `leak` and a configuration that changes to mask |
| `HeardIsCurrent`: an instance that has heard and served every announcement has the table ("in step with proxy_keys") | `pg_key_store.py:320` | `_KEY_CACHE = store` after a transaction (`api_key_manager.py:588`) replaces what an announcement of another tenant brought meanwhile; the old rows stay until the next interval (`overtaken`) | `keys` |
| `StopsWithinInterval`: a revoked key stops within the check interval | `api_key_manager.py:89` | a check records its time before it asks (`:159`), and a lookup beside it answers from the old cache | `keys`, over the secret |
| `NeverUnresolvable`: "NEVER substitute a reference the caller cannot resolve" | `g28_ccr.py:620` | a streamed turn of a proven tenant gets references, though no response stage runs on a stream | `tenant` |
| `RefIsDurable`: a reference stands for a block in Redis | `g28_ccr.py:80` | the process's copy may outlive the block, and suffices for a reference | `tenant` |
| `CutsConverge` for every cut answer: a cut that is recorded raises the floor | `g11_output_format.py:229` | in `block` mode a malformed answer is withheld before the feedback, which is the common fate of cut JSON; the property starts at the raise | `tenant` |
| "a truncation it causes raises no floor" of the static fallback cap | `g11_output_format.py:752` | with auto-tightening on, a workload without evidence gets the fallback cap and its cut raises the floor | `tenant` |
| `JudgedAfresh` without `early` | `g08_tool_loading.py:394` | a request that looked before the pass and records after it starts the tool's history while it is hidden | `shared` |
| `ShrinksPayOff` without `composed` | `cache_floor.py:183` | a system prompt replaced by its layers is rewritten without a new snapshot (`g01_compression.py:323`) | `request` |
| `NothingSilentlyLost` without `lossy`: "nothing from the earlier part is lost" | `g26_context_budget.py:221` | the summariser is shown no more than its input and turn limits, and what it made of that is cached as the summary of the whole span | `request` |
| `NoUninvitedReasoning` after a failover to a generic provider | `providers/__init__.py:967` | the effort chosen for the routed model is what the generic one gets | `request` |
| `ThinkingStaysBelow`: the thinking budget is kept below the output budget | `anthropic_adapter.py:221` | the cap is handed `max_tokens` only, so not the budget of a caller who sends `max_completion_tokens` (`providers/__init__.py:1030`); the same at Gemini | `request` |
| `BudgetsReachLeast`: a smaller budget than Anthropic's least cannot be honoured | `anthropic_adapter.py:172` | any positive `anthropic_tokens` of the operator is passed on (`:188`), and `config/config.yaml.template:1262` has 1000 for "low" | `request` |
| `EveryCallFits` for a cascade's probe | `g06_routing.py:811` | its cap and temperature are put in after the parameters were reconciled | `request` |
| `TerminalMeansWhole` about the stop reason of an answer with a denied call | `g32_tool_eligibility.py:172` | the stream's gate judges a chunk at a time | `request` |
| the next load after `invalidate` "re-reads Postgres" | `tenancy/config.py:58` | a load in flight stores the row it read before the write | `overrides` of `shared`, hence the bound of `SettingsHold` |
| the model tag is "identical at lookup and store" | `g05_cache.py:364` | without routing, `_record_substitution` replaces the model in between, so the L2 row is the substitute's (`HitsAreAlike` allows for it) | `answers` of `shared` |
| `IndexIsBuilt` for each process: "True once the index is ready" | `g05_cache.py:1017` | another process drops an index it saw invalid after this one has returned | `index` of `shared`; the property waits for all |

Reading the code for these modules also showed the following, which the models follow
and no property contradicts. They are here because a reader of the code may expect
otherwise.

- A tier of the cascade that fails does not reach `record_model_failure`
  (`main.py:1233` reads the attempts of `call_with_resilience` only), so
  `least_latency` may choose it again.
- A lookup that L2 skips counts as an L2 miss for auto-TTL, so the lifetime of a tenant
  with long conversations shrinks; the step cache ignores the scope's tags.
- A failed summary of G10 is stored as "[summary unavailable]", two turns that overlap
  lose one update, and a client that sends more than its new messages is taken for one
  that resends everything (`MemoryBuildsUp` excludes the first two as `disturbed`, and a
  summary that could not be stored if the client sends only what is new).
- G17 does not refresh the start key, so a workflow's wall clock starts anew while its
  turn counter goes on.
- The sightings of a span are counted by SET NX and INCR (`cache_floor.py:426`): a key
  that expires between the two comes back without a lifetime. Only G01, G08 and G19
  consult the floor; the other groups that shorten prompts do not.
- G22 keeps "only the last turn" of a run of like turns (`g22_deduplication.py:4`), but a
  turn of another role ends the run.
- A `thinking` the caller sent is removed when both G25 and G12 are on, and "off" is
  removed before the headroom is reserved, so that the room for a medium effort is.
- Gemini's `candidateCount` becomes `n`, but only the first choice is translated back.
- A params file that fails at a reload takes its settings out of force without the
  refusal that a missing section meets; a failed read of the overrides serves without
  them although an expired copy exists.

Some passing runs are therefore about the instance they name. `batch_loop` leaves
out the late XADD. `request` and `shared` leave the answers of repair mode to
`repair_unsafe` and their safety to the other modes. `keys` has one process that
writes the secret, as the source demands: a store that several instances write
must install a transaction (`api_key_manager.py:32`), and with two such processes
TLC refutes `ImplementsTable` and `VersionHonest`.

## 6. Plan

Done, in this order: `Resilience` and its proofs, `BatchQueue`, `Admission` and its
proofs, `Lifecycle`, `KeyStore` with `KeyTable` and its proof; then `Routing`,
`OutputCap`, `ContentRefs`, `Sessions`, `CacheFloor`, `ContextBudget`, `ToolPruning`,
`Wire`, `ReasoningBudget`, `Settings`, `ClientAddress` and `ResponseCache`; then the
proofs about turns, shared state, the batch queue, the key store, the lifecycle, routing,
reasoning, the cache floor, the history stages and the wire.

Next, models:
1. An abstract `Deferral` (asked, answered, read) that `BatchQueue` implements, and an
   abstract cache that `ResponseCache` implements for `Lifecycle`.
2. `Lifecycle` over `Settings`: a request whose configuration is read in two steps.
3. Retention's clamp and its batches; the savings calculator as operators against
   a reference definition.

## 7. Not modelled

Text work (compression, detection, formatting), prices and scores, vectors and their
likeness, network clients, exports, migrations and deployment have no state that order
or failure could corrupt, or are out of a model checker's reach. `warm_cache` and
`temporal_activity_replay` have no caller. The management console that resets trials,
writes overrides and keys is not in this repository: its effects are
`WriteOverrides`, `Invalidate` and the operations of `KeyOps`. The document and
fine-tuning pipelines are batch jobs over files. `PROJECT.json` gives the reason for
each part.
