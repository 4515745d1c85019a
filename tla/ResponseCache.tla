--------------------------- MODULE ResponseCache ---------------------------
(***************************************************************************)
(* G05's three stores (middleware/g05_cache.py) and what a request is filed *)
(* and found under: L1 by the exact request, L2 by a question close to it,  *)
(* the step cache by the step the caller names.  A lookup runs before the   *)
(* stages that rewrite the request and the store runs after them, so each   *)
(* tag is fixed at the lookup or taken from the request as sent.  Lifecycle *)
(* says which answers are stored and served at all; here every answer is    *)
(* storable, and an entry remembers, for the properties, the request it was *)
(* made for and when it was filed.                                          *)
(*                                                                          *)
(* The table's vector index is built in the background by every process.    *)
(***************************************************************************)
EXTENDS Integers, Sequences, FiniteSets, Bags

CONSTANTS
    Callers,        \* the requests
    Asks,           \* what each caller may send
    CacheScopes,    \* G5_cache.cache_scope: sets of "model" and "system"
    DefaultModel,   \* served for a model nobody configured, when routing is off
    Ttl,            \* the configured lifetime at each level
    MinMultiplier,  \* auto_ttl_min_multiplier and _max_multiplier, in quarters
    MaxMultiplier,
    EnoughLookups,  \* 10: fewer say nothing about a hit rate
    StatsWindow,    \* _TTL_STATS_WINDOW_S
    PurgeInterval,  \* _L2_PURGE_INTERVAL_S
    PurgeBatch,     \* _L2_PURGE_BATCH
    Builders,       \* the processes that ensure the table's schema
    MaxClock,       \* bound: time
    MaxCacheFaults  \* bound: failed calls

ASSUME CacheAssumption ==
    /\ \A s \in CacheScopes : s \subseteq {"model", "system"}
    /\ Ttl \in [{"L1", "L2", "STEP"} -> Nat \ {0}]
    /\ {MinMultiplier, MaxMultiplier, EnoughLookups, StatsWindow, PurgeBatch} \subseteq Nat \ {0}

VARIABLES
    asked,      \* each request as sent (original_messages and the caller's params)
    now_is,     \* the request as the stages after the lookup have left it
    tags,       \* what the lookup memoised on ctx.params, and the scope in force
    stage,      \* where each request is in this stage
    hit,        \* what it was served from the cache
    l1,         \* Redis: the exact-match entries
    cache_l2,   \* Postgres: the rows of cache_l2
    stepped,    \* Redis: the step entries
    ttl_stats,  \* the lookups counted per window, tenant, level and outcome
    next_purge, \* _l2_next_purge
    clock,      \* seconds, in units of the smallest lifetime
    cacheFaults,\* how many calls have failed
    index,      \* idx_cache_l2_embedding: "absent", "building", "invalid" or "valid"
    build       \* how far each process is with it

answerVars == <<asked, now_is, tags, stage, hit, l1, cache_l2, stepped, ttl_stats,
                next_purge, clock, cacheFaults>>
indexVars == <<index, build>>
responseVars == <<answerVars, indexVars>>

Nothing == [level |-> "none"]
CacheTenants == {a.tenant : a \in UNION {Asks[c] : c \in Callers}}

-----------------------------------------------------------------------------
(* What a request is filed under. *)

\* A tag is a labelled value; the code joins a scope's tags in a fixed order, so a scope is
\* the set of them.
Tag(label, value) == {<<label, value>>}

\* _model_scope_tag, _system_scope_tag: a component of the key only when the tenant's
\* scope names it; a request without a system prompt has a tag of its own.
ModelTag(scope, model) == IF "model" \in scope THEN Tag("model", model) ELSE {}
SystemTag(scope, system) == IF "system" \in scope THEN Tag("system", system) ELSE {}

\* _verbosity_scope_tag, _params_scope_tag: "" for a request that sets none.
VerbosityTag(a) == IF a.verbosity = "plain" THEN {} ELSE Tag("verbosity", a.verbosity)
ParamsTag(a) == IF a.params = "none" THEN {} ELSE Tag("params", a.params)

\* The tags are computed by the lookup, from the request as it then is, and memoised.
Memoised(a, scope) ==
    [scope |-> scope, system |-> SystemTag(scope, a.system),
     verbosity |-> VerbosityTag(a), params |-> ParamsTag(a)]

\* _apply_model_scope, _scope_value
ScopeOf(m, model) == ModelTag(m.scope, model) \cup m.verbosity \cup m.system \cup m.params

\* _cache_key of _normalise: the system prompt and every turn, whatever it carries, in the
\* tenant's namespace.  "words" are the user's, up to case and spacing.
L1Key(a, m, model) == <<a.tenant, ScopeOf(m, model), a.system, a.form, a.words>>

\* _literal_scope_tag, _l2_scope: the numbers of the question, in order.
LiteralTag(a) == IF a.literals = "none" THEN {} ELSE Tag("literals", a.literals)
L2Scope(a, m, model) == ScopeOf(m, model) \cup LiteralTag(a)

\* _semantic_cache_disabled, _semantic_query_text and _embed_input_truncates, on the
\* request as sent: not for a caller who opted out, a conversation that goes on, an image,
\* or a question longer than the embedding reads.
Semantic(a) == a.semantic /\ a.form = "question"

\* _step_cache_key
StepKey(a) == <<a.tenant, a.step>>

-----------------------------------------------------------------------------
(* AutoTTLManager: counts per tenant and level in hourly windows. *)

WindowOf(t) == t \div StatsWindow

\* One more lookup of this level in the window of now.
Counted(stats, c, level, outcome) ==
    stats (+) SetToBag({<<WindowOf(clock), asked[c].tenant, level, outcome>>})

\* What get_recommended_ttl reads: this window and the one before.
Lookups(tenant, level, outcome) ==
    LET in(w) == LET key == <<w, tenant, level, outcome>>
                 IN  IF BagIn(key, ttl_stats) THEN ttl_stats[key] ELSE 0
    IN  in(WindowOf(clock)) + in(WindowOf(clock) - 1)

\* A scale in quarters, kept between the multipliers; a lifetime is never under one.
Scale(q) == LET low == IF q < MinMultiplier THEN MinMultiplier ELSE q
            IN  IF low > MaxMultiplier THEN MaxMultiplier ELSE low
Scaled(base, q) == IF (base * Scale(q)) \div 4 < 1 THEN 1 ELSE (base * Scale(q)) \div 4

RecommendedTtl(tenant, level) ==
    LET hits == Lookups(tenant, level, "hit")
        total == hits + Lookups(tenant, level, "miss")
    IN  IF total < EnoughLookups THEN Ttl[level]
        ELSE IF 100 * hits > 80 * total THEN Scaled(Ttl[level], 5)
        ELSE IF 100 * hits < 20 * total THEN Scaled(Ttl[level], 3)
        ELSE Ttl[level]

\* What auto-TTL may make of a configured lifetime at most.
LongestTtl(level) == IF Scaled(Ttl[level], 5) > Ttl[level] THEN Scaled(Ttl[level], 5) ELSE Ttl[level]

-----------------------------------------------------------------------------
(* The lookup *)

\* The calls a request makes at these levels, and those among some calls that fail.
CallsOf(a, levels) ==
    {l \in levels : (l \in {"L2", "purge"} => Semantic(a)) /\ (l = "STEP" => a.step # "none")}
Failing(calls) == {F \in SUBSET calls : Cardinality(F) <= MaxCacheFaults - cacheFaults}
Spend(F) == cacheFaults' = cacheFaults + Cardinality(F)
MoveTo(c, s) == stage' = [stage EXCEPT ![c] = s]

\* Redis drops a key when its EX has passed; a row of cache_l2 is served while its
\* expires_at is in the future, deleted or not.
Alive(e) == clock < e.until

ServeFrom(c, e, level) ==
    /\ hit' = [hit EXCEPT ![c] = [level |-> level, of |-> e.of, model |-> e.model,
                                  filed |-> e.filed, at |-> clock]]
    /\ MoveTo(c, "served")

\* A request arrives; its key and tags are fixed before Redis is touched.
Arrive(c) ==
    /\ stage[c] = "new"
    /\ \E a \in Asks[c], s \in CacheScopes :
          /\ asked' = [asked EXCEPT ![c] = a]
          /\ now_is' = [now_is EXCEPT ![c] = a]
          /\ LET memo == Memoised(a, s)
             IN  tags' = [tags EXCEPT ![c] = [memo |-> memo, key |-> L1Key(a, memo, a.model)]]
    /\ MoveTo(c, "lookup")
    /\ UNCHANGED <<hit, l1, cache_l2, stepped, ttl_stats, next_purge, clock, cacheFaults>>

\* GET of the key the lookup fixed.
FoundL1(c) == {e \in l1 : e.key = tags[c].key /\ Alive(e)}

\* Mutant: the lookup leaves expiry to whatever deletes the rows.
BugServesDead(c) ==
    {e \in cache_l2 : /\ Semantic(asked[c])
                      /\ e.tenant = asked[c].tenant
                      /\ e.scope = L2Scope(asked[c], tags[c].memo, now_is[c].model)
                      /\ e.meaning = asked[c].meaning}

\* _L2_LOOKUP_SQL: rows of the tenant and the scope, and of those the nearest.
FoundL2(c) ==
    {e \in cache_l2 : /\ Semantic(asked[c])
                      /\ e.tenant = asked[c].tenant
                      /\ e.scope = L2Scope(asked[c], tags[c].memo, now_is[c].model)
                      /\ e.meaning = asked[c].meaning
                      /\ Alive(e)}

FoundStep(c) == {e \in stepped : asked[c].step # "none" /\ e.key = StepKey(asked[c]) /\ Alive(e)}

\* process_request and _check_step_cache: L1, then L2, then the step.  A failed call goes on
\* to the next and counts nothing; an L2 lookup that was skipped counts as a miss.  Once the
\* index serves the lookup, a near row among many others' can be missed.
LookUp(c) ==
    /\ stage[c] = "lookup"
    /\ \E F \in Failing(CallsOf(asked[c], {"L1", "L2", "STEP"})) :
          LET first == IF "L1" \in F THEN {} ELSE FoundL1(c)
              second == IF "L2" \in F THEN {} ELSE FoundL2(c)
              third == IF "STEP" \in F THEN {} ELSE FoundStep(c)
              counted(stats, level, outcome) == IF level \in F THEN stats ELSE Counted(stats, c, level, outcome)
              missed == counted(ttl_stats, "L1", "miss")
          IN  \/ /\ F = {} /\ \E e \in first : ServeFrom(c, e, "L1")
                 /\ ttl_stats' = counted(ttl_stats, "L1", "hit") /\ Spend(F)
              \/ /\ first = {} /\ F \subseteq {"L1"} /\ \E e \in second : ServeFrom(c, e, "L2")
                 /\ ttl_stats' = counted(missed, "L2", "hit") /\ Spend(F)
              \/ /\ first = {} /\ (second = {} \/ index = "valid")
                 /\ ttl_stats' = counted(missed, "L2", "miss") /\ Spend(F)
                 /\ \/ \E e \in third : ServeFrom(c, e, "STEP")
                    \/ third = {} /\ MoveTo(c, "answer") /\ UNCHANGED hit
    /\ UNCHANGED <<asked, now_is, tags, l1, cache_l2, stepped, next_purge, clock>>

-----------------------------------------------------------------------------
(* The stages in between, and the store *)

\* What the later stages make of a request: history is compacted and an image replaced,
\* G11 caps the tokens and adds to the system prompt, and where routing is off
\* _record_substitution replaces a model nobody configured.
LaterStages(a) ==
    LET rewritten == [a EXCEPT !.words = "compacted", !.form = "question",
                               !.params = "capped", !.system = "steered"]
    IN  {a, rewritten, [rewritten EXCEPT !.model = DefaultModel]}

LaterStagesRun(c) ==
    /\ stage[c] = "answer"
    /\ \E a \in LaterStages(asked[c]) : now_is' = [now_is EXCEPT ![c] = a]
    /\ MoveTo(c, "store")
    /\ UNCHANGED <<asked, tags, hit, l1, cache_l2, stepped, ttl_stats, next_purge, clock, cacheFaults>>

\* What SET files: the answer to the request as sent, of the model that answered.
Filed(c, key, ttl) ==
    [key |-> key, of |-> asked[c], model |-> now_is[c].model, filed |-> clock, until |-> clock + ttl]

\* The row an answer becomes in a scope: query_hash names tenant, scope and question.
RowIn(c, scope) ==
    [hash |-> <<asked[c].tenant, scope, asked[c].words>>, tenant |-> asked[c].tenant,
     scope |-> scope, meaning |-> asked[c].meaning, of |-> asked[c], model |-> now_is[c].model,
     filed |-> clock, until |-> clock + RecommendedTtl(asked[c].tenant, "L2")]

\* Mutant: the store takes the tags from the request as the later stages left it.
BugTagsAtStore(c) ==
    RowIn(c, L2Scope(asked[c], Memoised(now_is[c], tags[c].memo.scope), now_is[c].model))

RowOf(c) == RowIn(c, L2Scope(asked[c], tags[c].memo, now_is[c].model))

\* INSERT, or UPDATE of the row with that hash.
Upserted(row) == {e \in cache_l2 : e.hash # row.hash} \cup {row}

\* _purge_expired_l2: at most a batch of the tenant's dead rows, at most once an interval;
\* a full batch leaves the next store free to purge again.
Purges(rows, tenant) ==
    LET dead == {e \in rows : e.tenant = tenant /\ ~Alive(e)}
        n == IF Cardinality(dead) < PurgeBatch THEN Cardinality(dead) ELSE PurgeBatch
    IN  IF clock < next_purge[tenant] THEN {[rows |-> rows, next |-> next_purge]}
        ELSE {[rows |-> rows \ gone,
               next |-> [next_purge EXCEPT ![tenant] = IF n >= PurgeBatch THEN clock
                                                       ELSE clock + PurgeInterval]] :
              gone \in {g \in SUBSET dead : Cardinality(g) = n}}

\* SET replaces.
Replace(entries, e) == {x \in entries : x.key # e.key} \cup {e}

\* store_response: SET under the key of the lookup; then the row and the purge, whose own
\* failure costs only the purge; then the step.  Each call may fail without keeping the next
\* from being made.
StoreResponse(c) ==
    /\ stage[c] = "store"
    /\ \E F \in Failing(CallsOf(asked[c], {"L1", "L2", "purge", "STEP"})) :
          LET a == asked[c]
              rows == Upserted(RowOf(c))
              exact == Filed(c, tags[c].key, RecommendedTtl(a.tenant, "L1"))
              named == Filed(c, StepKey(a), Ttl["STEP"])
          IN  /\ Spend(F)
              /\ l1' = IF "L1" \in F THEN l1 ELSE Replace(l1, exact)
              /\ \E p \in Purges(rows, a.tenant) :
                    \/ /\ ~Semantic(a) \/ "L2" \in F
                       /\ UNCHANGED <<cache_l2, next_purge>>
                    \/ /\ Semantic(a) /\ "L2" \notin F
                       /\ cache_l2' = IF "purge" \in F THEN rows ELSE p.rows
                       /\ next_purge' = IF "purge" \in F /\ clock >= next_purge[a.tenant]
                                        THEN [next_purge EXCEPT ![a.tenant] = clock + PurgeInterval]
                                        ELSE p.next
              /\ stepped' = IF a.step = "none" \/ "STEP" \in F THEN stepped ELSE Replace(stepped, named)
    /\ MoveTo(c, "stored")
    /\ UNCHANGED <<asked, now_is, tags, hit, ttl_stats, clock>>

CacheClock ==
    /\ clock < MaxClock /\ clock' = clock + 1
    /\ UNCHANGED <<asked, now_is, tags, stage, hit, l1, cache_l2, stepped, ttl_stats, next_purge,
                   cacheFaults>>

-----------------------------------------------------------------------------
(* The vector index: built CONCURRENTLY, by every process once.  Building and dropping  *)
(* wait for each other on the table's lock; while one builds, the index is there but not *)
(* valid.                                                                                *)

\* Mutant: IF NOT EXISTS is left to deal with an invalid index.
BugNoDropFirst(b) ==
    /\ build[b] = "check"
    /\ build' = [build EXCEPT ![b] = IF index = "valid" THEN "ready" ELSE "create"]
    /\ UNCHANGED <<index, cacheFaults>>

CheckIndex(b) ==
    /\ build[b] = "check"
    /\ build' = [build EXCEPT ![b] = CASE index = "valid" -> "ready"
                                       [] index = "absent" -> "create"
                                       [] OTHER -> "drop"]
    /\ UNCHANGED <<index, cacheFaults>>

\* A failed statement is no failure when another process has built the index meanwhile.
Breaks == Failing({"index"}) # {{}} /\ Spend({"index"})

DropIndex(b) ==
    /\ build[b] = "drop" /\ index # "building"
    /\ \/ UNCHANGED cacheFaults /\ index' = "absent" /\ build' = [build EXCEPT ![b] = "create"]
       \/ Breaks /\ UNCHANGED index
          /\ build' = [build EXCEPT ![b] = IF index = "valid" THEN "ready" ELSE "failed"]

\* IF NOT EXISTS: an index that is there, valid or not, is left alone.
CreateIndex(b) ==
    /\ build[b] = "create" /\ index # "building"
    /\ IF index = "absent"
       THEN index' = "building" /\ build' = [build EXCEPT ![b] = "building"]
       ELSE UNCHANGED index /\ build' = [build EXCEPT ![b] = "ready"]
    /\ UNCHANGED cacheFaults

\* A build that fails leaves an invalid index.
FinishIndex(b) ==
    /\ build[b] = "building"
    /\ \/ UNCHANGED cacheFaults /\ index' = "valid" /\ build' = [build EXCEPT ![b] = "ready"]
       \/ Breaks /\ index' = "invalid" /\ build' = [build EXCEPT ![b] = "failed"]

\* A later start of the process ensures the schema again.
Reensure(b) ==
    /\ build[b] \in {"ready", "failed"} /\ build' = [build EXCEPT ![b] = "check"]
    /\ UNCHANGED <<index, cacheFaults>>

-----------------------------------------------------------------------------
\* A row of an older table has no expires_at, and may be of any age.
OldRows(a) ==
    {[of |-> a, model |-> a.model, filed |-> 0 - LongestTtl("L2"), until |-> 0, hash |-> <<a.tenant, {}, a.words>>,
      tenant |-> a.tenant, scope |-> {}, meaning |-> a.meaning]}

ResponseInit ==
    /\ asked = [c \in Callers |-> Nothing]
    /\ now_is = asked
    /\ tags = [c \in Callers |-> << >>]
    /\ stage = [c \in Callers |-> "new"]
    /\ hit = [c \in Callers |-> Nothing]
    /\ l1 = {} /\ stepped = {}
    /\ ttl_stats = EmptyBag
    /\ cache_l2 \in {{}, UNION {OldRows(CHOOSE a \in Asks[c] : a.form = "question") : c \in Callers}}
    /\ next_purge = [t \in CacheTenants |-> 0]
    /\ clock = 0 /\ cacheFaults = 0
    /\ index \in {"absent", "invalid", "valid"}
    /\ build = [b \in Builders |-> "check"]

AnswerStep(c) ==
    \/ Arrive(c) \/ LookUp(c) \/ LaterStagesRun(c) \/ StoreResponse(c)

IndexStep(b) == CheckIndex(b) \/ DropIndex(b) \/ CreateIndex(b) \/ FinishIndex(b) \/ Reensure(b)

AnswersNext == ((\E c \in Callers : AnswerStep(c)) \/ CacheClock) /\ UNCHANGED indexVars

IndexNext ==
    /\ \E b \in Builders : IndexStep(b)
    /\ UNCHANGED <<asked, now_is, tags, stage, hit, l1, cache_l2, stepped, ttl_stats, next_purge, clock>>

ResponseSpec == ResponseInit /\ [][AnswersNext \/ IndexNext]_responseVars

-----------------------------------------------------------------------------
(* Properties *)

\* An answer served from the cache was made for the request it is served to, as the caller
\* sent it: by the same tenant; under the system prompt and the model the tenant's scope
\* tells apart (an L2 row of a substituted model is the substitute's), the same answer
\* parameters and verbosity; for the same messages (L1), or for a like question with the same
\* numbers where both are single questions the embedding reads whole (L2), or for the step
\* the caller named; and no longer ago than auto-TTL may make of the configured lifetime
\* (_params_scope_tag, _system_scope_tag, _request_messages, _literal_scope_tag,
\* _L2_LOOKUP_SQL, get_recommended_ttl).
HitsAreAlike ==
    \A c \in Callers : hit[c].level # "none" =>
        LET a == asked[c]
            b == hit[c].of
        IN  /\ a.tenant = b.tenant
            /\ hit[c].at - hit[c].filed < LongestTtl(hit[c].level)
            /\ hit[c].level = "STEP" => a.step = b.step
            /\ hit[c].level # "STEP" =>
                  /\ a.params = b.params /\ a.verbosity = b.verbosity
                  /\ "system" \in tags[c].memo.scope => a.system = b.system
                  /\ "model" \in tags[c].memo.scope => a.model \in {b.model, hit[c].model}
            /\ hit[c].level = "L1" => a.words = b.words /\ a.system = b.system /\ a.form = b.form
            /\ hit[c].level = "L2" =>
                  /\ a.meaning = b.meaning /\ a.literals = b.literals
                  /\ {a.form, b.form} = {"question"} /\ a.semantic /\ b.semantic

\* Once the build of every process has returned True, the lookups' index is valid,
\* whichever process dropped what another had built (_build_l2_vector_index).
IndexIsBuilt == (\A b \in Builders : build[b] = "ready") => index = "valid"

=============================================================================
