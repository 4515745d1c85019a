--------------------------- MODULE LifecycleProofs ---------------------------
(***************************************************************************)
(* Proofs about Lifecycle, for any number of requests, configurations,     *)
(* replies and failing parts: its types, that a request is answered once   *)
(* and priced, its prompts are clean, what a 200 carries is safe, and what *)
(* enters the cache may be served to anyone of the tenant.                 *)
(*                                                                         *)
(* The invariant is local: it speaks of one request's stage, wants,        *)
(* configuration, context and outcome.  Requests meet only in the cache,   *)
(* and a hit never passes a response stage, so what the cache holds is     *)
(* nobody's concern but its own action property's.                         *)
(***************************************************************************)
EXTENDS Lifecycle, TLAPS

-----------------------------------------------------------------------------
(* Types *)

Paths == {"none", "gate", "raised", "blocked", "short", "deferred", "key", "call",
          "stream", "withheld", "answer"}

Context ==
    [noCache : BOOLEAN, masked : BOOLEAN, blocked : BOOLEAN, bypassed : BOOLEAN,
     hit : BOOLEAN, refused : BOOLEAN, plan : BOOLEAN, dispatched : BOOLEAN,
     deferred : BOOLEAN, context : {"none", "clean", "poisoned"}, sized : BOOLEAN,
     usage : BOOLEAN, booked : Nat, answered : Nat, priced : Nat,
     sent : SUBSET {"raw", "poisoned"}, answer : Answer \cup {NoAnswer}]

Outcome == [times : Nat, status : Nat, path : Paths, priced : Nat, phantom : BOOLEAN]

LifeType ==
    /\ config \in Configs
    /\ cache \in [Keys -> Answer \cup {NoAnswer}]
    /\ at \in [Requests -> StageNames]
    /\ want \in [Requests -> Want \cup {NoWant}]
    /\ conf \in [Requests -> Configs]
    /\ ctx \in [Requests -> Context]
    /\ outcome \in [Requests -> Outcome]

Whole == {"redactAnswer", "guardAnswer", "gateTools", "format", "observe", "store", "serve"}
Ungated == {"idle", "gate", "guardrails", "redaction"}
Unshaped == Ungated \cup {"bypass", "cache", "routing", "agent", "shape"}
Preparing == Unshaped \cup {"trust", "tune"}

-----------------------------------------------------------------------------
(* The way of a request: which verdicts of the pipeline exclude each other,
   how many answers it has, and what its cost covers. *)

Flow(s, w, c, o) ==
    /\ s # "idle" => w \in Want
    /\ s # "done" => o.path = "none"
    /\ s \in Preparing =>
         /\ ~c.blocked /\ ~c.bypassed /\ ~c.hit /\ ~c.dispatched /\ ~c.deferred
         /\ c.answered = 0 /\ c.sent = {} /\ c.answer = NoAnswer
    /\ s = "core" =>
         /\ c.blocked => c.answer = Refusal
         /\ c.bypassed \/ c.hit \/ c.dispatched => c.answer \in Answer
         /\ c.dispatched => ~c.blocked /\ ~c.bypassed /\ ~c.hit /\ ~c.deferred /\ ~c.plan
         /\ c.hit => ~c.bypassed
         /\ ~c.dispatched => c.answered = 0 /\ c.sent = {}
         /\ c.dispatched => c.answered = 1
    /\ s \in Whole \cup {"call", "streaming"} => ~c.blocked
    /\ s = "call" => c.answered = 0 /\ ~c.dispatched
    /\ s \in Whole \cup {"streaming"} => c.answered = 1 /\ c.answer \in Answer
    /\ s \in {"store", "serve"} => c.priced = c.booked
    /\ s = "done" =>
         /\ c.answered <= 1
         /\ o.path \in {"blocked", "short", "deferred", "gate"} => c.answered = 0
         /\ o.path \in {"answer", "stream", "deferred", "withheld"} => o.priced = c.booked

FlowInv == \A r \in Requests : Flow(at[r], want[r], ctx[r], outcome[r])

-----------------------------------------------------------------------------
(* What a prompt holds, and what an answer holds of it. *)

\* Repair mode shows the model an answer the safety stages have let through, and
\* takes another that they do not see: the tenant has no mask and no scan to pass.
RepairApart == \A k \in Configs : k.json = "repair" => k.pii # "mask" /\ k.scan # "block"

Clean(s, w, k, c) ==
    /\ c.masked => c.noCache /\ k.pii = "mask" /\ s \notin Ungated
    /\ k.pii \in {"mask", "block"} =>
         /\ "raw" \notin c.sent
         /\ s \notin Ungated \cup {"done"} /\ ~c.blocked => (w.pii => c.masked)
    /\ s \in Unshaped => c.context = "none"
    /\ k.trust \in {"strip", "block"} =>
         /\ "poisoned" \notin c.sent
         /\ s \notin {"trust", "done"} /\ ~c.blocked => c.context # "poisoned"
    /\ s \in Whole \/ (s = "core" /\ c.dispatched) =>
         /\ c.answer.text \in {"held", "raw"} => c.masked
         /\ s \in {"core", "redactAnswer"} => c.answer.text # "raw"
         /\ c.answer.by = "model" \/ c.dispatched \/ c.noCache

CleanInv == \A r \in Requests : Clean(at[r], want[r], conf[r], ctx[r])

-----------------------------------------------------------------------------
(* What the safety stages leave of an answer. *)

Safe(s, k, c, o) ==
    /\ s \in {"guardAnswer", "gateTools", "format", "observe", "store", "serve"} =>
         (k.pii = "mask" => c.answer.text \notin {"held", "leak"})
    /\ s \in {"gateTools", "format", "observe", "store", "serve"} =>
         (k.scan = "block" => ~c.answer.flagged)
    /\ s \in {"format", "observe", "store", "serve"} =>
         (k.tools = "block" => ~c.answer.tool)
    /\ s = "streaming" /\ "g32" \notin Faults => (k.tools = "block" => ~c.answer.tool)
    /\ s = "done" /\ o.status = 200 /\ c.answer # NoAnswer =>
         /\ "g32" \notin Faults => (k.tools = "block" => ~c.answer.tool)
         /\ o.path = "answer" =>
              /\ k.scan = "block" => ~c.answer.flagged
              /\ k.pii = "mask" => c.answer.text \notin {"held", "leak"}

SafeInv == \A r \in Requests : Safe(at[r], conf[r], ctx[r], outcome[r])

-----------------------------------------------------------------------------
(* The steps of a request *)

LEMMA GotoMoves ==
    ASSUME LifeType, NEW r \in Requests, NEW s, NEW c, Goto(r, s, c)
    PROVE  /\ at'[r] = s /\ ctx'[r] = c
           /\ \A q \in Requests \ {r} : at'[q] = at[q] /\ ctx'[q] = ctx[q]
BY DEF LifeType, Goto

LEMMA RecordMoves ==
    ASSUME LifeType, NEW r \in Requests, NEW status, NEW path, NEW c,
           Record(r, status, path, c)
    PROVE  /\ Goto(r, "done", c) /\ Unshared
           /\ outcome'[r].status = status /\ outcome'[r].path = path
           /\ outcome'[r].priced = c.priced
           /\ \A q \in Requests \ {r} : outcome'[q] = outcome[q]
BY DEF LifeType, Record

LEMMA RecordTypes ==
    ASSUME LifeType, NEW r \in Requests, NEW status \in Nat, NEW path \in Paths,
           NEW c \in Context, Record(r, status, path, c)
    PROVE  LifeType'
<1>1. /\ at' = [at EXCEPT ![r] = "done"] /\ ctx' = [ctx EXCEPT ![r] = c]
      /\ UNCHANGED <<config, cache, want, conf>>
  BY DEF Record, Goto, Unshared
<1>2. outcome' \in [Requests -> Outcome]
  <2>1. outcome[r].times \in Nat /\ c.priced \in Nat
    BY DEF LifeType, Outcome, Context
  <2> DEFINE o == [times |-> outcome[r].times + 1, status |-> status, path |-> path,
                   priced |-> c.priced, phantom |-> c.priced > 0 /\ ~c.usage /\ ~c.sized]
  <2>2. (c.priced > 0 /\ ~c.usage /\ ~c.sized) \in BOOLEAN
    OBVIOUS
  <2>3. o \in Outcome
    BY <2>1, <2>2 DEF Outcome
  <2>4. outcome' = [outcome EXCEPT ![r] = o]
    BY DEF Record
  <2> QED
    BY <2>3, <2>4 DEF LifeType
<1>3. "done" \in StageNames
  BY DEF StageNames
<1> QED
  BY <1>1, <1>2, <1>3 DEF LifeType

LEMMA GotoTypes ==
    ASSUME LifeType, NEW r \in Requests, NEW s \in StageNames, NEW c \in Context,
           Goto(r, s, c), UNCHANGED <<config, want, conf, outcome>>,
           cache' \in [Keys -> Answer \cup {NoAnswer}]
    PROVE  LifeType'
BY DEF LifeType, Goto

LEMMA Stages ==
    StageNames = Preparing \cup Whole \cup {"core", "call", "streaming", "done"}
<1>1. DOMAIN RequestStages = 1 .. 10 /\ DOMAIN ResponseStages = 1 .. 6
  BY DEF RequestStages, ResponseStages
<1>2. {RequestStages[i] : i \in 1 .. 10} =
        {"gate", "guardrails", "redaction", "bypass", "cache", "routing", "agent",
         "shape", "trust", "tune"}
  BY DEF RequestStages
<1>3. {ResponseStages[i] : i \in 1 .. 6} =
        {"redactAnswer", "guardAnswer", "gateTools", "format", "observe", "store"}
  BY DEF ResponseStages
<1> QED
  BY <1>1, <1>2, <1>3 DEF StageNames, Preparing, Unshaped, Ungated, Whole

\* A request, wherever it is.
Local(s, w, k, c, o) ==
    /\ Flow(s, w, c, o)
    /\ RepairApart => Clean(s, w, k, c) /\ Safe(s, k, c, o)

LifeInv ==
    /\ LifeType
    /\ \A r \in Requests : Local(at[r], want[r], conf[r], ctx[r], outcome[r])

\* A step that takes r to stage s with context c.
LEMMA GotoKeeps ==
    ASSUME LifeInv, NEW r \in Requests, NEW s \in StageNames, NEW c \in Context,
           Goto(r, s, c), UNCHANGED <<config, want, conf, outcome>>,
           cache' \in [Keys -> Answer \cup {NoAnswer}],
           Local(s, want[r], conf[r], c, outcome[r])
    PROVE  LifeInv'
<1>1. LifeType'
  BY GotoTypes DEF LifeInv
<1>2. ASSUME NEW q \in Requests
      PROVE  Local(at'[q], want'[q], conf'[q], ctx'[q], outcome'[q])
  <2>1. CASE q = r
    BY <2>1, GotoMoves DEF LifeInv
  <2>2. CASE q # r
    <3>1. at'[q] = at[q] /\ ctx'[q] = ctx[q]
      BY <2>2, GotoMoves DEF LifeInv
    <3> QED
      BY <3>1 DEF LifeInv
  <2> QED
    BY <2>1, <2>2
<1> QED
  BY <1>1, <1>2 DEF LifeInv

\* A step that records the outcome of r.
LEMMA RecordKeeps ==
    ASSUME LifeInv, NEW r \in Requests, NEW status \in Nat, NEW path \in Paths,
           NEW c \in Context, Record(r, status, path, c),
           \A o \in Outcome :
              o.status = status /\ o.path = path /\ o.priced = c.priced =>
                 Local("done", want[r], conf[r], c, o)
    PROVE  LifeInv'
<1>1. LifeType'
  BY RecordTypes DEF LifeInv
<1>2. ASSUME NEW q \in Requests
      PROVE  Local(at'[q], want'[q], conf'[q], ctx'[q], outcome'[q])
  <2>0. Goto(r, "done", c) /\ UNCHANGED <<want, conf>>
    BY RecordMoves DEF LifeInv, Unshared
  <2>1. CASE q = r
    <3>1. at'[r] = "done" /\ ctx'[r] = c
      BY <2>0, GotoMoves DEF LifeInv
    <3>2. /\ outcome'[r] \in Outcome
          /\ outcome'[r].status = status /\ outcome'[r].path = path
          /\ outcome'[r].priced = c.priced
      BY <1>1, RecordMoves DEF LifeInv, LifeType
    <3> QED
      BY <2>0, <2>1, <3>1, <3>2
  <2>2. CASE q # r
    <3>1. at'[q] = at[q] /\ ctx'[q] = ctx[q] /\ outcome'[q] = outcome[q]
      BY <2>0, <2>2, GotoMoves, RecordMoves DEF LifeInv
    <3> QED
      BY <2>0, <3>1 DEF LifeInv
  <2> QED
    BY <2>1, <2>2
<1> QED
  BY <1>1, <1>2 DEF LifeInv

LEMMA RefusalType == Refusal \in Answer /\ [Refusal EXCEPT !.valid = TRUE] \in Answer
BY DEF Refusal, Answer, Texts

LEMMA MyConfig ==
    ASSUME LifeType, NEW r \in Requests
    PROVE  conf[r] \in Configs /\ conf[r] \in Config
BY LifecycleAssumption DEF LifeType

USE DEF Whole, Ungated, Unshaped, Preparing

LEMMA StartKeeps ==
    ASSUME LifeInv, NEW r \in Requests, Start(r)
    PROVE  LifeInv'
<1>1. PICK w \in Wants : want' = [want EXCEPT ![r] = w]
  BY DEF Start
<1>2. w \in Want
  BY LifecycleAssumption
<1>3. /\ conf' = [conf EXCEPT ![r] = config] /\ Goto(r, "gate", ctx[r]) /\ at[r] = "idle"
      /\ UNCHANGED <<config, cache, outcome>>
  BY DEF Start
<1>4. LifeType'
  BY <1>1, <1>2, <1>3, Stages DEF LifeInv, LifeType, Goto
<1>5. Local("gate", w, config, ctx[r], outcome[r])
  <2>1. ctx[r] \in Context /\ config \in Config
    BY LifecycleAssumption DEF LifeInv, LifeType
  <2>2. Local("idle", want[r], conf[r], ctx[r], outcome[r])
    BY <1>3 DEF LifeInv
  <2> QED
    BY <2>1, <2>2, <1>2 DEF Local, Flow, Clean, Safe
<1>6. ASSUME NEW q \in Requests
      PROVE  Local(at'[q], want'[q], conf'[q], ctx'[q], outcome'[q])
  <2>1. CASE q = r
    BY <1>1, <1>3, <1>5, <2>1, GotoMoves DEF LifeInv, LifeType
  <2>2. CASE q # r
    <3>1. /\ at'[q] = at[q] /\ ctx'[q] = ctx[q] /\ outcome'[q] = outcome[q]
          /\ want'[q] = want[q] /\ conf'[q] = conf[q]
      BY <1>1, <1>3, <2>2, GotoMoves DEF LifeInv, LifeType
    <3> QED
      BY <3>1 DEF LifeInv
  <2> QED
    BY <2>1, <2>2
<1> QED
  BY <1>4, <1>6 DEF LifeInv

\* The stages before the cache.
LEMMA GateKeeps ==
    ASSUME LifeInv, NEW r \in Requests, Gate(r) \/ Guardrails(r) \/ Redact(r) \/ Bypass(r)
    PROVE  LifeInv'
<1> DEFINE c == ctx[r]
           w == want[r]
           k == conf[r]
           o == outcome[r]
<1>1. /\ LifeType /\ c \in Context /\ k \in Config /\ at[r] \in StageNames
      /\ Local(at[r], w, k, c, o)
  BY MyConfig DEF LifeInv, LifeType
<1>2. {"guardrails", "redaction", "bypass", "cache", "core"} \subseteq StageNames
  BY Stages
<1>3. CASE Gate(r)
  <2>1. CASE Goto(r, "guardrails", c) /\ Unshared /\ UNCHANGED outcome
    <3>1. Local("guardrails", w, k, c, o)
      BY <1>1, <1>3 DEF Gate, Local, Flow, Clean, Safe
    <3> QED
      BY <1>1, <1>2, <2>1, <3>1, GotoKeeps DEF Unshared, LifeType
  <2>2. CASE \E status \in {402, 429} : Record(r, status, "gate", c)
    <3>1. PICK status \in {402, 429} : Record(r, status, "gate", c)
      BY <2>2
    <3>2. ASSUME NEW p \in Outcome, p.status = status, p.path = "gate"
          PROVE  Local("done", w, k, c, p)
      BY <1>1, <1>3, <3>2 DEF Gate, Local, Flow, Clean, Safe
    <3>3. status \in Nat /\ "gate" \in Paths
      BY DEF Paths
    <3> QED
      BY <1>1, <3>1, <3>2, <3>3, RecordKeeps
  <2> QED
    BY <1>3, <2>1, <2>2 DEF Gate
<1>4. ASSUME Block(r, c), at[r] \in {"guardrails", "redaction", "trust"},
             Unshared, UNCHANGED outcome
      PROVE  LifeInv'
  <2> DEFINE d == [c EXCEPT !.blocked = TRUE, !.answer = Refusal]
  <2>1. d \in Context /\ d.blocked /\ d.answer = Refusal
    BY <1>1, RefusalType DEF Context
  <2>2. /\ d.bypassed = c.bypassed /\ d.hit = c.hit /\ d.dispatched = c.dispatched
        /\ d.deferred = c.deferred /\ d.answered = c.answered /\ d.sent = c.sent
        /\ d.masked = c.masked /\ d.noCache = c.noCache
    BY <1>1 DEF Context
  <2> HIDE DEF d
  <2>3. Local("core", w, k, d, o)
    BY <1>1, <1>4, <2>1, <2>2 DEF Local, Flow, Clean, Safe
  <2>4. Goto(r, "core", d)
    BY <1>4 DEF Block, d
  <2> QED
    BY <1>1, <1>2, <1>4, <2>1, <2>3, <2>4, GotoKeeps DEF Unshared, LifeType
<1>5. CASE Guardrails(r)
  <2>1. CASE Goto(r, "redaction", c)
    <3>1. Local("redaction", w, k, c, o)
      BY <1>1, <1>5 DEF Guardrails, Local, Flow, Clean, Safe
    <3> QED
      BY <1>1, <1>2, <1>5, <2>1, <3>1, GotoKeeps DEF Guardrails, Unshared, LifeType
  <2> QED
    BY <1>4, <1>5, <2>1 DEF Guardrails
<1>6. CASE Redact(r)
  <2>1. CASE Goto(r, "bypass", c) /\ (w.pii => k.pii \notin {"mask", "block"})
    <3>1. Local("bypass", w, k, c, o)
      BY <1>1, <1>6, <2>1 DEF Redact, Local, Flow, Clean, Safe, Config
    <3> QED
      BY <1>1, <1>2, <1>6, <2>1, <3>1, GotoKeeps DEF Redact, Unshared, LifeType
  <2>2. CASE k.pii = "mask" /\ Goto(r, "bypass", [c EXCEPT !.masked = TRUE, !.noCache = TRUE])
    <3> DEFINE d == [c EXCEPT !.masked = TRUE, !.noCache = TRUE]
    <3>1. d \in Context /\ d.masked /\ d.noCache
      BY <1>1 DEF Context
    <3>2. /\ d.bypassed = c.bypassed /\ d.hit = c.hit /\ d.dispatched = c.dispatched
          /\ d.deferred = c.deferred /\ d.answered = c.answered /\ d.sent = c.sent
          /\ d.blocked = c.blocked /\ d.answer = c.answer /\ d.context = c.context
      BY <1>1 DEF Context
    <3> HIDE DEF d
    <3>3. Local("bypass", w, k, d, o)
      BY <1>1, <1>6, <2>2, <3>1, <3>2 DEF Redact, Local, Flow, Clean, Safe
    <3>4. Goto(r, "bypass", d)
      BY <2>2 DEF d
    <3> QED
      BY <1>1, <1>2, <1>6, <3>1, <3>3, <3>4, GotoKeeps DEF Redact, Unshared, LifeType
  <2>3. /\ at[r] = "redaction" /\ Unshared /\ UNCHANGED outcome
        /\ \/ Goto(r, "bypass", c) /\ (w.pii => k.pii \notin {"mask", "block"})
           \/ k.pii = "mask" /\ Goto(r, "bypass", [c EXCEPT !.masked = TRUE, !.noCache = TRUE])
           \/ Block(r, c)
    BY <1>6, Zenon DEF Redact
  <2> QED
    BY <1>4, <2>1, <2>2, <2>3
<1>7. CASE Bypass(r)
  <2>1. CASE Goto(r, "cache", c)
    <3>1. Local("cache", w, k, c, o)
      BY <1>1, <1>7 DEF Bypass, Local, Flow, Clean, Safe
    <3> QED
      BY <1>1, <1>2, <1>7, <2>1, <3>1, GotoKeeps DEF Bypass, Unshared, LifeType
  <2>2. CASE Goto(r, "core", [c EXCEPT !.bypassed = TRUE,
                                !.answer = [Refusal EXCEPT !.valid = TRUE]])
    <3> DEFINE d == [c EXCEPT !.bypassed = TRUE, !.answer = [Refusal EXCEPT !.valid = TRUE]]
    <3>1. d \in Context /\ d.bypassed /\ d.answer \in Answer
      BY <1>1, RefusalType DEF Context
    <3>2. /\ d.masked = c.masked /\ d.hit = c.hit /\ d.dispatched = c.dispatched
          /\ d.deferred = c.deferred /\ d.answered = c.answered /\ d.sent = c.sent
          /\ d.blocked = c.blocked /\ d.noCache = c.noCache /\ d.context = c.context
      BY <1>1 DEF Context
    <3> HIDE DEF d
    <3>3. Local("core", w, k, d, o)
      BY <1>1, <1>7, <3>1, <3>2 DEF Bypass, Local, Flow, Clean, Safe
    <3>4. Goto(r, "core", d)
      BY <2>2 DEF d
    <3> QED
      BY <1>1, <1>2, <1>7, <3>1, <3>3, <3>4, GotoKeeps DEF Bypass, Unshared, LifeType
  <2> QED
    BY <1>7, <2>1, <2>2 DEF Bypass
<1> QED
  BY <1>3, <1>5, <1>6, <1>7

\* The stages from the cache to the core.
LEMMA LookupKeeps ==
    ASSUME LifeInv, NEW r \in Requests, Lookup(r)
    PROVE  LifeInv'
<1> DEFINE c == ctx[r]
           w == want[r]
           k == conf[r]
           o == outcome[r]
<1>1. /\ LifeType /\ c \in Context /\ k \in Config
      /\ at[r] = "cache" /\ Unshared /\ UNCHANGED outcome
      /\ Local("cache", w, k, c, o)
  BY MyConfig DEF LifeInv, LifeType, Lookup
<1>2. {"routing", "core"} \subseteq StageNames
  BY Stages
<1>3. CASE Goto(r, "routing", c)
  <2>1. Local("routing", w, k, c, o)
    BY <1>1 DEF Local, Flow, Clean, Safe
  <2> QED
    BY <1>1, <1>2, <1>3, <2>1, GotoKeeps DEF Unshared, LifeType
<1>4. ASSUME NEW a \in Answer, Goto(r, "core", [c EXCEPT !.hit = TRUE, !.answer = a])
      PROVE  LifeInv'
  <2> DEFINE d == [c EXCEPT !.hit = TRUE, !.answer = a]
  <2>1. d \in Context /\ d.hit /\ d.answer = a
    BY <1>1 DEF Context
  <2>2. /\ d.masked = c.masked /\ d.bypassed = c.bypassed /\ d.dispatched = c.dispatched
        /\ d.deferred = c.deferred /\ d.answered = c.answered /\ d.sent = c.sent
        /\ d.blocked = c.blocked /\ d.noCache = c.noCache /\ d.context = c.context
    BY <1>1 DEF Context
  <2> HIDE DEF d
  <2>3. Local("core", w, k, d, o)
    BY <1>1, <2>1, <2>2 DEF Local, Flow, Clean, Safe
  <2>4. Goto(r, "core", d)
    BY <1>4 DEF d
  <2> QED
    BY <1>1, <1>2, <2>1, <2>3, <2>4, GotoKeeps DEF Unshared, LifeType
<1>5. \/ Goto(r, "routing", c)
      \/ \E a \in Answer : Goto(r, "core", [c EXCEPT !.hit = TRUE, !.answer = a])
  <2>1. CASE \E e \in Near[want[r].key] :
               /\ cache[e] # NoAnswer
               /\ Goto(r, "core", [c EXCEPT !.hit = TRUE, !.answer = cache[e]])
    <3>1. PICK e \in Near[want[r].key] :
            /\ cache[e] # NoAnswer
            /\ Goto(r, "core", [c EXCEPT !.hit = TRUE, !.answer = cache[e]])
      BY <2>1
    <3>2. w \in Want
      BY <1>1 DEF Local, Flow
    <3>3. e \in Keys
      BY <3>2, LifecycleAssumption DEF Want
    <3>4. cache[e] \in Answer
      BY <1>1, <3>1, <3>3 DEF LifeType
    <3> QED
      BY <3>1, <3>4
  <2> QED
    BY <2>1 DEF Lookup
<1> QED
  BY <1>3, <1>4, <1>5

LEMMA ReplyTypes ==
    ASSUME NEW c \in Context, NEW a \in RepliesTo(c)
    PROVE  /\ a \in Answer /\ a.by = "model" /\ a.text # "raw"
           /\ a.text = "held" => c.masked
BY LifecycleAssumption DEF RepliesTo

\* What a prompt holds when the safety stages have seen it.
LEMMA CleanPrompt ==
    ASSUME NEW r \in Requests, NEW s, NEW k, NEW c \in Context,
           Clean(s, want[r], k, c), s \notin Ungated \cup {"trust", "done"}, ~c.blocked
    PROVE  /\ PromptOf(r, c) \subseteq {"raw", "poisoned"}
           /\ k.pii \in {"mask", "block"} => "raw" \notin PromptOf(r, c)
           /\ k.trust \in {"strip", "block"} => "poisoned" \notin PromptOf(r, c)
BY DEF Clean, PromptOf

LEMMA PromptType ==
    ASSUME NEW r \in Requests, NEW c
    PROVE  PromptOf(r, c) \subseteq {"raw", "poisoned"}
BY DEF PromptOf

LEMMA RouteKeeps ==
    ASSUME LifeInv, NEW r \in Requests, Route(r) \/ Shape(r) \/ ContextTrust(r) \/ Tune(r)
    PROVE  LifeInv'
<1> DEFINE c == ctx[r]
           w == want[r]
           k == conf[r]
           o == outcome[r]
<1>1. /\ LifeType /\ c \in Context /\ k \in Config
      /\ Unshared /\ UNCHANGED outcome
      /\ Local(at[r], w, k, c, o)
  BY MyConfig DEF LifeInv, LifeType, Route, Shape, ContextTrust, Tune
<1>2. {"agent", "trust", "tune", "core"} \subseteq StageNames
  BY Stages
<1>3. ASSUME NEW s \in {"agent", "trust", "tune", "core"}, NEW d \in Context, Goto(r, s, d),
             Local(s, w, k, d, o)
      PROVE  LifeInv'
  BY <1>1, <1>2, <1>3, GotoKeeps DEF Unshared, LifeType
<1>4. CASE Route(r)
  <2>1. PICK judge \in {0, 1}, plan \in BOOLEAN :
          Goto(r, "agent", [c EXCEPT !.booked = @ + judge, !.plan = plan])
    BY <1>4 DEF Route
  <2> DEFINE d == [c EXCEPT !.booked = @ + judge, !.plan = plan]
  <2>2. d \in Context
    <3>1. c.booked + judge \in Nat
      BY <1>1 DEF Context
    <3> QED
      BY <1>1, <3>1 DEF Context
  <2>3. /\ d.masked = c.masked /\ d.bypassed = c.bypassed /\ d.dispatched = c.dispatched
        /\ d.deferred = c.deferred /\ d.answered = c.answered /\ d.sent = c.sent
        /\ d.blocked = c.blocked /\ d.noCache = c.noCache /\ d.context = c.context
        /\ d.hit = c.hit /\ d.answer = c.answer
    BY <1>1 DEF Context
  <2>4. Goto(r, "agent", d)
    BY <2>1
  <2> HIDE DEF d
  <2>5. Local("agent", w, k, d, o)
    BY <1>1, <1>4, <2>3 DEF Route, Local, Flow, Clean, Safe
  <2> QED
    BY <1>3, <2>2, <2>4, <2>5
<1>5. CASE Shape(r)
  <2>1. PICK side \in {0, 1}, x \in {"none", "clean", "poisoned"} :
          Goto(r, "trust", [c EXCEPT !.booked = @ + side, !.context = x])
    BY <1>5 DEF Shape
  <2> DEFINE d == [c EXCEPT !.booked = @ + side, !.context = x]
  <2>2. d \in Context
    <3>1. c.booked + side \in Nat
      BY <1>1 DEF Context
    <3> QED
      BY <1>1, <3>1 DEF Context
  <2>3. /\ d.masked = c.masked /\ d.bypassed = c.bypassed /\ d.dispatched = c.dispatched
        /\ d.deferred = c.deferred /\ d.answered = c.answered /\ d.sent = c.sent
        /\ d.blocked = c.blocked /\ d.noCache = c.noCache
        /\ d.hit = c.hit /\ d.answer = c.answer
    BY <1>1 DEF Context
  <2>4. Goto(r, "trust", d)
    BY <2>1
  <2> HIDE DEF d
  <2>5. Local("trust", w, k, d, o)
    BY <1>1, <1>5, <2>3 DEF Shape, Local, Flow, Clean, Safe
  <2> QED
    BY <1>3, <2>2, <2>4, <2>5
<1>6. CASE ContextTrust(r)
  <2>1. at[r] = "trust"
    BY <1>6 DEF ContextTrust
  <2>2. CASE Goto(r, "tune", c) /\ (c.context = "poisoned" => k.trust \notin {"strip", "block"})
    <3>1. Local("tune", w, k, c, o)
      BY <1>1, <2>1, <2>2 DEF Local, Flow, Clean, Safe
    <3> QED
      BY <1>1, <1>3, <2>2, <3>1
  <2>3. CASE Goto(r, "tune", [c EXCEPT !.context = "clean"])
    <3> DEFINE d == [c EXCEPT !.context = "clean"]
    <3>1. d \in Context /\ d.context = "clean"
      BY <1>1 DEF Context
    <3>2. /\ d.masked = c.masked /\ d.bypassed = c.bypassed /\ d.dispatched = c.dispatched
          /\ d.deferred = c.deferred /\ d.answered = c.answered /\ d.sent = c.sent
          /\ d.blocked = c.blocked /\ d.noCache = c.noCache
          /\ d.hit = c.hit /\ d.answer = c.answer
      BY <1>1 DEF Context
    <3>3. Goto(r, "tune", d)
      BY <2>3
    <3> HIDE DEF d
    <3>4. Local("tune", w, k, d, o)
      BY <1>1, <2>1, <3>1, <3>2 DEF Local, Flow, Clean, Safe
    <3> QED
      BY <1>3, <3>1, <3>3, <3>4
  <2>4. CASE Block(r, c)
    <3> DEFINE d == [c EXCEPT !.blocked = TRUE, !.answer = Refusal]
    <3>1. d \in Context /\ d.blocked /\ d.answer = Refusal
      BY <1>1, RefusalType DEF Context
    <3>2. /\ d.bypassed = c.bypassed /\ d.hit = c.hit /\ d.dispatched = c.dispatched
          /\ d.deferred = c.deferred /\ d.answered = c.answered /\ d.sent = c.sent
          /\ d.masked = c.masked /\ d.noCache = c.noCache
      BY <1>1 DEF Context
    <3>3. Goto(r, "core", d)
      BY <2>4 DEF Block
    <3> HIDE DEF d
    <3>4. Local("core", w, k, d, o)
      BY <1>1, <2>1, <3>1, <3>2 DEF Local, Flow, Clean, Safe
    <3> QED
      BY <1>3, <3>1, <3>3, <3>4
  <2>5. \/ Goto(r, "tune", c) /\ (c.context = "poisoned" => k.trust \notin {"strip", "block"})
        \/ Goto(r, "tune", [c EXCEPT !.context = "clean"])
        \/ Block(r, c)
    BY <1>6, Zenon DEF ContextTrust
  <2> QED
    BY <2>2, <2>3, <2>4, <2>5
<1>7. CASE Tune(r)
  <2>1. PICK defer \in BOOLEAN : Goto(r, "core", [c EXCEPT !.deferred = defer, !.sized = TRUE])
    BY <1>7 DEF Tune
  <2> DEFINE d == [c EXCEPT !.deferred = defer, !.sized = TRUE]
  <2>2. d \in Context
    BY <1>1 DEF Context
  <2>3. /\ d.masked = c.masked /\ d.bypassed = c.bypassed /\ d.dispatched = c.dispatched
        /\ d.answered = c.answered /\ d.sent = c.sent /\ d.context = c.context
        /\ d.blocked = c.blocked /\ d.noCache = c.noCache
        /\ d.hit = c.hit /\ d.answer = c.answer
    BY <1>1 DEF Context
  <2>4. Goto(r, "core", d)
    BY <2>1
  <2> HIDE DEF d
  <2>5. Local("core", w, k, d, o)
    BY <1>1, <1>7, <2>3 DEF Tune, Local, Flow, Clean, Safe
  <2> QED
    BY <1>3, <2>2, <2>4, <2>5
<1> QED
  BY <1>4, <1>5, <1>6, <1>7

LEMMA DispatchKeeps ==
    ASSUME LifeInv, NEW r \in Requests, Dispatch(r)
    PROVE  LifeInv'
<1> DEFINE c == ctx[r]
           w == want[r]
           k == conf[r]
           o == outcome[r]
<1>1. /\ LifeType /\ c \in Context /\ k \in Config
      /\ at[r] = "agent" /\ Unshared /\ UNCHANGED outcome
      /\ Local("agent", w, k, c, o)
  BY MyConfig DEF LifeInv, LifeType, Dispatch
<1>2. {"shape", "core"} \subseteq StageNames
  BY Stages
<1>3. CASE Goto(r, "shape", c)
  <2>1. Local("shape", w, k, c, o)
    BY <1>1 DEF Local, Flow, Clean, Safe
  <2> QED
    BY <1>1, <1>2, <1>3, <2>1, GotoKeeps DEF Unshared, LifeType
<1>4. ASSUME NEW a \in RepliesTo(c), ~c.plan,
             Goto(r, "core", [c EXCEPT !.dispatched = TRUE, !.sized = TRUE,
                                !.answered = @ + 1, !.sent = @ \cup PromptOf(r, c),
                                !.answer = [a EXCEPT !.by = "agent"]])
      PROVE  LifeInv'
  <2> DEFINE e == [a EXCEPT !.by = "agent"]
             d == [c EXCEPT !.dispatched = TRUE, !.sized = TRUE, !.answered = @ + 1,
                            !.sent = @ \cup PromptOf(r, c), !.answer = e]
  <2>1. /\ e \in Answer /\ e.by = "agent" /\ e.text = a.text
        /\ a.text # "raw" /\ (a.text = "held" => c.masked)
    BY <1>1, ReplyTypes DEF Answer
  <2> HIDE DEF e
  <2>2. d \in Context
    <3>1. c.answered + 1 \in Nat /\ c.sent \cup PromptOf(r, c) \in SUBSET {"raw", "poisoned"}
      BY <1>1, PromptType DEF Context
    <3> QED
      BY <1>1, <2>1, <3>1 DEF Context
  <2>3. /\ d.masked = c.masked /\ d.bypassed = c.bypassed /\ d.dispatched
        /\ d.deferred = c.deferred /\ d.answered = c.answered + 1
        /\ d.sent = c.sent \cup PromptOf(r, c)
        /\ d.blocked = c.blocked /\ d.noCache = c.noCache /\ d.context = c.context
        /\ d.hit = c.hit /\ d.answer = e /\ d.plan = c.plan
    BY <1>1 DEF Context
  <2>4. Goto(r, "core", d)
    BY <1>4 DEF e
  <2> HIDE DEF d
  <2>5. Flow("core", w, d, o)
    BY <1>1, <1>4, <2>1, <2>3 DEF Local, Flow
  <2>6. RepairApart => Clean("core", w, k, d)
    <3> SUFFICES ASSUME RepairApart PROVE Clean("core", w, k, d)
      OBVIOUS
    <3>1. Clean("agent", w, k, c) /\ ~c.blocked
      BY <1>1 DEF Local, Flow
    <3>2. /\ k.pii \in {"mask", "block"} => "raw" \notin PromptOf(r, c)
          /\ k.trust \in {"strip", "block"} => "poisoned" \notin PromptOf(r, c)
      BY <1>1, <3>1, CleanPrompt
    <3> QED
      BY <1>1, <2>1, <2>3, <3>1, <3>2 DEF Clean
  <2>7. Safe("core", k, d, o)
    BY DEF Safe
  <2> QED
    BY <1>1, <1>2, <2>2, <2>4, <2>5, <2>6, <2>7, GotoKeeps DEF Local, Unshared, LifeType
<1> QED
  BY <1>3, <1>4 DEF Dispatch

\* A stage raises: nothing of the request is told to anyone.
\* What main's 500 leaves of the outcome: nothing was recorded.
LEMMA RaiseRecords ==
    ASSUME LifeType, NEW r \in Requests, StageRaises(r)
    PROVE  /\ outcome'[r] \in Outcome
           /\ outcome'[r].status = 500 /\ outcome'[r].path = "raised"
           /\ outcome'[r].times = outcome[r].times
           /\ outcome' \in [Requests -> Outcome]
           /\ \A q \in Requests \ {r} : outcome'[q] = outcome[q]
<1> DEFINE failed == [outcome[r] EXCEPT !.status = 500]
           p == [failed EXCEPT !.path = "raised"]
<1>1. outcome \in [Requests -> Outcome]
  BY DEF LifeType
<1>2. failed \in Outcome /\ failed.status = 500 /\ failed.times = outcome[r].times
  BY <1>1 DEF Outcome
<1>3. [outcome EXCEPT ![r].status = 500] = [outcome EXCEPT ![r] = failed]
  BY <1>1
<1>4. outcome' = [[outcome EXCEPT ![r] = failed] EXCEPT ![r].path = "raised"]
  BY <1>3 DEF StageRaises
<1> HIDE DEF failed
<1>5. outcome' = [outcome EXCEPT ![r] = p]
  BY <1>1, <1>4
<1>6. p \in Outcome /\ p.status = 500 /\ p.path = "raised" /\ p.times = outcome[r].times
  BY <1>2 DEF Outcome, Paths
<1> HIDE DEF p
<1> QED
  BY <1>1, <1>5, <1>6

LEMMA RaiseKeeps ==
    ASSUME LifeInv, NEW r \in Requests, StageRaises(r)
    PROVE  LifeInv'
<1>1. /\ at[r] \in Preparing \ {"idle"}
      /\ Goto(r, "done", ctx[r]) /\ Unshared
      /\ outcome' = [outcome EXCEPT ![r].status = 500, ![r].path = "raised"]
  <2>1. PICK i \in DOMAIN RequestStages : at[r] = RequestStages[i]
    BY DEF StageRaises
  <2>2. DOMAIN RequestStages = 1 .. 10
    BY DEF RequestStages
  <2>3. \A j \in 1 .. 10 : RequestStages[j] \in Preparing \ {"idle"}
    BY DEF RequestStages
  <2> QED
    BY <2>1, <2>2, <2>3 DEF StageRaises
<1>2. /\ outcome'[r] \in Outcome
      /\ outcome'[r].status = 500 /\ outcome'[r].path = "raised"
      /\ outcome' \in [Requests -> Outcome]
      /\ \A q \in Requests \ {r} : outcome'[q] = outcome[q]
  BY RaiseRecords DEF LifeInv
<1>3. LifeType'
  BY <1>1, <1>2, Stages DEF LifeInv, LifeType, Goto, Unshared
<1>4. Local("done", want[r], conf[r], ctx[r], outcome'[r])
  <2>1. Local(at[r], want[r], conf[r], ctx[r], outcome[r])
    BY DEF LifeInv
  <2>2. ctx[r].answered = 0 /\ ctx[r].sent = {}
    BY <1>1, <2>1 DEF Local, Flow
  <2>3. Flow("done", want[r], ctx[r], outcome'[r])
    <3>1. want[r] \in Want
      BY <1>1, <2>1 DEF Local, Flow
    <3> QED
      BY <1>2, <2>2, <3>1 DEF Flow
  <2>4. RepairApart => Clean("done", want[r], conf[r], ctx[r])
    BY <2>1, <2>2 DEF Local, Clean
  <2>5. Safe("done", conf[r], ctx[r], outcome'[r])
    BY <1>2 DEF Safe
  <2> QED
    BY <2>3, <2>4, <2>5 DEF Local
<1>5. ASSUME NEW q \in Requests
      PROVE  Local(at'[q], want'[q], conf'[q], ctx'[q], outcome'[q])
  <2>1. CASE q = r
    BY <1>1, <1>4, <2>1, GotoMoves DEF LifeInv, Unshared
  <2>2. CASE q # r
    <3>1. at'[q] = at[q] /\ ctx'[q] = ctx[q] /\ outcome'[q] = outcome[q]
      BY <1>1, <1>2, <2>2, GotoMoves DEF LifeInv
    <3> QED
      BY <1>1, <3>1 DEF LifeInv, Unshared
  <2> QED
    BY <2>1, <2>2
<1> QED
  BY <1>3, <1>5 DEF LifeInv

\* The verdicts that need no answer of a provider.
LEMMA ServeKeeps ==
    ASSUME LifeInv, NEW r \in Requests,
           ServeBlocked(r) \/ RefuseEmptyHit(r) \/ ServeShort(r) \/ ServeDeferred(r)
    PROVE  LifeInv'
<1> DEFINE c == ctx[r]
           w == want[r]
           k == conf[r]
           o == outcome[r]
<1>1. /\ LifeType /\ c \in Context /\ k \in Config
      /\ at[r] = "core" /\ Local("core", w, k, c, o)
  BY MyConfig
  DEF LifeInv, LifeType, ServeBlocked, RefuseEmptyHit, ServeShort, ServeDeferred, Unanswered
<1>2. {"blocked", "short", "deferred"} \subseteq Paths /\ "core" \in StageNames
  BY Stages DEF Paths
<1>3. CASE ServeBlocked(r)
  <2>1. c.blocked /\ Record(r, 200, "blocked", c)
    BY <1>3 DEF ServeBlocked
  <2>2. ~c.dispatched /\ c.answered = 0 /\ c.answer = Refusal
    BY <1>1, <2>1 DEF Local, Flow
  <2>3. ASSUME NEW p \in Outcome, p.path = "blocked"
        PROVE  Local("done", w, k, c, p)
    BY <1>1, <2>2, <2>3 DEF Local, Flow, Clean, Safe, Refusal
  <2> QED
    BY <1>1, <1>2, <2>1, <2>3, RecordKeeps
<1>4. CASE RefuseEmptyHit(r)
  <2> DEFINE d == [c EXCEPT !.hit = FALSE, !.refused = TRUE, !.answer = NoAnswer]
  <2>1. /\ ~c.blocked /\ c.hit /\ Goto(r, "core", d) /\ Unshared /\ UNCHANGED outcome
    BY <1>4 DEF RefuseEmptyHit
  <2>2. d \in Context
    BY <1>1 DEF Context
  <2>3. /\ d.masked = c.masked /\ d.bypassed = c.bypassed /\ d.dispatched = c.dispatched
        /\ d.deferred = c.deferred /\ d.answered = c.answered /\ d.sent = c.sent
        /\ d.blocked = c.blocked /\ d.noCache = c.noCache /\ d.context = c.context
        /\ ~d.hit /\ d.answer = NoAnswer /\ d.plan = c.plan
    BY <1>1 DEF Context
  <2> HIDE DEF d
  <2>4. ~c.dispatched
    BY <1>1, <2>1 DEF Local, Flow
  <2>5. Local("core", w, k, d, o)
    BY <1>1, <2>1, <2>3, <2>4 DEF Local, Flow, Clean, Safe
  <2> QED
    BY <1>1, <1>2, <2>1, <2>2, <2>5, GotoKeeps DEF Unshared, LifeType
<1>5. CASE ServeShort(r)
  <2>1. PICK a \in {ToolsGated(k, c.answer)}
                   \cup (IF MayFail("g32") THEN {c.answer} ELSE {}) :
          Record(r, 200, "short", [c EXCEPT !.answer = a])
    BY <1>5 DEF ServeShort
  <2> DEFINE d == [c EXCEPT !.answer = a]
  <2>2. c.answer \in Answer /\ ~c.dispatched /\ c.answered = 0
    BY <1>1, <1>5 DEF ServeShort, Local, Flow
  <2>3. a \in Answer /\ ("g32" \notin Faults => (k.tools = "block" => ~a.tool))
    BY <2>1, <2>2 DEF ToolsGated, MayFail, Answer
  <2>4. d \in Context
    BY <1>1, <2>3 DEF Context
  <2>5. /\ d.masked = c.masked /\ d.dispatched = c.dispatched
        /\ d.answered = c.answered /\ d.sent = c.sent
        /\ d.blocked = c.blocked /\ d.noCache = c.noCache /\ d.context = c.context
        /\ d.answer = a
    BY <1>1 DEF Context
  <2>6. Record(r, 200, "short", d)
    BY <2>1
  <2> HIDE DEF d
  <2>7. ASSUME NEW p \in Outcome, p.path = "short"
        PROVE  Local("done", w, k, d, p)
    BY <1>1, <2>2, <2>3, <2>5, <2>7 DEF Local, Flow, Clean, Safe
  <2> QED
    BY <1>1, <1>2, <2>4, <2>6, <2>7, RecordKeeps
<1>6. CASE ServeDeferred(r)
  <2> DEFINE d == Priced(c)
  <2>1. c.deferred /\ ~c.blocked /\ Record(r, 202, "deferred", d)
    BY <1>6 DEF ServeDeferred, Unanswered
  <2>2. d \in Context /\ d.priced = c.booked
    BY <1>1 DEF Context, Priced
  <2>3. /\ d.masked = c.masked /\ d.dispatched = c.dispatched /\ d.booked = c.booked
        /\ d.answered = c.answered /\ d.sent = c.sent
        /\ d.blocked = c.blocked /\ d.noCache = c.noCache /\ d.context = c.context
    BY <1>1 DEF Context, Priced
  <2>4. ~c.dispatched /\ c.answered = 0
    BY <1>1, <2>1 DEF Local, Flow
  <2> HIDE DEF d
  <2>5. ASSUME NEW p \in Outcome, p.path = "deferred", p.status = 202, p.priced = d.priced
        PROVE  Local("done", w, k, d, p)
    BY <1>1, <2>2, <2>3, <2>4, <2>5 DEF Local, Flow, Clean, Safe
  <2> QED
    BY <1>1, <1>2, <2>1, <2>2, <2>5, RecordKeeps
<1> QED
  BY <1>3, <1>4, <1>5, <1>6

\* An answer received for a call, after a prompt that was sent.
LEMMA AnswerComes ==
    ASSUME LifeInv, NEW r \in Requests, at[r] \in {"core", "call"},
           ~ctx[r].blocked, ~ctx[r].dispatched, ctx[r].answered = 0,
           NEW a \in RepliesTo(ctx[r]), NEW d \in Context,
           d.masked = ctx[r].masked, d.noCache = ctx[r].noCache,
           d.blocked = ctx[r].blocked, d.context = ctx[r].context,
           d.dispatched = ctx[r].dispatched, d.answered = 1,
           d.sent = ctx[r].sent \cup PromptOf(r, ctx[r]), d.answer = a
    PROVE  Local("redactAnswer", want[r], conf[r], d, outcome[r])
<1>1. ctx[r] \in Context /\ Local(at[r], want[r], conf[r], ctx[r], outcome[r])
  BY DEF LifeInv, LifeType
<1>2. a \in Answer /\ a.by = "model" /\ a.text # "raw" /\ (a.text = "held" => ctx[r].masked)
  BY <1>1, ReplyTypes
<1>3. Flow("redactAnswer", want[r], d, outcome[r])
  BY <1>1, <1>2 DEF Local, Flow
<1>4. RepairApart => Clean("redactAnswer", want[r], conf[r], d)
  <2> SUFFICES ASSUME RepairApart PROVE Clean("redactAnswer", want[r], conf[r], d)
    OBVIOUS
  <2>1. Clean(at[r], want[r], conf[r], ctx[r])
    BY <1>1 DEF Local
  <2>2. /\ conf[r].pii \in {"mask", "block"} => "raw" \notin PromptOf(r, ctx[r])
        /\ conf[r].trust \in {"strip", "block"} => "poisoned" \notin PromptOf(r, ctx[r])
    BY <1>1, <2>1, CleanPrompt
  <2> QED
    BY <1>2, <2>1, <2>2 DEF Clean
<1>5. Safe("redactAnswer", conf[r], d, outcome[r])
  BY DEF Safe
<1> QED
  BY <1>3, <1>4, <1>5 DEF Local

\* A request that is sent and gets no answer.
LEMMA SentKeeps ==
    ASSUME NEW r \in Requests, NEW s \in {"core", "call"}, NEW k, NEW c \in Context,
           Clean(s, want[r], k, c), ~c.blocked, ~c.dispatched,
           NEW d \in Context,
           d.masked = c.masked, d.noCache = c.noCache, d.blocked = c.blocked,
           d.context = c.context, d.dispatched = c.dispatched,
           d.sent = c.sent \cup PromptOf(r, c)
    PROVE  Clean("call", want[r], k, d) /\ Clean("done", want[r], k, d)
           /\ Clean("streaming", want[r], k, d)
<1>1. /\ k.pii \in {"mask", "block"} => "raw" \notin PromptOf(r, c)
      /\ k.trust \in {"strip", "block"} => "poisoned" \notin PromptOf(r, c)
  BY CleanPrompt
<1> QED
  BY <1>1 DEF Clean

LEMMA CascadeKeeps ==
    ASSUME LifeInv, NEW r \in Requests, RunCascade(r)
    PROVE  LifeInv'
<1> DEFINE c == ctx[r]
           w == want[r]
           k == conf[r]
           o == outcome[r]
           e == [c EXCEPT !.sent = @ \cup PromptOf(r, c)]
<1>1. /\ LifeType /\ c \in Context /\ k \in Config
      /\ at[r] = "core" /\ Local("core", w, k, c, o)
      /\ ~c.blocked /\ ~c.bypassed /\ ~c.hit /\ ~c.deferred /\ c.plan
      /\ Unshared /\ UNCHANGED outcome
  BY MyConfig DEF LifeInv, LifeType, RunCascade, Unanswered
<1>2. ~c.dispatched /\ c.answered = 0 /\ c.booked \in Nat
  BY <1>1 DEF Local, Flow, Context
<1>3. /\ e \in Context /\ e.sent = c.sent \cup PromptOf(r, c)
      /\ e.masked = c.masked /\ e.noCache = c.noCache /\ e.blocked = c.blocked
      /\ e.context = c.context /\ e.dispatched = c.dispatched /\ e.answered = c.answered
      /\ e.booked = c.booked
  <2>1. c.sent \cup PromptOf(r, c) \in SUBSET {"raw", "poisoned"}
    BY <1>1, PromptType DEF Context
  <2> QED
    BY <1>1, <2>1 DEF Context
<1>4. {"redactAnswer", "call"} \subseteq StageNames
  BY Stages
<1>5. \/ \E n \in 1 .. MaxTiers, a \in RepliesTo(e) :
            Goto(r, "redactAnswer",
                 [e EXCEPT !.booked = @ + n, !.answered = @ + 1, !.answer = a])
      \/ \E n \in 0 .. 1 : Goto(r, "call", [e EXCEPT !.booked = @ + n])
  BY DEF RunCascade
<1> HIDE DEF e
<1>6. ASSUME NEW n \in 1 .. MaxTiers, NEW a \in RepliesTo(e),
             Goto(r, "redactAnswer",
                  [e EXCEPT !.booked = @ + n, !.answered = @ + 1, !.answer = a])
      PROVE  LifeInv'
  <2> DEFINE d == [e EXCEPT !.booked = @ + n, !.answered = @ + 1, !.answer = a]
  <2>1. a \in Answer /\ a \in RepliesTo(c)
    BY <1>3, ReplyTypes DEF RepliesTo
  <2>2. d \in Context
    <3>1. e.booked + n \in Nat /\ e.answered + 1 \in Nat
      BY <1>2, <1>3, LifecycleAssumption
    <3> QED
      BY <1>3, <2>1, <3>1 DEF Context
  <2>3. /\ d.masked = c.masked /\ d.noCache = c.noCache /\ d.blocked = c.blocked
        /\ d.context = c.context /\ d.dispatched = c.dispatched /\ d.answered = 1
        /\ d.sent = c.sent \cup PromptOf(r, c) /\ d.answer = a
    BY <1>2, <1>3 DEF Context
  <2>4. Goto(r, "redactAnswer", d)
    BY <1>6
  <2> HIDE DEF d
  <2>5. Local("redactAnswer", w, k, d, o)
    BY <1>1, <1>2, <2>1, <2>2, <2>3, AnswerComes
  <2> QED
    BY <1>1, <1>4, <2>2, <2>4, <2>5, GotoKeeps DEF Unshared, LifeType
<1>7. ASSUME NEW n \in 0 .. 1, Goto(r, "call", [e EXCEPT !.booked = @ + n])
      PROVE  LifeInv'
  <2> DEFINE d == [e EXCEPT !.booked = @ + n]
  <2>1. d \in Context
    <3>1. e.booked + n \in Nat
      BY <1>2, <1>3
    <3> QED
      BY <1>3, <3>1 DEF Context
  <2>2. /\ d.masked = c.masked /\ d.noCache = c.noCache /\ d.blocked = c.blocked
        /\ d.context = c.context /\ d.dispatched = c.dispatched /\ d.answered = 0
        /\ d.sent = c.sent \cup PromptOf(r, c)
    BY <1>2, <1>3 DEF Context
  <2>3. Goto(r, "call", d)
    BY <1>7
  <2> HIDE DEF d
  <2>4. Local("call", w, k, d, o)
    <3>1. Flow("call", w, d, o)
      BY <1>1, <1>2, <2>2 DEF Local, Flow
    <3>2. RepairApart => Clean("call", w, k, d)
      BY <1>1, <1>2, <2>1, <2>2, SentKeeps DEF Local
    <3> QED
      BY <3>1, <3>2 DEF Local, Safe
  <2> QED
    BY <1>1, <1>4, <2>1, <2>3, <2>4, GotoKeeps DEF Unshared, LifeType
<1> QED
  BY <1>5, <1>6, <1>7

LEMMA ServeOnKeeps ==
    ASSUME LifeInv, NEW r \in Requests, ServeAgent(r) \/ ServeCall(r)
    PROVE  LifeInv'
<1> DEFINE c == ctx[r]
           w == want[r]
           k == conf[r]
           o == outcome[r]
<1>1. /\ LifeType /\ c \in Context /\ Unshared /\ UNCHANGED outcome
      /\ at[r] = "core" /\ Local("core", w, k, c, o)
      /\ ~c.blocked /\ ~c.bypassed /\ ~c.hit /\ ~c.deferred
  BY DEF LifeInv, LifeType, ServeAgent, ServeCall, Unanswered
<1>2. {"redactAnswer", "call"} \subseteq StageNames
  BY Stages
<1>3. CASE ServeAgent(r)
  <2>1. c.dispatched /\ Goto(r, "redactAnswer", c)
    BY <1>3 DEF ServeAgent
  <2>2. Local("redactAnswer", w, k, c, o)
    BY <1>1, <2>1 DEF Local, Flow, Clean, Safe
  <2> QED
    BY <1>1, <1>2, <2>1, <2>2, GotoKeeps DEF Unshared, LifeType
<1>4. CASE ServeCall(r)
  <2>1. ~c.dispatched /\ Goto(r, "call", c)
    BY <1>4 DEF ServeCall
  <2>2. Local("call", w, k, c, o)
    BY <1>1, <2>1 DEF Local, Flow, Clean, Safe
  <2> QED
    BY <1>1, <1>2, <2>1, <2>2, GotoKeeps DEF Unshared, LifeType
<1> QED
  BY <1>3, <1>4

\* The call, and what comes of it.
LEMMA CallKeeps ==
    ASSUME LifeInv, NEW r \in Requests,
           NoKey(r) \/ Call(r) \/ CallFails(r) \/ OpenStream(r)
    PROVE  LifeInv'
<1> DEFINE c == ctx[r]
           w == want[r]
           k == conf[r]
           o == outcome[r]
           prompt == PromptOf(r, c)
<1>1. /\ LifeType /\ c \in Context /\ k \in Config /\ at[r] = "call"
      /\ Local("call", w, k, c, o)
  BY MyConfig DEF LifeInv, LifeType, NoKey, Call, CallFails, OpenStream
<1>2. ~c.blocked /\ ~c.dispatched /\ c.answered = 0 /\ c.booked \in Nat
  BY <1>1 DEF Local, Flow, Context
<1>3. {"redactAnswer", "streaming"} \subseteq StageNames /\ {"key", "call"} \subseteq Paths
  BY Stages DEF Paths
<1>4. c.sent \cup prompt \in SUBSET {"raw", "poisoned"}
  BY <1>1, PromptType DEF Context
<1>5. CASE NoKey(r)
  <2>1. PICK status \in {402, 502, 503} : Record(r, status, "key", c)
    BY <1>5 DEF NoKey
  <2>2. ASSUME NEW p \in Outcome, p.path = "key", p.status = status
        PROVE  Local("done", w, k, c, p)
    BY <1>1, <1>2, <2>2 DEF Local, Flow, Clean, Safe
  <2> QED
    BY <1>1, <1>3, <2>1, <2>2, RecordKeeps
<1>6. CASE CallFails(r)
  <2>1. PICK status \in {401, 429, 502, 503} :
          Record(r, status, "call", [c EXCEPT !.sent = @ \cup prompt])
    BY <1>6 DEF CallFails
  <2> DEFINE d == [c EXCEPT !.sent = @ \cup prompt]
  <2>2. d \in Context
    BY <1>1, <1>4 DEF Context
  <2>3. /\ d.masked = c.masked /\ d.noCache = c.noCache /\ d.blocked = c.blocked
        /\ d.context = c.context /\ d.dispatched = c.dispatched /\ d.answered = 0
        /\ d.sent = c.sent \cup prompt
    BY <1>1, <1>2 DEF Context
  <2>4. Record(r, status, "call", d)
    BY <2>1
  <2> HIDE DEF d
  <2>5. ASSUME NEW p \in Outcome, p.path = "call", p.status = status
        PROVE  Local("done", w, k, d, p)
    <3>1. Flow("done", w, d, p)
      BY <1>1, <2>3, <2>5 DEF Local, Flow
    <3>2. RepairApart => Clean("done", w, k, d)
      BY <1>1, <1>2, <2>2, <2>3, SentKeeps DEF Local
    <3>3. Safe("done", k, d, p)
      BY <2>5 DEF Safe
    <3> QED
      BY <3>1, <3>2, <3>3 DEF Local
  <2> QED
    BY <1>1, <1>3, <2>2, <2>4, <2>5, RecordKeeps
<1>7. CASE Call(r)
  <2>1. PICK a \in RepliesTo(c), u \in BOOLEAN :
          Goto(r, "redactAnswer",
               [c EXCEPT !.booked = @ + 1, !.answered = @ + 1, !.usage = u,
                  !.sent = @ \cup prompt, !.answer = a])
    BY <1>7 DEF Call
  <2> DEFINE d == [c EXCEPT !.booked = @ + 1, !.answered = @ + 1, !.usage = u,
                            !.sent = @ \cup prompt, !.answer = a]
  <2>2. a \in Answer
    BY <1>1, ReplyTypes
  <2>3. d \in Context
    <3>1. c.booked + 1 \in Nat /\ c.answered + 1 \in Nat
      BY <1>2
    <3> QED
      BY <1>1, <1>4, <2>2, <3>1 DEF Context
  <2>4. /\ d.masked = c.masked /\ d.noCache = c.noCache /\ d.blocked = c.blocked
        /\ d.context = c.context /\ d.dispatched = c.dispatched /\ d.answered = 1
        /\ d.sent = c.sent \cup prompt /\ d.answer = a
    BY <1>1, <1>2 DEF Context
  <2>5. Goto(r, "redactAnswer", d) /\ Unshared /\ UNCHANGED outcome
    BY <1>7, <2>1 DEF Call
  <2> HIDE DEF d
  <2>6. Local("redactAnswer", w, k, d, o)
    BY <1>1, <1>2, <2>3, <2>4, AnswerComes
  <2> QED
    BY <1>1, <1>3, <2>3, <2>5, <2>6, GotoKeeps DEF Unshared, LifeType
<1>8. CASE OpenStream(r)
  <2>0. PICK a \in RepliesTo(c) :
          \E b \in {ToolsGated(k, a)} \cup (IF MayFail("g32") THEN {a} ELSE {}) :
             Goto(r, "streaming",
                  [c EXCEPT !.answered = @ + 1, !.sent = @ \cup prompt, !.answer = b])
    BY <1>8 DEF OpenStream
  <2>1. PICK b \in {ToolsGated(k, a)} \cup (IF MayFail("g32") THEN {a} ELSE {}) :
          Goto(r, "streaming",
               [c EXCEPT !.answered = @ + 1, !.sent = @ \cup prompt, !.answer = b])
    BY <2>0
  <2> DEFINE d == [c EXCEPT !.answered = @ + 1, !.sent = @ \cup prompt, !.answer = b]
  <2>2. a \in Answer
    BY <1>1, ReplyTypes
  <2>3. b \in Answer /\ ("g32" \notin Faults => (k.tools = "block" => ~b.tool))
    BY <2>1, <2>2 DEF ToolsGated, MayFail, Answer
  <2>4. d \in Context
    <3>1. c.answered + 1 \in Nat
      BY <1>2
    <3> QED
      BY <1>1, <1>4, <2>3, <3>1 DEF Context
  <2>5. /\ d.masked = c.masked /\ d.noCache = c.noCache /\ d.blocked = c.blocked
        /\ d.context = c.context /\ d.dispatched = c.dispatched /\ d.answered = 1
        /\ d.sent = c.sent \cup prompt /\ d.answer = b
    BY <1>1, <1>2 DEF Context
  <2>6. Goto(r, "streaming", d) /\ Unshared /\ UNCHANGED outcome
    BY <1>8, <2>1 DEF OpenStream
  <2> HIDE DEF d
  <2>7. Local("streaming", w, k, d, o)
    <3>1. Flow("streaming", w, d, o)
      BY <1>1, <1>2, <2>3, <2>5 DEF Local, Flow
    <3>2. RepairApart => Clean("streaming", w, k, d)
      BY <1>1, <1>2, <2>4, <2>5, SentKeeps DEF Local
    <3>3. Safe("streaming", k, d, o)
      BY <2>3, <2>5 DEF Safe
    <3> QED
      BY <3>1, <3>2, <3>3 DEF Local
  <2> QED
    BY <1>1, <1>3, <2>4, <2>6, <2>7, GotoKeeps DEF Unshared, LifeType
<1> QED
  BY <1>5, <1>6, <1>7, <1>8

\* What is served, streamed or withheld is recorded with the price of its calls.
LEMMA EndKeeps ==
    ASSUME LifeInv, NEW r \in Requests, EndStream(r) \/ Withhold(r) \/ ServeAnswer(r)
    PROVE  LifeInv'
<1> DEFINE c == ctx[r]
           w == want[r]
           k == conf[r]
           o == outcome[r]
<1>1. /\ LifeType /\ c \in Context /\ k \in Config
      /\ Local(at[r], w, k, c, o)
  BY MyConfig DEF LifeInv, LifeType
<1>2. {"stream", "withheld", "answer"} \subseteq Paths
  BY DEF Paths
<1>3. CASE EndStream(r)
  <2>1. PICK u \in BOOLEAN :
          Record(r, 200, "stream", Priced([c EXCEPT !.booked = @ + 1, !.usage = u]))
    BY <1>3 DEF EndStream
  <2> DEFINE e == [c EXCEPT !.booked = @ + 1, !.usage = u]
             d == Priced(e)
  <2>2. at[r] = "streaming" /\ c.answered = 1 /\ ~c.blocked /\ c.booked \in Nat
    BY <1>1, <1>3 DEF EndStream, Local, Flow, Context
  <2>3. e \in Context
    <3>1. c.booked + 1 \in Nat
      BY <2>2
    <3> QED
      BY <1>1, <3>1 DEF Context
  <2>4. /\ e.masked = c.masked /\ e.noCache = c.noCache /\ e.blocked = c.blocked
        /\ e.context = c.context /\ e.answered = c.answered
        /\ e.sent = c.sent /\ e.answer = c.answer
    BY <1>1 DEF Context
  <2> HIDE DEF e
  <2>5. d \in Context /\ d.priced = d.booked
    BY <2>3 DEF Priced, Context
  <2>6. /\ d.masked = c.masked /\ d.noCache = c.noCache /\ d.blocked = c.blocked
        /\ d.context = c.context /\ d.answered = 1
        /\ d.sent = c.sent /\ d.answer = c.answer
    BY <2>2, <2>3, <2>4 DEF Priced, Context
  <2>7. Record(r, 200, "stream", d)
    BY <2>1 DEF e
  <2> HIDE DEF d
  <2>8. ASSUME NEW p \in Outcome, p.path = "stream", p.priced = d.priced
        PROVE  Local("done", w, k, d, p)
    BY <1>1, <2>2, <2>5, <2>6, <2>8 DEF Local, Flow, Clean, Safe
  <2> QED
    BY <1>1, <1>2, <2>5, <2>7, <2>8, RecordKeeps
<1>4. CASE Withhold(r)
  <2> DEFINE d == Priced(c)
  <2>1. at[r] \in {"redactAnswer", "guardAnswer", "gateTools"} /\ Record(r, 500, "withheld", d)
    BY <1>4 DEF Withhold
  <2>2. c.answered = 1 /\ ~c.blocked
    BY <1>1, <2>1 DEF Local, Flow
  <2>3. d \in Context /\ d.priced = d.booked
    BY <1>1 DEF Priced, Context
  <2>4. /\ d.masked = c.masked /\ d.noCache = c.noCache /\ d.blocked = c.blocked
        /\ d.context = c.context /\ d.answered = 1
        /\ d.sent = c.sent /\ d.answer = c.answer
    BY <1>1, <2>2 DEF Priced, Context
  <2> HIDE DEF d
  <2>5. ASSUME NEW p \in Outcome, p.path = "withheld", p.status = 500, p.priced = d.priced
        PROVE  Local("done", w, k, d, p)
    BY <1>1, <2>1, <2>3, <2>4, <2>5 DEF Local, Flow, Clean, Safe
  <2> QED
    BY <1>1, <1>2, <2>1, <2>3, <2>5, RecordKeeps
<1>5. CASE ServeAnswer(r)
  <2>1. at[r] = "serve" /\ Record(r, 200, "answer", c)
    BY <1>5 DEF ServeAnswer
  <2>2. ASSUME NEW p \in Outcome, p.path = "answer", p.priced = c.priced
        PROVE  Local("done", w, k, c, p)
    BY <1>1, <2>1, <2>2 DEF Local, Flow, Clean, Safe
  <2> QED
    BY <1>1, <1>2, <2>1, <2>2, RecordKeeps
<1> QED
  BY <1>3, <1>4, <1>5

\* A response stage that leaves everything but the answer and its fitness for the
\* cache alone.
LEMMA AnswerKeeps ==
    ASSUME LifeInv, NEW r \in Requests, NEW s \in Whole, NEW d \in Context,
           at[r] \in Whole, Goto(r, s, d), UNCHANGED <<config, want, conf, outcome>>,
           cache' \in [Keys -> Answer \cup {NoAnswer}],
           d.masked = ctx[r].masked, ctx[r].noCache => d.noCache,
           d.blocked = ctx[r].blocked, d.context = ctx[r].context,
           d.dispatched = ctx[r].dispatched, d.answered = ctx[r].answered,
           RepairApart => d.sent = ctx[r].sent, d.answer \in Answer,
           s \in {"store", "serve"} => d.priced = d.booked,
           RepairApart =>
              /\ d.answer.text \in {"held", "raw"} => d.masked
              /\ s = "redactAnswer" => d.answer.text # "raw"
              /\ d.answer.by = "model" \/ d.dispatched \/ d.noCache
              /\ Safe(s, conf[r], d, outcome[r])
    PROVE  LifeInv'
<1>1. ctx[r] \in Context /\ Local(at[r], want[r], conf[r], ctx[r], outcome[r])
  BY DEF LifeInv, LifeType
<1>2. Flow(s, want[r], d, outcome[r])
  BY <1>1 DEF Local, Flow
<1>3. RepairApart => Clean(s, want[r], conf[r], d)
  BY <1>1, <1>2 DEF Local, Flow, Clean
<1> QED
  BY <1>2, <1>3, Stages, GotoKeeps DEF Local

LEMMA ScanKeeps ==
    ASSUME LifeInv, NEW r \in Requests, RedactAnswer(r) \/ GuardAnswer(r) \/ GateTools(r)
    PROVE  LifeInv'
<1> DEFINE c == ctx[r]
           w == want[r]
           k == conf[r]
           o == outcome[r]
           a == c.answer
<1>1. /\ LifeType /\ c \in Context /\ k \in Config /\ at[r] \in Whole
      /\ Local(at[r], w, k, c, o)
      /\ UNCHANGED <<config, cache, want, conf, outcome>>
  BY MyConfig DEF LifeInv, LifeType, RedactAnswer, GuardAnswer, GateTools, Answers, Unshared
<1>2. a \in Answer /\ a.text \in Texts
  BY <1>1 DEF Local, Flow, Answer
<1>3. RepairApart => Clean(at[r], w, k, c) /\ Safe(at[r], k, c, o)
  BY <1>1 DEF Local
<1>4. CASE RedactAnswer(r)
  <2>1. at[r] = "redactAnswer"
    BY <1>4 DEF RedactAnswer
  <2>2. CASE k.pii # "mask"
    <3>1. Goto(r, "guardAnswer", c)
      BY <1>4, <2>2 DEF RedactAnswer, Answers
    <3>2. RepairApart => /\ a.text \in {"held", "raw"} => c.masked
                         /\ a.by = "model" \/ c.dispatched \/ c.noCache
                         /\ Safe("guardAnswer", k, c, o)
      BY <1>3, <2>1, <2>2 DEF Clean, Safe
    <3> QED
      BY <1>1, <1>2, <3>1, <3>2, AnswerKeeps DEF LifeType
  <2>3. CASE k.pii = "mask"
    <3> DEFINE t == CASE a.text = "leak" -> "plain" [] a.text = "held" -> "raw" [] OTHER -> a.text
               d == [c EXCEPT !.answer.text = t]
    <3>1. Goto(r, "guardAnswer", d)
      BY <1>4, <2>3 DEF RedactAnswer, Answers
    <3>2. /\ t \in Texts /\ t \notin {"held", "leak"}
          /\ t = "raw" => a.text \in {"held", "raw"}
      BY <1>2 DEF Texts
    <3> HIDE DEF t
    <3>3. [a EXCEPT !.text = t] \in Answer
      BY <1>2, <3>2 DEF Answer
    <3>4. d = [c EXCEPT !.answer = [a EXCEPT !.text = t]]
      BY <1>1 DEF Context
    <3>5. d \in Context
      BY <1>1, <3>3, <3>4 DEF Context
    <3>6. /\ d.masked = c.masked /\ d.noCache = c.noCache /\ d.blocked = c.blocked
          /\ d.context = c.context /\ d.dispatched = c.dispatched
          /\ d.answered = c.answered /\ d.sent = c.sent
          /\ d.answer = [a EXCEPT !.text = t]
      BY <1>1, <3>4 DEF Context
    <3>7. d.answer \in Answer /\ d.answer.text = t /\ d.answer.by = a.by
      BY <1>2, <3>3, <3>6 DEF Answer
    <3> HIDE DEF d
    <3>8. RepairApart => /\ t \in {"held", "raw"} => c.masked
                         /\ a.by = "model" \/ c.dispatched \/ c.noCache
                         /\ Safe("guardAnswer", k, d, o)
      BY <1>3, <2>1, <3>2, <3>7 DEF Clean, Safe
    <3> QED
      BY <1>1, <3>1, <3>5, <3>6, <3>7, <3>8, AnswerKeeps DEF LifeType
  <2> QED
    BY <2>2, <2>3
<1>5. CASE GuardAnswer(r)
  <2>1. at[r] = "guardAnswer"
    BY <1>5 DEF GuardAnswer
  <2>2. CASE ~(k.scan = "block" /\ a.flagged)
    <3>1. Goto(r, "gateTools", c)
      BY <1>5, <2>2 DEF GuardAnswer, Answers
    <3>2. RepairApart => /\ a.text \in {"held", "raw"} => c.masked
                         /\ a.by = "model" \/ c.dispatched \/ c.noCache
                         /\ Safe("gateTools", k, c, o)
      BY <1>3, <2>1, <2>2 DEF Clean, Safe
    <3> QED
      BY <1>1, <1>2, <3>1, <3>2, AnswerKeeps DEF LifeType
  <2>3. CASE k.scan = "block" /\ a.flagged
    <3> DEFINE d == [c EXCEPT !.answer = Refusal, !.noCache = TRUE]
    <3>1. Goto(r, "gateTools", d)
      BY <1>5, <2>3 DEF GuardAnswer, Answers
    <3>2. d \in Context /\ d.answer = Refusal /\ d.noCache /\ Refusal \in Answer
      BY <1>1, RefusalType DEF Context
    <3>3. /\ d.masked = c.masked /\ d.blocked = c.blocked
          /\ d.context = c.context /\ d.dispatched = c.dispatched
          /\ d.answered = c.answered /\ d.sent = c.sent
      BY <1>1 DEF Context
    <3> HIDE DEF d
    <3>4. Safe("gateTools", k, d, o) /\ Refusal.text = "plain"
      BY <3>2 DEF Safe, Refusal
    <3> QED
      BY <1>1, <3>1, <3>2, <3>3, <3>4, AnswerKeeps DEF LifeType
  <2> QED
    BY <2>2, <2>3
<1>6. CASE GateTools(r)
  <2> DEFINE g == ToolsGated(k, a)
             d == [c EXCEPT !.answer = g, !.noCache = @ \/ g # a]
  <2>1. at[r] = "gateTools" /\ Goto(r, "format", d)
    BY <1>6 DEF GateTools, Answers
  <2>2. /\ g \in Answer /\ g.text = a.text /\ g.by = a.by /\ g.flagged = a.flagged
        /\ k.tools = "block" => ~g.tool
    BY <1>2 DEF ToolsGated, Answer
  <2> HIDE DEF g
  <2>3. (c.noCache \/ g # a) \in BOOLEAN
    OBVIOUS
  <2>4. d \in Context /\ d.answer = g /\ (c.noCache => d.noCache)
    BY <1>1, <2>2, <2>3 DEF Context
  <2>5. /\ d.masked = c.masked /\ d.blocked = c.blocked
        /\ d.context = c.context /\ d.dispatched = c.dispatched
        /\ d.answered = c.answered /\ d.sent = c.sent
    BY <1>1 DEF Context
  <2> HIDE DEF d
  <2>6. RepairApart => /\ g.text \in {"held", "raw"} => c.masked
                       /\ g.by = "model" \/ c.dispatched \/ d.noCache
                       /\ Safe("format", k, d, o)
    BY <1>3, <2>1, <2>2, <2>4 DEF Clean, Safe
  <2> QED
    BY <1>1, <2>1, <2>2, <2>4, <2>5, <2>6, AnswerKeeps DEF LifeType
<1> QED
  BY <1>4, <1>5, <1>6

\* G11 may ask again: the tenant's answers are neither masked nor withheld then.
LEMMA ReaskKeeps ==
    ASSUME LifeInv, NEW r \in Requests, at[r] = "format", conf[r].json = "repair",
           Reask(r), Unshared, UNCHANGED outcome
    PROVE  LifeInv'
<1> DEFINE c == ctx[r]
           w == want[r]
           k == conf[r]
           o == outcome[r]
           a == c.answer
           shown == PromptOf(r, c) \cup ({a.text} \cap {"raw"})
           e == [c EXCEPT !.sent = @ \cup PromptOf(r, c) \cup ({a.text} \cap {"raw"})]
<1>1. /\ LifeType /\ c \in Context /\ k \in Config /\ k \in Configs
      /\ Local("format", w, k, c, o)
  BY MyConfig DEF LifeInv, LifeType
<1>2. a \in Answer /\ c.answered = 1 /\ ~c.blocked /\ c.booked \in Nat
  BY <1>1 DEF Local, Flow, Context
<1>3. /\ e \in Context /\ e.sent = c.sent \cup shown /\ e.answer = a
      /\ e.masked = c.masked /\ e.noCache = c.noCache /\ e.blocked = c.blocked
      /\ e.context = c.context /\ e.dispatched = c.dispatched /\ e.answered = c.answered
      /\ e.booked = c.booked
  <2>1. c.sent \cup PromptOf(r, c) \cup ({a.text} \cap {"raw"}) \in SUBSET {"raw", "poisoned"}
    BY <1>1, PromptType DEF Context
  <2> QED
    BY <1>1, <2>1 DEF Context
<1>4. RepairApart =>
        /\ Clean("format", w, k, c) /\ Safe("format", k, c, o)
        /\ k.pii # "mask" /\ k.scan # "block" /\ ~c.masked
        /\ a.text \notin {"held", "raw"}
        /\ k.pii \in {"mask", "block"} => "raw" \notin shown
        /\ k.trust \in {"strip", "block"} => "poisoned" \notin shown
  <2> SUFFICES ASSUME RepairApart
               PROVE  /\ Clean("format", w, k, c) /\ Safe("format", k, c, o)
                      /\ k.pii # "mask" /\ k.scan # "block" /\ ~c.masked
                      /\ a.text \notin {"held", "raw"}
                      /\ k.pii \in {"mask", "block"} => "raw" \notin shown
                      /\ k.trust \in {"strip", "block"} => "poisoned" \notin shown
    OBVIOUS
  <2>1. Clean("format", w, k, c) /\ Safe("format", k, c, o)
    BY <1>1 DEF Local
  <2>2. k.pii # "mask" /\ k.scan # "block"
    BY <1>1 DEF RepairApart
  <2>3. ~c.masked /\ a.text \notin {"held", "raw"}
    BY <2>1, <2>2 DEF Clean
  <2>4. /\ k.pii \in {"mask", "block"} => "raw" \notin PromptOf(r, c)
        /\ k.trust \in {"strip", "block"} => "poisoned" \notin PromptOf(r, c)
    BY <1>1, <1>2, <2>1, CleanPrompt
  <2>5. shown \subseteq PromptOf(r, c)
    BY <2>3
  <2> QED
    BY <2>1, <2>2, <2>3, <2>4, <2>5
<1>5. \/ \E b \in RepliesTo(e) :
            /\ ~b.tool
            /\ Goto(r, "observe", [e EXCEPT !.booked = @ + 1, !.answer.text = b.text,
                                      !.answer.flagged = b.flagged,
                                      !.answer.valid = TRUE, !.answer.empty = FALSE])
      \/ \E paid \in {0, 1}, withheld \in BOOLEAN :
            Goto(r, "observe",
                 [e EXCEPT !.booked = @ + paid, !.noCache = @ \/ withheld,
                           !.answer = IF withheld THEN Refusal ELSE @])
  BY DEF Reask
<1> HIDE DEF e, shown
<1>6. "observe" \in StageNames
  BY Stages
\* What the next answer has to be.
<1>7. ASSUME NEW d \in Context, Goto(r, "observe", d), d.answer \in Answer,
             d.sent = c.sent \cup shown, d.masked = c.masked, c.noCache => d.noCache,
             d.blocked = c.blocked, d.context = c.context,
             d.dispatched = c.dispatched, d.answered = c.answered,
             RepairApart =>
                /\ d.answer.text \notin {"held", "raw"}
                /\ d.answer.by = "model" \/ d.dispatched \/ d.noCache
                /\ k.tools = "block" => ~d.answer.tool
      PROVE  LifeInv'
  <2>1. Flow("observe", w, d, o)
    BY <1>1, <1>2, <1>7 DEF Local, Flow
  <2>2. RepairApart => Clean("observe", w, k, d)
    BY <1>4, <1>7 DEF Clean
  <2>3. RepairApart => Safe("observe", k, d, o)
    BY <1>4, <1>7 DEF Safe
  <2>4. Local("observe", w, k, d, o)
    BY <2>1, <2>2, <2>3 DEF Local
  <2> QED
    BY <1>1, <1>6, <1>7, <2>4, GotoKeeps DEF Unshared, LifeType
<1>8. ASSUME NEW b \in RepliesTo(e),
             Goto(r, "observe", [e EXCEPT !.booked = @ + 1, !.answer.text = b.text,
                                    !.answer.flagged = b.flagged,
                                    !.answer.valid = TRUE, !.answer.empty = FALSE])
      PROVE  LifeInv'
  <2> DEFINE n == [a EXCEPT !.text = b.text, !.flagged = b.flagged,
                            !.valid = TRUE, !.empty = FALSE]
             d == [e EXCEPT !.booked = @ + 1, !.answer.text = b.text,
                            !.answer.flagged = b.flagged,
                            !.answer.valid = TRUE, !.answer.empty = FALSE]
  <2>1. b \in Answer /\ b.text # "raw" /\ (b.text = "held" => c.masked)
    BY <1>3, ReplyTypes
  <2>2. n \in Answer /\ n.text = b.text /\ n.by = a.by /\ n.tool = a.tool
    BY <1>2, <2>1 DEF Answer
  <2>3. d = [e EXCEPT !.booked = @ + 1, !.answer = n]
    BY <1>3 DEF Context
  <2>4. Goto(r, "observe", d)
    BY <1>8
  <2> HIDE DEF n, d
  <2>5. d \in Context
    <3>1. e.booked + 1 \in Nat
      BY <1>2, <1>3
    <3> QED
      BY <1>3, <2>2, <2>3, <3>1 DEF Context
  <2>6. /\ d.sent = c.sent \cup shown /\ d.masked = c.masked /\ d.noCache = c.noCache
        /\ d.blocked = c.blocked /\ d.context = c.context
        /\ d.dispatched = c.dispatched /\ d.answered = c.answered /\ d.answer = n
    BY <1>3, <2>3 DEF Context
  <2>7. RepairApart => /\ n.text \notin {"held", "raw"}
                       /\ n.by = "model" \/ d.dispatched \/ d.noCache
                       /\ k.tools = "block" => ~n.tool
    BY <1>4, <2>1, <2>2, <2>6 DEF Clean, Safe
  <2> QED
    BY <1>7, <2>2, <2>4, <2>5, <2>6, <2>7
<1>9. ASSUME NEW paid \in {0, 1}, NEW withheld \in BOOLEAN,
             Goto(r, "observe",
                  [e EXCEPT !.booked = @ + paid, !.noCache = @ \/ withheld,
                            !.answer = IF withheld THEN Refusal ELSE @])
      PROVE  LifeInv'
  <2> DEFINE n == IF withheld THEN Refusal ELSE a
             d == [e EXCEPT !.booked = @ + paid, !.noCache = @ \/ withheld,
                            !.answer = IF withheld THEN Refusal ELSE @]
  <2>1. n \in Answer /\ (withheld => n = Refusal) /\ (~withheld => n = a)
    BY <1>2, RefusalType
  <2>2. d = [e EXCEPT !.booked = @ + paid, !.noCache = @ \/ withheld, !.answer = n]
    BY <1>3
  <2>3. Goto(r, "observe", d)
    BY <1>9
  <2> HIDE DEF n, d
  <2>4. d \in Context
    <3>1. e.booked + paid \in Nat
      BY <1>2, <1>3
    <3>2. (e.noCache \/ withheld) \in BOOLEAN
      OBVIOUS
    <3> QED
      BY <1>3, <2>1, <2>2, <3>1, <3>2 DEF Context
  <2>5. /\ d.sent = c.sent \cup shown /\ d.masked = c.masked
        /\ c.noCache \/ withheld => d.noCache
        /\ d.blocked = c.blocked /\ d.context = c.context
        /\ d.dispatched = c.dispatched /\ d.answered = c.answered /\ d.answer = n
    BY <1>3, <2>2 DEF Context
  <2>6. RepairApart => /\ n.text \notin {"held", "raw"}
                       /\ n.by = "model" \/ d.dispatched \/ d.noCache
                       /\ k.tools = "block" => ~n.tool
    BY <1>4, <2>1, <2>5 DEF Clean, Safe, Refusal
  <2> QED
    BY <1>7, <2>1, <2>3, <2>4, <2>5, <2>6
<1> QED
  BY <1>5, <1>8, <1>9

LEMMA FormatKeeps ==
    ASSUME LifeInv, NEW r \in Requests, Format(r)
    PROVE  LifeInv'
<1> DEFINE c == ctx[r]
           w == want[r]
           k == conf[r]
           o == outcome[r]
           d == [c EXCEPT !.answer = Refusal, !.noCache = TRUE]
<1>1. /\ LifeType /\ c \in Context /\ at[r] = "format" /\ Local("format", w, k, c, o)
      /\ Unshared /\ UNCHANGED outcome
  BY DEF LifeInv, LifeType, Format
<1>2. c.answer \in Answer
  BY <1>1 DEF Local, Flow
<1>3. CASE Goto(r, "observe", c)
  <2>1. RepairApart => /\ c.answer.text \in {"held", "raw"} => c.masked
                       /\ c.answer.by = "model" \/ c.dispatched \/ c.noCache
                       /\ Safe("observe", k, c, o)
    BY <1>1 DEF Local, Clean, Safe
  <2> QED
    BY <1>1, <1>2, <1>3, <2>1, AnswerKeeps DEF LifeType, Unshared
<1>4. CASE Goto(r, "observe", d)
  <2>1. d \in Context /\ d.answer = Refusal /\ d.noCache /\ Refusal \in Answer
    BY <1>1, RefusalType DEF Context
  <2>2. /\ d.masked = c.masked /\ d.blocked = c.blocked
        /\ d.context = c.context /\ d.dispatched = c.dispatched
        /\ d.answered = c.answered /\ d.sent = c.sent
    BY <1>1 DEF Context
  <2> HIDE DEF d
  <2>3. Safe("observe", k, d, o) /\ Refusal.text = "plain"
    BY <2>1 DEF Safe, Refusal
  <2> QED
    BY <1>1, <1>4, <2>1, <2>2, <2>3, AnswerKeeps DEF LifeType, Unshared
<1>5. CASE k.json = "repair" /\ Reask(r)
  BY <1>1, <1>5, ReaskKeeps
<1> QED
  BY <1>3, <1>4, <1>5 DEF Format

LEMMA ObserveKeeps ==
    ASSUME LifeInv, NEW r \in Requests, Observe(r) \/ Store(r)
    PROVE  LifeInv'
<1> DEFINE c == ctx[r]
           w == want[r]
           k == conf[r]
           o == outcome[r]
           p == Priced(c)
           d == [p EXCEPT !.noCache = @ \/ c.answer.empty]
<1>1. /\ LifeType /\ c \in Context /\ at[r] \in {"observe", "store"}
      /\ Local(at[r], w, k, c, o)
      /\ UNCHANGED <<config, want, conf, outcome>>
  BY DEF LifeInv, LifeType, Observe, Store, Answers, Unshared
<1>2. c.answer \in Answer
  BY <1>1 DEF Local, Flow
<1>3. RepairApart => /\ c.answer.text \in {"held", "raw"} => c.masked
                     /\ c.answer.by = "model" \/ c.dispatched \/ c.noCache
                     /\ Safe(at[r], k, c, o)
  BY <1>1 DEF Local, Clean
<1>4. CASE Observe(r)
  <2>1. at[r] = "observe" /\ Goto(r, "store", d) /\ UNCHANGED cache
    BY <1>4 DEF Observe, Answers, Unshared
  <2>2. /\ p \in Context /\ p.masked = c.masked /\ p.noCache = c.noCache
        /\ p.blocked = c.blocked /\ p.context = c.context /\ p.dispatched = c.dispatched
        /\ p.answered = c.answered /\ p.sent = c.sent /\ p.answer = c.answer
        /\ p.priced = p.booked
    BY <1>1 DEF Priced, Context
  <2> HIDE DEF p
  <2>3. (p.noCache \/ c.answer.empty) \in BOOLEAN
    OBVIOUS
  <2>4. /\ d \in Context /\ d.masked = c.masked /\ (c.noCache => d.noCache)
        /\ d.blocked = c.blocked /\ d.context = c.context /\ d.dispatched = c.dispatched
        /\ d.answered = c.answered /\ d.sent = c.sent /\ d.answer = c.answer
        /\ d.priced = d.booked
    BY <2>2, <2>3 DEF Context
  <2> HIDE DEF d
  <2>5. RepairApart => Safe("store", k, d, o)
    BY <1>3, <2>1, <2>4 DEF Safe
  <2> QED
    BY <1>1, <1>2, <1>3, <2>1, <2>4, <2>5, AnswerKeeps DEF LifeType
<1>5. CASE Store(r)
  <2>1. at[r] = "store" /\ Goto(r, "serve", c)
    BY <1>5 DEF Store
  <2>2. cache' \in [Keys -> Answer \cup {NoAnswer}]
    <3>1. w \in Want
      BY <1>1, <2>1 DEF Local, Flow
    <3> QED
      BY <1>1, <1>2, <1>5, <3>1 DEF Store, LifeType, Want
  <2>3. RepairApart => Safe("serve", k, c, o)
    BY <1>3, <2>1 DEF Safe
  <2>4. c.priced = c.booked
    BY <1>1, <2>1 DEF Local, Flow
  <2> QED
    BY <1>1, <1>2, <1>3, <2>1, <2>2, <2>3, <2>4, AnswerKeeps
<1> QED
  BY <1>4, <1>5

LEMMA InitKeeps == Init => LifeInv
<1> SUFFICES ASSUME Init PROVE LifeInv
  OBVIOUS
<1>1. Fresh \in Context /\ Unrecorded \in Outcome
  BY DEF Fresh, Unrecorded, Context, Outcome, Paths
<1>2. LifeType
  BY <1>1, Stages, LifecycleAssumption DEF Init, LifeType
<1>3. ASSUME NEW r \in Requests
      PROVE  Local(at[r], want[r], conf[r], ctx[r], outcome[r])
  <2>1. at[r] = "idle" /\ ctx[r] = Fresh /\ outcome[r] = Unrecorded
    BY DEF Init
  <2> QED
    BY <2>1 DEF Local, Flow, Clean, Safe, Fresh, Unrecorded
<1> QED
  BY <1>2, <1>3 DEF LifeInv

LEMMA NextKeeps == LifeInv /\ [Next]_vars => LifeInv'
<1> SUFFICES ASSUME LifeInv, [Next]_vars PROVE LifeInv'
  OBVIOUS
<1>1. CASE Reconfigure
  <2>1. config' \in Configs /\ UNCHANGED <<cache, at, want, conf, ctx, outcome>>
    BY <1>1 DEF Reconfigure
  <2> QED
    BY <2>1 DEF LifeInv, LifeType
<1>2. ASSUME NEW r \in Requests, Step(r) PROVE LifeInv'
  <2>1. CASE Start(r)
    BY <2>1, StartKeeps
  <2>2. CASE Gate(r) \/ Guardrails(r) \/ Redact(r) \/ Bypass(r)
    BY <2>2, GateKeeps
  <2>3. CASE Lookup(r)
    BY <2>3, LookupKeeps
  <2>4. CASE Route(r) \/ Shape(r) \/ ContextTrust(r) \/ Tune(r)
    BY <2>4, RouteKeeps
  <2>5. CASE Dispatch(r)
    BY <2>5, DispatchKeeps
  <2>6. CASE StageRaises(r)
    BY <2>6, RaiseKeeps
  <2>7. CASE ServeBlocked(r) \/ RefuseEmptyHit(r) \/ ServeShort(r) \/ ServeDeferred(r)
    BY <2>7, ServeKeeps
  <2>8. CASE RunCascade(r)
    BY <2>8, CascadeKeeps
  <2>9. CASE ServeAgent(r) \/ ServeCall(r)
    BY <2>9, ServeOnKeeps
  <2>10. CASE NoKey(r) \/ Call(r) \/ CallFails(r) \/ OpenStream(r)
    BY <2>10, CallKeeps
  <2>11. CASE EndStream(r) \/ Withhold(r) \/ ServeAnswer(r)
    BY <2>11, EndKeeps
  <2>12. CASE RedactAnswer(r) \/ GuardAnswer(r) \/ GateTools(r)
    BY <2>12, ScanKeeps
  <2>13. CASE Format(r)
    BY <2>13, FormatKeeps
  <2>14. CASE Observe(r) \/ Store(r)
    BY <2>14, ObserveKeeps
  <2> QED
    BY <1>2, <2>1, <2>2, <2>3, <2>4, <2>5, <2>6, <2>7, <2>8, <2>9, <2>10, <2>11, <2>12,
       <2>13, <2>14 DEF Step
<1>3. CASE UNCHANGED vars
  BY <1>3 DEF vars, LifeInv, LifeType
<1> QED
  BY <1>1, <1>2, <1>3 DEF Next

\* Only G05's store writes the cache.
LEMMA OnlyStoreWrites ==
    ASSUME [Next]_vars, cache' # cache
    PROVE  \E r \in Requests : Store(r)
<1>1. PICK r \in Requests : Step(r)
  BY DEF Next, vars, Reconfigure
<1>2. /\ ~Start(r) /\ ~Gate(r) /\ ~Guardrails(r) /\ ~Redact(r) /\ ~Bypass(r) /\ ~Lookup(r)
      /\ ~Route(r) /\ ~Dispatch(r) /\ ~Shape(r) /\ ~ContextTrust(r) /\ ~Tune(r)
      /\ ~StageRaises(r)
  BY DEF Start, Gate, Guardrails, Redact, Bypass, Lookup, Route, Dispatch, Shape,
         ContextTrust, Tune, StageRaises, Record, Unshared
<1>3. /\ ~ServeBlocked(r) /\ ~ServeShort(r) /\ ~ServeDeferred(r) /\ ~NoKey(r)
      /\ ~CallFails(r) /\ ~EndStream(r) /\ ~Withhold(r) /\ ~ServeAnswer(r)
  <2>1. ~ServeBlocked(r) /\ ~ServeDeferred(r) /\ ~Withhold(r) /\ ~ServeAnswer(r)
    BY DEF ServeBlocked, ServeDeferred, Withhold, ServeAnswer, Record, Unshared
  <2>2. ~ServeShort(r)
    BY DEF ServeShort, Record, Unshared
  <2>3. ~NoKey(r) /\ ~CallFails(r)
    BY DEF NoKey, CallFails, Record, Unshared
  <2>4. ~EndStream(r)
    BY DEF EndStream, Record, Unshared
  <2> QED
    BY <2>1, <2>2, <2>3, <2>4
<1>4. /\ ~RefuseEmptyHit(r) /\ ~RunCascade(r) /\ ~ServeAgent(r) /\ ~ServeCall(r)
      /\ ~Call(r) /\ ~OpenStream(r)
  BY DEF RefuseEmptyHit, RunCascade, ServeAgent, ServeCall, Call, OpenStream, Unshared
<1>5. /\ ~RedactAnswer(r) /\ ~GuardAnswer(r) /\ ~GateTools(r) /\ ~Format(r)
      /\ ~Observe(r)
  BY DEF RedactAnswer, GuardAnswer, GateTools, Format, Observe, Answers, Unshared
<1> QED
  BY <1>1, <1>2, <1>3, <1>4, <1>5 DEF Step

LEMMA AlwaysLifeInv == Spec => []LifeInv
BY InitKeeps, NextKeeps, PTL DEF Spec

-----------------------------------------------------------------------------
(* Types, and that no outcome is recorded twice *)

Statuses == {0, 200, 202, 401, 402, 429, 500, 502, 503}

Once ==
    /\ want \in [Requests -> Wants \cup {NoWant}]
    /\ \A r \in Requests :
         /\ outcome[r].times \in {0, 1} /\ outcome[r].status \in Statuses
         /\ at[r] # "done" => outcome[r].times = 0

\* What a step does to the stage and the outcome of the request that takes it.
Moves(r) ==
    /\ at[r] # "done"
    /\ want' = want \/ \E w \in Wants : want' = [want EXCEPT ![r] = w]
    /\ \E s \in StageNames : at' = [at EXCEPT ![r] = s]
    /\ \/ outcome' = outcome
       \/ \E n \in {0, 1}, status \in Statuses :
             /\ at' = [at EXCEPT ![r] = "done"]
             /\ \A q \in Requests \ {r} : outcome'[q] = outcome[q]
             /\ outcome'[r].times = outcome[r].times + n /\ outcome'[r].status = status

LEMMA RecordIsMove ==
    ASSUME LifeType, NEW r \in Requests, NEW status \in Statuses, NEW path, NEW c,
           at[r] # "done", Record(r, status, path, c)
    PROVE  Moves(r)
<1>1. at' = [at EXCEPT ![r] = "done"] /\ want' = want
  BY DEF Record, Goto, Unshared
<1>2. /\ \A q \in Requests \ {r} : outcome'[q] = outcome[q]
      /\ outcome'[r].times = outcome[r].times + 1 /\ outcome'[r].status = status
  BY DEF LifeType, Record
<1> QED
  BY <1>1, <1>2, Stages DEF Moves

LEMMA StepMoves ==
    ASSUME LifeType, NEW r \in Requests, Step(r)
    PROVE  Moves(r)
<1>1. CASE \/ Start(r) \/ Guardrails(r) \/ Redact(r) \/ Bypass(r) \/ Lookup(r)
           \/ Route(r) \/ Dispatch(r) \/ Shape(r) \/ ContextTrust(r) \/ Tune(r)
  <2>1. at[r] # "done" /\ outcome' = outcome
    BY <1>1 DEF Start, Guardrails, Redact, Bypass, Lookup, Route, Dispatch, Shape,
                ContextTrust, Tune
  <2>2. want' = want \/ \E w \in Wants : want' = [want EXCEPT ![r] = w]
    BY <1>1 DEF Start, Guardrails, Redact, Bypass, Lookup, Route, Dispatch, Shape,
                ContextTrust, Tune, Unshared
  <2>3. \E s \in {"gate", "redaction", "bypass", "cache", "routing", "agent", "shape",
                  "trust", "tune", "core"} : at' = [at EXCEPT ![r] = s]
    <3>1. CASE Start(r) \/ Guardrails(r) \/ Bypass(r) \/ Lookup(r) \/ Route(r) \/ Dispatch(r)
               \/ Shape(r) \/ Tune(r)
      BY <3>1 DEF Start, Guardrails, Bypass, Lookup, Route, Dispatch, Shape, Tune,
                  Goto, Block
    <3>2. CASE Redact(r)
      <4>1. at' = [at EXCEPT ![r] = "bypass"] \/ at' = [at EXCEPT ![r] = "core"]
        BY <3>2, Zenon DEF Redact, Goto, Block
      <4> QED
        BY <4>1
    <3>3. CASE ContextTrust(r)
      <4>1. at' = [at EXCEPT ![r] = "tune"] \/ at' = [at EXCEPT ![r] = "core"]
        BY <3>3, Zenon DEF ContextTrust, Goto, Block
      <4> QED
        BY <4>1
    <3> QED
      BY <1>1, <3>1, <3>2, <3>3
  <2> QED
    BY <2>1, <2>2, <2>3, Stages DEF Moves
<1>2. CASE Gate(r)
  <2>1. CASE Goto(r, "guardrails", ctx[r]) /\ Unshared /\ UNCHANGED outcome
    BY <1>2, <2>1, Stages DEF Gate, Goto, Unshared, Moves
  <2>2. CASE \E status \in {402, 429} : Record(r, status, "gate", ctx[r])
    BY <1>2, <2>2, RecordIsMove DEF Gate, Statuses
  <2> QED
    BY <1>2, <2>1, <2>2 DEF Gate
<1>3. CASE StageRaises(r)
  <2>1. at[r] # "done"
    BY <1>3 DEF StageRaises, RequestStages
  <2>2. at' = [at EXCEPT ![r] = "done"] /\ want' = want
    BY <1>3 DEF StageRaises, Goto, Unshared
  <2>3. /\ \A q \in Requests \ {r} : outcome'[q] = outcome[q]
        /\ outcome'[r].times = outcome[r].times /\ outcome'[r].status = 500
    BY <1>3, RaiseRecords
  <2>4. outcome[r].times \in Nat
    BY DEF LifeType, Outcome
  <2>5. outcome'[r].times = outcome[r].times + 0
    BY <2>3, <2>4
  <2> QED
    BY <2>1, <2>2, <2>3, <2>5, Stages DEF Moves, Statuses
<1>4. CASE ServeBlocked(r) \/ ServeShort(r) \/ ServeDeferred(r) \/ NoKey(r) \/ CallFails(r)
           \/ EndStream(r) \/ Withhold(r) \/ ServeAnswer(r)
  <2>1. at[r] # "done"
    BY <1>4 DEF ServeBlocked, ServeShort, ServeDeferred, Unanswered, NoKey, CallFails,
                EndStream, Withhold, ServeAnswer
  <2>2. ASSUME NEW status \in {200, 202, 401, 402, 429, 500, 502, 503}, NEW path, NEW c,
               Record(r, status, path, c)
        PROVE  Moves(r)
    BY <2>1, <2>2, RecordIsMove DEF Statuses
  <2>3. CASE ServeBlocked(r) \/ ServeDeferred(r)
    BY <2>2, <2>3 DEF ServeBlocked, ServeDeferred
  <2>4. CASE Withhold(r) \/ ServeAnswer(r)
    BY <2>2, <2>4 DEF Withhold, ServeAnswer
  <2>5. CASE ServeShort(r)
    <3>1. PICK c : Record(r, 200, "short", c)
      BY <2>5 DEF ServeShort
    <3> QED
      BY <2>2, <3>1
  <2>6. CASE EndStream(r)
    <3>1. PICK u \in BOOLEAN :
             Record(r, 200, "stream", Priced([ctx[r] EXCEPT !.booked = @ + 1, !.usage = u]))
      BY <2>6 DEF EndStream
    <3> QED
      BY <2>2, <3>1
  <2>7. CASE NoKey(r) \/ CallFails(r)
    BY <2>2, <2>7 DEF NoKey, CallFails
  <2> QED
    BY <1>4, <2>3, <2>4, <2>5, <2>6, <2>7
<1>5. CASE RefuseEmptyHit(r) \/ RunCascade(r) \/ ServeAgent(r) \/ ServeCall(r) \/ Call(r)
           \/ OpenStream(r)
  <2>1. at[r] # "done" /\ outcome' = outcome /\ want' = want
    BY <1>5 DEF RefuseEmptyHit, RunCascade, ServeAgent, ServeCall, Unanswered, Call,
                OpenStream, Unshared
  <2>2. \E s \in {"core", "redactAnswer", "call", "streaming"} : at' = [at EXCEPT ![r] = s]
    BY <1>5 DEF RefuseEmptyHit, RunCascade, ServeAgent, ServeCall, Call, OpenStream, Goto
  <2> QED
    BY <2>1, <2>2, Stages DEF Moves
<1>6. CASE RedactAnswer(r) \/ GuardAnswer(r) \/ GateTools(r) \/ Format(r) \/ Observe(r)
           \/ Store(r)
  <2>1. at[r] # "done" /\ outcome' = outcome /\ want' = want
    BY <1>6 DEF RedactAnswer, GuardAnswer, GateTools, Format, Observe, Store, Answers,
                Unshared
  <2>2. \E s \in Whole : at' = [at EXCEPT ![r] = s]
    BY <1>6 DEF RedactAnswer, GuardAnswer, GateTools, Format, Reask, Observe, Store,
                Answers, Goto
  <2> QED
    BY <2>1, <2>2, Stages DEF Moves
<1> QED
  BY <1>1, <1>2, <1>3, <1>4, <1>5, <1>6 DEF Step

LEMMA OnceKeeps == LifeInv /\ Once /\ [Next]_vars => Once'
<1> SUFFICES ASSUME LifeInv, Once, [Next]_vars PROVE Once'
  OBVIOUS
<1>1. CASE \E r \in Requests : Step(r)
  <2>1. PICK r \in Requests : Moves(r)
    BY <1>1, StepMoves DEF LifeInv
  <2>2. want' \in [Requests -> Wants \cup {NoWant}]
    BY <2>1 DEF Once, Moves
  <2>3. ASSUME NEW q \in Requests
        PROVE  /\ outcome'[q].times \in {0, 1} /\ outcome'[q].status \in Statuses
               /\ at'[q] # "done" => outcome'[q].times = 0
    <3>1. /\ outcome[q].times \in {0, 1} /\ outcome[q].status \in Statuses
          /\ at[q] # "done" => outcome[q].times = 0
      BY DEF Once
    <3>2. CASE q = r
      BY <2>1, <3>1, <3>2 DEF Moves, LifeInv, LifeType
    <3>3. CASE q # r
      BY <2>1, <3>1, <3>3 DEF Moves, LifeInv, LifeType
    <3> QED
      BY <3>2, <3>3
  <2> QED
    BY <2>2, <2>3 DEF Once
<1>2. CASE Reconfigure \/ UNCHANGED vars
  BY <1>2 DEF Reconfigure, vars, Once
<1> QED
  BY <1>1, <1>2 DEF Next

\* Type correctness; no path of a request calls _record_outcome twice.
THEOREM TypeCorrect == Spec => []TypeOK
<1>1. Init => Once
  BY DEF Init, Once, Unrecorded, Statuses
<1>2. LifeInv /\ Once => TypeOK
  <2> SUFFICES ASSUME LifeInv, Once PROVE TypeOK
    OBVIOUS
  <2>1. ASSUME NEW r \in Requests
        PROVE  /\ ctx[r].answer \in Answer \cup {NoAnswer}
               /\ ctx[r].sent \subseteq {"raw", "poisoned"}
               /\ {ctx[r].booked, ctx[r].answered, ctx[r].priced} \subseteq Nat
    BY DEF LifeInv, LifeType, Context
  <2> QED
    BY <2>1 DEF TypeOK, Once, Statuses, LifeInv, LifeType
<1> QED
  BY <1>1, <1>2, AlwaysLifeInv, OnceKeeps, PTL DEF Spec

-----------------------------------------------------------------------------
(* What follows *)

\* Whichever of bypass, hit, deferral, cascade, agent, call and repair answered a
\* request, and whatever failed before, it is answered at most once, and the cost
\* _record_outcome was told covers every call paid for it.
THEOREM AlwaysAnsweredOnceAndPriced == Spec => []AnsweredOnceAndPriced
<1>1. LifeInv => AnsweredOnceAndPriced
  <2> SUFFICES ASSUME LifeInv, NEW r \in Requests
               PROVE  /\ ctx[r].answered <= 1
                      /\ outcome[r].path \in {"blocked", "short", "deferred", "gate"} =>
                            ctx[r].answered = 0
                      /\ outcome[r].path \in {"answer", "stream", "deferred", "withheld"} =>
                            outcome[r].priced = ctx[r].booked
    BY DEF AnsweredOnceAndPriced, OneAnswer, ServedIsPriced
  <2>1. Flow(at[r], want[r], ctx[r], outcome[r]) /\ at[r] \in StageNames
    BY DEF LifeInv, LifeType, Local
  <2>2. CASE at[r] = "done"
    BY <2>1, <2>2 DEF Flow
  <2>3. CASE at[r] # "done"
    <3>1. outcome[r].path = "none"
      BY <2>1, <2>3 DEF Flow
    <3>2. ctx[r].answered <= 1
      BY <2>1, <2>3, Stages DEF Flow
    <3> QED
      BY <3>1, <3>2
  <2> QED
    BY <2>2, <2>3
<1> QED
  BY <1>1, AlwaysLifeInv, PTL

\* Under G29's mask or block no prompt sent for an answer holds the caller's
\* personal data, under G31's strip or block none holds an instruction from a
\* document, whichever path sends it, an agent's and a repair's among them.
THEOREM PromptsAlwaysClean ==
    ASSUME RepairApart
    PROVE  Spec => []PromptsAreClean
<1>1. LifeInv => PromptsAreClean
  BY DEF LifeInv, Local, Clean, PromptsAreClean
<1> QED
  BY <1>1, AlwaysLifeInv, PTL

\* A 200 carries nothing its own configuration withholds, however the tenant's
\* configuration changes while the request runs.
THEOREM ServedAlwaysSafe ==
    ASSUME RepairApart, "g32" \notin Faults
    PROVE  Spec => []ServedIsSafe
<1>1. LifeInv => ServedIsSafe
  BY DEF LifeInv, Local, Safe, ServedIsSafe, Answered
<1> QED
  BY <1>1, AlwaysLifeInv, PTL

\* What enters the cache is the model's own answer, not a refusal, not an agent's,
\* not empty, without its caller's data or placeholders, and past the gates of the
\* request that stored it.
THEOREM StoredAlwaysFit ==
    ASSUME RepairApart
    PROVE  Spec => StoredIsFit
<1>1. ASSUME LifeInv, [Next]_vars, NEW k \in Keys, cache'[k] # cache[k]
      PROVE  /\ cache'[k].by = "model" /\ ~cache'[k].empty
             /\ cache'[k].text \notin {"raw", "held"}
             /\ \E r \in Requests :
                   /\ at[r] = "store" /\ at'[r] = "serve"
                   /\ conf[r].tools = "block" => ~cache'[k].tool
                   /\ conf[r].scan = "block" => ~cache'[k].flagged
  <2>1. PICK r \in Requests : Store(r)
    BY <1>1, OnlyStoreWrites
  <2>2. /\ at[r] = "store" /\ Storable(r)
        /\ cache' = [cache EXCEPT ![want[r].key] = ctx[r].answer]
    <3>1. cache' # cache
      BY <1>1
    <3> QED
      BY <2>1, <3>1 DEF Store
  <2>3. cache'[k] = ctx[r].answer
    BY <1>1, <2>2 DEF LifeInv, LifeType
  <2>4. at'[r] = "serve"
    BY <1>1, <2>1 DEF LifeInv, LifeType, Store, Goto
  <2>5. /\ Clean("store", want[r], conf[r], ctx[r])
        /\ Safe("store", conf[r], ctx[r], outcome[r])
    BY <1>1, <2>2 DEF LifeInv, Local
  <2>6. ~ctx[r].noCache /\ ~ctx[r].dispatched /\ ~ctx[r].answer.empty
    BY <2>2 DEF Storable
  <2>7. ctx[r].answer.by = "model" /\ ctx[r].answer.text \notin {"raw", "held"}
    BY <2>5, <2>6 DEF Clean
  <2>8. /\ conf[r].tools = "block" => ~ctx[r].answer.tool
        /\ conf[r].scan = "block" => ~ctx[r].answer.flagged
    BY <2>5 DEF Safe
  <2> QED
    BY <2>2, <2>3, <2>4, <2>6, <2>7, <2>8
<1>2. LifeInv /\ [Next]_vars =>
        [\A k \in Keys : cache'[k] # cache[k] =>
            /\ cache'[k].by = "model" /\ ~cache'[k].empty
            /\ cache'[k].text \notin {"raw", "held"}]_cache
  BY <1>1
<1>3. LifeInv /\ [Next]_vars =>
        [\A k \in Keys : cache'[k] # cache[k] =>
            \E r \in Requests :
               /\ at[r] = "store" /\ at'[r] = "serve"
               /\ conf[r].tools = "block" => ~cache'[k].tool
               /\ conf[r].scan = "block" => ~cache'[k].flagged]_cache
  BY <1>1
<1> QED
  BY <1>2, <1>3, AlwaysLifeInv, PTL DEF Spec, StoredIsFit, StoredIsShareable, StoredIsGated
=============================================================================
