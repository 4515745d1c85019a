----------------------------- MODULE CacheFloor -----------------------------
(***************************************************************************)
(* The prefix-cache floor (middleware/cache_floor.py) and the stages that   *)
(* meet it, in the pipeline's order.  A provider caches a prompt's span     *)
(* (tools and system messages, or the whole prompt) only from Floor tokens  *)
(* up, and says nothing when it declines: reserve() measures the span and   *)
(* its reuse once, and G01, G08 and G19 weigh each shrink against it.  A    *)
(* message is its token count; the snapshot of content fingerprints is the  *)
(* set of messages whose content still matches it.                          *)
(***************************************************************************)
EXTENDS Integers, FiniteSets, FiniteSetsExt

CONSTANTS
    Floor,          \* min_cacheable_prompt_tokens
    Margin,         \* cacheable_prefix_margin, in tokens above Floor
    Rates,          \* the providers' [read, write] multipliers, in percent
    Assumed,        \* assumed_prefix_reuse
    MaxSeen,        \* bound: sightings of the span in one window
    SystemSizes, ToolSizes, OtherSize  \* token counts of the caller's prompt

ASSUME FloorTypes ==
    /\ {Floor, Margin, Assumed, MaxSeen, OtherSize} \subseteq Nat
    /\ Rates \subseteq [read : Nat, write : Nat]
    /\ SystemSizes \subseteq Nat /\ ToolSizes \subseteq Nat

VARIABLES
    stage,      \* the next stage of the request
    size,       \* tokens of each message, 0 for one that is absent
    tools,      \* tokens of the tool definitions
    fl,         \* ctx.cache_floor
    stale,      \* ctx.cache_floor_stale_snapshot
    seen,       \* the Redis counter of this span's sightings
    opts,       \* the prompt as sent and the configuration it runs under
    composed,   \* ghost: a system prompt was replaced by its layers
    reserved    \* ghost: the messages the reservation was taken over

floorVars == <<stage, size, tools, fl, stale, seen, opts, composed, reserved>>

Messages == {"system", "assistant", "user", "document"}
RoleOf(m) == IF m = "document" THEN "system" ELSE m
Total(ids, s) ==
    LET Of(m) == IF m \in ids THEN s[m] ELSE 0
    IN  Of("system") + Of("assistant") + Of("user") + Of("document")
Inert == [active |-> FALSE, reuse |-> 1, snapshot |-> {}, roles |-> {}]

(* Shrunk versions of some messages: a compressor never returns a longer one. *)
Shrunk(ids, s) ==
    LET present == {m \in ids : s[m] > 0}
        to == {f \in [present -> 1..Max({s[m] : m \in Messages})] : \A m \in present : f[m] <= s[m]}
    IN  {[m \in Messages |-> IF m \in present THEN f[m] ELSE s[m]] : f \in to}

Sent(o) == [system |-> o.sent, assistant |-> OtherSize, user |-> OtherSize, document |-> 0]

FloorInit ==
    /\ stage = "reserve" /\ fl = Inert /\ stale = FALSE /\ composed = FALSE /\ reserved = {}
    /\ opts \in [rate : Rates, whole : BOOLEAN, system : BOOLEAN, layers : BOOLEAN,
                 sent : SystemSizes, tools : ToolSizes]
    /\ size = Sent(opts) /\ tools = opts.tools /\ seen = 0

-----------------------------------------------------------------------------
(* Spans and arithmetic. *)

Covered == {m \in fl.snapshot : RoleOf(m) \in fl.roles}
SpanTokens(s, t) == Total(Covered, s) + t

KeepCost(tokens) == (opts.rate.write + (fl.reuse - 1) * opts.rate.read) * tokens

(* Arm A against the arm the group can reach: down to the floor, or preserved. *)
CompressIsCheaper(before, after, canFloor) ==
    \/ before < Floor
    \/ after >= Floor
    \/ 100 * fl.reuse * after <= KeepCost(IF canFloor THEN Floor ELSE before)

Unmeasurable(before) == fl.active /\ before <= 0
AllowsShrink(before, after, canFloor) ==
    ~fl.active \/ (~Unmeasurable(before) /\ CompressIsCheaper(before, after, canFloor))

(* Some rate both compresses the shrinkable part and stays above the floor. *)
TargetRate(shrinkable, fixed) == 0 < Floor + Margin - fixed /\ Floor + Margin - fixed < shrinkable

BugNoResnapshot == fl' = [fl EXCEPT !.snapshot = @ \ {"system"}]
Resnapshot == fl' = [fl EXCEPT !.snapshot = Covered]

Rewrite(s) ==
    /\ size' = s
    /\ IF s = size THEN UNCHANGED fl ELSE Resnapshot

-----------------------------------------------------------------------------
(* The request's stages. *)

(* reserve: the span is everything, or the caller's system messages.  Nothing is
   reserved with the knob off, without a known reuse or under the floor. *)
Reserve ==
    LET span == IF opts.whole THEN {"system", "assistant", "user"} ELSE {"system"}
        tokens == Total(span, size) + tools
    IN  /\ stage = "reserve" /\ stage' = "compose"
        /\ \/ UNCHANGED <<fl, seen, reserved>>                  \* off, or Redis fails
           \/ /\ tokens < Floor
              /\ UNCHANGED <<fl, seen, reserved>>
           \/ /\ tokens >= Floor /\ seen < MaxSeen
              /\ seen' = seen + 1
              /\ reserved' = span
              /\ fl' = [active |-> TRUE, reuse |-> Max({1, Assumed, seen'}), snapshot |-> span,
                        roles |-> {RoleOf(m) : m \in span}]
        /\ UNCHANGED <<size, tools, stale, opts, composed>>

(* G01's layered composition replaces the system prompt, with no new snapshot. *)
ComposeLayers ==
    /\ stage = "compose" /\ stage' = "G01"
    /\ \/ UNCHANGED <<size, fl, composed>>
       \/ /\ opts.layers
          /\ composed' = TRUE
          /\ \E n \in SystemSizes : size' = [size EXCEPT !["system"] = n]
          /\ fl' = [fl EXCEPT !.snapshot = @ \ {"system"}]
    /\ UNCHANGED <<tools, stale, seen, opts, reserved>>

Compressible == {"assistant", "user"} \cup (IF opts.system THEN {"system"} ELSE {})

(* What G01 sends of the candidate s: s itself, the span at a milder rate (the
   sidecar may miss it, or its answer be refused), or the span as it was. *)
Weighed(s) ==
    LET before == SpanTokens(size, tools)
        after == SpanTokens(s, tools)
        inSpan == {m \in Covered : s[m] # size[m]}
        whole == [m \in Messages |-> IF m \in inSpan THEN size[m] ELSE s[m]]
        shrinkable == Total(inSpan, size)
        milder == IF TargetRate(shrinkable, before - shrinkable)
                    THEN Shrunk(inSpan, whole) ELSE {whole}
        Lands(t) == t # whole /\ SpanTokens(t, tools) >= Floor
        fallback == IF AllowsShrink(before, after, FALSE) THEN s ELSE whole
    IN  IF AllowsShrink(before, after, TRUE) THEN {s}
        ELSE {IF Lands(t) THEN t ELSE fallback : t \in milder}

G01 ==
    /\ stage = "G01" /\ stage' = "G20"
    /\ \E s \in Shrunk(Compressible, size) :
          /\ stale' = (stale \/ (s # size /\ Unmeasurable(SpanTokens(size, tools))))
          /\ \E t \in Weighed(s) : Rewrite(t)
    /\ UNCHANGED <<tools, seen, opts, composed, reserved>>

(* G20 swaps the first system message for its template, whatever its size. *)
G20 ==
    /\ stage = "G20" /\ stage' = "G07"
    /\ \/ UNCHANGED <<size, fl>>
       \/ \E n \in SystemSizes : Rewrite([size EXCEPT !["system"] = n])
    /\ UNCHANGED <<tools, stale, seen, opts, composed, reserved>>

(* G07 adds what it retrieved as a system message the reservation never saw. *)
G07 ==
    /\ stage = "G07" /\ stage' = "G08"
    /\ size' \in {size, [size EXCEPT !["document"] = OtherSize]}
    /\ UNCHANGED <<tools, fl, stale, seen, opts, composed, reserved>>

(* G08 drops tools or trims their descriptions: all of it, or none. *)
G08 ==
    /\ stage = "G08" /\ stage' = "G28"
    /\ \E t \in 0..tools :
          LET before == SpanTokens(size, tools)
              allowed == AllowsShrink(before, SpanTokens(size, t), FALSE)
          IN  /\ tools' = IF allowed THEN t ELSE tools
              /\ stale' = (stale \/ (t # tools /\ Unmeasurable(before)))
    /\ UNCHANGED <<size, fl, seen, opts, composed, reserved>>

(* G28 puts references in the place of large blocks. *)
G28 ==
    /\ stage = "G28" /\ stage' = "G19"
    /\ \E ids \in SUBSET Compressible :
          Rewrite([m \in Messages |-> IF m \in ids /\ size[m] > 1 THEN 1 ELSE size[m]])
    /\ UNCHANGED <<tools, stale, seen, opts, composed, reserved>>

(* G19 prunes messages of every role; refused, it restores what is in the span,
   or everything when it cannot tell. *)
G19 ==
    /\ stage = "G19" /\ stage' = "done"
    /\ \E s \in Shrunk(Messages, size) :
          LET before == SpanTokens(size, tools)
              lost == stale \/ Unmeasurable(before)
              kept == IF lost THEN Messages ELSE Covered
          IN  /\ Rewrite(IF AllowsShrink(before, SpanTokens(s, tools), FALSE) THEN s
                         ELSE [m \in Messages |-> IF m \in kept THEN size[m] ELSE s[m]])
              /\ stale' = (stale \/ (s # size /\ Unmeasurable(before)))
    /\ UNCHANGED <<tools, seen, opts, composed, reserved>>

(* The same prompt again, in the same window or in a new one. *)
SentAgain ==
    /\ stage = "done" /\ stage' = "reserve"
    /\ seen' \in {seen, 0}
    /\ fl' = Inert /\ stale' = FALSE /\ composed' = FALSE /\ reserved' = {}
    /\ size' = Sent(opts) /\ tools' = opts.tools
    /\ UNCHANGED opts

FloorNext ==
    Reserve \/ ComposeLayers \/ G01 \/ G20 \/ G07 \/ G08 \/ G28 \/ G19 \/ SentAgain

FloorSpec == FloorInit /\ [][FloorNext]_floorVars

-----------------------------------------------------------------------------
(* What the reserved span costs as it is: N calls in full when it is under the
   floor, otherwise one write and N - 1 reads. *)
SpanCost ==
    LET tokens == Total(reserved, size) + tools
    IN  IF tokens < Floor THEN 100 * fl.reuse * tokens ELSE KeepCost(tokens)

(* No shrink of G01, G08 or G19 makes the reserved span dearer over its reuses
   than it was when the group met it, whatever the groups before it rewrote
   (cache_floor.allows_shrink and resnapshot); a request whose system prompt
   was composed from layers is outside this. *)
ShrinksPayOff ==
    [][(stage \in {"G01", "G08", "G19"} /\ fl.active /\ ~composed)
        => (SpanCost' <= SpanCost)]_floorVars
=============================================================================
