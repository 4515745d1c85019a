---------------------------- MODULE ContextBudget ----------------------------
(***************************************************************************)
(* What the pipeline takes out of a long conversation: G07's injection,     *)
(* G10's sliding window, G22's deduplication, G26's budget ladder with its  *)
(* cache of summaries, and G21's last rearrangement, for a client that      *)
(* resends a growing history.  A message is its role, its place in the      *)
(* conversation (id), what it says (text) and its size; a summary is the    *)
(* set of messages the summariser was shown.                                *)
(***************************************************************************)
EXTENDS Places, SequencesExt, FiniteSetsExt

CONSTANTS
    Sayings,          \* what a user or an assistant may say
    WindowKeep,     \* G10: window * 2
    WindowShown,    \* G10: turns its summariser is shown
    BudgetKeep,     \* G26: keep_recent_turns * 2
    Trigger, Target,\* G26: tokens at which it compacts, and where it stops
    SummaryTurns, SummaryInput, Lookback,  \* G26's summariser
    Plans,       \* what a configuration may enable: groups, and rungs of G26
    MaxMessages     \* bound: the conversation's length

ASSUME BudgetTypes ==
    /\ Sayings # {} /\ Sayings \cap {"call", "result", "retrieved"} = {}
    /\ {WindowKeep, BudgetKeep} \subseteq Int    \* a window of none or fewer trims nothing
    /\ {WindowShown, SummaryTurns} \subseteq Nat \ {0}
    /\ {Trigger, Target, SummaryInput, Lookback, MaxMessages} \subseteq Nat

VARIABLES
    talk,       \* the conversation, as the client sends it
    prompt,     \* ctx.messages
    turnAt,     \* the next stage of the request
    enabled,    \* what the tenant's configuration enables
    summaries,  \* G26's cached summaries, in Redis and in the process
    lossy       \* ghost: the summariser failed or saw too little, or G26 dropped

budgetVars == <<talk, prompt, turnAt, enabled, summaries, lossy>>

Say(role, text, calls, weight) ==
    [role |-> role, id |-> 0, text |-> text, calls |-> calls, size |-> weight, covers |-> {}]
SystemPrompt == Say("system", "instructions", FALSE, 1)
Document == Say("system", "retrieved", FALSE, 1)
Relocated == Say("system", "volatile values", FALSE, 1)
SummaryOf(ids) ==
    [role |-> "system", id |-> 0, text |-> "summary", calls |-> FALSE, size |-> 1, covers |-> ids]

ToolCall == Say("assistant", "call", TRUE, 1)
Result == Say("tool", "result", FALSE, 2)

(* What a client adds: a message, or a tool call with its one or two results. *)
Exchanges ==
    {<<Say("user", x, FALSE, 2)>> : x \in Sayings}
        \cup {<<Say("assistant", x, FALSE, 2)>> : x \in Sayings}
        \cup {<<ToolCall, Result>>, <<ToolCall, Result, Result>>}
Renumbered(s, n) == [i \in DOMAIN s |-> [s[i] EXCEPT !.id = n + i]]

Tokens(s) == FoldSeq(LAMBDA m, n : m.size + n, 0, s)
Ids(s) == {s[i].id : i \in DOMAIN s} \ {0}
From(s, i) == SubSeq(s, i, Len(s))

Systems(s) == Taken(s, {i \in DOMAIN s : s[i].role = "system"})
Turns(s) == Taken(s, {i \in DOMAIN s : s[i].role # "system"})

BudgetInit ==
    /\ talk = Renumbered(<<Say("user", CHOOSE x \in Sayings : TRUE, FALSE, 2)>>, 0)
    /\ prompt = << >> /\ turnAt = "client" /\ summaries = {} /\ lossy = FALSE
    /\ enabled \in Plans

-----------------------------------------------------------------------------
(* safe_window_split: the cut moves back over tool results to the turn that
   asked for them; 0 cuts nothing, and nor does a window that keeps none. *)
BugPlainSplit(turns, keep) == Max({0, Len(turns) - keep})
SafeWindowSplit(turns, keep) ==
    Max({0} \cup {j \in 1..(Len(turns) - keep) : keep > 0 /\ turns[j + 1].role # "tool"})

BeforeLastUser(s, inserted) ==
    LET users == {i \in DOMAIN s : s[i].role = "user"}
        at == IF users = {} THEN Len(s) + 1 ELSE Max(users)
    IN  SubSeq(s, 1, at - 1) \o inserted \o From(s, at)

(* The client continues the conversation and sends all of it; G07 adds what
   it retrieved. *)
ClientSends ==
    /\ turnAt = "client" /\ turnAt' = "G10"
    /\ \E more \in Exchanges :
          /\ Len(talk) + Len(more) <= MaxMessages
          /\ talk' = talk \o Renumbered(more, Len(talk))
    /\ prompt' = BeforeLastUser(<<SystemPrompt>> \o talk',
                                IF "G07" \in enabled THEN <<Document>> ELSE << >>)
    /\ lossy' = FALSE
    /\ UNCHANGED <<enabled, summaries>>

(* G10: a failed summary takes the place of the old turns all the same. *)
SlidingWindow ==
    LET turns == Turns(prompt)
        start == SafeWindowSplit(turns, WindowKeep)
        old == SubSeq(turns, 1, start)
    IN  /\ turnAt = "G10" /\ turnAt' = "G22"
        /\ \/ /\ "G10" \notin enabled \/ start = 0
              /\ UNCHANGED <<prompt, lossy>>
           \/ /\ "G10" \in enabled /\ start > 0
              /\ \E answered \in BOOLEAN :
                    LET shown == IF answered THEN Ids(SubSeq(old, 1, Min({WindowShown, start}))) ELSE {}
                    IN  /\ prompt' = Systems(prompt) \o <<SummaryOf(shown)>> \o From(turns, start + 1)
                        /\ lossy' = (lossy \/ shown # Ids(old))
        /\ UNCHANGED <<talk, enabled, summaries>>

(* G22: in a run of like turns of one role the last stays; a run that another
   role ends keeps them all. *)
Alike(m, n) == m.role = n.role /\ m.text = n.text
Repeats(s) ==
    LET Like(j) == s[j].role \in {"user", "assistant"} /\ Alike(s[j], s[j + 1])
        Ends(b) == b = Len(s) \/ (s[b + 1].role = s[b].role /\ ~Alike(s[b], s[b + 1]))
    IN  {i \in DOMAIN s : \E b \in (i + 1)..Len(s) : Ends(b) /\ \A j \in i..(b - 1) : Like(j)}
Deduplicated(s) == Taken(s, DOMAIN s \ Repeats(s))

Deduplicate ==
    /\ turnAt = "G22" /\ turnAt' = "G26"
    /\ prompt' = IF "G22" \in enabled THEN Deduplicated(prompt) ELSE prompt
    /\ UNCHANGED <<talk, enabled, summaries, lossy>>

-----------------------------------------------------------------------------
(* G26's rungs, each on a copy of the span before the protected tail. *)

(* What a message says, wherever it stands; every tool exchange differs. *)
Content(m) == <<m.role, m.text, IF m.calls \/ m.role = "tool" THEN m.id ELSE 0>>

(* Repeats go, unless that would join two turns of one role; results are cut. *)
RungPrune(span) ==
    LET repeated(i) == \E j \in 1..(i - 1) : Content(span[j]) = Content(span[i])
        welds(last, i) == last > 0 /\ i < Len(span) /\ span[last].role = span[i + 1].role
        keeps(last, i) == ~repeated(i) \/ welds(last, i)
        last[i \in 0..Len(span)] ==    \* the last place kept of the first i
            IF i = 0 THEN 0 ELSE IF keeps(last[i - 1], i) THEN i ELSE last[i - 1]
        cut == [i \in DOMAIN span |-> IF span[i].role = "tool" THEN [span[i] EXCEPT !.size = 1] ELSE span[i]]
    IN  Taken(cut, {i \in DOMAIN span : keeps(last[i - 1], i)})

RungCompress(span) ==
    [i \in DOMAIN span |-> IF span[i].role = "tool" THEN span[i] ELSE [span[i] EXCEPT !.size = 1]]

(* Oldest first, and with a turn the results it asked for. *)
RungDrop(span, excess) ==
    LET cuts == {k \in 0..Len(span) : k \in {0, Len(span)} \/ span[k + 1].role # "tool"}
        enough == {k \in cuts : Tokens(SubSeq(span, 1, k)) >= excess}
    IN  From(span, (IF enough = {} THEN Len(span) ELSE Min(enough)) + 1)

KeyOf(span, n) == [i \in 1..n |-> Content(span[i])]

(* _cached_summary_get: Redis first when it is up, then the process's own copy. *)
Cached(span, n, up) ==
    LET In(at) == {e \in summaries : e.key = KeyOf(span, n) /\ e.at = at}
    IN  IF up /\ In("redis") # {} THEN In("redis") ELSE In("local")

BugSkipsOne(n) == n + 2
Since(n) == n + 1

(* _summary_for_span: the cached summary of the span, or one of the newest cached
   prefix with what came after it, as far as the summariser's limits show it. *)
Summarised(span, up) ==
    LET exact == Cached(span, Len(span), up)
        known == {n \in Max({1, Len(span) - Lookback})..(Len(span) - 1) : Cached(span, n, up) # {}}
        base == Max(known)
        e == CHOOSE c \in Cached(span, base, up) : TRUE
        prior == IF known = {} THEN << >> ELSE <<SummaryOf(e.covers)>>
        input == prior \o From(span, IF known = {} THEN 1 ELSE Since(base))
        first == SubSeq(input, 1, Min({SummaryTurns, Len(input)}))
        fits == {k \in 1..Len(first) : k = Len(first) \/ Tokens(From(first, k)) <= SummaryInput}
        shown == From(first, Min(fits))
    IN  IF exact # {} THEN [(CHOOSE c \in exact : TRUE) EXCEPT !.at = "hit"]
        ELSE [at |-> "new", key |-> KeyOf(span, Len(span)),
              covers |-> Ids(shown) \cup UNION {shown[i].covers : i \in DOMAIN shown},
              cut |-> shown # input \/ (known # {} /\ e.cut)]

StoreSummary(e, up) ==
    LET at == IF up THEN "redis" ELSE "local"
    IN  summaries' = IF e.at = "hit" THEN summaries
                     ELSE {o \in summaries : o.at # at \/ o.key # e.key} \cup {[e EXCEPT !.at = at]}

(* The prompt again with the span as the rungs left it, cut further while it is
   over the target. *)
Finish(span, tail, summary, rest) ==
    LET current == Tokens(prompt) - Tokens(span) + Tokens(summary) + Tokens(rest)
        left == IF "drop" \in enabled /\ current > Target THEN RungDrop(rest, current - Target) ELSE rest
    IN  /\ prompt' = IF summary \o left = span THEN prompt
                      ELSE Systems(prompt) \o summary \o left \o tail
        /\ lossy' = (lossy \/ left # rest \/ \E i \in DOMAIN summary : summary[i].text = "cut")

(* _compact: nothing below the trigger or without a clean cut; the rungs run in
   order while the prompt is over its target. *)
Compact ==
    LET turns == Turns(prompt)
        cut == SafeWindowSplit(turns, BudgetKeep)
        span == SubSeq(turns, 1, cut)
        tail == From(turns, cut + 1)
        Over(s) == Tokens(prompt) - Tokens(span) + Tokens(s) > Target
        pruned == IF "prune" \in enabled /\ Over(span) THEN RungPrune(span) ELSE span
        compressed == IF "compress" \in enabled /\ Over(pruned) THEN RungCompress(pruned) ELSE pruned
    IN  /\ turnAt = "G26" /\ turnAt' = "G21"
        /\ \/ /\ Tokens(prompt) <= Trigger \/ cut = 0
              /\ UNCHANGED <<prompt, summaries, lossy>>
           \/ /\ Tokens(prompt) > Trigger /\ cut > 0
              /\ IF "summarize" \in enabled /\ Over(compressed)
                   THEN \/ \E up \in BOOLEAN :
                             LET e == Summarised(span, up)
                                 m == [SummaryOf(e.covers) EXCEPT !.text = IF e.cut THEN "cut" ELSE "summary"]
                             IN  /\ StoreSummary(e, up)
                                 /\ IF m.size < Tokens(compressed) THEN Finish(span, tail, <<m>>, << >>)
                                    ELSE Finish(span, tail, << >>, compressed)
                        \/ /\ Finish(span, tail, << >>, compressed)       \* it fails
                           /\ UNCHANGED summaries
                   ELSE Finish(span, tail, << >>, compressed) /\ UNCHANGED summaries
        /\ UNCHANGED <<talk, enabled>>

(* G21 puts retrieved documents back before the last user turn, and the other
   system messages first, their volatile values last. *)
AlignPrefix ==
    LET retrieved == {i \in DOMAIN prompt : prompt[i].text = "retrieved"}
        placed == BeforeLastUser(Taken(prompt, DOMAIN prompt \ retrieved), Taken(prompt, retrieved))
        first == {i \in DOMAIN placed : placed[i].role = "system" /\ placed[i].text # "retrieved"}
        prefix == Taken(placed, first)
        variable == Taken(placed, DOMAIN placed \ first)
    IN  /\ turnAt = "G21" /\ turnAt' = "sent"
        /\ prompt' \in {prompt, placed, prefix \o variable, prefix \o variable \o <<Relocated>>}
        /\ UNCHANGED <<talk, enabled, summaries, lossy>>

(* The answer comes back; Redis or the process may lose its summaries. *)
ClientGetsAnswer ==
    /\ turnAt = "sent" /\ turnAt' = "client"
    /\ \E at \in {"none", "redis", "local"} : summaries' = {e \in summaries : e.at # at}
    /\ prompt' = << >> /\ lossy' = FALSE
    /\ UNCHANGED <<talk, enabled>>

BudgetNext ==
    ClientSends \/ SlidingWindow \/ Deduplicate \/ Compact \/ AlignPrefix \/ ClientGetsAnswer

BudgetSpec == BudgetInit /\ [][BudgetNext]_budgetVars

-----------------------------------------------------------------------------
(* Whatever the stages cut, every tool result in the prompt follows the turn that
   asked for it, with only results of that turn between, and every call keeps its
   results (history_utils.safe_window_split, _rung_prune, _rung_drop,
   insert_before_last_user): a provider rejects the request otherwise. *)
ToolPairsIntact ==
    turnAt # "client" =>
        \A i \in DOMAIN prompt :
            /\ prompt[i].role = "tool" =>
                  /\ i > 1 /\ (prompt[i - 1].calls \/ prompt[i - 1].role = "tool")
                  /\ prompt[i - 1].id = prompt[i].id - 1
            /\ (prompt[i].id > 0 /\ prompt[i].id < Len(talk) /\ talk[prompt[i].id + 1].role = "tool")
                  => i < Len(prompt) /\ prompt[i + 1].id = prompt[i].id + 1

(* A message that is not in the prompt any more is in a summary of it, or says
   what another one says that is, request after request and through the cache of
   summaries, unless the summariser failed or could not be shown everything, or
   the drop rung is on (_summary_for_span: "nothing from the earlier part is
   lost"). *)
NothingSilentlyLost ==
    turnAt = "sent" /\ ~lossy =>
        LET held == Ids(prompt) \cup UNION {prompt[i].covers : i \in DOMAIN prompt}
        IN  \A i \in DOMAIN talk :
                \E j \in held : Content(talk[i]) = Content(talk[j])

(* The stages that shorten a conversation, in any order and over any number of its
   turns, leave a prompt that a provider takes and that still holds what was said. *)
HistoryHolds == ToolPairsIntact /\ NothingSilentlyLost
=============================================================================
