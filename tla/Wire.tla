-------------------------------- MODULE Wire --------------------------------
(***************************************************************************)
(* The wire protocols: a provider's answer on its way to a client of the    *)
(* OpenAI, Anthropic or Gemini API (main._stream_response, G32's gate on a  *)
(* stream, main._translate_stream and the stream translators), and an       *)
(* Anthropic or Gemini client's tool history on its way in (protocols).     *)
(* A piece of text or of a call's arguments is its number; JSON, SSE        *)
(* framing, images and cache markers are left out.                          *)
(***************************************************************************)
EXTENDS Places, SequencesExt

CONSTANTS
    ToolNames, Denied,     \* tools, and those the tenant's policy denies
    MaxText, MaxCalls, MaxArgs,   \* bounds: pieces of an answer, its calls, their arguments
    MaxInbound             \* bound: messages of an inbound history

ASSUME WireTypes ==
    /\ "none" \notin ToolNames             \* it stands for a name that is missing
    /\ {MaxText, MaxCalls, MaxArgs, MaxInbound} \subseteq Nat

VARIABLES
    wire,      \* the client's protocol, the route's kind, G32's mode, the provider's answer
    sent,      \* what the provider has sent of the answer
    gate,      \* StreamToolGate._verdicts, per call index
    tr,        \* the stream translator
    received,  \* what the client has made of the events it got
    flow,      \* "open", "ended" or "failed"
    inbound,   \* the client's tool history, as parsed so far
    parsed     \* the OpenAI messages made of it

streamVars == <<wire, sent, gate, tr, received, flow>>
inVars == <<inbound, parsed>>
wireVars == <<streamVars, inVars>>

WireAnswers ==
    [text : 0..MaxText,
     calls : UNION {[1..k -> [name : ToolNames, args : 0..MaxArgs]] : k \in 0..MaxCalls}]

NoClient == [text |-> << >>, calls |-> << >>, stop |-> "none", usage |-> FALSE, starts |-> 0, ended |-> FALSE]
NoCall == [id |-> 0, name |-> "none", args |-> << >>]
Translator == [text |-> << >>, calls |-> << >>, stop |-> "stop", usage |-> FALSE, started |-> FALSE]

StreamInit ==
    /\ wire \in [proto : {"openai", "anthropic", "gemini"}, stream : BOOLEAN, whole : BOOLEAN,
                 mode : {"none", "flag", "block"}, withhold : BOOLEAN, answer : WireAnswers]
    /\ wire.withhold => wire.proto = "openai" /\ wire.stream   \* the only one with stream_options
    /\ ~wire.stream => wire.whole
    /\ wire.whole => wire.mode = "none"            \* such a body has been through G32
    /\ sent = [text |-> 0, calls |-> [i \in DOMAIN wire.answer.calls |-> 0], finish |-> FALSE, usage |-> FALSE]
    /\ gate = << >> /\ tr = Translator /\ received = NoClient /\ flow = "open"

-----------------------------------------------------------------------------
(* Chunks. *)

Chunk(text, frags, finish, usage) == [text |-> text, frags |-> frags, finish |-> finish, usage |-> usage]

Fragment(i, name, args) == [index |-> i, id |-> IF name = "none" THEN 0 ELSE i, name |-> name, args |-> args]

(* Fragment k of call i: its id and name first, then its arguments. *)
PieceOf(i, k) ==
    LET c == wire.answer.calls[i]
    IN  IF k = 1 THEN Fragment(i, c.name, << >>) ELSE Fragment(i, "none", <<k - 1>>)

Reason == IF wire.answer.calls = << >> THEN "stop" ELSE "tool_calls"
AllText == [i \in 1..wire.answer.text |-> i]
AllArgs(c) == [i \in 1..c.args |-> i]

BugNoIndex(calls) == [i \in DOMAIN calls |-> [Fragment(i, calls[i].name, AllArgs(calls[i])) EXCEPT !.index = 1]]
(* _completion_to_stream_chunk: each whole call gets an index of its own. *)
Indexed(calls) == [i \in DOMAIN calls |-> Fragment(i, calls[i].name, AllArgs(calls[i]))]

-----------------------------------------------------------------------------
(* G32's gate: the first fragment that has a name decides for its index. *)
Kept(f) ==
    IF f.index \in DOMAIN gate THEN gate[f.index]
    ELSE f.name # "none" /\ f.name \notin Denied

Judged(frags) ==
    [i \in DOMAIN gate \cup {f.index : f \in {g \in ToSet(frags) : g.name # "none"}} |->
        IF i \in DOMAIN gate THEN gate[i]
        ELSE \A f \in ToSet(frags) : f.index = i => f.name \notin Denied]

(* StreamToolGate.filter: a chunk left with nothing is not relayed. *)
Filtered(c) ==
    LET kept == Taken(c.frags, {i \in DOMAIN c.frags : Kept(c.frags[i])})
    IN  IF wire.mode # "block" \/ kept = c.frags THEN <<c>>
        ELSE IF c.text = << >> /\ kept = << >> /\ c.finish = "none" THEN << >>
        ELSE <<[c EXCEPT !.frags = kept,
                         !.finish = IF kept = << >> /\ @ = "tool_calls" THEN "stop" ELSE @]>>

-----------------------------------------------------------------------------
(* The translators, and what a client makes of their events. *)

(* A fragment is added to the slot of its index. *)
Slotted(calls, f) ==
    LET old == IF f.index \in DOMAIN calls THEN calls[f.index] ELSE NoCall
        new == [id |-> IF f.id # 0 THEN f.id ELSE old.id,
                name |-> IF f.name # "none" THEN f.name ELSE old.name, args |-> old.args \o f.args]
    IN  [i \in DOMAIN calls \cup {f.index} |-> IF i = f.index THEN new ELSE calls[i]]
Merged(calls, frags) ==
    LET upTo[k \in 0..Len(frags)] == IF k = 0 THEN calls ELSE Slotted(upTo[k - 1], frags[k])
    IN  upTo[Len(frags)]

(* An OpenAI client takes the chunks themselves. *)
Taking(c) ==
    [received EXCEPT !.text = @ \o c.text, !.calls = Merged(@, c.frags),
                   !.stop = IF c.finish # "none" THEN c.finish ELSE @, !.usage = @ \/ c.usage]

(* An Anthropic stream opens with its first event. *)
Started == received.starts + (IF wire.proto = "anthropic" /\ ~tr.started THEN 1 ELSE 0)

(* Text goes out live, except what Gemini's last frame will carry; calls wait for
   finish(). *)
Translate(c) ==
    LET held == wire.proto = "gemini" /\ c.finish # "none"
    IN  /\ tr' = [text |-> IF held THEN tr.text \o c.text ELSE tr.text,
                  calls |-> Merged(tr.calls, c.frags),
                  stop |-> IF c.finish # "none" THEN c.finish ELSE tr.stop,
                  usage |-> tr.usage \/ c.usage,
                  started |-> TRUE]
        /\ received' = IF wire.proto = "openai" THEN Taking(c)
                     ELSE [received EXCEPT !.starts = Started, !.text = IF held THEN @ ELSE @ \o c.text]

InOrder(calls) == Taken(calls, DOMAIN calls)
SlotsInOrder ==
    Taken(tr.calls, {i \in DOMAIN tr.calls : wire.proto = "gemini" => tr.calls[i].name # "none"})

(* finish(): the text that was held, the calls, the stop reason and the usage. *)
OnFinish ==
    IF wire.proto = "openai" THEN [received EXCEPT !.ended = TRUE]
    ELSE [starts |-> Started, text |-> received.text \o tr.text, calls |-> SlotsInOrder,
          stop |-> tr.stop, usage |-> tr.usage, ended |-> TRUE]

-----------------------------------------------------------------------------
(* The stream. *)

(* event_gen: a usage chunk the client did not ask for is kept from it. *)
Relay(c) ==
    LET seen == IF wire.withhold THEN [c EXCEPT !.usage = FALSE] ELSE c
        dropped == wire.withhold /\ c.usage /\ c.text = << >> /\ c.frags = << >> /\ c.finish = "none"
        relayed == IF dropped THEN << >> ELSE Filtered(seen)
    IN  /\ gate' = IF wire.mode = "none" \/ dropped THEN gate ELSE Judged(c.frags)
        /\ IF relayed = << >> THEN UNCHANGED <<tr, received>> ELSE Translate(relayed[1])

AllSent ==
    /\ sent.text = wire.answer.text
    /\ \A i \in DOMAIN sent.calls : sent.calls[i] = wire.answer.calls[i].args + 1

(* The next chunk: some text, some call's next fragment, or both; the calls begin
   in order and their fragments may alternate.  The last one may say it is. *)
NextChunk ==
    /\ flow = "open" /\ ~wire.whole /\ ~sent.finish
    /\ UNCHANGED <<wire, flow>>
    /\ \E text \in {0, 1}, call \in {0} \cup DOMAIN sent.calls, last \in BOOLEAN :
          /\ text = 1 => sent.text < wire.answer.text
          /\ call # 0 => /\ sent.calls[call] < wire.answer.calls[call].args + 1
                         /\ \A j \in 1..(call - 1) : sent.calls[j] > 0
          /\ text + call > 0 \/ last
          /\ sent' = [sent EXCEPT !.text = @ + text, !.finish = last,
                        !.calls = [i \in DOMAIN @ |-> IF i = call THEN @[i] + 1 ELSE @[i]]]
          /\ last => AllSent'
          /\ Relay(Chunk(IF text = 1 THEN <<sent.text + 1>> ELSE << >>,
                         IF call # 0 THEN <<PieceOf(call, sent.calls[call] + 1)>> ELSE << >>,
                         IF last THEN Reason ELSE "none", FALSE))

UsageChunk ==
    /\ flow = "open" /\ sent.finish /\ ~sent.usage
    /\ sent' = [sent EXCEPT !.usage = TRUE]
    /\ Relay(Chunk(<< >>, << >>, "none", TRUE))
    /\ UNCHANGED <<wire, flow>>

(* A whole body (a cache hit, a bypass, a cascade) as the stream that was asked for. *)
OneShot ==
    /\ flow = "open" /\ wire.stream /\ wire.whole /\ ~sent.finish
    /\ sent' = [sent EXCEPT !.finish = TRUE, !.usage = wire.proto # "openai"]
    /\ Translate(Chunk(AllText, Indexed(wire.answer.calls), Reason, wire.proto # "openai"))
    /\ UNCHANGED <<wire, gate, flow>>

(* serialise_response: the body of a call that asked for no stream. *)
BodyCalls ==
    LET whole == Indexed(wire.answer.calls)
    IN  IF wire.proto = "openai" THEN Merged(NoClient.calls, whole)
        ELSE [i \in DOMAIN whole |-> Slotted(NoClient.calls, whole[i])[whole[i].index]]
WholeBody ==
    [NoClient EXCEPT !.text = AllText, !.calls = BodyCalls, !.stop = Reason, !.usage = TRUE, !.ended = TRUE]

Body ==
    /\ flow = "open" /\ ~wire.stream
    /\ flow' = "ended"
    /\ received' = WholeBody
    /\ UNCHANGED <<wire, sent, gate, tr>>

SourceEnds ==
    /\ flow = "open" /\ sent.finish /\ sent.usage
    /\ flow' = "ended"
    /\ received' = OnFinish
    /\ UNCHANGED <<wire, sent, gate, tr>>

(* The provider fails: an error frame, and nothing after it. *)
SourceFails ==
    /\ flow = "open" /\ ~wire.whole
    /\ flow' = "failed"
    /\ UNCHANGED <<wire, sent, gate, tr, received>>

StreamNext == NextChunk \/ UsageChunk \/ OneShot \/ Body \/ SourceEnds \/ SourceFails

-----------------------------------------------------------------------------
(* An OpenAI client has its calls by their index. *)
ClientCalls == IF wire.proto = "openai" THEN InOrder(received.calls) ELSE received.calls

Permitted ==
    LET whole == [i \in DOMAIN wire.answer.calls |->
            [id |-> i, name |-> wire.answer.calls[i].name, args |-> AllArgs(wire.answer.calls[i])]]
    IN  Taken(whole, {i \in DOMAIN whole : wire.mode = "block" => whole[i].name \notin Denied})

(* The terminal frame of a stream means what it says, however the answer was cut
   into chunks, gated and translated, and whether it was live or a whole body: the
   client then has all of the text in order, every permitted call whole and no
   other, the stop reason and the usage it is owed.  A stream that failed has no
   terminal frame (main._translate_stream).  The stop reason of an answer with a
   denied call is outside this. *)
TerminalMeansWhole ==
    received.ended =>
        /\ flow = "ended"
        /\ received.text = AllText
        /\ ClientCalls = Permitted
        /\ Len(Permitted) = Len(wire.answer.calls) => received.stop = Reason
        /\ received.usage = ~wire.withhold
        /\ wire.proto = "anthropic" /\ wire.stream => received.starts = 1

-----------------------------------------------------------------------------
(* The tool history of an Anthropic or a Gemini request.  A block names a call by its
   id (Anthropic) or by its function (Gemini); "none" stands for a name that is missing. *)

Blocks == [kind : {"use", "result"}, key : ToolNames \cup {"none"}] \cup {[kind |-> "text", key |-> "none"]}
OpenAI(role, calls, answers, blocks) == [role |-> role, calls |-> calls, answers |-> answers, blocks |-> blocks]

InInit ==
    /\ inbound \in [proto : {"anthropic", "gemini"}, open : {[k \in ToolNames |-> << >>]},
                    next : {1}, messages : {0}, blocks : {0}]
    /\ parsed = << >>

BugAnswersOwnTurn(fresh, key) == inbound.open[key] \o fresh[key]
(* A result answers a call of an earlier message, never of its own. *)
Answerable(fresh, key) == inbound.open[key]

(* _message_to_openai, _parts_to_openai_messages: an assistant's calls get their ids, a
   result answers a call that was made before (Anthropic: any so often as it comes,
   Gemini: the oldest of that name still open), and the rest degrades to text. *)
FanOut(role, blocks) ==
    LET gemini == inbound.proto = "gemini"
        made == {i \in DOMAIN blocks : blocks[i].kind = "use" /\ blocks[i].key # "none" /\ role = "assistant"}
        id == [i \in DOMAIN blocks |->
                  IF gemini THEN inbound.next + RankIn(made, i) - 1 ELSE blocks[i].key]
        fresh == [k \in ToolNames |-> Taken(id, {i \in made : blocks[i].key = k})]
        results(k) == {i \in DOMAIN blocks : blocks[i].kind = "result" /\ blocks[i].key = k}
        turn(i) == IF gemini THEN RankIn(results(blocks[i].key), i) ELSE 1
        answers == {i \in UNION {results(k) : k \in ToolNames} :
                       turn(i) <= Len(Answerable(fresh, blocks[i].key))}
        rest == DOMAIN blocks \ (made \cup answers)
        At(K) == {inbound.blocks + i : i \in K}
        tool == [n \in 1..Cardinality(answers) |->
                    LET i == PlaceIn(answers, n)
                    IN  OpenAI("tool", << >>, <<Answerable(fresh, blocks[i].key)[turn(i)]>>, At({i}))]
        Left(k) == IF gemini THEN SubSeq(inbound.open[k], Cardinality(answers \cap results(k)) + 1, Len(inbound.open[k]))
                   ELSE inbound.open[k]
    IN  \* finalize_fanout
        /\ parsed' = parsed \o tool \o
               (IF made # {} THEN <<OpenAI("assistant", Taken(id, made), << >>, At(made \cup rest))>>
                ELSE IF rest # {} \/ answers = {} THEN <<OpenAI(role, << >>, << >>, At(rest))>>
                ELSE << >>)
        /\ inbound' = [inbound EXCEPT !.next = @ + Cardinality(made), !.messages = @ + 1,
                          !.blocks = @ + Len(blocks), !.open = [k \in ToolNames |-> Left(k) \o fresh[k]]]

ParseMessage ==
    /\ inbound.messages < MaxInbound
    /\ \E role \in {"user", "assistant"}, blocks \in UNION {[1..n -> Blocks] : n \in 0..2} :
          FanOut(role, blocks)

WireInit == StreamInit /\ InInit
WireNext == \/ StreamNext /\ UNCHANGED inVars
            \/ ParseMessage /\ UNCHANGED streamVars
WireSpec == WireInit /\ [][WireNext]_wireVars

(* Whatever a client's tool history looks like, every result that goes on as a tool
   message answers a call of an earlier assistant message, no block is lost or
   doubled on the way, and of Gemini's calls, which have no ids, none is answered twice
   (_ToolState, _GeminiToolState): a provider rejects anything else. *)
ResultsFollowCalls ==
    /\ \A i \in DOMAIN parsed : parsed[i].role = "tool" =>
          \E j \in 1..(i - 1) : parsed[i].answers[1] \in ToSet(parsed[j].calls)
    /\ UNION {parsed[i].blocks : i \in DOMAIN parsed} = 1..inbound.blocks
    /\ \A i, j \in DOMAIN parsed : i # j => parsed[i].blocks \cap parsed[j].blocks = {}
    /\ inbound.proto = "gemini" =>
          \A i, j \in DOMAIN parsed :
              (i # j /\ parsed[i].role = "tool" /\ parsed[j].role = "tool")
                  => parsed[i].answers # parsed[j].answers

(* The wire protocols lose nothing in either direction. *)
WireIsFaithful == TerminalMeansWhole /\ ResultsFollowCalls
=============================================================================
