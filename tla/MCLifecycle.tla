---------------------------- MODULE MCLifecycle ----------------------------
(* Instances of Lifecycle for TLC. *)
EXTENDS Lifecycle, TLC

CONSTANTS r1, r2, k1, k2

\* L2 finds the other question's answer too.
AllNear == [k \in Keys |-> Keys]
ExactOnly == [k \in Keys |-> {k}]

A(text, flagged, tool, valid, empty) ==
    [text |-> text, flagged |-> flagged, tool |-> tool, valid |-> valid,
     empty |-> empty, by |-> "model"]

Plain == A("plain", FALSE, FALSE, TRUE, FALSE)
Empty == A("plain", FALSE, FALSE, FALSE, TRUE)
Prose == A("plain", FALSE, FALSE, FALSE, FALSE)
Leaking == A("leak", FALSE, FALSE, TRUE, FALSE)
Holding == A("held", TRUE, FALSE, FALSE, FALSE)
Calling == A("leak", FALSE, TRUE, FALSE, FALSE)

AWant(k, stream, pii, json) == [key |-> k, stream |-> stream, pii |-> pii, json |-> json]

Lax == [pii |-> "off", guard |-> "flag", scan |-> "off", trust |-> "flag",
        tools |-> "flag", json |-> "off", cache |-> TRUE]
StrictConfig == [pii |-> "mask", guard |-> "block", scan |-> "block", trust |-> "strip",
           tools |-> "block", json |-> "block", cache |-> TRUE]
Blocking == [StrictConfig EXCEPT !.pii = "block", !.trust = "block", !.json = "flag"]
Uncached == [StrictConfig EXCEPT !.cache = FALSE, !.scan = "flag"]
Repairing == [StrictConfig EXCEPT !.json = "repair", !.scan = "flag"]

\* Two callers of one tenant with the same or a like question.
SharedWants == {AWant(k1, FALSE, TRUE, FALSE), AWant(k2, FALSE, FALSE, FALSE)}
SharedConfigs == {Lax, StrictConfig}
SharedReplies == {Empty, Leaking, Holding, Calling}
OldEntries == {Calling, Empty}
Interchangeable == Permutations(Requests)

\* One request, of every kind, under every kind of configuration.
EveryWant == [key : {k1}, stream : BOOLEAN, pii : BOOLEAN, json : BOOLEAN]
EveryConfig == {Lax, StrictConfig, Blocking, Uncached, [Lax EXCEPT !.json = "repair"]}
EveryReply == {Plain, Empty, Prose, Leaking, Holding, Calling}
Everything == AllOptions \ {"reconfigure"}

\* One request whose answer must be JSON.
JsonWants == {AWant(k1, FALSE, p, TRUE) : p \in BOOLEAN}
RepairingOnly == {Repairing}
=============================================================================
