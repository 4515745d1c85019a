----------------------------- MODULE MCBatchQueue -----------------------------
(* Instances of BatchQueue for TLC. *)
EXTENDS BatchQueue, TLC

CONSTANTS q1, q2, w1, w2

Symmetries == Permutations({w1, w2}) \cup Permutations({q1, q2})

\* Two deferred requests on one tenant's stream, or on the streams of two.
OneStream == [r \in Requests |-> 1]
Apart(r) == [OneStream EXCEPT ![r] = 2]
OneOrTwoStreams == {OneStream, Apart(q1), Apart(q2)}
JustOneStream == {OneStream}

\* Every kind of Redis failure of the per-item loop, but the XADD that was
\* applied although it failed: it leaves a result without an owner.
LoopFaults == {"store", "owner", "backlog", "register", "xadd_lost", "forget", "read",
                "hold", "cost", "ack", "del", "pending", "poll", "stall"}

\* Failures and deaths together: two on one stream, one when the requests are on two,
\* where what matters needs none.
FewerApart == [placing \in Placings |-> IF placing = OneStream THEN 2 ELSE 1]
OneTrouble == [placing \in Placings |-> 1]
=============================================================================
