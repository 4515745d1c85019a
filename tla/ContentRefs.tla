---------------------------- MODULE ContentRefs ----------------------------
(***************************************************************************)
(* G28 content reuse (middleware/g28_ccr.py, dispatched by g15 as well) for *)
(* one tenant and one large block: the block in Redis with a read-through   *)
(* copy per instance, the tenant's proof that it resolves references, and   *)
(* the turns that read and write them between their awaits.  Keys are exact *)
(* and carry the tenant's prefix, so another tenant's turns touch none of   *)
(* this state.                                                              *)
(***************************************************************************)
EXTENDS Integers, FiniteSets

CONSTANTS
    RefTurns,       \* concurrent turns of the tenant
    Instances,      \* proxy instances, each with its own _local_store
    MaxRefTurns,    \* bound: turns that start
    MaxRefFaults    \* bound: Redis calls that fail

VARIABLES
    durable,    \* the block is in Redis
    copies,     \* the instances whose _local_store holds it
    proof,      \* the tenant's ccr:resolver_proven key exists
    refTurn,    \* the turns
    strict,     \* require_proven_resolver
    refStarted, refFaults,
    ignored     \* ghost: a reference was ignored and nothing has resolved one since

refVars == <<durable, copies, proof, refTurn, strict, refStarted, refFaults, ignored>>

NoTurn == [at |-> "idle", on |-> "none", tools |-> FALSE, streamed |-> FALSE,
           may |-> FALSE, ref |-> FALSE, since |-> FALSE]

RefInit ==
    /\ durable = FALSE /\ copies = {} /\ proof = FALSE /\ ignored = FALSE
    /\ strict \in BOOLEAN
    /\ refTurn = [t \in RefTurns |-> NoTurn]
    /\ refStarted = 0 /\ refFaults = 0

Steps(t, point) == refTurn' = [refTurn EXCEPT ![t].at = point]
Sends(t, ref) == refTurn' = [refTurn EXCEPT ![t] = [@ EXCEPT !.at = "sent", !.ref = ref]]
Over(t) == refTurn' = [refTurn EXCEPT ![t] = NoTurn]
RedisFails == refFaults < MaxRefFaults /\ refFaults' = refFaults + 1

----------------------------------------------------------------------------
(* Mutants of the definitions below.                                        *)

BugNeverRevoked(t) == proof' = proof

----------------------------------------------------------------------------
(* Request side: the handshake, then the block.                             *)

\* the caller sends tools or not; CCR tools are advertised only along with its own
Advertises(t) == refTurn[t].tools

RefStart(t) ==
    /\ refTurn[t].at = "idle" /\ refStarted < MaxRefTurns
    /\ refStarted' = refStarted + 1
    /\ \E i \in Instances, tools, streamed \in BOOLEAN :
         refTurn' = [refTurn EXCEPT ![t] = [@ EXCEPT !.at = "proof", !.on = i, !.tools = tools,
                                                     !.streamed = streamed, !.since = ignored]]
    /\ UNCHANGED <<durable, copies, proof, strict, refFaults, ignored>>

\* _resolver_proven is read on every turn; a failed read is no proof
ReadProof(t) ==
    /\ refTurn[t].at = "proof"
    /\ \E may \in BOOLEAN :
         /\ refTurn' = [refTurn EXCEPT ![t] = [@ EXCEPT !.at = "lookup", !.may = may]]
         /\ \/ may = (Advertises(t) /\ (proof \/ ~strict)) /\ UNCHANGED refFaults
            \/ ~may /\ Advertises(t) /\ strict /\ RedisFails
    /\ UNCHANGED <<durable, copies, proof, strict, refStarted, ignored>>

\* _retrieve_stored: the local copy first, then Redis, which leaves a local copy
Found(i) == i \in copies \/ durable
Refreshed(i) == IF durable THEN copies \cup {i} ELSE copies

\* _replace_content: an existing block is not written again
LookUp(t) ==
    /\ refTurn[t].at = "lookup"
    /\ LET i == refTurn[t].on
       IN  \/ /\ Found(i) /\ copies' = Refreshed(i) /\ UNCHANGED refFaults
              /\ Sends(t, refTurn[t].may)
           \/ /\ ~Found(i) /\ UNCHANGED <<copies, refFaults>> /\ Steps(t, "store")
           \/ /\ i \notin copies /\ RedisFails /\ UNCHANGED copies /\ Steps(t, "store")
    /\ UNCHANGED <<durable, proof, strict, refStarted, ignored>>

\* _store: refused by Redis, the content goes out in full
StoreBlock(t) ==
    /\ refTurn[t].at = "store"
    /\ \/ /\ durable' = TRUE /\ copies' = copies \cup {refTurn[t].on} /\ UNCHANGED refFaults
          /\ Sends(t, refTurn[t].may)
       \/ /\ RedisFails /\ UNCHANGED <<durable, copies>> /\ Sends(t, FALSE)
    /\ UNCHANGED <<proof, strict, refStarted, ignored>>

----------------------------------------------------------------------------
(* Response side: dispatch of the CCR tools, and the judgement of the turn. *)

\* authorize_dispatch: only tools the proxy advertised run, and only off the stream
Dispatches(t) == Advertises(t) /\ ~refTurn[t].streamed

\* a final answer, or a stream, which no response stage sees
RefAnswer(t) ==
    /\ refTurn[t].at = "sent"
    /\ IF refTurn[t].ref /\ ~refTurn[t].streamed THEN Steps(t, "judge") ELSE Over(t)
    /\ UNCHANGED <<durable, copies, proof, strict, refStarted, refFaults, ignored>>

\* tool calls the proxy does not host leave the turn unjudged
RefOtherTool(t) ==
    /\ refTurn[t].at = "sent" /\ refTurn[t].tools
    /\ Over(t)
    /\ UNCHANGED <<durable, copies, proof, strict, refStarted, refFaults, ignored>>

\* headroom_compress
Compress(t) ==
    /\ refTurn[t].at = "sent" /\ Dispatches(t)
    /\ \/ durable' = TRUE /\ copies' = copies \cup {refTurn[t].on} /\ UNCHANGED refFaults
       \/ RedisFails /\ UNCHANGED <<durable, copies>>
    /\ Over(t)
    /\ UNCHANGED <<proof, strict, refStarted, ignored>>

\* headroom_retrieve: a hit goes on to record the proof, a miss is counted
Retrieve(t) ==
    /\ refTurn[t].at = "sent" /\ Dispatches(t)
    /\ LET i == refTurn[t].on
       IN  \/ /\ Found(i) /\ copies' = Refreshed(i) /\ UNCHANGED refFaults
              /\ Steps(t, "mark")
           \/ /\ ~Found(i) /\ UNCHANGED <<copies, refFaults>> /\ Over(t)
           \/ /\ i \notin copies /\ RedisFails /\ UNCHANGED copies /\ Over(t)
    /\ UNCHANGED <<durable, proof, strict, refStarted, ignored>>

\* _mark_resolver_proven: every turn in flight now started before this resolve
Mark(t) ==
    /\ refTurn[t].at = "mark"
    /\ \/ /\ proof' = TRUE /\ ignored' = FALSE /\ UNCHANGED refFaults
          /\ refTurn' = [u \in RefTurns |-> IF u = t THEN NoTurn
                                            ELSE [refTurn[u] EXCEPT !.since = FALSE]]
       \/ RedisFails /\ Over(t) /\ UNCHANGED <<proof, ignored>>
    /\ UNCHANGED <<durable, copies, strict, refStarted>>

\* _revoke_resolver_proof
Revoke(t) == proof' = FALSE

Judge(t) ==
    /\ refTurn[t].at = "judge"
    /\ \/ Revoke(t) /\ ignored' = TRUE /\ UNCHANGED refFaults
       \/ RedisFails /\ UNCHANGED <<proof, ignored>>
    /\ Over(t)
    /\ UNCHANGED <<durable, copies, strict, refStarted>>

----------------------------------------------------------------------------
(* TTLs run out in Redis and in a process; a process restarts.              *)

BlockExpires ==
    /\ durable /\ durable' = FALSE
    /\ UNCHANGED <<copies, proof, refTurn, strict, refStarted, refFaults, ignored>>

CopyExpires(i) ==
    /\ i \in copies /\ copies' = copies \ {i}
    /\ UNCHANGED <<durable, proof, refTurn, strict, refStarted, refFaults, ignored>>

ProofExpires ==
    /\ proof /\ proof' = FALSE
    /\ UNCHANGED <<durable, copies, refTurn, strict, refStarted, refFaults, ignored>>

RefNext ==
    \/ \E t \in RefTurns : \/ RefStart(t) \/ ReadProof(t) \/ LookUp(t) \/ StoreBlock(t)
                           \/ RefAnswer(t) \/ RefOtherTool(t) \/ Compress(t) \/ Retrieve(t)
                           \/ Mark(t) \/ Judge(t)
    \/ \E i \in Instances : CopyExpires(i)
    \/ BlockExpires
    \/ ProofExpires

RefSpec == RefInit /\ [][RefNext]_refVars

----------------------------------------------------------------------------
(* A tenant whose last judged turn answered without reading a reference     *)
(* gets full content on every turn that starts afterwards, on every         *)
(* instance, until one of its turns resolves a reference again.             *)
IgnoredMeansFull ==
    \A t \in RefTurns : refTurn[t].at = "sent" /\ refTurn[t].ref /\ strict => ~refTurn[t].since

(* "NEVER substitute a reference the caller cannot resolve" (process_request): *)
(* a turn that got a reference has its tool calls dispatched.               *)
NeverUnresolvable ==
    \A t \in RefTurns : refTurn[t].at = "sent" /\ refTurn[t].ref => Dispatches(t)

(* A reference stands for a block that is in the durable store.             *)
RefIsDurable ==
    [][\A t \in RefTurns : ~refTurn[t].ref /\ refTurn'[t].ref => durable']_refVars
=============================================================================
