------------------------------ MODULE TurnProofs ------------------------------
(***************************************************************************)
(* What a turn leaves for the next one, for any number of turns, instances *)
(* and sizes: G28's references (ContentRefs), G11's caps (OutputCap),      *)
(* G17's loop counter, G10's memories (Sessions), the prompt that the      *)
(* stages which shorten a resent conversation leave of it (ContextBudget), *)
(* and what the wire protocols pass of an answer and of a tool history     *)
(* (Wire).                                                                 *)
(***************************************************************************)
EXTENDS OutputCap, ContentRefs, Sessions, ContextBudget, Wire, FiniteSetTheorems,
        SequenceTheorems, WellFoundedInduction, TLAPS

-----------------------------------------------------------------------------
(* G28: a reference that was ignored.                                       *)

RefPoints == {"idle", "proof", "lookup", "store", "sent", "mark", "judge"}

RefTurnType == [at : RefPoints, on : Instances \cup {"none"}, tools : BOOLEAN, streamed : BOOLEAN,
                may : BOOLEAN, ref : BOOLEAN, since : BOOLEAN]

RefType ==
    /\ refTurn \in [RefTurns -> RefTurnType]
    /\ proof \in BOOLEAN /\ ignored \in BOOLEAN /\ strict \in BOOLEAN

\* A turn that nothing was looked up for may not get a reference, one that has a
\* reference may, and one that started after an ignored reference may not.
RefTurnOK(x) ==
    /\ x.at \in {"idle", "proof"} => ~x.may
    /\ x.ref => x.may
    /\ x.since => ignored
    /\ x.since /\ strict => ~x.may

\* An ignored reference ended the proof.
RefInv ==
    /\ RefType
    /\ ignored => ~proof
    /\ \A t \in RefTurns : RefTurnOK(refTurn[t])

\* Where the ghost and the proof stay, the turn that moves is the one to look at.
LEMMA RefTurnMoves ==
    ASSUME RefInv, NEW t \in RefTurns, NEW x \in RefTurnType, RefTurnOK(x),
           refTurn' = [refTurn EXCEPT ![t] = x], UNCHANGED <<proof, ignored, strict>>
    PROVE  RefInv'
BY DEF RefInv, RefType, RefTurnOK

\* A turn that moves on to a later point.
LEMMA StepsKeep ==
    ASSUME RefInv, NEW t \in RefTurns, NEW p \in RefPoints \ {"idle", "proof"}, Steps(t, p),
           UNCHANGED <<proof, ignored, strict>>
    PROVE  RefInv'
<1> DEFINE x == [refTurn[t] EXCEPT !.at = p]
<1>1. x \in RefTurnType
  BY DEF RefInv, RefType, RefTurnType
<1>2. RefTurnOK(x)
  BY DEF RefInv, RefType, RefTurnType, RefTurnOK
<1>3. refTurn' = [refTurn EXCEPT ![t] = x]
  BY DEF Steps
<1> QED
  BY <1>1, <1>2, <1>3, RefTurnMoves

\* A turn whose request goes out, with a reference only where it may.
LEMMA SendsKeep ==
    ASSUME RefInv, NEW t \in RefTurns, NEW b \in {FALSE, refTurn[t].may}, Sends(t, b),
           UNCHANGED <<proof, ignored, strict>>, refTurn[t].at \notin {"idle", "proof"}
    PROVE  RefInv'
<1> DEFINE x == [refTurn[t] EXCEPT !.at = "sent", !.ref = b]
<1>1. x \in RefTurnType
  BY DEF RefInv, RefType, RefTurnType, RefPoints
<1>2. RefTurnOK(x)
  BY DEF RefInv, RefType, RefTurnType, RefTurnOK
<1>3. refTurn' = [refTurn EXCEPT ![t] = x]
  BY DEF Sends
<1> QED
  BY <1>1, <1>2, <1>3, RefTurnMoves

\* A turn that is over.
LEMMA OverKeeps ==
    ASSUME RefInv, NEW t \in RefTurns, Over(t), UNCHANGED <<proof, ignored, strict>>
    PROVE  RefInv'
<1>1. NoTurn \in RefTurnType /\ RefTurnOK(NoTurn)
  BY DEF NoTurn, RefTurnType, RefPoints, RefTurnOK
<1> QED
  BY <1>1, RefTurnMoves DEF Over

\* The steps of one turn that leave the ghost and the proof alone.
LEMMA RefStep ==
    ASSUME RefInv, NEW t \in RefTurns,
           \/ RefStart(t) \/ ReadProof(t) \/ LookUp(t) \/ StoreBlock(t) \/ RefAnswer(t)
           \/ RefOtherTool(t) \/ Compress(t) \/ Retrieve(t)
    PROVE  RefInv'
<1>0. refTurn[t] \in RefTurnType /\ RefTurnOK(refTurn[t])
  BY DEF RefInv, RefType
<1>1. CASE RefStart(t)
  <2>1. PICK i \in Instances, tools \in BOOLEAN, streamed \in BOOLEAN :
          refTurn' = [refTurn EXCEPT ![t] = [@ EXCEPT !.at = "proof", !.on = i, !.tools = tools,
                                                      !.streamed = streamed, !.since = ignored]]
    BY <1>1 DEF RefStart
  <2> DEFINE x == [refTurn[t] EXCEPT !.at = "proof", !.on = i, !.tools = tools,
                                     !.streamed = streamed, !.since = ignored]
  <2>2. x \in RefTurnType
    BY <1>0 DEF RefTurnType, RefPoints, RefInv, RefType
  <2>3. RefTurnOK(x)
    BY <1>0, <1>1 DEF RefTurnType, RefTurnOK, RefStart
  <2> QED
    BY <1>1, <2>1, <2>2, <2>3, RefTurnMoves DEF RefStart
<1>2. CASE ReadProof(t)
  <2>1. PICK may \in BOOLEAN :
          /\ refTurn' = [refTurn EXCEPT ![t] = [@ EXCEPT !.at = "lookup", !.may = may]]
          /\ may => proof \/ ~strict
    BY <1>2 DEF ReadProof
  <2> DEFINE x == [refTurn[t] EXCEPT !.at = "lookup", !.may = may]
  <2>2. x \in RefTurnType
    BY <1>0 DEF RefTurnType, RefPoints
  <2>3. RefTurnOK(x)
    BY <1>0, <1>2, <2>1 DEF RefTurnType, RefTurnOK, ReadProof, RefInv
  <2> QED
    BY <1>2, <2>1, <2>2, <2>3, RefTurnMoves DEF ReadProof
<1>3. CASE LookUp(t)
  BY <1>3, SendsKeep, StepsKeep DEF LookUp, RefPoints
<1>4. CASE StoreBlock(t)
  BY <1>4, SendsKeep DEF StoreBlock
<1>5. CASE Retrieve(t)
  BY <1>5, StepsKeep, OverKeeps DEF Retrieve, RefPoints
<1>6. CASE RefAnswer(t) \/ RefOtherTool(t) \/ Compress(t)
  BY <1>6, StepsKeep, OverKeeps DEF RefAnswer, RefOtherTool, Compress, RefPoints
<1> QED
  BY <1>1, <1>2, <1>3, <1>4, <1>5, <1>6

\* Every step keeps it.
LEMMA RefNextKeeps == RefInv /\ [RefNext]_refVars => RefInv'
<1> SUFFICES ASSUME RefInv, [RefNext]_refVars PROVE RefInv'
  OBVIOUS
<1>1. ASSUME NEW t \in RefTurns, Mark(t) PROVE RefInv'
  <2>1. CASE Over(t) /\ UNCHANGED <<proof, ignored>>
    BY <1>1, <2>1, OverKeeps DEF Mark
  <2>2. CASE /\ proof' = TRUE /\ ignored' = FALSE
             /\ refTurn' = [u \in RefTurns |-> IF u = t THEN NoTurn
                                               ELSE [refTurn[u] EXCEPT !.since = FALSE]]
    <3>1. NoTurn \in RefTurnType /\ RefTurnOK(NoTurn)' /\ NoTurn.since = FALSE
      BY DEF NoTurn, RefTurnType, RefPoints, RefTurnOK
    <3>2. ASSUME NEW u \in RefTurns
          PROVE  [refTurn[u] EXCEPT !.since = FALSE] \in RefTurnType
      BY DEF RefInv, RefType, RefTurnType
    <3>3. ASSUME NEW u \in RefTurns
          PROVE  LET x == [refTurn[u] EXCEPT !.since = FALSE] IN
                   (x.at \in {"idle", "proof"} => ~x.may) /\ (x.ref => x.may) /\ ~x.since
      BY DEF RefInv, RefType, RefTurnType, RefTurnOK
    <3>4. \A u \in RefTurns : RefTurnOK(refTurn[u])'
      BY <2>2, <3>1, <3>3 DEF RefTurnOK
    <3> QED
      BY <1>1, <2>2, <3>1, <3>2, <3>4 DEF RefInv, RefType, Mark
  <2> QED
    BY <1>1, <2>1, <2>2 DEF Mark
<1>2. ASSUME NEW t \in RefTurns, Judge(t) PROVE RefInv'
  <2>1. CASE UNCHANGED <<proof, ignored>>
    BY <1>2, <2>1, OverKeeps DEF Judge
  <2>2. CASE Revoke(t) /\ ignored' = TRUE
    <3>1. NoTurn \in RefTurnType /\ RefTurnOK(NoTurn)
      BY DEF NoTurn, RefTurnType, RefPoints, RefTurnOK
    <3> QED
      BY <1>2, <2>2, <3>1 DEF RefInv, RefType, RefTurnOK, Judge, Revoke, Over
  <2> QED
    BY <1>2, <2>1, <2>2 DEF Judge
<1>3. CASE BlockExpires \/ \E i \in Instances : CopyExpires(i)
  BY <1>3 DEF RefInv, RefType, RefTurnOK, BlockExpires, CopyExpires
<1>4. CASE ProofExpires
  BY <1>4 DEF RefInv, RefType, RefTurnOK, ProofExpires
<1>5. CASE UNCHANGED refVars
  BY <1>5 DEF RefInv, RefType, RefTurnOK, refVars
<1> QED
  BY <1>1, <1>2, <1>3, <1>4, <1>5, RefStep DEF RefNext

\* Whatever the turns of a tenant interleave, and wherever Redis fails or a key
\* expires, a caller that ignored a reference (_revoke_resolver_proof) gets no other
\* before one of its turns resolves one: IgnoredMeansFull.
THEOREM IgnoredGetsFull == RefSpec => []IgnoredMeansFull
<1>1. RefInit => RefInv
  <2>1. NoTurn \in RefTurnType /\ (RefInit => RefTurnOK(NoTurn))
    BY DEF NoTurn, RefTurnType, RefPoints, RefTurnOK
  <2> QED
    BY <2>1 DEF RefInit, RefInv, RefType
<1>2. RefInv => IgnoredMeansFull
  BY DEF RefInv, RefTurnOK, IgnoredMeansFull
<1> QED
  BY <1>1, <1>2, RefNextKeeps, PTL DEF RefSpec

-----------------------------------------------------------------------------
(* Numbers.                                                                 *)

\* Some number of a set is its least.
LEMMA Least ==
    ASSUME NEW T, T \subseteq Nat, T # {}
    PROVE  \E m \in T : \A n \in T : m <= n
<1> DEFINE R == OpToRel(<, Nat)
<1>1. IsWellFoundedOn(R, Nat)
  BY NatLessThanWellFounded
<1>2. \E m \in T : \A n \in T : <<n, m>> \notin R
  <2> HIDE DEF R
  <2> QED
    BY <1>1, WFMin
<1>3. \A m, n \in Nat : <<n, m>> \in R <=> n < m
  BY DEF OpToRel
<1> HIDE DEF R
<1>4. PICK m \in T : \A n \in T : <<n, m>> \notin R
  BY <1>2
<1>5. \A n \in T : ~(n < m)
  BY <1>3, <1>4
<1> QED
  BY <1>5

\* The larger and the smaller of two numbers.
LEMMA LargerOfTwo ==
    ASSUME NEW a \in Int, NEW b \in Int
    PROVE  Max({a, b}) \in {a, b} /\ Max({a, b}) >= a /\ Max({a, b}) >= b
<1>1. \E x \in {a, b} : \A y \in {a, b} : x >= y
  BY a >= b \/ b >= a
<1> QED
  BY <1>1 DEF Max

LEMMA SmallerOfTwo ==
    ASSUME NEW a \in Int, NEW b \in Int
    PROVE  Min({a, b}) \in {a, b}
<1>1. \E x \in {a, b} : \A y \in {a, b} : x <= y
  BY a >= b \/ b >= a
<1> QED
  BY <1>1 DEF Min

\* The index int((n - 1) * q) of a quantile q of at most 1 is one of n.
LEMMA QuantileIndex ==
    ASSUME NEW n \in Nat \ {0}, NEW p \in Nat, NEW q \in Nat \ {0}, p <= q
    PROVE  /\ ((n - 1) * p) \div q \in Nat
           /\ ((n - 1) * p) \div q <= n - 1
<1> DEFINE x == (n - 1) * p
           d == x \div q
<1>1. x \in Nat /\ x <= (n - 1) * q
  OBVIOUS
<1>2. d \in Int /\ q * d <= x /\ x < q * d + q
  <2> HIDE DEF x
  <2> QED
    BY <1>1, SMTT(30)
<1> HIDE DEF d, x
<1>3. d >= 0
  <2>1. CASE d <= -1
    <3>1. q * d <= q * (-1)
      BY <2>1, <1>2
    <3> QED
      BY <3>1, <1>1, <1>2
  <2> QED
    BY <2>1, <1>2
<1>4. d <= n - 1
  <2>1. CASE d >= n
    <3>1. q * d >= q * n
      BY <2>1, <1>2
    <3>2. q * n = q * (n - 1) + q
      OBVIOUS
    <3>3. (n - 1) * q = q * (n - 1)
      OBVIOUS
    <3> QED
      BY <3>1, <3>2, <3>3, <1>1, <1>2
  <2> QED
    BY <2>1, <1>2
<1> QED
  BY <1>2, <1>3, <1>4 DEF d, x

-----------------------------------------------------------------------------
(* G11: the cap that cut an answer.                                         *)

Pair == [max : Nat, tokens : 0 .. ModelLimit, truncated : BOOLEAN]

CapPoints == {"idle", "history", "floor", "sent", "raise", "write"}

CapTurnType == [at : CapPoints, shape : Shapes, estimate : Nat, cap : Nat,
                by : {"none", "evidence", "fallback"}, seen : Nat, since : Nat]

CapType ==
    /\ history \in Seq(Pair) /\ floor \in Nat /\ cutAt \in Nat /\ fallback \in Nat
    /\ raced \in BOOLEAN
    /\ capTurn \in [CapTurns -> CapTurnType]

\* What an answer shows is a length, at most the model's limit scaled.
LEMMA EvidenceBound ==
    ASSUME NEW pair \in Pair
    PROVE  Evidence(pair) \in 0 .. ModelLimit * Backoff
<1>1. pair.tokens \in Nat /\ pair.tokens <= ModelLimit /\ pair.truncated \in BOOLEAN
  BY DEF Pair
<1>2. ModelLimit \in Nat /\ Backoff \in Nat /\ Backoff >= 1
  BY CapAssumption
<1>3. pair.tokens * Backoff <= ModelLimit * Backoff /\ pair.tokens * Backoff \in Nat
  BY <1>1, <1>2
<1>4. ModelLimit <= ModelLimit * Backoff /\ ModelLimit * Backoff \in Nat
  BY <1>2
<1> QED
  BY <1>1, <1>2, <1>3, <1>4 DEF Evidence

\* _get_historical_p95 returns one of the sizes it counts, or none.
LEMMA QuantileType ==
    ASSUME NEW h \in Seq(Pair)
    PROVE  HistoricalP95(h) \in Nat
<1> DEFINE rank == ((Len(h) - 1) * QuantileOf[1]) \div QuantileOf[2] + 1
           UpTo(e) == {i \in DOMAIN h : Evidence(h[i]) <= e}
           sizes == {Evidence(h[i]) : i \in DOMAIN h}
           enough == {e \in sizes : Cardinality(UpTo(e)) >= rank}
<1>1. CASE Len(h) < MinEntries
  BY <1>1 DEF HistoricalP95
<1>2. CASE ~(Len(h) < MinEntries)
  <2>1. Len(h) \in Nat \ {0} /\ DOMAIN h = 1 .. Len(h)
    BY <1>2, CapAssumption
  <2>2. \A i \in DOMAIN h : Evidence(h[i]) \in 0 .. ModelLimit * Backoff
    BY EvidenceBound, <2>1
  <2>3. PICK m \in Nat : /\ \A i \in DOMAIN h : Evidence(h[i]) <= m
                         /\ \A n \in Nat : (\A i \in DOMAIN h : Evidence(h[i]) <= n) => m <= n
    <3> DEFINE U == {n \in Nat : \A i \in DOMAIN h : Evidence(h[i]) <= n}
    <3>1. ModelLimit * Backoff \in U
      BY <2>2, CapAssumption
    <3>2. \E m \in U : \A n \in U : m <= n
      BY <3>1, Least
    <3> QED
      BY <3>2
  <2>4. m \in sizes
    <3> SUFFICES ASSUME \A i \in DOMAIN h : Evidence(h[i]) # m PROVE FALSE
      OBVIOUS
    <3>1. \A i \in DOMAIN h : Evidence(h[i]) <= m - 1 /\ m - 1 \in Nat
      BY <2>2, <2>3
    <3> QED
      BY <3>1, <2>1, <2>3
  <2>5. Cardinality(UpTo(m)) = Len(h)
    <3>1. UpTo(m) = DOMAIN h
      BY <2>3
    <3> HIDE DEF UpTo
    <3>2. Cardinality(1 .. Len(h)) = Len(h)
      BY <2>1, FS_Interval
    <3> QED
      BY <3>1, <3>2, <2>1
  <2>6. rank <= Len(h)
    <3>1. QuantileOf[1] \in Nat /\ QuantileOf[2] \in Nat \ {0} /\ QuantileOf[1] <= QuantileOf[2]
      BY CapAssumption
    <3>2. /\ ((Len(h) - 1) * QuantileOf[1]) \div QuantileOf[2] \in Nat
          /\ ((Len(h) - 1) * QuantileOf[1]) \div QuantileOf[2] <= Len(h) - 1
      BY <2>1, <3>1, QuantileIndex
    <3> QED
      BY <2>1, <3>2
  <2>7. enough # {} /\ enough \subseteq Nat
    <3>1. m \in enough
      BY <2>4, <2>5, <2>6
    <3>2. sizes \subseteq Nat
      BY <2>2
    <3> QED
      BY <3>1, <3>2
  <2>8. Min(enough) \in enough
    <3> HIDE DEF enough
    <3>1. \E e \in enough : \A n \in enough : e <= n
      BY <2>7, Least
    <3> QED
      BY <3>1 DEF Min
  <2>9. HistoricalP95(h) = Min(enough)
    BY <1>2 DEF HistoricalP95
  <2> QED
    BY <2>7, <2>8, <2>9
<1> QED
  BY <1>1, <1>2

\* _record_max_tokens_pair leaves a history of pairs.
LEMMA RecordType ==
    ASSUME NEW h \in Seq(Pair), NEW pair \in Pair
    PROVE  RecordPair(h, pair) \in Seq(Pair)
<1>1. \A i \in 1 .. Len(h) : RemoveAt(h, i) \in Seq(Pair)
  BY SubSeqProperties, ConcatProperties DEF RemoveAt
<1> DEFINE others == IF \E i \in DOMAIN h : h[i] = pair
                     THEN RemoveAt(h, CHOOSE i \in DOMAIN h : h[i] = pair) ELSE h
           longer == Append(others, pair)
           from == Max({1, Len(longer) - MaxEntries + 1})
<1>2. others \in Seq(Pair)
  BY <1>1
<1>3. longer \in Seq(Pair)
  BY <1>2, AppendProperties
<1>4. from \in Int /\ from >= 1
  <2> HIDE DEF longer
  <2>1. Len(longer) - MaxEntries + 1 \in Int
    BY <1>3, CapAssumption
  <2>2. \A n \in Int : Max({1, n}) \in Int /\ Max({1, n}) >= 1
    BY LargerOfTwo
  <2> QED
    BY <2>1, <2>2
<1>5. SubSeq(longer, from, Len(longer)) \in Seq(Pair)
  <2> HIDE DEF longer, from
  <2> QED
    BY <1>3, <1>4, SubSeqProperties
<1> QED
  BY <1>5 DEF RecordPair

\* The cap process_request sets from evidence: at least the floor, up to the model's limit.
LEMMA CapForType ==
    ASSUME NEW estimate \in Nat, NEW f \in Nat, fallback \in Nat
    PROVE  /\ CapFor(estimate, f).cap \in Nat
           /\ CapFor(estimate, f).by \in {"none", "evidence", "fallback"}
           /\ CapFor(estimate, f).by = "evidence" =>
                /\ CapFor(estimate, f).cap > 0
                /\ CapFor(estimate, f).cap >= f \/ CapFor(estimate, f).cap = ModelLimit
           /\ Static.cap \in Nat /\ Static.by \in {"none", "fallback"}
<1>1. Static.cap \in Nat /\ Static.by \in {"none", "fallback"}
  BY SmallerOfTwo, CapAssumption DEF Static, NoCap
<1> DEFINE wanted == Max({estimate * Multiplier, f})
<1>2. wanted \in Nat /\ wanted >= f
  <2>1. estimate * Multiplier \in Nat
    BY CapAssumption
  <2>2. \A a, b \in Nat : Max({a, b}) \in Nat /\ Max({a, b}) >= b
    BY LargerOfTwo
  <2> QED
    BY <2>1, <2>2
<1>3. Tightened(estimate, f) = IF wanted > ModelLimit THEN ModelLimit ELSE wanted
  BY DEF Tightened
<1>4. /\ Tightened(estimate, f) \in Nat
      /\ Tightened(estimate, f) >= f \/ Tightened(estimate, f) = ModelLimit
  <2> HIDE DEF wanted
  <2> QED
    BY <1>2, <1>3, CapAssumption
<1>5. CASE estimate = 0
  BY <1>1, <1>5 DEF CapFor
<1>6. CASE estimate # 0 /\ Tightened(estimate, f) < SaneCap
  BY <1>1, <1>6 DEF CapFor, NoCap
<1>7. CASE estimate # 0 /\ ~(Tightened(estimate, f) < SaneCap)
  BY <1>1, <1>4, <1>7, CapAssumption DEF CapFor
<1> QED
  BY <1>1, <1>5, <1>6, <1>7

\* A cut counts for more than the cap that made it.
BackoffRaises == Backoff > 1

\* Until a raise overwrote another, the floor is past every cap that cut an answer.
FloorInv ==
    /\ ~raced => cutAt * Backoff <= floor
    /\ CutIsNeverCached

\* A turn knows no cut that the floor does not, and its cap is past the one it knows.
CapTurnOK(x) ==
    /\ x.since <= cutAt
    /\ x.at = "sent" /\ x.by = "evidence" /\ ~raced => x.cap > x.since \/ x.cap = ModelLimit

CapInv ==
    /\ CapType
    /\ FloorInv
    /\ \A t \in CapTurns : CapTurnOK(capTurn[t])

\* Where the floor stays, the turn that moves is the one to look at.
LEMMA CapTurnMoves ==
    ASSUME CapInv, NEW t \in CapTurns, NEW x \in CapTurnType, CapTurnOK(x),
           capTurn' = [capTurn EXCEPT ![t] = x], UNCHANGED <<floor, fallback, cutAt, raced>>,
           history' \in Seq(Pair), CutIsNeverCached'
    PROVE  CapInv'
BY DEF CapInv, CapType, FloorInv, CapTurnOK

\* Where the floor rises, so does the highest cut, and no turn's cap is touched.
LEMMA FloorRises ==
    ASSUME CapInv, NEW t \in CapTurns, Finished(t), floor' \in Nat, cutAt' \in Nat,
           raced' \in BOOLEAN, raced => raced', cutAt <= cutAt',
           ~raced' => cutAt' * Backoff <= floor', UNCHANGED <<history, fallback, answers>>
    PROVE  CapInv'
<1>1. IdleTurn \in CapTurnType
  BY DEF IdleTurn, CapTurnType, CapPoints, Shapes
<1>2. capTurn' \in [CapTurns -> CapTurnType]
  BY <1>1 DEF Finished, CapInv, CapType
<1>3. \A u \in CapTurns : CapTurnOK(capTurn[u])'
  <2> SUFFICES ASSUME NEW u \in CapTurns PROVE CapTurnOK(capTurn[u])'
    OBVIOUS
  <2>1. CASE u = t
    BY <2>1 DEF Finished, CapInv, CapType, CapTurnOK, IdleTurn
  <2>2. CASE u # t
    <3>1. capTurn'[u] = capTurn[u] /\ capTurn[u] \in CapTurnType /\ CapTurnOK(capTurn[u])
      BY <2>2 DEF Finished, CapInv, CapType
    <3> QED
      BY <3>1 DEF CapTurnOK, CapTurnType, CapInv, CapType
  <2> QED
    BY <2>1, <2>2
<1> QED
  BY <1>2, <1>3 DEF CapInv, CapType, FloorInv, CutIsNeverCached

\* process_request: a turn starts, and reads the history and the floor.
LEMMA CapReads ==
    ASSUME BackoffRaises, CapInv, NEW t \in CapTurns, CapStart(t) \/ ReadHistory(t) \/ ReadFloor(t)
    PROVE  CapInv'
<1>0. /\ capTurn[t] \in CapTurnType /\ CapTurnOK(capTurn[t])
      /\ floor \in Nat /\ cutAt \in Nat /\ fallback \in Nat /\ CapType
  BY DEF CapInv, CapType
<1>1. CASE CapStart(t)
  <2>1. PICK shape \in Shapes, c \in {Static, NoCap} :
          capTurn' = [capTurn EXCEPT
              ![t] = [at |-> IF shape = "workload" THEN "history" ELSE "sent", shape |-> shape,
                      estimate |-> 0, cap |-> c.cap, by |-> c.by, seen |-> 0, since |-> cutAt]]
    BY <1>1 DEF CapStart
  <2>2. c.cap \in Nat /\ c.by \in {"none", "fallback"}
    BY <1>0, <2>1, CapForType DEF NoCap
  <2> DEFINE x == [at |-> IF shape = "workload" THEN "history" ELSE "sent", shape |-> shape,
                   estimate |-> 0, cap |-> c.cap, by |-> c.by, seen |-> 0, since |-> cutAt]
  <2>3. x \in CapTurnType /\ CapTurnOK(x)
    BY <1>0, <2>2 DEF CapTurnType, CapPoints, CapTurnOK
  <2>4. capTurn' = [capTurn EXCEPT ![t] = x]
    BY <2>1
  <2> HIDE DEF x
  <2> QED
    BY <1>0, <1>1, <2>3, <2>4, CapTurnMoves DEF CapStart, CapInv, FloorInv, CutIsNeverCached, CapType
<1>2. CASE ReadHistory(t)
  <2>1. PICK estimate \in {HistoricalP95(history), 0} :
          capTurn' = [capTurn EXCEPT ![t] = [@ EXCEPT !.at = "floor", !.estimate = estimate]]
    BY <1>2 DEF ReadHistory
  <2>2. estimate \in Nat
    BY <1>0, <2>1, QuantileType DEF CapType
  <2> DEFINE x == [capTurn[t] EXCEPT !.at = "floor", !.estimate = estimate]
  <2>3. x \in CapTurnType /\ CapTurnOK(x)
    BY <1>0, <2>2 DEF CapTurnType, CapPoints, CapTurnOK
  <2>4. capTurn' = [capTurn EXCEPT ![t] = x]
    BY <2>1
  <2> HIDE DEF x
  <2> QED
    BY <1>0, <1>2, <2>3, <2>4, CapTurnMoves DEF ReadHistory, CapInv, FloorInv, CutIsNeverCached, CapType
<1>3. CASE ReadFloor(t)
  <2>1. PICK c \in {CapFor(capTurn[t].estimate, floor), Static} : Capped(t, c)
    BY <1>3 DEF ReadFloor
  <2>2. capTurn[t].estimate \in Nat /\ capTurn[t].since \in Nat
    BY <1>0 DEF CapTurnType
  <2>3. /\ c.cap \in Nat /\ c.by \in {"none", "evidence", "fallback"}
        /\ c.by = "evidence" => c.cap > 0 /\ (c.cap >= floor \/ c.cap = ModelLimit)
    BY <1>0, <2>1, <2>2, CapForType
  <2> DEFINE x == [capTurn[t] EXCEPT !.at = "sent", !.cap = c.cap, !.by = c.by]
  <2>4. x \in CapTurnType /\ x.since = capTurn[t].since /\ x.cap = c.cap /\ x.by = c.by
    BY <1>0, <2>3 DEF CapTurnType, CapPoints
  <2>5. c.by = "evidence" /\ ~raced => c.cap > capTurn[t].since \/ c.cap = ModelLimit
    <3> SUFFICES ASSUME c.by = "evidence", ~raced, c.cap >= floor
                 PROVE  c.cap > capTurn[t].since
      BY <2>3
    <3>1. capTurn[t].since <= cutAt /\ cutAt * Backoff <= floor
      BY <1>0 DEF CapTurnOK, CapInv, FloorInv
    <3>2. CASE cutAt = 0
      BY <1>0, <2>2, <2>3, <3>1, <3>2
    <3>3. CASE cutAt > 0
      <4>1. cutAt * Backoff >= cutAt * 2 /\ cutAt * Backoff \in Nat
        BY <1>0, <3>3, CapAssumption DEF BackoffRaises
      <4> QED
        BY <1>0, <2>2, <2>3, <3>1, <3>3, <4>1
    <3> QED
      BY <1>0, <3>2, <3>3
  <2>6. CapTurnOK(x)
    <3> HIDE DEF x
    <3> QED
      BY <1>0, <2>4, <2>5 DEF CapTurnOK
  <2>7. capTurn' = [capTurn EXCEPT ![t] = x]
    BY <2>1 DEF Capped
  <2> HIDE DEF x
  <2> QED
    BY <1>0, <1>3, <2>4, <2>6, <2>7, CapTurnMoves
    DEF ReadFloor, CapInv, FloorInv, CutIsNeverCached, CapType
<1> QED
  BY <1>1, <1>2, <1>3

\* process_response: the answer is recorded, and what was cut is not stored.
LEMMA CapAnswers ==
    ASSUME CapInv, NEW t \in CapTurns, CapAnswer(t)
    PROVE  CapInv'
<1>0. /\ capTurn[t] \in CapTurnType /\ CapTurnOK(capTurn[t]) /\ history \in Seq(Pair)
      /\ floor \in Nat /\ cutAt \in Nat /\ fallback \in Nat /\ capTurn[t].cap \in Nat
  BY DEF CapInv, CapType, CapTurnType
<1>1. UNCHANGED <<floor, fallback, cutAt, raced>>
  BY DEF CapAnswer
<1>2. PICK want \in AnswerSizes, finish \in {"stop", "other"}, v \in {"kept", "withheld"} :
        LET cap == capTurn[t].cap
            cut == cap # 0 /\ want > cap
            pair == [max |-> cap, tokens |-> IF cut THEN cap ELSE want, truncated |-> cut]
        IN  /\ answers' = IF capTurn[t].shape # "stream" /\ v = "kept" /\ Stores(t, cut)
                          THEN answers \cup {IF cut THEN "cut" ELSE "whole"} ELSE answers
            /\ history' \in {history, RecordPair(history, pair)}
            /\ Finished(t) \/ Goes(t, "raise")
  BY DEF CapAnswer, ValidateOutput
<1> DEFINE cap == capTurn[t].cap
           cut == cap # 0 /\ want > cap
           pair == [max |-> cap, tokens |-> IF cut THEN cap ELSE want, truncated |-> cut]
<1>3. pair \in Pair
  <2>1. want \in 1 .. ModelLimit /\ ModelLimit \in Nat
    BY CapAssumption
  <2>2. (IF cut THEN cap ELSE want) \in 0 .. ModelLimit /\ cut \in BOOLEAN
    BY <1>0, <2>1
  <2> QED
    BY <1>0, <2>2 DEF Pair
<1>4. history' \in Seq(Pair)
  <2> HIDE DEF pair
  <2>1. history' \in {history, RecordPair(history, pair)}
    BY <1>2 DEF pair
  <2> QED
    BY <1>0, <1>3, <2>1, RecordType
<1>5. CutIsNeverCached'
  BY <1>2 DEF Stores, CapInv, FloorInv, CutIsNeverCached
<1>6. \E x \in CapTurnType : CapTurnOK(x) /\ capTurn' = [capTurn EXCEPT ![t] = x]
  <2>1. CASE Finished(t)
    <3>1. IdleTurn \in CapTurnType /\ CapTurnOK(IdleTurn)
      BY <1>0 DEF IdleTurn, CapTurnType, CapPoints, Shapes, CapTurnOK
    <3> QED
      BY <2>1, <3>1 DEF Finished
  <2>2. CASE Goes(t, "raise")
    <3> DEFINE x == [capTurn[t] EXCEPT !.at = "raise"]
    <3>1. x \in CapTurnType /\ CapTurnOK(x)
      BY <1>0 DEF CapTurnType, CapPoints, CapTurnOK
    <3>2. capTurn' = [capTurn EXCEPT ![t] = x]
      BY <2>2 DEF Goes
    <3> QED
      BY <3>1, <3>2
  <2> QED
    BY <1>2, <2>1, <2>2
<1> QED
  BY <1>1, <1>4, <1>5, <1>6, CapTurnMoves

\* _raise_sticky_floor: by the script, or by a read and a write.
LEMMA CapRaises ==
    ASSUME CapInv, NEW t \in CapTurns, Raise(t) \/ RaiseRead(t) \/ RaiseWrite(t)
    PROVE  CapInv'
<1>0. /\ capTurn[t] \in CapTurnType /\ CapTurnOK(capTurn[t]) /\ history \in Seq(Pair)
      /\ floor \in Nat /\ cutAt \in Nat /\ fallback \in Nat /\ raced \in BOOLEAN
      /\ capTurn[t].cap \in Nat /\ capTurn[t].seen \in Nat /\ FloorInv
  BY DEF CapInv, CapType, CapTurnType
<1>1. Raised(t) \in Nat /\ Backoff \in Nat
  BY <1>0, CapAssumption DEF Raised
<1> DEFINE highest == Max({cutAt, capTurn[t].cap})
<1>2. highest \in Nat /\ highest >= cutAt /\ (highest = cutAt \/ highest = capTurn[t].cap)
  <2>1. \A a, b \in Nat :
          Max({a, b}) \in Nat /\ Max({a, b}) >= a /\ (Max({a, b}) = a \/ Max({a, b}) = b)
    BY LargerOfTwo
  <2> QED
    BY <1>0, <2>1
<1>3. CASE Raise(t)
  <2>1. floor' \in Nat /\ floor' >= floor /\ floor' >= Raised(t)
    <3>1. \A a, b \in Nat : Max({a, b}) \in Nat /\ Max({a, b}) >= a /\ Max({a, b}) >= b
      BY LargerOfTwo
    <3> QED
      BY <1>0, <1>1, <1>3, <3>1 DEF Raise, RaiseFloor
  <2>2. ~raced => highest * Backoff <= floor'
    BY <1>0, <1>1, <1>2, <2>1 DEF FloorInv, Raised
  <2>3. cutAt' = highest /\ raced' = raced /\ Finished(t) /\ UNCHANGED <<history, fallback, answers>>
    BY <1>3 DEF Raise
  <2> HIDE DEF highest
  <2> QED
    BY <1>0, <1>2, <2>1, <2>2, <2>3, FloorRises
<1>4. CASE RaiseWrite(t)
  <2>1. CASE capTurn[t].seen >= Raised(t)
    BY <1>0, <1>4, <2>1, FloorRises DEF RaiseWrite, FloorInv
  <2>2. CASE ~(capTurn[t].seen >= Raised(t))
    <3>1. /\ floor' = Raised(t) /\ cutAt' = highest /\ raced' = (raced \/ floor # capTurn[t].seen)
          /\ Finished(t) /\ UNCHANGED <<history, fallback, answers>>
      BY <1>4, <2>2 DEF RaiseWrite
    <3> HIDE DEF highest
    <3>2. ~raced' => highest * Backoff <= floor'
      <4>1. CASE highest = capTurn[t].cap
        BY <1>1, <3>1, <4>1 DEF Raised
      <4>2. ASSUME highest = cutAt, ~raced' PROVE highest * Backoff <= floor'
        <5>1. ~raced /\ floor = capTurn[t].seen
          BY <1>0, <3>1, <4>2
        <5>2. cutAt * Backoff <= floor /\ cutAt * Backoff \in Nat
          BY <1>0, <1>1, <5>1 DEF FloorInv
        <5> QED
          BY <1>0, <1>1, <2>2, <3>1, <4>2, <5>1, <5>2
      <4> QED
        BY <1>1, <1>2, <4>1, <4>2, <3>1 DEF Raised
    <3> QED
      BY <1>0, <1>1, <1>2, <3>1, <3>2, FloorRises
  <2> QED
    BY <2>1, <2>2
<1>5. CASE RaiseRead(t)
  <2>1. CASE Finished(t)
    BY <1>0, <1>5, <2>1, FloorRises DEF RaiseRead, FloorInv
  <2>2. CASE capTurn' = [capTurn EXCEPT ![t] = [@ EXCEPT !.at = "write", !.seen = floor]]
    <3> DEFINE x == [capTurn[t] EXCEPT !.at = "write", !.seen = floor]
    <3>1. x \in CapTurnType /\ CapTurnOK(x)
      BY <1>0 DEF CapTurnType, CapPoints, CapTurnOK
    <3>2. capTurn' = [capTurn EXCEPT ![t] = x]
      BY <2>2
    <3> HIDE DEF x
    <3> QED
      BY <1>0, <1>5, <3>1, <3>2, CapTurnMoves DEF RaiseRead, FloorInv, CutIsNeverCached
  <2> QED
    BY <1>5, <2>1, <2>2 DEF RaiseRead
<1> QED
  BY <1>3, <1>4, <1>5

\* The keys' TTLs run out: what a turn knew of the floor is forgotten with it.
LEMMA FloorGoes ==
    ASSUME CapInv, FloorExpires
    PROVE  CapInv'
<1>1. ASSUME NEW t \in CapTurns
      PROVE  /\ [capTurn[t] EXCEPT !.since = 0] \in CapTurnType
             /\ CapTurnOK(capTurn[t]) /\ capTurn[t] \in CapTurnType
  BY DEF CapInv, CapType, CapTurnType
<1>2. capTurn' \in [CapTurns -> CapTurnType]
  BY <1>1 DEF FloorExpires
<1>3. ASSUME NEW t \in CapTurns PROVE CapTurnOK(capTurn[t])'
  <2>1. capTurn'[t] = [capTurn[t] EXCEPT !.since = 0] /\ cutAt' = 0 /\ raced' = raced
    BY DEF FloorExpires
  <2>2. /\ capTurn'[t].since = 0 /\ capTurn'[t].at = capTurn[t].at /\ capTurn'[t].by = capTurn[t].by
        /\ capTurn'[t].cap = capTurn[t].cap
    BY <1>1, <2>1 DEF CapTurnType
  <2>3. capTurn[t].cap \in Nat /\ capTurn[t].since \in Nat
    BY <1>1 DEF CapTurnType
  <2> QED
    BY <1>1, <2>1, <2>2, <2>3 DEF CapTurnOK
<1> QED
  BY <1>2, <1>3, CapAssumption DEF CapInv, CapType, FloorInv, CutIsNeverCached, FloorExpires

\* When a cut raises its estimate, an answer that was cut harms no later one: no turn
\* that starts after it is capped as low again (_FLOOR_CAS_LUA), and no hit serves it
\* (no_cache).  Where the operator's truncation_backoff_multiplier is 1, a cut raises nothing.
THEOREM CutsAlwaysHeal == CapSpec /\ BackoffRaises => []CutsHeal
<1> SUFFICES ASSUME BackoffRaises PROVE CapSpec => []CutsHeal
  BY DEF BackoffRaises
<1>1. CapInit => CapInv
  <2>1. IdleTurn \in CapTurnType
    BY DEF IdleTurn, CapTurnType, CapPoints, Shapes
  <2>2. <<>> \in Seq(Pair)
    OBVIOUS
  <2> SUFFICES ASSUME CapInit PROVE CapInv
    OBVIOUS
  <2>3. CapType
    BY <2>1, <2>2, CapAssumption DEF CapInit, CapType
  <2>4. FloorInv
    BY CapAssumption DEF CapInit, FloorInv, CutIsNeverCached
  <2> QED
    BY <2>3, <2>4 DEF CapInit, CapInv, CapTurnOK, IdleTurn
<1>2. CapInv /\ [CapNext]_capVars => CapInv'
  <2> SUFFICES ASSUME CapInv, [CapNext]_capVars PROVE CapInv'
    OBVIOUS
  <2>1. CASE UNCHANGED capVars
    BY <2>1 DEF CapInv, CapType, FloorInv, CutIsNeverCached, CapTurnOK, capVars
  <2>2. CASE HistoryExpires
    <3>1. <<>> \in Seq(Pair)
      OBVIOUS
    <3> QED
      BY <2>2, <3>1 DEF CapInv, CapType, FloorInv, CutIsNeverCached, CapTurnOK, HistoryExpires
  <2> QED
    BY <2>1, <2>2, CapReads, CapAnswers, CapRaises, FloorGoes DEF CapNext
<1>3. CapInv => CutsHeal
  BY DEF CapInv, FloorInv, CapTurnOK, CutsHeal, CutsConverge
<1> QED
  BY <1>1, <1>2, <1>3, PTL DEF CapSpec

-----------------------------------------------------------------------------
(* G17: the turns a workflow may take.                                      *)

LoopTurnType == [at : {"idle", "first", "count", "expire"}, begun : Nat, number : Nat,
                 sure : BOOLEAN, mine : BOOLEAN]

LoopType ==
    /\ clock \in Nat /\ startKey \in Nat /\ turnKey \in Nat /\ unstopped \in Nat
    /\ loopTurn \in [LoopTurns -> LoopTurnType]

\* Turns counted by the counter that lives, with a number that lets them through.
Through == {t \in LoopTurns : loopTurn[t].mine /\ loopTurn[t].number <= MaxIterations}

\* Every number up to the limit was given once: to a turn that was let through, or that
\* is about to be.
LoopInv ==
    /\ LoopType
    /\ \A t \in LoopTurns : loopTurn[t].mine => loopTurn[t].at = "expire"
    /\ unstopped + Cardinality(Through) <= turnKey
    /\ unstopped + Cardinality(Through) <= MaxIterations

\* The numbered turns are finitely many.
LEMMA ThroughIsFinite == IsFiniteSet(Through) /\ Cardinality(Through) \in Nat
BY SessionAssumption, FS_Subset, FS_CardinalityType DEF Through

\* Every step keeps the types.
LEMMA LoopTypeKeeps ==
    ASSUME LoopType, NEW t \in LoopTurns,
           LoopStart(t) \/ SetStart(t) \/ CountTurn(t) \/ CheckLoop(t) \/ LoopFails(t)
    PROVE  LoopType'
<1>0. loopTurn[t] \in LoopTurnType
  BY DEF LoopType
<1>1. CASE LoopStart(t)
  <2>1. PICK sure \in BOOLEAN :
          loopTurn' = [loopTurn EXCEPT
              ![t] = [at |-> IF startKey = 0 THEN "first" ELSE "count", begun |-> startKey,
                      number |-> turnKey, sure |-> sure, mine |-> FALSE]]
    BY <1>1 DEF LoopStart
  <2>2. [at |-> IF startKey = 0 THEN "first" ELSE "count", begun |-> startKey,
         number |-> turnKey, sure |-> sure, mine |-> FALSE] \in LoopTurnType
    BY DEF LoopType, LoopTurnType
  <2> QED
    BY <1>1, <2>1, <2>2 DEF LoopStart, LoopType
<1>2. CASE SetStart(t)
  <2>1. [loopTurn[t] EXCEPT !.at = "count", !.begun = clock] \in LoopTurnType
    BY <1>0 DEF LoopType, LoopTurnType
  <2> QED
    BY <1>2, <2>1 DEF SetStart, LoopType
<1>3. CASE CountTurn(t)
  <2>1. \A n \in Nat :
          [loopTurn[t] EXCEPT !.at = "expire", !.number = n, !.mine = TRUE] \in LoopTurnType
    BY <1>0 DEF LoopTurnType
  <2>2. turnKey' = turnKey + 1 /\ turnKey + 1 \in Nat /\ UNCHANGED <<clock, startKey, unstopped>>
    BY <1>3 DEF CountTurn, TurnCounted, LoopType
  <2>3. PICK x \in LoopTurnType : loopTurn' = [loopTurn EXCEPT ![t] = x]
    BY <1>3, <2>1, <2>2 DEF CountTurn, TurnCounted, Numbered
  <2> QED
    BY <2>2, <2>3 DEF LoopType
<1>4. NoLoopTurn \in LoopTurnType
  BY DEF NoLoopTurn, LoopTurnType
<1>5. CASE CheckLoop(t)
  BY <1>4, <1>5 DEF CheckLoop, LoopEnds, LoopType
<1>6. CASE LoopFails(t)
  BY <1>4, <1>6 DEF LoopFails, LoopEnds, LoopType
<1> QED
  BY <1>1, <1>2, <1>3, <1>5, <1>6

\* A turn that gets no number and is not let through leaves the account as it was.
LEMMA NoNumber ==
    ASSUME LoopInv, LoopType', NEW t \in LoopTurns, NEW x \in LoopTurnType, ~x.mine,
           loopTurn' = [loopTurn EXCEPT ![t] = x], UNCHANGED <<turnKey, unstopped>>
    PROVE  LoopInv'
<1>1. \A u \in LoopTurns : loopTurn'[u] = IF u = t THEN x ELSE loopTurn[u]
  BY DEF LoopInv, LoopType
<1>2. Through' \subseteq Through
  BY <1>1 DEF Through
<1>3. Cardinality(Through') <= Cardinality(Through) /\ Cardinality(Through') \in Nat
  BY <1>2, ThroughIsFinite, FS_Subset, FS_CardinalityType
<1>4. unstopped' + Cardinality(Through') <= unstopped + Cardinality(Through)
  BY <1>3, ThroughIsFinite DEF LoopInv, LoopType
<1> QED
  BY <1>1, <1>3, <1>4, ThroughIsFinite, SessionAssumption DEF LoopInv, LoopType

\* A turn takes its number.
LEMMA CountKeepsLoop ==
    ASSUME LoopInv, NEW t \in LoopTurns, CountTurn(t)
    PROVE  LoopInv'
<1>0. LoopType'
  BY LoopTypeKeeps DEF LoopInv
<1> DEFINE x == [loopTurn[t] EXCEPT !.at = "expire", !.number = turnKey + 1, !.mine = TRUE]
<1>1. /\ loopTurn[t] \in LoopTurnType /\ turnKey \in Nat /\ unstopped \in Nat
      /\ ~loopTurn[t].mine
  BY DEF LoopInv, LoopType, CountTurn
<1>2. x.at = "expire" /\ x.number = turnKey + 1 /\ x.mine
  BY <1>1 DEF LoopTurnType
<1>3. loopTurn' = [loopTurn EXCEPT ![t] = x] /\ turnKey' = turnKey + 1 /\ unstopped' = unstopped
  BY DEF CountTurn, TurnCounted, Numbered
<1> HIDE DEF x
<1>4. \A u \in LoopTurns : loopTurn'[u] = IF u = t THEN x ELSE loopTurn[u]
  BY <1>3 DEF LoopInv, LoopType
<1>5. t \notin Through
  BY <1>1 DEF Through
<1>6. CASE turnKey + 1 <= MaxIterations
  <2>1. Through' = Through \cup {t}
    BY <1>2, <1>4, <1>6 DEF Through
  <2>2. Cardinality(Through') = Cardinality(Through) + 1
    BY <2>1, <1>5, ThroughIsFinite, FS_AddElement
  <2> QED
    BY <1>0, <1>1, <1>2, <1>3, <1>4, <1>6, <2>2, ThroughIsFinite, SessionAssumption DEF LoopInv
<1>7. CASE ~(turnKey + 1 <= MaxIterations)
  <2>1. Through' = Through
    BY <1>2, <1>4, <1>5, <1>7 DEF Through
  <2> QED
    BY <1>0, <1>1, <1>2, <1>3, <1>4, <2>1, ThroughIsFinite, SessionAssumption DEF LoopInv
<1> QED
  BY <1>6, <1>7

\* A turn is judged by its number.
LEMMA CheckKeepsLoop ==
    ASSUME LoopInv, NEW t \in LoopTurns, CheckLoop(t)
    PROVE  LoopInv'
<1>0. LoopType' /\ LoopType
  BY LoopTypeKeeps DEF LoopInv
<1>1. loopTurn' = [loopTurn EXCEPT ![t] = NoLoopTurn] /\ turnKey' = turnKey
  BY DEF CheckLoop, LoopEnds
<1>2. NoLoopTurn \in LoopTurnType /\ ~NoLoopTurn.mine
  BY DEF NoLoopTurn, LoopTurnType
<1>3. CASE Stopped(t) \/ ~loopTurn[t].mine
  BY <1>0, <1>1, <1>2, <1>3, NoNumber DEF CheckLoop
<1>4. CASE ~(Stopped(t) \/ ~loopTurn[t].mine)
  <2>1. unstopped' = unstopped + 1
    BY <1>4 DEF CheckLoop
  <2>2. loopTurn[t].number \in Nat /\ MaxIterations \in Nat
    BY <1>0, SessionAssumption DEF LoopType, LoopTurnType
  <2>3. t \in Through
    BY <1>4, <2>2 DEF Through, Stopped
  <2>4. \A u \in LoopTurns : loopTurn'[u] = IF u = t THEN NoLoopTurn ELSE loopTurn[u]
    BY <1>0, <1>1 DEF LoopType
  <2>5. Through' = Through \ {t}
    BY <1>2, <2>4 DEF Through
  <2>6. Cardinality(Through') = Cardinality(Through) - 1
    BY <2>3, <2>5, ThroughIsFinite, FS_RemoveElement
  <2> QED
    BY <1>0, <1>1, <1>2, <2>1, <2>2, <2>4, <2>6, ThroughIsFinite DEF LoopInv, LoopType
<1> QED
  BY <1>3, <1>4

\* The counter expires.
LEMMA TickKeepsLoop ==
    ASSUME LoopInv, LoopTick
    PROVE  LoopInv'
<1> DEFINE gone == turnDue # 0 /\ turnDue <= clock + 1
<1>0. LoopType
  BY DEF LoopInv
<1>1. \A t \in LoopTurns :
        /\ [loopTurn[t] EXCEPT !.mine = @ /\ ~gone] \in LoopTurnType
        /\ [loopTurn[t] EXCEPT !.mine = @ /\ ~gone].at = loopTurn[t].at
        /\ [loopTurn[t] EXCEPT !.mine = @ /\ ~gone].number = loopTurn[t].number
        /\ [loopTurn[t] EXCEPT !.mine = @ /\ ~gone].mine <=> loopTurn[t].mine /\ ~gone
  <2> HIDE DEF gone
  <2> QED
    BY <1>0 DEF LoopType, LoopTurnType
<1>2. /\ loopTurn' = [t \in LoopTurns |-> [loopTurn[t] EXCEPT !.mine = @ /\ ~gone]]
      /\ turnKey' = IF gone THEN 0 ELSE turnKey
      /\ unstopped' = IF gone THEN 0 ELSE unstopped
      /\ clock' = clock + 1 /\ startKey' \in {0, startKey}
  BY DEF LoopTick
<1> HIDE DEF gone
<1>3. LoopType'
  BY <1>0, <1>1, <1>2 DEF LoopType
<1>4. \A t \in LoopTurns : loopTurn'[t].mine => loopTurn'[t].at = "expire"
  BY <1>1, <1>2 DEF LoopInv
<1>5. CASE gone
  <2>1. Through' = {}
    BY <1>1, <1>2, <1>5 DEF Through
  <2>2. Cardinality(Through') = 0
    BY <2>1, FS_EmptySet
  <2> QED
    BY <1>2, <1>3, <1>4, <1>5, <2>2, SessionAssumption DEF LoopInv
<1>6. CASE ~gone
  <2>1. Through' = Through
    BY <1>1, <1>2, <1>6 DEF Through
  <2> QED
    BY <1>2, <1>3, <1>4, <1>6, <2>1 DEF LoopInv
<1> QED
  BY <1>5, <1>6

\* Every step keeps it.
LEMMA LoopStep ==
    ASSUME LoopInv, [LoopNext]_loopVars
    PROVE  LoopInv'
<1>1. ASSUME NEW t \in LoopTurns, LoopStart(t) PROVE LoopInv'
  <2>1. PICK x \in LoopTurnType : ~x.mine /\ loopTurn' = [loopTurn EXCEPT ![t] = x]
    <3>1. PICK sure \in BOOLEAN :
            loopTurn' = [loopTurn EXCEPT
                ![t] = [at |-> IF startKey = 0 THEN "first" ELSE "count", begun |-> startKey,
                        number |-> turnKey, sure |-> sure, mine |-> FALSE]]
      BY <1>1 DEF LoopStart
    <3> DEFINE x == [at |-> IF startKey = 0 THEN "first" ELSE "count", begun |-> startKey,
                     number |-> turnKey, sure |-> sure, mine |-> FALSE]
    <3>2. x \in LoopTurnType /\ ~x.mine
      BY DEF LoopInv, LoopType, LoopTurnType
    <3> QED
      BY <3>1, <3>2
  <2> QED
    BY <1>1, <2>1, LoopTypeKeeps, NoNumber DEF LoopStart, LoopInv
<1>2. ASSUME NEW t \in LoopTurns, SetStart(t) PROVE LoopInv'
  <2> DEFINE x == [loopTurn[t] EXCEPT !.at = "count", !.begun = clock]
  <2>1. x \in LoopTurnType /\ ~x.mine
    BY <1>2 DEF LoopInv, LoopType, LoopTurnType, SetStart
  <2>2. loopTurn' = [loopTurn EXCEPT ![t] = x]
    BY <1>2 DEF SetStart
  <2> HIDE DEF x
  <2> QED
    BY <1>2, <2>1, <2>2, LoopTypeKeeps, NoNumber DEF SetStart, LoopInv
<1>3. ASSUME NEW t \in LoopTurns, LoopFails(t) PROVE LoopInv'
  <2>1. NoLoopTurn \in LoopTurnType /\ ~NoLoopTurn.mine
    BY DEF NoLoopTurn, LoopTurnType
  <2> QED
    BY <1>3, <2>1, LoopTypeKeeps, NoNumber DEF LoopFails, LoopEnds, LoopInv
<1>4. CASE UNCHANGED loopVars
  BY <1>4 DEF LoopInv, LoopType, Through, loopVars
<1> QED
  BY <1>1, <1>2, <1>3, <1>4, CountKeepsLoop, CheckKeepsLoop, TickKeepsLoop DEF LoopNext

\* However many turns of a workflow run at once, at most max_iterations of those its
\* counter numbered pass G17 unflagged while the counter lives.
THEOREM LoopAlwaysStops == SessionsSpec => []LoopIsStopped
<1>1. SessionsInit => LoopInv
  <2> SUFFICES ASSUME SessionsInit PROVE LoopInv
    OBVIOUS
  <2>1. NoLoopTurn \in LoopTurnType /\ ~NoLoopTurn.mine
    BY DEF NoLoopTurn, LoopTurnType
  <2>2. Through = {}
    BY <2>1 DEF Through, SessionsInit, LoopInit
  <2> QED
    BY <2>1, <2>2, FS_EmptySet, SessionAssumption DEF SessionsInit, LoopInit, LoopInv, LoopType
<1>2. LoopInv /\ [SessionsNext]_sessionVars => LoopInv'
  BY LoopStep DEF SessionsNext, sessionVars
<1>3. LoopInv => LoopIsStopped
  BY ThroughIsFinite, SessionAssumption DEF LoopInv, LoopType, LoopIsStopped
<1> QED
  BY <1>1, <1>2, <1>3, PTL DEF SessionsSpec

-----------------------------------------------------------------------------
(* G10: what a session remembers.                                           *)

MemTurnType == [at : {"idle", "load", "keep", "summarise"}, sent : SUBSET Nat,
                prompt : SUBSET Nat, kept : SUBSET Nat, before : SUBSET Nat]

MemType ==
    /\ said \in Nat /\ disturbed \in BOOLEAN /\ style \in {"relying", "resending"}
    /\ session.facts \in SUBSET Nat
    /\ memTurn \in [MemTurns -> MemTurnType]

\* A turn of an undisturbed session: it carries the newest message, and the summary it
\* loaded, or will load, covers the ones before.
MemTurnOK(x) ==
    x.at # "idle" =>
        /\ said > 0 /\ x.before = 1 .. said - 1
        /\ style = "resending" => x.sent = 1 .. said
        /\ style = "relying" =>
             /\ x.sent = {said} /\ x.at # "keep"
             /\ session.facts = 1 .. said - 1
             /\ x.at = "summarise" => x.kept = 1 .. said - 1
        /\ x.at \in {"keep", "summarise"} => x.before \subseteq x.prompt

\* An undisturbed session has one turn at a time, and between turns its summary covers
\* the conversation a relying client does not send again.
MemOK ==
    /\ \A t \in MemTurns : MemTurnOK(memTurn[t])
    /\ \A t, u \in MemTurns : memTurn[t].at # "idle" /\ memTurn[u].at # "idle" => t = u
    /\ style = "relying" =>
         /\ session.count \in {-1, 1}
         /\ (\A t \in MemTurns : memTurn[t].at = "idle") => session.facts = 1 .. said

MemInv == MemType /\ (~disturbed => MemOK)

\* Nothing is claimed of a session once it was disturbed.
LEMMA OnceDisturbed ==
    ASSUME MemType', disturbed'
    PROVE  MemInv'
BY DEF MemInv

\* Every step keeps the types.
LEMMA MemTypeKeeps ==
    ASSUME MemType, NEW t \in MemTurns,
           MemStart(t) \/ Load(t) \/ KeepSession(t) \/ SaveSession(t)
    PROVE  MemType'
<1>0. memTurn[t] \in MemTurnType /\ NoMemTurn \in MemTurnType
  BY DEF MemType, MemTurnType, NoMemTurn
<1>1. CASE MemStart(t)
  <2>1. \A A, B \in SUBSET Nat :
          [memTurn[t] EXCEPT !.at = "load", !.before = A, !.sent = B] \in MemTurnType
    BY <1>0 DEF MemTurnType
  <2>2. /\ 1 .. said \in SUBSET Nat /\ said + 1 \in Nat
        /\ (IF style = "relying" THEN {said + 1} ELSE 1 .. said + 1) \in SUBSET Nat
    BY DEF MemType
  <2>3. disturbed' \in BOOLEAN
    BY <1>1 DEF MemStart, MemType, MemBusy
  <2>4. PICK x \in MemTurnType : memTurn' = [memTurn EXCEPT ![t] = x]
    BY <1>1, <2>1, <2>2 DEF MemStart
  <2> QED
    BY <1>1, <2>2, <2>3, <2>4 DEF MemStart, MemType
<1>2. CASE Load(t)
  <2>1. \A A, B \in SUBSET Nat, p \in {"keep", "summarise"} :
          [memTurn[t] EXCEPT !.at = p, !.kept = A, !.prompt = B] \in MemTurnType
    BY <1>0 DEF MemTurnType
  <2>2. session.facts \in SUBSET Nat /\ memTurn[t].sent \in SUBSET Nat
    BY <1>0 DEF MemType, MemTurnType
  <2>3. PICK x \in MemTurnType : memTurn' = [memTurn EXCEPT ![t] = x]
    <3>1. CASE MemEnds(t)
      BY <1>0, <3>1 DEF MemEnds
    <3>2. CASE ~MemEnds(t)
      <4> DEFINE stored1 == IF Resent(t) THEN {} ELSE session.facts
                 p == IF Resent(t) THEN "keep" ELSE "summarise"
      <4>1. memTurn' = [memTurn EXCEPT ![t] = [@ EXCEPT !.at = p, !.kept = session.facts,
                                                         !.prompt = stored1 \cup memTurn[t].sent]]
        BY <1>2, <3>2 DEF Load
      <4>2. stored1 \cup memTurn[t].sent \in SUBSET Nat /\ p \in {"keep", "summarise"}
        BY <2>2
      <4> HIDE DEF stored1, p
      <4> QED
        BY <2>1, <2>2, <4>1, <4>2
    <3> QED
      BY <3>1, <3>2
  <2>4. disturbed' \in BOOLEAN /\ UNCHANGED <<session, said, style>>
    BY <1>2 DEF Load, MemType
  <2> QED
    BY <2>3, <2>4 DEF MemType
<1>3. CASE KeepSession(t) \/ SaveSession(t)
  <2>1. memTurn[t].kept \in SUBSET Nat /\ memTurn[t].sent \in SUBSET Nat
    BY <1>0 DEF MemTurnType
  <2>2. memTurn' = [memTurn EXCEPT ![t] = NoMemTurn] /\ UNCHANGED <<said, style>>
    BY <1>3 DEF KeepSession, SaveSession, MemEnds
  <2>3. disturbed' \in BOOLEAN
    BY <1>3 DEF KeepSession, SaveSession, MemType
  <2>4. session'.facts \in SUBSET Nat
    <3>1. CASE UNCHANGED session
      BY <3>1 DEF MemType
    <3>2. CASE session' # session
      <4>1. PICK facts \in SUBSET Nat :
              session' = [facts |-> facts, count |-> Cardinality(memTurn[t].sent)]
        BY <1>3, <2>1, <3>2 DEF KeepSession, SaveSession, Summary
      <4> QED
        BY <4>1
    <3> QED
      BY <3>1, <3>2
  <2> QED
    BY <1>0, <2>2, <2>3, <2>4 DEF MemType
<1> QED
  BY <1>1, <1>2, <1>3

\* The whole of a session's turns, one step further.
LEMMA MemStep ==
    ASSUME MemInv, [MemNext]_memVars
    PROVE  MemInv'
<1>0. MemType
  BY DEF MemInv
<1>1. ASSUME NEW t \in MemTurns, MemStart(t) PROVE MemInv'
  <2> SUFFICES ASSUME ~disturbed' PROVE MemInv'
    BY <1>0, <1>1, MemTypeKeeps, OnceDisturbed
  <2>1. ~disturbed /\ MemOK /\ \A u \in MemTurns : memTurn[u].at = "idle"
    BY <1>0, <1>1 DEF MemStart, MemBusy, MemInv, MemType
  <2> DEFINE x == [memTurn[t] EXCEPT
                     !.at = "load", !.before = 1 .. said,
                     !.sent = IF style = "relying" THEN {said + 1} ELSE 1 .. said + 1]
  <2>2. /\ x.at = "load" /\ x.before = 1 .. said
        /\ x.sent = IF style = "relying" THEN {said + 1} ELSE 1 .. said + 1
    BY <1>0 DEF MemType, MemTurnType
  <2>3. /\ memTurn' = [memTurn EXCEPT ![t] = x]
        /\ said' = said + 1 /\ UNCHANGED <<session, style>>
    BY <1>1 DEF MemStart
  <2> HIDE DEF x
  <2>4. \A u \in MemTurns : memTurn'[u] = IF u = t THEN x ELSE memTurn[u]
    BY <1>0, <2>3 DEF MemType
  <2>5. said \in Nat /\ said + 1 - 1 = said /\ said + 1 > 0
    BY <1>0 DEF MemType
  <2>6. MemTurnOK(memTurn[t])'
    BY <1>0, <2>1, <2>2, <2>3, <2>4, <2>5 DEF MemTurnOK, MemOK, MemType
  <2>7. \A u \in MemTurns : MemTurnOK(memTurn[u])'
    BY <2>1, <2>4, <2>6 DEF MemTurnOK
  <2>8. MemOK'
    BY <2>1, <2>2, <2>3, <2>4, <2>7 DEF MemOK
  <2> QED
    BY <1>0, <1>1, <2>8, MemTypeKeeps DEF MemInv
<1>2. ASSUME NEW t \in MemTurns, Load(t) PROVE MemInv'
  <2> SUFFICES ASSUME ~disturbed' PROVE MemInv'
    BY <1>0, <1>2, MemTypeKeeps, OnceDisturbed
  <2>1. /\ ~disturbed /\ MemOK /\ MemTurnOK(memTurn[t]) /\ memTurn[t].at = "load"
        /\ UNCHANGED <<session, said, style>>
    BY <1>0, <1>2 DEF Load, MemInv, MemOK
  <2> DEFINE stored1 == IF Resent(t) THEN {} ELSE session.facts
             x == [memTurn[t] EXCEPT !.at = IF Resent(t) THEN "keep" ELSE "summarise",
                                     !.kept = session.facts,
                                     !.prompt = stored1 \cup memTurn[t].sent]
  <2>2. memTurn' = [memTurn EXCEPT ![t] = x]
    BY <1>2, <2>1 DEF Load
  <2>3. /\ x.at = IF Resent(t) THEN "keep" ELSE "summarise"
        /\ x.kept = session.facts /\ x.prompt = stored1 \cup memTurn[t].sent
        /\ x.sent = memTurn[t].sent /\ x.before = memTurn[t].before
    BY <1>0 DEF MemType, MemTurnType
  <2>4. \A u \in MemTurns : memTurn'[u] = IF u = t THEN x ELSE memTurn[u]
    <3> HIDE DEF x
    <3> QED
      BY <1>0, <2>2 DEF MemType
  <2>5. style = "relying" => ~Resent(t)
    <3> SUFFICES ASSUME style = "relying" PROVE ~Resent(t)
      OBVIOUS
    <3>1. memTurn[t].sent = {said} /\ session.count \in {-1, 1}
      BY <2>1 DEF MemTurnOK, MemOK
    <3>2. Cardinality(memTurn[t].sent) = 1
      BY <3>1, FS_Singleton
    <3> QED
      BY <3>1, <3>2 DEF Resent
  <2> HIDE DEF x
  <2>6. x.before \subseteq x.prompt
    <3>1. CASE style = "relying"
      BY <2>1, <2>3, <2>5, <3>1 DEF MemTurnOK
    <3>2. CASE style = "resending"
      <4>1. x.sent = 1 .. said /\ x.before = 1 .. said - 1
        BY <2>1, <2>3, <3>2 DEF MemTurnOK
      <4>2. 1 .. said - 1 \subseteq 1 .. said
        BY <1>0 DEF MemType
      <4> QED
        BY <2>3, <4>1, <4>2
    <3> QED
      BY <1>0, <3>1, <3>2 DEF MemType
  <2>7. MemTurnOK(memTurn[t])'
    BY <2>1, <2>3, <2>4, <2>5, <2>6 DEF MemTurnOK
  <2>8. \A u \in MemTurns : MemTurnOK(memTurn[u])'
    BY <2>1, <2>4, <2>7 DEF MemTurnOK, MemOK
  <2>9. MemOK'
    BY <2>1, <2>3, <2>4, <2>8 DEF MemOK
  <2> QED
    BY <1>0, <1>2, <2>9, MemTypeKeeps DEF MemInv
<1>3. ASSUME NEW t \in MemTurns, KeepSession(t) \/ SaveSession(t) PROVE MemInv'
  <2> SUFFICES ASSUME ~disturbed' PROVE MemInv'
    BY <1>0, <1>3, MemTypeKeeps, OnceDisturbed
  <2>1. ~disturbed /\ MemOK /\ MemTurnOK(memTurn[t]) /\ memTurn[t].at \in {"keep", "summarise"}
    BY <1>0, <1>3 DEF KeepSession, SaveSession, MemInv, MemOK
  <2>2. memTurn' = [memTurn EXCEPT ![t] = NoMemTurn] /\ UNCHANGED <<said, style>>
    BY <1>3 DEF KeepSession, SaveSession, MemEnds
  <2>3. \A u \in MemTurns : memTurn'[u].at = "idle"
    BY <1>0, <2>1, <2>2 DEF MemOK, MemType, NoMemTurn
  <2>4. style = "relying" => session'.facts = 1 .. said /\ session'.count = 1
    <3> SUFFICES ASSUME style = "relying"
                 PROVE  session'.facts = 1 .. said /\ session'.count = 1
      OBVIOUS
    <3>1. /\ memTurn[t].sent = {said} /\ memTurn[t].at = "summarise"
          /\ memTurn[t].kept = 1 .. said - 1 /\ said > 0
      BY <2>1 DEF MemTurnOK
    <3>2. session' = [facts |-> Summary(t), count |-> Cardinality(memTurn[t].sent)]
      BY <1>0, <1>3, <3>1 DEF KeepSession, SaveSession, MemType
    <3>3. Summary(t) = 1 .. said
      BY <1>0, <3>1 DEF Summary, MemType
    <3>4. Cardinality(memTurn[t].sent) = 1
      BY <3>1, FS_Singleton
    <3> QED
      BY <3>2, <3>3, <3>4
  <2>5. MemOK'
    BY <2>2, <2>3, <2>4 DEF MemOK, MemTurnOK
  <2> QED
    BY <1>0, <1>3, <2>5, MemTypeKeeps DEF MemInv
<1>4. CASE SessionExpires
  BY <1>0, <1>4 DEF SessionExpires, NoSession, MemInv, MemType
<1>5. CASE UNCHANGED memVars
  BY <1>0, <1>5 DEF MemInv, MemOK, MemTurnOK, MemType, memVars
<1> QED
  BY <1>1, <1>2, <1>3, <1>4, <1>5 DEF MemNext

-----------------------------------------------------------------------------
(* G10: whose memories Mem0 returns.                                        *)

Memory == {[id |-> ScopedId(tenant, user), tenant |-> tenant, user |-> user] :
               tenant \in MemTenants, user \in Users}

LongInv == mem0 \subseteq Memory /\ storing \subseteq Memory /\ MemoriesAreOwn

\* One tenant's ids are those of different users.
LEMMA ScopedUser ==
    ASSUME NEW tenant \in MemTenants, NEW u \in Users, NEW v \in Users,
           ScopedId(tenant, u) = ScopedId(tenant, v)
    PROVE  u = v
<1> DEFINE S == STRING \cup {"::"}
<1>1. tenant \in Seq(S) /\ u \in Seq(S) /\ v \in Seq(S) /\ <<"::">> \in Seq(S)
  <2>1. Seq(STRING) \subseteq Seq(S)
    BY SeqMonotonic
  <2>2. "::" \in S
    OBVIOUS
  <2> HIDE DEF S
  <2> QED
    BY <2>1, <2>2, SessionAssumption
<1> HIDE DEF S
<1> DEFINE p == tenant \o <<"::">>
<1>2. p \in Seq(S) /\ p \o u = p \o v
  BY <1>1, ConcatProperties DEF ScopedId
<1> HIDE DEF p
<1>3. /\ Len(p \o u) = Len(p) + Len(u) /\ Len(p \o v) = Len(p) + Len(v)
      /\ \A i \in 1 .. Len(p) + Len(u) : (p \o u)[i] = IF i <= Len(p) THEN p[i] ELSE u[i - Len(p)]
      /\ \A i \in 1 .. Len(p) + Len(v) : (p \o v)[i] = IF i <= Len(p) THEN p[i] ELSE v[i - Len(p)]
  BY <1>1, <1>2, ConcatProperties
<1>4. Len(p) \in Nat /\ Len(u) \in Nat /\ Len(v) \in Nat
  BY <1>1, <1>2
<1>5. Len(u) = Len(v)
  BY <1>2, <1>3, <1>4
<1>6. ASSUME NEW i \in 1 .. Len(u) PROVE u[i] = v[i]
  <2>1. i + Len(p) \in 1 .. Len(p) + Len(u) /\ ~(i + Len(p) <= Len(p)) /\ i + Len(p) - Len(p) = i
    BY <1>4
  <2>2. (p \o u)[i + Len(p)] = u[i] /\ (p \o v)[i + Len(p)] = v[i]
    BY <1>3, <1>5, <2>1
  <2> QED
    BY <1>2, <2>2
<1> QED
  BY <1>1, <1>5, <1>6, SeqEqual

\* Every step of the long-term memory keeps it.
LEMMA LongStep ==
    ASSUME LongInv, [LongNext]_longVars
    PROVE  LongInv'
<1>1. ASSUME NEW tenant \in MemTenants, NEW user \in Users, StoreExchange(tenant, user)
      PROVE  LongInv'
  <2>1. [id |-> ScopedId(tenant, user), tenant |-> tenant, user |-> user] \in Memory
    BY DEF Memory
  <2> QED
    BY <1>1, <2>1 DEF StoreExchange, LongInv, MemoriesAreOwn
<1>2. ASSUME NEW tenant \in MemTenants, NEW user \in Users, Recall(tenant, user)
      PROVE  LongInv'
  <2>1. \A m \in mem0 : Recalls(m, tenant, user) => m.tenant = tenant /\ m.user = user
    <3> SUFFICES ASSUME NEW m \in mem0, Recalls(m, tenant, user)
                 PROVE  m.tenant = tenant /\ m.user = user
      OBVIOUS
    <3>1. m.tenant = tenant /\ m.user \in Users /\ ScopedId(tenant, m.user) = ScopedId(tenant, user)
      BY DEF Recalls, LongInv, Memory
    <3> QED
      BY <3>1, ScopedUser
  <2>2. \A r \in recalled' : r.by = <<r.of.tenant, r.of.user>>
    BY <1>2, <2>1 DEF Recall
  <2> QED
    BY <1>2, <2>2 DEF Recall, LongInv, MemoriesAreOwn
<1>3. ASSUME NEW e \in storing, ExchangeArrives(e) PROVE LongInv'
  BY <1>3 DEF ExchangeArrives, LongInv, MemoriesAreOwn
<1>4. CASE StartClient \/ ClientStarts
  BY <1>4 DEF StartClient, ClientStarts, LongInv, MemoriesAreOwn
<1>5. CASE UNCHANGED longVars
  BY <1>5 DEF longVars, LongInv, MemoriesAreOwn
<1> QED
  BY <1>1, <1>2, <1>3, <1>4, <1>5 DEF LongNext

\* Across any number of turns, an undisturbed session's prompt covers what was said
\* (_apply_session_state), and a memory is shown to the user that stored it and to no
\* other (retrieve_memories).
THEOREM MemoryAlwaysOwnAndWhole == SessionsSpec => []MemoryIsOwnAndWhole
<1> DEFINE I == MemInv /\ LongInv
<1>1. SessionsInit => I
  <2> SUFFICES ASSUME SessionsInit PROVE I
    OBVIOUS
  <2>1. NoMemTurn \in MemTurnType /\ NoMemTurn.at = "idle"
    BY DEF NoMemTurn, MemTurnType
  <2>2. MemType
    BY <2>1 DEF SessionsInit, MemInit, MemType, NoSession
  <2>3. 1 .. 0 = {}
    OBVIOUS
  <2>4. MemOK
    BY <2>1, <2>3 DEF SessionsInit, MemInit, MemOK, MemTurnOK, NoSession
  <2> QED
    BY <2>2, <2>4 DEF SessionsInit, LongInit, MemInv, LongInv, MemoriesAreOwn
<1>2. I /\ [SessionsNext]_sessionVars => I'
  BY MemStep, LongStep DEF SessionsNext, sessionVars, memVars, longVars
<1>3. I => MemoryIsOwnAndWhole
  BY DEF MemInv, MemOK, MemTurnOK, LongInv, MemoryIsOwnAndWhole, MemoryBuildsUp
<1> QED
  BY <1>1, <1>2, <1>3, PTL DEF SessionsSpec

-----------------------------------------------------------------------------
(* G07, G10, G22, G26 and G21: what the stages that shorten a conversation   *)
(* leave of it.  First subsequences and parts of sequences: Taken is not     *)
(* recursive, so what it returns follows from the ranks of its places.       *)

\* Places 1 .. n, and the rank of each place of K among those of K.
LEMMA RankType ==
    ASSUME NEW n \in Nat, NEW K \in SUBSET (1 .. n)
    PROVE  /\ IsFiniteSet(K) /\ Cardinality(K) \in Nat
           /\ \A k \in Nat : IsFiniteSet(K \cap (1 .. k)) /\ RankIn(K, k) \in 0 .. Cardinality(K)
           /\ \A k \in K : RankIn(K, k) \in 1 .. Cardinality(K)
<1>1. IsFiniteSet(1 .. n)
  BY FS_Interval
<1>2. IsFiniteSet(K) /\ Cardinality(K) \in Nat
  BY <1>1, FS_Subset, FS_CardinalityType
<1>3. ASSUME NEW k \in Nat PROVE IsFiniteSet(K \cap (1 .. k)) /\ RankIn(K, k) \in 0 .. Cardinality(K)
  <2> DEFINE U == K \cap (1 .. k)
  <2>1. U \in SUBSET K
    OBVIOUS
  <2> HIDE DEF U
  <2>2. IsFiniteSet(U) /\ Cardinality(U) \in Nat /\ Cardinality(U) <= Cardinality(K)
    BY <1>2, <2>1, FS_Subset, FS_CardinalityType
  <2>3. Cardinality(U) \in 0 .. Cardinality(K)
    BY <1>2, <2>2
  <2> QED
    BY <2>2, <2>3 DEF U, RankIn
<1>4. ASSUME NEW k \in K PROVE RankIn(K, k) \in 1 .. Cardinality(K)
  <2> DEFINE U == K \cap (1 .. k)
  <2>1. k \in Nat /\ k \in U
    OBVIOUS
  <2>2. IsFiniteSet(U) /\ Cardinality(U) \in 0 .. Cardinality(K)
    BY <1>3, <2>1 DEF RankIn
  <2>3. Cardinality(U) # 0
    <3> HIDE DEF U
    <3> QED
      BY <2>1, <2>2, FS_EmptySet
  <2>4. Cardinality(U) \in 1 .. Cardinality(K)
    <3> HIDE DEF U
    <3> QED
      BY <1>2, <2>2, <2>3
  <2> QED
    BY <2>4 DEF RankIn
<1> QED
  BY <1>2, <1>3, <1>4

\* Of two places of K the later has the higher rank.
LEMMA RankRises ==
    ASSUME NEW n \in Nat, NEW K \in SUBSET (1 .. n), NEW k \in K, NEW l \in K, k < l
    PROVE  RankIn(K, k) < RankIn(K, l)
<1> DEFINE U == K \cap (1 .. k)
           V == K \cap (1 .. l)
<1>1. IsFiniteSet(U) /\ IsFiniteSet(V) /\ RankIn(K, k) \in Nat /\ RankIn(K, l) \in Nat
  <2>1. k \in Nat /\ l \in Nat
    OBVIOUS
  <2>2. IsFiniteSet(K) /\ Cardinality(K) \in Nat
    BY RankType
  <2>3. IsFiniteSet(U) /\ RankIn(K, k) \in 0 .. Cardinality(K)
    BY <2>1, RankType
  <2>4. IsFiniteSet(V) /\ RankIn(K, l) \in 0 .. Cardinality(K)
    BY <2>1, RankType
  <2> HIDE DEF U, V
  <2> QED
    BY <2>2, <2>3, <2>4
<1>2. U \in SUBSET V /\ l \in V /\ l \notin U
  <2>1. k \in Int /\ l \in Int
    OBVIOUS
  <2>2. 1 .. k \in SUBSET (1 .. l)
    BY <2>1
  <2>3. l \in 1 .. l /\ l \notin 1 .. k
    BY <2>1
  <2> QED
    BY <2>2, <2>3
<1>3. RankIn(K, k) = Cardinality(U) /\ RankIn(K, l) = Cardinality(V)
  BY DEF RankIn
<1> HIDE DEF U, V
<1>4. Cardinality(U) <= Cardinality(V) /\ (Cardinality(V) = Cardinality(U) => V = U)
  BY <1>1, <1>2, FS_Subset
<1> QED
  BY <1>1, <1>2, <1>3, <1>4

\* Neighbours in K are neighbours among its ranks.
LEMMA RankNext ==
    ASSUME NEW n \in Nat, NEW K \in SUBSET (1 .. n), NEW k \in K, k + 1 \in K
    PROVE  RankIn(K, k + 1) = RankIn(K, k) + 1
<1> DEFINE U == K \cap (1 .. k)
<1>1. IsFiniteSet(U)
  BY RankType
<1>2. K \cap (1 .. k + 1) = U \cup {k + 1} /\ k + 1 \notin U
  <2>1. k \in Int
    OBVIOUS
  <2>2. 1 .. k + 1 = (1 .. k) \cup {k + 1} /\ k + 1 \notin 1 .. k
    BY <2>1
  <2> QED
    BY <2>2
<1>3. Cardinality(U \cup {k + 1}) = Cardinality(U) + 1
  <2> HIDE DEF U
  <2> QED
    BY <1>1, <1>2, FS_AddElement
<1> QED
  BY <1>2, <1>3 DEF RankIn

\* Every rank is that of a place.
LEMMA RankOnto ==
    ASSUME NEW n \in Nat, NEW K \in SUBSET (1 .. n), NEW i \in 1 .. Cardinality(K)
    PROVE  \E k \in K : RankIn(K, k) = i
<1> DEFINE C == Cardinality(K)
           r == [k \in K |-> RankIn(K, k)]
<1>1. IsFiniteSet(K) /\ C \in Nat /\ \A k \in K : RankIn(K, k) \in 1 .. C
  BY RankType
<1>2. IsFiniteSet(1 .. C) /\ Cardinality(1 .. C) = C
  <2> HIDE DEF C
  <2> QED
    BY <1>1, FS_Interval
<1>3. r \in Injection(K, 1 .. C)
  <2>1. ASSUME NEW a \in K, NEW b \in K, r[a] = r[b] PROVE a = b
    <3>1. a \in Int /\ b \in Int /\ RankIn(K, a) \in Int /\ RankIn(K, b) \in Int
      BY <1>1
    <3>2. ~(a < b)
      <4>1. a < b => RankIn(K, a) < RankIn(K, b)
        BY RankRises
      <4> QED
        BY <2>1, <3>1, <4>1
    <3>3. ~(b < a)
      <4>1. b < a => RankIn(K, b) < RankIn(K, a)
        BY RankRises
      <4> QED
        BY <2>1, <3>1, <4>1
    <3> QED
      BY <3>1, <3>2, <3>3
  <2> QED
    BY <1>1, <2>1 DEF Injection, IsInjective
<1>4. r \in Surjection(K, 1 .. C)
  <2> HIDE DEF r
  <2> QED
    BY <1>2, <1>3, FS_Injection
<1> QED
  BY <1>4 DEF Surjection

\* The place of a rank is one of K, and has it.
LEMMA PlaceHolds ==
    ASSUME NEW n \in Nat, NEW K \in SUBSET (1 .. n)
    PROVE  /\ \A i \in 1 .. Cardinality(K) : PlaceIn(K, i) \in K /\ RankIn(K, PlaceIn(K, i)) = i
           /\ \A k \in K : PlaceIn(K, RankIn(K, k)) = k
<1>1. Cardinality(K) \in Nat /\ \A k \in K : RankIn(K, k) \in 1 .. Cardinality(K)
  BY RankType
<1>2. ASSUME NEW i \in 1 .. Cardinality(K) PROVE PlaceIn(K, i) \in K /\ RankIn(K, PlaceIn(K, i)) = i
  BY RankOnto DEF PlaceIn
<1>3. ASSUME NEW k \in K PROVE PlaceIn(K, RankIn(K, k)) = k
  <2> DEFINE l == PlaceIn(K, RankIn(K, k))
  <2>1. l \in K /\ RankIn(K, l) = RankIn(K, k)
    BY <1>1, <1>2
  <2> HIDE DEF l
  <2>2. k \in Int /\ l \in Int /\ RankIn(K, k) \in Int /\ RankIn(K, l) \in Int
    BY <1>1, <2>1
  <2>3. k < l => RankIn(K, k) < RankIn(K, l)
    BY <2>1, RankRises
  <2>4. l < k => RankIn(K, l) < RankIn(K, k)
    BY <2>1, RankRises
  <2>5. l = k
    BY <2>1, <2>2, <2>3, <2>4
  <2> QED
    BY <2>5 DEF l
<1> QED
  BY <1>2, <1>3

\* A subsequence holds what is at its places, in their order.
LEMMA TakenHolds ==
    ASSUME NEW M, NEW s \in Seq(M), NEW K \in SUBSET DOMAIN s
    PROVE  /\ Taken(s, K) \in Seq(M) /\ Len(Taken(s, K)) = Cardinality(K)
           /\ \A k \in K : RankIn(K, k) \in DOMAIN Taken(s, K) /\ Taken(s, K)[RankIn(K, k)] = s[k]
           /\ \A i \in DOMAIN Taken(s, K) : \E k \in K : RankIn(K, k) = i /\ Taken(s, K)[i] = s[k]
<1> DEFINE n == Len(s)
           t == Taken(s, K)
<1>1. n \in Nat /\ K \in SUBSET (1 .. n) /\ DOMAIN s = 1 .. n
  OBVIOUS
<1> HIDE DEF n
<1>2. Cardinality(K) \in Nat /\ \A k \in K : RankIn(K, k) \in 1 .. Cardinality(K)
  BY <1>1, RankType
<1>3. /\ \A i \in 1 .. Cardinality(K) : PlaceIn(K, i) \in K /\ RankIn(K, PlaceIn(K, i)) = i
      /\ \A k \in K : PlaceIn(K, RankIn(K, k)) = k
  BY <1>1, PlaceHolds
<1>4. DOMAIN t = 1 .. Cardinality(K) /\ \A i \in 1 .. Cardinality(K) : t[i] = s[PlaceIn(K, i)]
  BY DEF Taken
<1>5. ASSUME NEW k \in K PROVE RankIn(K, k) \in DOMAIN t /\ t[RankIn(K, k)] = s[k]
  BY <1>2, <1>3, <1>4
<1>6. ASSUME NEW i \in DOMAIN t PROVE \E k \in K : RankIn(K, k) = i /\ t[i] = s[k]
  BY <1>3, <1>4
<1>7. t \in Seq(M) /\ Len(t) = Cardinality(K)
  <2>1. \A i \in 1 .. Cardinality(K) : t[i] \in M
    <3>1. \A k \in K : s[k] \in M
      OBVIOUS
    <3> QED
      BY <1>3, <1>4, <3>1
  <2>2. t = [i \in 1 .. Cardinality(K) |-> t[i]]
    BY DEF Taken
  <2> HIDE DEF t
  <2>3. t \in [1 .. Cardinality(K) -> M]
    BY <2>1, <2>2
  <2> QED
    BY <1>2, <2>3
<1> QED
  BY <1>5, <1>6, <1>7

\* Min of some numbers is the least of them.
LEMMA LeastMin ==
    ASSUME NEW T, T \subseteq Nat, T # {}
    PROVE  Min(T) \in T /\ \A y \in T : Min(T) <= y
<1>1. \E x \in T : \A y \in T : x <= y
  BY Least
<1> QED
  BY <1>1 DEF Min

\* Max of some places is the last of them.
LEMMA GreatestMax ==
    ASSUME NEW n \in Nat, NEW T, T \subseteq 0 .. n, T # {}
    PROVE  Max(T) \in T /\ \A y \in T : y <= Max(T)
<1> DEFINE U == {n - x : x \in T}
<1>1. U \subseteq Nat
  <2>1. ASSUME NEW x \in T PROVE n - x \in Nat
    <3>1. x \in 0 .. n
      OBVIOUS
    <3> QED
      BY <3>1
  <2> QED
    BY <2>1
<1>2. U # {}
  OBVIOUS
<1>3. PICK u \in U : \A v \in U : u <= v
  <2> HIDE DEF U
  <2> QED
    BY <1>1, <1>2, Least
<1>4. PICK x \in T : u = n - x
  BY DEF U
<1>5. ASSUME NEW y \in T PROVE x >= y
  <2>1. n - y \in U
    OBVIOUS
  <2>2. x \in Int /\ y \in Int
    OBVIOUS
  <2>3. n - x <= n - y
    BY <1>3, <1>4, <2>1
  <2> QED
    BY <2>2, <2>3
<1>6. Max(T) \in T /\ \A y \in T : Max(T) >= y
  BY <1>5 DEF Max
<1>7. ASSUME NEW y \in T PROVE y <= Max(T)
  <2>1. \A z \in T : z \in Int
    OBVIOUS
  <2>2. y \in Int /\ Max(T) \in Int /\ Max(T) >= y
    BY <1>6, <2>1
  <2> QED
    BY <2>2
<1> QED
  BY <1>6, <1>7

\* What a joined sequence holds, and where.
LEMMA Joined ==
    ASSUME NEW M, NEW s \in Seq(M), NEW t \in Seq(M)
    PROVE  /\ s \o t \in Seq(M) /\ Len(s \o t) = Len(s) + Len(t)
           /\ DOMAIN (s \o t) = 1 .. Len(s) + Len(t)
           /\ \A i \in DOMAIN s : i \in DOMAIN (s \o t) /\ (s \o t)[i] = s[i]
           /\ \A i \in DOMAIN t : Len(s) + i \in DOMAIN (s \o t) /\ (s \o t)[Len(s) + i] = t[i]
  OBVIOUS

\* The two parts of a sequence that is cut after k.
LEMMA Parted ==
    ASSUME NEW M, NEW s \in Seq(M), NEW k \in 0 .. Len(s)
    PROVE  /\ SubSeq(s, 1, k) \in Seq(M) /\ Len(SubSeq(s, 1, k)) = k
           /\ DOMAIN SubSeq(s, 1, k) = 1 .. k
           /\ \A i \in 1 .. k : SubSeq(s, 1, k)[i] = s[i]
           /\ From(s, k + 1) \in Seq(M) /\ Len(From(s, k + 1)) = Len(s) - k
           /\ DOMAIN From(s, k + 1) = 1 .. (Len(s) - k)
           /\ \A i \in 1 .. (Len(s) - k) : From(s, k + 1)[i] = s[i + k]
<1>1. Len(s) \in Nat /\ k \in Nat /\ k <= Len(s)
  OBVIOUS
<1>2. \A i \in 1 .. k : i \in 1 .. Len(s)
  BY <1>1
<1>3. \A i \in (k + 1) .. Len(s) : i \in 1 .. Len(s)
  BY <1>1
<1>4. /\ SubSeq(s, 1, k) \in Seq(M) /\ Len(SubSeq(s, 1, k)) = k
      /\ \A i \in 1 .. k : SubSeq(s, 1, k)[i] = s[1 + i - 1]
  BY <1>1, <1>2, SubSeqProperties
<1>5. /\ From(s, k + 1) \in Seq(M) /\ Len(From(s, k + 1)) = Len(s) - k
      /\ \A i \in 1 .. (Len(s) - k) : From(s, k + 1)[i] = s[k + 1 + i - 1]
  <2>1. k + 1 <= Len(s) + 1 /\ k + 1 \in Int /\ Len(s) \in Int
    BY <1>1
  <2>2. Len(s) - (k + 1) + 1 = Len(s) - k
    BY <1>1
  <2> DEFINE n == Len(s)
             m == k + 1
  <2>3. m \in Int /\ n \in Int /\ m <= n + 1 /\ n - m + 1 = n - k /\ \A i \in m .. n : i \in 1 .. Len(s)
    BY <1>3, <2>1, <2>2
  <2> HIDE DEF m, n
  <2>4. /\ SubSeq(s, m, n) \in Seq(M) /\ Len(SubSeq(s, m, n)) = n - m + 1
        /\ \A i \in 1 .. (n - m + 1) : SubSeq(s, m, n)[i] = s[m + i - 1]
    BY <2>3, SubSeqProperties
  <2>5. /\ SubSeq(s, m, n) \in Seq(M) /\ Len(SubSeq(s, m, n)) = n - k
        /\ \A i \in 1 .. (n - k) : SubSeq(s, m, n)[i] = s[m + i - 1]
    BY <2>3, <2>4
  <2> QED
    BY <2>5 DEF From, m, n
<1>6. (\A i \in 1 .. k : 1 + i - 1 = i) /\ \A i \in 1 .. (Len(s) - k) : k + 1 + i - 1 = i + k
  BY <1>1
<1> QED
  BY <1>1, <1>4, <1>5, <1>6

-----------------------------------------------------------------------------
(* A conversation and its prompt.                                           *)

\* The roles and the texts of messages, and messages of any size.
Roles == {"user", "assistant", "tool", "system"}
Texts == Sayings \cup {"call", "result", "retrieved", "instructions", "volatile values",
                       "summary", "cut"}
Message ==
    [role : Roles, id : Nat, text : Texts, calls : BOOLEAN, size : Nat, covers : SUBSET Nat]

\* A message of the conversation: what it says, and for results what they follow.
Spoken(i) ==
    LET m == talk[i]
    IN  /\ m.id = i /\ m.covers = {}
        /\ \/ m.role \in {"user", "assistant"} /\ m.text \in Sayings /\ ~m.calls
           \/ /\ m.role = "assistant" /\ m.text = "call" /\ m.calls
              /\ i < Len(talk) /\ talk[i + 1].role = "tool"
           \/ /\ m.role = "tool" /\ m.text = "result" /\ ~m.calls
              /\ i > 1 /\ (talk[i - 1].calls \/ talk[i - 1].role = "tool")
\* The client's conversation: every call with its results right after it.
TalkHolds == talk \in Seq(Message) /\ \A i \in DOMAIN talk : Spoken(i)

\* A message of a prompt: one of the conversation, in any size, or one of the system.
Genuine(m) ==
    \/ /\ m.id \in DOMAIN talk /\ m.covers = {}
       /\ m.role = talk[m.id].role /\ m.text = talk[m.id].text /\ m.calls = talk[m.id].calls
    \/ m.id = 0 /\ m.role = "system" /\ m.covers \subseteq DOMAIN talk

Answers(n) == n \in DOMAIN talk /\ talk[n].role = "tool"

\* Results stand right after what they follow in the conversation.
Before(s, i) == Answers(s[i].id) => i > 1 /\ s[i - 1].id = s[i].id - 1
After(s, i) == s[i].id > 0 /\ Answers(s[i].id + 1) => i < Len(s) /\ s[i + 1].id = s[i].id + 1
Paired(s) == \A i \in DOMAIN s : Before(s, i) /\ After(s, i)

\* No turn of the conversation is in a prompt twice.
Distinct(s) == \A i, j \in DOMAIN s : s[i].id = s[j].id => i = j \/ s[i].id = 0

\* A prompt that a provider takes.
Sound(s) ==
    s \in Seq(Message) /\ (\A i \in DOMAIN s : Genuine(s[i])) /\ Distinct(s) /\ Paired(s)

\* The turns a message stands for: itself, and what it sums up.
Own(m) == ({m.id} \ {0}) \cup m.covers
Held(s) == UNION {Own(s[i]) : i \in DOMAIN s}
Said(ids) == {Content(talk[j]) : j \in ids}
\* Nothing of the conversation is lost.
Whole(s) == Said(DOMAIN talk) \subseteq Said(Held(s))

\* The system's messages are those without a turn, results those whose turn is one.
LEMMA GenuineRole ==
    ASSUME TalkHolds, NEW m, Genuine(m)
    PROVE  /\ m.role = "system" <=> m.id = 0
           /\ m.role = "tool" <=> Answers(m.id)
           /\ m.id \in Nat /\ (m.id > 0 => m.id \in DOMAIN talk /\ m.covers = {} /\ Own(m) = {m.id})
           /\ (m.id = 0 => Own(m) = m.covers)
           /\ Own(m) \subseteq DOMAIN talk
<1>1. DOMAIN talk = 1 .. Len(talk) /\ Len(talk) \in Nat
  BY DEF TalkHolds
<1>2. CASE /\ m.id \in DOMAIN talk /\ m.covers = {}
           /\ m.role = talk[m.id].role
  <2>1. Spoken(m.id)
    BY <1>2 DEF TalkHolds
  <2>2. m.role # "system"
    BY <1>2, <2>1 DEF Spoken
  <2>3. m.id \in Nat /\ m.id > 0
    BY <1>1, <1>2
  <2> QED
    BY <1>2, <2>2, <2>3 DEF Answers, Own
<1>3. CASE m.id = 0 /\ m.role = "system" /\ m.covers \subseteq DOMAIN talk
  BY <1>1, <1>3 DEF Answers, Own
<1> QED
  BY <1>2, <1>3 DEF Genuine

\* A prompt holds what its messages stand for, wherever they are.
LEMMA HeldBy ==
    ASSUME NEW s
    PROVE  /\ Held(s) = UNION {Own(m) : m \in ToSet(s)}
           /\ Ids(s) = {m.id : m \in ToSet(s)} \ {0}
  BY DEF Held, Ids, ToSet

\* What a prompt holds and which turns are in it is read off its set of messages.
LEMMA HeldJoined ==
    ASSUME NEW s, NEW t, NEW u, ToSet(u) = ToSet(s) \cup ToSet(t)
    PROVE  Held(u) = Held(s) \cup Held(t) /\ Ids(u) = Ids(s) \cup Ids(t)
<1>1. {Own(m) : m \in ToSet(u)} = {Own(m) : m \in ToSet(s)} \cup {Own(m) : m \in ToSet(t)}
  OBVIOUS
<1>2. {m.id : m \in ToSet(u)} = {m.id : m \in ToSet(s)} \cup {m.id : m \in ToSet(t)}
  OBVIOUS
<1> QED
  BY <1>1, <1>2, HeldBy

\* Two sound parts that share no turn make a sound prompt.
LEMMA SoundJoined ==
    ASSUME TalkHolds, NEW s, NEW t, Sound(s), Sound(t), Ids(s) \cap Ids(t) = {}
    PROVE  /\ Sound(s \o t) /\ ToSet(s \o t) = ToSet(s) \cup ToSet(t)
           /\ Ids(s \o t) = Ids(s) \cup Ids(t) /\ Held(s \o t) = Held(s) \cup Held(t)
<1> DEFINE u == s \o t
           n == Len(s)
<1>1. s \in Seq(Message) /\ t \in Seq(Message)
  BY DEF Sound
<1>2. /\ u \in Seq(Message) /\ Len(u) = n + Len(t) /\ n \in Nat /\ Len(t) \in Nat
      /\ DOMAIN u = 1 .. n + Len(t) /\ DOMAIN s = 1 .. n /\ DOMAIN t = 1 .. Len(t)
      /\ \A i \in DOMAIN s : i \in DOMAIN u /\ u[i] = s[i]
      /\ \A i \in DOMAIN t : n + i \in DOMAIN u /\ u[n + i] = t[i]
  BY <1>1, Joined
<1> HIDE DEF u, n
<1>3. ASSUME NEW i \in DOMAIN u
      PROVE  \/ i \in DOMAIN s /\ u[i] = s[i]
             \/ i - n \in DOMAIN t /\ u[i] = t[i - n] /\ i = n + (i - n)
  <2>1. CASE i <= n
    BY <1>2, <2>1
  <2>2. CASE i > n
    <3>1. i - n \in DOMAIN t /\ n + (i - n) = i
      BY <1>2, <2>2
    <3> QED
      BY <1>2, <3>1
  <2> QED
    BY <1>2, <2>1, <2>2
<1>4. \A i \in DOMAIN u : Genuine(u[i])
  BY <1>3 DEF Sound
<1>5. ToSet(u) = ToSet(s) \cup ToSet(t)
  <2>1. ASSUME NEW m \in ToSet(u) PROVE m \in ToSet(s) \/ m \in ToSet(t)
    BY <1>3 DEF ToSet
  <2>2. ASSUME NEW m \in ToSet(s) PROVE m \in ToSet(u)
    BY <1>2 DEF ToSet
  <2>3. ASSUME NEW m \in ToSet(t) PROVE m \in ToSet(u)
    BY <1>2 DEF ToSet
  <2> QED
    BY <2>1, <2>2, <2>3
<1>6. Held(u) = Held(s) \cup Held(t) /\ Ids(u) = Ids(s) \cup Ids(t)
  BY <1>5, HeldJoined
<1>7. Distinct(u)
  <2> SUFFICES ASSUME NEW i \in DOMAIN u, NEW j \in DOMAIN u, u[i].id = u[j].id, u[i].id # 0
               PROVE  i = j
    BY DEF Distinct
  <2>1. CASE i \in DOMAIN s /\ u[i] = s[i] /\ j \in DOMAIN s /\ u[j] = s[j]
    BY <2>1 DEF Sound, Distinct
  <2>2. CASE /\ i - n \in DOMAIN t /\ u[i] = t[i - n] /\ i = n + (i - n)
             /\ j - n \in DOMAIN t /\ u[j] = t[j - n] /\ j = n + (j - n)
    <3>1. i - n = j - n
      BY <2>2 DEF Sound, Distinct
    <3> QED
      BY <2>2, <3>1
  <2>3. ASSUME NEW a \in DOMAIN s, NEW b \in DOMAIN t, s[a].id = t[b].id, s[a].id # 0 PROVE FALSE
    BY <2>3 DEF Ids
  <2> QED
    BY <1>3, <2>1, <2>2, <2>3
<1>8. Paired(u)
  <2> SUFFICES ASSUME NEW i \in DOMAIN u PROVE Before(u, i) /\ After(u, i)
    BY DEF Paired
  <2>1. CASE i \in DOMAIN s /\ u[i] = s[i]
    <3>1. Before(s, i) /\ After(s, i)
      BY <2>1 DEF Sound, Paired
    <3>2. i > 1 => u[i - 1] = s[i - 1]
      BY <1>2, <2>1
    <3>3. i < n => u[i + 1] = s[i + 1] /\ i < Len(u)
      BY <1>2, <2>1
    <3> QED
      BY <2>1, <3>1, <3>2, <3>3 DEF Before, After, n
  <2>2. CASE i - n \in DOMAIN t /\ u[i] = t[i - n] /\ i = n + (i - n)
    <3> DEFINE k == i - n
    <3>1. Before(t, k) /\ After(t, k)
      BY <2>2 DEF Sound, Paired
    <3>2. k > 1 => u[i - 1] = t[k - 1] /\ i > 1
      <4>1. k > 1 => k - 1 \in DOMAIN t /\ n + (k - 1) = i - 1 /\ i > 1
        BY <1>2, <2>2
      <4> QED
        BY <1>2, <4>1
    <3>3. k < Len(t) => u[i + 1] = t[k + 1] /\ i < Len(u)
      <4>1. k < Len(t) => k + 1 \in DOMAIN t /\ n + (k + 1) = i + 1 /\ i < Len(u)
        BY <1>2, <2>2
      <4> QED
        BY <1>2, <4>1
    <3> HIDE DEF k
    <3> QED
      BY <2>2, <3>1, <3>2, <3>3 DEF Before, After, k
  <2> QED
    BY <1>3, <2>1, <2>2
<1> QED
  BY <1>2, <1>4, <1>5, <1>6, <1>7, <1>8 DEF Sound, u

-----------------------------------------------------------------------------
(* Parts of a prompt.                                                       *)

\* A clean cut parts no results from what they follow.
Clean(s, k) == k \in 0 .. Len(s) /\ (k \in 1 .. Len(s) - 1 => s[k + 1].role # "tool")

\* A clean cut makes two sound parts that share no turn.
LEMMA SoundParted ==
    ASSUME TalkHolds, NEW s, Sound(s), NEW k, Clean(s, k)
    PROVE  LET a == SubSeq(s, 1, k)
               b == From(s, k + 1)
           IN  /\ Sound(a) /\ Sound(b) /\ Ids(a) \cap Ids(b) = {}
               /\ ToSet(s) = ToSet(a) \cup ToSet(b)
<1> DEFINE a == SubSeq(s, 1, k)
           b == From(s, k + 1)
           n == Len(s)
<1>1. s \in Seq(Message) /\ n \in Nat /\ k \in 0 .. n /\ k \in Nat /\ DOMAIN s = 1 .. n
  BY DEF Sound, Clean
<1>2. /\ a \in Seq(Message) /\ Len(a) = k /\ DOMAIN a = 1 .. k
      /\ \A i \in 1 .. k : a[i] = s[i] /\ i \in DOMAIN s
      /\ b \in Seq(Message) /\ Len(b) = n - k /\ DOMAIN b = 1 .. (n - k)
      /\ \A i \in 1 .. (n - k) : b[i] = s[i + k] /\ i + k \in DOMAIN s
  <2>1. (\A i \in 1 .. k : i \in DOMAIN s) /\ \A i \in 1 .. (n - k) : i + k \in DOMAIN s
    <3> HIDE DEF n
    <3> QED
      BY <1>1
  <2>2. k \in 0 .. Len(s)
    BY <1>1
  <2>3. /\ a \in Seq(Message) /\ Len(a) = k /\ DOMAIN a = 1 .. k
        /\ b \in Seq(Message) /\ Len(b) = n - k /\ DOMAIN b = 1 .. (n - k)
    <3>1. a \in Seq(Message) /\ Len(a) = k
      BY <1>1, <2>2, Parted
    <3>2. b \in Seq(Message) /\ Len(b) = n - k
      BY <1>1, <2>2, Parted
    <3> HIDE DEF a, b
    <3> QED
      BY <3>1, <3>2
  <2> HIDE DEF n, a, b
  <2>4. \A i \in 1 .. k : a[i] = s[i]
    BY <1>1, <2>2, Parted DEF a
  <2>5. \A i \in 1 .. (n - k) : b[i] = s[i + k]
    BY <1>1, <2>2, Parted DEF b, n
  <2> QED
    BY <2>1, <2>3, <2>4, <2>5
<1> HIDE DEF a, b, n
<1>3. ASSUME NEW i \in DOMAIN s PROVE (i \in DOMAIN a /\ s[i] = a[i]) \/ (i - k \in DOMAIN b /\ s[i] = b[i - k])
  <2>1. CASE i <= k
    BY <1>1, <1>2, <2>1
  <2>2. CASE i > k
    <3>1. i - k \in 1 .. (n - k) /\ (i - k) + k = i
      BY <1>1, <2>2
    <3> QED
      BY <1>2, <3>1
  <2> QED
    BY <1>1, <2>1, <2>2
<1>4. ToSet(s) = ToSet(a) \cup ToSet(b)
  <2>1. ASSUME NEW m \in ToSet(s) PROVE m \in ToSet(a) \/ m \in ToSet(b)
    BY <1>3 DEF ToSet
  <2>2. ASSUME NEW m \in ToSet(a) PROVE m \in ToSet(s)
    BY <1>2 DEF ToSet
  <2>3. ASSUME NEW m \in ToSet(b) PROVE m \in ToSet(s)
    BY <1>2 DEF ToSet
  <2> QED
    BY <2>1, <2>2, <2>3
<1>5. Distinct(a) /\ Distinct(b)
  <2>1. Distinct(a)
    BY <1>2 DEF Sound, Distinct
  <2>2. ASSUME NEW i \in DOMAIN b, NEW j \in DOMAIN b, b[i].id = b[j].id PROVE i = j \/ b[i].id = 0
    <3>1. i + k = j + k \/ b[i].id = 0
      BY <1>2, <2>2 DEF Sound, Distinct
    <3> QED
      BY <1>1, <1>2, <3>1
  <2> QED
    BY <2>1, <2>2 DEF Distinct
<1>6. Ids(a) \cap Ids(b) = {}
  <2> SUFFICES ASSUME NEW i \in DOMAIN a, NEW j \in DOMAIN b, a[i].id = b[j].id, a[i].id # 0 PROVE FALSE
    BY DEF Ids
  <2>1. i = j + k
    BY <1>2 DEF Sound, Distinct
  <2> QED
    BY <1>1, <1>2, <2>1
<1>7. (\A i \in DOMAIN a : Genuine(a[i])) /\ \A i \in DOMAIN b : Genuine(b[i])
  BY <1>2 DEF Sound
<1>8. ASSUME NEW i \in DOMAIN s PROVE s[i].id \in Nat /\ (s[i].role = "tool" <=> Answers(s[i].id))
  BY GenuineRole DEF Sound
<1>9. Paired(a)
  <2> SUFFICES ASSUME NEW i \in DOMAIN a PROVE Before(a, i) /\ After(a, i)
    BY DEF Paired
  <2>1. i \in DOMAIN s /\ a[i] = s[i] /\ Before(s, i) /\ After(s, i)
    BY <1>2 DEF Sound, Paired
  <2>2. Before(a, i)
    <3>1. i > 1 => a[i - 1] = s[i - 1]
      BY <1>1, <1>2
    <3> QED
      BY <2>1, <3>1 DEF Before
  <2>3. After(a, i)
    <3> SUFFICES ASSUME s[i].id > 0, Answers(s[i].id + 1) PROVE i < Len(a) /\ a[i + 1].id = s[i].id + 1
      BY <2>1 DEF After
    <3>1. i < n /\ s[i + 1].id = s[i].id + 1
      BY <2>1 DEF After, n
    <3>2. i + 1 \in DOMAIN s
      BY <1>1, <2>1, <3>1
    <3>3. s[i + 1].role = "tool"
      BY <1>8, <3>1, <3>2
    <3>4. i # k
      BY <1>1, <1>2, <3>1, <3>3 DEF Clean, n
    <3>5. i < Len(a) /\ i + 1 \in 1 .. k
      BY <1>1, <1>2, <3>4
    <3> QED
      BY <1>2, <3>1, <3>5
  <2> QED
    BY <2>2, <2>3
<1>10. Paired(b)
  <2> SUFFICES ASSUME NEW i \in DOMAIN b PROVE Before(b, i) /\ After(b, i)
    BY DEF Paired
  <2>1. PICK j \in DOMAIN s : j = i + k /\ b[i] = s[j]
    BY <1>2
  <2>2. Before(s, j) /\ After(s, j) /\ i \in Nat /\ i \in 1 .. n - k
    BY <1>2 DEF Sound, Paired
  <2>3. Before(b, i)
    <3> SUFFICES ASSUME Answers(s[j].id) PROVE i > 1 /\ b[i - 1].id = s[j].id - 1
      BY <2>1 DEF Before
    <3>1. j > 1 /\ s[j - 1].id = s[j].id - 1
      BY <2>2 DEF Before
    <3>2. s[j].role = "tool"
      BY <1>8
    <3>3. i # 1
      <4>1. i = 1 => j = k + 1 /\ k \in 1 .. n - 1
        BY <1>1, <2>1, <3>1
      <4> QED
        BY <3>2, <4>1 DEF Clean, n
    <3>4. i > 1 /\ i - 1 \in 1 .. (n - k) /\ (i - 1) + k = j - 1
      BY <1>1, <2>1, <2>2, <3>3
    <3> QED
      BY <1>2, <3>1, <3>4
  <2>4. After(b, i)
    <3> SUFFICES ASSUME s[j].id > 0, Answers(s[j].id + 1) PROVE i < Len(b) /\ b[i + 1].id = s[j].id + 1
      BY <2>1 DEF After
    <3>1. j < n /\ s[j + 1].id = s[j].id + 1
      BY <2>2 DEF After, n
    <3>2. i < n - k /\ i + 1 \in 1 .. (n - k) /\ (i + 1) + k = j + 1
      BY <1>1, <2>1, <2>2, <3>1
    <3> QED
      BY <1>2, <3>1, <3>2
  <2> QED
    BY <2>3, <2>4
<1> QED
  BY <1>2, <1>4, <1>5, <1>6, <1>7, <1>9, <1>10 DEF Sound, a, b

\* Places that take results and what they follow together.
Closed(s, K) ==
    /\ K \subseteq DOMAIN s
    /\ \A k \in K : /\ Answers(s[k].id) => k - 1 \in K
                    /\ s[k].id > 0 /\ Answers(s[k].id + 1) => k + 1 \in K

\* Places that are closed hold a sound prompt.
LEMMA SoundTaken ==
    ASSUME TalkHolds, NEW s, Sound(s), NEW K, Closed(s, K)
    PROVE  Sound(Taken(s, K)) /\ ToSet(Taken(s, K)) = {s[k] : k \in K}
<1> DEFINE t == Taken(s, K)
           R(k) == RankIn(K, k)
           n == Len(s)
<1>1. s \in Seq(Message) /\ K \in SUBSET DOMAIN s /\ n \in Nat /\ K \in SUBSET (1 .. n)
  BY DEF Sound, Closed
<1>2. /\ t \in Seq(Message) /\ Len(t) = Cardinality(K)
      /\ \A k \in K : R(k) \in DOMAIN t /\ t[R(k)] = s[k]
      /\ \A i \in DOMAIN t : \E k \in K : R(k) = i /\ t[i] = s[k]
  BY <1>1, TakenHolds
<1>3. ASSUME NEW k \in K, k + 1 \in K PROVE R(k + 1) = R(k) + 1
  BY <1>1, <1>3, RankNext
<1>4. DOMAIN t = 1 .. Len(t) /\ Len(t) \in Nat
  BY <1>2
<1> HIDE DEF t, R, n
<1>5. ToSet(t) = {s[k] : k \in K}
  <2>1. ASSUME NEW m \in ToSet(t) PROVE m \in {s[k] : k \in K}
    BY <1>2 DEF ToSet
  <2>2. ASSUME NEW k \in K PROVE s[k] \in ToSet(t)
    BY <1>2 DEF ToSet
  <2> QED
    BY <2>1, <2>2
<1>6. \A i \in DOMAIN t : Genuine(t[i])
  BY <1>1, <1>2 DEF Sound
<1>7. Distinct(t)
  <2> SUFFICES ASSUME NEW i \in DOMAIN t, NEW j \in DOMAIN t, t[i].id = t[j].id, t[i].id # 0 PROVE i = j
    BY DEF Distinct
  <2>1. PICK k \in K : R(k) = i /\ t[i] = s[k]
    BY <1>2
  <2>2. PICK l \in K : R(l) = j /\ t[j] = s[l]
    BY <1>2
  <2>3. k = l
    BY <1>1, <2>1, <2>2 DEF Sound, Distinct
  <2> QED
    BY <2>1, <2>2, <2>3
<1>8. Paired(t)
  <2> SUFFICES ASSUME NEW i \in DOMAIN t PROVE Before(t, i) /\ After(t, i)
    BY DEF Paired
  <2>1. PICK k \in K : R(k) = i /\ t[i] = s[k]
    BY <1>2
  <2>2. Before(s, k) /\ After(s, k) /\ k \in Int
    BY <1>1 DEF Sound, Paired
  <2>3. Before(t, i)
    <3> SUFFICES ASSUME Answers(s[k].id) PROVE i > 1 /\ t[i - 1].id = s[k].id - 1
      BY <2>1 DEF Before
    <3>1. k - 1 \in K /\ (k - 1) + 1 = k
      BY <2>2 DEF Closed
    <3>2. R(k) = R(k - 1) + 1 /\ R(k - 1) \in DOMAIN t /\ t[R(k - 1)] = s[k - 1]
      BY <1>2, <1>3, <3>1
    <3>3. i > 1 /\ i - 1 = R(k - 1)
      BY <1>4, <2>1, <3>2
    <3> QED
      BY <2>2, <3>2, <3>3 DEF Before
  <2>4. After(t, i)
    <3> SUFFICES ASSUME s[k].id > 0, Answers(s[k].id + 1) PROVE i < Len(t) /\ t[i + 1].id = s[k].id + 1
      BY <2>1 DEF After
    <3>1. k + 1 \in K
      BY <2>1 DEF Closed
    <3>2. R(k + 1) = R(k) + 1 /\ R(k + 1) \in DOMAIN t /\ t[R(k + 1)] = s[k + 1]
      BY <1>2, <1>3, <3>1
    <3>3. i < Len(t) /\ i + 1 = R(k + 1)
      BY <1>4, <2>1, <3>2
    <3> QED
      BY <2>2, <3>2, <3>3 DEF After
  <2> QED
    BY <2>3, <2>4
<1> QED
  BY <1>2, <1>5, <1>6, <1>7, <1>8 DEF Sound, t

\* Taking system messages, or leaving some, parts nothing.
LEMMA SystemsClosed ==
    ASSUME TalkHolds, NEW s, Sound(s), NEW K, K \subseteq DOMAIN s,
           \/ \A k \in K : s[k].role = "system"
           \/ \A k \in DOMAIN s \ K : s[k].role = "system"
    PROVE  Closed(s, K)
<1>0. s \in Seq(Message) /\ DOMAIN s = 1 .. Len(s) /\ Len(s) \in Nat
  BY DEF Sound
<1>1. ASSUME NEW k \in DOMAIN s PROVE (s[k].role = "system" <=> s[k].id = 0) /\ s[k].id \in Nat
  BY GenuineRole DEF Sound
<1>2. 0 \notin DOMAIN talk /\ DOMAIN talk = 1 .. Len(talk) /\ Len(talk) \in Nat
  BY DEF TalkHolds
<1>3. CASE \A k \in K : s[k].role = "system"
  BY <1>1, <1>2, <1>3 DEF Closed, Answers
<1>4. CASE \A k \in DOMAIN s \ K : s[k].role = "system"
  <2> SUFFICES ASSUME NEW k \in K
               PROVE  /\ Answers(s[k].id) => k - 1 \in K
                      /\ s[k].id > 0 /\ Answers(s[k].id + 1) => k + 1 \in K
    BY DEF Closed
  <2>1. k \in DOMAIN s /\ Before(s, k) /\ After(s, k)
    BY DEF Sound, Paired
  <2>2. Answers(s[k].id) => k - 1 \in K
    <3> SUFFICES ASSUME Answers(s[k].id) PROVE k - 1 \in K
      OBVIOUS
    <3>1. k > 1 /\ s[k - 1].id = s[k].id - 1 /\ Spoken(s[k].id) /\ talk[s[k].id].role = "tool"
      BY <2>1 DEF Before, Answers, TalkHolds
    <3>2. s[k].id > 1
      BY <3>1 DEF Spoken
    <3>3. k - 1 \in DOMAIN s /\ s[k - 1].id # 0
      BY <1>0, <1>1, <2>1, <3>1, <3>2
    <3> QED
      BY <1>1, <1>4, <3>3
  <2>3. s[k].id > 0 /\ Answers(s[k].id + 1) => k + 1 \in K
    <3> SUFFICES ASSUME s[k].id > 0, Answers(s[k].id + 1) PROVE k + 1 \in K
      OBVIOUS
    <3>1. k < Len(s) /\ s[k + 1].id = s[k].id + 1
      BY <2>1 DEF After
    <3>2. k + 1 \in DOMAIN s /\ s[k + 1].id # 0
      BY <1>0, <1>1, <2>1, <3>1
    <3> QED
      BY <1>1, <1>4, <3>2
  <2> QED
    BY <2>2, <2>3
<1> QED
  BY <1>3, <1>4

\* A prompt's system messages and its turns are sound, and all of it.
LEMMA RolesApart ==
    ASSUME TalkHolds, NEW s, Sound(s)
    PROVE  LET a == Systems(s)
               b == Turns(s)
           IN  /\ Sound(a) /\ Sound(b) /\ Ids(a) = {}
               /\ ToSet(s) = ToSet(a) \cup ToSet(b)
               /\ \A i \in DOMAIN b : b[i].role # "system"
<1> DEFINE J == {i \in DOMAIN s : s[i].role = "system"}
           K == {i \in DOMAIN s : s[i].role # "system"}
<1>1. Closed(s, J) /\ Closed(s, K)
  BY SystemsClosed
<1>2. Sound(Systems(s)) /\ ToSet(Systems(s)) = {s[k] : k \in J}
  BY <1>1, SoundTaken DEF Systems
<1>3. Sound(Turns(s)) /\ ToSet(Turns(s)) = {s[k] : k \in K}
  BY <1>1, SoundTaken DEF Turns
<1>4. ToSet(s) = ToSet(Systems(s)) \cup ToSet(Turns(s))
  BY <1>2, <1>3 DEF ToSet
<1>5. Ids(Systems(s)) = {}
  <2>1. \A k \in J : s[k].id = 0
    BY GenuineRole DEF Sound
  <2> QED
    BY <1>2, <2>1, HeldBy
<1>6. \A i \in DOMAIN Turns(s) : Turns(s)[i].role # "system"
  BY <1>3 DEF ToSet
<1> QED
  BY <1>2, <1>3, <1>4, <1>5, <1>6

\* safe_window_split cuts where no results are parted from their turn.
LEMMA SplitsClean ==
    ASSUME NEW s \in Seq(Message), NEW keep \in Int
    PROVE  Clean(s, SafeWindowSplit(s, keep))
<1> DEFINE n == Len(s)
           T == {0} \cup {j \in 1 .. (n - keep) : keep > 0 /\ s[j + 1].role # "tool"}
<1>1. n \in Nat /\ T \subseteq 0 .. n /\ T # {}
  <2>1. ASSUME NEW j \in 1 .. (n - keep), keep > 0 PROVE j \in 0 .. n
    BY <2>1
  <2> QED
    BY <2>1
<1>2. Max(T) \in T /\ SafeWindowSplit(s, keep) = Max(T)
  <2>1. SafeWindowSplit(s, keep) = Max(T)
    BY DEF SafeWindowSplit
  <2> HIDE DEF T, n
  <2> QED
    BY <1>1, <2>1, GreatestMax
<1>3. PICK k \in T : k = SafeWindowSplit(s, keep)
  BY <1>2
<1>4. k \in 0 .. n /\ (k = 0 \/ s[k + 1].role # "tool")
  OBVIOUS
<1> QED
  BY <1>3, <1>4 DEF Clean

\* System messages put before the last user turn part no results from their turn.
LEMMA SoundInserted ==
    ASSUME TalkHolds, NEW s, NEW t, Sound(s), Sound(t), Ids(s) \cap Ids(t) = {}
    PROVE  LET u == BeforeLastUser(s, t)
           IN  Sound(u) /\ ToSet(u) = ToSet(s) \cup ToSet(t)
<1> DEFINE users == {i \in DOMAIN s : s[i].role = "user"}
           at == IF users = {} THEN Len(s) + 1 ELSE Max(users)
           k == at - 1
           a == SubSeq(s, 1, k)
           b == From(s, k + 1)
<1>1. s \in Seq(Message) /\ t \in Seq(Message) /\ Len(s) \in Nat /\ DOMAIN s = 1 .. Len(s)
  BY DEF Sound
<1>2. at \in 1 .. Len(s) + 1 /\ (at \in 1 .. Len(s) => s[at].role # "tool")
  <2>1. CASE users = {}
    BY <1>1, <2>1
  <2>2. CASE users # {}
    <3>1. users \subseteq 0 .. Len(s)
      BY <1>1
    <3>2. Max(users) \in users
      <4> HIDE DEF users
      <4> QED
        BY <1>1, <2>2, <3>1, GreatestMax
    <3>3. at = Max(users)
      BY <2>2
    <3>4. at \in DOMAIN s /\ s[at].role = "user"
      BY <3>2, <3>3
    <3> HIDE DEF at
    <3> QED
      BY <1>1, <3>4
  <2> QED
    BY <2>1, <2>2
<1> HIDE DEF at
<1>3. Clean(s, k) /\ k + 1 = at
  BY <1>1, <1>2 DEF Clean
<1>4. BeforeLastUser(s, t) = (a \o t) \o b
  BY <1>3 DEF BeforeLastUser, at
<1> HIDE DEF k
<1>5. /\ Sound(a) /\ Sound(b) /\ Ids(a) \cap Ids(b) = {}
      /\ ToSet(s) = ToSet(a) \cup ToSet(b)
  BY <1>3, SoundParted
<1> HIDE DEF a, b
<1>6. Ids(s) = Ids(a) \cup Ids(b)
  BY <1>5, HeldJoined
<1>7. Sound(a \o t) /\ ToSet(a \o t) = ToSet(a) \cup ToSet(t) /\ Ids(a \o t) = Ids(a) \cup Ids(t)
  BY <1>5, <1>6, SoundJoined
<1>8. Sound((a \o t) \o b) /\ ToSet((a \o t) \o b) = ToSet(a \o t) \cup ToSet(b)
  BY <1>5, <1>6, <1>7, SoundJoined
<1> QED
  BY <1>4, <1>5, <1>7, <1>8

\* A message in another size.
SameButSize(m, n) ==
    /\ m.role = n.role /\ m.id = n.id /\ m.text = n.text /\ m.calls = n.calls
    /\ m.covers = n.covers

\* A prompt whose messages change only in size stays sound and holds the same.
LEMMA SoundResized ==
    ASSUME TalkHolds, NEW s, Sound(s), NEW t \in Seq(Message), Len(t) = Len(s),
           \A i \in DOMAIN s : SameButSize(s[i], t[i])
    PROVE  Sound(t) /\ Ids(t) = Ids(s) /\ Held(t) = Held(s)
<1>1. s \in Seq(Message) /\ DOMAIN s = 1 .. Len(s) /\ DOMAIN t = DOMAIN s /\ Len(s) \in Nat
  BY DEF Sound
<1>2. \A i \in DOMAIN t : Genuine(t[i])
  BY <1>1 DEF Sound, Genuine, SameButSize
<1>3. \A i \in DOMAIN t : t[i].id = s[i].id /\ Own(t[i]) = Own(s[i])
  BY <1>1 DEF SameButSize, Own
<1>4. Ids(t) = Ids(s) /\ Held(t) = Held(s)
  BY <1>1, <1>3 DEF Ids, Held
<1>5. Distinct(t)
  BY <1>1, <1>3 DEF Sound, Distinct
<1>6. Paired(t)
  <2> SUFFICES ASSUME NEW i \in DOMAIN t PROVE Before(t, i) /\ After(t, i)
    BY DEF Paired
  <2>1. Before(s, i) /\ After(s, i) /\ t[i].id = s[i].id
    BY <1>1, <1>3 DEF Sound, Paired
  <2>2. (i > 1 => t[i - 1].id = s[i - 1].id) /\ (i < Len(s) => t[i + 1].id = s[i + 1].id)
    <3>1. (i > 1 => i - 1 \in DOMAIN t) /\ (i < Len(s) => i + 1 \in DOMAIN t)
      BY <1>1
    <3> QED
      BY <1>3, <3>1
  <2> QED
    BY <2>1, <2>2 DEF Before, After
<1> QED
  BY <1>2, <1>4, <1>5, <1>6 DEF Sound

\* More turns say no less.
LEMMA SaidRises == ASSUME NEW A, NEW B, A \subseteq B PROVE Said(A) \subseteq Said(B)
  BY DEF Said

\* Together turns say what each part says.
LEMMA SaidJoined == ASSUME NEW A, NEW B PROVE Said(A \cup B) = Said(A) \cup Said(B)
  BY DEF Said

\* What a message of the conversation says, in any size.
LEMMA ContentHolds ==
    ASSUME TalkHolds, NEW m, Genuine(m), m.role # "system"
    PROVE  m.id \in DOMAIN talk /\ Own(m) = {m.id} /\ Content(m) = Content(talk[m.id])
<1>1. m.id \in DOMAIN talk /\ m.id # 0
  <2>1. m.id # 0 /\ m.id \in Nat
    BY GenuineRole
  <2> QED
    BY <2>1, GenuineRole
<1>2. /\ m.covers = {} /\ m.role = talk[m.id].role /\ m.text = talk[m.id].text
      /\ m.calls = talk[m.id].calls
  BY <1>1 DEF Genuine
<1>3. talk[m.id].id = m.id
  BY <1>1 DEF TalkHolds, Spoken
<1> QED
  BY <1>1, <1>2, <1>3 DEF Own, Content

-----------------------------------------------------------------------------
(* What a prompt says.                                                      *)

\* Every message left out says what one that stays says.
LEMMA SaidKept ==
    ASSUME TalkHolds, NEW s, Sound(s), NEW K, Closed(s, K),
           \A i \in DOMAIN s \ K :
               s[i].role # "system" /\ \E b \in K : s[b].role # "system" /\ Content(s[b]) = Content(s[i])
    PROVE  /\ Sound(Taken(s, K)) /\ Ids(Taken(s, K)) \subseteq Ids(s)
           /\ Said(Held(s)) \subseteq Said(Held(Taken(s, K)))
<1> DEFINE t == Taken(s, K)
<1>1. Sound(t) /\ ToSet(t) = {s[k] : k \in K}
  BY SoundTaken
<1> HIDE DEF t
<1>2. K \subseteq DOMAIN s /\ \A i \in DOMAIN s : Genuine(s[i])
  BY DEF Closed, Sound
<1>3. Ids(t) \subseteq Ids(s)
  <2>1. ToSet(t) \subseteq ToSet(s)
    BY <1>1, <1>2 DEF ToSet
  <2> QED
    BY <2>1, HeldBy
<1>4. ASSUME NEW k \in K PROVE Own(s[k]) \subseteq Held(t)
  BY <1>1, HeldBy
<1>5. ASSUME NEW i \in DOMAIN s, NEW j \in Own(s[i]) PROVE Content(talk[j]) \in Said(Held(t))
  <2>1. CASE i \in K
    BY <1>4, <2>1 DEF Said
  <2>2. CASE i \notin K
    <3>1. PICK b \in K : s[b].role # "system" /\ Content(s[b]) = Content(s[i])
      BY <2>2
    <3>2. Own(s[i]) = {s[i].id} /\ Content(s[i]) = Content(talk[s[i].id])
      BY <1>2, <2>2, ContentHolds
    <3>3. Own(s[b]) = {s[b].id} /\ Content(s[b]) = Content(talk[s[b].id])
      BY <1>2, <3>1, ContentHolds
    <3>4. Content(talk[j]) = Content(talk[s[b].id]) /\ s[b].id \in Held(t)
      BY <1>4, <3>1, <3>2, <3>3
    <3> QED
      BY <3>4 DEF Said
  <2> QED
    BY <2>1, <2>2
<1>6. Said(Held(s)) \subseteq Said(Held(t))
  <2> SUFFICES ASSUME NEW j \in Held(s) PROVE Content(talk[j]) \in Said(Held(t))
    BY DEF Said
  <2>1. PICK i \in DOMAIN s : j \in Own(s[i])
    BY DEF Held
  <2> QED
    BY <1>5, <2>1
<1> QED
  BY <1>1, <1>3, <1>6 DEF t

\* A turn that G22 drops has a like one after it that G22 keeps.
LEMMA RepeatsLike ==
    ASSUME TalkHolds, NEW s, Sound(s), NEW i \in Repeats(s)
    PROVE  /\ s[i].role \in {"user", "assistant"} /\ i + 1 \in DOMAIN s /\ s[i + 1].role = s[i].role
           /\ i \in DOMAIN s
           /\ \E b \in DOMAIN s \ Repeats(s) : Alike(s[i], s[b])
<1> DEFINE Like(j) == s[j].role \in {"user", "assistant"} /\ Alike(s[j], s[j + 1])
           Ends(b) == b = Len(s) \/ (s[b + 1].role = s[b].role /\ ~Alike(s[b], s[b + 1]))
<1>1. s \in Seq(Message) /\ DOMAIN s = 1 .. Len(s) /\ Len(s) \in Nat
  BY DEF Sound
<1>2. \A k : k \in Repeats(s) <=>
          k \in DOMAIN s /\ \E b \in (k + 1) .. Len(s) : Ends(b) /\ \A j \in k .. (b - 1) : Like(j)
  BY DEF Repeats
<1>3. i \in DOMAIN s
  BY <1>2
<1>4. PICK b \in (i + 1) .. Len(s) : Ends(b) /\ \A j \in i .. (b - 1) : Like(j)
  BY <1>2
<1> HIDE DEF Like, Ends
<1>5. b \in DOMAIN s /\ i \in i .. (b - 1) /\ i + 1 \in DOMAIN s /\ b \in Nat /\ i \in Nat /\ i < b
  BY <1>1, <1>3
<1>6. Like(i)
  BY <1>4, <1>5
<1>7. b \notin Repeats(s)
  <2> SUFFICES ASSUME b \in Repeats(s) PROVE FALSE
    OBVIOUS
  <2>1. PICK c \in (b + 1) .. Len(s) : \A j \in b .. (c - 1) : Like(j)
    BY <1>2
  <2>2. b \in b .. (c - 1) /\ b # Len(s)
    BY <1>1, <1>5
  <2>3. Like(b)
    BY <2>1, <2>2
  <2> QED
    BY <1>4, <2>2, <2>3 DEF Like, Ends
<1>8. Alike(s[i], s[b])
  <2> DEFINE T == {j \in i .. b : ~Alike(s[i], s[j])}
  <2>1. SUFFICES ASSUME T # {} PROVE FALSE
    <3>1. b \in i .. b
      BY <1>5
    <3> QED
      BY <2>1, <3>1
  <2>2. PICK x \in T : \A y \in T : x <= y
    <3>1. T \subseteq Nat
      BY <1>5
    <3> HIDE DEF T
    <3> QED
      BY <2>1, <3>1, Least
  <2>3. x \in i .. b /\ ~Alike(s[i], s[x])
    OBVIOUS
  <2>4. x # i
    BY <2>3 DEF Alike
  <2>5. x - 1 \in i .. b /\ x - 1 \in i .. (b - 1) /\ ~(x <= x - 1) /\ (x - 1) + 1 = x
    BY <1>5, <2>3, <2>4
  <2>6. Alike(s[i], s[x - 1])
    BY <2>2, <2>5
  <2>7. Like(x - 1)
    BY <1>4, <2>5
  <2>8. Alike(s[x - 1], s[x])
    BY <2>5, <2>7 DEF Like
  <2> QED
    BY <2>3, <2>6, <2>8 DEF Alike
<1> QED
  BY <1>3, <1>5, <1>6, <1>7, <1>8 DEF Like, Alike

\* G22 keeps results with their turns, and says what it drops.
LEMMA SoundDeduplicated ==
    ASSUME TalkHolds, NEW s, Sound(s)
    PROVE  Sound(Deduplicated(s)) /\ Said(Held(s)) \subseteq Said(Held(Deduplicated(s)))
<1> DEFINE K == DOMAIN s \ Repeats(s)
<1>1. s \in Seq(Message) /\ DOMAIN s = 1 .. Len(s) /\ Len(s) \in Nat
  BY DEF Sound
<1>2. ASSUME NEW k \in DOMAIN s
      PROVE  Before(s, k) /\ After(s, k) /\ Genuine(s[k]) /\ (s[k].role = "tool" <=> Answers(s[k].id))
  <2>1. Genuine(s[k]) /\ Before(s, k) /\ After(s, k)
    BY DEF Sound, Paired
  <2> QED
    BY <2>1, GenuineRole
<1>3. Closed(s, K)
  <2> SUFFICES ASSUME NEW k \in K
               PROVE  /\ Answers(s[k].id) => k - 1 \in K
                      /\ s[k].id > 0 /\ Answers(s[k].id + 1) => k + 1 \in K
    BY DEF Closed
  <2>1. ASSUME Answers(s[k].id) PROVE k - 1 \in K
    <3>1. k > 1 /\ s[k].role = "tool"
      BY <1>2, <2>1 DEF Before
    <3>2. k - 1 \in DOMAIN s /\ (k - 1) + 1 = k
      BY <1>1, <3>1
    <3>3. k - 1 \notin Repeats(s)
      <4>1. k - 1 \in Repeats(s) => s[k].role \in {"user", "assistant"}
        BY <3>2, RepeatsLike
      <4> QED
        BY <3>1, <4>1
    <3> QED
      BY <3>2, <3>3
  <2>2. ASSUME s[k].id > 0, Answers(s[k].id + 1) PROVE k + 1 \in K
    <3>1. k < Len(s) /\ s[k + 1].id = s[k].id + 1
      BY <1>2, <2>2 DEF After
    <3>2. k + 1 \in DOMAIN s
      BY <1>1, <3>1
    <3>3. s[k + 1].role = "tool"
      BY <1>2, <2>2, <3>1, <3>2
    <3> QED
      BY <3>2, <3>3, RepeatsLike
  <2> QED
    BY <2>1, <2>2
<1>4. ASSUME NEW i \in DOMAIN s \ K
      PROVE  s[i].role # "system" /\ \E b \in K : s[b].role # "system" /\ Content(s[b]) = Content(s[i])
  <2>1. /\ i \in Repeats(s) /\ s[i].role \in {"user", "assistant"} /\ i + 1 \in DOMAIN s
        /\ s[i + 1].role = s[i].role
    BY RepeatsLike
  <2>2. PICK b \in K : Alike(s[i], s[b])
    BY <2>1, RepeatsLike
  <2>3. s[b].role = s[i].role /\ s[b].text = s[i].text
    BY <2>2 DEF Alike
  <2>4. s[i].id \in DOMAIN talk /\ s[b].id \in DOMAIN talk /\ Spoken(s[i].id) /\ Spoken(s[b].id)
    <3>1. s[i].id \in DOMAIN talk /\ s[b].id \in DOMAIN talk
      BY <1>2, <2>1, <2>3, ContentHolds
    <3> QED
      BY <3>1 DEF TalkHolds
  <2>5. /\ s[i].role = talk[s[i].id].role /\ s[i].text = talk[s[i].id].text /\ s[i].calls = talk[s[i].id].calls
        /\ s[b].role = talk[s[b].id].role /\ s[b].text = talk[s[b].id].text /\ s[b].calls = talk[s[b].id].calls
    <3>1. s[i].id # 0 /\ s[b].id # 0
      BY <2>4 DEF TalkHolds
    <3> QED
      BY <1>2, <3>1 DEF Genuine
  <2>6. ~talk[s[i].id].calls
    <3> SUFFICES ASSUME talk[s[i].id].calls PROVE FALSE
      OBVIOUS
    <3>1. s[i].id < Len(talk) /\ talk[s[i].id + 1].role = "tool"
      BY <2>4 DEF Spoken
    <3>2. s[i].id > 0 /\ Answers(s[i].id + 1)
      <4>1. s[i].id \in 1 .. Len(talk) /\ Len(talk) \in Nat /\ DOMAIN talk = 1 .. Len(talk)
        BY <2>4 DEF TalkHolds
      <4>2. s[i].id + 1 \in DOMAIN talk /\ s[i].id > 0
        BY <3>1, <4>1
      <4> QED
        BY <3>1, <4>2 DEF Answers
    <3>3. s[i + 1].id = s[i].id + 1
      BY <1>2, <3>2 DEF After
    <3>4. s[i + 1].role = "tool"
      BY <1>2, <2>1, <3>2, <3>3
    <3> QED
      BY <2>1, <3>4
  <2>7. talk[s[i].id].text \in Sayings
    BY <2>1, <2>4, <2>5, <2>6 DEF Spoken
  <2>8. ~talk[s[b].id].calls
    BY <2>1, <2>3, <2>4, <2>5, <2>7, BudgetTypes DEF Spoken
  <2>9. Content(s[i]) = <<s[i].role, s[i].text, 0>> /\ Content(s[b]) = <<s[b].role, s[b].text, 0>>
    BY <2>1, <2>3, <2>5, <2>6, <2>8 DEF Content
  <2> QED
    BY <2>1, <2>3, <2>9
<1>5. Deduplicated(s) = Taken(s, K)
  BY DEF Deduplicated
<1> HIDE DEF K
<1> QED
  BY <1>3, <1>4, <1>5, SaidKept

\* An empty prompt is sound and holds nothing.
LEMMA SoundEmpty == Sound(<< >>) /\ Ids(<< >>) = {} /\ Held(<< >>) = {}
<1>1. << >> \in Seq(Message) /\ DOMAIN << >> = {}
  OBVIOUS
<1> QED
  BY <1>1 DEF Sound, Distinct, Paired, Ids, Held

-----------------------------------------------------------------------------
(* G26's rungs.                                                             *)

\* The results of a span, cut short.
Trimmed(s) ==
    [i \in DOMAIN s |-> IF s[i].role = "tool" THEN [s[i] EXCEPT !.size = 1] ELSE s[i]]

\* Cutting results short keeps a span sound and what it holds.
LEMMA SoundTrimmed ==
    ASSUME TalkHolds, NEW s, Sound(s)
    PROVE  /\ Sound(Trimmed(s)) /\ Ids(Trimmed(s)) = Ids(s) /\ Held(Trimmed(s)) = Held(s)
           /\ DOMAIN Trimmed(s) = DOMAIN s
           /\ \A i \in DOMAIN s : SameButSize(s[i], Trimmed(s)[i])
<1> DEFINE t == Trimmed(s)
<1>1. s \in Seq(Message) /\ DOMAIN s = 1 .. Len(s) /\ Len(s) \in Nat
  BY DEF Sound
<1>2. ASSUME NEW m \in Message PROVE [m EXCEPT !.size = 1] \in Message /\ SameButSize(m, [m EXCEPT !.size = 1])
  BY DEF Message, SameButSize
<1>3. ASSUME NEW i \in DOMAIN s PROVE t[i] \in Message /\ SameButSize(s[i], t[i])
  <2>1. s[i] \in Message
    BY <1>1
  <2>2. SameButSize(s[i], s[i])
    BY DEF SameButSize
  <2>3. t[i] = IF s[i].role = "tool" THEN [s[i] EXCEPT !.size = 1] ELSE s[i]
    BY DEF Trimmed
  <2> HIDE DEF t
  <2> QED
    BY <1>2, <2>1, <2>2, <2>3
<1>4. t \in Seq(Message) /\ Len(t) = Len(s) /\ DOMAIN t = DOMAIN s
  <2>1. DOMAIN t = 1 .. Len(s) /\ t = [i \in 1 .. Len(s) |-> t[i]]
    BY <1>1 DEF Trimmed
  <2> HIDE DEF t
  <2>2. t \in [1 .. Len(s) -> Message]
    BY <1>1, <1>3, <2>1
  <2> QED
    BY <1>1, <2>1, <2>2
<1> HIDE DEF t
<1> QED
  BY <1>3, <1>4, SoundResized DEF t

\* The compress rung keeps a span sound and what it holds.
LEMMA SoundCompressed ==
    ASSUME TalkHolds, NEW s, Sound(s)
    PROVE  Sound(RungCompress(s)) /\ Ids(RungCompress(s)) = Ids(s) /\ Held(RungCompress(s)) = Held(s)
<1> DEFINE t == RungCompress(s)
<1>1. s \in Seq(Message) /\ DOMAIN s = 1 .. Len(s) /\ Len(s) \in Nat
  BY DEF Sound
<1>2. ASSUME NEW m \in Message PROVE [m EXCEPT !.size = 1] \in Message /\ SameButSize(m, [m EXCEPT !.size = 1])
  BY DEF Message, SameButSize
<1>3. ASSUME NEW i \in DOMAIN s PROVE t[i] \in Message /\ SameButSize(s[i], t[i])
  <2>1. s[i] \in Message
    BY <1>1
  <2>2. SameButSize(s[i], s[i])
    BY DEF SameButSize
  <2>3. t[i] = IF s[i].role = "tool" THEN s[i] ELSE [s[i] EXCEPT !.size = 1]
    BY DEF RungCompress
  <2> HIDE DEF t
  <2> QED
    BY <1>2, <2>1, <2>2, <2>3
<1>4. t \in Seq(Message) /\ Len(t) = Len(s) /\ DOMAIN t = DOMAIN s
  <2>1. DOMAIN t = 1 .. Len(s) /\ t = [i \in 1 .. Len(s) |-> t[i]]
    BY <1>1 DEF RungCompress
  <2> HIDE DEF t
  <2>2. t \in [1 .. Len(s) -> Message]
    BY <1>1, <1>3, <2>1
  <2> QED
    BY <1>1, <2>1, <2>2
<1> HIDE DEF t
<1> QED
  BY <1>3, <1>4, SoundResized DEF t

\* The drop rung cuts no results from their turn.
LEMMA SoundDropped ==
    ASSUME TalkHolds, NEW s, Sound(s), NEW excess
    PROVE  Sound(RungDrop(s, excess)) /\ Ids(RungDrop(s, excess)) \subseteq Ids(s)
<1> DEFINE cuts == {k \in 0 .. Len(s) : k \in {0, Len(s)} \/ s[k + 1].role # "tool"}
           enough == {k \in cuts : Tokens(SubSeq(s, 1, k)) >= excess}
           c == IF enough = {} THEN Len(s) ELSE Min(enough)
<1>1. s \in Seq(Message) /\ Len(s) \in Nat
  BY DEF Sound
<1>2. \A k \in cuts : Clean(s, k)
  BY <1>1 DEF Clean
<1>3. c \in cuts
  <2>1. enough \subseteq Nat /\ enough \subseteq cuts
    OBVIOUS
  <2>2. Len(s) \in cuts
    BY <1>1
  <2> HIDE DEF cuts, enough
  <2>3. enough # {} => Min(enough) \in cuts
    BY <2>1, LeastMin
  <2> QED
    BY <2>2, <2>3
<1>4. RungDrop(s, excess) = From(s, c + 1)
  BY DEF RungDrop
<1> HIDE DEF cuts, c
<1>5. Sound(From(s, c + 1)) /\ ToSet(s) = ToSet(SubSeq(s, 1, c)) \cup ToSet(From(s, c + 1))
  BY <1>2, <1>3, SoundParted
<1> QED
  BY <1>4, <1>5, HeldJoined

\* The prune rung keeps a span sound, and what it drops is said by what it keeps.
LEMMA SoundPruned ==
    ASSUME TalkHolds, NEW s, Sound(s), \A i \in DOMAIN s : s[i].role # "system"
    PROVE  /\ Sound(RungPrune(s)) /\ Ids(RungPrune(s)) \subseteq Ids(s)
           /\ Said(Held(s)) \subseteq Said(Held(RungPrune(s)))
<1> DEFINE repeated(i) == \E j \in 1 .. (i - 1) : Content(s[j]) = Content(s[i])
           welds(last, i) == last > 0 /\ i < Len(s) /\ s[last].role = s[i + 1].role
           keeps(last, i) == ~repeated(i) \/ welds(last, i)
           last[i \in 0 .. Len(s)] ==
               IF i = 0 THEN 0 ELSE IF keeps(last[i - 1], i) THEN i ELSE last[i - 1]
           K == {i \in DOMAIN s : keeps(last[i - 1], i)}
           t == Trimmed(s)
<1>1. RungPrune(s) = Taken(t, K)
  BY DEF RungPrune, Trimmed
<1> HIDE DEF last
<1>2. s \in Seq(Message) /\ DOMAIN s = 1 .. Len(s) /\ Len(s) \in Nat
  BY DEF Sound
<1>3. ASSUME NEW i \in DOMAIN s PROVE i \in K \/ repeated(i)
  OBVIOUS
<1> HIDE DEF K
<1>4. K \subseteq DOMAIN s
  BY DEF K
<1>5. ASSUME NEW k \in DOMAIN s
      PROVE  /\ Before(s, k) /\ After(s, k) /\ Genuine(s[k]) /\ (s[k].role = "tool" <=> Answers(s[k].id))
             /\ s[k].id \in DOMAIN talk /\ Spoken(s[k].id) /\ s[k].id \in Nat \ {0}
             /\ s[k].role = talk[s[k].id].role /\ s[k].calls = talk[s[k].id].calls
  <2>1. Genuine(s[k]) /\ Before(s, k) /\ After(s, k)
    BY DEF Sound, Paired
  <2>2. s[k].role = "tool" <=> Answers(s[k].id)
    BY <2>1, GenuineRole
  <2>3. s[k].id \in DOMAIN talk
    BY <2>1, ContentHolds
  <2>4. Spoken(s[k].id) /\ s[k].id \in Nat \ {0}
    BY <2>3 DEF TalkHolds
  <2> QED
    BY <2>1, <2>2, <2>3, <2>4 DEF Genuine
\* Nothing repeats a call or a result.
<1>6. ASSUME NEW k \in DOMAIN s, s[k].calls \/ s[k].role = "tool" PROVE k \in K
  <2> SUFFICES ASSUME repeated(k) PROVE FALSE
    BY <1>3
  <2>1. PICK j \in 1 .. (k - 1) : Content(s[j]) = Content(s[k])
    OBVIOUS
  <2>2. j \in DOMAIN s /\ j # k
    BY <1>2
  <2>3. Content(s[k])[3] = s[k].id
    BY <1>6 DEF Content
  <2>4. Content(s[j])[3] \in {0, s[j].id}
    BY DEF Content
  <2>5. s[k].id = s[j].id /\ s[k].id # 0
    BY <1>5, <2>1, <2>2, <2>3, <2>4
  <2> QED
    BY <2>2, <2>5 DEF Sound, Distinct
<1>7. Closed(s, K)
  <2> SUFFICES ASSUME NEW k \in K
               PROVE  /\ Answers(s[k].id) => k - 1 \in K
                      /\ s[k].id > 0 /\ Answers(s[k].id + 1) => k + 1 \in K
    BY <1>4 DEF Closed
  <2>1. k \in DOMAIN s
    BY <1>4
  <2>2. ASSUME Answers(s[k].id) PROVE k - 1 \in K
    <3>1. k > 1 /\ s[k - 1].id = s[k].id - 1 /\ talk[s[k].id].role = "tool"
      BY <1>5, <2>1, <2>2 DEF Before, Answers
    <3>2. k - 1 \in DOMAIN s
      BY <1>2, <2>1, <3>1
    <3>3. talk[s[k].id - 1].calls \/ talk[s[k].id - 1].role = "tool"
      BY <1>5, <2>1, <3>1 DEF Spoken
    <3>4. s[k - 1].calls \/ s[k - 1].role = "tool"
      BY <1>5, <3>1, <3>2, <3>3
    <3> QED
      BY <1>6, <3>2, <3>4
  <2>3. ASSUME s[k].id > 0, Answers(s[k].id + 1) PROVE k + 1 \in K
    <3>1. k < Len(s) /\ s[k + 1].id = s[k].id + 1
      BY <1>5, <2>1, <2>3 DEF After
    <3>2. k + 1 \in DOMAIN s
      BY <1>2, <2>1, <3>1
    <3>3. s[k + 1].role = "tool"
      BY <1>5, <2>3, <3>1, <3>2
    <3> QED
      BY <1>6, <3>2, <3>3
  <2> QED
    BY <2>2, <2>3
\* The first message that says something stays.
<1>8. ASSUME NEW i \in DOMAIN s \ K PROVE \E b \in K : Content(s[b]) = Content(s[i])
  <2> DEFINE T == {j \in DOMAIN s : Content(s[j]) = Content(s[i])}
  <2>1. PICK b \in T : \A y \in T : b <= y
    <3>1. T # {} /\ T \subseteq Nat
      BY <1>2
    <3> HIDE DEF T
    <3> QED
      BY <3>1, Least
  <2>2. ~repeated(b)
    <3> SUFFICES ASSUME NEW j \in 1 .. (b - 1), Content(s[j]) = Content(s[b]) PROVE FALSE
      OBVIOUS
    <3>1. j \in DOMAIN s /\ ~(b <= j)
      BY <1>2
    <3> QED
      BY <2>1, <3>1
  <2>3. b \in K
    BY <1>3, <2>2
  <2> QED
    BY <2>3
<1>9. /\ Sound(t) /\ Ids(t) = Ids(s) /\ Held(t) = Held(s) /\ DOMAIN t = DOMAIN s
      /\ \A i \in DOMAIN s : SameButSize(s[i], t[i])
  BY SoundTrimmed
<1> HIDE DEF t, repeated, keeps
<1>10. Closed(t, K)
  <2>1. \A k \in K : t[k].id = s[k].id
    BY <1>4, <1>9 DEF SameButSize
  <2> QED
    BY <1>7, <1>9, <2>1 DEF Closed
<1>11. \A i \in DOMAIN s : Content(t[i]) = Content(s[i]) /\ t[i].role # "system"
  BY <1>9 DEF SameButSize, Content
<1>12. \A i \in DOMAIN t \ K :
          t[i].role # "system" /\ \E b \in K : t[b].role # "system" /\ Content(t[b]) = Content(t[i])
  BY <1>4, <1>8, <1>9, <1>11
<1> QED
  BY <1>1, <1>9, <1>10, <1>12, SaidKept

-----------------------------------------------------------------------------
(* G26's cache of summaries.                                                *)

\* A cached summary covers turns of the conversation, and what was not cut from it
\* says all its key says.
Contents == Roles \X Texts \X Nat
Entry == [at : {"redis", "local", "new", "hit"}, key : Seq(Contents), covers : SUBSET Nat, cut : BOOLEAN]
Covering(o) ==
    /\ o \in Entry /\ o.covers \subseteq DOMAIN talk
    /\ ~o.cut => \A i \in DOMAIN o.key : o.key[i] \in Said(o.covers)
\* Every cached summary holds.
SummariesHold == \A o \in summaries : Covering(o)

\* One message of the system is a sound prompt.
LEMMA SystemSound ==
    ASSUME TalkHolds, NEW m \in Message, m.role = "system", m.id = 0, m.covers \subseteq DOMAIN talk
    PROVE  Sound(<<m>>) /\ Ids(<<m>>) = {} /\ Held(<<m>>) = m.covers /\ ToSet(<<m>>) = {m}
<1>1. <<m>> \in Seq(Message) /\ DOMAIN <<m>> = {1} /\ <<m>>[1] = m
  OBVIOUS
<1>2. 0 \notin DOMAIN talk
  BY DEF TalkHolds
<1>3. Genuine(m) /\ Own(m) = m.covers
  BY DEF Genuine, Own
<1>4. Distinct(<<m>>) /\ Paired(<<m>>)
  BY <1>1, <1>2 DEF Distinct, Paired, Before, After, Answers
<1>5. Ids(<<m>>) = {} /\ ToSet(<<m>>) = {m}
  BY <1>1 DEF Ids, ToSet
<1>6. Held(<<m>>) = m.covers
  <2>1. {Own(k) : k \in ToSet(<<m>>)} = {m.covers}
    BY <1>3, <1>5
  <2>2. Held(<<m>>) = UNION {Own(k) : k \in ToSet(<<m>>)}
    BY HeldBy
  <2>3. Held(<<m>>) = UNION {m.covers}
    BY <2>1, <2>2
  <2> QED
    BY <2>3
<1> QED
  BY <1>1, <1>3, <1>4, <1>5, <1>6 DEF Sound

\* A summary of some turns is a message of the system that covers them.
LEMMA SummaryType ==
    ASSUME NEW ids, ids \subseteq Nat
    PROVE  /\ SummaryOf(ids) \in Message
           /\ SummaryOf(ids).role = "system" /\ SummaryOf(ids).id = 0 /\ SummaryOf(ids).covers = ids
           /\ SummaryOf(ids) = [role |-> "system", id |-> 0, text |-> "summary", calls |-> FALSE,
                                size |-> 1, covers |-> ids]
<1>1. SummaryOf(ids) = [role |-> "system", id |-> 0, text |-> "summary", calls |-> FALSE,
                        size |-> 1, covers |-> ids]
  BY DEF SummaryOf
<1>2. SummaryOf(ids) \in Message
  BY <1>1 DEF Message, Roles, Texts
<1> QED
  BY <1>1, <1>2

\* The messages of a part of a prompt are messages of it.
LEMMA PartsOf ==
    ASSUME NEW s \in Seq(Message), NEW k \in 0 .. Len(s)
    PROVE  /\ SubSeq(s, 1, k) \in Seq(Message) /\ Len(SubSeq(s, 1, k)) = k
           /\ ToSet(SubSeq(s, 1, k)) \subseteq ToSet(s)
           /\ From(s, k + 1) \in Seq(Message)
           /\ ToSet(From(s, k + 1)) = {s[i] : i \in (k + 1) .. Len(s)}
           /\ ToSet(From(s, k + 1)) \subseteq ToSet(s)
<1> DEFINE a == SubSeq(s, 1, k)
           b == From(s, k + 1)
<1>1. k \in Nat /\ Len(s) \in Nat /\ k <= Len(s) /\ DOMAIN s = 1 .. Len(s)
  OBVIOUS
<1>2. /\ a \in Seq(Message) /\ Len(a) = k /\ DOMAIN a = 1 .. k /\ \A i \in 1 .. k : a[i] = s[i]
  BY Parted
<1>3. /\ b \in Seq(Message) /\ DOMAIN b = 1 .. (Len(s) - k)
      /\ \A i \in 1 .. (Len(s) - k) : b[i] = s[i + k]
  BY Parted
<1> HIDE DEF a, b
<1>4. \A i \in 1 .. k : i \in DOMAIN s
  BY <1>1
<1>5. ToSet(a) \subseteq ToSet(s)
  BY <1>2, <1>4 DEF ToSet
<1>6. ToSet(b) = {s[i] : i \in (k + 1) .. Len(s)}
  <2>1. ASSUME NEW i \in 1 .. (Len(s) - k) PROVE i + k \in (k + 1) .. Len(s)
    BY <1>1
  <2>2. ASSUME NEW i \in (k + 1) .. Len(s) PROVE i - k \in 1 .. (Len(s) - k) /\ (i - k) + k = i
    BY <1>1
  <2>3. ASSUME NEW m \in ToSet(b) PROVE m \in {s[i] : i \in (k + 1) .. Len(s)}
    <3>1. PICK i \in 1 .. (Len(s) - k) : m = s[i + k]
      BY <1>3 DEF ToSet
    <3> QED
      BY <2>1, <3>1
  <2>4. ASSUME NEW i \in (k + 1) .. Len(s) PROVE s[i] \in ToSet(b)
    <3>1. b[i - k] = s[i] /\ i - k \in DOMAIN b
      BY <1>3, <2>2
    <3> QED
      BY <3>1 DEF ToSet
  <2> QED
    BY <2>3, <2>4
<1>7. \A i \in (k + 1) .. Len(s) : i \in DOMAIN s
  BY <1>1
<1>8. ToSet(b) \subseteq ToSet(s)
  BY <1>6, <1>7 DEF ToSet
<1> QED
  BY <1>2, <1>3, <1>5, <1>6, <1>8 DEF a, b

\* A span's key lists what the span says.
LEMMA KeyHolds ==
    ASSUME NEW s \in Seq(Message), NEW n \in 0 .. Len(s)
    PROVE  KeyOf(s, n) \in Seq(Contents) /\ DOMAIN KeyOf(s, n) = 1 .. n
           /\ \A i \in 1 .. n : KeyOf(s, n)[i] = Content(s[i])
<1>1. n \in Nat /\ \A i \in 1 .. n : s[i] \in Message
  OBVIOUS
<1>2. ASSUME NEW m \in Message PROVE Content(m) \in Contents
  BY DEF Message, Content, Contents
<1>3. KeyOf(s, n) \in [1 .. n -> Contents]
  BY <1>1, <1>2 DEF KeyOf
<1> QED
  BY <1>1, <1>3 DEF KeyOf

\* What the cache has of a span covers turns of the conversation.
LEMMA CachedHolds ==
    ASSUME NEW s, NEW n, NEW up, NEW e \in Cached(s, n, up)
    PROVE  e \in summaries /\ e.key = KeyOf(s, n)
  BY DEF Cached

-----------------------------------------------------------------------------
(* The stages of a request.                                                 *)

\* What was in a prompt's messages is in the summary that was shown them all.
LEMMA SummarisedHolds ==
    ASSUME TalkHolds, SummariesHold, NEW s, Sound(s), s # << >>,
           \A i \in DOMAIN s : s[i].role # "system", NEW up
    PROVE  LET e == Summarised(s, up)
           IN  Covering(e) /\ (e.cut \/ Said(Held(s)) \subseteq Said(e.covers))
<1> DEFINE exact == Cached(s, Len(s), up)
           known == {n \in Max({1, Len(s) - Lookback}) .. (Len(s) - 1) : Cached(s, n, up) # {}}
           base == Max(known)
           c == CHOOSE d \in Cached(s, base, up) : TRUE
           prior == IF known = {} THEN << >> ELSE <<SummaryOf(c.covers)>>
           input == prior \o From(s, IF known = {} THEN 1 ELSE Since(base))
           first == SubSeq(input, 1, Min({SummaryTurns, Len(input)}))
           fits == {k \in 1 .. Len(first) : k = Len(first) \/ Tokens(From(first, k)) <= SummaryInput}
           shown == From(first, Min(fits))
           hit == [(CHOOSE d \in exact : TRUE) EXCEPT !.at = "hit"]
           new == [at |-> "new", key |-> KeyOf(s, Len(s)),
                   covers |-> Ids(shown) \cup UNION {shown[i].covers : i \in DOMAIN shown},
                   cut |-> shown # input \/ (known # {} /\ c.cut)]
           e == Summarised(s, up)
<1>1. e = IF exact # {} THEN hit ELSE new
  BY DEF Summarised
<1> HIDE DEF e
<1> SUFFICES Covering(e) /\ (e.cut \/ Said(Held(s)) \subseteq Said(e.covers))
  BY DEF e
<1>2. s \in Seq(Message) /\ Len(s) \in Nat /\ Len(s) >= 1 /\ DOMAIN s = 1 .. Len(s)
  BY DEF Sound
<1>3. ASSUME NEW i \in DOMAIN s
      PROVE  Genuine(s[i]) /\ s[i].id \in DOMAIN talk /\ Own(s[i]) = {s[i].id} /\ Content(s[i]) = Content(talk[s[i].id])
  BY ContentHolds DEF Sound
<1>4. ASSUME NEW o, Covering(o), o.key = KeyOf(s, Len(s)), ~o.cut
      PROVE  Said(Held(s)) \subseteq Said(o.covers)
  <2>1. \A i \in DOMAIN s : Content(s[i]) \in Said(o.covers)
    BY <1>2, <1>4, KeyHolds DEF Covering
  <2> SUFFICES ASSUME NEW j \in Held(s) PROVE Content(talk[j]) \in Said(o.covers)
    BY DEF Said
  <2>2. PICK i \in DOMAIN s : j \in Own(s[i])
    BY DEF Held
  <2> QED
    BY <1>3, <2>1, <2>2
<1>5. CASE exact # {}
  <2> DEFINE d == CHOOSE d \in exact : TRUE
  <2>1. d \in exact
    BY <1>5
  <2>2. Covering(d) /\ d.key = KeyOf(s, Len(s))
    BY <2>1, CachedHolds DEF SummariesHold
  <2>3. e = [d EXCEPT !.at = "hit"]
    BY <1>1, <1>5
  <2> HIDE DEF d
  <2>4. e \in Entry /\ e.key = d.key /\ e.covers = d.covers /\ e.cut = d.cut
    BY <2>2, <2>3 DEF Covering, Entry
  <2>5. Covering(e)
    BY <2>2, <2>4 DEF Covering
  <2> QED
    BY <1>4, <2>2, <2>4, <2>5
<1>6. CASE exact = {}
  <2> DEFINE p == IF known = {} THEN 0 ELSE base
             rest == From(s, p + 1)
  <2>1. known # {} => base \in known /\ base \in 0 .. Len(s)
    <3>1. Max({1, Len(s) - Lookback}) \in Int /\ Max({1, Len(s) - Lookback}) >= 1
      <4> DEFINE x == Len(s) - Lookback
      <4>1. x \in Int
        BY <1>2, BudgetTypes
      <4> HIDE DEF x
      <4>2. \E y \in {1, x} : \A z \in {1, x} : y >= z
        BY <4>1
      <4>3. Max({1, x}) \in {1, x} /\ \A z \in {1, x} : Max({1, x}) >= z
        BY <4>2 DEF Max
      <4>4. Max({1, x}) \in Int /\ Max({1, x}) >= 1
        BY <4>1, <4>3
      <4> QED
        BY <4>4 DEF x
    <3>2. known \subseteq 0 .. Len(s)
      <4> DEFINE x == Max({1, Len(s) - Lookback})
      <4>1. \A n \in x .. (Len(s) - 1) : n \in 0 .. Len(s)
        <5>1. x \in Int /\ x >= 1
          BY <3>1
        <5> HIDE DEF x
        <5> QED
          BY <1>2, <5>1
      <4> QED
        BY <4>1
    <3> HIDE DEF known
    <3> QED
      BY <1>2, <3>2, GreatestMax
  <2>2. known # {} => Covering(c) /\ c.key = KeyOf(s, base)
    <3>1. known # {} => Cached(s, base, up) # {}
      BY <2>1
    <3>2. Cached(s, base, up) # {} => c \in Cached(s, base, up)
      OBVIOUS
    <3> QED
      BY <3>1, <3>2, CachedHolds DEF SummariesHold
  <2> HIDE DEF c, known
  <2>3. Sound(prior) /\ Held(prior) = (IF known = {} THEN {} ELSE c.covers)
    <3>1. known = {} => Sound(prior) /\ Held(prior) = {}
      BY SoundEmpty
    <3>2. ASSUME known # {} PROVE Sound(prior) /\ Held(prior) = c.covers
      <4>1. c.covers \subseteq Nat /\ c.covers \subseteq DOMAIN talk
        BY <2>2, <3>2 DEF Covering, Entry
      <4>2. prior = <<SummaryOf(c.covers)>>
        BY <3>2
      <4> HIDE DEF prior
      <4>3. Sound(<<SummaryOf(c.covers)>>) /\ Held(<<SummaryOf(c.covers)>>) = c.covers
        BY <4>1, SummaryType, SystemSound
      <4> QED
        BY <4>2, <4>3
    <3> QED
      BY <3>1, <3>2
  <2>4. p \in 0 .. Len(s) /\ p \in Nat
    BY <1>2, <2>1
  <2>5. rest \in Seq(Message) /\ ToSet(rest) = {s[i] : i \in (p + 1) .. Len(s)}
    <3> HIDE DEF p
    <3> QED
      BY <1>2, <2>4, PartsOf
  <2>6. input = prior \o rest
    BY DEF Since
  <2> HIDE DEF prior, rest
  <2>7. input \in Seq(Message) /\ ToSet(input) = ToSet(prior) \cup ToSet(rest)
    <3>1. prior \in Seq(Message)
      BY <2>3 DEF Sound
    <3> DEFINE n == Len(prior)
    <3> HIDE DEF input
    <3>2. /\ input \in Seq(Message) /\ DOMAIN input = 1 .. n + Len(rest)
          /\ n \in Nat /\ Len(rest) \in Nat /\ DOMAIN prior = 1 .. n /\ DOMAIN rest = 1 .. Len(rest)
          /\ \A i \in DOMAIN prior : i \in DOMAIN input /\ input[i] = prior[i]
          /\ \A i \in DOMAIN rest : n + i \in DOMAIN input /\ input[n + i] = rest[i]
      BY <2>5, <2>6, <3>1, Joined
    <3> HIDE DEF n
    <3>3. ASSUME NEW i \in DOMAIN input PROVE input[i] \in ToSet(prior) \/ input[i] \in ToSet(rest)
      <4>1. CASE i <= n
        BY <3>2, <4>1 DEF ToSet
      <4>2. CASE i > n
        <5>1. i - n \in DOMAIN rest /\ n + (i - n) = i
          BY <3>2, <4>2
        <5> QED
          BY <3>2, <5>1 DEF ToSet
      <4> QED
        BY <3>2, <4>1, <4>2
    <3>4. ToSet(prior) \subseteq ToSet(input) /\ ToSet(rest) \subseteq ToSet(input)
      BY <3>2 DEF ToSet
    <3>5. ToSet(input) \subseteq ToSet(prior) \cup ToSet(rest)
      BY <3>3 DEF ToSet
    <3> QED
      BY <3>2, <3>4, <3>5
  <2>8. Len(input) >= 1 /\ Len(input) \in Nat
    <3>1. Len(input) \in Nat /\ DOMAIN input = 1 .. Len(input)
      <4> HIDE DEF input
      <4> QED
        BY <2>7
    <3>2. ToSet(input) # {}
      <4>1. CASE known = {}
        <5>1. p = 0
          BY <4>1
        <5>2. s[1] \in ToSet(rest)
          BY <1>2, <2>5, <5>1
        <5> QED
          BY <2>7, <5>2
      <4>2. CASE known # {}
        <5>1. prior = <<SummaryOf(c.covers)>>
          BY <4>2 DEF prior
        <5>2. prior[1] \in ToSet(prior)
          BY <5>1 DEF ToSet
        <5> QED
          BY <2>7, <5>2
      <4> QED
        BY <4>1, <4>2
    <3> HIDE DEF input
    <3>3. DOMAIN input # {}
      BY <3>2 DEF ToSet
    <3> QED
      BY <3>1, <3>3
  <2> HIDE DEF input
  <2>9. Min({SummaryTurns, Len(input)}) \in 1 .. Len(input)
    <3>1. SummaryTurns \in Nat /\ SummaryTurns >= 1
      BY BudgetTypes
    <3>2. \E y \in {SummaryTurns, Len(input)} : \A z \in {SummaryTurns, Len(input)} : y <= z
      BY <2>8, <3>1
    <3>3. /\ Min({SummaryTurns, Len(input)}) \in {SummaryTurns, Len(input)}
          /\ \A z \in {SummaryTurns, Len(input)} : Min({SummaryTurns, Len(input)}) <= z
      BY <3>2 DEF Min
    <3> QED
      BY <2>8, <3>1, <3>3
  <2>10. first \in Seq(Message) /\ Len(first) \in Nat /\ Len(first) >= 1 /\ ToSet(first) \subseteq ToSet(input)
    <3> DEFINE k == Min({SummaryTurns, Len(input)})
    <3>1. k \in 0 .. Len(input) /\ k \in Nat /\ k >= 1
      BY <2>8, <2>9
    <3> HIDE DEF k
    <3>2. SubSeq(input, 1, k) \in Seq(Message) /\ Len(SubSeq(input, 1, k)) = k /\ ToSet(SubSeq(input, 1, k)) \subseteq ToSet(input)
      BY <2>7, <3>1, PartsOf
    <3>3. first = SubSeq(input, 1, k)
      BY DEF k
    <3> HIDE DEF first
    <3> QED
      BY <3>1, <3>2, <3>3
  <2> HIDE DEF first
  <2>11. Min(fits) \in 1 .. Len(first)
    <3>1. Len(first) \in fits /\ fits \subseteq Nat
      BY <2>10
    <3>2. Min(fits) \in fits
      <4> HIDE DEF fits
      <4> QED
        BY <3>1, LeastMin
    <3> QED
      BY <3>2
  <2>12. ToSet(shown) \subseteq ToSet(input)
    <3> DEFINE k == Min(fits) - 1
    <3>1. k \in 0 .. Len(first) /\ k + 1 = Min(fits)
      BY <2>10, <2>11
    <3> HIDE DEF k
    <3>2. shown = From(first, k + 1)
      BY <3>1
    <3>3. ToSet(From(first, k + 1)) \subseteq ToSet(first)
      BY <2>10, <3>1, PartsOf
    <3> QED
      BY <2>10, <3>2, <3>3
  <2> HIDE DEF shown
  <2>13. Held(shown) = new.covers
    BY DEF Held, Own, Ids
  <2>14. Held(input) = Held(prior) \cup Held(rest)
    BY <2>7, HeldJoined
  <2>15. Held(rest) \subseteq DOMAIN talk /\ \A i \in (p + 1) .. Len(s) : s[i].id \in Held(rest)
    <3>1. \A i \in (p + 1) .. Len(s) : i \in DOMAIN s
      BY <1>2, <2>4
    <3>2. Held(rest) = UNION {Own(m) : m \in {s[i] : i \in (p + 1) .. Len(s)}}
      BY <2>5, HeldBy
    <3> HIDE DEF p
    <3> QED
      BY <1>3, <3>1, <3>2
  <2>16. Held(prior) \subseteq DOMAIN talk
    BY <2>2, <2>3 DEF Covering
  <2>17. new.covers \subseteq DOMAIN talk /\ new.covers \subseteq Nat
    <3>1. Held(shown) \subseteq Held(input)
      BY <2>12, HeldBy
    <3>2. DOMAIN talk \subseteq Nat
      BY DEF TalkHolds
    <3> QED
      BY <2>13, <2>14, <2>15, <2>16, <3>1, <3>2
  <2>18. ASSUME ~(shown # input \/ (known # {} /\ c.cut)), NEW i \in DOMAIN s
         PROVE  Content(s[i]) \in Said(new.covers)
    <3>1. new.covers = Held(prior) \cup Held(rest)
      BY <2>13, <2>14, <2>18
    <3> HIDE DEF new
    <3>2. CASE i > p
      <4>1. i \in (p + 1) .. Len(s)
        BY <1>2, <2>4, <3>2
      <4>2. s[i].id \in new.covers
        BY <2>15, <3>1, <4>1
      <4> QED
        BY <1>3, <4>2 DEF Said
    <3>3. CASE i <= p
      <4>1. known # {} /\ p = base
        BY <1>2, <2>4, <3>3
      <4>2. i \in 1 .. base /\ base \in 0 .. Len(s)
        BY <1>2, <2>1, <2>4, <3>3, <4>1
      <4>3. Covering(c) /\ c.key = KeyOf(s, base) /\ ~c.cut
        BY <2>2, <2>18, <4>1
      <4>4. i \in DOMAIN c.key /\ c.key[i] = Content(s[i])
        <5> HIDE DEF base
        <5> QED
          BY <1>2, <4>2, <4>3, KeyHolds
      <4>5. Content(s[i]) \in Said(c.covers)
        BY <4>3, <4>4 DEF Covering
      <4>6. c.covers \subseteq new.covers
        BY <2>3, <3>1, <4>1
      <4> QED
        BY <4>5, <4>6, SaidRises
    <3> QED
      BY <1>2, <2>4, <3>2, <3>3
  <2>19. KeyOf(s, Len(s)) \in Seq(Contents) /\ DOMAIN KeyOf(s, Len(s)) = DOMAIN s
         /\ \A i \in DOMAIN s : KeyOf(s, Len(s))[i] = Content(s[i])
    BY <1>2, KeyHolds
  <2>20. /\ e = new
         /\ new.key = KeyOf(s, Len(s)) /\ new.at = "new"
    BY <1>1, <1>6
  <2>21. new.cut <=> shown # input \/ (known # {} /\ c.cut)
    OBVIOUS
  <2>22. new \in Entry
    <3> DEFINE v == new.covers
               w == shown # input \/ (known # {} /\ c.cut)
    <3>1. new = [at |-> "new", key |-> KeyOf(s, Len(s)), covers |-> v, cut |-> w] /\ w \in BOOLEAN
      OBVIOUS
    <3>2. v \subseteq Nat
      BY <2>17
    <3> HIDE DEF new, v, w
    <3> QED
      BY <2>19, <3>1, <3>2 DEF Entry
  <2> HIDE DEF new
  <2>23. Covering(new)
    BY <2>17, <2>18, <2>19, <2>20, <2>21, <2>22 DEF Covering
  <2> QED
    BY <1>4, <2>20, <2>23
<1> QED
  BY <1>5, <1>6

\* Between stages the prompt is sound, the cached summaries hold, and unless something
\* was lost on the way the prompt says all of the conversation.
BudgetInv ==
    /\ TalkHolds /\ SummariesHold /\ Sound(prompt)
    /\ turnAt # "client" /\ ~lossy => Whole(prompt)

\* A stage that keeps its prompt sound and says what it takes out.
LEMMA StageHolds ==
    ASSUME BudgetInv, turnAt # "client", talk' = talk, NEW p, prompt' = p, Sound(p),
           ~lossy' => ~lossy /\ Said(Held(prompt)) \subseteq Said(Held(p)),
           SummariesHold'
    PROVE  BudgetInv'
<1>1. TalkHolds'
  BY DEF BudgetInv, TalkHolds, Spoken
<1>2. Sound(prompt)'
  BY DEF Sound, Genuine, Distinct, Paired, Before, After, Answers
<1>3. (~lossy => Whole(prompt))'
  <2> SUFFICES ASSUME ~lossy' PROVE Whole(prompt)'
    OBVIOUS
  <2>1. Said(DOMAIN talk) \subseteq Said(Held(p))
    BY DEF BudgetInv, Whole
  <2>2. Said(DOMAIN talk)' = Said(DOMAIN talk) /\ Said(Held(prompt))' = Said(Held(p))
    BY DEF Said, Held
  <2> QED
    BY <2>1, <2>2 DEF Whole
<1> QED
  BY <1>1, <1>2, <1>3 DEF BudgetInv

\* The summaries hold for as long as the conversation does.
LEMMA SummariesStay ==
    ASSUME SummariesHold, UNCHANGED talk, summaries' \subseteq summaries
    PROVE  SummariesHold'
<1>1. ASSUME NEW o, Covering(o) PROVE Covering(o)'
  BY <1>1 DEF Covering, Said
<1> QED
  BY <1>1 DEF SummariesHold

\* SlidingWindow: the window keeps results with their turns and says when it loses some.
LEMMA WindowHolds == ASSUME BudgetInv, SlidingWindow PROVE BudgetInv'
<1> DEFINE turns == Turns(prompt)
           k == SafeWindowSplit(turns, WindowKeep)
           old == SubSeq(turns, 1, k)
           tail == From(turns, k + 1)
           Shown(answered) == IF answered THEN Ids(SubSeq(old, 1, Min({WindowShown, k}))) ELSE {}
<1>1. /\ turnAt = "G10" /\ turnAt # "client" /\ talk' = talk /\ summaries' = summaries
      /\ \/ UNCHANGED <<prompt, lossy>>
         \/ /\ k > 0
            /\ \E answered \in BOOLEAN :
                  /\ prompt' = Systems(prompt) \o <<SummaryOf(Shown(answered))>> \o tail
                  /\ lossy' = (lossy \/ Shown(answered) # Ids(old))
  BY DEF SlidingWindow
<1>2. SummariesHold'
  BY <1>1, SummariesStay DEF BudgetInv
<1>3. CASE UNCHANGED <<prompt, lossy>>
  BY <1>1, <1>2, <1>3, StageHolds DEF BudgetInv
<1>4. ASSUME k > 0, NEW answered \in BOOLEAN,
             prompt' = Systems(prompt) \o <<SummaryOf(Shown(answered))>> \o tail,
             lossy' = (lossy \/ Shown(answered) # Ids(old))
      PROVE  BudgetInv'
  <2> DEFINE a == Systems(prompt)
             m == SummaryOf(Shown(answered))
  <2>1. /\ Sound(a) /\ Sound(turns) /\ Ids(a) = {} /\ ToSet(prompt) = ToSet(a) \cup ToSet(turns)
        /\ \A i \in DOMAIN turns : turns[i].role # "system"
        /\ TalkHolds
    BY RolesApart DEF BudgetInv
  <2>2. turns \in Seq(Message)
    BY <2>1 DEF Sound
  <2>3. Clean(turns, k)
    BY <2>2, SplitsClean, BudgetTypes
  <2> HIDE DEF turns, k, a
  <2>4. /\ Sound(old) /\ Sound(tail) /\ Ids(old) \cap Ids(tail) = {}
        /\ ToSet(turns) = ToSet(old) \cup ToSet(tail)
    BY <2>1, <2>3, SoundParted
  <2>5. k \in 0 .. Len(turns) /\ k \in Nat /\ Len(old) = k
    BY <2>2, <2>3, PartsOf DEF Clean
  <2>6. Shown(answered) \subseteq Ids(old)
    <3> DEFINE w == Min({WindowShown, k})
    <3>1. w \in 0 .. Len(old)
      <4>1. WindowShown \in Nat
        BY BudgetTypes
      <4>2. \E x \in {WindowShown, k} : \A y \in {WindowShown, k} : x <= y
        BY <2>5, <4>1
      <4>3. w \in {WindowShown, k} /\ \A y \in {WindowShown, k} : w <= y
        BY <4>2 DEF Min
      <4> HIDE DEF w, old
      <4> QED
        BY <2>5, <4>1, <4>3
    <3> HIDE DEF w, old
    <3>2. old \in Seq(Message)
      BY <2>4 DEF Sound
    <3>3. ToSet(SubSeq(old, 1, w)) \subseteq ToSet(old)
      BY <3>1, <3>2, PartsOf
    <3>4. Ids(SubSeq(old, 1, w)) \subseteq Ids(old)
      BY <3>3, HeldBy
    <3> QED
      BY <3>4 DEF w
  <2> HIDE DEF Shown
  <2>7. Ids(old) \subseteq DOMAIN talk /\ DOMAIN talk \subseteq Nat /\ Held(old) = Ids(old)
    <3>1. \A x \in ToSet(old) : Genuine(x) /\ x.role # "system"
      <4>1. ToSet(old) \subseteq ToSet(turns)
        BY <2>4
      <4> QED
        BY <2>1, <4>1 DEF ToSet, Sound
    <3>2. \A x \in ToSet(old) : x.id \in DOMAIN talk /\ Own(x) = {x.id}
      BY <2>1, <3>1, ContentHolds
    <3>3. DOMAIN talk \subseteq Nat /\ 0 \notin DOMAIN talk
      BY <2>1 DEF TalkHolds
    <3> HIDE DEF old
    <3>4. Ids(old) = {x.id : x \in ToSet(old)}
      BY <3>2, <3>3, HeldBy
    <3>5. Held(old) = {x.id : x \in ToSet(old)}
      BY <3>2, HeldBy
    <3> QED
      BY <3>2, <3>3, <3>4, <3>5
  <2>8. m \in Message /\ m.role = "system" /\ m.id = 0 /\ m.covers = Shown(answered)
    <3>1. Shown(answered) \subseteq Nat
      BY <2>6, <2>7
    <3> QED
      BY <3>1, SummaryType
  <2> HIDE DEF m, old
  <2>9. Sound(<<m>>) /\ Ids(<<m>>) = {} /\ Held(<<m>>) = Shown(answered)
    BY <2>1, <2>6, <2>7, <2>8, SystemSound
  <2>10. Sound(a \o <<m>>) /\ Ids(a \o <<m>>) = {} /\ Held(a \o <<m>>) = Held(a) \cup Shown(answered)
    BY <2>1, <2>9, SoundJoined
  <2> HIDE DEF tail
  <2>11. Sound(a \o <<m>> \o tail) /\ Held(a \o <<m>> \o tail) = Held(a) \cup Shown(answered) \cup Held(tail)
    BY <2>1, <2>4, <2>10, SoundJoined
  <2>12. Held(prompt) = Held(a) \cup Held(old) \cup Held(tail)
    BY <2>1, <2>4, HeldJoined
  <2> DEFINE p == a \o <<m>> \o tail
  <2>13. ~lossy' => ~lossy /\ Held(prompt) \subseteq Held(p)
    BY <1>4, <2>7, <2>11, <2>12
  <2>14. prompt' = p
    BY <1>4 DEF a, m
  <2> HIDE DEF p
  <2>15. ~lossy' => ~lossy /\ Said(Held(prompt)) \subseteq Said(Held(p))
    BY <2>13, SaidRises
  <2>16. Sound(p)
    BY <2>11 DEF p
  <2> QED
    BY <1>1, <1>2, <2>14, <2>15, <2>16, StageHolds
<1> QED
  BY <1>1, <1>3, <1>4

\* Deduplicate: the stage loses no saying.
LEMMA DeduplicateHolds == ASSUME BudgetInv, Deduplicate PROVE BudgetInv'
<1>1. /\ turnAt # "client" /\ talk' = talk /\ summaries' = summaries /\ lossy' = lossy
      /\ prompt' \in {Deduplicated(prompt), prompt}
  BY DEF Deduplicate
<1>2. SummariesHold'
  BY <1>1, SummariesStay DEF BudgetInv
<1>3. Sound(prompt') /\ Said(Held(prompt)) \subseteq Said(Held(prompt'))
  BY <1>1, SoundDeduplicated DEF BudgetInv
<1> QED
  BY <1>1, <1>2, <1>3, StageHolds

\* What the pipeline adds are messages of the system that sum up nothing.
LEMMA RelocatedType ==
    /\ Relocated \in Message /\ Relocated.role = "system" /\ Relocated.id = 0 /\ Relocated.covers = {}
    /\ SystemPrompt \in Message /\ SystemPrompt.role = "system" /\ SystemPrompt.id = 0
    /\ SystemPrompt.covers = {}
    /\ Document \in Message /\ Document.role = "system" /\ Document.id = 0 /\ Document.covers = {}
  BY DEF Relocated, SystemPrompt, Document, Say, Message, Roles, Texts

\* AlignPrefix: rearranging parts no results and loses nothing.
LEMMA AlignHolds == ASSUME BudgetInv, AlignPrefix PROVE BudgetInv'
<1> DEFINE retrieved == {i \in DOMAIN prompt : prompt[i].text = "retrieved"}
           documents == Taken(prompt, retrieved)
           others == Taken(prompt, DOMAIN prompt \ retrieved)
           placed == BeforeLastUser(others, documents)
           first == {i \in DOMAIN placed : placed[i].role = "system" /\ placed[i].text # "retrieved"}
           prefix == Taken(placed, first)
           variable == Taken(placed, DOMAIN placed \ first)
<1>1. /\ turnAt # "client" /\ talk' = talk /\ summaries' = summaries /\ lossy' = lossy
      /\ prompt' \in {prompt, placed, prefix \o variable, prefix \o variable \o <<Relocated>>}
  BY DEF AlignPrefix
<1>2. SummariesHold'
  BY <1>1, SummariesStay DEF BudgetInv
<1>3. TalkHolds /\ Sound(prompt)
  BY DEF BudgetInv
<1>4. \A i \in retrieved : prompt[i].role = "system"
  <2> SUFFICES ASSUME NEW i \in DOMAIN prompt, prompt[i].text = "retrieved", prompt[i].role # "system"
               PROVE  FALSE
    OBVIOUS
  <2>1. Genuine(prompt[i])
    BY <1>3 DEF Sound
  <2>2. prompt[i].id \in DOMAIN talk
    BY <1>3, <2>1, ContentHolds
  <2>3. Spoken(prompt[i].id) /\ prompt[i].id # 0
    BY <1>3, <2>2 DEF TalkHolds
  <2>4. talk[prompt[i].id].text = "retrieved"
    BY <2>1, <2>3 DEF Genuine
  <2> QED
    BY <2>3, <2>4, BudgetTypes DEF Spoken
<1>5. Sound(documents) /\ Sound(others) /\ ToSet(prompt) = ToSet(others) \cup ToSet(documents) /\ Ids(documents) = {}
  <2>1. Closed(prompt, retrieved) /\ Closed(prompt, DOMAIN prompt \ retrieved)
    BY <1>3, <1>4, SystemsClosed
  <2>2. /\ Sound(documents) /\ ToSet(documents) = {prompt[i] : i \in retrieved}
        /\ Sound(others) /\ ToSet(others) = {prompt[i] : i \in DOMAIN prompt \ retrieved}
    BY <1>3, <2>1, SoundTaken
  <2>3. \A i \in retrieved : prompt[i].id = 0
    BY <1>3, <1>4, GenuineRole DEF Sound
  <2>4. Ids(documents) = {}
    BY <2>2, <2>3, HeldBy
  <2>5. ToSet(prompt) = ToSet(others) \cup ToSet(documents)
    BY <2>2 DEF ToSet
  <2> QED
    BY <2>2, <2>4, <2>5
<1> HIDE DEF documents, others
<1>6. Sound(placed) /\ ToSet(placed) = ToSet(prompt)
  BY <1>3, <1>5, SoundInserted
<1> HIDE DEF placed
<1>7. /\ Sound(prefix) /\ Sound(variable) /\ Ids(prefix) = {}
      /\ ToSet(placed) = ToSet(prefix) \cup ToSet(variable)
  <2>1. Closed(placed, first) /\ Closed(placed, DOMAIN placed \ first)
    BY <1>3, <1>6, SystemsClosed
  <2>2. /\ Sound(prefix) /\ ToSet(prefix) = {placed[i] : i \in first}
        /\ Sound(variable) /\ ToSet(variable) = {placed[i] : i \in DOMAIN placed \ first}
    BY <1>3, <1>6, <2>1, SoundTaken
  <2>3. \A i \in first : placed[i].id = 0
    BY <1>3, <1>6, GenuineRole DEF Sound
  <2>4. Ids(prefix) = {}
    BY <2>2, <2>3, HeldBy
  <2>5. ToSet(placed) = ToSet(prefix) \cup ToSet(variable)
    BY <2>2 DEF ToSet
  <2> QED
    BY <2>2, <2>4, <2>5
<1> HIDE DEF prefix, variable
<1>8. Sound(prefix \o variable) /\ ToSet(prefix \o variable) = ToSet(prompt)
  BY <1>3, <1>6, <1>7, SoundJoined
<1>9. Sound(<<Relocated>>) /\ Ids(<<Relocated>>) = {}
  BY <1>3, RelocatedType, SystemSound
<1>10. Sound(prefix \o variable \o <<Relocated>>) /\ ToSet(prompt) \subseteq ToSet(prefix \o variable \o <<Relocated>>)
  BY <1>3, <1>8, <1>9, SoundJoined
<1>11. Sound(prompt') /\ ToSet(prompt) \subseteq ToSet(prompt')
  BY <1>1, <1>3, <1>6, <1>8, <1>10
<1>12. Said(Held(prompt)) \subseteq Said(Held(prompt'))
  <2>1. Held(prompt) = UNION {Own(m) : m \in ToSet(prompt)}
    BY HeldBy
  <2> DEFINE p == prompt'
  <2> HIDE DEF p
  <2>2. Held(p) = UNION {Own(m) : m \in ToSet(p)}
    BY HeldBy
  <2>3. Held(prompt) \subseteq Held(p)
    BY <1>11, <2>1, <2>2 DEF p
  <2> QED
    BY <2>3, SaidRises DEF p
<1> QED
  BY <1>1, <1>2, <1>11, <1>12, StageHolds

\* The prompt as a compaction leaves it, when what it leaves of the span says what the
\* span said.
LEMMA FinishHolds ==
    ASSUME BudgetInv, turnAt # "client", talk' = talk, SummariesHold',
           NEW k, Clean(Turns(prompt), k),
           NEW summary, Sound(summary), Ids(summary) = {}, NEW rest, Sound(rest),
           Ids(rest) \subseteq Ids(SubSeq(Turns(prompt), 1, k)),
           Finish(SubSeq(Turns(prompt), 1, k), From(Turns(prompt), k + 1), summary, rest),
           \/ \E i \in DOMAIN summary : summary[i].text = "cut"
           \/ Said(Held(SubSeq(Turns(prompt), 1, k))) \subseteq Said(Held(summary)) \cup Said(Held(rest))
    PROVE  BudgetInv'
<1> DEFINE a == Systems(prompt)
           turns == Turns(prompt)
           span == SubSeq(turns, 1, k)
           tail == From(turns, k + 1)
           current == Tokens(prompt) - Tokens(span) + Tokens(summary) + Tokens(rest)
           excess == current - Target
           q == a \o summary \o rest \o tail
<1>1. /\ Sound(a) /\ Sound(turns) /\ Ids(a) = {} /\ ToSet(prompt) = ToSet(a) \cup ToSet(turns)
      /\ TalkHolds /\ Sound(prompt)
  BY RolesApart DEF BudgetInv
<1>2. /\ Sound(span) /\ Sound(tail) /\ Ids(span) \cap Ids(tail) = {}
      /\ ToSet(turns) = ToSet(span) \cup ToSet(tail)
  BY <1>1, SoundParted
<1>3. PICK left \in {rest, RungDrop(rest, excess)} :
         /\ prompt' \in {prompt, a \o summary \o left \o tail}
         /\ ~lossy' => ~lossy /\ left = rest /\ ~\E i \in DOMAIN summary : summary[i].text = "cut"
  <2> DEFINE cut == IF "drop" \in enabled /\ current > Target THEN RungDrop(rest, excess) ELSE rest
  <2>1. /\ prompt' = IF summary \o cut = span THEN prompt ELSE a \o summary \o cut \o tail
        /\ lossy' = (lossy \/ cut # rest \/ \E i \in DOMAIN summary : summary[i].text = "cut")
    BY DEF Finish
  <2>2. cut \in {rest, RungDrop(rest, excess)}
    <3> HIDE DEF current, excess
    <3> QED
      OBVIOUS
  <2> HIDE DEF cut, a, span, tail
  <2> QED
    BY <2>1, <2>2
<1>4. Sound(left) /\ Ids(left) \subseteq Ids(span)
  <2>1. Sound(RungDrop(rest, excess)) /\ Ids(RungDrop(rest, excess)) \subseteq Ids(rest)
    BY <1>1, SoundDropped
  <2> HIDE DEF excess, span
  <2>2. CASE left = rest
    BY <2>2 DEF span
  <2>3. CASE left = RungDrop(rest, excess)
    BY <2>1, <2>3 DEF span
  <2> QED
    BY <2>2, <2>3
<1> HIDE DEF a, span, tail, turns
<1>5. Held(prompt) = Held(a) \cup Held(span) \cup Held(tail)
  BY <1>1, <1>2, HeldJoined
<1> DEFINE p == a \o summary \o left \o tail
<1>6. Sound(p) /\ Held(p) = Held(a) \cup Held(summary) \cup Held(left) \cup Held(tail)
  <2>1. Sound(a \o summary) /\ Ids(a \o summary) = {} /\ Held(a \o summary) = Held(a) \cup Held(summary)
    BY <1>1, SoundJoined
  <2>2. /\ Sound(a \o summary \o left) /\ Ids(a \o summary \o left) = Ids(left)
        /\ Held(a \o summary \o left) = Held(a) \cup Held(summary) \cup Held(left)
    BY <1>1, <1>4, <2>1, SoundJoined
  <2>3. Ids(a \o summary \o left) \cap Ids(tail) = {}
    BY <1>2, <1>4, <2>2
  <2> QED
    BY <1>1, <1>2, <2>2, <2>3, SoundJoined
<1> HIDE DEF p
<1>7. ASSUME ~lossy' PROVE ~lossy /\ Said(Held(prompt)) \subseteq Said(Held(p))
  <2>1. ~lossy /\ left = rest /\ Said(Held(span)) \subseteq Said(Held(summary)) \cup Said(Held(rest))
    BY <1>3, <1>7 DEF span, turns
  <2> DEFINE A == Held(a) \cup Held(span)
             B == Held(a) \cup Held(summary)
             C == B \cup Held(left)
  <2>2. Said(A) = Said(Held(a)) \cup Said(Held(span)) /\ Said(B) = Said(Held(a)) \cup Said(Held(summary))
    BY SaidJoined
  <2>3. Said(C) = Said(B) \cup Said(Held(left))
    <3> HIDE DEF B
    <3> QED
      BY SaidJoined
  <2> HIDE DEF A, C
  <2>4. Said(A \cup Held(tail)) = Said(A) \cup Said(Held(tail)) /\ Said(C \cup Held(tail)) = Said(C) \cup Said(Held(tail))
    BY SaidJoined
  <2>5. Held(prompt) = A \cup Held(tail) /\ Held(p) = C \cup Held(tail)
    BY <1>5, <1>6 DEF A, C
  <2> HIDE DEF B
  <2> QED
    BY <2>1, <2>2, <2>3, <2>4, <2>5
<1>8. CASE prompt' = prompt
  <2>1. ~lossy' => ~lossy /\ Said(Held(prompt)) \subseteq Said(Held(prompt))
    BY <1>3
  <2> QED
    BY <1>1, <1>8, <2>1, StageHolds
<1>9. CASE prompt' = p
  BY <1>6, <1>7, <1>9, StageHolds
<1> QED
  BY <1>3, <1>8, <1>9 DEF p

\* A new summary takes the place of what its key had.
LEMMA StoreHolds ==
    ASSUME SummariesHold, talk' = talk, NEW e, Covering(e), NEW up, StoreSummary(e, up)
    PROVE  SummariesHold'
<1>1. ASSUME NEW o, Covering(o) PROVE Covering(o)'
  BY <1>1 DEF Covering, Said
<1>2. \A at \in {"redis", "local"} : Covering([e EXCEPT !.at = at])
  <2>1. e \in Entry
    BY DEF Covering
  <2>2. ASSUME NEW at \in {"redis", "local"}
        PROVE  /\ [e EXCEPT !.at = at] \in Entry /\ [e EXCEPT !.at = at].covers = e.covers
               /\ [e EXCEPT !.at = at].cut = e.cut /\ [e EXCEPT !.at = at].key = e.key
    BY <2>1 DEF Entry
  <2> QED
    BY <2>2 DEF Covering
<1>3. ASSUME NEW o \in summaries' PROVE Covering(o)
  <2> DEFINE at == IF up THEN "redis" ELSE "local"
  <2>1. o \in summaries \/ o = [e EXCEPT !.at = at]
    BY DEF StoreSummary
  <2>2. at \in {"redis", "local"}
    OBVIOUS
  <2> HIDE DEF at
  <2> QED
    BY <1>2, <2>1, <2>2 DEF SummariesHold
<1> QED
  BY <1>1, <1>3 DEF SummariesHold

\* Compact: each rung, and the summary that takes the span's place.
LEMMA CompactHolds == ASSUME BudgetInv, Compact PROVE BudgetInv'
<1> DEFINE turns == Turns(prompt)
           k == SafeWindowSplit(turns, BudgetKeep)
           span == SubSeq(turns, 1, k)
           tail == From(turns, k + 1)
           Beyond(s) == Tokens(prompt) - Tokens(span) + Tokens(s) > Target
           pruned == IF "prune" \in enabled /\ Beyond(span) THEN RungPrune(span) ELSE span
           compressed == IF "compress" \in enabled /\ Beyond(pruned) THEN RungCompress(pruned) ELSE pruned
           Shown(e) == [SummaryOf(e.covers) EXCEPT !.text = IF e.cut THEN "cut" ELSE "summary"]
<1>1. /\ turnAt # "client" /\ talk' = talk
      /\ \/ UNCHANGED <<prompt, summaries, lossy>>
         \/ k > 0 /\ summaries' = summaries /\ Finish(span, tail, << >>, compressed)
         \/ k > 0 /\ \E up \in BOOLEAN :
               /\ StoreSummary(Summarised(span, up), up)
               /\ \/ Finish(span, tail, <<Shown(Summarised(span, up))>>, << >>)
                  \/ Finish(span, tail, << >>, compressed)
  BY DEF Compact
<1>2. /\ Sound(turns) /\ TalkHolds /\ SummariesHold /\ Sound(prompt)
      /\ \A i \in DOMAIN turns : turns[i].role # "system"
  BY RolesApart DEF BudgetInv
<1>3. turns \in Seq(Message)
  BY <1>2 DEF Sound
<1>4. Clean(turns, k)
  BY <1>3, SplitsClean, BudgetTypes
<1>5. Sound(span) /\ \A i \in DOMAIN span : span[i].role # "system"
  <2> HIDE DEF turns, k
  <2>1. Sound(span) /\ ToSet(span) \subseteq ToSet(turns)
    BY <1>2, <1>4, SoundParted
  <2>2. \A m \in ToSet(turns) : m.role # "system"
    BY <1>2 DEF ToSet
  <2> HIDE DEF span
  <2> QED
    BY <2>1, <2>2 DEF ToSet
<1>6. k > 0 => span # << >>
  <2> HIDE DEF turns, k
  <2>1. k \in 0 .. Len(turns) /\ k \in Nat
    BY <1>3, <1>4 DEF Clean
  <2>2. Len(span) = k
    BY <1>3, <2>1, PartsOf
  <2> QED
    BY <2>1, <2>2
<1> HIDE DEF k, span, tail
<1>7. Sound(pruned) /\ Ids(pruned) \subseteq Ids(span) /\ Said(Held(span)) \subseteq Said(Held(pruned))
  BY <1>2, <1>5, SoundPruned
<1> HIDE DEF pruned
<1>8. Sound(compressed) /\ Ids(compressed) \subseteq Ids(span) /\ Said(Held(span)) \subseteq Said(Held(compressed))
  <2>1. CASE compressed = pruned
    BY <1>7, <2>1
  <2>2. CASE compressed = RungCompress(pruned)
    <3>1. Sound(RungCompress(pruned)) /\ Ids(RungCompress(pruned)) = Ids(pruned)
          /\ Held(RungCompress(pruned)) = Held(pruned)
      BY <1>2, <1>7, SoundCompressed
    <3> HIDE DEF compressed
    <3> QED
      BY <1>7, <2>2, <3>1
  <2> QED
    BY <2>1, <2>2
<1> HIDE DEF compressed, turns, Shown
<1>9. ASSUME Finish(span, tail, << >>, compressed), SummariesHold' PROVE BudgetInv'
  <2>1. Sound(<< >>) /\ Ids(<< >>) = {}
    BY SoundEmpty
  <2>2. Said(Held(span)) \subseteq Said(Held(<< >>)) \cup Said(Held(compressed))
    BY <1>8
  <2> QED
    BY <1>1, <1>4, <1>8, <1>9, <2>1, <2>2, FinishHolds DEF span, tail, turns
<1>10. ASSUME NEW e, Covering(e), e.cut \/ Said(Held(span)) \subseteq Said(e.covers),
              Finish(span, tail, <<Shown(e)>>, << >>), SummariesHold'
       PROVE  BudgetInv'
  <2> DEFINE m == Shown(e)
  <2>1. e \in Entry /\ e.covers \subseteq Nat /\ e.covers \subseteq DOMAIN talk
    BY <1>10 DEF Covering, Entry
  <2>2. m \in Message /\ m.role = "system" /\ m.id = 0 /\ m.covers = e.covers /\ (e.cut => m.text = "cut")
    <3>1. SummaryOf(e.covers) \in Message /\ SummaryOf(e.covers).role = "system"
          /\ SummaryOf(e.covers).id = 0 /\ SummaryOf(e.covers).covers = e.covers
      BY <2>1, SummaryType
    <3> DEFINE x == IF e.cut THEN "cut" ELSE "summary"
    <3>2. x \in Texts /\ (e.cut => x = "cut")
      BY DEF Texts
    <3>3. m = [SummaryOf(e.covers) EXCEPT !.text = x]
      BY DEF Shown
    <3> HIDE DEF x, m
    <3> QED
      BY <3>1, <3>2, <3>3 DEF Message
  <2> HIDE DEF m
  <2>3. Sound(<<m>>) /\ Ids(<<m>>) = {} /\ Held(<<m>>) = e.covers
    BY <1>2, <2>1, <2>2, SystemSound
  <2>4. Sound(<< >>) /\ Ids(<< >>) \subseteq Ids(span)
    BY SoundEmpty
  <2>5. \/ \E i \in DOMAIN <<m>> : <<m>>[i].text = "cut"
        \/ Said(Held(span)) \subseteq Said(Held(<<m>>)) \cup Said(Held(<< >>))
    <3>1. CASE e.cut
      <4>1. 1 \in DOMAIN <<m>> /\ <<m>>[1].text = "cut"
        BY <2>2, <3>1
      <4> QED
        BY <4>1
    <3>2. CASE ~e.cut
      BY <1>10, <2>3, <3>2
    <3> QED
      BY <3>1, <3>2
  <2>6. Finish(span, tail, <<m>>, << >>)
    BY <1>10 DEF m
  <2> QED
    BY <1>1, <1>4, <1>10, <2>3, <2>4, <2>5, <2>6, FinishHolds DEF span, tail, turns
<1>11. CASE UNCHANGED <<prompt, summaries, lossy>>
  <2>1. SummariesHold'
    BY <1>1, <1>2, <1>11, SummariesStay
  <2> QED
    BY <1>1, <1>2, <1>11, <2>1, StageHolds
<1>12. CASE summaries' = summaries /\ Finish(span, tail, << >>, compressed)
  <2>1. SummariesHold'
    BY <1>1, <1>2, <1>12, SummariesStay
  <2> QED
    BY <1>9, <1>12, <2>1
<1>13. ASSUME k > 0, NEW up \in BOOLEAN, StoreSummary(Summarised(span, up), up),
              \/ Finish(span, tail, <<Shown(Summarised(span, up))>>, << >>)
              \/ Finish(span, tail, << >>, compressed)
       PROVE  BudgetInv'
  <2> DEFINE e == Summarised(span, up)
  <2>1. Covering(e) /\ (e.cut \/ Said(Held(span)) \subseteq Said(e.covers))
    BY <1>2, <1>5, <1>6, <1>13, SummarisedHolds
  <2> HIDE DEF e
  <2>2. SummariesHold'
    BY <1>1, <1>2, <1>13, <2>1, StoreHolds DEF e
  <2> QED
    BY <1>9, <1>10, <1>13, <2>1, <2>2 DEF e
<1> QED
  BY <1>1, <1>11, <1>12, <1>13

\* What stands before and after a message of a short sequence.
LEMMA OneFollows ==
    ASSUME NEW a \in Message, NEW b \in Message, NEW c \in Message,
           NEW s, s = <<a>> \/ s = <<b, c>> \/ s = <<b, c, c>>
    PROVE  /\ s \in Seq(Message) /\ Len(s) \in {1, 2, 3} /\ DOMAIN s = 1 .. Len(s)
           /\ \A k \in DOMAIN s :
                 \/ s[k] = a
                 \/ s[k] = b /\ k + 1 \in DOMAIN s /\ s[k + 1] = c
                 \/ s[k] = c /\ k - 1 \in DOMAIN s /\ s[k - 1] \in {b, c}
<1>1. CASE s = <<a>>
  BY <1>1
<1>2. CASE s = <<b, c>>
  <2>1. Len(s) = 2 /\ DOMAIN s = {1, 2} /\ s[1] = b /\ s[2] = c
    BY <1>2
  <2> QED
    BY <1>2, <2>1
<1>3. CASE s = <<b, c, c>>
  <2>1. Len(s) = 3 /\ DOMAIN s = {1, 2, 3} /\ s[1] = b /\ s[2] = c /\ s[3] = c
    BY <1>3
  <2> QED
    BY <1>3, <2>1
<1> QED
  BY <1>1, <1>2, <1>3

\* The conversation grows by an exchange; what it said before stays where it was.
LEMMA TalkGrows ==
    ASSUME TalkHolds, NEW more \in Exchanges, talk' = talk \o Renumbered(more, Len(talk))
    PROVE  /\ TalkHolds' /\ \A i \in DOMAIN talk : i \in DOMAIN talk' /\ talk'[i] = talk[i]
<1> DEFINE n == Len(talk)
           new == Renumbered(more, n)
           u == talk \o new
<1>1. talk \in Seq(Message) /\ n \in Nat /\ DOMAIN talk = 1 .. n
  BY DEF TalkHolds
<1>2. PICK r \in {"user", "assistant"}, x \in Sayings :
        more \in {<<Say(r, x, FALSE, 2)>>, <<ToolCall, Result>>, <<ToolCall, Result, Result>>}
  <2>1. \E x \in Sayings : TRUE
    BY BudgetTypes
  <2>2. \/ \E r \in {"user", "assistant"}, x \in Sayings : more = <<Say(r, x, FALSE, 2)>>
        \/ more \in {<<ToolCall, Result>>, <<ToolCall, Result, Result>>}
    BY DEF Exchanges
  <2> QED
    BY <2>1, <2>2
<1>3. /\ Say(r, x, FALSE, 2) \in Message /\ ToolCall \in Message /\ Result \in Message
  BY DEF Say, ToolCall, Result, Message, Roles, Texts
<1>4. /\ more \in Seq(Message) /\ Len(more) \in {1, 2, 3} /\ DOMAIN more = 1 .. Len(more)
      /\ \A k \in DOMAIN more :
            \/ more[k] = Say(r, x, FALSE, 2)
            \/ more[k] = ToolCall /\ k + 1 \in DOMAIN more /\ more[k + 1] = Result
            \/ more[k] = Result /\ k - 1 \in DOMAIN more /\ more[k - 1] \in {ToolCall, Result}
  <2> DEFINE a == Say(r, x, FALSE, 2)
  <2>1. a \in Message /\ (more = <<a>> \/ more = <<ToolCall, Result>> \/ more = <<ToolCall, Result, Result>>)
    BY <1>2, <1>3
  <2> HIDE DEF a, n
  <2>2. /\ more \in Seq(Message) /\ Len(more) \in {1, 2, 3} /\ DOMAIN more = 1 .. Len(more)
        /\ \A k \in DOMAIN more :
              \/ more[k] = a
              \/ more[k] = ToolCall /\ k + 1 \in DOMAIN more /\ more[k + 1] = Result
              \/ more[k] = Result /\ k - 1 \in DOMAIN more /\ more[k - 1] \in {ToolCall, Result}
    BY <1>3, <2>1, OneFollows
  <2> QED
    BY <2>2 DEF a
<1>5. /\ new \in Seq(Message) /\ Len(new) = Len(more) /\ DOMAIN new = DOMAIN more
      /\ \A k \in DOMAIN more : new[k] = [more[k] EXCEPT !.id = n + k] /\ new[k].id = n + k
                                /\ new[k].covers = more[k].covers /\ new[k].role = more[k].role
                                /\ new[k].text = more[k].text /\ new[k].calls = more[k].calls
  <2>1. new = [k \in DOMAIN more |-> [more[k] EXCEPT !.id = n + k]]
    BY DEF Renumbered
  <2> HIDE DEF n, new
  <2>2. \A k \in DOMAIN more : k \in Nat /\ n + k \in Nat /\ more[k] \in Message
    BY <1>1, <1>4
  <2>3. ASSUME NEW k \in DOMAIN more
        PROVE  /\ new[k] = [more[k] EXCEPT !.id = n + k] /\ new[k].id = n + k /\ new[k] \in Message
               /\ new[k].covers = more[k].covers /\ new[k].role = more[k].role
               /\ new[k].text = more[k].text /\ new[k].calls = more[k].calls
    BY <2>1, <2>2 DEF Message
  <2>4. new \in [1 .. Len(more) -> Message] /\ Len(more) \in Nat
    BY <1>4, <2>1, <2>3
  <2>5. new \in Seq(Message) /\ Len(new) = Len(more) /\ DOMAIN new = 1 .. Len(more)
    BY <2>4
  <2> QED
    BY <1>4, <2>3, <2>5
<1> HIDE DEF new, n
<1>6. /\ u \in Seq(Message) /\ Len(u) = n + Len(new) /\ Len(new) \in Nat
      /\ DOMAIN u = 1 .. n + Len(new) /\ DOMAIN new = 1 .. Len(new)
      /\ \A i \in DOMAIN talk : i \in DOMAIN u /\ u[i] = talk[i]
      /\ \A i \in DOMAIN new : n + i \in DOMAIN u /\ u[n + i] = new[i]
  <2>1. new \in Seq(Message) /\ Len(new) \in Nat
    BY <1>5
  <2> QED
    BY <1>1, <2>1, Joined DEF n, u
<1>7. talk' = u
  BY DEF new, n
<1> HIDE DEF u
<1>8. ASSUME NEW i \in DOMAIN talk PROVE Spoken(i)'
  <2>1. Spoken(i) /\ i \in DOMAIN u /\ u[i] = talk[i] /\ i \in 1 .. n
    BY <1>1, <1>6 DEF TalkHolds
  <2>2. i < Len(talk) => i + 1 \in DOMAIN talk /\ u[i + 1] = talk[i + 1] /\ i < Len(u)
    BY <1>1, <1>6, <2>1 DEF n
  <2>3. i > 1 => u[i - 1] = talk[i - 1]
    <3>1. i > 1 => i - 1 \in DOMAIN talk
      BY <1>1, <2>1
    <3> QED
      BY <1>6, <3>1
  <2> QED
    BY <1>7, <2>1, <2>2, <2>3 DEF Spoken
<1>9. ASSUME NEW i \in DOMAIN u, NEW k \in DOMAIN new, i = n + k PROVE Spoken(i)'
  <2>1. /\ u[i] = new[k] /\ u[i].id = i /\ k \in 1 .. Len(new) /\ k \in DOMAIN more
        /\ u[i].covers = more[k].covers /\ u[i].role = more[k].role
        /\ u[i].text = more[k].text /\ u[i].calls = more[k].calls
    BY <1>5, <1>6, <1>9
  <2>2. CASE more[k] = Say(r, x, FALSE, 2)
    <3>1. more[k].covers = {} /\ more[k].role = r /\ more[k].text = x /\ more[k].calls = FALSE
      BY <2>2 DEF Say
    <3> QED
      BY <1>2, <1>7, <2>1, <3>1 DEF Spoken
  <2>3. CASE more[k] = ToolCall /\ k + 1 \in DOMAIN more /\ more[k + 1] = Result
    <3>1. /\ more[k].covers = {} /\ more[k].role = "assistant" /\ more[k].text = "call"
          /\ more[k].calls = TRUE /\ more[k + 1].role = "tool"
      BY <2>3 DEF Say, ToolCall, Result
    <3>2. n + (k + 1) = i + 1 /\ i < Len(u)
      BY <1>1, <1>4, <1>5, <1>6, <1>9, <2>1, <2>3
    <3>3. u[i + 1].role = "tool"
      BY <1>5, <1>6, <2>3, <3>1, <3>2
    <3> QED
      BY <1>7, <2>1, <3>1, <3>2, <3>3 DEF Spoken
  <2>4. CASE more[k] = Result /\ k - 1 \in DOMAIN more /\ more[k - 1] \in {ToolCall, Result}
    <3>1. /\ more[k].covers = {} /\ more[k].role = "tool" /\ more[k].text = "result"
          /\ more[k].calls = FALSE /\ (more[k - 1].calls = TRUE \/ more[k - 1].role = "tool")
      BY <2>4 DEF Say, ToolCall, Result
    <3>2. n + (k - 1) = i - 1 /\ i > 1
      BY <1>1, <1>4, <1>5, <1>6, <1>9, <2>1, <2>4
    <3>3. u[i - 1].calls = TRUE \/ u[i - 1].role = "tool"
      BY <1>5, <1>6, <2>4, <3>1, <3>2
    <3> QED
      BY <1>7, <2>1, <3>1, <3>2, <3>3 DEF Spoken
  <2> QED
    BY <1>4, <2>1, <2>2, <2>3, <2>4
<1>10. ASSUME NEW i \in DOMAIN u PROVE Spoken(i)'
  <2>1. CASE i <= n
    <3>1. i \in DOMAIN talk
      BY <1>1, <1>6, <2>1
    <3> QED
      BY <1>8, <3>1
  <2>2. CASE i > n
    <3> DEFINE k == i - n
    <3>1. k \in DOMAIN new /\ i = n + k
      BY <1>1, <1>6, <2>2
    <3> HIDE DEF k
    <3> QED
      BY <1>9, <3>1
  <2> QED
    BY <1>1, <1>6, <2>1, <2>2
<1> QED
  BY <1>6, <1>7, <1>10 DEF TalkHolds

\* The prompt as the client sends it is sound and says all of the conversation.
Fresh == \A d \in {<<Document>>, << >>} :
            LET p == BeforeLastUser(<<SystemPrompt>> \o talk, d) IN Sound(p) /\ Whole(p)

\* What the client sends, with or without a document, says all of the conversation.
LEMMA FreshHolds == TalkHolds => Fresh
<1> SUFFICES ASSUME TalkHolds, NEW d \in {<<Document>>, << >>}
             PROVE  LET p == BeforeLastUser(<<SystemPrompt>> \o talk, d) IN Sound(p) /\ Whole(p)
  BY DEF Fresh
<1>1. talk \in Seq(Message) /\ DOMAIN talk = 1 .. Len(talk) /\ Len(talk) \in Nat
  BY DEF TalkHolds
<1>2. \A i \in DOMAIN talk : talk[i].id = i /\ Spoken(i)
  BY DEF TalkHolds, Spoken
<1>3. Sound(talk)
  <2>1. \A i \in DOMAIN talk : Genuine(talk[i])
    BY <1>2 DEF Genuine, Spoken
  <2>2. Distinct(talk)
    BY <1>2 DEF Distinct
  <2>3. ASSUME NEW i \in DOMAIN talk PROVE Before(talk, i) /\ After(talk, i)
    <3>1. Before(talk, i)
      <4> SUFFICES ASSUME Answers(talk[i].id) PROVE i > 1 /\ talk[i - 1].id = talk[i].id - 1
        BY DEF Before
      <4>1. talk[i].role = "tool"
        BY <1>2 DEF Answers
      <4>2. i > 1
        BY <1>2, <4>1 DEF Spoken
      <4>3. i - 1 \in DOMAIN talk
        BY <1>1, <4>2
      <4> QED
        BY <1>2, <4>2, <4>3
    <3>2. After(talk, i)
      <4> SUFFICES ASSUME Answers(talk[i].id + 1) PROVE i < Len(talk) /\ talk[i + 1].id = talk[i].id + 1
        BY DEF After
      <4>1. i + 1 \in DOMAIN talk
        BY <1>2 DEF Answers
      <4> QED
        BY <1>1, <1>2, <4>1
    <3> QED
      BY <3>1, <3>2
  <2> QED
    BY <1>1, <2>1, <2>2, <2>3 DEF Sound, Paired
<1>4. Sound(<<SystemPrompt>>) /\ Ids(<<SystemPrompt>>) = {}
  BY RelocatedType, SystemSound
<1>5. Sound(d) /\ Ids(d) = {}
  <2>1. Sound(<<Document>>) /\ Ids(<<Document>>) = {}
    BY RelocatedType, SystemSound
  <2> QED
    BY <2>1, SoundEmpty
<1> DEFINE t == <<SystemPrompt>> \o talk
           p == BeforeLastUser(t, d)
<1>6. Sound(t) /\ ToSet(t) = ToSet(<<SystemPrompt>>) \cup ToSet(talk)
  BY <1>3, <1>4, SoundJoined
<1> HIDE DEF t
<1>7. Sound(p) /\ ToSet(p) = ToSet(t) \cup ToSet(d)
  BY <1>5, <1>6, SoundInserted
<1>8. DOMAIN talk \subseteq Held(p)
  <2> SUFFICES ASSUME NEW i \in DOMAIN talk PROVE i \in Held(p)
    OBVIOUS
  <2>1. talk[i] \in ToSet(p)
    BY <1>6, <1>7 DEF ToSet
  <2>2. i \in Own(talk[i])
    BY <1>1, <1>2 DEF Own
  <2>3. Held(p) = UNION {Own(m) : m \in ToSet(p)}
    BY HeldBy
  <2> QED
    BY <2>1, <2>2, <2>3
<1> HIDE DEF p
<1>9. Whole(p)
  BY <1>8, SaidRises DEF Whole
<1> QED
  BY <1>7, <1>9 DEF p, t

\* ClientSends: the summaries of the shorter conversation hold of the longer.
LEMMA ClientHolds == ASSUME BudgetInv, ClientSends PROVE BudgetInv'
<1>1. PICK more \in Exchanges : talk' = talk \o Renumbered(more, Len(talk))
  BY DEF ClientSends
<1>2. TalkHolds' /\ \A i \in DOMAIN talk : i \in DOMAIN talk' /\ talk'[i] = talk[i]
  BY <1>1, TalkGrows DEF BudgetInv
<1>3. SummariesHold'
  <2>1. summaries' = summaries /\ SummariesHold
    BY DEF ClientSends, BudgetInv
  <2>2. ASSUME NEW o, Covering(o) PROVE Covering(o)'
    BY <1>2, <2>2 DEF Covering, Said
  <2> QED
    BY <2>1, <2>2 DEF SummariesHold
<1>4. Fresh'
  BY <1>2, FreshHolds, PTL
<1>5. \E d \in {<<Document>>, << >>} : prompt' = BeforeLastUser(<<SystemPrompt>> \o talk', d)
  BY DEF ClientSends
<1>6. Sound(prompt)' /\ Whole(prompt)'
  BY <1>4, <1>5 DEF Fresh
<1> QED
  BY <1>2, <1>3, <1>6 DEF BudgetInv

\* ClientGetsAnswer: a cache that loses summaries holds of the others.
LEMMA AnswerHolds == ASSUME BudgetInv, ClientGetsAnswer PROVE BudgetInv'
<1>1. talk' = talk /\ prompt' = << >> /\ summaries' \subseteq summaries /\ turnAt' = "client"
  BY DEF ClientGetsAnswer
<1>2. TalkHolds'
  BY <1>1 DEF BudgetInv, TalkHolds, Spoken
<1>3. SummariesHold'
  BY <1>1, SummariesStay DEF BudgetInv
<1>4. Sound(prompt)'
  <2>1. << >> \in Seq(Message)
    OBVIOUS
  <2> QED
    BY <1>1, <2>1 DEF Sound, Distinct, Paired
<1> QED
  BY <1>1, <1>2, <1>3, <1>4 DEF BudgetInv

\* The first message is said, and there is nothing else yet.
LEMMA BudgetStarts == BudgetInit => BudgetInv
<1> SUFFICES ASSUME BudgetInit PROVE BudgetInv
  OBVIOUS
<1> DEFINE x == CHOOSE x \in Sayings : TRUE
           m == [Say("user", x, FALSE, 2) EXCEPT !.id = 1]
<1>1. x \in Sayings
  BY BudgetTypes
<1>2. talk = Renumbered(<<Say("user", x, FALSE, 2)>>, 0)
  BY DEF BudgetInit
<1> HIDE DEF x
<1>3. /\ m \in Message /\ m.id = 1 /\ m.covers = {} /\ m.role = "user" /\ m.text = x
      /\ m.calls = FALSE
  BY <1>1 DEF Say, Message, Roles, Texts
<1>4. talk = <<m>>
  <2> DEFINE w == Say("user", x, FALSE, 2)
             s == <<w>>
  <2>1. DOMAIN s = {1} /\ s[1] = w
    OBVIOUS
  <2>2. talk = [i \in DOMAIN s |-> [s[i] EXCEPT !.id = 0 + i]]
    BY <1>2 DEF Renumbered
  <2> HIDE DEF s, w
  <2>3. talk = [i \in {1} |-> [w EXCEPT !.id = 1]]
    BY <2>1, <2>2
  <2>4. [w EXCEPT !.id = 1] = m
    BY DEF w
  <2> HIDE DEF m
  <2> QED
    BY <2>3, <2>4
<1> HIDE DEF m
<1>5. TalkHolds
  <2>1. talk \in Seq(Message) /\ DOMAIN talk = {1} /\ talk[1] = m
    BY <1>3, <1>4
  <2> QED
    BY <1>1, <1>3, <2>1 DEF TalkHolds, Spoken
<1> QED
  BY <1>5, SoundEmpty DEF BudgetInit, BudgetInv, SummariesHold

\* Every stage keeps the invariant.
LEMMA BudgetSteps == BudgetInv /\ [BudgetNext]_budgetVars => BudgetInv'
<1> SUFFICES ASSUME BudgetInv, [BudgetNext]_budgetVars PROVE BudgetInv'
  OBVIOUS
<1>1. CASE ClientSends
  BY <1>1, ClientHolds
<1>2. CASE SlidingWindow
  BY <1>2, WindowHolds
<1>3. CASE Deduplicate
  BY <1>3, DeduplicateHolds
<1>4. CASE Compact
  BY <1>4, CompactHolds
<1>5. CASE AlignPrefix
  BY <1>5, AlignHolds
<1>6. CASE ClientGetsAnswer
  BY <1>6, AnswerHolds
<1>7. CASE UNCHANGED budgetVars
  <2>1. UNCHANGED <<talk, prompt, turnAt, summaries, lossy>>
    BY <1>7 DEF budgetVars
  <2>2. SummariesHold'
    BY <2>1, SummariesStay DEF BudgetInv
  <2>3. TalkHolds'
    BY <2>1 DEF BudgetInv, TalkHolds, Spoken
  <2>4. Sound(prompt)'
    BY <2>1 DEF BudgetInv, Sound, Genuine, Distinct, Paired, Before, After, Answers
  <2>5. (turnAt # "client" /\ ~lossy => Whole(prompt))'
    BY <2>1 DEF BudgetInv, Whole, Said, Held
  <2> QED
    BY <2>2, <2>3, <2>4, <2>5 DEF BudgetInv
<1> QED
  BY <1>1, <1>2, <1>3, <1>4, <1>5, <1>6, <1>7 DEF BudgetNext

\* Whatever the stages do, over any number of requests of one conversation: its messages
\* are typed, results stand after their turn, and a cached summary says all its key says
\* (safe_window_split, _rung_prune, _rung_drop, _summary_for_span).
THEOREM BudgetTyped == BudgetSpec => []BudgetInv
  BY BudgetStarts, BudgetSteps, PTL DEF BudgetSpec

\* In a sound prompt of the conversation a provider finds every pair.
LEMMA PairsKept == BudgetInv => ToolPairsIntact
<1> SUFFICES ASSUME BudgetInv, NEW i \in DOMAIN prompt
             PROVE  /\ prompt[i].role = "tool" =>
                          /\ i > 1 /\ (prompt[i - 1].calls \/ prompt[i - 1].role = "tool")
                          /\ prompt[i - 1].id = prompt[i].id - 1
                    /\ (prompt[i].id > 0 /\ prompt[i].id < Len(talk) /\ talk[prompt[i].id + 1].role = "tool")
                          => i < Len(prompt) /\ prompt[i + 1].id = prompt[i].id + 1
  BY DEF ToolPairsIntact
<1>1. TalkHolds /\ Sound(prompt)
  BY DEF BudgetInv
<1>2. Genuine(prompt[i]) /\ Before(prompt, i) /\ After(prompt, i)
  BY <1>1 DEF Sound, Paired
<1>3. prompt \in Seq(Message) /\ DOMAIN prompt = 1 .. Len(prompt) /\ Len(prompt) \in Nat
  BY <1>1 DEF Sound
<1>4. talk \in Seq(Message) /\ DOMAIN talk = 1 .. Len(talk) /\ Len(talk) \in Nat
  BY <1>1 DEF TalkHolds
<1>5. prompt[i].id \in Nat
  BY <1>1, <1>2, GenuineRole
<1>6. ASSUME prompt[i].role = "tool"
      PROVE  /\ i > 1 /\ (prompt[i - 1].calls \/ prompt[i - 1].role = "tool")
             /\ prompt[i - 1].id = prompt[i].id - 1
  <2> DEFINE n == prompt[i].id
             m == prompt[i - 1]
  <2>1. Answers(n) /\ n > 0 /\ n \in DOMAIN talk
    BY <1>1, <1>2, <1>5, <1>6, GenuineRole DEF Answers
  <2>2. i > 1 /\ m.id = n - 1 /\ i - 1 \in DOMAIN prompt
    BY <1>2, <1>3, <2>1 DEF Before
  <2>3. n > 1 /\ (talk[n - 1].calls \/ talk[n - 1].role = "tool")
    BY <1>1, <2>1 DEF TalkHolds, Spoken, Answers
  <2>4. Genuine(m) /\ m.id # 0
    BY <1>1, <1>5, <2>2, <2>3 DEF Sound
  <2>5. m.role = talk[m.id].role /\ m.calls = talk[m.id].calls
    BY <2>4 DEF Genuine
  <2> QED
    BY <2>2, <2>3, <2>5
<1>7. ASSUME prompt[i].id > 0, prompt[i].id < Len(talk), talk[prompt[i].id + 1].role = "tool"
      PROVE  i < Len(prompt) /\ prompt[i + 1].id = prompt[i].id + 1
  <2>1. Answers(prompt[i].id + 1)
    BY <1>4, <1>5, <1>7 DEF Answers
  <2> QED
    BY <1>2, <1>7, <2>1 DEF After
<1> QED
  BY <1>6, <1>7

\* A whole prompt has lost nothing.
LEMMA LossKept == BudgetInv => NothingSilentlyLost
<1> SUFFICES ASSUME BudgetInv, turnAt = "sent", ~lossy, NEW i \in DOMAIN talk
             PROVE  \E j \in Ids(prompt) \cup UNION {prompt[k].covers : k \in DOMAIN prompt} :
                        Content(talk[i]) = Content(talk[j])
  BY DEF NothingSilentlyLost
<1>1. Content(talk[i]) \in Said(Held(prompt))
  BY DEF BudgetInv, Whole, Said
<1>2. PICK j \in Held(prompt) : Content(talk[i]) = Content(talk[j])
  BY <1>1 DEF Said
<1>3. PICK k \in DOMAIN prompt : j \in Own(prompt[k])
  BY <1>2 DEF Held
<1>4. j \in Ids(prompt) \/ j \in prompt[k].covers
  BY <1>3 DEF Own, Ids
<1> QED
  BY <1>2, <1>4

\* A conversation of any length, cut by any of the stages and rungs in any configuration,
\* is sent with every tool result after the turn that asked for it, and nothing of it is
\* lost unless the summariser failed or was cut short or the drop rung is on.
THEOREM HistoryKept == BudgetSpec => []HistoryHolds
<1>1. BudgetInv => HistoryHolds
  BY PairsKept, LossKept DEF HistoryHolds
<1> QED
  BY <1>1, BudgetTyped, PTL

-----------------------------------------------------------------------------
-----------------------------------------------------------------------------
(* The wire protocols, outwards: whatever the chunks, what the translator    *)
(* and the client have is the pieces of the answer that have arrived.        *)

AnswerType == [text : Nat, calls : Seq([name : ToolNames, args : Nat])]
Protocols == {"openai", "anthropic", "gemini"}

\* The stream that was asked for, and how far the provider has come.
SentTyped ==
    /\ wire \in [proto : Protocols, stream : BOOLEAN, whole : BOOLEAN, mode : {"none", "flag", "block"},
                 withhold : BOOLEAN, answer : AnswerType]
    /\ wire.withhold => wire.proto = "openai" /\ wire.stream
    /\ ~wire.stream => wire.whole
    /\ wire.whole => wire.mode = "none"
    /\ sent \in [text : Nat, calls : [DOMAIN wire.answer.calls -> Nat], finish : BOOLEAN, usage : BOOLEAN]
    /\ sent.finish /\ ~wire.whole => AllSent
    /\ sent.usage => sent.finish
    /\ flow \in {"open", "ended", "failed"}

Pieces(n) == [i \in 1 .. n |-> i]
Slot(i, n) == [id |-> i, name |-> wire.answer.calls[i].name, args |-> Pieces(n)]

\* How much of the text and of a call has arrived, and the calls that may pass.
TextSeen == IF ~wire.whole THEN sent.text ELSE IF sent.finish THEN wire.answer.text ELSE 0
Seen(i) == IF ~wire.whole THEN sent.calls[i] ELSE IF sent.finish THEN wire.answer.calls[i].args + 1 ELSE 0
Passes(i) == wire.mode = "block" => wire.answer.calls[i].name \notin Denied
Begun == {i \in DOMAIN wire.answer.calls : Seen(i) > 0}
Slots == [i \in {j \in Begun : Passes(j)} |-> Slot(i, Seen(i) - 1)]

\* The gate has judged every call that has begun, by its name.
GateJudges ==
    ~wire.whole /\ wire.mode # "none" =>
        gate = [i \in Begun |-> wire.answer.calls[i].name \notin Denied]

\* What the translator keeps, and an OpenAI client has the same.
Assembled ==
    /\ tr = [text |-> tr.text, calls |-> Slots, stop |-> tr.stop,
             usage |-> sent.usage /\ ~wire.withhold, started |-> tr.started]
    /\ received = [text |-> received.text, calls |-> IF wire.proto = "openai" THEN Slots ELSE << >>,
                 stop |-> received.stop, usage |-> wire.proto = "openai" /\ tr.usage,
                 starts |-> IF wire.proto = "anthropic" /\ tr.started THEN 1 ELSE 0, ended |-> FALSE]
    /\ tr.started \in BOOLEAN
    /\ {tr.text, received.text} \subseteq Seq(Nat) /\ received.text \o tr.text = Pieces(TextSeen)
    /\ ~(wire.proto = "gemini" /\ sent.finish) => tr.text = << >>
    /\ sent.finish /\ (\A i \in DOMAIN wire.answer.calls : Passes(i)) =>
          tr.stop = Reason /\ (wire.proto = "openai" => received.stop = Reason)

StreamInv ==
    /\ SentTyped /\ GateJudges
    /\ IF flow = "ended" THEN TerminalMeansWhole ELSE Assembled

-----------------------------------------------------------------------------
(* Inwards: what the parser has open was called in a message it has made.    *)

CallIds == Nat \cup ToolNames
MessageType ==
    [role : {"user", "assistant", "tool"}, calls : Seq(CallIds), answers : Seq(CallIds), blocks : SUBSET Nat]

InTyped ==
    /\ inbound \in [proto : {"anthropic", "gemini"}, open : [ToolNames -> Seq(CallIds)],
                    next : Nat \ {0}, messages : Nat, blocks : Nat]
    /\ parsed \in Seq(MessageType)

OpenWereCalled ==
    \A k \in ToolNames : \A n \in DOMAIN inbound.open[k] :
        \E j \in DOMAIN parsed : inbound.open[k][n] \in ToSet(parsed[j].calls)

\* Gemini's calls are numbered, and each is open at most once and not after its result.
OpenOnce ==
    inbound.proto = "gemini" =>
        /\ \A k \in ToolNames : \A n \in DOMAIN inbound.open[k] :
              inbound.open[k][n] \in Nat /\ inbound.open[k][n] < inbound.next
        /\ \A k, l \in ToolNames : \A m \in DOMAIN inbound.open[k], n \in DOMAIN inbound.open[l] :
              inbound.open[k][m] = inbound.open[l][n] => k = l /\ m = n
        /\ \A i \in DOMAIN parsed : parsed[i].role = "tool" =>
              /\ parsed[i].answers[1] \in Nat /\ parsed[i].answers[1] < inbound.next
              /\ \A k \in ToolNames : \A n \in DOMAIN inbound.open[k] :
                    inbound.open[k][n] # parsed[i].answers[1]

ResultsAlone == \A i \in DOMAIN parsed : parsed[i].role = "tool" => Len(parsed[i].answers) = 1

InInv == InTyped /\ OpenWereCalled /\ OpenOnce /\ ResultsAlone /\ ResultsFollowCalls

\* What is left of a sequence without its first c.
LEMMA Dropped ==
    ASSUME NEW M, NEW s \in Seq(M), NEW c \in Nat
    PROVE  /\ SubSeq(s, c + 1, Len(s)) \in Seq(M)
           /\ \A n \in DOMAIN SubSeq(s, c + 1, Len(s)) :
                 n \in Nat \ {0} /\ n + c \in DOMAIN s /\ SubSeq(s, c + 1, Len(s))[n] = s[n + c]
<1> DEFINE l == Len(s)
           m == c + 1
           t == SubSeq(s, m, l)
<1>1. l \in Nat /\ m \in Int /\ l \in Int /\ DOMAIN s = 1 .. l
  OBVIOUS
<1>2. CASE c <= l
  <2>1. m <= l + 1 /\ l - m + 1 = l - c /\ \A i \in m .. l : i \in 1 .. l
    BY <1>1, <1>2
  <2>2. \A n \in 1 .. (l - c) : n \in Nat \ {0} /\ n + c \in 1 .. l /\ m + n - 1 = n + c
    BY <1>1, <1>2
  <2> HIDE DEF m, l
  <2>3. t \in Seq(M) /\ Len(t) = l - c /\ \A i \in 1 .. (l - c) : t[i] = s[m + i - 1]
    BY <1>1, <2>1, SubSeqProperties
  <2>4. DOMAIN t = 1 .. (l - c)
    BY <2>3
  <2> QED
    BY <1>1, <2>2, <2>3, <2>4 DEF m, l
<1>3. CASE ~(c <= l)
  <2>1. m > l
    BY <1>1, <1>3
  <2> HIDE DEF m, l
  <2>2. t = << >>
    BY <1>1, <2>1, SubSeqProperties
  <2> QED
    BY <2>2 DEF m, l
<1> QED
  BY <1>2, <1>3

\* A subsequence of elements of which those at its places are of a kind.
LEMMA TakenIn ==
    ASSUME NEW M, NEW N, NEW s \in Seq(M), NEW K \in SUBSET DOMAIN s, \A k \in K : s[k] \in N
    PROVE  Taken(s, K) \in Seq(N)
<1> DEFINE t == Taken(s, K)
<1>1. /\ t \in Seq(M) /\ \A i \in DOMAIN t : \E k \in K : RankIn(K, k) = i /\ t[i] = s[k]
  BY TakenHolds
<1> HIDE DEF t
<1>2. \A i \in DOMAIN t : t[i] \in N
  BY <1>1
<1>3. t \in Seq(N)
  BY <1>1, <1>2
<1> QED
  BY <1>3 DEF t

\* Two sequences in a row, and three.
Row(w, s, t) ==
    /\ Len(w) = Len(s) + Len(t)
    /\ \A i \in DOMAIN s : i \in DOMAIN w /\ w[i] = s[i]
    /\ \A i \in DOMAIN t : Len(s) + i \in DOMAIN w /\ w[Len(s) + i] = t[i]
LongRow(w, s, t, u) ==
    /\ \A i \in DOMAIN s : i \in DOMAIN w /\ w[i] = s[i]
    /\ \A i \in DOMAIN t : Len(s) + i \in DOMAIN w /\ w[Len(s) + i] = t[i]
    /\ \A i \in DOMAIN u : Len(s) + Len(t) + i \in DOMAIN w /\ w[Len(s) + Len(t) + i] = u[i]
    /\ \A i \in DOMAIN w : i \in DOMAIN s \/ (\E n \in DOMAIN t : i = Len(s) + n)
                           \/ (\E n \in DOMAIN u : i = Len(s) + Len(t) + n)

\* Two sequences joined are two in a row.
LEMMA RowJoined ==
    ASSUME NEW M, NEW s \in Seq(M), NEW t \in Seq(M)
    PROVE  s \o t \in Seq(M) /\ Row(s \o t, s, t)
BY Joined DEF Row

\* Two in a row with a third behind them.
LEMMA ThreeJoined ==
    ASSUME NEW M, NEW s \in Seq(M), NEW t \in Seq(M), NEW u \in Seq(M), NEW v \in Seq(M), NEW w \in Seq(M),
           Row(v, s, t), Row(w, v, u)
    PROVE  LongRow(w, s, t, u)
<1>1. Len(s) \in Nat /\ Len(t) \in Nat /\ Len(u) \in Nat
  OBVIOUS
<1>2. /\ DOMAIN s = 1 .. Len(s) /\ DOMAIN t = 1 .. Len(t) /\ DOMAIN u = 1 .. Len(u)
      /\ DOMAIN w = 1 .. Len(w) /\ Len(w) = Len(s) + Len(t) + Len(u)
  BY DEF Row
<1>3. ASSUME NEW i \in DOMAIN w, i \notin DOMAIN s, \A n \in DOMAIN t : i # Len(s) + n
      PROVE  \E n \in DOMAIN u : i = Len(s) + Len(t) + n
  <2>1. i \in Int /\ i >= 1 /\ i <= Len(s) + Len(t) + Len(u) /\ i > Len(s)
    BY <1>1, <1>2, <1>3
  <2>2. ~(i <= Len(s) + Len(t))
    <3> SUFFICES ASSUME i <= Len(s) + Len(t) PROVE FALSE
      OBVIOUS
    <3>1. i - Len(s) \in DOMAIN t /\ i = Len(s) + (i - Len(s))
      BY <1>1, <1>2, <2>1
    <3> QED
      BY <1>3, <3>1
  <2>3. i - Len(s) - Len(t) \in DOMAIN u /\ i = Len(s) + Len(t) + (i - Len(s) - Len(t))
    BY <1>1, <1>2, <2>1, <2>2
  <2> QED
    BY <2>3
<1>4. \A i \in DOMAIN s : i \in DOMAIN w /\ w[i] = s[i]
  BY DEF Row
<1>5. \A i \in DOMAIN t : Len(s) + i \in DOMAIN w /\ w[Len(s) + i] = t[i]
  BY DEF Row
<1>6. \A i \in DOMAIN u : Len(s) + Len(t) + i \in DOMAIN w /\ w[Len(s) + Len(t) + i] = u[i]
  BY DEF Row
<1> QED
  BY <1>3, <1>4, <1>5, <1>6 DEF LongRow

\* A result answers one of the calls that its message finds open, by its turn.
LEMMA TurnsWithin ==
    ASSUME NEW n \in Nat, NEW R \in SUBSET (1 .. n), NEW l \in Nat, NEW A,
           NEW i \in A \cap R, \A j \in R : RankIn(R, j) <= l => j \in A,
           RankIn(R, i) <= l
    PROVE  /\ Cardinality(A \cap R) \in Nat /\ RankIn(R, i) \in 1 .. Cardinality(A \cap R)
<1> DEFINE U == R \cap (1 .. i)
           B == A \cap R
<1>1. IsFiniteSet(R) /\ Cardinality(R) \in Nat /\ \A j \in R : RankIn(R, j) \in 1 .. Cardinality(R)
  BY RankType
<1>2. B \in SUBSET R
  OBVIOUS
<1>3. U \in SUBSET B
  <2> SUFFICES ASSUME NEW j \in R, j \in 1 .. i PROVE j \in A
    OBVIOUS
  <2>1. i \in R /\ i \in Int /\ j \in Int /\ RankIn(R, i) \in Int /\ RankIn(R, j) \in Int
    <3>1. i \in R /\ R \subseteq Int
      OBVIOUS
    <3>2. RankIn(R, i) \in 1 .. Cardinality(R) /\ RankIn(R, j) \in 1 .. Cardinality(R)
      BY <1>1, <3>1
    <3> HIDE DEF U, B
    <3> QED
      BY <3>1, <3>2
  <2>2. CASE j = i
    BY <2>2
  <2>3. CASE j < i
    <3>1. RankIn(R, j) < RankIn(R, i)
      BY <2>1, <2>3, RankRises
    <3>2. RankIn(R, j) <= l
      BY <2>1, <3>1
    <3> QED
      BY <3>2
  <2> QED
    BY <2>1, <2>2, <2>3
<1>4. RankIn(R, i) = Cardinality(U)
  BY DEF RankIn
<1> HIDE DEF U, B
<1>5. IsFiniteSet(B) /\ Cardinality(B) \in Nat
  BY <1>1, <1>2, FS_Subset, FS_CardinalityType
<1>6. Cardinality(U) <= Cardinality(B)
  BY <1>3, <1>5, FS_Subset
<1>7. RankIn(R, i) \in 1 .. Cardinality(B)
  <2>1. i \in R
    OBVIOUS
  <2>2. RankIn(R, i) \in 1 .. Cardinality(R)
    BY <1>1, <2>1
  <2> QED
    BY <1>4, <1>5, <1>6, <2>2
<1> QED
  BY <1>5, <1>7 DEF B

\* The number a call gets, by its rank among those of its message.
LEMMA NumberOf ==
    ASSUME NEW n \in Nat \ {0}, NEW c \in Nat, NEW r \in 1 .. c
    PROVE  /\ n + r - 1 \in Nat /\ n <= n + r - 1 /\ n + r - 1 < n + c
           /\ \A q \in 1 .. c : n + r - 1 = n + q - 1 => r = q
  OBVIOUS

\* A block's key is a tool's or missing.
LEMMA BlocksTyped ==
    ASSUME NEW blocks \in Seq(Blocks)
    PROVE  /\ Len(blocks) \in Nat /\ DOMAIN blocks = 1 .. Len(blocks)
           /\ \A i \in DOMAIN blocks : blocks[i].key \in ToolNames \cup {"none"}
<1>1. ASSUME NEW b \in Blocks PROVE b.key \in ToolNames \cup {"none"}
  <2>1. CASE b \in [kind : {"use", "result"}, key : ToolNames \cup {"none"}]
    BY <2>1
  <2>2. CASE b = [kind |-> "text", key |-> "none"]
    BY <2>2
  <2> QED
    BY <2>1, <2>2 DEF Blocks
<1>2. Len(blocks) \in Nat /\ DOMAIN blocks = 1 .. Len(blocks)
  OBVIOUS
<1>3. \A i \in DOMAIN blocks : blocks[i] \in Blocks
  OBVIOUS
<1> QED
  BY <1>1, <1>2, <1>3

\* One message of the history: its results go on after the calls they answer.
LEMMA FanOutKeeps ==
    ASSUME WireTypes, InInv, NEW role \in {"user", "assistant"}, NEW blocks \in Seq(Blocks),
           FanOut(role, blocks)
    PROVE  InInv'
<1> DEFINE gemini == inbound.proto = "gemini"
           open == inbound.open
           made == {i \in DOMAIN blocks : blocks[i].kind = "use" /\ blocks[i].key # "none" /\ role = "assistant"}
           id == [i \in DOMAIN blocks |->
                     IF gemini THEN inbound.next + RankIn(made, i) - 1 ELSE blocks[i].key]
           of(k) == {i \in made : blocks[i].key = k}
           fresh == [k \in ToolNames |-> Taken(id, of(k))]
           results(k) == {i \in DOMAIN blocks : blocks[i].kind = "result" /\ blocks[i].key = k}
           turn(i) == IF gemini THEN RankIn(results(blocks[i].key), i) ELSE 1
           answered == {i \in UNION {results(k) : k \in ToolNames} : turn(i) <= Len(open[blocks[i].key])}
           rest == DOMAIN blocks \ (made \cup answered)
           At(K) == {inbound.blocks + i : i \in K}
           tool == [n \in 1 .. Cardinality(answered) |->
                       LET i == PlaceIn(answered, n)
                       IN  OpenAI("tool", << >>, <<open[blocks[i].key][turn(i)]>>, At({i}))]
           taken(k) == IF gemini THEN Cardinality(answered \cap results(k)) ELSE 0
           Left(k) == IF gemini THEN SubSeq(open[k], Cardinality(answered \cap results(k)) + 1, Len(open[k]))
                      ELSE open[k]
           last == IF made # {} THEN <<OpenAI("assistant", Taken(id, made), << >>, At(made \cup rest))>>
                   ELSE IF rest # {} \/ answered = {} THEN <<OpenAI(role, << >>, << >>, At(rest))>>
                   ELSE << >>
           L == Len(blocks)
\* The message and its parts.
<1>1. /\ parsed' = parsed \o tool \o last
      /\ inbound' = [inbound EXCEPT !.next = @ + Cardinality(made), !.messages = @ + 1, !.blocks = @ + L,
                                    !.open = [k \in ToolNames |-> Left(k) \o fresh[k]]]
  BY DEF FanOut, Answerable
<1>2. /\ L \in Nat /\ DOMAIN blocks = 1 .. L
      /\ \A i \in DOMAIN blocks : blocks[i].key \in ToolNames \cup {"none"}
  BY BlocksTyped
<1>3. /\ inbound.next \in Nat \ {0} /\ inbound.blocks \in Nat /\ inbound.messages \in Nat
      /\ open \in [ToolNames -> Seq(CallIds)] /\ inbound.proto \in {"anthropic", "gemini"}
      /\ inbound \in [proto : {"anthropic", "gemini"}, open : [ToolNames -> Seq(CallIds)],
                      next : Nat \ {0}, messages : Nat, blocks : Nat]
      /\ parsed \in Seq(MessageType)
  BY DEF InInv, InTyped
<1>4. "none" \notin ToolNames
  BY DEF WireTypes
<1>5. /\ made \in SUBSET (1 .. L) /\ answered \in SUBSET (1 .. L) /\ made \cap answered = {}
      /\ rest \in SUBSET (1 .. L) /\ (1 .. L) = answered \cup (made \cup rest)
      /\ \A k \in ToolNames : results(k) \in SUBSET (1 .. L)
  BY <1>2
<1>6. \A i \in made : blocks[i].key \in ToolNames
  BY <1>2
<1>7. \A i \in answered : /\ blocks[i].key \in ToolNames /\ i \in results(blocks[i].key)
                         /\ turn(i) <= Len(open[blocks[i].key])
  OBVIOUS
<1> DEFINE x(i) == open[blocks[i].key][turn(i)]
\* The calls that are made.
<1>8. /\ id \in Seq(CallIds \cup {"none"}) /\ DOMAIN id = 1 .. L
      /\ Cardinality(made) \in Nat
      /\ \A i \in made : id[i] \in CallIds
      /\ gemini => \A i \in made : id[i] \in Nat /\ inbound.next <= id[i] /\ id[i] < inbound.next + Cardinality(made)
      /\ gemini => \A i, j \in made : id[i] = id[j] => i = j
  <2>1. Cardinality(made) \in Nat /\ (\A i \in Nat : RankIn(made, i) \in 0 .. Cardinality(made))
        /\ (\A i \in made : RankIn(made, i) \in 1 .. Cardinality(made) /\ PlaceIn(made, RankIn(made, i)) = i)
    BY <1>2, <1>5, RankType, PlaceHolds
  <2>2. \A i \in 1 .. L : id[i] = IF gemini THEN inbound.next + RankIn(made, i) - 1 ELSE blocks[i].key
    BY <1>2
  <2>3. DOMAIN id = 1 .. L
    BY <1>2
  <2>4. id = [i \in 1 .. L |-> id[i]]
    BY <1>2
  <2> HIDE DEF id, made, L
  <2>5. ASSUME NEW i \in 1 .. L PROVE id[i] \in CallIds \cup {"none"}
    <3>1. CASE gemini
      <4>1. id[i] = inbound.next + RankIn(made, i) - 1
        BY <2>2, <3>1
      <4>2. i \in Nat
        BY <1>2
      <4>3. RankIn(made, i) \in 0 .. Cardinality(made)
        BY <2>1, <4>2
      <4>4. RankIn(made, i) \in Nat
        BY <2>1, <4>3
      <4> QED
        BY <1>3, <4>1, <4>4 DEF CallIds
    <3>2. CASE ~gemini
      BY <1>2, <2>2, <3>2 DEF CallIds
    <3> QED
      BY <3>1, <3>2
  <2>6. id \in Seq(CallIds \cup {"none"})
    <3>1. id \in [1 .. L -> CallIds \cup {"none"}]
      BY <2>4, <2>5
    <3> QED
      BY <1>2, <3>1
  <2>7. ASSUME gemini, NEW i \in made
        PROVE  id[i] \in Nat /\ inbound.next <= id[i] /\ id[i] < inbound.next + Cardinality(made)
    <3>1. id[i] = inbound.next + RankIn(made, i) - 1 /\ RankIn(made, i) \in 1 .. Cardinality(made)
      BY <1>5, <2>1, <2>2, <2>7
    <3> DEFINE y == inbound.next + RankIn(made, i) - 1
    <3>2. y \in Nat /\ inbound.next <= y /\ y < inbound.next + Cardinality(made)
      <4>1. inbound.next \in Nat \ {0}
        BY <1>3
      <4> QED
        BY <2>1, <3>1, <4>1, NumberOf
    <3>3. id[i] = y
      BY <3>1
    <3> HIDE DEF y
    <3> QED
      BY <3>2, <3>3
  <2>8. ASSUME gemini, NEW i \in made, NEW j \in made, id[i] = id[j] PROVE i = j
    <3>1. /\ id[i] = inbound.next + RankIn(made, i) - 1 /\ RankIn(made, i) \in 1 .. Cardinality(made)
          /\ id[j] = inbound.next + RankIn(made, j) - 1 /\ RankIn(made, j) \in 1 .. Cardinality(made)
      BY <1>5, <2>1, <2>2, <2>8
    <3>2. RankIn(made, i) = RankIn(made, j)
      BY <1>3, <2>1, <2>8, <3>1, NumberOf
    <3> QED
      BY <2>1, <3>2
  <2>9. ASSUME NEW i \in made PROVE id[i] \in CallIds
    <3>1. CASE gemini
      BY <2>7, <3>1 DEF CallIds
    <3>2. CASE ~gemini
      BY <1>5, <1>6, <2>2, <3>2 DEF CallIds
    <3> QED
      BY <3>1, <3>2
  <2> QED
    BY <2>1, <2>3, <2>6, <2>7, <2>8, <2>9
<1> HIDE DEF id
<1>9. ASSUME NEW k \in ToolNames
      PROVE  /\ fresh[k] \in Seq(CallIds)
             /\ \A m \in DOMAIN fresh[k] : \E p \in of(k) : fresh[k][m] = id[p] /\ RankIn(of(k), p) = m
  <2>1. of(k) \in SUBSET DOMAIN id /\ \A p \in of(k) : id[p] \in CallIds
    BY <1>5, <1>8
  <2>2. fresh[k] = Taken(id, of(k))
    OBVIOUS
  <2> HIDE DEF of, fresh
  <2>3. fresh[k] \in Seq(CallIds)
    BY <1>8, <2>1, <2>2, TakenIn
  <2>4. \A m \in DOMAIN fresh[k] : \E p \in of(k) : RankIn(of(k), p) = m /\ fresh[k][m] = id[p]
    BY <1>8, <2>1, <2>2, TakenHolds
  <2> QED
    BY <2>3, <2>4
<1> HIDE DEF fresh
<1> HIDE DEF made, answered, rest, L
\* What stays open of the calls that were.
<1>10. ASSUME NEW k \in ToolNames
       PROVE  /\ Left(k) \in Seq(CallIds) /\ taken(k) \in Nat
              /\ \A n \in DOMAIN Left(k) : n \in Nat \ {0} /\ n + taken(k) \in DOMAIN open[k]
                                           /\ Left(k)[n] = open[k][n + taken(k)]
  <2>1. open[k] \in Seq(CallIds)
    BY <1>3
  <2>2. CASE gemini
    <3> DEFINE c == Cardinality(answered \cap results(k))
    <3>1. c \in Nat
      <4>1. answered \cap results(k) \in SUBSET (1 .. L)
        BY <1>5
      <4> QED
        BY <1>2, <4>1, RankType
    <3>2. Left(k) = SubSeq(open[k], c + 1, Len(open[k])) /\ taken(k) = c
      BY <2>2
    <3> HIDE DEF c, Left, taken, open, gemini
    <3> QED
      BY <2>1, <3>1, <3>2, Dropped
  <2>3. CASE ~gemini
    <3>1. Left(k) = open[k] /\ taken(k) = 0
      BY <2>3
    <3> HIDE DEF Left, taken, open, gemini
    <3>2. \A n \in DOMAIN open[k] : n \in Nat \ {0} /\ n + 0 = n
      BY <2>1
    <3> QED
      BY <2>1, <3>1, <3>2
  <2> QED
    BY <2>2, <2>3
\* A result answers a call that is open, and takes it off.
<1>11. ASSUME NEW i \in answered
       PROVE  /\ turn(i) \in DOMAIN open[blocks[i].key] /\ blocks[i].key \in ToolNames
              /\ x(i) \in CallIds
              /\ gemini => turn(i) <= taken(blocks[i].key)
  <2> DEFINE k == blocks[i].key
  <2>1. k \in ToolNames /\ i \in results(k) /\ turn(i) <= Len(open[k]) /\ results(k) \in SUBSET (1 .. L)
    BY <1>5, <1>7
  <2>2. open[k] \in Seq(CallIds) /\ Len(open[k]) \in Nat /\ DOMAIN open[k] = 1 .. Len(open[k])
    BY <1>3, <2>1
  <2>3. CASE gemini
    <3>1. turn(i) = RankIn(results(k), i) /\ taken(k) = Cardinality(answered \cap results(k))
      BY <2>3
    <3>2. ASSUME NEW j \in results(k), RankIn(results(k), j) <= Len(open[k]) PROVE j \in answered
      <4>1. blocks[j].key = k
        OBVIOUS
      <4>2. turn(j) = RankIn(results(k), j)
        BY <2>3, <4>1
      <4> QED
        BY <2>1, <3>2, <4>1, <4>2 DEF answered
    <3> HIDE DEF k, results, taken, turn, open, gemini
    <3>3. i \in answered \cap results(k)
      BY <2>1
    <3>4. /\ Cardinality(answered \cap results(k)) \in Nat
          /\ RankIn(results(k), i) \in 1 .. Cardinality(answered \cap results(k))
      BY <1>2, <2>1, <2>2, <3>1, <3>2, <3>3, TurnsWithin
    <3>5. turn(i) \in 1 .. Len(open[k]) /\ turn(i) <= taken(k)
      BY <2>1, <2>2, <3>1, <3>4
    <3> QED
      BY <2>1, <2>2, <3>5 DEF k
  <2>4. CASE ~gemini
    <3>1. turn(i) = 1
      BY <2>4
    <3> HIDE DEF k, results, taken, turn, open, gemini
    <3>2. turn(i) \in DOMAIN open[k]
      BY <2>1, <2>2, <3>1
    <3> QED
      BY <2>1, <2>2, <2>4, <3>2 DEF k
  <2> QED
    BY <2>3, <2>4
\* The messages that carry the results.
<1>12. /\ Cardinality(answered) \in Nat
       /\ \A n \in 1 .. Cardinality(answered) : PlaceIn(answered, n) \in answered /\ RankIn(answered, PlaceIn(answered, n)) = n
       /\ \A i \in answered : RankIn(answered, i) \in 1 .. Cardinality(answered) /\ PlaceIn(answered, RankIn(answered, i)) = i
  BY <1>2, <1>5, RankType, PlaceHolds
<1>13. /\ tool \in Seq(MessageType) /\ Len(tool) = Cardinality(answered) /\ DOMAIN tool = 1 .. Cardinality(answered)
       /\ \A n \in DOMAIN tool :
             LET i == PlaceIn(answered, n)
             IN  /\ i \in answered
                 /\ tool[n] = [role |-> "tool", calls |-> << >>, answers |-> <<x(i)>>, blocks |-> {inbound.blocks + i}]
  <2> DEFINE C == Cardinality(answered)
             t(i) == [role |-> "tool", calls |-> << >>, answers |-> <<x(i)>>, blocks |-> {inbound.blocks + i}]
  <2>1. \A n \in 1 .. C : tool[n] = t(PlaceIn(answered, n))
    BY DEF OpenAI
  <2>2. tool = [n \in 1 .. C |-> tool[n]]
    OBVIOUS
  <2>3. ASSUME NEW i \in answered PROVE t(i) \in MessageType
    <3>1. x(i) \in CallIds
      BY <1>11
    <3>2. i \in Nat /\ inbound.blocks + i \in Nat
      BY <1>2, <1>3, <1>5
    <3> HIDE DEF x
    <3>3. <<x(i)>> \in Seq(CallIds) /\ << >> \in Seq(CallIds) /\ {inbound.blocks + i} \in SUBSET Nat
      BY <3>1, <3>2
    <3> QED
      BY <3>3 DEF MessageType
  <2> HIDE DEF tool, t, C
  <2>4. \A n \in 1 .. C : tool[n] \in MessageType /\ PlaceIn(answered, n) \in answered
    BY <1>12, <2>1, <2>3 DEF C
  <2>5. tool \in [1 .. C -> MessageType] /\ C \in Nat
    BY <1>12, <2>2, <2>4 DEF C
  <2>6. tool \in Seq(MessageType) /\ Len(tool) = C /\ DOMAIN tool = 1 .. C
    BY <2>5
  <2> QED
    BY <2>1, <2>4, <2>6 DEF C, t
<1> HIDE DEF tool
\* The message that carries the rest, unless there is none.
<1>14. /\ At(made \cup rest) \in SUBSET Nat
       /\ \/ last = << >> /\ made = {} /\ rest = {}
          \/ \E m \in MessageType : /\ last = <<m>> /\ m.role # "tool" /\ m.blocks = At(made \cup rest)
                                    /\ made # {} => m.calls = Taken(id, made)
  <2> DEFINE B == At(made \cup rest)
  <2>1. ASSUME NEW K \in SUBSET (1 .. L) PROVE At(K) \in SUBSET Nat
    <3>1. \A i \in K : i \in Nat
      BY <1>2
    <3>2. \A i \in K : inbound.blocks + i \in Nat
      BY <1>3, <3>1
    <3> QED
      BY <3>2
  <2>2. B \in SUBSET Nat /\ At(rest) \in SUBSET Nat
    BY <1>5, <2>1
  <2>3. CASE made # {}
    <3> DEFINE m == [role |-> "assistant", calls |-> Taken(id, made), answers |-> << >>, blocks |-> B]
    <3>1. last = <<m>>
      BY <2>3 DEF OpenAI
    <3>2. Taken(id, made) \in Seq(CallIds)
      BY <1>5, <1>8, TakenIn
    <3>3. m \in MessageType
      <4> HIDE DEF B
      <4>1. << >> \in Seq(CallIds)
        OBVIOUS
      <4> QED
        BY <2>2, <3>2, <4>1 DEF MessageType
    <3>4. m.role # "tool" /\ m.blocks = B /\ m.calls = Taken(id, made)
      OBVIOUS
    <3> HIDE DEF m, last
    <3> QED
      BY <2>2, <3>1, <3>3, <3>4
  <2>4. CASE made = {} /\ (rest # {} \/ answered = {})
    <3> DEFINE m == [role |-> role, calls |-> << >>, answers |-> << >>, blocks |-> B]
    <3>1. last = <<m>>
      <4>1. made \cup rest = rest
        BY <2>4
      <4> QED
        BY <2>4, <4>1 DEF OpenAI
    <3>2. m \in MessageType
      <4> HIDE DEF B
      <4>1. << >> \in Seq(CallIds)
        OBVIOUS
      <4> QED
        BY <2>2, <4>1 DEF MessageType
    <3>3. m.role # "tool" /\ m.blocks = B
      OBVIOUS
    <3> HIDE DEF m, last
    <3> QED
      BY <2>2, <2>4, <3>1, <3>2, <3>3
  <2>5. CASE made = {} /\ ~(rest # {} \/ answered = {})
    <3>1. last = << >> /\ made = {} /\ rest = {}
      BY <2>5
    <3> QED
      BY <2>2, <3>1
  <2> QED
    BY <2>3, <2>4, <2>5
<1>15. last \in Seq(MessageType)
  <2> HIDE DEF last, At
  <2>1. last = << >> \/ \E m \in MessageType : last = <<m>>
    BY <1>14
  <2>2. << >> \in Seq(MessageType) /\ \A m \in MessageType : <<m>> \in Seq(MessageType)
    OBVIOUS
  <2> QED
    BY <2>1, <2>2
<1> HIDE DEF last
\* Where each of the messages is.
<1> DEFINE np == Len(parsed)
           nt == Len(tool)
<1>16. parsed' \in Seq(MessageType) /\ LongRow(parsed', parsed, tool, last)
  <2> DEFINE v == parsed \o tool
             w == v \o last
  <2>1. parsed \in Seq(MessageType) /\ tool \in Seq(MessageType) /\ last \in Seq(MessageType)
    BY <1>3, <1>13, <1>15
  <2>2. v \in Seq(MessageType) /\ Row(v, parsed, tool)
    BY <2>1, RowJoined
  <2>3. parsed' = w
    BY <1>1
  <2> HIDE DEF v
  <2>4. w \in Seq(MessageType) /\ Row(w, v, last)
    BY <2>1, <2>2, RowJoined
  <2> HIDE DEF w
  <2> QED
    BY <2>1, <2>2, <2>3, <2>4, ThreeJoined
<1>17. np \in Nat /\ nt \in Nat /\ DOMAIN parsed = 1 .. np /\ DOMAIN tool = 1 .. nt
  BY <1>3, <1>13
<1> HIDE DEF np, nt
\* What the history holds now.
<1>18. /\ inbound'.proto = inbound.proto /\ inbound'.next = inbound.next + Cardinality(made)
       /\ inbound'.messages = inbound.messages + 1 /\ inbound'.blocks = inbound.blocks + L
       /\ inbound'.open = [k \in ToolNames |-> Left(k) \o fresh[k]]
       /\ inbound' \in [proto : {"anthropic", "gemini"}, open : [ToolNames -> Seq(CallIds)],
                        next : Nat \ {0}, messages : Nat, blocks : Nat]
  <2> DEFINE o == [k \in ToolNames |-> Left(k) \o fresh[k]]
             c == Cardinality(made)
  <2>1. o \in [ToolNames -> Seq(CallIds)]
    <3>1. ASSUME NEW k \in ToolNames PROVE Left(k) \o fresh[k] \in Seq(CallIds)
      <4>1. Left(k) \in Seq(CallIds) /\ fresh[k] \in Seq(CallIds)
        BY <1>9, <1>10
      <4> HIDE DEF Left
      <4> QED
        BY <4>1, Joined
    <3> HIDE DEF Left
    <3> QED
      BY <3>1
  <2>2. c \in Nat
    BY <1>8
  <2>3. inbound' = [inbound EXCEPT !.next = @ + c, !.messages = @ + 1, !.blocks = @ + L, !.open = o]
    BY <1>1
  <2>4. /\ inbound.next + c \in Nat \ {0} /\ inbound.messages + 1 \in Nat /\ inbound.blocks + L \in Nat
        /\ inbound.proto \in {"anthropic", "gemini"}
    <3> HIDE DEF c, o
    <3> QED
      BY <1>2, <1>3, <2>2
  <2> HIDE DEF o, c
  <2>5. inbound' = [proto |-> inbound.proto, open |-> o, next |-> inbound.next + c,
                    messages |-> inbound.messages + 1, blocks |-> inbound.blocks + L]
    BY <1>3, <2>3
  <2> QED
    BY <2>1, <2>4, <2>5 DEF o, c
<1>19. ASSUME NEW k \in ToolNames
       PROVE  /\ inbound'.open[k] \in Seq(CallIds)
              /\ \A n \in DOMAIN inbound'.open[k] :
                    \/ n \in DOMAIN Left(k) /\ inbound'.open[k][n] = Left(k)[n]
                    \/ \E m \in DOMAIN fresh[k] : n = Len(Left(k)) + m /\ inbound'.open[k][n] = fresh[k][m]
  <2>1. inbound'.open[k] = Left(k) \o fresh[k] /\ Left(k) \in Seq(CallIds) /\ fresh[k] \in Seq(CallIds)
    BY <1>9, <1>10, <1>18
  <2> DEFINE l == Left(k)
             f == fresh[k]
             w == l \o f
  <2> HIDE DEF l, f, Left
  <2>2. /\ w \in Seq(CallIds) /\ Len(w) = Len(l) + Len(f) /\ DOMAIN w = 1 .. Len(l) + Len(f)
        /\ \A i \in DOMAIN l : w[i] = l[i]
        /\ \A i \in DOMAIN f : w[Len(l) + i] = f[i]
    <3>1. l \in Seq(CallIds) /\ f \in Seq(CallIds)
      BY <2>1 DEF l, f
    <3> QED
      BY <3>1, Joined
  <2>3. Len(l) \in Nat /\ Len(f) \in Nat /\ DOMAIN l = 1 .. Len(l) /\ DOMAIN f = 1 .. Len(f)
    BY <2>1 DEF l, f
  <2> HIDE DEF w
  <2>4. ASSUME NEW n \in DOMAIN w, n \notin DOMAIN l
        PROVE  \E m \in DOMAIN f : n = Len(l) + m /\ w[n] = f[m]
    <3>1. n - Len(l) \in DOMAIN f /\ n = Len(l) + (n - Len(l))
      BY <2>2, <2>3, <2>4
    <3> QED
      BY <2>2, <3>1
  <2>5. inbound'.open[k] = w
    BY <2>1 DEF w, l, f
  <2>6. /\ w \in Seq(CallIds)
        /\ \A n \in DOMAIN w : \/ n \in DOMAIN l /\ w[n] = l[n]
                               \/ \E m \in DOMAIN f : n = Len(l) + m /\ w[n] = f[m]
    BY <2>2, <2>4
  <2> QED
    BY <2>5, <2>6 DEF l, f
\* Gemini: no two results answer the same call.
<1>20. ASSUME gemini, NEW i \in answered, NEW j \in answered, x(i) = x(j) PROVE i = j
  <2> DEFINE k == blocks[i].key
             l == blocks[j].key
  <2>1. /\ turn(i) \in DOMAIN open[k] /\ k \in ToolNames /\ turn(j) \in DOMAIN open[l] /\ l \in ToolNames
        /\ i \in results(k) /\ j \in results(l) /\ results(k) \in SUBSET (1 .. L)
    BY <1>5, <1>7, <1>11
  <2>2. x(i) = open[k][turn(i)] /\ x(j) = open[l][turn(j)]
    OBVIOUS
  <2>3. turn(i) = RankIn(results(k), i) /\ turn(j) = RankIn(results(l), j)
    BY <1>20
  <2>4. \A a, b \in ToolNames : \A m \in DOMAIN open[a], n \in DOMAIN open[b] :
           open[a][m] = open[b][n] => a = b /\ m = n
    BY <1>20 DEF InInv, OpenOnce
  <2> HIDE DEF k, l, turn, results, open, x
  <2>5. k = l /\ turn(i) = turn(j)
    <3> DEFINE a == turn(i)
               b == turn(j)
    <3>1. a \in DOMAIN open[k] /\ k \in ToolNames /\ b \in DOMAIN open[l] /\ l \in ToolNames
      BY <2>1
    <3>2. open[k][a] = open[l][b]
      BY <1>20, <2>2
    <3> HIDE DEF a, b
    <3>3. k = l /\ a = b
      BY <2>4, <3>1, <3>2
    <3> QED
      BY <3>3 DEF a, b
  <2>6. RankIn(results(k), i) = RankIn(results(k), j) /\ j \in results(k)
    BY <2>1, <2>3, <2>5
  <2>7. PlaceIn(results(k), RankIn(results(k), i)) = i /\ PlaceIn(results(k), RankIn(results(k), j)) = j
    BY <1>2, <2>1, <2>6, PlaceHolds
  <2> QED
    BY <2>6, <2>7
<1> DEFINE Answer(b) == [role |-> "tool", calls |-> << >>, answers |-> <<x(b)>>, blocks |-> {inbound.blocks + b}]
           at(b) == np + RankIn(answered, b)
           end == np + nt + 1
\* Each message is an old one, a result's or the last.
<1>21. /\ DOMAIN parsed' = 1 .. Len(parsed')
       /\ \A i \in DOMAIN parsed : i \in DOMAIN parsed' /\ parsed'[i] = parsed[i]
       /\ \A b \in answered : at(b) \in DOMAIN parsed' /\ at(b) > np /\ at(b) <= np + nt /\ parsed'[at(b)] = Answer(b)
       /\ last # << >> => end \in DOMAIN parsed' /\ parsed'[end] = last[1]
       /\ \A i \in DOMAIN parsed' : \/ i \in DOMAIN parsed
                                    \/ \E b \in answered : i = at(b)
                                    \/ last # << >> /\ i = end
  <2>1. /\ \A i \in DOMAIN parsed : i \in DOMAIN parsed' /\ parsed'[i] = parsed[i]
        /\ \A i \in DOMAIN tool : np + i \in DOMAIN parsed' /\ parsed'[np + i] = tool[i]
        /\ \A i \in DOMAIN last : np + nt + i \in DOMAIN parsed' /\ parsed'[np + nt + i] = last[i]
        /\ \A i \in DOMAIN parsed' : i \in DOMAIN parsed \/ (\E n \in DOMAIN tool : i = np + n)
                                      \/ (\E n \in DOMAIN last : i = np + nt + n)
    BY <1>16 DEF LongRow, np, nt
  <2>2. DOMAIN parsed' = 1 .. Len(parsed')
    BY <1>16
  <2>3. \/ last = << >>
        \/ last # << >> /\ DOMAIN last = {1}
    <3>1. last = << >> \/ \E m \in MessageType : last = <<m>>
      <4> HIDE DEF At
      <4> QED
        BY <1>14
    <3>2. \A m \in MessageType : <<m>> # << >> /\ DOMAIN <<m>> = {1}
      OBVIOUS
    <3> QED
      BY <3>1, <3>2
  <2>4. ASSUME NEW b \in answered
        PROVE  at(b) \in DOMAIN parsed' /\ at(b) > np /\ at(b) <= np + nt /\ parsed'[at(b)] = Answer(b)
    <3> DEFINE r == RankIn(answered, b)
    <3>1. r \in 1 .. Cardinality(answered) /\ PlaceIn(answered, r) = b /\ nt = Cardinality(answered) /\ r \in DOMAIN tool
      BY <1>12, <1>13, <1>17 DEF nt
    <3>2. tool[r] = Answer(PlaceIn(answered, r))
      <4> HIDE DEF r
      <4> QED
        BY <1>13, <3>1
    <3>3. tool[r] = Answer(b)
      BY <3>1, <3>2
    <3> HIDE DEF r, Answer
    <3>4. np + r > np /\ np + r <= np + nt
      BY <1>12, <1>17, <3>1
    <3>5. np + r \in DOMAIN parsed' /\ parsed'[np + r] = tool[r]
      BY <2>1, <3>1
    <3> QED
      BY <3>3, <3>4, <3>5 DEF r
  <2>5. ASSUME NEW n \in DOMAIN tool PROVE \E b \in answered : np + n = at(b)
    BY <1>12, <1>13, <2>5
  <2>6. last # << >> => end \in DOMAIN parsed' /\ parsed'[end] = last[1]
    BY <2>1, <2>3
  <2>7. \A n \in DOMAIN last : last # << >> /\ np + nt + n = end
    <3>1. << >> \in Seq(MessageType) /\ DOMAIN << >> = {}
      OBVIOUS
    <3> QED
      BY <2>3, <3>1
  <2> HIDE DEF at, end, Answer
  <2> QED
    BY <2>1, <2>2, <2>4, <2>5, <2>6, <2>7
<1> HIDE DEF Answer, at
\* Each open call was open before, or is of this message.
<1>22. ASSUME NEW k \in ToolNames, NEW n \in DOMAIN inbound'.open[k]
       PROVE  \/ /\ n \in DOMAIN Left(k) /\ n + taken(k) \in DOMAIN open[k]
                 /\ inbound'.open[k][n] = open[k][n + taken(k)]
              \/ \E p \in of(k) : n = Len(Left(k)) + RankIn(of(k), p) /\ inbound'.open[k][n] = id[p]
  <2>1. /\ \A m \in DOMAIN Left(k) : m + taken(k) \in DOMAIN open[k] /\ Left(k)[m] = open[k][m + taken(k)]
        /\ \A m \in DOMAIN fresh[k] : \E p \in of(k) : fresh[k][m] = id[p] /\ RankIn(of(k), p) = m
        /\ \/ n \in DOMAIN Left(k) /\ inbound'.open[k][n] = Left(k)[n]
           \/ \E m \in DOMAIN fresh[k] : n = Len(Left(k)) + m /\ inbound'.open[k][n] = fresh[k][m]
    <3>1. \A m \in DOMAIN Left(k) : m + taken(k) \in DOMAIN open[k] /\ Left(k)[m] = open[k][m + taken(k)]
      BY <1>10
    <3>2. \A m \in DOMAIN fresh[k] : \E p \in of(k) : fresh[k][m] = id[p] /\ RankIn(of(k), p) = m
      BY <1>9
    <3>3. \/ n \in DOMAIN Left(k) /\ inbound'.open[k][n] = Left(k)[n]
          \/ \E m \in DOMAIN fresh[k] : n = Len(Left(k)) + m /\ inbound'.open[k][n] = fresh[k][m]
      BY <1>19
    <3> QED
      BY <3>1, <3>2, <3>3
  <2> HIDE DEF Left, taken, open, of
  <2> QED
    BY <2>1
<1>23. OpenWereCalled'
  <2> SUFFICES ASSUME NEW k \in ToolNames, NEW n \in DOMAIN inbound'.open[k]
               PROVE  \E j \in DOMAIN parsed' : inbound'.open[k][n] \in ToSet(parsed'[j].calls)
    BY DEF OpenWereCalled
  <2> DEFINE o == inbound'.open[k][n]
  <2>1. CASE \E m \in DOMAIN open[k] : o = open[k][m]
    <3> HIDE DEF o
    <3>1. PICK m \in DOMAIN open[k] : o = open[k][m]
      BY <2>1
    <3>2. PICK j \in DOMAIN parsed : open[k][m] \in ToSet(parsed[j].calls)
      BY <3>1 DEF InInv, OpenWereCalled
    <3>3. j \in DOMAIN parsed' /\ parsed'[j] = parsed[j]
      BY <1>21, <3>2
    <3> QED
      BY <3>1, <3>2, <3>3 DEF o
  <2>2. CASE \E p \in of(k) : o = id[p]
    <3> HIDE DEF o
    <3>1. PICK p \in of(k) : o = id[p]
      BY <2>2
    <3>2. p \in made /\ made # {}
      BY <3>1
    <3>3. PICK m \in MessageType : last = <<m>> /\ m.calls = Taken(id, made)
      <4> HIDE DEF At
      <4> QED
        BY <1>14, <3>2
    <3>4. /\ Taken(id, made) \in Seq(CallIds \cup {"none"})
          /\ RankIn(made, p) \in DOMAIN Taken(id, made) /\ Taken(id, made)[RankIn(made, p)] = id[p]
      <4>1. id \in Seq(CallIds \cup {"none"}) /\ made \in SUBSET DOMAIN id
        BY <1>5, <1>8
      <4> HIDE DEF of, open, Left, taken, x
      <4>2. /\ Taken(id, made) \in Seq(CallIds \cup {"none"})
            /\ \A q \in made : RankIn(made, q) \in DOMAIN Taken(id, made) /\ Taken(id, made)[RankIn(made, q)] = id[q]
        BY <4>1, TakenHolds
      <4> QED
        BY <3>2, <4>2
    <3>5. id[p] \in ToSet(m.calls)
      BY <3>3, <3>4 DEF ToSet
    <3>6. last # << >> /\ last[1] = m
      BY <3>3
    <3>7. end \in DOMAIN parsed' /\ parsed'[end] = m
      BY <1>21, <3>6
    <3> HIDE DEF end
    <3> QED
      BY <3>1, <3>5, <3>7 DEF o
  <2> HIDE DEF open, of, Left, taken
  <2> QED
    BY <1>22, <2>1, <2>2
\* The roles of the messages.
<1>24. /\ \A b \in answered : Answer(b).role = "tool" /\ Answer(b).answers = <<x(b)>> /\ Answer(b).blocks = {inbound.blocks + b}
       /\ last # << >> => last[1].role # "tool"
  <2>1. last = << >> \/ \E m \in MessageType : last = <<m>> /\ m.role # "tool"
    <3> HIDE DEF At
    <3> QED
      BY <1>14
  <2>2. last # << >> => last[1].role # "tool"
    BY <2>1
  <2> QED
    BY <2>2 DEF Answer
\* A tool message is an old one or a result's.
<1>25. ASSUME NEW i \in DOMAIN parsed', parsed'[i].role = "tool"
       PROVE  \/ i \in DOMAIN parsed /\ parsed'[i] = parsed[i] /\ parsed[i].role = "tool"
              \/ \E b \in answered : i = at(b) /\ parsed'[i] = Answer(b)
  <2> HIDE DEF x, end
  <2> QED
    BY <1>21, <1>24, <1>25
<1>26. ResultsAlone'
  <2> SUFFICES ASSUME NEW i \in DOMAIN parsed', parsed'[i].role = "tool" PROVE Len(parsed'[i].answers) = 1
    BY DEF ResultsAlone
  <2>1. CASE i \in DOMAIN parsed /\ parsed'[i] = parsed[i] /\ parsed[i].role = "tool"
    BY <2>1 DEF InInv, ResultsAlone
  <2>2. CASE \E b \in answered : i = at(b) /\ parsed'[i] = Answer(b)
    <3> HIDE DEF x
    <3>1. PICK b \in answered : parsed'[i] = Answer(b)
      BY <2>2
    <3>2. parsed'[i].answers = <<x(b)>>
      BY <1>24, <3>1
    <3> QED
      BY <3>2
  <2> QED
    BY <1>25, <2>1, <2>2
<1>27. InTyped'
  BY <1>16, <1>18 DEF InTyped

\* Gemini: what is open, and what was answered.
<1>28. ASSUME gemini
       PROVE  /\ \A k \in ToolNames : \A n \in DOMAIN open[k] : open[k][n] \in Nat /\ open[k][n] < inbound.next
              /\ \A k, l \in ToolNames : \A m \in DOMAIN open[k], n \in DOMAIN open[l] :
                    open[k][m] = open[l][n] => k = l /\ m = n
              /\ \A i \in DOMAIN parsed : parsed[i].role = "tool" =>
                    /\ parsed[i].answers[1] \in Nat /\ parsed[i].answers[1] < inbound.next
                    /\ \A k \in ToolNames : \A n \in DOMAIN open[k] : open[k][n] # parsed[i].answers[1]
  BY <1>28 DEF InInv, OpenOnce
<1> DEFINE o(k, n) == inbound'.open[k][n]
           Old(k, n) == /\ n \in DOMAIN Left(k) /\ n + taken(k) \in DOMAIN open[k] /\ o(k, n) = open[k][n + taken(k)]
                        /\ o(k, n) \in Nat /\ o(k, n) < inbound.next
           New(k, n) == \E p \in of(k) : /\ n = Len(Left(k)) + RankIn(of(k), p) /\ o(k, n) = id[p] /\ id[p] \in Nat
                                         /\ inbound.next <= id[p] /\ id[p] < inbound.next + Cardinality(made)
<1>29. ASSUME gemini, NEW k \in ToolNames, NEW n \in DOMAIN inbound'.open[k]
       PROVE  Old(k, n) \/ New(k, n)
  <2>1. CASE /\ n \in DOMAIN Left(k) /\ n + taken(k) \in DOMAIN open[k]
             /\ inbound'.open[k][n] = open[k][n + taken(k)]
    <3> HIDE DEF open, Left, taken
    <3>1. open[k][n + taken(k)] \in Nat /\ open[k][n + taken(k)] < inbound.next
      BY <1>28, <1>29, <2>1
    <3> QED
      BY <2>1, <3>1
  <2>2. CASE \E p \in of(k) : n = Len(Left(k)) + RankIn(of(k), p) /\ inbound'.open[k][n] = id[p]
    <3> HIDE DEF Left
    <3>1. PICK p \in of(k) : n = Len(Left(k)) + RankIn(of(k), p) /\ inbound'.open[k][n] = id[p]
      BY <2>2
    <3>2. id[p] \in Nat /\ inbound.next <= id[p] /\ id[p] < inbound.next + Cardinality(made)
      BY <1>8, <1>29, <3>1
    <3> HIDE DEF of
    <3> QED
      BY <3>1, <3>2
  <2> HIDE DEF Old, New, open, Left, taken, of
  <2> QED
    BY <1>22, <2>1, <2>2
<1>30. ASSUME gemini, NEW k \in ToolNames, NEW n \in DOMAIN inbound'.open[k]
       PROVE  o(k, n) \in Nat /\ o(k, n) < inbound'.next
  <2>1. inbound'.next = inbound.next + Cardinality(made) /\ inbound.next \in Nat /\ Cardinality(made) \in Nat
    BY <1>3, <1>8, <1>18
  <2>2. (o(k, n) \in Nat /\ o(k, n) < inbound.next) \/ (o(k, n) \in Nat /\ o(k, n) < inbound.next + Cardinality(made))
    <3>1. CASE Old(k, n)
      BY <3>1
    <3>2. CASE New(k, n)
      <4> HIDE DEF of, Left
      <4> QED
        BY <3>2
    <3> HIDE DEF Old, New, o
    <3> QED
      BY <1>29, <1>30, <3>1, <3>2
  <2> HIDE DEF o
  <2> QED
    BY <2>1, <2>2
<1>31. ASSUME gemini, NEW k \in ToolNames, NEW l \in ToolNames,
              NEW m \in DOMAIN inbound'.open[k], NEW n \in DOMAIN inbound'.open[l], o(k, m) = o(l, n)
       PROVE  k = l /\ m = n
  <2>1. inbound.next \in Nat
    BY <1>3
  <2>2. CASE Old(k, m) /\ Old(l, n)
    <3>1. /\ m \in DOMAIN Left(k) /\ n \in DOMAIN Left(l)
          /\ m + taken(k) \in DOMAIN open[k] /\ n + taken(l) \in DOMAIN open[l]
          /\ open[k][m + taken(k)] = open[l][n + taken(l)]
      BY <1>31, <2>2
    <3>2. m \in Nat /\ n \in Nat /\ taken(k) \in Nat /\ taken(l) \in Nat
      BY <1>10, <3>1
    <3> DEFINE a == m + taken(k)
               b == n + taken(l)
    <3> HIDE DEF Left, taken, open
    <3>3. k = l /\ a = b
      <4>1. a \in DOMAIN open[k] /\ b \in DOMAIN open[l] /\ open[k][a] = open[l][b]
        BY <3>1
      <4> HIDE DEF a, b
      <4> QED
        BY <1>28, <1>31, <4>1
    <3> QED
      BY <3>2, <3>3
  <2>3. CASE New(k, m) /\ New(l, n)
    <3> HIDE DEF Left
    <3>1. PICK p \in of(k) : m = Len(Left(k)) + RankIn(of(k), p) /\ o(k, m) = id[p]
      BY <2>3
    <3>2. PICK q \in of(l) : n = Len(Left(l)) + RankIn(of(l), q) /\ o(l, n) = id[q]
      BY <2>3
    <3>3. p \in made /\ q \in made /\ id[p] = id[q] /\ blocks[p].key = k /\ blocks[q].key = l
      BY <1>31, <3>1, <3>2
    <3>4. p = q
      BY <1>8, <1>31, <3>3
    <3> HIDE DEF of
    <3> QED
      BY <3>1, <3>2, <3>3, <3>4
  <2>4. CASE (Old(k, m) /\ New(l, n)) \/ (New(k, m) /\ Old(l, n))
    <3>1. ASSUME NEW a \in ToolNames, NEW c \in DOMAIN inbound'.open[a], Old(a, c)
          PROVE  o(a, c) \in Nat /\ o(a, c) < inbound.next
      BY <3>1
    <3>2. ASSUME NEW a \in ToolNames, NEW c \in DOMAIN inbound'.open[a], New(a, c)
          PROVE  o(a, c) \in Nat /\ inbound.next <= o(a, c)
      <4> HIDE DEF of, Left
      <4> QED
        BY <3>2
    <3>3. \/ o(k, m) < inbound.next /\ inbound.next <= o(l, n) /\ o(k, m) \in Nat
          \/ o(l, n) < inbound.next /\ inbound.next <= o(k, m) /\ o(l, n) \in Nat
      <4> HIDE DEF Old, New, o
      <4> QED
        BY <2>4, <3>1, <3>2
    <3> HIDE DEF o
    <3> QED
      BY <1>31, <2>1, <3>3
  <2> HIDE DEF Old, New, o
  <2> QED
    BY <1>29, <1>31, <2>2, <2>3, <2>4
\* Gemini: what a result answers was open, and is not any more.
<1>32. ASSUME gemini, NEW b \in answered
       PROVE  /\ x(b) \in Nat /\ x(b) < inbound.next
              /\ \A k \in ToolNames : \A n \in DOMAIN inbound'.open[k] : o(k, n) # x(b)
  <2> DEFINE l == blocks[b].key
             c == turn(b)
  <2>1. c \in DOMAIN open[l] /\ l \in ToolNames /\ c <= taken(l) /\ x(b) = open[l][c]
    BY <1>11, <1>32
  <2>2. c \in Int /\ taken(l) \in Nat /\ inbound.next \in Nat
    <3>1. open[l] \in Seq(CallIds)
      BY <1>3, <2>1
    <3>2. c \in Int
      <4> HIDE DEF c, l, open
      <4> QED
        BY <2>1, <3>1
    <3> QED
      BY <1>3, <1>10, <2>1, <3>2
  <2> HIDE DEF l, c, open, taken, Left, x
  <2>3. x(b) \in Nat /\ x(b) < inbound.next
    BY <1>28, <1>32, <2>1
  <2>4. ASSUME NEW k \in ToolNames, NEW n \in DOMAIN inbound'.open[k], Old(k, n) PROVE o(k, n) # x(b)
    <3> SUFFICES ASSUME o(k, n) = x(b) PROVE FALSE
      OBVIOUS
    <3> DEFINE a == n + taken(k)
    <3>1. a \in DOMAIN open[k] /\ open[k][a] = open[l][c] /\ n \in DOMAIN Left(k)
      BY <2>1, <2>4
    <3>2. n \in Nat \ {0} /\ taken(k) \in Nat
      BY <1>10, <3>1
    <3> HIDE DEF a
    <3>3. k = l /\ a = c
      BY <1>28, <1>32, <2>1, <3>1
    <3> QED
      BY <2>1, <2>2, <3>2, <3>3 DEF a
  <2>5. ASSUME NEW k \in ToolNames, NEW n \in DOMAIN inbound'.open[k], New(k, n) PROVE o(k, n) # x(b)
    <3>1. o(k, n) \in Nat /\ inbound.next <= o(k, n)
      <4> HIDE DEF of
      <4> QED
        BY <2>5
    <3> HIDE DEF o
    <3> QED
      BY <2>2, <2>3, <3>1
  <2> HIDE DEF o, Old, New
  <2> QED
    BY <1>29, <1>32, <2>3, <2>4, <2>5
<1>33. ASSUME gemini, NEW i \in DOMAIN parsed', parsed'[i].role = "tool"
       PROVE  /\ parsed'[i].answers[1] \in Nat /\ parsed'[i].answers[1] < inbound'.next
              /\ \A k \in ToolNames : \A n \in DOMAIN inbound'.open[k] : o(k, n) # parsed'[i].answers[1]
  <2>1. inbound'.next = inbound.next + Cardinality(made) /\ inbound.next \in Nat /\ Cardinality(made) \in Nat
    BY <1>3, <1>8, <1>18
  <2> DEFINE y == parsed'[i].answers[1]
  <2>2. y \in Nat /\ y < inbound.next /\ \A k \in ToolNames : \A n \in DOMAIN inbound'.open[k] : o(k, n) # y
    <3>1. CASE i \in DOMAIN parsed /\ parsed'[i] = parsed[i] /\ parsed[i].role = "tool"
      <4> HIDE DEF open, taken, Left
      <4>1. /\ y \in Nat /\ y < inbound.next
            /\ \A k \in ToolNames : \A n \in DOMAIN open[k] : open[k][n] # y
        BY <1>28, <1>33, <3>1
      <4>2. ASSUME NEW k \in ToolNames, NEW n \in DOMAIN inbound'.open[k] PROVE o(k, n) # y
        <5>1. CASE Old(k, n)
          <6>1. n + taken(k) \in DOMAIN open[k] /\ o(k, n) = open[k][n + taken(k)]
            BY <5>1
          <6> DEFINE a == n + taken(k)
          <6>2. a \in DOMAIN open[k] /\ o(k, n) = open[k][a]
            BY <6>1
          <6> HIDE DEF a, o, y
          <6> QED
            BY <4>1, <6>2
        <5>2. CASE New(k, n)
          <6>1. o(k, n) \in Nat /\ inbound.next <= o(k, n)
            <7> HIDE DEF of
            <7> QED
              BY <5>2
          <6> HIDE DEF o, y
          <6> QED
            BY <2>1, <4>1, <6>1
        <5> HIDE DEF o, y, Old, New
        <5> QED
          BY <1>29, <1>33, <5>1, <5>2
      <4> HIDE DEF o, y
      <4> QED
        BY <4>1, <4>2
    <3>2. CASE \E b \in answered : i = at(b) /\ parsed'[i] = Answer(b)
      <4> HIDE DEF x, o
      <4>1. PICK b \in answered : parsed'[i] = Answer(b)
        BY <3>2
      <4>2. y = x(b)
        BY <1>24, <4>1
      <4> HIDE DEF y
      <4> QED
        BY <1>32, <1>33, <4>2
    <3> QED
      BY <1>25, <1>33, <3>1, <3>2
  <2> HIDE DEF y, o
  <2>3. y < inbound'.next
    BY <2>1, <2>2
  <2> QED
    BY <2>2, <2>3 DEF y
<1>34. OpenOnce'
  <2>1. ASSUME ~gemini PROVE OpenOnce'
    BY <1>18, <2>1 DEF OpenOnce
  <2>2. ASSUME gemini PROVE OpenOnce'
    <3>1. \A k \in ToolNames : \A n \in DOMAIN inbound'.open[k] :
             inbound'.open[k][n] \in Nat /\ inbound'.open[k][n] < inbound'.next
      BY <1>30, <2>2
    <3>2. \A k, l \in ToolNames : \A m \in DOMAIN inbound'.open[k], n \in DOMAIN inbound'.open[l] :
             inbound'.open[k][m] = inbound'.open[l][n] => k = l /\ m = n
      BY <1>31, <2>2
    <3>3. \A i \in DOMAIN parsed' : parsed'[i].role = "tool" =>
             /\ parsed'[i].answers[1] \in Nat /\ parsed'[i].answers[1] < inbound'.next
             /\ \A k \in ToolNames : \A n \in DOMAIN inbound'.open[k] :
                   inbound'.open[k][n] # parsed'[i].answers[1]
      BY <1>33, <2>2
    <3> QED
      BY <3>1, <3>2, <3>3 DEF OpenOnce
  <2> QED
    BY <2>1, <2>2
\* Whose a block is.
<1>35. /\ \A i \in DOMAIN parsed : parsed[i].blocks \in SUBSET (1 .. inbound.blocks)
       /\ UNION {parsed[i].blocks : i \in DOMAIN parsed} = 1 .. inbound.blocks
       /\ \A i, j \in DOMAIN parsed : i # j => parsed[i].blocks \cap parsed[j].blocks = {}
       /\ \A i \in DOMAIN parsed : parsed[i].role = "tool" =>
             \E j \in 1 .. (i - 1) : parsed[i].answers[1] \in ToSet(parsed[j].calls)
       /\ gemini => \A i, j \in DOMAIN parsed : (i # j /\ parsed[i].role = "tool" /\ parsed[j].role = "tool")
                          => parsed[i].answers # parsed[j].answers
       /\ \A i \in DOMAIN parsed : parsed[i].role = "tool" => Len(parsed[i].answers) = 1
  BY DEF InInv, ResultsFollowCalls, ResultsAlone
<1>36. /\ last # << >> => last[1].blocks = At(made \cup rest)
       /\ last = << >> => made \cup rest = {}
  BY <1>14
<1> DEFINE IsOld(i, y) == i \in DOMAIN parsed /\ y \in parsed[i].blocks
           IsAnswer(i, y) == \E b \in answered : i = at(b) /\ y = inbound.blocks + b
           IsRest(i, y) == i = end /\ \E b \in made \cup rest : y = inbound.blocks + b
<1>37. ASSUME NEW i \in DOMAIN parsed', NEW y \in parsed'[i].blocks
       PROVE  IsOld(i, y) \/ IsAnswer(i, y) \/ IsRest(i, y)
  <2>1. CASE i \in DOMAIN parsed
    BY <1>21, <2>1, <1>37
  <2>2. CASE \E b \in answered : i = at(b)
    <3>1. PICK b \in answered : i = at(b)
      BY <2>2
    <3>2. parsed'[i].blocks = {inbound.blocks + b}
      BY <1>21, <1>24, <3>1
    <3> QED
      BY <1>37, <3>1, <3>2
  <2>3. CASE last # << >> /\ i = end
    <3>1. parsed'[i].blocks = At(made \cup rest)
      <4> HIDE DEF end, At
      <4> QED
        BY <1>21, <1>36, <2>3
    <3>2. y \in At(made \cup rest)
      BY <1>37, <3>1
    <3>3. \E b \in made \cup rest : y = inbound.blocks + b
      <4> HIDE DEF end
      <4> QED
        BY <3>2
    <3> HIDE DEF end
    <3> QED
      BY <2>3, <3>3
  <2> HIDE DEF IsOld, IsAnswer, IsRest, end
  <2> QED
    BY <1>21, <1>37, <2>1, <2>2, <2>3
<1>38. ASSUME NEW y, NEW i \in DOMAIN parsed', NEW j \in DOMAIN parsed',
              IsOld(i, y) \/ IsAnswer(i, y) \/ IsRest(i, y), IsOld(j, y) \/ IsAnswer(j, y) \/ IsRest(j, y)
       PROVE  i = j
  <2>1. ASSUME NEW h, IsOld(h, y) PROVE y \in Int /\ y <= inbound.blocks
    <3>1. y \in 1 .. inbound.blocks
      BY <1>35, <2>1
    <3> QED
      BY <1>3, <3>1
  <2>2. ASSUME NEW h, IsAnswer(h, y) PROVE y \in Int /\ y > inbound.blocks /\ y - inbound.blocks \in answered /\ h = at(y - inbound.blocks)
    <3>1. PICK b \in answered : h = at(b) /\ y = inbound.blocks + b
      BY <2>2
    <3>2. b \in 1 .. L /\ L \in Nat /\ inbound.blocks \in Nat
      BY <1>2, <1>3, <1>5
    <3>3. y > inbound.blocks /\ y - inbound.blocks = b /\ y \in Int
      BY <3>1, <3>2
    <3> QED
      BY <3>1, <3>3
  <2>3. ASSUME NEW h, IsRest(h, y) PROVE y \in Int /\ y > inbound.blocks /\ y - inbound.blocks \in made \cup rest /\ h = end
    <3>1. PICK b \in made \cup rest : y = inbound.blocks + b
      BY <2>3
    <3>2. b \in 1 .. L /\ L \in Nat /\ inbound.blocks \in Nat
      BY <1>2, <1>3, <1>5
    <3>3. y > inbound.blocks /\ y - inbound.blocks = b /\ y \in Int
      BY <3>1, <3>2
    <3>4. h = end
      BY <2>3
    <3> HIDE DEF end
    <3> QED
      BY <3>1, <3>3, <3>4
  <2>4. answered \cap (made \cup rest) = {}
    BY <1>5 DEF rest
  <2>5. ASSUME IsOld(i, y), IsOld(j, y) PROVE i = j
    BY <1>35, <2>5
  <2> HIDE DEF IsOld, IsAnswer, IsRest, end
  <2> QED
    BY <1>3, <1>38, <2>1, <2>2, <2>3, <2>4, <2>5
<1>39. ASSUME NEW i \in DOMAIN parsed', NEW j \in DOMAIN parsed', i # j
       PROVE  parsed'[i].blocks \cap parsed'[j].blocks = {}
  <2> HIDE DEF IsOld, IsAnswer, IsRest
  <2> QED
    BY <1>37, <1>38, <1>39
<1>40. UNION {parsed'[i].blocks : i \in DOMAIN parsed'} = 1 .. inbound'.blocks
  <2>1. inbound'.blocks = inbound.blocks + L /\ inbound.blocks \in Nat /\ L \in Nat
    BY <1>2, <1>3, <1>18
  <2>2. ASSUME NEW i \in DOMAIN parsed', NEW y \in parsed'[i].blocks PROVE y \in 1 .. inbound'.blocks
    <3>1. ASSUME IsOld(i, y) PROVE y \in 1 .. inbound'.blocks
      <4>1. y \in 1 .. inbound.blocks
        BY <1>35, <3>1
      <4> QED
        BY <2>1, <4>1
    <3>2. ASSUME NEW b \in 1 .. L, y = inbound.blocks + b PROVE y \in 1 .. inbound'.blocks
      BY <2>1, <3>2
    <3>3. ASSUME IsAnswer(i, y) PROVE y \in 1 .. inbound'.blocks
      <4>1. PICK b \in answered : y = inbound.blocks + b
        BY <3>3
      <4>2. b \in 1 .. L
        BY <1>5
      <4> QED
        BY <3>2, <4>1, <4>2
    <3>4. ASSUME IsRest(i, y) PROVE y \in 1 .. inbound'.blocks
      <4> HIDE DEF end
      <4>1. PICK b \in made \cup rest : y = inbound.blocks + b
        BY <3>4
      <4>2. b \in 1 .. L
        BY <1>5
      <4> QED
        BY <3>2, <4>1, <4>2
    <3> HIDE DEF IsOld, IsAnswer, IsRest
    <3> QED
      BY <1>37, <2>2, <3>1, <3>3, <3>4
  <2>3. ASSUME NEW y \in 1 .. inbound'.blocks PROVE \E i \in DOMAIN parsed' : y \in parsed'[i].blocks
    <3>1. CASE y \in 1 .. inbound.blocks
      <4>1. PICK i \in DOMAIN parsed : y \in parsed[i].blocks
        BY <1>35, <3>1
      <4> QED
        BY <1>21, <4>1
    <3>2. CASE y \notin 1 .. inbound.blocks
      <4> DEFINE b == y - inbound.blocks
      <4>1. b \in 1 .. L /\ y = inbound.blocks + b
        BY <2>1, <2>3, <3>2
      <4> HIDE DEF b
      <4>2. CASE b \in answered
        <5>1. at(b) \in DOMAIN parsed' /\ parsed'[at(b)].blocks = {inbound.blocks + b}
          BY <1>21, <1>24, <4>2
        <5> QED
          BY <4>1, <5>1
      <4>3. CASE b \in made \cup rest
        <5>1. last # << >> /\ last[1].blocks = At(made \cup rest)
          <6> HIDE DEF At
          <6> QED
            BY <1>36, <4>3
        <5>2. y \in last[1].blocks
          BY <4>1, <4>3, <5>1
        <5>3. end \in DOMAIN parsed' /\ parsed'[end] = last[1]
          BY <1>21, <5>1
        <5> HIDE DEF end
        <5> QED
          BY <5>2, <5>3
      <4> QED
        BY <1>5, <4>1, <4>2, <4>3
    <3> QED
      BY <3>1, <3>2
  <2> QED
    BY <2>2, <2>3
<1>41. ASSUME NEW i \in DOMAIN parsed', parsed'[i].role = "tool"
       PROVE  \E j \in 1 .. (i - 1) : parsed'[i].answers[1] \in ToSet(parsed'[j].calls)
  <2>1. CASE i \in DOMAIN parsed /\ parsed'[i] = parsed[i] /\ parsed[i].role = "tool"
    <3>1. PICK j \in 1 .. (i - 1) : parsed[i].answers[1] \in ToSet(parsed[j].calls)
      BY <1>35, <2>1
    <3>2. j \in DOMAIN parsed
      BY <1>17, <2>1
    <3> QED
      BY <1>21, <2>1, <3>1, <3>2
  <2>2. CASE \E b \in answered : i = at(b) /\ parsed'[i] = Answer(b)
    <3>1. PICK b \in answered : i = at(b) /\ parsed'[i] = Answer(b)
      BY <2>2
    <3>2. parsed'[i].answers[1] = x(b)
      <4> HIDE DEF x
      <4> QED
        BY <1>24, <3>1
    <3>3. \E j \in DOMAIN parsed : x(b) \in ToSet(parsed[j].calls)
      <4> DEFINE k == blocks[b].key
                 c == turn(b)
      <4>1. c \in DOMAIN open[k] /\ k \in ToolNames /\ x(b) = open[k][c]
        BY <1>11
      <4> HIDE DEF k, c, x
      <4> QED
        BY <4>1 DEF InInv, OpenWereCalled
    <3> HIDE DEF x
    <3>4. PICK j \in DOMAIN parsed : x(b) \in ToSet(parsed[j].calls)
      BY <3>3
    <3>5. j \in DOMAIN parsed' /\ parsed'[j] = parsed[j] /\ at(b) \in DOMAIN parsed' /\ at(b) > np
      BY <1>21
    <3>6. at(b) \in Int
      BY <1>21
    <3>7. j \in 1 .. (i - 1)
      BY <1>17, <3>1, <3>5, <3>6
    <3> QED
      BY <3>2, <3>4, <3>5, <3>7
  <2> QED
    BY <1>25, <1>41, <2>1, <2>2
<1>42. ASSUME gemini, NEW i \in DOMAIN parsed', NEW j \in DOMAIN parsed', i # j,
              parsed'[i].role = "tool", parsed'[j].role = "tool"
       PROVE  parsed'[i].answers # parsed'[j].answers
  <2>1. ASSUME NEW h \in DOMAIN parsed, parsed[h].role = "tool", NEW b \in answered PROVE parsed[h].answers # <<x(b)>>
    <3> DEFINE k == blocks[b].key
               c == turn(b)
    <3>1. c \in DOMAIN open[k] /\ k \in ToolNames /\ x(b) = open[k][c]
      BY <1>11
    <3> HIDE DEF k, c, x
    <3>2. parsed[h].answers[1] # x(b)
      BY <1>28, <1>42, <2>1, <3>1
    <3> QED
      BY <3>2
  <2>2. ASSUME NEW a \in answered, NEW b \in answered, i = at(a), j = at(b) PROVE <<x(a)>> # <<x(b)>>
    <3>1. a # b
      BY <1>42, <2>2
    <3>2. x(a) # x(b)
      BY <1>20, <1>42, <3>1
    <3> HIDE DEF x
    <3> QED
      BY <3>2
  <2>3. \A h \in DOMAIN parsed' : parsed'[h].role = "tool" =>
           \/ h \in DOMAIN parsed /\ parsed'[h] = parsed[h] /\ parsed[h].role = "tool"
           \/ \E b \in answered : h = at(b) /\ parsed'[h].answers = <<x(b)>>
    <3> HIDE DEF x
    <3> QED
      BY <1>24, <1>25
  <2>4. (i \in DOMAIN parsed /\ j \in DOMAIN parsed /\ parsed[i].role = "tool" /\ parsed[j].role = "tool")
           => parsed[i].answers # parsed[j].answers
    BY <1>35, <1>42
  <2> HIDE DEF x
  <2>5. \/ i \in DOMAIN parsed /\ parsed'[i] = parsed[i] /\ parsed[i].role = "tool"
        \/ \E b \in answered : i = at(b) /\ parsed'[i].answers = <<x(b)>>
    BY <1>42, <2>3
  <2>6. \/ j \in DOMAIN parsed /\ parsed'[j] = parsed[j] /\ parsed[j].role = "tool"
        \/ \E b \in answered : j = at(b) /\ parsed'[j].answers = <<x(b)>>
    BY <1>42, <2>3
  <2> QED
    BY <2>1, <2>2, <2>4, <2>5, <2>6
<1>43. ResultsFollowCalls'
  <2>1. inbound'.proto = inbound.proto
    BY <1>18
  <2> QED
    BY <1>39, <1>40, <1>41, <1>42, <2>1 DEF ResultsFollowCalls
<1> QED
  BY <1>23, <1>26, <1>27, <1>34, <1>43 DEF InInv
-----------------------------------------------------------------------------
\* g takes the fragments one by one.
TakesUp(g, calls, frags) ==
    g = [k \in 0 .. Len(frags) |-> IF k = 0 THEN calls ELSE Slotted(g[k - 1], frags[k])]

\* Any function that does is what they merge to.
LEMMA MergedUp ==
    ASSUME NEW calls, NEW frags, Len(frags) \in Nat, NEW g, TakesUp(g, calls, frags)
    PROVE  Merged(calls, frags) = g[Len(frags)]
<1> DEFINE n == Len(frags)
           Is(f) == TakesUp(f, calls, frags)
           u == CHOOSE f : Is(f)
<1>1. Merged(calls, frags) = u[n]
  BY DEF Merged, TakesUp
<1>2. n \in Nat /\ Is(g)
  OBVIOUS
<1> HIDE DEF Is
<1>3. Is(u)
  BY <1>2
<1> HIDE DEF u, n
<1>4. ASSUME NEW f, Is(f)
      PROVE f[0] = calls /\ \A k \in 1 .. n : f[k] = Slotted(f[k - 1], frags[k])
  BY <1>2, <1>4 DEF Is, TakesUp, n
<1> DEFINE T == {k \in 0 .. n : u[k] # g[k]}
<1>5. T = {}
  <2>1. SUFFICES ASSUME T # {} PROVE FALSE
    OBVIOUS
  <2>2. T \subseteq Nat
    BY <1>2
  <2>3. PICK m \in T : \A k \in T : m <= k
    <3> HIDE DEF T
    <3> QED
      BY <2>1, <2>2, Least
  <2>4. m # 0
    BY <1>2, <1>3, <1>4
  <2>5. m \in 1 .. n /\ m - 1 \in 0 .. n /\ m - 1 \notin T
    BY <1>2, <2>3, <2>4
  <2>6. u[m - 1] = g[m - 1]
    BY <2>5
  <2>7. u[m] = Slotted(u[m - 1], frags[m]) /\ g[m] = Slotted(g[m - 1], frags[m])
    <3> HIDE DEF T
    <3> QED
      BY <1>2, <1>3, <1>4, <2>5
  <2> QED
    BY <2>3, <2>6, <2>7
<1>6. u[n] = g[n]
  BY <1>2, <1>5
<1> QED
  BY <1>1, <1>6 DEF n

\* No fragment changes no slot.
LEMMA MergedNone ==
    ASSUME NEW calls
    PROVE  Merged(calls, << >>) = calls
<1> DEFINE e == << >>
           g == [k \in 0 .. 0 |-> calls]
<1>1. Len(e) = 0
  OBVIOUS
<1> HIDE DEF e
<1>2. TakesUp(g, calls, e)
  BY <1>1 DEF TakesUp
<1>3. g[0] = calls
  OBVIOUS
<1> HIDE DEF g
<1>4. Merged(calls, e) = g[Len(e)]
  BY <1>1, <1>2, MergedUp
<1> QED
  BY <1>1, <1>3, <1>4 DEF e

\* One fragment is one slot's.
LEMMA MergedOne ==
    ASSUME NEW calls, NEW f
    PROVE  Merged(calls, <<f>>) = Slotted(calls, f)
<1> DEFINE e == <<f>>
           s == Slotted(calls, f)
           g == [k \in 0 .. 1 |-> IF k = 0 THEN calls ELSE s]
<1>1. Len(e) = 1 /\ e[1] = f /\ Len(e) \in Nat
  OBVIOUS
<1> HIDE DEF e
<1>2. g[0] = calls /\ g[1] = Slotted(calls, f)
  OBVIOUS
<1>3. TakesUp(g, calls, e)
  <2>1. \A k \in 0 .. 1 : k # 0 => k - 1 = 0 /\ k = 1
    OBVIOUS
  <2> QED
    BY <1>1, <1>2, <2>1 DEF TakesUp
<1> HIDE DEF g, s
<1>4. Merged(calls, e) = g[Len(e)]
  BY <1>1, <1>3, MergedUp
<1> QED
  BY <1>1, <1>2, <1>4 DEF e

\* Fragments that have an index and an id each of their own make a slot each.
LEMMA MergedIndexed ==
    ASSUME NEW calls \in Seq([name : ToolNames, args : Nat]), "none" \notin ToolNames
    PROVE  /\ Merged(<< >>, Indexed(calls)) =
                 [i \in DOMAIN calls |-> [id |-> i, name |-> calls[i].name, args |-> AllArgs(calls[i])]]
           /\ \A i \in DOMAIN calls : Slotted(<< >>, Indexed(calls)[i])[Indexed(calls)[i].index] =
                 [id |-> i, name |-> calls[i].name, args |-> AllArgs(calls[i])]
<1> DEFINE n == Len(calls)
           frags == Indexed(calls)
           slot(i) == [id |-> i, name |-> calls[i].name, args |-> AllArgs(calls[i])]
           g == [k \in 0 .. n |-> [i \in 1 .. k |-> slot(i)]]
           put(c, i) == [j \in DOMAIN c \cup {i} |-> IF j = i THEN slot(i) ELSE c[j]]
<1>1. n \in Nat /\ DOMAIN calls = 1 .. n /\ \A i \in 1 .. n : calls[i] \in [name : ToolNames, args : Nat]
  <2>1. n \in Nat /\ DOMAIN calls = 1 .. n
    OBVIOUS
  <2> DEFINE R == [name : ToolNames, args : Nat]
  <2>2. \A i \in DOMAIN calls : calls[i] \in R
    <3>1. calls \in Seq(R)
      OBVIOUS
    <3> HIDE DEF R
    <3> QED
      BY <3>1
  <2> HIDE DEF n
  <2> QED
    BY <2>1, <2>2
<1>2. ASSUME NEW i \in 1 .. n
      PROVE  /\ frags[i] = [index |-> i, id |-> i, name |-> calls[i].name, args |-> AllArgs(calls[i])]
             /\ i # 0 /\ calls[i].name # "none" /\ AllArgs(calls[i]) \in Seq(Nat)
  <2>1. calls[i].name \in ToolNames /\ calls[i].args \in Nat
    BY <1>1
  <2>2. AllArgs(calls[i]) \in Seq(Nat)
    <3> DEFINE m == calls[i].args
    <3> HIDE DEF m
    <3>1. [j \in 1 .. m |-> j] \in Seq(Nat)
      BY <2>1 DEF m
    <3> QED
      BY <3>1 DEF AllArgs, m
  <2>3. frags[i] = Fragment(i, calls[i].name, AllArgs(calls[i]))
    BY <1>1 DEF Indexed
  <2> QED
    BY <2>1, <2>2, <2>3 DEF Fragment
<1>3. Len(frags) = n
  BY <1>1 DEF Indexed
<1> HIDE DEF frags
<1>4. ASSUME NEW c, NEW i \in 1 .. n, i \notin DOMAIN c
      PROVE  Slotted(c, frags[i]) = put(c, i)
  <2> DEFINE a == AllArgs(calls[i])
  <2>1. << >> \o a = a
    <3>1. a \in Seq(Nat)
      BY <1>2
    <3> HIDE DEF a
    <3> QED
      BY <3>1
  <2>2. frags[i] = [index |-> i, id |-> i, name |-> calls[i].name, args |-> a] /\ i # 0 /\ calls[i].name # "none"
    BY <1>2
  <2> HIDE DEF a
  <2>3. slot(i) = [id |-> i, name |-> calls[i].name, args |-> a]
    BY DEF a
  <2> HIDE DEF slot
  <2> QED
    BY <1>4, <2>1, <2>2, <2>3 DEF Slotted, NoCall
<1> HIDE DEF put
<1>5. ASSUME NEW k \in 1 .. n
      PROVE  Slotted(g[k - 1], frags[k]) = g[k]
  <2>1. k \in 0 .. n /\ k - 1 \in 0 .. n /\ 1 .. k = (1 .. (k - 1)) \cup {k} /\ k \notin 1 .. (k - 1)
    BY <1>1
  <2>2. g[k - 1] = [i \in 1 .. (k - 1) |-> slot(i)] /\ g[k] = [i \in 1 .. k |-> slot(i)]
    BY <2>1
  <2> HIDE DEF g
  <2>3. DOMAIN g[k - 1] = 1 .. (k - 1)
    BY <2>2
  <2> HIDE DEF slot
  <2>4. Slotted(g[k - 1], frags[k]) = put(g[k - 1], k)
    BY <1>4, <2>1, <2>3
  <2> QED
    BY <2>1, <2>2, <2>3, <2>4, ZenonT(40) DEF put
<1>6. TakesUp(g, << >>, frags)
  <2>1. g = [k \in 0 .. n |-> g[k]]
    OBVIOUS
  <2>2. g[0] = << >>
    <3>1. g[0] = [i \in 1 .. 0 |-> slot(i)]
      BY <1>1
    <3> QED
      BY <3>1
  <2> HIDE DEF g, slot
  <2>3. \A k \in 0 .. n : k # 0 => k \in 1 .. n
    BY <1>1
  <2> QED
    BY <1>3, <1>5, <2>1, <2>2, <2>3 DEF TakesUp
<1>7. g[n] = [i \in 1 .. n |-> slot(i)]
  BY <1>1
<1> HIDE DEF g
<1>8. Merged(<< >>, frags) = g[n]
  <2> DEFINE e == << >>
  <2> HIDE DEF e, slot
  <2>1. TakesUp(g, e, frags)
    BY <1>6 DEF e
  <2>2. Merged(e, frags) = g[Len(frags)]
    BY <1>1, <1>3, <2>1, MergedUp
  <2> QED
    BY <1>3, <2>2 DEF e
<1>9. ASSUME NEW i \in 1 .. n PROVE Slotted(<< >>, frags[i])[frags[i].index] = slot(i)
  <2>1. frags[i].index = i
    <3>1. frags[i] = [index |-> i, id |-> i, name |-> calls[i].name, args |-> AllArgs(calls[i])]
      BY <1>2
    <3> QED
      BY <3>1
  <2>2. Slotted(<< >>, frags[i]) = put(<< >>, i)
    <3>1. i \notin DOMAIN << >>
      OBVIOUS
    <3> HIDE DEF slot
    <3> QED
      BY <1>4, <3>1
  <2> HIDE DEF slot
  <2> QED
    BY <2>1, <2>2 DEF put
<1> QED
  BY <1>1, <1>7, <1>8, <1>9 DEF frags

\* What is taken depends on what is at the places.
LEMMA TakenSame ==
    ASSUME NEW n \in Nat, NEW K \in SUBSET (1 .. n), NEW s, NEW t, \A k \in K : s[k] = t[k]
    PROVE  Taken(s, K) = Taken(t, K)
<1>1. \A i \in 1 .. Cardinality(K) : PlaceIn(K, i) \in K
  BY PlaceHolds
<1> QED
  BY <1>1 DEF Taken

\* All of a sequence is the sequence, none of it is empty.
LEMMA TakenAll ==
    ASSUME NEW M, NEW s \in Seq(M)
    PROVE  Taken(s, DOMAIN s) = s /\ Taken(s, {}) = << >>
<1> DEFINE n == Len(s)
           K == 1 .. n
<1>1. n \in Nat /\ DOMAIN s = K /\ s = [i \in K |-> s[i]]
  OBVIOUS
<1> HIDE DEF n
<1>2. Cardinality(K) = n
  <2>1. n \in Nat
    BY <1>1
  <2> QED
    BY <2>1, FS_Interval
<1>3. ASSUME NEW k \in K PROVE RankIn(K, k) = k
  <2>1. k \in Int /\ K \cap (1 .. k) = 1 .. k
    BY <1>1
  <2>2. Cardinality(1 .. k) = k
    BY <2>1, FS_Interval
  <2> QED
    BY <2>1, <2>2 DEF RankIn
<1>4. ASSUME NEW k \in K PROVE PlaceIn(K, k) = k
  <2>1. K \in SUBSET (1 .. n)
    OBVIOUS
  <2> HIDE DEF K
  <2>2. \A j \in K : PlaceIn(K, RankIn(K, j)) = j
    BY <1>1, <2>1, PlaceHolds
  <2> QED
    BY <1>3, <2>2
<1>5. Taken(s, K) = [i \in K |-> s[i]]
  BY <1>2, <1>4 DEF Taken
<1>6. Taken(s, {}) = << >>
  <2>1. Cardinality({}) = 0 /\ 1 .. 0 = {}
    BY FS_EmptySet
  <2>2. Taken(s, {}) = [i \in {} |-> s[PlaceIn({}, i)]]
    BY <2>1 DEF Taken
  <2> QED
    BY <2>2
<1> QED
  BY <1>1, <1>5, <1>6

\* As many of 1 .. n as n are all of them.
LEMMA AllOfThem ==
    ASSUME NEW n \in Nat, NEW K \in SUBSET (1 .. n), Cardinality(K) = n
    PROVE  K = 1 .. n
<1>1. IsFiniteSet(1 .. n) /\ Cardinality(1 .. n) = n
  BY FS_Interval
<1> QED
  BY <1>1, FS_Subset

\* The first so many of the pieces.
LEMMA PiecesGrow ==
    ASSUME NEW n \in Nat
    PROVE  /\ Pieces(n) \in Seq(Nat) /\ Pieces(n) \o <<n + 1>> = Pieces(n + 1) /\ Pieces(0) = << >>
<1>1. Pieces(n) \in Seq(Nat) /\ Len(Pieces(n)) = n /\ \A i \in 1 .. n : Pieces(n)[i] = i
  BY DEF Pieces
<1> DEFINE s == Pieces(n)
           t == s \o <<n + 1>>
<1> HIDE DEF s
<1>2. s \in Seq(Nat) /\ Len(s) = n /\ \A i \in 1 .. n : s[i] = i
  BY <1>1 DEF s
<1>3. t \in Seq(Nat) /\ Len(t) = n + 1 /\ DOMAIN t = 1 .. (n + 1)
  BY <1>2
<1>4. ASSUME NEW i \in 1 .. (n + 1) PROVE t[i] = i
  BY <1>2
<1> HIDE DEF t
<1>5. t = [i \in 1 .. (n + 1) |-> i]
  BY <1>3, <1>4
<1>6. Pieces(0) = << >>
  BY DEF Pieces
<1> QED
  BY <1>1, <1>5, <1>6 DEF t, s, Pieces

\* An answer has some text and calls of tools.
LEMMA AnswersTyped ==
    ASSUME WireTypes, NEW a \in WireAnswers
    PROVE  a \in AnswerType
<1> DEFINE Call == [name : ToolNames, args : 0 .. MaxArgs]
           R == [name : ToolNames, args : Nat]
<1>1. a \in [text : 0 .. MaxText, calls : UNION {[1 .. k -> Call] : k \in 0 .. MaxCalls}]
  BY DEF WireAnswers
<1>2. \A c \in Call : c \in R
  OBVIOUS
<1> HIDE DEF Call, R
<1>3. PICK k \in 0 .. MaxCalls : a.calls \in [1 .. k -> Call]
  BY <1>1
<1>4. a.calls \in [1 .. k -> R] /\ k \in Nat
  BY <1>2, <1>3
<1>5. a.calls \in Seq(R)
  BY <1>4
<1>6. a.text \in Nat /\ a = [text |-> a.text, calls |-> a.calls]
  BY <1>1
<1>7. a \in [text : Nat, calls : Seq(R)]
  BY <1>5, <1>6
<1> QED
  BY <1>7 DEF AnswerType, R

\* The types of the stream, each on its own.
LEMMA SentParts ==
    ASSUME SentTyped
    PROVE  /\ wire.proto \in Protocols /\ wire.stream \in BOOLEAN /\ wire.whole \in BOOLEAN
           /\ wire.mode \in {"none", "flag", "block"} /\ wire.withhold \in BOOLEAN
           /\ wire.answer.text \in Nat /\ Len(wire.answer.calls) \in Nat
           /\ DOMAIN wire.answer.calls = 1 .. Len(wire.answer.calls)
           /\ wire.answer.calls \in Seq([name : ToolNames, args : Nat])
           /\ \A i \in DOMAIN wire.answer.calls :
                 i \in Nat \ {0} /\ wire.answer.calls[i].name \in ToolNames /\ wire.answer.calls[i].args \in Nat
           /\ sent.text \in Nat /\ sent.finish \in BOOLEAN /\ sent.usage \in BOOLEAN
           /\ sent.calls \in [DOMAIN wire.answer.calls -> Nat]
<1> DEFINE R == [name : ToolNames, args : Nat]
           W == [proto : Protocols, stream : BOOLEAN, whole : BOOLEAN, mode : {"none", "flag", "block"},
                 withhold : BOOLEAN, answer : AnswerType]
           S == [text : Nat, calls : [DOMAIN wire.answer.calls -> Nat], finish : BOOLEAN, usage : BOOLEAN]
           cs == wire.answer.calls
<1>1. wire \in W /\ sent \in S
  BY DEF SentTyped
<1>2. /\ wire.proto \in Protocols /\ wire.stream \in BOOLEAN /\ wire.whole \in BOOLEAN
      /\ wire.mode \in {"none", "flag", "block"} /\ wire.withhold \in BOOLEAN /\ wire.answer \in AnswerType
  BY <1>1
<1>3. /\ sent.text \in Nat /\ sent.finish \in BOOLEAN /\ sent.usage \in BOOLEAN
      /\ sent.calls \in [DOMAIN wire.answer.calls -> Nat]
  BY <1>1
<1>4. wire.answer \in [text : Nat, calls : Seq(R)]
  BY <1>2 DEF AnswerType
<1> HIDE DEF R
<1>5. wire.answer.text \in Nat /\ cs \in Seq(R)
  BY <1>4
<1> HIDE DEF cs
<1>6. Len(cs) \in Nat /\ DOMAIN cs = 1 .. Len(cs) /\ \A i \in DOMAIN cs : i \in Nat \ {0} /\ cs[i] \in R
  BY <1>5
<1>7. \A i \in DOMAIN cs : cs[i].name \in ToolNames /\ cs[i].args \in Nat
  BY <1>6 DEF R
<1> QED
  BY <1>2, <1>3, <1>5, <1>6, <1>7 DEF cs, R

\* A stream begins with nothing sent and nothing received.
LEMMA StreamStarts ==
    ASSUME WireTypes, StreamInit
    PROVE  StreamInv
<1>1. /\ wire \in [proto : Protocols, stream : BOOLEAN, whole : BOOLEAN, mode : {"none", "flag", "block"},
                   withhold : BOOLEAN, answer : WireAnswers]
      /\ wire.withhold => wire.proto = "openai" /\ wire.stream
      /\ ~wire.stream => wire.whole
      /\ wire.whole => wire.mode = "none"
      /\ sent = [text |-> 0, calls |-> [i \in DOMAIN wire.answer.calls |-> 0], finish |-> FALSE, usage |-> FALSE]
      /\ gate = << >> /\ tr = Translator /\ received = NoClient /\ flow = "open"
  BY DEF StreamInit, Protocols
<1>2. wire \in [proto : Protocols, stream : BOOLEAN, whole : BOOLEAN, mode : {"none", "flag", "block"},
                withhold : BOOLEAN, answer : AnswerType]
  <2>1. wire.answer \in AnswerType
    BY <1>1, AnswersTyped
  <2> QED
    BY <1>1, <2>1
<1>3. sent \in [text : Nat, calls : [DOMAIN wire.answer.calls -> Nat], finish : BOOLEAN, usage : BOOLEAN]
  <2>1. [i \in DOMAIN wire.answer.calls |-> 0] \in [DOMAIN wire.answer.calls -> Nat]
    OBVIOUS
  <2> QED
    BY <1>1, <2>1
<1>4. /\ sent.finish = FALSE /\ sent.usage = FALSE /\ sent.text = 0
      /\ \A i \in DOMAIN wire.answer.calls : sent.calls[i] = 0
  BY <1>1
<1>5. SentTyped
  BY <1>1, <1>2, <1>3, <1>4 DEF SentTyped
<1>6. Begun = {} /\ TextSeen = 0
  BY <1>4 DEF Begun, Seen, TextSeen
<1>7. Slots = << >>
  BY <1>6 DEF Slots
<1>8. GateJudges
  BY <1>1, <1>6 DEF GateJudges
<1>9. Assembled
  <2>1. tr = [text |-> << >>, calls |-> << >>, stop |-> "stop", usage |-> FALSE, started |-> FALSE]
    BY <1>1 DEF Translator
  <2>2. received = [text |-> << >>, calls |-> << >>, stop |-> "none", usage |-> FALSE, starts |-> 0, ended |-> FALSE]
    BY <1>1 DEF NoClient
  <2>3. tr = [text |-> tr.text, calls |-> Slots, stop |-> tr.stop,
              usage |-> sent.usage /\ ~wire.withhold, started |-> tr.started]
    BY <1>4, <1>7, <2>1
  <2>4. received = [text |-> received.text, calls |-> IF wire.proto = "openai" THEN Slots ELSE << >>,
                  stop |-> received.stop, usage |-> wire.proto = "openai" /\ tr.usage,
                  starts |-> IF wire.proto = "anthropic" /\ tr.started THEN 1 ELSE 0, ended |-> FALSE]
    BY <1>7, <2>1, <2>2
  <2>5. /\ tr.started \in BOOLEAN /\ {tr.text, received.text} \subseteq Seq(Nat)
        /\ tr.text = << >> /\ received.text \o tr.text = << >>
    BY <2>1, <2>2
  <2>6. Pieces(TextSeen) = << >>
    BY <1>6 DEF Pieces
  <2> QED
    BY <1>4, <2>3, <2>4, <2>5, <2>6 DEF Assembled
<1> QED
  BY <1>1, <1>5, <1>8, <1>9 DEF StreamInv

\* A live stream: one more fragment of a call, or none (call = 0).
LEMMA CallsGrow ==
    ASSUME WireTypes, SentTyped, wire' = wire, ~wire.whole, NEW call \in {0} \cup DOMAIN sent.calls,
           sent'.calls = [i \in DOMAIN sent.calls |-> IF i = call THEN sent.calls[i] + 1 ELSE sent.calls[i]]
    PROVE  /\ Begun' = Begun \cup {i \in DOMAIN wire.answer.calls : i = call}
           /\ call = 0 => Slots' = Slots
           /\ call # 0 => Slots' = IF Passes(call) THEN Slotted(Slots, PieceOf(call, sent.calls[call] + 1)) ELSE Slots
<1> DEFINE D == DOMAIN wire.answer.calls
           n == sent.calls
           m == sent'.calls
           name(i) == wire.answer.calls[i].name
<1>1. /\ \A i \in D : i \in Nat \ {0} /\ name(i) \in ToolNames
      /\ n \in [D -> Nat] /\ DOMAIN n = D /\ "none" \notin ToolNames
  BY SentParts DEF WireTypes
<1>2. m = [i \in D |-> IF i = call THEN n[i] + 1 ELSE n[i]]
  BY <1>1
<1>3. \A i \in D : m[i] \in Nat /\ n[i] \in Nat /\ (i = call => m[i] = n[i] + 1) /\ (i # call => m[i] = n[i])
  BY <1>1, <1>2
<1>4. Begun = {i \in D : n[i] > 0} /\ Begun' = {i \in D : m[i] > 0}
  BY DEF Begun, Seen
<1>5. /\ Slots = [i \in {j \in Begun : Passes(j)} |-> [id |-> i, name |-> name(i), args |-> Pieces(n[i] - 1)]]
      /\ Slots' = [i \in {j \in Begun' : Passes(j)} |-> [id |-> i, name |-> name(i), args |-> Pieces(m[i] - 1)]]
  BY DEF Slots, Slot, Seen, Pieces, Passes
<1> HIDE DEF D, n, m, name
<1>6. Begun' = Begun \cup {i \in D : i = call}
  <2>1. \A i \in D : m[i] > 0 <=> (n[i] > 0 \/ i = call)
    BY <1>3
  <2> QED
    BY <1>4, <2>1
<1> DEFINE P == {j \in Begun : Passes(j)}
           Q == {j \in Begun' : Passes(j)}
           slot(i, k) == [id |-> i, name |-> name(i), args |-> Pieces(k)]
<1>7. Slots = [i \in P |-> slot(i, n[i] - 1)] /\ Slots' = [i \in Q |-> slot(i, m[i] - 1)]
  BY <1>5
<1>8. P \subseteq D /\ Q \subseteq D /\ Q = P \cup {i \in D : i = call /\ Passes(i)}
  BY <1>4, <1>6
<1> HIDE DEF P, Q, slot
<1>9. ASSUME call \notin D \/ ~Passes(call) PROVE Slots' = Slots
  <2>1. Q = P /\ \A i \in P : i # call
    <3>1. \A i \in P : Passes(i)
      BY DEF P
    <3>2. Q = P
      BY <1>8, <1>9
    <3>3. \A i \in P : i # call
      BY <1>8, <1>9, <3>1
    <3> QED
      BY <3>2, <3>3
  <2>2. \A i \in P : m[i] = n[i]
    BY <1>3, <1>8, <2>1
  <2> QED
    BY <1>7, <2>1, <2>2
<1>10. ASSUME call \in D, Passes(call)
       PROVE  Slots' = Slotted(Slots, PieceOf(call, n[call] + 1))
  <2> DEFINE k == n[call]
             f == PieceOf(call, k + 1)
             old == IF call \in P THEN slot(call, k - 1) ELSE NoCall
  <2>1. k \in Nat /\ m[call] = k + 1 /\ call \in Nat \ {0} /\ name(call) \in ToolNames /\ name(call) # "none"
    BY <1>1, <1>3, <1>10
  <2>2. call \in P <=> k > 0
    BY <1>3, <1>4, <1>10 DEF P
  <2>3. f = [index |-> call, id |-> IF k = 0 THEN call ELSE 0, name |-> IF k = 0 THEN name(call) ELSE "none",
             args |-> IF k = 0 THEN << >> ELSE <<k>>]
    <3>1. k + 1 = 1 <=> k = 0
      BY <2>1
    <3>2. (k + 1) - 1 = k
      BY <2>1
    <3> HIDE DEF k
    <3> QED
      BY <2>1, <3>1, <3>2 DEF PieceOf, Fragment, name
  <2>4. [id |-> IF f.id # 0 THEN f.id ELSE old.id, name |-> IF f.name # "none" THEN f.name ELSE old.name,
         args |-> old.args \o f.args] = slot(call, k)
    <3>1. CASE k = 0
      <4>1. old.args = << >> /\ f.args = << >> /\ f.id = call /\ f.name = name(call)
        BY <2>2, <2>3, <3>1 DEF NoCall
      <4>2. Pieces(k) = << >>
        BY <3>1 DEF Pieces
      <4>3. old.args \o f.args = Pieces(k)
        BY <4>1, <4>2
      <4> QED
        BY <2>1, <4>1, <4>3 DEF slot
    <3>2. CASE k # 0
      <4>1. old = slot(call, k - 1) /\ f.args = <<k>> /\ f.id = 0 /\ f.name = "none"
        BY <2>1, <2>2, <2>3, <3>2
      <4>2. old.args = Pieces(k - 1) /\ old.id = call /\ old.name = name(call)
        BY <4>1 DEF slot
      <4>3. Pieces(k - 1) \o <<k>> = Pieces(k)
        <5>1. k - 1 \in Nat /\ (k - 1) + 1 = k
          BY <2>1, <3>2
        <5> HIDE DEF k
        <5> QED
          BY <5>1, PiecesGrow
      <4> QED
        BY <4>1, <4>2, <4>3 DEF slot
    <3> QED
      BY <3>1, <3>2
  <2>5. old = IF f.index \in DOMAIN Slots THEN Slots[f.index] ELSE NoCall
    <3>1. f.index = call
      BY <2>3
    <3> HIDE DEF f
    <3> QED
      BY <1>7, <3>1
  <2>6. f.index = call
    BY <2>3
  <2> HIDE DEF f, old, k
  <2>7. Slotted(Slots, f) = [i \in DOMAIN Slots \cup {call} |-> IF i = call THEN slot(call, k) ELSE Slots[i]]
    BY <2>4, <2>5, <2>6 DEF Slotted
  <2>8. Q = P \cup {call} /\ \A i \in P : i # call => m[i] = n[i]
    BY <1>3, <1>8, <1>10
  <2>9. m[call] - 1 = k
    BY <2>1
  <2>10. Slots' = [i \in P \cup {call} |-> IF i = call THEN slot(call, k) ELSE Slots[i]]
    BY <1>7, <2>8, <2>9
  <2> QED
    BY <1>7, <2>7, <2>10 DEF f, k
<1>11. call # 0 => call \in D
  BY <1>1 DEF n
<1>12. 0 \notin D
  BY <1>1
<1> QED
  BY <1>6, <1>9, <1>10, <1>11, <1>12 DEF D, n

\* The fragments of a live chunk.
FragsOf(call) == IF call # 0 THEN <<PieceOf(call, sent.calls[call] + 1)>> ELSE << >>

\* The next fragment of a call has its index, and its name if it is the first.
LEMMA PieceIs ==
    ASSUME WireTypes, SentTyped, NEW call \in DOMAIN sent.calls
    PROVE  /\ call \in DOMAIN wire.answer.calls /\ call \in Nat \ {0}
           /\ wire.answer.calls[call].name # "none" /\ sent.calls[call] \in Nat
           /\ FragsOf(call) = <<PieceOf(call, sent.calls[call] + 1)>>
           /\ PieceOf(call, sent.calls[call] + 1).index = call
           /\ PieceOf(call, sent.calls[call] + 1).name =
                 IF sent.calls[call] = 0 THEN wire.answer.calls[call].name ELSE "none"
<1> DEFINE k == sent.calls[call]
<1>1. /\ call \in DOMAIN wire.answer.calls /\ call \in Nat \ {0} /\ k \in Nat
      /\ wire.answer.calls[call].name \in ToolNames /\ wire.answer.calls[call].name # "none"
  BY SentParts DEF WireTypes
<1>2. k + 1 = 1 <=> k = 0
  BY <1>1
<1> HIDE DEF k
<1>3. /\ PieceOf(call, k + 1).index = call
      /\ PieceOf(call, k + 1).name = IF k = 0 THEN wire.answer.calls[call].name ELSE "none"
  BY <1>2 DEF PieceOf, Fragment
<1> QED
  BY <1>1, <1>3 DEF k, FragsOf

\* The gate decides for a call by the name that its first fragment has.
LEMMA GateFollows ==
    ASSUME WireTypes, SentTyped, GateJudges, wire' = wire, ~wire.whole, wire.mode # "none",
           NEW call \in {0} \cup DOMAIN sent.calls, gate' = Judged(FragsOf(call)),
           Begun' = Begun \cup {i \in DOMAIN wire.answer.calls : i = call}
    PROVE  GateJudges'
<1> DEFINE name(i) == wire.answer.calls[i].name
           ok(i) == name(i) \notin Denied
           F == ToSet(FragsOf(call))
           N == {f.index : f \in {g \in F : g.name # "none"}}
<1>1. gate = [i \in Begun |-> ok(i)] /\ DOMAIN gate = Begun
  BY DEF GateJudges
<1>2. gate' = [i \in Begun \cup N |-> IF i \in Begun THEN ok(i) ELSE \A f \in F : f.index = i => f.name \notin Denied]
  BY <1>1 DEF Judged
<1>3. CASE call = 0
  <2>1. F = {}
    BY <1>3 DEF FragsOf, ToSet
  <2>2. N = {} /\ Begun' = Begun
    BY <1>3, <2>1, SentParts
  <2>3. gate' = [i \in Begun |-> ok(i)]
    <3> HIDE DEF F, N, ok
    <3> QED
      BY <1>2, <2>2
  <2> QED
    BY <2>2, <2>3 DEF GateJudges
<1>4. CASE call # 0
  <2> DEFINE p == PieceOf(call, sent.calls[call] + 1)
             k == sent.calls[call]
  <2>1. /\ call \in DOMAIN wire.answer.calls /\ k \in Nat /\ FragsOf(call) = <<p>> /\ p.index = call
        /\ p.name = (IF k = 0 THEN name(call) ELSE "none") /\ name(call) # "none"
    BY <1>4, PieceIs
  <2>2. F = {p}
    <3> HIDE DEF p
    <3> QED
      BY <2>1 DEF ToSet
  <2>3. call \in Begun <=> k # 0
    BY <2>1 DEF Begun, Seen
  <2>4. Begun' = Begun \cup {call}
    BY <2>1
  <2> HIDE DEF p, k, name, F
  <2>5. N = IF k = 0 THEN {call} ELSE {}
    BY <2>1, <2>2
  <2> HIDE DEF N
  <2>6. Begun \cup N = Begun'
    BY <2>3, <2>4, <2>5
  <2>7. \A i \in N : i \notin Begun => ((\A f \in F : f.index = i => f.name \notin Denied) <=> ok(i))
    BY <2>1, <2>2, <2>5
  <2>8. \A i \in Begun \cup N : i \notin Begun => i \in N
    OBVIOUS
  <2> DEFINE all(i) == \A f \in F : f.index = i => f.name \notin Denied
  <2>9. \A i \in Begun \cup N : (IF i \in Begun THEN ok(i) ELSE all(i)) = ok(i)
    <3>1. ASSUME NEW i \in Begun \cup N, i \notin Begun PROVE all(i) = ok(i)
      <4>1. all(i) <=> ok(i)
        BY <2>7, <2>8, <3>1
      <4> QED
        BY <4>1
    <3> HIDE DEF all, ok
    <3> QED
      BY <3>1
  <2>10. gate' = [i \in Begun \cup N |-> IF i \in Begun THEN ok(i) ELSE all(i)]
    BY <1>2
  <2> HIDE DEF all, ok
  <2>11. gate' = [i \in Begun' |-> ok(i)]
    BY <2>6, <2>9, <2>10
  <2> QED
    BY <2>11 DEF GateJudges, ok, name
<1> QED
  BY <1>3, <1>4

\* A chunk goes on as it is, or without the fragment of a call that is not permitted.
LEMMA FilterKeeps ==
    ASSUME WireTypes, SentTyped, GateJudges, ~wire.whole, NEW call \in {0} \cup DOMAIN sent.calls,
           NEW c, c.frags = FragsOf(call)
    PROVE  /\ call = 0 \/ Passes(call) => Filtered(c) = <<c>>
           /\ ~(call = 0 \/ Passes(call)) =>
                 Filtered(c) = IF c.text = << >> /\ c.finish = "none" THEN << >>
                               ELSE <<[c EXCEPT !.frags = << >>,
                                                !.finish = IF @ = "tool_calls" THEN "stop" ELSE @]>>
<1> DEFINE K == {i \in DOMAIN c.frags : Kept(c.frags[i])}
           kept == Taken(c.frags, K)
<1>1. CASE wire.mode # "block"
  BY <1>1 DEF Filtered, Passes
<1>2. CASE wire.mode = "block" /\ call = 0
  <2>1. c.frags = << >>
    BY <1>2 DEF FragsOf
  <2>2. K = {}
    BY <2>1
  <2>3. kept = << >>
    <3>1. << >> \in Seq(Nat)
      OBVIOUS
    <3> HIDE DEF K
    <3> QED
      BY <2>1, <2>2, <3>1, TakenAll
  <2> QED
    BY <1>2, <2>1, <2>3 DEF Filtered
<1>3. CASE wire.mode = "block" /\ call # 0
  <2> DEFINE p == PieceOf(call, sent.calls[call] + 1)
             k == sent.calls[call]
  <2>1. /\ call \in DOMAIN wire.answer.calls /\ k \in Nat /\ FragsOf(call) = <<p>> /\ p.index = call
        /\ p.name = (IF k = 0 THEN wire.answer.calls[call].name ELSE "none") /\ wire.answer.calls[call].name # "none"
    BY <1>3, PieceIs
  <2>2. call \in Begun <=> k # 0
    BY <2>1 DEF Begun, Seen
  <2>3. gate = [i \in Begun |-> wire.answer.calls[i].name \notin Denied]
    BY <1>3 DEF GateJudges
  <2>4. Kept(p) <=> Passes(call)
    <3> HIDE DEF p, k
    <3>1. CASE call \in Begun
      BY <1>3, <2>1, <2>3, <3>1 DEF Kept, Passes
    <3>2. CASE call \notin Begun
      BY <1>3, <2>1, <2>2, <2>3, <3>2 DEF Kept, Passes
    <3> QED
      BY <3>1, <3>2
  <2>5. c.frags = <<p>>
    BY <2>1
  <2> HIDE DEF p, k
  <2>6. K = IF Passes(call) THEN {1} ELSE {}
    BY <2>4, <2>5
  <2>7. Taken(<<p>>, {1}) = <<p>> /\ Taken(<<p>>, {}) = << >> /\ <<p>> # << >>
    <3> DEFINE s == <<p>>
    <3>1. s \in Seq({p}) /\ DOMAIN s = {1} /\ s # << >>
      OBVIOUS
    <3> HIDE DEF s
    <3>2. Taken(s, DOMAIN s) = s /\ Taken(s, {}) = << >>
      BY <3>1, TakenAll
    <3> QED
      BY <3>1, <3>2 DEF s
  <2> HIDE DEF K
  <2>8. kept = IF Passes(call) THEN <<p>> ELSE << >>
    BY <2>5, <2>6, <2>7
  <2>9. CASE Passes(call)
    BY <1>3, <2>5, <2>8, <2>9 DEF Filtered, K
  <2>10. CASE ~Passes(call)
    <3>1. kept = << >> /\ kept # c.frags
      BY <2>5, <2>7, <2>8, <2>10
    <3> QED
      BY <1>3, <2>10, <3>1 DEF Filtered, K
  <2> QED
    BY <2>9, <2>10
<1> QED
  BY <1>1, <1>2, <1>3

\* Texts in a row.
LEMMA ThreeTexts ==
    ASSUME NEW x \in Seq(Nat), NEW y \in Seq(Nat), NEW z \in Seq(Nat)
    PROVE  /\ z = << >> => x \o z = x /\ (x \o y) \o z = x \o y
           /\ y = << >> => x \o y = x /\ (x \o z) \o y = x \o z
<1>1. x \o y \in Seq(Nat) /\ x \o z \in Seq(Nat)
  BY ConcatProperties
<1>2. x \o << >> = x /\ (x \o y) \o << >> = x \o y /\ (x \o z) \o << >> = x \o z
  BY <1>1, ConcatEmptySeq
<1> QED
  BY <1>2

\* A relayed chunk: what it adds is what has come.
Adds(c) ==
    /\ c.text \in Seq(Nat) /\ c.finish \in {"none", "stop", "tool_calls"} /\ c.usage \in BOOLEAN
    /\ Merged(Slots, c.frags) = Slots'
    /\ Pieces(TextSeen) \o c.text = Pieces(TextSeen')
    /\ sent.finish \in BOOLEAN /\ sent'.finish \in BOOLEAN
    /\ sent.finish => sent'.finish /\ c.text = << >>
    /\ c.finish # "none" => sent'.finish
    /\ (sent'.usage /\ ~wire.withhold) = ((sent.usage /\ ~wire.withhold) \/ c.usage)
    /\ sent'.finish /\ (\A i \in DOMAIN wire.answer.calls : Passes(i)) =>
           (sent.finish /\ c.finish = "none") \/ (c.finish = Reason /\ c.finish # "none")

\* The translator has it then, and the client, or it is still to come.
LEMMA TranslateKeeps ==
    ASSUME SentTyped, Assembled, wire' = wire, NEW c, Translate(c), Adds(c)
    PROVE  Assembled'
<1> DEFINE held == wire.proto = "gemini" /\ c.finish # "none"
           openai == wire.proto = "openai"
           stop(old) == IF c.finish # "none" THEN c.finish ELSE old
           usage == sent.usage /\ ~wire.withhold
           all == \A i \in DOMAIN wire.answer.calls : Passes(i)
<1>1. /\ tr = [text |-> tr.text, calls |-> Slots, stop |-> tr.stop, usage |-> usage, started |-> tr.started]
      /\ received = [text |-> received.text, calls |-> IF openai THEN Slots ELSE << >>,
                   stop |-> received.stop, usage |-> openai /\ tr.usage,
                   starts |-> IF wire.proto = "anthropic" /\ tr.started THEN 1 ELSE 0, ended |-> FALSE]
      /\ tr.started \in BOOLEAN
      /\ tr.text \in Seq(Nat) /\ received.text \in Seq(Nat) /\ received.text \o tr.text = Pieces(TextSeen)
      /\ ~(wire.proto = "gemini" /\ sent.finish) => tr.text = << >>
      /\ sent.finish /\ all => tr.stop = Reason /\ (openai => received.stop = Reason)
  BY DEF Assembled
<1>2. /\ tr' = [text |-> IF held THEN tr.text \o c.text ELSE tr.text, calls |-> Merged(tr.calls, c.frags),
                stop |-> stop(tr.stop), usage |-> tr.usage \/ c.usage, started |-> TRUE]
      /\ received' = IF openai THEN Taking(c)
                   ELSE [received EXCEPT !.starts = Started, !.text = IF held THEN @ ELSE @ \o c.text]
  BY DEF Translate
<1>3. tr.calls = Slots /\ tr.usage = usage
  BY <1>1
<1>4. /\ tr' = [text |-> tr'.text, calls |-> Slots', stop |-> stop(tr.stop),
                usage |-> sent'.usage /\ ~wire.withhold, started |-> TRUE]
      /\ tr'.text = IF held THEN tr.text \o c.text ELSE tr.text
  <2>1. (tr.usage \/ c.usage) = (sent'.usage /\ ~wire.withhold)
    BY <1>3 DEF Adds
  <2>2. Merged(tr.calls, c.frags) = Slots'
    BY <1>3 DEF Adds
  <2> DEFINE a == tr.usage \/ c.usage
             b == sent'.usage /\ ~wire.withhold
             m == Merged(tr.calls, c.frags)
             t == IF held THEN tr.text \o c.text ELSE tr.text
  <2>3. tr' = [text |-> t, calls |-> m, stop |-> stop(tr.stop), usage |-> a, started |-> TRUE]
    BY <1>2
  <2>4. a = b /\ m = Slots'
    BY <2>1, <2>2
  <2> HIDE DEF a, b, m, t, stop
  <2>5. tr' = [text |-> t, calls |-> Slots', stop |-> stop(tr.stop), usage |-> b, started |-> TRUE]
    BY <2>3, <2>4
  <2>6. tr'.text = t
    BY <2>5
  <2>7. tr' = [text |-> tr'.text, calls |-> Slots', stop |-> stop(tr.stop), usage |-> b, started |-> TRUE]
    BY <2>5, <2>6
  <2> QED
    BY <2>6, <2>7 DEF b, t
<1>5. Started = IF wire.proto = "anthropic" THEN 1 ELSE 0
  <2>1. received.starts = IF wire.proto = "anthropic" /\ tr.started THEN 1 ELSE 0
    BY <1>1
  <2> QED
    BY <1>1, <2>1 DEF Started
<1>6. /\ received' = [text |-> received'.text, calls |-> IF openai THEN Slots' ELSE << >>,
                    stop |-> received'.stop, usage |-> openai /\ (sent'.usage /\ ~wire.withhold),
                    starts |-> IF wire.proto = "anthropic" THEN 1 ELSE 0, ended |-> FALSE]
      /\ received'.text = IF held THEN received.text ELSE received.text \o c.text
      /\ openai => received'.stop = stop(received.stop)
  <2>1. CASE openai
    <3>1. received = [text |-> received.text, calls |-> Slots, stop |-> received.stop, usage |-> usage,
                    starts |-> 0, ended |-> FALSE]
      <4>1. (openai /\ tr.usage) = usage
        BY <1>3, <2>1
      <4>2. ~(wire.proto = "anthropic")
        BY <2>1
      <4> DEFINE u == openai /\ tr.usage
      <4>3. received = [text |-> received.text, calls |-> Slots, stop |-> received.stop, usage |-> u,
                      starts |-> 0, ended |-> FALSE]
        BY <1>1, <2>1, <4>2
      <4> HIDE DEF u, usage
      <4>4. u = usage
        BY <4>1 DEF u
      <4> QED
        BY <4>3, <4>4
    <3> DEFINE ct == received.text
               cs == received.stop
    <3>e. received = [text |-> ct, calls |-> Slots, stop |-> cs, usage |-> usage, starts |-> 0, ended |-> FALSE]
      BY <3>1
    <3>2. received' = [received EXCEPT !.text = @ \o c.text, !.calls = Merged(@, c.frags),
                                   !.stop = IF c.finish # "none" THEN c.finish ELSE @, !.usage = @ \/ c.usage]
      BY <1>2, <2>1 DEF Taking
    <3> DEFINE b == sent'.usage /\ ~wire.withhold
    <3>3. (usage \/ c.usage) = b /\ Merged(Slots, c.frags) = Slots'
      BY DEF Adds
    <3> HIDE DEF b
    <3> DEFINE p == received.text \o c.text
               g == Merged(received.calls, c.frags)
               r == IF c.finish # "none" THEN c.finish ELSE received.stop
               w == received.usage \/ c.usage
    <3>a. received' = [received EXCEPT !.text = p, !.calls = g, !.stop = r, !.usage = w]
      BY <3>2
    <3>b. received.calls = Slots /\ received.usage = usage
      BY <3>1
    <3>c. g = Merged(Slots, c.frags) /\ r = stop(received.stop) /\ w = (usage \/ c.usage)
      BY <3>b
    <3> HIDE DEF p, g, r, w, usage, stop, ct, cs
    <3>d. received' = [text |-> p, calls |-> g, stop |-> r, usage |-> w, starts |-> 0, ended |-> FALSE]
      BY <3>e, <3>a
    <3>4. received' = [text |-> received.text \o c.text, calls |-> Merged(Slots, c.frags), stop |-> stop(received.stop),
                     usage |-> usage \/ c.usage, starts |-> 0, ended |-> FALSE]
      BY <3>c, <3>d DEF p
    <3>5. received' = [text |-> received.text \o c.text, calls |-> Slots', stop |-> stop(received.stop),
                     usage |-> b, starts |-> 0, ended |-> FALSE]
      BY <3>3, <3>4
    <3>6. received'.text = received.text \o c.text /\ received'.stop = stop(received.stop)
      BY <3>5
    <3>7. received' = [text |-> received'.text, calls |-> Slots', stop |-> received'.stop,
                     usage |-> b, starts |-> 0, ended |-> FALSE]
      BY <3>5, <3>6
    <3>8. ~held /\ wire.proto # "anthropic"
      BY <2>1
    <3>9. (openai /\ b) = b
      BY <2>1 DEF b
    <3> DEFINE q == openai /\ b
    <3>10. q = b
      BY <3>9
    <3> HIDE DEF q
    <3>11. received' = [text |-> received'.text, calls |-> Slots', stop |-> received'.stop,
                      usage |-> q, starts |-> 0, ended |-> FALSE]
      BY <3>7, <3>10
    <3> QED
      BY <2>1, <3>6, <3>8, <3>11 DEF q, b
  <2>2. CASE ~openai
    <3>1. received = [text |-> received.text, calls |-> << >>, stop |-> received.stop, usage |-> FALSE,
                    starts |-> IF wire.proto = "anthropic" /\ tr.started THEN 1 ELSE 0, ended |-> FALSE]
      BY <1>1, <2>2
    <3>2. received' = [received EXCEPT !.starts = Started, !.text = IF held THEN @ ELSE @ \o c.text]
      BY <1>2, <2>2
    <3> DEFINE t == IF held THEN received.text ELSE received.text \o c.text
               n == IF wire.proto = "anthropic" THEN 1 ELSE 0
    <3>a. received' = [received EXCEPT !.starts = n, !.text = t]
      BY <1>5, <3>2
    <3> DEFINE ct == received.text
               cs == received.stop
               cn == IF wire.proto = "anthropic" /\ tr.started THEN 1 ELSE 0
    <3>b. received = [text |-> ct, calls |-> << >>, stop |-> cs, usage |-> FALSE, starts |-> cn, ended |-> FALSE]
      BY <3>1
    <3> HIDE DEF t, n, ct, cs, cn
    <3>3. received' = [text |-> t, calls |-> << >>, stop |-> cs, usage |-> FALSE, starts |-> n, ended |-> FALSE]
      BY <3>a, <3>b
    <3>4. received'.text = t /\ received'.stop = cs
      BY <3>3
    <3>5. received' = [text |-> received'.text, calls |-> << >>, stop |-> received'.stop, usage |-> FALSE,
                     starts |-> n, ended |-> FALSE]
      BY <3>3, <3>4
    <3> QED
      BY <2>2, <3>4, <3>5 DEF t, n
  <2> QED
    BY <2>1, <2>2
<1>7. /\ tr'.text \in Seq(Nat) /\ received'.text \in Seq(Nat) /\ received'.text \o tr'.text = Pieces(TextSeen')
      /\ ~(wire.proto = "gemini" /\ sent'.finish) => tr'.text = << >>
  <2> DEFINE x == received.text
             y == tr.text
             z == c.text
             x1 == received'.text
             y1 == tr'.text
  <2>1. x \in Seq(Nat) /\ y \in Seq(Nat) /\ z \in Seq(Nat) /\ (x \o y) \o z = Pieces(TextSeen')
    BY <1>1 DEF Adds
  <2>2. x1 = (IF held THEN x ELSE x \o z) /\ y1 = (IF held THEN y \o z ELSE y)
    BY <1>4, <1>6
  <2>3. held => sent'.finish /\ wire.proto = "gemini"
    BY DEF Adds
  <2>4. ~held => y = << >> \/ z = << >>
    BY <1>1 DEF Adds
  <2>5. ~(wire.proto = "gemini" /\ sent'.finish) => y1 = << >>
    BY <1>1, <2>2, <2>3 DEF Adds
  <2> HIDE DEF x, y, z, x1, y1, held
  <2>6. x1 \in Seq(Nat) /\ y1 \in Seq(Nat)
    BY <2>1, <2>2
  <2>7. x1 \o y1 = (x \o y) \o z
    <3>1. CASE held
      <4>1. x \in Seq(Nat) /\ y \in Seq(Nat) /\ z \in Seq(Nat)
        BY <2>1
      <4>2. x \o (y \o z) = (x \o y) \o z
        <5>1. \A d, e, f \in Seq(Nat) : d \o (e \o f) = (d \o e) \o f
          BY ConcatAssociative
        <5> QED
          BY <4>1, <5>1, Zenon
      <4> QED
        BY <2>2, <3>1, <4>2
    <3>2. CASE ~held /\ y = << >>
      <4>1. x \o y = x /\ (x \o z) \o y = x \o z
        BY <2>1, <3>2, ThreeTexts
      <4> QED
        BY <2>2, <3>2, <4>1
    <3>3. CASE ~held /\ z = << >>
      <4>1. x \o z = x /\ (x \o y) \o z = x \o y
        BY <2>1, <3>3, ThreeTexts
      <4> QED
        BY <2>2, <3>3, <4>1
    <3> QED
      BY <2>4, <3>1, <3>2, <3>3
  <2> QED
    BY <2>1, <2>5, <2>6, <2>7 DEF x1, y1
<1>8. sent'.finish /\ all => tr'.stop = Reason /\ (openai => received'.stop = Reason)
  <2>1. tr'.stop = stop(tr.stop)
    <3> HIDE DEF stop
    <3> QED
      BY <1>4
  <2>2. openai => received'.stop = stop(received.stop)
    BY <1>6
  <2>3. sent'.finish /\ all => (sent.finish /\ c.finish = "none") \/ (c.finish = Reason /\ c.finish # "none")
    BY DEF Adds
  <2> HIDE DEF all, openai
  <2> QED
    BY <1>1, <2>1, <2>2, <2>3
<1> DEFINE b == sent'.usage /\ ~wire.withhold
<1>9. /\ tr' = [text |-> tr'.text, calls |-> Slots', stop |-> tr'.stop, usage |-> b, started |-> tr'.started]
      /\ tr'.started = TRUE /\ tr'.usage = b
  <2> HIDE DEF b, stop
  <2>1. tr' = [text |-> tr'.text, calls |-> Slots', stop |-> stop(tr.stop), usage |-> b, started |-> TRUE]
    BY <1>4 DEF b
  <2> QED
    BY <2>1
<1>10. received' = [text |-> received'.text, calls |-> IF openai THEN Slots' ELSE << >>,
                  stop |-> received'.stop, usage |-> openai /\ tr'.usage,
                  starts |-> IF wire.proto = "anthropic" /\ tr'.started THEN 1 ELSE 0, ended |-> FALSE]
  <2>1. tr'.usage = (sent'.usage /\ ~wire.withhold)
    BY <1>9
  <2> DEFINE u == openai /\ tr'.usage
             v == openai /\ (sent'.usage /\ ~wire.withhold)
             s == IF wire.proto = "anthropic" THEN 1 ELSE 0
             r == IF wire.proto = "anthropic" /\ tr'.started THEN 1 ELSE 0
             k == IF openai THEN Slots' ELSE << >>
  <2>2. u = v /\ s = r
    BY <1>9, <2>1
  <2>3. received' = [text |-> received'.text, calls |-> k, stop |-> received'.stop, usage |-> v, starts |-> s, ended |-> FALSE]
    BY <1>6
  <2> HIDE DEF u, v, s, r, k
  <2>4. received' = [text |-> received'.text, calls |-> k, stop |-> received'.stop, usage |-> u, starts |-> r, ended |-> FALSE]
    BY <2>2, <2>3
  <2> QED
    BY <2>4 DEF u, r, k
<1>11. Reason' = Reason /\ ((\A i \in DOMAIN wire'.answer.calls : Passes(i)') <=> all)
  BY DEF Reason, Passes
<1> HIDE DEF all
<1>12. tr'.started \in BOOLEAN
  BY <1>9
<1> QED
  BY <1>7, <1>8, <1>9, <1>10, <1>11, <1>12 DEF Assembled, all

\* A live chunk adds what it carries, or what the gate leaves of it.
LEMMA NextChunkKeeps ==
    ASSUME WireTypes, StreamInv, NextChunk
    PROVE  StreamInv'
<1>1. /\ flow = "open" /\ ~wire.whole /\ ~sent.finish /\ wire' = wire /\ flow' = flow
      /\ SentTyped /\ GateJudges /\ Assembled
  BY DEF NextChunk, StreamInv
<1> DEFINE C(text, call, last) ==
               Chunk(IF text = 1 THEN <<sent.text + 1>> ELSE << >>, FragsOf(call), IF last THEN Reason ELSE "none", FALSE)
<1>2. PICK text \in {0, 1}, call \in {0} \cup DOMAIN sent.calls, last \in BOOLEAN :
          /\ sent' = [sent EXCEPT !.text = @ + text, !.finish = last,
                        !.calls = [i \in DOMAIN @ |-> IF i = call THEN @[i] + 1 ELSE @[i]]]
          /\ last => AllSent'
          /\ Relay(C(text, call, last))
  BY ZenonT(40) DEF NextChunk, FragsOf
<1>3. /\ wire.answer.text \in Nat /\ sent.text \in Nat /\ sent.finish \in BOOLEAN /\ sent.usage \in BOOLEAN
      /\ sent.calls \in [DOMAIN wire.answer.calls -> Nat] /\ wire.whole \in BOOLEAN /\ wire.withhold \in BOOLEAN
      /\ wire.mode \in {"none", "flag", "block"}
  BY <1>1, SentParts
<1> DEFINE D == DOMAIN wire.answer.calls
           n == [i \in D |-> IF i = call THEN sent.calls[i] + 1 ELSE sent.calls[i]]
\* What has been sent.
<1>4. sent \in [text : Nat, calls : [D -> Nat], finish : BOOLEAN, usage : BOOLEAN] /\ sent.usage = FALSE
  BY <1>1 DEF SentTyped
<1>5. n \in [D -> Nat] /\ n = [i \in DOMAIN sent.calls |-> IF i = call THEN sent.calls[i] + 1 ELSE sent.calls[i]]
  BY <1>3
<1>6. sent' = [text |-> sent.text + text, calls |-> n, finish |-> last, usage |-> FALSE]
  <2> DEFINE m == [i \in DOMAIN sent.calls |-> IF i = call THEN sent.calls[i] + 1 ELSE sent.calls[i]]
             t == sent.text + text
  <2>1. sent' = [sent EXCEPT !.text = t, !.finish = last, !.calls = m]
    BY <1>2
  <2>2. m = n
    BY <1>5
  <2> HIDE DEF m, n, t
  <2> QED
    BY <1>4, <2>1, <2>2 DEF t
<1>7. sent'.text = sent.text + text /\ sent'.calls = n /\ sent'.finish = last /\ sent'.usage = FALSE
  <2> HIDE DEF n
  <2> QED
    BY <1>6
<1>8. SentTyped'
  <2>1. sent.text + text \in Nat
    BY <1>3
  <2>2. sent' \in [text : Nat, calls : [D -> Nat], finish : BOOLEAN, usage : BOOLEAN]
    <3> HIDE DEF n, D
    <3> QED
      BY <1>5, <1>6, <2>1
  <2>3. sent'.finish /\ ~wire'.whole => AllSent'
    BY <1>2, <1>7
  <2>4. flow' \in {"open", "ended", "failed"}
    BY <1>1
  <2> QED
    BY <1>1, <1>7, <2>2, <2>3, <2>4 DEF SentTyped
\* What the gate and the filter make of it.
<1> DEFINE c == C(text, call, last)
           passes == call = 0 \/ Passes(call)
<1>9. /\ c = [text |-> IF text = 1 THEN <<sent.text + 1>> ELSE << >>, frags |-> FragsOf(call),
              finish |-> IF last THEN Reason ELSE "none", usage |-> FALSE]
      /\ c.frags = FragsOf(call) /\ c.usage = FALSE
  BY DEF Chunk
<1>10. sent'.calls = [i \in DOMAIN sent.calls |-> IF i = call THEN sent.calls[i] + 1 ELSE sent.calls[i]]
  BY <1>5, <1>7
<1>11. /\ Begun' = Begun \cup {i \in DOMAIN wire.answer.calls : i = call}
       /\ call = 0 => Slots' = Slots
       /\ call # 0 => Slots' = IF Passes(call) THEN Slotted(Slots, PieceOf(call, sent.calls[call] + 1)) ELSE Slots
  <2> HIDE DEF n, D
  <2> QED
    BY <1>1, <1>10, CallsGrow
<1> HIDE DEF C
<1>12. /\ gate' = IF wire.mode = "none" THEN gate ELSE Judged(FragsOf(call))
       /\ IF Filtered(c) = << >> THEN UNCHANGED <<tr, received>> ELSE Translate(Filtered(c)[1])
  <2> HIDE DEF n, D
  <2>1. (IF wire.withhold THEN [c EXCEPT !.usage = FALSE] ELSE c) = c
    <3>1. [c EXCEPT !.usage = FALSE] = c
      BY <1>9
    <3> QED
      BY <3>1
  <2>2. ~(wire.withhold /\ c.usage /\ c.text = << >> /\ c.frags = << >> /\ c.finish = "none")
    BY <1>9
  <2>3. Relay(c)
    BY <1>2
  <2> HIDE DEF c
  <2>4. /\ gate' = IF wire.mode = "none" THEN gate ELSE Judged(c.frags)
        /\ IF Filtered(c) = << >> THEN UNCHANGED <<tr, received>> ELSE Translate(Filtered(c)[1])
    <3> DEFINE seen == IF wire.withhold THEN [c EXCEPT !.usage = FALSE] ELSE c
               dropped == wire.withhold /\ c.usage /\ c.text = << >> /\ c.frags = << >> /\ c.finish = "none"
               relayed == IF dropped THEN << >> ELSE Filtered(seen)
    <3>1. /\ gate' = IF wire.mode = "none" \/ dropped THEN gate ELSE Judged(c.frags)
          /\ IF relayed = << >> THEN UNCHANGED <<tr, received>> ELSE Translate(relayed[1])
      BY <2>3 DEF Relay
    <3>2. seen = c /\ ~dropped
      BY <2>1, <2>2
    <3> HIDE DEF seen, dropped
    <3>3. relayed = Filtered(c)
      BY <3>2
    <3> HIDE DEF relayed
    <3> QED
      BY <3>1, <3>2, <3>3
  <2> QED
    BY <1>9, <2>4
<1>13. GateJudges'
  <2>1. CASE wire.mode = "none"
    BY <1>1, <2>1 DEF GateJudges
  <2>2. CASE wire.mode # "none"
    <3> HIDE DEF n, D, c
    <3> QED
      BY <1>1, <1>11, <1>12, <2>2, GateFollows
  <2> QED
    BY <2>1, <2>2
<1>14. /\ passes => Filtered(c) = <<c>>
       /\ ~passes => Filtered(c) = IF c.text = << >> /\ c.finish = "none" THEN << >>
                                   ELSE <<[c EXCEPT !.frags = << >>,
                                                    !.finish = IF @ = "tool_calls" THEN "stop" ELSE @]>>
  <2> HIDE DEF n, D, c
  <2> QED
    BY <1>1, <1>9, FilterKeeps, ZenonT(40)
<1> DEFINE p == PieceOf(call, sent.calls[call] + 1)
           t == c.text
\* What the text is.
<1>15. /\ t = (IF text = 1 THEN <<sent.text + 1>> ELSE << >>) /\ t \in Seq(Nat)
       /\ Pieces(TextSeen) \o t = Pieces(TextSeen') /\ (t = << >> <=> text = 0)
  <2> HIDE DEF n, D
  <2>1. t = (IF text = 1 THEN <<sent.text + 1>> ELSE << >>)
    BY <1>9
  <2>2. TextSeen = sent.text /\ TextSeen' = sent.text + text
    BY <1>1, <1>7 DEF TextSeen
  <2> HIDE DEF t
  <2>3. CASE text = 1
    <3>1. t = <<sent.text + 1>> /\ t # << >>
      BY <2>1, <2>3
    <3>2. Pieces(sent.text) \o <<sent.text + 1>> = Pieces(sent.text + 1)
      BY <1>3, PiecesGrow
    <3> QED
      <4>1. Pieces(TextSeen) \o t = Pieces(TextSeen')
        BY <2>2, <2>3, <3>1, <3>2
      <4>2. t \in Seq(Nat)
        BY <1>3, <3>1
      <4> QED
        BY <2>1, <2>3, <3>1, <4>1, <4>2
  <2>4. CASE text = 0
    <3>1. t = << >> /\ TextSeen' = TextSeen
      BY <1>3, <2>1, <2>2, <2>4
    <3>2. Pieces(sent.text) \in Seq(Nat)
      BY <1>3, PiecesGrow
    <3>3. Pieces(sent.text) \o << >> = Pieces(sent.text)
      BY <3>2, ConcatEmptySeq
    <3> QED
      BY <2>1, <2>2, <2>4, <3>1, <3>3
  <2> QED
    BY <2>1, <2>3, <2>4
<1>16. c.finish = (IF last THEN Reason ELSE "none") /\ Reason \in {"stop", "tool_calls"} /\ Reason # "none"
  BY <1>9 DEF Reason

\* What of the calls goes on.
<1>17. Merged(Slots, IF passes THEN FragsOf(call) ELSE << >>) = Slots'
  <2>1. CASE call = 0
    <3>1. FragsOf(call) = << >> /\ Slots' = Slots
      BY <1>11, <2>1 DEF FragsOf
    <3> QED
      BY <2>1, <3>1, MergedNone
  <2>2. CASE call # 0 /\ Passes(call)
    <3>1. FragsOf(call) = <<p>>
      BY <2>2 DEF FragsOf
    <3>2. Slots' = Slotted(Slots, p)
      BY <1>11, <2>2
    <3> HIDE DEF p
    <3> QED
      BY <2>2, <3>1, <3>2, MergedOne
  <2>3. CASE call # 0 /\ ~Passes(call)
    <3>1. Slots' = Slots
      BY <1>11, <2>3
    <3> QED
      BY <2>3, <3>1, MergedNone
  <2> QED
    BY <2>1, <2>2, <2>3
<1> HIDE DEF n, D, c, p
<1> DEFINE all == \A i \in DOMAIN wire.answer.calls : Passes(i)
<1>18. all => passes
  <2>1. call # 0 => call \in DOMAIN wire.answer.calls
    BY <1>3
  <2> QED
    BY <2>1
<1>19. ASSUME NEW d, d.text = t, d.frags = IF passes THEN FragsOf(call) ELSE << >>, d.usage = FALSE,
              d.finish = c.finish \/ (~passes /\ d.finish = "stop" /\ c.finish = "tool_calls"), Translate(d)
       PROVE  Assembled'
  <2>1. d.finish \in {"none", "stop", "tool_calls"} /\ (d.finish # "none" <=> last)
    <3> HIDE DEF passes
    <3> QED
      BY <1>16, <1>19
  <2>2. Merged(Slots, d.frags) = Slots'
    BY <1>17, <1>19
  <2>3. d.text \in Seq(Nat) /\ Pieces(TextSeen) \o d.text = Pieces(TextSeen')
    BY <1>15, <1>19
  <2>4. sent'.finish /\ all => d.finish = Reason /\ d.finish # "none"
    <3> HIDE DEF passes, all
    <3> QED
      BY <1>7, <1>16, <1>18, <1>19
  <2> HIDE DEF t, passes
  <2>5. (sent'.usage /\ ~wire.withhold) = ((sent.usage /\ ~wire.withhold) \/ d.usage)
    BY <1>4, <1>7, <1>19
  <2>6. Adds(d)
    BY <1>1, <1>3, <1>7, <1>19, <2>1, <2>2, <2>3, <2>4, <2>5 DEF Adds
  <2> QED
    BY <1>1, <1>19, <2>6, TranslateKeeps
<1>20. Assembled'
  <2>1. CASE passes
    <3>1. Filtered(c) = <<c>> /\ <<c>> # << >>
      <4>1. Filtered(c) = <<c>>
        BY <1>14, <2>1
      <4> QED
        BY <4>1
    <3>2. Translate(c)
      BY <1>12, <3>1
    <3>3. c.frags = IF passes THEN FragsOf(call) ELSE << >>
      BY <1>9, <2>1
    <3> HIDE DEF passes
    <3> QED
      BY <1>9, <1>19, <3>2, <3>3
  <2>2. CASE ~passes /\ ~(t = << >> /\ c.finish = "none")
    <3> DEFINE d == [c EXCEPT !.frags = << >>, !.finish = IF @ = "tool_calls" THEN "stop" ELSE @]
    <3>1. Filtered(c) = <<d>> /\ <<d>> # << >>
      BY <1>14, <2>2
    <3>2. Translate(d)
      <4> HIDE DEF d
      <4> QED
        BY <1>12, <3>1
    <3>3. d.text = t /\ d.frags = << >> /\ d.usage = FALSE /\ d.finish = (IF c.finish = "tool_calls" THEN "stop" ELSE c.finish)
      BY <1>9 DEF c, C, Chunk
    <3> HIDE DEF d
    <3>4. d.frags = IF passes THEN FragsOf(call) ELSE << >>
      BY <2>2, <3>3
    <3>5. d.finish = c.finish \/ (~passes /\ d.finish = "stop" /\ c.finish = "tool_calls")
      <4> HIDE DEF passes
      <4> QED
        BY <2>2, <3>3
    <3> HIDE DEF passes, t
    <3> QED
      BY <1>19, <3>2, <3>3, <3>4, <3>5
  <2>3. CASE ~passes /\ t = << >> /\ c.finish = "none"
    <3>1. Filtered(c) = << >>
      BY <1>14, <2>3
    <3>2. UNCHANGED <<tr, received>>
      BY <1>12, <3>1
    <3>3. ~last /\ sent'.finish = FALSE /\ sent'.usage = FALSE
      BY <1>7, <1>16, <2>3
    <3>4. Slots' = Slots /\ TextSeen' = TextSeen
      <4>1. Slots' = Slots
        BY <1>11, <2>3
      <4>2. text = 0
        BY <1>15, <2>3
      <4>3. TextSeen' = TextSeen
        BY <1>1, <1>3, <1>7, <4>2 DEF TextSeen
      <4> QED
        BY <4>1, <4>3
    <3> HIDE DEF passes, t
    <3>5. sent.usage = FALSE /\ sent.finish = FALSE
      BY <1>1, <1>3, <1>4
    <3> QED
      BY <1>1, <3>2, <3>3, <3>4, <3>5 DEF Assembled
  <2> QED
    BY <2>1, <2>2, <2>3
<1> QED
  BY <1>1, <1>8, <1>13, <1>20 DEF StreamInv

\* The usage chunk adds the usage, or is withheld.
LEMMA UsageChunkKeeps ==
    ASSUME WireTypes, StreamInv, UsageChunk
    PROVE  StreamInv'
<1> DEFINE c == Chunk(<< >>, << >>, "none", TRUE)
<1>1. /\ flow = "open" /\ sent.finish /\ ~sent.usage /\ wire' = wire /\ flow' = flow
      /\ sent' = [sent EXCEPT !.usage = TRUE] /\ Relay(c)
      /\ SentTyped /\ GateJudges /\ Assembled
  BY DEF UsageChunk, StreamInv
<1>2. /\ sent.finish \in BOOLEAN /\ sent.usage \in BOOLEAN /\ wire.withhold \in BOOLEAN
      /\ wire.mode \in {"none", "flag", "block"} /\ wire.answer.text \in Nat /\ sent.text \in Nat
  BY <1>1, SentParts
<1> DEFINE D == DOMAIN wire.answer.calls
<1>3. sent \in [text : Nat, calls : [D -> Nat], finish : BOOLEAN, usage : BOOLEAN]
  BY <1>1 DEF SentTyped
<1>4. /\ sent'.text = sent.text /\ sent'.calls = sent.calls /\ sent'.finish = sent.finish /\ sent'.usage = TRUE
      /\ sent' \in [text : Nat, calls : [D -> Nat], finish : BOOLEAN, usage : BOOLEAN]
  <2> HIDE DEF D
  <2> QED
    BY <1>1, <1>3
<1>5. SentTyped'
  <2>1. AllSent' = AllSent
    BY <1>1, <1>4 DEF AllSent
  <2>2. sent'.finish /\ ~wire'.whole => AllSent'
    BY <1>1, <1>4, <2>1 DEF SentTyped
  <2>3. flow' \in {"open", "ended", "failed"}
    BY <1>1
  <2> QED
    BY <1>1, <1>4, <2>2, <2>3 DEF SentTyped
<1>6. Begun' = Begun /\ Slots' = Slots /\ TextSeen' = TextSeen
  <2>1. \A i \in D : Seen(i)' = Seen(i)
    BY <1>1, <1>4 DEF Seen
  <2>2. Begun' = Begun
    BY <1>1, <2>1 DEF Begun
  <2>3. Slots = [i \in {j \in Begun : Passes(j)} |-> Slot(i, Seen(i) - 1)]
    BY DEF Slots
  <2>4. Slots' = [i \in {j \in Begun : Passes(j)} |-> Slot(i, Seen(i)' - 1)]
    BY <1>1, <2>2 DEF Slots, Slot, Passes
  <2>5. \A i \in Begun : i \in D
    BY DEF Begun
  <2>6. TextSeen' = TextSeen
    BY <1>1, <1>4 DEF TextSeen
  <2> HIDE DEF D
  <2>7. Slots' = Slots
    BY <2>1, <2>3, <2>4, <2>5
  <2> QED
    BY <2>2, <2>6, <2>7
<1>7. c = [text |-> << >>, frags |-> << >>, finish |-> "none", usage |-> TRUE]
  BY DEF Chunk
<1> HIDE DEF c, D
<1>8. c.text = << >> /\ c.frags = << >> /\ c.finish = "none" /\ c.usage = TRUE
  BY <1>7

\* What the gate and the filter make of it.
<1>9. /\ gate' = IF wire.mode = "none" \/ wire.withhold THEN gate ELSE Judged(<< >>)
      /\ IF wire.withhold THEN UNCHANGED <<tr, received>> ELSE Translate(c)
  <2> DEFINE seen == IF wire.withhold THEN [c EXCEPT !.usage = FALSE] ELSE c
             dropped == wire.withhold /\ c.usage /\ c.text = << >> /\ c.frags = << >> /\ c.finish = "none"
             relayed == IF dropped THEN << >> ELSE Filtered(seen)
  <2>1. /\ gate' = IF wire.mode = "none" \/ dropped THEN gate ELSE Judged(c.frags)
        /\ IF relayed = << >> THEN UNCHANGED <<tr, received>> ELSE Translate(relayed[1])
    BY <1>1 DEF Relay
  <2>2. dropped <=> wire.withhold
    BY <1>8
  <2>3. ~wire.withhold => seen = c
    OBVIOUS
  <2>4. Filtered(c) = <<c>>
    <3> DEFINE K == {i \in DOMAIN c.frags : Kept(c.frags[i])}
    <3>1. K = {}
      BY <1>8
    <3>2. << >> \in Seq(Nat)
      OBVIOUS
    <3> HIDE DEF K
    <3>3. Taken(c.frags, K) = c.frags
      BY <1>8, <3>1, <3>2, TakenAll
    <3> QED
      BY <3>3 DEF Filtered, K
  <2> HIDE DEF seen, dropped
  <2>5. CASE wire.withhold
    BY <2>1, <2>2, <2>5
  <2>6. CASE ~wire.withhold
    <3>1. relayed = <<c>>
      BY <2>2, <2>3, <2>4, <2>6
    <3>2. <<c>> # << >> /\ <<c>>[1] = c
      OBVIOUS
    <3> HIDE DEF relayed
    <3> QED
      BY <1>8, <2>1, <2>2, <2>6, <3>1, <3>2
  <2> QED
    BY <2>5, <2>6
<1>10. GateJudges'
  <2>1. CASE wire.whole \/ wire.mode = "none"
    BY <1>1, <2>1 DEF GateJudges
  <2>2. CASE ~wire.whole /\ wire.mode # "none"
    <3> DEFINE ok(i) == wire.answer.calls[i].name \notin Denied
    <3>1. gate = [i \in Begun |-> ok(i)]
      BY <1>1, <2>2 DEF GateJudges
    <3> HIDE DEF ok
    <3>2. ToSet(<< >>) = {}
      BY DEF ToSet
    <3>3. {f.index : f \in {g \in ToSet(<< >>) : g.name # "none"}} = {}
      BY <3>2
    <3>4. Judged(<< >>) = gate
      BY <3>1, <3>3 DEF Judged
    <3>5. gate' = [i \in Begun' |-> ok(i)]
      BY <1>6, <1>9, <3>1, <3>4
    <3> QED
      BY <1>1, <3>5 DEF GateJudges, ok
  <2> QED
    BY <2>1, <2>2
<1>11. Assembled'
  <2>1. CASE wire.withhold
    <3>1. UNCHANGED <<tr, received>>
      BY <1>9, <2>1
    <3>2. (sent'.usage /\ ~wire.withhold) = (sent.usage /\ ~wire.withhold)
      BY <2>1
    <3> DEFINE a == sent'.usage /\ ~wire.withhold
               b == sent.usage /\ ~wire.withhold
    <3>3. tr = [text |-> tr.text, calls |-> Slots, stop |-> tr.stop, usage |-> b, started |-> tr.started]
      BY <1>1 DEF Assembled
    <3>4. tr' = [text |-> tr'.text, calls |-> Slots', stop |-> tr'.stop, usage |-> a, started |-> tr'.started]
      <4>1. a = b
        BY <3>2
      <4> HIDE DEF a, b
      <4> QED
        BY <1>6, <3>1, <3>3, <4>1
    <3>5. Reason' = Reason /\ \A i \in DOMAIN wire.answer.calls : Passes(i)' = Passes(i)
      BY <1>1 DEF Reason, Passes
    <3>6. received' = [text |-> received'.text, calls |-> IF wire.proto = "openai" THEN Slots' ELSE << >>,
                     stop |-> received'.stop, usage |-> wire.proto = "openai" /\ tr'.usage,
                     starts |-> IF wire.proto = "anthropic" /\ tr'.started THEN 1 ELSE 0, ended |-> FALSE]
      BY <1>1, <1>6, <3>1 DEF Assembled
    <3>7. /\ tr'.started \in BOOLEAN
          /\ {tr'.text, received'.text} \subseteq Seq(Nat) /\ received'.text \o tr'.text = Pieces(TextSeen')
          /\ ~(wire.proto = "gemini" /\ sent'.finish) => tr'.text = << >>
      BY <1>1, <1>4, <1>6, <3>1 DEF Assembled
    <3>8. (\A i \in DOMAIN wire.answer.calls : Passes(i)) =>
             tr'.stop = Reason /\ (wire.proto = "openai" => received'.stop = Reason)
      BY <1>1, <3>1 DEF Assembled
    <3> QED
      BY <1>1, <3>4, <3>5, <3>6, <3>7, <3>8 DEF Assembled
  <2>2. CASE ~wire.withhold
    <3>1. Translate(c)
      BY <1>9, <2>2
    <3>2. Merged(Slots, c.frags) = Slots'
      BY <1>6, <1>8, MergedNone
    <3>3. c.text \in Seq(Nat) /\ Pieces(TextSeen) \o c.text = Pieces(TextSeen')
      <4>1. Pieces(TextSeen) \in Seq(Nat)
        <5>1. TextSeen \in Nat
          BY <1>2 DEF TextSeen
        <5> QED
          BY <5>1, PiecesGrow
      <4>2. Pieces(TextSeen) \o << >> = Pieces(TextSeen)
        BY <4>1, ConcatEmptySeq
      <4>3. << >> \in Seq(Nat)
        OBVIOUS
      <4> QED
        BY <1>6, <1>8, <4>2, <4>3
    <3>4. (sent'.usage /\ ~wire.withhold) = ((sent.usage /\ ~wire.withhold) \/ c.usage)
      BY <1>4, <1>8, <2>2
    <3>5. Adds(c)
      BY <1>1, <1>2, <1>4, <1>8, <3>2, <3>3, <3>4 DEF Adds
    <3> QED
      BY <1>1, <3>1, <3>5, TranslateKeeps
  <2> QED
    BY <2>1, <2>2
<1> QED
  BY <1>1, <1>5, <1>10, <1>11 DEF StreamInv

\* A whole body as one chunk brings the whole answer.
LEMMA OneShotKeeps ==
    ASSUME WireTypes, StreamInv, OneShot
    PROVE  StreamInv'
<1> DEFINE c == Chunk(AllText, Indexed(wire.answer.calls), Reason, wire.proto # "openai")
           cs == wire.answer.calls
           D == DOMAIN cs
<1>1. /\ flow = "open" /\ wire.stream /\ wire.whole /\ ~sent.finish /\ wire' = wire /\ flow' = flow /\ gate' = gate
      /\ sent' = [sent EXCEPT !.finish = TRUE, !.usage = wire.proto # "openai"] /\ Translate(c)
      /\ SentTyped /\ GateJudges /\ Assembled
  BY DEF OneShot, StreamInv
<1>2. /\ sent.finish \in BOOLEAN /\ sent.usage \in BOOLEAN /\ wire.withhold \in BOOLEAN /\ wire.proto \in Protocols
      /\ wire.answer.text \in Nat /\ cs \in Seq([name : ToolNames, args : Nat])
      /\ \A i \in D : cs[i].args \in Nat
  BY <1>1, SentParts
<1>3. wire.mode = "none" /\ (wire.withhold => wire.proto = "openai") /\ sent.usage = FALSE
  BY <1>1, <1>2 DEF SentTyped
<1>4. sent \in [text : Nat, calls : [D -> Nat], finish : BOOLEAN, usage : BOOLEAN]
  BY <1>1 DEF SentTyped
<1>5. /\ sent'.text = sent.text /\ sent'.calls = sent.calls /\ sent'.finish = TRUE
      /\ sent'.usage = (wire.proto # "openai")
      /\ sent' \in [text : Nat, calls : [D -> Nat], finish : BOOLEAN, usage : BOOLEAN]
  <2> DEFINE u == wire.proto # "openai"
  <2>1. u \in BOOLEAN /\ sent' = [sent EXCEPT !.finish = TRUE, !.usage = u]
    BY <1>1
  <2> HIDE DEF D, u
  <2>2. /\ sent'.text = sent.text /\ sent'.calls = sent.calls /\ sent'.finish = TRUE /\ sent'.usage = u
        /\ sent' \in [text : Nat, calls : [D -> Nat], finish : BOOLEAN, usage : BOOLEAN]
    BY <1>4, <2>1
  <2> QED
    BY <2>2 DEF u
<1>6. SentTyped'
  <2>1. flow' \in {"open", "ended", "failed"}
    BY <1>1
  <2> QED
    BY <1>1, <1>5, <2>1 DEF SentTyped
<1>7. GateJudges'
  BY <1>1 DEF GateJudges
<1>8. \A i \in D : Passes(i)
  BY <1>3 DEF Passes
<1>9. Slots = << >> /\ TextSeen = 0
  <2>1. Begun = {} /\ TextSeen = 0
    BY <1>1 DEF Begun, Seen, TextSeen
  <2> QED
    BY <2>1 DEF Slots
<1>10. TextSeen' = wire.answer.text
  BY <1>1, <1>5 DEF TextSeen
<1>11. Slots' = [i \in D |-> [id |-> i, name |-> cs[i].name, args |-> AllArgs(cs[i])]]
  <2>1. \A i \in D : Seen(i)' = cs[i].args + 1
    BY <1>1, <1>5 DEF Seen
  <2>2. \A i \in D : Seen(i)' > 0 /\ Seen(i)' - 1 = cs[i].args
    <3> HIDE DEF cs, D
    <3> QED
      BY <1>2, <2>1
  <2>3. Begun' = D
    BY <1>1, <2>2 DEF Begun
  <2>4. {j \in Begun' : Passes(j)'} = D
    <3>1. \A j \in D : Passes(j)'
      BY <1>1, <1>3 DEF Passes
    <3> HIDE DEF D
    <3> QED
      BY <2>3, <3>1
  <2>5. Slots' = [i \in D |-> [id |-> i, name |-> cs[i].name, args |-> Pieces(Seen(i)' - 1)]]
    BY <1>1, <2>4 DEF Slots, Slot, Pieces
  <2>6. \A i \in D : Pieces(Seen(i)' - 1) = AllArgs(cs[i])
    <3> HIDE DEF cs, D
    <3>1. \A i \in D : Pieces(Seen(i)' - 1) = Pieces(cs[i].args)
      BY <2>2
    <3> QED
      BY <3>1 DEF Pieces, AllArgs
  <2> HIDE DEF D, cs
  <2> QED
    BY <2>5, <2>6
<1>12. c = [text |-> AllText, frags |-> Indexed(cs), finish |-> Reason, usage |-> wire.proto # "openai"]
  BY DEF Chunk
<1>13. Merged(Slots, c.frags) = Slots'
  <2>1. "none" \notin ToolNames /\ c.frags = Indexed(cs)
    BY <1>12 DEF WireTypes
  <2> HIDE DEF c, cs
  <2>2. Merged(<< >>, Indexed(cs)) = [i \in DOMAIN cs |-> [id |-> i, name |-> cs[i].name, args |-> AllArgs(cs[i])]]
    BY <1>2, <2>1, MergedIndexed
  <2> QED
    BY <1>9, <1>11, <2>1, <2>2
<1>14. c.text \in Seq(Nat) /\ Pieces(TextSeen) \o c.text = Pieces(TextSeen')
  <2>1. c.text = Pieces(wire.answer.text)
    <3>1. AllText = Pieces(wire.answer.text)
      BY DEF AllText, Pieces
    <3> HIDE DEF c
    <3> QED
      BY <1>12, <3>1
  <2>2. Pieces(wire.answer.text) \in Seq(Nat) /\ Pieces(0) = << >>
    BY <1>2, PiecesGrow
  <2>3. << >> \o Pieces(wire.answer.text) = Pieces(wire.answer.text)
    BY <2>2, ConcatEmptySeq
  <2> HIDE DEF c
  <2> QED
    BY <1>9, <1>10, <2>1, <2>2, <2>3
<1>15. c.finish = Reason /\ Reason \in {"stop", "tool_calls"} /\ c.usage = (wire.proto # "openai")
  BY <1>12 DEF Reason
<1>16. (sent'.usage /\ ~wire.withhold) = ((sent.usage /\ ~wire.withhold) \/ c.usage)
  BY <1>3, <1>5, <1>15
<1> HIDE DEF c, cs, D
<1>17. Adds(c)
  <2>1. c.usage \in BOOLEAN
    BY <1>15
  <2>2. c.finish \in {"none", "stop", "tool_calls"} /\ c.finish # "none" /\ c.finish = Reason
    BY <1>15
  <2>3. sent.finish = FALSE /\ sent'.finish = TRUE
    BY <1>1, <1>2, <1>5
  <2> QED
    BY <1>13, <1>14, <1>16, <2>1, <2>2, <2>3 DEF Adds
<1>18. Assembled'
  BY <1>1, <1>17, TranslateKeeps
<1> QED
  BY <1>1, <1>6, <1>7, <1>18 DEF StreamInv

\* The calls that a client may have, and when they are all.
May == {i \in DOMAIN wire.answer.calls : Passes(i)}
WholeSlot(i) == [id |-> i, name |-> wire.answer.calls[i].name, args |-> AllArgs(wire.answer.calls[i])]

\* What may pass, taken in order, is what is permitted.
LEMMA PermittedIs ==
    ASSUME WireTypes, SentTyped
    PROVE  /\ \A s : (\A i \in May : s[i] = WholeSlot(i)) => Taken(s, May) = Permitted
           /\ Len(Permitted) = Len(wire.answer.calls) => \A i \in DOMAIN wire.answer.calls : Passes(i)
<1> DEFINE n == Len(wire.answer.calls)
           D == DOMAIN wire.answer.calls
           whole == [i \in D |-> WholeSlot(i)]
<1>1. n \in Nat /\ D = 1 .. n
  BY SentParts
<1>2. Permitted = Taken(whole, May)
  <2>1. \A i \in D : whole[i].name = wire.answer.calls[i].name
    BY DEF WholeSlot
  <2>2. {i \in D : wire.mode = "block" => whole[i].name \notin Denied} = May
    <3> HIDE DEF whole
    <3> QED
      BY <2>1 DEF May, Passes
  <2>3. Permitted = Taken(whole, {i \in D : wire.mode = "block" => whole[i].name \notin Denied})
    BY DEF Permitted, WholeSlot
  <2> HIDE DEF whole, D
  <2> QED
    BY <2>2, <2>3
<1>3. May \in SUBSET D
  BY DEF May
<1> HIDE DEF n, D
<1>4. ASSUME NEW s, \A i \in May : s[i] = WholeSlot(i) PROVE Taken(s, May) = Permitted
  <2>1. \A i \in May : s[i] = whole[i]
    BY <1>3, <1>4
  <2> HIDE DEF whole
  <2>2. May \in SUBSET (1 .. n)
    BY <1>1, <1>3
  <2>3. Taken(s, May) = Taken(whole, May)
    BY <1>1, <2>1, <2>2, TakenSame
  <2> QED
    BY <1>2, <2>3
<1>5. ASSUME Len(Permitted) = n PROVE \A i \in D : Passes(i)
  <2> DEFINE M == {whole[i] : i \in D}
  <2>1. whole \in Seq(M) /\ DOMAIN whole = D
    <3>1. whole \in [1 .. n -> M]
      BY <1>1
    <3> HIDE DEF whole, M
    <3> QED
      BY <1>1, <3>1
  <2> HIDE DEF whole, M
  <2>2. Len(Taken(whole, May)) = Cardinality(May)
    BY <1>3, <2>1, TakenHolds
  <2>3. May = 1 .. n
    <3>1. Cardinality(May) = n /\ May \in SUBSET (1 .. n)
      BY <1>1, <1>2, <1>3, <1>5, <2>2
    <3> QED
      BY <1>1, <3>1, AllOfThem
  <2> QED
    BY <1>1, <2>3 DEF May
<1> QED
  BY <1>4, <1>5 DEF n, D

\* The end of a stream.
LEMMA SourceEndsKeeps ==
    ASSUME WireTypes, StreamInv, SourceEnds
    PROVE  StreamInv'
<1> DEFINE D == DOMAIN wire.answer.calls
           openai == wire.proto = "openai"
<1>1. /\ flow = "open" /\ sent.finish /\ sent.usage /\ flow' = "ended" /\ received' = OnFinish
      /\ wire' = wire /\ sent' = sent /\ gate' = gate /\ tr' = tr
      /\ SentTyped /\ GateJudges /\ Assembled
  BY DEF SourceEnds, StreamInv
<1>2. /\ wire.whole \in BOOLEAN /\ wire.withhold \in BOOLEAN /\ wire.proto \in Protocols /\ wire.answer.text \in Nat
      /\ D = 1 .. Len(wire.answer.calls) /\ Len(wire.answer.calls) \in Nat
      /\ \A i \in D : wire.answer.calls[i].args \in Nat /\ wire.answer.calls[i].name \in ToolNames
  BY <1>1, SentParts
<1>3. SentTyped' /\ GateJudges'
  BY <1>1 DEF SentTyped, GateJudges, AllSent, Begun, Seen

\* All of the answer has arrived.
<1>4. TextSeen = wire.answer.text /\ \A i \in D : Seen(i) = wire.answer.calls[i].args + 1
  BY <1>1, <1>2 DEF SentTyped, AllSent, TextSeen, Seen
<1>5. Slots = [i \in May |-> WholeSlot(i)]
  <2>1. Begun = D
    <3>1. \A i \in D : Seen(i) > 0
      BY <1>2, <1>4
    <3> QED
      BY <3>1 DEF Begun
  <2>2. \A i \in D : Slot(i, Seen(i) - 1) = WholeSlot(i)
    <3>1. ASSUME NEW i \in D PROVE Slot(i, Seen(i) - 1) = WholeSlot(i)
      <4>1. Seen(i) - 1 = wire.answer.calls[i].args
        BY <1>2, <1>4
      <4>2. Pieces(Seen(i) - 1) = AllArgs(wire.answer.calls[i])
        BY <4>1 DEF Pieces, AllArgs
      <4> QED
        BY <4>2 DEF Slot, WholeSlot
    <3> QED
      BY <3>1
  <2>3. Slots = [i \in May |-> Slot(i, Seen(i) - 1)]
    BY <2>1 DEF Slots, May
  <2>4. \A i \in May : i \in D
    BY DEF May
  <2> QED
    BY <2>2, <2>3, <2>4
<1>6. DOMAIN Slots = May /\ \A i \in May : Slots[i] = WholeSlot(i)
  BY <1>5
<1>7. Taken(Slots, May) = Permitted
  BY <1>1, <1>6, PermittedIs
<1> DEFINE all == \A i \in D : Passes(i)
<1>8. Len(Permitted) = Len(wire.answer.calls) => all
  BY <1>1, PermittedIs
<1> DEFINE u == sent.usage /\ ~wire.withhold
           s == IF wire.proto = "anthropic" /\ tr.started THEN 1 ELSE 0
           k == IF openai THEN Slots ELSE << >>
           v == openai /\ tr.usage
<1>9. /\ tr = [text |-> tr.text, calls |-> Slots, stop |-> tr.stop, usage |-> u, started |-> tr.started]
      /\ received = [text |-> received.text, calls |-> k, stop |-> received.stop, usage |-> v, starts |-> s, ended |-> FALSE]
      /\ tr.started \in BOOLEAN
      /\ received.text \in Seq(Nat) /\ received.text \o tr.text = Pieces(TextSeen)
      /\ openai => tr.text = << >>
      /\ all => tr.stop = Reason /\ (openai => received.stop = Reason)
  BY <1>1 DEF Assembled
<1>10. u = (~wire.withhold)
  BY <1>1
<1> HIDE DEF u, s, k, v, all
<1>11. tr.calls = Slots /\ tr.usage = u /\ received.calls = k /\ received.usage = v /\ received.starts = s
  BY <1>9
<1>12. Pieces(TextSeen) = AllText
  BY <1>4 DEF Pieces, AllText
<1>13. ASSUME openai PROVE TerminalMeansWhole'
  <2>1. received' = [received EXCEPT !.ended = TRUE]
    BY <1>1, <1>13 DEF OnFinish
  <2>2. k = Slots /\ v = u
    <3>1. v = (openai /\ u)
      BY <1>11 DEF v
    <3>2. u \in BOOLEAN
      BY DEF u
    <3> QED
      BY <1>13, <3>1, <3>2 DEF k
  <2>3. received.text = AllText
    <3>1. received.text \o << >> = received.text
      BY <1>9, ConcatEmptySeq
    <3> QED
      BY <1>9, <1>12, <1>13, <3>1
  <2> DEFINE ct == received.text
             cs == received.stop
  <2>4. received = [text |-> ct, calls |-> k, stop |-> cs, usage |-> v, starts |-> s, ended |-> FALSE]
    BY <1>9
  <2> HIDE DEF ct, cs
  <2>5. received' = [text |-> ct, calls |-> k, stop |-> cs, usage |-> v, starts |-> s, ended |-> TRUE]
    BY <2>1, <2>4
  <2>6. received'.text = AllText /\ received'.calls = Slots /\ received'.usage = u /\ received'.stop = received.stop
    BY <2>2, <2>3, <2>5 DEF ct, cs
  <2>7. ClientCalls' = Permitted
    <3>1. ClientCalls' = Taken(received'.calls, DOMAIN received'.calls)
      BY <1>1, <1>13 DEF ClientCalls, InOrder
    <3> QED
      BY <1>6, <1>7, <2>6, <3>1
  <2>8. Permitted' = Permitted /\ Reason' = Reason /\ AllText' = AllText
    BY <1>1 DEF Permitted, Reason, AllText
  <2>9. Len(Permitted) = Len(wire.answer.calls) => received'.stop = Reason
    BY <1>8, <1>9, <1>13, <2>6
  <2> QED
    BY <1>1, <1>10, <1>13, <2>6, <2>7, <2>8, <2>9 DEF TerminalMeansWhole
<1>14. ASSUME ~openai PROVE TerminalMeansWhole'
  <2> DEFINE x == received.text \o tr.text
             w == SlotsInOrder
             st == tr.stop
             us == tr.usage
             a == Started
  <2>1. received' = [starts |-> a, text |-> x, calls |-> w, stop |-> st, usage |-> us, ended |-> TRUE]
    BY <1>1, <1>14 DEF OnFinish
  <2>2. x = AllText
    BY <1>9, <1>12
  <2>3. w = Permitted
    <3>1. \A i \in May : Slots[i].name # "none"
      <4>1. \A i \in May : Slots[i].name = wire.answer.calls[i].name /\ i \in D
        <5>1. \A i \in May : WholeSlot(i).name = wire.answer.calls[i].name
          BY DEF WholeSlot
        <5>2. \A i \in May : i \in D
          BY DEF May
        <5> QED
          BY <1>6, <5>1, <5>2
      <4>2. "none" \notin ToolNames
        BY DEF WireTypes
      <4> QED
        BY <1>2, <4>1, <4>2
    <3>2. {i \in DOMAIN Slots : wire.proto = "gemini" => Slots[i].name # "none"} = May
      BY <1>6, <3>1
    <3>3. w = Taken(tr.calls, {i \in DOMAIN tr.calls : wire.proto = "gemini" => tr.calls[i].name # "none"})
      BY DEF SlotsInOrder
    <3> HIDE DEF w
    <3>4. w = Taken(Slots, {i \in DOMAIN Slots : wire.proto = "gemini" => Slots[i].name # "none"})
      BY <1>11, <3>3
    <3> QED
      BY <1>7, <3>2, <3>4
  <2>4. wire.proto = "anthropic" => a = 1
    BY <1>9, <1>11 DEF Started, s
  <2> HIDE DEF x, w, a, st, us
  <2>5. /\ received'.text = AllText /\ received'.calls = Permitted /\ received'.usage = us /\ received'.stop = st
        /\ received'.starts = a
    BY <2>1, <2>2, <2>3
  <2>6. us = u
    BY <1>11 DEF us
  <2>7. ClientCalls' = Permitted
    BY <1>1, <1>14, <2>5 DEF ClientCalls
  <2>8. Permitted' = Permitted /\ Reason' = Reason /\ AllText' = AllText
    BY <1>1 DEF Permitted, Reason, AllText
  <2>9. Len(Permitted) = Len(wire.answer.calls) => received'.stop = Reason
    BY <1>8, <1>9, <2>5 DEF st
  <2> QED
    BY <1>1, <1>10, <2>4, <2>5, <2>6, <2>7, <2>8, <2>9 DEF TerminalMeansWhole
<1>15. TerminalMeansWhole'
  BY <1>13, <1>14
<1> QED
  BY <1>1, <1>3, <1>15 DEF StreamInv

\* A whole body in the client's form.
LEMMA BodyKeeps ==
    ASSUME WireTypes, StreamInv, Body
    PROVE  StreamInv'
<1> DEFINE cs == wire.answer.calls
           D == DOMAIN cs
           openai == wire.proto = "openai"
           merged == Merged(<< >>, Indexed(cs))
           each == [i \in DOMAIN Indexed(cs) |-> Slotted(<< >>, Indexed(cs)[i])[Indexed(cs)[i].index]]
           k == IF openai THEN merged ELSE each
<1>1. /\ flow = "open" /\ ~wire.stream /\ flow' = "ended"
      /\ wire' = wire /\ sent' = sent /\ gate' = gate /\ tr' = tr
      /\ SentTyped /\ GateJudges
  BY DEF Body, StreamInv
<1>2. received' = [text |-> AllText, calls |-> k, stop |-> Reason, usage |-> TRUE, starts |-> 0, ended |-> TRUE]
  <2>1. BodyCalls = k
    BY DEF BodyCalls, NoClient
  <2> HIDE DEF k
  <2> QED
    BY <2>1 DEF Body, WholeBody, NoClient
<1>3. /\ wire.withhold \in BOOLEAN /\ D = 1 .. Len(cs) /\ Len(cs) \in Nat
      /\ cs \in Seq([name : ToolNames, args : Nat])
  BY <1>1, SentParts
<1>4. SentTyped' /\ GateJudges'
  BY <1>1 DEF SentTyped, GateJudges, AllSent, Begun, Seen
<1>5. wire.mode = "none" /\ wire.withhold = FALSE
  BY <1>1, <1>3 DEF SentTyped
<1>6. May = D
  BY <1>5 DEF May, Passes
<1>7. merged = [i \in D |-> WholeSlot(i)] /\ each = [i \in D |-> WholeSlot(i)]
  <2> DEFINE slot(i) == [id |-> i, name |-> cs[i].name, args |-> AllArgs(cs[i])]
  <2>1. DOMAIN Indexed(cs) = D
    BY DEF Indexed
  <2>2. "none" \notin ToolNames
    BY DEF WireTypes
  <2>3. \A i \in D : slot(i) = WholeSlot(i)
    BY DEF WholeSlot
  <2> HIDE DEF cs
  <2>4. merged = [i \in D |-> slot(i)] /\ \A i \in D : Slotted(<< >>, Indexed(cs)[i])[Indexed(cs)[i].index] = slot(i)
    BY <1>3, <2>2, MergedIndexed
  <2>5. each = [i \in D |-> Slotted(<< >>, Indexed(cs)[i])[Indexed(cs)[i].index]]
    BY <2>1
  <2> HIDE DEF merged, each, slot, D
  <2>6. merged = [i \in D |-> WholeSlot(i)]
    BY <2>3, <2>4
  <2>7. each = [i \in D |-> WholeSlot(i)]
    BY <2>3, <2>4, <2>5
  <2> QED
    BY <2>6, <2>7
<1> HIDE DEF merged, each
<1>8. k = [i \in D |-> WholeSlot(i)]
  BY <1>7
<1> HIDE DEF k
<1>9. DOMAIN k = D /\ \A i \in D : k[i] = WholeSlot(i)
  BY <1>8
<1>10. Taken(k, D) = Permitted /\ Taken(k, D) = k
  <2>1. Taken(k, D) = Permitted
    BY <1>1, <1>6, <1>9, PermittedIs
  <2> DEFINE M == {WholeSlot(i) : i \in D}
             n == Len(cs)
  <2>2. k \in [1 .. n -> M] /\ n \in Nat
    <3>1. k \in [D -> M]
      BY <1>8
    <3> HIDE DEF M, D
    <3> QED
      BY <1>3, <3>1
  <2> HIDE DEF M, n, D
  <2>3. k \in Seq(M)
    BY <2>2
  <2>4. Taken(k, D) = k
    BY <1>9, <2>3, TakenAll
  <2> QED
    BY <2>1, <2>4
<1> HIDE DEF D
<1>11. received'.text = AllText /\ received'.calls = k /\ received'.stop = Reason /\ received'.usage = TRUE
  BY <1>2
<1>12. ClientCalls' = Permitted
  <2>1. CASE openai
    BY <1>1, <1>9, <1>10, <1>11, <2>1 DEF ClientCalls, InOrder
  <2>2. CASE ~openai
    BY <1>1, <1>10, <1>11, <2>2 DEF ClientCalls
  <2> QED
    BY <2>1, <2>2
<1>13. Permitted' = Permitted /\ Reason' = Reason /\ AllText' = AllText
  BY <1>1 DEF Permitted, Reason, AllText
<1>14. TerminalMeansWhole'
  BY <1>1, <1>5, <1>11, <1>12, <1>13 DEF TerminalMeansWhole
<1> QED
  BY <1>1, <1>4, <1>14 DEF StreamInv

\* A stream that fails, and one that does not move.
LEMMA StreamStays ==
    ASSUME StreamInv, UNCHANGED <<wire, sent, gate, tr, received>>, flow' = flow \/ SourceFails
    PROVE  StreamInv'
<1>1. SentTyped /\ GateJudges /\ flow' \in {"open", "ended", "failed"}
  <2>1. flow \in {"open", "ended", "failed"}
    BY DEF StreamInv, SentTyped
  <2> QED
    BY <2>1 DEF StreamInv, SourceFails
<1>2. SentTyped' /\ GateJudges'
  BY <1>1 DEF SentTyped, GateJudges, AllSent, Begun, Seen
<1>3. Slots' = Slots /\ TextSeen' = TextSeen
  BY DEF Slots, Slot, Begun, Passes, Seen, TextSeen
<1>4. ASSUME Assembled PROVE Assembled'
  <2>1. Reason' = Reason /\ Pieces(TextSeen)' = Pieces(TextSeen)
    BY <1>3 DEF Reason
  <2>2. (\A i \in DOMAIN wire'.answer.calls : Passes(i)') <=> (\A i \in DOMAIN wire.answer.calls : Passes(i))
    BY DEF Passes
  <2> DEFINE all == \A i \in DOMAIN wire.answer.calls : Passes(i)
  <2>3. (\A i \in DOMAIN wire'.answer.calls : Passes(i)') <=> all
    BY <2>2
  <2> HIDE DEF all
  <2> QED
    BY <1>3, <1>4, <2>1, <2>3 DEF Assembled, all
<1>5. CASE flow' = flow
  <2>1. CASE flow = "ended"
    <3>1. TerminalMeansWhole
      BY <2>1 DEF StreamInv
    <3>2. TerminalMeansWhole'
      BY <1>5, <3>1 DEF TerminalMeansWhole, ClientCalls, InOrder, Permitted, Reason, AllText
    <3> QED
      BY <1>2, <1>5, <2>1, <3>2 DEF StreamInv
  <2>2. CASE flow # "ended"
    BY <1>2, <1>4, <1>5, <2>2 DEF StreamInv
  <2> QED
    BY <2>1, <2>2
<1>6. CASE SourceFails
  <2>1. flow = "open" /\ flow' = "failed"
    BY <1>6 DEF SourceFails
  <2> QED
    BY <1>2, <1>4, <2>1 DEF StreamInv
<1> QED
  BY <1>5, <1>6

\* Only a stream that ended has given its client the terminal frame.
LEMMA StreamWhole ==
    ASSUME StreamInv
    PROVE  TerminalMeansWhole
<1>1. flow # "ended" => received.ended = FALSE
  BY DEF StreamInv, Assembled
<1> QED
  BY <1>1 DEF StreamInv, TerminalMeansWhole

\* Every step of the stream keeps it.
LEMMA StreamKeeps ==
    ASSUME WireTypes, StreamInv, StreamNext
    PROVE  StreamInv'
<1>1. CASE SourceFails
  BY <1>1, StreamStays DEF SourceFails
<1> QED
  BY <1>1, NextChunkKeeps, UsageChunkKeeps, OneShotKeeps, BodyKeeps, SourceEndsKeeps DEF StreamNext

\* Before any message nothing is open.
LEMMA InStarts ==
    ASSUME InInit
    PROVE  InInv
<1>1. /\ inbound.proto \in {"anthropic", "gemini"} /\ inbound.open = [k \in ToolNames |-> << >>]
      /\ inbound.next = 1 /\ inbound.messages = 0 /\ inbound.blocks = 0 /\ parsed = << >>
      /\ inbound \in [proto : {"anthropic", "gemini"}, open : {[k \in ToolNames |-> << >>]},
                      next : {1}, messages : {0}, blocks : {0}]
  BY DEF InInit
<1>2. \A k \in ToolNames : inbound.open[k] = << >>
  BY <1>1
<1>3. DOMAIN << >> = {} /\ << >> \in Seq(CallIds) /\ << >> \in Seq(MessageType)
  OBVIOUS
<1>4. InTyped
  <2> DEFINE o == [k \in ToolNames |-> << >>]
             p == inbound.proto
  <2>1. o \in [ToolNames -> Seq(CallIds)]
    BY <1>3
  <2>2. inbound = [proto |-> p, open |-> o, next |-> 1, messages |-> 0, blocks |-> 0]
    <3>1. inbound.open = o
      BY <1>1
    <3>2. PICK q \in {"anthropic", "gemini"}, e \in {o} :
            inbound = [proto |-> q, open |-> e, next |-> 1, messages |-> 0, blocks |-> 0]
      <4> HIDE DEF o
      <4> QED
        BY <1>1 DEF o
    <3> QED
      BY <3>2
  <2>3. inbound \in [proto : {"anthropic", "gemini"}, open : [ToolNames -> Seq(CallIds)],
                     next : Nat \ {0}, messages : Nat, blocks : Nat]
    <3>1. p \in {"anthropic", "gemini"}
      BY <1>1
    <3> HIDE DEF o, p
    <3> QED
      BY <2>1, <2>2, <3>1
  <2> QED
    BY <1>1, <1>3, <2>3 DEF InTyped
<1>5. OpenWereCalled
  BY <1>2, <1>3 DEF OpenWereCalled
<1>6. OpenOnce
  BY <1>1, <1>2, <1>3 DEF OpenOnce
<1>7. ResultsAlone
  BY <1>1, <1>3 DEF ResultsAlone
<1>8. ResultsFollowCalls
  <2>1. UNION {parsed[i].blocks : i \in DOMAIN parsed} = 1 .. inbound.blocks
    <3>1. {parsed[i].blocks : i \in DOMAIN parsed} = {}
      BY <1>1, <1>3
    <3>2. 1 .. inbound.blocks = {}
      BY <1>1
    <3> QED
      BY <3>1, <3>2
  <2> QED
    BY <1>1, <1>3, <2>1 DEF ResultsFollowCalls
<1> QED
  BY <1>4, <1>5, <1>6, <1>7, <1>8 DEF InInv

\* Every message of the history keeps it.
LEMMA InKeeps ==
    ASSUME WireTypes, InInv, ParseMessage
    PROVE  InInv'
<1>1. PICK role \in {"user", "assistant"}, blocks \in UNION {[1 .. n -> Blocks] : n \in 0 .. 2} : FanOut(role, blocks)
  BY DEF ParseMessage
<1>2. blocks \in Seq(Blocks)
  <2>1. PICK n \in 0 .. 2 : blocks \in [1 .. n -> Blocks]
    OBVIOUS
  <2> QED
    BY <2>1
<1> QED
  BY <1>1, <1>2, FanOutKeeps

\* The types of both directions, what has come of an answer and where it is, and what
\* of a history is open.
THEOREM WireTyped == WireSpec => [](StreamInv /\ InInv)
<1>1. WireInit => StreamInv /\ InInv
  BY WireTypes, StreamStarts, InStarts DEF WireInit
<1>2. StreamInv /\ InInv /\ [WireNext]_wireVars => StreamInv' /\ InInv'
  <2>1. ASSUME InInv, UNCHANGED inVars PROVE InInv'
    BY <2>1 DEF inVars, InInv, InTyped, OpenWereCalled, OpenOnce, ResultsAlone, ResultsFollowCalls
  <2>2. ASSUME StreamInv, UNCHANGED streamVars PROVE StreamInv'
    BY <2>2, StreamStays DEF streamVars
  <2> QED
    BY <2>1, <2>2, WireTypes, StreamKeeps, InKeeps DEF WireNext, wireVars
<1> QED
  BY <1>1, <1>2, PTL DEF WireSpec

\* However a provider's answer is cut into chunks, gated and translated, the terminal frame
\* means that the client has what it is owed, and however a client's tool history looks, its
\* results go on after the calls they answer, with no block lost.
THEOREM WireKept == WireSpec => []WireIsFaithful
<1>1. StreamInv /\ InInv => WireIsFaithful
  BY StreamWhole DEF InInv, WireIsFaithful
<1> QED
  BY <1>1, WireTyped, PTL
===============================================================================
