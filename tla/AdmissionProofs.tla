--------------------------- MODULE AdmissionProofs ---------------------------
(***************************************************************************)
(* Proofs about Admission: its types, what the token bucket lets in, how    *)
(* far the quota can be overrun, what a refusal takes, how often an event   *)
(* fires, and what the counters count.                                      *)
(***************************************************************************)
EXTENDS Admission, FiniteSetTheorems, TLAPS

USE DEF Windows, AllGates

-----------------------------------------------------------------------------
(* Helpers. *)

\* The months a clock within its bound can name are in range.
LEMMA MonthInRange ==
    ASSUME NEW t \in 0 .. MaxTime
    PROVE  Month(t) \in Months
BY GateAssumption, SMTT(30) DEF Month, Months

\* Months pass in order.
LEMMA MonthsInOrder ==
    ASSUME NEW a \in Nat, NEW b \in Nat, a <= b
    PROVE  Month(a) \in Int /\ Month(b) \in Int /\ Month(a) <= Month(b)
<1>1. MonthLen \in Nat \ {0}
  BY GateAssumption
<1>2. (a \div MonthLen) \in Int /\ (b \div MonthLen) \in Int
  BY <1>1
<1>3. (a \div MonthLen) <= (b \div MonthLen)
  BY <1>1, SMTT(30)
<1> QED
  BY <1>2, <1>3 DEF Month

\* The next gate is an enabled gate or the inside.
LEMMA AfterIsGate ==
    ASSUME NEW i \in 0 .. 4
    PROVE  After(i) \in Gates \cup {"inside"}
<1> DEFINE on == {j \in i + 1 .. 4 : Order[j] \in Gates}
<1>1. CASE on = {}
  BY <1>1 DEF After
<1>2. CASE on # {}
  <2>1. \E j \in on : \A k \in on : j <= k
    <3>1. on \subseteq {1, 2, 3, 4}
      OBVIOUS
    <3>2. \A j \in on : j \in Int
      OBVIOUS
    <3> HIDE DEF on
    <3>3. CASE 1 \in on
      BY <3>1, <3>3
    <3>4. CASE 1 \notin on /\ 2 \in on
      BY <3>1, <3>4
    <3>5. CASE 1 \notin on /\ 2 \notin on /\ 3 \in on
      BY <3>1, <3>5
    <3>6. CASE 1 \notin on /\ 2 \notin on /\ 3 \notin on
      <4>1. on = {4}
        BY <3>1, <3>6, <1>2
      <4> QED
        BY <4>1
    <3> QED
      BY <3>3, <3>4, <3>5, <3>6
  <2> DEFINE first == CHOOSE j \in on : \A k \in on : j <= k
  <2>2. first \in on
    BY <2>1
  <2>3. After(i) = Order[first]
    BY <1>2 DEF After
  <2> QED
    BY <2>2, <2>3
<1> QED
  BY <1>1, <1>2

\* A product grows with its factor.
LEMMA Monotone ==
    ASSUME NEW c \in Nat, NEW a \in Int, NEW b \in Int, a <= b
    PROVE  c * a <= c * b
OBVIOUS

-----------------------------------------------------------------------------
(* Type correctness. *)

\* The parts of TypeOK that moving a request touches.
MovesOK ==
    /\ pc \in [Requests -> Points]
    /\ stamp \in [Requests -> 0 .. MaxTime]
    /\ outcome \in [Requests -> Outcomes]
    /\ pending \subseteq Task

LEMMA PassTypes ==
    ASSUME TypeOK, NEW r \in Requests, NEW i \in 0 .. 4, Pass(r, i)
    PROVE  MovesOK'
<1>1. After(i) \in Points
  BY AfterIsGate, GateAssumption DEF Points
<1> QED
  BY <1>1 DEF TypeOK, Pass, MovesOK

LEMMA GotoTypes ==
    ASSUME TypeOK, NEW r \in Requests, NEW p \in Points, Goto(r, p)
    PROVE  MovesOK'
BY DEF TypeOK, Goto, MovesOK

LEMMA RowTypes ==
    ASSUME NEW r \in Requests, NEW b \in BOOLEAN
    PROVE  Row(r, b) \in Task
BY DEF Row, Task, TaskKinds

LEMMA CountedTypes ==
    ASSUME NEW r \in Requests, NEW cost \in Costs
    PROVE  Counted(r, cost) \subseteq Task
<1>1. \A what \in TaskKinds, c \in Costs \cup {0} : Count(r, what, c) \in Task
  BY DEF Count, Task
<1>2. {Row(r, TRUE), Count(r, "quota", 0), Count(r, "spend", cost),
       Count(r, "trial", 0)} \subseteq Task
  BY <1>1, RowTypes DEF TaskKinds
<1> QED
  BY <1>2 DEF Counted

LEMMA LeaveTypes ==
    ASSUME TypeOK, NEW r \in Requests, NEW how \in Outcomes,
           NEW tasks \in SUBSET Task, Leave(r, how, tasks), UNCHANGED stamp
    PROVE  MovesOK'
BY DEF TypeOK, Leave, MovesOK, Points

LEMMA RefuseTypes ==
    ASSUME TypeOK, NEW r \in Requests, NEW how \in Outcomes,
           Refuse(r, how), UNCHANGED stamp
    PROVE  MovesOK'
BY LeaveTypes, RowTypes DEF Refuse, Observed

LEMMA FlagTypes ==
    ASSUME TypeOK, NEW fs \in SUBSET Flags, Flag(fs)
    PROVE  flags' \subseteq Flags /\ fired' \in [Flags -> Nat]
BY DEF TypeOK, Flag

LEMMA FailsTypes ==
    ASSUME TypeOK, NEW kind, Fails(kind)
    PROVE  faults' \in 0 .. MaxFaults
BY GateAssumption DEF TypeOK, Fails

\* Everything of TypeOK but the parts of MovesOK.
RestOK ==
    /\ now \in 0 .. MaxTime
    /\ read \in [Requests -> Int]
    /\ bucket \in [Windows -> Bucket]
    /\ quota \in [Months -> Nat] /\ spend \in [Months -> Nat] /\ trialUsed \in Nat
    /\ flags \subseteq Flags /\ fired \in [Flags -> Nat]
    /\ rows \in [Requests -> {"none", "billable", "observed"}]
    /\ took \in [Windows -> SUBSET Requests] /\ twice \in [Windows -> Nat]
    /\ blind \subseteq Requests /\ peak \in Nat
    /\ lost \subseteq Task
    /\ faults \in 0 .. MaxFaults /\ stops \in 0 .. MaxStops

LEMMA Parts == TypeOK <=> MovesOK /\ RestOK
BY DEF TypeOK, MovesOK, RestOK

LEMMA InitTypes == Init => TypeOK
<1> SUFFICES ASSUME Init PROVE TypeOK
  OBVIOUS
<1>1. NoBucket \in Bucket
  BY DEF NoBucket, Bucket
<1> QED
  BY <1>1, GateAssumption DEF Init, TypeOK, Points, Outcomes

LEMMA GateTypes ==
    ASSUME TypeOK, NEW r \in Requests, Gate(r)
    PROVE  TypeOK'
<1> SUFFICES MovesOK' /\ RestOK'
  BY DEF TypeOK, MovesOK, RestOK
<1>0. RestOK
  BY Parts
<1>1. CASE Start(r)
  BY <1>1, PassTypes, <1>0 DEF Start, RestOK, counterVars, eventVars, quotaHist
<1>2. CASE CheckTrial(r)
  <2>1. PICK used \in {trialUsed, 0} :
          /\ \/ used = trialUsed /\ UNCHANGED faults
             \/ used = 0 /\ TrialStatus = "active" /\ TrialMax > 0 /\ Fails("read")
          /\ read' = [read EXCEPT ![r] = used]
          /\ \/ TrialStatus \notin {"active", "cancelled"} /\ Pass(r, 1)
             \/ Expired(used) /\ Goto(r, "trial_flag")
             \/ /\ TrialStatus = "active" /\ ~Expired(used)
                /\ IF Due(used) = {} THEN Pass(r, 1) ELSE Goto(r, "trial_warn")
    BY <1>2 DEF CheckTrial
  <2>2. faults' \in 0 .. MaxFaults
    BY <2>1, FailsTypes DEF TypeOK
  <2>3. used \in Int
    BY DEF TypeOK
  <2>4. MovesOK'
    BY <2>1, PassTypes, GotoTypes DEF Points
  <2> QED
    BY <1>2, <2>1, <2>2, <2>3, <2>4, <1>0
    DEF CheckTrial, RestOK, counterVars, eventVars, quotaHist
<1>3. CASE TrialExpired(r)
  <2>1. <<"trialexpired", 0>> \in Flags
    BY DEF Flags
  <2>2. flags' \subseteq Flags /\ fired' \in [Flags -> Nat] /\ faults' \in 0 .. MaxFaults
    <3>1. CASE Flag({<<"trialexpired", 0>>}) /\ UNCHANGED faults
      BY <3>1, <2>1, FlagTypes DEF TypeOK
    <3>2. CASE /\ Fails("flag")
               /\ fired' = [fired EXCEPT ![<<"trialexpired", 0>>] = @ + 1]
               /\ UNCHANGED flags
      BY <3>2, <2>1, FailsTypes DEF TypeOK
    <3> QED
      BY <1>3, <3>1, <3>2 DEF TrialExpired
  <2>3. MovesOK'
    BY <1>3, RefuseTypes DEF TrialExpired, Outcomes, bucketVars
  <2> QED
    BY <1>3, <2>2, <2>3, <1>0
    DEF TrialExpired, RestOK, counterVars, bucketVars, quotaHist
<1>4. CASE MaybeWarnTrial(r)
  <2>1. {"trialwarn"} \X Due(read[r]) \subseteq Flags
    BY DEF Flags, Due
  <2>2. flags' \subseteq Flags /\ fired' \in [Flags -> Nat] /\ faults' \in 0 .. MaxFaults
    <3>1. CASE Flag({"trialwarn"} \X Due(read[r])) /\ UNCHANGED faults
      BY <3>1, <2>1, FlagTypes DEF TypeOK
    <3>2. CASE Fails("flag") /\ UNCHANGED eventVars
      BY <3>2, FailsTypes DEF TypeOK, eventVars
    <3> QED
      BY <1>4, <3>1, <3>2 DEF MaybeWarnTrial
  <2>3. MovesOK'
    BY <1>4, PassTypes DEF MaybeWarnTrial
  <2> QED
    BY <1>4, <2>2, <2>3, <1>0 DEF MaybeWarnTrial, RestOK, counterVars, quotaHist
<1>5. CASE CheckQuota(r)
  <2>1. MovesOK'
    BY <1>5, PassTypes, RefuseTypes DEF CheckQuota, Outcomes
  <2>2. faults' \in 0 .. MaxFaults
    BY <1>5, FailsTypes DEF CheckQuota, TypeOK
  <2>3. Cardinality(Outstanding \cup {r}) \in Nat
    <3>1. IsFiniteSet(Outstanding \cup {r})
      BY RequestsAssumption, FS_Subset DEF Outstanding
    <3> QED
      BY <3>1, FS_CardinalityType
  <2>4. blind' \subseteq Requests /\ peak' \in Nat
    BY <1>5, <2>3 DEF CheckQuota, TypeOK, Larger, quotaHist
  <2> QED
    BY <1>5, <2>1, <2>2, <2>4, <1>0 DEF CheckQuota, RestOK, counterVars, eventVars
<1>6. CASE CheckSpend(r)
  <2>1. MovesOK'
    BY <1>6, PassTypes, GotoTypes, RefuseTypes DEF CheckSpend, Outcomes, Points
  <2>2. faults' \in 0 .. MaxFaults
    BY <1>6, FailsTypes DEF CheckSpend, TypeOK
  <2> QED
    BY <1>6, <2>1, <2>2, <1>0
    DEF CheckSpend, RestOK, counterVars, eventVars, quotaHist
<1>7. CASE MaybeWarnBudget(r)
  <2>1. <<"budgetwarn", Month(now)>> \in Flags
    BY MonthInRange DEF Flags, TypeOK
  <2>2. flags' \subseteq Flags /\ fired' \in [Flags -> Nat] /\ faults' \in 0 .. MaxFaults
    <3>1. CASE Flag({<<"budgetwarn", Month(now)>>}) /\ UNCHANGED faults
      BY <3>1, <2>1, FlagTypes DEF TypeOK
    <3>2. CASE Fails("flag") /\ UNCHANGED eventVars
      BY <3>2, FailsTypes DEF TypeOK, eventVars
    <3> QED
      BY <1>7, <3>1, <3>2 DEF MaybeWarnBudget
  <2>3. MovesOK'
    BY <1>7, PassTypes DEF MaybeWarnBudget
  <2> QED
    BY <1>7, <2>2, <2>3, <1>0 DEF MaybeWarnBudget, RestOK, counterVars, quotaHist
<1>8. CASE Consume(r)
  <2>1. MovesOK'
    BY <1>8, PassTypes, RefuseTypes DEF Consume, Outcomes
  <2>2. \A w \in Windows : Level(w, stamp[r]) \in Int /\ Recounted(w, stamp[r]) \in Nat
    BY BucketAssumption
    DEF TypeOK, Level, Recounted, Smaller, Larger, Bucket, Gone
  <2>3. bucket' \in [Windows -> Bucket]
    BY <1>8, <2>2, BucketAssumption DEF Consume, Holding, Bucket, TypeOK
  <2>4. took' \in [Windows -> SUBSET Requests] /\ twice' \in [Windows -> Nat]
    BY <1>8, <2>2 DEF Consume, TypeOK
  <2> QED
    BY <1>8, <2>1, <2>3, <2>4, <1>0
    DEF Consume, RestOK, counterVars, eventVars, quotaHist
<1>9. CASE Fallback(r)
  <2>1. ASSUME NEW w \in Windows, NEW next \in Points, ReadWindow(r, w, next)
        PROVE  MovesOK' /\ RestOK'
    <3>1. MovesOK'
      BY <2>1, GotoTypes DEF ReadWindow
    <3>2. read' \in [Requests -> Int]
      BY <2>1, BucketAssumption DEF ReadWindow, TypeOK, Smaller, Bucket
    <3>3. bucket' \in [Windows -> Bucket]
      BY <2>1 DEF ReadWindow, TypeOK, Bucket
    <3> QED
      BY <2>1, <3>1, <3>2, <3>3, <1>0
      DEF ReadWindow, RestOK, counterVars, eventVars, quotaHist
  <2>2. ASSUME NEW w \in Windows, NEW next \in Points, WriteWindow(r, w, next)
        PROVE  MovesOK' /\ RestOK'
    <3>1. MovesOK'
      BY <2>2, GotoTypes, RefuseTypes DEF WriteWindow, Outcomes
    <3>2. bucket' \in [Windows -> Bucket]
      BY <2>2, BucketAssumption DEF WriteWindow, Holding, TypeOK, Bucket
    <3>3. took' \in [Windows -> SUBSET Requests]
      BY <2>2 DEF WriteWindow, TypeOK
    <3> QED
      BY <2>2, <3>1, <3>2, <3>3, <1>0
      DEF WriteWindow, RestOK, counterVars, eventVars, quotaHist
  <2> QED
    BY <1>9, <2>1, <2>2 DEF Fallback, Points
<1>10. CASE FailOpen(r)
  <2>1. MovesOK'
    BY <1>10, GotoTypes DEF FailOpen, Points
  <2> QED
    BY <1>10, <2>1, FailsTypes, <1>0
    DEF FailOpen, RestOK, counterVars, eventVars, quotaHist
<1> QED
  BY <1>1, <1>2, <1>3, <1>4, <1>5, <1>6, <1>7, <1>8, <1>9, <1>10 DEF Gate

LEMMA RunTaskTypes ==
    ASSUME TypeOK, NEW t \in pending, RunTask(t)
    PROVE  TypeOK'
<1>1. t \in Task /\ t.r \in Requests /\ t.cost \in Nat /\ t.what \in TaskKinds
  <2>1. t \in Task
    BY DEF TypeOK
  <2>2. t.r \in Requests /\ t.cost \in Costs \cup {0} /\ t.what \in TaskKinds
    BY <2>1 DEF Task
  <2>3. Costs \cup {0} \subseteq Nat
    BY GateAssumption
  <2> QED
    BY <2>1, <2>2, <2>3
<1>2. Month(now) \in Months
  BY MonthInRange DEF TypeOK
<1>3. CASE /\ Fails("task")
           /\ lost' = lost \cup {t}
           /\ UNCHANGED counterVars
  BY <1>3, <1>1, FailsTypes
  DEF RunTask, TypeOK, counterVars, bucketVars, eventVars, quotaHist
<1>4. CASE /\ InsertRow(t.r, t.billable)
           /\ UNCHANGED <<quota, spend, trialUsed, lost, faults>>
  BY <1>4, <1>1 DEF RunTask, InsertRow, TypeOK, bucketVars, eventVars, quotaHist
<1>5. CASE /\ quota' = [quota EXCEPT ![Month(now)] = @ + 1]
           /\ UNCHANGED <<spend, trialUsed, rows, lost, faults>>
  BY <1>5, <1>2 DEF RunTask, TypeOK, bucketVars, eventVars, quotaHist
<1>6. CASE /\ spend' = [spend EXCEPT ![Month(now)] = @ + t.cost]
           /\ UNCHANGED <<quota, trialUsed, rows, lost, faults>>
  BY <1>6, <1>1, <1>2 DEF RunTask, TypeOK, bucketVars, eventVars, quotaHist
<1>7. CASE trialUsed' = trialUsed + 1 /\ UNCHANGED <<quota, spend, rows, lost, faults>>
  BY <1>7 DEF RunTask, TypeOK, bucketVars, eventVars, quotaHist
<1> QED
  BY <1>1, <1>3, <1>4, <1>5, <1>6, <1>7 DEF RunTask, TaskKinds

LEMMA NextTypes == TypeOK /\ [Next]_vars => TypeOK'
<1> SUFFICES ASSUME TypeOK, [Next]_vars PROVE TypeOK'
  OBVIOUS
<1>1. ASSUME NEW r \in Requests, Serve(r) PROVE TypeOK'
  <2>1. PICK status \in {"200", "202", "error"}, cost \in Costs :
          Leave(r, status, AfterResponse(r, status, cost))
    BY <1>1 DEF Serve
  <2>2. AfterResponse(r, status, cost) \in SUBSET Task
    BY CountedTypes, RowTypes DEF AfterResponse, Observed
  <2>3. status \in Outcomes
    BY DEF Outcomes
  <2>4. MovesOK'
    BY <1>1, <2>1, <2>2, <2>3, LeaveTypes DEF Serve, bucketVars
  <2>5. RestOK'
    BY <1>1 DEF Serve, TypeOK, RestOK, bucketVars, counterVars, eventVars, quotaHist
  <2> QED
    BY <2>4, <2>5 DEF TypeOK, MovesOK, RestOK
<1>2. CASE Stop
  BY <1>2, GateAssumption
  DEF Stop, TypeOK, Points, Outcomes, bucketVars, counterVars, eventVars, quotaHist
<1>3. CASE Tick
  BY <1>3, GateAssumption
  DEF Tick, TypeOK, bucketVars, counterVars, eventVars, quotaHist
<1>4. CASE UNCHANGED vars
  BY <1>4 DEF vars, TypeOK, bucketVars, counterVars, eventVars, quotaHist
<1> QED
  BY <1>1, <1>2, <1>3, <1>4, GateTypes, RunTaskTypes DEF Next

\* The state of the gate, of the counters and of the after-response tasks has
\* its type in every reachable state, for any number of requests, any limits
\* and any failures.
THEOREM TypeCorrect == Spec => []TypeOK
BY InitTypes, NextTypes, PTL DEF Spec

-----------------------------------------------------------------------------
(* What the scripted bucket lets in. *)

\* Where a request stands at the bucket: only the script decides, a request
\* that has taken a token is past it, and its stamp is not in the future.
AtBucket ==
    \A r \in Requests :
        /\ pc[r] \notin {"minute_write", "hour_read", "hour_write"}
        /\ stamp[r] <= now
        /\ \A w \in Windows : r \in took[w] => pc[r] \in {"inside", "done"}

\* The account of a window: what was taken and what is left came from the
\* capacity and from the time refilled so far.
Account ==
    \A w \in Windows :
        /\ ~bucket[w].present => took[w] = {}
        /\ bucket[w].present =>
             /\ 0 <= bucket[w].tokens
             /\ bucket[w].last <= bucket[w].touched
             /\ bucket[w].touched <= now
             /\ Unit * Cardinality(took[w]) + bucket[w].tokens
                  <= Cap[w] + Rate[w] * (bucket[w].last + twice[w])

BucketInv == AtBucket /\ Account

\* The arithmetic of one refill, with e the time it moves the account by.
LEMMA Refilled ==
    ASSUME NEW n \in Nat, NEW tok \in Int, NEW c \in Nat, NEW rate \in Nat,
           NEW last \in Nat, NEW tw \in Nat, NEW e \in Nat,
           n + tok <= c + rate * (last + tw)
    PROVE  n + (tok + rate * e) <= c + rate * (last + tw + e)
<1>1. rate * (last + tw + e) = rate * (last + tw) + rate * e
  OBVIOUS
<1>2. rate * (last + tw) \in Int /\ rate * e \in Int
  OBVIOUS
<1> QED
  BY <1>1, <1>2

\* The script at time t keeps the account of each window, whether it takes a
\* token (part = Unit) or not (part = 0).
LEMMA ScriptKeepsAccount ==
    ASSUME TypeOK, BucketInv, NEW w \in Windows, NEW t \in Nat, t <= now,
           NEW n \in Nat, n = Unit * Cardinality(took[w])
    PROVE  n + Level(w, t) <= Cap[w] + Rate[w] * (t + twice[w] + Recounted(w, t))
<1> DEFINE b == bucket[w]
           c == Cap[w]
           rate == Rate[w]
           tw == twice[w]
<1>1. /\ c \in Nat /\ rate \in Nat /\ tw \in Nat /\ now \in Nat /\ Ttl \in Nat
      /\ b.tokens \in Int /\ b.last \in Nat /\ b.touched \in Nat
  BY BucketAssumption, GateAssumption DEF TypeOK, Bucket
<1>2. b.present => /\ n + b.tokens <= c + rate * (b.last + tw)
                   /\ 0 <= b.tokens /\ b.last <= b.touched /\ b.touched <= now
  BY DEF BucketInv, Account
<1>3. CASE ~b.present
  <2>1. n = 0
    <3>1. Cardinality(took[w]) = 0
      BY <1>3, FS_EmptySet DEF BucketInv, Account
    <3> QED
      BY <3>1, BucketAssumption
  <2>2. Level(w, t) = c /\ Recounted(w, t) = 0
    BY <1>3 DEF Level, Recounted, Gone
  <2>3. 0 <= rate * (t + tw + 0)
    BY <1>1
  <2> QED
    BY <1>1, <2>1, <2>2, <2>3
<1>4. CASE b.present /\ Gone(w)
  <2> DEFINE e == Larger(Ttl - (t - b.last), 0)
  <2>1. Level(w, t) = c /\ Recounted(w, t) = e
    BY <1>4 DEF Level, Recounted
  <2>2. e \in Nat /\ b.last + tw + Ttl <= t + tw + e
    BY <1>1 DEF Larger
  <2>3. rate * Ttl >= c
    BY BucketAssumption
  <2>4. n + (b.tokens + rate * Ttl) <= c + rate * (b.last + tw + Ttl)
    BY <1>1, <1>2, <1>4, Refilled
  <2>5. rate * (b.last + tw + Ttl) <= rate * (t + tw + e)
    BY <1>1, <2>2, Monotone
  <2>6. /\ rate * Ttl \in Int /\ rate * (b.last + tw + Ttl) \in Int
        /\ rate * (t + tw + e) \in Int
    BY <1>1, <2>2
  <2> HIDE DEF e, b, c, rate, tw
  <2>7. n + c <= c + rate * (t + tw + e)
    BY <1>1, <1>2, <1>4, <2>3, <2>4, <2>5, <2>6
  <2> QED
    BY <2>1, <2>7 DEF c, rate, tw
<1>5. CASE b.present /\ ~Gone(w)
  <2> DEFINE e == Larger(t - b.last, 0)
             back == Larger(b.last - t, 0)
  <2>1. Recounted(w, t) = back
    BY <1>5 DEF Recounted
  <2>2. e \in Nat /\ back \in Nat /\ t + tw + back = b.last + tw + e
    BY <1>1 DEF Larger
  <2>3. Level(w, t) <= b.tokens + rate * e
    <3>1. rate * e \in Int
      BY <1>1, <2>2
    <3> QED
      BY <1>1, <1>5, <3>1 DEF Level, Smaller
  <2>4. n + (b.tokens + rate * e) <= c + rate * (b.last + tw + e)
    BY <1>1, <1>2, <1>5, <2>2, Refilled
  <2>5. Level(w, t) \in Int
    BY <1>1, <1>5, <2>2 DEF Level, Smaller
  <2>6. rate * e \in Int /\ rate * (b.last + tw + e) \in Int
    BY <1>1, <2>2
  <2>7. n + Level(w, t) <= c + rate * (b.last + tw + e)
    <3> HIDE DEF e, b, c, rate, tw
    <3> QED
      BY <1>1, <2>3, <2>4, <2>5, <2>6
  <2> QED
    BY <2>1, <2>2, <2>7
<1> QED
  BY <1>3, <1>4, <1>5

\* A step of request r that leaves both windows alone: r was not past the
\* bucket, it does not enter the fallback, and a stamp it takes is the time.
Aside(r) ==
    /\ UNCHANGED <<now, bucket, took, twice>>
    /\ pc[r] \notin {"inside", "done"}
    /\ \E p \in Points \ {"minute_write", "hour_read", "hour_write"} :
         pc' = [pc EXCEPT ![r] = p]
    /\ \E t \in {stamp[r], now} : stamp' = [stamp EXCEPT ![r] = t]

LEMMA PassAside ==
    ASSUME TypeOK, NEW r \in Requests, NEW i \in 0 .. 4, Pass(r, i),
           pc[r] \notin {"inside", "done"}, UNCHANGED <<now, bucket, took, twice>>
    PROVE  Aside(r)
<1>1. After(i) \in Points \ {"minute_write", "hour_read", "hour_write"}
  BY AfterIsGate, GateAssumption DEF Points
<1> QED
  BY <1>1 DEF Pass, Aside, TypeOK

LEMMA GotoAside ==
    ASSUME TypeOK, NEW r \in Requests, NEW p \in Points, Goto(r, p),
           p \notin {"minute_write", "hour_read", "hour_write"},
           pc[r] \notin {"inside", "done"}, UNCHANGED <<now, bucket, took, twice>>
    PROVE  Aside(r)
BY DEF Goto, Aside, TypeOK

LEMMA RefuseAside ==
    ASSUME TypeOK, NEW r \in Requests, NEW how, Refuse(r, how), UNCHANGED stamp,
           pc[r] \notin {"inside", "done"}, UNCHANGED <<now, bucket, took, twice>>
    PROVE  Aside(r)
BY DEF Refuse, Leave, Aside, TypeOK, Points

\* With scripting, a gate step of r is aside of the windows or the script.
LEMMA GateIsAside ==
    ASSUME TypeOK, BucketInv, Scripting, NEW r \in Requests, Gate(r)
    PROVE  Aside(r) \/ Consume(r)
<1>1. CASE Start(r)
  BY <1>1, PassAside DEF Start
<1>2. CASE CheckTrial(r)
  BY <1>2, PassAside, GotoAside DEF CheckTrial, Points
<1>3. CASE TrialExpired(r)
  BY <1>3, RefuseAside DEF TrialExpired, bucketVars
<1>4. CASE MaybeWarnTrial(r)
  BY <1>4, PassAside DEF MaybeWarnTrial
<1>5. CASE CheckQuota(r)
  BY <1>5, PassAside, RefuseAside DEF CheckQuota
<1>6. CASE CheckSpend(r)
  BY <1>6, PassAside, GotoAside, RefuseAside DEF CheckSpend, Points
<1>7. CASE MaybeWarnBudget(r)
  BY <1>7, PassAside DEF MaybeWarnBudget
<1>8. CASE Fallback(r)
  BY <1>8 DEF Fallback, BucketInv, AtBucket
<1>9. CASE FailOpen(r)
  BY <1>9, GotoAside DEF FailOpen, Points
<1> QED
  BY <1>1, <1>2, <1>3, <1>4, <1>5, <1>6, <1>7, <1>8, <1>9 DEF Gate

LEMMA AsideKeeps ==
    ASSUME TypeOK, BucketInv, NEW r \in Requests, Aside(r)
    PROVE  BucketInv'
<1>1. Account'
  BY DEF Aside, BucketInv, Account
<1>2. AtBucket'
  <2> SUFFICES ASSUME NEW q \in Requests
               PROVE  /\ pc'[q] \notin {"minute_write", "hour_read", "hour_write"}
                      /\ stamp'[q] <= now
                      /\ \A w \in Windows : q \in took[w] => pc'[q] \in {"inside", "done"}
    BY DEF AtBucket, Aside
  <2>1. CASE q = r
    BY <2>1 DEF Aside, BucketInv, AtBucket, TypeOK
  <2>2. CASE q # r
    BY <2>2 DEF Aside, BucketInv, AtBucket, TypeOK
  <2> QED
    BY <2>1, <2>2
<1> QED
  BY <1>1, <1>2 DEF BucketInv

LEMMA ConsumeKeeps ==
    ASSUME TypeOK, BucketInv, NEW r \in Requests, Consume(r)
    PROVE  BucketInv'
<1> DEFINE t == stamp[r]
           part == IF Admits(t) THEN Unit ELSE 0
<1>1. /\ bucket' = [w \in Windows |-> Holding(Level(w, t) - part, t)]
      /\ took' = [w \in Windows |-> IF Admits(t) THEN took[w] \cup {r} ELSE took[w]]
      /\ twice' = [w \in Windows |-> twice[w] + Recounted(w, t)]
      /\ UNCHANGED now
      /\ pc[r] = "bucket"
  BY DEF Consume
<1>2. t \in Nat /\ t <= now /\ now \in Nat
  BY GateAssumption DEF BucketInv, AtBucket, TypeOK
<1>3. AtBucket'
  <2>1. stamp'[r] <= now /\ pc'[r] \in {"inside", "done"}
    <3>1. After(4) = "inside"
      BY DEF After
    <3>2. CASE Admits(t)
      BY <1>2, <3>1, <3>2 DEF Consume, Pass, TypeOK
    <3>3. CASE ~Admits(t)
      BY <1>2, <3>3 DEF Consume, Refuse, Leave, TypeOK
    <3> QED
      BY <3>2, <3>3
  <2>2. \A q \in Requests \ {r} : pc'[q] = pc[q] /\ stamp'[q] = stamp[q]
    BY DEF Consume, Pass, Refuse, Leave, TypeOK
  <2>3. \A w \in Windows, q \in Requests \ {r} : q \in took'[w] => q \in took[w]
    BY <1>1
  <2> QED
    BY <1>1, <2>1, <2>2, <2>3 DEF AtBucket, BucketInv
<1>4. Account'
  <2> SUFFICES ASSUME NEW w \in Windows
               PROVE  /\ bucket'[w].present
                      /\ 0 <= bucket'[w].tokens
                      /\ bucket'[w].last <= bucket'[w].touched
                      /\ bucket'[w].touched <= now'
                      /\ Unit * Cardinality(took'[w]) + bucket'[w].tokens
                           <= Cap[w] + Rate[w] * (bucket'[w].last + twice'[w])
    BY DEF Account
  <2>1. bucket'[w] = [present |-> TRUE, tokens |-> Level(w, t) - part,
                      last |-> t, touched |-> now]
    BY <1>1 DEF Holding
  <2>2. Level(w, t) \in Int /\ Recounted(w, t) \in Nat /\ Unit \in Nat /\ part \in Nat
    BY <1>2, BucketAssumption
    DEF TypeOK, Level, Recounted, Smaller, Larger, Bucket, Gone
  <2>3. 0 <= Level(w, t) - part
    <3>1. CASE Admits(t)
      BY <3>1, <2>2 DEF Admits
    <3>2. CASE ~Admits(t)
      <4>1. 0 <= Level(w, t)
        <5>1. CASE Gone(w)
          BY <5>1, BucketAssumption DEF Level
        <5>2. CASE ~Gone(w)
          <6>1. 0 <= bucket[w].tokens /\ bucket[w].tokens \in Int
            BY <5>2 DEF Gone, BucketInv, Account, TypeOK, Bucket
          <6>2. 0 <= Rate[w] * Larger(t - bucket[w].last, 0)
            BY <1>2, BucketAssumption DEF TypeOK, Bucket, Larger
          <6>3. Rate[w] * Larger(t - bucket[w].last, 0) \in Int
            BY <1>2, BucketAssumption DEF TypeOK, Bucket, Larger
          <6> QED
            BY <5>2, <6>1, <6>2, <6>3, BucketAssumption DEF Level, Smaller
        <5> QED
          BY <5>1, <5>2
      <4> QED
        BY <3>2, <4>1, <2>2
    <3> QED
      BY <3>1, <3>2
  <2>4. IsFiniteSet(took[w]) /\ Cardinality(took[w]) \in Nat
    <3>1. IsFiniteSet(took[w])
      BY RequestsAssumption, FS_Subset DEF TypeOK
    <3> QED
      BY <3>1, FS_CardinalityType
  <2> DEFINE n == Unit * Cardinality(took[w])
  <2>5. n \in Nat
    BY <2>2, <2>4
  <2>6. n + Level(w, t) <= Cap[w] + Rate[w] * (t + twice[w] + Recounted(w, t))
    BY <1>2, <2>5, ScriptKeepsAccount
  <2>7. Unit * Cardinality(took'[w]) = n + part
    <3>1. CASE Admits(t)
      <4>1. r \notin took[w]
        BY <1>1 DEF BucketInv, AtBucket
      <4>2. Cardinality(took'[w]) = Cardinality(took[w]) + 1
        BY <1>1, <2>4, <3>1, <4>1, FS_AddElement
      <4> QED
        BY <2>2, <2>4, <3>1, <4>2
    <3>2. CASE ~Admits(t)
      BY <1>1, <2>5, <3>2
    <3> QED
      BY <3>1, <3>2
  <2>8. twice'[w] = twice[w] + Recounted(w, t)
    BY <1>1
  <2>9. t + twice'[w] = t + twice[w] + Recounted(w, t)
    BY <1>2, <2>2, <2>8 DEF TypeOK
  <2>10. n + part + (Level(w, t) - part) = n + Level(w, t)
    BY <2>2, <2>5
  <2> HIDE DEF n, part, t
  <2> QED
    BY <1>1, <1>2, <2>1, <2>3, <2>6, <2>7, <2>9, <2>10
<1> QED
  BY <1>3, <1>4 DEF BucketInv

LEMMA BucketInit == Init => BucketInv
BY FS_EmptySet, GateAssumption DEF Init, BucketInv, AtBucket, Account, NoBucket

LEMMA BucketNext ==
    ASSUME TypeOK, BucketInv, Scripting, [Next]_vars
    PROVE  BucketInv'
<1>1. ASSUME NEW r \in Requests, Gate(r) PROVE BucketInv'
  BY <1>1, GateIsAside, AsideKeeps, ConsumeKeeps
<1>2. ASSUME NEW r \in Requests, Serve(r) PROVE BucketInv'
  <2>1. /\ pc' = [pc EXCEPT ![r] = "done"]
        /\ UNCHANGED <<now, bucket, took, twice, stamp>>
    BY <1>2 DEF Serve, Leave, bucketVars
  <2> QED
    BY <2>1 DEF BucketInv, AtBucket, Account, TypeOK
<1>3. ASSUME NEW t \in pending, RunTask(t) PROVE BucketInv'
  BY <1>3 DEF RunTask, bucketVars, BucketInv, AtBucket, Account
<1>4. CASE Stop
  BY <1>4 DEF Stop, bucketVars, BucketInv, AtBucket, Account, TypeOK
<1>5. CASE Tick
  <2>1. /\ now' = now + 1 /\ now \in Nat
        /\ UNCHANGED <<pc, bucket, took, twice, stamp>>
    BY <1>5 DEF Tick, bucketVars, TypeOK
  <2>2. Account'
    BY <2>1 DEF BucketInv, Account, TypeOK, Bucket
  <2>3. AtBucket'
    BY <2>1 DEF BucketInv, AtBucket, TypeOK
  <2> QED
    BY <2>2, <2>3 DEF BucketInv
<1>6. CASE UNCHANGED vars
  BY <1>6 DEF vars, bucketVars, BucketInv, AtBucket, Account
<1> QED
  BY <1>1, <1>2, <1>3, <1>4, <1>5, <1>6 DEF Next

\* With both windows taken from by the script, a window has let in no more
\* than its capacity and the refill of the time that has passed, plus the
\* refill of the time that out-of-order clock readings counted twice: for any
\* limits, any number of requests and any delay between clock and script.
THEOREM BucketConserves ==
    ASSUME Scripting
    PROVE  Spec => []Conserved
<1>1. TypeOK /\ BucketInv => Conserved
  <2> SUFFICES ASSUME TypeOK, BucketInv, NEW w \in Windows
               PROVE  Unit * Cardinality(took[w]) <= Cap[w] + Rate[w] * (now + twice[w])
    BY DEF Conserved
  <2>1. /\ Cap[w] \in Nat /\ Rate[w] \in Nat /\ twice[w] \in Nat /\ now \in Nat
        /\ bucket[w].last \in Nat /\ bucket[w].tokens \in Int
        /\ bucket[w].touched \in Nat
    BY BucketAssumption DEF TypeOK, Bucket
  <2>2. Unit * Cardinality(took[w]) \in Nat
    <3>1. IsFiniteSet(took[w])
      BY RequestsAssumption, FS_Subset DEF TypeOK
    <3>2. Cardinality(took[w]) \in Nat
      BY <3>1, FS_CardinalityType
    <3> QED
      BY <3>2, BucketAssumption
  <2>3. CASE ~bucket[w].present
    <3>1. Cardinality(took[w]) = 0
      BY <2>3, FS_EmptySet DEF BucketInv, Account
    <3>2. Unit * Cardinality(took[w]) = 0
      BY <3>1, BucketAssumption
    <3>3. 0 <= Rate[w] * (now + twice[w]) /\ Rate[w] * (now + twice[w]) \in Int
      BY <2>1
    <3> QED
      BY <2>1, <3>2, <3>3
  <2>4. CASE bucket[w].present
    <3>1. /\ Unit * Cardinality(took[w]) + bucket[w].tokens
               <= Cap[w] + Rate[w] * (bucket[w].last + twice[w])
          /\ 0 <= bucket[w].tokens
          /\ bucket[w].last <= now
      BY <2>1, <2>4 DEF BucketInv, Account
    <3>2. Rate[w] * (bucket[w].last + twice[w]) <= Rate[w] * (now + twice[w])
      BY <2>1, <3>1, Monotone
    <3>3. /\ Rate[w] * (bucket[w].last + twice[w]) \in Int
          /\ Rate[w] * (now + twice[w]) \in Int
      BY <2>1
    <3> QED
      BY <2>1, <2>2, <3>1, <3>2, <3>3
  <2> QED
    BY <2>3, <2>4
<1>2. TypeOK /\ BucketInv /\ [Next]_vars => BucketInv'
  BY BucketNext
<1> QED
  BY <1>1, <1>2, BucketInit, TypeCorrect, PTL DEF Spec

\* Without delay the script runs with the time of the request, and no time is
\* counted twice.
Prompt ==
    /\ \A r \in Requests : pc[r] = "bucket" => stamp[r] = now
    /\ \A w \in Windows : twice[w] = 0

LEMMA PromptNext ==
    ASSUME TypeOK, BucketInv, Prompt, Scripting, MaxDelay = 0, [Next]_vars
    PROVE  Prompt'
<1>1. ASSUME NEW r \in Requests, Aside(r), Gate(r) PROVE Prompt'
  <2>1. pc'[r] = "bucket" => stamp'[r] = now
    <3>1. ASSUME NEW i \in 0 .. 4, Pass(r, i) PROVE pc'[r] = "bucket" => stamp'[r] = now
      BY <3>1 DEF Pass, TypeOK
    <3>2. ASSUME NEW p, p # "bucket", Goto(r, p) PROVE pc'[r] # "bucket"
      BY <3>2 DEF Goto, TypeOK
    <3>3. ASSUME NEW how, Refuse(r, how) PROVE pc'[r] # "bucket"
      BY <3>3 DEF Refuse, Leave, TypeOK
    <3>4. CASE CheckTrial(r)
      BY <3>1, <3>2, <3>4 DEF CheckTrial
    <3>5. CASE CheckQuota(r)
      BY <3>1, <3>3, <3>5 DEF CheckQuota
    <3>6. CASE CheckSpend(r)
      BY <3>1, <3>2, <3>3, <3>6 DEF CheckSpend
    <3>7. CASE Start(r) \/ MaybeWarnTrial(r) \/ MaybeWarnBudget(r)
      BY <3>1, <3>7 DEF Start, MaybeWarnTrial, MaybeWarnBudget
    <3>8. CASE TrialExpired(r)
      BY <3>3, <3>8 DEF TrialExpired
    <3>9. CASE FailOpen(r)
      BY <3>2, <3>9 DEF FailOpen
    <3>10. CASE Consume(r)
      <4>1. After(4) = "inside"
        BY DEF After
      <4> QED
        BY <3>3, <3>10, <4>1 DEF Consume, Pass, TypeOK
    <3>11. CASE Fallback(r)
      BY <3>11 DEF Fallback, BucketInv, AtBucket
    <3> QED
      BY <1>1, <3>4, <3>5, <3>6, <3>7, <3>8, <3>9, <3>10, <3>11 DEF Gate
  <2>2. \A q \in Requests \ {r} : pc'[q] = pc[q] /\ stamp'[q] = stamp[q]
    BY <1>1 DEF Aside, TypeOK
  <2> QED
    BY <1>1, <2>1, <2>2 DEF Aside, Prompt
<1>2. ASSUME NEW r \in Requests, Consume(r) PROVE Prompt'
  <2>1. \A w \in Windows : twice'[w] = 0
    <3> SUFFICES ASSUME NEW w \in Windows PROVE Recounted(w, now) = 0
      BY <1>2 DEF Consume, Prompt
    <3>1. bucket[w].last \in Nat /\ bucket[w].touched \in Nat /\ now \in Nat /\ Ttl \in Nat
      BY BucketAssumption DEF TypeOK, Bucket
    <3>2. bucket[w].present => bucket[w].last <= bucket[w].touched /\ bucket[w].touched <= now
      BY DEF BucketInv, Account
    <3> QED
      BY <3>1, <3>2 DEF Recounted, Gone, Larger
  <2>2. pc'[r] # "bucket"
    <3>1. After(4) = "inside"
      BY DEF After
    <3> QED
      BY <1>2, <3>1 DEF Consume, Pass, Refuse, Leave, TypeOK
  <2>3. \A q \in Requests \ {r} : pc'[q] = pc[q] /\ stamp'[q] = stamp[q]
    BY <1>2 DEF Consume, Pass, Refuse, Leave, TypeOK
  <2>4. UNCHANGED now
    BY <1>2 DEF Consume
  <2> QED
    BY <2>1, <2>2, <2>3, <2>4 DEF Prompt
<1>3. ASSUME NEW r \in Requests, Serve(r) PROVE Prompt'
  BY <1>3 DEF Serve, Leave, bucketVars, Prompt, TypeOK
<1>4. ASSUME NEW t \in pending, RunTask(t) PROVE Prompt'
  BY <1>4 DEF RunTask, bucketVars, Prompt
<1>5. CASE Stop
  BY <1>5 DEF Stop, bucketVars, Prompt, TypeOK
<1>6. CASE Tick
  <2>1. \A r \in Requests : pc[r] # "bucket"
    BY <1>6 DEF Tick, Prompt, TypeOK
  <2> QED
    BY <1>6, <2>1 DEF Tick, bucketVars, Prompt
<1>7. CASE UNCHANGED vars
  BY <1>7 DEF vars, bucketVars, Prompt
<1> QED
  BY <1>1, <1>2, <1>3, <1>4, <1>5, <1>6, <1>7, GateIsAside DEF Next

\* When the script runs at the time it is given, neither window ever lets in
\* more than its capacity and the refill of the time passed, key expiry
\* included: what the rate limit is for.
THEOREM NeverOverAdmits ==
    ASSUME Scripting, MaxDelay = 0
    PROVE  Spec => []NeverOverAdmitted
<1>1. Init => Prompt
  BY DEF Init, Prompt
<1>2. TypeOK /\ BucketInv /\ Prompt /\ [Next]_vars => Prompt'
  BY PromptNext
<1>3. TypeOK /\ BucketInv /\ [Next]_vars => BucketInv'
  BY BucketNext
<1>4. TypeOK /\ Prompt /\ Conserved => NeverOverAdmitted
  BY DEF TypeOK, Prompt, Conserved, NeverOverAdmitted
<1> QED
  BY <1>1, <1>2, <1>3, <1>4, BucketInit, TypeCorrect, BucketConserves, PTL DEF Spec

-----------------------------------------------------------------------------
(* How far the quota can be overrun. *)

PastQuota == {"spend", "spend_warn", "bucket", "minute_write", "hour_read",
              "hour_write", "inside"}

\* Requests past the gate, or with a count still to be made, and what they owe.
Owed ==
    /\ \A t \in pending : t.what = "quota" => t = Count(t.r, "quota", 0) /\ pc[t.r] = "done"
    /\ blind \subseteq {r \in Requests : pc[r] \in PastQuota \cup {"done"}}
    /\ Cardinality(Outstanding) <= peak + Cardinality(blind)

\* The month's count with what is still to be counted, the months gone by, and
\* the months to come.
MonthsBounded ==
    /\ quota[Month(now)] + Cardinality(Outstanding) < QuotaCap + peak + Cardinality(blind)
    /\ \A m \in Months : quota[m] < QuotaCap + peak + Cardinality(blind)
    /\ \A m \in Months : m > Month(now) => quota[m] = 0

QuotaInv == Owed /\ MonthsBounded

\* With the quota gate enabled no gate before it leads past it.
LEMMA BeforeQuota ==
    ASSUME "quota" \in Gates
    PROVE  After(0) \in {"trial", "quota"} /\ After(1) = "quota"
<1>1. ASSUME NEW i \in {0, 1}
      PROVE  \E j \in i + 1 .. 2 : After(i) = Order[j]
  <2> DEFINE on == {j \in i + 1 .. 4 : Order[j] \in Gates}
  <2>1. 2 \in on /\ on \subseteq {1, 2, 3, 4} /\ (i = 1 => 1 \notin on)
    BY DEF Order
  <2>2. \E j \in on : \A k \in on : j <= k
    <3> HIDE DEF on
    <3>1. CASE 1 \in on
      BY <2>1, <3>1
    <3>2. CASE 1 \notin on
      BY <2>1, <3>2
    <3> QED
      BY <3>1, <3>2
  <2> DEFINE first == CHOOSE j \in on : \A k \in on : j <= k
  <2>3. first \in on /\ first <= 2
    BY <2>1, <2>2
  <2>4. After(i) = Order[first]
    BY <2>1 DEF After
  <2> QED
    BY <2>3, <2>4
<1>2. PICK j \in 1 .. 2 : After(0) = Order[j]
  BY <1>1
<1>3. PICK k \in 2 .. 2 : After(1) = Order[k]
  BY <1>1
<1> QED
  BY <1>2, <1>3 DEF Order

LEMMA AfterQuota ==
    ASSUME NEW i \in {2, 3, 4}
    PROVE  After(i) \in PastQuota
<1> DEFINE on == {j \in i + 1 .. 4 : Order[j] \in Gates}
<1>1. CASE on = {}
  BY <1>1 DEF After, PastQuota
<1>2. CASE on # {}
  <2>1. \E j \in on : \A k \in on : j <= k
    <3>1. on \subseteq {3, 4}
      OBVIOUS
    <3> HIDE DEF on
    <3>2. CASE 3 \in on
      BY <3>1, <3>2
    <3>3. CASE 3 \notin on
      <4>1. on = {4}
        BY <1>2, <3>1, <3>3
      <4> QED
        BY <4>1
    <3> QED
      BY <3>2, <3>3
  <2> DEFINE first == CHOOSE j \in on : \A k \in on : j <= k
  <2>2. first \in on
    BY <2>1
  <2>3. After(i) = Order[first]
    BY <1>2 DEF After
  <2>4. first \in {3, 4}
    BY <2>2
  <2> HIDE DEF first
  <2>5. Order[first] \in {"spend", "bucket"}
    BY <2>4 DEF Order
  <2> QED
    BY <2>3, <2>5 DEF PastQuota
<1> QED
  BY <1>1, <1>2

\* The sets counted are finite.
LEMMA Finite ==
    ASSUME TypeOK
    PROVE  /\ IsFiniteSet(Outstanding) /\ Cardinality(Outstanding) \in Nat
           /\ IsFiniteSet(blind) /\ Cardinality(blind) \in Nat
           /\ Outstanding \subseteq Requests
<1>1. Outstanding \subseteq Requests /\ blind \subseteq Requests
  BY DEF Outstanding, TypeOK
<1>2. IsFiniteSet(Outstanding) /\ IsFiniteSet(blind)
  BY <1>1, RequestsAssumption, FS_Subset
<1> QED
  BY <1>1, <1>2, FS_CardinalityType

\* A step that counts nothing and adds nobody to the outstanding.
LEMMA FewerOutstanding ==
    ASSUME TypeOK, TypeOK', QuotaInv, UNCHANGED <<now, quota, peak, blind>>,
           Outstanding' \subseteq Outstanding,
           \A t \in pending' : t.what = "quota" => t = Count(t.r, "quota", 0) /\ pc'[t.r] = "done",
           \A r \in blind : pc'[r] \in PastQuota \cup {"done"}
    PROVE  QuotaInv'
<1>1. Cardinality(Outstanding') <= Cardinality(Outstanding)
  BY Finite, FS_Subset
<1>2. Cardinality(Outstanding) \in Nat /\ Cardinality(blind) \in Nat
  BY Finite
<1>3. Cardinality(Outstanding') \in Nat
  <2>1. IsFiniteSet(Outstanding')
    BY Finite, FS_Subset
  <2> QED
    BY <2>1, FS_CardinalityType
<1>4. peak \in Nat /\ QuotaCap \in Nat /\ quota[Month(now)] \in Nat
  BY MonthInRange, GateAssumption DEF TypeOK
<1>5. Owed'
  BY <1>1, <1>2, <1>3, <1>4 DEF QuotaInv, Owed, TypeOK
<1>6. MonthsBounded'
  BY <1>1, <1>2, <1>3, <1>4 DEF QuotaInv, MonthsBounded
<1> QED
  BY <1>5, <1>6 DEF QuotaInv

\* A move of request r alone, seen from the quota gate: from where it was to
\* where it is, with the tasks it leaves.
LEMMA MoveKeeps ==
    ASSUME TypeOK, TypeOK', QuotaInv, NEW r \in Requests, NEW p,
           pc' = [pc EXCEPT ![r] = p],
           UNCHANGED <<now, quota, peak, blind>>,
           pc[r] # "done",
           p \in PastQuota => pc[r] \in PastQuota,
           pc[r] \in PastQuota => p \in PastQuota \cup {"done"},
           \A t \in pending' \ pending :
               t.what = "quota" => /\ t = Count(r, "quota", 0)
                                   /\ p = "done" /\ pc[r] \in PastQuota
    PROVE  QuotaInv'
<1>1. \A q \in Requests : pc'[q] = IF q = r THEN p ELSE pc[q]
  BY DEF TypeOK
<1>2. Outstanding' \subseteq Outstanding
  <2> SUFFICES ASSUME NEW q \in Outstanding' PROVE q \in Outstanding
    OBVIOUS
  <2>1. q \in Requests /\ (pc'[q] \in PastQuota \/ \E t \in pending' : t.r = q /\ t.what = "quota")
    BY DEF Outstanding, PastQuota
  <2>2. CASE pc'[q] \in PastQuota
    BY <1>1, <2>1, <2>2 DEF Outstanding, PastQuota
  <2>3. CASE \E t \in pending' : t.r = q /\ t.what = "quota"
    <3>1. PICK t \in pending' : t.r = q /\ t.what = "quota"
      BY <2>3
    <3>2. CASE t \in pending
      BY <2>1, <3>1, <3>2 DEF Outstanding
    <3>3. CASE t \notin pending
      <4>1. q = r /\ pc[r] \in PastQuota
        BY <3>1, <3>3 DEF Count
      <4> QED
        BY <4>1 DEF Outstanding, PastQuota
    <3> QED
      BY <3>2, <3>3
  <2> QED
    BY <2>1, <2>2, <2>3
<1>3. \A t \in pending' : t.what = "quota" => t = Count(t.r, "quota", 0) /\ pc'[t.r] = "done"
  <2> SUFFICES ASSUME NEW t \in pending', t.what = "quota"
               PROVE  t = Count(t.r, "quota", 0) /\ pc'[t.r] = "done"
    OBVIOUS
  <2>1. CASE t \in pending
    <3>1. t = Count(t.r, "quota", 0) /\ pc[t.r] = "done" /\ t.r \in Requests
      BY <2>1 DEF QuotaInv, Owed, TypeOK, Task
    <3> QED
      BY <1>1, <3>1
  <2>2. CASE t \notin pending
    BY <1>1, <2>2 DEF Count
  <2> QED
    BY <2>1, <2>2
<1>4. \A q \in blind : pc'[q] \in PastQuota \cup {"done"}
  BY <1>1 DEF QuotaInv, Owed
<1> QED
  BY <1>2, <1>3, <1>4, FewerOutstanding

\* Request r passes the quota gate: it joins the outstanding, and either the
\* count was below the cap or the read failed.
LEMMA PassQuotaKeeps ==
    ASSUME TypeOK, TypeOK', QuotaInv, HasPrefix, NEW r \in Requests,
           CheckQuota(r), Pass(r, 2)
    PROVE  QuotaInv'
<1>1. /\ \A q \in Requests : pc'[q] = IF q = r THEN After(2) ELSE pc[q]
      /\ After(2) \in PastQuota
      /\ pc[r] = "quota"
      /\ UNCHANGED <<now, quota, pending>>
  BY AfterQuota DEF Pass, TypeOK, CheckQuota, counterVars
<1>2. r \notin blind /\ \A t \in pending : t.r = r => t.what # "quota"
  BY <1>1 DEF QuotaInv, Owed, PastQuota
<1>3. r \notin Outstanding
  BY <1>1, <1>2 DEF Outstanding
<1>4. Outstanding' = Outstanding \cup {r}
  <2>1. \A q \in Requests : q \in Outstanding' <=> q \in Outstanding \/ q = r
    BY <1>1 DEF Outstanding, PastQuota
  <2> QED
    BY <2>1 DEF Outstanding
<1>5. Cardinality(Outstanding') = Cardinality(Outstanding) + 1
  BY <1>3, <1>4, Finite, FS_AddElement
<1>6. /\ Cardinality(Outstanding) \in Nat /\ Cardinality(blind) \in Nat
      /\ peak \in Nat /\ QuotaCap \in Nat /\ quota \in [Months -> Nat]
      /\ Month(now) \in Months
  BY Finite, MonthInRange, GateAssumption DEF TypeOK
<1>7. \A t \in pending' : t.what = "quota" => t = Count(t.r, "quota", 0) /\ pc'[t.r] = "done"
  BY <1>1, <1>2 DEF QuotaInv, Owed, TypeOK, Task
<1>8. CASE blind' = blind \cup {r} /\ UNCHANGED peak
  <2>1. Cardinality(blind') = Cardinality(blind) + 1
    BY <1>2, <1>8, Finite, FS_AddElement
  <2>2. Owed'
    BY <1>1, <1>5, <1>6, <1>7, <1>8, <2>1 DEF QuotaInv, Owed
  <2>3. MonthsBounded'
    <3>1. Month(now') = Month(now) /\ quota' = quota
      BY <1>1
    <3>2. quota[Month(now)] + Cardinality(Outstanding)
            < QuotaCap + peak + Cardinality(blind)
      BY DEF QuotaInv, MonthsBounded
    <3>3. quota[Month(now)] + Cardinality(Outstanding')
            < QuotaCap + peak' + Cardinality(blind')
      BY <1>5, <1>6, <1>8, <2>1, <3>2
    <3>4. \A m \in Months : quota[m] < QuotaCap + peak' + Cardinality(blind')
      BY <1>6, <1>8, <2>1 DEF QuotaInv, MonthsBounded
    <3> QED
      BY <3>1, <3>3, <3>4 DEF QuotaInv, MonthsBounded
  <2> QED
    BY <2>2, <2>3 DEF QuotaInv
<1>9. CASE /\ QuotaAllows(UnderGatePrefix(quota[Month(now)]))
           /\ peak' = Larger(peak, Cardinality(Outstanding \cup {r}))
           /\ UNCHANGED blind
  <2>1. quota[Month(now)] < QuotaCap
    BY <1>9 DEF QuotaAllows, UnderGatePrefix
  <2>2. peak <= peak' /\ Cardinality(Outstanding') <= peak' /\ peak' \in Nat
    BY <1>4, <1>5, <1>6, <1>9 DEF Larger
  <2>3. Owed'
    BY <1>1, <1>5, <1>6, <1>7, <1>9, <2>2 DEF QuotaInv, Owed
  <2>4. MonthsBounded'
    <3>1. Month(now') = Month(now) /\ quota' = quota
      BY <1>1
    <3>2. quota[Month(now)] + Cardinality(Outstanding')
            < QuotaCap + peak' + Cardinality(blind')
      BY <1>5, <1>6, <1>9, <2>1, <2>2
    <3>3. \A m \in Months : quota[m] < QuotaCap + peak' + Cardinality(blind')
      BY <1>6, <1>9, <2>2 DEF QuotaInv, MonthsBounded
    <3> QED
      BY <3>1, <3>2, <3>3 DEF QuotaInv, MonthsBounded
  <2> QED
    BY <2>3, <2>4 DEF QuotaInv
<1> QED
  <2>1. ~(pc' = [pc EXCEPT ![r] = "done"])
    BY <1>1 DEF PastQuota, TypeOK
  <2> QED
    BY <1>8, <1>9, <2>1 DEF CheckQuota, Refuse, Leave

\* A quota count is made: one request fewer is outstanding, one more counted.
LEMMA CountKeeps ==
    ASSUME TypeOK, TypeOK', QuotaInv, NEW t \in pending, t.what = "quota",
           pending' = pending \ {t}, UNCHANGED <<now, pc, peak, blind>>,
           \/ quota' = [quota EXCEPT ![Month(now)] = @ + 1]
           \/ quota' = quota
    PROVE  QuotaInv'
<1>1. t = Count(t.r, "quota", 0) /\ pc[t.r] = "done" /\ t.r \in Requests
  BY DEF QuotaInv, Owed, TypeOK, Task
<1>2. \A u \in pending : u.what = "quota" /\ u.r = t.r => u = t
  BY <1>1 DEF QuotaInv, Owed
<1>3. t.r \in Outstanding
  BY <1>1 DEF Outstanding
<1>4. Outstanding' = Outstanding \ {t.r}
  <2>1. \A q \in Requests : q \in Outstanding' <=> q \in Outstanding /\ q # t.r
    BY <1>1, <1>2 DEF Outstanding
  <2> QED
    BY <2>1 DEF Outstanding
<1>5. Cardinality(Outstanding') = Cardinality(Outstanding) - 1
  BY <1>3, <1>4, Finite, FS_RemoveElement
<1>6. /\ Cardinality(Outstanding) \in Nat /\ Cardinality(blind) \in Nat
      /\ peak \in Nat /\ QuotaCap \in Nat /\ quota \in [Months -> Nat]
      /\ Month(now) \in Months
  BY Finite, MonthInRange, GateAssumption DEF TypeOK
<1>7. Owed'
  BY <1>5, <1>6 DEF QuotaInv, Owed
<1>8. MonthsBounded'
  <2>1. Month(now') = Month(now)
    OBVIOUS
  <2>2. quota[Month(now)] + Cardinality(Outstanding) < QuotaCap + peak + Cardinality(blind)
    BY DEF QuotaInv, MonthsBounded
  <2>3. quota'[Month(now)] <= quota[Month(now)] + 1 /\ quota'[Month(now)] \in Nat
    BY <1>6
  <2>4. quota'[Month(now)] + Cardinality(Outstanding') < QuotaCap + peak + Cardinality(blind)
    BY <1>5, <1>6, <2>2, <2>3
  <2>5. Cardinality(Outstanding') >= 0
    <3>1. IsFiniteSet(Outstanding')
      BY <1>4, Finite, FS_Subset
    <3> QED
      BY <3>1, FS_CardinalityType
  <2>6. quota'[Month(now)] < QuotaCap + peak + Cardinality(blind)
    BY <1>5, <1>6, <2>3, <2>4, <2>5
  <2>7. \A m \in Months \ {Month(now)} : quota'[m] = quota[m]
    BY <1>6
  <2>8. \A m \in Months : quota'[m] < QuotaCap + peak + Cardinality(blind)
    BY <2>6, <2>7 DEF QuotaInv, MonthsBounded
  <2>9. \A m \in Months : m > Month(now) => quota'[m] = 0
    <3>1. Month(now) \in Int
      BY <1>6 DEF Months
    <3> QED
      BY <2>7, <3>1 DEF QuotaInv, MonthsBounded
  <2> QED
    BY <2>1, <2>4, <2>8, <2>9 DEF MonthsBounded
<1> QED
  BY <1>7, <1>8 DEF QuotaInv

\* A new month starts uncounted; within a month nothing changes.
LEMMA TickKeeps ==
    ASSUME TypeOK, QuotaInv, Tick
    PROVE  QuotaInv'
<1>1. /\ now' = now + 1 /\ now' \in 0 .. MaxTime /\ now \in 0 .. MaxTime
      /\ UNCHANGED <<pc, quota, peak, blind, pending>>
  BY GateAssumption DEF Tick, TypeOK, counterVars, quotaHist
<1>2. Outstanding' = Outstanding
  BY <1>1 DEF Outstanding
<1>3. /\ Month(now) \in Months /\ Month(now') \in Months
      /\ Month(now) \in Int /\ Month(now') \in Int /\ Month(now) <= Month(now')
  <2>1. now \in Nat /\ now' \in Nat /\ now <= now' /\ MonthLen \in Nat \ {0}
    BY <1>1, GateAssumption
  <2>2. Month(now) <= Month(now') /\ Month(now) \in Int /\ Month(now') \in Int
    BY <2>1, MonthsInOrder
  <2> QED
    BY <1>1, <2>2, MonthInRange
<1>4. /\ Cardinality(Outstanding) \in Nat /\ Cardinality(blind) \in Nat
      /\ peak \in Nat /\ QuotaCap \in Nat \ {0} /\ quota \in [Months -> Nat]
  BY Finite, GateAssumption DEF TypeOK
<1>5. Owed'
  BY <1>1, <1>2 DEF QuotaInv, Owed
<1>6. quota[Month(now')] + Cardinality(Outstanding) < QuotaCap + peak + Cardinality(blind)
  <2>1. CASE Month(now') = Month(now)
    BY <2>1 DEF QuotaInv, MonthsBounded
  <2>2. CASE Month(now') # Month(now)
    <3>1. quota[Month(now')] = 0
      BY <1>3, <2>2 DEF QuotaInv, MonthsBounded
    <3> QED
      BY <1>4, <3>1 DEF QuotaInv, Owed
  <2> QED
    BY <2>1, <2>2
<1>7. \A m \in Months : m > Month(now') => quota[m] = 0
  BY <1>3 DEF QuotaInv, MonthsBounded, Months
<1>8. MonthsBounded'
  BY <1>1, <1>2, <1>6, <1>7 DEF QuotaInv, MonthsBounded
<1> QED
  BY <1>5, <1>8 DEF QuotaInv

LEMMA QuotaGate ==
    ASSUME TypeOK, TypeOK', QuotaInv, HasPrefix, "quota" \in Gates,
           NEW r \in Requests, Gate(r)
    PROVE  QuotaInv'
<1> DEFINE Before == {"idle", "trial", "trial_flag", "trial_warn", "quota"}
<1>1. ASSUME NEW i \in 0 .. 4, Pass(r, i), UNCHANGED <<now, quota, peak, blind>>,
             \/ i \in {0, 1} /\ pc[r] \in Before
             \/ i \in {3, 4} /\ pc[r] \in PastQuota
      PROVE  QuotaInv'
  <2>1. pc' = [pc EXCEPT ![r] = After(i)] /\ pending' = pending
    BY <1>1 DEF Pass
  <2>2. i \in {0, 1} => After(i) \notin PastQuota
    BY BeforeQuota DEF PastQuota
  <2>3. i \in {3, 4} => After(i) \in PastQuota
    BY AfterQuota
  <2>4. pc[r] # "done" /\ (pc[r] \in Before => pc[r] \notin PastQuota)
    BY <1>1 DEF PastQuota
  <2>5. /\ After(i) \in PastQuota => pc[r] \in PastQuota
        /\ pc[r] \in PastQuota => After(i) \in PastQuota \cup {"done"}
    BY <1>1, <2>2, <2>3, <2>4
  <2> HIDE DEF Before
  <2> QED
    BY <1>1, <2>1, <2>4, <2>5, MoveKeeps
<1>2. ASSUME NEW p, Goto(r, p), UNCHANGED <<now, quota, peak, blind>>,
             \/ pc[r] \in Before /\ p \in Before
             \/ pc[r] \in PastQuota /\ p \in PastQuota
      PROVE  QuotaInv'
  <2>1. pc' = [pc EXCEPT ![r] = p] /\ pending' = pending
    BY <1>2 DEF Goto
  <2>2. pc[r] # "done" /\ (p \in Before => p \notin PastQuota)
        /\ (pc[r] \in Before => pc[r] \notin PastQuota)
    BY <1>2 DEF PastQuota
  <2>3. /\ p \in PastQuota => pc[r] \in PastQuota
        /\ pc[r] \in PastQuota => p \in PastQuota \cup {"done"}
    BY <1>2, <2>2
  <2> HIDE DEF Before
  <2> QED
    BY <1>2, <2>1, <2>2, <2>3, MoveKeeps
<1>3. ASSUME NEW how, Refuse(r, how), UNCHANGED <<now, quota, peak, blind>>, pc[r] # "done"
      PROVE  QuotaInv'
  <2>1. pc' = [pc EXCEPT ![r] = "done"] /\ pending' = pending \cup Observed(r)
    BY <1>3 DEF Refuse, Leave
  <2>2. \A t \in Observed(r) : t.what # "quota"
    BY DEF Observed, Row
  <2>3. "done" \notin PastQuota
    BY DEF PastQuota
  <2> QED
    BY <1>3, <2>1, <2>2, <2>3, MoveKeeps
<1>4. CASE Start(r)
  BY <1>1, <1>4 DEF Start, counterVars, quotaHist
<1>5. CASE CheckTrial(r)
  BY <1>1, <1>2, <1>5 DEF CheckTrial, counterVars, quotaHist
<1>6. CASE TrialExpired(r)
  BY <1>3, <1>6 DEF TrialExpired, counterVars, quotaHist
<1>7. CASE MaybeWarnTrial(r)
  BY <1>1, <1>7 DEF MaybeWarnTrial, counterVars, quotaHist
<1>8. CASE CheckQuota(r)
  <2>1. CASE Pass(r, 2)
    BY <1>8, <2>1, PassQuotaKeeps
  <2>2. CASE Refuse(r, "429") /\ UNCHANGED quotaHist
    BY <1>3, <1>8, <2>2 DEF CheckQuota, counterVars, quotaHist
  <2> QED
    BY <1>8, <2>1, <2>2 DEF CheckQuota, quotaHist
<1>9. CASE CheckSpend(r)
  <2>1. pc[r] \in PastQuota /\ "spend_warn" \in PastQuota /\ pc[r] # "done"
    BY <1>9 DEF CheckSpend, PastQuota
  <2> QED
    BY <1>1, <1>2, <1>3, <1>9, <2>1 DEF CheckSpend, counterVars, quotaHist
<1>10. CASE MaybeWarnBudget(r)
  BY <1>1, <1>10 DEF MaybeWarnBudget, counterVars, quotaHist, PastQuota
<1>11. CASE Consume(r)
  BY <1>1, <1>3, <1>11 DEF Consume, counterVars, quotaHist, PastQuota
<1>12. CASE Fallback(r)
  BY <1>2, <1>3, <1>12
  DEF Fallback, ReadWindow, WriteWindow, counterVars, quotaHist, PastQuota
<1>13. CASE FailOpen(r)
  BY <1>2, <1>13 DEF FailOpen, counterVars, quotaHist, PastQuota
<1> QED
  BY <1>4, <1>5, <1>6, <1>7, <1>8, <1>9, <1>10, <1>11, <1>12, <1>13 DEF Gate

LEMMA QuotaNext ==
    ASSUME TypeOK, TypeOK', QuotaInv, HasPrefix, "quota" \in Gates, [Next]_vars
    PROVE  QuotaInv'
<1>1. ASSUME NEW r \in Requests, Serve(r) PROVE QuotaInv'
  <2>1. PICK status \in {"200", "202", "error"}, cost \in Costs :
          Leave(r, status, AfterResponse(r, status, cost))
    BY <1>1 DEF Serve
  <2> DEFINE tasks == AfterResponse(r, status, cost)
  <2>2. \A t \in tasks : t.what = "quota" => t = Count(r, "quota", 0)
    BY DEF AfterResponse, Counted, Observed, Row, Count
  <2>3. pc' = [pc EXCEPT ![r] = "done"] /\ pending' = pending \cup tasks
    BY <2>1 DEF Leave
  <2>4. pc[r] \in PastQuota /\ "done" \notin PastQuota /\ pc[r] # "done"
    BY <1>1 DEF Serve, PastQuota
  <2>5. UNCHANGED <<now, quota, peak, blind>>
    BY <1>1 DEF Serve, counterVars, quotaHist
  <2> HIDE DEF tasks
  <2> QED
    BY <2>2, <2>3, <2>4, <2>5, MoveKeeps
<1>2. ASSUME NEW t \in pending, RunTask(t) PROVE QuotaInv'
  <2>1. pending' = pending \ {t} /\ UNCHANGED <<now, pc, peak, blind>>
    BY <1>2 DEF RunTask, quotaHist
  <2>2. CASE t.what = "quota"
    BY <1>2, <2>1, <2>2, CountKeeps DEF RunTask, counterVars
  <2>3. CASE t.what # "quota"
    <3>1. t.what \in TaskKinds
      BY DEF TypeOK, Task
    <3>2. UNCHANGED quota
      BY <1>2, <2>3, <3>1 DEF RunTask, counterVars, TaskKinds
    <3>3. Outstanding' \subseteq Outstanding
      BY <2>1 DEF Outstanding
    <3>4. /\ \A u \in pending' : u.what = "quota" => u = Count(u.r, "quota", 0) /\ pc'[u.r] = "done"
          /\ \A r \in blind : pc'[r] \in PastQuota \cup {"done"}
      BY <2>1 DEF QuotaInv, Owed
    <3> QED
      BY <2>1, <3>2, <3>3, <3>4, FewerOutstanding
  <2> QED
    BY <2>2, <2>3
<1>3. CASE Stop
  <2>1. /\ pending' = {} /\ UNCHANGED <<now, quota, peak, blind>>
        /\ \A r \in Requests : pc'[r] = pc[r] \/ pc'[r] = "done"
    BY <1>3 DEF Stop, counterVars, quotaHist
  <2>2. Outstanding' \subseteq Outstanding
    BY <2>1 DEF Outstanding
  <2>3. \A r \in blind : pc'[r] \in PastQuota \cup {"done"}
    BY <2>1 DEF QuotaInv, Owed
  <2> QED
    BY <2>1, <2>2, <2>3, FewerOutstanding
<1>4. CASE UNCHANGED vars
  BY <1>4 DEF vars, counterVars, quotaHist, QuotaInv, Owed, MonthsBounded, Outstanding
<1> QED
  BY <1>1, <1>2, <1>3, <1>4, QuotaGate, TickKeeps DEF Next

LEMMA QuotaInit == Init => QuotaInv
<1> SUFFICES ASSUME Init PROVE QuotaInv
  OBVIOUS
<1>1. Outstanding = {}
  BY DEF Init, Outstanding
<1>2. Cardinality(Outstanding) = 0 /\ Cardinality(blind) = 0
  BY <1>1, FS_EmptySet DEF Init
<1>3. Month(now) \in Months /\ QuotaCap \in Nat \ {0}
  <2>1. now \in 0 .. MaxTime
    BY GateAssumption DEF Init
  <2> QED
    BY <2>1, MonthInRange, GateAssumption
<1>4. Owed
  BY <1>2 DEF Init, Owed
<1>5. MonthsBounded
  BY <1>2, <1>3 DEF Init, MonthsBounded
<1> QED
  BY <1>4, <1>5 DEF QuotaInv

\* A month's count exceeds the quota by less than the most requests that were
\* past the gate and not counted yet, and those a failed read let past it: for
\* any cap, any number of requests, failures and process exits, and over the
\* end of a month.
THEOREM QuotaOvershoots ==
    ASSUME HasPrefix
    PROVE  Spec => []QuotaOvershootBounded
<1>1. CASE "quota" \in Gates
  <2>1. TypeOK /\ TypeOK' /\ QuotaInv /\ [Next]_vars => QuotaInv'
    BY <1>1, QuotaNext
  <2>2. QuotaInv => QuotaOvershootBounded
    BY DEF QuotaInv, MonthsBounded, QuotaOvershootBounded
  <2> QED
    BY <2>1, <2>2, QuotaInit, TypeCorrect, PTL DEF Spec
<1>2. CASE "quota" \notin Gates
  <2>1. QuotaOvershootBounded
    BY <1>2 DEF QuotaOvershootBounded
  <2> QED
    BY <2>1, PTL
<1> QED
  BY <1>1, <1>2

-----------------------------------------------------------------------------
(* A refusal takes nothing. *)

\* A request the bucket refused is gone and has no token.
RefusedInv ==
    \A r \in Requests :
        outcome[r] = "limited" =>
            pc[r] = "done" /\ \A w \in Windows : r \notin took[w]

\* A step that takes no token, of a request that is not limited by it.
LEMMA NotLimited ==
    ASSUME TypeOK, RefusedInv, NEW r \in Requests, NEW how \in Outcomes \ {"limited"},
           pc[r] # "done", NEW p, UNCHANGED took,
           pc' = [pc EXCEPT ![r] = p],
           \/ UNCHANGED outcome
           \/ p = "done" /\ outcome' = [outcome EXCEPT ![r] = how]
    PROVE  RefusedInv'
<1> SUFFICES ASSUME NEW q \in Requests, outcome'[q] = "limited"
             PROVE  pc'[q] = "done" /\ \A w \in Windows : q \notin took'[w]
  BY DEF RefusedInv
<1>1. q # r /\ outcome[q] = "limited"
  BY DEF TypeOK, RefusedInv
<1> QED
  BY <1>1 DEF TypeOK, RefusedInv

LEMMA GateRefuses ==
    ASSUME TypeOK, BucketInv, RefusedInv, Scripting, NEW r \in Requests, Gate(r)
    PROVE  RefusedInv'
<1>0. "402" \in Outcomes \ {"limited"} /\ "429" \in Outcomes \ {"limited"}
  BY DEF Outcomes
<1>1. ASSUME NEW i \in 0 .. 4, Pass(r, i), pc[r] # "done", UNCHANGED took
      PROVE  RefusedInv'
  BY <1>1, <1>0, NotLimited DEF Pass
<1>2. ASSUME NEW p, Goto(r, p), pc[r] # "done", UNCHANGED took
      PROVE  RefusedInv'
  BY <1>2, <1>0, NotLimited DEF Goto
<1>3. ASSUME NEW how \in {"402", "429"}, Refuse(r, how), pc[r] # "done", UNCHANGED took
      PROVE  RefusedInv'
  BY <1>3, <1>0, NotLimited DEF Refuse, Leave
<1>4. CASE Start(r)
  BY <1>4, <1>1 DEF Start
<1>5. CASE CheckTrial(r)
  BY <1>5, <1>1, <1>2 DEF CheckTrial
<1>6. CASE TrialExpired(r)
  BY <1>6, <1>3 DEF TrialExpired, bucketVars
<1>7. CASE MaybeWarnTrial(r)
  BY <1>7, <1>1 DEF MaybeWarnTrial
<1>8. CASE CheckQuota(r)
  BY <1>8, <1>1, <1>3 DEF CheckQuota
<1>9. CASE CheckSpend(r)
  BY <1>9, <1>1, <1>2, <1>3 DEF CheckSpend
<1>10. CASE MaybeWarnBudget(r)
  BY <1>10, <1>1 DEF MaybeWarnBudget
<1>11. CASE Consume(r)
  <2>1. /\ pc[r] = "bucket" /\ outcome[r] # "limited"
        /\ \A w \in Windows : r \notin took[w]
    BY <1>11 DEF Consume, RefusedInv, BucketInv, AtBucket
  <2>2. CASE Admits(stamp[r])
    <3>1. /\ took' = [w \in Windows |-> took[w] \cup {r}]
          /\ UNCHANGED outcome
          /\ \A q \in Requests : q # r => pc'[q] = pc[q]
      BY <1>11, <2>2 DEF Consume, Pass, TypeOK
    <3> QED
      BY <2>1, <3>1 DEF RefusedInv, TypeOK
  <2>3. CASE ~Admits(stamp[r])
    <3>1. /\ \A w \in Windows : took'[w] = took[w]
          /\ pc' = [pc EXCEPT ![r] = "done"]
          /\ outcome' = [outcome EXCEPT ![r] = "limited"]
      BY <1>11, <2>3 DEF Consume, Refuse, Leave
    <3> QED
      BY <2>1, <3>1 DEF RefusedInv, TypeOK
  <2> QED
    BY <2>2, <2>3
<1>12. CASE Fallback(r)
  BY <1>12 DEF Fallback, BucketInv, AtBucket
<1>13. CASE FailOpen(r)
  BY <1>13, <1>2 DEF FailOpen
<1> QED
  BY <1>4, <1>5, <1>6, <1>7, <1>8, <1>9, <1>10, <1>11, <1>12, <1>13 DEF Gate

LEMMA RefusedNext ==
    ASSUME TypeOK, BucketInv, RefusedInv, Scripting, [Next]_vars
    PROVE  RefusedInv'
<1>1. ASSUME NEW r \in Requests, Serve(r)
      PROVE  RefusedInv'
  <2>1. PICK status \in {"200", "202", "error"} :
          /\ pc[r] = "inside"
          /\ pc' = [pc EXCEPT ![r] = "done"]
          /\ outcome' = [outcome EXCEPT ![r] = status]
          /\ UNCHANGED took
    BY <1>1 DEF Serve, Leave, bucketVars
  <2>2. status \in Outcomes \ {"limited"}
    BY DEF Outcomes
  <2> QED
    BY <2>1, <2>2, NotLimited
<1>2. ASSUME NEW t \in pending, RunTask(t)
      PROVE  RefusedInv'
  BY <1>2 DEF RunTask, bucketVars, RefusedInv
<1>3. CASE Stop
  BY <1>3 DEF Stop, bucketVars, RefusedInv, TypeOK
<1>4. CASE Tick
  BY <1>4 DEF Tick, bucketVars, RefusedInv
<1>5. CASE UNCHANGED vars
  BY <1>5 DEF vars, bucketVars, RefusedInv
<1> QED
  BY <1>1, <1>2, <1>3, <1>4, <1>5, GateRefuses DEF Next

\* A request the script refuses has taken from neither window: for any limits,
\* any number of requests, any interleaving with key expiry, failures and
\* process exits.  (_BUCKET_LUA decides over both windows before it takes; the
\* fallback, which writes the minute before it reads the hour, does not.)
THEOREM RefusalTakesNothing ==
    ASSUME Scripting
    PROVE  Spec => []RefusedTakesNothing
<1>1. Init => RefusedInv
  BY DEF Init, RefusedInv
<1>2. TypeOK /\ BucketInv /\ RefusedInv /\ [Next]_vars => RefusedInv'
  BY RefusedNext
<1>3. TypeOK /\ BucketInv /\ [Next]_vars => BucketInv'
  BY BucketNext
<1>4. RefusedInv => RefusedTakesNothing
  BY DEF RefusedInv, RefusedTakesNothing
<1> QED
  BY <1>1, <1>2, <1>3, <1>4, BucketInit, TypeCorrect, PTL DEF Spec

-----------------------------------------------------------------------------
(* One-shot events. *)

\* An event is fired at most once, and not before its key is set.
EventInv == \A f \in Flags : fired[f] <= 1 /\ (f \notin flags => fired[f] = 0)

\* SETNX: setting a set of keys fires those that were not set.
LEMMA FlagKeeps ==
    ASSUME TypeOK, EventInv, NEW fs, Flag(fs)
    PROVE  EventInv'
<1> SUFFICES ASSUME NEW f \in Flags
             PROVE  fired'[f] <= 1 /\ (f \notin flags' => fired'[f] = 0)
  BY DEF EventInv
<1>1. /\ flags' = flags \cup fs
      /\ fired'[f] = IF f \in fs \ flags THEN fired[f] + 1 ELSE fired[f]
  BY DEF Flag
<1>2. fired[f] \in Nat /\ fired[f] <= 1 /\ (f \notin flags => fired[f] = 0)
  BY DEF EventInv, TypeOK
<1> QED
  BY <1>1, <1>2

LEMMA EventNext ==
    ASSUME TypeOK, EventInv, "flag" \notin FaultKinds, [Next]_vars
    PROVE  EventInv'
<1>0. ASSUME UNCHANGED eventVars
      PROVE  EventInv'
  BY <1>0 DEF eventVars, EventInv
<1>1. ~Fails("flag")
  BY DEF Fails
<1>2. ASSUME NEW r \in Requests, Gate(r)
      PROVE  UNCHANGED eventVars \/ \E fs : Flag(fs)
  <2>1. CASE TrialExpired(r)
    BY <2>1, <1>1 DEF TrialExpired
  <2>2. CASE MaybeWarnTrial(r)
    BY <2>2, <1>1 DEF MaybeWarnTrial
  <2>3. CASE MaybeWarnBudget(r)
    BY <2>3, <1>1 DEF MaybeWarnBudget
  <2>4. CASE Start(r) \/ CheckTrial(r) \/ CheckQuota(r) \/ CheckSpend(r)
    BY <2>4 DEF Start, CheckTrial, CheckQuota, CheckSpend
  <2>5. CASE Consume(r) \/ Fallback(r) \/ FailOpen(r)
    BY <2>5 DEF Consume, Fallback, ReadWindow, WriteWindow, FailOpen
  <2> QED
    BY <1>2, <2>1, <2>2, <2>3, <2>4, <2>5 DEF Gate
<1>3. ASSUME NEW r \in Requests, Gate(r)
      PROVE  EventInv'
  BY <1>0, <1>2, <1>3, FlagKeeps
<1>4. ASSUME NEW r \in Requests, Serve(r)
      PROVE  EventInv'
  BY <1>0, <1>4 DEF Serve
<1>5. ASSUME NEW t \in pending, RunTask(t)
      PROVE  EventInv'
  BY <1>0, <1>5 DEF RunTask
<1>6. CASE Stop \/ Tick \/ UNCHANGED vars
  BY <1>0, <1>6 DEF Stop, Tick, vars
<1> QED
  BY <1>3, <1>4, <1>5, <1>6 DEF Next

\* Every one-shot event (trial expired, each trial warning, the month's budget
\* warning) fires once, however many requests race to its key; provided Redis
\* takes the SET NX, for TrialExpired emits the event when it cannot.
THEOREM EventsFireOnce ==
    ASSUME "flag" \notin FaultKinds
    PROVE  Spec => []OneShotEvents
<1>1. Init => EventInv
  BY DEF Init, EventInv
<1>2. TypeOK /\ EventInv /\ [Next]_vars => EventInv'
  BY EventNext
<1>3. EventInv => OneShotEvents
  BY DEF EventInv, OneShotEvents
<1> QED
  BY <1>1, <1>2, <1>3, TypeCorrect, PTL DEF Spec

-----------------------------------------------------------------------------
(* What the counters count. *)

\* Tasks that still run and those that never did.
Uncounted == pending \cup lost

CountedBy(what) ==
    {r \in Requests : Billable(r) /\ Count(r, what, 0) \notin Uncounted}

\* A request that has not left has no outcome, no row and no task.
NotYet ==
    /\ \A r \in Requests : pc[r] # "done" => outcome[r] = "none" /\ rows[r] = "none"
    /\ \A t \in Uncounted : pc[t.r] = "done"
    /\ pending \cap lost = {}

\* A billable request has the tasks of one and a row, or one to come; any other
\* has an unbilled row alone.
TasksTell ==
    /\ \A t \in Uncounted :
         IF Billable(t.r)
         THEN \/ t = Row(t.r, TRUE) \/ t = Count(t.r, "quota", 0)
              \/ t = Count(t.r, "trial", 0) \/ t.what = "spend"
         ELSE t = Row(t.r, FALSE)
    /\ \A r \in Requests :
         IF Billable(r)
         THEN rows[r] = "billable" \/ (rows[r] = "none" /\ Row(r, TRUE) \in Uncounted)
         ELSE rows[r] # "billable"

\* A month's count is of the requests counted in it.
CountsOf(counted, count) ==
    \E month \in [counted -> Months] :
        \A m \in Months : count[m] = Cardinality({r \in counted : month[r] = m})

CountsTell ==
    /\ CountsOf(CountedBy("quota"), quota)
    /\ TrialStatus = "active" => trialUsed = Cardinality(CountedBy("trial"))

MirrorInv == NotYet /\ TasksTell /\ CountsTell

\* One more request counted, in one month.
LEMMA CountOneMore ==
    ASSUME NEW S \in SUBSET Requests, NEW r \in Requests, r \notin S,
           NEW m0 \in Months, NEW count \in [Months -> Nat], CountsOf(S, count)
    PROVE  CountsOf(S \cup {r}, [count EXCEPT ![m0] = @ + 1])
<1>1. PICK month \in [S -> Months] :
        \A m \in Months : count[m] = Cardinality({q \in S : month[q] = m})
  BY DEF CountsOf
<1> DEFINE later == [q \in S \cup {r} |-> IF q = r THEN m0 ELSE month[q]]
           old(m) == {q \in S : month[q] = m}
           new(m) == {q \in S \cup {r} : later[q] = m}
<1>2. later \in [S \cup {r} -> Months]
  OBVIOUS
<1>3. \A m \in Months : new(m) = IF m = m0 THEN old(m) \cup {r} ELSE old(m)
  OBVIOUS
<1>4. ASSUME NEW m \in Months
      PROVE  IsFiniteSet(old(m)) /\ r \notin old(m)
  BY RequestsAssumption, FS_Subset
<1>5. \A m \in Months :
        [count EXCEPT ![m0] = @ + 1][m] = IF m = m0 THEN count[m] + 1 ELSE count[m]
  OBVIOUS
<1>6. \A m \in Months : count[m] = Cardinality(old(m))
  BY <1>1
<1> HIDE DEF later, old, new
<1>7. ASSUME NEW m \in Months
      PROVE  [count EXCEPT ![m0] = @ + 1][m] = Cardinality(new(m))
  <2>1. Cardinality(old(m) \cup {r}) = Cardinality(old(m)) + 1
    BY <1>4, FS_AddElement
  <2> QED
    BY <2>1, <1>3, <1>5, <1>6
<1> USE DEF new
<1> QED
  BY <1>2, <1>7 DEF CountsOf

LEMMA CountedByTypes ==
    ASSUME NEW what
    PROVE  CountedBy(what) \subseteq Requests /\ IsFiniteSet(CountedBy(what))
<1>1. CountedBy(what) \subseteq Requests
  BY DEF CountedBy
<1> QED
  BY <1>1, RequestsAssumption, FS_Subset

\* Steps that touch no task, no row and no outcome that counts.
LEMMA StillMirrors ==
    ASSUME TypeOK, MirrorInv, UNCHANGED <<rows, quota, trialUsed>>,
           Uncounted' = Uncounted, pending' \cap lost' = {},
           \A q \in Requests :
              \/ pc'[q] = pc[q] /\ outcome'[q] = outcome[q]
              \/ /\ pc[q] # "done"
                 /\ pc'[q] # "done" => outcome'[q] = outcome[q]
                 /\ outcome'[q] \notin {"200", "202"}
    PROVE  MirrorInv'
<1>1. \A q \in Requests : Billable(q)' <=> Billable(q)
  BY DEF Billable, MirrorInv, NotYet
<1>2. \A t \in Uncounted : t.r \in Requests
  BY DEF Uncounted, TypeOK, Task
<1>3. NotYet'
  BY <1>2 DEF MirrorInv, NotYet
<1>4. TasksTell'
  BY <1>1, <1>2 DEF MirrorInv, TasksTell, Row, Count
<1>5. CountedBy("quota")' = CountedBy("quota") /\ CountedBy("trial")' = CountedBy("trial")
  BY <1>1 DEF CountedBy, Count
<1>6. CountsTell'
  BY <1>5 DEF MirrorInv, CountsTell, CountsOf
<1> QED
  BY <1>3, <1>4, <1>6 DEF MirrorInv

\* A request leaves, with the tasks its outcome calls for.
LEMMA LeaveMirrors ==
    ASSUME TypeOK, MirrorInv, NEW r \in Requests, NEW how \in Outcomes, NEW tasks,
           pc[r] # "done", Leave(r, how, tasks),
           UNCHANGED <<rows, quota, trialUsed, lost>>,
           IF how \in {"200", "202"} /\ r \notin Impersonated
           THEN \E cost \in Costs : tasks = Counted(r, cost)
           ELSE tasks = Observed(r)
    PROVE  MirrorInv'
<1> DEFINE billed == how \in {"200", "202"} /\ r \notin Impersonated
<1>1. /\ Uncounted' = Uncounted \cup tasks
      /\ pending' = pending \cup tasks
      /\ pc' = [pc EXCEPT ![r] = "done"]
      /\ outcome' = [outcome EXCEPT ![r] = how]
      /\ lost' = lost /\ rows' = rows /\ quota' = quota /\ trialUsed' = trialUsed
  BY DEF Leave, Uncounted
<1>2. ~Billable(r) /\ rows[r] = "none" /\ \A t \in Uncounted : t.r # r
  BY DEF MirrorInv, NotYet, Billable
<1>3. /\ Billable(r)' <=> billed
      /\ \A q \in Requests \ {r} : Billable(q)' <=> Billable(q)
  BY <1>1 DEF Billable, TypeOK
<1>4. \A t \in Uncounted : t.r \in Requests
  BY DEF Uncounted, TypeOK, Task
<1>5. \A t \in tasks :
        /\ t.r = r
        /\ IF billed
           THEN \/ t = Row(r, TRUE) \/ t = Count(r, "quota", 0)
                \/ t = Count(r, "trial", 0) \/ t.what = "spend"
           ELSE t = Row(r, FALSE)
  BY DEF Counted, Observed, Row, Count
<1>6. billed => /\ Row(r, TRUE) \in tasks
                /\ Count(r, "quota", 0) \in tasks
                /\ TrialStatus = "active" => Count(r, "trial", 0) \in tasks
  BY DEF Counted
<1> HIDE DEF billed
<1>7. NotYet'
  <2>1. \A t \in Uncounted' : pc'[t.r] = "done"
    <3>1. \A q \in Requests : pc'[q] = IF q = r THEN "done" ELSE pc[q]
      BY <1>1 DEF TypeOK
    <3>2. \A t \in tasks : t.r = r
      BY <1>5
    <3>3. \A t \in Uncounted : t.r \in Requests /\ pc[t.r] = "done"
      BY <1>4 DEF MirrorInv, NotYet
    <3> QED
      BY <3>1, <3>2, <3>3, <1>1
  <2>2. \A q \in Requests : pc'[q] # "done" => outcome'[q] = "none" /\ rows'[q] = "none"
    BY <1>1 DEF MirrorInv, NotYet, TypeOK
  <2>3. pending' \cap lost' = {}
    <3>1. \A t \in lost : t.r # r
      BY <1>2 DEF Uncounted
    <3> QED
      BY <3>1, <1>1, <1>5 DEF MirrorInv, NotYet
  <2> QED
    BY <2>1, <2>2, <2>3 DEF NotYet
<1>8. TasksTell'
  <2>1. ASSUME NEW t \in Uncounted'
        PROVE  IF Billable(t.r)'
               THEN \/ t = Row(t.r, TRUE) \/ t = Count(t.r, "quota", 0)
                    \/ t = Count(t.r, "trial", 0) \/ t.what = "spend"
               ELSE t = Row(t.r, FALSE)
    <3>1. CASE t \in tasks
      BY <3>1, <1>3, <1>5
    <3>2. CASE t \in Uncounted
      BY <3>2, <1>2, <1>3, <1>4 DEF MirrorInv, TasksTell
    <3> QED
      BY <3>1, <3>2, <1>1
  <2>2. ASSUME NEW q \in Requests
        PROVE  IF Billable(q)'
               THEN \/ rows'[q] = "billable"
                    \/ rows'[q] = "none" /\ Row(q, TRUE) \in Uncounted'
               ELSE rows'[q] # "billable"
    <3>1. CASE q = r
      BY <3>1, <1>1, <1>2, <1>3, <1>6
    <3>2. CASE q # r
      BY <3>2, <1>1, <1>3 DEF MirrorInv, TasksTell
    <3> QED
      BY <3>1, <3>2
  <2> QED
    BY <2>1, <2>2 DEF TasksTell
<1>9. ASSUME NEW what \in {"quota", "trial"}, what = "trial" => TrialStatus = "active"
      PROVE  CountedBy(what)' = CountedBy(what)
  <2>1. \A q \in Requests : Count(q, what, 0).r = q
    BY DEF Count
  <2>2. \A q \in Requests \ {r} :
          Count(q, what, 0) \in Uncounted' <=> Count(q, what, 0) \in Uncounted
    BY <2>1, <1>1, <1>5
  <2>3. billed => Count(r, what, 0) \in Uncounted'
    BY <1>1, <1>6, <1>9
  <2> QED
    BY <2>2, <2>3, <1>2, <1>3 DEF CountedBy
<1>10. CountsTell'
  BY <1>1, <1>9 DEF MirrorInv, CountsTell, CountsOf
<1> QED
  BY <1>7, <1>8, <1>10 DEF MirrorInv

\* A task that runs, or fails, is counted, or lost, once.
LEMMA RunTaskMirrors ==
    ASSUME TypeOK, MirrorInv, NEW t \in pending, RunTask(t)
    PROVE  MirrorInv'
<1>1. /\ t \in Task /\ t.r \in Requests /\ t \notin lost /\ t \in Uncounted
      /\ pending' = pending \ {t} /\ pc' = pc /\ outcome' = outcome
  BY DEF RunTask, TypeOK, Task, MirrorInv, NotYet, Uncounted
<1>2. CASE /\ lost' = lost \cup {t}
           /\ UNCHANGED counterVars
  <2>1. Uncounted' = Uncounted /\ pending' \cap lost' = {}
    BY <1>1, <1>2 DEF Uncounted, MirrorInv, NotYet
  <2> QED
    BY <2>1, <1>1, <1>2, StillMirrors DEF counterVars
<1>3. ASSUME UNCHANGED lost
      PROVE  /\ Uncounted' = Uncounted \ {t} /\ pending' \cap lost' = {}
             /\ \A q \in Requests : Billable(q)' <=> Billable(q)
  BY <1>1, <1>3 DEF Uncounted, MirrorInv, NotYet, Billable
<1>4. ASSUME UNCHANGED <<lost, rows>>, t.what # "row"
      PROVE  NotYet' /\ TasksTell'
  <2>1. NotYet'
    BY <1>1, <1>3, <1>4 DEF MirrorInv, NotYet
  <2>2. \A q \in Requests, b \in BOOLEAN : Row(q, b) # t
    BY <1>4 DEF Row
  <2>3. \A s \in Uncounted : s.r \in Requests
    BY DEF Uncounted, TypeOK, Task
  <2>4. TasksTell'
    BY <1>3, <1>4, <2>2, <2>3 DEF MirrorInv, TasksTell, Row, Count
  <2> QED
    BY <2>1, <2>4
<1>5. ASSUME NEW what \in {"quota", "trial"}, UNCHANGED lost, t.what # what
      PROVE  CountedBy(what)' = CountedBy(what)
  <2>1. \A q \in Requests : Count(q, what, 0) # t
    BY <1>5 DEF Count
  <2> QED
    BY <2>1, <1>3, <1>5 DEF CountedBy, Count
<1>6. ASSUME NEW what \in {"quota", "trial"}, UNCHANGED lost, t.what = what
      PROVE  /\ t.r \notin CountedBy(what)
             /\ CountedBy(what)' = CountedBy(what) \cup {t.r}
  <2>1. t = Count(t.r, what, 0) /\ Billable(t.r)
    BY <1>1, <1>6 DEF MirrorInv, TasksTell, Row, Count
  <2>2. \A q \in Requests : Count(q, what, 0) = t <=> q = t.r
    BY <2>1 DEF Count
  <2> QED
    BY <1>1, <1>3, <1>6, <2>1, <2>2 DEF CountedBy, Count
<1>7. CASE t.what = "row" /\ InsertRow(t.r, t.billable)
           /\ UNCHANGED <<quota, spend, trialUsed, lost>>
  <2>1. rows' = [rows EXCEPT ![t.r] = IF @ # "none" THEN @
                                     ELSE IF t.billable THEN "billable" ELSE "observed"]
    BY <1>7 DEF InsertRow
  <2>2. \A s \in Uncounted : s.r \in Requests
    BY DEF Uncounted, TypeOK, Task
  <2>3. NotYet'
    <3>1. \A q \in Requests : pc[q] # "done" => rows'[q] = rows[q]
      BY <1>1, <2>1 DEF MirrorInv, NotYet, TypeOK
    <3>2. \A q \in Requests :
            pc'[q] # "done" => outcome'[q] = "none" /\ rows'[q] = "none"
      BY <1>1, <3>1 DEF MirrorInv, NotYet
    <3>3. \A s \in Uncounted' : pc'[s.r] = "done"
      BY <1>1, <1>3, <1>7 DEF MirrorInv, NotYet
    <3> QED
      BY <1>3, <1>7, <3>2, <3>3 DEF NotYet
  <2>4. t = Row(t.r, TRUE) \/ t = Row(t.r, FALSE)
    <3>1. \A q \in Requests : /\ Count(q, "quota", 0).what = "quota"
                             /\ Count(q, "trial", 0).what = "trial"
      BY DEF Count
    <3>2. t # Count(t.r, "quota", 0) /\ t # Count(t.r, "trial", 0) /\ t.what # "spend"
      BY <3>1, <1>1, <1>7
    <3> QED
      BY <3>2, <1>1 DEF MirrorInv, TasksTell
  <2>5. Billable(t.r) <=> t.billable
    BY <1>1, <1>7, <2>4 DEF MirrorInv, TasksTell, Row, Count
  <2>6. ASSUME NEW q \in Requests
        PROVE  IF Billable(q)
               THEN \/ rows'[q] = "billable"
                    \/ rows'[q] = "none" /\ Row(q, TRUE) \in Uncounted'
               ELSE rows'[q] # "billable"
    <3>1. CASE q = t.r
      BY <3>1, <1>1, <2>1, <2>5 DEF MirrorInv, TasksTell, TypeOK
    <3>2. CASE q # t.r
      <4>1. Row(q, TRUE) # t
        BY <3>2 DEF Row
      <4> QED
        BY <3>2, <4>1, <1>3, <1>7, <2>1 DEF MirrorInv, TasksTell, TypeOK
    <3> QED
      BY <3>1, <3>2
  <2>7. TasksTell'
    BY <1>3, <1>7, <2>2, <2>6 DEF MirrorInv, TasksTell, Row, Count
  <2>8. CountsTell'
    BY <1>5, <1>7 DEF MirrorInv, CountsTell, CountsOf
  <2> QED
    BY <2>3, <2>7, <2>8 DEF MirrorInv
<1>8. CASE t.what = "quota" /\ quota' = [quota EXCEPT ![Month(now)] = @ + 1]
           /\ UNCHANGED <<spend, trialUsed, rows, lost>>
  <2>1. Month(now) \in Months /\ quota \in [Months -> Nat]
    BY MonthInRange DEF TypeOK
  <2>2. CountsOf(CountedBy("quota") \cup {t.r}, quota')
    BY <1>1, <1>6, <1>8, <2>1, CountOneMore, CountedByTypes DEF MirrorInv, CountsTell
  <2>3. CountsOf(CountedBy("quota"), quota)'
    BY <2>2, <1>6, <1>8 DEF CountsOf
  <2>4. CountsTell'
    BY <2>3, <1>5, <1>8 DEF MirrorInv, CountsTell
  <2> QED
    BY <2>4, <1>4, <1>8 DEF MirrorInv
<1>9. CASE t.what = "spend" /\ UNCHANGED <<quota, trialUsed, rows, lost>>
  <2>1. CountsTell'
    BY <1>5, <1>9 DEF MirrorInv, CountsTell, CountsOf
  <2> QED
    BY <2>1, <1>4, <1>9 DEF MirrorInv
<1>10. CASE t.what = "trial" /\ trialUsed' = trialUsed + 1
            /\ UNCHANGED <<quota, spend, rows, lost>>
  <2>1. Cardinality(CountedBy("trial") \cup {t.r}) = Cardinality(CountedBy("trial")) + 1
    BY <1>6, <1>10, CountedByTypes, FS_AddElement
  <2>2. CountsTell'
    BY <2>1, <1>5, <1>6, <1>10 DEF MirrorInv, CountsTell, CountsOf
  <2> QED
    BY <2>2, <1>4, <1>10 DEF MirrorInv
<1> QED
  BY <1>1, <1>2, <1>7, <1>8, <1>9, <1>10 DEF RunTask, Task, TaskKinds

LEMMA GateMirrors ==
    ASSUME TypeOK, MirrorInv, NEW r \in Requests, Gate(r)
    PROVE  MirrorInv'
<1>0. "402" \in Outcomes /\ "429" \in Outcomes /\ "limited" \in Outcomes
  BY DEF Outcomes
<1>1. ASSUME UNCHANGED <<pending, outcome, lost, counterVars>>, NEW p,
             pc[r] # "done", pc' = [pc EXCEPT ![r] = p]
      PROVE  MirrorInv'
  <2>1. /\ Uncounted' = Uncounted /\ pending' \cap lost' = {}
        /\ UNCHANGED <<rows, quota, trialUsed>>
        /\ \A q \in Requests : outcome'[q] = outcome[q] /\ (q # r => pc'[q] = pc[q])
        /\ outcome'[r] = "none"
    BY <1>1 DEF Uncounted, MirrorInv, NotYet, counterVars, TypeOK
  <2> QED
    BY <2>1, <1>1, StillMirrors
<1>2. ASSUME NEW i, Pass(r, i), pc[r] # "done", UNCHANGED <<lost, counterVars>>
      PROVE  MirrorInv'
  BY <1>1, <1>2 DEF Pass
<1>3. ASSUME NEW p, Goto(r, p), pc[r] # "done", UNCHANGED <<lost, counterVars>>
      PROVE  MirrorInv'
  BY <1>1, <1>3 DEF Goto
<1>4. ASSUME NEW how \in {"402", "429", "limited"}, Refuse(r, how), pc[r] # "done",
             UNCHANGED <<lost, counterVars>>
      PROVE  MirrorInv'
  BY <1>0, <1>4, LeaveMirrors DEF Refuse, counterVars
<1>5. CASE Start(r)
  BY <1>2, <1>5 DEF Start
<1>6. CASE CheckTrial(r)
  BY <1>2, <1>3, <1>6 DEF CheckTrial
<1>7. CASE TrialExpired(r)
  BY <1>4, <1>7 DEF TrialExpired
<1>8. CASE MaybeWarnTrial(r)
  BY <1>2, <1>8 DEF MaybeWarnTrial
<1>9. CASE CheckQuota(r)
  BY <1>2, <1>4, <1>9 DEF CheckQuota
<1>10. CASE CheckSpend(r)
  BY <1>2, <1>3, <1>4, <1>10 DEF CheckSpend
<1>11. CASE MaybeWarnBudget(r)
  BY <1>2, <1>11 DEF MaybeWarnBudget
<1>12. CASE Consume(r)
  BY <1>2, <1>4, <1>12 DEF Consume
<1>13. CASE Fallback(r)
  BY <1>3, <1>4, <1>13 DEF Fallback, ReadWindow, WriteWindow
<1>14. CASE FailOpen(r)
  BY <1>3, <1>14 DEF FailOpen
<1> QED
  BY <1>5, <1>6, <1>7, <1>8, <1>9, <1>10, <1>11, <1>12, <1>13, <1>14 DEF Gate

LEMMA MirrorNext == TypeOK /\ MirrorInv /\ [Next]_vars => MirrorInv'
<1> SUFFICES ASSUME TypeOK, MirrorInv, [Next]_vars
             PROVE  MirrorInv'
  OBVIOUS
<1>1. ASSUME NEW r \in Requests, Serve(r)
      PROVE  MirrorInv'
  <2>1. PICK status \in {"200", "202", "error"}, cost \in Costs :
          Leave(r, status, AfterResponse(r, status, cost))
    BY <1>1 DEF Serve
  <2>2. /\ status \in Outcomes /\ pc[r] # "done"
        /\ UNCHANGED <<rows, quota, trialUsed, lost>>
    BY <1>1 DEF Serve, Outcomes, counterVars
  <2> QED
    BY <2>1, <2>2, LeaveMirrors DEF AfterResponse
<1>2. ASSUME NEW t \in pending, RunTask(t)
      PROVE  MirrorInv'
  BY <1>2, RunTaskMirrors
<1>3. CASE Stop
  <2>1. /\ lost' = lost \cup pending /\ pending' = {}
        /\ UNCHANGED <<rows, quota, trialUsed>>
        /\ \A q \in Requests :
             IF pc[q] \notin {"idle", "done"}
             THEN pc'[q] = "done" /\ outcome'[q] = "gone"
             ELSE pc'[q] = pc[q] /\ outcome'[q] = outcome[q]
    BY <1>3 DEF Stop, counterVars
  <2>2. Uncounted' = Uncounted
    BY <2>1 DEF Uncounted
  <2> QED
    BY <2>1, <2>2, StillMirrors
<1>4. CASE Tick \/ UNCHANGED vars
  <2>1. UNCHANGED <<pc, outcome, pending, lost, rows, quota, trialUsed>>
    BY <1>4 DEF Tick, vars, counterVars
  <2>2. Uncounted' = Uncounted /\ pending' \cap lost' = {}
    BY <2>1 DEF Uncounted, MirrorInv, NotYet
  <2> QED
    BY <2>1, <2>2, StillMirrors
<1> QED
  BY <1>1, <1>2, <1>3, <1>4, GateMirrors DEF Next

LEMMA MirrorInit == Init => MirrorInv
<1> SUFFICES ASSUME Init PROVE MirrorInv
  OBVIOUS
<1>1. Uncounted = {} /\ \A r \in Requests : ~Billable(r)
  BY DEF Init, Uncounted, Billable
<1>2. NotYet /\ TasksTell
  BY <1>1 DEF Init, NotYet, TasksTell
<1>3. \A what : CountedBy(what) = {}
  BY <1>1 DEF CountedBy
<1> DEFINE none == [q \in {} |-> 0]
<1>4. none \in [{} -> Months] /\ \A m \in Months : {q \in {} : none[q] = m} = {}
  OBVIOUS
<1>5. \A m \in Months : quota[m] = Cardinality({q \in {} : none[q] = m})
  BY <1>4, FS_EmptySet DEF Init
<1> HIDE DEF none
<1>6. CountsTell
  BY <1>3, <1>4, <1>5, FS_EmptySet DEF Init, CountsTell, CountsOf
<1> QED
  BY <1>2, <1>6 DEF MirrorInv

\* The counters mirror the billable rows, for any number of requests and any
\* order of their after-response tasks: when none is running and none was lost,
\* quota and trial have counted exactly the requests whose row is billable,
\* each once.  (_record_outcome, _bill_batch_deferred and the tasks they leave.)
THEOREM CountersAlwaysMirror == Spec => []CountersMirrorRows
<1>1. MirrorInv => CountersMirrorRows
  <2> SUFFICES ASSUME MirrorInv, pending = {}, lost = {}
               PROVE  LET billed == {r \in Requests : rows[r] = "billable"}
                      IN  /\ billed = {r \in Requests : Billable(r)}
                          /\ \E month \in [billed -> Months] :
                               \A m \in Months :
                                 quota[m] = Cardinality({r \in billed : month[r] = m})
                          /\ TrialStatus = "active" => trialUsed = Cardinality(billed)
    BY DEF CountersMirrorRows
  <2> DEFINE billed == {r \in Requests : rows[r] = "billable"}
  <2>1. Uncounted = {}
    BY DEF Uncounted
  <2>2. billed = {r \in Requests : Billable(r)}
    BY <2>1 DEF MirrorInv, TasksTell
  <2>3. CountedBy("quota") = billed /\ CountedBy("trial") = billed
    BY <2>1, <2>2 DEF CountedBy
  <2> HIDE DEF billed
  <2>4. /\ CountsOf(billed, quota)
        /\ TrialStatus = "active" => trialUsed = Cardinality(billed)
    BY <2>3 DEF MirrorInv, CountsTell
  <2> USE DEF billed
  <2> QED
    BY <2>2, <2>4 DEF CountsOf
<1> QED
  BY <1>1, MirrorInit, MirrorNext, TypeCorrect, PTL DEF Spec
=============================================================================
