------------------------------ MODULE BatchProofs ------------------------------
(***************************************************************************)
(* The batch queue, for any number of requests, workers, faults and crashes:*)
(* types, that an answer stays, that results have owners and are charged    *)
(* once, how often an entry runs, that the stream holds only the backlog,   *)
(* and that nothing queued is forgotten.                                    *)
(*                                                                         *)
(* Each part has its inductive invariant, stated before its lemmas; all of *)
(* them rest on TypeInv.                                                   *)
(***************************************************************************)
EXTENDS BatchQueue, FiniteSetTheorems, NaturalsInduction, WellFoundedInduction, TLAPS

(* Every set of entries has a first one. *)
LEMMA FirstIsIn ==
    ASSUME NEW S, S \subseteq Nat, S # {}
    PROVE  First(S) \in S /\ \A e \in S : First(S) <= e
<1> DEFINE R == OpToRel(<, Nat)
<1>1. IsWellFoundedOn(R, Nat)
    BY NatLessThanWellFounded
<1>2. \E m \in S : \A n \in S : <<n, m>> \notin R
    <2> HIDE DEF R
    <2> QED BY <1>1, WFMin
<1>3. \A m, n \in Nat : <<n, m>> \in R <=> n < m
    BY DEF OpToRel
<1> HIDE DEF R
<1>4. PICK m \in S : \A n \in S : <<n, m>> \notin R
    BY <1>2
<1>7. \A n \in S : ~(n < m)
    BY <1>3, <1>4
<1>8. \A n \in Nat : m \in Nat /\ ~(n < m) => m <= n
    OBVIOUS
<1>5. \A n \in S : m <= n
    BY <1>7, <1>8
<1>6. First(S) \in S /\ \A e \in S : First(S) <= e
    BY <1>4, <1>5 DEF First
<1> QED BY <1>6

-----------------------------------------------------------------------------
(* The types, in the groups the actions leave alone together, and the shape that goes with
   them: an entry is pending only once read, a worker in the middle of a list has something left
   in it, and no sweep begins before the streams of a read are all flushed. *)
RequestTypes ==
    /\ pc \in [Requests -> {"arrived", "owned", "checked", "registered", "queued",
                            "refused", "sync", "gone"}]
    /\ owner \in SUBSET Requests
    /\ registered \in SUBSET Nat

StreamTypes ==
    /\ log \in Seq(Requests) /\ Len(log) <= MaxEntries
    /\ queue \in [Requests -> Nat]
    /\ deleted \in SUBSET Entries
    /\ given \in SUBSET (1 .. Len(log))

PendingTypes ==
    /\ deliveries \in [Entries -> Nat]
    /\ idle \in [Entries -> 0 .. Stale]
    /\ \A e \in Entries : deliveries[e] > 0 => e \in given

ConsumerTypes ==
    /\ at \in [Workers -> Phases]
    /\ todo \in [Workers -> SUBSET given]
    /\ mine \in [Workers -> SUBSET given]
    /\ later \in [Workers -> SUBSET given]
    /\ settled \in [Workers -> SUBSET given]
    /\ retry \in [Workers -> SUBSET given]
    /\ out \in [Workers -> {"none", "completed", "failed"}]
    /\ held \in [Workers -> BOOLEAN]
    /\ unsupported \in SUBSET (Workers \X Nat)
    /\ flushes \in [Entries -> Nat]
    /\ waited \in SUBSET given
    /\ \A w \in Workers : at[w] \in {"submit", "call", "store", "cost", "judge2"} => todo[w] # {}
    /\ \A w \in Workers : at[w] = "store" => out[w] # "none"
    /\ \A w \in Workers : at[w] \in {"idle", "judge", "judge2"} \/ retry[w] # {} => later[w] = {}

JobTypes ==
    /\ jobs \in Seq(Job)
    /\ recorded \in SUBSET (1 .. Len(jobs))
    /\ \A j \in 1 .. Len(jobs) : jobs[j].items \subseteq given

PollerTypes ==
    /\ pat \in [Workers -> {"idle", "look", "store", "cost"}]
    /\ plist \in [Workers -> SUBSET (1 .. Len(jobs))]
    /\ pjob \in [Workers -> 0 .. Len(jobs)]
    /\ ptodo \in [Workers -> SUBSET given]
    /\ \A w \in Workers : pat[w] = "cost" => ptodo[w] # {}
    /\ \A w \in Workers : pat[w] \in {"store", "cost"} => pjob[w] \in 1 .. Len(jobs)

ResultTypes ==
    /\ result \in [Requests -> {"none", "failed", "completed"}]
    /\ spend \in [Requests -> Nat] /\ paid \in [Requests -> Nat]

FaultTypes ==
    faults \in Seq(FaultKinds) /\ Len(faults) <= MaxFaults /\ crashes \in 0 .. MaxCrashes

TypeInv ==
    /\ RequestTypes /\ StreamTypes /\ PendingTypes /\ ConsumerTypes
    /\ JobTypes /\ PollerTypes /\ ResultTypes /\ FaultTypes

(* The groups together give every type of TypeOK. *)
LEMMA TypesAre == TypeInv => TypeOK
BY DEF TypeInv, TypeOK, RequestTypes, StreamTypes, PendingTypes, ConsumerTypes, JobTypes,
       PollerTypes, ResultTypes, FaultTypes

(* Nothing read, nothing held, nothing failed: the types at the start. *)
LEMMA TypeStart == Init => TypeInv
<1> SUFFICES ASSUME Init PROVE TypeInv
    OBVIOUS
<1> USE ConstantsAssumption
<1>1. StreamTypes
    BY Len(<<>>) = 0, <<>> \in Seq(Requests) DEF Init, StreamTypes
<1>5. PendingTypes
    BY DEF Init, PendingTypes
<1>2. ConsumerTypes
    BY DEF Init, ConsumerTypes, Phases, Entries
<1>3. JobTypes /\ PollerTypes
    BY Len(<<>>) = 0, <<>> \in Seq(Job) DEF Init, JobTypes, PollerTypes
<1>4. RequestTypes /\ ResultTypes
    BY DEF Init, RequestTypes, ResultTypes
<1>6. FaultTypes
    <2>1. MaxFaults \in Nat /\ MaxCrashes \in Nat
        BY ConstantsAssumption
    <2> QED BY <2>1, Len(<<>>) = 0, <<>> \in Seq(FaultKinds) DEF Init, FaultTypes
<1> QED BY <1>1, <1>2, <1>3, <1>4, <1>5, <1>6 DEF TypeInv

(* A group keeps its types when nothing it speaks of changes. *)
LEMMA GroupsStay ==
    /\ RequestTypes /\ UNCHANGED reqVars => RequestTypes'
    /\ StreamTypes /\ UNCHANGED streamVars => StreamTypes'
    /\ PendingTypes /\ UNCHANGED <<pelVars, streamVars>> => PendingTypes'
    /\ ConsumerTypes /\ UNCHANGED <<consVars, streamVars>> => ConsumerTypes'
    /\ JobTypes /\ UNCHANGED <<jobVars, streamVars>> => JobTypes'
    /\ PollerTypes /\ UNCHANGED <<pollVars, jobVars, streamVars>> => PollerTypes'
    /\ ResultTypes /\ UNCHANGED resVars => ResultTypes'
    /\ FaultTypes /\ UNCHANGED faultVars => FaultTypes'
<1>1. (RequestTypes /\ UNCHANGED reqVars => RequestTypes') /\ (StreamTypes /\ UNCHANGED streamVars => StreamTypes')
    BY DEF RequestTypes, StreamTypes, reqVars, streamVars
<1>2. (PendingTypes /\ UNCHANGED <<pelVars, streamVars>> => PendingTypes')
    BY DEF PendingTypes, pelVars, streamVars
<1>3. ConsumerTypes /\ UNCHANGED <<consVars, streamVars>> => ConsumerTypes'
    BY DEF ConsumerTypes, consVars, streamVars
<1>4. JobTypes /\ UNCHANGED <<jobVars, streamVars>> => JobTypes'
    BY DEF JobTypes, jobVars, streamVars
<1>5. PollerTypes /\ UNCHANGED <<pollVars, jobVars, streamVars>> => PollerTypes'
    BY DEF PollerTypes, pollVars, jobVars, streamVars
<1>6. (ResultTypes /\ UNCHANGED resVars => ResultTypes') /\ (FaultTypes /\ UNCHANGED faultVars => FaultTypes')
    BY DEF ResultTypes, FaultTypes, resVars, faultVars
<1> QED BY <1>1, <1>2, <1>3, <1>4, <1>5, <1>6

(* A failed call is one more of the failures. *)
LEMMA FaultKeeps ==
    ASSUME FaultTypes, NEW kind, Fault(kind) \/ NoFault
    PROVE  FaultTypes'
BY ConstantsAssumption DEF FaultTypes, Fault, NoFault, faultVars

-----------------------------------------------------------------------------
(* What a step does to the types, action by action. *)

(* The entry in hand is one of those left to do, and so a read one. *)
LEMMA ItemIsRead ==
    ASSUME TypeInv, NEW w \in Workers, todo[w] # {}
    PROVE  /\ Item(w) \in todo[w] /\ Item(w) \in given
           /\ Item(w) \in Entries /\ Item(w) \in 1 .. Len(log) /\ log[Item(w)] \in Requests
<1>1. todo[w] \subseteq given /\ given \subseteq 1 .. Len(log) /\ Len(log) <= MaxEntries
      /\ log \in Seq(Requests)
    BY DEF TypeInv, ConsumerTypes, StreamTypes
<1>6. Len(log) \in Nat
    BY <1>1
<1>7. 1 .. Len(log) \subseteq Nat
    BY <1>6
<1>5. todo[w] \subseteq Nat
    BY <1>1, <1>7
<1>2. Item(w) \in todo[w]
    BY <1>5, FirstIsIn DEF Item
<1>3. Len(log) \in Nat /\ MaxEntries \in Nat
    BY <1>1, ConstantsAssumption
<1>4. Item(w) \in 1 .. Len(log)
    BY <1>1, <1>2, <1>3
<1> QED BY <1>1, <1>2, <1>3, <1>4 DEF Entries

(* The same of the entry a poller is at. *)
LEMMA PItemIsRead ==
    ASSUME TypeInv, NEW w \in Workers, ptodo[w] # {}
    PROVE  /\ PItem(w) \in ptodo[w] /\ PItem(w) \in given
           /\ PItem(w) \in Entries /\ PItem(w) \in 1 .. Len(log) /\ log[PItem(w)] \in Requests
<1>1. ptodo[w] \subseteq given /\ given \subseteq 1 .. Len(log) /\ Len(log) <= MaxEntries
      /\ log \in Seq(Requests)
    BY DEF TypeInv, PollerTypes, StreamTypes
<1>6. Len(log) \in Nat
    BY <1>1
<1>7. 1 .. Len(log) \subseteq Nat
    BY <1>6
<1>5. ptodo[w] \subseteq Nat
    BY <1>1, <1>7
<1>2. PItem(w) \in ptodo[w]
    BY <1>5, FirstIsIn DEF PItem
<1>3. Len(log) \in Nat /\ MaxEntries \in Nat
    BY <1>1, ConstantsAssumption
<1>4. PItem(w) \in 1 .. Len(log)
    BY <1>1, <1>2, <1>3
<1> QED BY <1>1, <1>2, <1>3, <1>4 DEF Entries

(* The steps of a request. *)
LEMMA RequestKeepsTypes ==
    ASSUME TypeInv, NEW r \in Requests, HandlerStep(r) \/ HandlerDies(r)
    PROVE  TypeInv'
<1> USE DEF TypeInv
<1>1. RequestTypes'
    BY DEF HandlerStep, HandlerDies, AnswerNow, RecordOwner, CheckBacklog, RegisterStream, Accumulate,
           ForgetOwner, Goto, RequestTypes, StreamTypes
<1>2. FaultTypes'
    <2>1. CASE HandlerDies(r)
        BY <2>1, ConstantsAssumption DEF HandlerDies, FaultTypes
    <2>2. CASE HandlerStep(r)
        <3>1. (\E kind \in {"owner", "backlog", "register", "xadd_lost", "xadd_late", "forget"} : Fault(kind)) \/ NoFault
            BY <2>2 DEF HandlerStep, AnswerNow, RecordOwner, CheckBacklog, RegisterStream, Accumulate,
                        ForgetOwner, NoFault
        <3> QED BY <3>1, FaultKeeps
    <2> QED BY <2>1, <2>2
<1>3. UNCHANGED <<queue, deleted, given, pelVars, consVars, jobVars, pollVars, resVars>>
    BY DEF HandlerStep, HandlerDies, AnswerNow, RecordOwner, CheckBacklog, RegisterStream, Accumulate,
           ForgetOwner, streamVars
<1>6. Len(log) <= MaxEntries /\ MaxEntries \in Nat /\ Len(log) \in Nat /\ Len(Append(log, r)) = Len(log) + 1
    BY ConstantsAssumption DEF StreamTypes
<1>7. log' = log \/ (Len(log) < MaxEntries /\ log' = Append(log, r))
    BY DEF HandlerStep, HandlerDies, AnswerNow, RecordOwner, CheckBacklog, RegisterStream, Accumulate,
           ForgetOwner, streamVars
<1>4. log' \in {log, Append(log, r)} /\ Len(log') <= MaxEntries
    BY <1>6, <1>7
<1>11. log' \in Seq(Requests)
    BY <1>4 DEF StreamTypes
<1>8. Len(log') \in Nat /\ Len(log) <= Len(log')
    BY <1>4, <1>6
<1>9. given \subseteq 1 .. Len(log)
    BY DEF StreamTypes
<1>10. given' \subseteq 1 .. Len(log')
    BY <1>3, <1>6, <1>8, <1>9
<1>5. StreamTypes'
    BY <1>3, <1>4, <1>10, <1>11 DEF StreamTypes
<1> QED BY <1>1, <1>2, <1>3, <1>5 DEF PendingTypes, ConsumerTypes, JobTypes, PollerTypes, ResultTypes,
             pelVars, consVars, jobVars, pollVars, resVars

(* Into a flush, and out of whatever a worker was at. *)
LEMMA FlushTypes ==
    ASSUME ConsumerTypes, NEW w \in Workers, NEW items, items # {}, items \subseteq given',
           NEW rest, rest \subseteq given', given \subseteq given', waited' \in SUBSET given',
           StartFlush(w, items, rest), UNCHANGED <<out, unsupported>>
    PROVE  ConsumerTypes'
<1>1. flushes' \in [Entries -> Nat]
    BY DEF ConsumerTypes, StartFlush
<1>2. \A W : W \subseteq given => W \subseteq given'
    OBVIOUS
<1>3. at' \in [Workers -> Phases] /\ held' \in [Workers -> BOOLEAN] /\ at'[w] \in {"submit", "call"}
    BY DEF ConsumerTypes, StartFlush, Phases
<1>4. /\ todo' \in [Workers -> SUBSET given'] /\ mine' \in [Workers -> SUBSET given']
      /\ later' \in [Workers -> SUBSET given'] /\ settled' \in [Workers -> SUBSET given']
      /\ retry' \in [Workers -> SUBSET given']
    BY <1>2 DEF ConsumerTypes, StartFlush
<1>5. \A v \in Workers : /\ at'[v] \in {"submit", "call", "store", "cost", "judge2"} => todo'[v] # {}
                         /\ at'[v] = "store" => out'[v] # "none"
    BY DEF ConsumerTypes, StartFlush
<1>6. \A v \in Workers : at'[v] \in {"idle", "judge", "judge2"} \/ retry'[v] # {} => later'[v] = {}
    BY DEF ConsumerTypes, StartFlush
<1> QED BY <1>1, <1>3, <1>4, <1>5, <1>6 DEF ConsumerTypes

(* A worker at rest holds nothing. *)
LEMMA RestTypes ==
    ASSUME ConsumerTypes, NEW w \in Workers, given \subseteq given', waited' \in SUBSET given',
           Rest(w), out' = out, unsupported' \subseteq unsupported
    PROVE  ConsumerTypes'
<1>2. \A W : W \subseteq given => W \subseteq given'
    OBVIOUS
<1>3. at' \in [Workers -> Phases]
    BY DEF ConsumerTypes, Rest, Phases
<1>4. /\ todo' \in [Workers -> SUBSET given'] /\ mine' \in [Workers -> SUBSET given']
      /\ later' \in [Workers -> SUBSET given'] /\ settled' \in [Workers -> SUBSET given']
      /\ retry' \in [Workers -> SUBSET given']
    BY <1>2 DEF ConsumerTypes, Rest
<1>5. \A v \in Workers : /\ at'[v] \in {"submit", "call", "store", "cost", "judge2"} => todo'[v] # {}
                         /\ at'[v] = "store" => out'[v] # "none"
    BY DEF ConsumerTypes, Rest
<1>6. \A v \in Workers : at'[v] \in {"idle", "judge", "judge2"} \/ retry'[v] # {} => later'[v] = {}
    BY DEF ConsumerTypes, Rest
<1> QED BY <1>3, <1>4, <1>5, <1>6 DEF ConsumerTypes, Rest

(* What was read is in the stream. *)
LEMMA ReadEntries ==
    ASSUME TypeInv
    PROVE  given \subseteq Entries /\ 1 .. Len(log) \subseteq Entries /\ given \subseteq 1 .. Len(log)
<1>1. given \subseteq 1 .. Len(log) /\ Len(log) \in Nat /\ Len(log) <= MaxEntries /\ MaxEntries \in Nat
    BY ConstantsAssumption DEF TypeInv, StreamTypes
<1> QED BY <1>1 DEF Entries

(* Every entry of the log has its stream. *)
LEMMA StreamsAre ==
    ASSUME TypeInv, NEW e \in 1 .. Len(log)
    PROVE  log[e] \in Requests /\ Stream(e) \in Nat
BY DEF TypeInv, StreamTypes, Stream

(* The first stream of some entries has one of them. *)
LEMMA FirstStreamIs ==
    ASSUME TypeInv, NEW S, S \subseteq 1 .. Len(log), S # {}
    PROVE  FirstStream(S) # {} /\ FirstStream(S) \subseteq S
<1> DEFINE T == {Stream(e) : e \in S}
<1>1. T \subseteq Nat /\ T # {}
    BY StreamsAre
<1>2. First(T) \in T /\ \A n \in T : First(T) <= n
    <2> HIDE DEF T
    <2> QED BY <1>1, FirstIsIn
<1>3. PICK e \in S : First(T) = Stream(e)
    BY <1>2
<1>4. \A f \in S : Stream(e) <= Stream(f)
    BY <1>2, <1>3
<1> QED BY <1>4 DEF FirstStream

(* On to the next stream of a read, or to rest. *)
LEMMA ProceedTypes ==
    ASSUME TypeInv, NEW w \in Workers, Proceed(w), UNCHANGED <<given, waited, out, unsupported>>
    PROVE  ConsumerTypes'
<1>1. ConsumerTypes /\ later[w] \subseteq given /\ waited \in SUBSET given
    BY DEF TypeInv, ConsumerTypes
<1>2. CASE later[w] = {}
    BY <1>1, <1>2, RestTypes DEF Proceed
<1>3. CASE later[w] # {}
    <2> DEFINE items == FirstStream(later[w])
    <2>1. items # {} /\ items \subseteq later[w]
        BY <1>1, <1>3, FirstStreamIs, ReadEntries
    <2>2. StartFlush(w, items, later[w] \ items)
        BY <1>3 DEF Proceed
    <2> HIDE DEF items
    <2> QED BY <1>1, <2>1, <2>2, FlushTypes
<1> QED BY <1>2, <1>3

(* What an XREADGROUP delivers are entries of the log nobody was given. *)
LEMMA ReadGives ==
    ASSUME TypeInv, NEW w \in Workers, Read(w)
    PROVE  \E new, items :
              /\ at[w] = "idle"
              /\ new \subseteq 1 .. Len(log) /\ new \subseteq Entries /\ new \cap given = {}
              /\ items \subseteq new /\ items # {}
              /\ given' = given \cup new
              /\ deliveries' = [e \in Entries |-> IF e \in new THEN 1 ELSE deliveries[e]]
              /\ idle' = [e \in Entries |-> IF e \in new THEN 0 ELSE idle[e]]
              /\ waited' = waited \cup (new \ items)
              /\ \/ StartFlush(w, items, new \ items) /\ NoFault
                 \/ Fault("read") /\ Rest(w)
              /\ UNCHANGED <<reqVars, queue, log, deleted, out, unsupported, jobVars, pollVars, resVars>>
<1>1. PICK known \in SUBSET registered :
              /\ at[w] = "idle" /\ NewOf(known) # {}
              /\ given' = given \cup NewOf(known)
              /\ deliveries' = [e \in Entries |-> IF e \in NewOf(known) THEN 1 ELSE deliveries[e]]
              /\ idle' = [e \in Entries |-> IF e \in NewOf(known) THEN 0 ELSE idle[e]]
              /\ waited' = waited \cup (NewOf(known) \ FirstStream(NewOf(known)))
              /\ \/ StartFlush(w, FirstStream(NewOf(known)), NewOf(known) \ FirstStream(NewOf(known))) /\ NoFault
                 \/ Fault("read") /\ Rest(w)
              /\ UNCHANGED <<reqVars, queue, log, deleted, out, unsupported, jobVars, pollVars, resVars>>
    BY DEF Read
<1>2. NewOf(known) \subseteq 1 .. Len(log) /\ NewOf(known) \cap given = {}
    BY DEF NewOf
<1> DEFINE new == NewOf(known)
           items == FirstStream(new)
<1>3. items # {} /\ items \subseteq new
    BY <1>1, <1>2, FirstStreamIs
<1>4. new \subseteq Entries
    BY <1>2, ReadEntries
<1> WITNESS new, items
<1> QED BY <1>1, <1>2, <1>3, <1>4

(* Reading: the new entries become pending, once each. *)
LEMMA ReadKeepsTypes ==
    ASSUME TypeInv, NEW w \in Workers, Read(w)
    PROVE  TypeInv'
<1>1. PICK new, items :
              /\ new \subseteq 1 .. Len(log) /\ new \subseteq Entries
              /\ items \subseteq new /\ items # {}
              /\ given' = given \cup new
              /\ deliveries' = [e \in Entries |-> IF e \in new THEN 1 ELSE deliveries[e]]
              /\ idle' = [e \in Entries |-> IF e \in new THEN 0 ELSE idle[e]]
              /\ waited' = waited \cup (new \ items)
              /\ \/ StartFlush(w, items, new \ items) /\ NoFault
                 \/ Fault("read") /\ Rest(w)
              /\ UNCHANGED <<reqVars, queue, log, deleted, out, unsupported, jobVars, pollVars, resVars>>
    BY ReadGives
<1>3. FaultTypes'
    BY <1>1, FaultKeeps DEF TypeInv
<1>4. StreamTypes'
    BY <1>1 DEF TypeInv, StreamTypes
<1>5. given \subseteq given' /\ new \subseteq given' /\ given \subseteq Entries
    BY <1>1, ReadEntries
<1>6. PendingTypes'
    <2>1. deliveries' \in [Entries -> Nat]
        BY <1>1 DEF TypeInv, PendingTypes
    <2>2. 0 \in 0 .. Stale
        BY ConstantsAssumption
    <2>3. idle' \in [Entries -> 0 .. Stale]
        BY <1>1, <2>2 DEF TypeInv, PendingTypes
    <2>4. \A e \in Entries : deliveries'[e] > 0 => e \in given'
        BY <1>1 DEF TypeInv, PendingTypes
    <2> QED BY <2>1, <2>3, <2>4 DEF PendingTypes
<1>7. ConsumerTypes'
    <2>0. ConsumerTypes /\ waited' \in SUBSET given' /\ UNCHANGED <<out, unsupported>>
        BY <1>1, <1>5 DEF TypeInv, ConsumerTypes
    <2>1. CASE StartFlush(w, items, new \ items)
        <3>1. items \subseteq given' /\ new \ items \subseteq given'
            BY <1>1, <1>5
        <3> QED BY <1>1, <1>5, <2>0, <2>1, <3>1, FlushTypes
    <2>2. CASE Rest(w)
        BY <1>5, <2>0, <2>2, RestTypes
    <2> QED BY <1>1, <2>1, <2>2
<1>9. JobTypes' /\ PollerTypes'
    BY <1>1, <1>5 DEF TypeInv, JobTypes, PollerTypes, jobVars, pollVars
<1>10. RequestTypes' /\ ResultTypes'
    BY <1>1, GroupsStay DEF TypeInv
<1> QED BY <1>3, <1>4, <1>6, <1>7, <1>9, <1>10 DEF TypeInv

(* Submitting: one more job, of entries that were read. *)
LEMMA SubmitKeepsTypes ==
    ASSUME TypeInv, NEW w \in Workers, Submit(w)
    PROVE  TypeInv'
<1>1. RequestTypes' /\ StreamTypes' /\ PendingTypes' /\ ResultTypes' /\ FaultTypes'
    BY GroupsStay DEF TypeInv, Submit
<1>2. ConsumerTypes'
    <2>1. Item(w) \in 1 .. Len(log)
        BY ItemIsRead DEF Submit, TypeInv, ConsumerTypes
    <2>2. <<w, Stream(Item(w))>> \in Workers \X Nat
        BY <2>1, StreamsAre
    <2>3. unsupported' \in SUBSET (Workers \X Nat)
        BY <2>2 DEF Submit, TypeInv, ConsumerTypes
    <2> HIDE DEF Item
    <2> QED BY <2>3 DEF Submit, TypeInv, ConsumerTypes, Phases, streamVars
<1>3. /\ jobs \in Seq(Job) /\ Len(jobs) \in Nat /\ recorded' = recorded /\ given' = given
      /\ \A j \in 1 .. Len(jobs) : jobs[j].items \subseteq given
    BY DEF Submit, TypeInv, JobTypes, streamVars
<1>4. CASE jobs' = jobs
    <2>1. JobTypes'
        BY <1>3, <1>4 DEF TypeInv, JobTypes
    <2>2. PollerTypes'
        BY <1>3, <1>4, GroupsStay DEF TypeInv, Submit, PollerTypes, pollVars
    <2> QED BY <1>1, <1>2, <2>1, <2>2 DEF TypeInv
<1>5. CASE jobs' # jobs
    <2> DEFINE new == [by |-> w, items |-> todo[w], status |-> "pending", answers |-> {}]
    <2>1. jobs' = Append(jobs, new)
        BY <1>5 DEF Submit
    <2>2. todo[w] \subseteq given
        BY DEF TypeInv, ConsumerTypes
    <2>3. given \subseteq Entries
        BY ReadEntries
    <2>4. new \in Job /\ new.items \subseteq given
        BY <2>2, <2>3 DEF Job
    <2> HIDE DEF new
    <2>5. /\ jobs' \in Seq(Job) /\ Len(jobs') = Len(jobs) + 1
          /\ \A j \in 1 .. Len(jobs) : jobs'[j] = jobs[j]
          /\ jobs'[Len(jobs')] = new
        BY <1>3, <2>1, <2>4
    <2>6. \A j \in 1 .. Len(jobs') : j \in 1 .. Len(jobs) \/ j = Len(jobs')
        BY <1>3, <2>5
    <2>7. 1 .. Len(jobs) \subseteq 1 .. Len(jobs') /\ 0 .. Len(jobs) \subseteq 0 .. Len(jobs')
        BY <1>3, <2>5
    <2>8. JobTypes'
        BY <1>3, <2>4, <2>5, <2>6, <2>7 DEF TypeInv, JobTypes
    <2>9. PollerTypes'
        BY <1>3, <2>7 DEF TypeInv, PollerTypes, Submit, pollVars
    <2> QED BY <1>1, <1>2, <2>8, <2>9 DEF TypeInv
<1> QED BY <1>4, <1>5

(* Recording a job that was submitted. *)
LEMMA RecordKeepsTypes ==
    ASSUME TypeInv, NEW w \in Workers, RecordJob(w)
    PROVE  TypeInv'
<1>1. RequestTypes' /\ StreamTypes' /\ PendingTypes' /\ ResultTypes'
    BY GroupsStay DEF TypeInv, RecordJob
<1>2. FaultTypes'
    BY FaultKeeps DEF TypeInv, RecordJob
<1>3. ConsumerTypes'
    BY DEF RecordJob, TypeInv, ConsumerTypes, Phases, streamVars
<1>4. PollerTypes'
    BY DEF RecordJob, TypeInv, PollerTypes, pollVars, streamVars
<1>5. JobTypes'
    BY DEF RecordJob, TypeInv, JobTypes, streamVars
<1> QED BY <1>1, <1>2, <1>3, <1>4, <1>5 DEF TypeInv

(* A step of a consumer that changes no stream, job or poller. *)
LEMMA ConsumerKeepsTypes ==
    ASSUME TypeInv, UNCHANGED <<reqVars, streamVars, jobVars, pollVars>>,
           PendingTypes', ConsumerTypes', ResultTypes', FaultTypes'
    PROVE  TypeInv'
BY GroupsStay DEF TypeInv

(* The next entry of a flush, when there is one. *)
LEMMA AfterItemTypes ==
    ASSUME TypeInv, NEW w \in Workers, todo[w] # {}, given' = given, at' = [at EXCEPT ![w] = AfterItem(w)],
           todo' = [todo EXCEPT ![w] = @ \ {Item(w)}],
           UNCHANGED <<mine, later, settled, retry, out, held, unsupported, flushes, waited>>
    PROVE  ConsumerTypes'
<1>1. Item(w) \in todo[w]
    BY ItemIsRead
<1>2. AfterItem(w) \in Phases /\ (AfterItem(w) = "call" => todo[w] \ {Item(w)} # {}) /\ AfterItem(w) \in {"call", "ack"}
    BY <1>1 DEF AfterItem, Phases
<1> QED BY <1>2 DEF TypeInv, ConsumerTypes

(* A provider call ends. *)
LEMMA CallKeepsTypes ==
    ASSUME TypeInv, NEW w \in Workers, CallEnds(w)
    PROVE  TypeInv'
<1>1. PendingTypes' /\ FaultTypes'
    BY GroupsStay DEF TypeInv, CallEnds
<1>2. ConsumerTypes'
    BY DEF CallEnds, TypeInv, ConsumerTypes, Phases, streamVars
<1>3. ResultTypes'
    BY DEF CallEnds, TypeInv, ResultTypes
<1> QED BY <1>1, <1>2, <1>3, ConsumerKeepsTypes DEF CallEnds

(* A result that is stored, or lost, is a result. *)
LEMMA StoreTypes ==
    ASSUME ResultTypes, NEW r, NEW status \in {"completed", "failed"}, StoreOrLose(r, status), UNCHANGED <<spend, paid>>
    PROVE  ResultTypes'
BY DEF ResultTypes, StoreOrLose, StoreResult

(* Storing what the call gave. *)
LEMMA StoreKeepsTypes ==
    ASSUME TypeInv, NEW w \in Workers, Store(w)
    PROVE  TypeInv'
<1>1. PendingTypes'
    BY GroupsStay DEF TypeInv, Store
<1>2. FaultTypes'
    BY FaultKeeps DEF TypeInv, Store, StoreOrLose
<1>3. out[w] \in {"completed", "failed"}
    BY DEF Store, TypeInv, ConsumerTypes
<1>4. ResultTypes'
    BY <1>3, StoreTypes DEF TypeInv, Store
<1>5. ConsumerTypes'
    <2>1. todo[w] # {}
        BY DEF Store, TypeInv, ConsumerTypes
    <2>2. CASE out[w] = "completed"
        BY <2>1, <2>2 DEF Store, AfterStore, TypeInv, ConsumerTypes, Phases, streamVars
    <2>3. CASE out[w] # "completed"
        BY <2>1, <2>3, AfterItemTypes DEF Store, AfterStore, streamVars
    <2> QED BY <2>2, <2>3
<1> QED BY <1>1, <1>2, <1>4, <1>5, ConsumerKeepsTypes DEF Store

(* Adding the cost of an answer. *)
LEMMA CostKeepsTypes ==
    ASSUME TypeInv, NEW w \in Workers, AddCost(w)
    PROVE  TypeInv'
<1>1. PendingTypes'
    BY GroupsStay DEF TypeInv, AddCost
<1>2. FaultTypes'
    BY FaultKeeps DEF TypeInv, AddCost
<1>3. ResultTypes'
    BY DEF AddCost, TypeInv, ResultTypes
<1>4. todo[w] # {}
    BY DEF AddCost, TypeInv, ConsumerTypes
<1>5. ConsumerTypes'
    BY <1>4, AfterItemTypes DEF AddCost, streamVars
<1> QED BY <1>1, <1>2, <1>3, <1>5, ConsumerKeepsTypes DEF AddCost

(* Acknowledging: the entries are pending no longer. *)
LEMMA AckKeepsTypes ==
    ASSUME TypeInv, NEW w \in Workers, Ack(w)
    PROVE  TypeInv'
<1>1. FaultTypes'
    BY FaultKeeps DEF TypeInv, Ack
<1>2. ResultTypes'
    BY GroupsStay DEF TypeInv, Ack
<1>3. PendingTypes'
    BY DEF Ack, TypeInv, PendingTypes, streamVars
<1>4. given' = given
    BY DEF Ack, streamVars
<1>5. ConsumerTypes'
    <2>1. CASE Proceed(w)
        BY <1>4, <2>1, ProceedTypes DEF Ack
    <2>2. CASE ~Proceed(w)
        BY <1>4, <2>2 DEF Ack, TypeInv, ConsumerTypes, Phases
    <2> QED BY <2>1, <2>2
<1> QED BY <1>1, <1>2, <1>3, <1>5, ConsumerKeepsTypes DEF Ack

(* Deleting what was acknowledged, then flushing what is to be retried. *)
LEMMA DeleteKeepsTypes ==
    ASSUME TypeInv, NEW w \in Workers, Delete(w)
    PROVE  TypeInv'
<1>1. FaultTypes'
    BY FaultKeeps DEF TypeInv, Delete
<1>2. given' = given /\ log' = log /\ queue' = queue /\ retry[w] \subseteq given' /\ mine[w] \subseteq given
    BY DEF Delete, TypeInv, StreamTypes, ConsumerTypes
<1>6. mine[w] \subseteq Entries
    BY <1>2, ReadEntries
<1>3. StreamTypes'
    BY <1>2, <1>6 DEF TypeInv, StreamTypes, Delete, Forget
<1>4. ConsumerTypes'
    <2>1. ConsumerTypes /\ waited' \in SUBSET given' /\ UNCHANGED <<given, waited, out, unsupported>>
        BY <1>2 DEF Delete, TypeInv, ConsumerTypes
    <2>2. CASE retry[w] = {}
        BY <2>1, <2>2, ProceedTypes DEF Delete
    <2>3. CASE retry[w] # {}
        <3>1. StartFlush(w, retry[w], {})
            BY <2>3 DEF Delete
        <3> QED BY <1>2, <2>1, <2>3, <3>1, FlushTypes
    <2> QED BY <2>2, <2>3
<1>5. PendingTypes' /\ JobTypes' /\ PollerTypes'
    BY <1>2 DEF TypeInv, PendingTypes, JobTypes, PollerTypes, Delete, pelVars, jobVars, pollVars
<1> QED BY <1>1, <1>3, <1>4, <1>5, GroupsStay DEF Delete, TypeInv

(* Re-claiming what is held. *)
LEMMA HoldKeepsTypes ==
    ASSUME TypeInv, NEW w \in Workers, Hold(w)
    PROVE  TypeInv'
<1>1. FaultTypes'
    BY FaultKeeps DEF TypeInv, Hold
<1>2. ResultTypes'
    BY GroupsStay DEF TypeInv, Hold
<1>3. 0 \in 0 .. Stale
    BY ConstantsAssumption
<1>4. PendingTypes'
    BY <1>3 DEF Hold, Reclaim, TypeInv, PendingTypes, streamVars
<1>5. ConsumerTypes'
    BY DEF Hold, TypeInv, ConsumerTypes, streamVars
<1> QED BY <1>1, <1>2, <1>4, <1>5, ConsumerKeepsTypes DEF Hold

(* Claiming what grew stale. *)
LEMMA ClaimKeepsTypes ==
    ASSUME TypeInv, NEW w \in Workers, SweepClaim(w)
    PROVE  TypeInv'
<1>1. FaultTypes' /\ ResultTypes'
    BY GroupsStay DEF TypeInv, SweepClaim
<1>2. 0 \in 0 .. Stale
    BY ConstantsAssumption
<1>4. PICK s \in registered :
          /\ deliveries' = [e \in Entries |-> IF e \in StaleEntries(s) THEN deliveries[e] + 1 ELSE deliveries[e]]
          /\ idle' = [e \in Entries |-> IF e \in StaleEntries(s) THEN 0 ELSE idle[e]]
          /\ at[w] = "idle" /\ at' = [at EXCEPT ![w] = "judge"]
          /\ todo' = [todo EXCEPT ![w] = StaleEntries(s)]
          /\ UNCHANGED <<reqVars, streamVars, mine, later, settled, retry, out, held, unsupported, flushes, waited,
                         jobVars, pollVars>>
    BY DEF SweepClaim
<1> DEFINE stale == StaleEntries(s)
<1>6. \A e \in Entries : deliveries[e] \in Nat /\ idle[e] \in 0 .. Stale /\ (deliveries[e] > 0 => e \in given)
    BY DEF TypeInv, PendingTypes
<1>7. stale \subseteq given
    BY <1>6, ReadEntries DEF StaleEntries
<1>8. /\ deliveries' = [e \in Entries |-> IF e \in stale THEN deliveries[e] + 1 ELSE deliveries[e]]
      /\ idle' = [e \in Entries |-> IF e \in stale THEN 0 ELSE idle[e]]
      /\ todo' = [todo EXCEPT ![w] = stale] /\ given' = given
    BY <1>4 DEF streamVars
<1> HIDE DEF stale
<1>3. PendingTypes'
    <2>1. deliveries' \in [Entries -> Nat] /\ idle' \in [Entries -> 0 .. Stale]
        BY <1>2, <1>6, <1>8
    <2>3. \A e \in Entries : deliveries'[e] > 0 => e \in given'
        BY <1>6, <1>7, <1>8
    <2> QED BY <2>1, <2>3 DEF PendingTypes
<1>5. ConsumerTypes'
    BY <1>4, <1>7, <1>8 DEF TypeInv, ConsumerTypes, Phases
<1> QED BY <1>1, <1>3, <1>4, <1>5, ConsumerKeepsTypes

(* Judging what was claimed. *)
LEMMA JudgeKeepsTypes ==
    ASSUME TypeInv, NEW w \in Workers, JudgeCompleted(w) \/ JudgeDeliveries(w) \/ SweepJudged(w)
    PROVE  TypeInv'
<1>1. given' = given
    BY DEF JudgeCompleted, JudgeDeliveries, SweepJudged, streamVars
<1>2. PendingTypes'
    BY GroupsStay DEF JudgeCompleted, JudgeDeliveries, SweepJudged, TypeInv
<1>3. CASE JudgeCompleted(w)
    <2>1. FaultTypes' /\ ResultTypes'
        BY <1>3, GroupsStay DEF JudgeCompleted, TypeInv
    <2>2. Item(w) \in given
        BY <1>3, ItemIsRead DEF JudgeCompleted
    <2>3. ConsumerTypes'
        <3>1. CASE Completed(log[Item(w)])
            BY <1>1, <1>3, <2>2, <3>1 DEF JudgeCompleted, TypeInv, ConsumerTypes
        <3>2. CASE ~Completed(log[Item(w)])
            BY <1>1, <1>3, <3>2 DEF JudgeCompleted, TypeInv, ConsumerTypes, Phases
        <3> QED BY <3>1, <3>2
    <2> QED BY <1>2, <1>3, <2>1, <2>3, ConsumerKeepsTypes DEF JudgeCompleted
<1>4. CASE JudgeDeliveries(w)
    <2>1. FaultTypes'
        BY <1>4, FaultKeeps DEF JudgeDeliveries, StoreOrLose, TypeInv
    <2>2. ResultTypes'
        <3>1. UNCHANGED <<result, spend, paid>> \/ (StoreOrLose(log[Item(w)], "failed") /\ UNCHANGED <<spend, paid>>)
            BY <1>4 DEF JudgeDeliveries
        <3>2. CASE UNCHANGED <<result, spend, paid>>
            BY <3>2 DEF TypeInv, ResultTypes
        <3> QED BY <3>1, <3>2, StoreTypes DEF TypeInv
    <2>3. at[w] = "judge2" /\ todo[w] # {}
        BY <1>4 DEF JudgeDeliveries, TypeInv, ConsumerTypes
    <2>4. Item(w) \in given
        BY <2>3, ItemIsRead
    <2>5. ConsumerTypes'
        <3>1. CASE Rest(w)
            <4>1. ConsumerTypes /\ waited' \in SUBSET given' /\ UNCHANGED <<out, unsupported>>
                BY <1>1, <1>4 DEF JudgeDeliveries, TypeInv, ConsumerTypes
            <4> QED BY <1>1, <3>1, <4>1, RestTypes
        <3>2. CASE ~Rest(w)
            <4>1. /\ todo' = [todo EXCEPT ![w] = @ \ {Item(w)}]
                  /\ at' = [at EXCEPT ![w] = "judge"]
                  /\ UNCHANGED <<mine, later, held, flushes, waited, out, unsupported>>
                  /\ at[w] = "judge2"
                  /\ settled' \in {settled, [settled EXCEPT ![w] = @ \cup {Item(w)}]}
                  /\ retry' \in {retry, [retry EXCEPT ![w] = @ \cup {Item(w)}]}
                BY <1>4, <3>2 DEF JudgeDeliveries
            <4> QED BY <1>1, <2>4, <4>1 DEF TypeInv, ConsumerTypes, Phases
        <3> QED BY <3>1, <3>2
    <2> QED BY <1>2, <1>4, <2>1, <2>2, <2>5, ConsumerKeepsTypes DEF JudgeDeliveries
<1>5. CASE SweepJudged(w)
    <2>1. FaultTypes' /\ ResultTypes'
        BY <1>5, GroupsStay DEF SweepJudged, TypeInv
    <2>2. retry[w] \subseteq given'
        BY <1>1 DEF TypeInv, ConsumerTypes
    <2>3. CASE settled[w] # {}
        <3>1. ConsumerTypes'
            BY <1>1, <1>5, <2>3 DEF SweepJudged, TypeInv, ConsumerTypes, Phases
        <3> QED BY <1>2, <1>5, <2>1, <3>1, ConsumerKeepsTypes DEF SweepJudged
    <2>4. CASE settled[w] = {}
        <3>2. ConsumerTypes /\ waited' \in SUBSET given' /\ UNCHANGED <<out, unsupported>>
            BY <1>1, <1>5 DEF SweepJudged, TypeInv, ConsumerTypes
        <3>5. ASSUME retry[w] # {} PROVE ConsumerTypes'
            <4>1. StartFlush(w, retry[w], {})
                BY <1>5, <2>4, <3>5 DEF SweepJudged
            <4> QED BY <1>1, <2>2, <3>2, <3>5, <4>1, FlushTypes
        <3>4. ASSUME retry[w] = {} PROVE ConsumerTypes'
            <4>1. Rest(w)
                BY <1>5, <2>4, <3>4 DEF SweepJudged
            <4> QED BY <1>1, <3>2, <4>1, RestTypes
        <3>1. ConsumerTypes'
            BY <3>4, <3>5
        <3> QED BY <1>2, <1>5, <2>1, <3>1, ConsumerKeepsTypes DEF SweepJudged
    <2> QED BY <2>3, <2>4
<1> QED BY <1>3, <1>4, <1>5

(* The poller's steps change no stream, consumer or pending entry. *)
LEMMA PollKeepsTypes ==
    ASSUME TypeInv, NEW w \in Workers, PollerStep(w)
    PROVE  TypeInv'
<1>1. UNCHANGED <<reqVars, streamVars, pelVars, consVars, jobs, paid>>
    BY DEF PollerStep, PollStart, PollJob, PollStore, PollCost, PollDrop, PollEnd, jobVars, resVars
<1>2. RequestTypes' /\ StreamTypes' /\ PendingTypes' /\ ConsumerTypes'
    BY <1>1, GroupsStay DEF TypeInv
<1>3. FaultTypes'
    BY FaultKeeps DEF PollerStep, PollStart, PollJob, PollStore, PollCost, PollDrop, PollEnd, StoreOrLose, TypeInv, NoFault
<1>4. recorded' \subseteq recorded
    BY DEF PollerStep, PollStart, PollJob, PollStore, PollCost, PollDrop, PollEnd, jobVars
<1>5. JobTypes'
    BY <1>1, <1>4 DEF TypeInv, JobTypes, streamVars
<1>6. ResultTypes'
    <2>1. CASE PollStore(w)
        BY <2>1, StoreTypes DEF PollStore, TypeInv
    <2>2. CASE ~PollStore(w)
        BY <2>2 DEF PollerStep, PollStart, PollJob, PollCost, PollDrop, PollEnd, resVars, TypeInv, ResultTypes
    <2> QED BY <2>1, <2>2
<1>7. PollerTypes'
    <2>0. /\ jobs' = jobs /\ given' = given
          /\ plist[w] \subseteq 1 .. Len(jobs) /\ Len(jobs) \in Nat /\ recorded \subseteq 1 .. Len(jobs)
        BY <1>1 DEF TypeInv, PollerTypes, JobTypes, streamVars
    <2>1. CASE PollStart(w)
        BY <2>0, <2>1 DEF PollStart, TypeInv, PollerTypes
    <2>2. CASE PollJob(w)
        <3>1. First(plist[w]) \in plist[w]
            BY <2>0, <2>2, FirstIsIn DEF PollJob
        <3>2. First(plist[w]) \in 1 .. Len(jobs) /\ jobs[First(plist[w])].items \subseteq given
            BY <2>0, <3>1 DEF TypeInv, JobTypes
        <3>3. First(plist[w]) \in 0 .. Len(jobs)
            BY <2>0, <3>2
        <3>4. /\ plist' = [plist EXCEPT ![w] = @ \ {First(plist[w])}]
              /\ \/ UNCHANGED <<pat, pjob, ptodo>>
                 \/ /\ pat' = [pat EXCEPT ![w] = "store"]
                    /\ pjob' = [pjob EXCEPT ![w] = First(plist[w])]
                    /\ ptodo' = [ptodo EXCEPT ![w] = jobs[First(plist[w])].items]
            BY <2>2 DEF PollJob
        <3> HIDE DEF First
        <3>5. plist' \in [Workers -> SUBSET (1 .. Len(jobs))]
            BY <3>4 DEF TypeInv, PollerTypes
        <3>6. CASE UNCHANGED <<pat, pjob, ptodo>>
            BY <2>0, <3>5, <3>6 DEF TypeInv, PollerTypes
        <3>7. CASE /\ pat' = [pat EXCEPT ![w] = "store"]
                   /\ pjob' = [pjob EXCEPT ![w] = First(plist[w])]
                   /\ ptodo' = [ptodo EXCEPT ![w] = jobs[First(plist[w])].items]
            <4>1. /\ pat' \in [Workers -> {"idle", "look", "store", "cost"}]
                  /\ pjob' \in [Workers -> 0 .. Len(jobs)]
                  /\ ptodo' \in [Workers -> SUBSET given]
                BY <3>2, <3>3, <3>7 DEF TypeInv, PollerTypes
            <4>2. \A v \in Workers : pat'[v] = "cost" => ptodo'[v] # {}
                BY <3>7 DEF TypeInv, PollerTypes
            <4>3. \A v \in Workers : pat'[v] \in {"store", "cost"} => pjob'[v] \in 1 .. Len(jobs)
                BY <3>2, <3>7 DEF TypeInv, PollerTypes
            <4> QED BY <2>0, <3>5, <4>1, <4>2, <4>3 DEF PollerTypes
        <3> QED BY <3>4, <3>6, <3>7
    <2>3. CASE PollStore(w)
        BY <2>0, <2>3 DEF PollStore, TypeInv, PollerTypes
    <2>4. CASE PollCost(w)
        BY <2>0, <2>4 DEF PollCost, TypeInv, PollerTypes
    <2>5. CASE PollDrop(w) \/ PollEnd(w)
        BY <2>0, <2>5 DEF PollDrop, PollEnd, TypeInv, PollerTypes
    <2> QED BY <2>1, <2>2, <2>3, <2>4, <2>5 DEF PollerStep
<1> QED BY <1>2, <1>3, <1>5, <1>6, <1>7 DEF TypeInv

(* A job holds finitely many entries. *)
LEMMA ItemsAreFinite ==
    ASSUME NEW A \in SUBSET Entries
    PROVE  IsFiniteSet(A) /\ Cardinality(A) \in Nat
<1>1. IsFiniteSet(Entries)
    BY ConstantsAssumption, FS_Interval DEF Entries
<1>2. IsFiniteSet(A)
    BY <1>1, FS_Subset
<1> QED BY <1>2, FS_CardinalityType

(* A job's end leaves what it is about, whatever the provider answers. *)
LEMMA EndedJob ==
    ASSUME TypeInv, NEW j \in 1 .. Len(jobs), JobEnds(j)
    PROVE  /\ jobs' \in Seq(Job) /\ Len(jobs') = Len(jobs)
           /\ \A k \in 1 .. Len(jobs) : jobs'[k].items = jobs[k].items /\ jobs'[k].by = jobs[k].by
           /\ \A k \in 1 .. Len(jobs) : k # j => jobs'[k] = jobs[k]
           /\ jobs'[j].status # "pending"
<1>1. jobs \in Seq(Job) /\ jobs[j] \in Job /\ Len(jobs) \in Nat
    BY DEF TypeInv, JobTypes
<1>2. PICK x : jobs' = [jobs EXCEPT ![j] = x] /\ x \in Job /\ x.items = jobs[j].items
               /\ x.by = jobs[j].by /\ x.status # "pending"
    <2>1. CASE jobs' = [jobs EXCEPT ![j].status = "failed"]
        <3> DEFINE x == [jobs[j] EXCEPT !.status = "failed"]
        <3>1. x \in Job /\ x.items = jobs[j].items /\ x.by = jobs[j].by /\ x.status = "failed"
            BY <1>1 DEF Job
        <3> QED BY <2>1, <3>1
    <2>2. ASSUME NEW A \in SUBSET jobs[j].items,
                 jobs' = [jobs EXCEPT ![j].status = "completed", ![j].answers = A]
          PROVE  \E x : jobs' = [jobs EXCEPT ![j] = x] /\ x \in Job /\ x.items = jobs[j].items
                        /\ x.by = jobs[j].by /\ x.status # "pending"
        <3> DEFINE x == [jobs[j] EXCEPT !.status = "completed", !.answers = A]
        <3>1. A \subseteq Entries
            BY <1>1, <2>2 DEF Job
        <3>2. x \in Job /\ x.items = jobs[j].items /\ x.by = jobs[j].by /\ x.status = "completed"
            BY <1>1, <3>1 DEF Job
        <3>3. jobs' = [jobs EXCEPT ![j] = x]
            BY <1>1, <2>2 DEF Job
        <3> QED BY <3>2, <3>3
    <2> QED BY <2>1, <2>2 DEF JobEnds
<1> QED BY <1>1, <1>2

(* A job ends. *)
LEMMA EndKeepsTypes ==
    ASSUME TypeInv, NEW j \in 1 .. Len(jobs), JobEnds(j)
    PROVE  TypeInv'
<1>1. RequestTypes' /\ StreamTypes' /\ PendingTypes' /\ ConsumerTypes' /\ FaultTypes'
    BY GroupsStay DEF TypeInv, JobEnds
<1>2. JobTypes' /\ PollerTypes'
    BY EndedJob DEF JobEnds, TypeInv, JobTypes, PollerTypes, pollVars, streamVars
<1>3. ResultTypes'
    <2>0. result' = result /\ spend' = spend /\ ResultTypes
        BY DEF JobEnds, TypeInv
    <2>1. CASE UNCHANGED paid
        BY <2>0, <2>1 DEF ResultTypes
    <2>2. ASSUME NEW A \in SUBSET jobs[j].items,
                 paid' = [r \in Requests |-> paid[r] + Cardinality({e \in A : log[e] = r})]
          PROVE  ResultTypes'
        <3>5. jobs[j] \in Job
            BY DEF TypeInv, JobTypes
        <3>1. jobs[j].items \subseteq Entries
            BY <3>5 DEF Job
        <3>2. \A r \in Requests : Cardinality({e \in A : log[e] = r}) \in Nat
            BY <3>1, ItemsAreFinite
        <3> DEFINE c(r) == Cardinality({e \in A : log[e] = r})
        <3>3. paid' = [r \in Requests |-> paid[r] + c(r)] /\ \A r \in Requests : c(r) \in Nat
            BY <2>2, <3>2
        <3> HIDE DEF c
        <3>4. paid' \in [Requests -> Nat]
            BY <2>0, <3>3 DEF ResultTypes
        <3> QED BY <2>0, <3>4 DEF ResultTypes
    <2>3. (UNCHANGED paid) \/ \E A \in SUBSET jobs[j].items :
             paid' = [r \in Requests |-> paid[r] + Cardinality({e \in A : log[e] = r})]
        BY DEF JobEnds
    <2> QED BY <2>1, <2>2, <2>3
<1> QED BY <1>1, <1>2, <1>3 DEF TypeInv

(* Time passes. *)
LEMMA TimeKeepsTypes ==
    ASSUME TypeInv, Tick \/ Stall
    PROVE  TypeInv'
<1>1. FaultTypes'
    BY FaultKeeps DEF Tick, Stall, TypeInv, NoFault
<1>2. ResultTypes'
    BY GroupsStay DEF Tick, Stall, TypeInv
<1>3. Stale \in Nat /\ \A e \in Entries : idle[e] \in 0 .. Stale
    BY ConstantsAssumption DEF TypeInv, PendingTypes
<1>4. PendingTypes'
    <2>1. idle' \in [Entries -> 0 .. Stale]
        BY <1>3 DEF Tick, Stall
    <2> QED BY <2>1 DEF Tick, Stall, TypeInv, PendingTypes, streamVars
<1>5. ConsumerTypes'
    BY DEF Tick, Stall, TypeInv, ConsumerTypes, streamVars, consVars
<1> QED BY <1>1, <1>2, <1>4, <1>5, ConsumerKeepsTypes DEF Tick, Stall

(* A worker process dies. *)
LEMMA CrashKeepsTypes ==
    ASSUME TypeInv, NEW w \in Workers, Crash(w)
    PROVE  TypeInv'
<1>1. RequestTypes' /\ StreamTypes' /\ PendingTypes' /\ ResultTypes'
    BY GroupsStay DEF TypeInv, Crash
<1>2. FaultTypes'
    BY ConstantsAssumption DEF Crash, TypeInv, FaultTypes
<1>3. ConsumerTypes /\ given' = given /\ waited' \in SUBSET given' /\ out' = out /\ unsupported' \subseteq unsupported
    BY DEF Crash, TypeInv, ConsumerTypes, streamVars
<1>4. ConsumerTypes'
    BY <1>3, RestTypes DEF Crash
<1>5. PollerTypes' /\ JobTypes'
    BY DEF Crash, TypeInv, PollerTypes, JobTypes, jobVars, streamVars
<1> QED BY <1>1, <1>2, <1>4, <1>5 DEF TypeInv

(* Every step keeps the types. *)
LEMMA TypeKeeps == TypeInv /\ [Next]_vars => TypeInv'
<1>1. CASE UNCHANGED vars
    BY <1>1, GroupsStay DEF vars, TypeInv, reqVars, streamVars, pelVars, consVars, jobVars, pollVars, resVars, faultVars
<1>2. ASSUME TypeInv, NEW w \in Workers, ConsumerStep(w) PROVE TypeInv'
    BY <1>2, ReadKeepsTypes, SubmitKeepsTypes, RecordKeepsTypes, CallKeepsTypes, StoreKeepsTypes, CostKeepsTypes,
       AckKeepsTypes, DeleteKeepsTypes, ClaimKeepsTypes, JudgeKeepsTypes DEF ConsumerStep
<1> QED BY <1>1, <1>2, RequestKeepsTypes, HoldKeepsTypes, PollKeepsTypes, CrashKeepsTypes, EndKeepsTypes, TimeKeepsTypes
        DEF Next

(* The stream, the workers, the jobs and the results keep their types, for any number of
   requests and workers, whatever fails: TypeOK. *)
THEOREM BatchTypes == Spec => []TypeOK
BY TypeStart, TypeKeeps, TypesAre, PTL DEF Spec

-----------------------------------------------------------------------------
(* What every step leaves: the requests of the entries, and a stored result. *)

(* Entries are only ever added to the log, and what was read is in it. *)
LEMMA LogGrows ==
    ASSUME TypeInv, [Next]_vars
    PROVE  /\ \A e \in 1 .. Len(log) : e \in 1 .. Len(log') /\ log'[e] = log[e]
           /\ \A e \in given : e \in 1 .. Len(log)
<1>1. log \in Seq(Requests) /\ Len(log) \in Nat /\ given \subseteq 1 .. Len(log)
    BY DEF TypeInv, StreamTypes
<1>2. log' = log \/ \E r \in Requests : log' = Append(log, r)
    <2>1. ASSUME NEW r \in Requests, HandlerStep(r) \/ HandlerDies(r)
          PROVE  log' = log \/ log' = Append(log, r)
        BY <2>1 DEF HandlerStep, HandlerDies, AnswerNow, RecordOwner, CheckBacklog, RegisterStream,
                    Accumulate, ForgetOwner, streamVars
    <2>2. ASSUME NEW w \in Workers, ConsumerStep(w) \/ Hold(w) \/ PollerStep(w) \/ Crash(w)
          PROVE  log' = log
        BY <2>2 DEF ConsumerStep, Read, Submit, RecordJob, CallEnds, Store, AddCost, Ack, Delete, SweepClaim,
                    JudgeCompleted, JudgeDeliveries, SweepJudged, Hold, PollerStep, PollStart, PollJob,
                    PollStore, PollCost, PollDrop, PollEnd, Crash, streamVars
    <2>3. ASSUME Tick \/ Stall \/ (\E j \in 1 .. Len(jobs) : JobEnds(j)) \/ UNCHANGED vars
          PROVE  log' = log
        BY <2>3 DEF Tick, Stall, JobEnds, streamVars, vars
    <2> QED BY <2>1, <2>2, <2>3 DEF Next
<1> QED BY <1>1, <1>2

(* A result is only ever written by storing an answer, or a failure, of a read entry. *)
LEMMA OnlyStores ==
    ASSUME TypeInv, [Next]_vars
    PROVE  \/ result' = result
           \/ \E e \in given : \E s \in {"completed", "failed"} : StoreResult(log[e], s)
<1>1. ASSUME NEW r \in Requests, HandlerStep(r) \/ HandlerDies(r)
      PROVE  result' = result
    BY <1>1 DEF HandlerStep, HandlerDies, AnswerNow, RecordOwner, CheckBacklog, RegisterStream, Accumulate,
                ForgetOwner, resVars
<1>2. ASSUME NEW w \in Workers, Store(w)
      PROVE  result' = result \/ \E e \in given : \E s \in {"completed", "failed"} : StoreResult(log[e], s)
    <2>1. todo[w] # {} /\ out[w] \in {"completed", "failed"}
        BY <1>2 DEF Store, TypeInv, ConsumerTypes
    <2>2. result' = result \/ StoreResult(log[Item(w)], out[w])
        BY <1>2 DEF Store, StoreOrLose
    <2> QED BY <2>1, <2>2, ItemIsRead
<1>3. ASSUME NEW w \in Workers, JudgeDeliveries(w)
      PROVE  result' = result \/ \E e \in given : \E s \in {"completed", "failed"} : StoreResult(log[e], s)
    <2>1. todo[w] # {}
        BY <1>3 DEF JudgeDeliveries, TypeInv, ConsumerTypes
    <2>2. result' = result \/ StoreResult(log[Item(w)], "failed")
        BY <1>3 DEF JudgeDeliveries, StoreOrLose
    <2> QED BY <2>1, <2>2, ItemIsRead
<1>4. ASSUME NEW w \in Workers, PollStore(w)
      PROVE  result' = result \/ \E e \in given : \E s \in {"completed", "failed"} : StoreResult(log[e], s)
    <2>1. ptodo[w] # {}
        BY <1>4 DEF PollStore
    <2>2. result' = result \/ StoreResult(log[PItem(w)], "completed") \/ StoreResult(log[PItem(w)], "failed")
        BY <1>4 DEF PollStore, StoreOrLose
    <2> QED BY <2>1, <2>2, PItemIsRead
<1>5. ASSUME NEW w \in Workers, ConsumerStep(w) \/ Hold(w) \/ PollerStep(w) \/ Crash(w),
             ~Store(w), ~JudgeDeliveries(w), ~PollStore(w)
      PROVE  result' = result
    BY <1>5 DEF ConsumerStep, Read, Submit, RecordJob, CallEnds, AddCost, Ack, Delete, SweepClaim,
                JudgeCompleted, SweepJudged, Hold, PollerStep, PollStart, PollJob,
                PollCost, PollDrop, PollEnd, Crash, resVars
<1>6. ASSUME Tick \/ Stall \/ (\E j \in 1 .. Len(jobs) : JobEnds(j)) \/ UNCHANGED vars
      PROVE  result' = result
    BY <1>6 DEF Tick, Stall, JobEnds, resVars, vars
<1> QED BY <1>1, <1>2, <1>3, <1>4, <1>5, <1>6 DEF Next

(* Neither an answer nor a failure is taken back. *)
LEMMA ResultsStay ==
    ASSUME TypeInv, [Next]_vars, NEW r \in Requests
    PROVE  /\ result[r] = "completed" => result'[r] = "completed"
           /\ result[r] # "none" => result'[r] # "none"
<1>1. result \in [Requests -> {"none", "failed", "completed"}]
    BY DEF TypeInv, ResultTypes
<1>2. ASSUME NEW x, NEW s \in {"completed", "failed"}, StoreResult(x, s)
      PROVE  /\ result[r] = "completed" => result'[r] = "completed"
             /\ result[r] # "none" => result'[r] # "none"
    BY <1>1, <1>2 DEF StoreResult
<1> QED BY <1>2, OnlyStores

(* What a step does to the requests: their owner records and where they are. *)
LEMMA RequestsMove ==
    ASSUME [Next]_vars
    PROVE  UNCHANGED <<pc, owner, registered, log>> \/ \E r \in Requests : HandlerStep(r) \/ HandlerDies(r)
<1>2. ASSUME NEW w \in Workers, ConsumerStep(w) \/ Hold(w) \/ PollerStep(w) \/ Crash(w)
      PROVE  UNCHANGED <<pc, owner, registered, log>>
    BY <1>2 DEF ConsumerStep, Read, Submit, RecordJob, CallEnds, Store, AddCost, Ack, Delete, SweepClaim,
                JudgeCompleted, JudgeDeliveries, SweepJudged, Hold, PollerStep, PollStart, PollJob,
                PollStore, PollCost, PollDrop, PollEnd, Crash, streamVars, reqVars
<1>3. ASSUME Tick \/ Stall \/ (\E j \in 1 .. Len(jobs) : JobEnds(j)) \/ UNCHANGED vars
      PROVE  UNCHANGED <<pc, owner, registered, log>>
    BY <1>3 DEF Tick, Stall, JobEnds, streamVars, reqVars, vars
<1> QED BY <1>2, <1>3 DEF Next

(* The caller of a deferred request that has seen the answer keeps seeing it: no retry that
   gave up, no stale sweep and no failed native job of another worker replaces it
   (_store_batch_result): AnswerStays. *)
THEOREM AnswersAlwaysStay == Spec => AnswerStays
<1>1. TypeInv /\ [Next]_vars =>
        [\A r \in Requests : pc[r] = "queued" /\ Seen(r) = "completed" => Seen(r)' = "completed"]_vars
    <2> SUFFICES ASSUME TypeInv, [Next]_vars, NEW r \in Requests, pc[r] = "queued", Seen(r) = "completed"
                 PROVE  Seen(r)' = "completed"
        OBVIOUS
    <2>1. r \in owner /\ result[r] = "completed"
        BY DEF Seen
    <2>2. result'[r] = "completed"
        BY <2>1, ResultsStay
    <2>3. r \in owner'
        <3>1. ASSUME NEW s \in Requests, HandlerStep(s) \/ HandlerDies(s) PROVE r \in owner'
            BY <2>1, <3>1 DEF HandlerStep, HandlerDies, AnswerNow, RecordOwner, CheckBacklog, RegisterStream,
                              Accumulate, ForgetOwner
        <3> QED BY <2>1, <3>1, RequestsMove
    <2> QED BY <2>2, <2>3 DEF Seen
<1> QED BY <1>1, TypeStart, TypeKeeps, PTL DEF Spec, AnswerStays

-----------------------------------------------------------------------------
(* A result has an owner: until its owner record is taken back a request is not queued, and
   the entries of the stream are those of queued requests. *)
OwnersInv ==
    /\ \A r \in Requests : pc[r] \in {"owned", "checked", "registered"} => r \in owner
    /\ \A e \in 1 .. Len(log) : log[e] \in owner /\ pc[log[e]] = "queued"
    /\ \A r \in Requests : result[r] # "none" => r \in owner /\ pc[r] = "queued"

(* Every step keeps the owners, provided an XADD that failed was not applied. *)
LEMMA OwnersKeep ==
    ASSUME TypeInv, OwnersInv, [Next]_vars, "xadd_late" \notin FaultKinds
    PROVE  OwnersInv'
<1>1. ASSUME NEW r \in Requests, HandlerStep(r) \/ HandlerDies(r)
      PROVE  OwnersInv'
    <2>1. \A q \in Requests : pc[q] = "queued" => pc'[q] = "queued" /\ (q \in owner => q \in owner')
        BY <1>1 DEF HandlerStep, HandlerDies, AnswerNow, RecordOwner, CheckBacklog, RegisterStream,
                    Accumulate, ForgetOwner, Goto, TypeInv, RequestTypes
    <2>2. \A q \in Requests : pc'[q] \in {"owned", "checked", "registered"} => q \in owner'
        BY <1>1 DEF OwnersInv, HandlerStep, HandlerDies, AnswerNow, RecordOwner, CheckBacklog, RegisterStream,
                    Accumulate, ForgetOwner, Goto, TypeInv, RequestTypes
    <2>3. log' = log \/ (log' = Append(log, r) /\ pc'[r] = "queued" /\ r \in owner')
        BY <1>1 DEF OwnersInv, HandlerStep, HandlerDies, AnswerNow, RecordOwner, CheckBacklog, RegisterStream,
                    Accumulate, ForgetOwner, Goto, Fault, streamVars, TypeInv, RequestTypes
    <2>4. log \in Seq(Requests) /\ Len(log) \in Nat
        BY DEF TypeInv, StreamTypes
    <2>5. \A e \in 1 .. Len(log) : log[e] \in owner' /\ pc'[log[e]] = "queued"
        BY <2>1, <2>4 DEF OwnersInv
    <2>6. \A e \in 1 .. Len(log') : log'[e] \in owner' /\ pc'[log'[e]] = "queued"
        BY <2>3, <2>4, <2>5
    <2>7. result' = result
        BY <1>1 DEF HandlerStep, HandlerDies, AnswerNow, RecordOwner, CheckBacklog, RegisterStream, Accumulate,
                    ForgetOwner, resVars
    <2>8. \A q \in Requests : result'[q] # "none" => q \in owner' /\ pc'[q] = "queued"
        BY <2>1, <2>7 DEF OwnersInv
    <2> QED BY <2>2, <2>6, <2>8 DEF OwnersInv
<1>2. CASE UNCHANGED <<pc, owner, registered, log>>
    <2>1. \A e \in given : log[e] \in owner /\ pc[log[e]] = "queued"
        BY LogGrows DEF OwnersInv
    <2>2. \A q \in Requests : result'[q] # "none" => q \in owner /\ pc[q] = "queued"
        <3>1. CASE result' = result
            BY <3>1 DEF OwnersInv
        <3>2. ASSUME NEW e \in given, NEW s, StoreResult(log[e], s)
              PROVE  \A q \in Requests : result'[q] # "none" => q \in owner /\ pc[q] = "queued"
            BY <2>1, <3>2 DEF OwnersInv, StoreResult, TypeInv, ResultTypes
        <3> QED BY <3>1, <3>2, OnlyStores
    <2> QED BY <1>2, <2>2 DEF OwnersInv
<1> QED BY <1>1, <1>2, RequestsMove

(* So every result has an owner on record. *)
LEMMA OwnersHold ==
    ASSUME "xadd_late" \notin FaultKinds
    PROVE  Spec => []ResultsHaveOwners
<1>1. Init => OwnersInv
    BY Len(<<>>) = 0 DEF Init, OwnersInv
<1>2. OwnersInv => ResultsHaveOwners
    BY DEF OwnersInv, ResultsHaveOwners
<1>3. TypeInv /\ OwnersInv /\ [Next]_vars => OwnersInv'
    BY OwnersKeep
<1> QED BY <1>1, <1>2, <1>3, TypeStart, TypeKeeps, PTL DEF Spec

-----------------------------------------------------------------------------
(* What is still owed: a worker that holds a paid answer, and has yet to add its cost. *)
Owing(r) == {w \in Workers : at[w] \in {"store", "cost"} /\ out[w] = "completed" /\ log[Item(w)] = r}

(* Without native batches there is no job, and only an answered call is priced. *)
LoopOnly ==
    /\ jobs = <<>>
    /\ \A w \in Workers : at[w] \notin {"submit", "record"} /\ pat[w] = "idle"
    /\ \A w \in Workers : at[w] = "cost" => out[w] = "completed"

(* What was added and what is owed is never more than what the provider was paid for. *)
CostInv ==
    /\ LoopOnly
    /\ \A r \in Requests : spend[r] + Cardinality(Owing(r)) <= paid[r]

(* The sets that are counted are sets of workers. *)
LEMMA WorkersAreFinite ==
    ASSUME NEW W, W \subseteq Workers
    PROVE  IsFiniteSet(W) /\ Cardinality(W) \in Nat
<1>1. IsFiniteSet(W)
    BY ConstantsAssumption, FS_Subset
<1> QED BY <1>1, FS_CardinalityType

(* How many workers a set of them has, when some leave it or one joins. *)
LEMMA FewerWorkers ==
    ASSUME NEW W, W \subseteq Workers, NEW V, V \subseteq W
    PROVE  /\ Cardinality(V) \in Nat /\ Cardinality(W) \in Nat /\ Cardinality(V) <= Cardinality(W)
           /\ \A w \in W : w \notin V => Cardinality(V) + 1 <= Cardinality(W)
<1>1. IsFiniteSet(W) /\ Cardinality(V) \in Nat /\ Cardinality(W) \in Nat
    BY WorkersAreFinite
<1>2. Cardinality(V) <= Cardinality(W)
    BY <1>1, FS_Subset
<1>3. ASSUME NEW w \in W, w \notin V PROVE Cardinality(V) + 1 <= Cardinality(W)
    <2>1. V \subseteq W \ {w} /\ IsFiniteSet(W \ {w})
        BY <1>1, <1>3, FS_RemoveElement
    <2>2. Cardinality(V) <= Cardinality(W \ {w})
        BY <2>1, FS_Subset
    <2>3. Cardinality(W \ {w}) = Cardinality(W) - 1
        BY <1>1, <1>3, FS_RemoveElement
    <2> QED BY <1>1, <2>2, <2>3
<1> QED BY <1>1, <1>2, <1>3

(* One worker more counts at most one more. *)
LEMMA OneMoreWorker ==
    ASSUME NEW W, W \subseteq Workers, NEW w \in Workers, NEW V, V \subseteq W \cup {w}
    PROVE  /\ Cardinality(V) \in Nat /\ Cardinality(W) \in Nat
           /\ Cardinality(V) <= Cardinality(W) + 1
<1>1. IsFiniteSet(W) /\ Cardinality(V) \in Nat /\ Cardinality(W) \in Nat
    <2>1. V \subseteq Workers
        OBVIOUS
    <2> QED BY <2>1, WorkersAreFinite
<1>2. IsFiniteSet(W \cup {w}) /\ Cardinality(W \cup {w}) <= Cardinality(W) + 1
    <2>1. IsFiniteSet(W \cup {w}) /\ Cardinality(W \cup {w}) \in {Cardinality(W), Cardinality(W) + 1}
        BY <1>1, FS_AddElement
    <2>2. \A n \in Nat : \A m \in {n, n + 1} : m <= n + 1
        OBVIOUS
    <2> QED BY <1>1, <2>1, <2>2
<1>3. Cardinality(V) <= Cardinality(W \cup {w}) /\ Cardinality(W \cup {w}) \in Nat
    BY <1>2, FS_Subset, FS_CardinalityType
<1> QED BY <1>1, <1>2, <1>3

(* A step that brings no worker nearer to adding a cost. *)
LEMMA OwingFalls ==
    ASSUME TypeInv, [Next]_vars, NEW r,
           \A w \in Workers : at'[w] \in {"store", "cost"} /\ out'[w] = "completed" =>
              at[w] \in {"store", "cost"} /\ todo'[w] = todo[w] /\ out[w] = "completed"
    PROVE  Owing(r)' \subseteq Owing(r)
<1> SUFFICES ASSUME NEW w \in Owing(r)' PROVE w \in Owing(r)
    OBVIOUS
<1>1. w \in Workers /\ at'[w] \in {"store", "cost"} /\ out'[w] = "completed" /\ log'[First(todo'[w])] = r
    BY DEF Owing, Item
<1>2. at[w] \in {"store", "cost"} /\ todo'[w] = todo[w] /\ out[w] = "completed"
    BY <1>1
<1>3. todo[w] # {}
    BY <1>1, <1>2 DEF TypeInv, ConsumerTypes
<1>4. Item(w) \in 1 .. Len(log)
    BY <1>1, <1>3, ItemIsRead
<1>5. log'[Item(w)] = log[Item(w)]
    BY <1>4, LogGrows
<1> QED BY <1>1, <1>2, <1>5 DEF Owing, Item

(* Every step keeps the account. *)
LEMMA CostKeeps ==
    ASSUME TypeInv, CostInv, [Next]_vars, ~Native
    PROVE  CostInv'
<1>0. /\ recorded = {}
      /\ spend \in [Requests -> Nat] /\ paid \in [Requests -> Nat]
      /\ at \in [Workers -> Phases] /\ out \in [Workers -> {"none", "completed", "failed"}]
      /\ todo \in [Workers -> SUBSET given]
    BY Len(<<>>) = 0 DEF TypeInv, JobTypes, CostInv, LoopOnly, ResultTypes, ConsumerTypes
<1>1. LoopOnly'
    <2>1. ASSUME NEW w \in Workers, ConsumerStep(w) \/ Hold(w)
          PROVE  LoopOnly'
        BY <1>0, <2>1 DEF CostInv, LoopOnly, ConsumerStep, Read, Submit, RecordJob, CallEnds, Store, AfterStore, AfterItem,
              AddCost, Ack, Delete, SweepClaim, JudgeCompleted, JudgeDeliveries, SweepJudged, Hold, StartFlush,
              Rest, Proceed, jobVars, pollVars
    <2>2. ASSUME NEW w \in Workers, PollerStep(w) \/ Crash(w)
          PROVE  LoopOnly'
        BY <1>0, <2>2 DEF CostInv, LoopOnly, PollerStep, PollStart, PollJob, PollStore, PollCost, PollDrop, PollEnd, Crash, Rest,
              jobVars, consVars, pollVars, TypeInv, PollerTypes
    <2>3. ASSUME NEW r \in Requests, HandlerStep(r) \/ HandlerDies(r)
          PROVE  LoopOnly'
        BY <2>3 DEF CostInv, LoopOnly, HandlerStep, HandlerDies, AnswerNow, RecordOwner, CheckBacklog, RegisterStream,
              Accumulate, ForgetOwner, jobVars, consVars, pollVars
    <2>4. ~ \E j \in 1 .. Len(jobs) : JobEnds(j)
        BY DEF CostInv, LoopOnly
    <2>5. ASSUME Tick \/ Stall \/ UNCHANGED vars
          PROVE  LoopOnly'
        BY <2>5 DEF CostInv, LoopOnly, Tick, Stall, vars, jobVars, consVars, pollVars
    <2> QED BY <2>1, <2>2, <2>3, <2>4, <2>5 DEF Next
<1>2. ASSUME NEW r \in Requests,
             \A w \in Workers : at'[w] \in {"store", "cost"} /\ out'[w] = "completed" =>
                at[w] \in {"store", "cost"} /\ todo'[w] = todo[w] /\ out[w] = "completed",
             UNCHANGED <<spend, paid>>
      PROVE  spend'[r] + Cardinality(Owing(r)') <= paid'[r]
    <2>1. Owing(r)' \subseteq Owing(r) /\ Owing(r) \subseteq Workers
        BY <1>2, OwingFalls DEF Owing
    <2>2. /\ Cardinality(Owing(r)') \in Nat /\ Cardinality(Owing(r)) \in Nat
          /\ Cardinality(Owing(r)') <= Cardinality(Owing(r))
        BY <2>1, FewerWorkers
    <2>3. spend[r] \in Nat /\ paid[r] \in Nat /\ spend[r] + Cardinality(Owing(r)) <= paid[r]
        BY <1>0 DEF CostInv
    <2> QED BY <1>2, <2>2, <2>3
<1>3. ASSUME NEW r \in Requests, NEW w \in Workers, CallEnds(w)
      PROVE  spend'[r] + Cardinality(Owing(r)') <= paid'[r]
    <2>1. CASE out'[w] # "completed"
        <3>1. UNCHANGED <<spend, paid>>
            BY <1>0, <1>3, <2>1 DEF CallEnds
        <3> QED BY <1>0, <1>2, <1>3, <2>1, <3>1 DEF CallEnds
    <2>2. CASE out'[w] = "completed"
        <3>1. at[w] = "call" /\ todo[w] # {}
            BY <1>3 DEF CallEnds, TypeInv, ConsumerTypes
        <3>2. log[Item(w)] \in Requests /\ Item(w) \in 1 .. Len(log)
            BY <3>1, ItemIsRead
        <3>3. paid' = [paid EXCEPT ![log[Item(w)]] = @ + 1] /\ spend' = spend /\ log' = log /\ todo' = todo
            BY <1>0, <1>3, <2>2 DEF CallEnds, streamVars
        <3>4. \A v \in Workers : v # w => at'[v] = at[v] /\ out'[v] = out[v]
            BY <1>0, <1>3 DEF CallEnds
        <3>5. Owing(r)' \subseteq Owing(r) \cup {w} /\ (log[Item(w)] # r => Owing(r)' \subseteq Owing(r))
            BY <3>3, <3>4 DEF Owing, Item
        <3>6. Owing(r) \subseteq Workers
            BY DEF Owing
        <3>7. spend[r] \in Nat /\ paid[r] \in Nat /\ spend[r] + Cardinality(Owing(r)) <= paid[r]
            BY <1>0 DEF CostInv
        <3>8. CASE log[Item(w)] = r
            <4>1. paid'[r] = paid[r] + 1
                BY <1>0, <3>3, <3>8
            <4>2. /\ Cardinality(Owing(r)') \in Nat /\ Cardinality(Owing(r)) \in Nat
                  /\ Cardinality(Owing(r)') <= Cardinality(Owing(r)) + 1
                BY <3>5, <3>6, OneMoreWorker
            <4> QED BY <3>3, <3>7, <4>1, <4>2
        <3>9. CASE log[Item(w)] # r
            <4>1. paid'[r] = paid[r]
                BY <1>0, <3>3, <3>9
            <4>2. /\ Cardinality(Owing(r)') \in Nat /\ Cardinality(Owing(r)) \in Nat
                  /\ Cardinality(Owing(r)') <= Cardinality(Owing(r))
                BY <3>5, <3>6, <3>9, FewerWorkers
            <4> QED BY <3>3, <3>7, <4>1, <4>2
        <3> QED BY <3>8, <3>9
    <2> QED BY <2>1, <2>2
<1>4. ASSUME NEW r \in Requests, NEW w \in Workers, AddCost(w)
      PROVE  spend'[r] + Cardinality(Owing(r)') <= paid'[r]
    <2>1. /\ at[w] = "cost" /\ out[w] = "completed" /\ at'[w] \in {"ack", "call"} /\ out' = out /\ paid' = paid
          /\ \A v \in Workers : v # w => at'[v] = at[v] /\ todo'[v] = todo[v]
        BY <1>0, <1>4 DEF AddCost, AfterItem, CostInv, LoopOnly
    <2>2. Owing(r)' \subseteq Owing(r) /\ w \notin Owing(r)' /\ Owing(r) \subseteq Workers
        BY <2>1, OwingFalls DEF Owing
    <2>3. spend[r] \in Nat /\ paid[r] \in Nat /\ spend[r] + Cardinality(Owing(r)) <= paid[r]
        BY <1>0 DEF CostInv
    <2>4. CASE log[Item(w)] = r
        <3>1. w \in Owing(r)
            BY <2>1, <2>4 DEF Owing
        <3>2. /\ Cardinality(Owing(r)') \in Nat /\ Cardinality(Owing(r)) \in Nat
              /\ Cardinality(Owing(r)') + 1 <= Cardinality(Owing(r))
            BY <2>2, <3>1, FewerWorkers
        <3>3. spend'[r] \in {spend[r], spend[r] + 1}
            BY <1>0, <1>4 DEF AddCost
        <3> QED BY <2>1, <2>3, <3>2, <3>3
    <2>5. CASE log[Item(w)] # r
        <3>2. /\ Cardinality(Owing(r)') \in Nat /\ Cardinality(Owing(r)) \in Nat
              /\ Cardinality(Owing(r)') <= Cardinality(Owing(r))
            BY <2>2, FewerWorkers
        <3>3. spend'[r] = spend[r]
            BY <1>0, <1>4, <2>5 DEF AddCost
        <3> QED BY <2>1, <2>3, <3>2, <3>3
    <2> QED BY <2>4, <2>5
<1>5. ASSUME NEW r \in Requests, \A w \in Workers : ~CallEnds(w) /\ ~AddCost(w)
      PROVE  spend'[r] + Cardinality(Owing(r)') <= paid'[r]
    <2> DEFINE Same(v) == at'[v] = at[v] /\ todo'[v] = todo[v] /\ out'[v] = out[v]
               Apart(v) == at'[v] \notin {"store", "cost"} \/ out'[v] # "completed"
    <2>1. ASSUME NEW w \in Workers, ConsumerStep(w) \/ Hold(w)
          PROVE  UNCHANGED <<spend, paid>> /\ \A v \in Workers : Same(v) \/ Apart(v) \/ (v = w /\ Store(w))
        <3>1. CASE Read(w) \/ Delete(w)
            BY <1>0, <3>1 DEF Read, Delete, StartFlush, Rest, Proceed, resVars
        <3>2. CASE Submit(w) \/ RecordJob(w) \/ Hold(w)
            BY <1>0, <3>2 DEF Submit, RecordJob, Hold, resVars
        <3>3. CASE Ack(w)
            BY <1>0, <3>3 DEF Ack, StartFlush, Rest, Proceed, resVars
        <3>4. CASE SweepClaim(w) \/ JudgeCompleted(w)
            BY <1>0, <3>4 DEF SweepClaim, JudgeCompleted, resVars
        <3>5. CASE JudgeDeliveries(w)
            BY <1>0, <3>5 DEF JudgeDeliveries, Rest
        <3>6. CASE SweepJudged(w)
            BY <1>0, <3>6 DEF SweepJudged, StartFlush, Rest, resVars
        <3>7. CASE Store(w)
            BY <1>0, <3>7 DEF Store, AfterStore
        <3> QED BY <1>5, <2>1, <3>1, <3>2, <3>3, <3>4, <3>5, <3>6, <3>7 DEF ConsumerStep
    <2>2. ASSUME NEW w \in Workers, PollerStep(w) \/ Crash(w)
          PROVE  UNCHANGED <<spend, paid>> /\ \A v \in Workers : Same(v) \/ Apart(v)
        BY <1>0, <2>2 DEF CostInv, LoopOnly, PollerStep, PollStart, PollJob, PollStore, PollCost, PollDrop, PollEnd,
              Crash, Rest, consVars, resVars
    <2>3. ASSUME NEW q \in Requests, HandlerStep(q) \/ HandlerDies(q)
          PROVE  UNCHANGED <<spend, paid>> /\ \A v \in Workers : Same(v)
        BY <2>3 DEF HandlerStep, HandlerDies, AnswerNow, RecordOwner, CheckBacklog, RegisterStream,
              Accumulate, ForgetOwner, consVars, resVars
    <2>4. ~ \E j \in 1 .. Len(jobs) : JobEnds(j)
        BY DEF CostInv, LoopOnly
    <2>5. ASSUME Tick \/ Stall \/ UNCHANGED vars
          PROVE  UNCHANGED <<spend, paid>> /\ \A v \in Workers : Same(v)
        BY <2>5 DEF Tick, Stall, vars, consVars, resVars
    <2>6. ASSUME NEW w \in Workers, Store(w)
          PROVE  Apart(w) \/ (at[w] = "store" /\ todo'[w] = todo[w] /\ out'[w] = out[w])
        BY <1>0, <2>6 DEF Store, AfterStore, AfterItem
    <2>7. UNCHANGED <<spend, paid>>
        BY <2>1, <2>2, <2>3, <2>4, <2>5 DEF Next
    <2>8. \A v \in Workers : Same(v) \/ Apart(v) \/ Store(v)
        BY <2>1, <2>2, <2>3, <2>4, <2>5 DEF Next
    <2>9. \A v \in Workers : at'[v] \in {"store", "cost"} /\ out'[v] = "completed" =>
              at[v] \in {"store", "cost"} /\ todo'[v] = todo[v] /\ out[v] = "completed"
        BY <2>6, <2>8
    <2> QED BY <1>2, <2>7, <2>9
<1> QED BY <1>1, <1>3, <1>4, <1>5 DEF CostInv

(* Every result has an owner who can read it, as long as no XADD that failed was applied
   (process_request records the owner first); and in the per-item loop a tenant is charged
   no more than the provider was paid for, however many workers flush an entry, and wherever
   one dies (_add_answer_cost): ResultsAreAccounted. *)
THEOREM ResultsAlwaysAccounted ==
    ASSUME "xadd_late" \notin FaultKinds, ~Native
    PROVE  Spec => []ResultsAreAccounted
<1>1. Init => CostInv
    <2> SUFFICES ASSUME Init PROVE CostInv
        OBVIOUS
    <2>1. LoopOnly
        BY DEF Init, LoopOnly
    <2>2. \A r \in Requests : Owing(r) = {}
        BY DEF Init, Owing
    <2>3. \A r \in Requests : Cardinality(Owing(r)) = 0
        BY <2>2, FS_EmptySet
    <2>5. \A r \in Requests : spend[r] = 0 /\ paid[r] = 0
        BY DEF Init
    <2>4. \A r \in Requests : spend[r] + Cardinality(Owing(r)) <= paid[r]
        BY <2>3, <2>5
    <2> QED BY <2>1, <2>4 DEF CostInv
<1>2. TypeInv /\ CostInv => SpendIsPaid
    <2> SUFFICES ASSUME TypeInv, CostInv, NEW r \in Requests PROVE spend[r] <= paid[r]
        BY DEF SpendIsPaid
    <2>1. Cardinality(Owing(r)) \in Nat
        BY WorkersAreFinite DEF Owing
    <2> QED BY <2>1 DEF TypeInv, ResultTypes, CostInv
<1>3. TypeInv /\ CostInv /\ [Next]_vars => CostInv'
    BY CostKeeps
<1>4. Spec => []SpendIsPaid
    BY <1>1, <1>2, <1>3, TypeStart, TypeKeeps, PTL DEF Spec
<1>5. Spec => []ResultsHaveOwners
    BY OwnersHold
<1>6. ResultsHaveOwners /\ SpendIsPaid => ResultsAreAccounted
    BY DEF ResultsAreAccounted
<1> QED BY <1>4, <1>5, <1>6, PTL

-----------------------------------------------------------------------------
(* Every claim of a sweep counts as a delivery and gives one worker one chance to flush the
   entry, as its first delivery does.  An entry's flushes and the chances outstanding are never more than its deliveries
   while it is pending, and its flushes and the retries already granted never more than
   max_attempts. *)
Chances(e) ==
    {w \in Workers : (at[w] \in {"judge", "judge2"} /\ e \in todo[w]) \/ e \in retry[w] \cup later[w]}

(* The workers that will flush an entry without looking at it again. *)
Granted(e) == {w \in Workers : e \in retry[w] \cup later[w]}

(* The count of flushes, chances and retries. *)
AttemptsInv ==
    /\ \A e \in Entries : e \notin given => flushes[e] = 0
    /\ \A e \in Entries : deliveries[e] > 0 => flushes[e] + Cardinality(Chances(e)) <= deliveries[e]
    /\ \A e \in Entries : flushes[e] + Cardinality(Granted(e)) <= MaxAttempts

(* Chances and retries are counted over workers; a retry is a chance. *)
LEMMA ChancesAre ==
    ASSUME NEW e
    PROVE  /\ Chances(e) \subseteq Workers /\ Granted(e) \subseteq Chances(e)
           /\ Cardinality(Chances(e)) \in Nat /\ Cardinality(Granted(e)) \in Nat
           /\ Cardinality(Granted(e)) <= Cardinality(Chances(e))
<1>1. Chances(e) \subseteq Workers /\ Granted(e) \subseteq Chances(e)
    BY DEF Chances, Granted
<1> QED BY <1>1, FewerWorkers

(* A step that flushes nothing, delivers nothing and gives no chance. *)
LEMMA NoChance ==
    ASSUME TypeInv, AttemptsInv, UNCHANGED <<flushes, given>>, DOMAIN deliveries' = Entries,
           \A e \in Entries : deliveries'[e] \in {0, deliveries[e]},
           \A e \in Entries : Chances(e)' \subseteq Chances(e) /\ Granted(e)' \subseteq Granted(e)
    PROVE  AttemptsInv'
<1> SUFFICES ASSUME NEW e \in Entries
             PROVE  /\ deliveries'[e] > 0 => flushes[e] + Cardinality(Chances(e)') <= deliveries'[e]
                    /\ flushes[e] + Cardinality(Granted(e)') <= MaxAttempts
    BY DEF AttemptsInv
<1>1. Chances(e) \subseteq Workers /\ Granted(e) \subseteq Workers
    BY DEF Chances, Granted
<1>2. /\ Cardinality(Chances(e)') \in Nat /\ Cardinality(Chances(e)) \in Nat
      /\ Cardinality(Chances(e)') <= Cardinality(Chances(e))
    BY <1>1, FewerWorkers
<1>3. /\ Cardinality(Granted(e)') \in Nat /\ Cardinality(Granted(e)) \in Nat
      /\ Cardinality(Granted(e)') <= Cardinality(Granted(e))
    BY <1>1, FewerWorkers
<1>4. flushes[e] \in Nat /\ deliveries[e] \in Nat /\ MaxAttempts \in Nat
    BY ConstantsAssumption DEF TypeInv, ConsumerTypes, PendingTypes
<1>5. deliveries'[e] = 0 \/ deliveries'[e] = deliveries[e]
    OBVIOUS
<1> QED BY <1>2, <1>3, <1>4, <1>5 DEF AttemptsInv

(* A worker flushes some of what it was granted, and keeps the rest. *)
LEMMA FlushKeepsAttempts ==
    ASSUME TypeInv, AttemptsInv, NEW w \in Workers, NEW items, NEW rest, StartFlush(w, items, rest),
           items \subseteq retry[w] \cup later[w], rest \subseteq retry[w] \cup later[w],
           items \cap rest = {}, UNCHANGED <<deliveries, given>>
    PROVE  AttemptsInv'
<1>0. /\ at \in [Workers -> Phases] /\ todo \in [Workers -> SUBSET given]
      /\ retry \in [Workers -> SUBSET given] /\ later \in [Workers -> SUBSET given]
      /\ flushes \in [Entries -> Nat]
    BY DEF TypeInv, ConsumerTypes
<1>1. /\ \A v \in Workers : v # w => /\ at'[v] = at[v] /\ todo'[v] = todo[v]
                                     /\ retry'[v] = retry[v] /\ later'[v] = later[v]
      /\ at'[w] \notin {"judge", "judge2"} /\ retry'[w] = {} /\ later'[w] = rest
    BY <1>0 DEF StartFlush
<1> SUFFICES ASSUME NEW e \in Entries
             PROVE  /\ e \notin given => flushes'[e] = 0
                    /\ deliveries[e] > 0 => flushes'[e] + Cardinality(Chances(e)') <= deliveries[e]
                    /\ flushes'[e] + Cardinality(Granted(e)') <= MaxAttempts
    BY DEF AttemptsInv
<1>2. Chances(e)' \subseteq Chances(e) /\ Chances(e) \subseteq Workers
    BY <1>1 DEF Chances
<1>3. Granted(e)' \subseteq Granted(e) /\ Granted(e) \subseteq Workers
    BY <1>1 DEF Granted
<1>4. flushes[e] \in Nat /\ deliveries[e] \in Nat /\ MaxAttempts \in Nat
    BY ConstantsAssumption DEF TypeInv, ConsumerTypes, PendingTypes
<1>5. flushes'[e] = IF e \in items THEN flushes[e] + 1 ELSE flushes[e]
    BY DEF StartFlush
<1>6. CASE e \in items
    <2>1. w \in Chances(e) /\ w \in Granted(e) /\ w \notin Chances(e)' /\ w \notin Granted(e)'
        BY <1>1, <1>6 DEF Chances, Granted
    <2>2. /\ Cardinality(Chances(e)') \in Nat /\ Cardinality(Chances(e)) \in Nat
          /\ Cardinality(Chances(e)') + 1 <= Cardinality(Chances(e))
        BY <1>2, <2>1, FewerWorkers
    <2>3. /\ Cardinality(Granted(e)') \in Nat /\ Cardinality(Granted(e)) \in Nat
          /\ Cardinality(Granted(e)') + 1 <= Cardinality(Granted(e))
        BY <1>3, <2>1, FewerWorkers
    <2>4. e \in given
        BY <1>0, <1>6
    <2> QED BY <1>4, <1>5, <1>6, <2>2, <2>3, <2>4 DEF AttemptsInv
<1>7. CASE e \notin items
    <2>2. /\ Cardinality(Chances(e)') \in Nat /\ Cardinality(Chances(e)) \in Nat
          /\ Cardinality(Chances(e)') <= Cardinality(Chances(e))
        BY <1>2, FewerWorkers
    <2>3. /\ Cardinality(Granted(e)') \in Nat /\ Cardinality(Granted(e)) \in Nat
          /\ Cardinality(Granted(e)') <= Cardinality(Granted(e))
        BY <1>3, FewerWorkers
    <2> QED BY <1>4, <1>5, <1>7, <2>2, <2>3 DEF AttemptsInv
<1> QED BY <1>6, <1>7

(* The end of a flush: the next stream of the read, or nothing. *)
LEMMA ProceedKeepsAttempts ==
    ASSUME TypeInv, AttemptsInv, NEW w \in Workers, Proceed(w), UNCHANGED <<deliveries, given>>
    PROVE  AttemptsInv'
<1>0. /\ at \in [Workers -> Phases] /\ todo \in [Workers -> SUBSET given]
      /\ retry \in [Workers -> SUBSET given] /\ later \in [Workers -> SUBSET given]
      /\ deliveries \in [Entries -> Nat]
    BY DEF TypeInv, ConsumerTypes, PendingTypes
<1>1. CASE later[w] = {}
    <2>1. Rest(w)
        BY <1>1 DEF Proceed
    <2>2. \A e \in Entries : Chances(e)' \subseteq Chances(e) /\ Granted(e)' \subseteq Granted(e)
        BY <1>0, <2>1 DEF Rest, Chances, Granted
    <2> QED BY <1>0, <2>1, <2>2, NoChance DEF Rest
<1>2. CASE later[w] # {}
    <2> DEFINE items == FirstStream(later[w])
    <2>1. StartFlush(w, items, later[w] \ items)
        BY <1>2 DEF Proceed
    <2>2. items \subseteq later[w]
        BY DEF FirstStream
    <2> HIDE DEF items
    <2> QED BY <2>1, <2>2, FlushKeepsAttempts
<1> QED BY <1>1, <1>2

(* The first delivery of an entry: its first flush, or its turn to come. *)
LEMMA ReadKeepsAttempts ==
    ASSUME TypeInv, AttemptsInv, NEW w \in Workers, Read(w)
    PROVE  AttemptsInv'
<1>0. /\ at \in [Workers -> Phases] /\ todo \in [Workers -> SUBSET given]
      /\ retry \in [Workers -> SUBSET given] /\ later \in [Workers -> SUBSET given]
      /\ flushes \in [Entries -> Nat]
    BY DEF TypeInv, ConsumerTypes
<1>1. PICK new, items :
              /\ at[w] = "idle"
              /\ new \subseteq Entries /\ new \cap given = {} /\ items \subseteq new
              /\ given' = given \cup new
              /\ deliveries' = [e \in Entries |-> IF e \in new THEN 1 ELSE deliveries[e]]
              /\ StartFlush(w, items, new \ items) \/ Rest(w)
    BY ReadGives
<1>2. /\ \A v \in Workers : v # w => /\ at'[v] = at[v] /\ todo'[v] = todo[v]
                                     /\ retry'[v] = retry[v] /\ later'[v] = later[v]
      /\ at'[w] \notin {"judge", "judge2"} /\ retry'[w] = {} /\ later'[w] \subseteq new
      /\ \A e \in Entries : \/ flushes'[e] = flushes[e]
                            \/ e \in new /\ flushes'[e] = flushes[e] + 1 /\ e \notin later'[w]
    BY <1>0, <1>1 DEF StartFlush, Rest
<1> SUFFICES ASSUME NEW e \in Entries
             PROVE  /\ e \notin given' => flushes'[e] = 0
                    /\ deliveries'[e] > 0 => flushes'[e] + Cardinality(Chances(e)') <= deliveries'[e]
                    /\ flushes'[e] + Cardinality(Granted(e)') <= MaxAttempts
    BY DEF AttemptsInv
<1>5. flushes[e] \in Nat /\ deliveries[e] \in Nat /\ MaxAttempts \in Nat /\ MaxAttempts >= 1
    BY ConstantsAssumption DEF TypeInv, ConsumerTypes, PendingTypes
<1>6. CASE e \in new
    <2>1. e \notin given /\ e \in given'
        BY <1>1, <1>6
    <2>2. flushes[e] = 0
        BY <2>1 DEF AttemptsInv
    <2>3. \A v \in Workers : e \notin todo[v] /\ e \notin retry[v] /\ e \notin later[v]
        BY <1>0, <2>1
    <2>4. Chances(e)' \subseteq {w} /\ Granted(e)' \subseteq {w}
        BY <1>2, <2>3 DEF Chances, Granted
    <2>5. Cardinality({}) = 0 /\ Cardinality({w}) = 1
        BY FS_EmptySet, FS_Singleton
    <2>6. /\ Cardinality(Chances(e)') \in {0, 1} /\ Cardinality(Granted(e)') \in {0, 1}
          /\ flushes'[e] = 1 => Cardinality(Chances(e)') = 0 /\ Cardinality(Granted(e)') = 0
        <3>1. Chances(e)' \in {{}, {w}} /\ Granted(e)' \in {{}, {w}}
            BY <2>4
        <3>2. flushes'[e] = 1 => e \notin later'[w]
            BY <1>2, <2>2
        <3>3. flushes'[e] = 1 => Chances(e)' = {} /\ Granted(e)' = {}
            BY <1>2, <2>4, <3>2 DEF Chances, Granted
        <3> QED BY <2>5, <3>1, <3>3
    <2>7. deliveries'[e] = 1 /\ flushes'[e] \in {0, 1}
        BY <1>1, <1>2, <1>6, <2>2
    <2> QED BY <1>5, <2>1, <2>6, <2>7
<1>7. CASE e \notin new
    <2>1. deliveries'[e] = deliveries[e] /\ flushes'[e] = flushes[e]
        BY <1>1, <1>2, <1>7
    <2>5. /\ Chances(e)' \subseteq Chances(e) /\ Chances(e) \subseteq Workers
          /\ Granted(e)' \subseteq Granted(e) /\ Granted(e) \subseteq Workers
        BY <1>2, <1>7 DEF Chances, Granted
    <2>2. /\ Cardinality(Chances(e)') \in Nat /\ Cardinality(Chances(e)) \in Nat
          /\ Cardinality(Chances(e)') <= Cardinality(Chances(e))
        BY <2>5, FewerWorkers
    <2>3. /\ Cardinality(Granted(e)') \in Nat /\ Cardinality(Granted(e)) \in Nat
          /\ Cardinality(Granted(e)') <= Cardinality(Granted(e))
        BY <2>5, FewerWorkers
    <2>4. e \notin given' => e \notin given
        BY <1>1
    <2> QED BY <1>5, <2>1, <2>2, <2>3, <2>4 DEF AttemptsInv
<1> QED BY <1>6, <1>7

(* A claim: one delivery, one chance. *)
LEMMA ClaimKeepsAttempts ==
    ASSUME TypeInv, AttemptsInv, NEW w \in Workers, SweepClaim(w)
    PROVE  AttemptsInv'
<1>0. /\ at \in [Workers -> Phases] /\ todo \in [Workers -> SUBSET given]
    BY DEF TypeInv, ConsumerTypes
<1>7. PICK s \in registered :
              /\ deliveries' = [e \in Entries |-> IF e \in StaleEntries(s) THEN deliveries[e] + 1 ELSE deliveries[e]]
              /\ at' = [at EXCEPT ![w] = "judge"] /\ todo' = [todo EXCEPT ![w] = StaleEntries(s)]
              /\ UNCHANGED <<retry, later, flushes, given>>
    BY DEF SweepClaim, streamVars
<1> DEFINE stale == StaleEntries(s)
<1>8. \A e \in stale : deliveries[e] > 0
    BY DEF StaleEntries
<1> HIDE DEF stale
<1>1. /\ deliveries' = [e \in Entries |-> IF e \in stale THEN deliveries[e] + 1 ELSE deliveries[e]]
      /\ \A v \in Workers : v # w => at'[v] = at[v] /\ todo'[v] = todo[v]
      /\ todo'[w] = stale /\ UNCHANGED <<retry, later, flushes, given>>
    BY <1>0, <1>7 DEF stale
<1> SUFFICES ASSUME NEW e \in Entries
             PROVE  /\ deliveries'[e] > 0 => flushes[e] + Cardinality(Chances(e)') <= deliveries'[e]
                    /\ flushes[e] + Cardinality(Granted(e)') <= MaxAttempts
    BY <1>1 DEF AttemptsInv
<1>2. Granted(e)' = Granted(e)
    BY <1>1 DEF Granted
<1>3. flushes[e] \in Nat /\ deliveries[e] \in Nat /\ MaxAttempts \in Nat
    BY ConstantsAssumption DEF TypeInv, ConsumerTypes, PendingTypes
<1>4. Chances(e) \subseteq Workers
    BY DEF Chances
<1>5. CASE e \in stale
    <2>1. Chances(e)' \subseteq Chances(e) \cup {w}
        BY <1>1 DEF Chances
    <2>2. /\ Cardinality(Chances(e)') \in Nat /\ Cardinality(Chances(e)) \in Nat
          /\ Cardinality(Chances(e)') <= Cardinality(Chances(e)) + 1
        BY <1>4, <2>1, OneMoreWorker
    <2>3. deliveries[e] > 0 /\ deliveries'[e] = deliveries[e] + 1
        BY <1>1, <1>5, <1>8
    <2> QED BY <1>2, <1>3, <2>2, <2>3 DEF AttemptsInv
<1>6. CASE e \notin stale
    <2>1. Chances(e)' \subseteq Chances(e)
        BY <1>1, <1>6 DEF Chances
    <2>2. /\ Cardinality(Chances(e)') \in Nat /\ Cardinality(Chances(e)) \in Nat
          /\ Cardinality(Chances(e)') <= Cardinality(Chances(e))
        BY <1>4, <2>1, FewerWorkers
    <2>3. deliveries'[e] = deliveries[e]
        BY <1>1, <1>6
    <2> QED BY <1>2, <1>3, <2>2, <2>3 DEF AttemptsInv
<1> QED BY <1>5, <1>6

(* A chance is granted while the deliveries are within max_attempts, or goes. *)
LEMMA JudgeKeepsAttempts ==
    ASSUME TypeInv, AttemptsInv, NEW w \in Workers, JudgeDeliveries(w)
    PROVE  AttemptsInv'
<1>0. /\ at \in [Workers -> Phases] /\ todo \in [Workers -> SUBSET given]
      /\ retry \in [Workers -> SUBSET given] /\ later \in [Workers -> SUBSET given]
      /\ deliveries \in [Entries -> Nat]
    BY DEF TypeInv, ConsumerTypes, PendingTypes
<1>1. at[w] = "judge2" /\ todo[w] # {} /\ UNCHANGED <<flushes, given, deliveries>>
    BY DEF JudgeDeliveries, TypeInv, ConsumerTypes, pelVars, streamVars, Rest
<1>2. Item(w) \in todo[w] /\ Item(w) \in Entries
    BY <1>1, ItemIsRead
<1>3. \A v \in Workers : v # w => at'[v] = at[v] /\ todo'[v] = todo[v] /\ retry'[v] = retry[v]
    BY <1>0 DEF JudgeDeliveries, Rest
<1>8. \A v \in Workers : later'[v] \subseteq later[v]
    BY <1>0 DEF JudgeDeliveries, Rest
<1>4. /\ retry'[w] \subseteq retry[w] \cup {Item(w)} /\ todo'[w] \subseteq todo[w]
      /\ retry'[w] \subseteq retry[w] \/ (deliveries[Item(w)] > 0 /\ ~TooOften(deliveries[Item(w)]))
    <2>1. CASE Rest(w)
        BY <1>0, <2>1 DEF Rest
    <2>2. CASE ~Rest(w)
        <3>1. /\ retry' = retry \/ (/\ retry' = [retry EXCEPT ![w] = @ \cup {Item(w)}]
                                    /\ deliveries[Item(w)] > 0 /\ ~TooOften(deliveries[Item(w)]))
              /\ todo' = [todo EXCEPT ![w] = @ \ {Item(w)}]
            BY <2>2 DEF JudgeDeliveries
        <3> QED BY <1>0, <3>1
    <2> QED BY <2>1, <2>2
<1>5. \A e \in Entries : Chances(e)' \subseteq Chances(e)
    BY <1>1, <1>2, <1>3, <1>4, <1>8 DEF Chances
<1>6. CASE retry'[w] \subseteq retry[w]
    <2>1. \A e \in Entries : Granted(e)' \subseteq Granted(e)
        BY <1>3, <1>6, <1>8 DEF Granted
    <2> QED BY <1>0, <1>1, <1>5, <2>1, NoChance
<1>7. CASE deliveries[Item(w)] > 0 /\ ~TooOften(deliveries[Item(w)])
    <2> SUFFICES ASSUME NEW e \in Entries
                 PROVE  /\ deliveries[e] > 0 => flushes[e] + Cardinality(Chances(e)') <= deliveries[e]
                        /\ flushes[e] + Cardinality(Granted(e)') <= MaxAttempts
        BY <1>1 DEF AttemptsInv
    <2>1. flushes[e] \in Nat /\ deliveries[e] \in Nat /\ MaxAttempts \in Nat
        BY ConstantsAssumption DEF TypeInv, ConsumerTypes, PendingTypes
    <2>2. /\ Cardinality(Chances(e)') \in Nat /\ Cardinality(Chances(e)) \in Nat
          /\ Cardinality(Chances(e)') <= Cardinality(Chances(e))
        BY <1>5, ChancesAre, FewerWorkers
    <2>3. flushes[e] + Cardinality(Granted(e)') <= MaxAttempts
        <3>1. CASE e = Item(w)
            <4>1. Granted(e)' \subseteq Chances(e) /\ Chances(e) \subseteq Workers
                BY <1>1, <1>2, <1>3, <1>8, <3>1 DEF Granted, Chances
            <4>2. Cardinality(Granted(e)') \in Nat /\ Cardinality(Granted(e)') <= Cardinality(Chances(e))
                BY <4>1, FewerWorkers
            <4>3. deliveries[e] > 0 /\ deliveries[e] <= MaxAttempts
                BY <1>7, <2>1, <3>1 DEF TooOften
            <4> QED BY <2>1, <2>2, <4>2, <4>3 DEF AttemptsInv
        <3>2. CASE e # Item(w)
            <4>1. Granted(e)' \subseteq Granted(e) /\ Granted(e) \subseteq Workers
                BY <1>3, <1>4, <1>8, <3>2 DEF Granted
            <4>2. /\ Cardinality(Granted(e)') \in Nat /\ Cardinality(Granted(e)) \in Nat
                  /\ Cardinality(Granted(e)') <= Cardinality(Granted(e))
                BY <4>1, FewerWorkers
            <4> QED BY <2>1, <4>2 DEF AttemptsInv
        <3> QED BY <3>1, <3>2
    <2> QED BY <2>1, <2>2, <2>3 DEF AttemptsInv
<1> QED BY <1>4, <1>6, <1>7

(* Every step keeps the count. *)
LEMMA AttemptsKeep == TypeInv /\ AttemptsInv /\ [Next]_vars => AttemptsInv'
<1> SUFFICES ASSUME TypeInv, AttemptsInv, [Next]_vars PROVE AttemptsInv'
    OBVIOUS
<1>0. /\ at \in [Workers -> Phases] /\ todo \in [Workers -> SUBSET given]
      /\ retry \in [Workers -> SUBSET given] /\ later \in [Workers -> SUBSET given]
      /\ deliveries \in [Entries -> Nat]
    BY DEF TypeInv, ConsumerTypes, PendingTypes
<1> DEFINE Fewer(w) == /\ at'[w] \in {"judge", "judge2"} => at[w] \in {"judge", "judge2"} /\ todo'[w] \subseteq todo[w]
                       /\ retry'[w] \subseteq retry[w] /\ later'[w] \subseteq later[w]
<1>1. ASSUME UNCHANGED <<flushes, given, deliveries>>, \A w \in Workers : Fewer(w)
      PROVE  AttemptsInv'
    <2>1. \A e \in Entries : Chances(e)' \subseteq Chances(e) /\ Granted(e)' \subseteq Granted(e)
        BY <1>1 DEF Chances, Granted
    <2> QED BY <1>0, <1>1, <2>1, NoChance
<1>2. ASSUME NEW w \in Workers, Submit(w) \/ RecordJob(w) \/ CallEnds(w) \/ Hold(w)
      PROVE  AttemptsInv'
    BY <1>0, <1>1, <1>2 DEF Submit, RecordJob, CallEnds, Hold, streamVars, pelVars
<1>3. ASSUME NEW w \in Workers, Store(w) \/ AddCost(w)
      PROVE  AttemptsInv'
    <2>1. AfterItem(w) \in {"ack", "call"}
        BY DEF AfterItem
    <2> QED BY <1>0, <1>1, <1>3, <2>1 DEF Store, AfterStore, AddCost, streamVars, pelVars
<1>4. ASSUME NEW w \in Workers, Ack(w)
      PROVE  AttemptsInv'
    <2>1. UNCHANGED given
        BY <1>4 DEF Ack, streamVars
    <2>2. CASE Proceed(w) /\ UNCHANGED deliveries
        BY <2>1, <2>2, ProceedKeepsAttempts
    <2>3. CASE ~(Proceed(w) /\ UNCHANGED deliveries)
        <3>1. /\ UNCHANGED flushes /\ DOMAIN deliveries' = Entries
              /\ \A e \in Entries : deliveries'[e] \in {0, deliveries[e]}
            BY <1>0, <1>4, <2>3 DEF Ack
        <3>2. \A v \in Workers : Fewer(v)
            BY <1>0, <1>4, <2>3 DEF Ack
        <3>3. \A e \in Entries : Chances(e)' \subseteq Chances(e) /\ Granted(e)' \subseteq Granted(e)
            BY <3>2 DEF Chances, Granted
        <3> QED BY <2>1, <3>1, <3>3, NoChance
    <2> QED BY <2>2, <2>3
<1>5. ASSUME NEW w \in Workers, Delete(w) \/ SweepJudged(w)
      PROVE  AttemptsInv'
    <2>1. UNCHANGED <<given, deliveries>>
        BY <1>5 DEF Delete, SweepJudged, streamVars, pelVars
    <2>2. CASE StartFlush(w, retry[w], {})
        BY <2>1, <2>2, FlushKeepsAttempts
    <2>3. CASE Proceed(w)
        BY <2>1, <2>3, ProceedKeepsAttempts
    <2>4. CASE ~StartFlush(w, retry[w], {}) /\ ~Proceed(w)
        <3>1. UNCHANGED flushes /\ \A v \in Workers : Fewer(v)
            BY <1>0, <1>5, <2>4 DEF Delete, SweepJudged, Rest
        <3> QED BY <1>1, <2>1, <3>1
    <2> QED BY <2>2, <2>3, <2>4
<1>6. ASSUME NEW w \in Workers, JudgeCompleted(w)
      PROVE  AttemptsInv'
    BY <1>0, <1>1, <1>6 DEF JudgeCompleted, streamVars, pelVars
<1>7. ASSUME NEW w \in Workers, ConsumerStep(w) \/ Hold(w) PROVE AttemptsInv'
    BY <1>2, <1>3, <1>4, <1>5, <1>6, <1>7, ReadKeepsAttempts, ClaimKeepsAttempts, JudgeKeepsAttempts DEF ConsumerStep
<1>8. ASSUME NEW w \in Workers, PollerStep(w) PROVE AttemptsInv'
    BY <1>1, <1>8 DEF PollerStep, PollStart, PollJob, PollStore, PollCost, PollDrop, PollEnd, consVars, streamVars, pelVars
<1>9. ASSUME NEW w \in Workers, Crash(w) PROVE AttemptsInv'
    BY <1>0, <1>1, <1>9 DEF Crash, Rest, streamVars, pelVars
<1>10. ASSUME NEW r \in Requests, HandlerStep(r) \/ HandlerDies(r) PROVE AttemptsInv'
    BY <1>1, <1>10 DEF HandlerStep, HandlerDies, AnswerNow, RecordOwner, CheckBacklog, RegisterStream,
              Accumulate, ForgetOwner, consVars, streamVars, pelVars
<1>11. ASSUME Tick \/ Stall \/ (\E j \in 1 .. Len(jobs) : JobEnds(j)) \/ UNCHANGED vars PROVE AttemptsInv'
    BY <1>1, <1>11 DEF Tick, Stall, JobEnds, vars, consVars, streamVars, pelVars
<1> QED BY <1>7, <1>8, <1>9, <1>10, <1>11 DEF Next

-----------------------------------------------------------------------------
(* While nothing fails: an entry flushed straight after its read is pending in the hands of one
   worker, whose holder keeps it from growing stale; so a sweep finds only entries that waited
   their turn. *)
Calm == crashes = 0 /\ faults = <<>>

(* Phases in which a worker has entries it will acknowledge. *)
Working == Flushing \cup {"ack"}

(* What a worker sweeps or puts off has waited. *)
SweptWaited ==
    /\ \A w \in Workers : settled[w] \subseteq waited /\ retry[w] \subseteq waited /\ later[w] \subseteq waited
    /\ \A w \in Workers : at[w] \in {"judge", "judge2"} => todo[w] \subseteq waited
    /\ \A w \in Workers : at[w] \in {"submit", "call", "store", "cost"} => todo[w] \subseteq mine[w]

(* One worker for each other pending entry, which is no older than one holding interval. *)
CalmShape ==
    /\ SweptWaited
    /\ \A e \in Entries \ waited : deliveries[e] > 0 => \E w \in Workers : at[w] \in Working /\ e \in mine[w]
    /\ \A w \in Workers : at[w] \in Working => \A e \in mine[w] \ waited : deliveries[e] > 0
    /\ \A w \in Workers : at[w] \in Working => \A e \in mine[w] \ waited : idle[e] = 0 \/ (~held[w] /\ idle[e] = 1)
    /\ \A v, w \in Workers : v # w => mine[v] \cap mine[w] \subseteq waited

(* The shape, while nothing has failed. *)
CalmInv == Calm => CalmShape

(* A failure is not forgotten: a calm state was reached through calm ones. *)
LEMMA FaultIsLoud ==
    ASSUME TypeInv, NEW kind, Fault(kind)
    PROVE  ~Calm'
BY DEF Fault, Calm, TypeInv, FaultTypes

(* A step into a calm state is a step from one, in which nothing fails. *)
LEMMA CalmBefore ==
    ASSUME TypeInv, [Next]_vars, Calm'
    PROVE  Calm /\ (\A kind : ~Fault(kind)) /\ UNCHANGED <<faults, crashes>>
<1>1. \A kind : ~Fault(kind)
    BY FaultIsLoud
<1> DEFINE FaultsOrCrash == UNCHANGED <<faults, crashes>> \/ crashes' = crashes + 1
<1>2. FaultsOrCrash
    <2>1. ASSUME NEW r \in Requests, HandlerStep(r) \/ HandlerDies(r) PROVE FaultsOrCrash
        BY <1>1, <2>1 DEF HandlerStep, HandlerDies, AnswerNow, RecordOwner, CheckBacklog, RegisterStream,
              Accumulate, ForgetOwner, NoFault, faultVars
    <2>2. ASSUME NEW w \in Workers, ConsumerStep(w) PROVE FaultsOrCrash
        BY <1>1, <2>2 DEF ConsumerStep, Read, Submit, RecordJob, CallEnds, Store, AddCost, Ack, Delete, SweepClaim,
              JudgeCompleted, JudgeDeliveries, SweepJudged, StoreOrLose, NoFault, faultVars
    <2>3. ASSUME NEW w \in Workers, Hold(w) \/ PollerStep(w) \/ Crash(w) PROVE FaultsOrCrash
        BY <1>1, <2>3 DEF Hold, PollerStep, PollStart, PollJob, PollStore, PollCost, PollDrop, PollEnd, Crash,
              StoreOrLose, NoFault, faultVars
    <2>4. ASSUME Tick \/ Stall \/ (\E j \in 1 .. Len(jobs) : JobEnds(j)) \/ UNCHANGED vars PROVE FaultsOrCrash
        BY <1>1, <2>4 DEF Tick, Stall, JobEnds, vars, faultVars
    <2> QED BY <2>1, <2>2, <2>3, <2>4 DEF Next
<1>3. crashes \in Nat
    BY ConstantsAssumption DEF TypeInv, FaultTypes
<1> QED BY <1>1, <1>2, <1>3 DEF Calm

(* A step inside a flush. *)
LEMMA CalmMoves ==
    ASSUME CalmShape, UNCHANGED <<deliveries, idle, mine, later, settled, retry, held, waited>>,
           \A w \in Workers : at'[w] \notin {"judge", "judge2"} \/ (at'[w] = at[w] /\ todo'[w] = todo[w]),
           \A w \in Workers : at'[w] \in Working <=> at[w] \in Working,
           \A w \in Workers : at'[w] \in {"submit", "call", "store", "cost"} => todo'[w] \subseteq mine[w]
    PROVE  CalmShape'
<1>1. SweptWaited'
    BY DEF CalmShape, SweptWaited
<1> QED BY <1>1 DEF CalmShape

(* What a worker does with entries that waited, or with none, while it holds no others. *)
LEMMA CalmAside ==
    ASSUME TypeInv, CalmShape, NEW w \in Workers, at[w] \notin Working, waited' = waited,
           \A v \in Workers : v # w =>
              /\ at'[v] = at[v] /\ todo'[v] = todo[v] /\ mine'[v] = mine[v] /\ later'[v] = later[v]
              /\ settled'[v] = settled[v] /\ retry'[v] = retry[v] /\ held'[v] = held[v],
           \A e \in Entries \ waited : deliveries'[e] = deliveries[e] /\ idle'[e] = idle[e],
           settled'[w] \subseteq waited, retry'[w] \subseteq waited, later'[w] \subseteq waited,
           at'[w] \in {"judge", "judge2"} => todo'[w] \subseteq waited,
           at'[w] \in {"submit", "call", "store", "cost"} => todo'[w] \subseteq mine'[w],
           mine'[w] \subseteq mine[w] \cup waited,
           at'[w] \in Working => mine'[w] \subseteq waited
    PROVE  CalmShape'
<1>0. \A v \in Workers : mine[v] \subseteq Entries
    BY ReadEntries DEF TypeInv, ConsumerTypes
<1>1. SweptWaited'
    BY DEF CalmShape, SweptWaited
<1>2. \A e \in Entries \ waited : deliveries'[e] > 0 => \E v \in Workers : at'[v] \in Working /\ e \in mine'[v]
    <2> SUFFICES ASSUME NEW e \in Entries \ waited, deliveries'[e] > 0
                 PROVE  \E v \in Workers : at'[v] \in Working /\ e \in mine'[v]
        OBVIOUS
    <2>1. PICK v \in Workers : at[v] \in Working /\ e \in mine[v]
        BY DEF CalmShape
    <2>2. v # w
        BY <2>1
    <2> QED BY <2>1, <2>2
<1>3. ASSUME NEW v \in Workers, at'[v] \in Working, NEW e \in mine'[v] \ waited
      PROVE  deliveries'[e] > 0 /\ (idle'[e] = 0 \/ (~held'[v] /\ idle'[e] = 1))
    <2>1. v # w
        BY <1>3
    <2>2. at[v] \in Working /\ e \in mine[v] \ waited /\ held'[v] = held[v]
        BY <1>3, <2>1
    <2>3. e \in Entries \ waited
        BY <1>0, <2>2
    <2>4. deliveries[e] > 0 /\ (idle[e] = 0 \/ (~held[v] /\ idle[e] = 1))
        BY <2>2 DEF CalmShape
    <2> QED BY <2>2, <2>3, <2>4
<1>4. \A u, v \in Workers : u # v => mine'[u] \cap mine'[v] \subseteq waited
    BY DEF CalmShape
<1> QED BY <1>1, <1>2, <1>3, <1>4 DEF CalmShape

(* A worker at rest, or that turns to entries that waited. *)
LEMMA CalmTurns ==
    ASSUME TypeInv, CalmShape, NEW w \in Workers, at[w] \notin Working,
           UNCHANGED <<deliveries, idle, waited>>,
           \/ Rest(w)
           \/ \E items, rest : StartFlush(w, items, rest) /\ items \subseteq waited /\ rest \subseteq waited
    PROVE  CalmShape'
<1>0. /\ at \in [Workers -> Phases] /\ todo \in [Workers -> SUBSET given]
      /\ mine \in [Workers -> SUBSET given] /\ held \in [Workers -> BOOLEAN]
      /\ later \in [Workers -> SUBSET given]
      /\ retry \in [Workers -> SUBSET given] /\ settled \in [Workers -> SUBSET given]
    BY DEF TypeInv, ConsumerTypes
<1>1. CASE Rest(w)
    <2>1. /\ \A v \in Workers : v # w =>
              /\ at'[v] = at[v] /\ todo'[v] = todo[v] /\ mine'[v] = mine[v] /\ later'[v] = later[v]
              /\ settled'[v] = settled[v] /\ retry'[v] = retry[v] /\ held'[v] = held[v]
          /\ at'[w] = "idle" /\ mine'[w] = {} /\ later'[w] = {} /\ settled'[w] = {} /\ retry'[w] = {}
        BY <1>0, <1>1 DEF Rest
    <2> QED BY <2>1, CalmAside DEF Working, Flushing
<1>2. ASSUME NEW items, NEW rest, StartFlush(w, items, rest), items \subseteq waited, rest \subseteq waited
      PROVE  CalmShape'
    <2>1. /\ \A v \in Workers : v # w =>
              /\ at'[v] = at[v] /\ todo'[v] = todo[v] /\ mine'[v] = mine[v] /\ later'[v] = later[v]
              /\ settled'[v] = settled[v] /\ retry'[v] = retry[v] /\ held'[v] = held[v]
          /\ at'[w] \in {"submit", "call"} /\ todo'[w] = items /\ mine'[w] = items /\ later'[w] = rest
          /\ settled'[w] = {} /\ retry'[w] = {}
        BY <1>0, <1>2 DEF StartFlush
    <2> QED BY <1>2, <2>1, CalmAside
<1> QED BY <1>1, <1>2

(* Every step keeps the calm shape. *)
LEMMA CalmKeeps ==
    ASSUME TypeInv, CalmInv, [Next]_vars
    PROVE  CalmInv'
<1> SUFFICES ASSUME Calm' PROVE CalmShape'
    BY DEF CalmInv
<1>1. CalmShape /\ SweptWaited /\ (\A kind : ~Fault(kind)) /\ UNCHANGED <<faults, crashes>>
    BY CalmBefore DEF CalmInv, CalmShape
<1>0. /\ at \in [Workers -> Phases] /\ todo \in [Workers -> SUBSET given]
      /\ mine \in [Workers -> SUBSET given] /\ held \in [Workers -> BOOLEAN]
      /\ later \in [Workers -> SUBSET given] /\ waited \subseteq given
      /\ retry \in [Workers -> SUBSET given] /\ settled \in [Workers -> SUBSET given]
      /\ deliveries \in [Entries -> Nat] /\ idle \in [Entries -> 0 .. Stale]
    BY DEF TypeInv, ConsumerTypes, PendingTypes
<1>2. Stale \in Nat /\ Stale >= 2 /\ given \subseteq Entries
    BY ConstantsAssumption, ReadEntries
<1>3. \A s : StaleEntries(s) \subseteq waited
    <2> SUFFICES ASSUME NEW e \in Entries \ waited, deliveries[e] > 0 PROVE idle[e] < Stale
        BY <1>0, <1>2, ReadEntries DEF StaleEntries
    <2>1. PICK w \in Workers : at[w] \in Working /\ e \in mine[w]
        BY <1>1 DEF CalmShape
    <2>2. idle[e] = 0 \/ idle[e] = 1
        BY <1>1, <2>1 DEF CalmShape
    <2> QED BY <1>2, <2>2
<1>4. ASSUME NEW w \in Workers, Read(w) PROVE CalmShape'
    <2>1. PICK new, items :
              /\ at[w] = "idle"
              /\ new \subseteq Entries /\ new \cap given = {} /\ items \subseteq new
              /\ deliveries' = [e \in Entries |-> IF e \in new THEN 1 ELSE deliveries[e]]
              /\ idle' = [e \in Entries |-> IF e \in new THEN 0 ELSE idle[e]]
              /\ waited' = waited \cup (new \ items)
              /\ StartFlush(w, items, new \ items)
        BY <1>1, <1>4, ReadGives
    <2>3. /\ \A v \in Workers : v # w =>
              /\ at'[v] = at[v] /\ todo'[v] = todo[v] /\ mine'[v] = mine[v] /\ later'[v] = later[v]
              /\ settled'[v] = settled[v] /\ retry'[v] = retry[v] /\ held'[v] = held[v]
          /\ at'[w] \in {"submit", "call"} /\ todo'[w] = items /\ mine'[w] = items /\ later'[w] = new \ items
          /\ settled'[w] = {} /\ retry'[w] = {}
        BY <1>0, <2>1 DEF StartFlush
    <2>4. \A v \in Workers : mine[v] \cap new = {} /\ mine[v] \subseteq Entries
        BY <1>0, <1>2, <2>1
    <2>5. \A e \in Entries \ waited' : deliveries'[e] > 0 => \E v \in Workers : at'[v] \in Working /\ e \in mine'[v]
        <3> SUFFICES ASSUME NEW e \in Entries \ waited', deliveries'[e] > 0
                     PROVE  \E v \in Workers : at'[v] \in Working /\ e \in mine'[v]
            OBVIOUS
        <3>1. CASE e \in new
            <4>1. e \in items
                BY <2>1, <3>1
            <4> QED BY <2>3, <4>1 DEF Working, Flushing
        <3>2. CASE e \notin new
            <4>0. e \in Entries \ waited /\ deliveries[e] > 0
                BY <2>1, <3>2
            <4>1. PICK v \in Workers : at[v] \in Working /\ e \in mine[v]
                BY <1>1, <4>0 DEF CalmShape
            <4>2. v # w
                BY <2>1, <4>1 DEF Working, Flushing
            <4> QED BY <2>3, <4>1, <4>2
        <3> QED BY <3>1, <3>2
    <2>6. ASSUME NEW v \in Workers, at'[v] \in Working, NEW e \in mine'[v] \ waited'
          PROVE  deliveries'[e] > 0 /\ (idle'[e] = 0 \/ (~held'[v] /\ idle'[e] = 1))
        <3>1. CASE v = w
            BY <2>1, <2>3, <2>6, <3>1
        <3>2. CASE v # w
            <4>1. at[v] \in Working /\ e \in mine[v] \ waited /\ held'[v] = held[v]
                BY <2>1, <2>3, <2>6, <3>2
            <4>2. e \notin new /\ e \in Entries
                BY <2>4, <4>1
            <4>3. deliveries[e] > 0 /\ (idle[e] = 0 \/ (~held[v] /\ idle[e] = 1))
                BY <1>1, <4>1 DEF CalmShape
            <4> QED BY <2>1, <4>1, <4>2, <4>3
        <3> QED BY <3>1, <3>2
    <2>8. \A u, v \in Workers : u # v => mine'[u] \cap mine'[v] \subseteq waited'
        <3>1. mine'[w] \subseteq new
            BY <2>1, <2>3
        <3>2. \A u, v \in Workers : u # v => mine[u] \cap mine[v] \subseteq waited'
            BY <1>1, <2>1 DEF CalmShape
        <3> QED BY <2>3, <2>4, <3>1, <3>2
    <2>9. SweptWaited'
        <3>1. waited \subseteq waited' /\ new \ items \subseteq waited'
            BY <2>1
        <3>2. ASSUME NEW v \in Workers
              PROVE  /\ settled'[v] \subseteq waited' /\ retry'[v] \subseteq waited' /\ later'[v] \subseteq waited'
                     /\ at'[v] \in {"judge", "judge2"} => todo'[v] \subseteq waited'
                     /\ at'[v] \in {"submit", "call", "store", "cost"} => todo'[v] \subseteq mine'[v]
            <4>1. CASE v = w
                BY <2>3, <3>1, <4>1
            <4>2. CASE v # w
                BY <1>1, <2>3, <3>1, <4>2 DEF SweptWaited
            <4> QED BY <4>1, <4>2
        <3> QED BY <3>2 DEF SweptWaited
    <2> QED BY <2>5, <2>6, <2>8, <2>9 DEF CalmShape
<1>5. ASSUME NEW w \in Workers, Submit(w) \/ RecordJob(w) \/ CallEnds(w) PROVE CalmShape'
    <2>1. UNCHANGED <<deliveries, idle, mine, later, settled, retry, held, waited>>
        BY <1>5 DEF Submit, RecordJob, CallEnds, pelVars
    <2>3. /\ \A v \in Workers : v # w => at'[v] = at[v] /\ todo'[v] = todo[v]
          /\ \/ at'[w] = "ack" /\ at[w] \in Working
             \/ at'[w] = "record" /\ at[w] \in Working
             \/ at[w] \in {"submit", "call"} /\ at'[w] \in {"call", "store"} /\ todo'[w] = todo[w]
        BY <1>0, <1>5 DEF Submit, RecordJob, CallEnds, Working, Flushing
    <2>2. \A v \in Workers : /\ at'[v] \notin {"judge", "judge2"} \/ (at'[v] = at[v] /\ todo'[v] = todo[v])
                             /\ at'[v] \in Working <=> at[v] \in Working
        BY <2>3 DEF Working, Flushing
    <2>4. \A v \in Workers : at'[v] \in {"submit", "call", "store", "cost"} => todo'[v] \subseteq mine[v]
        BY <1>1, <2>3 DEF SweptWaited
    <2> QED BY <1>1, <2>1, <2>2, <2>4, CalmMoves
<1>6. ASSUME NEW w \in Workers, Store(w) \/ AddCost(w) PROVE CalmShape'
    <2>1. UNCHANGED <<deliveries, idle, mine, later, settled, retry, held, waited>>
        BY <1>6 DEF Store, AddCost, pelVars
    <2>0. AfterItem(w) \in {"ack", "call"}
        BY DEF AfterItem
    <2>3. /\ \A v \in Workers : v # w => at'[v] = at[v] /\ todo'[v] = todo[v]
          /\ at[w] \in {"store", "cost"} /\ at'[w] \in {"cost", "ack", "call"} /\ todo'[w] \subseteq todo[w]
        BY <1>0, <1>6, <2>0 DEF Store, AfterStore, AddCost
    <2>2. \A v \in Workers : /\ at'[v] \notin {"judge", "judge2"} \/ (at'[v] = at[v] /\ todo'[v] = todo[v])
                             /\ at'[v] \in Working <=> at[v] \in Working
        BY <2>3 DEF Working, Flushing
    <2>4. \A v \in Workers : at'[v] \in {"submit", "call", "store", "cost"} => todo'[v] \subseteq mine[v]
        <3> SUFFICES ASSUME NEW v \in Workers, at'[v] \in {"submit", "call", "store", "cost"}
                     PROVE  todo'[v] \subseteq mine[v]
            OBVIOUS
        <3>1. at[v] \in {"submit", "call", "store", "cost"} /\ todo'[v] \subseteq todo[v]
            BY <2>3
        <3> QED BY <1>1, <3>1 DEF SweptWaited
    <2> QED BY <1>1, <2>1, <2>2, <2>4, CalmMoves
<1>7. ASSUME NEW w \in Workers, Ack(w) PROVE CalmShape'
    <2>1. /\ deliveries' = [e \in Entries |-> IF e \in mine[w] THEN 0 ELSE deliveries[e]]
          /\ at' = [at EXCEPT ![w] = "del"]
          /\ UNCHANGED <<idle, todo, mine, later, settled, retry, held, waited>>
        BY <1>1, <1>7 DEF Ack
    <2>2. \A v \in Workers : v # w => at'[v] = at[v]
        BY <1>0, <2>1
    <2>3. at'[w] = "del"
        BY <1>0, <2>1
    <2>4. \A v \in Workers : at'[v] \in Working => v # w /\ at[v] \in Working
        BY <2>2, <2>3 DEF Working, Flushing
    <2>5. \A e \in Entries \ waited : deliveries'[e] > 0 => \E v \in Workers : at'[v] \in Working /\ e \in mine'[v]
        <3> SUFFICES ASSUME NEW e \in Entries \ waited, deliveries'[e] > 0
                     PROVE  \E v \in Workers : at'[v] \in Working /\ e \in mine[v]
            BY <2>1
        <3>1. e \notin mine[w] /\ deliveries[e] > 0
            BY <2>1
        <3>2. PICK v \in Workers : at[v] \in Working /\ e \in mine[v]
            BY <1>1, <3>1 DEF CalmShape
        <3> QED BY <2>2, <3>1, <3>2
    <2>6. ASSUME NEW v \in Workers, at'[v] \in Working, NEW e \in mine[v] \ waited
          PROVE  deliveries'[e] > 0
        <3>1. e \in Entries /\ e \notin mine[w] /\ deliveries[e] > 0
            BY <1>0, <1>1, <1>2, <2>4, <2>6 DEF CalmShape
        <3> QED BY <2>1, <3>1
    <2>7. SweptWaited'
        BY <1>1, <2>1, <2>2, <2>3 DEF SweptWaited
    <2> QED BY <1>1, <2>1, <2>4, <2>5, <2>6, <2>7 DEF CalmShape
<1>8. ASSUME NEW w \in Workers, Delete(w) PROVE CalmShape'
    <2>1. UNCHANGED <<deliveries, idle, waited>> /\ at[w] \notin Working
        BY <1>8 DEF Delete, pelVars, Working, Flushing
    <2>2. /\ FirstStream(later[w]) \subseteq waited /\ later[w] \ FirstStream(later[w]) \subseteq waited
          /\ retry[w] \subseteq waited /\ {} \subseteq waited
        BY <1>1 DEF SweptWaited, FirstStream
    <2>3. Proceed(w) \/ StartFlush(w, retry[w], {})
        BY <1>8 DEF Delete
    <2> QED BY <1>1, <2>1, <2>2, <2>3, CalmTurns DEF Proceed
<1>9. ASSUME NEW w \in Workers, Hold(w) PROVE CalmShape'
    <2>1. /\ at[w] \in Flushing /\ UNCHANGED <<deliveries, at, todo, mine, later, settled, retry, waited>>
          /\ idle' = [e \in Entries |-> IF e \in mine[w] /\ deliveries[e] > 0 THEN 0 ELSE idle[e]]
          /\ held' = [held EXCEPT ![w] = TRUE]
        BY <1>1, <1>9 DEF Hold, Reclaim
    <2>2. at[w] \in Working
        BY <2>1 DEF Working
    <2>3. \A v \in Workers : at'[v] \in Working =>
             \A e \in mine'[v] \ waited : idle'[e] = 0 \/ (~held'[v] /\ idle'[e] = 1)
        <3> SUFFICES ASSUME NEW v \in Workers, at[v] \in Working, NEW e \in mine[v] \ waited
                     PROVE  idle'[e] = 0 \/ (~held'[v] /\ idle'[e] = 1)
            BY <2>1
        <3>1. e \in Entries /\ deliveries[e] > 0 /\ (idle[e] = 0 \/ (~held[v] /\ idle[e] = 1))
            BY <1>0, <1>1, <1>2 DEF CalmShape
        <3>2. CASE v = w
            BY <2>1, <3>1, <3>2
        <3>3. CASE v # w
            <4>1. held'[v] = held[v]
                BY <1>0, <2>1, <3>3
            <4>2. idle'[e] = 0 \/ idle'[e] = idle[e]
                BY <2>1, <3>1
            <4> QED BY <3>1, <4>1, <4>2
        <3> QED BY <3>2, <3>3
    <2> QED BY <1>1, <2>1, <2>3 DEF CalmShape, SweptWaited
<1>10. ASSUME NEW w \in Workers, SweepClaim(w) PROVE CalmShape'
    <2>1. PICK s \in registered :
              /\ at[w] = "idle"
              /\ deliveries' = [e \in Entries |-> IF e \in StaleEntries(s) THEN deliveries[e] + 1 ELSE deliveries[e]]
              /\ idle' = [e \in Entries |-> IF e \in StaleEntries(s) THEN 0 ELSE idle[e]]
              /\ at' = [at EXCEPT ![w] = "judge"] /\ todo' = [todo EXCEPT ![w] = StaleEntries(s)]
              /\ UNCHANGED <<mine, later, settled, retry, held, waited>>
        BY <1>10 DEF SweepClaim
    <2> DEFINE stale == StaleEntries(s)
    <2>2. stale \subseteq waited
        BY <1>3
    <2> HIDE DEF stale
    <2>3. /\ at'[w] = "judge" /\ todo'[w] = stale
          /\ \A v \in Workers : v # w => at'[v] = at[v] /\ todo'[v] = todo[v]
        BY <1>0, <2>1 DEF stale
    <2>4. \A e \in Entries \ waited : deliveries'[e] = deliveries[e] /\ idle'[e] = idle[e]
        BY <2>1, <2>2 DEF stale
    <2>5. at[w] \notin Working /\ at'[w] \notin Working
        BY <2>1, <2>3 DEF Working, Flushing
    <2>6. settled[w] \subseteq waited /\ retry[w] \subseteq waited /\ later[w] \subseteq waited
        BY <1>1 DEF SweptWaited
    <2> QED BY <1>1, <2>1, <2>2, <2>3, <2>4, <2>5, <2>6, CalmAside
<1>20. ASSUME NEW w \in Workers, JudgeCompleted(w) \/ JudgeDeliveries(w) PROVE CalmShape'
    <2>1. at[w] \in {"judge", "judge2"} /\ todo[w] # {} /\ UNCHANGED <<deliveries, idle, mine, later, held, waited>>
        BY <1>1, <1>20 DEF JudgeCompleted, JudgeDeliveries, pelVars, TypeInv, ConsumerTypes
    <2>2. Item(w) \in todo[w] /\ todo[w] \subseteq waited
        BY <1>1, <2>1, ItemIsRead DEF SweptWaited
    <2>3. /\ \A v \in Workers : v # w => /\ at'[v] = at[v] /\ todo'[v] = todo[v]
                                         /\ settled'[v] = settled[v] /\ retry'[v] = retry[v]
          /\ at'[w] \in {"judge", "judge2"} /\ todo'[w] \subseteq todo[w]
          /\ settled'[w] \subseteq settled[w] \cup {Item(w)} /\ retry'[w] \subseteq retry[w] \cup {Item(w)}
        BY <1>0, <1>1, <1>20 DEF JudgeCompleted, JudgeDeliveries
    <2>4. at[w] \notin Working /\ at'[w] \notin Working /\ at'[w] \notin {"submit", "call", "store", "cost"}
        BY <2>1, <2>3 DEF Working, Flushing
    <2>5. settled'[w] \subseteq waited /\ retry'[w] \subseteq waited /\ later'[w] \subseteq waited
        BY <1>1, <2>1, <2>2, <2>3 DEF SweptWaited
    <2> QED BY <1>1, <2>1, <2>2, <2>3, <2>4, <2>5, CalmAside
<1>21. ASSUME NEW w \in Workers, SweepJudged(w) PROVE CalmShape'
    <2>1. at[w] \notin Working /\ UNCHANGED <<deliveries, idle, waited>>
        BY <1>21 DEF SweepJudged, pelVars, Working, Flushing
    <2>2. settled[w] \subseteq waited /\ retry[w] \subseteq waited /\ later[w] \subseteq waited /\ {} \subseteq waited
        BY <1>1 DEF SweptWaited
    <2>3. CASE settled[w] = {}
        BY <1>1, <1>21, <2>1, <2>2, <2>3, CalmTurns DEF SweepJudged
    <2>4. CASE settled[w] # {}
        <3>1. /\ at' = [at EXCEPT ![w] = "ack"] /\ mine' = [mine EXCEPT ![w] = settled[w]]
              /\ UNCHANGED <<todo, later, settled, retry, held>>
            BY <1>21, <2>4 DEF SweepJudged
        <3>2. /\ at'[w] = "ack" /\ mine'[w] = settled[w]
              /\ \A v \in Workers : v # w => at'[v] = at[v] /\ mine'[v] = mine[v]
            BY <1>0, <3>1
        <3> QED BY <1>1, <2>1, <2>2, <3>1, <3>2, CalmAside
    <2> QED BY <2>3, <2>4
<1>11. ASSUME NEW w \in Workers, Crash(w) PROVE FALSE
    <2>1. crashes' = crashes + 1 /\ crashes' = crashes /\ crashes \in Nat
        BY <1>1, <1>11, ConstantsAssumption DEF Crash, TypeInv, FaultTypes
    <2> QED BY <2>1
<1>12. ASSUME UNCHANGED <<pelVars, consVars>> PROVE CalmShape'
    BY <1>1, <1>12 DEF CalmShape, SweptWaited, pelVars, consVars
<1>13. ASSUME NEW w \in Workers, PollerStep(w) PROVE CalmShape'
    BY <1>12, <1>13 DEF PollerStep, PollStart, PollJob, PollStore, PollCost, PollDrop, PollEnd
<1>14. ASSUME NEW r \in Requests, HandlerStep(r) \/ HandlerDies(r) PROVE CalmShape'
    BY <1>12, <1>14 DEF HandlerStep, HandlerDies, AnswerNow, RecordOwner, CheckBacklog, RegisterStream,
              Accumulate, ForgetOwner
<1>15. ASSUME Tick PROVE CalmShape'
    <2>1. /\ \A w \in Workers : at[w] \in {"idle", "call", "submit"} /\ (at[w] = "idle" \/ held[w])
          /\ idle' = [e \in Entries |-> IF deliveries[e] > 0 /\ idle[e] < Stale THEN idle[e] + 1 ELSE idle[e]]
          /\ held' = [w \in Workers |-> at[w] = "idle"]
          /\ UNCHANGED <<deliveries, at, todo, mine, later, settled, retry, waited>>
        BY <1>15 DEF Tick
    <2>2. \A v \in Workers : at'[v] \in Working =>
             \A e \in mine'[v] \ waited : idle'[e] = 0 \/ (~held'[v] /\ idle'[e] = 1)
        <3> SUFFICES ASSUME NEW v \in Workers, at[v] \in Working, NEW e \in mine[v] \ waited
                     PROVE  ~held'[v] /\ idle'[e] = 1
            BY <2>1
        <3>1. at[v] # "idle"
            BY DEF Working, Flushing
        <3>2. held[v] /\ ~held'[v]
            BY <2>1, <3>1
        <3>3. e \in Entries /\ deliveries[e] > 0 /\ idle[e] = 0
            BY <1>0, <1>1, <1>2, <3>2 DEF CalmShape
        <3>4. 0 < Stale
            BY <1>2
        <3>5. idle'[e] = 1
            BY <2>1, <3>3, <3>4
        <3> QED BY <3>2, <3>5
    <2> QED BY <1>1, <2>1, <2>2 DEF CalmShape, SweptWaited
<1>16. ASSUME Stall PROVE FALSE
    BY <1>1, <1>16 DEF Stall
<1>17. ASSUME NEW j \in 1 .. Len(jobs), JobEnds(j) PROVE CalmShape'
    BY <1>12, <1>17 DEF JobEnds
<1>18. ASSUME UNCHANGED vars PROVE CalmShape'
    BY <1>12, <1>18 DEF vars, pelVars, consVars
<1>19. ASSUME NEW w \in Workers, ConsumerStep(w) PROVE CalmShape'
    BY <1>4, <1>5, <1>6, <1>7, <1>8, <1>10, <1>19, <1>20, <1>21 DEF ConsumerStep
<1> QED BY <1>9, <1>11, <1>13, <1>14, <1>15, <1>16, <1>17, <1>18, <1>19 DEF Next

(* The stream holds only the backlog: while nothing fails, an entry that is neither unread
   nor pending is deleted, or about to be (_forget): StreamIsBacklog. *)
THEOREM StreamAlwaysBacklog == Spec => []StreamIsBacklog
<1> DEFINE Gone(e) == \/ e \in deleted
                      \/ deliveries[e] > 0
                      \/ \E w \in Workers : at[w] = "del" /\ e \in mine[w]
<1>1. Init => StreamIsBacklog
    BY DEF Init, StreamIsBacklog
<1>2. TypeInv /\ StreamIsBacklog /\ [Next]_vars => StreamIsBacklog'
    <2> SUFFICES ASSUME TypeInv, StreamIsBacklog, [Next]_vars, Calm', NEW e \in given'
                 PROVE  Gone(e)'
        BY DEF StreamIsBacklog, Calm
    <2>1. Calm /\ \A kind : ~Fault(kind)
        BY CalmBefore
    <2>2. \A f \in given : Gone(f) /\ f \in Entries
        BY <2>1, ReadEntries DEF StreamIsBacklog, Calm
    <2>0. /\ at \in [Workers -> Phases] /\ mine \in [Workers -> SUBSET given]
          /\ deliveries \in [Entries -> Nat]
        BY DEF TypeInv, ConsumerTypes, PendingTypes
    <2>3. ASSUME given' = given, deleted \subseteq deleted', deliveries[e] > 0 => deliveries'[e] > 0,
                 \A v \in Workers : at[v] = "del" => at'[v] = "del" /\ mine'[v] = mine[v]
          PROVE  Gone(e)'
        BY <2>2, <2>3
    <2>4. ASSUME NEW w \in Workers, Read(w) PROVE Gone(e)'
        <3>1. PICK new, items :
              /\ at[w] = "idle" /\ new \subseteq Entries /\ given' = given \cup new /\ deleted' = deleted
              /\ deliveries' = [f \in Entries |-> IF f \in new THEN 1 ELSE deliveries[f]]
              /\ StartFlush(w, items, new \ items) \/ Rest(w)
            BY <2>4, ReadGives
        <3>3. CASE e \in new
            <4>1. deliveries'[e] = 1
                BY <3>1, <3>3
            <4> QED BY <4>1
        <3>4. CASE e \notin new
            <4>1. e \in given
                BY <3>1, <3>4
            <4>2. e \in Entries /\ (deliveries[e] > 0 => deliveries'[e] > 0)
                BY <2>2, <3>1, <3>4, <4>1
            <4>3. \A v \in Workers : at[v] = "del" => at'[v] = "del" /\ mine'[v] = mine[v]
                BY <2>0, <3>1 DEF StartFlush, Rest
            <4> QED BY <2>2, <3>1, <4>1, <4>2, <4>3
        <3> QED BY <3>3, <3>4
    <2>5. ASSUME NEW w \in Workers, Ack(w) PROVE Gone(e)'
        <3>1. /\ deliveries' = [f \in Entries |-> IF f \in mine[w] THEN 0 ELSE deliveries[f]]
              /\ at' = [at EXCEPT ![w] = "del"] /\ mine' = mine /\ given' = given /\ deleted' = deleted
            BY <2>1, <2>5 DEF Ack, streamVars
        <3>2. CASE e \in mine[w]
            BY <2>0, <3>1, <3>2
        <3>3. CASE e \notin mine[w]
            <4>1. deliveries[e] > 0 => deliveries'[e] > 0
                BY <2>2, <3>1, <3>3
            <4>2. \A v \in Workers : at[v] = "del" => at'[v] = "del" /\ mine'[v] = mine[v]
                BY <2>0, <3>1
            <4> QED BY <2>3, <3>1, <4>1, <4>2
        <3> QED BY <3>2, <3>3
    <2>6. ASSUME NEW w \in Workers, Delete(w) PROVE Gone(e)'
        <3>1. /\ deleted' = deleted \cup mine[w] /\ UNCHANGED <<deliveries, given>>
              /\ \A v \in Workers : v # w => at'[v] = at[v] /\ mine'[v] = mine[v]
            BY <2>0, <2>1, <2>6 DEF Delete, Forget, Proceed, StartFlush, Rest, pelVars
        <3> QED BY <2>2, <3>1
    <2>7. ASSUME NEW w \in Workers, Submit(w) \/ RecordJob(w) \/ CallEnds(w) \/ Hold(w)
          PROVE  Gone(e)'
        BY <2>0, <2>3, <2>7 DEF Submit, RecordJob, CallEnds, Hold, streamVars, pelVars
    <2>8. ASSUME NEW w \in Workers, Store(w) \/ AddCost(w)
          PROVE  Gone(e)'
        BY <2>0, <2>3, <2>8 DEF Store, AfterStore, AddCost, streamVars, pelVars
    <2>9. ASSUME NEW w \in Workers, SweepClaim(w) PROVE Gone(e)'
        <3>1. PICK s \in registered :
              /\ UNCHANGED <<given, deleted>>
              /\ deliveries' = [f \in Entries |-> IF f \in StaleEntries(s) THEN deliveries[f] + 1 ELSE deliveries[f]]
              /\ at[w] = "idle" /\ at' = [at EXCEPT ![w] = "judge"] /\ mine' = mine
            BY <2>9 DEF SweepClaim, streamVars
        <3> DEFINE stale == StaleEntries(s)
        <3> HIDE DEF stale
        <3>2. deliveries[e] > 0 => deliveries'[e] > 0
            <4>1. deliveries' = [f \in Entries |-> IF f \in stale THEN deliveries[f] + 1 ELSE deliveries[f]]
                BY <3>1 DEF stale
            <4>2. e \in Entries /\ deliveries[e] \in Nat
                BY <2>0, <2>2, <3>1
            <4>3. deliveries'[e] \in {deliveries[e], deliveries[e] + 1}
                BY <4>1, <4>2
            <4> QED BY <4>2, <4>3
        <3>3. \A v \in Workers : at[v] = "del" => at'[v] = "del" /\ mine'[v] = mine[v]
            BY <2>0, <3>1
        <3> QED BY <2>3, <3>1, <3>2, <3>3
    <2>10. ASSUME NEW w \in Workers, JudgeCompleted(w) \/ SweepJudged(w) \/ JudgeDeliveries(w)
           PROVE  Gone(e)'
        <3>1. UNCHANGED <<given, deleted, deliveries>> /\ at[w] # "del"
            BY <2>10 DEF JudgeCompleted, SweepJudged, JudgeDeliveries, streamVars, pelVars
        <3>2. \A v \in Workers : v # w => at'[v] = at[v] /\ mine'[v] = mine[v]
            BY <2>0, <2>10 DEF JudgeCompleted, SweepJudged, JudgeDeliveries, StartFlush, Rest
        <3> QED BY <2>3, <3>1, <3>2
    <2>11. ASSUME UNCHANGED <<streamVars, deliveries, at, mine>> PROVE Gone(e)'
        BY <2>3, <2>11 DEF streamVars
    <2>12. ASSUME NEW w \in Workers, PollerStep(w) PROVE Gone(e)'
        BY <2>11, <2>12 DEF PollerStep, PollStart, PollJob, PollStore, PollCost, PollDrop, PollEnd, pelVars, consVars
    <2>13. ASSUME NEW r \in Requests, HandlerStep(r) \/ HandlerDies(r) PROVE Gone(e)'
        <3>1. UNCHANGED <<deleted, given, deliveries, at, mine>>
            BY <2>13 DEF HandlerStep, HandlerDies, AnswerNow, RecordOwner, CheckBacklog, RegisterStream,
                  Accumulate, ForgetOwner, pelVars, consVars, streamVars
        <3> QED BY <2>3, <3>1
    <2>14. ASSUME Tick \/ (\E j \in 1 .. Len(jobs) : JobEnds(j)) \/ UNCHANGED vars PROVE Gone(e)'
        BY <2>11, <2>14 DEF Tick, JobEnds, vars, pelVars, consVars, streamVars
    <2>15. ~Stall /\ \A w \in Workers : ~Crash(w)
        <3>1. crashes = 0 /\ crashes' = 0
            BY <2>1 DEF Calm
        <3> QED BY <2>1, <3>1 DEF Stall, Crash
    <2>16. ASSUME NEW w \in Workers, ConsumerStep(w) PROVE Gone(e)'
        BY <2>4, <2>5, <2>6, <2>7, <2>8, <2>9, <2>10, <2>16 DEF ConsumerStep
    <2> QED BY <2>7, <2>12, <2>13, <2>14, <2>15, <2>16 DEF Next
<1> QED BY <1>1, <1>2, TypeStart, TypeKeeps, PTL DEF Spec

-----------------------------------------------------------------------------
(* A request is queued at most once. *)
LogInv ==
    /\ \A e \in 1 .. Len(log) : pc[log[e]] \in {"queued", "refused", "sync", "gone"}
    /\ \A e, f \in 1 .. Len(log) : log[e] = log[f] => e = f

(* Every step keeps each request to one entry. *)
LEMMA LogKeeps ==
    ASSUME TypeInv, LogInv, [Next]_vars
    PROVE  LogInv'
<1>1. CASE UNCHANGED <<pc, owner, registered, log>>
    BY <1>1 DEF LogInv
<1>2. ASSUME NEW r \in Requests, HandlerStep(r) \/ HandlerDies(r)
      PROVE  LogInv'
    <2>1. log \in Seq(Requests) /\ Len(log) \in Nat /\ pc \in [Requests -> {"arrived", "owned", "checked", "registered", "queued",
                            "refused", "sync", "gone"}]
        BY DEF TypeInv, StreamTypes, RequestTypes
    <2>2. \A q \in Requests : pc[q] \in {"queued", "refused", "sync", "gone"} => pc'[q] \in {"queued", "refused", "sync", "gone"}
        BY <1>2, <2>1 DEF HandlerStep, HandlerDies, AnswerNow, RecordOwner, CheckBacklog, RegisterStream,
                    Accumulate, ForgetOwner, Goto
    <2>3. log' = log \/ (log' = Append(log, r) /\ pc[r] = "registered" /\ pc'[r] \in {"queued", "refused"})
        BY <1>2, <2>1 DEF HandlerStep, HandlerDies, AnswerNow, RecordOwner, CheckBacklog, RegisterStream,
                    Accumulate, ForgetOwner, Goto, streamVars
    <2>4. \A e \in 1 .. Len(log) : log[e] \in Requests /\ pc'[log[e]] \in {"queued", "refused", "sync", "gone"}
        BY <2>1, <2>2 DEF LogInv
    <2>5. CASE log' = log
        BY <2>4, <2>5 DEF LogInv
    <2>6. CASE log' = Append(log, r) /\ pc[r] = "registered" /\ pc'[r] \in {"queued", "refused"}
        <3>1. \A e \in 1 .. Len(log) : log[e] # r
            BY <2>6 DEF LogInv
        <3>2. Len(log') = Len(log) + 1 /\ log'[Len(log) + 1] = r /\ \A e \in 1 .. Len(log) : log'[e] = log[e]
            BY <2>1, <2>6
        <3>3. \A e \in 1 .. Len(log') : e \in 1 .. Len(log) \/ e = Len(log) + 1
            BY <2>1, <3>2
        <3> QED BY <2>4, <2>6, <3>1, <3>2, <3>3 DEF LogInv
    <2> QED BY <2>3, <2>5, <2>6
<1> QED BY <1>1, <1>2, RequestsMove

(* While nothing fails an entry that never waited is not paid again: it has left every list of
   entries a worker or a job has still to be answered for. *)
Unanswered(w) == at[w] \in {"submit", "call", "store", "cost"}

(* Once paid for, it is in no list still to be called, and in no pending job. *)
PaidOnce(e) ==
    /\ paid[log[e]] <= 1
    /\ paid[log[e]] > 0 =>
          /\ \A w \in Workers : Unanswered(w) /\ e \in todo[w] => at[w] \in {"store", "cost"} /\ e = Item(w)
          /\ \A j \in 1 .. Len(jobs) : jobs[j].status = "pending" => e \notin jobs[j].items

(* The lists and the jobs share only entries that waited. *)
ListsApart ==
    /\ \A w \in Workers : Unanswered(w) => \A j \in 1 .. Len(jobs) : todo[w] \cap jobs[j].items \subseteq waited
    /\ \A i, j \in 1 .. Len(jobs) : i # j => jobs[i].items \cap jobs[j].items \subseteq waited

(* Only what was read is paid for, and at most once if it did not wait. *)
PaidShape ==
    /\ \A r \in Requests : paid[r] > 0 => \E e \in given : log[e] = r
    /\ \A e \in given \ waited : PaidOnce(e)
    /\ ListsApart

(* The shape, while nothing has failed. *)
PaidInv == Calm => PaidShape

(* A step that pays nobody and takes on nothing but entries that waited. *)
LEMMA NobodyPaid ==
    ASSUME PaidShape, UNCHANGED <<paid, jobs, log, given, waited>>,
           \A w \in Workers : Unanswered(w)' =>
              \/ todo'[w] \subseteq waited
              \/ /\ Unanswered(w)
                 /\ \/ todo'[w] = todo[w] /\ (at'[w] \in {"store", "cost"} \/ at[w] \in {"submit", "call"})
                    \/ todo'[w] \subseteq todo[w] \ {Item(w)}
    PROVE  PaidShape'
<1>1. ASSUME NEW e \in given \ waited PROVE PaidOnce(e)'
    <2>1. PaidOnce(e)
        BY DEF PaidShape
    <2>2. ASSUME paid[log[e]] > 0, NEW w \in Workers, Unanswered(w)', e \in todo'[w]
          PROVE  at'[w] \in {"store", "cost"} /\ e = Item(w)'
        <3>1. Unanswered(w) /\ e \in todo[w]
            BY <2>2
        <3>2. at[w] \in {"store", "cost"} /\ e = Item(w)
            BY <2>1, <2>2, <3>1 DEF PaidOnce
        <3>3. todo'[w] = todo[w] /\ at'[w] \in {"store", "cost"}
            BY <2>2, <3>2
        <3> QED BY <3>2, <3>3 DEF Item
    <2> QED BY <2>1, <2>2 DEF PaidOnce
<1>2. ListsApart'
    <2>1. ASSUME NEW w \in Workers, Unanswered(w)', NEW j \in 1 .. Len(jobs)
          PROVE  todo'[w] \cap jobs[j].items \subseteq waited
        <3>1. CASE todo'[w] \subseteq waited
            BY <3>1
        <3>2. CASE Unanswered(w) /\ todo'[w] \subseteq todo[w]
            BY <3>2 DEF PaidShape, ListsApart
        <3> QED BY <2>1, <3>1, <3>2
    <2> QED BY <2>1 DEF PaidShape, ListsApart
<1> QED BY <1>1, <1>2 DEF PaidShape

(* Every step keeps it. *)
LEMMA PaidKeeps ==
    ASSUME TypeInv, LogInv, CalmInv, PaidInv, [Next]_vars
    PROVE  PaidInv'
<1> SUFFICES ASSUME Calm' PROVE PaidShape'
    BY DEF PaidInv
<1>1. PaidShape /\ ListsApart /\ CalmShape /\ SweptWaited /\ (\A kind : ~Fault(kind))
    BY CalmBefore DEF CalmInv, PaidInv, PaidShape, CalmShape
<1>0. /\ at \in [Workers -> Phases] /\ todo \in [Workers -> SUBSET given]
      /\ mine \in [Workers -> SUBSET given] /\ waited \subseteq given
      /\ paid \in [Requests -> Nat] /\ jobs \in Seq(Job) /\ Len(jobs) \in Nat
      /\ log \in Seq(Requests) /\ Len(log) \in Nat /\ given \subseteq 1 .. Len(log)
    <2>1. /\ at \in [Workers -> Phases] /\ todo \in [Workers -> SUBSET given]
          /\ mine \in [Workers -> SUBSET given] /\ given \subseteq 1 .. Len(log) /\ waited \subseteq given
        BY ReadEntries DEF TypeInv, ConsumerTypes
    <2>2. paid \in [Requests -> Nat] /\ jobs \in Seq(Job) /\ log \in Seq(Requests)
        BY DEF TypeInv, ResultTypes, JobTypes, StreamTypes
    <2>3. Len(jobs) \in Nat /\ Len(log) \in Nat
        BY <2>2
    <2> QED BY <2>1, <2>2, <2>3
<1>20. \A v, w \in Workers : v # w /\ Unanswered(v) /\ Unanswered(w) => todo[v] \cap todo[w] \subseteq waited
    BY <1>1 DEF CalmShape, SweptWaited, Unanswered
<1>21. \A e \in given : log[e] \in Requests
    BY <1>0
<1>2. ASSUME NEW w \in Workers, Submit(w) PROVE PaidShape'
    <2>0. /\ at[w] = "submit" /\ UNCHANGED <<paid, todo, given, waited, log>>
          /\ \A v \in Workers : v # w => at'[v] = at[v]
        BY <1>0, <1>2 DEF Submit, resVars, streamVars
    <2>1. CASE jobs' = jobs
        <3>1. at'[w] \in {"record", "call"}
            BY <1>0, <1>2 DEF Submit
        <3> QED BY <1>1, <2>0, <2>1, <3>1, NobodyPaid DEF Unanswered
    <2>2. CASE jobs' # jobs
        <3> DEFINE new == [by |-> w, items |-> todo[w], status |-> "pending", answers |-> {}]
        <3>1. jobs' = Append(jobs, new) /\ at'[w] = "record"
            BY <1>0, <1>2, <2>2 DEF Submit
        <3>2. new.items = todo[w]
            OBVIOUS
        <3> HIDE DEF new
        <3>3. /\ Len(jobs') = Len(jobs) + 1 /\ jobs'[Len(jobs) + 1] = new
              /\ \A j \in 1 .. Len(jobs) : jobs'[j] = jobs[j]
            BY <1>0, <3>1
        <3>4. \A j \in 1 .. Len(jobs') : j \in 1 .. Len(jobs) \/ j = Len(jobs) + 1
            BY <1>0, <3>3
        <3>5. \A v \in Workers : Unanswered(v)' => v # w /\ Unanswered(v)
            BY <2>0, <3>1 DEF Unanswered
        <3>6. Unanswered(w) /\ \A v \in Workers : v # w /\ Unanswered(v) => todo[v] \cap todo[w] \subseteq waited
            BY <1>20, <2>0 DEF Unanswered
        <3>8. \A j \in 1 .. Len(jobs) : todo[w] \cap jobs[j].items \subseteq waited
            BY <1>1, <3>6 DEF ListsApart
        <3>9. ASSUME NEW e \in given \ waited PROVE PaidOnce(e)'
            <4>1. PaidOnce(e)
                BY <1>1 DEF PaidShape
            <4>2. paid[log[e]] > 0 => e \notin todo[w]
                BY <2>0, <3>6, <4>1 DEF PaidOnce
            <4>3. paid[log[e]] > 0 => \A j \in 1 .. Len(jobs') : jobs'[j].status = "pending" => e \notin jobs'[j].items
                BY <3>2, <3>3, <3>4, <4>1, <4>2 DEF PaidOnce
            <4>4. paid[log[e]] > 0 => \A v \in Workers : Unanswered(v)' /\ e \in todo[v] =>
                                           at'[v] \in {"store", "cost"} /\ e = Item(v)
                BY <2>0, <3>5, <4>1 DEF PaidOnce
            <4>5. \A v \in Workers : Item(v)' = Item(v)
                BY <2>0 DEF Item
            <4> QED BY <2>0, <4>1, <4>3, <4>4, <4>5 DEF PaidOnce
        <3>11. \A v \in Workers : Unanswered(v)' => \A j \in 1 .. Len(jobs') : todo'[v] \cap jobs'[j].items \subseteq waited'
            BY <1>1, <2>0, <3>2, <3>3, <3>4, <3>5, <3>6 DEF ListsApart
        <3>12. \A i, j \in 1 .. Len(jobs') : i # j => jobs'[i].items \cap jobs'[j].items \subseteq waited'
            BY <1>1, <2>0, <3>2, <3>3, <3>4, <3>8 DEF ListsApart
        <3>13. ListsApart'
            BY <3>11, <3>12 DEF ListsApart
        <3> QED BY <1>1, <2>0, <3>9, <3>13 DEF PaidShape
    <2> QED BY <2>1, <2>2
<1>3. ASSUME NEW w \in Workers, CallEnds(w) PROVE PaidShape'
    <2>0. /\ at[w] = "call" /\ at'[w] = "store" /\ UNCHANGED <<todo, given, waited, log, jobs>>
          /\ \A v \in Workers : v # w => at'[v] = at[v]
          /\ paid' = paid \/ paid' = [paid EXCEPT ![log[Item(w)]] = @ + 1]
        BY <1>0, <1>3 DEF CallEnds, streamVars, jobVars
    <2>1. todo[w] # {}
        BY <2>0 DEF TypeInv, ConsumerTypes
    <2>2. Item(w) \in todo[w] /\ Item(w) \in 1 .. Len(log) /\ log[Item(w)] \in Requests /\ Item(w) \in given
        BY <2>1, ItemIsRead
    <2>6. (\A v \in Workers : Unanswered(v)' <=> Unanswered(v)) /\ Unanswered(w)
        BY <2>0 DEF Unanswered
    <2>13. \A v \in Workers : Item(v)' = Item(v)
        BY <2>0 DEF Item
    <2>3. ASSUME NEW e \in given \ waited PROVE PaidOnce(e)'
        <3>0. PaidOnce(e)
            BY <1>1 DEF PaidShape
        <3>1. CASE e # Item(w)
            <4>1. log[e] # log[Item(w)]
                BY <1>0, <2>2, <3>1 DEF LogInv
            <4>2. paid'[log[e]] = paid[log[e]]
                BY <1>0, <1>21, <2>0, <4>1
            <4>3. \A v \in Workers : at[v] \in {"store", "cost"} => at'[v] \in {"store", "cost"}
                BY <2>0
            <4> QED BY <2>0, <2>6, <2>13, <3>0, <4>2, <4>3 DEF PaidOnce
        <3>2. CASE e = Item(w)
            <4>1. ~(paid[log[e]] > 0)
                BY <2>0, <2>2, <2>6, <3>0, <3>2 DEF PaidOnce
            <4>2. paid[log[e]] = 0
                BY <1>0, <1>21, <4>1
            <4>3. paid'[log[e]] <= 1
                BY <1>0, <1>21, <2>0, <3>2, <4>2
            <4>4. \A v \in Workers : v # w /\ Unanswered(v) => e \notin todo[v]
                BY <1>20, <2>2, <2>6, <3>2
            <4>5. \A j \in 1 .. Len(jobs) : e \notin jobs[j].items
                BY <1>1, <2>2, <2>6, <3>2 DEF ListsApart
            <4> QED BY <2>0, <2>6, <2>13, <3>2, <4>3, <4>4, <4>5 DEF PaidOnce
        <3> QED BY <3>1, <3>2
    <2>4. \A r \in Requests : paid'[r] > 0 => \E e \in given : log[e] = r
        BY <1>0, <1>1, <2>0, <2>2 DEF PaidShape
    <2>5. ListsApart'
        BY <1>1, <2>0, <2>6 DEF ListsApart
    <2> QED BY <2>0, <2>3, <2>4, <2>5 DEF PaidShape
<1>4. ASSUME NEW j \in 1 .. Len(jobs), JobEnds(j) PROVE PaidShape'
    <2>0. /\ UNCHANGED <<at, todo, given, waited, log>> /\ jobs[j].status = "pending"
        BY <1>4 DEF JobEnds, streamVars, consVars
    <2>1. /\ Len(jobs') = Len(jobs)
          /\ \A k \in 1 .. Len(jobs) : jobs'[k].items = jobs[k].items
          /\ \A k \in 1 .. Len(jobs) : jobs'[k].status = "pending" => k # j /\ jobs[k].status = "pending"
        BY <1>4, EndedJob
    <2>2. PICK A \in SUBSET jobs[j].items :
             \A r \in Requests : paid'[r] = paid[r] + Cardinality({e \in A : log[e] = r})
        <3>1. CASE paid' = paid
            <4>1. \A r \in Requests : {e \in {} : log[e] = r} = {}
                OBVIOUS
            <4>2. \A r \in Requests : Cardinality({e \in {} : log[e] = r}) = 0
                BY <4>1, FS_EmptySet
            <4>3. \A r \in Requests : paid'[r] = paid[r] + Cardinality({e \in {} : log[e] = r})
                BY <1>0, <3>1, <4>2
            <4> QED BY <4>3
        <3>2. (UNCHANGED paid) \/ \E A \in SUBSET jobs[j].items :
                 paid' = [r \in Requests |-> paid[r] + Cardinality({e \in A : log[e] = r})]
            BY <1>4 DEF JobEnds
        <3> QED BY <3>1, <3>2
    <2>3. A \subseteq given
        BY <2>2 DEF TypeInv, JobTypes
    <2>5. ASSUME NEW r \in Requests
          PROVE  \/ paid'[r] = paid[r]
                 \/ paid'[r] = paid[r] + 1 /\ \E e \in A : log[e] = r
        <3> DEFINE S == {e \in A : log[e] = r}
        <3>1. CASE S = {}
            <4>1. Cardinality(S) = 0
                BY <3>1, FS_EmptySet
            <4>2. paid'[r] = paid[r] + Cardinality(S) /\ paid[r] \in Nat
                BY <1>0, <2>2
            <4> QED BY <4>1, <4>2
        <3>2. CASE S # {}
            <4>1. PICK e \in A : log[e] = r
                BY <3>2
            <4>2. S = {e}
                BY <1>0, <2>3, <4>1 DEF LogInv
            <4>3. Cardinality(S) = 1
                BY <4>2, FS_Singleton
            <4>5. paid'[r] = paid[r] + Cardinality(S)
                BY <2>2
            <4>6. paid'[r] = paid[r] + 1
                BY <4>3, <4>5
            <4> QED BY <4>1, <4>6
        <3> QED BY <3>1, <3>2
    <2>9. (\A w \in Workers : Unanswered(w)' <=> Unanswered(w)) /\ \A w \in Workers : Item(w)' = Item(w)
        BY <2>0 DEF Unanswered, Item
    <2>6. ASSUME NEW e \in given \ waited PROVE PaidOnce(e)'
        <3>0. PaidOnce(e) /\ log[e] \in Requests /\ paid[log[e]] \in Nat
            BY <1>0, <1>1, <1>21 DEF PaidShape
        <3>1. CASE e \notin A
            <4>1. \A f \in A : log[f] # log[e]
                BY <1>0, <2>3, <3>1 DEF LogInv
            <4>2. paid'[log[e]] = paid[log[e]]
                BY <2>5, <3>0, <4>1
            <4> QED BY <2>0, <2>1, <2>9, <3>0, <4>2 DEF PaidOnce
        <3>2. CASE e \in A
            <4>1. e \in jobs[j].items
                BY <2>2, <3>2
            <4>2. \A w \in Workers : Unanswered(w) => e \notin todo[w]
                BY <1>1, <4>1 DEF ListsApart
            <4>3. \A k \in 1 .. Len(jobs) : k # j => e \notin jobs[k].items
                BY <1>1, <4>1 DEF ListsApart
            <4>4. ~(paid[log[e]] > 0)
                BY <2>0, <3>0, <4>1 DEF PaidOnce
            <4>5. paid'[log[e]] <= 1
                BY <2>5, <3>0, <4>4
            <4>6. \A k \in 1 .. Len(jobs') : jobs'[k].status = "pending" => e \notin jobs'[k].items
                BY <2>1, <4>3
            <4> QED BY <2>0, <2>9, <4>2, <4>5, <4>6 DEF PaidOnce
        <3> QED BY <3>1, <3>2
    <2>7. \A r \in Requests : paid'[r] > 0 => \E e \in given : log[e] = r
        <3> SUFFICES ASSUME NEW r \in Requests, paid'[r] > 0 PROVE \E e \in given : log[e] = r
            OBVIOUS
        <3>1. CASE paid'[r] = paid[r]
            BY <1>1, <3>1 DEF PaidShape
        <3>2. CASE \E e \in A : log[e] = r
            BY <2>3, <3>2
        <3> QED BY <2>5, <3>1, <3>2
    <2>8. ListsApart'
        <3>1. \A w \in Workers : Unanswered(w)' => \A k \in 1 .. Len(jobs') : todo'[w] \cap jobs'[k].items \subseteq waited'
            BY <1>1, <2>0, <2>1, <2>9 DEF ListsApart
        <3>2. \A i, k \in 1 .. Len(jobs') : i # k => jobs'[i].items \cap jobs'[k].items \subseteq waited'
            BY <1>1, <2>0, <2>1 DEF ListsApart
        <3> QED BY <3>1, <3>2 DEF ListsApart
    <2> QED BY <2>0, <2>6, <2>7, <2>8 DEF PaidShape
<1>5. ASSUME NEW w \in Workers, Read(w) PROVE PaidShape'
    <2>1. PICK new, items :
              /\ new \subseteq 1 .. Len(log) /\ new \cap given = {} /\ items \subseteq new
              /\ given' = given \cup new /\ waited' = waited \cup (new \ items)
              /\ StartFlush(w, items, new \ items) /\ UNCHANGED <<log, jobs, paid>>
        BY <1>1, <1>5, ReadGives DEF jobVars, resVars
    <2>3. /\ \A v \in Workers : v # w => at'[v] = at[v] /\ todo'[v] = todo[v]
          /\ at'[w] \in {"submit", "call"} /\ todo'[w] = items
        BY <1>0, <2>1 DEF StartFlush
    <2>4. \A e \in new : ~(paid[log[e]] > 0)
        <3> SUFFICES ASSUME NEW e \in new, paid[log[e]] > 0 PROVE FALSE
            OBVIOUS
        <3>1. e \in 1 .. Len(log) /\ e \notin given /\ log[e] \in Requests
            BY <1>0, <2>1
        <3>2. PICK f \in given : log[f] = log[e]
            BY <1>1, <3>1 DEF PaidShape
        <3> QED BY <1>0, <3>1, <3>2 DEF LogInv
    <2>6. \A v \in Workers : v # w => (Unanswered(v)' <=> Unanswered(v)) /\ Item(v)' = Item(v)
        BY <2>3 DEF Unanswered, Item
    <2>7. \A j \in 1 .. Len(jobs) : jobs[j].items \subseteq given
        BY DEF TypeInv, JobTypes
    <2>8. ASSUME NEW e \in given' \ waited' PROVE PaidOnce(e)'
        <3>1. CASE e \in new
            <4>1. paid[log[e]] = 0
                BY <1>0, <2>1, <2>4, <3>1
            <4> QED BY <2>1, <4>1 DEF PaidOnce
        <3>2. CASE e \notin new
            <4>1. e \in given \ waited
                BY <2>1, <3>2
            <4>2. PaidOnce(e)
                BY <1>1, <4>1 DEF PaidShape
            <4>3. e \notin todo'[w]
                BY <2>1, <2>3, <3>2
            <4>4. paid[log[e]] > 0 => \A v \in Workers : Unanswered(v)' /\ e \in todo'[v] =>
                                           at'[v] \in {"store", "cost"} /\ e = Item(v)'
                BY <2>3, <2>6, <4>2, <4>3 DEF PaidOnce
            <4> QED BY <2>1, <4>2, <4>4 DEF PaidOnce
        <3> QED BY <3>1, <3>2
    <2>9. ASSUME NEW v \in Workers, Unanswered(v)', NEW j \in 1 .. Len(jobs)
          PROVE  todo'[v] \cap jobs[j].items \subseteq waited'
        <3>1. CASE v = w
            BY <2>1, <2>3, <2>7, <3>1
        <3>2. CASE v # w
            BY <1>1, <2>1, <2>3, <2>6, <2>9, <3>2 DEF ListsApart
        <3> QED BY <3>1, <3>2
    <2>10. ListsApart'
        <3>1. \A i, j \in 1 .. Len(jobs) : i # j => jobs[i].items \cap jobs[j].items \subseteq waited'
            BY <1>1, <2>1 DEF ListsApart
        <3>2. jobs' = jobs
            BY <2>1
        <3> QED BY <2>9, <3>1, <3>2 DEF ListsApart
    <2>11. \A r \in Requests : paid[r] > 0 => \E e \in given' : log[e] = r
        BY <1>1, <2>1 DEF PaidShape
    <2> QED BY <2>1, <2>8, <2>10, <2>11 DEF PaidShape
<1>6. ASSUME NEW w \in Workers, Store(w) \/ AddCost(w) PROVE PaidShape'
    <2>2. AfterItem(w) \in {"ack", "call"} /\ at[w] \in {"store", "cost"}
        BY <1>6 DEF AfterItem, Store, AddCost
    <2>3. /\ UNCHANGED <<paid, jobs, given, waited, log>> /\ \A v \in Workers : v # w => at'[v] = at[v] /\ todo'[v] = todo[v]
          /\ \/ at'[w] = "cost" /\ todo'[w] = todo[w]
             \/ todo'[w] = todo[w] \ {Item(w)}
        BY <1>0, <1>6, <2>2 DEF Store, AfterStore, AddCost, streamVars, jobVars
    <2> HIDE DEF Item
    <2> QED BY <1>1, <2>2, <2>3, NobodyPaid DEF Unanswered
<1>7. ASSUME NEW w \in Workers, RecordJob(w) \/ Ack(w) \/ Hold(w) \/ SweepClaim(w) \/ JudgeCompleted(w) \/ JudgeDeliveries(w)
      PROVE  PaidShape'
    <2>1. /\ UNCHANGED <<paid, jobs, given, waited, log>> /\ \A v \in Workers : v # w => at'[v] = at[v] /\ todo'[v] = todo[v]
          /\ at'[w] \in {"ack", "del", "judge", "judge2"} \/ (at'[w] = at[w] /\ todo'[w] = todo[w])
        BY <1>0, <1>1, <1>7 DEF RecordJob, Ack, Hold, SweepClaim, JudgeCompleted, JudgeDeliveries,
              streamVars, jobVars, resVars
    <2> QED BY <1>1, <2>1, NobodyPaid DEF Unanswered
<1>13. ASSUME NEW w \in Workers, Delete(w) \/ SweepJudged(w) PROVE PaidShape'
    <2>1. UNCHANGED <<paid, jobs, given, waited, log>>
        BY <1>13 DEF Delete, SweepJudged, streamVars, jobVars, resVars
    <2>2. FirstStream(later[w]) \subseteq waited /\ retry[w] \subseteq waited
        BY <1>1 DEF SweptWaited, FirstStream
    <2>3. /\ \A v \in Workers : v # w => at'[v] = at[v] /\ todo'[v] = todo[v]
          /\ at'[w] \in {"idle", "ack"} \/ todo'[w] \subseteq waited
        BY <1>0, <1>13, <2>2 DEF Delete, SweepJudged, Proceed, Rest, StartFlush
    <2> QED BY <1>1, <2>1, <2>3, NobodyPaid DEF Unanswered
<1>8. ASSUME UNCHANGED <<paid, jobs, given, waited, log, at, todo>> PROVE PaidShape'
    BY <1>1, <1>8, NobodyPaid DEF Unanswered
<1>9. ASSUME NEW w \in Workers, PollerStep(w) PROVE PaidShape'
    BY <1>8, <1>9 DEF PollerStep, PollStart, PollJob, PollStore, PollCost, PollDrop, PollEnd, consVars, streamVars, jobVars, resVars
<1>10. ASSUME Tick \/ UNCHANGED vars PROVE PaidShape'
    BY <1>8, <1>10 DEF Tick, vars, consVars, streamVars, jobVars, resVars
<1>11. ASSUME NEW r \in Requests, HandlerStep(r) \/ HandlerDies(r) PROVE PaidShape'
    <2>1. UNCHANGED <<paid, jobs, given, waited, at, todo>>
        BY <1>11 DEF HandlerStep, HandlerDies, AnswerNow, RecordOwner, CheckBacklog, RegisterStream,
              Accumulate, ForgetOwner, consVars, streamVars, jobVars, resVars
    <2>2. \A e \in given : log'[e] = log[e]
        BY <1>0, LogGrows
    <2>3. \A w \in Workers : (Unanswered(w)' <=> Unanswered(w)) /\ Item(w)' = Item(w)
        BY <2>1 DEF Unanswered, Item
    <2>4. \A e \in given \ waited : PaidOnce(e)'
        BY <1>1, <2>1, <2>2, <2>3 DEF PaidShape, PaidOnce
    <2>5. ListsApart'
        BY <1>1, <2>1, <2>3 DEF ListsApart
    <2> QED BY <1>1, <2>1, <2>2, <2>4, <2>5 DEF PaidShape
<1>12. ~Stall /\ \A w \in Workers : ~Crash(w)
    <2>1. crashes = 0 /\ crashes' = 0
        BY CalmBefore DEF Calm
    <2> QED BY <1>1, <2>1 DEF Stall, Crash
<1>14. ASSUME NEW w \in Workers, ConsumerStep(w) PROVE PaidShape'
    BY <1>2, <1>3, <1>5, <1>6, <1>7, <1>13, <1>14 DEF ConsumerStep
<1> QED BY <1>4, <1>7, <1>9, <1>10, <1>11, <1>12, <1>14 DEF Next

(* An entry runs no more often than it may: once while nothing fails and its flush began with
   its read, the holder keeping every other worker's sweep away (_flush_held), and at most
   max_attempts times whatever fails and whoever sweeps it (_reclaim_stale_pel): RunsAreBounded. *)
THEOREM RunsAlwaysBounded == Spec => []RunsAreBounded
<1> DEFINE I == TypeInv /\ AttemptsInv /\ LogInv /\ CalmInv /\ PaidInv
<1>1. Init => I
    <2> SUFFICES ASSUME Init PROVE I
        OBVIOUS
    <2>1. TypeInv
        BY TypeStart
    <2>2. AttemptsInv
        <3>1. \A e \in Entries : Granted(e) = {} /\ deliveries[e] = 0 /\ flushes[e] = 0
            BY DEF Init, Granted
        <3>2. \A e \in Entries : Cardinality(Granted(e)) = 0
            BY <3>1, FS_EmptySet
        <3> QED BY <3>1, <3>2, ConstantsAssumption DEF AttemptsInv
    <2>3. LogInv
        BY Len(<<>>) = 0 DEF Init, LogInv
    <2>4. CalmInv
        BY DEF Init, CalmInv, CalmShape, SweptWaited, Working, Flushing
    <2>5. PaidInv
        BY Len(<<>>) = 0 DEF Init, PaidInv, PaidShape, ListsApart, Unanswered
    <2> QED BY <2>1, <2>2, <2>3, <2>4, <2>5
<1>2. I /\ [Next]_vars => I'
    BY TypeKeeps, AttemptsKeep, LogKeeps, CalmKeeps, PaidKeeps
<1>3. I => RunsAreBounded
    <2> SUFFICES ASSUME I PROVE AttemptsBounded /\ HoldExcludes
        BY DEF RunsAreBounded
    <2>1. AttemptsBounded
        <3> SUFFICES ASSUME NEW e \in Entries PROVE flushes[e] <= MaxAttempts
            BY DEF AttemptsBounded
        <3>1. flushes[e] \in Nat /\ Cardinality(Granted(e)) \in Nat /\ MaxAttempts \in Nat
            BY ChancesAre, ConstantsAssumption DEF TypeInv, ConsumerTypes
        <3> QED BY <3>1 DEF AttemptsInv
    <2>2. HoldExcludes
        <3> SUFFICES ASSUME Calm
                     PROVE  /\ \A v, w \in Workers : v # w => mine[v] \cap mine[w] \subseteq waited
                            /\ \A e \in 1 .. Len(log) : e \notin waited => paid[log[e]] <= 1
            BY DEF HoldExcludes, Calm
        <3>1. CalmShape /\ PaidShape
            BY DEF CalmInv, PaidInv
        <3>2. ASSUME NEW e \in 1 .. Len(log), e \notin waited PROVE paid[log[e]] <= 1
            <4>1. CASE e \in given
                BY <3>1, <3>2, <4>1 DEF PaidShape, PaidOnce
            <4>2. CASE e \notin given
                <5>0. given \subseteq 1 .. Len(log) /\ log[e] \in Requests /\ paid[log[e]] \in Nat
                    BY ReadEntries, StreamsAre DEF TypeInv, ResultTypes
                <5>1. ~(paid[log[e]] > 0)
                    BY <3>1, <4>2, <5>0 DEF PaidShape, LogInv
                <5> QED BY <5>0, <5>1
            <4> QED BY <4>1, <4>2
        <3> QED BY <3>1, <3>2 DEF CalmShape
    <2> QED BY <2>1, <2>2
<1> QED BY <1>1, <1>2, <1>3, PTL DEF Spec

-----------------------------------------------------------------------------
(* An entry may leave the pending list once it has a result or is in a recorded job: what a
   worker is about to acknowledge, has settled, or has behind it in its flush is safe so, and
   a job leaves the record when all its entries have results. *)
Safe(e) == result[log[e]] # "none" \/ InAJob(e)

(* The job a worker submitted last, which is the one it records. *)
LastJob(w, j) == jobs[j].by = w /\ \A k \in j + 1 .. Len(jobs) : jobs[k].by # w

(* What a consumer holds, item by item of its flush: safe already, or still to be done. *)
ConsumerSafe(w) ==
    /\ at[w] = "ack" => \A e \in mine[w] : Safe(e)
    /\ at[w] \in {"call", "store", "cost"} => \A e \in mine[w] : e \in todo[w] \/ Safe(e)
    /\ at[w] = "cost" => Safe(Item(w))
    /\ at[w] = "submit" => todo[w] = mine[w]
    /\ at[w] = "record" => \E j \in 1 .. Len(jobs) : LastJob(w, j) /\ jobs[j].items = mine[w]
    /\ \A e \in settled[w] : Safe(e)

(* What a poller has not stored yet is still on its list. *)
PollerSafe(w) ==
    /\ pat[w] \in {"store", "cost"} =>
          \A e \in jobs[pjob[w]].items : e \in ptodo[w] \/ result[log[e]] # "none"
    /\ pat[w] = "cost" => result[log[PItem(w)]] # "none"

(* A queued request has an entry, and an entry that was read is pending or safe. *)
SafeShape ==
    /\ \A r \in Requests : pc[r] = "queued" => \E e \in 1 .. Len(log) : log[e] = r
    /\ \A e \in given : deliveries[e] > 0 \/ Safe(e)
    /\ \A w \in Workers : ConsumerSafe(w)
    /\ \A w \in Workers : PollerSafe(w)

(* The shape, unless the write of a result or of a job was lost. *)
SafeInv == SomethingLost \/ SafeShape

(* A lost write stays lost. *)
LEMMA LostBefore ==
    ASSUME TypeInv, [Next]_vars, ~SomethingLost'
    PROVE  ~SomethingLost /\ ~Fault("store") /\ ~Fault("record")
<1>1. faults' = faults \/ \E kind : Fault(kind)
    <2>1. ASSUME NEW r \in Requests, HandlerStep(r) \/ HandlerDies(r) PROVE faults' = faults \/ \E kind : Fault(kind)
        BY <2>1 DEF HandlerStep, HandlerDies, AnswerNow, RecordOwner, CheckBacklog, RegisterStream,
              Accumulate, ForgetOwner, NoFault, faultVars
    <2>2. ASSUME NEW w \in Workers, ConsumerStep(w) PROVE faults' = faults \/ \E kind : Fault(kind)
        BY <2>2 DEF ConsumerStep, Read, Submit, RecordJob, CallEnds, Store, AddCost, Ack, Delete, SweepClaim,
              JudgeCompleted, JudgeDeliveries, SweepJudged, StoreOrLose, NoFault, faultVars
    <2>3. ASSUME NEW w \in Workers, Hold(w) \/ PollerStep(w) \/ Crash(w) PROVE faults' = faults \/ \E kind : Fault(kind)
        BY <2>3 DEF Hold, PollerStep, PollStart, PollJob, PollStore, PollCost, PollDrop, PollEnd, Crash,
              StoreOrLose, NoFault, faultVars
    <2>4. ASSUME Tick \/ Stall \/ (\E j \in 1 .. Len(jobs) : JobEnds(j)) \/ UNCHANGED vars
          PROVE  faults' = faults \/ \E kind : Fault(kind)
        BY <2>4 DEF Tick, Stall, JobEnds, vars, faultVars
    <2> QED BY <2>1, <2>2, <2>3, <2>4 DEF Next
<1>2. faults \in Seq(FaultKinds) /\ Len(faults) \in Nat
    BY DEF TypeInv, FaultTypes
<1>3. ASSUME NEW kind, Fault(kind)
      PROVE  /\ \A n \in 1 .. Len(faults) : n \in 1 .. Len(faults') /\ faults'[n] = faults[n]
             /\ Len(faults) + 1 \in 1 .. Len(faults') /\ faults'[Len(faults) + 1] = kind
    <2>1. faults' = Append(faults, kind) /\ kind \in FaultKinds
        BY <1>3 DEF Fault
    <2> QED BY <1>2, <2>1
<1>4. ~Fault("store") /\ ~Fault("record")
    BY <1>3 DEF SomethingLost
<1>5. ~SomethingLost
    BY <1>1, <1>3 DEF SomethingLost
<1> QED BY <1>4, <1>5

(* What is safe stays so: a result is kept, and a job is taken off the record only when every
   entry of it has one. *)
LEMMA SafeStays ==
    ASSUME TypeInv, SafeShape, [Next]_vars, NEW e \in given, Safe(e)
    PROVE  Safe(e)'
<1>1. e \in 1 .. Len(log) /\ log'[e] = log[e] /\ log[e] \in Requests
    BY LogGrows DEF TypeInv, StreamTypes
<1>2. CASE result[log[e]] # "none"
    BY <1>1, <1>2, ResultsStay DEF Safe
<1>3. CASE InAJob(e)
    <2>1. PICK j \in recorded : e \in jobs[j].items
        BY <1>3 DEF InAJob
    <2>2. j \in 1 .. Len(jobs) /\ jobs \in Seq(Job) /\ Len(jobs) \in Nat
        BY DEF TypeInv, JobTypes
    <2>3. ASSUME NEW w \in Workers, PollDrop(w) PROVE Safe(e)'
        <3>1. pat[w] = "store" /\ ptodo[w] = {} /\ recorded' = recorded \ {pjob[w]} /\ jobs' = jobs /\ result' = result
            BY <2>3 DEF PollDrop, resVars
        <3>2. CASE j = pjob[w]
            <4>1. result[log[e]] # "none"
                BY <2>1, <3>1, <3>2 DEF SafeShape, PollerSafe
            <4> QED BY <1>2, <4>1
        <3>3. CASE j # pjob[w]
            BY <2>1, <3>1, <3>3 DEF Safe, InAJob
        <3> QED BY <3>2, <3>3
    <2>4. ASSUME j \in recorded', jobs'[j].items = jobs[j].items PROVE Safe(e)'
        BY <2>1, <2>4 DEF Safe, InAJob
    <2>5. ASSUME NEW w \in Workers, Submit(w) PROVE Safe(e)'
        <3>1. jobs'[j] = jobs[j] /\ recorded' = recorded
            BY <2>2, <2>5 DEF Submit
        <3> QED BY <2>4, <3>1
    <2>6. ASSUME recorded \subseteq recorded', jobs' = jobs PROVE Safe(e)'
        BY <2>4, <2>6
    <2>7. ASSUME NEW k \in 1 .. Len(jobs), JobEnds(k) PROVE Safe(e)'
        <3>1. jobs'[j].items = jobs[j].items /\ recorded' = recorded
            BY <2>2, <2>7, EndedJob DEF JobEnds
        <3> QED BY <2>4, <3>1
    <2>8. ASSUME NEW w \in Workers, ConsumerStep(w), ~Submit(w) PROVE Safe(e)'
        BY <2>6, <2>8 DEF ConsumerStep, Read, RecordJob, CallEnds, Store, AddCost, Ack, Delete, SweepClaim,
              JudgeCompleted, JudgeDeliveries, SweepJudged, jobVars
    <2>9. ASSUME NEW w \in Workers, Hold(w) \/ Crash(w) \/ PollerStep(w), ~PollDrop(w) PROVE Safe(e)'
        BY <2>6, <2>9 DEF Hold, Crash, PollerStep, PollStart, PollJob, PollStore, PollCost, PollEnd, jobVars
    <2>10. ASSUME NEW r \in Requests, HandlerStep(r) \/ HandlerDies(r) PROVE Safe(e)'
        BY <2>6, <2>10 DEF HandlerStep, HandlerDies, AnswerNow, RecordOwner, CheckBacklog, RegisterStream,
              Accumulate, ForgetOwner, jobVars
    <2>11. ASSUME Tick \/ Stall \/ UNCHANGED vars PROVE Safe(e)'
        BY <2>6, <2>11 DEF Tick, Stall, vars, jobVars
    <2> QED BY <2>3, <2>5, <2>7, <2>8, <2>9, <2>10, <2>11 DEF Next
<1> QED BY <1>2, <1>3 DEF Safe

(* A job keeps its entries and its submitter; only the submitter adds one. *)
LEMMA JobsMove ==
    ASSUME TypeInv, [Next]_vars
    PROVE  /\ Len(jobs) \in Nat /\ Len(jobs') \in Nat
           /\ \A k \in 1 .. Len(jobs) : /\ k \in 1 .. Len(jobs')
                                        /\ jobs'[k].items = jobs[k].items /\ jobs'[k].by = jobs[k].by
           /\ \A v \in Workers : \A k \in Len(jobs) + 1 .. Len(jobs') : ~Submit(v) => jobs'[k].by # v
<1>1. jobs \in Seq(Job) /\ Len(jobs) \in Nat
    BY DEF TypeInv, JobTypes
<1>2. CASE jobs' = jobs
    BY <1>1, <1>2
<1>3. ASSUME NEW w \in Workers, Submit(w), jobs' # jobs
      PROVE  /\ Len(jobs') \in Nat
             /\ \A k \in 1 .. Len(jobs) : k \in 1 .. Len(jobs') /\ jobs'[k] = jobs[k]
             /\ \A k \in Len(jobs) + 1 .. Len(jobs') : jobs'[k].by = w
    <2> DEFINE job == [by |-> w, items |-> todo[w], status |-> "pending", answers |-> {}]
    <2>1. jobs' = Append(jobs, job) /\ job.by = w
        BY <1>3 DEF Submit
    <2> HIDE DEF job
    <2>2. Len(jobs') = Len(jobs) + 1 /\ jobs'[Len(jobs) + 1] = job
          /\ \A k \in 1 .. Len(jobs) : jobs'[k] = jobs[k]
        BY <1>1, <2>1
    <2>3. \A k \in Len(jobs) + 1 .. Len(jobs') : k = Len(jobs) + 1
        BY <1>1, <2>2
    <2>4. \A k \in 1 .. Len(jobs) : k \in 1 .. Len(jobs')
        BY <1>1, <2>2
    <2> QED BY <1>1, <2>1, <2>2, <2>3, <2>4
<1>4. ASSUME NEW j \in 1 .. Len(jobs), JobEnds(j)
      PROVE  /\ Len(jobs') = Len(jobs)
             /\ \A k \in 1 .. Len(jobs) : jobs'[k].items = jobs[k].items /\ jobs'[k].by = jobs[k].by
    BY <1>4, EndedJob
<1>5. \/ jobs' = jobs
      \/ \E w \in Workers : Submit(w)
      \/ \E j \in 1 .. Len(jobs) : JobEnds(j)
    <2>1. ASSUME NEW r \in Requests, HandlerStep(r) \/ HandlerDies(r) PROVE jobs' = jobs
        BY <2>1 DEF HandlerStep, HandlerDies, AnswerNow, RecordOwner, CheckBacklog, RegisterStream,
              Accumulate, ForgetOwner, jobVars
    <2>2. ASSUME NEW w \in Workers, ConsumerStep(w), ~Submit(w) PROVE jobs' = jobs
        BY <2>2 DEF ConsumerStep, Read, RecordJob, CallEnds, Store, AddCost, Ack, Delete, SweepClaim,
              JudgeCompleted, JudgeDeliveries, SweepJudged, jobVars
    <2>3. ASSUME NEW w \in Workers, Hold(w) \/ Crash(w) \/ PollerStep(w) PROVE jobs' = jobs
        BY <2>3 DEF Hold, Crash, PollerStep, PollStart, PollJob, PollStore, PollCost, PollDrop, PollEnd, jobVars
    <2>4. ASSUME Tick \/ Stall \/ UNCHANGED vars PROVE jobs' = jobs
        BY <2>4 DEF Tick, Stall, vars, jobVars
    <2> QED BY <2>1, <2>2, <2>3, <2>4 DEF Next
<1>6. ASSUME NEW v \in Workers, NEW w \in Workers, Submit(w), ~Submit(v) PROVE v # w
    BY <1>6
<1>7. CASE \E w \in Workers : Submit(w) /\ jobs' # jobs
    <2>1. PICK w \in Workers : Submit(w) /\ jobs' # jobs
        BY <1>7
    <2>2. \A v \in Workers : \A k \in Len(jobs) + 1 .. Len(jobs') : ~Submit(v) => jobs'[k].by # v
        <3> SUFFICES ASSUME NEW v \in Workers, NEW k \in Len(jobs) + 1 .. Len(jobs'), ~Submit(v)
                     PROVE  jobs'[k].by # v
            OBVIOUS
        <3> QED BY <1>3, <1>6, <2>1
    <2> QED BY <1>1, <1>3, <2>1, <2>2
<1>8. CASE \E j \in 1 .. Len(jobs) : JobEnds(j)
    <2>1. Len(jobs') = Len(jobs)
          /\ \A k \in 1 .. Len(jobs) : jobs'[k].items = jobs[k].items /\ jobs'[k].by = jobs[k].by
        BY <1>4, <1>8
    <2>2. Len(jobs) + 1 .. Len(jobs') = {}
        BY <1>1, <2>1
    <2> QED BY <1>1, <2>1, <2>2
<1> QED BY <1>2, <1>5, <1>7, <1>8

(* A worker that does nothing stays as safe as it was, whatever the others do. *)
LEMMA BystanderSafe ==
    ASSUME TypeInv, SafeShape, [Next]_vars, NEW w \in Workers
    PROVE  /\ at'[w] = at[w] /\ todo'[w] = todo[w] /\ mine'[w] = mine[w] /\ settled'[w] \subseteq settled[w]
              /\ (at[w] # "record" \/ ~Submit(w)) => ConsumerSafe(w)'
           /\ pat'[w] = pat[w] /\ pjob'[w] = pjob[w] /\ ptodo'[w] = ptodo[w] => PollerSafe(w)'
<1>1. mine[w] \subseteq given /\ todo[w] \subseteq given /\ settled[w] \subseteq given
      /\ ptodo[w] \subseteq given /\ Len(log) \in Nat
      /\ (at[w] \in {"submit", "call", "store", "cost", "judge2"} => todo[w] # {})
      /\ (pat[w] = "cost" => ptodo[w] # {})
      /\ (pat[w] \in {"store", "cost"} => pjob[w] \in 1 .. Len(jobs))
      /\ \A j \in 1 .. Len(jobs) : jobs[j].items \subseteq given
    BY DEF TypeInv, ConsumerTypes, PollerTypes, JobTypes, StreamTypes
<1>2. \A e \in given : Safe(e) => Safe(e)'
    BY SafeStays
<1>3. ASSUME at'[w] = at[w], todo'[w] = todo[w], mine'[w] = mine[w], settled'[w] \subseteq settled[w],
             at[w] # "record" \/ ~Submit(w)
      PROVE  ConsumerSafe(w)'
    <2>0. ConsumerSafe(w)
        BY DEF SafeShape
    <2>1. at'[w] = "cost" => Safe(Item(w))'
        <3>1. at[w] = "cost" => Item(w) \in given /\ Safe(Item(w))
            BY <1>1, <2>0, ItemIsRead DEF ConsumerSafe
        <3>2. Item(w)' = Item(w)
            BY <1>3 DEF Item
        <3>3. \A e \in given : Item(w)' = e /\ Safe(e)' => Safe(Item(w))'
            BY DEF Safe, InAJob
        <3> QED BY <1>2, <1>3, <3>1, <3>2, <3>3
    <2>2. at'[w] = "record" => \E j \in 1 .. Len(jobs') : LastJob(w, j)' /\ jobs'[j].items = mine'[w]
        <3> SUFFICES ASSUME at[w] = "record" PROVE \E j \in 1 .. Len(jobs') : LastJob(w, j)' /\ jobs'[j].items = mine'[w]
            BY <1>3
        <3>1. PICK j \in 1 .. Len(jobs) : LastJob(w, j) /\ jobs[j].items = mine[w]
            BY <2>0 DEF ConsumerSafe
        <3>2. \A k \in j + 1 .. Len(jobs') : jobs'[k].by # w
            <4> SUFFICES ASSUME NEW k \in j + 1 .. Len(jobs') PROVE jobs'[k].by # w
                OBVIOUS
            <4>1. Len(jobs) \in Nat /\ Len(jobs') \in Nat
                BY JobsMove
            <4>2. k \in j + 1 .. Len(jobs) \/ k \in Len(jobs) + 1 .. Len(jobs')
                BY <4>1
            <4>3. CASE k \in j + 1 .. Len(jobs)
                <5>1. k \in 1 .. Len(jobs) /\ jobs[k].by # w
                    BY <3>1, <4>1, <4>3 DEF LastJob
                <5> QED BY <5>1, JobsMove
            <4>4. CASE k \in Len(jobs) + 1 .. Len(jobs')
                BY <1>3, <4>4, JobsMove
            <4> QED BY <4>2, <4>3, <4>4
        <3>3. j \in 1 .. Len(jobs') /\ jobs'[j].items = mine'[w] /\ jobs'[j].by = w
            BY <1>3, <3>1, JobsMove DEF LastJob
        <3>4. LastJob(w, j)'
            BY <3>2, <3>3 DEF LastJob
        <3> QED BY <3>3, <3>4
    <2>3. /\ at'[w] = "ack" => \A e \in mine'[w] : Safe(e)'
          /\ at'[w] \in {"call", "store", "cost"} => \A e \in mine'[w] : e \in todo'[w] \/ Safe(e)'
          /\ at'[w] = "submit" => todo'[w] = mine'[w]
          /\ \A e \in settled'[w] : Safe(e)'
        BY <1>1, <1>2, <1>3, <2>0 DEF ConsumerSafe
    <2> QED BY <2>1, <2>2, <2>3 DEF ConsumerSafe
<1>4. ASSUME pat'[w] = pat[w], pjob'[w] = pjob[w], ptodo'[w] = ptodo[w]
      PROVE  PollerSafe(w)'
    <2>0. PollerSafe(w)
        BY DEF SafeShape
    <2>1. \A e \in given : result[log[e]] # "none" => result'[log'[e]] # "none"
        <3> SUFFICES ASSUME NEW e \in given, result[log[e]] # "none" PROVE result'[log'[e]] # "none"
            OBVIOUS
        <3>1. log'[e] = log[e] /\ log[e] \in Requests
            BY LogGrows DEF TypeInv, StreamTypes
        <3> QED BY <3>1, ResultsStay
    <2>2. pat'[w] = "cost" => result'[log'[PItem(w)']] # "none"
        <3>1. pat[w] = "cost" => PItem(w) \in given /\ result[log[PItem(w)]] # "none"
            BY <1>1, <2>0, PItemIsRead DEF PollerSafe
        <3>2. PItem(w)' = PItem(w)
            BY <1>4 DEF PItem
        <3> QED BY <1>4, <2>1, <3>1, <3>2
    <2>3. pat'[w] \in {"store", "cost"} =>
            \A e \in jobs'[pjob'[w]].items : e \in ptodo'[w] \/ result'[log'[e]] # "none"
        <3> SUFFICES ASSUME pat[w] \in {"store", "cost"}, NEW e \in jobs'[pjob'[w]].items
                     PROVE  e \in ptodo'[w] \/ result'[log'[e]] # "none"
            BY <1>4
        <3>1. pjob[w] \in 1 .. Len(jobs) /\ jobs'[pjob[w]].items = jobs[pjob[w]].items
            BY <1>1, JobsMove
        <3>2. e \in jobs[pjob[w]].items /\ e \in given
            BY <1>1, <1>4, <3>1
        <3> QED BY <1>4, <2>0, <2>1, <3>2 DEF PollerSafe
    <2> QED BY <2>2, <2>3 DEF PollerSafe
<1> QED BY <1>3, <1>4

(* A flush starts with everything still to do, and rest holds nothing. *)
LEMMA FlushIsSafe ==
    ASSUME TypeInv, NEW w \in Workers, NEW items, NEW rest, StartFlush(w, items, rest) \/ Rest(w)
    PROVE  /\ ConsumerSafe(w)'
           /\ \A v \in Workers : v # w => /\ at'[v] = at[v] /\ todo'[v] = todo[v]
                                          /\ mine'[v] = mine[v] /\ settled'[v] = settled[v]
<1>1. at \in [Workers -> Phases] /\ todo \in [Workers -> SUBSET given]
      /\ mine \in [Workers -> SUBSET given] /\ settled \in [Workers -> SUBSET given]
    BY DEF TypeInv, ConsumerTypes
<1>2. /\ \A v \in Workers : v # w => /\ at'[v] = at[v] /\ todo'[v] = todo[v]
                                     /\ mine'[v] = mine[v] /\ settled'[v] = settled[v]
      /\ at'[w] \in {"submit", "call", "idle"} /\ todo'[w] = mine'[w] /\ settled'[w] = {}
    BY <1>1 DEF StartFlush, Rest
<1> QED BY <1>2 DEF ConsumerSafe

(* What is stored is a result. *)
LEMMA StoredIsSafe ==
    ASSUME TypeInv, NEW e \in given, NEW s \in {"completed", "failed"},
           StoreOrLose(log[e], s), ~Fault("store"), log' = log
    PROVE  Safe(e)' /\ result'[log[e]] # "none"
<1>1. log[e] \in Requests /\ result \in [Requests -> {"none", "failed", "completed"}]
    <2>1. e \in 1 .. Len(log)
        BY ReadEntries
    <2> QED BY <2>1, StreamsAre DEF TypeInv, ResultTypes
<1>2. StoreResult(log[e], s)
    BY DEF StoreOrLose
<1>3. result'[log[e]] # "none"
    BY <1>1, <1>2 DEF StoreResult
<1> QED BY <1>3 DEF Safe

(* The entry at hand is dealt with: the next one is called, or all of them acknowledged. *)
LEMMA ItemIsSafe ==
    ASSUME TypeInv, SafeShape, [Next]_vars, NEW w \in Workers, at[w] \in {"store", "cost"},
           NEW i, i = Item(w), Safe(i)', at' = [at EXCEPT ![w] = AfterItem(w)],
           todo' = [todo EXCEPT ![w] = @ \ {Item(w)}], mine' = mine, settled' = settled
    PROVE  ConsumerSafe(w)'
<1>1. /\ at'[w] = AfterItem(w) /\ todo'[w] = todo[w] \ {i} /\ mine'[w] = mine[w] /\ settled'[w] = settled[w]
      /\ mine[w] \subseteq given /\ settled[w] \subseteq given
    BY DEF TypeInv, ConsumerTypes
<1>2. \A e \in given : Safe(e) => Safe(e)'
    BY SafeStays
<1>3. \A e \in mine[w] : e \in todo[w] \/ Safe(e)
    BY DEF SafeShape, ConsumerSafe
<1>4. \A e \in settled[w] : Safe(e)'
    BY <1>1, <1>2 DEF SafeShape, ConsumerSafe
<1>5. \A e \in mine[w] : e \in todo'[w] \/ Safe(e)'
    BY <1>1, <1>2, <1>3
<1>6. at'[w] = "ack" => todo'[w] = {}
    BY <1>1 DEF AfterItem
<1>7. at'[w] \in {"ack", "call"}
    BY <1>1 DEF AfterItem
<1> QED BY <1>1, <1>4, <1>5, <1>6, <1>7 DEF ConsumerSafe

(* Every step keeps what is queued pending or safe. *)
LEMMA SafeKeeps ==
    ASSUME TypeInv, SafeInv, [Next]_vars
    PROVE  SafeInv'
<1> SUFFICES ASSUME ~SomethingLost' PROVE SafeShape'
    BY DEF SafeInv
<1>1. ~SomethingLost /\ ~Fault("store") /\ ~Fault("record") /\ SafeShape
    BY LostBefore DEF SafeInv
<1>0. /\ at \in [Workers -> Phases] /\ todo \in [Workers -> SUBSET given]
      /\ mine \in [Workers -> SUBSET given] /\ settled \in [Workers -> SUBSET given]
      /\ (\A w \in Workers : at[w] \in {"submit", "call", "store", "cost", "judge2"} => todo[w] # {})
      /\ (\A w \in Workers : at[w] = "store" => out[w] # "none")
      /\ out \in [Workers -> {"none", "completed", "failed"}]
      /\ pat \in [Workers -> {"idle", "look", "store", "cost"}] /\ pjob \in [Workers -> 0 .. Len(jobs)]
      /\ ptodo \in [Workers -> SUBSET given] /\ plist \in [Workers -> SUBSET (1 .. Len(jobs))]
      /\ deliveries \in [Entries -> Nat] /\ given \subseteq Entries
    BY ReadEntries DEF TypeInv, ConsumerTypes, PollerTypes, PendingTypes
<1>2. \A e \in given : Safe(e) => Safe(e)'
    BY <1>1, SafeStays
<1> DEFINE Listed == \A r \in Requests : pc[r] = "queued" => \E e \in 1 .. Len(log) : log[e] = r
           Kept == \A e \in given : deliveries[e] > 0 \/ Safe(e)
<1>3. Listed /\ Kept /\ (\A w \in Workers : ConsumerSafe(w)) /\ (\A w \in Workers : PollerSafe(w))
    BY <1>1 DEF SafeShape
\* Queued requests are in the log.
<1>4. Listed'
    <2>1. CASE UNCHANGED <<pc, log>>
        BY <1>3, <2>1
    <2>2. ASSUME NEW r \in Requests, HandlerStep(r) \/ HandlerDies(r) PROVE Listed'
        <3>1. log \in Seq(Requests) /\ Len(log) \in Nat /\ pc \in [Requests -> {"arrived", "owned", "checked",
                 "registered", "queued", "refused", "sync", "gone"}]
            BY DEF TypeInv, StreamTypes, RequestTypes
        <3>2. \A s \in Requests : s # r => pc'[s] = pc[s]
            BY <2>2, <3>1 DEF HandlerStep, HandlerDies, AnswerNow, RecordOwner, CheckBacklog, RegisterStream,
                  Accumulate, ForgetOwner, Goto
        <3>3. pc'[r] = "queued" => log' = Append(log, r)
            BY <2>2, <3>1 DEF HandlerStep, HandlerDies, AnswerNow, RecordOwner, CheckBacklog, RegisterStream,
                  Accumulate, ForgetOwner, Goto
        <3>4. pc'[r] = "queued" => \E e \in 1 .. Len(log') : log'[e] = r
            BY <3>1, <3>3
        <3>5. ASSUME NEW s \in Requests, s # r, pc'[s] = "queued" PROVE \E e \in 1 .. Len(log') : log'[e] = s
            <4>1. PICK e \in 1 .. Len(log) : log[e] = s
                BY <1>3, <3>2, <3>5
            <4> QED BY <4>1, LogGrows
        <3> QED BY <3>4, <3>5
    <2> QED BY <2>1, <2>2, RequestsMove
<1> HIDE DEF Listed
\* Entries read are pending or safe.
<1>5. ASSUME given' = given, \A e \in given : deliveries[e] > 0 => deliveries'[e] > 0
      PROVE  Kept'
    BY <1>2, <1>3, <1>5
<1>6. Kept'
    <2>1. CASE UNCHANGED <<given, deliveries>>
        BY <1>5, <2>1
    <2>2. ASSUME NEW w \in Workers, Read(w) PROVE Kept'
        <3>1. PICK new, items :
              /\ new \subseteq Entries /\ given' = given \cup new
              /\ deliveries' = [e \in Entries |-> IF e \in new THEN 1 ELSE deliveries[e]]
            BY <2>2, ReadGives
        <3>2. \A e \in given' : deliveries'[e] = 1 \/ (e \in given /\ deliveries'[e] = deliveries[e])
            BY <1>0, <3>1
        <3> QED BY <1>2, <1>3, <3>2
    <2>3. ASSUME NEW w \in Workers, SweepClaim(w) PROVE Kept'
        <3>1. PICK s \in registered :
              /\ given' = given
              /\ deliveries' = [e \in Entries |-> IF e \in StaleEntries(s) THEN deliveries[e] + 1 ELSE deliveries[e]]
            BY <2>3 DEF SweepClaim, streamVars
        <3> DEFINE stale == StaleEntries(s)
        <3>3. deliveries' = [e \in Entries |-> IF e \in stale THEN deliveries[e] + 1 ELSE deliveries[e]]
            BY <3>1
        <3> HIDE DEF stale
        <3>2. \A e \in given : deliveries[e] \in Nat /\ (deliveries'[e] = deliveries[e] \/ deliveries'[e] = deliveries[e] + 1)
            BY <1>0, <3>3
        <3> QED BY <1>5, <3>1, <3>2
    <2>4. ASSUME NEW w \in Workers, Ack(w) PROVE Kept'
        <3>1. at[w] = "ack" /\ given' = given
            BY <2>4 DEF Ack, streamVars
        <3>2. CASE deliveries' = [e \in Entries |-> IF e \in mine[w] THEN 0 ELSE deliveries[e]]
            <4>1. \A e \in mine[w] : Safe(e)
                BY <1>3, <3>1 DEF ConsumerSafe
            <4>2. \A e \in given : e \in mine[w] \/ deliveries'[e] = deliveries[e]
                BY <1>0, <3>2
            <4> QED BY <1>2, <1>3, <3>1, <4>1, <4>2
        <3>3. CASE deliveries' = deliveries
            BY <1>5, <3>1, <3>3
        <3> QED BY <2>4, <3>2, <3>3 DEF Ack
    <2>5. ASSUME NEW w \in Workers, ConsumerStep(w), ~Read(w), ~SweepClaim(w), ~Ack(w) PROVE UNCHANGED <<given, deliveries>>
        BY <2>5 DEF ConsumerStep, Submit, RecordJob, CallEnds, Store, AddCost, Delete,
              JudgeCompleted, JudgeDeliveries, SweepJudged, streamVars, pelVars
    <2>6. ASSUME NEW w \in Workers, Hold(w) \/ Crash(w) \/ PollerStep(w) PROVE UNCHANGED <<given, deliveries>>
        BY <2>6 DEF Hold, Crash, PollerStep, PollStart, PollJob, PollStore, PollCost, PollDrop, PollEnd, streamVars, pelVars
    <2>7. ASSUME NEW r \in Requests, HandlerStep(r) \/ HandlerDies(r) PROVE UNCHANGED <<given, deliveries>>
        BY <2>7 DEF HandlerStep, HandlerDies, AnswerNow, RecordOwner, CheckBacklog, RegisterStream,
              Accumulate, ForgetOwner, streamVars, pelVars
    <2>8. ASSUME Tick \/ Stall \/ (\E j \in 1 .. Len(jobs) : JobEnds(j)) \/ UNCHANGED vars PROVE UNCHANGED <<given, deliveries>>
        BY <2>8 DEF Tick, Stall, JobEnds, vars, streamVars, pelVars
    <2> HIDE DEF Kept
    <2> QED BY <2>1, <2>2, <2>3, <2>4, <2>5, <2>6, <2>7, <2>8 DEF Next
<1> HIDE DEF Kept
\* The consumers.
<1>7. ASSUME NEW v \in Workers, at'[v] = at[v], todo'[v] = todo[v], mine'[v] = mine[v],
             settled'[v] \subseteq settled[v], at[v] # "record" \/ ~Submit(v)
      PROVE  ConsumerSafe(v)'
    BY <1>1, <1>7, BystanderSafe
<1>8. ASSUME NEW w \in Workers, ConsumerStep(w)
      PROVE  /\ ConsumerSafe(w)'
             /\ \A v \in Workers : v # w => /\ at'[v] = at[v] /\ todo'[v] = todo[v]
                                            /\ mine'[v] = mine[v] /\ settled'[v] = settled[v] /\ ~Submit(v)
    <2> DEFINE Others == \A v \in Workers : v # w => /\ at'[v] = at[v] /\ todo'[v] = todo[v]
                                            /\ mine'[v] = mine[v] /\ settled'[v] = settled[v]
    <2>0. \A v \in Workers : at'[v] = at[v] => ~Submit(v)
        BY <1>0 DEF Submit
    <2>1. CASE \E items, rest : StartFlush(w, items, rest) \/ Rest(w)
        BY <2>0, <2>1, FlushIsSafe
    <2>14. Proceed(w) => \E items, rest : StartFlush(w, items, rest) \/ Rest(w)
        BY DEF Proceed
    <2>2. CASE Read(w)
        BY <2>1, <2>2, ReadGives
    <2>3. CASE Submit(w)
        <3>1. /\ at[w] = "submit" /\ UNCHANGED <<todo, mine, settled>>
              /\ \/ at' = [at EXCEPT ![w] = "record"] /\ jobs' = Append(jobs, [by |-> w, items |-> todo[w],
                                status |-> "pending", answers |-> {}])
                 \/ at' = [at EXCEPT ![w] = "call"]
            BY <2>3 DEF Submit
        <3>2. Others
            BY <1>0, <3>1
        <3>3. todo[w] = mine[w] /\ \A e \in settled[w] : Safe(e)'
            BY <1>0, <1>2, <1>3, <3>1 DEF ConsumerSafe
        <3>4. CASE at' = [at EXCEPT ![w] = "call"]
            BY <2>0, <1>0, <3>1, <3>3, <3>2, <3>4 DEF ConsumerSafe
        <3>5. CASE at' = [at EXCEPT ![w] = "record"] /\ jobs' = Append(jobs, [by |-> w, items |-> todo[w],
                                status |-> "pending", answers |-> {}])
            <4>1. jobs \in Seq(Job) /\ Len(jobs) \in Nat
                BY DEF TypeInv, JobTypes
            <4> DEFINE job == [by |-> w, items |-> todo[w], status |-> "pending", answers |-> {}]
                       n == Len(jobs) + 1
            <4>2. jobs' = Append(jobs, job) /\ job.by = w /\ job.items = todo[w]
                BY <3>5
            <4> HIDE DEF job
            <4>3. Len(jobs') = n /\ n \in 1 .. Len(jobs') /\ jobs'[n] = job /\ n + 1 .. Len(jobs') = {}
                BY <4>1, <4>2
            <4> HIDE DEF n
            <4>4. PICK j \in 1 .. Len(jobs') : j = n
                BY <4>3
            <4>5. LastJob(w, j)' /\ jobs'[j].items = mine'[w]
                BY <3>1, <3>3, <4>2, <4>3, <4>4 DEF LastJob
            <4>6. at'[w] = "record"
                BY <1>0, <3>5
            <4> QED BY <2>0, <3>1, <3>2, <3>3, <4>5, <4>6 DEF ConsumerSafe
        <3> QED BY <3>1, <3>4, <3>5
    <2>4. CASE RecordJob(w)
        <3>1. PICK j \in 1 .. Len(jobs) : LastJob(w, j) /\ recorded' = recorded \cup {j}
            BY <1>1, <2>4 DEF RecordJob, LastJob
        <3>2. /\ at[w] = "record" /\ at' = [at EXCEPT ![w] = "ack"] /\ todo' = [todo EXCEPT ![w] = {}]
              /\ UNCHANGED <<mine, settled, jobs>>
            BY <2>4 DEF RecordJob
        <3>3. PICK k \in 1 .. Len(jobs) : LastJob(w, k) /\ jobs[k].items = mine[w]
            BY <1>3, <3>2 DEF ConsumerSafe
        <3>4. j = k
            <4>1. Len(jobs) \in Nat
                BY DEF TypeInv, JobTypes
            <4>2. ~(j \in k + 1 .. Len(jobs)) /\ ~(k \in j + 1 .. Len(jobs))
                BY <3>1, <3>3 DEF LastJob
            <4> QED BY <4>1, <4>2
        <3>5. \A e \in mine[w] : Safe(e)'
            BY <3>1, <3>2, <3>3, <3>4 DEF Safe, InAJob
        <3>6. \A e \in settled[w] : Safe(e)'
            BY <1>0, <1>2, <1>3 DEF ConsumerSafe
        <3>7. at'[w] = "ack" /\ mine'[w] = mine[w] /\ settled'[w] = settled[w] /\ Others
            BY <1>0, <3>2
        <3> QED BY <2>0, <3>5, <3>6, <3>7 DEF ConsumerSafe
    <2>5. CASE CallEnds(w)
        <3>1. at[w] = "call" /\ at' = [at EXCEPT ![w] = "store"] /\ UNCHANGED <<todo, mine, settled>>
            BY <2>5 DEF CallEnds
        <3>2. Others /\ at'[w] = "store" /\ todo'[w] = todo[w] /\ mine'[w] = mine[w] /\ settled'[w] = settled[w]
            BY <1>0, <3>1
        <3>3. (\A e \in mine[w] : e \in todo[w] \/ Safe(e)') /\ \A e \in settled[w] : Safe(e)'
            BY <1>0, <1>2, <1>3, <3>1 DEF ConsumerSafe
        <3> QED BY <2>0, <3>2, <3>3 DEF ConsumerSafe
    <2>6. CASE Store(w)
        <3>1. at[w] = "store" /\ StoreOrLose(log[Item(w)], out[w]) /\ UNCHANGED <<mine, settled, log>> /\ AfterStore(w)
            BY <2>6 DEF Store, streamVars
        <3>2. PICK i : i = Item(w)
            OBVIOUS
        <3>3. i \in given
            BY <1>0, <3>1, <3>2, ItemIsRead
        <3>4. Safe(i)'
            BY <1>0, <1>1, <3>1, <3>2, <3>3, StoredIsSafe
        <3>5. CASE at' = [at EXCEPT ![w] = "cost"] /\ UNCHANGED todo
            <4>1. Others /\ at'[w] = "cost" /\ todo'[w] = todo[w] /\ mine'[w] = mine[w] /\ settled'[w] = settled[w]
                BY <1>0, <3>1, <3>5
            <4>2. (\A e \in mine[w] : e \in todo[w] \/ Safe(e)') /\ \A e \in settled[w] : Safe(e)'
                BY <1>0, <1>2, <1>3, <3>1 DEF ConsumerSafe
            <4>3. Item(w)' = i
                BY <3>2, <3>5 DEF Item
            <4>4. Safe(Item(w))'
                BY <3>4, <4>3 DEF Safe, InAJob
            <4> QED BY <2>0, <4>1, <4>2, <4>4 DEF ConsumerSafe
        <3>6. CASE at' = [at EXCEPT ![w] = AfterItem(w)] /\ todo' = [todo EXCEPT ![w] = @ \ {Item(w)}]
            <4>1. Others
                BY <1>0, <3>1, <3>6
            <4>2. ConsumerSafe(w)'
                BY <1>1, <3>1, <3>2, <3>4, <3>6, ItemIsSafe
            <4> QED BY <2>0, <4>1, <4>2
        <3> QED BY <3>1, <3>5, <3>6 DEF AfterStore
    <2>7. CASE AddCost(w)
        <3>1. /\ at[w] = "cost" /\ UNCHANGED <<mine, settled>> /\ at' = [at EXCEPT ![w] = AfterItem(w)]
              /\ todo' = [todo EXCEPT ![w] = @ \ {Item(w)}]
            BY <2>7 DEF AddCost
        <3>2. PICK i : i = Item(w)
            OBVIOUS
        <3>3. i \in given /\ Safe(i)
            BY <1>0, <1>3, <3>1, <3>2, ItemIsRead DEF ConsumerSafe
        <3>4. Safe(i)'
            BY <1>2, <3>3
        <3>5. ConsumerSafe(w)'
            BY <1>1, <3>1, <3>2, <3>4, ItemIsSafe
        <3>6. Others
            BY <1>0, <3>1
        <3> QED BY <2>0, <3>5, <3>6
    <2>8. CASE Ack(w)
        <3>1. CASE at' = [at EXCEPT ![w] = "del"] /\ UNCHANGED <<todo, mine, settled>>
            <4>1. \A e \in settled[w] : Safe(e)'
                BY <1>0, <1>2, <1>3 DEF ConsumerSafe
            <4> QED BY <1>0, <2>0, <3>1, <4>1 DEF ConsumerSafe
        <3> QED BY <2>1, <2>8, <2>14, <3>1 DEF Ack
    <2>9. CASE Delete(w)
        BY <2>1, <2>9, <2>14 DEF Delete
    <2>10. CASE SweepClaim(w)
        <3>1. PICK stale : /\ at' = [at EXCEPT ![w] = "judge"] /\ todo' = [todo EXCEPT ![w] = stale]
                           /\ UNCHANGED <<mine, settled>>
            BY <2>10 DEF SweepClaim
        <3>2. \A e \in settled[w] : Safe(e)'
            BY <1>0, <1>2, <1>3 DEF ConsumerSafe
        <3> QED BY <1>0, <2>0, <3>1, <3>2 DEF ConsumerSafe
    <2>11. CASE JudgeCompleted(w)
        <3>1. PICK i : i = Item(w)
            OBVIOUS
        <3>2. /\ at[w] = "judge" /\ todo[w] # {} /\ UNCHANGED <<mine, result, log>>
              /\ \/ result[log[i]] = "completed" /\ settled' = [settled EXCEPT ![w] = @ \cup {i}]
                    /\ todo' = [todo EXCEPT ![w] = @ \ {i}] /\ at' = at
                 \/ at' = [at EXCEPT ![w] = "judge2"] /\ UNCHANGED <<settled, todo>>
            BY <2>11, <3>1 DEF JudgeCompleted, Completed, streamVars, resVars
        <3>3. Others /\ at'[w] \in {"judge", "judge2"}
            BY <1>0, <3>2
        <3>4. \A e \in settled[w] : Safe(e)'
            BY <1>0, <1>2, <1>3 DEF ConsumerSafe
        <3>5. result[log[i]] = "completed" => Safe(i)'
            BY <3>2 DEF Safe
        <3>6. \A e \in settled'[w] : e \in settled[w] \/ (e = i /\ result[log[i]] = "completed")
            BY <1>0, <3>2
        <3>7. \A e \in settled'[w] : Safe(e)'
            BY <3>4, <3>5, <3>6
        <3> QED BY <2>0, <3>3, <3>7 DEF ConsumerSafe
    <2>12. CASE JudgeDeliveries(w)
        <3>1. PICK i : i = Item(w)
            OBVIOUS
        <3>2. CASE Rest(w)
            BY <2>1, <3>2
        <3>3. CASE ~Rest(w)
            <4>1. /\ at[w] = "judge2" /\ UNCHANGED <<mine, log>> /\ at' = [at EXCEPT ![w] = "judge"]
                  /\ todo' = [todo EXCEPT ![w] = @ \ {i}]
                  /\ \/ settled' = settled
                     \/ StoreOrLose(log[i], "failed") /\ settled' = [settled EXCEPT ![w] = @ \cup {i}]
                BY <2>12, <3>1, <3>3 DEF JudgeDeliveries, streamVars
            <4>2. i \in given
                BY <1>0, <3>1, <4>1, ItemIsRead
            <4>3. Others /\ at'[w] = "judge"
                BY <1>0, <4>1
            <4>4. \A e \in settled[w] : Safe(e)'
                BY <1>0, <1>2, <1>3 DEF ConsumerSafe
            <4>5. StoreOrLose(log[i], "failed") => Safe(i)'
                BY <1>1, <4>1, <4>2, StoredIsSafe
            <4>6. \A e \in settled'[w] : e \in settled[w] \/ (e = i /\ StoreOrLose(log[i], "failed"))
                BY <1>0, <4>1
            <4>7. \A e \in settled'[w] : Safe(e)'
                BY <4>4, <4>5, <4>6
            <4> QED BY <2>0, <4>3, <4>7 DEF ConsumerSafe
        <3> QED BY <3>2, <3>3
    <2>13. CASE SweepJudged(w)
        <3>1. CASE at' = [at EXCEPT ![w] = "ack"] /\ mine' = [mine EXCEPT ![w] = settled[w]] /\ UNCHANGED <<todo, settled>>
            <4>1. \A e \in settled[w] : Safe(e)'
                BY <1>0, <1>2, <1>3 DEF ConsumerSafe
            <4> QED BY <1>0, <2>0, <3>1, <4>1 DEF ConsumerSafe
        <3> QED BY <2>1, <2>13, <3>1 DEF SweepJudged
    <2> QED BY <1>8, <2>0, <2>2, <2>3, <2>4, <2>5, <2>6, <2>7, <2>8, <2>9, <2>10, <2>11, <2>12, <2>13 DEF ConsumerStep
<1>9. \A v \in Workers : ConsumerSafe(v)'
    <2> SUFFICES ASSUME NEW v \in Workers PROVE ConsumerSafe(v)'
        OBVIOUS
    <2>1. ASSUME NEW w \in Workers, ConsumerStep(w) PROVE ConsumerSafe(v)'
        <3>1. CASE v = w
            BY <1>8, <2>1, <3>1
        <3>2. CASE v # w
            <4>1. /\ at'[v] = at[v] /\ todo'[v] = todo[v] /\ mine'[v] = mine[v] /\ settled'[v] = settled[v] /\ ~Submit(v)
                BY <1>8, <2>1, <3>2
            <4> QED BY <1>7, <4>1
        <3> QED BY <3>1, <3>2
    <2>2. ASSUME UNCHANGED <<at, todo, mine, settled>> PROVE ConsumerSafe(v)'
        <3>1. ~Submit(v)
            BY <1>0, <2>2 DEF Submit
        <3> QED BY <1>7, <2>2, <3>1
    <2>3. ASSUME NEW w \in Workers, Crash(w) PROVE ConsumerSafe(v)'
        <3>1. Rest(w) /\ UNCHANGED jobs
            BY <2>3 DEF Crash, jobVars
        <3>2. ConsumerSafe(w)' /\ (v # w => at'[v] = at[v] /\ todo'[v] = todo[v] /\ mine'[v] = mine[v] /\ settled'[v] = settled[v])
            BY <3>1, FlushIsSafe
        <3>3. at'[v] = at[v] => ~Submit(v)
            BY <1>0 DEF Submit
        <3> QED BY <1>7, <3>2, <3>3
    <2>4. ASSUME NEW w \in Workers, Hold(w) \/ PollerStep(w) PROVE UNCHANGED <<at, todo, mine, settled>>
        BY <2>4 DEF Hold, PollerStep, PollStart, PollJob, PollStore, PollCost, PollDrop, PollEnd, consVars
    <2>5. ASSUME NEW r \in Requests, HandlerStep(r) \/ HandlerDies(r) PROVE UNCHANGED <<at, todo, mine, settled>>
        BY <2>5 DEF HandlerStep, HandlerDies, AnswerNow, RecordOwner, CheckBacklog, RegisterStream,
              Accumulate, ForgetOwner, consVars
    <2>6. ASSUME Tick \/ Stall \/ (\E j \in 1 .. Len(jobs) : JobEnds(j)) \/ UNCHANGED vars
          PROVE  UNCHANGED <<at, todo, mine, settled>>
        BY <2>6 DEF Tick, Stall, JobEnds, vars, consVars
    <2> QED BY <2>1, <2>2, <2>3, <2>4, <2>5, <2>6 DEF Next
\* The pollers.
<1>10. ASSUME NEW w \in Workers, PollerStep(w)
       PROVE  PollerSafe(w)' /\ \A v \in Workers : v # w => pat'[v] = pat[v] /\ pjob'[v] = pjob[v] /\ ptodo'[v] = ptodo[v]
    <2> DEFINE Others == \A v \in Workers : v # w => pat'[v] = pat[v] /\ pjob'[v] = pjob[v] /\ ptodo'[v] = ptodo[v]
    <2>1. ASSUME pat'[w] \in {"idle", "look"} PROVE PollerSafe(w)'
        BY <2>1 DEF PollerSafe
    <2>2. CASE PollStart(w) \/ PollEnd(w) \/ PollDrop(w)
        <3>1. Others /\ pat'[w] \in {"idle", "look"}
            BY <1>0, <2>2 DEF PollStart, PollEnd, PollDrop
        <3> QED BY <2>1, <3>1
    <2>3. CASE PollJob(w)
        <3>1. PICK j : j = First(plist[w])
            OBVIOUS
        <3>2. /\ pat[w] = "look" /\ UNCHANGED <<jobs>>
              /\ \/ UNCHANGED <<pat, pjob, ptodo>>
                 \/ /\ pat' = [pat EXCEPT ![w] = "store"] /\ pjob' = [pjob EXCEPT ![w] = j]
                    /\ ptodo' = [ptodo EXCEPT ![w] = jobs[j].items]
            BY <2>3, <3>1 DEF PollJob, jobVars
        <3>3. Others
            BY <1>0, <3>2
        <3>4. pat'[w] = "look" \/ (pat'[w] = "store" /\ ptodo'[w] = jobs'[pjob'[w]].items)
            BY <1>0, <3>2
        <3> QED BY <3>3, <3>4 DEF PollerSafe
    <2>4. CASE PollStore(w)
        <3>1. PICK i : i = PItem(w)
            OBVIOUS
        <3>2. pat[w] = "store" /\ ptodo[w] # {} /\ UNCHANGED <<log, jobs, pjob>>
              /\ \/ /\ StoreOrLose(log[i], "completed") /\ pat' = [pat EXCEPT ![w] = "cost"] /\ UNCHANGED ptodo
                 \/ /\ StoreOrLose(log[i], "failed") /\ ptodo' = [ptodo EXCEPT ![w] = @ \ {i}] /\ UNCHANGED pat
            BY <2>4, <3>1 DEF PollStore, jobVars, streamVars
        <3>3. i \in given
            BY <3>1, <3>2, PItemIsRead
        <3>4. result'[log[i]] # "none"
            BY <1>1, <3>2, <3>3, StoredIsSafe
        <3>5. Others
            BY <1>0, <3>2
        <3>6. \A e \in jobs[pjob[w]].items : e \in ptodo[w] \/ result[log[e]] # "none"
            BY <1>3, <3>2 DEF PollerSafe
        <3>7. pjob[w] \in 1 .. Len(jobs) /\ jobs[pjob[w]].items \subseteq given
            BY <3>2 DEF TypeInv, PollerTypes, JobTypes
        <3>8. \A e \in given : result[log[e]] # "none" => result'[log[e]] # "none"
            <4> SUFFICES ASSUME NEW e \in given, result[log[e]] # "none" PROVE result'[log[e]] # "none"
                OBVIOUS
            <4>1. log[e] \in Requests
                BY LogGrows DEF TypeInv, StreamTypes
            <4> QED BY <4>1, ResultsStay
        <3>9. \A e \in jobs[pjob[w]].items : (e \in ptodo[w] /\ e # i) \/ result'[log[e]] # "none"
            BY <3>4, <3>6, <3>7, <3>8
        <3>10. \A e \in ptodo[w] : e # i => e \in ptodo'[w]
            BY <1>0, <3>2
        <3>11. pat'[w] = "cost" => ptodo'[w] = ptodo[w]
            BY <1>0, <3>2
        <3>12. pat'[w] = "cost" => PItem(w)' = i
            BY <3>1, <3>11 DEF PItem
        <3> QED BY <3>2, <3>4, <3>5, <3>9, <3>10, <3>12 DEF PollerSafe
    <2>5. CASE PollCost(w)
        <3>1. PICK i : i = PItem(w)
            OBVIOUS
        <3>2. pat[w] = "cost" /\ UNCHANGED <<log, jobs, pjob, result>> /\ pat' = [pat EXCEPT ![w] = "store"]
              /\ ptodo' = [ptodo EXCEPT ![w] = @ \ {i}]
            BY <2>5, <3>1 DEF PollCost, jobVars, streamVars
        <3>3. result[log[i]] # "none" /\ \A e \in jobs[pjob[w]].items : e \in ptodo[w] \/ result[log[e]] # "none"
            BY <1>3, <3>1, <3>2 DEF PollerSafe
        <3>4. Others /\ pat'[w] = "store" /\ ptodo'[w] = ptodo[w] \ {i}
            BY <1>0, <3>2
        <3> QED BY <3>2, <3>3, <3>4 DEF PollerSafe
    <2> QED BY <1>10, <2>2, <2>3, <2>4, <2>5 DEF PollerStep
<1>11. \A v \in Workers : PollerSafe(v)'
    <2> SUFFICES ASSUME NEW v \in Workers PROVE PollerSafe(v)'
        OBVIOUS
    <2>1. ASSUME pat'[v] = pat[v], pjob'[v] = pjob[v], ptodo'[v] = ptodo[v] PROVE PollerSafe(v)'
        BY <1>1, <2>1, BystanderSafe
    <2>2. ASSUME NEW w \in Workers, PollerStep(w) PROVE PollerSafe(v)'
        BY <1>10, <2>1, <2>2
    <2>3. ASSUME NEW w \in Workers, Crash(w) PROVE PollerSafe(v)'
        <3>1. pat' = [pat EXCEPT ![w] = "idle"] /\ ptodo' = [ptodo EXCEPT ![w] = {}] /\ pjob' = pjob
            BY <2>3 DEF Crash
        <3>2. CASE v = w
            BY <1>0, <3>1, <3>2 DEF PollerSafe
        <3>3. CASE v # w
            BY <1>0, <2>1, <3>1, <3>3
        <3> QED BY <3>2, <3>3
    <2>4. ASSUME NEW w \in Workers, ConsumerStep(w) \/ Hold(w) PROVE UNCHANGED <<pat, pjob, ptodo>>
        BY <2>4 DEF ConsumerStep, Read, Submit, RecordJob, CallEnds, Store, AddCost, Ack, Delete, SweepClaim,
              JudgeCompleted, JudgeDeliveries, SweepJudged, Hold, pollVars
    <2>5. ASSUME NEW r \in Requests, HandlerStep(r) \/ HandlerDies(r) PROVE UNCHANGED <<pat, pjob, ptodo>>
        BY <2>5 DEF HandlerStep, HandlerDies, AnswerNow, RecordOwner, CheckBacklog, RegisterStream,
              Accumulate, ForgetOwner, pollVars
    <2>6. ASSUME Tick \/ Stall \/ (\E j \in 1 .. Len(jobs) : JobEnds(j)) \/ UNCHANGED vars
          PROVE  UNCHANGED <<pat, pjob, ptodo>>
        BY <2>6 DEF Tick, Stall, JobEnds, vars, pollVars
    <2> QED BY <2>1, <2>2, <2>3, <2>4, <2>5, <2>6 DEF Next
<1> QED BY <1>4, <1>6, <1>9, <1>11 DEF SafeShape, Listed, Kept

(* A request that got its 202 is never forgotten: it has a result, or its entry is unread,
   pending or in a recorded native job, whichever process dies and whatever Redis call fails
   except the two whose failure _store_batch_result and _record_batch_job swallow. *)
THEOREM NothingEverForgotten == Spec => []NothingForgotten
<1>1. Init => SafeInv
    <2> SUFFICES ASSUME Init PROVE SafeShape
        BY DEF SafeInv
    <2>1. TypeInv
        BY TypeStart
    <2>2. given = {}
        BY DEF Init
    <2>3. \A w \in Workers : ConsumerSafe(w) /\ PollerSafe(w)
        BY DEF Init, ConsumerSafe, PollerSafe
    <2> QED BY <2>2, <2>3 DEF Init, SafeShape
<1>2. TypeInv /\ SafeInv => NothingForgotten
    <2> SUFFICES ASSUME TypeInv, SafeShape, NEW r \in Requests, pc[r] = "queued", result[r] = "none"
                 PROVE  \E e \in 1 .. Len(log) : log[e] = r /\ (e \notin given \/ deliveries[e] > 0 \/ InAJob(e))
        BY DEF SafeInv, NothingForgotten
    <2>1. PICK e \in 1 .. Len(log) : log[e] = r
        BY DEF SafeShape
    <2>3. e \in given => deliveries[e] > 0 \/ InAJob(e)
        BY <2>1 DEF SafeShape, Safe
    <2> QED BY <2>1, <2>3
<1>3. TypeInv /\ SafeInv /\ [Next]_vars => SafeInv'
    BY SafeKeeps
<1> QED BY <1>1, <1>2, <1>3, TypeStart, TypeKeeps, PTL DEF Spec
=============================================================================
