---------------------------- MODULE SharedProofs ----------------------------
(***************************************************************************)
(* What requests share, for every value of the constants: that the          *)
(* settings in force are whole and recent enough (Settings), that the       *)
(* address compared with an allowlist is one a trusted party saw            *)
(* (ClientAddress), that a tool is judged afresh (ToolPruning), and that    *)
(* the cache serves an answer made for a request alike (ResponseCache).     *)
(* The four parts keep disjoint state and share nothing but this module.    *)
(***************************************************************************)
EXTENDS Settings, ClientAddress, ToolPruning, ResponseCache, SequenceTheorems, TLAPS

-----------------------------------------------------------------------------
(* Settings *)

Origins == {"base", "params"}
Config == [Sections -> SUBSET Origins]
Phase == {"idle", "asking", "read", "served"}
ReaderRec == [phase : Phase, asked : Nat, version : Nat, config : Config]

SettingsType ==
    /\ boots \in Nat /\ moment \in Nat
    /\ running \in Config
    /\ replaced \in Seq(Nat)
    /\ cached \in [version : Nat, expires : Nat]
    /\ reader \in [Readers -> ReaderRec]

(* Before the process runs no request does, and every request started from a
   configuration with the sections the process started with. *)
RunsWhole ==
    /\ boots = 0 => opened \subseteq Present(running)
    /\ \A q \in Readers : reader[q].phase # "idle" =>
          boots = 0 /\ opened \subseteq Present(reader[q].config)

(* An instant at which version v of the overrides was still in force, or later. *)
InForce(v, since) == v \in DOMAIN replaced => replaced[v] >= since

Fresh(r) ==
    /\ r.asked <= moment
    /\ r.phase \in {"read", "served"} => r.version <= Version
    /\ r.phase = "read" => InForce(r.version, r.asked)
    /\ r.phase = "served" => InForce(r.version, r.asked - CacheTtl + 1)

RowsFresh ==
    /\ cached.version <= Version
    /\ cached.expires <= moment + CacheTtl
    /\ InForce(cached.version, cached.expires - CacheTtl)
    /\ \A q \in Readers : Fresh(reader[q])

SettingsInv == SettingsType /\ RunsWhole /\ RowsFresh

(* The platform starts in it. *)
LEMMA SettingsStart == SettingsInit => SettingsInv
<1> SUFFICES ASSUME SettingsInit PROVE SettingsInv
    OBVIOUS
<1> USE SettingsAssumption DEF SettingsInit
<1>1. [s \in Sections |-> {}] \in Config
    BY DEF Config
<1>2. Idle \in ReaderRec
    BY <1>1 DEF Idle, ReaderRec, Phase, Config
<1>3. replaced = << >> /\ replaced \in Seq(Nat) /\ DOMAIN replaced = {} /\ Len(replaced) = 0
    OBVIOUS
<1>4. SettingsType
    BY <1>1, <1>2, <1>3 DEF SettingsType, NotCached
<1>5. RunsWhole
    BY DEF RunsWhole, Idle
<1>6. RowsFresh
    BY <1>3 DEF RowsFresh, Fresh, InForce, Idle, NotCached, Version
<1> QED BY <1>4, <1>5, <1>6 DEF SettingsInv

(* A step that leaves the rows, the clock and the requests alone, and with every request
   keeps the sections the process started with. *)
LEMMA FileMoves ==
    ASSUME SettingsInv, UNCHANGED <<rowVars, moment, reader>>, boots' \in Nat, running' \in Config,
           RunsWhole'
    PROVE  SettingsInv'
  BY SettingsAssumption DEF SettingsInv, SettingsType, RowsFresh, Fresh, InForce, Version, rowVars

(* A step of one request that leaves the rows alone. *)
LEMMA ReaderMoves ==
    ASSUME SettingsInv, NEW q \in Readers, NEW x \in ReaderRec, Fresh(x),
           boots = 0, opened \subseteq Present(x.config),
           reader' = [reader EXCEPT ![q] = x], UNCHANGED <<fileVars, rowVars, moment>>
    PROVE  SettingsInv'
<1>1. \A u \in Readers : reader'[u] = IF u = q THEN x ELSE reader[u]
    BY DEF SettingsInv, SettingsType
<1>2. UNCHANGED <<boots, running, opened, replaced, cached, moment>>
    BY DEF fileVars, rowVars
<1>3. SettingsType'
    BY <1>2 DEF SettingsInv, SettingsType
<1>4. RunsWhole'
    BY <1>1, <1>2 DEF SettingsInv, RunsWhole, Present
<1>5. \A u \in Readers : Fresh(reader[u])'
    BY <1>1, <1>2 DEF SettingsInv, RowsFresh, Fresh, InForce, Version
<1> QED BY <1>2, <1>3, <1>4, <1>5 DEF SettingsInv, RowsFresh, InForce, Version

(* A write of the overrides: the version that gives way does so now. *)
LEMMA WriteKeeps == SettingsInv /\ WriteOverrides => SettingsInv'
<1> SUFFICES ASSUME SettingsInv, WriteOverrides PROVE SettingsInv'
    OBVIOUS
<1> USE SettingsAssumption DEF SettingsInv, SettingsType
<1>1. replaced' = Append(replaced, moment) /\ UNCHANGED <<boots, running, opened, cached, moment, reader>>
    BY DEF WriteOverrides, fileVars
<1>2. replaced' \in Seq(Nat) /\ Len(replaced') = Len(replaced) + 1
    BY <1>1, AppendProperties
<1>3. \A v \in DOMAIN replaced' : (v \in DOMAIN replaced /\ replaced'[v] = replaced[v])
                                    \/ replaced'[v] = moment
    BY <1>1, AppendProperties
<1>4. \A v : \A i \in Int : InForce(v, i) /\ i <= moment => InForce(v, i)'
    BY <1>3 DEF InForce
<1>5. \A q \in Readers : Fresh(reader[q])'
    <2> SUFFICES ASSUME NEW q \in Readers PROVE Fresh(reader[q])'
        OBVIOUS
    <2>1. Fresh(reader[q]) /\ reader[q] \in ReaderRec /\ reader[q].asked \in Nat /\ reader[q].version \in Nat
        BY DEF RowsFresh, ReaderRec
    <2>2. reader[q].asked - CacheTtl + 1 <= moment
        BY <2>1 DEF Fresh
    <2> QED BY <1>1, <1>2, <1>4, <2>1, <2>2 DEF Fresh, Version
<1>6. RowsFresh'
    <2>1. InForce(cached.version, cached.expires - CacheTtl)'
        BY <1>1, <1>4 DEF RowsFresh
    <2> QED BY <1>1, <1>2, <1>5, <2>1 DEF RowsFresh, Version
<1> QED BY <1>1, <1>2, <1>6 DEF RunsWhole

(* The overrides' cache is emptied, or filled by the request that has read the row. *)
LEMMA CacheKeeps == SettingsInv /\ (Invalidate \/ Elapse) => SettingsInv'
<1> SUFFICES ASSUME SettingsInv, Invalidate \/ Elapse PROVE SettingsInv'
    OBVIOUS
<1> USE SettingsAssumption DEF SettingsInv, SettingsType
<1>1. 0 \notin DOMAIN replaced
    OBVIOUS
<1>2. UNCHANGED <<boots, running, opened, replaced, reader>>
    BY DEF Invalidate, Elapse, fileVars, rowVars
<1>3. /\ moment' \in Nat /\ moment <= moment'
      /\ cached' \in [version : Nat, expires : Nat]
      /\ cached' = cached \/ cached' = NotCached
    BY DEF Invalidate, Elapse, rowVars, NotCached
<1>4. RunsWhole'
    BY <1>2 DEF RunsWhole, Present
<1>5. \A q \in Readers : Fresh(reader[q])'
    BY <1>2, <1>3 DEF RowsFresh, Fresh, InForce, Version, ReaderRec
<1>6. RowsFresh'
    BY <1>1, <1>2, <1>3, <1>5 DEF RowsFresh, InForce, Version, NotCached
<1> QED BY <1>2, <1>3, <1>4, <1>6

(* The steps of a request that reads the settings, the storing of the overrides apart. *)
LEMMA ReaderKeeps ==
    ASSUME SettingsInv, NEW q \in Readers,
           AskOverrides(q) \/ AskNothing(q) \/ ReadRow(q) \/ ReadFails(q)
    PROVE  SettingsInv'
<1> USE SettingsAssumption DEF SettingsInv, SettingsType
<1>1. 0 \notin DOMAIN replaced
    OBVIOUS
<1>2. reader[q] \in ReaderRec /\ Fresh(reader[q]) /\ cached.version \in Nat /\ cached.expires \in Nat
    BY DEF RowsFresh
<1>3. CASE AskOverrides(q)
    <2> DEFINE asking == [phase |-> "asking", asked |-> moment, version |-> 0, config |-> running]
               served == [phase |-> "served", asked |-> moment, version |-> cached.version, config |-> running]
    <2>1. asking \in ReaderRec /\ served \in ReaderRec
        BY <1>2 DEF ReaderRec, Phase
    <2>2. Fresh(asking)
        BY DEF Fresh
    <2>3. CASE moment < cached.expires
        <3>1. Fresh(served)
            BY <1>2, <2>3 DEF RowsFresh, Fresh, InForce
        <3>2. reader' = [reader EXCEPT ![q] = served]
            BY <1>3, <2>3 DEF AskOverrides
        <3>3. boots = 0 /\ opened \subseteq Present(served.config) /\ UNCHANGED <<fileVars, rowVars, moment>>
            BY <1>3 DEF AskOverrides, RunsWhole
        <3> HIDE DEF served
        <3> QED BY <2>1, <3>1, <3>2, <3>3, ReaderMoves
    <2>4. CASE ~(moment < cached.expires)
        <3>2. reader' = [reader EXCEPT ![q] = asking]
            BY <1>3, <2>4 DEF AskOverrides
        <3>3. boots = 0 /\ opened \subseteq Present(asking.config) /\ UNCHANGED <<fileVars, rowVars, moment>>
            BY <1>3 DEF AskOverrides, RunsWhole
        <3> HIDE DEF asking
        <3> QED BY <2>1, <2>2, <3>2, <3>3, ReaderMoves
    <2> QED BY <2>3, <2>4
<1>4. CASE AskNothing(q)
    <2> DEFINE x == [phase |-> "served", asked |-> moment, version |-> 0, config |-> running]
    <2>1. x \in ReaderRec /\ Fresh(x)
        BY <1>1 DEF ReaderRec, Phase, Fresh, InForce, Version
    <2>2. reader' = [reader EXCEPT ![q] = x]
        BY <1>4 DEF AskNothing
    <2>3. boots = 0 /\ opened \subseteq Present(x.config) /\ UNCHANGED <<fileVars, rowVars, moment>>
        BY <1>4 DEF AskNothing, RunsWhole
    <2> HIDE DEF x
    <2> QED BY <2>1, <2>2, <2>3, ReaderMoves
<1>5. CASE ReadRow(q)
    <2> DEFINE x == [reader[q] EXCEPT !.phase = "read", !.version = Version]
    <2>0. Version \in Nat
        BY DEF Version
    <2>1. x \in ReaderRec /\ x.phase = "read" /\ x.version = Version /\ x.asked = reader[q].asked
                          /\ x.config = reader[q].config
        BY <1>2, <2>0 DEF ReaderRec, Phase
    <2>2. Version \notin DOMAIN replaced
        BY DEF Version
    <2>3. Fresh(x)
        BY <1>2, <2>1, <2>2 DEF Fresh, InForce, Version
    <2>4. reader' = [reader EXCEPT ![q] = x]
        BY <1>5 DEF ReadRow
    <2>5. boots = 0 /\ opened \subseteq Present(x.config) /\ UNCHANGED <<fileVars, rowVars, moment>>
        BY <1>5, <2>1 DEF ReadRow, RunsWhole
    <2> HIDE DEF x
    <2> QED BY <2>1, <2>3, <2>4, <2>5, ReaderMoves
<1>6. CASE ReadFails(q)
    <2> DEFINE x == [reader[q] EXCEPT !.phase = "served", !.version = 0]
    <2>1. x \in ReaderRec /\ x.phase = "served" /\ x.version = 0 /\ x.asked = reader[q].asked
                          /\ x.config = reader[q].config
        BY <1>2 DEF ReaderRec, Phase
    <2>2. Fresh(x)
        BY <1>1, <1>2, <2>1 DEF Fresh, InForce, Version
    <2>3. reader' = [reader EXCEPT ![q] = x]
        BY <1>6 DEF ReadFails, GoesOn
    <2>4. boots = 0 /\ opened \subseteq Present(x.config) /\ UNCHANGED <<fileVars, rowVars, moment>>
        BY <1>6, <2>1 DEF ReadFails, RunsWhole
    <2> HIDE DEF x
    <2> QED BY <2>1, <2>2, <2>3, <2>4, ReaderMoves
<1> QED BY <1>3, <1>4, <1>5, <1>6

(* What a request has read goes into the cache with an expiry counted from before the
   query, and into the request. *)
LEMMA StoreKeeps == ASSUME SettingsInv, NEW q \in Readers, StoreOverrides(q) PROVE SettingsInv'
<1> USE SettingsAssumption DEF SettingsInv, SettingsType
<1> DEFINE x == [reader[q] EXCEPT !.phase = "served"]
<1>1. reader[q] \in ReaderRec /\ Fresh(reader[q]) /\ reader[q].phase = "read"
    BY DEF StoreOverrides, RowsFresh
<1>2. x \in ReaderRec /\ x.phase = "served" /\ x.version = reader[q].version /\ x.asked = reader[q].asked
                      /\ x.config = reader[q].config
    BY <1>1 DEF ReaderRec, Phase
<1>3. reader' = [reader EXCEPT ![q] = x]
    BY <1>1 DEF StoreOverrides, GoesOn, ReaderRec
<1>4. \A u \in Readers : reader'[u] = IF u = q THEN x ELSE reader[u]
    BY <1>3
<1>5. UNCHANGED <<boots, running, opened, replaced, moment>>
    BY DEF StoreOverrides, fileVars
<1>6. cached' = [version |-> reader[q].version, expires |-> reader[q].asked + CacheTtl]
    BY DEF StoreOverrides, Expiry
<1>7. reader[q].asked \in Nat /\ reader[q].version \in Nat
    BY <1>1 DEF ReaderRec
<1> HIDE DEF x
<1>8. Fresh(x)
    <2>1. InForce(x.version, x.asked)
        BY <1>1, <1>2 DEF Fresh
    <2>2. x.asked \in Nat /\ \A v \in DOMAIN replaced : replaced[v] \in Nat
        BY <1>2, <1>7
    <2>3. InForce(x.version, x.asked - CacheTtl + 1)
        BY <2>1, <2>2 DEF InForce
    <2> QED BY <1>1, <1>2, <2>3 DEF Fresh
<1>9. SettingsType'
    BY <1>2, <1>3, <1>5, <1>6, <1>7
<1>10. RunsWhole'
    BY <1>1, <1>2, <1>4, <1>5 DEF RunsWhole, Present
<1>11. \A u \in Readers : Fresh(reader[u])'
    BY <1>4, <1>5, <1>8 DEF RowsFresh, Fresh, InForce, Version
<1>12. RowsFresh'
    BY <1>1, <1>5, <1>6, <1>7, <1>11 DEF RowsFresh, InForce, Version, Fresh
<1> QED BY <1>9, <1>10, <1>12

(* The file, its reload, the boot and the end of the process. *)
LEMMA FileKeeps ==
    SettingsInv /\ (ChangeSource \/ Boot \/ ReloadReads \/ ReloadSwaps \/ Restart) => SettingsInv'
<1>1. \A b, p : Merge(b, p) \in Config
    BY DEF Merge, Config, Origins
<1>2. ASSUME SettingsInv, ChangeSource \/ ReloadReads PROVE SettingsInv'
    <2>1. UNCHANGED <<rowVars, moment, reader, boots, running, opened>>
        BY <1>2 DEF ChangeSource, ReloadReads
    <2>2. RunsWhole'
        BY <1>2, <2>1 DEF SettingsInv, RunsWhole, Present
    <2> QED BY <1>2, <2>1, <2>2, FileMoves DEF SettingsInv, SettingsType
<1>3. ASSUME SettingsInv, Boot PROVE SettingsInv'
    <2>1. UNCHANGED <<rowVars, moment, reader>> /\ boots \in Nat /\ boots # 0
        BY <1>3 DEF Boot, SettingsInv, SettingsType
    <2>2. boots' \in Nat /\ running' \in Config
        BY <1>1, <1>3, <2>1 DEF Boot, SettingsInv, SettingsType
    <2>3. \A q \in Readers : reader[q].phase = "idle"
        BY <1>3, <2>1 DEF SettingsInv, RunsWhole
    <2>4. boots' = 0 => opened' = Present(running')
        BY <1>3, <2>1 DEF Boot
    <2>5. RunsWhole'
        BY <2>1, <2>3, <2>4 DEF RunsWhole, Present
    <2> QED BY <1>3, <2>1, <2>2, <2>5, FileMoves
<1>4. ASSUME SettingsInv, ReloadSwaps PROVE SettingsInv'
    <2>1. UNCHANGED <<rowVars, moment, reader, boots, opened>> /\ boots \in Nat
        BY <1>4 DEF ReloadSwaps, SettingsInv, SettingsType
    <2>2. running' \in Config
        BY <1>1, <1>4 DEF ReloadSwaps, SettingsInv, SettingsType
    <2>3. Present(running) \subseteq Present(running')
        BY <1>4 DEF ReloadSwaps, Shrunken
    <2>4. RunsWhole'
        BY <1>4, <2>1, <2>3 DEF SettingsInv, RunsWhole, Present
    <2> QED BY <1>4, <2>1, <2>2, <2>4, FileMoves
<1>5. ASSUME SettingsInv, Restart PROVE SettingsInv'
    <2> USE SettingsAssumption DEF SettingsInv, SettingsType
    <2>1. Idle \in ReaderRec /\ Idle.phase = "idle" /\ Idle.asked = 0
        BY DEF Idle, ReaderRec, Phase, Config
    <2>2. \A q \in Readers : reader'[q] = Idle
        BY <1>5 DEF Restart
    <2>3. SettingsType'
        BY <1>5, <2>1 DEF Restart, NotCached, Config
    <2>4. RunsWhole'
        BY <1>5, <2>1, <2>2 DEF Restart, RunsWhole
    <2>5. RowsFresh'
        BY <1>5, <2>1, <2>2 DEF Restart, RowsFresh, Fresh, InForce, NotCached, Version
    <2> QED BY <2>3, <2>4, <2>5
<1> QED BY <1>2, <1>3, <1>4, <1>5

(* Every step keeps it. *)
LEMMA SettingsKeep == SettingsInv /\ [SettingsNext]_settingsVars => SettingsInv'
<1> SUFFICES ASSUME SettingsInv, [SettingsNext]_settingsVars PROVE SettingsInv'
    OBVIOUS
<1>1. CASE UNCHANGED settingsVars
    <2>1. UNCHANGED <<rowVars, moment, reader, boots, running, opened>>
        BY <1>1 DEF settingsVars, fileVars
    <2>2. RunsWhole'
        BY <2>1 DEF SettingsInv, RunsWhole, Present
    <2> QED BY <2>1, <2>2, FileMoves DEF SettingsInv, SettingsType
<1>2. CASE ChangeSource \/ Boot \/ ReloadReads \/ ReloadSwaps \/ Restart
    BY <1>2, FileKeeps
<1>3. CASE WriteOverrides
    BY <1>3, WriteKeeps
<1>4. CASE Invalidate \/ Elapse
    BY <1>4, CacheKeeps
<1>5. ASSUME NEW q \in Readers,
             AskOverrides(q) \/ AskNothing(q) \/ ReadRow(q) \/ StoreOverrides(q) \/ ReadFails(q)
      PROVE  SettingsInv'
    BY <1>5, ReaderKeeps, StoreKeeps
<1> QED BY <1>1, <1>2, <1>3, <1>4, <1>5 DEF SettingsNext

(* However requests, reloads and the admin's writes interleave, no request runs without a
   section the process started with, or on an override replaced cache_ttl or longer before
   it asked (config_loader, TenantConfigLoader): SettingsHold. *)
THEOREM SettingsAlwaysHold == SettingsSpec => []SettingsHold
<1>1. SettingsInv => SettingsHold
    <2> SUFFICES ASSUME SettingsInv, NEW q \in Readers, reader[q].phase = "served"
                 PROVE  /\ opened \subseteq Present(reader[q].config)
                        /\ reader[q].version \in DOMAIN replaced =>
                              replaced[reader[q].version] > reader[q].asked - CacheTtl
        BY DEF SettingsHold
    <2>1. reader[q] \in ReaderRec /\ Fresh(reader[q])
        BY DEF SettingsInv, SettingsType, RowsFresh
    <2> QED BY <2>1, SettingsAssumption DEF SettingsInv, SettingsType, RunsWhole, Fresh, InForce, ReaderRec
<1> QED BY <1>1, SettingsStart, SettingsKeep, PTL DEF SettingsSpec

-----------------------------------------------------------------------------
(* ClientAddress *)

(* What the trusted side saw of a call without a vouch. *)
Seen(lines) == IF Len(lines) <= 1 THEN "origin" ELSE Peer

(* The proxies append to the last line, so the entry the hops count back to is the one the
   first of them wrote. *)
LEMMA TrustedIsSeen ==
    ASSUME deployed \in Deployments, NEW lines \in Seq(Seq(STRING))
    PROVE  Forwarded(Arriving(lines)) = Seen(lines)
<1>1. Hops \in {0, 1, 2}
    <2>1. deployed.hops \in {"unset", "two", "auto"}
        BY AddressAssumption
    <2>2. AutoHops \in {0, 1}
        BY DEF AutoHops
    <2>3. CASE deployed.hops = "unset"
        BY <2>2, <2>3 DEF Hops
    <2>4. CASE deployed.hops = "two"
        BY <2>4 DEF Hops
    <2>5. CASE deployed.hops = "auto"
        BY <2>2, <2>5 DEF Hops
    <2> QED BY <2>1, <2>3, <2>4, <2>5
<1>2. CASE Hops = 0
    <2>1. Forwarded(Arriving(lines)) = "origin" /\ Peer = "origin"
        BY <1>2 DEF Forwarded, Peer
    <2> QED BY <2>1 DEF Seen
<1>3. CASE Hops # 0
    <2> DEFINE n == Hops
    <2>0. n \in {1, 2}
        BY <1>1, <1>3
    <2> HIDE DEF n
    <2>1. /\ Passed = [i \in 1..n |-> IF i = 1 THEN "origin" ELSE "proxy"]
        BY DEF Passed, n
    <2>2. Len(Passed) = n /\ Passed[1] = "origin" /\ Passed \in Seq({"origin", "proxy"})
        BY <2>0, <2>1
    <2>3. CASE lines = << >>
        <3>1. Arriving(lines) = <<Passed>>
            BY <1>3, <2>3 DEF Arriving
        <3>2. Len(<<Passed>>) = 1 /\ <<Passed>>[1] = Passed
            OBVIOUS
        <3>3. Trusted(Passed) = "origin"
            BY <2>0, <2>2 DEF Trusted, n
        <3>4. Forwarded(Arriving(lines)) = "origin"
            BY <1>3, <2>0, <2>2, <3>1, <3>2, <3>3 DEF Forwarded, Normalised, n
        <3> QED BY <2>3, <3>4 DEF Seen
    <2>4. CASE lines # << >>
        <3> DEFINE last == Len(lines)
                   line == lines[last] \o Passed
                   come == [lines EXCEPT ![last] = line]
        <3>1. last \in Nat /\ last >= 1 /\ last \in DOMAIN lines
            BY <2>4
        <3>2. Arriving(lines) = come
            BY <1>3, <2>4 DEF Arriving
        <3>3. Len(come) = last /\ come[last] = line
            BY <3>1
        <3>4. CASE last = 1
            <4> DEFINE S == STRING \cup {"origin", "proxy"}
            <4>0. Seq(STRING) \subseteq Seq(S) /\ Seq({"origin", "proxy"}) \subseteq Seq(S)
                BY SeqMonotonic
            <4> HIDE DEF S
            <4>1. lines[1] \in Seq(S) /\ Passed \in Seq(S)
                <5>1. lines[1] \in Seq(STRING)
                    BY <3>1, <3>4
                <5> QED BY <2>2, <4>0, <5>1
            <4>2. Len(line) = Len(lines[1]) + n
                BY <2>2, <3>4, <4>1, ConcatProperties
            <4>3. line[Len(lines[1]) + 1] = Passed[1]
                <5>1. Len(lines[1]) \in Nat /\ 1 \in 1..Len(Passed)
                    BY <2>0, <2>2, <4>1
                <5> QED BY <3>4, <4>1, <5>1, ConcatProperties
            <4>4. Len(lines[1]) \in Nat
                BY <4>1
            <4> HIDE DEF line
            <4>5. Trusted(line) = "origin"
                BY <2>0, <2>2, <4>2, <4>3, <4>4 DEF Trusted, n
            <4> HIDE DEF come
            <4>6. Len(come) = 1 /\ come[1] = line /\ ~(Len(line) < Hops)
                BY <2>0, <3>3, <3>4, <4>2, <4>4 DEF n
            <4>7. Forwarded(come) = Normalised("origin")
                BY <1>3, <4>5, <4>6 DEF Forwarded
            <4>8. Forwarded(come) = "origin"
                BY <4>7 DEF Normalised
            <4> QED BY <3>2, <3>4, <4>8 DEF Seen
        <3>5. CASE last # 1
            <4> HIDE DEF come, line
            <4>0. Len(come) # 1
                BY <3>3, <3>5
            <4>1. Forwarded(come) = Peer
                BY <4>0 DEF Forwarded
            <4>2. ~(Len(lines) <= 1)
                <5>1. \A k \in Nat : k >= 1 /\ k # 1 => ~(k <= 1)
                    OBVIOUS
                <5> HIDE DEF last
                <5>2. ~(last <= 1)
                    BY <3>1, <3>5, <5>1
                <5> QED BY <5>2 DEF last
            <4>3. Seen(lines) = Peer
                BY <4>2 DEF Seen
            <4> QED BY <3>2, <4>1, <4>3
        <3> QED BY <3>4, <3>5
    <2> QED BY <2>3, <2>4
<1> QED BY <1>2, <1>3

-----------------------------------------------------------------------------
Fields == {"phase", "call", "signedBy", "asked", "knew", "vouched", "ip", "who"}
Resolving == {"middleware", "waits", "fetches"}
Resolved == {"addressed", "refused", "in"}

Arrived(r, v) ==
    /\ DOMAIN r = Fields /\ r.phase \in Resolving \cup Resolved
    /\ r.call \in Connections[v]
    /\ r.asked \in Nat /\ r.asked <= instant
    /\ r.signedBy \in Nat
    /\ r.call.vouch.genuine => r.signedBy <= signer

(* A key that was held when the call came and is not any more has been rotated away. *)
KeyKept(r) == (r.call.vouch.genuine /\ r.knew /\ r.signedBy \notin held) => r.signedBy \notin Published

(* AddressIsSound, of one call. *)
Sound(r) ==
    /\ ~deployed.observe =>
          r.ip = IF r.vouched THEN Normalised(r.call.vouch.address) ELSE Seen(r.call.lines)
    /\ r.vouched => r.call.vouch.genuine
    /\ (r.call.vouch.sent /\ r.call.vouch.genuine /\ deployed.verifier /\ ~r.vouched) =>
          /\ fetchedAt > r.asked - RefetchAfter
          /\ r.knew => r.signedBy \notin Published

VisitOk(r, v) ==
    /\ Arrived(r, v)
    /\ r.phase \in Resolving => KeyKept(r)
    /\ r.phase = "fetches" => fetchedAt >= r.asked
    /\ r.phase \in Resolved => Sound(r)

AddressInv ==
    /\ deployed \in Deployments
    /\ instant \in Nat /\ signer \in Nat \ {0} /\ fetchedAt \in Int /\ fetchedAt <= instant
    /\ DOMAIN visit = Visits
    /\ \A v \in Visits : visit[v] = NoVisit \/ VisitOk(visit[v], v)

(* No request has arrived yet. *)
LEMMA AddressStart == AddressInit => AddressInv
  BY AddressAssumption DEF AddressInit, AddressInv

(* Time passes, Google rotates its keys, another call fetches them: what was true of a call
   stays so. *)
LEMMA StaysOk ==
    ASSUME AddressInv, NEW v \in Visits, NEW r, VisitOk(r, v),
           deployed' = deployed, instant' \in Nat, instant' >= instant, fetchedAt' \in Int, fetchedAt' >= fetchedAt,
           \/ signer' = signer /\ held' \in {held, Published}
           \/ signer' = signer + 1 /\ held' = held
    PROVE  VisitOk(r, v)'
<1>1. Arrived(r, v)
    BY DEF VisitOk
<1>2. Arrived(r, v)'
    BY <1>1 DEF Arrived, AddressInv
<1>3. r.call.vouch.genuine /\ r.signedBy \notin Published => r.signedBy \notin Published'
    BY <1>1 DEF Arrived, Published, AddressInv
<1>4. KeyKept(r) => KeyKept(r)'
    BY <1>3 DEF KeyKept, Published
<1>5. Sound(r) => Sound(r)'
    <2>1. Seen(r.call.lines)' = Seen(r.call.lines)
        BY DEF Seen, Peer, Hops, AutoHops
    <2>2. fetchedAt > r.asked - RefetchAfter => fetchedAt' > r.asked - RefetchAfter
        BY <1>1, AddressAssumption DEF Arrived, AddressInv
    <2> QED BY <1>3, <2>1, <2>2 DEF Sound
<1>6. fetchedAt >= r.asked => fetchedAt' >= r.asked
    BY <1>1 DEF Arrived, AddressInv
<1> QED BY <1>2, <1>4, <1>5, <1>6 DEF VisitOk

(* A step of one request alone: only its own record has to be looked at. *)
LEMMA VisitMoves ==
    ASSUME AddressInv, NEW v \in Visits, NEW r, VisitOk(r, v)', visit' = [visit EXCEPT ![v] = r],
           UNCHANGED <<deployed, instant, signer>>, held' \in {held, Published},
           fetchedAt' \in Int, fetchedAt' >= fetchedAt, fetchedAt' <= instant
    PROVE  AddressInv'
<1>1. DOMAIN visit' = Visits /\ \A u \in Visits : visit'[u] = IF u = v THEN r ELSE visit[u]
    BY DEF AddressInv
<1>2. instant' \in Nat /\ instant' >= instant
    BY DEF AddressInv
<1>3. \A u \in Visits : \A w : VisitOk(w, u) => VisitOk(w, u)'
    BY <1>2, StaysOk
<1>4. \A u \in Visits : (visit[u] = NoVisit \/ VisitOk(visit[u], u))'
    BY <1>1, <1>3 DEF AddressInv
<1> QED BY <1>1, <1>4 DEF AddressInv

(* What settles a request's address: its trusted hop, or a vouch it holds the key of. *)
LEMMA SettleKeeps ==
    ASSUME AddressInv, NEW v \in Visits, visit[v].phase \in Resolving, NEW certs, Settle(v, certs),
           UNCHANGED <<deployed, instant, signer, fetchedAt>>, held' \in {held, Published},
           \* what was found of the key it was signed with
           (/\ visit[v].call.vouch.sent /\ visit[v].call.vouch.genuine /\ deployed.verifier
            /\ visit[v].signedBy \notin certs)
              => /\ fetchedAt > visit[v].asked - RefetchAfter
                 /\ visit[v].knew => visit[v].signedBy \notin Published
    PROVE  AddressInv'
<1> DEFINE call == visit[v].call
           vouched == call.vouch.sent /\ deployed.verifier /\ Verifies(call.vouch, visit[v].signedBy, certs)
           new == [visit[v] EXCEPT !.phase = "addressed", !.vouched = vouched, !.ip = Address(call, vouched)]
<1> PICK r : r = new
    OBVIOUS
<1>1. VisitOk(visit[v], v)
    BY DEF AddressInv, NoVisit, Resolving
<1>2. /\ DOMAIN r = Fields /\ r.phase = "addressed" /\ r.vouched = vouched /\ r.ip = Address(call, vouched)
      /\ r.call = call /\ r.asked = visit[v].asked /\ r.signedBy = visit[v].signedBy /\ r.knew = visit[v].knew
    BY <1>1 DEF VisitOk, Arrived, Fields
<1>3. visit' = [visit EXCEPT ![v] = r]
    BY DEF Settle
<1> HIDE DEF new
<1>4. call.lines \in Seq(Seq(STRING))
    BY <1>1, AddressAssumption DEF VisitOk, Arrived
<1>5. Forwarded(Arriving(call.lines)) = Seen(call.lines)
    BY <1>4, TrustedIsSeen DEF AddressInv
<1>6. vouched \in BOOLEAN
    OBVIOUS
<1>7. ~deployed.observe =>
         Address(call, vouched) = IF vouched THEN Normalised(call.vouch.address) ELSE Seen(call.lines)
    BY <1>5 DEF Address
<1>8. vouched => call.vouch.genuine
    BY DEF Verifies
<1>9. Arrived(r, v)
    BY <1>1, <1>2 DEF VisitOk, Arrived, Resolved
<1>10. call.vouch.sent /\ call.vouch.genuine /\ deployed.verifier /\ ~vouched
       => /\ fetchedAt > visit[v].asked - RefetchAfter
          /\ visit[v].knew => visit[v].signedBy \notin Published
    BY DEF Verifies
<1> HIDE DEF vouched
<1>11. Sound(r)
    BY <1>2, <1>7, <1>8, <1>10 DEF Sound
<1>12. VisitOk(r, v)
    BY <1>2, <1>9, <1>11 DEF VisitOk, Resolving, Resolved
<1>13. /\ deployed' = deployed /\ instant' \in Nat /\ instant' >= instant /\ fetchedAt' \in Int
       /\ fetchedAt' >= fetchedAt /\ fetchedAt' <= instant /\ signer' = signer
    BY DEF AddressInv
<1>14. VisitOk(r, v)'
    BY <1>12, <1>13, StaysOk
<1> QED BY <1>3, <1>13, <1>14, VisitMoves

(* A request enters, through proxies or past them. *)
LEMMA EnterKeeps == ASSUME AddressInv, NEW v \in Visits, Enter(v) PROVE AddressInv'
<1>0. PICK c \in Connections[v] : \E key \in IF c.vouch.genuine THEN Published ELSE {0} :
         visit' = [visit EXCEPT ![v] =
              [phase |-> "middleware", call |-> c, signedBy |-> key, asked |-> instant,
               knew |-> key \in held, vouched |-> FALSE, ip |-> "unknown", who |-> << >>]]
    BY DEF Enter
<1>1. PICK key \in IF c.vouch.genuine THEN Published ELSE {0} :
         visit' = [visit EXCEPT ![v] =
              [phase |-> "middleware", call |-> c, signedBy |-> key, asked |-> instant,
               knew |-> key \in held, vouched |-> FALSE, ip |-> "unknown", who |-> << >>]]
    BY <1>0
<1> DEFINE new == [phase |-> "middleware", call |-> c, signedBy |-> key, asked |-> instant,
                   knew |-> key \in held, vouched |-> FALSE, ip |-> "unknown", who |-> << >>]
<1> PICK r : r = new
    OBVIOUS
<1>2. /\ DOMAIN r = Fields /\ r.phase = "middleware" /\ r.call = c /\ r.asked = instant
      /\ r.signedBy = key /\ r.knew = (key \in held)
    BY DEF Fields
<1>3. visit' = [visit EXCEPT ![v] = r]
    BY <1>1
<1> HIDE DEF new
<1>4. key \in Nat /\ (c.vouch.genuine => key <= signer)
    BY DEF Published, AddressInv
<1>5. UNCHANGED <<deployed, instant, signer, held, fetchedAt>>
    BY DEF Enter, certVars
<1>6. VisitOk(r, v)
    <2>1. r.knew => key \in held
        BY <1>2, Zenon
    <2>2. KeyKept(r)
        BY <1>2, <2>1 DEF KeyKept
    <2>3. Arrived(r, v)
        BY <1>2, <1>4 DEF Arrived, Resolving, AddressInv
    <2> QED BY <1>2, <2>2, <2>3 DEF VisitOk, Resolved
<1>7. /\ deployed' = deployed /\ instant' = instant /\ instant' \in Nat /\ instant' >= instant
      /\ fetchedAt' \in Int /\ fetchedAt' >= fetchedAt /\ fetchedAt' <= instant
      /\ signer' = signer /\ held' \in {held, Published}
    BY <1>5 DEF AddressInv
<1>8. VisitOk(r, v)'
    BY <1>6, <1>7, StaysOk
<1> QED BY <1>3, <1>7, <1>8, VisitMoves

(* A call that goes on to wait or to fetch. *)
LEMMA WaitKeeps ==
    ASSUME AddressInv, NEW v \in Visits, visit[v].phase \in Resolving, NEW phase \in {"waits", "fetches"},
           visit' = [visit EXCEPT ![v].phase = phase],
           UNCHANGED <<deployed, instant, signer, held>>,
           \/ phase = "waits" /\ fetchedAt' = fetchedAt
           \/ phase = "fetches" /\ fetchedAt' = instant
    PROVE  AddressInv'
<1> PICK r : r = [visit[v] EXCEPT !.phase = phase]
    OBVIOUS
<1>1. VisitOk(visit[v], v)
    BY DEF AddressInv, NoVisit, Resolving
<1>2. /\ DOMAIN r = Fields /\ r.phase = phase /\ r.call = visit[v].call /\ r.asked = visit[v].asked
      /\ r.signedBy = visit[v].signedBy /\ r.knew = visit[v].knew
    BY <1>1 DEF VisitOk, Arrived, Fields
<1>3. visit' = [visit EXCEPT ![v] = r]
    OBVIOUS
<1>4. /\ deployed' = deployed /\ instant' = instant /\ instant' \in Nat /\ instant' >= instant
      /\ fetchedAt' \in Int /\ fetchedAt' >= fetchedAt /\ fetchedAt' <= instant
      /\ signer' = signer /\ held' = held
    BY DEF AddressInv
<1>5. VisitOk(r, v)'
    <2>1. Arrived(r, v)' /\ KeyKept(r)'
        BY <1>1, <1>2, <1>4 DEF VisitOk, Arrived, KeyKept, Resolving, Published
    <2>2. phase = "fetches" => fetchedAt' >= r.asked
        BY <1>1, <1>2, <1>4 DEF VisitOk, Arrived
    <2> QED BY <1>2, <2>1, <2>2 DEF VisitOk, Resolved
<1> QED BY <1>3, <1>4, <1>5, VisitMoves

(* Nothing is fetched only where the key is held or the last attempt is recent. *)
LEMMA NoFetch ==
    ASSUME AddressInv, NEW v \in Visits, VisitOk(visit[v], v), visit[v].phase \in Resolving,
           ~NeedsFetch(visit[v].signedBy), visit[v].signedBy \notin held
    PROVE  fetchedAt > visit[v].asked - RefetchAfter
<1>1. instant - fetchedAt < RefetchAfter
    <2>1. instant - fetchedAt \in Int
        BY DEF AddressInv
    <2> QED BY <2>1, AddressAssumption DEF NeedsFetch
<1> QED BY <1>1, AddressAssumption DEF VisitOk, Arrived, AddressInv

(* The address is resolved from the hops or asked of the certificates. *)
LEMMA ResolveKeeps ==
    ASSUME AddressInv, NEW v \in Visits, Resolve(v) \/ TakeLock(v) \/ Fetched(v) \/ FetchFails(v)
    PROVE  AddressInv'
<1>1. visit[v].phase \in Resolving
    BY DEF Resolve, TakeLock, Fetched, FetchFails, Resolving
<1>2. VisitOk(visit[v], v)
    BY <1>1 DEF AddressInv, NoVisit, Resolving
<1>3. UNCHANGED <<deployed, instant, signer>>
    BY DEF Resolve, TakeLock, Fetched, FetchFails
<1>4. visit[v].call.vouch.genuine /\ visit[v].signedBy \notin held /\ visit[v].knew => visit[v].signedBy \notin Published
    BY <1>1, <1>2 DEF VisitOk, KeyKept
<1>5. CASE Resolve(v)
    <2>1. UNCHANGED <<held, fetchedAt>>
        BY <1>5 DEF Resolve, certVars
    <2>2. CASE visit[v].call.vouch.sent /\ deployed.verifier /\ NeedsFetch(visit[v].signedBy)
        <3>1. visit' = [visit EXCEPT ![v].phase = "waits"]
            BY <1>5, <2>2 DEF Resolve
        <3> QED BY <1>1, <1>3, <2>1, <3>1, WaitKeeps
    <2>3. CASE ~(visit[v].call.vouch.sent /\ deployed.verifier /\ NeedsFetch(visit[v].signedBy))
        <3>1. Settle(v, held)
            BY <1>5, <2>3 DEF Resolve
        <3>2. visit[v].call.vouch.sent /\ deployed.verifier /\ visit[v].signedBy \notin held =>
                 fetchedAt > visit[v].asked - RefetchAfter
            BY <1>1, <1>2, <2>3, NoFetch
        <3> QED BY <1>1, <1>3, <1>4, <2>1, <3>1, <3>2, SettleKeeps
    <2> QED BY <2>2, <2>3
<1>6. CASE TakeLock(v)
    <2>1. held' = held
        BY <1>6 DEF TakeLock
    <2>2. CASE NeedsFetch(visit[v].signedBy)
        <3>1. visit' = [visit EXCEPT ![v].phase = "fetches"] /\ fetchedAt' = instant
            BY <1>6, <2>2 DEF TakeLock
        <3> QED BY <1>1, <1>3, <2>1, <3>1, WaitKeeps
    <2>3. CASE ~NeedsFetch(visit[v].signedBy)
        <3>1. Settle(v, held) /\ fetchedAt' = fetchedAt
            BY <1>6, <2>3 DEF TakeLock
        <3>2. visit[v].signedBy \notin held => fetchedAt > visit[v].asked - RefetchAfter
            BY <1>1, <1>2, <2>3, NoFetch
        <3> QED BY <1>1, <1>3, <1>4, <2>1, <3>1, <3>2, SettleKeeps
    <2> QED BY <2>2, <2>3
<1>7. CASE Fetched(v) \/ FetchFails(v)
    <2>1. visit[v].phase = "fetches" /\ fetchedAt' = fetchedAt
        BY <1>7 DEF Fetched, FetchFails
    <2>2. fetchedAt > visit[v].asked - RefetchAfter
        BY <1>2, <2>1, AddressAssumption DEF VisitOk, Arrived, AddressInv
    <2>3. CASE Fetched(v)
        <3>1. held' = Published /\ Settle(v, Published)
            BY <2>3 DEF Fetched
        <3> QED BY <1>1, <1>3, <2>1, <2>2, <3>1, SettleKeeps
    <2>4. CASE FetchFails(v)
        <3>1. held' = held /\ Settle(v, held)
            BY <2>4 DEF FetchFails
        <3> QED BY <1>1, <1>3, <1>4, <2>1, <2>2, <3>1, SettleKeeps
    <2> QED BY <1>7, <2>3, <2>4
<1> QED BY <1>5, <1>6, <1>7

(* The key's allowlist is read against the address. *)
LEMMA AuthenticateKeeps == ASSUME AddressInv, NEW v \in Visits, Authenticate(v) PROVE AddressInv'
<1> DEFINE new == IF Refused(visit[v].call, visit[v].ip)
                    THEN [visit[v] EXCEPT !.phase = "refused"]
                    ELSE [visit[v] EXCEPT !.phase = "in", !.who = Identity(visit[v].call)]
<1> PICK r : r = new
    OBVIOUS
<1>1. VisitOk(visit[v], v) /\ visit[v].phase = "addressed"
    BY DEF Authenticate, AddressInv, NoVisit
<1>2. /\ DOMAIN r = Fields /\ r.phase \in {"in", "refused"} /\ r.call = visit[v].call /\ r.asked = visit[v].asked
      /\ r.signedBy = visit[v].signedBy /\ r.knew = visit[v].knew /\ r.vouched = visit[v].vouched /\ r.ip = visit[v].ip
    BY <1>1 DEF VisitOk, Arrived, Fields
<1>3. visit' = [visit EXCEPT ![v] = r]
    BY DEF Authenticate
<1> HIDE DEF new
<1>4. VisitOk(r, v)
    BY <1>1, <1>2 DEF VisitOk, Arrived, Sound, Resolving, Resolved
<1>5. UNCHANGED <<deployed, instant, signer, held, fetchedAt>>
    BY DEF Authenticate, certVars
<1>6. /\ deployed' = deployed /\ instant' = instant /\ instant' \in Nat /\ instant' >= instant
      /\ fetchedAt' \in Int /\ fetchedAt' >= fetchedAt /\ fetchedAt' <= instant
      /\ signer' = signer /\ held' \in {held, Published}
    BY <1>5 DEF AddressInv
<1>7. VisitOk(r, v)'
    BY <1>4, <1>6, StaysOk
<1> QED BY <1>3, <1>6, <1>7, VisitMoves

(* Keys rotate and time passes beside the requests. *)
LEMMA ClockKeeps == ASSUME AddressInv, RotateKeys \/ InstantPasses \/ UNCHANGED addressVars PROVE AddressInv'
<1>1. /\ deployed' = deployed /\ instant' \in Nat /\ instant' >= instant /\ fetchedAt' \in Int
      /\ fetchedAt' >= fetchedAt /\ fetchedAt' <= instant' /\ held' = held /\ visit' = visit
      /\ signer' \in {signer, signer + 1} /\ signer' \in Nat \ {0}
    BY DEF RotateKeys, InstantPasses, addressVars, certVars, AddressInv
<1>2. \A v \in Visits : \A w : VisitOk(w, v) => VisitOk(w, v)'
    BY <1>1, StaysOk
<1>3. \A v \in Visits : (visit[v] = NoVisit \/ VisitOk(visit[v], v))'
    BY <1>1, <1>2 DEF AddressInv
<1> QED BY <1>1, <1>3 DEF AddressInv

(* Every step keeps it. *)
LEMMA AddressKeep == AddressInv /\ [AddressNext]_addressVars => AddressInv'
  BY EnterKeeps, ResolveKeeps, AuthenticateKeeps, ClockKeeps DEF AddressNext

(* In enforce mode the address compared with the allowlist is one a trusted party saw, and a
   genuine vouch is refused only for a key not held when it came, within a minute of the last
   fetch (client_ip.py): AddressIsSound. *)
THEOREM AddressAlwaysSound == AddressSpec => []AddressIsSound
<1>1. AddressInv => AddressIsSound
    <2> SUFFICES ASSUME AddressInv, NEW v \in Visits, visit[v].phase \in {"in", "refused"}, ~deployed.observe
                 PROVE  LET r == visit[v]  vouch == r.call.vouch
                        IN  /\ r.ip = IF r.vouched THEN Normalised(vouch.address)
                                      ELSE IF Len(r.call.lines) <= 1 THEN "origin" ELSE Peer
                            /\ r.vouched => vouch.genuine
                            /\ (vouch.sent /\ vouch.genuine /\ deployed.verifier /\ ~r.vouched) =>
                                  /\ fetchedAt > r.asked - RefetchAfter
                                  /\ r.knew => r.signedBy \notin Published
        BY DEF AddressIsSound
    <2>1. VisitOk(visit[v], v)
        BY DEF AddressInv, NoVisit
    <2>2. Sound(visit[v])
        BY <2>1 DEF VisitOk, Resolved
    <2> QED BY <2>2 DEF Sound, Seen
<1> QED BY <1>1, AddressStart, AddressKeep, PTL DEF AddressSpec

-----------------------------------------------------------------------------
(* ToolPruning *)

JobRec == [at : {"asleep", "scanned", "reading"}, left : SUBSET RegistryTools, inactive : SUBSET RegistryTools]
Day == Nat \cup {Absent}
UsageRec == [first : Day, used : Day, called : Day]

PruneType ==
    /\ day \in Nat
    /\ meta \in [RegistryTools -> UsageRec]
    /\ markUntil \in [RegistryTools -> Nat] /\ visible \in [RegistryTools -> Nat]
    /\ job \in [Replicas -> JobRec]

(* A pass that reads the records holds the tenant's lock, and what it has found inactive
   is judged by a history that is still on record. *)
PassHolds ==
    \A w \in Replicas :
        /\ job[w].at = "reading" => pruneLock = {w}
        /\ job[w].at # "reading" => job[w].inactive = {}
        /\ \A t \in job[w].inactive : meta[t].first # Absent /\ day - meta[t].first >= Window

(* A tool counts as seen from its last mark's end or lift at the latest. *)
MarksHide == \A t \in RegistryTools : visible[t] > day => visible[t] <= markUntil[t]

(* A history that began in sight: the tool is not hidden, and was not since it began. *)
SeenSince ==
    \A t \in RegistryTools \ early :
        meta[t].first # Absent => markUntil[t] <= day /\ visible[t] <= meta[t].first

PruneInv == PruneType /\ PassHolds /\ MarksHide /\ SeenSince

(* No pass has run. *)
LEMMA PruneStart == PruneInit => PruneInv
  BY PruneAssumption DEF PruneInit, PruneInv, PruneType, PassHolds, MarksHide, SeenSince, JobRec, UsageRec, Day,
      NoJob, NoRecord, Absent

(* A step of one replica's pass that leaves the records alone. *)
LEMMA JobMoves ==
    ASSUME PruneInv, NEW w \in Replicas, NEW x \in JobRec, job' = [job EXCEPT ![w] = x],
           x.at = "reading" => pruneLock' = {w},
           \A v \in Replicas : v # w /\ job[v].at = "reading" => pruneLock' = pruneLock,
           x.at # "reading" => x.inactive = {},
           \A t \in x.inactive : meta[t].first # Absent /\ day - meta[t].first >= Window,
           UNCHANGED <<day, meta, markUntil, visible, early>>
    PROVE  PruneInv'
<1>1. \A v \in Replicas : job'[v] = IF v = w THEN x ELSE job[v]
    BY DEF PruneInv, PruneType
<1>2. PruneType'
    BY DEF PruneInv, PruneType
<1>3. PassHolds'
    BY <1>1 DEF PruneInv, PassHolds
<1> QED BY <1>2, <1>3 DEF PruneInv, MarksHide, SeenSince

(* A pass begins. *)
LEMMA StartKeeps == ASSUME PruneInv, NEW w \in Replicas, StartPass(w) PROVE PruneInv'
<1> DEFINE x == [job[w] EXCEPT !.at = "scanned"]
<1>1. job[w] \in JobRec /\ job[w].inactive = {} /\ x \in JobRec /\ x.at = "scanned" /\ x.inactive = {}
    BY DEF StartPass, PruneInv, PruneType, PassHolds, JobRec
<1>2. UNCHANGED <<day, meta, markUntil, visible, early, pruneLock>>
    BY DEF StartPass
<1>3. CASE job' = [job EXCEPT ![w] = x]
    <2> HIDE DEF x
    <2> QED BY <1>1, <1>2, <1>3, JobMoves
<1>4. CASE UNCHANGED job
    BY <1>2, <1>4 DEF PruneInv, PruneType, PassHolds, MarksHide, SeenSince
<1> QED BY <1>3, <1>4 DEF StartPass

(* A replica takes the pruning lock, or finds it taken. *)
LEMMA LockKeeps == ASSUME PruneInv, NEW w \in Replicas, TakePruningLock(w) PROVE PruneInv'
<1> DEFINE x == [job[w] EXCEPT !.at = "reading", !.left = RegistryTools]
<1>1. job[w] \in JobRec /\ job[w].inactive = {}
    BY DEF TakePruningLock, PruneInv, PruneType, PassHolds
<1>2. x \in JobRec /\ x.at = "reading" /\ x.inactive = {}
    BY <1>1 DEF JobRec
<1>3. NoJob \in JobRec /\ NoJob.at = "asleep" /\ NoJob.inactive = {}
    BY DEF NoJob, JobRec
<1>4. UNCHANGED <<day, meta, markUntil, visible, early>>
    BY DEF TakePruningLock
<1>5. \A v \in Replicas : job[v].at = "reading" => pruneLock = {v}
    BY DEF PruneInv, PassHolds
<1>6. CASE pruneLock = {}
    <2>1. pruneLock' = {w} /\ job' = [job EXCEPT ![w] = x]
        BY <1>6 DEF TakePruningLock
    <2>2. \A v \in Replicas : job[v].at # "reading"
        BY <1>5, <1>6
    <2> HIDE DEF x
    <2> QED BY <1>2, <1>4, <2>1, <2>2, JobMoves
<1>7. CASE pruneLock # {}
    <2>1. pruneLock' = pruneLock /\ job' = [job EXCEPT ![w] = NoJob]
        BY <1>7 DEF TakePruningLock
    <2> QED BY <1>3, <1>4, <2>1, JobMoves
<1> QED BY <1>6, <1>7

(* A tool's record is read and judged, or the read fails. *)
LEMMA ReadKeeps == ASSUME PruneInv, NEW w \in Replicas, ReadRecord(w) PROVE PruneInv'
<1>1. job[w] \in JobRec /\ job[w].at = "reading" /\ pruneLock = {w}
    BY DEF ReadRecord, PruneInv, PruneType, PassHolds
<1>2. UNCHANGED <<day, meta, markUntil, visible, early, pruneLock>>
    BY DEF ReadRecord
<1>3. PICK t \in job[w].left :
         \/ job' = [job EXCEPT ![w].left = @ \ {t},
                               ![w].inactive = @ \cup {x \in {t} : PruneCandidate(meta[t])}]
         \/ job' = [job EXCEPT ![w].left = @ \ {t}]
    BY DEF ReadRecord
<1> DEFINE judged == [job[w] EXCEPT !.left = @ \ {t}, !.inactive = @ \cup {x \in {t} : PruneCandidate(meta[t])}]
           skipped == [job[w] EXCEPT !.left = @ \ {t}]
<1>4. t \in RegistryTools
    BY <1>1 DEF JobRec
<1>5. judged \in JobRec /\ judged.at = "reading"
      /\ judged.inactive = job[w].inactive \cup {x \in {t} : PruneCandidate(meta[t])}
    BY <1>1, <1>4 DEF JobRec
<1>6. skipped \in JobRec /\ skipped.at = "reading" /\ skipped.inactive = job[w].inactive
    BY <1>1 DEF JobRec
<1>7. \A u \in job[w].inactive : meta[u].first # Absent /\ day - meta[u].first >= Window
    BY DEF PruneInv, PassHolds
<1>8. \A u \in judged.inactive : meta[u].first # Absent /\ day - meta[u].first >= Window
    BY <1>5, <1>7 DEF PruneCandidate
<1>9. CASE job' = [job EXCEPT ![w] = judged]
    <2> HIDE DEF judged
    <2> QED BY <1>1, <1>2, <1>5, <1>8, <1>9, JobMoves
<1>10. CASE job' = [job EXCEPT ![w] = skipped]
    <2> HIDE DEF skipped
    <2> QED BY <1>1, <1>2, <1>6, <1>7, <1>10, JobMoves
<1> QED BY <1>3, <1>9, <1>10

(* A pass that ends without a mark. *)
LEMMA EndKeeps == ASSUME PruneInv, NEW w \in Replicas, PassAborts(w) \/ DryRun(w) PROVE PruneInv'
<1>1. NoJob \in JobRec /\ NoJob.at = "asleep" /\ NoJob.inactive = {}
    BY DEF NoJob, JobRec
<1>2. job' = [job EXCEPT ![w] = NoJob] /\ job[w].at = "reading" /\ UNCHANGED <<day, meta, markUntil, visible, early>>
    BY DEF PassAborts, DryRun
<1>3. \A v \in Replicas : v # w => job[v].at # "reading"
    BY <1>2 DEF PruneInv, PassHolds
<1> QED BY <1>1, <1>2, <1>3, JobMoves

(* The tools judged unused are marked. *)
LEMMA MarkKeeps == ASSUME PruneInv, NEW w \in Replicas, MarkPruned(w) PROVE PruneInv'
<1> USE PruneAssumption DEF PruneInv
<1>1. NoJob \in JobRec /\ NoJob.at = "asleep" /\ NoJob.inactive = {}
    BY DEF NoJob, JobRec
<1>2. \A v \in Replicas : job'[v] = IF v = w THEN NoJob ELSE job[v]
    BY DEF MarkPruned, PruneType
<1>3. \A v \in Replicas : job'[v].at # "reading" /\ job'[v].inactive = {}
    BY <1>1, <1>2 DEF MarkPruned, PassHolds
<1>4. PassHolds'
    BY <1>3 DEF PassHolds
<1> DEFINE hidden == job[w].inactive
<1>5. \A t \in RegistryTools :
         /\ meta[t] \in UsageRec /\ day \in Nat /\ markUntil[t] \in Nat /\ visible[t] \in Nat
         /\ markUntil'[t] = IF t \in hidden THEN day + Window ELSE markUntil[t]
         /\ visible'[t] = IF t \in hidden THEN day + Window ELSE visible[t]
         /\ meta'[t] = IF t \in hidden THEN [meta[t] EXCEPT !.first = Absent] ELSE meta[t]
         /\ day' = day /\ early' = early
    BY DEF MarkPruned, PruneType, HistoryRestarts
<1> HIDE DEF hidden
<1>6. \A t \in RegistryTools : meta'[t] \in UsageRec /\ (t \in hidden => meta'[t].first = Absent)
    BY <1>5 DEF UsageRec, Day, Absent
<1>7. PruneType'
    <2>1. meta' \in [RegistryTools -> UsageRec]
        <3>1. meta' = [t \in RegistryTools |-> meta'[t]]
            BY DEF MarkPruned
        <3> QED BY <1>6, <3>1
    <2>2. day' \in Nat /\ job' \in [Replicas -> JobRec]
        BY <1>1 DEF MarkPruned, PruneType
    <2>3. day + Window \in Nat
        BY DEF PruneType
    <2>4. markUntil' \in [RegistryTools -> Nat] /\ visible' \in [RegistryTools -> Nat]
        BY <2>3 DEF MarkPruned, PruneType
    <2> QED BY <2>1, <2>2, <2>4 DEF PruneType
<1>8. MarksHide'
    <2> SUFFICES ASSUME NEW t \in RegistryTools PROVE visible'[t] > day' => visible'[t] <= markUntil'[t]
        BY DEF MarksHide
    <2>1. day + Window <= day + Window
        BY DEF PruneType
    <2> QED BY <1>5, <2>1 DEF MarksHide
<1>9. SeenSince'
    BY <1>5, <1>6 DEF SeenSince
<1> QED BY <1>4, <1>7, <1>8, <1>9

(* Steps of requests and of the calendar. *)
LEMMA FilterKeeps == ASSUME PruneInv, NEW r \in ToolRequests, FilterTools(r) PROVE PruneInv'
<1> USE DEF PruneInv
<1>1. UNCHANGED <<day, meta, job, early, pruneLock>>
    BY DEF FilterTools
<1>2. \A t \in RegistryTools :
         /\ day \in Nat /\ markUntil[t] \in Nat /\ visible[t] \in Nat
         /\ \/ markUntil'[t] = 0 /\ visible'[t] = IF Marked(t) THEN day ELSE visible[t]
            \/ markUntil'[t] = markUntil[t] /\ visible'[t] = visible[t]
    BY DEF FilterTools, PruneType
<1>3. markUntil' \in [RegistryTools -> Nat] /\ visible' \in [RegistryTools -> Nat]
    BY DEF FilterTools, PruneType
<1>4. PruneType'
    BY <1>1, <1>3 DEF PruneType
<1>5. PassHolds'
    BY <1>1 DEF PassHolds
<1>6. MarksHide'
    BY <1>1, <1>2 DEF MarksHide, Marked
<1>7. SeenSince'
    <2> SUFFICES ASSUME NEW t \in RegistryTools \ early, meta[t].first # Absent
                 PROVE  markUntil'[t] <= day /\ visible'[t] <= meta[t].first
        BY <1>1 DEF SeenSince
    <2>1. markUntil[t] <= day /\ visible[t] <= meta[t].first
        BY DEF SeenSince
    <2>2. ~Marked(t)
        BY <1>2, <2>1 DEF Marked
    <2> QED BY <1>2, <2>1, <2>2
<1> QED BY <1>4, <1>5, <1>6, <1>7

(* The tools of a request go on record. *)
LEMMA UsageKeeps == ASSUME PruneInv, NEW r \in ToolRequests, RecordToolUsage(r) PROVE PruneInv'
<1> USE DEF PruneInv
<1>1. UNCHANGED <<day, markUntil, visible, job, pruneLock>>
    BY DEF RecordToolUsage
<1>2. CASE UNCHANGED <<meta, early>>
    BY <1>1, <1>2 DEF PruneType, PassHolds, MarksHide, SeenSince
<1>3. CASE ~UNCHANGED <<meta, early>>
    <2> DEFINE offered == using[r].offered
               fresh == {t \in offered : meta[t].first = Absent}
    <2>1. meta' = [t \in RegistryTools |->
                    IF t \notin offered THEN meta[t]
                    ELSE [meta[t] EXCEPT !.used = day, !.first = IF t \in fresh THEN day ELSE @]]
          /\ early' = (early \ fresh) \cup {t \in fresh : Marked(t)}
        BY <1>3 DEF RecordToolUsage
    <2> HIDE DEF offered
    <2>2. \A t \in RegistryTools : meta[t] \in UsageRec /\ day \in Day /\ day \in Nat
        BY DEF PruneType, Day
    <2>3. \A t \in RegistryTools :
             /\ meta'[t] \in UsageRec
             /\ meta'[t].first = IF t \in fresh THEN day ELSE meta[t].first
             /\ t \in fresh => meta[t].first = Absent
        <3> SUFFICES ASSUME NEW t \in RegistryTools
                     PROVE  /\ meta'[t] \in UsageRec
                            /\ meta'[t].first = IF t \in fresh THEN day ELSE meta[t].first
            OBVIOUS
        <3>1. CASE t \notin offered
            BY <2>1, <2>2, <3>1
        <3>2. CASE t \in offered /\ t \in fresh
            <4>1. meta'[t] = [meta[t] EXCEPT !.used = day, !.first = day]
                BY <2>1, <3>2
            <4> QED BY <2>2, <3>2, <4>1 DEF UsageRec
        <3>3. CASE t \in offered /\ t \notin fresh
            <4> HIDE DEF fresh
            <4>1. meta'[t] = [meta[t] EXCEPT !.used = day, !.first = @]
                BY <2>1, <3>3
            <4> QED BY <2>2, <3>3, <4>1 DEF UsageRec
        <3> QED BY <3>1, <3>2, <3>3
    <2>4. PruneType'
        BY <1>1, <2>1, <2>3 DEF PruneType
    <2>5. \A t \in RegistryTools : t \notin early' => (t \notin fresh /\ t \notin early) \/ (t \in fresh /\ ~Marked(t))
        BY <2>1
    <2> HIDE DEF fresh
    <2>6. PassHolds'
        BY <1>1, <2>3 DEF PassHolds, PruneType, JobRec
    <2>7. SeenSince'
        <3> SUFFICES ASSUME NEW t \in RegistryTools, t \notin early', meta'[t].first # Absent
                     PROVE  markUntil[t] <= day /\ visible[t] <= meta'[t].first
            BY <1>1 DEF SeenSince
        <3>1. CASE t \notin fresh /\ t \notin early
            BY <2>3, <3>1 DEF SeenSince
        <3>2. CASE t \in fresh /\ ~Marked(t)
            BY <2>3, <3>2 DEF MarksHide, Marked, PruneType
        <3> QED BY <2>5, <3>1, <3>2
    <2> QED BY <1>1, <2>4, <2>6, <2>7 DEF MarksHide
<1> QED BY <1>2, <1>3

(* The calls of an answer are counted. *)
LEMMA CalledKeeps == ASSUME PruneInv, NEW r \in ToolRequests, RecordCalledTools(r) PROVE PruneInv'
<1> USE DEF PruneInv
<1>1. UNCHANGED <<day, markUntil, visible, job, pruneLock, early>>
    BY DEF RecordCalledTools
<1>2. PICK called : meta' = [t \in RegistryTools |-> IF t \in called THEN [meta[t] EXCEPT !.called = day] ELSE meta[t]]
    BY DEF RecordCalledTools
<1>3. \A t \in RegistryTools : meta[t] \in UsageRec /\ day \in Day
    BY DEF PruneType, Day
<1>4. \A t \in RegistryTools : meta'[t] \in UsageRec /\ meta'[t].first = meta[t].first
    BY <1>2, <1>3 DEF UsageRec
<1>5. PruneType'
    BY <1>1, <1>2, <1>4 DEF PruneType
<1>6. PassHolds'
    BY <1>1, <1>4 DEF PassHolds, PruneType, JobRec
<1> QED BY <1>1, <1>4, <1>5, <1>6 DEF MarksHide, SeenSince

(* A day passes, and records expire. *)
LEMMA DayKeeps == PruneInv /\ NextDay => PruneInv'
<1> SUFFICES ASSUME PruneInv, NextDay PROVE PruneInv'
    OBVIOUS
<1> USE DEF PruneInv
<1>1. UNCHANGED <<markUntil, visible, job, early>> /\ day' = day + 1
    BY DEF NextDay
<1>2. NoRecord \in UsageRec /\ NoRecord.first = Absent
    BY DEF NoRecord, UsageRec, Day
<1>3. \A t \in RegistryTools : meta'[t] \in UsageRec /\ (meta'[t] = NoRecord \/ meta'[t] = meta[t])
    BY <1>2 DEF NextDay, PruneType
<1>4. PruneType'
    <2>1. meta' = [t \in RegistryTools |-> meta'[t]]
        BY DEF NextDay
    <2> QED BY <1>1, <1>3, <2>1 DEF PruneType
<1>5. PassHolds'
    BY <1>1 DEF NextDay, PassHolds
<1>6. MarksHide' /\ SeenSince'
    BY <1>1, <1>2, <1>3 DEF MarksHide, SeenSince, PruneType
<1> QED BY <1>4, <1>5, <1>6

(* Every step keeps it. *)
LEMMA PruneKeep == PruneInv /\ [PruneNext]_toolVars => PruneInv'
<1> SUFFICES ASSUME PruneInv, [PruneNext]_toolVars PROVE PruneInv'
    OBVIOUS
<1>1. ASSUME UNCHANGED <<day, meta, markUntil, pruneLock, job, visible, early>> PROVE PruneInv'
    BY <1>1 DEF PruneInv, PruneType, PassHolds, MarksHide, SeenSince
<1>2. CASE UNCHANGED toolVars
    BY <1>1, <1>2 DEF toolVars
<1>3. CASE NextDay
    BY <1>3, DayKeeps
<1>4. ASSUME NEW r \in ToolRequests,
             LookUpPruned(r) \/ FilterTools(r) \/ RecordToolUsage(r) \/ RecordCalledTools(r)
      PROVE  PruneInv'
    BY <1>1, <1>4, FilterKeeps, UsageKeeps, CalledKeeps DEF LookUpPruned
<1>5. ASSUME NEW w \in Replicas,
             StartPass(w) \/ TakePruningLock(w) \/ ReadRecord(w) \/ MarkPruned(w) \/ PassAborts(w) \/ DryRun(w)
      PROVE  PruneInv'
    BY <1>5, StartKeeps, LockKeeps, ReadKeeps, MarkKeeps, EndKeeps
<1> QED BY <1>2, <1>3, <1>4, <1>5 DEF PruneNext

(* Only a pass that marks what it judged hides a tool. *)
LEMMA HidesJudged ==
    ASSUME PruneInv, [PruneNext]_toolVars, NEW t \in RegistryTools \ early, markUntil'[t] > markUntil[t]
    PROVE  day - visible[t] >= Window
<1> USE PruneAssumption DEF PruneInv
<1>1. markUntil[t] \in Nat /\ visible[t] \in Nat /\ day \in Nat /\ meta[t].first \in Int /\ Window \in Nat
    BY DEF PruneType, UsageRec, Day, Absent
<1>2. CASE UNCHANGED markUntil
    BY <1>1, <1>2
<1>3. ASSUME NEW r \in ToolRequests, FilterTools(r) PROVE FALSE
    BY <1>1, <1>3 DEF FilterTools
<1>4. ASSUME NEW w \in Replicas, MarkPruned(w) PROVE day - visible[t] >= Window
    <2>1. t \in job[w].inactive
        BY <1>1, <1>4 DEF MarkPruned
    <2>2. meta[t].first # Absent /\ day - meta[t].first >= Window
        BY <2>1 DEF PassHolds
    <2>3. visible[t] <= meta[t].first
        BY <2>2 DEF SeenSince
    <2> QED BY <1>1, <2>2, <2>3
<1> QED BY <1>2, <1>3, <1>4 DEF PruneNext, toolVars, NextDay, LookUpPruned, RecordToolUsage, RecordCalledTools,
        StartPass, TakePruningLock, ReadRecord, PassAborts, DryRun

(* Across lapsed and lifted marks, replicas and requests in flight, a tool is hidden only after
   it has been in sight for a whole window (run_scheduled_pruning): JudgedAfresh. *)
THEOREM AlwaysJudgedAfresh == PruneSpec => JudgedAfresh
<1>1. PruneInv /\ [PruneNext]_toolVars =>
        [\A t \in RegistryTools \ early : markUntil'[t] > markUntil[t] => day - visible[t] >= Window]_toolVars
    BY HidesJudged
<1> QED BY <1>1, PruneStart, PruneKeep, PTL DEF PruneSpec, JudgedAfresh

-----------------------------------------------------------------------------
(* ResponseCache *)

(* What a scope says of the request a, the tenant's scope s and the model m, tag by tag. *)
Says(scope, a, s, m) ==
    \A x : /\ <<"model", x>> \in scope <=> "model" \in s /\ x = m
           /\ <<"system", x>> \in scope <=> "system" \in s /\ x = a.system
           /\ <<"verbosity", x>> \in scope <=> a.verbosity # "plain" /\ x = a.verbosity
           /\ <<"params", x>> \in scope <=> a.params # "none" /\ x = a.params
           /\ <<"literals", x>> \notin scope

(* What the tags of a scope say of the request they are made from. *)
LEMMA ScopeSays == ASSUME NEW a, NEW s, NEW m PROVE Says(ScopeOf(Memoised(a, s), m), a, s, m)
<1> DEFINE scope == ScopeOf(Memoised(a, s), m)
<1>1. scope = ModelTag(s, m) \cup VerbosityTag(a) \cup SystemTag(s, a.system) \cup ParamsTag(a)
    BY DEF ScopeOf, Memoised
<1>2. \A x : x \in ModelTag(s, m) <=> "model" \in s /\ x = <<"model", m>>
    BY DEF ModelTag, Tag
<1>3. \A x : x \in VerbosityTag(a) <=> a.verbosity # "plain" /\ x = <<"verbosity", a.verbosity>>
    BY DEF VerbosityTag, Tag
<1>4. \A x : x \in SystemTag(s, a.system) <=> "system" \in s /\ x = <<"system", a.system>>
    BY DEF SystemTag, Tag
<1>5. \A x : x \in ParamsTag(a) <=> a.params # "none" /\ x = <<"params", a.params>>
    BY DEF ParamsTag, Tag
<1>6. \A x, y, p, q : <<x, y>> = <<p, q>> <=> x = p /\ y = q
    OBVIOUS
<1> HIDE DEF scope
<1>7. \A x : x \in scope <=> \/ "model" \in s /\ x = <<"model", m>>
                             \/ a.verbosity # "plain" /\ x = <<"verbosity", a.verbosity>>
                             \/ "system" \in s /\ x = <<"system", a.system>>
                             \/ a.params # "none" /\ x = <<"params", a.params>>
    BY <1>1, <1>2, <1>3, <1>4, <1>5
<1>8. \A x : <<"model", x>> \in scope <=> "model" \in s /\ x = m
    BY <1>6, <1>7
<1>9. \A x : <<"system", x>> \in scope <=> "system" \in s /\ x = a.system
    BY <1>6, <1>7
<1>10. \A x : <<"verbosity", x>> \in scope <=> a.verbosity # "plain" /\ x = a.verbosity
    BY <1>6, <1>7
<1>11. \A x : <<"params", x>> \in scope <=> a.params # "none" /\ x = a.params
    BY <1>6, <1>7
<1>12. \A x : <<"literals", x>> \notin scope
    BY <1>6, <1>7
<1> QED BY <1>8, <1>9, <1>10, <1>11, <1>12 DEF Says, scope

(* Two requests with one scope have the same settings, prompt and model. *)
LEMMA ScopesTell ==
    ASSUME NEW a, NEW b, NEW s, NEW u, NEW m, NEW n,
           ScopeOf(Memoised(a, s), m) = ScopeOf(Memoised(b, u), n)
    PROVE  /\ a.params = b.params /\ a.verbosity = b.verbosity
           /\ "system" \in s => a.system = b.system
           /\ "model" \in s => m = n
<1> DEFINE p == ScopeOf(Memoised(a, s), m)
           q == ScopeOf(Memoised(b, u), n)
<1>1. Says(p, a, s, m)
    BY ScopeSays
<1>2. Says(q, b, u, n)
    BY ScopeSays
<1>3. p = q
    OBVIOUS
<1> HIDE DEF p, q
<1> QED BY <1>1, <1>2, <1>3, Zenon DEF Says

(* Two requests with one key ask the same. *)
LEMMA QuestionsTell ==
    ASSUME NEW a, NEW b, NEW s, NEW u, NEW m, NEW n,
           L2Scope(a, Memoised(a, s), m) = L2Scope(b, Memoised(b, u), n)
    PROVE  /\ a.literals = b.literals
           /\ ScopeOf(Memoised(a, s), m) = ScopeOf(Memoised(b, u), n)
<1> DEFINE p == ScopeOf(Memoised(a, s), m)
           q == ScopeOf(Memoised(b, u), n)
<1>1. p \cup LiteralTag(a) = q \cup LiteralTag(b)
    BY DEF L2Scope
<1>2. \A x : <<"literals", x>> \notin p /\ <<"literals", x>> \notin q
    BY ScopeSays DEF Says
<1>3. \A x : x \in LiteralTag(a) <=> a.literals # "none" /\ x = <<"literals", a.literals>>
    BY DEF LiteralTag, Tag
<1>4. \A x : x \in LiteralTag(b) <=> b.literals # "none" /\ x = <<"literals", b.literals>>
    BY DEF LiteralTag, Tag
<1>5. \A x, y : <<"literals", x>> = <<"literals", y>> => x = y
    OBVIOUS
<1> HIDE DEF p, q
<1>6. a.literals = b.literals
    <2>1. a.literals # "none" => a.literals = b.literals
        BY <1>1, <1>2, <1>3, <1>4, <1>5
    <2>2. b.literals # "none" => a.literals = b.literals
        BY <1>1, <1>2, <1>3, <1>4, <1>5
    <2> QED BY <2>1, <2>2
<1>7. p = q
    BY <1>1, <1>2, <1>3, <1>4
<1> QED BY <1>6, <1>7 DEF p, q

-----------------------------------------------------------------------------
(* Auto-TTL never makes more of a lifetime than LongestTtl says. *)
LEMMA ScaleIsNat == ASSUME NEW q \in Nat PROVE Scale(q) \in Nat
  BY CacheAssumption DEF Scale

(* A scaled lifetime is no longer than the unscaled one where the scale is at most one. *)
LEMMA ScaledGrows ==
    ASSUME NEW base \in Nat, NEW p \in Nat, NEW q \in Nat, p <= q
    PROVE  Scaled(base, p) \in Nat /\ Scaled(base, q) \in Nat /\ Scaled(base, p) <= Scaled(base, q)
<1>1. Scale(p) \in Nat /\ Scale(q) \in Nat /\ Scale(p) <= Scale(q)
    BY ScaleIsNat, CacheAssumption DEF Scale
<1>2. \A i, j, k \in Nat : i <= j => k * i <= k * j
    OBVIOUS
<1>3. \A i, j \in Nat : i <= j => i \div 4 <= j \div 4 /\ i \div 4 \in Nat
    OBVIOUS
<1>4. \A i, j \in Nat : i * j \in Nat
    OBVIOUS
<1> DEFINE x == base * Scale(p)
           y == base * Scale(q)
<1>5. x \in Nat /\ y \in Nat /\ x <= y
    BY <1>1, <1>2, <1>4
<1>6. Scaled(base, p) = (IF x \div 4 < 1 THEN 1 ELSE x \div 4)
    BY DEF Scaled
<1>7. Scaled(base, q) = (IF y \div 4 < 1 THEN 1 ELSE y \div 4)
    BY DEF Scaled
<1> HIDE DEF x, y
<1> QED BY <1>3, <1>5, <1>6, <1>7

(* The lifetime of an entry stays within the bound. *)
LEMMA TtlBound ==
    ASSUME NEW level \in {"L1", "L2", "STEP"}, NEW tenant
    PROVE  /\ RecommendedTtl(tenant, level) \in Nat /\ LongestTtl(level) \in Nat /\ Ttl[level] \in Nat
           /\ RecommendedTtl(tenant, level) <= LongestTtl(level)
           /\ Ttl[level] <= LongestTtl(level)
<1>1. Ttl[level] \in Nat
    BY CacheAssumption
<1>2. RecommendedTtl(tenant, level) \in {Ttl[level], Scaled(Ttl[level], 5), Scaled(Ttl[level], 3)}
    BY DEF RecommendedTtl
<1>3. Scaled(Ttl[level], 3) \in Nat /\ Scaled(Ttl[level], 5) \in Nat /\ Scaled(Ttl[level], 3) <= Scaled(Ttl[level], 5)
    BY <1>1, ScaledGrows
<1> QED BY <1>1, <1>2, <1>3 DEF LongestTtl

-----------------------------------------------------------------------------
(* What an entry remembers agrees with what it is filed under. *)
Kept(e, level) == e.until \in Int /\ e.filed \in Int /\ e.until - e.filed <= LongestTtl(level)

ExactOk(e) == Kept(e, "L1") /\ \E s : e.key = L1Key(e.of, Memoised(e.of, s), e.of.model)
StepOk(e) == Kept(e, "STEP") /\ e.key = StepKey(e.of)
LikeOk(e) ==
    /\ Kept(e, "L2") /\ e.tenant = e.of.tenant /\ e.meaning = e.of.meaning /\ Semantic(e.of)
    /\ \E s : e.scope = L2Scope(e.of, Memoised(e.of, s), e.model)
(* A row without an expires_at is never served. *)
RowOk(e) == e.until = 0 \/ LikeOk(e)

(* A caller's tags are those of the request as it was sent. *)
TagsOk(c) ==
    /\ stage[c] = "new" => hit[c].level = "none"
    /\ stage[c] # "new" => \E s : /\ tags[c].memo = Memoised(asked[c], s)
                                  /\ tags[c].key = L1Key(asked[c], tags[c].memo, asked[c].model)
    /\ stage[c] = "lookup" => now_is[c] = asked[c]

(* HitsAreAlike, of one caller. *)
HitOk(c) ==
    hit[c].level # "none" =>
        LET a == asked[c]
            b == hit[c].of
        IN  /\ a.tenant = b.tenant
            /\ hit[c].at - hit[c].filed < LongestTtl(hit[c].level)
            /\ hit[c].level = "STEP" => a.step = b.step
            /\ hit[c].level # "STEP" =>
                  /\ a.params = b.params /\ a.verbosity = b.verbosity
                  /\ "system" \in tags[c].memo.scope => a.system = b.system
                  /\ "model" \in tags[c].memo.scope => a.model \in {b.model, hit[c].model}
            /\ hit[c].level = "L1" => a.words = b.words /\ a.system = b.system /\ a.form = b.form
            /\ hit[c].level = "L2" =>
                  /\ a.meaning = b.meaning /\ a.literals = b.literals
                  /\ {a.form, b.form} = {"question"} /\ a.semantic /\ b.semantic

CacheInv ==
    /\ clock \in Nat
    /\ \A f \in {asked, now_is, tags, stage, hit} : DOMAIN f = Callers
    /\ \A e \in l1 : ExactOk(e)
    /\ \A e \in cache_l2 : RowOk(e)
    /\ \A e \in stepped : StepOk(e)
    /\ \A c \in Callers : TagsOk(c) /\ HitOk(c)

(* The cache starts with the rows of an earlier version, which no scope names. *)
LEMMA CacheStart == ResponseInit => CacheInv
<1> SUFFICES ASSUME ResponseInit PROVE CacheInv
    OBVIOUS
<1>1. \A c \in Callers : hit[c].level = "none" /\ stage[c] = "new"
    BY DEF ResponseInit, Nothing
<1>2. \A c \in Callers : TagsOk(c) /\ HitOk(c)
    BY <1>1 DEF TagsOk, HitOk
<1>3. \A e \in cache_l2 : RowOk(e)
    BY DEF ResponseInit, OldRows, RowOk
<1> QED BY <1>2, <1>3 DEF ResponseInit, CacheInv

(* A caller's step that changes its stage, what is in its way and what it was served. *)
LEMMA CallerMoves ==
    ASSUME CacheInv, NEW c \in Callers, clock' = clock,
           \A f \in {asked', now_is', tags', stage', hit'} : DOMAIN f = Callers,
           \A d \in Callers \ {c} : /\ asked'[d] = asked[d] /\ now_is'[d] = now_is[d]
                                    /\ tags'[d] = tags[d] /\ stage'[d] = stage[d] /\ hit'[d] = hit[d],
           TagsOk(c)', HitOk(c)',
           \A e \in l1' : ExactOk(e), \A e \in cache_l2' : RowOk(e), \A e \in stepped' : StepOk(e)
    PROVE  CacheInv'
<1>1. \A d \in Callers \ {c} : TagsOk(d)' /\ HitOk(d)'
    BY DEF CacheInv, TagsOk, HitOk
<1>2. \A e : ExactOk(e)' <=> ExactOk(e)
    BY DEF ExactOk, Kept
<1>3. \A e : StepOk(e)' <=> StepOk(e)
    BY DEF StepOk, Kept
<1>4. \A e : RowOk(e)' <=> RowOk(e)
    BY DEF RowOk, LikeOk, Kept
<1> QED BY <1>1, <1>2, <1>3, <1>4 DEF CacheInv

(* A request arrives with its question. *)
LEMMA ArriveKeeps == ASSUME CacheInv, NEW c \in Callers, Arrive(c) PROVE CacheInv'
<1>1. PICK a \in Asks[c], s \in CacheScopes :
         /\ asked' = [asked EXCEPT ![c] = a] /\ now_is' = [now_is EXCEPT ![c] = a]
         /\ tags' = [tags EXCEPT ![c] = [memo |-> Memoised(a, s), key |-> L1Key(a, Memoised(a, s), a.model)]]
    BY DEF Arrive
<1>2. /\ stage[c] = "new" /\ stage' = [stage EXCEPT ![c] = "lookup"]
      /\ UNCHANGED <<hit, l1, cache_l2, stepped, clock>>
    BY DEF Arrive, MoveTo
<1>3. \A f \in {asked, now_is, tags, stage, hit} : DOMAIN f = Callers
    BY DEF CacheInv
<1> DEFINE memo == Memoised(a, s)
           tag == [memo |-> memo, key |-> L1Key(a, memo, a.model)]
<1>4. asked'[c] = a /\ now_is'[c] = a /\ stage'[c] = "lookup" /\ hit'[c].level = "none"
    BY <1>1, <1>2, <1>3 DEF CacheInv, TagsOk
<1>5. tags'[c].memo = memo /\ tags'[c].key = L1Key(a, memo, a.model)
    BY <1>1, <1>3
<1>6. TagsOk(c)'
    BY <1>4, <1>5 DEF TagsOk
<1>7. HitOk(c)'
    BY <1>4 DEF HitOk
<1> QED BY <1>1, <1>2, <1>3, <1>6, <1>7, CallerMoves DEF CacheInv

(* Serving an entry that was found. *)
LEMMA ServeKeeps ==
    ASSUME CacheInv, NEW c \in Callers, stage[c] = "lookup", NEW e, NEW level \in {"L1", "L2", "STEP"},
           ServeFrom(c, e, level), Alive(e),
           level = "L1" => e \in FoundL1(c), level = "L2" => e \in FoundL2(c),
           level = "STEP" => e \in FoundStep(c),
           UNCHANGED <<asked, now_is, tags, l1, cache_l2, stepped, clock>>
    PROVE  CacheInv'
<1>1. \A f \in {asked, now_is, tags, stage, hit} : DOMAIN f = Callers
    BY DEF CacheInv
<1> DEFINE h == [level |-> level, of |-> e.of, model |-> e.model, filed |-> e.filed, at |-> clock]
           a == asked[c]
           b == e.of
<1>2. hit' = [hit EXCEPT ![c] = h] /\ stage' = [stage EXCEPT ![c] = "served"]
    BY DEF ServeFrom, MoveTo
<1>3. hit'[c] = h /\ stage'[c] = "served"
    BY <1>1, <1>2
<1>4. h.level = level /\ h.of = b /\ h.model = e.model /\ h.filed = e.filed /\ h.at = clock
    OBVIOUS
<1>5. PICK u : /\ tags[c].memo = Memoised(a, u)
               /\ tags[c].key = L1Key(a, tags[c].memo, a.model)
    BY DEF CacheInv, TagsOk
<1>6. tags[c].memo.scope = u
    BY <1>5 DEF Memoised
<1>7. now_is[c] = a
    BY DEF CacheInv, TagsOk
<1>8. TagsOk(c)'
    BY <1>3, <1>5 DEF TagsOk
<1>9. Kept(e, level) => clock - e.filed < LongestTtl(level)
    <2>1. LongestTtl(level) \in Nat
        BY TtlBound
    <2> QED BY <2>1 DEF Kept, Alive, CacheInv
<1> HIDE DEF h
<1>10. CASE level = "L1"
    <2>1. ExactOk(e) /\ e.key = tags[c].key
        BY <1>10 DEF FoundL1, CacheInv
    <2>2. PICK s : e.key = L1Key(b, Memoised(b, s), b.model)
        BY <2>1 DEF ExactOk
    <2>3. L1Key(a, Memoised(a, u), a.model) = L1Key(b, Memoised(b, s), b.model)
        BY <1>5, <2>1, <2>2
    <2>4. /\ a.tenant = b.tenant /\ a.system = b.system /\ a.form = b.form /\ a.words = b.words
          /\ ScopeOf(Memoised(a, u), a.model) = ScopeOf(Memoised(b, s), b.model)
        BY <2>3 DEF L1Key
    <2>5. /\ a.params = b.params /\ a.verbosity = b.verbosity
          /\ "model" \in u => a.model = b.model
        BY <2>4, ScopesTell
    <2>6. HitOk(c)'
        BY <1>3, <1>4, <1>6, <1>9, <1>10, <2>1, <2>4, <2>5 DEF HitOk, ExactOk
    <2> QED BY <1>1, <1>2, <1>8, <2>6, CallerMoves DEF CacheInv
<1>11. CASE level = "L2"
    <2>1. e \in cache_l2 /\ Semantic(a) /\ e.tenant = a.tenant /\ e.meaning = a.meaning
          /\ e.scope = L2Scope(a, tags[c].memo, a.model)
        BY <1>7, <1>11 DEF FoundL2
    <2>2. RowOk(e) /\ e.until # 0
        BY <2>1 DEF CacheInv, Alive
    <2>3. LikeOk(e)
        BY <2>2 DEF RowOk
    <2>4. PICK s : e.scope = L2Scope(b, Memoised(b, s), e.model)
        BY <2>3 DEF LikeOk
    <2>5. L2Scope(a, Memoised(a, u), a.model) = L2Scope(b, Memoised(b, s), e.model)
        BY <1>5, <2>1, <2>4
    <2>6. a.literals = b.literals /\ ScopeOf(Memoised(a, u), a.model) = ScopeOf(Memoised(b, s), e.model)
        BY <2>5, QuestionsTell
    <2>7. /\ a.params = b.params /\ a.verbosity = b.verbosity
          /\ "system" \in u => a.system = b.system
          /\ "model" \in u => a.model = e.model
        BY <2>6, ScopesTell
    <2>8. a.tenant = b.tenant /\ a.meaning = b.meaning /\ a.form = "question" /\ b.form = "question"
          /\ a.semantic /\ b.semantic
        BY <2>1, <2>3 DEF LikeOk, Semantic
    <2>9. HitOk(c)'
        BY <1>3, <1>4, <1>6, <1>9, <1>11, <2>3, <2>6, <2>7, <2>8 DEF HitOk, LikeOk
    <2> QED BY <1>1, <1>2, <1>8, <2>9, CallerMoves DEF CacheInv
<1>12. CASE level = "STEP"
    <2>1. StepOk(e) /\ e.key = StepKey(a)
        BY <1>12 DEF FoundStep, CacheInv
    <2>2. a.tenant = b.tenant /\ a.step = b.step
        BY <2>1 DEF StepOk, StepKey
    <2>3. HitOk(c)'
        BY <1>3, <1>4, <1>9, <1>12, <2>1, <2>2 DEF HitOk, StepOk
    <2> QED BY <1>1, <1>2, <1>8, <2>3, CallerMoves DEF CacheInv
<1> QED BY <1>10, <1>11, <1>12

(* It is looked up, and perhaps served. *)
LEMMA LookUpKeeps == ASSUME CacheInv, NEW c \in Callers, LookUp(c) PROVE CacheInv'
<1>1. stage[c] = "lookup" /\ UNCHANGED <<asked, now_is, tags, l1, cache_l2, stepped, clock>>
    BY DEF LookUp
<1>2. \/ \E e \in FoundL1(c) : ServeFrom(c, e, "L1")
      \/ \E e \in FoundL2(c) : ServeFrom(c, e, "L2")
      \/ \E e \in FoundStep(c) : ServeFrom(c, e, "STEP")
      \/ MoveTo(c, "answer") /\ UNCHANGED hit
    BY DEF LookUp
<1>3. CASE \E e \in FoundL1(c) : ServeFrom(c, e, "L1")
    <2>1. PICK e \in FoundL1(c) : ServeFrom(c, e, "L1")
        BY <1>3
    <2>2. Alive(e)
        BY DEF FoundL1
    <2> QED BY <1>1, <2>1, <2>2, ServeKeeps
<1>4. CASE \E e \in FoundL2(c) : ServeFrom(c, e, "L2")
    <2>1. PICK e \in FoundL2(c) : ServeFrom(c, e, "L2")
        BY <1>4
    <2>2. Alive(e)
        BY DEF FoundL2
    <2> QED BY <1>1, <2>1, <2>2, ServeKeeps
<1>5. CASE \E e \in FoundStep(c) : ServeFrom(c, e, "STEP")
    <2>1. PICK e \in FoundStep(c) : ServeFrom(c, e, "STEP")
        BY <1>5
    <2>2. Alive(e)
        BY DEF FoundStep
    <2> QED BY <1>1, <2>1, <2>2, ServeKeeps
<1>6. CASE MoveTo(c, "answer") /\ UNCHANGED hit
    <2>1. \A f \in {asked, now_is, tags, stage, hit} : DOMAIN f = Callers
        BY DEF CacheInv
    <2>2. stage' = [stage EXCEPT ![c] = "answer"] /\ stage'[c] = "answer"
        BY <1>6, <2>1 DEF MoveTo
    <2>3. TagsOk(c)'
        BY <1>1, <1>6, <2>2 DEF CacheInv, TagsOk
    <2>4. HitOk(c)'
        BY <1>1, <1>6 DEF CacheInv, HitOk
    <2> QED BY <1>1, <1>6, <2>1, <2>2, <2>3, <2>4, CallerMoves DEF CacheInv
<1> QED BY <1>2, <1>3, <1>4, <1>5, <1>6

(* The later stages change it. *)
LEMMA StagesKeep == ASSUME CacheInv, NEW c \in Callers, LaterStagesRun(c) PROVE CacheInv'
<1>1. PICK a : now_is' = [now_is EXCEPT ![c] = a]
    BY DEF LaterStagesRun
<1>2. /\ stage[c] = "answer" /\ stage' = [stage EXCEPT ![c] = "store"]
      /\ UNCHANGED <<asked, tags, hit, l1, cache_l2, stepped, clock>>
    BY DEF LaterStagesRun, MoveTo
<1>3. \A f \in {asked, now_is, tags, stage, hit} : DOMAIN f = Callers
    BY DEF CacheInv
<1>4. TagsOk(c)'
    BY <1>2, <1>3 DEF CacheInv, TagsOk
<1>5. HitOk(c)'
    BY <1>2 DEF CacheInv, HitOk
<1> QED BY <1>1, <1>2, <1>3, <1>4, <1>5, CallerMoves DEF CacheInv

(* What a store files is filed under the tags of the lookup. *)
LEMMA FiledOk ==
    ASSUME CacheInv, NEW c \in Callers, stage[c] = "store"
    PROVE  /\ ExactOk(Filed(c, tags[c].key, RecommendedTtl(asked[c].tenant, "L1")))
           /\ StepOk(Filed(c, StepKey(asked[c]), Ttl["STEP"]))
           /\ Semantic(asked[c]) => RowOk(RowOf(c))
<1>1. PICK s : /\ tags[c].memo = Memoised(asked[c], s)
               /\ tags[c].key = L1Key(asked[c], tags[c].memo, asked[c].model)
    BY DEF CacheInv, TagsOk
<1>2. clock \in Nat
    BY DEF CacheInv
<1>3. \A level \in {"L1", "L2", "STEP"} :
         /\ RecommendedTtl(asked[c].tenant, level) \in Nat /\ LongestTtl(level) \in Nat /\ Ttl[level] \in Nat
         /\ RecommendedTtl(asked[c].tenant, level) <= LongestTtl(level)
         /\ Ttl[level] <= LongestTtl(level)
    BY TtlBound
<1>4. ExactOk(Filed(c, tags[c].key, RecommendedTtl(asked[c].tenant, "L1")))
    <2> DEFINE ttl == RecommendedTtl(asked[c].tenant, "L1")
               e == Filed(c, tags[c].key, ttl)
    <2>1. e.key = tags[c].key /\ e.of = asked[c] /\ e.filed = clock /\ e.until = clock + ttl
        BY DEF Filed
    <2>2. ttl \in Nat /\ LongestTtl("L1") \in Nat /\ ttl <= LongestTtl("L1")
        BY <1>3
    <2> HIDE DEF e, ttl
    <2>3. Kept(e, "L1")
        BY <1>2, <2>1, <2>2 DEF Kept
    <2> QED BY <1>1, <2>1, <2>3 DEF ExactOk, e, ttl
<1>5. StepOk(Filed(c, StepKey(asked[c]), Ttl["STEP"]))
    <2> DEFINE ttl == Ttl["STEP"]
               e == Filed(c, StepKey(asked[c]), ttl)
    <2>1. e.key = StepKey(asked[c]) /\ e.of = asked[c] /\ e.filed = clock /\ e.until = clock + ttl
        BY DEF Filed
    <2>2. ttl \in Nat /\ LongestTtl("STEP") \in Nat /\ ttl <= LongestTtl("STEP")
        BY <1>3
    <2> HIDE DEF e, ttl
    <2>3. Kept(e, "STEP")
        BY <1>2, <2>1, <2>2 DEF Kept
    <2> QED BY <2>1, <2>3 DEF StepOk, e, ttl
<1>6. ASSUME Semantic(asked[c]) PROVE RowOk(RowOf(c))
    <2> DEFINE ttl == RecommendedTtl(asked[c].tenant, "L2")
               e == RowOf(c)
    <2>1. /\ e.tenant = asked[c].tenant /\ e.meaning = asked[c].meaning /\ e.of = asked[c]
          /\ e.scope = L2Scope(asked[c], tags[c].memo, now_is[c].model) /\ e.model = now_is[c].model
          /\ e.filed = clock /\ e.until = clock + ttl
        BY DEF RowOf, RowIn
    <2>2. ttl \in Nat /\ LongestTtl("L2") \in Nat /\ ttl <= LongestTtl("L2")
        BY <1>3
    <2> HIDE DEF e, ttl
    <2>3. Kept(e, "L2")
        BY <1>2, <2>1, <2>2 DEF Kept
    <2>4. e.scope = L2Scope(e.of, Memoised(e.of, s), e.model)
        BY <1>1, <2>1
    <2>5. LikeOk(e)
        BY <1>6, <2>1, <2>3, <2>4 DEF LikeOk
    <2> QED BY <2>5 DEF RowOk, e
<1> QED BY <1>4, <1>5, <1>6

(* The purge only takes rows away. *)
LEMMA PurgeTakes == ASSUME NEW rows, NEW tenant, NEW p \in Purges(rows, tenant) PROVE p.rows \subseteq rows
<1> DEFINE dead == {e \in rows : e.tenant = tenant /\ ~Alive(e)}
           n == IF Cardinality(dead) < PurgeBatch THEN Cardinality(dead) ELSE PurgeBatch
           next == [next_purge EXCEPT ![tenant] = IF n >= PurgeBatch THEN clock ELSE clock + PurgeInterval]
<1>1. CASE clock < next_purge[tenant]
    <2>1. p = [rows |-> rows, next |-> next_purge]
        BY <1>1 DEF Purges
    <2> QED BY <2>1
<1>2. CASE ~(clock < next_purge[tenant])
    <2>1. Purges(rows, tenant) = {[rows |-> rows \ gone, next |-> next] : gone \in {g \in SUBSET dead : Cardinality(g) = n}}
        BY <1>2 DEF Purges
    <2> HIDE DEF next, n
    <2>2. PICK gone \in {g \in SUBSET dead : Cardinality(g) = n} : p = [rows |-> rows \ gone, next |-> next]
        BY <2>1
    <2> QED BY <2>2
<1> QED BY <1>1, <1>2

(* Its answer is stored under the key and the scope of its arrival. *)
LEMMA StoreKeepsEntries == ASSUME CacheInv, NEW c \in Callers, StoreResponse(c) PROVE CacheInv'
<1> DEFINE exact == Filed(c, tags[c].key, RecommendedTtl(asked[c].tenant, "L1"))
           named == Filed(c, StepKey(asked[c]), Ttl["STEP"])
           rows == Upserted(RowOf(c))
<1>1. /\ stage[c] = "store" /\ stage' = [stage EXCEPT ![c] = "stored"]
      /\ UNCHANGED <<asked, now_is, tags, hit, clock>>
    BY DEF StoreResponse, MoveTo
<1>2. \A p \in Purges(rows, asked[c].tenant) : p.rows \subseteq rows
    BY PurgeTakes
<1>3. l1' = l1 \/ l1' = Replace(l1, exact)
    BY DEF StoreResponse
<1>4. stepped' = stepped \/ stepped' = Replace(stepped, named)
    BY DEF StoreResponse
<1>5. cache_l2' = cache_l2 \/ (Semantic(asked[c]) /\ cache_l2' \subseteq rows)
    <2>1. \E F : \E p \in Purges(rows, asked[c].tenant) :
             \/ cache_l2' = cache_l2
             \/ /\ Semantic(asked[c])
                /\ cache_l2' = IF "purge" \in F THEN rows ELSE p.rows
        <3> HIDE DEF rows
        <3> QED BY DEF StoreResponse, rows
    <2> QED BY <1>2, <2>1
<1>6. /\ ExactOk(exact) /\ StepOk(named)
      /\ Semantic(asked[c]) => RowOk(RowOf(c))
    BY <1>1, FiledOk
<1> HIDE DEF exact, named
<1>7. \A e \in l1' : ExactOk(e)
    BY <1>3, <1>6 DEF Replace, CacheInv
<1>8. \A e \in stepped' : StepOk(e)
    BY <1>4, <1>6 DEF Replace, CacheInv
<1>9. \A e \in cache_l2' : RowOk(e)
    BY <1>5, <1>6 DEF Upserted, CacheInv
<1>10. \A f \in {asked, now_is, tags, stage, hit} : DOMAIN f = Callers
    BY DEF CacheInv
<1>11. TagsOk(c)'
    BY <1>1, <1>10 DEF CacheInv, TagsOk
<1>12. HitOk(c)'
    BY <1>1 DEF CacheInv, HitOk
<1> QED BY <1>1, <1>7, <1>8, <1>9, <1>10, <1>11, <1>12, CallerMoves

(* The steps that touch neither an entry nor a caller. *)
LEMMA OthersKeep ==
    ASSUME CacheInv, CacheClock \/ UNCHANGED <<asked, now_is, tags, stage, hit, l1, cache_l2, stepped, clock>>
    PROVE  CacheInv'
<1>1. UNCHANGED <<asked, now_is, tags, stage, hit, l1, cache_l2, stepped>> /\ clock' \in Nat
    BY DEF CacheClock, CacheInv
<1> QED BY <1>1 DEF CacheInv, TagsOk, HitOk, ExactOk, RowOk, LikeOk, StepOk, Kept

(* Every step keeps it. *)
LEMMA CacheKeep == CacheInv /\ [AnswersNext \/ IndexNext]_responseVars => CacheInv'
<1> SUFFICES ASSUME CacheInv, [AnswersNext \/ IndexNext]_responseVars PROVE CacheInv'
    OBVIOUS
<1>1. CASE UNCHANGED responseVars
    BY <1>1, OthersKeep DEF responseVars, answerVars
<1>2. CASE IndexNext
    BY <1>2, OthersKeep DEF IndexNext
<1>3. CASE AnswersNext
    BY <1>3, OthersKeep, ArriveKeeps, LookUpKeeps, StagesKeep, StoreKeepsEntries DEF AnswersNext, AnswerStep
<1> QED BY <1>1, <1>2, <1>3

(* Whatever callers interleave, an answer served from the cache was made for the request it is
   served to, by the same tenant (_literal_scope_tag, _L2_LOOKUP_SQL, get_recommended_ttl):
   HitsAreAlike, a part of CacheIsSound. *)
THEOREM HitsAlwaysAlike == ResponseSpec => []HitsAreAlike
<1>1. CacheInv => HitsAreAlike
    BY DEF CacheInv, HitOk, HitsAreAlike
<1> QED BY <1>1, CacheStart, CacheKeep, PTL DEF ResponseSpec

-----------------------------------------------------------------------------
(* Which process is on the way to an index, when there is none to use. *)
IndexInv ==
    /\ build \in [Builders -> {"check", "drop", "create", "building", "ready", "failed"}]
    /\ index \in {"absent", "building", "invalid", "valid"}
    /\ index = "building" <=> \E b \in Builders : build[b] = "building"
    /\ \A b, d \in Builders : build[b] = "building" /\ build[d] = "building" => b = d
    /\ index = "absent" => \E b \in Builders : build[b] \in {"check", "drop", "create", "failed"}
    /\ index = "invalid" => \E b \in Builders : build[b] \in {"check", "drop", "failed"}

(* The index has not been built. *)
LEMMA IndexStart == ResponseInit /\ Builders # {} => IndexInv
  BY DEF ResponseInit, IndexInv

(* Every step keeps it. *)
LEMMA IndexKeeps == IndexInv /\ [AnswersNext \/ IndexNext]_responseVars => IndexInv'
<1> SUFFICES ASSUME IndexInv, [AnswersNext \/ IndexNext]_responseVars PROVE IndexInv'
    OBVIOUS
<1>1. CASE UNCHANGED indexVars
    BY <1>1 DEF IndexInv, indexVars
<1>2. ASSUME NEW b \in Builders, CheckIndex(b) PROVE IndexInv'
    <2>1. \A d \in Builders \ {b} : build'[d] = build[d]
        BY <1>2 DEF IndexInv, CheckIndex
    <2>2. /\ build[b] = "check" /\ index' = index
          /\ build'[b] = CASE index = "valid" -> "ready" [] index = "absent" -> "create" [] OTHER -> "drop"
          /\ build' \in [Builders -> {"check", "drop", "create", "building", "ready", "failed"}]
        BY <1>2 DEF IndexInv, CheckIndex
    <2> QED BY <2>1, <2>2 DEF IndexInv
<1>3. ASSUME NEW b \in Builders, DropIndex(b) PROVE IndexInv'
    <2>1. \A d \in Builders \ {b} : build'[d] = build[d]
        BY <1>3 DEF IndexInv, DropIndex
    <2>2. /\ build[b] = "drop" /\ index # "building"
          /\ \/ index' = "absent" /\ build'[b] = "create"
             \/ index' = index /\ build'[b] = IF index = "valid" THEN "ready" ELSE "failed"
          /\ build' \in [Builders -> {"check", "drop", "create", "building", "ready", "failed"}]
        BY <1>3 DEF IndexInv, DropIndex
    <2> QED BY <2>1, <2>2 DEF IndexInv
<1>4. ASSUME NEW b \in Builders, CreateIndex(b) PROVE IndexInv'
    <2>1. \A d \in Builders \ {b} : build'[d] = build[d]
        BY <1>4 DEF IndexInv, CreateIndex
    <2>2. /\ build[b] = "create" /\ index # "building"
          /\ IF index = "absent" THEN index' = "building" /\ build'[b] = "building"
                                 ELSE index' = index /\ build'[b] = "ready"
          /\ build' \in [Builders -> {"check", "drop", "create", "building", "ready", "failed"}]
        BY <1>4 DEF IndexInv, CreateIndex
    <2> QED BY <2>1, <2>2 DEF IndexInv
<1>5. ASSUME NEW b \in Builders, FinishIndex(b) PROVE IndexInv'
    <2>1. \A d \in Builders \ {b} : build'[d] = build[d]
        BY <1>5 DEF IndexInv, FinishIndex
    <2>2. /\ build[b] = "building"
          /\ \/ index' = "valid" /\ build'[b] = "ready"
             \/ index' = "invalid" /\ build'[b] = "failed"
          /\ build' \in [Builders -> {"check", "drop", "create", "building", "ready", "failed"}]
        BY <1>5 DEF IndexInv, FinishIndex
    <2> QED BY <2>1, <2>2 DEF IndexInv
<1>6. ASSUME NEW b \in Builders, Reensure(b) PROVE IndexInv'
    <2>1. \A d \in Builders \ {b} : build'[d] = build[d]
        BY <1>6 DEF IndexInv, Reensure
    <2>2. /\ build[b] \in {"ready", "failed"} /\ index' = index /\ build'[b] = "check"
          /\ build' \in [Builders -> {"check", "drop", "create", "building", "ready", "failed"}]
        BY <1>6 DEF IndexInv, Reensure
    <2> QED BY <2>1, <2>2 DEF IndexInv
<1> QED BY <1>1, <1>2, <1>3, <1>4, <1>5, <1>6 DEF AnswersNext, IndexNext, IndexStep, responseVars

(* Once the build of every process has returned True the lookups' index is valid, whichever
   process dropped what another had built (_build_l2_vector_index): IndexIsBuilt, a part of
   CacheIsSound.  With no process at all there is nothing to have built it. *)
THEOREM IndexAlwaysBuilt == ResponseSpec /\ Builders # {} => []IndexIsBuilt
<1>1. IndexInv => IndexIsBuilt
    BY DEF IndexInv, IndexIsBuilt
<1> QED BY <1>1, IndexStart, IndexKeeps, PTL DEF ResponseSpec
=============================================================================
