-------------------------- MODULE ScoresCacheProofs --------------------------
(***************************************************************************)
(* Proofs about the moves of points, for any teams, flags, thefts and      *)
(* times.  Paying once rests on the rows themselves: a paid flag has rows  *)
(* of its time, the watermark is never behind the rows (WatermarkOK), and  *)
(* a flag is taken only beyond the watermark.  Moving points without       *)
(* making any rests on the sum of a function over a finite set.            *)
(***************************************************************************)
EXTENDS ScoresCache, FiniteSetTheorems, NaturalsInduction,
        WellFoundedInduction, TLAPS

\* What Max and Min choose.
LEMMA MaxDef ==
  ASSUME NEW S, NEW m \in S, S \subseteq Int, \A y \in S : y <= m
  PROVE  Max(S) = m
<1>1. \E x \in S : \A y \in S : x >= y
  OBVIOUS
<1>2. Max(S) \in S /\ \A y \in S : Max(S) >= y
  BY <1>1 DEF Max
<1>3. Max(S) \in Int /\ m \in Int
  BY <1>2
<1>4. Max(S) >= m /\ Max(S) <= m
  BY <1>2
<1> QED
  BY <1>3, <1>4

LEMMA MinDef ==
  ASSUME NEW a \in Int, NEW b \in Int
  PROVE  Min({a, b}) = IF a <= b THEN a ELSE b
<1>1. \E x \in {a, b} : \A y \in {a, b} : x <= y
  OBVIOUS
<1>2. Min({a, b}) \in {a, b} /\ \A y \in {a, b} : Min({a, b}) <= y
  BY <1>1 DEF Min
<1> QED
  BY <1>2

\* The last row of a team is one of its rows, and none is later.
LEMMA LastRowIs ==
  ASSUME TypeOK, TableOK, table # {}, NEW t \in Teams
  PROVE  /\ LastRow(t) \in table /\ LastRow(t).team = t
         /\ LastRow(t).time \in Int /\ LastRow(t).score \in Int
         /\ \A q \in table : q.team = t => q.time <= LastRow(t).time
<1>1. LastRows(t) # {}
  BY DEF TableOK
<1>2. LastRow(t) \in Rows(t) /\ \A q \in Rows(t) : q.time <= LastRow(t).time
  BY <1>1 DEF LastRow, LastRows
<1> QED
  BY <1>2 DEF Rows, TypeOK

\* The last known time is that of the latest row of all.
LEMMA LastKnownIs ==
  ASSUME TypeOK, TableOK, table # {}
  PROVE  /\ GetLastKnownTime \in Int
         /\ \A q \in table : q.time <= GetLastKnownTime
<1>1. PICK r \in table : \A q \in table : q.time <= r.time
  BY DEF TableOK
<1>2. r.team \in Teams /\ r.time \in Int
  BY DEF TypeOK
<1>3. LastRow(r.team).time = r.time
  <2>1. LastRow(r.team).time \in Int /\ LastRow(r.team) \in table
    BY <1>2, LastRowIs
  <2>2. r.time <= LastRow(r.team).time
    BY <1>2, LastRowIs
  <2> QED
    BY <1>1, <1>2, <2>1, <2>2
<1> DEFINE S == {LastTime(t) : t \in Teams}
<1>4. S \subseteq Int
  BY LastRowIs DEF LastTime
<1>5. r.time \in S
  BY <1>2, <1>3 DEF LastTime
<1>6. \A y \in S : y <= r.time
  BY <1>1, LastRowIs DEF LastTime
<1>7. Max(S) = r.time
  <2> HIDE DEF S
  <2> QED
    BY <1>4, <1>5, <1>6, MaxDef
<1> QED
  BY <1>1, <1>2, <1>7 DEF GetLastKnownTime

\* A transaction only moves what the owner has.
LEMMA Fee ==
  ASSUME TypeOK, ScoresOK
  PROVE  /\ ScoreFromOwner \in Int /\ ScoreFromOwner >= 0
         /\ ownerTotal - ScoreFromOwner >= 0
<1>1. Unit * Cardinality(Teams) \in Nat
  BY ScoresCacheAssumption, FS_CardinalityType
<1>2. ownerTotal \in Int /\ ownerTotal >= 0
  BY DEF TypeOK, ScoresOK
<1> QED
  BY <1>1, <1>2, MinDef DEF ScoreFromOwner

LEMMA Division ==
  ASSUME NEW a \in Nat, NEW b \in Nat \ {0}
  PROVE  a \div b \in Nat
OBVIOUS

\* The share of a thief is a number of units.
LEMMA Share ==
  ASSUME TypeOK, ScoresOK, BatchOK, InTransaction
  PROVE  ScoreToEachAttacker \in Nat
<1>1. Attackers(flag.data) \subseteq Teams
  BY ScoresCacheAssumption DEF Attackers, Grouped, TypeOK
<1>2. Attackers(flag.data) # {}
  <2>1. flag \in batch
    BY DEF BatchOK
  <2>2. flag.thief \in Attackers(flag.data)
    BY <2>1 DEF Attackers, Grouped
  <2> QED
    BY <2>2
<1>3. IsFiniteSet(Attackers(flag.data))
  BY <1>1, ScoresCacheAssumption, FS_Subset
<1>4. Cardinality(Attackers(flag.data)) \in Nat \ {0}
  BY <1>2, <1>3, FS_CardinalityType, FS_EmptySet
<1>5. ScoreFromOwner \in Nat
  BY Fee
<1> QED
  BY <1>4, <1>5, Division DEF ScoreToEachAttacker

LEMMA InitInv == Init => IInv
<1> SUFFICES ASSUME Init PROVE IInv
  OBVIOUS
<1> USE ScoresCacheAssumption
<1>1. TypeOK
  BY DEF Init, TypeOK
<1>2. TableOK
  BY DEF Init, TableOK
<1>3. WatermarkOK /\ TxnOK /\ ScoresOK /\ BatchOK
  BY DEF Init, WatermarkOK, TxnOK, ScoresOK, BatchOK, InTransaction
<1>4. NoDebts /\ PaidOnce /\ TimelyThievesPaid
  BY DEF Init, NoDebts, PaidOnce, TimelyThievesPaid
<1> QED
  BY <1>1, <1>2, <1>3, <1>4 DEF IInv

\* What a step keeps that changes neither the tables nor the clock.
LEMMA TablesKeep ==
  ASSUME IInv, now' = now, thefts' = thefts, late' = late, table' = table,
         paid' = paid, paidTo' = paidTo,
         table = {} => pc' \in {"start", "down"}
  PROVE  TableOK' /\ NoDebts' /\ PaidOnce' /\ TimelyThievesPaid'
<1>1. TableOK'
  BY DEF IInv, TableOK, LastRows, Rows, Rotten
<1>2. NoDebts' /\ PaidOnce' /\ TimelyThievesPaid'
  BY DEF IInv, NoDebts, PaidOnce, TimelyThievesPaid
<1> QED
  BY <1>1, <1>2

LEMMA CreateInv == ASSUME IInv, CreateInitStateInDb PROVE IInv'
<1> USE ScoresCacheAssumption
<1>0. /\ TypeOK /\ TableOK /\ WatermarkOK /\ TxnOK /\ ScoresOK /\ BatchOK
      /\ NoDebts /\ PaidOnce /\ TimelyThievesPaid
  BY DEF IInv
<1>1. /\ pc = "start" /\ table = {}
      /\ table' = {[time |-> 0, team |-> t, score |-> Initial] : t \in Teams}
      /\ now' = now /\ accepted' = accepted /\ thefts' = thefts /\ late' = late
      /\ txn' = txn /\ pc' = pc /\ state' = state /\ last' = last
      /\ batch' = batch /\ flagTimes' = flagTimes /\ flag' = flag
      /\ ownerTotal' = ownerTotal /\ list' = list
      /\ failed' = failed /\ selfStolen' = selfStolen
      /\ paid' = paid /\ paidTo' = paidTo
  BY DEF CreateInitStateInDb, clock, thieves, job, history
<1>2. \A r \in table' : r.time = 0 /\ r.score = Initial
  BY <1>1
<1>3. table' # {}
  <2>1. PICK t \in Teams : TRUE
    OBVIOUS
  <2>2. [time |-> 0, team |-> t, score |-> Initial] \in table'
    BY <1>1
  <2> QED
    BY <2>2
<1>4. TypeOK'
  BY <1>0, <1>1 DEF TypeOK
<1>5. TableOK'
  <2>1. \E r \in table' : \A q \in table' : q.time <= r.time
    BY <1>2, <1>3
  <2>2. ASSUME NEW t \in Teams
        PROVE  LastRows(t)' # {}
    <3> DEFINE r == [time |-> 0, team |-> t, score |-> Initial]
    <3>1. r \in Rows(t)'
      BY <1>1 DEF Rows
    <3> QED
      BY <3>1, <1>2 DEF LastRows, Rows
  <2>3. \A f \in Flags : paid[f] = 0
    BY <1>0, <1>1 DEF TableOK, TypeOK
  <2> QED
    BY <1>1, <1>3, <2>1, <2>2, <2>3 DEF TableOK
<1>6. WatermarkOK' /\ TxnOK' /\ ScoresOK' /\ BatchOK'
  <2>1. pc' = "start" /\ flagTimes' = {} /\ txn' = {}
    BY <1>0, <1>1 DEF TxnOK, InTransaction
  <2>2. WatermarkOK' /\ BatchOK'
    BY <2>1 DEF WatermarkOK, BatchOK, InTransaction
  <2>3. TxnOK' /\ ScoresOK'
    BY <2>1, <1>0, <1>1 DEF TxnOK, ScoresOK, InTransaction
  <2> QED
    BY <2>2, <2>3
<1>7. NoDebts'
  BY <1>2 DEF NoDebts
<1>8. PaidOnce' /\ TimelyThievesPaid'
  BY <1>0, <1>1 DEF PaidOnce, TimelyThievesPaid
<1> QED
  BY <1>4, <1>5, <1>6, <1>7, <1>8 DEF IInv

\* The watermark found again covers every row.
LEMMA GetStateInv == ASSUME IInv, GetStateFromDb PROVE IInv'
<1> USE ScoresCacheAssumption
<1>0. /\ TypeOK /\ TableOK /\ WatermarkOK /\ TxnOK /\ ScoresOK /\ BatchOK
      /\ NoDebts /\ PaidOnce /\ TimelyThievesPaid
  BY DEF IInv
<1>1. /\ pc = "start" /\ table # {} /\ pc' = "query"
      /\ state' \in LastScores /\ last' = LastCreationTime
      /\ now' = now /\ accepted' = accepted /\ thefts' = thefts /\ late' = late
      /\ txn' = txn /\ table' = table
      /\ batch' = batch /\ flagTimes' = flagTimes /\ flag' = flag
      /\ ownerTotal' = ownerTotal /\ list' = list
      /\ failed' = failed /\ selfStolen' = selfStolen
      /\ paid' = paid /\ paidTo' = paidTo
  BY DEF GetStateFromDb, clock, thieves, job, history
<1>2. GetLastKnownTime \in Int /\ \A q \in table : q.time <= GetLastKnownTime
  BY <1>0, <1>1, LastKnownIs
<1>3. state' \in [Teams -> Int] /\ \A t \in Teams : state'[t] >= 0
  <2>1. PICK s \in LastScores : state' = s
    BY <1>1
  <2>2. \A r \in table : r.score \in Int /\ r.score >= 0
    BY <1>0 DEF TypeOK, NoDebts
  <2> QED
    BY <2>1, <2>2 DEF LastScores, LastRows, Rows
<1>4. last' = GetLastKnownTime - Expire
  BY <1>1 DEF LastCreationTime
<1>5. TypeOK'
  BY <1>0, <1>1, <1>2, <1>3, <1>4 DEF TypeOK
<1>6. flagTimes = {}
  BY <1>0, <1>1 DEF TxnOK
<1>7. WatermarkOK'
  <2>1. \A r \in table' : r.time <= last' + Expire
    BY <1>0, <1>1, <1>2, <1>4 DEF TypeOK
  <2> QED
    BY <2>1, <1>1, <1>6 DEF WatermarkOK, InTransaction
<1>8. TxnOK' /\ BatchOK'
  BY <1>0, <1>1, <1>6 DEF TxnOK, BatchOK, InTransaction
<1>9. ScoresOK'
  BY <1>0, <1>1, <1>3 DEF ScoresOK
<1> QED
  BY <1>1, <1>5, <1>7, <1>8, <1>9, TablesKeep DEF IInv

\* The batch: everything rotten beyond the watermark.
LEMMA QueryInv == ASSUME IInv, GetRottenStolenFlags PROVE IInv'
<1> USE ScoresCacheAssumption
<1>0. /\ TypeOK /\ TableOK /\ WatermarkOK /\ TxnOK /\ ScoresOK /\ BatchOK
      /\ NoDebts /\ PaidOnce /\ TimelyThievesPaid
  BY DEF IInv
<1>1. /\ pc = "query" /\ pc' = "flags"
      /\ batch' = {p \in thefts : FlagTime[p.data] > last /\ Rotten(p.data)}
      /\ now' = now /\ accepted' = accepted /\ thefts' = thefts /\ late' = late
      /\ txn' = txn /\ table' = table /\ state' = state /\ last' = last
      /\ flag' = flag /\ ownerTotal' = ownerTotal /\ list' = list
      /\ failed' = failed /\ selfStolen' = selfStolen
      /\ paid' = paid /\ paidTo' = paidTo
  BY DEF GetRottenStolenFlags, clock, thieves, job, history
<1>2. flagTimes' \subseteq batch' /\ OnePerTime(flagTimes', batch')
  BY DEF GetRottenStolenFlags
<1>3. flagTimes' \subseteq Thefts
  BY <1>0, <1>1, <1>2 DEF TypeOK
<1>4. TypeOK'
  BY <1>0, <1>1, <1>3 DEF TypeOK
<1>5. WatermarkOK'
  <2>1. \A p, q \in flagTimes' : FlagTime[p.data] = FlagTime[q.data] => p = q
    BY <1>2 DEF OnePerTime
  <2>2. \A p \in flagTimes' : FlagTime[p.data] > last'
    BY <1>1, <1>2
  <2> QED
    BY <2>1, <2>2, <1>0, <1>1 DEF WatermarkOK, InTransaction
<1>6. TxnOK' /\ ScoresOK'
  BY <1>0, <1>1 DEF TxnOK, ScoresOK, InTransaction
<1>7. BatchOK'
  <2> SUFFICES ASSUME NEW f \in flagTimes'
               PROVE  /\ Rotten(f.data)' /\ f \in batch'
                      /\ \A p \in thefts \ late : p.data = f.data => p \in batch'
    BY <1>1 DEF BatchOK, InTransaction
  <2>1. f \in batch'
    BY <1>2
  <2>2. FlagTime[f.data] > last /\ Rotten(f.data)
    BY <2>1, <1>1
  <2> QED
    BY <2>1, <2>2, <1>1 DEF Rotten
<1>8. table # {}
  BY <1>0, <1>1 DEF TableOK
<1> QED
  BY <1>1, <1>4, <1>5, <1>6, <1>7, <1>8, TablesKeep DEF IInv

\* The next flag is beyond every row of the table.
LEMMA NextFlagInv == ASSUME IInv, NEW f \in Thefts, NextFlag(f) PROVE IInv'
<1> USE ScoresCacheAssumption
<1>0. /\ TypeOK /\ TableOK /\ WatermarkOK /\ TxnOK /\ ScoresOK /\ BatchOK
      /\ NoDebts /\ PaidOnce /\ TimelyThievesPaid
  BY DEF IInv
<1>1. /\ pc = "flags" /\ pc' = "insert" /\ f \in flagTimes
      /\ \A g \in flagTimes : FlagTime[f.data] <= FlagTime[g.data]
      /\ flagTimes' = flagTimes \ {f} /\ flag' = f /\ last' = FlagTime[f.data]
      /\ ownerTotal' = state[Victim(f)] /\ list' = Attackers(f.data)
      /\ now' = now /\ accepted' = accepted /\ thefts' = thefts /\ late' = late
      /\ txn' = txn /\ table' = table /\ state' = state /\ batch' = batch
      /\ failed' = failed /\ selfStolen' = selfStolen
      /\ paid' = paid /\ paidTo' = paidTo
  BY DEF NextFlag, clock, thieves, job, history
<1>2. Attackers(f.data) \subseteq Teams /\ Victim(f) \in Teams
  BY <1>0 DEF Attackers, Grouped, Victim, TypeOK
<1>3. TypeOK'
  BY <1>0, <1>1, <1>2 DEF TypeOK
<1>4. WatermarkOK'
  <2>1. \A r \in table : r.time < FlagTime[f.data] + Expire
    BY <1>0, <1>1 DEF WatermarkOK, TypeOK
  <2>2. \A g \in flagTimes' : FlagTime[g.data] > FlagTime[f.data]
    <3> SUFFICES ASSUME NEW g \in flagTimes' PROVE FlagTime[g.data] > FlagTime[f.data]
      OBVIOUS
    <3>1. g \in flagTimes /\ g # f /\ g \in Thefts
      BY <1>0, <1>1 DEF TypeOK
    <3>2. FlagTime[g.data] # FlagTime[f.data]
      BY <3>1, <1>0, <1>1 DEF WatermarkOK
    <3> QED
      BY <3>1, <3>2, <1>1
  <2> QED
    BY <2>1, <2>2, <1>0, <1>1 DEF WatermarkOK, InTransaction
<1>5. TxnOK' /\ ScoresOK'
  BY <1>0, <1>1, <1>2 DEF TxnOK, ScoresOK, InTransaction
<1>6. BatchOK'
  BY <1>0, <1>1 DEF BatchOK, InTransaction, Rotten
<1>7. table # {}
  BY <1>0, <1>1 DEF TableOK
<1> QED
  BY <1>1, <1>3, <1>4, <1>5, <1>6, <1>7, TablesKeep DEF IInv

\* One InsertScore of a transaction.
LEMMA InsertInv ==
  ASSUME IInv, (\E a \in Teams : InsertAttacker(a)) \/ InsertOwner
  PROVE  IInv'
<1> USE ScoresCacheAssumption
<1>0. /\ TypeOK /\ TableOK /\ WatermarkOK /\ TxnOK /\ ScoresOK /\ BatchOK
      /\ NoDebts /\ PaidOnce /\ TimelyThievesPaid
  BY DEF IInv
<1>1. /\ pc = "insert" /\ pc' \in {"insert", "commit"} /\ last' = last
      /\ list' \subseteq list
      /\ flagTimes' = flagTimes /\ flag' = flag /\ ownerTotal' = ownerTotal
      /\ now' = now /\ accepted' = accepted /\ thefts' = thefts /\ late' = late
      /\ table' = table /\ batch' = batch
      /\ failed' = failed /\ selfStolen' = selfStolen
      /\ paid' = paid /\ paidTo' = paidTo
  BY DEF InsertAttacker, InsertOwner, clock, thieves, job, history
<1>2. InTransaction /\ InTransaction'
  BY <1>1 DEF InTransaction
<1>3. PICK t \in Teams, score \in Int : score >= 0 /\ InsertScore(t, score)
  <2>1. CASE InsertOwner
    <3>1. flag \in Thefts
      BY <1>0, <1>2 DEF WatermarkOK
    <3>2. Victim(flag) \in Teams
      BY <3>1 DEF Victim
    <3>3. ownerTotal - ScoreFromOwner \in Int /\ ownerTotal - ScoreFromOwner >= 0
      BY <1>0, Fee DEF TypeOK
    <3> QED
      BY <2>1, <3>2, <3>3 DEF InsertOwner
  <2>2. ASSUME NEW a \in Teams, InsertAttacker(a)
        PROVE  \E t \in Teams, score \in Int : score >= 0 /\ InsertScore(t, score)
    <3>1. ScoreToEachAttacker \in Nat
      BY <1>0, <1>2, Share
    <3>2. state[a] \in Int /\ state[a] >= 0
      BY <1>0 DEF TypeOK, ScoresOK
    <3> QED
      BY <2>2, <3>1, <3>2 DEF InsertAttacker
  <2> QED
    BY <2>1, <2>2
<1>4. /\ txn' = txn \cup {[time |-> FlagTime[flag.data] + Expire, team |-> t,
                          score |-> score]}
      /\ state' = [state EXCEPT ![t] = score]
  BY <1>3 DEF InsertScore
<1>5. flag \in Thefts /\ FlagTime[flag.data] + Expire \in Int
  BY <1>0, <1>2 DEF WatermarkOK
<1>6. TypeOK'
  BY <1>0, <1>1, <1>4, <1>5 DEF TypeOK
<1>7. WatermarkOK'
  BY <1>0, <1>1, <1>2 DEF WatermarkOK, InTransaction
<1>8. TxnOK'
  <2>1. \A r \in txn' : r.time = FlagTime[flag.data] + Expire /\ r.score >= 0
    <3>1. \A r \in txn : r.time = FlagTime[flag.data] + Expire /\ r.score >= 0
      BY <1>0 DEF TxnOK
    <3> QED
      BY <3>1, <1>3, <1>4
  <2>2. txn' # {}
    BY <1>4
  <2> QED
    BY <2>1, <2>2, <1>1, <1>2 DEF TxnOK
<1>9. ScoresOK'
  BY <1>0, <1>1, <1>3, <1>4 DEF ScoresOK, TypeOK
<1>10. BatchOK'
  BY <1>0, <1>1, <1>2 DEF BatchOK, Rotten
<1>11. table # {}
  BY <1>0, <1>1 DEF TableOK
<1> QED
  BY <1>1, <1>6, <1>7, <1>8, <1>9, <1>10, <1>11, TablesKeep DEF IInv

\* The rows of a transaction enter the table: the flag had none before.
LEMMA CommittedInv ==
  ASSUME IInv, pc = "commit", Committed,
         now' = now, thefts' = thefts, late' = late
  PROVE  TableOK' /\ NoDebts' /\ PaidOnce' /\ TimelyThievesPaid' /\ table' # {}
         /\ table' \subseteq [time: Int, team: Teams, score: Int]
         /\ paid' \in [Flags -> Nat] /\ paidTo' \subseteq thefts
         /\ selfStolen' \subseteq Flags
         /\ \A r \in table' : r.time <= last + Expire
<1> USE ScoresCacheAssumption
<1>0. /\ TypeOK /\ TableOK /\ WatermarkOK /\ TxnOK /\ ScoresOK /\ BatchOK
      /\ NoDebts /\ PaidOnce /\ TimelyThievesPaid
  BY DEF IInv
<1>1. /\ table' = table \cup txn
      /\ paid' = [paid EXCEPT ![flag.data] = @ + 1]
      /\ paidTo' = paidTo \cup Grouped(flag.data)
  BY DEF Committed
<1>2. InTransaction /\ flag \in Thefts /\ flag.data \in Flags /\ last = FlagTime[flag.data]
      /\ FlagTime[flag.data] + Expire \in Int
  BY <1>0 DEF WatermarkOK, InTransaction
<1>3. \A r \in table : r.time < FlagTime[flag.data] + Expire
  BY <1>0, <1>2 DEF WatermarkOK
<1>4. \A r \in txn : r.time = FlagTime[flag.data] + Expire /\ r.score >= 0
  BY <1>0 DEF TxnOK
<1>5. PICK inserted \in txn : TRUE
  BY <1>0 DEF TxnOK
<1>6. \A r \in table' : r.time \in Int /\ r.time <= FlagTime[flag.data] + Expire
  BY <1>0, <1>1, <1>2, <1>3, <1>4 DEF TypeOK
<1>7. paid[flag.data] = 0 /\ paid \in [Flags -> Nat]
  BY <1>0, <1>2, <1>3 DEF TableOK, TypeOK
<1>8. \A f \in Flags : paid'[f] = IF f = flag.data THEN 1 ELSE paid[f]
  BY <1>1, <1>7
<1>9. TableOK'
  <2>1. \E r \in table' : \A q \in table' : q.time <= r.time
    BY <1>1, <1>4, <1>5, <1>6
  <2>2. ASSUME NEW t \in Teams
        PROVE  LastRows(t)' # {}
    <3>1. CASE \E r \in txn : r.team = t
      <4>1. PICK r \in txn : r.team = t
        BY <3>1
      <4>2. r \in Rows(t)' /\ r.time = FlagTime[flag.data] + Expire
        BY <4>1, <1>1, <1>4 DEF Rows
      <4> QED
        BY <4>2, <1>6 DEF LastRows, Rows
    <3>2. CASE ~ \E r \in txn : r.team = t
      <4>1. Rows(t)' = Rows(t)
        BY <3>2, <1>1 DEF Rows
      <4>2. table # {}
        BY <1>0 DEF TableOK
      <4> QED
        BY <4>1, <4>2, <1>0 DEF TableOK, LastRows
    <3> QED
      BY <3>1, <3>2
  <2>3. ASSUME NEW f \in Flags, paid'[f] > 0
        PROVE  Rotten(f)' /\ \E r \in table' : r.time = FlagTime[f] + Expire
    <3>1. CASE f = flag.data
      <4>1. Rotten(flag.data)
        BY <1>0, <1>2 DEF BatchOK
      <4> QED
        BY <3>1, <4>1, <1>1, <1>4, <1>5 DEF Rotten
    <3>2. CASE f # flag.data
      BY <3>2, <2>3, <1>0, <1>1, <1>8 DEF TableOK, Rotten
    <3> QED
      BY <3>1, <3>2
  <2>4. table' # {}
    BY <1>1, <1>5
  <2> QED
    BY <2>1, <2>2, <2>3, <2>4 DEF TableOK
<1>10. NoDebts'
  BY <1>0, <1>1, <1>4 DEF NoDebts
<1>11. PaidOnce'
  BY <1>0, <1>8 DEF PaidOnce
<1>12. TimelyThievesPaid'
  <2> SUFFICES ASSUME NEW p \in thefts \ late, paid'[p.data] > 0
               PROVE  p \in paidTo'
    BY DEF TimelyThievesPaid
  <2>1. CASE p.data = flag.data
    <3>1. p \in batch
      BY <2>1, <1>0, <1>2 DEF BatchOK
    <3> QED
      BY <2>1, <3>1, <1>1 DEF Grouped
  <2>2. CASE p.data # flag.data
    <3>1. p.data \in Flags
      BY <1>0 DEF TypeOK
    <3> QED
      BY <2>2, <3>1, <1>0, <1>1, <1>8 DEF TimelyThievesPaid
  <2> QED
    BY <2>1, <2>2
<1>13. table' \subseteq [time: Int, team: Teams, score: Int]
  BY <1>0, <1>1 DEF TypeOK
<1>14. /\ paid' \in [Flags -> Nat] /\ paidTo' \subseteq thefts
       /\ selfStolen' \subseteq Flags
  <2>1. Grouped(flag.data) \subseteq thefts
    BY <1>0 DEF Grouped, TypeOK
  <2>2. selfStolen' \subseteq selfStolen \cup {flag.data}
    BY DEF Committed
  <2> QED
    BY <2>1, <2>2, <1>0, <1>1, <1>2, <1>7 DEF TypeOK
<1> QED
  BY <1>1, <1>2, <1>5, <1>6, <1>9, <1>10, <1>11, <1>12, <1>13, <1>14

LEMMA CommitInv == ASSUME IInv, Commit PROVE IInv'
<1>0. TypeOK /\ WatermarkOK /\ TxnOK /\ ScoresOK /\ BatchOK
  BY DEF IInv
<1>1. /\ pc = "commit" /\ pc' = "flags" /\ Committed
      /\ now' = now /\ accepted' = accepted /\ thefts' = thefts /\ late' = late
      /\ state' = state /\ last' = last /\ txn' = {} /\ failed' = failed
      /\ batch' = batch /\ flagTimes' = flagTimes /\ flag' = flag
      /\ ownerTotal' = ownerTotal /\ list' = list
  BY DEF Commit, Committed, clock, thieves, job
<1>2. /\ TableOK' /\ NoDebts' /\ PaidOnce' /\ TimelyThievesPaid'
      /\ table' \subseteq [time: Int, team: Teams, score: Int]
      /\ paid' \in [Flags -> Nat] /\ paidTo' \subseteq thefts
      /\ selfStolen' \subseteq Flags
      /\ \A r \in table' : r.time <= last + Expire
  BY <1>1, CommittedInv
<1>3. TypeOK'
  BY <1>0, <1>1, <1>2 DEF TypeOK
<1>4. WatermarkOK'
  BY <1>0, <1>1, <1>2 DEF WatermarkOK, InTransaction
<1>5. TxnOK' /\ ScoresOK'
  BY <1>0, <1>1 DEF TxnOK, ScoresOK, InTransaction
<1>6. BatchOK'
  BY <1>0, <1>1 DEF BatchOK, InTransaction, Rotten
<1> QED
  BY <1>2, <1>3, <1>4, <1>5, <1>6 DEF IInv

\* A failed transaction leaves the table and the watermark as they are.
LEMMA FailsInv == ASSUME IInv, TransactionFails PROVE IInv'
<1>0. TypeOK /\ WatermarkOK /\ TxnOK /\ ScoresOK /\ BatchOK
  BY DEF IInv
<1>1. /\ pc \in {"insert", "commit"} /\ pc' = "flags" /\ txn' = {}
      /\ failed' = failed \cup {flag.data}
      /\ now' = now /\ accepted' = accepted /\ thefts' = thefts /\ late' = late
      /\ state' = state /\ last' = last /\ table' = table
      /\ selfStolen' = selfStolen /\ paid' = paid /\ paidTo' = paidTo
      /\ batch' = batch /\ flagTimes' = flagTimes /\ flag' = flag
      /\ ownerTotal' = ownerTotal /\ list' = list
  BY DEF TransactionFails, clock, thieves, job
<1>2. InTransaction /\ flag \in Thefts /\ flag.data \in Flags
  BY <1>0, <1>1, ScoresCacheAssumption DEF WatermarkOK, InTransaction
<1>3. TypeOK'
  BY <1>0, <1>1, <1>2 DEF TypeOK
<1>4. WatermarkOK'
  <2>1. \A r \in table : r.time \in Int /\ r.time < last + Expire
    BY <1>0, <1>2 DEF WatermarkOK, TypeOK
  <2>2. \A r \in table : r.time <= last + Expire
    BY <2>1, <1>0, ScoresCacheAssumption DEF TypeOK
  <2> QED
    BY <2>2, <1>0, <1>1 DEF WatermarkOK, InTransaction
<1>5. TxnOK' /\ ScoresOK'
  BY <1>0, <1>1 DEF TxnOK, ScoresOK, InTransaction
<1>6. BatchOK'
  BY <1>0, <1>1 DEF BatchOK, InTransaction, Rotten
<1>7. TableOK' /\ NoDebts' /\ PaidOnce' /\ TimelyThievesPaid'
  BY <1>1, TablesKeep DEF IInv, TableOK
<1> QED
  BY <1>3, <1>4, <1>5, <1>6, <1>7 DEF IInv

\* The steps between batches and between lives of the process.
LEMMA PauseInv == ASSUME IInv, Sleep \/ Restart PROVE IInv'
<1>0. TypeOK /\ TableOK /\ WatermarkOK /\ TxnOK /\ ScoresOK /\ BatchOK
  BY DEF IInv
<1>1. /\ \/ pc = "flags" /\ flagTimes = {} /\ pc' = "query"
         \/ pc = "down" /\ pc' = "start"
      /\ now' = now /\ accepted' = accepted /\ thefts' = thefts /\ late' = late
      /\ state' = state /\ last' = last /\ table' = table /\ txn' = txn
      /\ failed' = failed /\ selfStolen' = selfStolen
      /\ paid' = paid /\ paidTo' = paidTo
      /\ batch' = batch /\ flagTimes' = flagTimes /\ flag' = flag
      /\ ownerTotal' = ownerTotal /\ list' = list
  BY DEF Sleep, Restart, clock, thieves, job, history
<1>2. TypeOK'
  BY <1>0, <1>1 DEF TypeOK
<1>3. WatermarkOK' /\ TxnOK' /\ ScoresOK' /\ BatchOK'
  BY <1>0, <1>1 DEF WatermarkOK, TxnOK, ScoresOK, BatchOK, InTransaction, Rotten
<1>4. table = {} => pc' \in {"start", "down"}
  BY <1>0, <1>1 DEF TableOK
<1> QED
  BY <1>1, <1>2, <1>3, <1>4, TablesKeep DEF IInv

\* The process ends; a commit may have reached the server.
LEMMA DieInv == ASSUME IInv, Die PROVE IInv'
<1>0. TypeOK /\ TableOK /\ WatermarkOK /\ TxnOK /\ ScoresOK /\ BatchOK
  BY DEF IInv
<1>1. /\ pc' = "down" /\ txn' = {}
      /\ now' = now /\ accepted' = accepted /\ thefts' = thefts /\ late' = late
      /\ state' = state /\ last' = last /\ failed' = failed
      /\ batch' = {} /\ flagTimes' = {} /\ flag' = None
      /\ ownerTotal' = ownerTotal /\ list' = {}
  BY DEF Die, Committed, clock, thieves, history
<1>2. /\ TableOK' /\ NoDebts' /\ PaidOnce' /\ TimelyThievesPaid'
      /\ table' \subseteq [time: Int, team: Teams, score: Int]
      /\ paid' \in [Flags -> Nat] /\ paidTo' \subseteq thefts
      /\ selfStolen' \subseteq Flags
  <2>1. CASE table' = table /\ UNCHANGED history
    <3>1. TableOK' /\ NoDebts' /\ PaidOnce' /\ TimelyThievesPaid'
      BY <2>1, <1>1, TablesKeep DEF history
    <3> QED
      BY <3>1, <2>1, <1>0 DEF TypeOK, history
  <2>2. CASE pc = "commit" /\ Committed
    BY <2>2, <1>1, CommittedInv
  <2> QED
    BY <2>1, <2>2 DEF Die, history
<1>3. TypeOK'
  BY <1>0, <1>1, <1>2 DEF TypeOK
<1>4. WatermarkOK' /\ BatchOK'
  BY <1>1 DEF WatermarkOK, BatchOK, InTransaction
<1>5. TxnOK' /\ ScoresOK'
  BY <1>0, <1>1 DEF TxnOK, ScoresOK, InTransaction
<1> QED
  BY <1>2, <1>3, <1>4, <1>5 DEF IInv

\* Time only makes flags rot; a theft recorded after that is late.
LEMMA WorldInv ==
  ASSUME IInv, Tick \/ \E p \in Thefts : Accept(p) \/ Record(p)
  PROVE  IInv'
<1> USE ScoresCacheAssumption
<1>0. /\ TypeOK /\ TableOK /\ WatermarkOK /\ TxnOK /\ ScoresOK /\ BatchOK
      /\ NoDebts /\ PaidOnce /\ TimelyThievesPaid
  BY DEF IInv
<1>1. /\ pc' = pc /\ state' = state /\ last' = last /\ table' = table
      /\ txn' = txn /\ failed' = failed /\ selfStolen' = selfStolen
      /\ paid' = paid /\ paidTo' = paidTo
      /\ batch' = batch /\ flagTimes' = flagTimes /\ flag' = flag
      /\ ownerTotal' = ownerTotal /\ list' = list
  BY DEF Tick, Accept, Record, job, history
<1>2. /\ now' \in 0 .. MaxTime /\ now <= now' /\ now \in Int
      /\ accepted' \subseteq Thefts /\ thefts \subseteq thefts'
      /\ thefts' \subseteq Thefts /\ late' \subseteq thefts'
  BY <1>0 DEF Tick, Accept, Record, TypeOK, thieves, clock
<1>3. \A f \in Flags : Rotten(f) => Rotten(f)'
  BY <1>2 DEF Rotten
<1>4. \A p \in thefts' \ late' : p \in thefts \ late \/ ~Rotten(p.data)
  BY DEF Tick, Accept, Record, Rotten, thieves, clock
<1>5. TypeOK'
  BY <1>0, <1>1, <1>2 DEF TypeOK
<1>6. TableOK'
  BY <1>0, <1>1, <1>3 DEF TableOK, LastRows, Rows
<1>7. WatermarkOK' /\ TxnOK' /\ ScoresOK'
  BY <1>0, <1>1 DEF WatermarkOK, TxnOK, ScoresOK, InTransaction
<1>8. BatchOK'
  <2> SUFFICES ASSUME NEW f \in flagTimes \cup
                        (IF InTransaction THEN {flag} ELSE {})
               PROVE  /\ Rotten(f.data)' /\ f \in batch
                      /\ \A p \in thefts' \ late' : p.data = f.data => p \in batch
    BY <1>1 DEF BatchOK, InTransaction
  <2>1. f \in Thefts /\ f.data \in Flags
    BY <1>0 DEF TypeOK, WatermarkOK
  <2>2. Rotten(f.data)
    BY <1>0 DEF BatchOK
  <2> QED
    BY <2>1, <2>2, <1>0, <1>3, <1>4 DEF BatchOK
<1>9. NoDebts' /\ PaidOnce'
  BY <1>0, <1>1 DEF NoDebts, PaidOnce
<1>10. TimelyThievesPaid'
  <2> SUFFICES ASSUME NEW p \in thefts' \ late', paid[p.data] > 0
               PROVE  p \in paidTo
    BY <1>1 DEF TimelyThievesPaid
  <2>1. p.data \in Flags
    BY <1>2
  <2>2. Rotten(p.data)
    BY <2>1, <1>0 DEF TableOK
  <2> QED
    BY <2>2, <1>0, <1>4 DEF TimelyThievesPaid
<1> QED
  BY <1>5, <1>6, <1>7, <1>8, <1>9, <1>10 DEF IInv

\* The inductive invariant, for any teams, flags, thefts and times.
THEOREM Invariance == Spec => []IInv
<1>1. IInv /\ [Next]_vars => IInv'
  <2> SUFFICES ASSUME IInv, [Next]_vars PROVE IInv'
    OBVIOUS
  <2>1. CASE Process
    <3>1. CASE CreateInitStateInDb \/ GetStateFromDb \/ GetRottenStolenFlags
      BY <3>1, CreateInv, GetStateInv, QueryInv
    <3>2. CASE \E p \in Thefts : NextFlag(p)
      BY <3>2, NextFlagInv
    <3>3. CASE (\E a \in Teams : InsertAttacker(a)) \/ InsertOwner
      BY <3>3, InsertInv
    <3>4. CASE Commit \/ TransactionFails \/ Sleep
      BY <3>4, CommitInv, FailsInv, PauseInv
    <3> QED
      BY <2>1, <3>1, <3>2, <3>3, <3>4 DEF Process
  <2>2. CASE Die \/ Restart
    BY <2>2, DieInv, PauseInv
  <2>3. CASE Tick \/ \E p \in Thefts : Accept(p) \/ Record(p)
    BY <2>3, WorldInv
  <2>4. CASE UNCHANGED vars
    <3>0. TypeOK /\ TableOK /\ WatermarkOK /\ TxnOK /\ ScoresOK /\ BatchOK
      BY DEF IInv
    <3>1. /\ now' = now /\ accepted' = accepted /\ thefts' = thefts
          /\ late' = late /\ table' = table /\ txn' = txn /\ pc' = pc
          /\ state' = state /\ last' = last
          /\ failed' = failed /\ selfStolen' = selfStolen
      /\ paid' = paid /\ paidTo' = paidTo
          /\ batch' = batch /\ flagTimes' = flagTimes /\ flag' = flag
          /\ ownerTotal' = ownerTotal /\ list' = list
      BY <2>4 DEF vars, clock, thieves, job, history
    <3>2. TypeOK'
      BY <3>0, <3>1 DEF TypeOK
    <3>3. WatermarkOK' /\ TxnOK' /\ ScoresOK' /\ BatchOK'
      BY <3>0, <3>1
         DEF WatermarkOK, TxnOK, ScoresOK, BatchOK, InTransaction, Rotten
    <3>4. table = {} => pc' \in {"start", "down"}
      BY <3>0, <3>1 DEF TableOK
    <3> QED
      BY <3>1, <3>2, <3>3, <3>4, TablesKeep DEF IInv
  <2> QED
    BY <2>1, <2>2, <2>3, <2>4 DEF Next
<1> QED
  BY <1>1, InitInv, PTL DEF Spec

\* Type correctness.
THEOREM TypeCorrect == Spec => []TypeOK
<1>1. IInv => TypeOK
  BY DEF IInv
<1> QED
  BY <1>1, Invariance, PTL

\* No flag is paid twice, over failed transactions, ends and restarts.
THEOREM FlagsPaidOnce == Spec => []PaidOnce
<1>1. IInv => PaidOnce
  BY DEF IInv
<1> QED
  BY <1>1, Invariance, PTL

\* No total in the table is negative.
THEOREM TotalsNotNegative == Spec => []NoDebts
<1>1. IInv => NoDebts
  BY DEF IInv
<1> QED
  BY <1>1, Invariance, PTL

\* A paid flag has paid everybody who was in time.
THEOREM NobodyInTimeMissed == Spec => []TimelyThievesPaid
<1>1. IInv => TimelyThievesPaid
  BY DEF IInv
<1> QED
  BY <1>1, Invariance, PTL

(***************************************************************************)
(* Sums.                                                                   *)
(***************************************************************************)

\* A set of natural numbers has a least element.
LEMMA LeastNat ==
  ASSUME NEW T, T \subseteq Nat, T # {}
  PROVE  \E x \in T : \A y \in T : x <= y
<1>1. \E x \in T : \A y \in T : ~(<<y, x>> \in OpToRel(<, Nat))
  BY NatLessThanWellFounded, WFMin, Zenon
<1>2. PICK x \in T : \A y \in T : ~(<<y, x>> \in OpToRel(<, Nat))
  BY <1>1
<1>3. ASSUME NEW y \in T PROVE x <= y
  <2>1. ~(y < x)
    BY <1>2 DEF OpToRel
  <2> QED BY <2>1
<1> QED BY <1>3

\* The element that a fold takes from a set.
Taken(s) == CHOOSE x \in s : TRUE

\* What a sum of f is over each part of S.
Summed(f, S, h) ==
  /\ h \in [SUBSET S -> Int]
  /\ \A s \in SUBSET S :
       h[s] = IF s = {} THEN 0 ELSE f[Taken(s)] + h[s \ {Taken(s)}]

LEMMA PartSmaller ==
  ASSUME NEW S, IsFiniteSet(S), NEW s \in SUBSET S, NEW x \in s
  PROVE  /\ s \ {x} \in SUBSET S
         /\ Cardinality(s) \in Nat \ {0} /\ Cardinality(s \ {x}) = Cardinality(s) - 1
         /\ Cardinality(s) <= Cardinality(S) /\ Cardinality(S) \in Nat
<1>1. IsFiniteSet(s) /\ Cardinality(s) <= Cardinality(S)
  BY FS_Subset
<1>2. Cardinality(s) \in Nat /\ Cardinality(S) \in Nat
  BY <1>1, FS_CardinalityType
<1>3. Cardinality(s \ {x}) = Cardinality(s) - 1 /\ Cardinality(s) # 0
  BY <1>1, <1>2, FS_RemoveElement, FS_EmptySet
<1> QED BY <1>1, <1>2, <1>3

\* The sum exists: it is right for the parts of n elements when n steps have
\* been taken.
LEMMA SumExists ==
  ASSUME NEW S, IsFiniteSet(S), NEW f \in [S -> Int]
  PROVE  \E h : Summed(f, S, h)
<1> DEFINE H == [SUBSET S -> Int]
           Rest(h, s) == IF s = {} THEN 0 ELSE f[Taken(s)] + h[s \ {Taken(s)}]
           Right(h, n) == \A s \in SUBSET S : Cardinality(s) <= n => h[s] = Rest(h, s)
           N == Cardinality(S)
           Short == {n \in 0 .. N : ~ \E h \in H : Right(h, n)}
<1>0. N \in Nat
  BY FS_CardinalityType
<1>1. ASSUME NEW s \in SUBSET S, s # {} PROVE Taken(s) \in s /\ Taken(s) \in S
  BY <1>1 DEF Taken
<1>2. \E h \in H : Right(h, 0)
  <2> DEFINE h == [s \in SUBSET S |-> 0]
  <2>1. \A s \in SUBSET S : Cardinality(s) <= 0 => s = {}
    <3> TAKE s \in SUBSET S
    <3>1. s # {} => Cardinality(s) \in Nat \ {0}
      BY PartSmaller
    <3> QED BY <3>1
  <2>2. h \in H /\ Right(h, 0)
    BY <2>1
  <2> QED BY <2>2
<1>3. ASSUME NEW n \in 0 .. N - 1, NEW h \in H, Right(h, n)
      PROVE  \E g \in H : Right(g, n + 1)
  <2> DEFINE g == [s \in SUBSET S |-> Rest(h, s)]
  <2>1. ASSUME NEW s \in SUBSET S, s # {}
        PROVE  /\ f[Taken(s)] \in Int /\ s \ {Taken(s)} \in SUBSET S
               /\ Cardinality(s \ {Taken(s)}) = Cardinality(s) - 1
               /\ Cardinality(s) \in Nat
    BY <1>1, <2>1, PartSmaller
  <2>2. g \in H
    <3>1. ASSUME NEW s \in SUBSET S PROVE Rest(h, s) \in Int
      <4>1. CASE s = {}
        BY <4>1
      <4>2. CASE s # {}
        <5>1. h[s \ {Taken(s)}] \in Int
          BY <2>1, <4>2
        <5> QED BY <2>1, <4>2, <5>1
      <4> QED BY <4>1, <4>2
    <3> QED BY <3>1
  <2>3. \A s \in SUBSET S : g[s] = Rest(h, s)
    OBVIOUS
  <2> HIDE DEF g, H
  <2>4. ASSUME NEW s \in SUBSET S, Cardinality(s) <= n + 1
        PROVE  g[s] = Rest(g, s)
    <3>1. CASE s = {}
      BY <2>3, <3>1
    <3>2. CASE s # {}
      <4> DEFINE r == s \ {Taken(s)}
      <4>1. r \in SUBSET S /\ Cardinality(r) <= n
        BY <1>0, <2>1, <2>4, <3>2
      <4>2. h[r] = Rest(h, r) /\ g[r] = Rest(h, r)
        BY <1>3, <2>3, <4>1
      <4>3. g[s] = f[Taken(s)] + h[r]
        BY <2>3, <3>2
      <4>4. h[r] = g[r]
        BY <4>2
      <4> QED BY <3>2, <4>3, <4>4
    <3> QED BY <3>1, <3>2
  <2> QED BY <2>2, <2>4
<1> HIDE DEF Right, H
<1>4. Short = {}
  <2> SUFFICES ASSUME Short # {} PROVE FALSE
    OBVIOUS
  <2>1. PICK n \in Short : \A k \in Short : n <= k
    <3> Short \subseteq Nat
      BY <1>0
    <3> HIDE DEF Short
    <3> QED BY LeastNat
  <2>2. n # 0 /\ n \in 0 .. N /\ ~ \E h \in H : Right(h, n)
    BY <1>2
  <2>3. n - 1 \in 0 .. N - 1 /\ n - 1 \notin Short /\ n - 1 + 1 = n
    BY <1>0, <2>1, <2>2
  <2>4. PICK h \in H : Right(h, n - 1)
    BY <1>0, <2>3
  <2> QED BY <1>3, <2>2, <2>3, <2>4
<1>5. PICK h \in H : Right(h, N)
  BY <1>0, <1>4
<1>6. \A s \in SUBSET S : Cardinality(s) <= N
  BY FS_Subset
<1>7. Summed(f, S, h)
  BY <1>5, <1>6 DEF Summed, Right, H
<1> QED BY <1>7

LEMMA SumIs ==
  ASSUME NEW S, IsFiniteSet(S), NEW f \in [S -> Int]
  PROVE  \E h : Summed(f, S, h) /\ SumFunction(f) = h[S]
<1> DEFINE R(h) == h = [s \in SUBSET S |-> IF s = {} THEN 0
                                         ELSE f[Taken(s)] + h[s \ {Taken(s)}]]
           g == CHOOSE h : R(h)
<1>1. SumFunction(f) = g[S]
  <2>1. DOMAIN f = S
    OBVIOUS
  <2>2. SumFunction(f) =
          (CHOOSE h : h = [s \in SUBSET S |->
                             IF s = {} THEN 0
                             ELSE f[CHOOSE x \in s : TRUE]
                                    + h[s \ {CHOOSE x \in s : TRUE}]])[S]
    BY <2>1 DEF SumFunction, SumFunctionOnSet, FoldFunctionOnSet, MapThenFoldSet
  <2> QED BY <2>2 DEF Taken
<1>2. PICK h : Summed(f, S, h)
  BY SumExists
<1>3. h = [s \in SUBSET S |-> h[s]]
  BY <1>2 DEF Summed
<1>4. R(h)
  <2>1. \A s \in SUBSET S :
          h[s] = IF s = {} THEN 0 ELSE f[Taken(s)] + h[s \ {Taken(s)}]
    BY <1>2 DEF Summed
  <2> QED BY <1>3, <2>1, Zenon
<1> HIDE DEF R
<1>5. R(g)
  BY <1>4
<1> HIDE DEF g
<1>6. g = [s \in SUBSET S |-> IF s = {} THEN 0
                              ELSE f[Taken(s)] + g[s \ {Taken(s)}]]
  BY <1>5 DEF R
<1> DEFINE Same == \A s \in SUBSET S : g[s] = h[s]
<1>7. Summed(f, S, g)
  <2>1. \A s \in SUBSET S :
          g[s] = IF s = {} THEN 0 ELSE f[Taken(s)] + g[s \ {Taken(s)}]
    BY <1>6, Zenon
  <2>2. DOMAIN g = SUBSET S
    BY <1>6, Zenon
  <2> DEFINE Odd == {n \in Nat : \E s \in SUBSET S : Cardinality(s) = n /\ g[s] \notin Int}
  <2>3. Odd = {}
    <3> SUFFICES ASSUME Odd # {} PROVE FALSE
      OBVIOUS
    <3>1. PICK n \in Odd : \A k \in Odd : n <= k
      <4> HIDE DEF Odd
      <4>1. Odd \subseteq Nat
        BY DEF Odd
      <4> QED BY <4>1, LeastNat
    <3>2. PICK s \in SUBSET S : Cardinality(s) = n /\ g[s] \notin Int
      OBVIOUS
    <3>3. s # {}
      <4>1. s = {} => g[s] = 0
        BY <2>1
      <4> QED BY <3>2, <4>1
    <3>4. Taken(s) \in s
      BY <3>3 DEF Taken
    <3>5. /\ s \ {Taken(s)} \in SUBSET S
          /\ Cardinality(s \ {Taken(s)}) = n - 1 /\ n - 1 \in Nat
      <4> DEFINE x == Taken(s)
      <4>1. x \in s
        BY <3>4
      <4> HIDE DEF x
      <4>2. /\ s \ {x} \in SUBSET S /\ Cardinality(s) \in Nat \ {0}
            /\ Cardinality(s \ {x}) = Cardinality(s) - 1
        BY <4>1, PartSmaller
      <4>3. Cardinality(s) = n
        BY <3>2
      <4> QED BY <4>2, <4>3 DEF x
    <3>6. n - 1 \notin Odd
      BY <3>1, <3>5
    <3>7. g[s \ {Taken(s)}] \in Int
      BY <3>5, <3>6
    <3>8. g[s] = f[Taken(s)] + g[s \ {Taken(s)}] /\ f[Taken(s)] \in Int
      BY <2>1, <3>3, <3>4
    <3> QED BY <3>2, <3>7, <3>8
  <2>4. \A s \in SUBSET S : g[s] \in Int
    <3> TAKE s \in SUBSET S
    <3>1. Cardinality(s) \in Nat
      BY FS_Subset, FS_CardinalityType
    <3> QED BY <2>3, <3>1
  <2>5. g \in [SUBSET S -> Int]
    BY <1>6, <2>2, <2>4
  <2> QED BY <2>1, <2>5 DEF Summed
<1> QED BY <1>1, <1>7


\* The sum does not depend on which element is taken first.
LEMMA AnyFirst ==
  ASSUME NEW S, IsFiniteSet(S), NEW f \in [S -> Int], NEW h, Summed(f, S, h),
         NEW s \in SUBSET S, NEW x \in s
  PROVE  h[s] = f[x] + h[s \ {x}]
<1> DEFINE Odd == {n \in Nat : \E r \in SUBSET S : \E y \in r :
                      Cardinality(r) = n /\ h[r] # f[y] + h[r \ {y}]}
<1>1. Odd = {}
  <2> SUFFICES ASSUME Odd # {} PROVE FALSE
    OBVIOUS
  <2>1. PICK n \in Odd : \A k \in Odd : n <= k
    <3>1. Odd \subseteq Nat
      OBVIOUS
    <3> HIDE DEF Odd
    <3> QED BY <3>1, LeastNat
  <2>2. PICK r \in SUBSET S : \E y \in r : Cardinality(r) = n /\ h[r] # f[y] + h[r \ {y}]
    OBVIOUS
  <2>14. PICK y \in r : Cardinality(r) = n /\ h[r] # f[y] + h[r \ {y}]
    BY <2>2
  <2> DEFINE z == Taken(r)
  <2>3. z \in r
    BY DEF Taken
  <2>4. h[r] = f[z] + h[r \ {z}]
    BY <2>3 DEF Summed
  <2>5. y # z
    BY <2>14, <2>4
  <2> HIDE DEF z
  <2>6. /\ r \ {z} \in SUBSET S /\ y \in r \ {z}
        /\ r \ {y} \in SUBSET S /\ z \in r \ {y}
    BY <2>3, <2>5
  <2>7. /\ Cardinality(r \ {z}) = n - 1 /\ Cardinality(r \ {y}) = n - 1
        /\ n - 1 \in Nat
    <3>1. Cardinality(r) \in Nat \ {0}
      BY PartSmaller
    <3>2. Cardinality(r \ {z}) = Cardinality(r) - 1
      BY <2>3, PartSmaller
    <3>3. Cardinality(r \ {y}) = Cardinality(r) - 1
      BY PartSmaller
    <3> QED BY <2>14, <3>1, <3>2, <3>3
  <2>8. n - 1 \notin Odd
    <3>1. n \in Nat
      BY <2>14, <2>7
    <3> HIDE DEF Odd
    <3> QED BY <2>1, <3>1
  <2>9. h[r \ {z}] = f[y] + h[(r \ {z}) \ {y}]
    BY <2>6, <2>7, <2>8
  <2>10. h[r \ {y}] = f[z] + h[(r \ {y}) \ {z}]
    BY <2>6, <2>7, <2>8
  <2>11. (r \ {z}) \ {y} = (r \ {y}) \ {z}
    OBVIOUS
  <2> DEFINE rest == (r \ {y}) \ {z}
  <2>12. h[rest] \in Int /\ f[y] \in Int /\ f[z] \in Int
    BY <2>3 DEF Summed
  <2>13. h[r] = f[z] + (f[y] + h[rest]) /\ h[r \ {y}] = f[z] + h[rest]
    BY <2>4, <2>9, <2>10, <2>11
  <2> HIDE DEF rest, Odd
  <2> QED BY <2>14, <2>12, <2>13
<1>2. Cardinality(s) \in Nat
  BY PartSmaller
<1> QED BY <1>1, <1>2

\* Two functions that differ at x only have sums that differ by as much.
LEMMA SumUpdate ==
  ASSUME NEW S, IsFiniteSet(S), NEW f \in [S -> Int], NEW g \in [S -> Int],
         NEW x \in S, \A y \in S \ {x} : g[y] = f[y]
  PROVE  /\ SumFunction(f) \in Int /\ SumFunction(g) \in Int
         /\ SumFunction(g) = SumFunction(f) - f[x] + g[x]
<1>1. PICK h : Summed(f, S, h) /\ SumFunction(f) = h[S]
  BY SumIs
<1>2. PICK k : Summed(g, S, k) /\ SumFunction(g) = k[S]
  BY SumIs
<1> DEFINE Odd == {n \in Nat : \E r \in SUBSET (S \ {x}) :
                                  Cardinality(r) = n /\ h[r] # k[r]}
<1>3. Odd = {}
  <2> SUFFICES ASSUME Odd # {} PROVE FALSE
    OBVIOUS
  <2>1. PICK n \in Odd : \A m \in Odd : n <= m
    <3>1. Odd \subseteq Nat
      OBVIOUS
    <3> HIDE DEF Odd
    <3> QED BY <3>1, LeastNat
  <2>2. PICK r \in SUBSET (S \ {x}) : Cardinality(r) = n /\ h[r] # k[r]
    OBVIOUS
  <2>3. r \in SUBSET S
    OBVIOUS
  <2>4. r # {}
    <3>1. r = {} => h[r] = 0 /\ k[r] = 0
      BY <1>1, <1>2, <2>3 DEF Summed
    <3> QED BY <2>2, <3>1
  <2> DEFINE z == Taken(r)
  <2>5. z \in r
    BY <2>4 DEF Taken
  <2>6. h[r] = f[z] + h[r \ {z}] /\ k[r] = g[z] + k[r \ {z}]
    BY <1>1, <1>2, <2>3, <2>4 DEF Summed
  <2> HIDE DEF z
  <2>7. g[z] = f[z]
    BY <2>5
  <2>8. /\ Cardinality(r) \in Nat \ {0}
        /\ Cardinality(r \ {z}) = Cardinality(r) - 1
    BY <2>3, <2>5, PartSmaller
  <2>9. n - 1 \in Nat /\ Cardinality(r \ {z}) = n - 1
    BY <2>2, <2>8
  <2>10. n - 1 \notin Odd
    BY <2>1, <2>9
  <2>11. r \ {z} \in SUBSET (S \ {x})
    OBVIOUS
  <2>12. h[r \ {z}] = k[r \ {z}]
    BY <2>9, <2>10, <2>11
  <2> QED BY <2>2, <2>6, <2>7, <2>12
<1>4. h[S \ {x}] = k[S \ {x}]
  <2>1. Cardinality(S \ {x}) \in Nat
    BY FS_Subset, FS_CardinalityType
  <2> QED BY <1>3, <2>1
<1>5. h[S] = f[x] + h[S \ {x}] /\ k[S] = g[x] + k[S \ {x}]
  <2>1. S \in SUBSET S /\ Summed(f, S, h) /\ Summed(g, S, k)
    BY <1>1, <1>2
  <2>2. h[S] = f[x] + h[S \ {x}]
    BY <2>1, AnyFirst
  <2>3. k[S] = g[x] + k[S \ {x}]
    BY <2>1, AnyFirst
  <2> QED BY <2>2, <2>3
<1>6. /\ h[S] \in Int /\ k[S] \in Int /\ h[S \ {x}] \in Int
      /\ f[x] \in Int /\ g[x] \in Int
  <2>1. S \in SUBSET S /\ S \ {x} \in SUBSET S
    OBVIOUS
  <2> QED BY <1>1, <1>2, <2>1 DEF Summed
<1> HIDE DEF Odd
<1> QED BY <1>1, <1>2, <1>4, <1>5, <1>6

LEMMA OneMore ==
  ASSUME NEW c \in Int, NEW n \in Int
  PROVE  c * n = c + c * (n - 1)
OBVIOUS

\* What is everywhere the same adds up to as many times as there are elements.
LEMMA SumSame ==
  ASSUME NEW S, IsFiniteSet(S), NEW f \in [S -> Int], NEW c \in Int,
         \A y \in S : f[y] = c
  PROVE  SumFunction(f) = c * Cardinality(S)
<1>1. PICK h : Summed(f, S, h) /\ SumFunction(f) = h[S]
  BY SumIs
<1> DEFINE Odd == {n \in Nat : \E r \in SUBSET S :
                                  Cardinality(r) = n /\ h[r] # c * n}
<1>2. Odd = {}
  <2> SUFFICES ASSUME Odd # {} PROVE FALSE
    OBVIOUS
  <2>1. PICK n \in Odd : \A m \in Odd : n <= m
    <3>1. Odd \subseteq Nat
      OBVIOUS
    <3> HIDE DEF Odd
    <3> QED BY <3>1, LeastNat
  <2>2. PICK r \in SUBSET S : Cardinality(r) = n /\ h[r] # c * n
    OBVIOUS
  <2>3. r # {}
    <3>1. r = {} => h[r] = 0
      BY <1>1 DEF Summed
    <3>2. r = {} => n = 0
      BY <2>2, FS_EmptySet
    <3>3. c * 0 = 0
      OBVIOUS
    <3> QED BY <2>2, <3>1, <3>2, <3>3
  <2> DEFINE z == Taken(r)
  <2>4. z \in r
    BY <2>3 DEF Taken
  <2>5. h[r] = f[z] + h[r \ {z}]
    BY <1>1, <2>3 DEF Summed
  <2> HIDE DEF z
  <2>6. f[z] = c
    BY <2>4
  <2>7. /\ Cardinality(r) \in Nat \ {0}
        /\ Cardinality(r \ {z}) = Cardinality(r) - 1
    BY <2>4, PartSmaller
  <2>8. n \in Nat /\ n - 1 \in Nat /\ Cardinality(r \ {z}) = n - 1
    BY <2>2, <2>7
  <2>9. n - 1 \notin Odd
    BY <2>1, <2>8
  <2>10. h[r \ {z}] = c * (n - 1)
    BY <2>8, <2>9
  <2>11. c * n = c + c * (n - 1)
    BY <2>8, OneMore
  <2> QED BY <2>2, <2>5, <2>6, <2>10, <2>11
<1>3. Cardinality(S) \in Nat
  BY FS_CardinalityType
<1>4. S \in SUBSET S
  OBVIOUS
<1> QED BY <1>1, <1>2, <1>3, <1>4

(***************************************************************************)
(* The points.  A transaction raises the sum by what it hands out and      *)
(* lowers it by the fee; the last rows are the totals of a transaction     *)
(* that committed, its rows being later than any other (WatermarkOK).      *)
(***************************************************************************)

\* What is known of the points while nothing has spoiled them.
Points ==
  TableKept /\ (~(InTransaction /\ SelfStolen) => StateOK /\ SharesOK)

\* Thieves of a flag are teams, and so is the owner that is charged.
LEMMA AttackersAre ==
  ASSUME TypeOK, flag \in Thefts
  PROVE  /\ Attackers(flag.data) \subseteq Teams /\ Victim(flag) \in Teams
         /\ IsFiniteSet(Attackers(flag.data))
         /\ Cardinality(Attackers(flag.data)) \in Nat
<1> USE ScoresCacheAssumption
<1>1. \A p \in batch : p \in Thefts /\ p.thief \in Teams
  BY DEF TypeOK
<1>2. Attackers(flag.data) \subseteq Teams /\ Victim(flag) \in Teams
  BY <1>1 DEF Attackers, Grouped, Victim
<1>3. IsFiniteSet(Attackers(flag.data))
  BY <1>2, FS_Subset
<1>4. Cardinality(Attackers(flag.data)) \in Nat
  BY <1>3, FS_CardinalityType
<1> QED
  BY <1>2, <1>3, <1>4

LEMMA ReadingIs ==
  ASSUME TypeOK, TableOK, table # {}
  PROVE  Reading \in [Teams -> Int]
BY LastRowIs DEF Reading

\* Where no two last rows differ there is nothing to choose.
LEMMA OnlyReading ==
  ASSUME TypeOK, TableOK, table # {}, OneReading, NEW s \in LastScores
  PROVE  s = Reading
<1>1. s \in [Teams -> {r.score : r \in table}]
      /\ \A t \in Teams : \E r \in LastRows(t) : r.score = s[t]
  BY DEF LastScores
<1>2. ASSUME NEW t \in Teams PROVE s[t] = Reading[t]
  <2>1. PICK r \in LastRows(t) : r.score = s[t]
    BY <1>1
  <2>2. LastRow(t) \in LastRows(t)
    BY DEF TableOK, LastRow
  <2> QED
    BY <2>1, <2>2 DEF OneReading, Reading
<1>3. DOMAIN s = Teams
  BY <1>1
<1> QED
  BY <1>1, <1>2, <1>3 DEF Reading

\* What the invariant gives of the last rows, the shares and the thieves, also
\* after a step.
LastRowsOK ==
  \A u \in Teams :
    /\ LastRow(u) \in table /\ LastRow(u).team = u
    /\ \A q \in table : q.team = u => q.time <= LastRow(u).time

LEMMA LastRowLater == TypeOK /\ TableOK /\ table # {} => LastRowsOK
BY LastRowIs DEF LastRowsOK

LEMMA ShareLater == IInv /\ InTransaction => ScoreToEachAttacker \in Int
BY Share DEF IInv

LEMMA AttackersLater ==
  IInv /\ InTransaction => Cardinality(Attackers(flag.data)) \in Nat
BY AttackersAre DEF IInv, WatermarkOK

\* A step that leaves the table and the transaction alone.
LEMMA PointsKeep ==
  ASSUME IInv, KeptIInv, table' = table, Spoiled \subseteq Spoiled',
         \/ pc' \in {"start", "down"}
         \/ /\ pc' \in {"query", "flags"} /\ pc \in {"query", "flags"}
            /\ state' = state
         \/ /\ InTransaction /\ pc' = pc /\ state' = state /\ txn' = txn
            /\ batch' = batch /\ flag' = flag /\ list' = list
            /\ ownerTotal' = ownerTotal
  PROVE  KeptIInv'
<1> SUFFICES ASSUME Spoiled' = {} PROVE Points'
  BY DEF KeptIInv, Points
<1>1. Spoiled = {} /\ Points
  BY DEF KeptIInv, Points
<1>2. Reading' = Reading
  BY DEF Reading, LastRow, LastRows, Rows
<1>3. TableKept'
  BY <1>1, <1>2 DEF Points, TableKept, OneReading, LastRows, Rows
<1>4. CASE pc' \in {"start", "down"}
  <2>1. StateOK' /\ SharesOK'
    BY <1>4 DEF StateOK, SharesOK, InTransaction
  <2> QED
    BY <1>3, <2>1 DEF Points
<1>5. CASE /\ pc' \in {"query", "flags"} /\ pc \in {"query", "flags"}
           /\ state' = state
  <2>1. StateOK' /\ SharesOK'
    BY <1>1, <1>2, <1>5 DEF Points, StateOK, SharesOK, InTransaction
  <2> QED
    BY <1>3, <2>1 DEF Points
<1>6. CASE /\ InTransaction /\ pc' = pc /\ state' = state /\ txn' = txn
           /\ batch' = batch /\ flag' = flag /\ list' = list
           /\ ownerTotal' = ownerTotal
  <2>1. /\ Attackers(flag.data)' = Attackers(flag.data) /\ Written' = Written
        /\ ScoreToEachAttacker' = ScoreToEachAttacker /\ Handed' = Handed
        /\ Victim(flag)' = Victim(flag) /\ SelfStolen' = SelfStolen
        /\ InTransaction'
    BY <1>6 DEF Attackers, Grouped, Victim, Written, ScoreToEachAttacker,
                ScoreFromOwner, Handed, SelfStolen, InTransaction
  <2> SUFFICES ASSUME ~SelfStolen PROVE StateOK' /\ SharesOK'
    BY <1>3, <2>1 DEF Points
  <2>2. StateOK /\ SharesOK
    BY <1>1 DEF Points
  <2>3. StateOK'
    BY <1>2, <1>6, <2>1, <2>2 DEF StateOK, InTransaction
  <2>4. SharesOK'
    BY <1>6, <2>1, <2>2 DEF SharesOK
  <2> QED
    BY <2>3, <2>4
<1> QED
  BY <1>4, <1>5, <1>6

\* Every team starts with the same.
LEMMA CreatePoints ==
  ASSUME IInv, IInv', CreateInitStateInDb PROVE KeptIInv'
<1> USE ScoresCacheAssumption
<1>1. /\ table' = {[time |-> 0, team |-> t, score |-> Initial] : t \in Teams}
      /\ pc' = "start"
  BY DEF CreateInitStateInDb
<1>2. TypeOK' /\ TableOK' /\ table' # {}
  <2>1. table' # {}
    <3>1. PICK t \in Teams : TRUE
      OBVIOUS
    <3>2. [time |-> 0, team |-> t, score |-> Initial] \in table'
      BY <1>1
    <3> QED
      BY <3>2
  <2> QED
    BY <2>1 DEF IInv
<1>3. ASSUME NEW t \in Teams PROVE LastRow(t)'.score = Initial
  <2>0. (TypeOK /\ TableOK /\ table # {})'
    BY <1>2
  <2>1. LastRowsOK'
    BY <2>0, LastRowLater, PTL
  <2> QED
    BY <1>1, <2>1 DEF LastRowsOK
<1>4. Reading' \in [Teams -> Int] /\ \A t \in Teams : Reading'[t] = Initial
  BY <1>3 DEF Reading
<1>5. SumFunction(Reading') = Start
  <2> DEFINE g == Reading'
  <2>1. g \in [Teams -> Int] /\ \A t \in Teams : g[t] = Initial
    BY <1>4
  <2> HIDE DEF g
  <2>2. SumFunction(g) = Initial * Cardinality(Teams)
    BY <2>1, SumSame
  <2> QED
    BY <2>2 DEF Start, g
<1>6. OneReading'
  <2>1. \A r \in table' : r.score = Initial
    BY <1>1
  <2> QED
    BY <2>1 DEF OneReading, LastRows, Rows
<1>7. TableKept'
  BY <1>5, <1>6 DEF TableKept, Start
<1>8. StateOK' /\ SharesOK'
  BY <1>1 DEF StateOK, SharesOK, InTransaction
<1> QED
  BY <1>7, <1>8 DEF KeptIInv

\* The hashtable is read from the last rows.
LEMMA GetStatePoints ==
  ASSUME IInv, KeptIInv, GetStateFromDb PROVE KeptIInv'
<1>1. /\ table' = table /\ state' \in LastScores /\ pc' = "query"
      /\ Spoiled' = Spoiled /\ table # {}
  BY DEF GetStateFromDb, history, Spoiled
<1> SUFFICES ASSUME Spoiled' = {} PROVE Points'
  BY DEF KeptIInv, Points
<1>2. TableKept
  BY <1>1 DEF KeptIInv
<1>3. state' = Reading
  BY <1>1, <1>2, OnlyReading DEF IInv, TableKept
<1>4. Reading' = Reading
  BY <1>1 DEF Reading, LastRow, LastRows, Rows
<1>5. TableKept'
  BY <1>1, <1>2, <1>4 DEF TableKept, OneReading, LastRows, Rows
<1>6. StateOK' /\ SharesOK'
  BY <1>1, <1>3, <1>4 DEF StateOK, SharesOK, InTransaction
<1> QED
  BY <1>5, <1>6 DEF Points

\* A transaction starts with nothing written and nothing handed out.
LEMMA NextFlagPoints ==
  ASSUME IInv, IInv', KeptIInv, NEW f \in Thefts, NextFlag(f)
  PROVE  KeptIInv'
<1> USE ScoresCacheAssumption
<1>1. /\ pc = "flags" /\ pc' = "insert" /\ table' = table /\ txn' = txn
      /\ flag' = f /\ list' = Attackers(f.data) /\ batch' = batch
      /\ state' = state /\ ownerTotal' = state[Victim(f)]
      /\ Spoiled' = Spoiled
  BY DEF NextFlag, history, Spoiled
<1> SUFFICES ASSUME Spoiled' = {} PROVE Points'
  BY DEF KeptIInv, Points
<1>2. /\ SumFunction(Reading) = Start /\ state = Reading /\ table # {}
      /\ txn = {} /\ TableKept
  BY <1>1
     DEF KeptIInv, TableKept, StateOK, IInv, TableOK, TxnOK, InTransaction
<1>3. Reading' = Reading
  BY <1>1 DEF Reading, LastRow, LastRows, Rows
<1>4. Attackers(flag.data)' = list' /\ Victim(flag)' = Victim(f)
  BY <1>1 DEF Attackers, Grouped, Victim
<1>5. Written' = {}
  BY <1>1, <1>4 DEF Written
<1>6. StateOK'
  BY <1>1, <1>2, <1>3, <1>4, <1>5 DEF StateOK, InTransaction
<1>7. SharesOK'
  <2>1. InTransaction'
    BY <1>1 DEF InTransaction
  <2>3. (ScoreToEachAttacker \in Int)'
    BY <2>1, ShareLater, PTL
  <2>4. Cardinality(list') \in Nat
    <3>1. (Cardinality(Attackers(flag.data)) \in Nat)'
      BY <2>1, AttackersLater, PTL
    <3> QED
      BY <1>4, <3>1
  <2>5. ScoreToEachAttacker' * (Cardinality(list') - Cardinality(list')) = 0
    <3>1. Cardinality(list') - Cardinality(list') = 0
      BY <2>4
    <3> QED
      BY <2>3, <3>1
  <2>6. SumFunction(state') = Start /\ Start \in Int
    <3>1. Cardinality(Teams) \in Nat
      BY FS_CardinalityType
    <3> QED
      BY <1>1, <1>2, <3>1 DEF Start
  <2> QED
    BY <1>1, <1>4, <2>5, <2>6 DEF SharesOK, Handed, Start
<1>8. TableKept'
  BY <1>1, <1>2, <1>3 DEF TableKept, OneReading, LastRows, Rows, Start
<1> QED
  BY <1>6, <1>7, <1>8 DEF Points

\* One thief more is paid.
LEMMA AttackerPoints ==
  ASSUME IInv, KeptIInv, NEW a \in Teams, InsertAttacker(a)
  PROVE  KeptIInv'
<1> USE ScoresCacheAssumption
<1> DEFINE each == ScoreToEachAttacker
           row == [time |-> FlagTime[flag.data] + Expire, team |-> a,
                   score |-> state[a] + each]
<1>1. /\ pc = "insert" /\ pc' = pc /\ a \in list /\ list' = list \ {a}
      /\ txn' = txn \cup {row}
      /\ state' = [state EXCEPT ![a] = state[a] + each]
      /\ table' = table /\ batch' = batch /\ flag' = flag
      /\ ownerTotal' = ownerTotal /\ Spoiled' = Spoiled
  BY DEF InsertAttacker, InsertScore, history, Spoiled
<1>0. (Spoiled = {} => TableKept') /\ SelfStolen' = SelfStolen
  <2>1. Spoiled = {} => TableKept'
    BY <1>1
       DEF KeptIInv, TableKept, OneReading, Reading, LastRow, LastRows, Rows
  <2>2. SelfStolen' = SelfStolen
    BY <1>1 DEF SelfStolen, Victim, Attackers, Grouped
  <2> QED
    BY <2>1, <2>2
<1> SUFFICES ASSUME Spoiled = {}, ~SelfStolen PROVE StateOK' /\ SharesOK'
  BY <1>0, <1>1 DEF KeptIInv, InTransaction
<1>2. StateOK /\ SharesOK /\ InTransaction
  BY <1>1 DEF KeptIInv, InTransaction
<1>3. TypeOK /\ flag \in Thefts /\ state \in [Teams -> Int] /\ each \in Int
  BY <1>2, Share DEF IInv, WatermarkOK, TypeOK
<1>4. /\ Attackers(flag.data) \subseteq Teams
      /\ Victim(flag) \notin Attackers(flag.data)
      /\ list \subseteq Attackers(flag.data) /\ IsFiniteSet(Attackers(flag.data))
      /\ Cardinality(Attackers(flag.data)) \in Nat
  BY <1>2, <1>3, AttackersAre DEF StateOK, SelfStolen
<1>5. /\ Reading' = Reading /\ Attackers(flag.data)' = Attackers(flag.data)
      /\ ScoreToEachAttacker' = each /\ Victim(flag)' = Victim(flag)
  BY <1>1
     DEF Reading, LastRow, LastRows, Rows, Attackers, Grouped, Victim,
         ScoreToEachAttacker, ScoreFromOwner
<1>7. a \notin Written /\ Written' = Written \cup {a}
  <2>1. Written = Attackers(flag.data) \ list
    BY <1>1 DEF Written
  <2>2. Written' = Attackers(flag.data) \ list'
    BY <1>1, <1>5 DEF Written
  <2> QED
    BY <2>1, <2>2, <1>1, <1>4
<1>8. StateOK'
  <2>1. \A t \in Teams \ Written' : state'[t] = Reading[t]
    BY <1>1, <1>2, <1>3, <1>7 DEF StateOK
  <2>2. \A t \in Written' : \E r \in txn' : r.team = t
    <3>1. row \in txn' /\ row.team = a
      BY <1>1
    <3>2. \A t \in Written : \E r \in txn : r.team = t
      BY <1>2 DEF StateOK
    <3> QED
      BY <1>1, <1>7, <3>1, <3>2
  <2>3. ASSUME NEW r \in txn'
        PROVE  r.team \in Written' /\ r.score = state'[r.team]
    <3>1. CASE r = row
      BY <3>1, <1>1, <1>3, <1>7
    <3>2. CASE r \in txn
      <4>1. r.team \in Written /\ r.score = state[r.team] /\ r.team \in Teams
        BY <3>2, <1>2, <1>3 DEF StateOK, TypeOK
      <4>2. r.team # a
        BY <4>1, <1>7
      <4> QED
        BY <4>1, <4>2, <1>1, <1>3, <1>7
    <3>3. r = row \/ r \in txn
      BY <1>1
    <3> HIDE DEF row
    <3> QED
      BY <3>1, <3>2, <3>3
  <2>4. /\ ownerTotal' = Reading'[Victim(flag)']
        /\ list' \subseteq Attackers(flag.data)'
    BY <1>1, <1>2, <1>4, <1>5 DEF StateOK
  <2> HIDE DEF row, each
  <2> QED
    BY <2>1, <2>2, <2>3, <2>4, <1>1, <1>2, <1>5 DEF StateOK, InTransaction
<1>9. SharesOK'
  <2> DEFINE n == Cardinality(Attackers(flag.data))
             m == Cardinality(list)
  <2>1. IsFiniteSet(list) /\ m \in Nat /\ n \in Nat
    BY <1>4, FS_Subset, FS_CardinalityType
  <2>2. Cardinality(list') = m - 1
    BY <1>1, <2>1, FS_RemoveElement
  <2>3. SumFunction(state) = Start + each * (n - m) /\ Start \in Int
    <3>1. Start \in Int
      BY FS_CardinalityType DEF Start
    <3> QED
      BY <3>1, <1>1, <1>2 DEF SharesOK, Handed, Start
  <2>4. SumFunction(state') = SumFunction(state) - state[a] + (state[a] + each)
    <3> DEFINE g == state'
    <3>1. /\ g \in [Teams -> Int] /\ g[a] = state[a] + each
          /\ \A t \in Teams \ {a} : g[t] = state[t]
      BY <1>1, <1>3
    <3> HIDE DEF g, each
    <3>2. SumFunction(g) = SumFunction(state) - state[a] + g[a]
      BY <3>1, <1>3, SumUpdate
    <3> QED
      BY <3>1, <3>2 DEF g
  <2>5. state[a] \in Int
    BY <1>3
  <2> HIDE DEF n, m, each
  <2>6. each * (n - (m - 1)) = each * (n - m) + each
    <3>1. each * (n - (m - 1)) = each + each * ((n - (m - 1)) - 1)
      BY <1>3, <2>1, OneMore
    <3>2. (n - (m - 1)) - 1 = n - m
      BY <2>1
    <3>3. each * (n - m) \in Int
      BY <1>3, <2>1
    <3> QED
      BY <1>3, <3>1, <3>2, <3>3
  <2>7. each * (n - m) \in Int
    BY <1>3, <2>1
  <2>8. SumFunction(state') = Start + each * (n - (m - 1))
    BY <2>3, <2>4, <2>5, <2>6, <2>7, <1>3
  <2>9. /\ Cardinality(Attackers(flag.data)') = n /\ Cardinality(list') = m - 1
        /\ pc' = "insert"
    BY <1>1, <1>5, <2>2 DEF n
  <2> QED
    BY <2>8, <2>9, <1>5 DEF SharesOK, Handed, Start
<1> QED
  BY <1>8, <1>9

\* The owner pays what the thieves have got.
LEMMA OwnerPoints ==
  ASSUME IInv, KeptIInv, SharesWhole, InsertOwner
  PROVE  KeptIInv'
<1> USE ScoresCacheAssumption
<1> DEFINE owner == Victim(flag)
           each == ScoreToEachAttacker
           fee == ScoreFromOwner
           row == [time |-> FlagTime[flag.data] + Expire, team |-> owner,
                   score |-> ownerTotal - fee]
<1>1. /\ pc = "insert" /\ pc' = "commit" /\ list = {} /\ list' = list
      /\ txn' = txn \cup {row}
      /\ state' = [state EXCEPT ![owner] = ownerTotal - fee]
      /\ table' = table /\ batch' = batch /\ flag' = flag
      /\ ownerTotal' = ownerTotal /\ Spoiled' = Spoiled
  BY DEF InsertOwner, InsertScore, history, job, Spoiled
<1>0. (Spoiled = {} => TableKept') /\ SelfStolen' = SelfStolen
  <2>1. Spoiled = {} => TableKept'
    BY <1>1
       DEF KeptIInv, TableKept, OneReading, Reading, LastRow, LastRows, Rows
  <2>2. SelfStolen' = SelfStolen
    BY <1>1 DEF SelfStolen, Victim, Attackers, Grouped
  <2> QED
    BY <2>1, <2>2
<1> SUFFICES ASSUME Spoiled = {}, ~SelfStolen PROVE StateOK' /\ SharesOK'
  BY <1>0, <1>1 DEF KeptIInv, InTransaction
<1>2. StateOK /\ SharesOK /\ InTransaction
  BY <1>1 DEF KeptIInv, InTransaction
<1>3. /\ TypeOK /\ flag \in Thefts /\ state \in [Teams -> Int] /\ each \in Int
      /\ fee \in Int /\ ownerTotal \in Int
  BY <1>2, Share, Fee DEF IInv, WatermarkOK, TypeOK
<1>4. /\ Attackers(flag.data) \subseteq Teams /\ owner \in Teams
      /\ owner \notin Attackers(flag.data)
      /\ Cardinality(Attackers(flag.data)) \in Nat
  BY <1>3, AttackersAre DEF SelfStolen
<1>5. /\ Reading' = Reading /\ Attackers(flag.data)' = Attackers(flag.data)
      /\ Victim(flag)' = owner
  BY <1>1 DEF Reading, LastRow, LastRows, Rows, Attackers, Grouped, Victim
<1>7. /\ Written = Attackers(flag.data) /\ Written' = Written \cup {owner}
      /\ owner \notin Written
  BY <1>1, <1>4, <1>5 DEF Written
<1>8. state[owner] = ownerTotal
  BY <1>2, <1>4, <1>7 DEF StateOK
<1>9. StateOK'
  <2>1. \A t \in Teams \ Written' : state'[t] = Reading[t]
    BY <1>1, <1>2, <1>3, <1>7 DEF StateOK
  <2>2. \A t \in Written' : \E r \in txn' : r.team = t
    <3>1. row \in txn' /\ row.team = owner
      BY <1>1
    <3>2. \A t \in Written : \E r \in txn : r.team = t
      BY <1>2 DEF StateOK
    <3> QED
      BY <1>1, <1>7, <3>1, <3>2
  <2>3. ASSUME NEW r \in txn'
        PROVE  r.team \in Written' /\ r.score = state'[r.team]
    <3>1. CASE r = row
      BY <3>1, <1>1, <1>3, <1>4, <1>7
    <3>2. CASE r \in txn
      <4>1. r.team \in Written /\ r.score = state[r.team] /\ r.team \in Teams
        BY <3>2, <1>2, <1>3 DEF StateOK, TypeOK
      <4>2. r.team # owner
        BY <4>1, <1>7
      <4> QED
        BY <4>1, <4>2, <1>1, <1>3, <1>7
    <3>3. r = row \/ r \in txn
      BY <1>1
    <3> HIDE DEF row
    <3> QED
      BY <3>1, <3>2, <3>3
  <2>4. ownerTotal' = Reading'[owner] /\ list' \subseteq Attackers(flag.data)'
    BY <1>1, <1>2, <1>5 DEF StateOK
  <2>5. Victim(flag)' = owner
    BY <1>5
  <2> HIDE DEF row, each, fee, owner
  <2> QED
    BY <2>1, <2>2, <2>3, <2>4, <2>5, <1>1, <1>2, <1>5
       DEF StateOK, InTransaction
<1>10. SharesOK'
  <2> DEFINE n == Cardinality(Attackers(flag.data))
  <2>1. Cardinality(list) = 0
    BY <1>1, FS_EmptySet
  <2>2. SumFunction(state) = Start + each * n /\ Start \in Int
    <3>1. Start \in Int
      BY FS_CardinalityType DEF Start
    <3>2. n - Cardinality(list) = n
      BY <2>1, <1>4
    <3> QED
      BY <3>1, <3>2, <1>1, <1>2 DEF SharesOK, Handed, Start
  <2>3. each * n = fee
    BY <1>1 DEF SharesWhole
  <2>4. SumFunction(state') = SumFunction(state) - ownerTotal + (ownerTotal - fee)
    <3> DEFINE g == state'
    <3>1. /\ g \in [Teams -> Int] /\ g[owner] = ownerTotal - fee
          /\ \A t \in Teams \ {owner} : g[t] = state[t]
      BY <1>1, <1>3, <1>4
    <3> HIDE DEF g, fee, owner
    <3>2. SumFunction(g) = SumFunction(state) - state[owner] + g[owner]
      BY <3>1, <1>3, <1>4, SumUpdate
    <3> QED
      BY <3>1, <3>2, <1>8 DEF g
  <2> HIDE DEF n, each, fee
  <2>5. SumFunction(state') = Start
    BY <2>2, <2>3, <2>4, <1>3
  <2> QED
    BY <2>5, <1>1 DEF SharesOK, Handed, Start
<1> QED
  BY <1>9, <1>10

\* The last rows after a commit are the totals of the hashtable.
LEMMA CommittedPoints ==
  ASSUME IInv, IInv', KeptIInv, pc = "commit", Committed, pc' # "commit",
         pc' \in {"flags", "down"}, pc' = "flags" => state' = state
  PROVE  KeptIInv'
<1> USE ScoresCacheAssumption
<1> SUFFICES ASSUME Spoiled' = {} PROVE Points'
  BY DEF KeptIInv, Points
<1>1. table' = table \cup txn /\ Spoiled = {} /\ ~SelfStolen
  BY DEF Committed, Spoiled
<1>2. TableKept /\ StateOK /\ SharesOK /\ InTransaction
  BY <1>1 DEF KeptIInv, InTransaction
<1>3. TypeOK /\ flag \in Thefts /\ state \in [Teams -> Int]
  BY <1>2 DEF IInv, WatermarkOK, TypeOK
<1>4. table # {} /\ table' # {} /\ TypeOK' /\ TableOK'
  <2>1. table # {}
    BY DEF IInv, TableOK
  <2> QED
    BY <1>1, <2>1 DEF IInv
<1>5. \A r \in table : r.time < FlagTime[flag.data] + Expire
  BY <1>2 DEF IInv, WatermarkOK
<1>6. \A r \in txn : /\ r.time = FlagTime[flag.data] + Expire /\ r.team \in Written
                     /\ r.score = state[r.team]
  BY <1>2 DEF IInv, TxnOK, StateOK
<1>7. ASSUME NEW t \in Teams PROVE \A q \in LastRows(t)' : q.score = state[t]
  <2>1. CASE t \in Written
    <3> SUFFICES ASSUME NEW q \in LastRows(t)' PROVE q \in txn
      BY <1>6 DEF LastRows, Rows
    <3>1. PICK r \in txn : r.team = t
      BY <2>1, <1>2 DEF StateOK
    <3>2. q \in table' /\ q.team = t /\ r.time <= q.time
      BY <3>1, <1>1 DEF LastRows, Rows
    <3>3. r.time = FlagTime[flag.data] + Expire /\ r.time \in Int
      BY <3>1, <1>3, <1>6 DEF TypeOK
    <3>4. \A s \in table : s.time < r.time /\ s.time \in Int
      BY <3>3, <1>3, <1>5 DEF TypeOK
    <3>5. q \notin table
      BY <3>2, <3>3, <3>4
    <3> QED
      BY <3>2, <3>5, <1>1
  <2>2. CASE t \notin Written
    <3>1. LastRows(t)' = LastRows(t)
      BY <2>2, <1>1, <1>6 DEF LastRows, Rows
    <3>2. state[t] = LastRow(t).score
      BY <2>2, <1>2 DEF StateOK, Reading
    <3>3. LastRow(t) \in LastRows(t)
      BY <1>4 DEF IInv, TableOK, LastRow
    <3> QED
      BY <3>1, <3>2, <3>3, <1>2, <1>4 DEF TableKept, OneReading
  <2> QED
    BY <2>1, <2>2
<1>8. ASSUME NEW t \in Teams PROVE LastRow(t)'.score = state[t]
  <2>1. LastRows(t)' # {}
    BY <1>4 DEF TableOK
  <2>2. LastRow(t)' \in LastRows(t)'
    BY <2>1 DEF LastRow
  <2> QED
    BY <2>2, <1>7
<1>9. Reading' = state /\ OneReading'
  BY <1>3, <1>7, <1>8 DEF Reading, OneReading
<1>10. SumFunction(state) = Start
  BY <1>2 DEF SharesOK, Start
<1>11. TableKept'
  BY <1>9, <1>10 DEF TableKept, Start
<1>12. StateOK' /\ SharesOK'
  BY <1>9 DEF StateOK, SharesOK, InTransaction
<1> QED
  BY <1>11, <1>12 DEF Points

\* A transaction that fails leaves nothing to be said.
LEMMA FailsPoints ==
  ASSUME TransactionFails PROVE KeptIInv'
<1>1. failed' # {}
  BY DEF TransactionFails
<1> QED
  BY <1>1 DEF KeptIInv, Spoiled

\* While nothing has spoiled them, points neither appear nor vanish: the last
\* rows of all teams add up to what they started with, over ends at any point.
LEMMA KeptInvariance == Spec /\ []SharesWhole => []KeptIInv
<1>1. Init => KeptIInv
  BY DEF Init, KeptIInv, TableKept, StateOK, SharesOK, InTransaction
<1>2. IInv /\ IInv' /\ KeptIInv /\ SharesWhole /\ [Next]_vars => KeptIInv'
  <2> SUFFICES ASSUME IInv, IInv', KeptIInv, SharesWhole, [Next]_vars
               PROVE  KeptIInv'
    OBVIOUS
  <2>1. CASE CreateInitStateInDb \/ GetStateFromDb
    BY <2>1, CreatePoints, GetStatePoints
  <2>2. CASE \E p \in Thefts : NextFlag(p)
    BY <2>2, NextFlagPoints
  <2>3. CASE (\E a \in Teams : InsertAttacker(a)) \/ InsertOwner
    BY <2>3, AttackerPoints, OwnerPoints
  <2>4. CASE Commit
    <3>1. pc = "commit" /\ Committed /\ pc' = "flags" /\ state' = state
      BY <2>4 DEF Commit
    <3> QED
      BY <3>1, CommittedPoints
  <2>5. CASE TransactionFails
    BY <2>5, FailsPoints
  <2>6. CASE Sleep \/ GetRottenStolenFlags
    <3>1. /\ pc' \in {"query", "flags"} /\ pc \in {"query", "flags"}
          /\ state' = state /\ table' = table /\ Spoiled' = Spoiled
      BY <2>6 DEF Sleep, GetRottenStolenFlags, history, Spoiled
    <3> QED
      BY <3>1, PointsKeep
  <2>7. CASE Die
    <3>1. CASE txn' = {} /\ UNCHANGED <<table, history>>
      <4>1. pc' = "down" /\ table' = table /\ Spoiled' = Spoiled
        BY <2>7, <3>1 DEF Die, history, Spoiled
      <4> QED
        BY <4>1, PointsKeep
    <3>2. CASE pc = "commit" /\ Committed
      <4>1. pc' = "down"
        BY <2>7 DEF Die
      <4> QED
        BY <4>1, <3>2, CommittedPoints
    <3> QED
      BY <2>7, <3>1, <3>2 DEF Die
  <2>8. CASE Restart
    <3>1. pc' = "start" /\ table' = table /\ Spoiled' = Spoiled
      BY <2>8 DEF Restart, history, Spoiled
    <3> QED
      BY <3>1, PointsKeep
  <2>9. CASE (Tick \/ \E p \in Thefts : Accept(p) \/ Record(p)) \/ UNCHANGED vars
    <3>1. /\ table' = table /\ txn' = txn /\ pc' = pc /\ state' = state
          /\ Spoiled' = Spoiled /\ batch' = batch /\ flag' = flag
          /\ list' = list /\ ownerTotal' = ownerTotal
      BY <2>9 DEF Tick, Accept, Record, vars, job, history, Spoiled
    <3>2. \/ pc \in {"start", "down"} \/ pc \in {"query", "flags"}
          \/ InTransaction
      BY DEF IInv, TypeOK, InTransaction
    <3> QED
      BY <3>1, <3>2, PointsKeep
  <2> QED
    BY <2>1, <2>2, <2>3, <2>4, <2>5, <2>6, <2>7, <2>8, <2>9 DEF Next, Process
<1> QED
  BY <1>1, <1>2, Invariance, PTL DEF Spec

(***************************************************************************)
(* The bound.  Some function is above the hashtable and the last rows, and *)
(* its sum is what the teams started with and a fee for each spoiled flag  *)
(* up to the watermark: flags beyond it may be read and fail once more.    *)
(***************************************************************************)

\* A sum of greater numbers is greater.
LEMMA SumLess ==
  ASSUME NEW S, IsFiniteSet(S), NEW f \in [S -> Int], NEW g \in [S -> Int],
         \A y \in S : f[y] <= g[y]
  PROVE  /\ SumFunction(f) \in Int /\ SumFunction(g) \in Int
         /\ SumFunction(f) <= SumFunction(g)
<1>1. PICK h : Summed(f, S, h) /\ SumFunction(f) = h[S]
  BY SumIs
<1>2. PICK k : Summed(g, S, k) /\ SumFunction(g) = k[S]
  BY SumIs
<1> DEFINE Odd == {n \in Nat : \E r \in SUBSET S :
                                  Cardinality(r) = n /\ ~(h[r] <= k[r])}
<1>3. Odd = {}
  <2> SUFFICES ASSUME Odd # {} PROVE FALSE
    OBVIOUS
  <2>1. PICK n \in Odd : \A m \in Odd : n <= m
    <3>1. Odd \subseteq Nat
      OBVIOUS
    <3> HIDE DEF Odd
    <3> QED BY <3>1, LeastNat
  <2>2. PICK r \in SUBSET S : Cardinality(r) = n /\ ~(h[r] <= k[r])
    OBVIOUS
  <2>3. r # {}
    <3>1. r = {} => h[r] = 0 /\ k[r] = 0
      BY <1>1, <1>2 DEF Summed
    <3> QED BY <2>2, <3>1
  <2> DEFINE z == Taken(r)
  <2>4. z \in r
    BY <2>3 DEF Taken
  <2>5. h[r] = f[z] + h[r \ {z}] /\ k[r] = g[z] + k[r \ {z}]
    BY <1>1, <1>2, <2>3 DEF Summed
  <2> HIDE DEF z
  <2>6. f[z] <= g[z] /\ f[z] \in Int /\ g[z] \in Int
    BY <2>4
  <2>7. /\ Cardinality(r) \in Nat \ {0} /\ r \ {z} \in SUBSET S
        /\ Cardinality(r \ {z}) = Cardinality(r) - 1
    BY <2>4, PartSmaller
  <2>8. n - 1 \in Nat /\ Cardinality(r \ {z}) = n - 1
    BY <2>2, <2>7
  <2>9. n - 1 \notin Odd
    BY <2>1, <2>8
  <2>10. h[r \ {z}] <= k[r \ {z}]
    BY <2>7, <2>8, <2>9
  <2>11. h[r \ {z}] \in Int /\ k[r \ {z}] \in Int
    BY <1>1, <1>2, <2>7 DEF Summed
  <2> QED BY <2>2, <2>5, <2>6, <2>10, <2>11
<1>4. S \in SUBSET S /\ Cardinality(S) \in Nat
  BY FS_CardinalityType
<1>5. h[S] <= k[S]
  BY <1>3, <1>4
<1>6. h[S] \in Int /\ k[S] \in Int
  BY <1>1, <1>2, <1>4 DEF Summed
<1> QED BY <1>1, <1>2, <1>5, <1>6

LEMMA TimesMore ==
  ASSUME NEW a \in Nat, NEW m \in Nat, NEW n \in Nat, m <= n
  PROVE  a * m \in Nat /\ a * n \in Nat /\ a * m <= a * n
OBVIOUS

\* What is left of a division is lost.
LEMMA SharesAtMost ==
  ASSUME NEW a \in Nat, NEW b \in Nat \ {0}
  PROVE  (a \div b) * b <= a
OBVIOUS

\* The points there may be when the flags of S up to time x are spoiled.
Allowed(S, x) == Start + FullFee * Cardinality({f \in S : FlagTime[f] <= x})

LEMMA FeesAre == Start \in Nat /\ FullFee \in Nat
<1>1. Cardinality(Teams) \in Nat
  BY ScoresCacheAssumption, FS_CardinalityType
<1> QED
  BY <1>1, ScoresCacheAssumption DEF Start, FullFee

LEMMA AllowedLess ==
  ASSUME NEW T \in SUBSET Flags, NEW S \in SUBSET T,
         NEW x \in Int, NEW y \in Int, x <= y
  PROVE  /\ Allowed(S, x) \in Int /\ Allowed(T, y) \in Int
         /\ Allowed(S, x) <= Allowed(T, y)
<1> DEFINE A == {f \in S : FlagTime[f] <= x}
           B == {f \in T : FlagTime[f] <= y}
<1>1. A \subseteq B /\ B \subseteq Flags
  BY ScoresCacheAssumption
<1>2. IsFiniteSet(B)
  BY <1>1, ScoresCacheAssumption, FS_Subset
<1>3. /\ Cardinality(A) \in Nat /\ Cardinality(B) \in Nat
      /\ Cardinality(A) <= Cardinality(B)
  BY <1>1, <1>2, FS_Subset, FS_CardinalityType
<1> HIDE DEF A, B
<1>4. /\ FullFee * Cardinality(A) \in Nat /\ FullFee * Cardinality(B) \in Nat
      /\ FullFee * Cardinality(A) <= FullFee * Cardinality(B)
  BY <1>3, FeesAre, TimesMore
<1> QED
  BY <1>4, FeesAre DEF Allowed, A, B

\* One flag more is one fee more.
LEMMA AllowedMore ==
  ASSUME NEW T \in SUBSET Flags, NEW S \in SUBSET T, NEW g \in T,
         NEW x \in Int, x < FlagTime[g]
  PROVE  /\ Allowed(S, x) \in Int /\ Allowed(T, FlagTime[g]) \in Int
         /\ Allowed(S, x) + FullFee <= Allowed(T, FlagTime[g])
<1> DEFINE A == {f \in S : FlagTime[f] <= x}
           B == {f \in T : FlagTime[f] <= FlagTime[g]}
<1>1. /\ A \subseteq B /\ B \subseteq Flags /\ g \in B /\ g \notin A
      /\ FlagTime[g] \in Int
  BY ScoresCacheAssumption
<1>2. IsFiniteSet(B) /\ IsFiniteSet(B \ {g})
  BY <1>1, ScoresCacheAssumption, FS_Subset
<1>3. A \subseteq B \ {g}
  BY <1>1
<1>4. /\ Cardinality(B) \in Nat /\ Cardinality(A) \in Nat
      /\ Cardinality(B \ {g}) = Cardinality(B) - 1
      /\ Cardinality(A) <= Cardinality(B \ {g})
  <2> HIDE DEF A, B
  <2>1. Cardinality(B \ {g}) = Cardinality(B) - 1
    BY <1>1, <1>2, FS_RemoveElement
  <2>2. IsFiniteSet(A) /\ Cardinality(A) <= Cardinality(B \ {g})
    BY <1>2, <1>3, FS_Subset
  <2> QED
    BY <1>2, <2>1, <2>2, FS_CardinalityType
<1> HIDE DEF A, B
<1>5. Cardinality(A) + 1 \in Nat /\ Cardinality(A) + 1 <= Cardinality(B)
  BY <1>4
<1>6. /\ FullFee * (Cardinality(A) + 1) \in Nat
      /\ FullFee * Cardinality(B) \in Nat
      /\ FullFee * (Cardinality(A) + 1) <= FullFee * Cardinality(B)
  BY <1>4, <1>5, FeesAre, TimesMore
<1>7. FullFee * (Cardinality(A) + 1) = FullFee + FullFee * Cardinality(A)
  <2>1. /\ FullFee * (Cardinality(A) + 1)
             = FullFee + FullFee * ((Cardinality(A) + 1) - 1)
    BY <1>4, FeesAre, OneMore
  <2>2. (Cardinality(A) + 1) - 1 = Cardinality(A)
    BY <1>4
  <2> QED
    BY <2>1, <2>2
<1>8. FullFee * Cardinality(A) \in Nat
  BY <1>4, FeesAre, TimesMore
<1> QED
  BY <1>6, <1>7, <1>8, FeesAre DEF Allowed, A, B

\* M is above the last rows of the teams in T, the hashtable, the transaction.
AboveRows(M, T) == \A t \in T : \A r \in LastRows(t) : r.score <= M[t]
AboveState(M) == \A t \in Teams : state[t] <= M[t]
AboveTxn(M) == \A r \in txn : r.score <= M[r.team]

TableBounded ==
  table # {} =>
    \E M \in [Teams -> Int] :
      /\ AboveRows(M, Teams)
      /\ SumFunction(M) <= Allowed(Spoiled, GetLastKnownTime - Expire)

LoopBounded ==
  \E M \in [Teams -> Int] :
    /\ AboveRows(M, Teams) /\ AboveState(M)
    /\ SumFunction(M) <= Allowed(Spoiled, last)

\* Shares are handed out.
InsertBounded ==
  /\ list \subseteq Attackers(flag.data)
  /\ \A r \in txn : r.team \in Attackers(flag.data)
  /\ \E M \in [Teams -> Int] :
       /\ AboveRows(M, Teams) /\ AboveState(M) /\ AboveTxn(M)
       /\ ownerTotal <= M[Victim(flag)]
       /\ SumFunction(M)
            <= Allowed(Spoiled, last - 1) + ScoreToEachAttacker * Handed

\* The transaction may fail, or its owner be among the thieves.
FailBounded ==
  \E M \in [Teams -> Int] :
    /\ AboveRows(M, Teams) /\ AboveState(M) /\ AboveTxn(M)
    /\ SumFunction(M) <= Allowed(Spoiled, last - 1) + FullFee

\* The owner has paid, and its last row is in the transaction.
PaidBounded ==
  /\ \E r \in txn : r.team = Victim(flag)
  /\ \E M \in [Teams -> Int] :
       /\ AboveRows(M, Teams \ {Victim(flag)}) /\ AboveState(M) /\ AboveTxn(M)
       /\ SumFunction(M) <= Allowed(Spoiled, last - 1)

BoundIInv ==
  /\ TableBounded
  /\ pc \in {"query", "flags"} => LoopBounded
  /\ pc = "insert" => InsertBounded
  /\ pc = "commit" => FailBounded /\ (SelfStolen \/ PaidBounded)

\* The last known time after a step.
LastKnownOK ==
  /\ GetLastKnownTime \in Int
  /\ \A q \in table : q.time <= GetLastKnownTime

LEMMA LastKnownLater == TypeOK /\ TableOK /\ table # {} => LastKnownOK
BY LastKnownIs DEF LastKnownOK

LEMMA SpoiledAre == TypeOK => Spoiled \subseteq Flags
BY DEF TypeOK, Spoiled

\* A table that stays is as bounded as it was.
LEMMA TableBoundKeep ==
  ASSUME IInv, IInv', BoundIInv, table' = table, Spoiled \subseteq Spoiled'
  PROVE  TableBounded'
<1> SUFFICES ASSUME table # {}
             PROVE  \E M \in [Teams -> Int] :
                      /\ AboveRows(M, Teams)'
                      /\ SumFunction(M)
                           <= Allowed(Spoiled', (GetLastKnownTime - Expire)')
  BY DEF TableBounded, Allowed
<1>1. PICK M \in [Teams -> Int] :
        /\ AboveRows(M, Teams)
        /\ SumFunction(M) <= Allowed(Spoiled, GetLastKnownTime - Expire)
  BY DEF BoundIInv, TableBounded
<1>2. /\ GetLastKnownTime' = GetLastKnownTime
      /\ \A t \in Teams : LastRows(t)' = LastRows(t)
  BY DEF GetLastKnownTime, LastTime, LastRow, LastRows, Rows
<1>3. AboveRows(M, Teams)'
  BY <1>1, <1>2 DEF AboveRows
<1>4. GetLastKnownTime - Expire \in Int
  BY LastKnownIs, ScoresCacheAssumption DEF IInv
<1>5. Spoiled' \subseteq Flags
  BY DEF IInv, TypeOK, Spoiled
<1>6. /\ Allowed(Spoiled, GetLastKnownTime - Expire) \in Int
      /\ Allowed(Spoiled', GetLastKnownTime - Expire) \in Int
      /\ Allowed(Spoiled, GetLastKnownTime - Expire)
           <= Allowed(Spoiled', GetLastKnownTime - Expire)
  BY <1>4, <1>5, AllowedLess
<1>7. SumFunction(M) \in Int
  BY ScoresCacheAssumption, SumLess
<1>8. SumFunction(M) <= Allowed(Spoiled', GetLastKnownTime - Expire)
  BY <1>1, <1>6, <1>7
<1> QED
  BY <1>2, <1>3, <1>8

LEMMA CreateBound ==
  ASSUME IInv, IInv', CreateInitStateInDb PROVE BoundIInv'
<1> USE ScoresCacheAssumption
<1>1. /\ table' = {[time |-> 0, team |-> t, score |-> Initial] : t \in Teams}
      /\ pc' = "start" /\ Spoiled' = Spoiled
  BY DEF CreateInitStateInDb, history, Spoiled
<1> DEFINE M == [t \in Teams |-> Initial]
<1>2. M \in [Teams -> Int] /\ \A t \in Teams : M[t] = Initial
  OBVIOUS
<1>3. SumFunction(M) = Start
  <2> HIDE DEF M
  <2> QED
    BY <1>2, SumSame DEF Start
<1>4. AboveRows(M, Teams)'
  <2>1. \A r \in table' : r.score = Initial
    BY <1>1
  <2> QED
    BY <2>1, <1>2 DEF AboveRows, LastRows, Rows
<1>5. table' # {}
  <2>1. PICK t \in Teams : TRUE
    OBVIOUS
  <2>2. [time |-> 0, team |-> t, score |-> Initial] \in table'
    BY <1>1
  <2> QED
    BY <2>2
<1>6. Start <= Allowed(Spoiled', (GetLastKnownTime - Expire)')
  <2>1. (TypeOK /\ TableOK /\ table # {})'
    BY <1>5 DEF IInv
  <2>2. LastKnownOK'
    BY <2>1, LastKnownLater, PTL
  <2>3. GetLastKnownTime' \in Int /\ GetLastKnownTime' - Expire \in Int
    BY <2>2 DEF LastKnownOK
  <2> DEFINE x == GetLastKnownTime' - Expire
             A == {f \in Spoiled' : FlagTime[f] <= x}
  <2>4. Spoiled' \subseteq Flags
    BY DEF IInv, TypeOK, Spoiled
  <2>5. Cardinality(A) \in Nat
    BY <2>4, FS_Subset, FS_CardinalityType
  <2> HIDE DEF A
  <2>6. FullFee * Cardinality(A) \in Nat
    BY <2>5, FeesAre, TimesMore
  <2>7. Start <= Start + FullFee * Cardinality(A)
    BY <2>6, FeesAre
  <2> QED
    BY <2>7 DEF Allowed, A
<1> HIDE DEF M
<1>7. SumFunction(M) <= Allowed(Spoiled', (GetLastKnownTime - Expire)')
  BY <1>3, <1>6
<1>8. TableBounded'
  BY <1>2, <1>4, <1>7 DEF TableBounded, Allowed
<1> QED
  BY <1>1, <1>8 DEF BoundIInv

\* What is read is below what is above the last rows.
LEMMA GetStateBound ==
  ASSUME IInv, IInv', BoundIInv, GetStateFromDb PROVE BoundIInv'
<1>1. /\ table' = table /\ state' \in LastScores /\ pc' = "query"
      /\ Spoiled' = Spoiled /\ table # {} /\ last' = GetLastKnownTime - Expire
  BY DEF GetStateFromDb, LastCreationTime, history, Spoiled
<1>2. TableBounded'
  BY <1>1, TableBoundKeep
<1>3. PICK M \in [Teams -> Int] :
        /\ AboveRows(M, Teams)
        /\ SumFunction(M) <= Allowed(Spoiled, GetLastKnownTime - Expire)
  BY <1>1 DEF BoundIInv, TableBounded
<1>4. AboveRows(M, Teams)'
  BY <1>1, <1>3 DEF AboveRows, LastRows, Rows
<1>5. AboveState(M)'
  <2>1. PICK s \in LastScores : state' = s
    BY <1>1
  <2> QED
    BY <2>1, <1>3 DEF AboveState, AboveRows, LastScores
<1>6. LoopBounded'
  BY <1>1, <1>3, <1>4, <1>5 DEF LoopBounded, Allowed
<1> QED
  BY <1>1, <1>2, <1>6 DEF BoundIInv

\* Everything spoiled up to the last flag was so before the next one.
LEMMA NextFlagBound ==
  ASSUME IInv, IInv', BoundIInv, NEW f \in Thefts, NextFlag(f)
  PROVE  BoundIInv'
<1> USE ScoresCacheAssumption
<1>1. /\ pc = "flags" /\ pc' = "insert" /\ table' = table /\ txn' = txn
      /\ flag' = f /\ list' = Attackers(f.data) /\ batch' = batch
      /\ state' = state /\ ownerTotal' = state[Victim(f)]
      /\ last' = FlagTime[f.data] /\ f \in flagTimes
      /\ Spoiled' = Spoiled
  BY DEF NextFlag, history, Spoiled
<1>2. TableBounded'
  BY <1>1, TableBoundKeep
<1>3. PICK M \in [Teams -> Int] :
        /\ AboveRows(M, Teams) /\ AboveState(M)
        /\ SumFunction(M) <= Allowed(Spoiled, last)
  BY <1>1 DEF BoundIInv, LoopBounded
<1>4. txn = {} /\ last \in Int /\ FlagTime[f.data] > last
      /\ Spoiled \subseteq Flags /\ Victim(f) \in Teams
      /\ FlagTime[f.data] \in Int
  BY <1>1 DEF IInv, TypeOK, TxnOK, WatermarkOK, InTransaction, Spoiled, Victim
<1>5. /\ Allowed(Spoiled, last) \in Int
      /\ Allowed(Spoiled, FlagTime[f.data] - 1) \in Int
      /\ Allowed(Spoiled, last) <= Allowed(Spoiled, FlagTime[f.data] - 1)
  BY <1>4, AllowedLess
<1>6. SumFunction(M) \in Int
  BY SumLess
<1>7. Attackers(flag.data)' = list' /\ Victim(flag)' = Victim(f)
  BY <1>1 DEF Attackers, Grouped, Victim
<1>8. ScoreToEachAttacker' * Handed' = 0
  <2>1. InTransaction'
    BY <1>1 DEF InTransaction
  <2>2. (ScoreToEachAttacker \in Int)'
    BY <2>1, ShareLater, PTL
  <2>3. (Cardinality(Attackers(flag.data)) \in Nat)'
    BY <2>1, AttackersLater, PTL
  <2>4. Cardinality(list') \in Nat
    BY <2>3, <1>7
  <2>5. Handed' = 0
    <3>1. Handed' = Cardinality(list') - Cardinality(list')
      BY <1>7 DEF Handed
    <3> QED
      BY <3>1, <2>4
  <2>6. ScoreToEachAttacker' \in Int
    BY <2>2
  <2>7. \A e, h \in Int : h = 0 => e * h = 0
    OBVIOUS
  <2>8. Handed' \in Int
    BY <2>5
  <2> QED
    BY <2>5, <2>6, <2>7, <2>8, Zenon
<1>9. /\ AboveRows(M, Teams)' /\ AboveState(M)' /\ AboveTxn(M)'
      /\ ownerTotal' <= M[Victim(flag)']
  BY <1>1, <1>3, <1>4, <1>7
     DEF AboveRows, AboveState, AboveTxn, LastRows, Rows
<1>10. SumFunction(M)
         <= Allowed(Spoiled', last' - 1) + ScoreToEachAttacker' * Handed'
  BY <1>1, <1>3, <1>5, <1>6, <1>8
<1>11. InsertBounded'
  BY <1>1, <1>4, <1>7, <1>9, <1>10 DEF InsertBounded, Allowed
<1> QED
  BY <1>1, <1>2, <1>11 DEF BoundIInv

\* A thief's total rises by one share.
LEMMA AttackerBound ==
  ASSUME IInv, IInv', BoundIInv, NEW a \in Teams, InsertAttacker(a)
  PROVE  BoundIInv'
<1> USE ScoresCacheAssumption
<1> DEFINE each == ScoreToEachAttacker
           row == [time |-> FlagTime[flag.data] + Expire, team |-> a,
                   score |-> state[a] + each]
<1>1. /\ pc = "insert" /\ pc' = pc /\ a \in list /\ list' = list \ {a}
      /\ txn' = txn \cup {row}
      /\ state' = [state EXCEPT ![a] = state[a] + each]
      /\ table' = table /\ batch' = batch /\ flag' = flag /\ last' = last
      /\ ownerTotal' = ownerTotal /\ Spoiled' = Spoiled
  BY DEF InsertAttacker, InsertScore, history, Spoiled
<1>2. TableBounded'
  BY <1>1, TableBoundKeep
<1>3. InsertBounded /\ InTransaction /\ TypeOK
  BY <1>1 DEF BoundIInv, InTransaction, IInv
<1>4. PICK M \in [Teams -> Int] :
        /\ AboveRows(M, Teams) /\ AboveState(M) /\ AboveTxn(M)
        /\ ownerTotal <= M[Victim(flag)]
        /\ SumFunction(M) <= Allowed(Spoiled, last - 1) + each * Handed
  BY <1>3 DEF InsertBounded
<1>5. each \in Nat /\ state \in [Teams -> Int] /\ flag \in Thefts
      /\ last \in Int /\ Spoiled \subseteq Flags
  BY <1>3, Share DEF IInv, TypeOK, WatermarkOK, Spoiled
<1>6. /\ Attackers(flag.data) \subseteq Teams /\ Victim(flag) \in Teams
      /\ IsFiniteSet(Attackers(flag.data))
      /\ Cardinality(Attackers(flag.data)) \in Nat
      /\ list \subseteq Attackers(flag.data)
  BY <1>3, <1>5, AttackersAre DEF InsertBounded
<1>7. /\ Attackers(flag.data)' = Attackers(flag.data)
      /\ ScoreToEachAttacker' = each /\ Victim(flag)' = Victim(flag)
  BY <1>1 DEF Attackers, Grouped, Victim, ScoreToEachAttacker, ScoreFromOwner
<1>8. PICK N \in [Teams -> Int] :
        /\ N[a] = M[a] + each
        /\ \A t \in Teams \ {a} : N[t] = M[t]
        /\ \A t \in Teams : M[t] <= N[t] /\ M[t] \in Int /\ N[t] \in Int
  <2> DEFINE N == [M EXCEPT ![a] = M[a] + each]
  <2>1. /\ N \in [Teams -> Int] /\ N[a] = M[a] + each
        /\ \A t \in Teams \ {a} : N[t] = M[t]
    BY <1>5
  <2> HIDE DEF N
  <2>2. \A t \in Teams : M[t] <= N[t] /\ M[t] \in Int /\ N[t] \in Int
    BY <2>1, <1>5
  <2> QED
    BY <2>1, <2>2
<1>9. AboveRows(N, Teams)'
  <2> SUFFICES ASSUME NEW t \in Teams, NEW r \in LastRows(t)
               PROVE  r.score <= N[t]
    BY <1>1 DEF AboveRows, LastRows, Rows
  <2>1. r.score <= M[t] /\ r.score \in Int
    BY <1>3, <1>4 DEF AboveRows, LastRows, Rows, TypeOK
  <2> QED
    BY <2>1, <1>8
<1>10. AboveState(N)'
  <2> SUFFICES ASSUME NEW t \in Teams PROVE state'[t] <= N[t]
    BY DEF AboveState
  <2>1. state[t] <= M[t] /\ state[t] \in Int
    BY <1>4, <1>5 DEF AboveState
  <2>2. CASE t = a
    BY <2>1, <2>2, <1>1, <1>5, <1>8
  <2>3. CASE t # a
    BY <2>1, <2>3, <1>1, <1>5, <1>8
  <2> QED
    BY <2>2, <2>3
<1>11. AboveTxn(N)'
  <2> SUFFICES ASSUME NEW r \in txn' PROVE r.score <= N[r.team]
    BY DEF AboveTxn
  <2>1. CASE r = row
    <3>1. r.team = a /\ r.score = state[a] + each
      BY <2>1
    <3>2. state[a] <= M[a]
      BY <1>4 DEF AboveState
    <3> QED
      BY <3>1, <3>2, <1>5, <1>8
  <2>2. CASE r \in txn
    <3>1. r.score <= M[r.team] /\ r.score \in Int /\ r.team \in Teams
      BY <2>2, <1>3, <1>4 DEF AboveTxn, TypeOK
    <3> QED
      BY <3>1, <1>8
  <2>3. r = row \/ r \in txn
    BY <1>1
  <2> HIDE DEF row
  <2> QED
    BY <2>1, <2>2, <2>3
<1>12. ownerTotal' <= N[Victim(flag)']
  <2>1. ownerTotal \in Int
    BY <1>3 DEF TypeOK
  <2> QED
    BY <2>1, <1>1, <1>4, <1>6, <1>7, <1>8
<1>13. SumFunction(N) <= Allowed(Spoiled, last - 1) + each * Handed'
  <2>1. /\ SumFunction(M) \in Int /\ SumFunction(N) \in Int
        /\ SumFunction(N) = SumFunction(M) - M[a] + N[a]
    BY <1>8, SumUpdate
  <2>2. Handed' = Handed + 1 /\ Handed \in Int
    <3>1. IsFiniteSet(list) /\ Cardinality(list) \in Nat
      BY <1>6, FS_Subset, FS_CardinalityType
    <3>2. Cardinality(list') = Cardinality(list) - 1
      BY <1>1, <3>1, FS_RemoveElement
    <3> QED
      BY <3>1, <3>2, <1>6, <1>7 DEF Handed
  <2> HIDE DEF each
  <2>3. each * Handed' = each + each * Handed
    <3>1. Handed' \in Int /\ Handed' - 1 = Handed
      BY <2>2
    <3>2. each * Handed' = each + each * (Handed' - 1)
      BY <3>1, <1>5, OneMore
    <3> QED
      BY <3>1, <3>2
  <2>4. each * Handed \in Int
    BY <2>2, <1>5
  <2>5. Allowed(Spoiled, last - 1) \in Int
    BY <1>5, AllowedLess
  <2>6. SumFunction(N) = SumFunction(M) + each
    BY <2>1, <1>5, <1>8
  <2> QED
    BY <2>1, <2>3, <2>4, <2>5, <2>6, <1>4, <1>5
<1>14. /\ list' \subseteq Attackers(flag.data)'
       /\ \A r \in txn' : r.team \in Attackers(flag.data)'
  <2>1. row.team = a
    OBVIOUS
  <2> HIDE DEF row
  <2> QED
    BY <2>1, <1>1, <1>3, <1>6, <1>7 DEF InsertBounded
<1>15. InsertBounded'
  BY <1>1, <1>7, <1>8, <1>9, <1>10, <1>11, <1>12, <1>13, <1>14
     DEF InsertBounded, Allowed
<1> QED
  BY <1>1, <1>2, <1>15 DEF BoundIInv

\* What has been handed out is a fee at most, and less than the owner pays.
LEMMA HandedAtMost ==
  ASSUME IInv, InsertBounded, pc = "insert"
  PROVE  /\ ScoreToEachAttacker * Handed \in Int
         /\ ScoreToEachAttacker * Handed <= ScoreFromOwner
         /\ ScoreFromOwner \in Nat /\ ScoreFromOwner <= FullFee
         /\ ScoreToEachAttacker * Handed <= FullFee
<1> USE ScoresCacheAssumption
<1> DEFINE each == ScoreToEachAttacker
           fee == ScoreFromOwner
           n == Cardinality(Attackers(flag.data))
<1>1. InTransaction /\ flag \in Thefts /\ TypeOK /\ ownerTotal \in Int
  BY DEF IInv, WatermarkOK, InTransaction, TypeOK
<1>2. fee \in Nat /\ fee <= FullFee /\ each \in Nat
  <2>1. fee \in Int /\ fee >= 0
    BY Fee DEF IInv
  <2>2. fee <= FullFee
    BY <1>1, FeesAre, MinDef DEF ScoreFromOwner, FullFee
  <2>3. each \in Nat
    BY <1>1, Share DEF IInv
  <2> QED
    BY <2>1, <2>2, <2>3
<1>3. IsFiniteSet(Attackers(flag.data)) /\ n \in Nat
  BY <1>1, AttackersAre
<1>4. n # 0
  <2>1. flag \in batch
    BY <1>1 DEF IInv, BatchOK
  <2>2. flag.thief \in Attackers(flag.data)
    BY <2>1 DEF Attackers, Grouped
  <2> QED
    BY <2>2, <1>3, FS_EmptySet
<1>5. Handed \in Nat /\ Handed <= n
  <2>1. list \subseteq Attackers(flag.data)
    BY DEF InsertBounded
  <2>2. Cardinality(list) \in Nat /\ Cardinality(list) <= n
    BY <2>1, <1>3, FS_Subset, FS_CardinalityType
  <2> QED
    BY <2>2, <1>3 DEF Handed
<1>6. each = fee \div n
  BY DEF ScoreToEachAttacker
<1> HIDE DEF fee, n, each
<1>7. (fee \div n) * n <= fee
  BY <1>2, <1>3, <1>4, SharesAtMost
<1>8. each * Handed \in Nat /\ each * n \in Nat /\ each * Handed <= each * n
  BY <1>2, <1>3, <1>5, TimesMore
<1>9. each * Handed <= fee
  BY <1>2, <1>6, <1>7, <1>8
<1>10. each * Handed <= FullFee
  BY <1>2, <1>8, <1>9, FeesAre
<1> QED
  BY <1>2, <1>8, <1>9, <1>10 DEF each, fee

\* The owner pays at least what the thieves have got.
LEMMA OwnerBound ==
  ASSUME IInv, IInv', BoundIInv, InsertOwner
  PROVE  BoundIInv'
<1> USE ScoresCacheAssumption
<1> DEFINE owner == Victim(flag)
           each == ScoreToEachAttacker
           fee == ScoreFromOwner
           row == [time |-> FlagTime[flag.data] + Expire, team |-> owner,
                   score |-> ownerTotal - fee]
<1>1. /\ pc = "insert" /\ pc' = "commit" /\ list = {}
      /\ txn' = txn \cup {row}
      /\ state' = [state EXCEPT ![owner] = ownerTotal - fee]
      /\ table' = table /\ batch' = batch /\ flag' = flag /\ last' = last
      /\ Spoiled' = Spoiled
  BY DEF InsertOwner, InsertScore, history, job, Spoiled
<1>2. TableBounded'
  BY <1>1, TableBoundKeep
<1>3. InsertBounded /\ InTransaction /\ TypeOK
  BY <1>1 DEF BoundIInv, InTransaction, IInv
<1>4. PICK M \in [Teams -> Int] :
        /\ AboveRows(M, Teams) /\ AboveState(M) /\ AboveTxn(M)
        /\ ownerTotal <= M[owner]
        /\ SumFunction(M) <= Allowed(Spoiled, last - 1) + each * Handed
  BY <1>3 DEF InsertBounded
<1>5. state \in [Teams -> Int] /\ flag \in Thefts
      /\ last \in Int /\ Spoiled \subseteq Flags /\ ownerTotal \in Int
  BY <1>3 DEF IInv, TypeOK, WatermarkOK, Spoiled
<1>6. /\ Attackers(flag.data) \subseteq Teams /\ owner \in Teams
      /\ IsFiniteSet(Attackers(flag.data))
  BY <1>3, <1>5, AttackersAre
<1>7. Attackers(flag.data)' = Attackers(flag.data) /\ Victim(flag)' = owner
  BY <1>1 DEF Attackers, Grouped, Victim
<1>8. fee \in Nat /\ fee <= FullFee
  BY <1>1, <1>3, HandedAtMost
<1>9. each * Handed <= fee /\ each * Handed \in Int
  BY <1>1, <1>3, HandedAtMost
<1>10. /\ SumFunction(M) \in Int /\ Allowed(Spoiled, last - 1) \in Int
       /\ SumFunction(M) <= Allowed(Spoiled, last - 1) + fee
  <2>1. SumFunction(M) \in Int
    BY SumLess
  <2>2. Allowed(Spoiled, last - 1) \in Int
    BY <1>5, AllowedLess
  <2> HIDE DEF fee, each
  <2> QED
    BY <2>1, <2>2, <1>4, <1>8, <1>9
<1>11. ownerTotal - fee \in Int /\ ownerTotal - fee <= M[owner]
       /\ \A t \in Teams : M[t] \in Int
  <2> HIDE DEF fee
  <2> QED
    BY <1>4, <1>5, <1>6, <1>8
<1>12. row.team = owner /\ row.score = ownerTotal - fee
  OBVIOUS
<1> HIDE DEF row, fee, each
<1>13. FailBounded'
  <2>1. AboveRows(M, Teams)'
    BY <1>1, <1>4 DEF AboveRows, LastRows, Rows
  <2>2. AboveState(M)'
    <3> SUFFICES ASSUME NEW t \in Teams PROVE state'[t] <= M[t]
      BY DEF AboveState
    <3>1. CASE t = owner
      BY <3>1, <1>1, <1>5, <1>11
    <3>2. CASE t # owner
      BY <3>2, <1>1, <1>4, <1>5 DEF AboveState
    <3> QED
      BY <3>1, <3>2
  <2>3. AboveTxn(M)'
    <3> SUFFICES ASSUME NEW r \in txn' PROVE r.score <= M[r.team]
      BY DEF AboveTxn
    <3>1. CASE r = row
      BY <3>1, <1>11, <1>12
    <3>2. CASE r \in txn
      BY <3>2, <1>4 DEF AboveTxn
    <3> QED
      BY <3>1, <3>2, <1>1
  <2>4. SumFunction(M) <= Allowed(Spoiled', last' - 1) + FullFee
    BY <1>1, <1>8, <1>10, FeesAre
  <2> QED
    BY <2>1, <2>2, <2>3, <2>4 DEF FailBounded, Allowed
<1>14. ASSUME ~SelfStolen PROVE PaidBounded'
  <2>1. owner \notin Attackers(flag.data)
    BY <1>14 DEF SelfStolen
  <2>2. PICK N \in [Teams -> Int] :
          /\ N[owner] = ownerTotal - fee
          /\ \A t \in Teams \ {owner} : N[t] = M[t]
    <3> DEFINE N == [M EXCEPT ![owner] = ownerTotal - fee]
    <3>1. /\ N \in [Teams -> Int] /\ N[owner] = ownerTotal - fee
          /\ \A t \in Teams \ {owner} : N[t] = M[t]
      BY <1>6, <1>11
    <3> QED
      BY <3>1
  <2>3. AboveRows(N, Teams \ {Victim(flag)})'
    BY <1>1, <1>4, <1>7, <2>2 DEF AboveRows, LastRows, Rows
  <2>4. AboveState(N)'
    <3> SUFFICES ASSUME NEW t \in Teams PROVE state'[t] <= N[t]
      BY DEF AboveState
    <3>1. CASE t = owner
      BY <3>1, <1>1, <1>5, <1>11, <2>2
    <3>2. CASE t # owner
      BY <3>2, <1>1, <1>4, <1>5, <2>2 DEF AboveState
    <3> QED
      BY <3>1, <3>2
  <2>5. AboveTxn(N)'
    <3> SUFFICES ASSUME NEW r \in txn' PROVE r.score <= N[r.team]
      BY DEF AboveTxn
    <3>1. CASE r = row
      BY <3>1, <1>11, <1>12, <2>2
    <3>2. CASE r \in txn
      <4>1. r.team \in Attackers(flag.data)
        BY <3>2, <1>3 DEF InsertBounded
      <4>2. r.team \in Teams /\ r.team # owner
        BY <4>1, <2>1, <1>6
      <4> QED
        BY <3>2, <4>2, <1>4, <2>2 DEF AboveTxn
    <3> QED
      BY <3>1, <3>2, <1>1
  <2>6. SumFunction(N) <= Allowed(Spoiled', last' - 1)
    <3>1. /\ SumFunction(N) \in Int
          /\ SumFunction(N) = SumFunction(M) - M[owner] + N[owner]
      BY <1>6, <2>2, SumUpdate
    <3>2. M[owner] \in Int /\ N[owner] \in Int
      BY <1>6, <1>11, <2>2
    <3> HIDE DEF owner
    <3>3. N[owner] <= M[owner] - fee
      BY <3>2, <1>4, <1>5, <1>8, <2>2
    <3> QED
      BY <3>1, <3>2, <3>3, <1>1, <1>8, <1>10
  <2>7. \E r \in txn' : r.team = Victim(flag)'
    BY <1>1, <1>7, <1>12
  <2> QED
    BY <2>3, <2>4, <2>5, <2>6, <2>7 DEF PaidBounded, Allowed
<1>15. SelfStolen' = SelfStolen
  BY <1>7 DEF SelfStolen
<1> QED
  BY <1>1, <1>2, <1>13, <1>14, <1>15 DEF BoundIInv

\* The rows of a transaction are the last ones of their teams.
LEMMA CommittedBound ==
  ASSUME IInv, IInv', BoundIInv, pc = "commit", Committed,
         pc' \in {"flags", "down"},
         pc' = "flags" => state' = state /\ last' = last
  PROVE  BoundIInv'
<1> USE ScoresCacheAssumption
<1>1. /\ table' = table \cup txn /\ failed' = failed
      /\ selfStolen' = selfStolen \cup (IF SelfStolen THEN {flag.data} ELSE {})
  BY DEF Committed
<1>2. /\ InTransaction /\ TypeOK /\ flag \in Thefts /\ flag.data \in Flags
      /\ last = FlagTime[flag.data] /\ last \in Int
      /\ \A r \in table : r.time < last + Expire
      /\ \A r \in txn : r.time = last + Expire
      /\ txn # {}
  BY DEF IInv, TypeOK, WatermarkOK, TxnOK, InTransaction
<1>3. Spoiled \subseteq Spoiled' /\ Spoiled' \subseteq Flags
      /\ (SelfStolen => flag.data \in Spoiled')
  BY <1>1 DEF Spoiled, IInv, TypeOK
<1>4. FailBounded /\ (SelfStolen \/ PaidBounded)
  BY DEF BoundIInv
<1>5. \E M \in [Teams -> Int] :
        /\ \A t \in Teams : AboveRows(M, {t}) \/ \E r \in txn : r.team = t
        /\ AboveState(M) /\ AboveTxn(M)
        /\ SumFunction(M) <= Allowed(Spoiled', last)
  <2>1. CASE SelfStolen
    <3>1. PICK M \in [Teams -> Int] :
            /\ AboveRows(M, Teams) /\ AboveState(M) /\ AboveTxn(M)
            /\ SumFunction(M) <= Allowed(Spoiled, last - 1) + FullFee
      BY <1>4 DEF FailBounded
    <3>2. /\ Allowed(Spoiled, last - 1) \in Int /\ Allowed(Spoiled', last) \in Int
          /\ Allowed(Spoiled, last - 1) + FullFee <= Allowed(Spoiled', last)
      <4>1. last - 1 \in Int /\ last - 1 < FlagTime[flag.data]
        BY <1>2
      <4>2. /\ Allowed(Spoiled, last - 1) \in Int
            /\ Allowed(Spoiled', FlagTime[flag.data]) \in Int
            /\ Allowed(Spoiled, last - 1) + FullFee
                 <= Allowed(Spoiled', FlagTime[flag.data])
        BY <4>1, <2>1, <1>3, AllowedMore
      <4> QED
        BY <4>2, <1>2
    <3>3. SumFunction(M) \in Int /\ FullFee \in Nat
      BY SumLess, FeesAre
    <3>4. SumFunction(M) <= Allowed(Spoiled', last)
      BY <3>1, <3>2, <3>3
    <3>5. \A t \in Teams : AboveRows(M, {t})
      BY <3>1 DEF AboveRows
    <3> QED
      BY <3>1, <3>4, <3>5
  <2>2. CASE PaidBounded
    <3>1. PICK M \in [Teams -> Int] :
            /\ AboveRows(M, Teams \ {Victim(flag)})
            /\ AboveState(M) /\ AboveTxn(M)
            /\ SumFunction(M) <= Allowed(Spoiled, last - 1)
      BY <2>2 DEF PaidBounded
    <3>2. /\ Allowed(Spoiled, last - 1) \in Int /\ Allowed(Spoiled', last) \in Int
          /\ Allowed(Spoiled, last - 1) <= Allowed(Spoiled', last)
      BY <1>2, <1>3, AllowedLess
    <3>3. SumFunction(M) \in Int
      BY SumLess
    <3>4. SumFunction(M) <= Allowed(Spoiled', last)
      BY <3>1, <3>2, <3>3
    <3>5. ASSUME NEW t \in Teams
          PROVE  AboveRows(M, {t}) \/ \E r \in txn : r.team = t
      BY <3>1, <2>2 DEF AboveRows, PaidBounded
    <3> QED
      BY <3>1, <3>4, <3>5
  <2> QED
    BY <1>4, <2>1, <2>2
<1>6. PICK M \in [Teams -> Int] :
        /\ \A t \in Teams : AboveRows(M, {t}) \/ \E r \in txn : r.team = t
        /\ AboveState(M) /\ AboveTxn(M)
        /\ SumFunction(M) <= Allowed(Spoiled', last)
  BY <1>5
<1>7. ASSUME NEW t \in Teams, NEW q \in LastRows(t)' PROVE q.score <= M[t]
  <2>1. q \in table \cup txn /\ q.team = t
    BY <1>1 DEF LastRows, Rows
  <2>2. CASE q \in txn
    BY <2>1, <2>2, <1>6 DEF AboveTxn
  <2>3. CASE q \notin txn
    <3>1. \A r \in table \cup txn : r.team = t => r.time <= q.time
      BY <1>1 DEF LastRows, Rows
    <3>2. ~ \E r \in txn : r.team = t
      <4> SUFFICES ASSUME NEW r \in txn, r.team = t PROVE FALSE
        OBVIOUS
      <4>1. r.time <= q.time
        BY <3>1
      <4>2. q.time < last + Expire /\ r.time = last + Expire /\ q.time \in Int
        BY <2>1, <2>3, <1>2 DEF TypeOK
      <4> QED
        BY <4>1, <4>2, <1>2
    <3>3. q \in LastRows(t)
      BY <2>1, <2>3, <3>1 DEF LastRows, Rows
    <3> QED
      BY <3>2, <3>3, <1>6 DEF AboveRows
  <2> QED
    BY <2>2, <2>3
<1>8. AboveRows(M, Teams)'
  BY <1>7 DEF AboveRows
<1>9. TableBounded'
  <2>1. PICK r \in txn : TRUE
    BY <1>2
  <2>2. (TypeOK /\ TableOK /\ table # {})'
    BY <2>1, <1>1 DEF IInv
  <2>3. LastKnownOK'
    BY <2>2, LastKnownLater, PTL
  <2>4. GetLastKnownTime' \in Int /\ last + Expire <= GetLastKnownTime'
    BY <2>1, <2>3, <1>1, <1>2 DEF LastKnownOK
  <2>5. last <= GetLastKnownTime' - Expire /\ GetLastKnownTime' - Expire \in Int
    BY <2>4, <1>2
  <2>6. /\ Allowed(Spoiled', last) \in Int
        /\ Allowed(Spoiled', GetLastKnownTime' - Expire) \in Int
        /\ Allowed(Spoiled', last)
             <= Allowed(Spoiled', GetLastKnownTime' - Expire)
    BY <2>5, <1>2, <1>3, AllowedLess
  <2>7. SumFunction(M) \in Int
    BY SumLess
  <2>8. SumFunction(M) <= Allowed(Spoiled', GetLastKnownTime' - Expire)
    BY <2>6, <2>7, <1>6
  <2> QED
    BY <2>8, <1>8 DEF TableBounded, Allowed
<1>10. ASSUME pc' = "flags" PROVE LoopBounded'
  <2>1. state' = state /\ last' = last
    BY <1>10
  <2>2. AboveState(M)'
    BY <2>1, <1>6 DEF AboveState
  <2> QED
    BY <2>1, <2>2, <1>6, <1>8 DEF LoopBounded, Allowed
<1> QED
  BY <1>9, <1>10 DEF BoundIInv

\* What a failed transaction leaves in the hashtable is a fee at most, and its
\* flag was not among the spoiled ones up to the watermark.
LEMMA FailsBound ==
  ASSUME IInv, IInv', BoundIInv, TransactionFails
  PROVE  BoundIInv'
<1> USE ScoresCacheAssumption
<1>1. /\ pc \in {"insert", "commit"} /\ pc' = "flags"
      /\ state' = state /\ last' = last /\ table' = table
      /\ failed' = failed \cup {flag.data} /\ selfStolen' = selfStolen
  BY DEF TransactionFails
<1>2. /\ InTransaction /\ TypeOK /\ flag \in Thefts /\ flag.data \in Flags
      /\ last = FlagTime[flag.data] /\ last \in Int /\ ownerTotal \in Int
  BY <1>1 DEF IInv, TypeOK, WatermarkOK, InTransaction
<1>3. Spoiled \subseteq Spoiled' /\ Spoiled' \subseteq Flags
      /\ flag.data \in Spoiled'
  BY <1>1 DEF Spoiled, IInv, TypeOK
<1>4. TableBounded'
  BY <1>1, <1>3, TableBoundKeep
<1>5. FullFee \in Nat /\ Allowed(Spoiled, last - 1) \in Int
  BY <1>2, <1>3, FeesAre, AllowedLess
<1>6. PICK M \in [Teams -> Int] :
        /\ AboveRows(M, Teams) /\ AboveState(M)
        /\ SumFunction(M) <= Allowed(Spoiled, last - 1) + FullFee
  <2>1. CASE pc = "commit"
    BY <2>1 DEF BoundIInv, FailBounded
  <2>2. CASE pc = "insert"
    <3>1. PICK M \in [Teams -> Int] :
            /\ AboveRows(M, Teams) /\ AboveState(M)
            /\ SumFunction(M)
                 <= Allowed(Spoiled, last - 1) + ScoreToEachAttacker * Handed
      BY <2>2 DEF BoundIInv, InsertBounded
    <3>2. ScoreToEachAttacker * Handed <= FullFee
          /\ ScoreToEachAttacker * Handed \in Int
      BY <1>2, <2>2, HandedAtMost DEF BoundIInv
    <3>3. SumFunction(M) \in Int
      BY SumLess
    <3>4. SumFunction(M) <= Allowed(Spoiled, last - 1) + FullFee
      BY <3>1, <3>2, <3>3, <1>5
    <3> QED
      BY <3>1, <3>4
  <2> QED
    BY <1>1, <2>1, <2>2
<1>7. /\ Allowed(Spoiled', last) \in Int
      /\ Allowed(Spoiled, last - 1) + FullFee <= Allowed(Spoiled', last)
  <2>1. last - 1 \in Int /\ last - 1 < FlagTime[flag.data]
    BY <1>2
  <2>2. /\ Allowed(Spoiled', FlagTime[flag.data]) \in Int
        /\ Allowed(Spoiled, last - 1) + FullFee
             <= Allowed(Spoiled', FlagTime[flag.data])
    BY <2>1, <1>3, AllowedMore
  <2> QED
    BY <2>2, <1>2
<1>8. SumFunction(M) \in Int
  BY SumLess
<1>9. SumFunction(M) <= Allowed(Spoiled', last')
  BY <1>1, <1>5, <1>6, <1>7, <1>8
<1>10. AboveRows(M, Teams)' /\ AboveState(M)'
  BY <1>1, <1>6 DEF AboveRows, AboveState, LastRows, Rows
<1>11. LoopBounded'
  BY <1>9, <1>10 DEF LoopBounded, Allowed
<1> QED
  BY <1>1, <1>4, <1>11 DEF BoundIInv

\* The steps that touch neither the rows nor the totals.
LEMMA QuietBound ==
  ASSUME IInv, IInv', BoundIInv, table' = table, Spoiled' = Spoiled,
         \/ pc' \in {"start", "down"}
         \/ /\ pc' \in {"query", "flags"} /\ pc \in {"query", "flags"}
            /\ state' = state /\ last' = last
         \/ /\ InTransaction /\ pc' = pc /\ state' = state /\ txn' = txn
            /\ batch' = batch /\ flag' = flag /\ list' = list
            /\ ownerTotal' = ownerTotal /\ last' = last
  PROVE  BoundIInv'
<1>1. TableBounded'
  BY TableBoundKeep
<1>2. \A t : LastRows(t)' = LastRows(t)
  BY DEF LastRows, Rows
<1>3. CASE pc' \in {"start", "down"}
  BY <1>1, <1>3 DEF BoundIInv
<1>4. CASE /\ pc' \in {"query", "flags"} /\ pc \in {"query", "flags"}
           /\ state' = state /\ last' = last
  <2>1. LoopBounded'
    BY <1>2, <1>4
       DEF BoundIInv, LoopBounded, AboveRows, AboveState, Allowed
  <2> QED
    BY <1>1, <1>4, <2>1 DEF BoundIInv
<1>5. CASE /\ InTransaction /\ pc' = pc /\ state' = state /\ txn' = txn
           /\ batch' = batch /\ flag' = flag /\ list' = list
           /\ ownerTotal' = ownerTotal /\ last' = last
  <2>1. /\ Attackers(flag.data)' = Attackers(flag.data)
        /\ ScoreToEachAttacker' = ScoreToEachAttacker /\ Handed' = Handed
        /\ Victim(flag)' = Victim(flag) /\ SelfStolen' = SelfStolen
    BY <1>5 DEF Attackers, Grouped, Victim, ScoreToEachAttacker,
                ScoreFromOwner, Handed, SelfStolen
  <2>2. InsertBounded => InsertBounded'
    BY <1>2, <1>5, <2>1
       DEF InsertBounded, AboveRows, AboveState, AboveTxn, Allowed
  <2>3. FailBounded => FailBounded'
    BY <1>2, <1>5
       DEF FailBounded, AboveRows, AboveState, AboveTxn, Allowed
  <2>4. PaidBounded => PaidBounded'
    BY <1>2, <1>5, <2>1
       DEF PaidBounded, AboveRows, AboveState, AboveTxn, Allowed
  <2> QED
    BY <1>1, <1>5, <2>1, <2>2, <2>3, <2>4 DEF BoundIInv, InTransaction
<1> QED
  BY <1>3, <1>4, <1>5

\* A reading of the table is below what is above its last rows.
LEMMA BoundIsEnough == IInv /\ BoundIInv => PointsBounded
<1> USE ScoresCacheAssumption
<1> SUFFICES ASSUME IInv, BoundIInv, NEW s \in LastScores
             PROVE  SumFunction(s) <= Start + FullFee * Cardinality(Spoiled)
  BY DEF PointsBounded
<1>1. /\ s \in [Teams -> {r.score : r \in table}]
      /\ \A t \in Teams : \E r \in LastRows(t) : r.score = s[t]
  BY DEF LastScores
<1>2. table # {} /\ s \in [Teams -> Int]
  <2>1. PICK t \in Teams : TRUE
    OBVIOUS
  <2>2. table # {}
    BY <2>1, <1>1 DEF LastRows, Rows
  <2> QED
    BY <2>2, <1>1 DEF IInv, TypeOK
<1>3. PICK M \in [Teams -> Int] :
        /\ AboveRows(M, Teams)
        /\ SumFunction(M) <= Allowed(Spoiled, GetLastKnownTime - Expire)
  BY <1>2 DEF BoundIInv, TableBounded
<1>4. \A t \in Teams : s[t] <= M[t]
  BY <1>1, <1>3 DEF AboveRows
<1>5. /\ SumFunction(s) \in Int /\ SumFunction(M) \in Int
      /\ SumFunction(s) <= SumFunction(M)
  BY <1>2, <1>4, SumLess
<1> DEFINE x == GetLastKnownTime - Expire
           A == {f \in Spoiled : FlagTime[f] <= x}
<1>6. A \subseteq Spoiled /\ IsFiniteSet(Spoiled)
  BY FS_Subset DEF IInv, TypeOK, Spoiled
<1> HIDE DEF A, x
<1>7. /\ Cardinality(A) \in Nat /\ Cardinality(Spoiled) \in Nat
      /\ Cardinality(A) <= Cardinality(Spoiled)
  BY <1>6, FS_Subset, FS_CardinalityType
<1>8. /\ FullFee * Cardinality(A) \in Nat
      /\ FullFee * Cardinality(Spoiled) \in Nat
      /\ FullFee * Cardinality(A) <= FullFee * Cardinality(Spoiled)
  BY <1>7, FeesAre, TimesMore
<1>9. SumFunction(M) <= Start + FullFee * Cardinality(A)
  BY <1>3 DEF Allowed, A, x
<1> QED
  BY <1>5, <1>8, <1>9, FeesAre

\* Whatever fails, and whoever steals from whom, no more points are made than
\* one fee for each flag that a failure or its owner spoiled.
THEOREM PointsMadeBounded == Spec => []PointsBounded
<1>1. Init => BoundIInv
  BY DEF Init, BoundIInv, TableBounded
<1>2. IInv /\ IInv' /\ BoundIInv /\ [Next]_vars => BoundIInv'
  <2> SUFFICES ASSUME IInv, IInv', BoundIInv, [Next]_vars PROVE BoundIInv'
    OBVIOUS
  <2>1. CASE CreateInitStateInDb \/ GetStateFromDb
    BY <2>1, CreateBound, GetStateBound
  <2>2. CASE \E p \in Thefts : NextFlag(p)
    BY <2>2, NextFlagBound
  <2>3. CASE (\E a \in Teams : InsertAttacker(a)) \/ InsertOwner
    BY <2>3, AttackerBound, OwnerBound
  <2>4. CASE Commit
    <3>1. /\ pc = "commit" /\ Committed /\ pc' = "flags" /\ state' = state
          /\ last' = last
      BY <2>4 DEF Commit
    <3> QED
      BY <3>1, CommittedBound
  <2>5. CASE TransactionFails
    BY <2>5, FailsBound
  <2>6. CASE Sleep \/ GetRottenStolenFlags
    <3>1. /\ pc' \in {"query", "flags"} /\ pc \in {"query", "flags"}
          /\ state' = state /\ table' = table /\ Spoiled' = Spoiled
          /\ last' = last
      BY <2>6 DEF Sleep, GetRottenStolenFlags, history, Spoiled
    <3> QED
      BY <3>1, QuietBound
  <2>7. CASE Die
    <3>1. CASE txn' = {} /\ UNCHANGED <<table, history>>
      <4>1. pc' = "down" /\ table' = table /\ Spoiled' = Spoiled
        BY <2>7, <3>1 DEF Die, history, Spoiled
      <4> QED
        BY <4>1, QuietBound
    <3>2. CASE pc = "commit" /\ Committed
      <4>1. pc' = "down"
        BY <2>7 DEF Die
      <4> QED
        BY <4>1, <3>2, CommittedBound
    <3> QED
      BY <2>7, <3>1, <3>2 DEF Die
  <2>8. CASE Restart
    <3>1. pc' = "start" /\ table' = table /\ Spoiled' = Spoiled
      BY <2>8 DEF Restart, history, Spoiled
    <3> QED
      BY <3>1, QuietBound
  <2>9. CASE (Tick \/ \E p \in Thefts : Accept(p) \/ Record(p)) \/ UNCHANGED vars
    <3>1. /\ table' = table /\ txn' = txn /\ pc' = pc /\ state' = state
          /\ Spoiled' = Spoiled /\ batch' = batch /\ flag' = flag
          /\ list' = list /\ ownerTotal' = ownerTotal /\ last' = last
      BY <2>9 DEF Tick, Accept, Record, vars, job, history, Spoiled
    <3>2. \/ pc \in {"start", "down"} \/ pc \in {"query", "flags"}
          \/ InTransaction
      BY DEF IInv, TypeOK, InTransaction
    <3> QED
      BY <3>1, <3>2, QuietBound
  <2> QED
    BY <2>1, <2>2, <2>3, <2>4, <2>5, <2>6, <2>7, <2>8, <2>9 DEF Next, Process
<1> QED
  BY <1>1, <1>2, Invariance, BoundIsEnough, PTL DEF Spec

\* Points move and are not made: while nothing has spoiled them the last rows
\* of all teams add up to what they started with, and after that to no more
\* than a fee for each flag spoiled.
THEOREM PointsOnlyMove == Spec /\ []SharesWhole => []PointsConserved
<1>1. IInv /\ KeptIInv => PointsKept
  <2> SUFFICES ASSUME IInv, KeptIInv, Spoiled = {}, NEW s \in LastScores
               PROVE  SumFunction(s) = Start
    BY DEF PointsKept
  <2>1. table # {}
    <3>1. PICK t \in Teams : TRUE
      BY ScoresCacheAssumption
    <3> QED
      BY <3>1 DEF LastScores, LastRows, Rows
  <2>2. TableKept
    BY DEF KeptIInv
  <2>3. s = Reading
    BY <2>1, <2>2, OnlyReading DEF IInv, TableKept
  <2> QED
    BY <2>1, <2>2, <2>3 DEF TableKept
<1>2. PointsKept /\ PointsBounded => PointsConserved
  BY DEF PointsConserved
<1> QED
  BY <1>1, <1>2, Invariance, KeptInvariance, PointsMadeBounded, PTL
=============================================================================
