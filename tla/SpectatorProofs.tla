-------------------------- MODULE SpectatorProofs --------------------------
(***************************************************************************)
(* What spectators are shown: the logs of HistoryLog, for every set of     *)
(* rows, every length of the clock and any number of faults, and the       *)
(* selection of TeamSelection, for any tabs and teams.                     *)
(*                                                                         *)
(* The inductive invariant of the logs ties what is logged to the marks,   *)
(* and the last statuses to the end of the log.                            *)
(***************************************************************************)
EXTENDS HistoryLog, TeamSelection, FiniteSetTheorems, SequenceTheorems, TLAPS

\* How far a query has read.
Seen(q) == IF reading /\ pc = q THEN latest ELSE mark[q]

\* A committed row has begun.
BegunOK == \A x \in visible : time[x] # 0

\* What is logged stands in its own log, and was read.
LogOK ==
  \A l \in Logs : \A x \in Range(log[l]) :
    LogOf[x] = l /\ time[x] <= Seen(QueryOf(x))

\* A row that was overtaken stays behind.
OvertakenOK == \A x \in overtaken : time[x] <= Horizon(QueryOf(x))

\* The rows of a result are beyond the mark, and neither logged nor overtaken.
BatchOK ==
  /\ reading => mark[pc] <= latest
  /\ ~reading => batch = <<>>
  /\ IsInjective(batch)
  /\ \A x \in Range(batch) :
       QueryOf(x) = pc /\ mark[pc] < time[x] /\ x \notin Logged \cup overtaken

\* The updater remembers the last status logged.
LastOK ==
  \A k \in Keys :
    \/ Of(k) = {} /\ lastStatuses[k] = None
    \/ \E i \in Of(k) :
         (\A j \in Of(k) : j <= i) /\ Shown(i) = lastStatuses[k]

\* Whatever was not overtaken is read, or in the result, or ahead.
CaughtUp ==
  \A x \in visible \ (overtaken \cup Range(batch)) :
    time[x] <= Horizon(QueryOf(x)) => time[x] <= Seen(QueryOf(x))

\* In the order of time, no row of a result is behind what its log has, and no
\* status behind what was read.
OrderOK ==
  ~shuffled => /\ PartsInOrder(batch)
               /\ \A x \in Range(batch) : \A y \in Range(log[LogOf[x]]) :
                    time[y] <= time[x]
               /\ pc = "statuses" => \A x \in Range(batch) : latest <= time[x]
               /\ \A l \in Logs : InOrder(log[l])

\* The updater remembers the status of a latest check read.
ReadOK ==
  ~shuffled => \A k \in Keys : Read(k) # {} =>
    \E x \in Read(k) :
      (\A y \in Read(k) : time[y] <= time[x]) /\ StatusOf[x] = lastStatuses[k]

IInv ==
  /\ TypeOK /\ BegunOK /\ OvertakenOK /\ LogOK /\ BatchOK /\ LoggedOnce /\ LastOK
  /\ CaughtUp /\ OrderOK /\ ReadOK

(***************************************************************************)
(* Numbers, sets and sequences.                                            *)
(***************************************************************************)

\* A set of natural numbers has a least element.
LEMMA LeastNat ==
  ASSUME NEW T, T \subseteq Nat, T # {}
  PROVE  \E x \in T : \A y \in T : x <= y
<1>1. \E x \in T : \A y \in T : ~(<<y, x>> \in OpToRel(<, Nat))
  BY NatLessThanWellFounded, WFMin, Zenon
<1>2. PICK x \in T : \A y \in T : ~(<<y, x>> \in OpToRel(<, Nat))
  BY <1>1
<1>3. ASSUME NEW y \in T PROVE x <= y
  <2>1. y < x => <<y, x>> \in OpToRel(<, Nat)
    BY DEF OpToRel
  <2>2. ~(y < x)
    BY <1>2, <2>1, Zenon
  <2> QED BY <2>2
<1> QED BY <1>3

LEMMA LeastIsMin ==
  ASSUME NEW T, T \subseteq Nat, T # {}
  PROVE  Min(T) \in T /\ \A y \in T : Min(T) <= y
BY LeastNat DEF Min

LEMMA BoundedMax ==
  ASSUME NEW b \in Nat, NEW S, S \subseteq 0 .. b, S # {}
  PROVE  Max(S) \in S /\ \A y \in S : y <= Max(S)
<1> DEFINE T == {n \in Nat : \E s \in S : n = b - s}
<1>1. T \subseteq Nat /\ T # {}
  <2>1. PICK s \in S : TRUE
    OBVIOUS
  <2>2. b - s \in T
    BY <2>1
  <2> QED BY <2>2
<1>2. PICK x \in T : \A y \in T : x <= y
  <2> HIDE DEF T
  <2> QED BY <1>1, LeastNat
<1>3. PICK m \in S : x = b - m
  BY <1>2
<1>4. ASSUME NEW y \in S PROVE m >= y
  <2>1. b - y \in T
    OBVIOUS
  <2>2. x <= b - y
    BY <1>2, <2>1
  <2> QED BY <2>2, <1>3
<1> QED BY <1>4 DEF Max

\* An injective sequence stays so without its head, and with a new element.
LEMMA InjectiveTail ==
  ASSUME NEW S, NEW s \in Seq(S), s # <<>>, IsInjective(s)
  PROVE  /\ IsInjective(Tail(s))
         /\ Head(s) \notin Range(Tail(s))
         /\ Range(s) = {Head(s)} \cup Range(Tail(s))
<1>1. /\ Tail(s) \in Seq(S) /\ Len(Tail(s)) = Len(s) - 1
      /\ \A i \in 1 .. Len(Tail(s)) : Tail(s)[i] = s[i + 1]
  BY HeadTailProperties
<1>2. Head(s) = s[1] /\ Len(s) \in Nat \ {0} /\ DOMAIN s = 1 .. Len(s)
      /\ DOMAIN Tail(s) = 1 .. Len(s) - 1
  BY <1>1
<1>3. \A a, b \in 1 .. Len(s) : s[a] = s[b] => a = b
  BY <1>2 DEF IsInjective
<1>4. IsInjective(Tail(s))
  <2> SUFFICES ASSUME NEW a \in 1 .. Len(s) - 1, NEW b \in 1 .. Len(s) - 1,
                      Tail(s)[a] = Tail(s)[b]
               PROVE  a = b
    BY <1>2 DEF IsInjective
  <2>1. s[a + 1] = s[b + 1] /\ a + 1 \in 1 .. Len(s) /\ b + 1 \in 1 .. Len(s)
    BY <1>1, <1>2
  <2> QED BY <1>3, <2>1
<1>5. Head(s) \notin Range(Tail(s))
  <2> SUFFICES ASSUME NEW a \in 1 .. Len(s) - 1, Tail(s)[a] = s[1]
               PROVE  FALSE
    BY <1>2 DEF Range
  <2>1. s[a + 1] = s[1] /\ a + 1 \in 1 .. Len(s) /\ 1 \in 1 .. Len(s)
    BY <1>1, <1>2
  <2> QED BY <1>3, <2>1
<1>6. Range(s) = {Head(s)} \cup Range(Tail(s))
  <2>1. ASSUME NEW x \in Range(s) PROVE x \in {Head(s)} \cup Range(Tail(s))
    <3>1. PICK i \in 1 .. Len(s) : x = s[i]
      BY <1>2 DEF Range
    <3>2. CASE i = 1
      BY <3>1, <3>2, <1>2
    <3>3. CASE i # 1
      <4>1. PICK j \in 1 .. Len(s) - 1 : i = j + 1
        BY <3>3, <1>2
      <4>2. j \in DOMAIN Tail(s) /\ Tail(s)[j] = x
        BY <3>1, <4>1, <1>1, <1>2
      <4> QED BY <4>2 DEF Range
    <3> QED BY <3>2, <3>3
  <2>2. ASSUME NEW x \in Range(Tail(s)) PROVE x \in Range(s)
    <3>1. PICK i \in 1 .. Len(s) - 1 : x = Tail(s)[i]
      BY <1>2 DEF Range
    <3>2. x = s[i + 1] /\ i + 1 \in 1 .. Len(s)
      BY <3>1, <1>1, <1>2
    <3> QED BY <3>2, <1>2 DEF Range
  <2>3. Head(s) \in Range(s)
    BY <1>2 DEF Range
  <2> QED BY <2>1, <2>2, <2>3
<1> QED BY <1>4, <1>5, <1>6

LEMMA AppendFacts ==
  ASSUME NEW S, NEW s \in Seq(S), NEW x \in S
  PROVE  /\ Append(s, x) \in Seq(S)
         /\ DOMAIN s = 1 .. Len(s) /\ Len(s) \in Nat
         /\ DOMAIN Append(s, x) = 1 .. Len(s) + 1
         /\ \A i \in 1 .. Len(s) : Append(s, x)[i] = s[i]
         /\ Append(s, x)[Len(s) + 1] = x
         /\ Range(Append(s, x)) = Range(s) \cup {x}
<1>1. /\ Append(s, x) \in Seq(S)
      /\ Len(Append(s, x)) = Len(s) + 1
      /\ \A i \in 1 .. Len(s) : Append(s, x)[i] = s[i]
      /\ Append(s, x)[Len(s) + 1] = x
  BY AppendProperties
<1>2. DOMAIN s = 1 .. Len(s) /\ DOMAIN Append(s, x) = 1 .. Len(s) + 1
      /\ Len(s) \in Nat
  BY <1>1
<1>3. Range(Append(s, x)) = Range(s) \cup {x}
  <2> DEFINE t == Append(s, x)
  <2>1. ASSUME NEW i \in DOMAIN t PROVE t[i] \in Range(s) \cup {x}
    <3>1. CASE i = Len(s) + 1
      BY <3>1, <1>1
    <3>2. CASE i # Len(s) + 1
      BY <3>2, <2>1, <1>1, <1>2 DEF Range
    <3> QED BY <3>1, <3>2
  <2>2. ASSUME NEW i \in DOMAIN s PROVE s[i] \in Range(t)
    BY <1>1, <1>2 DEF Range
  <2>3. x \in Range(t)
    BY <1>1, <1>2 DEF Range
  <2> QED BY <2>1, <2>2, <2>3 DEF Range
<1> QED BY <1>1, <1>2, <1>3

LEMMA InjectiveAppend ==
  ASSUME NEW S, NEW s \in Seq(S), NEW x \in S, IsInjective(s), x \notin Range(s)
  PROVE  IsInjective(Append(s, x))
BY AppendFacts DEF IsInjective, Range

(***************************************************************************)
(* Repeating a step.                                                       *)
(***************************************************************************)

\* A step G that leads from each of the sets M into the next.
Leads(N, base, G, M) ==
  base \in M[0] /\ \A n \in 1 .. N : \A m \in M[n - 1] : G[m] \in M[n]

\* What repeats it N times.
Repeats(f, N, base, G, M) ==
  /\ f = [n \in 0 .. N |-> f[n]] /\ f[0] = base
  /\ \A n \in 1 .. N : f[n] = G[f[n - 1]]
  /\ \A n \in 0 .. N : f[n] \in M[n]

LEMMA IterationExists ==
  ASSUME NEW N \in Nat, NEW base, NEW G, NEW M, Leads(N, base, G, M)
  PROVE  \E f : Repeats(f, N, base, G, M)
<1> USE DEF Leads
<1> DEFINE Upto(f, k) ==
             /\ f[0] = base /\ f[0] \in M[0]
             /\ \A n \in 1 .. k : f[n] = G[f[n - 1]] /\ f[n] \in M[n]
           F == [0 .. N -> UNION {M[n] : n \in 0 .. N} \cup {base}]
           Short == {k \in 0 .. N : ~ \E f \in F : Upto(f, k)}
<1>1. \E f \in F : Upto(f, 0)
  <2> DEFINE f == [n \in 0 .. N |-> base]
  <2>1. f \in F /\ f[0] = base
    OBVIOUS
  <2> HIDE DEF f, F
  <2>2. Upto(f, 0)
    BY <2>1
  <2> QED BY <2>1, <2>2
<1>2. ASSUME NEW k \in 0 .. N - 1, NEW f \in F, Upto(f, k)
      PROVE  \E g \in F : Upto(g, k + 1)
  <2>1. f[k] \in M[k] /\ k + 1 \in 1 .. N /\ k + 1 - 1 = k
    BY <1>2
  <2>2. G[f[k]] \in M[k + 1]
    BY <2>1
  <2> DEFINE g == [f EXCEPT ![k + 1] = G[f[k]]]
  <2>3. g \in F
    <3>1. G[f[k]] \in UNION {M[n] : n \in 0 .. N}
      BY <2>1, <2>2
    <3> QED BY <2>1, <3>1
  <2>4. \A n \in 0 .. k : g[n] = f[n]
    OBVIOUS
  <2>5. g[k + 1] = G[f[k]]
    BY <2>1
  <2> HIDE DEF g, F
  <2>6. Upto(g, k + 1)
    <3>1. g[0] = base /\ g[0] \in M[0]
      BY <1>2, <2>4
    <3>2. ASSUME NEW n \in 1 .. k + 1 PROVE g[n] = G[g[n - 1]] /\ g[n] \in M[n]
      <4>1. CASE n = k + 1
        BY <2>1, <2>2, <2>4, <2>5, <4>1
      <4>2. CASE n # k + 1
        <5>1. n \in 1 .. k /\ n - 1 \in 0 .. k /\ n \in 0 .. k
          BY <3>2, <4>2
        <5> QED BY <1>2, <2>4, <5>1
      <4> QED BY <4>1, <4>2
    <3> QED BY <3>1, <3>2
  <2> QED BY <2>3, <2>6
<1> HIDE DEF Upto, F
<1>3. Short = {}
  <2> SUFFICES ASSUME Short # {} PROVE FALSE
    OBVIOUS
  <2>1. PICK k \in Short : \A n \in Short : k <= n
    <3> Short \subseteq Nat
      OBVIOUS
    <3> HIDE DEF Short
    <3> QED BY LeastNat
  <2>2. k # 0 /\ k \in 0 .. N /\ ~ \E f \in F : Upto(f, k)
    BY <1>1
  <2>3. k - 1 \in 0 .. N - 1 /\ k - 1 \notin Short /\ k - 1 + 1 = k
    BY <2>1, <2>2
  <2>4. PICK f \in F : Upto(f, k - 1)
    BY <2>3
  <2> QED BY <1>2, <2>2, <2>3, <2>4
<1>4. PICK f \in F : Upto(f, N)
  BY <1>3
<1>5. /\ f[0] = base /\ f[0] \in M[0]
      /\ \A n \in 1 .. N : f[n] = G[f[n - 1]] /\ f[n] \in M[n]
  BY <1>4 DEF Upto
<1>6. f = [n \in 0 .. N |-> f[n]]
  BY DEF F
<1>7. \A n \in 0 .. N : f[n] \in M[n]
  BY <1>5
<1> QED BY <1>5, <1>6, <1>7 DEF Repeats

\* And whatever repeats it stays in the sets.
LEMMA IterationHolds ==
  ASSUME NEW N \in Nat, NEW g, NEW M, g[0] \in M[0],
         \A n \in 1 .. N : g[n - 1] \in M[n - 1] => g[n] \in M[n]
  PROVE  \A n \in 0 .. N : g[n] \in M[n]
<1> DEFINE Out == {n \in 0 .. N : g[n] \notin M[n]}
<1> SUFFICES ASSUME Out # {} PROVE FALSE
  OBVIOUS
<1>1. PICK n \in Out : \A k \in Out : n <= k
  <2> Out \subseteq Nat
    OBVIOUS
  <2> HIDE DEF Out
  <2> QED BY LeastNat
<1>2. n \in 1 .. N /\ n - 1 \in 0 .. N /\ g[n] \notin M[n]
  <2>1. n # 0
    OBVIOUS
  <2> QED BY <2>1
<1>3. g[n - 1] \in M[n - 1]
  BY <1>1, <1>2
<1> QED BY <1>2, <1>3

(***************************************************************************)
(* The steps of HistoryLog.                                                *)
(***************************************************************************)

\* A result has each of the news once.
LEMMA ResultFacts ==
  ASSUME TypeOK, NEW q \in Queries, NEW s \in Results(q)
  PROVE  /\ s \in Seq(visible) /\ IsInjective(s)
         /\ Range(s) = News(q)
<1>1. News(q) \subseteq visible /\ IsFiniteSet(News(q))
  BY HistoryLogAssumption, FS_Subset DEF News, TypeOK
<1>2. Cardinality(News(q)) \in Nat
  BY <1>1, FS_CardinalityType
<1> DEFINE D == 1 .. Cardinality(News(q))
<1>3. s \in [D -> News(q)] /\ \A i, j \in D : i # j => s[i] # s[j]
  BY DEF Results, SetToSeqs
<1>4. IsInjective(s) /\ s \in Injection(D, News(q))
  BY <1>3 DEF IsInjective, Injection
<1>5. s \in Seq(visible)
  BY <1>1, <1>2, <1>3
<1>6. Cardinality(D) = Cardinality(News(q))
  BY <1>2, FS_Interval
<1>7. s \in Surjection(D, News(q))
  BY <1>1, <1>4, <1>6, FS_Injection
<1>8. Range(s) = News(q)
  BY <1>3, <1>7 DEF Surjection, Range
<1> QED BY <1>4, <1>5, <1>8

\* The latest of some times.
LEMMA LatestOf ==
  ASSUME NEW t \in Times, NEW T, NEW X, \A x \in X : T[x] \in Times
  PROVE  LET S == {t} \cup {T[x] : x \in X}
         IN  Max(S) \in S /\ \A y \in S : y <= Max(S)
<1>1. MaxTime \in Nat
  BY HistoryLogAssumption
<1> QED BY <1>1, BoundedMax DEF Times

LEMMA InitIInv == Init => IInv
<1> SUFFICES ASSUME Init PROVE IInv
  OBVIOUS
<1>1. MaxTime \in Nat \ {0} /\ MaxFaults \in Nat
  BY HistoryLogAssumption
<1>2. TypeOK
  <2>1. time \in [Rows -> Times] /\ mark \in [Queries -> Times]
    BY <1>1 DEF Init, Times
  <2>2. log \in [Logs -> Seq(visible)] /\ batch \in Seq(visible)
    BY DEF Init
  <2>3. lastStatuses \in [Keys -> Range(StatusOf) \cup {None}]
    BY DEF Init
  <2>4. /\ now \in 1 .. MaxTime /\ latest \in Times
        /\ faults \in 0 .. MaxFaults
    BY <1>1 DEF Init, Times
  <2>5. /\ pc \in Queries /\ reading \in BOOLEAN /\ shuffled \in BOOLEAN
        /\ visible \subseteq Rows /\ overtaken \subseteq visible
    BY DEF Init, Queries
  <2> QED BY <2>1, <2>2, <2>3, <2>4, <2>5 DEF TypeOK
<1>3. Range(batch) = {} /\ \A l \in Logs : Range(log[l]) = {}
  BY DEF Init, Range
<1>4. "statuses" \in Logs
  BY DEF Logs, LogsOf, Range
<1>5. \A k : Of(k) = {}
  BY <1>4 DEF Of, Init
<1>6. BegunOK /\ LogOK /\ BatchOK /\ LastOK
  BY <1>3, <1>5 DEF Init, BegunOK, LogOK, BatchOK, LastOK, IsInjective
<1>7. LoggedOnce
  BY <1>5 DEF LoggedOnce, Init, IsInjective
<1>8. OvertakenOK /\ CaughtUp /\ OrderOK /\ ReadOK
  BY <1>3 DEF Init, OvertakenOK, CaughtUp, OrderOK, ReadOK, InOrder, PartsInOrder, Read
<1> QED BY <1>2, <1>6, <1>7, <1>8 DEF IInv

\* The clock moves.
LEMMA TickStep == ASSUME IInv, Tick PROVE IInv'
<1>1. TypeOK'
  BY HistoryLogAssumption DEF IInv, Tick, TypeOK, updater, history
<1>2. (BegunOK /\ LogOK /\ BatchOK /\ LoggedOnce /\ LastOK)'
  BY DEF IInv, Tick, updater, history, BegunOK, LogOK, BatchOK, LoggedOnce,
         LastOK, Seen, Of, Shown, Logged
<1>3. \A q : Horizon(q)' = Horizon(q)
  BY DEF Horizon, Tick, updater
<1>4. \A k : Read(k)' = Read(k)
  BY <1>3 DEF Read, Tick, updater, history
<1>5. (OvertakenOK /\ CaughtUp /\ OrderOK /\ ReadOK)'
  BY <1>3, <1>4
     DEF IInv, Tick, updater, history, OvertakenOK, CaughtUp, OrderOK, ReadOK,
         Seen, InOrder, PartsInOrder
<1> QED BY <1>1, <1>2, <1>5 DEF IInv

\* A query fails between two results, when every mark stands.
LEMMA QueryFailsStep == ASSUME IInv, QueryFails PROVE IInv'
<1>1. TypeOK'
  BY HistoryLogAssumption DEF IInv, QueryFails, TypeOK, database, Queries
<1>2. (BegunOK /\ LogOK /\ BatchOK /\ LoggedOnce /\ LastOK)'
  BY DEF IInv, QueryFails, database, BegunOK, LogOK, BatchOK, LoggedOnce,
         LastOK, Seen, Of, Shown, Logged, Range
<1>3. (OvertakenOK /\ CaughtUp /\ OrderOK /\ ReadOK)'
  BY DEF IInv, QueryFails, database, OvertakenOK, CaughtUp, OrderOK, ReadOK, Seen,
         Horizon, Read, InOrder, PartsInOrder
<1> QED BY <1>1, <1>2, <1>3 DEF IInv

\* A transaction begins: its row is not yet visible.
LEMMA BeginStep == ASSUME IInv, NEW x \in Rows, Begin(x) PROVE IInv'
<1>1. x \notin visible
  BY DEF IInv, BegunOK, Begin
<1>2. /\ time' \in [Rows -> Times] /\ now \in Times
      /\ \A y \in visible : time'[y] = time[y]
  BY <1>1, HistoryLogAssumption DEF IInv, TypeOK, Begin, Times
<1>3. TypeOK'
  BY <1>2 DEF IInv, TypeOK, Begin, updater, history
<1>4. /\ Range(batch) \subseteq visible
      /\ \A l \in Logs : Range(log[l]) \subseteq visible
      /\ \A i \in DOMAIN batch : batch[i] \in visible
      /\ \A l \in Logs : \A i \in DOMAIN log[l] : log[l][i] \in visible
  BY DEF IInv, TypeOK, Range
<1>5. (BegunOK /\ LogOK /\ BatchOK /\ LoggedOnce /\ LastOK)'
  BY <1>2, <1>4
     DEF IInv, Begin, updater, history, BegunOK, LogOK, BatchOK, LoggedOnce,
         LastOK, Seen, Of, Shown, Logged
<1>6. \A q : Horizon(q)' = Horizon(q)
  <2>1. {time'[y] : y \in Range(batch)} = {time[y] : y \in Range(batch)}
    BY <1>2, <1>4
  <2> QED BY <2>1 DEF Horizon, Begin, updater
<1>7. \A k : Read(k)' = Read(k)
  BY <1>2, <1>6 DEF Read, Begin, updater, history
<1>8. (OvertakenOK /\ CaughtUp)'
  BY <1>2, <1>4, <1>6
     DEF IInv, TypeOK, Begin, updater, history, OvertakenOK, CaughtUp, Seen
<1>9. OrderOK'
  <2>1. \A y \in Range(batch) : Range(log[LogOf[y]]) \subseteq visible
    BY <1>4, HistoryLogAssumption DEF IInv, TypeOK
  <2>2. \A y \in visible : time'[y] = time[y]
    BY <1>2
  <2>3. UNCHANGED <<pc, shuffled, latest, batch, log>>
    BY DEF Begin, updater, history
  <2> QED BY <1>4, <2>1, <2>2, <2>3 DEF IInv, OrderOK, InOrder, PartsInOrder
<1>10. ReadOK'
  <2>1. \A k : Read(k) \subseteq visible
    BY DEF Read
  <2> QED BY <1>2, <1>7, <2>1 DEF IInv, Begin, updater, history, ReadOK
<1> QED BY <1>3, <1>5, <1>8, <1>9, <1>10 DEF IInv

\* A transaction ends: its row is ahead, or overtaken.
LEMMA EndStep == ASSUME IInv, NEW x \in Rows, End(x) PROVE IInv'
<1>1. /\ x \notin visible /\ visible' = visible \cup {x} /\ time[x] # 0
      /\ overtaken' = IF time[x] <= Horizon(QueryOf(x)) THEN overtaken \cup {x}
                      ELSE overtaken
      /\ UNCHANGED <<now, time, updater, shuffled, faults>>
  BY DEF End
<1>2. \A s \in Seq(visible) : s \in Seq(visible')
  BY <1>1, SeqMonotonic
<1>3. TypeOK'
  <2>1. (log \in [Logs -> Seq(visible)] /\ batch \in Seq(visible))'
    BY <1>1, <1>2 DEF IInv, TypeOK, updater
  <2>2. (visible \subseteq Rows /\ overtaken \subseteq visible)'
    BY <1>1 DEF IInv, TypeOK
  <2> QED BY <1>1, <2>1, <2>2 DEF IInv, TypeOK, updater
<1>4. x \notin Range(batch) /\ \A l \in Logs : x \notin Range(log[l])
  BY <1>1 DEF IInv, TypeOK, Range
<1>5. (BegunOK /\ LogOK /\ BatchOK /\ LoggedOnce /\ LastOK)'
  <2>1. x \notin Range(batch)
    BY <1>4
  <2> QED BY <1>1, <2>1
          DEF IInv, updater, BegunOK, LogOK, BatchOK, LoggedOnce, LastOK, Seen,
              Of, Shown, Logged
<1>6. \A q : Horizon(q)' = Horizon(q)
  BY <1>1 DEF Horizon, updater
<1>7. \A k : Read(k)' = Read(k)
  <2>1. LogOf[x] = "statuses" => QueryOf(x) = "statuses"
    BY DEF QueryOf
  <2> QED BY <1>1, <1>6, <2>1 DEF Read, updater
<1>8. (OvertakenOK /\ CaughtUp /\ OrderOK /\ ReadOK)'
  BY <1>1, <1>6, <1>7
     DEF IInv, updater, OvertakenOK, CaughtUp, OrderOK, ReadOK, Seen, InOrder, PartsInOrder
<1> QED BY <1>3, <1>5, <1>8 DEF IInv

\* The server starts again with nothing read.
LEMMA RestartStep == ASSUME IInv, Restart PROVE IInv'
<1>1. /\ pc' = "flags" /\ reading' = FALSE /\ batch' = <<>> /\ latest' = 0
      /\ mark' = [q \in Queries |-> 0]
      /\ log' = [l \in Logs |-> <<>>]
      /\ lastStatuses' = [k \in Keys |-> None]
      /\ overtaken' = {} /\ shuffled' = FALSE
      /\ faults' = faults + 1 /\ faults < MaxFaults
      /\ UNCHANGED <<now, time, visible>>
  BY DEF Restart, database
<1>2. TypeOK'
  <2>1. mark' \in [Queries -> Times] /\ latest' \in Times
    BY <1>1, HistoryLogAssumption DEF Times
  <2>2. log' \in [Logs -> Seq(visible')] /\ batch' \in Seq(visible')
    BY <1>1
  <2>3. lastStatuses' \in [Keys -> Range(StatusOf) \cup {None}]
    BY <1>1
  <2>4. faults' \in 0 .. MaxFaults
    BY <1>1, HistoryLogAssumption DEF IInv, TypeOK
  <2>5. /\ pc' \in Queries /\ reading' \in BOOLEAN /\ shuffled' \in BOOLEAN
        /\ overtaken' \subseteq visible'
    BY <1>1 DEF Queries
  <2> QED BY <1>1, <2>1, <2>2, <2>3, <2>4, <2>5 DEF IInv, TypeOK
<1>3. Range(batch)' = {} /\ \A l \in Logs : Range(log'[l]) = {}
  BY <1>1 DEF Range
<1>4. "statuses" \in Logs
  BY DEF Logs, LogsOf, Range
<1>5. \A k : Of(k)' = {}
  BY <1>1, <1>4 DEF Of
<1>6. (BegunOK /\ LogOK /\ BatchOK /\ LastOK)'
  BY <1>1, <1>3, <1>5
     DEF IInv, BegunOK, LogOK, BatchOK, LastOK, IsInjective
<1>7. LoggedOnce'
  BY <1>1, <1>5 DEF LoggedOnce, IsInjective
<1>8. \A k : Read(k)' = {}
  <2>1. Horizon("statuses")' = 0
    BY <1>1 DEF Horizon, Queries
  <2>2. \A y \in visible : ~(time[y] <= 0)
    BY DEF IInv, TypeOK, BegunOK, Times
  <2> QED BY <1>1, <2>1, <2>2 DEF Read
<1>9. (OvertakenOK /\ CaughtUp /\ OrderOK /\ ReadOK)'
  <2>1. (OvertakenOK /\ ReadOK)'
    BY <1>1, <1>8 DEF OvertakenOK, ReadOK
  <2>2. (CaughtUp /\ OrderOK)'
    BY <1>1, <1>3 DEF CaughtUp, OrderOK, InOrder, PartsInOrder, Horizon, Seen
  <2> QED BY <2>1, <2>2
<1> QED BY <1>2, <1>6, <1>7, <1>9 DEF IInv

\* A query returns everything beyond its mark, and nothing of what is logged.
LEMMA ExecuteQueryStep == ASSUME IInv, ExecuteQuery PROVE IInv'
<1>1. PICK s \in Results(pc) :
        /\ ~reading /\ batch' = s
        /\ shuffled' = (shuffled \/ ~PartsInOrder(s))
        /\ reading' = TRUE /\ latest' = mark[pc]
        /\ UNCHANGED <<now, time, visible, pc, mark, log, lastStatuses,
                       overtaken, faults>>
  BY DEF ExecuteQuery, database
<1>2. TypeOK /\ pc \in Queries /\ batch = <<>>
  BY <1>1 DEF IInv, TypeOK, BatchOK
<1>3. s \in Seq(visible) /\ IsInjective(s) /\ Range(s) = News(pc)
  BY <1>1, <1>2, ResultFacts
<1>4. \A x \in visible : QueryOf(x) \in Queries
  BY HistoryLogAssumption DEF QueryOf, Queries
<1>5. mark \in [Queries -> Nat] /\ mark[pc] \in Times /\ \A x \in visible : time[x] \in Times
  BY <1>2, HistoryLogAssumption DEF TypeOK, Times
<1>6. TypeOK'
  <2>1. shuffled' \in BOOLEAN /\ reading' \in BOOLEAN
    BY <1>1, <1>2 DEF TypeOK
  <2>2. batch' \in Seq(visible') /\ latest' \in Times
    BY <1>1, <1>3, <1>5
  <2> QED BY <1>1, <2>1, <2>2 DEF IInv, TypeOK
<1>7. \A q : q # pc => Horizon(q)' = mark[q] /\ Horizon(q) = mark[q]
  BY <1>1 DEF Horizon
<1>8. /\ Horizon(pc) = mark[pc] /\ Horizon(pc)' >= mark[pc]
      /\ Horizon(pc)' \in Times
      /\ \A x \in Range(s) : time[x] <= Horizon(pc)'
  <2> DEFINE S == {mark[pc]} \cup {time[x] : x \in Range(s)}
  <2>1. Range(s) \subseteq visible
    BY <1>3 DEF News
  <2>2. Max(S) \in S /\ \A y \in S : y <= Max(S)
    BY <1>5, <2>1, LatestOf
  <2>3. Horizon(pc)' = Max(S)
    BY <1>1 DEF Horizon
  <2>4. S \subseteq Times
    BY <1>5, <2>1
  <2> HIDE DEF S
  <2>5. Horizon(pc)' \in Times /\ \A y \in S : y <= Horizon(pc)'
    BY <2>2, <2>3, <2>4
  <2>6. mark[pc] \in S /\ \A x \in Range(s) : time[x] \in S
    BY DEF S
  <2>7. Horizon(pc) = mark[pc]
    BY <1>1 DEF Horizon
  <2>8. mark[pc] \in Nat
    BY <1>5, <1>2
  <2> QED BY <2>5, <2>6, <2>7, <2>8 DEF Times
<1>9. \A q \in Queries : Seen(q)' = mark[q] /\ Seen(q) = mark[q]
  BY <1>1 DEF Seen
<1>10. (BegunOK /\ LogOK /\ LoggedOnce /\ LastOK)'
  <2>1. LogOK'
    <3>1. \A l \in Logs : Range(log[l]) \subseteq visible
      BY <1>2 DEF TypeOK, Range
    <3> QED BY <1>1, <1>4, <1>9, <3>1 DEF IInv, LogOK, QueryOf
  <2> QED BY <1>1, <2>1 DEF IInv, BegunOK, LoggedOnce, LastOK, Of, Shown
<1>11. OvertakenOK'
  <2>1. ASSUME NEW x \in overtaken PROVE time[x] <= Horizon(QueryOf(x))'
    <3>1. x \in visible /\ time[x] \in Nat /\ time[x] <= Horizon(QueryOf(x))
      BY <1>2, HistoryLogAssumption DEF IInv, TypeOK, OvertakenOK, Times
    <3>2. CASE QueryOf(x) = pc
      <4>1. Horizon(QueryOf(x))' = Horizon(pc)'
        BY <1>1, <3>2
      <4>2. Horizon(QueryOf(x)) = mark[pc]
        BY <1>8, <3>2
      <4> QED BY <1>2, <1>5, <1>8, <3>1, <4>1, <4>2, HistoryLogAssumption DEF Times
    <3>3. CASE QueryOf(x) # pc
      BY <3>1, <3>3, <1>7
    <3> QED BY <3>2, <3>3
  <2> QED BY <1>1, <2>1 DEF OvertakenOK, QueryOf
<1>12. BatchOK'
  <2>1. ASSUME NEW x \in Range(s)
        PROVE  /\ QueryOf(x) = pc /\ mark[pc] < time[x]
               /\ x \notin Logged /\ x \notin overtaken
    <3>1. x \in visible /\ QueryOf(x) = pc /\ mark[pc] < time[x]
          /\ mark[pc] \in Nat /\ time[x] \in Nat
      BY <1>2, <1>3, <1>5 DEF News, Times
    <3>2. x \notin overtaken
      BY <3>1, <1>8 DEF IInv, OvertakenOK
    <3>3. x \notin Logged
      <4> SUFFICES ASSUME NEW l \in Logs, x \in Range(log[l]) PROVE FALSE
        BY DEF Logged
      <4>1. time[x] <= Seen(QueryOf(x))
        BY DEF IInv, LogOK
      <4> QED BY <1>2, <1>9, <3>1, <4>1
    <3> QED BY <3>1, <3>2, <3>3
  <2>2. mark[pc] <= mark[pc]
    BY <1>2, <1>5
  <2> QED BY <1>1, <1>3, <2>1, <2>2 DEF BatchOK, Logged, QueryOf
<1>13. CaughtUp'
  <2>1. ASSUME NEW x \in visible, x \notin overtaken, x \notin Range(s)
        PROVE  time[x] <= Horizon(QueryOf(x))' => time[x] <= Seen(QueryOf(x))'
    <3>1. CASE QueryOf(x) = pc
      <4>1. ~(mark[pc] < time[x])
        BY <1>3, <2>1, <3>1 DEF News
      <4> QED BY <1>2, <1>5, <1>9, <3>1, <4>1 DEF Times
    <3>2. CASE QueryOf(x) # pc
      BY <1>4, <1>7, <1>9, <3>2
    <3> QED BY <3>1, <3>2
  <2> QED BY <1>1, <2>1 DEF CaughtUp, QueryOf
<1>14. OrderOK'
  <2> SUFFICES ASSUME ~shuffled, PartsInOrder(s)
               PROVE  /\ PartsInOrder(s) /\ \A l \in Logs : InOrder(log[l])
                      /\ \A x \in Range(s) : mark[pc] <= time[x]
                      /\ \A x \in Range(s) : \A y \in Range(log[LogOf[x]]) :
                           time[y] <= time[x]
    BY <1>1 DEF OrderOK, InOrder, PartsInOrder
  <2>1. \A l \in Logs : InOrder(log[l])
    BY DEF IInv, OrderOK
  <2>2. \A x \in Range(s) : mark[pc] <= time[x]
    BY <1>2, <1>3, <1>5 DEF News, Times
  <2>3. ASSUME NEW x \in Range(s), NEW y \in Range(log[LogOf[x]])
        PROVE  time[y] <= time[x]
    <3>1. x \in visible /\ QueryOf(x) = pc /\ mark[pc] < time[x] /\ time[x] \in Nat
      BY <1>2, <1>3, <1>5 DEF News, Times
    <3>2. LogOf[x] \in Logs
      BY <1>2, <3>1, HistoryLogAssumption DEF TypeOK
    <3>3. LogOf[y] = LogOf[x] /\ time[y] <= Seen(QueryOf(y)) /\ y \in visible
      BY <1>2, <3>2 DEF IInv, LogOK, TypeOK, Range
    <3>4. QueryOf(y) = pc /\ Seen(pc) = mark[pc] /\ time[y] \in Nat
      BY <1>2, <1>5, <1>9, <3>1, <3>3 DEF QueryOf, Times
    <3> QED BY <1>2, <1>5, <3>1, <3>3, <3>4
  <2> QED BY <2>1, <2>2, <2>3
<1>15. \A k : Read(k)' = Read(k)
  <2> SUFFICES ASSUME NEW k, NEW x \in visible, x \notin overtaken,
                      LogOf[x] = "statuses"
               PROVE  (x \notin Range(s) /\ time[x] <= Horizon("statuses")')
                        <=> time[x] <= Horizon("statuses")
    <3>1. Range(batch) = {}
      BY <1>2 DEF Range
    <3> QED BY <1>1, <3>1 DEF Read
  <2>1. QueryOf(x) = "statuses" /\ time[x] \in Nat /\ time[x] \in Times
    BY <1>2, <1>5, HistoryLogAssumption DEF QueryOf, Times
  <2>2. CASE pc = "statuses"
    <3>1. x \in Range(s) <=> mark[pc] < time[x]
      BY <1>3, <2>1, <2>2 DEF News
    <3>2. Horizon("statuses")' = Horizon(pc)' /\ Horizon("statuses") = mark[pc]
      BY <1>1, <1>8, <2>2
    <3>3. mark[pc] \in Nat /\ Horizon(pc)' \in Nat
      BY <1>2, <1>5, <1>8 DEF Times
    <3> QED BY <1>8, <2>1, <3>1, <3>2, <3>3
  <2>3. CASE pc # "statuses"
    <3>1. x \notin Range(s)
      BY <1>3, <2>1, <2>3 DEF News
    <3> QED BY <1>7, <2>3, <3>1
  <2> QED BY <2>2, <2>3
<1>16. ReadOK'
  BY <1>1, <1>15 DEF IInv, ReadOK
<1> QED BY <1>6, <1>10, <1>11, <1>12, <1>13, <1>14, <1>16 DEF IInv

\* A result is read: its latest time is the mark from now on.
LEMMA EndQueryStep == ASSUME IInv, EndQuery PROVE IInv'
<1>1. /\ reading /\ batch = <<>> /\ batch' = <<>>
      /\ mark' = [mark EXCEPT ![pc] = latest]
      /\ reading' = FALSE /\ latest' = 0
      /\ pc' = NextQuery(pc)
      /\ UNCHANGED <<now, time, visible, log, lastStatuses, overtaken,
                     shuffled, faults>>
  BY DEF EndQuery, LatestTime, database, history
<1>2. TypeOK /\ pc \in Queries /\ latest \in Times /\ Range(batch) = {}
  BY <1>1 DEF IInv, TypeOK, Range
<1>3. TypeOK'
  <2>1. mark' \in [Queries -> Times]
    BY <1>1, <1>2 DEF TypeOK
  <2>2. pc' \in Queries
    BY <1>1, <1>2 DEF NextQuery, Queries
  <2>3. latest' \in Times /\ reading' \in BOOLEAN
    <3>1. latest' = 0 /\ reading' = FALSE
      BY <1>1
    <3>2. 0 \in Times
      BY HistoryLogAssumption DEF Times
    <3> QED BY <3>1, <3>2
  <2>4. batch' \in Seq(visible')
    BY <1>1
  <2> QED BY <1>1, <1>2, <2>1, <2>2, <2>3, <2>4 DEF TypeOK
<1>4. \A q \in Queries : Horizon(q)' = Horizon(q) /\ Seen(q)' = Seen(q)
  <2> TAKE q \in Queries
  <2>1. Horizon(q)' = mark'[q] /\ Seen(q)' = mark'[q]
    BY <1>1 DEF Horizon, Seen
  <2>2. CASE q = pc
    <3>1. {time[x] : x \in Range(batch)} = {}
      BY <1>2
    <3>2. Max({latest} \cup {}) \in {latest} \cup {}
      <4>1. \A x \in {} : time[x] \in Times
        OBVIOUS
      <4> QED BY <1>2, <3>1, LatestOf
    <3>3. Horizon(q) = latest
      BY <1>1, <2>2, <3>1, <3>2 DEF Horizon
    <3>4. mark'[q] = latest /\ Seen(q) = latest
      BY <1>1, <1>2, <2>2 DEF TypeOK, Seen
    <3> QED BY <2>1, <3>3, <3>4
  <2>3. CASE q # pc
    BY <1>1, <1>2, <2>1, <2>3 DEF TypeOK, Horizon, Seen
  <2> QED BY <2>2, <2>3
<1>5. \A x \in visible : QueryOf(x) \in Queries /\ QueryOf(x)' = QueryOf(x)
  BY DEF QueryOf, Queries
<1>6. "statuses" \in Queries
  BY DEF Queries
<1>7. \A k : Read(k)' = Read(k)
  BY <1>1, <1>4, <1>6 DEF Read
<1>8. (BegunOK /\ BatchOK /\ LoggedOnce /\ LastOK)'
  BY <1>1
     DEF IInv, BegunOK, BatchOK, LoggedOnce, LastOK, Of, Shown, Range, IsInjective
<1>9. LogOK'
  <2>1. \A l \in Logs : Range(log[l]) \subseteq visible
    BY <1>2 DEF TypeOK, Range
  <2> QED BY <1>1, <1>4, <1>5, <2>1 DEF IInv, LogOK
<1>10. (OvertakenOK /\ CaughtUp)'
  <2>1. overtaken \subseteq visible
    BY <1>2 DEF TypeOK
  <2> QED BY <1>1, <1>4, <1>5, <2>1 DEF IInv, OvertakenOK, CaughtUp
<1>11. (OrderOK /\ ReadOK)'
  BY <1>1, <1>2, <1>7 DEF IInv, OrderOK, ReadOK, InOrder, PartsInOrder, Range
<1> QED BY <1>3, <1>8, <1>9, <1>10, <1>11 DEF IInv

\* What Insert does to the log of statuses.
LEMMA StatusLog ==
  ASSUME TypeOK, NEW x \in visible, LogOf[x] = "statuses",
         log' = [log EXCEPT !["statuses"] = Append(@, x)]
  PROVE  \E n \in Nat :
           /\ \A k : Of(k) \subseteq 1 .. n
           /\ \A k : Of(k)' = IF KeyOf[x] = k THEN Of(k) \cup {n + 1} ELSE Of(k)
           /\ \A i \in 1 .. n : Shown(i)' = Shown(i)
           /\ Shown(n + 1)' = StatusOf[x]
<1>1. "statuses" \in Logs
  BY DEF Logs, LogsOf, Range
<1>2. /\ log["statuses"] \in Seq(visible)
      /\ log'["statuses"] = Append(log["statuses"], x)
  BY <1>1 DEF TypeOK
<1>3. PICK n \in Nat :
        /\ DOMAIN log["statuses"] = 1 .. n
        /\ DOMAIN log'["statuses"] = 1 .. n + 1
        /\ \A i \in 1 .. n : log'["statuses"][i] = log["statuses"][i]
        /\ log'["statuses"][n + 1] = x
  BY <1>2, AppendFacts
<1>4. \A k : Of(k) \subseteq 1 .. n
  BY <1>3 DEF Of
<1>5. \A k : Of(k)' = IF KeyOf[x] = k THEN Of(k) \cup {n + 1} ELSE Of(k)
  BY <1>3 DEF Of
<1>6. \A i \in 1 .. n : Shown(i)' = Shown(i)
  BY <1>3 DEF Shown
<1>7. Shown(n + 1)' = StatusOf[x]
  BY <1>3 DEF Shown
<1> QED BY <1>4, <1>5, <1>6, <1>7

\* A row is read: logged when it is news, and remembered.
LEMMA InsertStep == ASSUME IInv, Insert PROVE IInv'
<1> DEFINE x == Head(batch)
<1>1. /\ reading /\ batch # <<>> /\ batch' = Tail(batch)
      /\ log' = IF IsNews(x) THEN [log EXCEPT ![LogOf[x]] = Append(@, x)] ELSE log
      /\ lastStatuses' =
           [k \in Keys |-> IF LogOf[x] = "statuses" /\ k \in {KeyOf[x]}
                           THEN StatusOf[x] ELSE lastStatuses[k]]
      /\ latest' = IF time[x] > latest THEN time[x] ELSE latest
      /\ UNCHANGED <<now, time, visible, pc, reading, mark, overtaken, shuffled,
                     faults>>
  BY DEF Insert, database, history, KeysOf
<1>2. TypeOK /\ pc \in Queries /\ batch \in Seq(visible) /\ latest \in Times
  BY DEF IInv, TypeOK
<1>3. /\ Tail(batch) \in Seq(visible) /\ IsInjective(Tail(batch))
      /\ x \notin Range(Tail(batch))
      /\ Range(batch) = {x} \cup Range(Tail(batch))
      /\ x \in visible
  BY <1>1, <1>2, InjectiveTail, HeadTailProperties DEF IInv, BatchOK
<1>4. /\ QueryOf(x) = pc /\ mark[pc] < time[x]
      /\ x \notin Logged /\ x \notin overtaken
  BY <1>3 DEF IInv, BatchOK
<1> HIDE DEF x
<1>5. /\ MaxTime \in Nat /\ Times \subseteq Nat
      /\ mark[pc] \in Nat /\ time[x] \in Times /\ time[x] \in Nat
      /\ latest \in Nat /\ \A y \in visible : time[y] \in Times
      /\ x \in Rows /\ LogOf[x] \in Logs /\ KeyOf[x] \in Keys
      /\ StatusOf[x] \in Range(StatusOf)
  BY <1>2, <1>3, HistoryLogAssumption DEF TypeOK, Times, Keys, Range
<1>6. /\ latest' \in Times /\ latest' >= latest /\ latest' >= time[x]
      /\ latest' \in {latest, time[x]}
  BY <1>1, <1>2, <1>5
<1>7. /\ log[LogOf[x]] \in Seq(visible) /\ x \notin Range(log[LogOf[x]])
      /\ \A l \in Logs : Range(log[l]) \subseteq visible
      /\ \A y \in visible : time[y] \in Nat
  <2>1. \A l \in Logs : Range(log[l]) \subseteq visible
    BY <1>2 DEF TypeOK, Range
  <2> QED BY <1>2, <1>4, <1>5, <2>1 DEF TypeOK, Logged
<1>8. \A l \in Logs :
        \/ log'[l] = log[l]
        \/ l = LogOf[x] /\ log'[l] = Append(log[l], x)
  BY <1>1, <1>2, <1>5 DEF TypeOK
<1>9. TypeOK'
  <2>1. log' \in [Logs -> Seq(visible)]
    <3>1. Append(log[LogOf[x]], x) \in Seq(visible)
      BY <1>3, <1>7, AppendFacts
    <3> QED BY <1>1, <1>2, <1>5, <3>1 DEF TypeOK
  <2>2. lastStatuses' \in [Keys -> Range(StatusOf) \cup {None}]
    BY <1>1, <1>2, <1>5 DEF TypeOK
  <2>3. batch' \in Seq(visible)
    BY <1>1, <1>3
  <2> QED BY <1>1, <1>2, <1>6, <2>1, <2>2, <2>3 DEF TypeOK
<1>10. \A q : Horizon(q)' = Horizon(q)
  <2> TAKE q
  <2>1. CASE q # pc
    BY <1>1, <2>1 DEF Horizon
  <2>2. CASE q = pc
    <3> DEFINE S == {latest} \cup {time[y] : y \in Range(batch)}
               T == {latest'} \cup {time[y] : y \in Range(Tail(batch))}
    <3>1. Horizon(q) = Max(S) /\ Horizon(q)' = Max(T)
      BY <1>1, <2>2 DEF Horizon
    <3>2. Range(batch) \subseteq visible /\ Range(Tail(batch)) \subseteq visible
      BY <1>2, <1>3 DEF Range
    <3>3. Max(S) \in S /\ \A y \in S : y <= Max(S)
      BY <1>2, <1>5, <3>2, LatestOf
    <3>4. Max(T) \in T /\ \A y \in T : y <= Max(T)
      BY <1>5, <1>6, <3>2, LatestOf
    <3>5. S \subseteq Times /\ T \subseteq Times
      BY <1>2, <1>5, <1>6, <3>2
    <3>6. T \subseteq S
      BY <1>3, <1>6
    <3>7. \A y \in S : \E z \in T : y <= z
      <4> TAKE y \in S
      <4>1. CASE y = latest \/ y = time[x]
        BY <1>6, <4>1
      <4>2. CASE \E r \in Range(Tail(batch)) : y = time[r]
        <5>1. y \in T /\ y \in Nat
          BY <1>5, <3>5, <4>2
        <5> QED BY <5>1
      <4> QED BY <1>3, <4>1, <4>2
    <3> HIDE DEF S, T
    <3>8. Max(S) \in Nat /\ Max(T) \in Nat
      BY <1>5, <3>3, <3>4, <3>5
    <3>9. Max(T) <= Max(S)
      BY <3>3, <3>4, <3>6
    <3>10. PICK z \in T : Max(S) <= z
      BY <3>3, <3>7
    <3>11. z <= Max(T) /\ z \in Nat
      BY <1>5, <3>4, <3>5
    <3>12. Max(S) <= Max(T)
      BY <3>8, <3>10, <3>11
    <3> QED BY <3>1, <3>8, <3>9, <3>12
  <2> QED BY <2>1, <2>2
<1>11. \A q : Seen(q)' = IF q = pc THEN latest' ELSE Seen(q)
  BY <1>1 DEF Seen
<1>12. BegunOK' /\ OvertakenOK'
  <2>1. \A y : QueryOf(y)' = QueryOf(y)
    BY DEF QueryOf
  <2> QED BY <1>1, <1>10, <2>1 DEF IInv, BegunOK, OvertakenOK
<1>13. LogOK'
  <2> SUFFICES ASSUME NEW l \in Logs, NEW y \in Range(log'[l])
               PROVE  LogOf[y] = l /\ time[y] <= Seen(QueryOf(y))'
    BY <1>1 DEF LogOK, QueryOf
  <2>1. CASE y \in Range(log[l])
    <3>1. LogOf[y] = l /\ time[y] <= Seen(QueryOf(y))
      BY <2>1 DEF IInv, LogOK
    <3>2. y \in visible /\ time[y] \in Nat
      BY <1>7, <2>1
    <3>3. CASE QueryOf(y) = pc
      BY <1>1, <1>5, <1>6, <1>11, <3>1, <3>2, <3>3 DEF Seen
    <3>4. CASE QueryOf(y) # pc
      BY <1>11, <3>1, <3>4
    <3> QED BY <3>1, <3>3, <3>4
  <2>2. CASE y \notin Range(log[l])
    <3>1. l = LogOf[x] /\ log'[l] = Append(log[l], x)
      BY <1>8, <2>2
    <3>2. y = x
      BY <1>3, <1>7, <2>2, <3>1, AppendFacts
    <3> QED BY <1>4, <1>5, <1>6, <1>11, <3>1, <3>2
  <2> QED BY <2>1, <2>2
<1>14. BatchOK'
  <2>1. ASSUME NEW y \in Range(Tail(batch))
        PROVE  /\ QueryOf(y) = pc /\ mark[pc] < time[y]
               /\ y \notin Logged' /\ y \notin overtaken
    <3>1. /\ QueryOf(y) = pc /\ mark[pc] < time[y]
          /\ y \notin Logged /\ y \notin overtaken
      BY <1>3 DEF IInv, BatchOK
    <3>2. ASSUME NEW l \in Logs, y \in Range(log'[l]) PROVE FALSE
      <4>1. y \notin Range(log[l])
        BY <3>1 DEF Logged
      <4>2. l = LogOf[x] /\ log'[l] = Append(log[l], x)
        BY <1>8, <3>2, <4>1
      <4>3. y = x
        BY <1>3, <1>7, <3>2, <4>1, <4>2, AppendFacts
      <4> QED BY <1>3, <4>3
    <3> QED BY <3>1, <3>2 DEF Logged
  <2>2. mark[pc] <= latest'
    BY <1>1, <1>5, <1>6 DEF IInv, BatchOK
  <2> QED BY <1>1, <1>3, <2>1, <2>2 DEF BatchOK, QueryOf
<1>15. CaughtUp'
  <2> SUFFICES ASSUME NEW y \in visible, y \notin overtaken,
                      y \notin Range(Tail(batch)),
                      time[y] <= Horizon(QueryOf(y))
               PROVE  time[y] <= Seen(QueryOf(y))'
    BY <1>1, <1>10 DEF CaughtUp, QueryOf
  <2>1. CASE y = x
    BY <1>4, <1>6, <1>11, <2>1
  <2>2. CASE y # x
    <3>1. time[y] <= Seen(QueryOf(y)) /\ time[y] \in Nat
      BY <1>3, <1>5, <2>2 DEF IInv, CaughtUp
    <3>2. CASE QueryOf(y) = pc
      BY <1>1, <1>5, <1>6, <1>11, <3>1, <3>2 DEF Seen
    <3>3. CASE QueryOf(y) # pc
      BY <1>11, <3>1, <3>3
    <3> QED BY <3>2, <3>3
  <2> QED BY <2>1, <2>2
<1>16. OrderOK'
  <2> SUFFICES ASSUME ~shuffled
               PROVE  /\ \A i, j \in DOMAIN Tail(batch) :
                           i < j /\ LogOf[Tail(batch)[i]] = LogOf[Tail(batch)[j]]
                             => time[Tail(batch)[i]] <= time[Tail(batch)[j]]
                      /\ \A y \in Range(Tail(batch)) : \A z \in Range(log'[LogOf[y]]) :
                           time[z] <= time[y]
                      /\ pc = "statuses" =>
                           \A y \in Range(Tail(batch)) : latest' <= time[y]
                      /\ \A l \in Logs : \A i, j \in DOMAIN log'[l] :
                           i < j => time[log'[l][i]] <= time[log'[l][j]]
    BY <1>1 DEF OrderOK, InOrder, PartsInOrder
  <2>1. /\ DOMAIN batch = 1 .. Len(batch) /\ Len(batch) \in Nat \ {0}
        /\ DOMAIN Tail(batch) = 1 .. Len(batch) - 1
        /\ \A i \in 1 .. Len(batch) - 1 : Tail(batch)[i] = batch[i + 1]
        /\ x = batch[1]
    BY <1>1, <1>2, HeadTailProperties DEF x
  <2>2. \A i, j \in DOMAIN batch :
          i < j /\ LogOf[batch[i]] = LogOf[batch[j]]
            => time[batch[i]] <= time[batch[j]]
    BY DEF IInv, OrderOK, PartsInOrder
  <2>3. \A i, j \in DOMAIN Tail(batch) :
          i < j /\ LogOf[Tail(batch)[i]] = LogOf[Tail(batch)[j]]
            => time[Tail(batch)[i]] <= time[Tail(batch)[j]]
    <3> TAKE i, j \in DOMAIN Tail(batch)
    <3>1. i + 1 \in DOMAIN batch /\ j + 1 \in DOMAIN batch
      BY <2>1
    <3> QED BY <2>1, <2>2, <3>1
  <2>4. ASSUME NEW y \in Range(Tail(batch)), LogOf[y] = LogOf[x]
        PROVE  time[x] <= time[y]
    <3>1. PICK i \in 1 .. Len(batch) - 1 : y = batch[i + 1]
      BY <2>1 DEF Range
    <3>2. 1 \in DOMAIN batch /\ i + 1 \in DOMAIN batch /\ 1 < i + 1
      BY <2>1, <3>1
    <3> QED BY <2>1, <2>2, <2>4, <3>1, <3>2
  <2>5. ASSUME NEW y \in Range(Tail(batch)), NEW z \in Range(log'[LogOf[y]])
        PROVE  time[z] <= time[y]
    <3>1. y \in Range(batch) /\ y \in visible
      BY <1>2, <1>3 DEF Range
    <3>2. LogOf[y] \in Logs
      BY <1>2, <3>1, HistoryLogAssumption DEF TypeOK
    <3>3. CASE z \in Range(log[LogOf[y]])
      BY <3>1, <3>3 DEF IInv, OrderOK
    <3>4. CASE z \notin Range(log[LogOf[y]])
      <4>1. LogOf[y] = LogOf[x] /\ log'[LogOf[x]] = Append(log[LogOf[x]], x)
        BY <1>8, <3>2, <3>4
      <4>2. z = x
        BY <1>3, <1>7, <3>4, <4>1, AppendFacts
      <4> QED BY <2>4, <4>1, <4>2
    <3> QED BY <3>3, <3>4
  <2>6. ASSUME pc = "statuses", NEW y \in Range(Tail(batch))
        PROVE  latest' <= time[y]
    <3>1. y \in Range(batch) /\ latest <= time[y]
      BY <1>3, <2>6 DEF IInv, OrderOK
    <3>2. LogOf[x] = "statuses" /\ LogOf[y] = "statuses"
      <4>1. QueryOf(x) = "statuses" /\ QueryOf(y) = "statuses"
        BY <1>4, <2>6, <3>1 DEF IInv, BatchOK
      <4> QED BY <4>1 DEF QueryOf
    <3> QED BY <1>6, <2>4, <3>1, <3>2
  <2>7. ASSUME NEW l \in Logs, NEW i \in DOMAIN log'[l], NEW j \in DOMAIN log'[l],
               i < j
        PROVE  time[log'[l][i]] <= time[log'[l][j]]
    <3>1. \A a, b \in DOMAIN log[l] : a < b => time[log[l][a]] <= time[log[l][b]]
      BY DEF IInv, OrderOK, InOrder
    <3>2. CASE log'[l] = log[l]
      BY <2>7, <3>1, <3>2
    <3>3. CASE l = LogOf[x] /\ log'[l] = Append(log[l], x)
      <4>1. /\ DOMAIN log[l] = 1 .. Len(log[l]) /\ Len(log[l]) \in Nat
            /\ DOMAIN log'[l] = 1 .. Len(log[l]) + 1
            /\ \A a \in 1 .. Len(log[l]) : log'[l][a] = log[l][a]
            /\ log'[l][Len(log[l]) + 1] = x
        BY <1>3, <1>7, <3>3, AppendFacts
      <4>2. i \in DOMAIN log[l] /\ log'[l][i] = log[l][i]
        BY <2>7, <4>1
      <4>3. CASE j \in DOMAIN log[l]
        BY <2>7, <3>1, <4>1, <4>2, <4>3
      <4>4. CASE j \notin DOMAIN log[l]
        <5>1. log'[l][j] = x
          BY <4>1, <4>4
        <5>2. log[l][i] \in Range(log[LogOf[x]])
          BY <3>3, <4>2 DEF Range
        <5> QED BY <1>3, <4>2, <5>1, <5>2 DEF IInv, OrderOK
      <4> QED BY <4>3, <4>4
    <3> QED BY <1>8, <3>2, <3>3
  <2> QED BY <2>3, <2>5, <2>6, <2>7
<1>17. "statuses" \in Logs
  BY DEF Logs, LogsOf, Range
<1>18. LastOK' /\ LoggedOnce'
  <2>1. \A l \in Logs : IsInjective(log'[l])
    <3> TAKE l \in Logs
    <3>1. IsInjective(log[l])
      BY DEF IInv, LoggedOnce
    <3>2. CASE log'[l] = log[l]
      BY <3>1, <3>2
    <3>3. CASE l = LogOf[x] /\ log'[l] = Append(log[l], x)
      <4>1. log[l] \in Seq(visible) /\ x \notin Range(log[l])
        BY <1>7, <3>3
      <4>2. IsInjective(Append(log[l], x))
        BY <1>3, <3>1, <4>1, InjectiveAppend
      <4> QED BY <3>3, <4>2
    <3> QED BY <1>8, <3>2, <3>3
  <2>2. CASE LogOf[x] # "statuses"
    <3>1. log'["statuses"] = log["statuses"]
      BY <1>8, <1>17, <2>2
    <3>2. \A k \in Keys : lastStatuses'[k] = lastStatuses[k]
      BY <1>1, <2>2
    <3> QED BY <2>1, <3>1, <3>2 DEF IInv, LastOK, LoggedOnce, Of, Shown
  <2>3. CASE LogOf[x] = "statuses" /\ ~IsNews(x)
    <3>1. log' = log /\ \A k \in Keys : lastStatuses'[k] = lastStatuses[k]
      BY <1>1, <2>3 DEF IsNews
    <3> QED BY <2>1, <3>1 DEF IInv, LastOK, LoggedOnce, Of, Shown
  <2>4. CASE LogOf[x] = "statuses" /\ IsNews(x)
    <3>1. PICK n \in Nat :
          /\ \A k : Of(k) \subseteq 1 .. n
          /\ \A k : Of(k)' = IF KeyOf[x] = k THEN Of(k) \cup {n + 1} ELSE Of(k)
          /\ \A i \in 1 .. n : Shown(i)' = Shown(i)
          /\ Shown(n + 1)' = StatusOf[x]
      BY <1>1, <1>2, <1>3, <2>4, StatusLog
    <3>2. \A k \in Keys : lastStatuses'[k] = IF k = KeyOf[x] THEN StatusOf[x]
                                            ELSE lastStatuses[k]
      BY <1>1, <2>4
    <3>3. lastStatuses[KeyOf[x]] # StatusOf[x]
      BY <2>4 DEF IsNews
    <3>4. ASSUME NEW k \in Keys
          PROVE  \/ Of(k)' = {} /\ lastStatuses'[k] = None
                 \/ \E i \in Of(k)' : /\ \A j \in Of(k)' : j <= i
                                      /\ Shown(i)' = lastStatuses'[k]
      <4>1. \/ Of(k) = {} /\ lastStatuses[k] = None
            \/ \E i \in Of(k) : (\A j \in Of(k) : j <= i)
                                /\ Shown(i) = lastStatuses[k]
        BY DEF IInv, LastOK
      <4>2. CASE k = KeyOf[x]
        <5>1. Of(k)' = Of(k) \cup {n + 1} /\ Of(k) \subseteq 1 .. n
          BY <3>1, <4>2
        <5>2. \A j \in Of(k)' : j <= n + 1
          BY <3>1, <5>1
        <5>3. n + 1 \in Of(k)' /\ Shown(n + 1)' = StatusOf[x]
              /\ lastStatuses'[k] = StatusOf[x]
          BY <3>1, <3>2, <4>2, <5>1
        <5> QED BY <5>2, <5>3
      <4>3. CASE k # KeyOf[x]
        <5>1. Of(k)' = Of(k) /\ lastStatuses'[k] = lastStatuses[k]
              /\ Of(k) \subseteq 1 .. n
          BY <3>1, <3>2, <4>3
        <5> QED BY <3>1, <4>1, <5>1
      <4> QED BY <4>2, <4>3
    <3>5. ASSUME NEW k \in Keys, NEW i \in Of(k)', NEW j \in Of(k)', i < j,
                 \A m \in Of(k)' : ~(i < m /\ m < j)
          PROVE  Shown(i)' # Shown(j)'
      <4>1. Of(k) \subseteq 1 .. n
        BY <3>1
      <4>2. CASE k # KeyOf[x] \/ j # n + 1
        <5>1. i \in Of(k) /\ j \in Of(k)
          BY <3>1, <3>5, <4>1, <4>2
        <5>2. \A m \in Of(k) : ~(i < m /\ m < j)
          BY <3>1, <3>5
        <5>3. Shown(i) # Shown(j)
          BY <3>5, <5>1, <5>2 DEF IInv, LoggedOnce
        <5> QED BY <3>1, <4>1, <5>1, <5>3
      <4>3. CASE k = KeyOf[x] /\ j = n + 1
        <5>1. i \in Of(k)
          BY <3>1, <3>5, <4>1, <4>3
        <5>2. PICK last \in Of(k) : /\ \A m \in Of(k) : m <= last
                                    /\ Shown(last) = lastStatuses[k]
          BY <5>1 DEF IInv, LastOK
        <5>3. i = last
          <6>1. last \in Of(k)' /\ last \in 1 .. n /\ i \in 1 .. n /\ i <= last
            BY <3>1, <4>1, <5>1, <5>2
          <6>2. ~(i < last /\ last < n + 1)
            BY <3>5, <4>3, <6>1
          <6> QED BY <3>1, <6>1, <6>2
        <5> QED BY <3>1, <3>3, <4>1, <4>3, <5>1, <5>2, <5>3
      <4> QED BY <4>2, <4>3
    <3> QED BY <2>1, <3>4, <3>5 DEF LastOK, LoggedOnce
  <2> QED BY <2>2, <2>3, <2>4
<1>19. ReadOK'
  <2> SUFFICES ASSUME ~shuffled, NEW k \in Keys, Read(k)' # {}
               PROVE  \E r \in Read(k)' :
                        /\ \A y \in Read(k)' : time[y] <= time[r]
                        /\ StatusOf[r] = lastStatuses'[k]
    BY <1>1 DEF ReadOK
  <2>1. time[x] <= Horizon(pc)
    <3>1. Range(batch) \subseteq visible
      BY <1>2 DEF Range
    <3>2. \A y \in {latest} \cup {time[y] : y \in Range(batch)} : y <= Horizon(pc)
      BY <1>1, <1>2, <1>5, <3>1, LatestOf DEF Horizon
    <3> QED BY <1>3, <3>2
  <2>2. CASE LogOf[x] = "statuses" /\ KeyOf[x] = k
    <3>1. pc = "statuses" /\ lastStatuses'[k] = StatusOf[x]
      BY <1>1, <1>4, <2>2 DEF QueryOf
    <3>2. Read(k)' = Read(k) \cup {x}
      BY <1>1, <1>3, <1>4, <1>10, <2>1, <2>2, <3>1 DEF Read
    <3>3. \A y \in Read(k) : time[y] <= time[x]
      <4> TAKE y \in Read(k)
      <4>1. y \in visible \ (overtaken \cup Range(batch))
            /\ QueryOf(y) = pc /\ time[y] <= Horizon(QueryOf(y))
        BY <3>1 DEF Read, QueryOf
      <4>2. time[y] <= latest
        BY <1>1, <4>1 DEF IInv, CaughtUp, Seen
      <4>3. latest <= time[x]
        BY <1>3, <3>1 DEF IInv, OrderOK
      <4> QED BY <1>5, <1>7, <4>1, <4>2, <4>3
    <3>4. \A y \in Read(k)' : time[y] <= time[x]
      BY <1>5, <3>2, <3>3
    <3> QED BY <3>1, <3>2, <3>4
  <2>3. CASE ~(LogOf[x] = "statuses" /\ KeyOf[x] = k)
    <3>1. lastStatuses'[k] = lastStatuses[k]
      BY <1>1, <2>3
    <3>2. Read(k)' = Read(k)
      BY <1>1, <1>3, <1>10, <2>3 DEF Read
    <3> QED BY <3>1, <3>2 DEF IInv, ReadOK
  <2> QED BY <2>2, <2>3
<1> QED BY <1>9, <1>12, <1>13, <1>14, <1>15, <1>16, <1>18, <1>19 DEF IInv

(***************************************************************************)
(* The search and the merge of an answer.                                  *)
(***************************************************************************)

\* The last entry before the time t, counted from 1, and 0 if there is none.
Before(s, t, p) ==
  p \in 0 .. Len(s) /\ \A i \in 1 .. Len(s) : i > p <=> t <= time[s[i]]

LEMMA SearchFinds ==
  ASSUME NEW S, NEW s \in Seq(S), s # <<>>, NEW t \in Nat,
         \A i \in 1 .. Len(s) : time[s[i]] \in Nat,
         InOrder(s), t <= time[s[Len(s)]]
  PROVE  Before(s, t, BinarySearch(s, t))
<1>1. Len(s) \in Nat \ {0} /\ DOMAIN s = 1 .. Len(s)
  BY EmptySeq
<1>0. Len(s) \in Nat
  OBVIOUS
<1>2. \A i, j \in 1 .. Len(s) : i <= j => time[s[i]] <= time[s[j]]
  BY <1>1 DEF InOrder
<1> DEFINE D == 0 .. Len(s) - 1
           W == [first : D, last : D]
           base == [first |-> 0, last |-> Len(s) - 1]
           Narrow(w, n) ==
             /\ w.first <= w.last
             /\ w.last - w.first <= Len(s) - 1 - n \/ w.first = w.last
             /\ \A i \in 1 .. Len(s) : i <= w.first => time[s[i]] < t
             /\ \A i \in 1 .. Len(s) : i > w.last => t <= time[s[i]]
           M == [n \in 0 .. Len(s) |-> {w \in W : Narrow(w, n)}]
<1>3. base \in M[0]
  <2>1. base \in W /\ 0 \in 0 .. Len(s)
    BY <1>1
  <2>2. Narrow(base, 0)
    BY <1>1
  <2> QED BY <2>1, <2>2
<1>4. ASSUME NEW n \in 1 .. Len(s), NEW w \in W, Narrow(w, n - 1)
      PROVE  SearchStep(s, t, w) \in W /\ Narrow(SearchStep(s, t, w), n)
  <2>1. /\ w.first \in Nat /\ w.last \in Nat /\ w.first \in D /\ w.last \in D
        /\ w = [first |-> w.first, last |-> w.last]
    BY <1>1
  <2>2. CASE ~(w.first < w.last)
    <3>1. SearchStep(s, t, w) = w /\ w.first = w.last
      BY <1>4, <2>1, <2>2 DEF SearchStep
    <3> QED BY <1>4, <3>1
  <2>3. CASE w.first < w.last
    <3> DEFINE mid == (w.first + w.last) \div 2
    <3>1. mid \in Nat /\ w.first <= mid /\ mid < w.last /\ mid + 1 \in 1 .. Len(s)
          /\ mid \in D /\ mid + 1 \in D
      <4>1. mid \in Nat /\ w.first <= mid /\ mid < w.last
        BY <2>1, <2>3, Z3
      <4>2. w.last <= Len(s) - 1
        BY <1>1, <2>1
      <4> HIDE DEF mid
      <4> QED BY <1>1, <2>1, <4>1, <4>2
    <3>2. time[s[mid + 1]] \in Nat
      BY <3>1
    <3>3. CASE AtOrBefore(t, s, mid)
      <4>1. SearchStep(s, t, w) = [first |-> w.first, last |-> mid]
        BY <2>1, <2>3, <3>3 DEF SearchStep
      <4> HIDE DEF mid
      <4>2. ASSUME NEW i \in 1 .. Len(s), i > mid PROVE t <= time[s[i]]
        <5>1. time[s[mid + 1]] <= time[s[i]] /\ t <= time[s[mid + 1]]
          BY <1>2, <3>1, <3>3, <4>2 DEF AtOrBefore
        <5> QED BY <3>2, <5>1
      <4>3. mid - w.first <= Len(s) - 1 - n \/ w.first = mid
        BY <1>1, <1>4, <2>1, <2>3, <3>1
      <4> QED BY <1>4, <2>1, <3>1, <4>1, <4>2, <4>3
    <3>4. CASE ~AtOrBefore(t, s, mid)
      <4>1. SearchStep(s, t, w) = [first |-> mid + 1, last |-> w.last]
        BY <2>1, <2>3, <3>4 DEF SearchStep
      <4> HIDE DEF mid
      <4>2. ASSUME NEW i \in 1 .. Len(s), i <= mid + 1 PROVE time[s[i]] < t
        <5>1. time[s[i]] <= time[s[mid + 1]] /\ time[s[mid + 1]] < t
          BY <1>2, <3>1, <3>2, <3>4, <4>2 DEF AtOrBefore
        <5> QED BY <3>2, <5>1
      <4>3. mid + 1 <= w.last
        BY <2>1, <3>1
      <4>4. w.last - (mid + 1) <= Len(s) - 1 - n \/ mid + 1 = w.last
        BY <1>1, <1>4, <2>1, <2>3, <3>1
      <4> QED BY <1>4, <2>1, <3>1, <4>1, <4>2, <4>3, <4>4
    <3> QED BY <3>3, <3>4
  <2> QED BY <2>2, <2>3
<1> HIDE DEF Narrow, W, base
<1>5. ASSUME NEW n \in 1 .. Len(s), NEW w \in M[n - 1]
      PROVE  SearchStep(s, t, w) \in M[n]
  <2>1. n - 1 \in 0 .. Len(s) /\ n \in 0 .. Len(s)
    BY <1>1
  <2>2. w \in W /\ Narrow(w, n - 1)
    BY <2>1
  <2> QED BY <1>4, <2>1, <2>2
<1> DEFINE R(f) == f = [n \in 0 .. Len(s) |-> IF n = 0 THEN base
                                             ELSE SearchStep(s, t, f[n - 1])]
<1>6. \E f : R(f)
  <2> DEFINE G == [w \in W |-> SearchStep(s, t, w)]
  <2>1. \A n \in 0 .. Len(s) : M[n] \subseteq W
    OBVIOUS
  <2>2. \A n \in 1 .. Len(s) : \A w \in M[n - 1] : G[w] \in M[n]
    <3> TAKE n \in 1 .. Len(s)
    <3> TAKE w \in M[n - 1]
    <3>1. w \in W
      BY <1>1, <2>1
    <3> QED BY <1>5, <3>1
  <2> HIDE DEF M, G
  <2>3. base \in M[0]
    BY <1>3
  <2>4. PICK f : /\ f = [n \in 0 .. Len(s) |-> f[n]] /\ f[0] = base
                 /\ \A n \in 1 .. Len(s) : f[n] = G[f[n - 1]]
                 /\ \A n \in 0 .. Len(s) : f[n] \in M[n]
    <3>1. Leads(Len(s), base, G, M)
      BY <2>2, <2>3 DEF Leads
    <3>2. PICK f : Repeats(f, Len(s), base, G, M)
      BY <1>0, <3>1, IterationExists
    <3> QED BY <3>2 DEF Repeats
  <2>5. \A n \in 0 .. Len(s) :
          f[n] = IF n = 0 THEN base ELSE SearchStep(s, t, f[n - 1])
    <3> TAKE n \in 0 .. Len(s)
    <3>1. CASE n # 0
      <4>1. n - 1 \in 0 .. Len(s) /\ n \in 1 .. Len(s)
        BY <1>0, <3>1
      <4>2. f[n - 1] \in W /\ f[n] = G[f[n - 1]]
        BY <2>1, <2>4, <4>1
      <4> QED BY <3>1, <4>2 DEF G
    <3> QED BY <2>4, <3>1
  <2>6. R(f)
    BY <2>4, <2>5, Zenon
  <2> QED BY <2>6
<1> DEFINE g == CHOOSE f : R(f)
<1>7. BinarySearch(s, t) = g[Len(s)].last
  BY DEF BinarySearch, base
<1> HIDE DEF R
<1>8. R(g)
  BY <1>6
<1> HIDE DEF g
<1>9. g[0] = base /\ \A n \in 1 .. Len(s) : g[n] = SearchStep(s, t, g[n - 1])
  BY <1>1, <1>8 DEF R
<1>10. \A n \in 1 .. Len(s) : g[n - 1] \in M[n - 1] => g[n] \in M[n]
  BY <1>5, <1>9
<1>11. g[Len(s)] \in M[Len(s)]
  <2> HIDE DEF M
  <2>1. g[0] \in M[0]
    BY <1>3, <1>9
  <2>2. \A n \in 0 .. Len(s) : g[n] \in M[n]
    BY <1>0, <2>1, <1>10, IterationHolds
  <2> QED BY <1>0, <2>2
<1> DEFINE w == g[Len(s)]
<1>12. w \in W /\ Narrow(w, Len(s))
  BY <1>1, <1>11
<1> HIDE DEF w
<1>13. /\ w.first = w.last /\ w.last \in D /\ w.last \in Nat
       /\ \A i \in 1 .. Len(s) : i <= w.first => time[s[i]] < t
       /\ \A i \in 1 .. Len(s) : i > w.last => t <= time[s[i]]
  BY <1>1, <1>12 DEF Narrow, W
<1>14. \A i \in 1 .. Len(s) : i > w.last <=> t <= time[s[i]]
  <2> TAKE i \in 1 .. Len(s)
  <2>1. CASE i > w.last
    BY <1>13, <2>1
  <2>2. CASE ~(i > w.last)
    <3>1. time[s[i]] < t /\ time[s[i]] \in Nat
      BY <1>13, <2>2
    <3> QED BY <2>2, <3>1
  <2> QED BY <2>1, <2>2
<1> QED BY <1>1, <1>7, <1>13, <1>14 DEF Before, w

\* The place from which a log is answered.
LEMMA OffsetFinds ==
  ASSUME NEW S, NEW s \in Seq(S), NEW t \in Nat,
         \A i \in 1 .. Len(s) : time[s[i]] \in Nat, InOrder(s)
  PROVE  Before(s, t, FindOffsetForTimestamp(s, t))
<1>1. Len(s) \in Nat /\ DOMAIN s = 1 .. Len(s)
  OBVIOUS
<1>2. \A i, j \in 1 .. Len(s) : i <= j => time[s[i]] <= time[s[j]]
  BY <1>1 DEF InOrder
<1>3. CASE s = <<>>
  <2>1. Len(s) = 0 /\ FindOffsetForTimestamp(s, t) = 0
    BY <1>3 DEF FindOffsetForTimestamp
  <2> QED BY <2>1 DEF Before
<1>4. CASE s # <<>> /\ t < time[s[1]]
  <2>1. FindOffsetForTimestamp(s, t) = 0
    BY <1>4 DEF FindOffsetForTimestamp
  <2>2. ASSUME NEW i \in 1 .. Len(s) PROVE i > 0 /\ t <= time[s[i]]
    <3>1. 1 \in 1 .. Len(s)
      BY <1>1
    <3>2. time[s[1]] <= time[s[i]] /\ time[s[1]] \in Nat /\ time[s[i]] \in Nat
      BY <1>2, <3>1
    <3> QED BY <1>4, <3>2
  <2> QED BY <1>1, <2>1, <2>2 DEF Before
<1>5. CASE s # <<>> /\ ~(t < time[s[1]]) /\ t > time[s[Len(s)]]
  <2>1. FindOffsetForTimestamp(s, t) = Len(s)
    BY <1>5 DEF FindOffsetForTimestamp
  <2>2. ASSUME NEW i \in 1 .. Len(s) PROVE ~(i > Len(s)) /\ ~(t <= time[s[i]])
    <3>1. Len(s) \in 1 .. Len(s)
      BY <1>1
    <3>2. /\ time[s[i]] <= time[s[Len(s)]]
          /\ time[s[Len(s)]] \in Nat /\ time[s[i]] \in Nat
      BY <1>1, <1>2, <3>1
    <3> QED BY <1>1, <1>5, <3>2
  <2> QED BY <1>1, <2>1, <2>2 DEF Before
<1>6. CASE s # <<>> /\ ~(t < time[s[1]]) /\ ~(t > time[s[Len(s)]])
  <2>1. FindOffsetForTimestamp(s, t) = BinarySearch(s, t)
    BY <1>6 DEF FindOffsetForTimestamp
  <2>2. Len(s) \in 1 .. Len(s)
    BY <1>1, <1>6, EmptySeq
  <2>3. t <= time[s[Len(s)]]
    BY <1>6, <2>2
  <2> QED BY <1>6, <2>1, <2>3, SearchFinds
<1> QED BY <1>3, <1>4, <1>5, <1>6

\* What follows that place: the entries from the time on.
LEMMA SuffixFacts ==
  ASSUME NEW S, NEW s \in Seq(S), NEW t \in Nat,
         \A i \in 1 .. Len(s) : time[s[i]] \in Nat, InOrder(s), IsInjective(s)
  PROVE  LET r == SubSeq(s, FindOffsetForTimestamp(s, t) + 1, Len(s))
         IN  /\ r \in Seq(S) /\ InOrder(r) /\ IsInjective(r)
             /\ Range(r) = {x \in Range(s) : time[x] >= t}
<1> DEFINE p == FindOffsetForTimestamp(s, t)
           r == SubSeq(s, p + 1, Len(s))
<1>1. Before(s, t, p)
  BY OffsetFinds
<1> HIDE DEF p
<1>2. /\ Len(s) \in Nat /\ DOMAIN s = 1 .. Len(s) /\ p \in 0 .. Len(s)
      /\ \A i \in 1 .. Len(s) : i > p <=> t <= time[s[i]]
  BY <1>1 DEF Before
<1>3. /\ r \in Seq(S) /\ Len(r) = Len(s) - p
      /\ \A i \in 1 .. Len(s) - p : r[i] = s[p + i]
  <2>1. \A i \in p + 1 .. Len(s) : s[i] \in S
    BY <1>2, ElementOfSeq
  <2>2. p + 1 \in Int /\ Len(s) \in Int
    BY <1>2
  <2>3. /\ r \in Seq(S) /\ Len(r) = IF p + 1 <= Len(s) THEN Len(s) - (p + 1) + 1 ELSE 0
        /\ \A i \in 1 .. Len(s) - (p + 1) + 1 : r[i] = s[p + 1 + i - 1]
    BY <2>1, <2>2, SubSeqProperties
  <2>4. Len(s) - (p + 1) + 1 = Len(s) - p /\ \A i \in Nat : p + 1 + i - 1 = p + i
    BY <1>2
  <2>5. Len(r) = Len(s) - p
    <3> HIDE DEF r
    <3>1. CASE p + 1 <= Len(s)
      BY <2>3, <2>4, <3>1
    <3>2. CASE ~(p + 1 <= Len(s))
      <4>0. Len(s) \in Nat /\ p \in Nat /\ p <= Len(s)
        BY <1>2
      <4>1. Len(s) - p = 0
        BY <3>2, <4>0
      <4>2. Len(r) = 0
        BY <2>3, <3>2
      <4> QED BY <4>1, <4>2
    <3> QED BY <3>1, <3>2
  <2>6. ASSUME NEW i \in 1 .. Len(s) - p PROVE r[i] = s[p + i]
    <3>1. i \in Nat
      BY <1>2
    <3> QED BY <2>3, <2>4, <3>1
  <2> QED BY <2>3, <2>5, <2>6
<1> HIDE DEF r
<1>4. DOMAIN r = 1 .. Len(s) - p
  BY <1>3
<1>5. \A i \in 1 .. Len(s) - p : p + i \in 1 .. Len(s)
  BY <1>2
<1>6. InOrder(r)
  <2> SUFFICES ASSUME NEW i \in DOMAIN r, NEW j \in DOMAIN r, i < j
               PROVE  time[r[i]] <= time[r[j]]
    BY DEF InOrder
  <2>1. p + i < p + j
    BY <1>2, <1>4
  <2>2. time[s[p + i]] <= time[s[p + j]]
    BY <1>2, <1>4, <1>5, <2>1 DEF InOrder
  <2>3. r[i] = s[p + i] /\ r[j] = s[p + j]
    BY <1>3, <1>4
  <2> QED BY <2>2, <2>3
<1>7. IsInjective(r)
  <2> SUFFICES ASSUME NEW i \in DOMAIN r, NEW j \in DOMAIN r, r[i] = r[j]
               PROVE  i = j
    BY DEF IsInjective
  <2>1. p + i = p + j
    BY <1>2, <1>3, <1>4, <1>5 DEF IsInjective
  <2> QED BY <1>2, <1>4, <2>1
<1>8. ASSUME NEW x \in Range(r) PROVE x \in Range(s) /\ time[x] >= t
  <2>1. PICK i \in 1 .. Len(s) - p : x = r[i]
    BY <1>4 DEF Range
  <2>2. p + i \in 1 .. Len(s) /\ p + i > p /\ x = s[p + i]
    BY <1>2, <1>3, <1>5, <2>1
  <2>3. t <= time[x] /\ time[x] \in Nat
    BY <1>2, <2>2
  <2> QED BY <1>2, <2>2, <2>3 DEF Range
<1>9. ASSUME NEW x \in Range(s), time[x] >= t PROVE x \in Range(r)
  <2>1. PICK i \in 1 .. Len(s) : x = s[i]
    BY <1>2 DEF Range
  <2>2. i > p
    BY <1>2, <1>9, <2>1
  <2>3. i - p \in 1 .. Len(s) - p /\ p + (i - p) = i
    BY <1>2, <2>2
  <2>4. r[i - p] = x
    BY <1>3, <2>1, <2>3
  <2> QED BY <1>4, <2>3, <2>4 DEF Range
<1>10. Range(r) = {x \in Range(s) : time[x] >= t}
  BY <1>8, <1>9
<1> QED BY <1>3, <1>6, <1>7, <1>10 DEF r, p

\* The lists of a merge, sorted and without a common entry.
Sorted(K, S, lists) ==
  /\ lists \in [K -> Seq(S)]
  /\ \A k \in K : InOrder(lists[k]) /\ IsInjective(lists[k])
  /\ \A j, k \in K : j # k => \A x \in Range(lists[j]) : x \notin Range(lists[k])

\* After n steps: what has been taken stands in order, before all that has not.
Merging(K, S, All, n, m) ==
  /\ m.result \in Seq(S) /\ Len(m.result) = n
  /\ Sorted(K, S, m.rest)
  /\ InOrder(m.result) /\ IsInjective(m.result)
  /\ \A k \in K : \A y \in Range(m.rest[k]) :
       y \notin Range(m.result) /\ \A x \in Range(m.result) : time[x] <= time[y]
  /\ \A x : x \in All <=> x \in Range(m.result) \/ \E k \in K : x \in Range(m.rest[k])

LEMMA MergeStepHolds ==
  ASSUME NEW K, K \subseteq Nat, NEW S, \A x \in S : time[x] \in Nat,
         NEW All, NEW n \in Nat, NEW m, Merging(K, S, All, n, m),
         NEW o \in K, m.rest[o] # <<>>
  PROVE  Merging(K, S, All, n + 1, MergeStep(m))
<1> DEFINE rest == m.rest
           result == m.result
           open == {k \in K : rest[k] # <<>>}
           heads == {time[Head(rest[k])] : k \in open}
           first == Min(heads)
           firsts == {k \in open : time[Head(rest[k])] = first}
           p == Min(firsts)
           x == Head(rest[p])
           rest2 == [rest EXCEPT ![p] = Tail(@)]
           result2 == Append(result, x)
<1>1. /\ rest \in [K -> Seq(S)] /\ DOMAIN rest = K
      /\ \A k \in K : InOrder(rest[k]) /\ IsInjective(rest[k]) /\ rest[k] \in Seq(S)
      /\ \A j, k \in K : j # k => \A y \in Range(rest[j]) : y \notin Range(rest[k])
  BY DEF Merging, Sorted
<1>2. /\ result \in Seq(S) /\ Len(result) = n
      /\ InOrder(result) /\ IsInjective(result)
      /\ \A k \in K : \A y \in Range(rest[k]) :
           y \notin Range(result) /\ \A z \in Range(result) : time[z] <= time[y]
      /\ \A z : z \in All <=> z \in Range(result) \/ \E k \in K : z \in Range(rest[k])
  BY DEF Merging
<1>3. MergeStep(m) = [rest |-> rest2, result |-> result2]
  BY <1>1 DEF MergeStep
<1>4. o \in open
  OBVIOUS
<1> HIDE DEF rest, result
<1>5. \A k \in open : Head(rest[k]) \in S /\ time[Head(rest[k])] \in Nat
  BY <1>1, HeadTailProperties
<1>6. p \in open /\ \A k \in open : time[x] <= time[Head(rest[k])]
  <2>1. heads \subseteq Nat /\ heads # {}
    BY <1>4, <1>5
  <2> HIDE DEF heads, open
  <2>2. first \in heads /\ \A t \in heads : first <= t
    BY <2>1, LeastIsMin
  <2> HIDE DEF first
  <2>3. firsts \subseteq Nat /\ firsts # {}
    <3>1. open \subseteq Nat
      BY DEF open
    <3>2. \E k \in open : time[Head(rest[k])] = first
      BY <2>2 DEF heads
    <3> QED BY <3>1, <3>2
  <2> HIDE DEF firsts
  <2>4. p \in firsts
    BY <2>3, LeastIsMin
  <2> HIDE DEF p
  <2>5. p \in open /\ time[x] = first
    BY <2>4 DEF firsts
  <2>6. \A k \in open : time[Head(rest[k])] \in heads
    BY DEF heads
  <2> QED BY <2>2, <2>5, <2>6
<1> HIDE DEF first, firsts, heads, p
<1>7. /\ p \in K /\ rest[p] \in Seq(S) /\ rest[p] # <<>> /\ x \in S
      /\ time[x] \in Nat
  BY <1>1, <1>5, <1>6
<1>8. /\ Tail(rest[p]) \in Seq(S) /\ InOrder(Tail(rest[p]))
  <2>1. /\ Tail(rest[p]) \in Seq(S) /\ Len(Tail(rest[p])) = Len(rest[p]) - 1
        /\ \A i \in 1 .. Len(Tail(rest[p])) : Tail(rest[p])[i] = rest[p][i + 1]
    BY <1>7, HeadTailProperties
  <2>2. /\ DOMAIN Tail(rest[p]) = 1 .. Len(rest[p]) - 1
        /\ DOMAIN rest[p] = 1 .. Len(rest[p]) /\ Len(rest[p]) \in Nat
    BY <1>7, <2>1
  <2>3. ASSUME NEW i \in 1 .. Len(rest[p]) - 1, NEW j \in 1 .. Len(rest[p]) - 1, i < j
        PROVE  time[Tail(rest[p])[i]] <= time[Tail(rest[p])[j]]
    <3>1. i + 1 \in 1 .. Len(rest[p]) /\ j + 1 \in 1 .. Len(rest[p]) /\ i + 1 < j + 1
      BY <2>2, <2>3
    <3>2. time[rest[p][i + 1]] <= time[rest[p][j + 1]]
      BY <1>1, <1>7, <2>2, <3>1 DEF InOrder
    <3> QED BY <2>1, <3>2
  <2> QED BY <2>1, <2>2, <2>3 DEF InOrder
<1>9. /\ IsInjective(Tail(rest[p])) /\ x \notin Range(Tail(rest[p]))
      /\ Range(rest[p]) = {x} \cup Range(Tail(rest[p]))
  BY <1>1, <1>7, InjectiveTail
<1> HIDE DEF x
<1>10. /\ rest2 \in [K -> Seq(S)] /\ rest2[p] = Tail(rest[p])
       /\ \A k \in K : k # p => rest2[k] = rest[k]
       /\ \A k \in K : Range(rest2[k]) \subseteq Range(rest[k])
  <2>1. /\ rest2 \in [K -> Seq(S)] /\ rest2[p] = Tail(rest[p])
        /\ \A k \in K : k # p => rest2[k] = rest[k]
    BY <1>1, <1>7, <1>8
  <2> QED BY <1>9, <2>1
<1> HIDE DEF rest2
\* The entry taken is the earliest of all.
<1>11. ASSUME NEW k \in K, NEW y \in Range(rest[k]) PROVE time[x] <= time[y]
  <2>1. PICK i \in DOMAIN rest[k] : y = rest[k][i]
    BY DEF Range
  <2>2. DOMAIN rest[k] = 1 .. Len(rest[k]) /\ Len(rest[k]) \in Nat
    BY <1>1
  <2>3. rest[k] # <<>> /\ k \in open /\ Head(rest[k]) = rest[k][1] /\ 1 \in DOMAIN rest[k]
    BY <1>1, <2>1, <2>2
  <2>4. time[Head(rest[k])] \in Nat /\ time[x] <= time[Head(rest[k])] /\ y \in S
    BY <1>1, <1>5, <1>6, <2>1, <2>3 DEF x
  <2>5. time[y] \in Nat
    BY <2>4
  <2>6. time[rest[k][1]] <= time[y]
    <3>1. CASE i = 1
      BY <2>1, <2>5, <3>1
    <3>2. CASE i # 1
      <4>1. 1 < i
        BY <2>1, <2>2, <3>2
      <4> QED BY <1>1, <2>1, <2>3, <4>1 DEF InOrder
    <3> QED BY <3>1, <3>2
  <2> QED BY <1>7, <2>3, <2>4, <2>5, <2>6
<1>12. Sorted(K, S, rest2)
  <2>1. \A k \in K : InOrder(rest2[k]) /\ IsInjective(rest2[k])
    BY <1>1, <1>8, <1>9, <1>10
  <2>2. \A j, k \in K : j # k => \A y \in Range(rest2[j]) : y \notin Range(rest2[k])
    BY <1>1, <1>10
  <2> QED BY <1>10, <2>1, <2>2 DEF Sorted
<1>13. x \in Range(rest[p]) /\ x \notin Range(result)
  BY <1>2, <1>7, <1>9
<1>14. /\ result2 \in Seq(S) /\ Len(result2) = n + 1
       /\ Range(result2) = Range(result) \cup {x}
       /\ IsInjective(result2)
  <2>1. Len(result2) = n + 1
    BY <1>2, <1>7, AppendProperties
  <2> QED BY <1>2, <1>7, <1>13, <2>1, AppendFacts, InjectiveAppend
<1>15. InOrder(result2)
  <2>1. /\ DOMAIN result = 1 .. n /\ DOMAIN result2 = 1 .. n + 1
        /\ \A i \in 1 .. n : result2[i] = result[i]
        /\ result2[n + 1] = x
    BY <1>2, <1>7, AppendFacts
  <2> SUFFICES ASSUME NEW i \in 1 .. n + 1, NEW j \in 1 .. n + 1, i < j
               PROVE  time[result2[i]] <= time[result2[j]]
    BY <2>1 DEF InOrder
  <2>2. i \in 1 .. n
    OBVIOUS
  <2>3. CASE j \in 1 .. n
    BY <1>2, <2>1, <2>2, <2>3 DEF InOrder
  <2>4. CASE j = n + 1
    <3>1. result[i] \in Range(result)
      BY <2>1, <2>2 DEF Range
    <3>2. time[result[i]] <= time[x]
      BY <1>2, <1>7, <1>13, <3>1
    <3> QED BY <2>1, <2>2, <2>4, <3>2
  <2>5. j \in 1 .. n \/ j = n + 1
    OBVIOUS
  <2> QED BY <2>3, <2>4, <2>5
<1> HIDE DEF result2
<1>16. ASSUME NEW k \in K, NEW y \in Range(rest2[k])
       PROVE  y \notin Range(result2) /\ \A z \in Range(result2) : time[z] <= time[y]
  <2>1. y \in Range(rest[k])
    BY <1>10
  <2>2. y # x
    BY <1>1, <1>7, <1>9, <1>10, <1>13, <1>16, <2>1
  <2> QED BY <1>2, <1>11, <1>14, <2>1, <2>2
<1>17. ASSUME NEW z
       PROVE  z \in All <=> z \in Range(result2) \/ \E k \in K : z \in Range(rest2[k])
  <2>1. (\E k \in K : z \in Range(rest[k])) <=> z = x \/ \E k \in K : z \in Range(rest2[k])
    <3>1. ASSUME NEW k \in K, z \in Range(rest[k])
          PROVE  z = x \/ \E j \in K : z \in Range(rest2[j])
      <4>1. CASE k = p
        BY <1>7, <1>9, <1>10, <3>1, <4>1
      <4>2. CASE k # p
        BY <1>10, <3>1, <4>2
      <4> QED BY <4>1, <4>2
    <3> QED BY <1>7, <1>10, <1>13, <3>1
  <2> QED BY <1>2, <1>14, <2>1
<1>18. MergeStep(m).rest = rest2 /\ MergeStep(m).result = result2
  BY <1>3
<1> QED BY <1>12, <1>14, <1>15, <1>16, <1>17, <1>18 DEF Merging

LEMMA InjectiveLength ==
  ASSUME NEW S, NEW s \in Seq(S), IsInjective(s)
  PROVE  Cardinality(Range(s)) = Len(s)
<1>1. Len(s) \in Nat /\ DOMAIN s = 1 .. Len(s) /\ s \in [1 .. Len(s) -> Range(s)]
  BY DEF Range
<1>2. s \in Bijection(1 .. Len(s), Range(s))
  BY <1>1 DEF Bijection, Injection, Surjection, IsInjective, Range
<1>3. IsFiniteSet(1 .. Len(s)) /\ Cardinality(1 .. Len(s)) = Len(s)
  <2>1. /\ IsFiniteSet(1 .. Len(s))
        /\ Cardinality(1 .. Len(s)) = IF 1 > Len(s) THEN 0 ELSE Len(s) - 1 + 1
    <3>1. 1 \in Int /\ Len(s) \in Int
      BY <1>1
    <3> QED BY <3>1, FS_Interval
  <2> QED BY <1>1, <2>1
<1>4. ExistsBijection(1 .. Len(s), Range(s))
  BY <1>2 DEF ExistsBijection
<1> QED BY <1>3, <1>4, FS_Bijection

\* As many entries as positions.
LEMMA PositionsCount ==
  ASSUME NEW K, NEW S, IsFiniteSet(S), NEW lists, Sorted(K, S, lists)
  PROVE  LET All == UNION {Range(lists[k]) : k \in K}
         IN  /\ IsFiniteSet(All) /\ Cardinality(All) \in Nat
             /\ Cardinality(Positions(lists)) = Cardinality(All)
<1> DEFINE All == UNION {Range(lists[k]) : k \in K}
           Pos == Positions(lists)
           f == [q \in Pos |-> lists[q[1]][q[2]]]
<1>1. /\ DOMAIN lists = K
      /\ \A k \in K : IsInjective(lists[k]) /\ lists[k] \in Seq(S)
      /\ \A j, k \in K : j # k => \A x \in Range(lists[j]) : x \notin Range(lists[k])
  BY DEF Sorted
<1>2. IsFiniteSet(All) /\ Cardinality(All) \in Nat
  <2>1. \A k \in K : Range(lists[k]) \subseteq S
    BY <1>1 DEF Range
  <2>2. All \subseteq S
    BY <2>1
  <2>3. IsFiniteSet(All)
    BY <2>2, FS_Subset
  <2> QED BY <2>3, FS_CardinalityType
<1>3. \A q : q \in Pos <=> \E k \in K : \E i \in DOMAIN lists[k] : q = <<k, i>>
  BY <1>1 DEF Positions
<1>4. \A k \in K : \A i \in DOMAIN lists[k] :
        <<k, i>> \in Pos /\ f[<<k, i>>] = lists[k][i] /\ lists[k][i] \in All
  <2> SUFFICES ASSUME NEW k \in K, NEW i \in DOMAIN lists[k]
               PROVE  /\ <<k, i>> \in Pos /\ f[<<k, i>>] = lists[k][i]
                      /\ lists[k][i] \in All
    OBVIOUS
  <2>1. <<k, i>> \in Pos
    BY <1>3
  <2>2. lists[k][i] \in Range(lists[k])
    BY DEF Range
  <2> QED BY <2>1, <2>2
<1>5. f \in [Pos -> All]
  <2>1. ASSUME NEW q \in Pos PROVE f[q] \in All
    <3>1. PICK k \in K : \E i \in DOMAIN lists[k] : q = <<k, i>>
      BY <1>3
    <3>2. PICK i \in DOMAIN lists[k] : q = <<k, i>>
      BY <3>1
    <3> HIDE DEF f, Pos
    <3>3. f[<<k, i>>] \in All
      BY <1>4
    <3> QED BY <3>2, <3>3
  <2> QED BY <2>1
<1>6. IsInjective(f)
  <2> SUFFICES ASSUME NEW a \in Pos, NEW b \in Pos, f[a] = f[b] PROVE a = b
    BY DEF IsInjective
  <2> HIDE DEF f, Pos
  <2>1. PICK j \in K : \E i \in DOMAIN lists[j] : a = <<j, i>>
    BY <1>3
  <2>2. PICK i \in DOMAIN lists[j] : a = <<j, i>>
    BY <2>1
  <2>3. PICK k \in K : \E n \in DOMAIN lists[k] : b = <<k, n>>
    BY <1>3
  <2>4. PICK n \in DOMAIN lists[k] : b = <<k, n>>
    BY <2>3
  <2>5. lists[j][i] = lists[k][n]
    BY <1>4, <2>2, <2>4
  <2>6. lists[j][i] \in Range(lists[j]) /\ lists[k][n] \in Range(lists[k])
    BY DEF Range
  <2>7. j = k
    BY <1>1, <2>5, <2>6
  <2>8. i = n
    BY <1>1, <2>5, <2>7 DEF IsInjective
  <2> QED BY <2>2, <2>4, <2>7, <2>8
<1>7. \A x \in All : \E q \in Pos : f[q] = x
  <2> TAKE x \in All
  <2>1. PICK k \in K : x \in Range(lists[k])
    OBVIOUS
  <2>2. PICK i \in DOMAIN lists[k] : x = lists[k][i]
    BY <2>1 DEF Range
  <2> QED BY <1>4, <2>2
<1> HIDE DEF f, Pos, All
<1>8. f \in Injection(Pos, All) /\ f \in Surjection(Pos, All)
  BY <1>5, <1>6, <1>7 DEF Injection, Surjection
<1>9. Cardinality(Pos) = Cardinality(All)
  BY <1>2, <1>8, FS_Injection
<1> QED BY <1>2, <1>9 DEF Pos, All

\* A merge of sorted lists has the entries of all, once, in order.
LEMMA MergeFacts ==
  ASSUME NEW K, K \subseteq Nat, NEW S, IsFiniteSet(S), \A x \in S : time[x] \in Nat,
         NEW lists, Sorted(K, S, lists)
  PROVE  /\ Range(MergeLists(lists)) = UNION {Range(lists[k]) : k \in K}
         /\ IsInjective(MergeLists(lists))
         /\ InOrder(MergeLists(lists))
<1> DEFINE All == UNION {Range(lists[k]) : k \in K}
           total == Cardinality(Positions(lists))
           W == [rest : [K -> Seq(S)], result : Seq(S)]
           base == [rest |-> lists, result |-> <<>>]
           M == [n \in 0 .. total |-> {w \in W : Merging(K, S, All, n, w)}]
           R(f) == f = [n \in 0 .. total |-> IF n = 0 THEN base ELSE MergeStep(f[n - 1])]
           g == CHOOSE f : R(f)
<1>0. MergeLists(lists) = g[total].result
  BY DEF MergeLists
<1>1. IsFiniteSet(All) /\ Cardinality(All) = total /\ total \in Nat
  BY PositionsCount
<1> HIDE DEF total
<1>2. base \in W /\ Merging(K, S, All, 0, base)
  <2>1. base.rest = lists /\ base.result = <<>> /\ base \in W
    BY DEF Sorted
  <2>2. Range(base.result) = {} /\ DOMAIN base.result = {}
    BY <2>1 DEF Range
  <2>3. Len(base.result) = 0 /\ base.result \in Seq(S)
    BY <2>1
  <2>4. InOrder(base.result) /\ IsInjective(base.result)
    BY <2>2 DEF InOrder, IsInjective
  <2>5. \A x : x \in All <=> \E k \in K : x \in Range(lists[k])
    OBVIOUS
  <2> HIDE DEF base, All
  <2> QED BY <2>1, <2>2, <2>3, <2>4, <2>5 DEF Merging
<1>3. ASSUME NEW n \in 1 .. total, NEW w \in W, Merging(K, S, All, n - 1, w)
      PROVE  MergeStep(w) \in W /\ Merging(K, S, All, n, MergeStep(w))
  <2> HIDE DEF All
  <2>1. n - 1 \in Nat /\ n - 1 + 1 = n /\ n - 1 < total
    BY <1>1
  <2>2. \E o \in K : w.rest[o] # <<>>
    <3> SUFFICES ASSUME \A o \in K : w.rest[o] = <<>> PROVE FALSE
      OBVIOUS
    <3>1. \A o \in K : Range(w.rest[o]) = {}
      BY DEF Range
    <3>2. All = Range(w.result)
      BY <1>3, <3>1 DEF Merging
    <3>3. Cardinality(Range(w.result)) = n - 1
      BY <1>3, InjectiveLength DEF Merging
    <3> QED BY <1>1, <2>1, <3>2, <3>3
  <2>3. PICK o \in K : w.rest[o] # <<>>
    BY <2>2
  <2>4. Merging(K, S, All, n - 1 + 1, MergeStep(w))
    BY <1>3, <2>1, <2>3, MergeStepHolds
  <2>5. Merging(K, S, All, n, MergeStep(w))
    BY <2>1, <2>4
  <2>6. MergeStep(w).rest \in [K -> Seq(S)] /\ MergeStep(w).result \in Seq(S)
    BY <2>5 DEF Merging, Sorted
  <2>7. MergeStep(w) = [rest |-> MergeStep(w).rest, result |-> MergeStep(w).result]
    BY DEF MergeStep
  <2>8. MergeStep(w) \in W
    BY <2>6, <2>7
  <2> QED BY <2>5, <2>8
<1> HIDE DEF All, W, base
<1>4. ASSUME NEW n \in 1 .. total, NEW w \in M[n - 1]
      PROVE  w \in W /\ MergeStep(w) \in M[n]
  <2>1. n - 1 \in 0 .. total /\ n \in 0 .. total
    BY <1>1
  <2>2. w \in W /\ Merging(K, S, All, n - 1, w)
    BY <2>1
  <2> QED BY <1>3, <2>1, <2>2
<1>5. base \in M[0]
  BY <1>1, <1>2
<1>6. \E f : R(f)
  <2> DEFINE G == [w \in W |-> MergeStep(w)]
  <2>1. \A n \in 1 .. total : \A w \in M[n - 1] : G[w] \in M[n]
    BY <1>4
  <2>2. \A n \in 0 .. total : M[n] \subseteq W
    OBVIOUS
  <2> HIDE DEF M, G
  <2>3. Leads(total, base, G, M)
    BY <1>5, <2>1 DEF Leads
  <2>4. PICK f : Repeats(f, total, base, G, M)
    BY <1>1, <2>3, IterationExists
  <2>5. /\ f = [n \in 0 .. total |-> f[n]] /\ f[0] = base
        /\ \A n \in 1 .. total : f[n] = G[f[n - 1]]
        /\ \A n \in 0 .. total : f[n] \in M[n]
    BY <2>4 DEF Repeats
  <2>6. \A n \in 0 .. total : f[n] = IF n = 0 THEN base ELSE MergeStep(f[n - 1])
    <3> TAKE n \in 0 .. total
    <3>1. CASE n # 0
      <4>1. n - 1 \in 0 .. total /\ n \in 1 .. total
        BY <1>1, <3>1
      <4>2. f[n - 1] \in W /\ f[n] = G[f[n - 1]]
        BY <2>2, <2>5, <4>1
      <4> QED BY <3>1, <4>2 DEF G
    <3> QED BY <2>5, <3>1
  <2> QED BY <2>5, <2>6, Zenon
<1> HIDE DEF R
<1>7. R(g)
  BY <1>6
<1> HIDE DEF g
<1>8. g[0] = base /\ \A n \in 1 .. total : g[n] = MergeStep(g[n - 1])
  BY <1>1, <1>7 DEF R
<1>9. \A n \in 1 .. total : g[n - 1] \in M[n - 1] => g[n] \in M[n]
  BY <1>4, <1>8
<1>10. g[total] \in M[total]
  <2> HIDE DEF M
  <2>1. g[0] \in M[0]
    BY <1>5, <1>8
  <2>2. \A n \in 0 .. total : g[n] \in M[n]
    BY <1>1, <1>9, <2>1, IterationHolds
  <2> QED BY <1>1, <2>2
<1> DEFINE result == g[total].result
<1>11. Merging(K, S, All, total, g[total])
  BY <1>1, <1>10
<1>12. /\ result \in Seq(S) /\ Len(result) = total /\ IsInjective(result)
       /\ InOrder(result) /\ Range(result) \subseteq All
  BY <1>11 DEF Merging
<1> HIDE DEF result
<1>13. Range(result) = All
  <2>1. Cardinality(Range(result)) = total
    BY <1>12, InjectiveLength
  <2> QED BY <1>1, <1>12, <2>1, FS_Subset
<1> QED BY <1>0, <1>12, <1>13 DEF result, All

\* The logs of an answer are sorted, and no row stands in two of them.
LEMMA IInvAnswer == IInv => AnswerExact
<1> SUFFICES ASSUME IInv, ~shuffled, NEW filter \in {"state", "scores"},
                    NEW from \in Times
             PROVE  LET answer == Answer(filter, from)
                        logged == UNION {Range(log[l]) : l \in Range(LogsOf(filter))}
                    IN  /\ Range(answer) = {x \in logged : time[x] >= from}
                        /\ IsInjective(answer) /\ InOrder(answer)
  BY DEF AnswerExact
<1> DEFINE names == LogsOf(filter)
           K == DOMAIN names
           lists == [k \in K |->
                       LET l == log[names[k]]
                       IN  SubSeq(l, FindOffsetForTimestamp(l, from) + 1, Len(l))]
           logged == UNION {Range(log[l]) : l \in Range(names)}
<1>1. /\ K \subseteq Nat
      /\ \A k \in K : names[k] \in Logs
      /\ \A j, k \in K : j # k => names[j] # names[k]
  <2>1. CASE filter = "state"
    <3>1. names = <<"flags", "statuses">>
      BY <2>1 DEF LogsOf
    <3> QED BY <2>1, <3>1 DEF Logs, Range
  <2>2. CASE filter = "scores"
    <3>1. names = <<"at", "se", "ac", "ad", "ta">>
      BY <2>2 DEF LogsOf
    <3> QED BY <2>2, <3>1 DEF Logs, Range
  <2> QED BY <2>1, <2>2
<1>2. Answer(filter, from) = MergeLists(lists)
  BY DEF Answer
<1> HIDE DEF names
<1>3. /\ visible \subseteq Rows /\ IsFiniteSet(visible)
      /\ from \in Nat /\ \A x \in visible : time[x] \in Nat
  BY HistoryLogAssumption, FS_Subset DEF IInv, TypeOK, Times
<1>4. \A l \in Logs : /\ log[l] \in Seq(visible)
                      /\ InOrder(log[l]) /\ IsInjective(log[l])
                      /\ \A x \in Range(log[l]) : LogOf[x] = l
  BY DEF IInv, TypeOK, OrderOK, LoggedOnce, LogOK
<1>5. ASSUME NEW k \in K
      PROVE  /\ lists[k] \in Seq(visible)
             /\ InOrder(lists[k]) /\ IsInjective(lists[k])
             /\ Range(lists[k]) = {x \in Range(log[names[k]]) : time[x] >= from}
  <2> DEFINE l == log[names[k]]
             r == SubSeq(l, FindOffsetForTimestamp(l, from) + 1, Len(l))
  <2>1. l \in Seq(visible) /\ InOrder(l) /\ IsInjective(l)
    BY <1>1, <1>4
  <2>2. lists[k] = r
    OBVIOUS
  <2> HIDE DEF l
  <2>3. \A i \in 1 .. Len(l) : time[l[i]] \in Nat
    BY <1>3, <2>1, ElementOfSeq
  <2>4. /\ r \in Seq(visible) /\ InOrder(r) /\ IsInjective(r)
        /\ Range(r) = {x \in Range(l) : time[x] >= from}
    BY <1>3, <2>1, <2>3, SuffixFacts
  <2> QED BY <2>2, <2>4 DEF l
<1>6. Sorted(K, visible, lists)
  <2>1. lists \in [K -> Seq(visible)]
    <3>1. \A k \in K : lists[k] \in Seq(visible)
      BY <1>5
    <3> QED BY <3>1
  <2> HIDE DEF lists
  <2>2. ASSUME NEW j \in K, NEW k \in K, j # k, NEW x \in Range(lists[j])
        PROVE  x \notin Range(lists[k])
    <3>1. \A i \in K : x \in Range(lists[i]) => LogOf[x] = names[i]
      <4> TAKE i \in K
      <4>1. x \in Range(lists[i]) => x \in Range(log[names[i]])
        BY <1>5
      <4>2. names[i] \in Logs
        BY <1>1
      <4> QED BY <1>4, <4>1, <4>2
    <3>2. LogOf[x] = names[j] /\ names[j] # names[k]
      BY <1>1, <2>2, <3>1
    <3> QED BY <3>1, <3>2
  <2> QED BY <1>5, <2>1, <2>2 DEF Sorted
<1> HIDE DEF lists
<1>7. /\ Range(MergeLists(lists)) = UNION {Range(lists[k]) : k \in K}
      /\ IsInjective(MergeLists(lists)) /\ InOrder(MergeLists(lists))
  BY <1>1, <1>3, <1>6, MergeFacts
<1>8. UNION {Range(lists[k]) : k \in K} = {x \in logged : time[x] >= from}
  <2>1. Range(names) = {names[k] : k \in K}
    BY DEF Range
  <2>2. ASSUME NEW x
        PROVE  x \in logged <=> \E k \in K : x \in Range(log[names[k]])
    BY <2>1
  <2> HIDE DEF logged
  <2>3. ASSUME NEW x
        PROVE  x \in UNION {Range(lists[k]) : k \in K}
                 <=> x \in logged /\ time[x] >= from
    <3>1. \A k \in K : x \in Range(lists[k])
                         <=> x \in Range(log[names[k]]) /\ time[x] >= from
      BY <1>5
    <3>2. x \in UNION {Range(lists[k]) : k \in K} <=> \E k \in K : x \in Range(lists[k])
      OBVIOUS
    <3> QED BY <2>2, <3>1, <3>2
  <2> QED BY <2>3
<1> QED BY <1>2, <1>7, <1>8 DEF names

(***************************************************************************)
(* The theorems.                                                           *)
(***************************************************************************)

\* The inductive invariant holds in every reachable state.
THEOREM Invariance == Spec => []IInv
<1>1. IInv /\ [Next]_vars => IInv'
  <2> SUFFICES ASSUME IInv, [Next]_vars PROVE IInv'
    OBVIOUS
  <2>1. CASE Updater
    BY <2>1, ExecuteQueryStep, InsertStep, EndQueryStep DEF Updater
  <2>2. CASE QueryFails \/ Restart \/ Tick
    BY <2>2, QueryFailsStep, RestartStep, TickStep
  <2>3. CASE \E x \in Rows : Begin(x) \/ End(x)
    BY <2>3, BeginStep, EndStep
  <2>4. CASE UNCHANGED vars
    <3>1. UNCHANGED <<now, time, visible, updater, history>>
      BY <2>4 DEF vars, database
    <3>2. \A q : Horizon(q)' = Horizon(q)
      BY <3>1 DEF Horizon, updater
    <3>3. \A k : Read(k)' = Read(k)
      BY <3>1, <3>2 DEF Read, updater, history
    <3>4. (TypeOK /\ BegunOK /\ LogOK /\ BatchOK /\ LoggedOnce /\ LastOK)'
      BY <3>1
         DEF IInv, updater, history, TypeOK, BegunOK, LogOK, BatchOK, LoggedOnce,
             LastOK, Seen, Of, Shown, Logged
    <3>5. (OvertakenOK /\ CaughtUp /\ OrderOK /\ ReadOK)'
      BY <3>1, <3>2, <3>3
         DEF IInv, updater, history, OvertakenOK, CaughtUp, OrderOK, ReadOK,
             Seen, InOrder, PartsInOrder
    <3> QED BY <3>4, <3>5 DEF IInv
  <2> QED BY <2>1, <2>2, <2>3, <2>4 DEF Next
<1> QED BY InitIInv, <1>1, PTL DEF Spec

\* Every variable keeps its type.
THEOREM TypeCorrect == Spec => []TypeOK
<1>1. IInv => TypeOK
  BY DEF IInv
<1> QED BY <1>1, Invariance, PTL

\* No row is logged twice, in spite of failed queries, and a status only when
\* it changes.
THEOREM NothingTwice == Spec => []LoggedOnce
<1>1. IInv => LoggedOnce
  BY DEF IInv
<1> QED BY <1>1, Invariance, PTL

\* The log ends, for every team and service, with the status of a latest check
\* read, unless the rows came out of order.
THEOREM LastStatusShown == Spec => []StatusShown
<1>1. IInv => StatusShown
  <2> SUFFICES ASSUME IInv, ~shuffled, NEW k \in Keys, Read(k) # {}
               PROVE  \E i \in Of(k), x \in Read(k) :
                        /\ \A j \in Of(k) : j <= i
                        /\ \A y \in Read(k) : time[y] <= time[x]
                        /\ Shown(i) = StatusOf[x]
    BY DEF StatusShown
  <2>1. PICK x \in Read(k) : /\ \A y \in Read(k) : time[y] <= time[x]
                             /\ StatusOf[x] = lastStatuses[k]
    BY DEF IInv, ReadOK
  <2>2. StatusOf[x] # None
    BY HistoryLogAssumption DEF Read, Range, IInv, TypeOK
  <2>3. PICK i \in Of(k) : /\ \A j \in Of(k) : j <= i
                           /\ Shown(i) = lastStatuses[k]
    BY <2>1, <2>2 DEF IInv, LastOK
  <2> QED BY <2>1, <2>3
<1> QED BY <1>1, Invariance, PTL

\* An answer has every entry from the time that was asked for, once, in the
\* order of time, if the results came in that order.
THEOREM AnswersExact == Spec => []AnswerExact
BY Invariance, IInvAnswer, PTL

(***************************************************************************)
(* The selection of teams.                                                 *)
(***************************************************************************)

SelectionTypeOK ==
  /\ cookie \in Seq(Teams)
  /\ boxes \in [Tabs -> SUBSET Teams]
  /\ picked \subseteq Teams

SelectionIInv == SelectionTypeOK /\ LastClickCounts

\* The loop keeps every team but one, however often it stands in the cookie.
LEMMA DeleteFromCookieFacts ==
  ASSUME SelectionTypeOK, NEW team \in Teams
  PROVE  /\ DeleteFromCookie(team) \in Seq(Teams)
         /\ ToSet(DeleteFromCookie(team)) = ToSet(cookie) \ {team}
<1> DEFINE N == Len(cookie)
           Kept(n) == {s \in Seq(Teams) : ToSet(s) = {cookie[i] : i \in 1 .. n} \ {team}}
           Step(n, s) == IF cookie[n] # team THEN Append(s, cookie[n]) ELSE s
           R(f) == f = [n \in 0 .. N |-> IF n = 0 THEN <<>>
                                         ELSE IF cookie[n] # team
                                              THEN Append(f[n - 1], cookie[n])
                                         ELSE f[n - 1]]
           kept == CHOOSE f : R(f)
<1>1. N \in Nat /\ cookie \in Seq(Teams) /\ DOMAIN cookie = 1 .. N
  BY DEF SelectionTypeOK
<1>2. DeleteFromCookie(team) = kept[N]
  BY DEF DeleteFromCookie
<1> HIDE DEF N
<1>3. <<>> \in Kept(0)
  <2>1. ToSet(<<>>) = {}
    BY DEF ToSet
  <2> QED BY <2>1
<1>4. ASSUME NEW n \in 1 .. N, NEW s \in Kept(n - 1) PROVE Step(n, s) \in Kept(n)
  <2>1. cookie[n] \in Teams /\ n - 1 \in Nat /\ n \in Nat
    BY <1>1
  <2>2. {cookie[i] : i \in 1 .. n} = {cookie[i] : i \in 1 .. n - 1} \cup {cookie[n]}
    <3>1. \A i : i \in 1 .. n <=> i \in 1 .. n - 1 \/ i = n
      BY <2>1
    <3> QED BY <3>1
  <2>3. CASE cookie[n] # team
    <3>1. /\ Append(s, cookie[n]) \in Seq(Teams)
          /\ ToSet(Append(s, cookie[n])) = ToSet(s) \cup {cookie[n]}
      BY <2>1, AppendFacts DEF ToSet, Range
    <3> QED BY <2>2, <2>3, <3>1
  <2>4. CASE cookie[n] = team
    BY <2>2, <2>4
  <2> QED BY <2>3, <2>4
<1> HIDE DEF Kept, Step
<1> DEFINE M == [n \in 0 .. N |-> {n} \X Kept(n)]
           W == (0 .. N) \X UNION {Kept(n) : n \in 0 .. N}
           G == [w \in W |-> <<w[1] + 1, Step(w[1] + 1, w[2])>>]
<1>5. \E f : R(f)
  <2>1. Leads(N, <<0, <<>>>>, G, M)
    <3>1. <<0, <<>>>> \in M[0]
      BY <1>1, <1>3
    <3>2. ASSUME NEW n \in 1 .. N, NEW w \in M[n - 1] PROVE G[w] \in M[n]
      <4>1. n - 1 \in 0 .. N /\ n \in 0 .. N /\ n - 1 + 1 = n
        BY <1>1
      <4>2. PICK s \in Kept(n - 1) : w = <<n - 1, s>>
        BY <4>1
      <4>3. w \in W /\ w[1] = n - 1 /\ w[2] = s
        BY <4>1, <4>2
      <4>4. G[w] = <<n, Step(n, s)>>
        BY <4>1, <4>3
      <4> QED BY <1>4, <4>1, <4>4
    <3> HIDE DEF M, G
    <3> QED BY <3>1, <3>2 DEF Leads
  <2>2. \A n \in 0 .. N : M[n] = {n} \X Kept(n)
    OBVIOUS
  <2> HIDE DEF M, G
  <2>3. PICK h : Repeats(h, N, <<0, <<>>>>, G, M)
    BY <1>1, <2>1, IterationExists
  <2>4. /\ h[0] = <<0, <<>>>>
        /\ \A n \in 1 .. N : h[n] = G[h[n - 1]]
        /\ \A n \in 0 .. N : h[n] \in {n} \X Kept(n)
    BY <2>2, <2>3 DEF Repeats
  <2> DEFINE f == [n \in 0 .. N |-> h[n][2]]
  <2>5. \A n \in 0 .. N : h[n] \in W /\ h[n][1] = n
    BY <2>4
  <2>6. ASSUME NEW n \in 0 .. N, n # 0 PROVE f[n] = Step(n, f[n - 1])
    <3>1. n \in 1 .. N /\ n - 1 \in 0 .. N /\ n - 1 + 1 = n
      BY <1>1, <2>6
    <3>2. h[n] = G[h[n - 1]] /\ h[n - 1] \in W /\ h[n - 1][1] = n - 1
      BY <2>4, <2>5, <3>1
    <3> HIDE DEF W
    <3>3. h[n][2] = Step(n, h[n - 1][2])
      BY <3>1, <3>2 DEF G
    <3> QED BY <3>1, <3>3
  <2>7. f[0] = <<>> /\ 0 \in 0 .. N
    BY <1>1, <2>4
  <2>8. f = [n \in 0 .. N |-> f[n]]
    OBVIOUS
  <2> HIDE DEF f
  <2>9. \A n \in 0 .. N :
          f[n] = IF n = 0 THEN <<>>
                 ELSE IF cookie[n] # team THEN Append(f[n - 1], cookie[n])
                 ELSE f[n - 1]
    BY <2>6, <2>7 DEF Step
  <2> QED BY <2>8, <2>9, Zenon
<1> HIDE DEF R
<1>6. R(kept)
  BY <1>5
<1> HIDE DEF kept
<1>7. kept[0] = <<>> /\ \A n \in 1 .. N : kept[n] = Step(n, kept[n - 1])
  <2>1. kept = [n \in 0 .. N |-> IF n = 0 THEN <<>>
                                 ELSE IF cookie[n] # team
                                      THEN Append(kept[n - 1], cookie[n])
                                 ELSE kept[n - 1]]
    BY <1>6 DEF R
  <2>2. \A n \in 0 .. N : kept[n] = IF n = 0 THEN <<>>
                                   ELSE IF cookie[n] # team
                                        THEN Append(kept[n - 1], cookie[n])
                                   ELSE kept[n - 1]
    BY <2>1, Zenon
  <2> QED BY <1>1, <2>2 DEF Step
<1>8. \A n \in 0 .. N : kept[n] \in Kept(n)
  <2> DEFINE K == [n \in 0 .. N |-> Kept(n)]
  <2>1. \A n \in 0 .. N : K[n] = Kept(n)
    OBVIOUS
  <2>2. \A n \in 1 .. N : n - 1 \in 0 .. N /\ n \in 0 .. N
    BY <1>1
  <2>3. kept[0] \in K[0]
    BY <1>1, <1>3, <1>7
  <2>4. ASSUME NEW n \in 1 .. N, kept[n - 1] \in K[n - 1] PROVE kept[n] \in K[n]
    BY <1>4, <1>7, <2>1, <2>2, <2>4
  <2> HIDE DEF K
  <2>5. \A n \in 0 .. N : kept[n] \in K[n]
    BY <1>1, <2>3, <2>4, IterationHolds
  <2> QED BY <2>1, <2>5
<1>9. kept[N] \in Seq(Teams) /\ ToSet(kept[N]) = {cookie[i] : i \in 1 .. N} \ {team}
  BY <1>1, <1>8 DEF Kept
<1> QED BY <1>1, <1>2, <1>9 DEF ToSet

\* What the cookie holds is what the last click on each team said.
THEOREM SelectionInvariance == SelectionSpec => []SelectionIInv
<1>1. SelectionInit => SelectionIInv
  <2> SUFFICES ASSUME SelectionInit PROVE SelectionIInv
    OBVIOUS
  <2>1. ToSet(<<>>) = {}
    BY DEF ToSet
  <2> QED BY <2>1 DEF SelectionInit, SelectionIInv, SelectionTypeOK, LastClickCounts
<1>2. SelectionIInv /\ [SelectionNext]_selectionVars => SelectionIInv'
  <2> SUFFICES ASSUME SelectionIInv, [SelectionNext]_selectionVars
               PROVE  SelectionIInv'
    OBVIOUS
  <2> USE DEF SelectionIInv, SelectionTypeOK, LastClickCounts
  <2>1. ASSUME NEW tab \in Tabs, NEW team \in Teams, Select(tab, team)
        PROVE  SelectionIInv'
    <3>1. /\ Append(cookie, team) \in Seq(Teams)
          /\ ToSet(Append(cookie, team)) = ToSet(cookie) \cup {team}
      BY AppendFacts DEF ToSet, Range
    <3> QED BY <2>1, <3>1 DEF Select, SaveToCookie
  <2>2. ASSUME NEW tab \in Tabs, NEW team \in Teams, Deselect(tab, team)
        PROVE  SelectionIInv'
    BY <2>2, DeleteFromCookieFacts DEF Deselect
  <2>3. ASSUME NEW tab \in Tabs, RestoreState(tab) PROVE SelectionIInv'
    <3>1. ToSet(cookie) \in SUBSET Teams
      BY DEF ToSet
    <3> QED BY <2>3, <3>1 DEF RestoreState
  <2>4. CASE BrowserRestarts
    <3>1. ToSet(<<>>) = {}
      BY DEF ToSet
    <3> QED BY <2>4, <3>1 DEF BrowserRestarts
  <2>5. CASE UNCHANGED selectionVars
    BY <2>5 DEF selectionVars
  <2> QED BY <2>1, <2>2, <2>3, <2>4, <2>5 DEF SelectionNext
<1> QED BY <1>1, <1>2, PTL DEF SelectionSpec

\* The next tab to load shows what the last click on each team said.
THEOREM SelectionFollowsClicks == SelectionSpec => []LastClickCounts
<1>1. SelectionIInv => LastClickCounts
  BY DEF SelectionIInv
<1> QED BY <1>1, SelectionInvariance, PTL

=============================================================================
