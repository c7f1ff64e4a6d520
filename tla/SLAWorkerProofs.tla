--------------------------- MODULE SLAWorkerProofs ---------------------------
(***************************************************************************)
(* Proofs about the counts of access checks, for any teams, checks and     *)
(* times.  No check is counted twice because the totals in memory and in   *)
(* every row are of checks not later than their own time, that time is     *)
(* never beyond the watermark, and a query returns only what is beyond it. *)
(* The second half is the converse: none is left out.                      *)
(***************************************************************************)
EXTENDS SLAWorker, FiniteSetTheorems, WellFoundedInduction, TLAPS

\* A bounded set of numbers that is not empty has a greatest one: the
\* distances to the bound have a least one.
LEMMA BoundedMax ==
  ASSUME NEW b \in Nat, NEW S, S \subseteq 0 .. b, S # {}
  PROVE  Max(S) \in S /\ \A y \in S : y <= Max(S)
<1> DEFINE T == {n \in Nat : \E s \in S : n = b - s}
<1>1. T \subseteq Nat /\ T # {}
  <2>1. PICK s \in S : TRUE
    OBVIOUS
  <2>2. b - s \in T
    BY <2>1
  <2> QED
    BY <2>2
<1>2. \E x \in T : \A y \in T : ~(<<y, x>> \in OpToRel(<, Nat))
  <2> HIDE DEF T
  <2> QED
    BY <1>1, NatLessThanWellFounded, WFMin, Zenon
<1>3. PICK x \in T : \A y \in T : ~(<<y, x>> \in OpToRel(<, Nat))
  BY <1>2
<1>4. \A y \in T : x <= y
  <2> TAKE y \in T
  <2> HIDE DEF T
  <2>1. x \in Nat /\ y \in Nat
    BY <1>1, <1>3
  <2>2. y < x => <<y, x>> \in OpToRel(<, Nat)
    BY <2>1 DEF OpToRel
  <2>3. ~(y < x)
    BY <1>3, <2>2, Zenon
  <2> QED
    BY <2>1, <2>3
<1>5. PICK m \in S : x = b - m
  BY <1>3
<1>6. \A y \in S : m >= y
  <2> TAKE y \in S
  <2>1. b - y \in T
    OBVIOUS
  <2>2. x <= b - y
    BY <1>4, <2>1
  <2> QED
    BY <2>2, <1>5
<1> QED
  BY <1>6 DEF Max

\* A team's count is a number, and grows with the set.
LEMMA CountMonotone ==
  ASSUME NEW t, NEW B, B \subseteq Checks, NEW A, A \subseteq B
  PROVE  Count(t, A) \in Nat /\ Count(t, B) \in Nat /\ Count(t, A) <= Count(t, B)
<1> DEFINE Of(C) == {c \in C : TeamOf[c] = t}
<1>1. Of(A) \subseteq Of(B) /\ Of(B) \subseteq Checks
  OBVIOUS
<1>2. IsFiniteSet(Of(B))
  BY <1>1, FS_Subset, SLAWorkerAssumption
<1>3. IsFiniteSet(Of(A)) /\ Cardinality(Of(A)) <= Cardinality(Of(B))
  BY <1>1, <1>2, FS_Subset
<1> QED
  BY <1>2, <1>3, FS_CardinalityType DEF Count

\* The counts of two sets of checks with nothing in common add up.
LEMMA CountDisjoint ==
  ASSUME NEW t, NEW A, NEW B, A \subseteq Checks, B \subseteq Checks,
         A \cap B = {}
  PROVE  Count(t, A \cup B) = Count(t, A) + Count(t, B)
<1> DEFINE OfA == {c \in A : TeamOf[c] = t}
           OfB == {c \in B : TeamOf[c] = t}
           OfBoth == {c \in A \cup B : TeamOf[c] = t}
<1>1. OfA \cap OfB = {} /\ OfBoth = OfA \cup OfB
  OBVIOUS
<1>2. IsFiniteSet(OfA) /\ IsFiniteSet(OfB)
  BY FS_Subset, SLAWorkerAssumption
<1>3. Cardinality(OfA \cap OfB) = 0
  BY <1>1, FS_EmptySet
<1>4. Cardinality(OfA \cup OfB)
        = Cardinality(OfA) + Cardinality(OfB) - Cardinality(OfA \cap OfB)
  BY <1>2, FS_Union
<1>5. Cardinality(OfA) \in Nat /\ Cardinality(OfB) \in Nat
  BY <1>2, FS_CardinalityType
<1>6. Cardinality(OfBoth) = Cardinality(OfA) + Cardinality(OfB)
  <2> HIDE DEF OfA, OfB, OfBoth
  <2> QED
    BY <1>1, <1>3, <1>4, <1>5
<1> QED
  BY <1>6 DEF Count

LEMMA InitInv == Init => IInv
<1> SUFFICES ASSUME Init PROVE IInv
  OBVIOUS
<1> USE SLAWorkerAssumption
<1>1. TypeOK
  <2>1. ChecksOK
    BY DEF Init, ChecksOK, Times
  <2>2. state \in [Teams -> Total] /\ last \in Times
    <3>1. Nothing \in Total
      BY DEF Nothing, Total, Times
    <3> QED
      BY <3>1 DEF Init, Times
  <2>3. pc \in {"start", "query", "insert", "down"} /\ list \subseteq Teams
    BY DEF Init
  <2>4. failed \in BOOLEAN /\ table \subseteq Row /\ txn \subseteq Row
    BY DEF Init
  <2> QED
    BY <2>1, <2>2, <2>3, <2>4 DEF TypeOK
<1>2. RowsHonest /\ StateHonest
  BY DEF Init, RowsHonest, StateHonest
<1> QED
  BY <1>1, <1>2 DEF IInv, Init

\* Honest totals stay honest as long as the visible checks keep their time.
LEMMA StaysHonest ==
  ASSUME ChecksOK, ChecksOK', visible \subseteq visible',
         \A c \in visible : time'[c] = time[c],
         NEW t, NEW r, r.successed \in Nat, r.failed \in Nat, r.time \in Times,
         Honest(t, r)
  PROVE  Honest(t, r)'
<1> DEFINE U == Until(r.time)
           V == Until(r.time)'
<1>1. U \subseteq V /\ V \subseteq Checks
  BY DEF Until, ChecksOK
<1>2. /\ U \cap Ok \subseteq V \cap Ok /\ V \cap Ok \subseteq Checks
      /\ U \ Ok \subseteq V \ Ok /\ V \ Ok \subseteq Checks
  BY <1>1
<1> HIDE DEF U, V
<1>3. /\ Count(t, U \cap Ok) <= Count(t, V \cap Ok)
      /\ Count(t, U \cap Ok) \in Nat /\ Count(t, V \cap Ok) \in Nat
  BY <1>2, CountMonotone
<1>4. /\ Count(t, U \ Ok) <= Count(t, V \ Ok)
      /\ Count(t, U \ Ok) \in Nat /\ Count(t, V \ Ok) \in Nat
  BY <1>2, CountMonotone
<1>5. r.successed <= Count(t, U \cap Ok) /\ r.failed <= Count(t, U \ Ok)
  BY DEF Honest, U
<1>6. r.successed <= Count(t, V \cap Ok) /\ r.failed <= Count(t, V \ Ok)
  BY <1>3, <1>4, <1>5
<1> QED
  BY <1>6 DEF Honest, V, Count

\* A step of the thread that leaves the checks alone.
LEMMA ChecksKeep ==
  ASSUME IInv, UNCHANGED checks
  PROVE  /\ ChecksOK' /\ (\A c \in visible : time[c] # 0)'
         /\ visible' = visible /\ time' = time
BY DEF IInv, TypeOK, ChecksOK, checks, Times

\* The row that was read for a team is one of its rows.
LEMMA LastRowIs ==
  ASSUME TypeOK, NEW t \in Teams, Rows(t) # {}
  PROVE  /\ LastRow(t) \in table /\ LastRow(t).team = t
         /\ \A q \in Rows(t) : q.time <= LastRow(t).time
<1> DEFINE S == {r.time : r \in Rows(t)}
<1>1. S # {} /\ S \subseteq 0 .. MaxTime
  BY DEF TypeOK, Rows, Row, Times
<1>2. Max(S) \in S /\ \A y \in S : y <= Max(S)
  <2> HIDE DEF S
  <2> QED
    BY <1>1, BoundedMax, SLAWorkerAssumption
<1>3. \E r \in Rows(t) : \A q \in Rows(t) : q.time <= r.time
  BY <1>2
<1> QED
  BY <1>3 DEF LastRow, Rows

LEMMA StartInv == ASSUME IInv, GetStateFromDb PROVE IInv'
<1> USE SLAWorkerAssumption
<1> DEFINE Known == {u \in Teams : Rows(u) # {}}
           S == {LastRow(t).time : t \in Known} \cup {0}
<1>0. TypeOK /\ RowsHonest
  BY DEF IInv
<1>1. /\ UNCHANGED checks /\ table' = table /\ txn' = txn /\ list' = list
      /\ failed' = failed /\ pc' = "query" /\ last' = Max(S)
      /\ state' = [t \in Teams |-> IF Rows(t) = {} THEN Nothing
                                   ELSE Totals(LastRow(t))]
  BY DEF GetStateFromDb, GetLastKnownTime
<1>2. /\ ChecksOK' /\ (\A c \in visible : time[c] # 0)'
      /\ visible' = visible /\ time' = time
  BY <1>1, ChecksKeep
<1>3. \A t \in Known : LastRow(t) \in Row /\ Honest(t, LastRow(t))
  BY <1>0, LastRowIs DEF TypeOK, RowsHonest
<1>4. last' \in Times /\ \A y \in S : y <= last'
  <2>1. S # {} /\ S \subseteq 0 .. MaxTime
    BY <1>3 DEF Row, Times
  <2>2. Max(S) \in S /\ \A y \in S : y <= Max(S)
    <3> HIDE DEF S
    <3> QED
      BY <2>1, BoundedMax
  <2> QED
    BY <1>1, <2>1, <2>2 DEF Times
<1>5. ASSUME NEW t \in Teams
      PROVE  state'[t] \in Total /\ Honest(t, state'[t]) /\ state'[t].time <= last'
  <2>1. CASE Rows(t) = {}
    <3>1. state'[t] = Nothing
      BY <1>1, <2>1
    <3>2. Honest(t, Nothing)
      <4>1. Until(0) \subseteq Checks
        BY <1>0 DEF Until, TypeOK, ChecksOK
      <4>2. Count(t, Until(0) \cap Ok) \in Nat /\ Count(t, Until(0) \ Ok) \in Nat
        BY <4>1, CountMonotone
      <4> QED
        BY <4>2 DEF Honest, Nothing
    <3>3. 0 <= last'
      BY <1>4
    <3> QED
      BY <3>1, <3>2, <3>3 DEF Nothing, Total, Times
  <2>2. CASE Rows(t) # {}
    <3>1. state'[t] = Totals(LastRow(t)) /\ t \in Known
      BY <1>1, <2>2
    <3>2. LastRow(t) \in Row /\ Honest(t, LastRow(t))
      BY <1>3, <3>1
    <3>3. LastRow(t).time <= last'
      BY <1>4, <3>1
    <3> QED
      BY <3>1, <3>2, <3>3 DEF Totals, Honest, Row, Total
  <2> QED
    BY <2>1, <2>2
<1>6. TypeOK'
  <2>1. state' \in [Teams -> Total]
    BY <1>1, <1>5
  <2>2. /\ (table \subseteq Row)' /\ (txn \subseteq Row)' /\ (list \subseteq Teams)'
        /\ (pc \in {"start", "query", "insert", "down"})'
    BY <1>0, <1>1 DEF TypeOK, Row
  <2>3. (failed \in BOOLEAN)'
    BY <1>0, <1>1 DEF TypeOK
  <2> QED
    BY <1>2, <1>4, <2>1, <2>2, <2>3 DEF TypeOK
<1>7. RowsHonest'
  BY <1>0, <1>1, <1>2 DEF RowsHonest, Honest, Until, Count
<1>8. StateHonest'
  BY <1>2, <1>5 DEF StateHonest, Honest, Until, Count
<1> QED
  BY <1>2, <1>6, <1>7, <1>8 DEF IInv

\* The totals of a team that was heard of: what they counted is not later
\* than the watermark, what is added is.
LEMMA AddedIs ==
  ASSUME IInv, pc = "query", NEW t \in Teams, NEW C,
         C = {c \in visible : time[c] > last},
         \E c \in C : TeamOf[c] = t
  PROVE  /\ Added(t, C) \in Total /\ Honest(t, Added(t, C))
         /\ Added(t, C).time = Latest(t, C)
         /\ \E c \in C : Latest(t, C) = time[c]
<1> USE SLAWorkerAssumption
<1>1. /\ state[t] \in Total /\ Honest(t, state[t]) /\ state[t].time <= last
      /\ last \in Times /\ time \in [Checks -> Times] /\ visible \subseteq Checks
      /\ C \subseteq Checks
  BY DEF IInv, TypeOK, ChecksOK, StateHonest
<1> DEFINE S == {time[c] : c \in {d \in C : TeamOf[d] = t}}
           l == Latest(t, C)
<1>2. l \in S /\ l \in Times /\ \A y \in S : y <= l
  <2>1. S # {} /\ S \subseteq 0 .. MaxTime
    BY <1>1 DEF Times
  <2>2. Max(S) \in S /\ \A y \in S : y <= Max(S)
    <3> HIDE DEF S
    <3> QED
      BY <2>1, BoundedMax
  <2> QED
    BY <2>1, <2>2 DEF Latest, Times
<1>3. PICK k \in C : TeamOf[k] = t /\ l = time[k]
  BY <1>2
<1> HIDE DEF l
<1>4. l > last
  BY <1>3
<1> DEFINE U == Until(state[t].time)
           V == Until(l)
           Mine == {c \in C : TeamOf[c] = t}
<1>5. \A c \in C : TeamOf[c] = t => time[c] <= l
  BY <1>2
<1>6. /\ U \cap C = {} /\ U \subseteq V /\ V \subseteq Checks /\ U \subseteq Checks
      /\ Mine \subseteq V
  <2>1. \A c \in U : time[c] \in Int /\ time[c] <= last
    BY <1>1 DEF Until, Total, Times
  <2>2. U \cap C = {}
    BY <2>1, <1>1 DEF Times
  <2>3. U \subseteq V
    BY <2>1, <1>1, <1>2, <1>4 DEF Until, Times
  <2>4. Mine \subseteq V
    BY <1>5 DEF Until
  <2> QED
    BY <1>1, <2>2, <2>3, <2>4 DEF Until
<1>7. Count(t, C \cap Ok) = Count(t, Mine \cap Ok) /\ Count(t, C \ Ok) = Count(t, Mine \ Ok)
  <2>1. {c \in C \cap Ok : TeamOf[c] = t} = {c \in Mine \cap Ok : TeamOf[c] = t}
    OBVIOUS
  <2>2. {c \in C \ Ok : TeamOf[c] = t} = {c \in Mine \ Ok : TeamOf[c] = t}
    OBVIOUS
  <2> QED
    BY <2>1, <2>2 DEF Count
<1>8. Mine \subseteq C
  OBVIOUS
<1> HIDE DEF U, V, Mine
<1>9. /\ Count(t, U \cap Ok) + Count(t, Mine \cap Ok) <= Count(t, V \cap Ok)
      /\ Count(t, Mine \cap Ok) \in Nat /\ Count(t, U \cap Ok) \in Nat
      /\ Count(t, V \cap Ok) \in Nat
  <2> DEFINE A == U \cap Ok
             B == Mine \cap Ok
             D == V \cap Ok
  <2>1. A \subseteq Checks /\ B \subseteq Checks /\ A \cap B = {}
        /\ A \cup B \subseteq D /\ D \subseteq Checks
    BY <1>6, <1>8, <1>1
  <2> HIDE DEF A, B, D
  <2>2. Count(t, A \cup B) = Count(t, A) + Count(t, B)
    BY <2>1, CountDisjoint
  <2>3. Count(t, A \cup B) <= Count(t, D) /\ Count(t, D) \in Nat
    BY <2>1, CountMonotone
  <2>4. Count(t, A) \in Nat /\ Count(t, B) \in Nat
    BY <2>1, CountMonotone
  <2> QED
    BY <2>2, <2>3, <2>4 DEF A, B, D
<1>10. /\ Count(t, U \ Ok) + Count(t, Mine \ Ok) <= Count(t, V \ Ok)
       /\ Count(t, Mine \ Ok) \in Nat /\ Count(t, U \ Ok) \in Nat
       /\ Count(t, V \ Ok) \in Nat
  <2> DEFINE A == U \ Ok
             B == Mine \ Ok
             D == V \ Ok
  <2>1. A \subseteq Checks /\ B \subseteq Checks /\ A \cap B = {}
        /\ A \cup B \subseteq D /\ D \subseteq Checks
    BY <1>6, <1>8, <1>1
  <2> HIDE DEF A, B, D
  <2>2. Count(t, A \cup B) = Count(t, A) + Count(t, B)
    BY <2>1, CountDisjoint
  <2>3. Count(t, A \cup B) <= Count(t, D) /\ Count(t, D) \in Nat
    BY <2>1, CountMonotone
  <2>4. Count(t, A) \in Nat /\ Count(t, B) \in Nat
    BY <2>1, CountMonotone
  <2> QED
    BY <2>2, <2>3, <2>4 DEF A, B, D
<1>11. /\ state[t].successed <= Count(t, U \cap Ok)
       /\ state[t].failed <= Count(t, U \ Ok)
  BY <1>1 DEF Honest, U
<1>12. Added(t, C) = [successed |-> state[t].successed + Count(t, C \cap Ok),
                      failed |-> state[t].failed + Count(t, C \ Ok), time |-> l]
  BY DEF Added, l
<1>13. state[t].successed \in Nat /\ state[t].failed \in Nat
  BY <1>1 DEF Total
<1>14. Added(t, C) \in Total
  <2>1. /\ state[t].successed + Count(t, C \cap Ok) \in Nat
        /\ state[t].failed + Count(t, C \ Ok) \in Nat
    BY <1>7, <1>9, <1>10, <1>13
  <2> QED
    BY <1>2, <1>12, <2>1 DEF Total
<1>15. Honest(t, Added(t, C))
  <2>1. /\ Added(t, C).successed <= Count(t, V \cap Ok)
        /\ Added(t, C).failed <= Count(t, V \ Ok)
        /\ Added(t, C).time = l
    BY <1>7, <1>9, <1>10, <1>11, <1>12, <1>13
  <2> QED
    BY <2>1 DEF Honest, V
<1>16. Added(t, C).time = l
  BY <1>12
<1> QED
  BY <1>3, <1>14, <1>15, <1>16 DEF l

LEMMA QueryInv == ASSUME IInv, GetLastAccessChecks PROVE IInv'
<1> USE SLAWorkerAssumption
<1> DEFINE new == {c \in visible : time[c] > last}
           heard == {TeamOf[c] : c \in new}
           S == {time[c] : c \in new} \cup {last}
<1>0. TypeOK /\ RowsHonest
  BY DEF IInv
<1>1. /\ UNCHANGED checks /\ table' = table /\ txn' = txn /\ list' = heard
      /\ failed' = failed /\ pc = "query" /\ pc' = "insert" /\ last' = Max(S)
      /\ state' = [t \in Teams |-> IF t \in heard THEN Added(t, new)
                                   ELSE state[t]]
  BY DEF GetLastAccessChecks, Seen
<1>2. /\ ChecksOK' /\ (\A c \in visible : time[c] # 0)'
      /\ visible' = visible /\ time' = time
  BY <1>1, ChecksKeep
<1>3. new \subseteq Checks /\ heard \subseteq Teams
  BY <1>0 DEF TypeOK, ChecksOK
<1>4. last' \in Times /\ \A y \in S : y <= last'
  <2>1. S # {} /\ S \subseteq 0 .. MaxTime
    BY <1>0, <1>3 DEF TypeOK, ChecksOK, Times
  <2>2. Max(S) \in S /\ \A y \in S : y <= Max(S)
    <3> HIDE DEF S
    <3> QED
      BY <2>1, BoundedMax
  <2> QED
    BY <1>1, <2>1, <2>2 DEF Times
<1>5. ASSUME NEW t \in Teams
      PROVE  state'[t] \in Total /\ Honest(t, state'[t]) /\ state'[t].time <= last'
  <2>1. CASE t \in heard
    <3>1. state'[t] = Added(t, new)
      BY <1>1, <2>1
    <3>2. \E c \in new : TeamOf[c] = t
      BY <2>1
    <3> HIDE DEF heard
    <3>3. /\ Added(t, new) \in Total /\ Honest(t, Added(t, new))
          /\ Added(t, new).time = Latest(t, new)
          /\ \E c \in new : Latest(t, new) = time[c]
      BY <3>2, <1>1, AddedIs
    <3>4. Added(t, new).time \in S
      BY <3>3
    <3> HIDE DEF S, new
    <3> QED
      BY <3>1, <3>3, <3>4, <1>4
  <2>2. CASE t \notin heard
    <3>1. state'[t] = state[t]
      BY <1>1, <2>2
    <3>2. state[t] \in Total /\ Honest(t, state[t]) /\ state[t].time <= last
      BY <1>0, <1>1 DEF IInv, StateHonest, TypeOK
    <3>3. last <= last'
      BY <1>4
    <3>4. state[t].time \in Int /\ last \in Int /\ last' \in Int
      BY <1>0, <1>4, <3>2 DEF Total, Times, TypeOK
    <3> QED
      BY <3>1, <3>2, <3>3, <3>4
  <2> QED
    BY <2>1, <2>2
<1> HIDE DEF new, heard, S
<1>6. TypeOK'
  <2>1. state' \in [Teams -> Total]
    BY <1>1, <1>5
  <2>2. /\ (table \subseteq Row)' /\ (txn \subseteq Row)' /\ (list \subseteq Teams)'
        /\ (pc \in {"start", "query", "insert", "down"})'
    BY <1>0, <1>1, <1>3 DEF TypeOK, Row
  <2>3. (failed \in BOOLEAN)'
    BY <1>0, <1>1 DEF TypeOK
  <2> QED
    BY <1>2, <1>4, <2>1, <2>2, <2>3 DEF TypeOK
<1>7. RowsHonest'
  BY <1>0, <1>1, <1>2 DEF RowsHonest, Honest, Until, Count
<1>8. StateHonest'
  BY <1>2, <1>5 DEF StateHonest, Honest, Until, Count
<1> QED
  BY <1>2, <1>6, <1>7, <1>8 DEF IInv

\* A step of the thread that leaves the totals alone: what it writes must
\* be rows that are honest.
LEMMA RowsStep ==
  ASSUME IInv, UNCHANGED checks, UNCHANGED <<state, last>>,
         table' \subseteq Row, txn' \subseteq Row,
         \A r \in table' \cup txn' : Honest(r.team, r),
         list' \subseteq Teams, pc' \in {"start", "query", "insert", "down"},
         pc \in {"start", "down"} => pc' \in {"start", "down"},
         failed' \in BOOLEAN
  PROVE  IInv'
<1>0. TypeOK
  BY DEF IInv
<1>1. /\ ChecksOK' /\ (\A c \in visible : time[c] # 0)'
      /\ visible' = visible /\ time' = time
  BY ChecksKeep
<1>2. state' = state /\ last' = last
  OBVIOUS
<1>3. TypeOK'
  <2>1. (state \in [Teams -> Total])' /\ (last \in Times)'
    BY <1>0, <1>2 DEF TypeOK
  <2> QED
    BY <1>1, <2>1 DEF TypeOK
<1>4. RowsHonest'
  BY <1>1 DEF RowsHonest, Honest, Until, Count
<1>5. StateHonest'
  <2>1. pc' \in {"query", "insert"} => pc \in {"query", "insert"}
    BY <1>0 DEF TypeOK
  <2> QED
    BY <1>1, <1>2, <2>1 DEF IInv, StateHonest, Honest, Until, Count
<1> QED
  BY <1>1, <1>3, <1>4, <1>5 DEF IInv

LEMMA InsertInv == ASSUME IInv, NEW t \in Teams, Insert(t) PROVE IInv'
<1>0. /\ TypeOK /\ RowsHonest /\ pc = "insert"
      /\ state[t] \in Total /\ Honest(t, state[t])
  BY DEF IInv, Insert, StateHonest, TypeOK
<1>1. NewRow(t) \in Row
  BY <1>0 DEF NewRow, Row, Total
<1>2. Honest(NewRow(t).team, NewRow(t))
  BY <1>0 DEF NewRow, Honest
<1>3. /\ UNCHANGED checks /\ UNCHANGED <<state, last>> /\ table' = table
      /\ txn' = txn \cup {NewRow(t)} /\ list' \subseteq list /\ pc' = pc
      /\ failed' = failed
  BY DEF Insert
<1>4. table' \subseteq Row /\ txn' \subseteq Row /\ list' \subseteq Teams
  BY <1>0, <1>1, <1>3 DEF TypeOK
<1>5. \A r \in table' \cup txn' : Honest(r.team, r)
  BY <1>0, <1>2, <1>3 DEF RowsHonest
<1>6. failed' \in BOOLEAN
  BY <1>0, <1>3 DEF TypeOK
<1>7. pc' \in {"start", "query", "insert", "down"}
      /\ (pc \in {"start", "down"} => pc' \in {"start", "down"})
  BY <1>0, <1>3
<1> QED
  BY <1>3, <1>4, <1>5, <1>6, <1>7, RowsStep

\* The end of a transaction, either way; the end and restart of the process.
LEMMA EndsInv ==
  ASSUME IInv, Commit \/ TransactionFails \/ Die \/ Restart
  PROVE  IInv'
<1>0. TypeOK /\ RowsHonest
  BY DEF IInv
<1>1. UNCHANGED checks /\ UNCHANGED <<state, last>>
  BY DEF Commit, TransactionFails, Die, Restart
<1>2. table' \subseteq table \cup txn /\ txn' \subseteq txn /\ list' \subseteq list
  BY DEF Commit, TransactionFails, Die, Restart, Committed
<1>3. table' \subseteq Row /\ txn' \subseteq Row /\ list' \subseteq Teams
  BY <1>0, <1>2 DEF TypeOK
<1>4. \A r \in table' \cup txn' : Honest(r.team, r)
  BY <1>0, <1>2 DEF RowsHonest
<1>5. failed' \in BOOLEAN
  BY <1>0 DEF TypeOK, Commit, TransactionFails, Die, Restart
<1>6. pc' \in {"start", "query", "insert", "down"}
      /\ (pc \in {"start", "down"} => pc' \in {"start", "down"})
  BY <1>0 DEF TypeOK, Commit, TransactionFails, Die, Restart
<1> QED
  BY <1>1, <1>3, <1>4, <1>5, <1>6, RowsStep

\* The task manager only adds checks: honest totals stay honest.
LEMMA DatabaseInv ==
  ASSUME IInv, Tick \/ \E c \in Checks : Begin(c) \/ End(c)
  PROVE  IInv'
<1> USE SLAWorkerAssumption
<1>0. TypeOK /\ RowsHonest /\ ChecksOK
  BY DEF IInv, TypeOK
<1>1. /\ table' = table /\ txn' = txn /\ pc' = pc /\ state' = state
      /\ last' = last /\ list' = list /\ failed' = failed
  BY DEF Tick, Begin, End
<1> DEFINE OnlyAdds == /\ ChecksOK' /\ visible \subseteq visible'
                       /\ \A c \in visible : time'[c] = time[c]
                       /\ \A c \in visible' : time'[c] # 0
<1>2. OnlyAdds
  <2>1. CASE Tick
    BY <1>0, <2>1 DEF Tick, ChecksOK, IInv
  <2>2. ASSUME NEW c \in Checks, Begin(c)
        PROVE  OnlyAdds
    BY <1>0, <2>2 DEF Begin, ChecksOK, Times, IInv
  <2>3. ASSUME NEW c \in Checks, End(c)
        PROVE  OnlyAdds
    BY <1>0, <2>3 DEF End, ChecksOK, IInv
  <2> QED
    BY <2>1, <2>2, <2>3
<1>3. TypeOK'
  <2>1. (failed \in BOOLEAN)'
    BY <1>0, <1>1 DEF TypeOK
  <2>2. (state \in [Teams -> Total])' /\ (last \in Times)' /\ (list \subseteq Teams)'
    BY <1>0, <1>1 DEF TypeOK
  <2>3. (table \subseteq Row)' /\ (txn \subseteq Row)'
        /\ (pc \in {"start", "query", "insert", "down"})'
    BY <1>0, <1>1 DEF TypeOK
  <2> QED
    BY <1>2, <2>1, <2>2, <2>3 DEF TypeOK
<1>4. ASSUME NEW t, NEW r, r.successed \in Nat, r.failed \in Nat, r.time \in Times,
             Honest(t, r)
      PROVE  Honest(t, r)'
  BY <1>0, <1>2, <1>4, StaysHonest
<1>5. RowsHonest'
  <2>1. \A r \in table \cup txn :
          r.successed \in Nat /\ r.failed \in Nat /\ r.time \in Times
    BY <1>0 DEF TypeOK, Row
  <2>2. \A r \in table : Honest(r.team, r)'
    BY <1>0, <1>4, <2>1 DEF RowsHonest
  <2>3. \A r \in txn : Honest(r.team, r)'
    BY <1>0, <1>4, <2>1 DEF RowsHonest
  <2> QED
    BY <1>1, <2>2, <2>3 DEF RowsHonest, Honest
<1>6. StateHonest'
  <2>1. \A t \in Teams : state[t].successed \in Nat /\ state[t].failed \in Nat
                         /\ state[t].time \in Times
    BY <1>0 DEF TypeOK, Total
  <2>2. SUFFICES ASSUME pc \in {"query", "insert"}, NEW t \in Teams
                 PROVE  Honest(t, state[t])' /\ state'[t].time <= last'
    BY <1>1 DEF StateHonest
  <2>3. Honest(t, state[t]) /\ state[t].time <= last
    BY <2>2 DEF IInv, StateHonest
  <2> QED
    BY <1>1, <1>2, <1>0, <2>1, <2>3, StaysHonest DEF Honest
<1> QED
  BY <1>2, <1>3, <1>5, <1>6 DEF IInv

LEMMA NextInv == ASSUME IInv, [Next]_vars PROVE IInv'
<1>1. CASE GetStateFromDb
  BY <1>1, StartInv
<1>2. CASE GetLastAccessChecks
  BY <1>2, QueryInv
<1>3. ASSUME NEW t \in Teams, Insert(t) PROVE IInv'
  BY <1>3, InsertInv
<1>4. CASE Commit \/ TransactionFails \/ Die \/ Restart
  BY <1>4, EndsInv
<1>5. CASE Tick \/ \E c \in Checks : Begin(c) \/ End(c)
  BY <1>5, DatabaseInv
<1>6. CASE UNCHANGED vars
  BY <1>6 DEF vars, checks, IInv, TypeOK, ChecksOK, RowsHonest, StateHonest,
              Honest, Until, Count
<1> QED
  BY <1>1, <1>2, <1>3, <1>4, <1>5, <1>6 DEF Next, Thread

\* No check is counted twice, for any teams, checks and times.
THEOREM Invariance == Spec => []IInv
<1>1. IInv /\ [Next]_vars => IInv'
  BY NextInv
<1> QED
  BY <1>1, InitInv, PTL DEF Spec

\* Type correctness.
THEOREM TypeCorrect == Spec => []TypeOK
<1>1. IInv => TypeOK
  BY DEF IInv
<1> QED
  BY <1>1, Invariance, PTL

\* No row of sla has more than there are checks (SLAworker 100-112, 154-161).
THEOREM NoDoubleCount == Spec => []NotInflated
<1>1. IInv => NotInflated
  <2> SUFFICES ASSUME IInv, NEW r \in table
               PROVE  /\ r.successed <= Count(r.team, visible \cap Ok)
                      /\ r.failed <= Count(r.team, visible \ Ok)
    BY DEF NotInflated
  <2>1. /\ r.successed \in Nat /\ r.failed \in Nat /\ Honest(r.team, r)
        /\ visible \subseteq Checks /\ Until(r.time) \subseteq visible
    BY DEF IInv, TypeOK, ChecksOK, Row, RowsHonest, Until
  <2> DEFINE U == Until(r.time)
  <2>2. /\ r.successed <= Count(r.team, U \cap Ok)
        /\ r.failed <= Count(r.team, U \ Ok)
    BY <2>1 DEF Honest
  <2> HIDE DEF U
  <2>3. /\ U \cap Ok \subseteq visible \cap Ok /\ visible \cap Ok \subseteq Checks
        /\ U \ Ok \subseteq visible \ Ok /\ visible \ Ok \subseteq Checks
    BY <2>1 DEF U
  <2>4. /\ Count(r.team, U \cap Ok) <= Count(r.team, visible \cap Ok)
        /\ Count(r.team, U \cap Ok) \in Nat /\ Count(r.team, visible \cap Ok) \in Nat
    BY <2>3, CountMonotone
  <2>5. /\ Count(r.team, U \ Ok) <= Count(r.team, visible \ Ok)
        /\ Count(r.team, U \ Ok) \in Nat /\ Count(r.team, visible \ Ok) \in Nat
    BY <2>3, CountMonotone
  <2> QED
    BY <2>1, <2>2, <2>4, <2>5
<1> QED
  BY <1>1, Invariance, PTL

(***************************************************************************)
(* No check is left out either, while no transaction has failed.  What is  *)
(* counted is complete up to the watermark in memory, and up to the time   *)
(* of every row in the table: for every team, and not only the row's, for  *)
(* a transaction writes all the teams that were heard of or none.  So the  *)
(* one watermark that a restart takes from the latest row is right for     *)
(* the teams whose rows are older.                                         *)
(***************************************************************************)

\* The checks up to a time that committed in the order of the times.
Due(when) == {c \in visible \ overtaken : time[c] <= when}

\* Totals that count at least those of a team.
Counts(t, r, when) ==
  /\ r.successed >= Count(t, Due(when) \cap Ok)
  /\ r.failed >= Count(t, Due(when) \ Ok)

\* Whatever a start of the thread would read for the team counts them.
Written(t, when) ==
  /\ Rows(t) = {} => Counts(t, Nothing, when)
  /\ \A r \in Rows(t) : (\A q \in Rows(t) : q.time <= r.time) => Counts(t, r, when)

\* Some visible check has reached the time: what commits in order is later.
Passed(when) == when = 0 \/ \E c \in visible : when <= time[c]

\* The transaction has or will have a row for the team.
Pending(t) == t \in list \/ NewRow(t) \in txn

TableComplete ==
  \A q \in table : Passed(q.time) /\ \A t \in Teams : Written(t, q.time)

MemoryComplete ==
  /\ Passed(last) /\ \A q \in table : q.time <= last
  /\ \A t \in Teams : Counts(t, state[t], last)

\* The rows of a pending team are older than what is to be written.
Unwritten(t) ==
  IF pc = "insert" /\ Pending(t) THEN \A q \in Rows(t) : q.time < state[t].time
  ELSE Written(t, last)

TxnComplete ==
  /\ pc # "insert" => txn = {}
  /\ \A r \in txn : r = NewRow(r.team)

Complete ==
  /\ TableComplete /\ TxnComplete
  /\ pc \in {"query", "insert"} => MemoryComplete /\ \A t \in Teams : Unwritten(t)

\* The invariant of a process none of whose transactions has failed.
CompleteInv == IInv /\ (~failed => Complete)

\* Counting up to a time is counting up to any earlier one.
LEMMA CountsEarlier ==
  ASSUME TypeOK, NEW v \in Times, NEW w \in Times, w <= v,
         NEW t, NEW r, r.successed \in Nat, r.failed \in Nat, Counts(t, r, v)
  PROVE  Counts(t, r, w)
<1> USE SLAWorkerAssumption
<1> DEFINE U == Due(w)
           V == Due(v)
<1>1. U \subseteq V /\ V \subseteq Checks
  BY DEF Due, TypeOK, ChecksOK, Times
<1>2. V = Due(v) /\ U = Due(w)
  OBVIOUS
<1> HIDE DEF U, V
<1>3. /\ Count(t, U \cap Ok) <= Count(t, V \cap Ok)
      /\ Count(t, U \cap Ok) \in Nat /\ Count(t, V \cap Ok) \in Nat
  <2>1. U \cap Ok \subseteq V \cap Ok /\ V \cap Ok \subseteq Checks
    BY <1>1
  <2> QED
    BY <2>1, CountMonotone
<1>4. /\ Count(t, U \ Ok) <= Count(t, V \ Ok)
      /\ Count(t, U \ Ok) \in Nat /\ Count(t, V \ Ok) \in Nat
  <2>1. U \ Ok \subseteq V \ Ok /\ V \ Ok \subseteq Checks
    BY <1>1
  <2> QED
    BY <2>1, CountMonotone
<1>5. r.successed >= Count(t, V \cap Ok) /\ r.failed >= Count(t, V \ Ok)
  BY <1>2 DEF Counts
<1>6. r.successed >= Count(t, U \cap Ok) /\ r.failed >= Count(t, U \ Ok)
  BY <1>3, <1>4, <1>5
<1> QED
  BY <1>2, <1>6 DEF Counts

LEMMA WrittenEarlier ==
  ASSUME TypeOK, NEW v \in Times, NEW w \in Times, w <= v,
         NEW t, Written(t, v)
  PROVE  Written(t, w)
<1>1. Nothing.successed \in Nat /\ Nothing.failed \in Nat
  BY DEF Nothing
<1>2. \A r \in Rows(t) : r.successed \in Nat /\ r.failed \in Nat
  BY DEF TypeOK, Rows, Row
<1>3. Rows(t) = {} => Counts(t, Nothing, w)
  BY <1>1, CountsEarlier DEF Written
<1>4. ASSUME NEW r \in Rows(t), \A q \in Rows(t) : q.time <= r.time
      PROVE  Counts(t, r, w)
  <2>1. Counts(t, r, v)
    BY <1>4 DEF Written
  <2> QED
    BY <1>2, <2>1, CountsEarlier
<1> QED
  BY <1>3, <1>4 DEF Written

\* Totals complete up to a time, with what a query finds beyond it added,
\* are complete up to any later time.
LEMMA CountsLater ==
  ASSUME TypeOK, NEW v \in Times, NEW w \in Times, NEW t,
         NEW r, r.successed \in Nat, r.failed \in Nat, Counts(t, r, v),
         NEW C, C = {c \in visible : time[c] > v},
         NEW s, s.successed = r.successed + Count(t, C \cap Ok),
         s.failed = r.failed + Count(t, C \ Ok)
  PROVE  Counts(t, s, w)
<1> USE SLAWorkerAssumption
<1> DEFINE U == Due(v)
           V == Due(w)
<1>1. /\ U \subseteq Checks /\ C \subseteq Checks /\ V \subseteq U \cup C
      /\ U \cap C = {}
  BY DEF Due, TypeOK, ChecksOK, Times
<1>2. V = Due(w) /\ U = Due(v)
  OBVIOUS
<1> HIDE DEF U, V
<1>3. ASSUME NEW A, NEW B, NEW D, A \subseteq Checks, B \subseteq Checks,
             A \cap B = {}, D \subseteq A \cup B
      PROVE  /\ Count(t, D) <= Count(t, A) + Count(t, B)
             /\ Count(t, D) \in Nat /\ Count(t, A) \in Nat /\ Count(t, B) \in Nat
  <2>1. A \cup B \subseteq Checks /\ A \subseteq A \cup B /\ B \subseteq A \cup B
    BY <1>3
  <2>2. Count(t, A \cup B) = Count(t, A) + Count(t, B)
    BY <1>3, CountDisjoint
  <2>3. Count(t, D) <= Count(t, A \cup B) /\ Count(t, D) \in Nat
    BY <1>3, <2>1, CountMonotone
  <2>4. Count(t, A) \in Nat /\ Count(t, B) \in Nat
    BY <2>1, CountMonotone
  <2> QED
    BY <2>2, <2>3, <2>4
<1>4. /\ Count(t, V \cap Ok) <= Count(t, U \cap Ok) + Count(t, C \cap Ok)
      /\ Count(t, V \cap Ok) \in Nat /\ Count(t, U \cap Ok) \in Nat
      /\ Count(t, C \cap Ok) \in Nat
  <2>1. /\ U \cap Ok \subseteq Checks /\ C \cap Ok \subseteq Checks
        /\ (U \cap Ok) \cap (C \cap Ok) = {}
        /\ V \cap Ok \subseteq (U \cap Ok) \cup (C \cap Ok)
    BY <1>1
  <2> QED
    BY <1>3, <2>1
<1>5. /\ Count(t, V \ Ok) <= Count(t, U \ Ok) + Count(t, C \ Ok)
      /\ Count(t, V \ Ok) \in Nat /\ Count(t, U \ Ok) \in Nat
      /\ Count(t, C \ Ok) \in Nat
  <2>1. /\ U \ Ok \subseteq Checks /\ C \ Ok \subseteq Checks
        /\ (U \ Ok) \cap (C \ Ok) = {}
        /\ V \ Ok \subseteq (U \ Ok) \cup (C \ Ok)
    BY <1>1
  <2> QED
    BY <1>3, <2>1
<1>6. r.successed >= Count(t, U \cap Ok) /\ r.failed >= Count(t, U \ Ok)
  BY <1>2 DEF Counts
<1>7. s.successed >= Count(t, V \cap Ok) /\ s.failed >= Count(t, V \ Ok)
  BY <1>4, <1>5, <1>6
<1> QED
  BY <1>2, <1>7 DEF Counts

\* A time that nobody is before has nothing due.
LEMMA NothingDue ==
  ASSUME IInv, NEW t, NEW r, r.successed \in Nat, r.failed \in Nat
  PROVE  Counts(t, r, 0)
<1>1. Due(0) = {}
  BY DEF IInv, TypeOK, ChecksOK, Due, Times
<1>2. Count(t, {}) = 0
  <2>1. {c \in {} : TeamOf[c] = t} = {}
    OBVIOUS
  <2> QED
    BY <2>1, FS_EmptySet DEF Count
<1>3. Due(0) \cap Ok = {} /\ Due(0) \ Ok = {}
  BY <1>1
<1> QED
  BY <1>2, <1>3 DEF Counts

\* What the task manager commits changes nothing that is due up to a time
\* that has passed: it is overtaken, or later.
LEMMA DueStays ==
  ASSUME IInv, Tick \/ \E c \in Checks : Begin(c) \/ End(c),
         NEW w \in Times, Passed(w)
  PROVE  Due(w)' = Due(w) /\ Passed(w)'
<1>0. /\ time \in [Checks -> Times] /\ visible \subseteq Checks
      /\ overtaken \subseteq visible /\ \A c \in visible : time[c] # 0
      /\ now \in Nat
  BY DEF IInv, TypeOK, ChecksOK, Times
<1>1. CASE Tick
  BY <1>1 DEF Tick, Due, Passed
<1>2. ASSUME NEW c \in Checks, Begin(c)
      PROVE  Due(w)' = Due(w) /\ Passed(w)'
  <2>1. visible' = visible /\ overtaken' = overtaken
        /\ \A d \in visible : time'[d] = time[d]
    BY <1>0, <1>2 DEF Begin
  <2> QED
    BY <2>1 DEF Due, Passed
<1>3. ASSUME NEW c \in Checks, End(c)
      PROVE  Due(w)' = Due(w) /\ Passed(w)'
  <2>1. time' = time /\ visible' = visible \cup {c} /\ c \notin visible
        /\ time[c] # 0 /\ time[c] \in Nat
        /\ overtaken' = IF \E d \in visible : time[c] <= time[d]
                        THEN overtaken \cup {c} ELSE overtaken
    BY <1>0, <1>3 DEF End, Times
  <2>2. CASE c \in overtaken'
    <3>1. visible' \ overtaken' = visible \ overtaken
      BY <1>0, <2>1, <2>2
    <3> QED
      BY <2>1, <3>1 DEF Due, Passed
  <2>3. CASE c \notin overtaken'
    <3>1. overtaken' = overtaken /\ \A d \in visible : ~(time[c] <= time[d])
      BY <2>1, <2>3
    <3>2. ~(time[c] <= w)
      BY <1>0, <2>1, <3>1 DEF Passed, Times
    <3> QED
      BY <2>1, <3>1, <3>2 DEF Due, Passed
  <2> QED
    BY <2>2, <2>3
<1> QED
  BY <1>1, <1>2, <1>3

LEMMA InitComplete == Init => CompleteInv
<1> SUFFICES ASSUME Init PROVE Complete
  BY InitInv DEF CompleteInv
<1> QED
  BY DEF Init, Complete, TableComplete, TxnComplete

\* What is not in the state of the checks or of the tables stays as it is.
LEMMA DatabaseComplete ==
  ASSUME IInv, Complete, Tick \/ \E c \in Checks : Begin(c) \/ End(c)
  PROVE  Complete'
<1>0. /\ \A q \in table : q.time \in Times
      /\ last \in Times
  BY DEF IInv, TypeOK, Row
<1>1. /\ table' = table /\ txn' = txn /\ pc' = pc /\ state' = state
      /\ last' = last /\ list' = list
  BY DEF Tick, Begin, End
<1>2. \A w \in Times : Passed(w) => Due(w)' = Due(w) /\ Passed(w)'
  BY DueStays
<1>3. ASSUME NEW w \in Times, Passed(w), NEW t
      PROVE  /\ Written(t, w) => Written(t, w)'
             /\ Counts(t, state[t], w) => Counts(t, state[t], w)'
  <2>1. Due(w)' = Due(w)
    BY <1>2, <1>3
  <2> QED
    BY <1>1, <2>1 DEF Written, Counts, Rows, Count, Nothing
<1>4. TableComplete'
  BY <1>0, <1>1, <1>2, <1>3 DEF Complete, TableComplete
<1>5. TxnComplete'
  BY <1>1 DEF Complete, TxnComplete, NewRow
<1>6. ASSUME pc \in {"query", "insert"}
      PROVE  MemoryComplete' /\ \A t \in Teams : Unwritten(t)'
  <2>1. Passed(last) /\ MemoryComplete /\ \A t \in Teams : Unwritten(t)
    BY <1>6 DEF Complete, MemoryComplete
  <2>2. Passed(last)' /\ \A t \in Teams : Counts(t, state[t], last)'
    BY <1>0, <1>1, <1>2, <1>3, <2>1 DEF MemoryComplete
  <2>3. MemoryComplete'
    BY <1>1, <2>1, <2>2 DEF MemoryComplete
  <2>4. ASSUME NEW t \in Teams PROVE Unwritten(t)'
    <3>1. PICK w \in Times : w = last /\ w = last'
      BY <1>0, <1>1
    <3>2. Due(w)' = Due(w)
      BY <1>2, <2>1, <3>1
    <3>3. Due(last)' = Due(last)
      BY <3>1, <3>2 DEF Due
    <3>4. Written(t, last) => Written(t, last)'
      BY <1>1, <3>3 DEF Written, Counts, Rows, Count, Nothing
    <3>5. Unwritten(t)
      BY <2>1
    <3> QED
      BY <1>1, <3>4, <3>5 DEF Unwritten, Pending, NewRow, Rows
  <2> QED
    BY <2>3, <2>4
<1> QED
  BY <1>1, <1>4, <1>5, <1>6 DEF Complete

\* A step of the thread that leaves the table alone.
LEMMA TableKeeps ==
  ASSUME UNCHANGED <<checks, table>>
  PROVE  /\ TableComplete => TableComplete'
         /\ \A t, w : Written(t, w) => Written(t, w)'
<1>1. \A w : Due(w)' = Due(w) /\ (Passed(w)' <=> Passed(w))
  BY DEF checks, Due, Passed
<1>2. \A t, r, w : Counts(t, r, w)' <=> Counts(t, r, w)
  BY <1>1 DEF Counts, Count
<1>3. \A t : Rows(t)' = Rows(t)
  BY DEF Rows
<1>4. Nothing' = Nothing
  BY DEF Nothing
<1>5. \A t, w : Written(t, w) => Written(t, w)'
  BY <1>2, <1>3, <1>4 DEF Written
<1>6. table' = table
  OBVIOUS
<1>7. TableComplete => TableComplete'
  BY <1>1, <1>5, <1>6 DEF TableComplete
<1> QED
  BY <1>5, <1>7

\* The watermark of a restart: one team's latest row is not too late for any.
LEMMA StartComplete == ASSUME IInv, Complete, GetStateFromDb PROVE Complete'
<1> USE SLAWorkerAssumption
<1> DEFINE Known == {u \in Teams : Rows(u) # {}}
           S == {LastRow(t).time : t \in Known} \cup {0}
<1>0. TypeOK /\ TableComplete /\ txn = {} /\ pc = "start"
  BY DEF IInv, Complete, TxnComplete, GetStateFromDb
<1>1. /\ UNCHANGED checks /\ table' = table /\ txn' = txn /\ pc' = "query"
      /\ last' = Max(S)
      /\ state' = [t \in Teams |-> IF Rows(t) = {} THEN Nothing
                                   ELSE Totals(LastRow(t))]
  BY DEF GetStateFromDb, GetLastKnownTime
<1>2. \A t \in Known : /\ LastRow(t) \in table /\ LastRow(t) \in Rows(t)
                       /\ \A q \in Rows(t) : q.time <= LastRow(t).time
  BY <1>0, LastRowIs DEF Rows
<1>3. PICK w \in S : w = last' /\ \A y \in S : y <= w
  <2>1. S # {} /\ S \subseteq 0 .. MaxTime
    BY <1>0, <1>2 DEF TypeOK, Row, Times
  <2>2. Max(S) \in S /\ \A y \in S : y <= Max(S)
    <3> HIDE DEF S
    <3> QED
      BY <2>1, BoundedMax
  <2> QED
    BY <1>1, <2>2
<1>4. w \in Times /\ Passed(w) /\ \A t \in Teams : Written(t, w)
  <2>1. CASE w = 0
    <3>1. \A t, r : r.successed \in Nat /\ r.failed \in Nat => Counts(t, r, 0)
      BY NothingDue
    <3>2. \A t \in Teams : Written(t, 0)
      BY <1>0, <3>1 DEF Written, Nothing, TypeOK, Row, Rows
    <3> QED
      BY <2>1, <3>2 DEF Passed, Times
  <2>2. CASE \E t \in Known : w = LastRow(t).time
    <3>1. PICK q \in table : w = q.time
      BY <1>2, <2>2
    <3> QED
      BY <1>0, <3>1 DEF TableComplete, TypeOK, Row
  <2> QED
    BY <2>1, <2>2
<1>5. \A q \in table : q.time <= w
  <2> TAKE q \in table
  <2>1. q.team \in Known /\ q \in Rows(q.team)
    BY <1>0 DEF TypeOK, Row, Rows
  <2>2. q.time <= LastRow(q.team).time /\ LastRow(q.team).time <= w
    BY <1>2, <1>3, <2>1
  <2>3. q.time \in Int /\ LastRow(q.team).time \in Int /\ w \in Int
    BY <1>0, <1>2, <1>4, <2>1 DEF TypeOK, Row, Times
  <2> QED
    BY <2>2, <2>3
<1>6. ASSUME NEW t \in Teams PROVE Counts(t, state'[t], w)
  <2>1. CASE Rows(t) = {}
    BY <1>1, <1>4, <2>1 DEF Written
  <2>2. CASE Rows(t) # {}
    <3>1. Counts(t, LastRow(t), w)
      BY <1>2, <1>4, <2>2 DEF Written
    <3>2. state'[t] = Totals(LastRow(t))
      BY <1>1, <2>2
    <3> QED
      BY <3>1, <3>2 DEF Counts, Totals
  <2> QED
    BY <2>1, <2>2
<1> HIDE DEF S, Known
<1>7. TableComplete' /\ \A t \in Teams : Written(t, w)'
  BY <1>0, <1>1, <1>4, TableKeeps
<1>8. TxnComplete'
  BY <1>0, <1>1 DEF TxnComplete
<1>9. MemoryComplete'
  <2>1. Passed(last)'
    BY <1>1, <1>3, <1>4 DEF Passed, checks
  <2>2. Due(last)' = Due(w)
    BY <1>1, <1>3 DEF Due, checks
  <2>3. \A t \in Teams : Counts(t, state[t], last)'
    BY <1>6, <2>2 DEF Counts, Count
  <2> QED
    BY <1>1, <1>3, <1>5, <2>1, <2>3 DEF MemoryComplete
<1>10. \A t \in Teams : Unwritten(t)'
  <2>1. Due(last)' = Due(w)'
    BY <1>3 DEF Due
  <2>2. \A t \in Teams : Written(t, last)'
    BY <1>7, <2>1 DEF Written, Counts
  <2> QED
    BY <1>1, <2>2 DEF Unwritten
<1> QED
  BY <1>7, <1>8, <1>9, <1>10 DEF Complete

\* What a query finds is all that is due and not counted yet.
LEMMA QueryComplete == ASSUME IInv, Complete, GetLastAccessChecks PROVE Complete'
<1> USE SLAWorkerAssumption
<1> DEFINE new == {c \in visible : time[c] > last}
           heard == {TeamOf[c] : c \in new}
           S == {time[c] : c \in new} \cup {last}
<1>0. /\ TypeOK /\ TableComplete /\ txn = {} /\ pc = "query" /\ MemoryComplete
      /\ \A t \in Teams : Written(t, last)
  BY DEF IInv, Complete, TxnComplete, GetLastAccessChecks, Unwritten
<1>1. /\ UNCHANGED checks /\ table' = table /\ txn' = txn /\ list' = heard
      /\ pc' = "insert" /\ last' = Max(S)
      /\ state' = [t \in Teams |-> IF t \in heard THEN Added(t, new)
                                   ELSE state[t]]
  BY DEF GetLastAccessChecks, Seen
<1>2. /\ last \in Times /\ time \in [Checks -> Times] /\ visible \subseteq Checks
      /\ new \subseteq Checks /\ state \in [Teams -> Total]
  BY <1>0 DEF TypeOK, ChecksOK
<1>3. PICK w \in S : w = last' /\ \A y \in S : y <= w
  <2>1. S # {} /\ S \subseteq 0 .. MaxTime
    BY <1>2 DEF Times
  <2>2. Max(S) \in S /\ \A y \in S : y <= Max(S)
    <3> HIDE DEF S
    <3> QED
      BY <2>1, BoundedMax
  <2> QED
    BY <1>1, <2>2
<1>4. w \in Times /\ last <= w /\ Passed(w)
  <2>1. w \in Times /\ last <= w
    BY <1>2, <1>3
  <2>2. w = last \/ \E c \in visible : w = time[c]
    BY <1>3
  <2> QED
    BY <1>0, <2>1, <2>2 DEF MemoryComplete, Passed, Times
<1>5. ASSUME NEW t \in Teams, t \notin heard
      PROVE  Count(t, new \cap Ok) = 0 /\ Count(t, new \ Ok) = 0
  <2>1. /\ {c \in new \cap Ok : TeamOf[c] = t} = {}
        /\ {c \in new \ Ok : TeamOf[c] = t} = {}
    BY <1>5
  <2> QED
    BY <2>1, FS_EmptySet DEF Count
<1>6. ASSUME NEW t \in Teams, NEW r, r.successed \in Nat, r.failed \in Nat,
             Counts(t, r, last)
      PROVE  /\ t \notin heard => Counts(t, r, w)
             /\ r = state[t] /\ t \in heard => Counts(t, Added(t, new), w)
  <2>1. ASSUME t \notin heard PROVE Counts(t, r, w)
    <3>1. /\ r.successed = r.successed + Count(t, new \cap Ok)
          /\ r.failed = r.failed + Count(t, new \ Ok)
      BY <1>5, <1>6, <2>1
    <3> HIDE DEF heard, S
    <3> QED
      BY <1>0, <1>2, <1>4, <1>6, <3>1, CountsLater
  <2>2. ASSUME r = state[t] PROVE Counts(t, Added(t, new), w)
    <3>1. /\ Added(t, new).successed = r.successed + Count(t, new \cap Ok)
          /\ Added(t, new).failed = r.failed + Count(t, new \ Ok)
      BY <2>2 DEF Added
    <3> HIDE DEF heard, S
    <3> QED
      BY <1>0, <1>2, <1>4, <1>6, <3>1, CountsLater
  <2> QED
    BY <2>1, <2>2
<1>7. \A t \in Teams : Counts(t, state'[t], w)
  <2> TAKE t \in Teams
  <2>1. /\ state[t].successed \in Nat /\ state[t].failed \in Nat
        /\ Counts(t, state[t], last)
    BY <1>0, <1>2 DEF Total, MemoryComplete
  <2>2. state'[t] = IF t \in heard THEN Added(t, new) ELSE state[t]
    BY <1>1
  <2> HIDE DEF heard, S, new
  <2> QED
    BY <1>6, <2>1, <2>2
<1>8. ASSUME NEW t \in Teams, t \notin heard PROVE Written(t, w)
  <2>1. Nothing.successed \in Nat /\ Nothing.failed \in Nat
    BY DEF Nothing
  <2>2. \A r \in Rows(t) : r.successed \in Nat /\ r.failed \in Nat
    BY <1>0 DEF TypeOK, Rows, Row
  <2> HIDE DEF heard, S, new
  <2> QED
    BY <1>0, <1>6, <1>8, <2>1, <2>2 DEF Written
<1>9. ASSUME NEW t \in heard
      PROVE  t \in Teams /\ \A q \in Rows(t) : q.time < state'[t].time
  <2>1. t \in Teams /\ \E c \in new : TeamOf[c] = t
    BY <1>2
  <2>2. state'[t] = Added(t, new)
    BY <1>1, <2>1
  <2> HIDE DEF heard, S
  <2>3. state'[t].time = Latest(t, new) /\ \E c \in new : Latest(t, new) = time[c]
    BY <1>0, <2>1, <2>2, AddedIs
  <2>4. state'[t].time > last /\ state'[t].time \in Times
    BY <1>2, <2>3
  <2>5. \A q \in Rows(t) : q.time <= last /\ q.time \in Times
    BY <1>0 DEF MemoryComplete, Rows, TypeOK, Row
  <2> QED
    BY <1>2, <2>1, <2>4, <2>5 DEF Times
<1> HIDE DEF heard, S, new
<1>10. TableComplete' /\ \A t \in Teams : t \notin heard => Written(t, w)'
  BY <1>0, <1>1, <1>8, TableKeeps
<1>11. TxnComplete'
  BY <1>0, <1>1 DEF TxnComplete
<1>12. Due(last)' = Due(w) /\ Due(last)' = Due(w)'
  BY <1>1, <1>3 DEF Due, checks
<1>13. MemoryComplete'
  <2>1. Passed(last)'
    BY <1>1, <1>3, <1>4 DEF Passed, checks
  <2>2. \A t \in Teams : Counts(t, state[t], last)'
    BY <1>7, <1>12 DEF Counts, Count
  <2>3. \A q \in table : q.time <= w
    BY <1>0, <1>2, <1>4 DEF MemoryComplete, TypeOK, Row, Times
  <2> QED
    BY <1>1, <1>3, <2>1, <2>2, <2>3 DEF MemoryComplete
<1>14. ASSUME NEW t \in Teams PROVE Unwritten(t)'
  <2>1. CASE t \in heard
    <3>1. Pending(t)' /\ pc' = "insert"
      BY <1>1, <2>1 DEF Pending
    <3>2. \A q \in Rows(t) : q.time < state'[t].time
      BY <1>9, <2>1
    <3> QED
      BY <1>1, <3>1, <3>2 DEF Unwritten, Rows
  <2>2. CASE t \notin heard
    <3>1. ~Pending(t)'
      BY <1>0, <1>1, <2>2 DEF Pending
    <3>2. Written(t, last)'
      BY <1>10, <1>12, <2>2 DEF Written, Counts
    <3> QED
      BY <3>1, <3>2 DEF Unwritten
  <2> QED
    BY <2>1, <2>2
<1> QED
  BY <1>1, <1>10, <1>11, <1>13, <1>14 DEF Complete

LEMMA InsertComplete ==
  ASSUME IInv, Complete, NEW u \in Teams, Insert(u)
  PROVE  Complete'
<1>0. /\ TableComplete /\ TxnComplete /\ MemoryComplete /\ pc = "insert"
      /\ \A t \in Teams : Unwritten(t)
  BY DEF Complete, Insert
<1>1. /\ UNCHANGED <<checks, table>> /\ table' = table /\ txn' = txn \cup {NewRow(u)}
      /\ list' = list \ {u} /\ u \in list /\ pc' = pc /\ state' = state /\ last' = last
  BY DEF Insert
<1>2. TableComplete'
  BY <1>0, <1>1, TableKeeps
<1>3. \A t : NewRow(t)' = NewRow(t) /\ NewRow(t).team = t
  BY <1>1 DEF NewRow
<1>4. TxnComplete'
  <2>1. \A r \in txn' : r = NewRow(r.team)
    BY <1>0, <1>1, <1>3 DEF TxnComplete
  <2>2. \A r \in txn' : r = (NewRow(r.team))'
    BY <1>1, <2>1 DEF NewRow
  <2> QED
    BY <1>0, <1>1, <2>2 DEF TxnComplete
<1>5. MemoryComplete'
  BY <1>0, <1>1 DEF MemoryComplete, Passed, Counts, Due, Count, checks
<1>6. ASSUME NEW t \in Teams PROVE Unwritten(t)'
  <2>1. Pending(t)' <=> Pending(t)
    <3>1. NewRow(t) = NewRow(u) <=> t = u
      BY <1>3
    <3> QED
      BY <1>1, <1>3, <3>1 DEF Pending
  <2>2. CASE Pending(t)
    <3>1. \A q \in Rows(t) : q.time < state[t].time
      BY <1>0, <2>2 DEF Unwritten
    <3> QED
      BY <1>0, <1>1, <2>1, <2>2, <3>1 DEF Unwritten, Rows
  <2>3. CASE ~Pending(t)
    <3>1. Written(t, last)
      BY <1>0, <2>3 DEF Unwritten
    <3>2. Written(t, last)'
      BY <1>1, <3>1 DEF Written, Counts, Due, Count, Rows, checks, Nothing
    <3> QED
      BY <2>1, <2>3, <3>2 DEF Unwritten
  <2> QED
    BY <2>2, <2>3
<1> QED
  BY <1>0, <1>1, <1>2, <1>4, <1>5, <1>6 DEF Complete

\* A transaction writes the rows of all that were heard of: then the table
\* is complete up to the watermark, for the other teams too.
LEMMA CommittedIs ==
  ASSUME IInv, Complete, pc = "insert", list = {}, Committed,
         UNCHANGED <<checks, state, last>>
  PROVE  /\ TableComplete' /\ MemoryComplete'
         /\ \A t \in Teams : Written(t, last)'
<1>0. /\ TypeOK /\ TableComplete /\ TxnComplete /\ MemoryComplete
      /\ \A t \in Teams : Unwritten(t) /\ state[t] \in Total /\ state[t].time <= last
  BY DEF Complete, IInv, StateHonest, TypeOK
<1>1. /\ table' = table \cup txn /\ last' = last /\ state' = state
      /\ table \subseteq Row /\ txn \subseteq Row /\ last \in Times
  BY <1>0 DEF Committed, TypeOK
<1>2. /\ \A w : Due(w)' = Due(w) /\ (Passed(w)' <=> Passed(w))
      /\ \A t, r, w : Counts(t, r, w)' <=> Counts(t, r, w)
  <2>1. \A w : Due(w)' = Due(w) /\ (Passed(w)' <=> Passed(w))
    BY DEF checks, Due, Passed
  <2> QED
    BY <2>1 DEF Counts, Count
<1>3. \A q \in table' : q.time <= last /\ q.time \in Times /\ Passed(q.time)
  <2> TAKE q \in table'
  <2>1. CASE q \in table
    BY <1>0, <1>1, <2>1 DEF TableComplete, MemoryComplete, Row
  <2>2. CASE q \in txn
    <3>1. q.time = state[q.team].time /\ q.team \in Teams
      BY <1>0, <1>1, <2>2 DEF TxnComplete, NewRow, Row
    <3>2. q.time <= last /\ q.time \in Times
      BY <1>0, <1>1, <2>2, <3>1 DEF Row
    <3>3. time \in [Checks -> Times] /\ visible \subseteq Checks
      BY <1>0 DEF TypeOK, ChecksOK
    <3>4. Passed(q.time)
      BY <1>0, <1>1, <3>2, <3>3 DEF MemoryComplete, Passed, Times
    <3> QED
      BY <3>2, <3>4
  <2> QED
    BY <1>1, <2>1, <2>2
<1>4. ASSUME NEW t \in Teams
      PROVE  /\ Rows(t)' = {} => Counts(t, Nothing, last)
             /\ \A r \in Rows(t)' : (\A q \in Rows(t)' : q.time <= r.time)
                                      => Counts(t, r, last)
  <2>1. Rows(t)' = Rows(t) \cup {r \in txn : r.team = t}
    BY <1>1 DEF Rows
  <2>2. \A r \in txn : r.team = t => r = NewRow(t)
    BY <1>0 DEF TxnComplete
  <2>3. CASE NewRow(t) \in txn
    <3>1. NewRow(t) \in Rows(t)'
      BY <2>1, <2>3 DEF NewRow
    <3>2. \A q \in Rows(t) : q.time < NewRow(t).time
      BY <1>0, <2>3 DEF Unwritten, Pending, NewRow
    <3>3. ASSUME NEW r \in Rows(t)', \A q \in Rows(t)' : q.time <= r.time
          PROVE  Counts(t, r, last)
      <4>1. NewRow(t).time <= r.time
        BY <3>1, <3>3
      <4>2. r.time \in Int /\ NewRow(t).time \in Int
        BY <1>1, <2>1, <2>3, <3>3 DEF Rows, Row, Times
      <4>3. r = NewRow(t)
        BY <2>1, <2>2, <3>2, <3>3, <4>1, <4>2
      <4>4. Counts(t, state[t], last)
        BY <1>0 DEF MemoryComplete
      <4> QED
        BY <4>3, <4>4 DEF Counts, NewRow
    <3> QED
      BY <3>1, <3>3
  <2>4. CASE NewRow(t) \notin txn
    <3>1. Rows(t)' = Rows(t)
      BY <2>1, <2>2, <2>4
    <3>2. Written(t, last)
      BY <1>0, <2>4 DEF Unwritten, Pending
    <3> QED
      BY <3>1, <3>2 DEF Written
  <2> QED
    BY <2>3, <2>4
<1>5. ASSUME NEW t \in Teams, NEW w \in Times, w <= last
      PROVE  Written(t, w)'
  <2>1. Nothing' = Nothing /\ Nothing.successed \in Nat /\ Nothing.failed \in Nat
    BY DEF Nothing
  <2>2. \A r \in Rows(t)' : r.successed \in Nat /\ r.failed \in Nat
    BY <1>1 DEF Rows, Row
  <2>3. \A r : r.successed \in Nat /\ r.failed \in Nat /\ Counts(t, r, last)
                 => Counts(t, r, w)
    BY <1>0, <1>1, <1>5, CountsEarlier
  <2>4. Rows(t)' = {} => Counts(t, Nothing, w)
    BY <1>4, <2>1, <2>3
  <2>5. \A r \in Rows(t)' : (\A q \in Rows(t)' : q.time <= r.time) => Counts(t, r, w)
    BY <1>4, <2>2, <2>3
  <2> QED
    BY <1>2, <2>1, <2>4, <2>5 DEF Written
<1>6. TableComplete'
  BY <1>2, <1>3, <1>5 DEF TableComplete
<1>7. MemoryComplete'
  <2>1. Due(last)' = Due(last)
    BY <1>1 DEF Due, checks
  <2>2. \A t \in Teams : Counts(t, state[t], last)'
    BY <1>0, <1>1, <2>1 DEF MemoryComplete, Counts, Count
  <2>3. Passed(last)'
    BY <1>0, <1>1 DEF MemoryComplete, Passed, checks
  <2> QED
    BY <1>1, <1>3, <2>2, <2>3 DEF MemoryComplete
<1>8. \A t \in Teams : Written(t, last)'
  <2>1. PICK w \in Times : w = last /\ w = last'
    BY <1>1
  <2>2. \A t \in Teams : Written(t, w)'
    BY <1>1, <1>5, <2>1 DEF Times
  <2>3. Due(last)' = Due(w)'
    BY <2>1 DEF Due
  <2> QED
    BY <2>2, <2>3 DEF Written, Counts
<1> QED
  BY <1>6, <1>7, <1>8

\* The end of a transaction without a failure, of the process, its restart.
LEMMA EndsComplete ==
  ASSUME IInv, Complete, Commit \/ Die \/ Restart
  PROVE  Complete'
<1>1. CASE Commit
  <2>1. /\ pc = "insert" /\ list = {} /\ Committed /\ UNCHANGED <<checks, state, last>>
        /\ pc' = "query" /\ txn' = {}
    BY <1>1 DEF Commit, Committed
  <2>2. /\ TableComplete' /\ MemoryComplete'
        /\ \A t \in Teams : Written(t, last)'
    BY <2>1, CommittedIs
  <2>3. TxnComplete'
    BY <2>1 DEF TxnComplete
  <2>4. \A t \in Teams : Unwritten(t)'
    BY <2>1, <2>2 DEF Unwritten
  <2> QED
    BY <2>2, <2>3, <2>4 DEF Complete
<1>2. CASE Die
  <2>1. UNCHANGED <<checks, state, last>> /\ pc' = "down"
    BY <1>2 DEF Die
  <2>2. TableComplete' /\ txn' = {}
    <3>1. CASE txn' = {} /\ UNCHANGED table
      BY <2>1, <3>1, TableKeeps DEF Complete
    <3>2. CASE pc = "insert" /\ list = {} /\ Committed
      BY <2>1, <3>2, CommittedIs DEF Committed
    <3> QED
      BY <1>2, <3>1, <3>2 DEF Die
  <2> QED
    BY <2>1, <2>2 DEF Complete, TxnComplete
<1>3. CASE Restart
  <2>1. /\ UNCHANGED <<checks, table>> /\ txn' = txn /\ pc = "down" /\ pc' = "start"
    BY <1>3 DEF Restart
  <2>2. TableComplete' /\ txn = {}
    BY <2>1, TableKeeps DEF Complete, TxnComplete
  <2> QED
    BY <2>1, <2>2 DEF Complete, TxnComplete
<1> QED
  BY <1>1, <1>2, <1>3

LEMMA NextComplete == ASSUME CompleteInv, [Next]_vars PROVE CompleteInv'
<1>0. IInv /\ IInv'
  BY NextInv DEF CompleteInv
<1> SUFFICES ASSUME ~failed' PROVE Complete'
  BY <1>0 DEF CompleteInv
<1>1. CASE Next
  <2>1. ~failed
    BY <1>1 DEF Next, Thread, GetStateFromDb, GetLastAccessChecks, Commit, Insert,
                TransactionFails, Die, Restart, Tick, Begin, End
  <2>2. Complete
    BY <2>1 DEF CompleteInv
  <2>3. CASE GetStateFromDb
    BY <1>0, <2>2, <2>3, StartComplete
  <2>4. CASE GetLastAccessChecks
    BY <1>0, <2>2, <2>4, QueryComplete
  <2>5. ASSUME NEW t \in Teams, Insert(t) PROVE Complete'
    BY <1>0, <2>2, <2>5, InsertComplete
  <2>6. CASE Commit \/ Die \/ Restart
    BY <1>0, <2>2, <2>6, EndsComplete
  <2>7. CASE TransactionFails
    BY <2>7 DEF TransactionFails
  <2>8. CASE Tick \/ \E c \in Checks : Begin(c) \/ End(c)
    BY <1>0, <2>2, <2>8, DatabaseComplete
  <2> QED
    BY <1>1, <2>3, <2>4, <2>5, <2>6, <2>7, <2>8 DEF Next, Thread
<1>2. CASE UNCHANGED vars
  <2>1. /\ UNCHANGED <<checks, table>> /\ txn' = txn /\ pc' = pc /\ state' = state
        /\ last' = last /\ list' = list /\ failed' = failed
    BY <1>2 DEF vars
  <2>2. Complete
    BY <2>1 DEF CompleteInv
  <2>3. TableComplete'
    BY <2>1, <2>2, TableKeeps DEF Complete
  <2>4. TxnComplete'
    BY <2>1, <2>2 DEF Complete, TxnComplete, NewRow
  <2>5. Due(last)' = Due(last) /\ (Passed(last)' <=> Passed(last))
    BY <2>1 DEF Due, Passed, checks
  <2>6. MemoryComplete => MemoryComplete'
    BY <2>1, <2>5 DEF MemoryComplete, Counts, Count
  <2>7. \A t : Unwritten(t) => Unwritten(t)'
    <3>1. \A t : Rows(t)' = Rows(t) /\ (Pending(t)' <=> Pending(t))
      BY <2>1 DEF Rows, Pending, NewRow
    <3>2. \A t, r : Counts(t, r, last)' <=> Counts(t, r, last)
      BY <2>5 DEF Counts, Count
    <3>3. \A t : Written(t, last) => Written(t, last)'
      BY <3>1, <3>2 DEF Written, Nothing
    <3> QED
      BY <2>1, <3>1, <3>3 DEF Unwritten
  <2> QED
    BY <2>1, <2>2, <2>3, <2>4, <2>6, <2>7 DEF Complete
<1> QED
  BY <1>1, <1>2

\* No check that committed in the order of the times is left out, as long as
\* no transaction has failed: also after a process that ended between a query
\* and its commit (SLAworker 33-63, 74-129).
THEOREM NoneLeftOut == Spec => []NothingLeftOut
<1>1. Init => CompleteInv
  BY InitComplete
<1>2. CompleteInv /\ [Next]_vars => CompleteInv'
  BY NextComplete
<1>3. CompleteInv => NothingLeftOut
  <2> SUFFICES ASSUME CompleteInv, ~failed, NEW t \in Teams, Rows(t) # {}
               PROVE  Counts(t, LastRow(t), LastRow(t).time)
    BY DEF NothingLeftOut, Counts, Due
  <2>1. TypeOK /\ TableComplete
    BY DEF CompleteInv, IInv, Complete
  <2>2. /\ LastRow(t) \in table /\ LastRow(t) \in Rows(t)
        /\ \A q \in Rows(t) : q.time <= LastRow(t).time
    BY <2>1, LastRowIs DEF Rows
  <2> QED
    BY <2>1, <2>2 DEF TableComplete, Written
<1> QED
  BY <1>1, <1>2, <1>3, PTL DEF Spec
=============================================================================
