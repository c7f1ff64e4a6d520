------------------------- MODULE RoundsCacheProofs -------------------------
(***************************************************************************)
(* Proofs about the cache of standings, for any rows of scores and any     *)
(* number of rounds.  The rounds below the frontier are not read again; a  *)
(* score that ends below it is overtaken, so what is due to a closed round *)
(* does not change any more, and the standing in memory stays exact.       *)
(*                                                                         *)
(* And about the chart: while roundsCache runs, its table only grows at    *)
(* the end and is written again only there, so two copies of it agree but  *)
(* for the last round of the older one, and the end that a page asks for   *)
(* is all it does not have.                                                *)
(***************************************************************************)
EXTENDS ScoreChart, SequenceTheorems, NaturalsInduction,
        WellFoundedInduction, TLAPS

\* The rounds below the frontier have a successor that has started.
LEMMA BelowFrontier ==
  ASSUME GameOK, LoopTypes, LoopOK
  PROVE  /\ Frontier \in Rounds /\ Frontier <= lastStarted
         /\ lastCached <= Frontier
         /\ \A r \in Rounds : r < Frontier => /\ r + 1 \in Rounds
                                              /\ r + 1 <= started
                                              /\ r + 1 <= Frontier
BY RoundsCacheAssumption DEF GameOK, LoopTypes, LoopOK, Frontier, Rounds

\* What is due to a closed round stays so, whatever the game does.
LEMMA DueKept ==
  ASSUME GameOK, LoopTypes, LoopOK, NEW r \in Rounds, r < Frontier,
         start'[r + 1] = start[r + 1],
         \A x \in visible : time'[x] = time[x] /\ x \in visible',
         \A x \in visible : x \in overtaken' <=> x \in overtaken,
         \A x \in visible' \ visible :
           x \notin overtaken' => ~(time'[x] < start[r + 1])
  PROVE  Due(r)' = Due(r)
BY DEF Due, LoopTypes

\* The initial states.
LEMMA InitInv == Init => IInv
<1> SUFFICES ASSUME Init PROVE IInv
  OBVIOUS
<1> USE RoundsCacheAssumption
<1>1. GameOK
  BY DEF Init, GameOK, Rounds, Times
<1>2. LoopTypes
  BY DEF Init, LoopTypes, Rounds
<1>3. table \in [Rounds -> Seq(Bag)] /\ cache \in [Rounds -> Bag]
  BY DEF Init, Bag, Zero
<1>4. StartsOK
  BY DEF Init, StartsOK, Rounds
<1>5. LoopOK
  BY DEF Init, LoopOK
<1>6. CacheOK
  BY DEF Init, CacheOK, Frontier, Rounds
<1>7. TableOK
  BY DEF Init, TableOK
<1>8. StandingExact
  BY DEF Init, StandingExact, Rounds
<1> QED
  BY <1>1, <1>2, <1>3, <1>4, <1>5, <1>6, <1>7, <1>8 DEF IInv, TypeOK

\* What a step keeps that leaves the process alone.
LEMMA GameKeeps ==
  ASSUME IInv, UNCHANGED <<table, pc, memory, unwritten, failures, restarts>>,
         GameOK', StartsOK', started <= started',
         overtaken' \subseteq visible',
         \A x \in overtaken' : time'[x] < start[Frontier],
         \A r \in Rounds : r <= started => start'[r] = start[r],
         \A x \in visible : time'[x] = time[x] /\ x \in visible',
         \A x \in visible : x \in overtaken' <=> x \in overtaken,
         \A x \in visible' \ visible :
           x \notin overtaken' => ~(time'[x] < start[Frontier])
  PROVE  IInv'
<1> USE RoundsCacheAssumption
<1>0. /\ GameOK /\ LoopTypes /\ StartsOK /\ LoopOK /\ CacheOK /\ TableOK
      /\ StandingExact
      /\ table \in [Rounds -> Seq(Bag)] /\ cache \in [Rounds -> Bag]
  BY DEF IInv, TypeOK
<1>1. /\ table' = table /\ pc' = pc /\ lastCached' = lastCached
      /\ lastStarted' = lastStarted /\ next' = next /\ cache' = cache
      /\ unwritten' = unwritten /\ failures' = failures /\ restarts' = restarts
  BY DEF memory
<1>2. Frontier' = Frontier
  BY <1>1 DEF Frontier
<1>3. /\ Frontier \in Rounds /\ Frontier <= lastStarted /\ lastCached <= Frontier
      /\ \A r \in Rounds : r < Frontier =>
           r + 1 \in Rounds /\ r + 1 <= started /\ r + 1 <= Frontier
  BY <1>0, BelowFrontier
<1>4. Frontier <= started
  BY <1>0, <1>3 DEF LoopOK, GameOK, LoopTypes, Rounds
<1>5. \A r \in Rounds : r < Frontier => Due(r)' = Due(r)
  <2> SUFFICES ASSUME NEW r \in Rounds, r < Frontier PROVE Due(r)' = Due(r)
    OBVIOUS
  <2>1. r + 1 \in Rounds /\ r + 1 <= started /\ r + 1 <= Frontier
    BY <1>3
  <2>2. start'[r + 1] = start[r + 1]
    BY <2>1
  <2>3. start[r + 1] <= start[Frontier]
    BY <2>1, <1>0, <1>3, <1>4 DEF StartsOK
  <2>4. \A x \in visible' \ visible :
          x \notin overtaken' => ~(time'[x] < start[r + 1])
    BY <2>1, <2>3, <1>0, <1>3 DEF GameOK, Times
  <2> QED
    BY <2>2, <2>4, <1>0, DueKept
<1>6. LoopTypes'
  BY <1>0, <1>1 DEF LoopTypes
<1>7. LoopOK'
  <2>1. start'[Frontier] = start[Frontier]
    BY <1>3, <1>4
  <2>2. \A x \in overtaken' : time'[x] < start'[Frontier']
    BY <2>1, <1>2
  <2>3. lastStarted' <= started'
    BY <1>0, <1>1 DEF LoopOK, GameOK, LoopTypes, Rounds
  <2> QED
    BY <2>2, <2>3, <1>0, <1>1 DEF LoopOK
<1>8. CacheOK'
  <2>1. \A r \in Rounds : r < Frontier' => cache'[r] = Each(Due(r))'
    BY <1>0, <1>1, <1>2, <1>5 DEF CacheOK, Each
  <2>2. ASSUME next' > lastStarted'
        PROVE  \E X \in SUBSET (visible' \ overtaken') :
                 /\ cache'[lastStarted'] = Each(X)
                 /\ \A x \in visible' \ overtaken' :
                      time'[x] < start'[lastStarted'] => x \in X
    <3>1. PICK X \in SUBSET (visible \ overtaken) :
            /\ cache[lastStarted] = Each(X)
            /\ \A x \in visible \ overtaken :
                 time[x] < start[lastStarted] => x \in X
      BY <2>2, <1>0, <1>1 DEF CacheOK
    <3>2. X \in SUBSET (visible' \ overtaken')
      BY <3>1
    <3>3. Frontier = lastStarted
      BY <2>2, <1>0, <1>1 DEF Frontier, LoopTypes, Rounds
    <3>4. start'[lastStarted] = start[lastStarted]
      BY <3>3, <1>3, <1>4
    <3>5. ASSUME NEW x \in visible' \ overtaken', time'[x] < start'[lastStarted']
          PROVE  x \in X
      <4>1. x \in visible
        BY <3>3, <3>4, <3>5, <1>1
      <4> QED
        BY <4>1, <3>1, <3>4, <3>5, <1>1
    <3> QED
      BY <3>1, <3>2, <3>5, <1>1
  <2> QED
    BY <2>1, <2>2, <1>1 DEF CacheOK, Each
<1>9. TableOK'
  BY <1>0, <1>1 DEF TableOK
<1>10. StandingExact'
  <2> SUFFICES ASSUME NEW r \in Rounds, r < lastCached', r \notin unwritten'
               PROVE  table'[r] = <<Each(Due(r))>>'
    BY DEF StandingExact
  <2>1. r < Frontier
    BY <1>0, <1>1, <1>3 DEF LoopTypes, Rounds
  <2>2. table[r] = <<Each(Due(r))>>
    BY <1>0, <1>1 DEF StandingExact
  <2>3. Each(Due(r))' = Each(Due(r))
    BY <2>1, <1>5 DEF Each
  <2> QED
    BY <2>2, <2>3, <1>1
<1> QED
  BY <1>0, <1>1, <1>6, <1>7, <1>8, <1>9, <1>10 DEF IInv, TypeOK

\* The clock ticks.
LEMMA TickInv == ASSUME IInv, Tick PROVE IInv'
<1> USE RoundsCacheAssumption
<1>0. GameOK /\ StartsOK /\ LoopTypes /\ LoopOK
  BY DEF IInv, TypeOK
<1>1. /\ UNCHANGED <<table, pc, memory, unwritten, failures, restarts>>
      /\ start' = start /\ started' = started /\ time' = time
      /\ visible' = visible /\ overtaken' = overtaken
      /\ now < MaxTime /\ now' = now + 1
  BY DEF Tick, history
<1>2. GameOK'
  BY <1>0, <1>1 DEF GameOK
<1>3. StartsOK'
  BY <1>0, <1>1 DEF StartsOK, GameOK, Times
<1> QED
  BY <1>0, <1>1, <1>2, <1>3, GameKeeps DEF LoopOK, LoopTypes, GameOK, Rounds

\* A round takes its time, later than those of the rounds before it.
LEMMA BeginRoundInv == ASSUME IInv, BeginRound PROVE IInv'
<1> USE RoundsCacheAssumption
<1>0. GameOK /\ StartsOK /\ LoopTypes /\ LoopOK
  BY DEF IInv, TypeOK
<1>1. /\ UNCHANGED <<table, pc, memory, unwritten, failures, restarts>>
      /\ now' = now /\ started' = started /\ time' = time
      /\ visible' = visible /\ overtaken' = overtaken
      /\ started < MaxRound /\ start' = [start EXCEPT ![started + 1] = now]
  BY DEF BeginRound, history
<1>2. GameOK'
  BY <1>0, <1>1 DEF GameOK, Rounds, Times
<1>3. \A r \in Rounds : start'[r] = IF r = started + 1 THEN now ELSE start[r]
  BY <1>0, <1>1 DEF GameOK
<1>4. StartsOK'
  BY <1>0, <1>1, <1>3 DEF StartsOK, GameOK, Rounds, Times
<1>5. \A r \in Rounds : r <= started => start'[r] = start[r]
  BY <1>0, <1>3 DEF GameOK, Rounds
<1> QED
  BY <1>0, <1>1, <1>2, <1>4, <1>5, GameKeeps DEF LoopOK, LoopTypes, GameOK, Rounds

\* A round is committed.
LEMMA CommitRoundInv == ASSUME IInv, CommitRound PROVE IInv'
<1> USE RoundsCacheAssumption
<1>0. GameOK /\ StartsOK /\ LoopTypes /\ LoopOK
  BY DEF IInv, TypeOK
<1>1. /\ UNCHANGED <<table, pc, memory, unwritten, failures, restarts>>
      /\ now' = now /\ start' = start /\ time' = time
      /\ visible' = visible /\ overtaken' = overtaken
      /\ started < MaxRound /\ start[started + 1] # 0 /\ started' = started + 1
  BY DEF CommitRound, history
<1>2. GameOK'
  BY <1>0, <1>1 DEF GameOK, Rounds
<1>3. StartsOK'
  <2>1. \A r \in Rounds : r <= started => start[r] <= start[started + 1]
    BY <1>0, <1>1 DEF StartsOK
  <2>2. \A r, s \in Rounds : r <= s /\ s <= started' => start[r] <= start[s]
    <3> SUFFICES ASSUME NEW r \in Rounds, NEW s \in Rounds, r <= s, s <= started'
                 PROVE  start[r] <= start[s]
      OBVIOUS
    <3>1. CASE s <= started
      BY <3>1, <1>0 DEF StartsOK
    <3>2. CASE s = started + 1 /\ r <= started
      BY <3>2, <2>1
    <3>3. CASE s = started + 1 /\ r = started + 1
      BY <3>3, <1>0 DEF GameOK, Times
    <3> QED
      BY <3>1, <3>2, <3>3, <1>0, <1>1 DEF GameOK, Rounds
  <2>3. started' < MaxRound => start[started' + 1] = 0
    BY <1>0, <1>1 DEF StartsOK, GameOK, Rounds
  <2>4. \A r \in Rounds : r <= started' => start[r] # 0
    BY <1>0, <1>1 DEF StartsOK, GameOK, Rounds
  <2>5. \A r \in Rounds : r > started' + 1 => start[r] = 0
    BY <1>0, <1>1 DEF StartsOK, GameOK, Rounds
  <2> QED
    BY <2>2, <2>3, <2>4, <2>5, <1>0, <1>1 DEF StartsOK
<1>4. started <= started'
  BY <1>0, <1>1 DEF GameOK, Rounds
<1> QED
  BY <1>0, <1>1, <1>2, <1>3, <1>4, GameKeeps DEF LoopOK, LoopTypes, GameOK

\* A score's transaction begins, and takes the score's time.
LEMMA BeginInv == ASSUME IInv, NEW x \in Scores, Begin(x) PROVE IInv'
<1> USE RoundsCacheAssumption
<1>0. GameOK /\ StartsOK /\ LoopTypes /\ LoopOK
  BY DEF IInv, TypeOK
<1>1. /\ UNCHANGED <<table, pc, memory, unwritten, failures, restarts>>
      /\ now' = now /\ start' = start /\ started' = started
      /\ visible' = visible /\ overtaken' = overtaken
      /\ time[x] = 0 /\ time' = [time EXCEPT ![x] = now]
  BY DEF Begin, history
<1>2. GameOK'
  BY <1>0, <1>1 DEF GameOK, Times
<1>3. \A y \in visible : y # x /\ time'[y] = time[y]
  BY <1>0, <1>1 DEF StartsOK, GameOK
<1>4. StartsOK'
  BY <1>0, <1>1, <1>3 DEF StartsOK
<1>5. \A y \in overtaken' : time'[y] < start[Frontier]
  BY <1>0, <1>1, <1>3 DEF LoopOK, LoopTypes
<1> QED
  BY <1>0, <1>1, <1>2, <1>3, <1>4, <1>5, GameKeeps DEF LoopTypes, GameOK, Rounds

\* A score's transaction ends: below the frontier it is overtaken.
LEMMA EndInv == ASSUME IInv, NEW x \in Scores, End(x) PROVE IInv'
<1> USE RoundsCacheAssumption
<1>0. GameOK /\ StartsOK /\ LoopTypes /\ LoopOK
  BY DEF IInv, TypeOK
<1>1. /\ UNCHANGED <<table, pc, memory, unwritten, failures, restarts>>
      /\ now' = now /\ start' = start /\ started' = started /\ time' = time
      /\ time[x] # 0 /\ x \notin visible /\ visible' = visible \cup {x}
      /\ overtaken' = IF time[x] < start[Frontier] THEN overtaken \cup {x}
                      ELSE overtaken
  BY DEF End
<1>2. GameOK'
  BY <1>0, <1>1 DEF GameOK
<1>3. StartsOK'
  BY <1>0, <1>1 DEF StartsOK
<1>4. \A y \in overtaken' : time'[y] < start[Frontier]
  BY <1>0, <1>1 DEF LoopOK
<1>5. overtaken' \subseteq visible'
  BY <1>0, <1>1 DEF LoopTypes
<1>6. \A y \in visible : y \in overtaken' <=> y \in overtaken
  BY <1>1
<1>7. \A y \in visible' \ visible :
        y \notin overtaken' => ~(time'[y] < start[Frontier])
  BY <1>1
<1> QED
  BY <1>0, <1>1, <1>2, <1>3, <1>4, <1>5, <1>6, <1>7, GameKeeps DEF GameOK, Rounds

\* A started process has no rounds yet.
LEMMA DeleteCacheInv == ASSUME IInv, DeleteCache PROVE IInv'
<1> USE RoundsCacheAssumption
<1>0. GameOK /\ LoopTypes /\ StartsOK
  BY DEF IInv, TypeOK
<1>1. /\ now' = now /\ start' = start /\ started' = started /\ time' = time
      /\ visible' = visible /\ failures' = failures /\ restarts' = restarts
      /\ table' = [r \in Rounds |-> <<>>] /\ pc' = "rounds"
      /\ lastCached' = 0 /\ lastStarted' = 0 /\ next' = 0
      /\ cache' = [r \in Rounds |-> Zero]
      /\ overtaken' = {} /\ unwritten' = {}
  BY DEF DeleteCache, game
<1>2. GameOK'
  BY <1>0, <1>1 DEF GameOK
<1>3. LoopTypes'
  BY <1>0, <1>1 DEF LoopTypes, Rounds
<1>4. table' \in [Rounds -> Seq(Bag)] /\ cache' \in [Rounds -> Bag]
  BY <1>1 DEF Bag, Zero
<1>5. StartsOK'
  BY <1>0, <1>1 DEF StartsOK
<1>6. LoopOK'
  BY <1>0, <1>1 DEF LoopOK, GameOK, Rounds
<1>7. CacheOK'
  BY <1>1 DEF CacheOK, Frontier, Rounds
<1>8. TableOK'
  BY <1>1 DEF TableOK
<1>9. StandingExact'
  BY <1>1 DEF StandingExact, Rounds
<1> QED
  BY <1>2, <1>3, <1>4, <1>5, <1>6, <1>7, <1>8, <1>9 DEF IInv, TypeOK

\* What a step of the process leaves alone is due as before.
LEMMA DueSame ==
  ASSUME UNCHANGED <<start, time, visible, overtaken>>
  PROVE  \A r \in Rounds : /\ Due(r)' = Due(r)
                           /\ Each(Due(r))' = Each(Due(r))
BY DEF Due, Each

\* Reading the rounds leaves the frontier where it is.
LEMMA GetStartedRoundsInv == ASSUME IInv, GetStartedRounds PROVE IInv'
<1> USE RoundsCacheAssumption
<1>0. /\ GameOK /\ LoopTypes /\ StartsOK /\ LoopOK /\ CacheOK /\ TableOK
      /\ StandingExact
      /\ table \in [Rounds -> Seq(Bag)] /\ cache \in [Rounds -> Bag]
  BY DEF IInv, TypeOK
<1>1. /\ now' = now /\ start' = start /\ started' = started /\ time' = time
      /\ visible' = visible /\ failures' = failures /\ restarts' = restarts
      /\ overtaken' = overtaken /\ unwritten' = unwritten /\ table' = table
      /\ pc = "rounds" /\ pc' = "sums"
      /\ lastStarted' = started /\ next' = lastCached
      /\ lastCached' = lastCached /\ cache' = cache
  BY DEF GetStartedRounds, game, history
<1>2. /\ lastCached = lastStarted /\ Frontier = lastCached
      /\ Frontier' = lastCached
  BY <1>0, <1>1 DEF LoopOK, LoopTypes, GameOK, Rounds, Frontier
<1>3. GameOK'
  BY <1>0, <1>1 DEF GameOK
<1>4. LoopTypes'
  BY <1>0, <1>1 DEF LoopTypes, GameOK, Rounds
<1>5. StartsOK'
  BY <1>0, <1>1 DEF StartsOK
<1>6. LoopOK'
  BY <1>0, <1>1, <1>2 DEF LoopOK, LoopTypes, GameOK, Rounds
<1>7. CacheOK'
  <2>1. \A r \in Rounds : Each(Due(r))' = Each(Due(r))
    BY <1>1, DueSame
  <2>2. \A r \in Rounds : r < Frontier' => cache'[r] = Each(Due(r))'
    BY <2>1, <1>0, <1>1, <1>2 DEF CacheOK
  <2>3. ~(next' > lastStarted')
    BY <1>0, <1>1, <1>2 DEF LoopOK, LoopTypes, GameOK, Rounds
  <2> QED
    BY <2>2, <2>3 DEF CacheOK
<1>8. TableOK'
  BY <1>0, <1>1 DEF TableOK
<1>9. StandingExact'
  <2>1. \A r \in Rounds : Each(Due(r))' = Each(Due(r))
    BY <1>1, DueSame
  <2> QED
    BY <2>1, <1>0, <1>1 DEF StandingExact
<1> QED
  BY <1>0, <1>1, <1>3, <1>4, <1>5, <1>6, <1>7, <1>8, <1>9 DEF IInv, TypeOK

\* The standing before a round counts what came before the round's start.
LEMMA BeforeCounts ==
  ASSUME GameOK, LoopTypes, StartsOK, LoopOK, CacheOK,
         next <= lastStarted, NEW x \in Scores
  PROVE  RoundBefore(next)[x] =
           IF x \in visible \ overtaken /\ time[x] < start[next] THEN 1 ELSE 0
<1> USE RoundsCacheAssumption
<1>1. next \in Rounds /\ Frontier = next
  BY DEF GameOK, LoopTypes, Rounds, Frontier
<1>2. CASE next = 0
  <2>1. RoundBefore(next)[x] = 0
    BY <1>2 DEF RoundBefore, Zero
  <2>2. x \in visible => ~(time[x] < start[next])
    BY <1>2 DEF StartsOK, GameOK, Times
  <2> QED
    BY <2>1, <2>2
<1>3. CASE next # 0
  <2>1. next - 1 \in Rounds /\ next - 1 < next /\ (next - 1) + 1 = next
    BY <1>1, <1>3 DEF Rounds
  <2>2. RoundBefore(next) = Each(Due(next - 1))
    BY <2>1, <1>1, <1>3 DEF RoundBefore, CacheOK
  <2> QED
    BY <2>1, <2>2 DEF Each, Due
<1> QED
  BY <1>2, <1>3

\* The sum of a round, added to the standing before it: the rows due to the
\* round, each once; for the last round all rows.
LEMMA SumCounts ==
  ASSUME GameOK, LoopTypes, StartsOK, LoopOK, CacheOK,
         next <= lastStarted, NEW x \in Scores
  PROVE  RoundBefore(next)[x] + (IF InWindow(x, next) THEN 1 ELSE 0) =
           IF /\ x \in visible \ overtaken
              /\ next = lastStarted \/ time[x] < start[next + 1]
           THEN 1 ELSE 0
<1> USE RoundsCacheAssumption
<1>1. next \in Rounds /\ Frontier = next
  BY DEF GameOK, LoopTypes, Rounds, Frontier
<1>2. RoundBefore(next)[x] =
        IF x \in visible \ overtaken /\ time[x] < start[next] THEN 1 ELSE 0
  BY BeforeCounts
<1>3. start[next] \in Nat /\ time[x] \in Nat
  BY <1>1 DEF GameOK, Times
<1>4. next # lastStarted =>
        start[next + 1] \in Nat /\ start[next] <= start[next + 1]
  BY <1>1 DEF GameOK, LoopTypes, LoopOK, StartsOK, Rounds, Times
<1>5. x \in overtaken => time[x] < start[next]
  BY <1>1 DEF LoopOK
<1> QED
  BY <1>2, <1>3, <1>4, <1>5 DEF InWindow

\* A closed round's standing is exact from its sum on.
LEMMA GetScoreInv == ASSUME IInv, GetScore PROVE IInv'
<1> USE RoundsCacheAssumption
<1>0. /\ GameOK /\ LoopTypes /\ StartsOK /\ LoopOK /\ CacheOK /\ TableOK
      /\ StandingExact
      /\ table \in [Rounds -> Seq(Bag)] /\ cache \in [Rounds -> Bag]
  BY DEF IInv, TypeOK
<1>1. /\ now' = now /\ start' = start /\ started' = started /\ time' = time
      /\ visible' = visible /\ failures' = failures /\ restarts' = restarts
      /\ overtaken' = overtaken /\ unwritten' = unwritten /\ table' = table
      /\ pc = "sums" /\ pc' = pc /\ next <= lastStarted /\ next' = next + 1
      /\ lastStarted' = lastStarted /\ lastCached' = lastCached
  BY DEF GetScore, game, history
<1> DEFINE sum == [x \in Scores |-> RoundBefore(next)[x]
                                      + IF InWindow(x, next) THEN 1 ELSE 0]
<1>2. cache' = [cache EXCEPT ![next] = sum]
  BY DEF GetScore
<1>3. /\ next \in Rounds /\ next \in Nat /\ lastStarted \in Nat /\ Frontier = next
      /\ Frontier' = IF next < lastStarted THEN next + 1 ELSE next
  BY <1>0, <1>1 DEF GameOK, LoopTypes, Rounds, Frontier
<1>4. sum = [x \in Scores |->
               IF /\ x \in visible \ overtaken
                  /\ next = lastStarted \/ time[x] < start[next + 1]
               THEN 1 ELSE 0]
  BY <1>0, <1>1, SumCounts
<1>5. sum \in Bag
  BY <1>4 DEF Bag
<1> HIDE DEF sum
<1>6. \A r \in Rounds : cache'[r] = IF r = next THEN sum ELSE cache[r]
  BY <1>0, <1>2
<1>7. cache' \in [Rounds -> Bag]
  BY <1>0, <1>2, <1>5
<1>8. GameOK'
  BY <1>0, <1>1 DEF GameOK
<1>9. LoopTypes'
  BY <1>0, <1>1, <1>3 DEF LoopTypes, Rounds
<1>10. StartsOK'
  BY <1>0, <1>1 DEF StartsOK
<1>11. LoopOK'
  <2>1. start[Frontier] <= start[Frontier']
    BY <1>0, <1>1, <1>3 DEF StartsOK, GameOK, LoopOK, LoopTypes, Rounds, Times
  <2>2. Frontier' \in Rounds
    BY <1>0, <1>3 DEF LoopTypes, Rounds
  <2>3. \A x \in overtaken' : time'[x] < start'[Frontier']
    BY <1>0, <1>1, <1>3, <2>1, <2>2 DEF LoopOK, LoopTypes, GameOK, Times
  <2> QED
    BY <2>3, <1>0, <1>1, <1>3 DEF LoopOK, LoopTypes, Rounds
<1>12. \A r \in Rounds : Each(Due(r))' = Each(Due(r))
  BY <1>1, DueSame
<1>13. CacheOK'
  <2>1. ASSUME NEW r \in Rounds, r < Frontier' PROVE cache'[r] = Each(Due(r))'
    <3>1. CASE r = next
      <4>1. next # lastStarted
        BY <2>1, <3>1, <1>3
      <4>2. sum = Each(Due(next))
        BY <4>1, <1>4 DEF Each, Due
      <4> QED
        BY <4>2, <3>1, <1>6, <1>12
    <3>2. CASE r < next
      BY <3>2, <1>0, <1>3, <1>6, <1>12 DEF CacheOK
    <3> QED
      BY <2>1, <3>1, <3>2, <1>3 DEF Rounds
  <2>2. ASSUME next' > lastStarted'
        PROVE  \E X \in SUBSET (visible' \ overtaken') :
                 /\ cache'[lastStarted'] = Each(X)
                 /\ \A x \in visible' \ overtaken' :
                      time'[x] < start'[lastStarted'] => x \in X
    <3>1. next = lastStarted
      BY <2>2, <1>1, <1>3
    <3>2. sum = Each(visible \ overtaken)
      BY <3>1, <1>4 DEF Each
    <3>3. visible \ overtaken \in SUBSET (visible' \ overtaken')
      BY <1>1
    <3> QED
      BY <3>1, <3>2, <3>3, <1>1, <1>3, <1>6
  <2> QED
    BY <2>1, <2>2 DEF CacheOK, Each
<1>14. TableOK'
  BY <1>0, <1>1 DEF TableOK
<1>15. StandingExact'
  BY <1>12, <1>0, <1>1 DEF StandingExact
<1> QED
  BY <1>7, <1>0, <1>1, <1>8, <1>9, <1>10, <1>11, <1>13, <1>14, <1>15
     DEF IInv, TypeOK

\* The transaction leaves one row in each round that it writes.
LEMMA WrittenOnce ==
  ASSUME table \in [Rounds -> Seq(Bag)], LoopTypes, TableOK, pc = "sums",
         NEW r \in Rounds, lastCached <= r
  PROVE  Written(r) = <<cache[r]>>
<1>1. table[r] \in Seq(Bag) /\ Len(table[r]) <= 1 /\ (r > lastCached => table[r] = <<>>)
  BY DEF TableOK
<1>2. CASE r = lastCached /\ table[r] # <<>>
  <2>1. Len(table[r]) = 1
    <3>1. Len(table[r]) \in Nat \ {0}
      BY <1>1, <1>2, EmptySeq
    <3>2. Len(table[r]) <= 1
      BY <1>1
    <3>3. \A n \in Nat \ {0} : n <= 1 => n = 1
      OBVIOUS
    <3> QED
      BY <3>1, <3>2, <3>3, Zenon
  <2>2. DOMAIN table[r] = 1 .. 1
    BY <1>1, <2>1
  <2>3. Written(r) = [i \in 1 .. 1 |-> cache[r]]
    BY <1>2, <2>2 DEF Written
  <2> QED
    BY <2>3
<1>3. CASE ~(r = lastCached /\ table[r] # <<>>)
  <2>1. table[r] = <<>>
    BY <1>1, <1>3 DEF LoopTypes, Rounds
  <2>2. Written(r) = Append(<<>>, cache[r])
    BY <1>3, <2>1 DEF Written
  <2> QED
    BY <2>2
<1> QED
  BY <1>2, <1>3

\* What the transaction makes of the table.
LEMMA UpdateWrites ==
  ASSUME table \in [Rounds -> Seq(Bag)], cache \in [Rounds -> Bag],
         LoopTypes, TableOK, pc = "sums", Update
  PROVE  /\ table' \in [Rounds -> Seq(Bag)]
         /\ \A r \in Rounds :
              table'[r] = IF lastCached <= r /\ r <= lastStarted
                          THEN <<cache[r]>> ELSE table[r]
<1> USE RoundsCacheAssumption
<1>1. table' = [r \in Rounds |-> IF r \in lastCached .. lastStarted
                                 THEN Written(r) ELSE table[r]]
  BY DEF Update
<1>2. \A r \in Rounds : r \in lastCached .. lastStarted
                          <=> lastCached <= r /\ r <= lastStarted
  BY DEF LoopTypes, Rounds
<1>3. \A r \in Rounds : lastCached <= r => Written(r) = <<cache[r]>>
  BY WrittenOnce
<1>4. \A r \in Rounds :
        table'[r] = IF lastCached <= r /\ r <= lastStarted
                    THEN <<cache[r]>> ELSE table[r]
  BY <1>1, <1>2, <1>3
<1>5. \A r \in Rounds : table'[r] \in Seq(Bag)
  <2> SUFFICES ASSUME NEW r \in Rounds PROVE table'[r] \in Seq(Bag)
    OBVIOUS
  <2>1. cache[r] \in Bag /\ table[r] \in Seq(Bag)
    OBVIOUS
  <2>2. <<cache[r]>> \in Seq(Bag)
    BY <2>1
  <2> QED
    BY <2>1, <2>2, <1>4
<1> QED
  BY <1>1, <1>4, <1>5

\* The end of a cycle opens the last round again and closes the others; the
\* frontier has passed them already.
LEMMA CycleEnds ==
  ASSUME IInv, UNCHANGED <<game, lastStarted, next, cache, overtaken, restarts>>,
         pc = "sums", next > lastStarted, pc' = "rounds",
         lastCached' = lastStarted, unwritten' \subseteq Rounds,
         failures' \in 0 .. MaxFailures
  PROVE  /\ GameOK' /\ LoopTypes' /\ StartsOK' /\ LoopOK' /\ CacheOK'
         /\ lastCached \in Rounds /\ lastStarted \in Rounds
         /\ Frontier = lastStarted /\ lastCached <= lastStarted
         /\ \A r \in Rounds : Each(Due(r))' = Each(Due(r))
<1> USE RoundsCacheAssumption
<1>0. GameOK /\ LoopTypes /\ StartsOK /\ LoopOK /\ CacheOK
  BY DEF IInv, TypeOK
<1>1. /\ now' = now /\ start' = start /\ started' = started /\ time' = time
      /\ visible' = visible /\ restarts' = restarts /\ overtaken' = overtaken
      /\ lastStarted' = lastStarted /\ next' = next /\ cache' = cache
  BY DEF game
<1>2. Frontier = lastStarted /\ Frontier' = Frontier
  BY <1>0, <1>1 DEF Frontier, LoopTypes, Rounds
<1>3. GameOK'
  BY <1>0, <1>1 DEF GameOK
<1>4. LoopTypes'
  BY <1>0, <1>1 DEF LoopTypes
<1>5. StartsOK'
  BY <1>0, <1>1 DEF StartsOK
<1>6. LoopOK'
  BY <1>0, <1>1, <1>2 DEF LoopOK, LoopTypes, Rounds
<1>7. \A r \in Rounds : Each(Due(r))' = Each(Due(r))
  BY <1>1, DueSame
<1>8. CacheOK'
  <2>1. \A r \in Rounds : r < Frontier' => cache'[r] = Each(Due(r))'
    BY <1>0, <1>1, <1>2, <1>7 DEF CacheOK
  <2>2. \E X \in SUBSET (visible' \ overtaken') :
          /\ cache'[lastStarted'] = Each(X)
          /\ \A x \in visible' \ overtaken' :
               time'[x] < start'[lastStarted'] => x \in X
    BY <1>0, <1>1 DEF CacheOK
  <2> QED
    BY <2>1, <2>2 DEF CacheOK, Each
<1> QED
  BY <1>0, <1>1, <1>2, <1>3, <1>4, <1>5, <1>6, <1>7, <1>8 DEF LoopTypes, LoopOK

\* The commit brings the standings in memory into the table.
LEMMA CommitInv == ASSUME IInv, Commit PROVE IInv'
<1> USE RoundsCacheAssumption
<1>0. /\ LoopTypes /\ CacheOK /\ TableOK /\ StandingExact
      /\ table \in [Rounds -> Seq(Bag)] /\ cache \in [Rounds -> Bag]
  BY DEF IInv, TypeOK
<1>1. /\ UNCHANGED <<game, lastStarted, next, cache, overtaken, restarts>>
      /\ unwritten' = unwritten /\ failures' = failures
      /\ pc = "sums" /\ next > lastStarted /\ pc' = "rounds"
      /\ lastCached' = lastStarted /\ cache' = cache /\ Update
  BY DEF Commit, history, OpenRound
<1>2. /\ GameOK' /\ LoopTypes' /\ StartsOK' /\ LoopOK' /\ CacheOK'
      /\ lastCached \in Rounds /\ lastStarted \in Rounds
      /\ Frontier = lastStarted /\ lastCached <= lastStarted
      /\ \A r \in Rounds : Each(Due(r))' = Each(Due(r))
  BY <1>0, <1>1, CycleEnds DEF LoopTypes
<1>3. /\ table' \in [Rounds -> Seq(Bag)]
      /\ \A r \in Rounds :
           table'[r] = IF lastCached <= r /\ r <= lastStarted
                       THEN <<cache[r]>> ELSE table[r]
  BY <1>0, <1>1, UpdateWrites
<1>4. TableOK'
  <2> SUFFICES ASSUME NEW r \in Rounds
               PROVE  Len(table'[r]) <= 1 /\ (r > lastCached' => table'[r] = <<>>)
    BY DEF TableOK
  <2>1. CASE r < lastCached
    <3>1. r < lastStarted /\ ~(lastCached <= r)
      BY <2>1, <1>2 DEF Rounds
    <3>2. table'[r] = table[r]
      BY <3>1, <1>3
    <3>3. ~(r > lastCached')
      BY <3>1, <1>1, <1>2 DEF Rounds
    <3> QED
      BY <3>2, <3>3, <1>0, <1>1 DEF TableOK
  <2>2. CASE lastCached <= r /\ r <= lastStarted
    <3>1. table'[r] = <<cache[r]>> /\ ~(r > lastCached')
      BY <2>2, <1>1, <1>2, <1>3 DEF Rounds
    <3> QED
      BY <3>1
  <2>3. CASE r > lastStarted
    <3>1. table'[r] = table[r] /\ r > lastCached
      BY <2>3, <1>2, <1>3 DEF Rounds
    <3> QED
      BY <3>1, <1>0, <1>1 DEF TableOK
  <2> QED
    BY <2>1, <2>2, <2>3, <1>2 DEF Rounds
<1>5. StandingExact'
  <2> SUFFICES ASSUME NEW r \in Rounds, r < lastCached', r \notin unwritten'
               PROVE  table'[r] = <<Each(Due(r))>>'
    BY DEF StandingExact
  <2>1. CASE r < lastCached
    <3>1. table'[r] = table[r]
      BY <2>1, <1>2, <1>3 DEF Rounds
    <3> QED
      BY <2>1, <3>1, <1>0, <1>1, <1>2 DEF StandingExact
  <2>2. CASE lastCached <= r
    <3>1. table'[r] = <<cache[r]>> /\ r < Frontier
      BY <2>2, <1>1, <1>2, <1>3 DEF Rounds
    <3> QED
      BY <3>1, <1>0, <1>2 DEF CacheOK
  <2> QED
    BY <2>1, <2>2, <1>2 DEF Rounds
<1> QED
  BY <1>0, <1>1, <1>2, <1>3, <1>4, <1>5 DEF IInv, TypeOK

\* A rollback leaves the table as it was: what is closed now is unwritten.
LEMMA TransactionFailsInv == ASSUME IInv, TransactionFails PROVE IInv'
<1> USE RoundsCacheAssumption
<1>0. /\ LoopTypes /\ LoopOK /\ TableOK /\ StandingExact
      /\ table \in [Rounds -> Seq(Bag)] /\ cache \in [Rounds -> Bag]
  BY DEF IInv, TypeOK
<1>1. /\ UNCHANGED <<game, lastStarted, next, cache, overtaken, restarts>>
      /\ failures < MaxFailures /\ failures' = failures + 1
      /\ unwritten' = unwritten \cup {r \in Rounds : lastCached <= r /\ r < lastStarted}
      /\ pc = "sums" /\ next > lastStarted /\ pc' = "rounds"
      /\ lastCached' = lastStarted /\ cache' = cache /\ table' = table
  BY DEF TransactionFails, OpenRound
<1>2. /\ GameOK' /\ LoopTypes' /\ StartsOK' /\ LoopOK' /\ CacheOK'
      /\ lastCached \in Rounds /\ lastStarted \in Rounds
      /\ Frontier = lastStarted /\ lastCached <= lastStarted
      /\ \A r \in Rounds : Each(Due(r))' = Each(Due(r))
  <2>1. unwritten' \subseteq Rounds /\ failures' \in 0 .. MaxFailures
    BY <1>0, <1>1 DEF LoopTypes
  <2> QED
    BY <2>1, <1>1, CycleEnds
<1>3. TableOK'
  BY <1>0, <1>1, <1>2 DEF TableOK, Rounds
<1>4. StandingExact'
  <2> SUFFICES ASSUME NEW r \in Rounds, r < lastCached', r \notin unwritten'
               PROVE  table'[r] = <<Each(Due(r))>>'
    BY DEF StandingExact
  <2>1. r < lastCached /\ r \notin unwritten
    BY <1>1, <1>2 DEF Rounds
  <2> QED
    BY <2>1, <1>0, <1>1, <1>2 DEF StandingExact
<1> QED
  BY <1>0, <1>1, <1>2, <1>3, <1>4 DEF IInv, TypeOK

\* The end of the process, whose last commit may have arrived, and its restart.
LEMMA DieRestartInv == ASSUME IInv, Die \/ Restart PROVE IInv'
<1> USE RoundsCacheAssumption
<1>0. /\ GameOK /\ LoopTypes /\ StartsOK /\ LoopOK /\ CacheOK /\ TableOK
      /\ StandingExact
      /\ table \in [Rounds -> Seq(Bag)] /\ cache \in [Rounds -> Bag]
  BY DEF IInv, TypeOK
<1>1. /\ now' = now /\ start' = start /\ started' = started /\ time' = time
      /\ visible' = visible /\ failures' = failures
      /\ overtaken' = overtaken /\ unwritten' = unwritten
      /\ lastStarted' = lastStarted /\ lastCached' = lastCached
      /\ next' = next /\ cache' = cache
  BY DEF Die, Restart, game, memory, history
<1>2. /\ restarts' \in 0 .. MaxRestarts /\ pc' \in {"start", "down"}
      /\ table' = table \/ (pc = "sums" /\ Update)
  BY <1>0 DEF Die, Restart, LoopTypes, history
<1>3. /\ table' \in [Rounds -> Seq(Bag)]
      /\ \A r \in Rounds : r < lastCached => table'[r] = table[r]
  <2>1. CASE table' = table
    BY <2>1, <1>0
  <2>2. CASE pc = "sums" /\ Update
    <3>1. /\ table' \in [Rounds -> Seq(Bag)]
          /\ \A r \in Rounds :
               table'[r] = IF lastCached <= r /\ r <= lastStarted
                           THEN <<cache[r]>> ELSE table[r]
      BY <2>2, <1>0, UpdateWrites
    <3> QED
      BY <3>1, <1>0 DEF LoopTypes, Rounds
  <2> QED
    BY <1>2, <2>1, <2>2
<1>4. Frontier' = Frontier
  BY <1>1 DEF Frontier
<1>5. \A r \in Rounds : Each(Due(r))' = Each(Due(r))
  BY <1>1, DueSame
<1>6. GameOK'
  BY <1>0, <1>1 DEF GameOK
<1>7. LoopTypes'
  BY <1>0, <1>1, <1>2 DEF LoopTypes
<1>8. StartsOK'
  BY <1>0, <1>1 DEF StartsOK
<1>9. LoopOK'
  BY <1>0, <1>1, <1>2, <1>4 DEF LoopOK
<1>10. CacheOK'
  <2>1. \A r \in Rounds : r < Frontier' => cache'[r] = Each(Due(r))'
    BY <1>0, <1>1, <1>4, <1>5 DEF CacheOK
  <2>2. next' > lastStarted' =>
          \E X \in SUBSET (visible' \ overtaken') :
            /\ cache'[lastStarted'] = Each(X)
            /\ \A x \in visible' \ overtaken' :
                 time'[x] < start'[lastStarted'] => x \in X
    BY <1>0, <1>1 DEF CacheOK
  <2> QED
    BY <2>1, <2>2 DEF CacheOK, Each
<1>11. TableOK'
  BY <1>2 DEF TableOK
<1>12. StandingExact'
  BY <1>0, <1>1, <1>3, <1>5 DEF StandingExact
<1> QED
  BY <1>0, <1>1, <1>3, <1>6, <1>7, <1>8, <1>9, <1>10, <1>11, <1>12 DEF IInv, TypeOK

\* Nothing changes.
LEMMA StutterInv == ASSUME IInv, UNCHANGED vars PROVE IInv'
<1>1. /\ now' = now /\ start' = start /\ started' = started /\ time' = time
      /\ visible' = visible /\ failures' = failures /\ restarts' = restarts
      /\ overtaken' = overtaken /\ unwritten' = unwritten
      /\ lastStarted' = lastStarted /\ lastCached' = lastCached
      /\ next' = next /\ cache' = cache /\ table' = table /\ pc' = pc
  BY DEF vars, game, memory, history
<1>2. /\ GameOK /\ LoopTypes /\ StartsOK /\ LoopOK /\ CacheOK /\ TableOK
      /\ StandingExact
      /\ table \in [Rounds -> Seq(Bag)] /\ cache \in [Rounds -> Bag]
  BY DEF IInv, TypeOK
<1>3. \A r \in Rounds : Each(Due(r))' = Each(Due(r))
  BY <1>1, DueSame
<1>4. GameOK' /\ StartsOK'
  BY <1>1, <1>2 DEF GameOK, StartsOK
<1>5. LoopTypes'
  BY <1>1, <1>2 DEF LoopTypes
<1>6. LoopOK'
  BY <1>1, <1>2 DEF LoopOK, Frontier
<1>7. CacheOK'
  BY <1>1, <1>2, <1>3 DEF CacheOK, Frontier, Each
<1>8. TableOK' /\ StandingExact'
  BY <1>1, <1>2, <1>3 DEF TableOK, StandingExact
<1> QED
  BY <1>1, <1>2, <1>4, <1>5, <1>6, <1>7, <1>8 DEF IInv, TypeOK

\* The standings in memory are exact up to the frontier, in every reachable
\* state: for any rows and rounds, any order of their transactions, and any
\* failures and crashes of the process (roundsCache/Main 83-245).
THEOREM Invariance == Spec => []IInv
<1>1. Init => IInv
  BY InitInv
<1>2. IInv /\ [Next]_vars => IInv'
  <2> SUFFICES ASSUME IInv, [Next]_vars PROVE IInv'
    OBVIOUS
  <2>1. CASE Process
    BY <2>1, DeleteCacheInv, GetStartedRoundsInv, GetScoreInv, CommitInv,
       TransactionFailsInv DEF Process
  <2>2. CASE Die \/ Restart
    BY <2>2, DieRestartInv
  <2>3. CASE Game
    BY <2>3, TickInv, BeginRoundInv, CommitRoundInv, BeginInv, EndInv DEF Game
  <2>4. CASE UNCHANGED vars
    BY <2>4, StutterInv
  <2> QED
    BY <2>1, <2>2, <2>3, <2>4 DEF Next
<1> QED
  BY <1>1, <1>2, PTL DEF Spec

\* Every variable keeps its type; a score is counted a natural number of times.
THEOREM TypeCorrect == Spec => []TypeOK
<1>1. IInv => TypeOK
  BY DEF IInv
<1> QED
  BY <1>1, Invariance, PTL

\* The standing after a closed round is in the table once and counts each of
\* its scores once: whatever else is committed, fails or crashes
\* (roundsCache/Main 142-245).
THEOREM StandingsExact == Spec => []StandingExact
<1>1. IInv => StandingExact
  BY DEF IInv
<1> QED
  BY <1>1, Invariance, PTL

(***************************************************************************)
(* The chart.  A copy of the table is exact up to its last round, which no *)
(* later table takes away; so a page that knows an older copy is missing   *)
(* only what comes from its last round on.                                 *)
(***************************************************************************)

\* A set of natural numbers has a least element.
LEMMA LeastNat ==
  ASSUME NEW T, T \subseteq Nat, T # {}
  PROVE  \E x \in T : \A y \in T : x <= y
<1>1. \E x \in T : \A y \in T : ~(<<y, x>> \in OpToRel(<, Nat))
  BY NatLessThanWellFounded, WFMin, Zenon
<1>2. PICK x \in T : \A y \in T : ~(<<y, x>> \in OpToRel(<, Nat))
  BY <1>1
<1>3. ASSUME NEW y \in T PROVE x <= y
  <2>1. ~(y < x)
    BY <1>2 DEF OpToRel
  <2> QED
    BY <2>1
<1> QED
  BY <1>3

\* Min is the least element.
LEMMA MinIs ==
  ASSUME NEW T, T \subseteq Nat, NEW m \in T, \A y \in T : m <= y
  PROVE  Min(T) = m
<1>1. \E x \in T : \A y \in T : x <= y
  OBVIOUS
<1>2. Min(T) \in T /\ \A y \in T : Min(T) <= y
  BY <1>1 DEF Min
<1>3. Min(T) \in Nat /\ m \in Nat
  BY <1>2
<1>4. Min(T) <= m /\ m <= Min(T)
  BY <1>2
<1> QED
  BY <1>3, <1>4

\* What FlattenSeq has after each of its sequences.
Flattened(T, s, f) ==
  /\ f \in [1 .. Len(s) -> Seq(T)]
  /\ f[1] = s[1] /\ \A i \in 2 .. Len(s) : f[i] = f[i - 1] \o s[i]

LEMMA FlattenExists ==
  ASSUME NEW T, NEW s \in Seq(Seq(T)), s # <<>>
  PROVE  \E f : Flattened(T, s, f)
<1> DEFINE N == Len(s)
           F == [1 .. N -> Seq(T)]
           Right(f, n) == f[1] = s[1] /\ \A i \in 2 .. n : f[i] = f[i - 1] \o s[i]
           Short == {n \in 1 .. N : ~ \E f \in F : Right(f, n)}
<1>1. N \in Nat /\ N >= 1 /\ \A i \in 1 .. N : s[i] \in Seq(T)
  BY EmptySeq
<1> HIDE DEF N
<1>2. \E f \in F : Right(f, 1)
  <2> DEFINE f == [i \in 1 .. N |-> s[1]]
  <2>1. f \in F /\ f[1] = s[1]
    BY <1>1
  <2> HIDE DEF f, F
  <2>2. Right(f, 1)
    BY <2>1
  <2> QED
    BY <2>1, <2>2
<1>3. ASSUME NEW n \in 1 .. N - 1, NEW f \in F, Right(f, n)
      PROVE  \E g \in F : Right(g, n + 1)
  <2>1. n + 1 \in 1 .. N /\ n \in 1 .. N /\ n \in Nat
    BY <1>1
  <2>2. f[n] \o s[n + 1] \in Seq(T)
    BY <1>1, <2>1, ConcatProperties
  <2> DEFINE g == [f EXCEPT ![n + 1] = f[n] \o s[n + 1]]
  <2>3. g \in F
    BY <2>1, <2>2
  <2>4. \A i \in 1 .. n : g[i] = f[i]
    BY <2>1
  <2>5. g[n + 1] = f[n] \o s[n + 1]
    BY <2>1
  <2> HIDE DEF g, F
  <2>6. g[1] = s[1]
    BY <1>3, <2>1, <2>4
  <2>7. ASSUME NEW i \in 2 .. n + 1 PROVE g[i] = g[i - 1] \o s[i]
    <3>1. CASE i = n + 1
      <4>1. i - 1 = n /\ n \in 1 .. n
        BY <2>1, <3>1
      <4>2. g[n] = f[n]
        BY <2>4, <4>1
      <4> QED
        BY <2>5, <3>1, <4>1, <4>2
    <3>2. CASE i # n + 1
      <4>1. i \in 2 .. n /\ i \in 1 .. n /\ i - 1 \in 1 .. n
        BY <2>1, <3>2
      <4> QED
        BY <1>3, <2>4, <4>1
    <3> QED
      BY <3>1, <3>2
  <2> QED
    BY <2>3, <2>6, <2>7
<1> HIDE DEF Right, F
<1>4. Short = {}
  <2> SUFFICES ASSUME Short # {} PROVE FALSE
    OBVIOUS
  <2>1. PICK n \in Short : \A m \in Short : n <= m
    <3>1. Short \subseteq Nat
      OBVIOUS
    <3> HIDE DEF Short
    <3> QED
      BY <3>1, LeastNat
  <2>2. n # 1 /\ n \in 1 .. N /\ ~ \E f \in F : Right(f, n)
    BY <1>2
  <2>3. n - 1 \in 1 .. N - 1 /\ n - 1 \notin Short /\ n - 1 + 1 = n
    BY <1>1, <2>1, <2>2
  <2>4. PICK f \in F : Right(f, n - 1)
    BY <1>1, <2>3
  <2> QED
    BY <1>3, <2>2, <2>3, <2>4
<1>5. PICK f \in F : Right(f, N)
  <2>1. N \in Nat /\ N >= 1
    BY <1>1
  <2>2. N \in 1 .. N
    BY <2>1
  <2>3. N \notin Short
    BY <1>4
  <2> QED
    BY <2>2, <2>3
<1> QED
  BY <1>5 DEF Flattened, Right, F, N

LEMMA FlattenIs ==
  ASSUME NEW T, NEW s \in Seq(Seq(T)), s # <<>>
  PROVE  \E f : Flattened(T, s, f) /\ FlattenSeq(s) = f[Len(s)]
<1> DEFINE N == Len(s)
           R(f) == f = [i \in 1 .. N |-> IF i = 1 THEN s[i] ELSE f[i - 1] \o s[i]]
           g == CHOOSE f : R(f)
<1>1. N \in Nat /\ N # 0 /\ \A i \in 1 .. N : s[i] \in Seq(T)
  BY EmptySeq
<1>2. FlattenSeq(s) = g[N]
  BY <1>1 DEF FlattenSeq
<1> HIDE DEF N
<1>3. PICK f : Flattened(T, s, f)
  BY FlattenExists
<1>4. f = [i \in 1 .. N |-> f[i]]
  BY <1>3 DEF Flattened, N
<1>5. R(f)
  <2>1. ASSUME NEW i \in 1 .. N
        PROVE  f[i] = IF i = 1 THEN s[i] ELSE f[i - 1] \o s[i]
    <3>1. CASE i = 1
      BY <1>3, <3>1 DEF Flattened
    <3>2. CASE i # 1
      <4>1. i \in 2 .. N
        BY <1>1, <3>2
      <4> QED
        BY <1>3, <3>2, <4>1 DEF Flattened, N
    <3> QED
      BY <3>1, <3>2
  <2> QED
    BY <1>4, <2>1, Zenon
<1> HIDE DEF R
<1>6. R(g)
  BY <1>5
<1> HIDE DEF g
<1>7. g = [i \in 1 .. N |-> IF i = 1 THEN s[i] ELSE g[i - 1] \o s[i]]
  BY <1>6 DEF R
<1>8. \A i \in 1 .. N : g[i] = IF i = 1 THEN s[i] ELSE g[i - 1] \o s[i]
  BY <1>7, Zenon
<1>9. DOMAIN g = 1 .. N
  BY <1>7, Zenon
<1>10. g = [i \in 1 .. N |-> g[i]]
  BY <1>7, <1>9, Zenon
<1> DEFINE Odd == {n \in 1 .. N : g[n] \notin Seq(T)}
<1>11. Odd = {}
  <2> SUFFICES ASSUME Odd # {} PROVE FALSE
    OBVIOUS
  <2>1. PICK n \in Odd : \A m \in Odd : n <= m
    <3>1. Odd \subseteq Nat
      OBVIOUS
    <3> HIDE DEF Odd
    <3> QED
      BY <3>1, LeastNat
  <2>2. n \in 1 .. N /\ g[n] \notin Seq(T)
    OBVIOUS
  <2>3. n # 1
    <3>1. n = 1 => g[n] = s[n]
      BY <1>8, <2>2
    <3> QED
      BY <1>1, <2>2, <3>1
  <2>4. n - 1 \in 1 .. N /\ n - 1 \notin Odd
    BY <1>1, <2>1, <2>2, <2>3
  <2>5. g[n - 1] \in Seq(T)
    BY <2>4
  <2>6. g[n] = g[n - 1] \o s[n]
    BY <1>8, <2>2, <2>3
  <2>7. s[n] \in Seq(T)
    BY <1>1, <2>2
  <2>8. g[n - 1] \o s[n] \in Seq(T)
    BY <2>5, <2>7, ConcatProperties
  <2> QED
    BY <2>2, <2>6, <2>8
<1>12. g \in [1 .. N -> Seq(T)]
  <2>1. \A i \in 1 .. N : g[i] \in Seq(T)
    BY <1>11
  <2> QED
    BY <1>10, <2>1
<1>13. Flattened(T, s, g)
  <2>1. g[1] = s[1]
    BY <1>1, <1>8
  <2>2. ASSUME NEW i \in 2 .. N PROVE g[i] = g[i - 1] \o s[i]
    <3>1. i \in 1 .. N /\ i # 1
      BY <1>1
    <3> QED
      BY <1>8, <3>1
  <2> QED
    BY <1>12, <2>1, <2>2 DEF Flattened, N
<1> QED
  BY <1>2, <1>13 DEF N

Entry == [round : Rounds, standing : Bag]

\* The rows of the rounds below n, in their order.
UpTo(c, n, T) ==
  /\ c \in Seq(Entry)
  /\ \A j, k \in DOMAIN c : j < k => c[j].round < c[k].round
  /\ \A k \in DOMAIN c : c[k].round < n /\ T[c[k].round] = <<c[k].standing>>
  /\ \A r \in Rounds : r < n /\ T[r] # <<>> => \E k \in DOMAIN c : c[k].round = r

RowsOf(T, r) == [j \in DOMAIN T[r] |-> [round |-> r, standing |-> T[r][j]]]

LEMMA RowsTyped ==
  ASSUME NEW T \in [Rounds -> Seq(Bag)], NEW r \in Rounds
  PROVE  RowsOf(T, r) \in Seq(Entry)
<1>1. T[r] \in Seq(Bag) /\ DOMAIN T[r] = 1 .. Len(T[r]) /\ Len(T[r]) \in Nat
  OBVIOUS
<1>2. \A j \in 1 .. Len(T[r]) : [round |-> r, standing |-> T[r][j]] \in Entry
  BY <1>1 DEF Entry
<1> QED
  BY <1>1, <1>2 DEF RowsOf

\* A round more.
LEMMA UpToMore ==
  ASSUME NEW T \in [Rounds -> Seq(Bag)], NEW n \in Rounds, Len(T[n]) <= 1,
         NEW c, UpTo(c, n, T)
  PROVE  UpTo(c \o RowsOf(T, n), n + 1, T)
<1>0. /\ \A r \in Rounds : r \in Int /\ (r < n + 1 <=> r < n \/ r = n)
      /\ T[n] \in Seq(Bag) /\ Len(T[n]) \in Nat
  BY RoundsCacheAssumption DEF Rounds
<1>1. /\ c \in Seq(Entry) /\ DOMAIN c = 1 .. Len(c) /\ Len(c) \in Nat
      /\ \A k \in DOMAIN c : c[k] \in Entry /\ c[k].round \in Rounds
  <2>1. c \in Seq(Entry)
    BY DEF UpTo
  <2>2. DOMAIN c = 1 .. Len(c) /\ Len(c) \in Nat
    BY <2>1
  <2>3. ASSUME NEW k \in DOMAIN c PROVE c[k] \in Entry
    BY <2>1, <2>2, ElementOfSeq
  <2> QED
    BY <2>1, <2>2, <2>3 DEF Entry
<1>2. CASE T[n] = <<>>
  <2>1. RowsOf(T, n) = <<>>
    BY <1>2 DEF RowsOf
  <2>2. c \o RowsOf(T, n) = c
    BY <1>1, <2>1, ConcatEmptySeq
  <2>3. \A r \in Rounds : r < n + 1 /\ T[r] # <<>> => r < n
    BY <1>0, <1>2
  <2>4. \A k \in DOMAIN c : c[k].round < n + 1
    BY <1>0, <1>1 DEF UpTo
  <2> QED
    BY <2>2, <2>3, <2>4 DEF UpTo
<1>3. CASE T[n] # <<>>
  <2> DEFINE e == [round |-> n, standing |-> T[n][1]]
             d == c \o RowsOf(T, n)
  <2>1. Len(T[n]) = 1 /\ T[n][1] \in Bag /\ T[n] = <<T[n][1]>>
    <3>1. Len(T[n]) # 0
      BY <1>0, <1>3, EmptySeq
    <3>4. Len(T[n]) \in Nat /\ Len(T[n]) <= 1
      BY <1>0
    <3>2. Len(T[n]) = 1
      <4> DEFINE m == Len(T[n])
      <4>1. m \in Nat /\ m <= 1 /\ m # 0
        BY <3>1, <3>4
      <4> HIDE DEF m
      <4>2. m = 1
        BY <4>1
      <4> QED
        BY <4>2 DEF m
    <3>5. 1 \in 1 .. Len(T[n])
      BY <3>2
    <3>3. T[n][1] \in Bag
      BY <1>0, <3>5, ElementOfSeq
    <3> QED
      BY <1>0, <3>2, <3>3
  <2>2. RowsOf(T, n) \in Seq(Entry) /\ Len(RowsOf(T, n)) = 1 /\ RowsOf(T, n)[1] = e
    <3>1. RowsOf(T, n) \in Seq(Entry)
      BY RowsTyped
    <3>2. DOMAIN T[n] = 1 .. 1
      BY <1>0, <2>1
    <3>3. RowsOf(T, n) = [j \in 1 .. 1 |-> [round |-> n, standing |-> T[n][j]]]
      BY <3>2 DEF RowsOf
    <3> QED
      BY <3>1, <3>3
  <2>3. e.round = n /\ e.standing = T[n][1]
    OBVIOUS
  <2> HIDE DEF e
  <2>4. /\ d \in Seq(Entry) /\ Len(d) = Len(c) + 1
        /\ \A k \in 1 .. Len(c) : d[k] = c[k]
        /\ d[Len(c) + 1] = e
    <3> HIDE DEF d
    <3>1. d = c \o RowsOf(T, n)
      BY DEF d
    <3> DEFINE w == RowsOf(T, n)
    <3>6. w \in Seq(Entry) /\ Len(w) = 1 /\ w[1] = e
      BY <2>2
    <3> HIDE DEF w
    <3>7. d = c \o w
      BY <3>1 DEF w
    <3>8. /\ Len(c \o w) = Len(c) + Len(w) /\ c \o w \in Seq(Entry)
          /\ \A i \in 1 .. Len(c) + Len(w) :
               (c \o w)[i] = IF i <= Len(c) THEN c[i] ELSE w[i - Len(c)]
      BY <1>1, <3>6, ConcatProperties
    <3>2. d \in Seq(Entry) /\ Len(d) = Len(c) + 1
      BY <3>6, <3>7, <3>8
    <3>3. \A k \in 1 .. Len(c) : d[k] = c[k]
      BY <1>1, <3>6, <3>7, <3>8
    <3>4. d[Len(c) + 1] = RowsOf(T, n)[Len(c) + 1 - Len(c)]
      BY <1>1, <3>6, <3>7, <3>8 DEF w
    <3>5. Len(c) + 1 - Len(c) = 1
      BY <1>1
    <3> QED
      BY <2>2, <3>2, <3>3, <3>4, <3>5
  <2> HIDE DEF d
  <2>5. DOMAIN d = 1 .. Len(c) + 1
    BY <2>4
  <2>6. \A k \in 1 .. Len(c) : c[k].round < n /\ c[k].round \in Int
    BY <1>0, <1>1 DEF UpTo
  <2>7. ASSUME NEW j \in DOMAIN d, NEW k \in DOMAIN d, j < k
        PROVE  d[j].round < d[k].round
    <3>1. j \in 1 .. Len(c) /\ d[j] = c[j]
      BY <1>1, <2>4, <2>5, <2>7
    <3>2. CASE k = Len(c) + 1
      BY <2>3, <2>4, <2>6, <3>1, <3>2
    <3>3. CASE k # Len(c) + 1
      <4>1. k \in 1 .. Len(c) /\ d[k] = c[k]
        BY <1>1, <2>4, <2>5, <3>3
      <4> QED
        BY <1>1, <2>7, <3>1, <4>1 DEF UpTo
    <3> QED
      BY <3>2, <3>3
  <2>8. ASSUME NEW k \in DOMAIN d
        PROVE  d[k].round < n + 1 /\ T[d[k].round] = <<d[k].standing>>
    <3>1. CASE k = Len(c) + 1
      BY <1>0, <2>1, <2>3, <2>4, <3>1
    <3>2. CASE k # Len(c) + 1
      <4>1. k \in 1 .. Len(c) /\ d[k] = c[k]
        BY <1>1, <2>4, <2>5, <3>2
      <4> QED
        BY <1>0, <1>1, <2>6, <4>1 DEF UpTo
    <3> QED
      BY <3>1, <3>2
  <2>9. ASSUME NEW r \in Rounds, r < n + 1, T[r] # <<>>
        PROVE  \E k \in DOMAIN d : d[k].round = r
    <3>1. CASE r = n
      BY <1>1, <2>3, <2>4, <2>5, <3>1
    <3>2. CASE r # n
      <4>1. PICK k \in DOMAIN c : c[k].round = r
        BY <1>0, <2>9, <3>2 DEF UpTo
      <4>2. k \in DOMAIN d /\ d[k] = c[k]
        BY <1>1, <2>4, <2>5
      <4> QED
        BY <4>1, <4>2
    <3> QED
      BY <3>1, <3>2
  <2>10. UpTo(d, n + 1, T)
    BY <2>4, <2>7, <2>8, <2>9 DEF UpTo
  <2> QED
    BY <2>10 DEF d
<1> QED
  BY <1>2, <1>3

\* What the server reads: every row, when no round has two.
LEMMA CacheRowsAre ==
  ASSUME table \in [Rounds -> Seq(Bag)], \A r \in Rounds : Len(table[r]) <= 1
  PROVE  UpTo(CacheRows, MaxRound + 1, table)
<1> DEFINE s == [i \in 1 .. MaxRound + 1 |-> RowsOf(table, i - 1)]
           N == MaxRound + 1
<1>0. MaxRound \in Nat /\ N \in Nat \ {0}
  BY RoundsCacheAssumption
<1>1. \A i \in 1 .. N : i - 1 \in Rounds
  BY <1>0 DEF Rounds
<1>2. \A i \in 1 .. N : RowsOf(table, i - 1) \in Seq(Entry)
  BY <1>1, RowsTyped
<1>3. s \in Seq(Seq(Entry)) /\ Len(s) = N /\ s # <<>>
      /\ \A i \in 1 .. N : s[i] = RowsOf(table, i - 1)
  BY <1>0, <1>2
<1>4. CacheRows = FlattenSeq(s)
  BY DEF CacheRows, RowsOf
<1> HIDE DEF s, N
<1>5. PICK f : Flattened(Entry, s, f) /\ FlattenSeq(s) = f[N]
  BY <1>3, FlattenIs
<1> DEFINE Odd == {n \in 1 .. N : ~UpTo(f[n], n, table)}
<1>6. Odd = {}
  <2> SUFFICES ASSUME Odd # {} PROVE FALSE
    OBVIOUS
  <2>1. PICK n \in Odd : \A m \in Odd : n <= m
    <3>1. Odd \subseteq Nat
      BY <1>0
    <3> HIDE DEF Odd
    <3> QED
      BY <3>1, LeastNat
  <2>2. n \in 1 .. N /\ ~UpTo(f[n], n, table)
    OBVIOUS
  <2>3. n - 1 \in Rounds /\ s[n] = RowsOf(table, n - 1) /\ n - 1 + 1 = n
        /\ Len(table[n - 1]) <= 1 /\ RowsOf(table, n - 1) \in Seq(Entry)
    BY <1>0, <1>1, <1>2, <1>3, <2>2
  <2>4. CASE n = 1
    <3>1. UpTo(<<>>, 0, table)
      BY RoundsCacheAssumption DEF UpTo, Rounds
    <3>5. /\ 0 \in Rounds /\ Len(table[0]) <= 1 /\ s[1] = RowsOf(table, 0)
          /\ RowsOf(table, 0) \in Seq(Entry)
      BY <2>3, <2>4
    <3>2. UpTo(<<>> \o RowsOf(table, 0), 0 + 1, table)
      BY <3>1, <3>5, UpToMore
    <3>3. <<>> \o RowsOf(table, 0) = RowsOf(table, 0)
      BY <3>5, ConcatEmptySeq
    <3>4. f[1] = RowsOf(table, 0)
      BY <1>5, <3>5 DEF Flattened
    <3> QED
      BY <2>2, <2>4, <3>2, <3>3, <3>4
  <2>5. CASE n # 1
    <3>1. n - 1 \in 1 .. N /\ n - 1 \notin Odd /\ n \in 2 .. N
      BY <1>0, <2>1, <2>2, <2>5
    <3>2. UpTo(f[n - 1], n - 1, table)
      BY <3>1
    <3>3. f[n] = f[n - 1] \o RowsOf(table, n - 1)
      BY <1>3, <1>5, <2>3, <3>1 DEF Flattened
    <3>4. UpTo(f[n - 1] \o RowsOf(table, n - 1), n - 1 + 1, table)
      BY <2>3, <3>2, UpToMore
    <3> QED
      BY <2>2, <2>3, <3>3, <3>4
  <2> QED
    BY <2>4, <2>5
<1>7. UpTo(f[N], N, table)
  BY <1>0, <1>6
<1> QED
  BY <1>4, <1>5, <1>7 DEF N

LEMMA CopyElements ==
  ASSUME NEW s, NEW t, NEW n, CopyOK(s, t, n)
  PROVE  /\ s \in Seq(Entry) /\ DOMAIN s = 1 .. Len(s) /\ Len(s) \in Nat
         /\ \A k \in DOMAIN s : s[k].round \in Nat /\ s[k].round \in Rounds
         /\ \A k \in DOMAIN s : s[k] \in Entry
<1>1. s \in Seq(Entry)
  BY DEF CopyOK, Snapshots, Entry
<1>2. DOMAIN s = 1 .. Len(s) /\ Len(s) \in Nat
  BY <1>1
<1>3. ASSUME NEW k \in DOMAIN s PROVE s[k] \in Entry
  BY <1>1, <1>2, ElementOfSeq
<1> QED
  BY <1>1, <1>2, <1>3 DEF Entry, Rounds

\* A copy stays one when the table moves on.
LEMMA CopyKept ==
  ASSUME NEW s, NEW t, NEW n \in Nat, CopyOK(s, t, n), NEW u, NEW m \in Nat, n <= m,
         \A r \in Rounds : r < n => u[r] = t[r],
         \A r \in Rounds : t[r] # <<>> => u[r] # <<>>
  PROVE  CopyOK(s, u, m)
<1>1. /\ s \in Snapshots /\ DOMAIN s = 1 .. Len(s) /\ Len(s) \in Nat
      /\ \A k \in DOMAIN s : s[k].round \in Nat /\ s[k].round \in Rounds
  <2>1. s \in Snapshots
    BY DEF CopyOK
  <2> QED
    BY <2>1, CopyElements
<1>2. /\ \A j, k \in DOMAIN s : j < k => s[j].round < s[k].round
      /\ \A k \in DOMAIN s :
           /\ s[k].round <= n /\ t[s[k].round] # <<>>
           /\ k < Len(s) => t[s[k].round] = <<s[k].standing>>
  BY DEF CopyOK
<1>3. ASSUME NEW k \in DOMAIN s
      PROVE  /\ s[k].round <= m /\ u[s[k].round] # <<>>
             /\ k < Len(s) => u[s[k].round] = <<s[k].standing>>
  <2>1. s[k].round <= m /\ u[s[k].round] # <<>>
    BY <1>1, <1>2
  <2>2. ASSUME k < Len(s) PROVE u[s[k].round] = <<s[k].standing>>
    <3>1. Len(s) \in DOMAIN s
      BY <1>1, <2>2
    <3>2. s[k].round < s[Len(s)].round /\ s[Len(s)].round <= n
      BY <1>2, <2>2, <3>1
    <3>3. s[k].round < n
      BY <1>1, <3>1, <3>2
    <3> QED
      BY <1>1, <1>2, <2>2, <3>3
  <2> QED
    BY <2>1, <2>2
<1>4. ASSUME s # <<>>, NEW r \in Rounds, r < Last(s).round, u[r] # <<>>
      PROVE  \E k \in DOMAIN s : s[k].round = r
  <2>1. Len(s) \in DOMAIN s
    BY <1>1, <1>4 DEF Snapshots
  <2>2. Last(s).round <= n /\ Last(s).round \in Nat
    BY <1>1, <1>2, <2>1 DEF Last
  <2>3. r < n
    BY <1>4, <2>2 DEF Rounds
  <2> QED
    BY <1>4, <2>3 DEF CopyOK
<1> QED
  BY <1>1, <1>2, <1>3, <1>4 DEF CopyOK

\* Of two copies the older one is where the other begins.
LEMMA SameBegin ==
  ASSUME NEW s, NEW w, NEW t, NEW n, CopyOK(s, t, n), CopyOK(w, t, n),
         s # <<>>, w # <<>>, Last(s).round <= Last(w).round
  PROVE  \A k \in DOMAIN s : /\ k \in DOMAIN w /\ w[k].round = s[k].round
                             /\ k < Len(s) => w[k] = s[k]
<1>1. /\ s \in Seq(Entry) /\ DOMAIN s = 1 .. Len(s) /\ Len(s) \in Nat
      /\ \A k \in DOMAIN s : s[k].round \in Nat /\ s[k].round \in Rounds
      /\ \A k \in DOMAIN s : s[k] \in Entry
  BY CopyElements
<1>2. /\ w \in Seq(Entry) /\ DOMAIN w = 1 .. Len(w) /\ Len(w) \in Nat
      /\ \A k \in DOMAIN w : w[k].round \in Nat /\ w[k].round \in Rounds
      /\ \A k \in DOMAIN w : w[k] \in Entry
  BY CopyElements
<1>3. Len(s) \in DOMAIN s /\ Len(w) \in DOMAIN w
  BY <1>1, <1>2
<1>4. /\ \A j, k \in DOMAIN s : j < k => s[j].round < s[k].round
      /\ \A j, k \in DOMAIN w : j < k => w[j].round < w[k].round
      /\ \A k \in DOMAIN s : t[s[k].round] # <<>>
      /\ \A k \in DOMAIN w : t[w[k].round] # <<>>
      /\ \A k \in DOMAIN s : k < Len(s) => t[s[k].round] = <<s[k].standing>>
      /\ \A k \in DOMAIN w : k < Len(w) => t[w[k].round] = <<w[k].standing>>
  BY DEF CopyOK
<1>5. /\ \A r \in Rounds : r < s[Len(s)].round /\ t[r] # <<>> =>
           \E k \in DOMAIN s : s[k].round = r
      /\ \A r \in Rounds : r < w[Len(w)].round /\ t[r] # <<>> =>
           \E k \in DOMAIN w : w[k].round = r
  BY DEF CopyOK, Last
<1>6. s[Len(s)].round <= w[Len(w)].round
  BY DEF Last
<1>7. ASSUME NEW k \in DOMAIN s PROVE s[k].round <= s[Len(s)].round
  BY <1>1, <1>3, <1>4
<1> DEFINE Odd == {k \in DOMAIN s : ~(k \in DOMAIN w /\ w[k].round = s[k].round)}
<1>8. Odd = {}
  <2> SUFFICES ASSUME Odd # {} PROVE FALSE
    OBVIOUS
  <2>1. PICK k \in Odd : \A m \in Odd : k <= m
    <3>1. Odd \subseteq Nat
      BY <1>1
    <3> HIDE DEF Odd
    <3> QED
      BY <3>1, LeastNat
  <2>2. k \in DOMAIN s /\ ~(k \in DOMAIN w /\ w[k].round = s[k].round)
    OBVIOUS
  <2>3. \A m \in DOMAIN s : m < k => m \in DOMAIN w /\ w[m].round = s[m].round
    BY <1>1, <2>1, <2>2
  <2> HIDE DEF Odd
  <2>4. s[k].round <= w[Len(w)].round
    BY <1>1, <1>2, <1>3, <1>6, <1>7, <2>2
  <2>5. PICK j \in DOMAIN w : w[j].round = s[k].round
    <3>1. CASE s[k].round = w[Len(w)].round
      BY <1>3, <3>1
    <3>2. CASE s[k].round # w[Len(w)].round
      <4>1. s[k].round < w[Len(w)].round
        BY <1>1, <1>2, <1>3, <2>2, <2>4, <3>2
      <4> QED
        BY <1>1, <1>4, <1>5, <2>2, <4>1
    <3> QED
      BY <3>1, <3>2
  <2>6. j # k
    BY <2>2, <2>5
  <2>7. CASE j < k
    <3>1. j \in DOMAIN s
      BY <1>1, <1>2, <2>2, <2>7
    <3>2. w[j].round = s[j].round /\ s[j].round < s[k].round
      BY <1>4, <2>2, <2>3, <2>7, <3>1
    <3> QED
      BY <1>1, <2>2, <2>5, <3>1, <3>2
  <2>8. CASE k < j
    <3>1. k \in DOMAIN w
      BY <1>1, <1>2, <2>2, <2>8
    <3>2. w[k].round < w[j].round
      BY <1>4, <2>8, <3>1
    <3>3. w[k].round < s[Len(s)].round
      BY <1>1, <1>2, <1>3, <1>7, <2>2, <2>5, <3>1, <3>2
    <3>4. PICK i \in DOMAIN s : s[i].round = w[k].round
      BY <1>2, <1>4, <1>5, <3>1, <3>3
    <3>5. s[i].round < s[k].round
      BY <2>5, <3>2, <3>4
    <3>6. i < k
      <4>1. CASE i = k
        BY <1>1, <2>2, <3>5, <4>1
      <4>2. CASE k < i
        <5>1. s[k].round < s[i].round
          BY <1>4, <2>2, <4>2
        <5> QED
          BY <1>1, <2>2, <3>5, <5>1
      <4>3. i \in Nat /\ k \in Nat
        BY <1>1, <2>2
      <4> QED
        BY <4>1, <4>2, <4>3
    <3>7. i \in DOMAIN w /\ w[i].round = s[i].round
      BY <2>3, <3>6
    <3>8. w[i].round < w[k].round
      BY <1>4, <3>1, <3>6, <3>7
    <3> QED
      BY <1>2, <3>1, <3>4, <3>7, <3>8
  <2>9. j \in Nat /\ k \in Nat
    BY <1>1, <1>2, <2>2
  <2> QED
    BY <2>6, <2>7, <2>8, <2>9
<1>9. ASSUME NEW k \in DOMAIN s, k < Len(s) PROVE w[k] = s[k]
  <2>1. k \in DOMAIN w /\ w[k].round = s[k].round
    BY <1>8
  <2>2. s[k].round < s[Len(s)].round
    BY <1>3, <1>4, <1>9
  <2>3. w[k].round < w[Len(w)].round
    BY <1>1, <1>2, <1>3, <1>6, <2>1, <2>2
  <2>4. k < Len(w)
    <3>1. k # Len(w)
      BY <1>2, <1>3, <2>3
    <3> QED
      BY <1>2, <2>1, <3>1
  <2>5. <<s[k].standing>> = <<w[k].standing>>
    BY <1>4, <1>9, <2>1, <2>4
  <2>6. s[k].standing = w[k].standing
    BY <2>5
  <2> QED
    BY <1>1, <1>2, <2>1, <2>6 DEF Entry
<1> QED
  BY <1>8, <1>9

\* The rounds of a copy are at least its positions, counted from 0.
LEMMA RoundAtLeast ==
  ASSUME NEW s, NEW t, NEW n, CopyOK(s, t, n)
  PROVE  \A k \in DOMAIN s : k - 1 <= s[k].round
<1>1. /\ DOMAIN s = 1 .. Len(s) /\ Len(s) \in Nat
      /\ \A k \in DOMAIN s : s[k].round \in Nat
      /\ \A j, k \in DOMAIN s : j < k => s[j].round < s[k].round
  <2>1. \A j, k \in DOMAIN s : j < k => s[j].round < s[k].round
    BY DEF CopyOK
  <2> QED
    BY <2>1, CopyElements
<1> DEFINE Odd == {k \in DOMAIN s : ~(k - 1 <= s[k].round)}
<1>2. Odd = {}
  <2> SUFFICES ASSUME Odd # {} PROVE FALSE
    OBVIOUS
  <2>1. PICK k \in Odd : \A m \in Odd : k <= m
    <3>1. Odd \subseteq Nat
      BY <1>1
    <3> HIDE DEF Odd
    <3> QED
      BY <3>1, LeastNat
  <2>2. k \in DOMAIN s /\ ~(k - 1 <= s[k].round) /\ k \in Nat
    BY <1>1
  <2>3. k # 1
    BY <1>1, <2>2
  <2>4. k - 1 \in DOMAIN s /\ k - 1 < k
    BY <1>1, <2>2, <2>3
  <2>5. k - 1 \notin Odd
    BY <2>1, <2>2
  <2>6. (k - 1) - 1 <= s[k - 1].round
    BY <2>4, <2>5
  <2>7. s[k - 1].round < s[k].round
    BY <1>1, <2>2, <2>4
  <2> QED
    BY <1>1, <2>2, <2>4, <2>6, <2>7
<1> QED
  BY <1>2

\* A beginning, the rest and nothing.
LEMMA JoinIs ==
  ASSUME NEW S, NEW w \in Seq(S), NEW m \in 1 .. Len(w), NEW a \in Seq(S),
         Len(a) = m - 1, \A k \in 1 .. m - 1 : a[k] = w[k]
  PROVE  /\ SubSeq(w, m, Len(w)) \in Seq(S)
         /\ Len(SubSeq(w, m, Len(w))) = Len(w) - m + 1
         /\ SubSeq(w, m, Len(w))[1] = w[m]
         /\ SubSeq(w, m, Len(w))[Len(w) - m + 1] = w[Len(w)]
         /\ a \o SubSeq(w, m, Len(w)) \o <<>> = w
<1> DEFINE b == SubSeq(w, m, Len(w))
           n == Len(w)
<1>1. n \in Nat /\ m \in 1 .. n /\ n \in 1 .. n /\ m <= n
  OBVIOUS
<1>2. \A k \in m .. n : w[k] \in S
  BY <1>1, ElementOfSeq
<1>3. /\ b \in Seq(S) /\ Len(b) = n - m + 1
      /\ \A k \in 1 .. n - m + 1 : b[k] = w[m + k - 1]
  BY <1>1, <1>2, SubSeqProperties
<1> HIDE DEF b, n
<1>4. b[1] = w[m]
  <2>1. 1 \in 1 .. n - m + 1 /\ m + 1 - 1 = m
    BY <1>1
  <2> QED
    BY <1>3, <2>1
<1>5. b[n - m + 1] = w[n]
  <2>1. n - m + 1 \in 1 .. n - m + 1 /\ m + (n - m + 1) - 1 = n
    BY <1>1
  <2> QED
    BY <1>3, <2>1
<1>6. /\ a \o b \in Seq(S) /\ Len(a \o b) = Len(a) + Len(b)
      /\ \A k \in 1 .. Len(a) + Len(b) :
           (a \o b)[k] = IF k <= Len(a) THEN a[k] ELSE b[k - Len(a)]
  BY <1>3, ConcatProperties
<1>7. Len(a) + Len(b) = n
  BY <1>1, <1>3
<1>8. ASSUME NEW k \in 1 .. n PROVE (a \o b)[k] = w[k]
  <2>1. CASE k <= Len(a)
    <3>1. k \in 1 .. m - 1
      BY <1>1, <2>1
    <3> QED
      BY <1>6, <1>7, <2>1, <3>1
  <2>2. CASE ~(k <= Len(a))
    <3>1. k - Len(a) \in 1 .. n - m + 1 /\ m + (k - Len(a)) - 1 = k
      BY <1>1, <2>2
    <3>2. b[k - Len(a)] = w[k]
      BY <1>3, <3>1
    <3> QED
      BY <1>6, <1>7, <2>2, <3>2
  <2> QED
    BY <2>1, <2>2
<1>9. a \o b = w
  BY <1>6, <1>7, <1>8, SeqEqual DEF n
<1>10. (a \o b) \o <<>> = a \o b
  BY <1>6, ConcatEmptySeq
<1> QED
  BY <1>3, <1>4, <1>5, <1>9, <1>10 DEF b, n

\* The rest of the server's copy, from a place that the page has, makes the
\* page's chart the server's copy.
LEMMA PageCatchesUp ==
  ASSUME CopyOK(chart, table, lastCached), CopyOK(web, table, lastCached),
         web # <<>>, chart # <<>> => Last(chart).round <= Last(web).round,
         NEW m \in 1 .. Len(web), chart # <<>> => m <= Len(chart),
         chart = <<>> => m = 1
  PROVE  LET data == SubSeq(web, m, Len(web))
         IN  /\ data # <<>> /\ Last(data) = Last(web)
             /\ Len(data) = Len(web) - m + 1
             /\ AddDataToHistory(data) = web
<1> DEFINE data == SubSeq(web, m, Len(web))
           from == {k \in DOMAIN chart : chart[k].round >= data[1].round}
           i == IF from = {} THEN Len(chart) ELSE Min(from) - 1
           a == SubSeq(chart, 1, i)
           z == SubSeq(chart, i + Len(data) + 1, Len(chart))
<1>1. /\ chart \in Seq(Entry) /\ DOMAIN chart = 1 .. Len(chart) /\ Len(chart) \in Nat
      /\ \A k \in DOMAIN chart : chart[k] \in Entry /\ chart[k].round \in Nat
  BY CopyElements
<1>2. /\ web \in Seq(Entry) /\ DOMAIN web = 1 .. Len(web) /\ Len(web) \in Nat
      /\ \A k \in DOMAIN web : web[k].round \in Nat
      /\ \A j, k \in DOMAIN web : j < k => web[j].round < web[k].round
  <2>1. \A j, k \in DOMAIN web : j < k => web[j].round < web[k].round
    BY DEF CopyOK
  <2> QED
    BY <2>1, CopyElements
<1>3. m \in DOMAIN web /\ m \in Nat /\ m >= 1 /\ m <= Len(web)
  BY <1>2
<1>4. /\ \A k \in DOMAIN chart : /\ k \in DOMAIN web
                                 /\ web[k].round = chart[k].round
                                 /\ k < Len(chart) => web[k] = chart[k]
      /\ Len(chart) <= Len(web)
  <2>1. CASE chart = <<>>
    BY <1>1, <1>2, <2>1
  <2>2. CASE chart # <<>>
    <3>1. \A k \in DOMAIN chart : /\ k \in DOMAIN web
                                  /\ web[k].round = chart[k].round
                                  /\ k < Len(chart) => web[k] = chart[k]
      BY <2>2, SameBegin
    <3>2. Len(chart) \in DOMAIN chart
      BY <1>1, <2>2, EmptySeq
    <3>3. Len(chart) \in DOMAIN web
      BY <3>1, <3>2
    <3> QED
      BY <1>1, <1>2, <3>1, <3>3
  <2> QED
    BY <2>1, <2>2
<1>5. /\ data \in Seq(Entry) /\ Len(data) = Len(web) - m + 1
      /\ data[1] = web[m] /\ data[Len(web) - m + 1] = web[Len(web)]
  <2> DEFINE b == SubSeq(web, 1, m - 1)
  <2>1. \A k \in 1 .. m - 1 : web[k] \in Entry
    BY <1>2, <1>3, ElementOfSeq
  <2>2. /\ b \in Seq(Entry) /\ Len(b) = m - 1
        /\ \A k \in 1 .. m - 1 : b[k] = web[k]
    BY <1>3, <2>1, SubSeqProperties
  <2> HIDE DEF b
  <2> QED
    BY <1>2, <2>2, JoinIs
<1> HIDE DEF data
<1>6. data # <<>> /\ Last(data) = Last(web)
  <2>1. Len(data) # 0
    BY <1>2, <1>3, <1>5
  <2> QED
    BY <1>5, <2>1 DEF Last
<1>7. i = m - 1 /\ m - 1 <= Len(chart)
  <2>1. CASE chart = <<>>
    <3>1. from = {} /\ Len(chart) = 0 /\ m = 1
      BY <1>1, <2>1
    <3> QED
      BY <3>1
  <2>2. CASE chart # <<>>
    <3>1. m \in DOMAIN chart /\ m <= Len(chart)
      BY <1>1, <1>3, <2>2
    <3>2. m \in from
      BY <1>1, <1>4, <1>5, <3>1
    <3>3. \A k \in from : m <= k
      <4> TAKE k \in from
      <4>1. k \in DOMAIN chart /\ k \in DOMAIN web /\ web[k].round >= web[m].round
        BY <1>4, <1>5
      <4>2. ~(k < m)
        BY <1>2, <1>3, <4>1
      <4> QED
        BY <1>2, <1>3, <4>1, <4>2
    <3>4. from \subseteq Nat
      BY <1>1
    <3> HIDE DEF from
    <3>5. Min(from) = m
      BY <3>2, <3>3, <3>4, MinIs
    <3> QED
      BY <1>3, <3>1, <3>2, <3>5
  <2> QED
    BY <2>1, <2>2
<1> HIDE DEF from
<1>8. AddDataToHistory(data) = a \o data \o z
  BY DEF AddDataToHistory, from
<1> HIDE DEF i
<1>9. /\ a \in Seq(Entry) /\ Len(a) = m - 1
      /\ \A k \in 1 .. m - 1 : a[k] = web[k]
  <2>1. \A k \in 1 .. m - 1 : k \in DOMAIN chart /\ k < Len(chart)
    <3>1. chart = <<>> => m = 1
      OBVIOUS
    <3>2. chart # <<>> => m <= Len(chart)
      OBVIOUS
    <3> QED
      BY <1>1, <1>3, <3>1, <3>2
  <2>2. \A k \in 1 .. m - 1 : chart[k] \in Entry /\ chart[k] = web[k]
    BY <1>1, <1>4, <2>1
  <2>3. /\ SubSeq(chart, 1, m - 1) \in Seq(Entry)
        /\ Len(SubSeq(chart, 1, m - 1)) = m - 1
        /\ \A k \in 1 .. m - 1 : SubSeq(chart, 1, m - 1)[k] = chart[k]
    BY <1>3, <2>2, SubSeqProperties
  <2> QED
    BY <1>7, <2>2, <2>3
<1>10. z = <<>>
  <2>1. i + Len(data) + 1 = Len(web) + 1
    <3> DEFINE p == Len(data)
               q == Len(web)
    <3>1. p = q - m + 1 /\ i = m - 1 /\ q \in Nat /\ m \in Nat
      BY <1>2, <1>3, <1>5, <1>7
    <3> HIDE DEF p, q
    <3>2. i + p + 1 = q + 1
      BY <3>1
    <3> QED
      BY <3>2 DEF p, q
  <2>2. Len(chart) < Len(web) + 1 /\ Len(web) + 1 \in Int
    BY <1>1, <1>2, <1>4
  <2>3. SubSeq(chart, Len(web) + 1, Len(chart)) = <<>>
    BY <1>1, <2>2, SubSeqEmpty
  <2> QED
    BY <2>1, <2>3
<1> HIDE DEF a, z
<1>11. a \o data \o <<>> = web
  <2>1. web \in Seq(Entry)
    BY <1>2
  <2>2. a \o SubSeq(web, m, Len(web)) \o <<>> = web
    BY <1>9, <2>1, JoinIs
  <2> QED
    BY <2>2 DEF data
<1> QED
  BY <1>5, <1>6, <1>8, <1>10, <1>11 DEF data

(***************************************************************************)
(* The steps of ScoreChart.                                                *)
(***************************************************************************)

\* A step of roundsCache, while it has not been restarted.
LEMMA ChartKept ==
  ASSUME IInv, IInv', ChartIInv, restarts = 0 \/ restarts' # 0,
         UNCHANGED <<web, page>>, pc' # "down",
         pc' = "start" => pc = "start" /\ table' = table,
         lastCached <= lastCached',
         \A r \in Rounds : r < lastCached => table'[r] = table[r],
         \A r \in Rounds : table[r] # <<>> => table'[r] # <<>>
  PROVE  ChartIInv'
<1> SUFFICES ASSUME restarts' = 0
             PROVE  /\ pc' # "down"
                    /\ pc' = "start" => \A r \in Rounds : table'[r] = <<>>
                    /\ web' # None => CopyOK(web', table', lastCached')
                    /\ CopyOK(chart', table', lastCached')
                    /\ asked' \in Nat /\ PageOK'
  BY DEF ChartIInv
<1>1. /\ web' = web /\ chart' = chart /\ asked' = asked /\ known' = known
  BY DEF page
<1>2. /\ pc = "start" => \A r \in Rounds : table[r] = <<>>
      /\ web # None => CopyOK(web, table, lastCached)
      /\ CopyOK(chart, table, lastCached) /\ asked \in Nat /\ PageOK
  BY DEF ChartIInv
<1>3. lastCached \in Nat /\ lastCached' \in Nat
  BY RoundsCacheAssumption DEF IInv, TypeOK, LoopTypes, Rounds
<1>4. CopyOK(chart, table', lastCached')
  BY <1>2, <1>3, CopyKept
<1>5. web # None => CopyOK(web, table', lastCached')
  BY <1>2, <1>3, CopyKept
<1>6. PageOK'
  BY <1>1, <1>2 DEF PageOK
<1> QED
  BY <1>1, <1>2, <1>4, <1>5, <1>6

\* The first cycle starts with a page that knows nothing.
LEMMA DeleteCacheChart ==
  ASSUME IInv, ChartIInv, DeleteCache, UNCHANGED <<web, page>>
  PROVE  ChartIInv'
<1> SUFFICES ASSUME restarts' = 0 PROVE ChartIInv'
  BY DEF ChartIInv
<1>1. /\ web' = web /\ chart' = chart /\ asked' = asked /\ known' = known
      /\ pc = "start" /\ pc' = "rounds" /\ restarts = 0
  BY DEF page, DeleteCache
<1>2. /\ \A r \in Rounds : table[r] = <<>>
      /\ web # None => CopyOK(web, table, lastCached)
      /\ CopyOK(chart, table, lastCached) /\ asked \in Nat /\ PageOK
  BY <1>1 DEF ChartIInv
<1>3. ASSUME NEW s, CopyOK(s, table, lastCached) PROVE s = <<>>
  <2>1. /\ DOMAIN s = 1 .. Len(s) /\ Len(s) \in Nat /\ s \in Seq(Entry)
        /\ \A k \in DOMAIN s : s[k].round \in Rounds
    BY <1>3, CopyElements
  <2>2. \A k \in DOMAIN s : table[s[k].round] # <<>>
    BY <1>3 DEF CopyOK
  <2>3. \A k \in DOMAIN s : FALSE
    BY <1>2, <2>1, <2>2
  <2>4. Len(s) = 0
    BY <2>1, <2>3
  <2> QED
    BY <2>1, <2>4, EmptySeq
<1>4. chart = <<>> /\ (web # None => web = <<>>)
  BY <1>2, <1>3
<1>5. CopyOK(<<>>, table', lastCached')
  BY DEF CopyOK, Snapshots
<1>6. (web # None => CopyOK(web, table, lastCached))'
  BY <1>1, <1>4, <1>5
<1>7. CopyOK(chart, table, lastCached)'
  BY <1>1, <1>4, <1>5
<1>8. PageOK'
  BY <1>1, <1>2 DEF PageOK
<1> QED
  BY <1>1, <1>2, <1>6, <1>7, <1>8 DEF ChartIInv

LEMMA RoundsCacheChart ==
  ASSUME IInv, IInv', ChartIInv, Next, UNCHANGED <<web, page>>
  PROVE  ChartIInv'
<1>0. /\ LoopTypes /\ LoopOK /\ table \in [Rounds -> Seq(Bag)]
      /\ lastCached \in Nat /\ lastStarted \in Nat
  BY RoundsCacheAssumption DEF IInv, TypeOK, LoopTypes, Rounds
<1>1. CASE DeleteCache
  BY <1>1, DeleteCacheChart
<1>2. CASE Commit
  <2>1. /\ pc' = "rounds" /\ lastCached' = lastStarted /\ Update
        /\ restarts' = restarts
    BY <1>2 DEF Commit, OpenRound, history
  <2>2. \A r \in Rounds : r < lastCached => table'[r] = table[r]
    BY <1>0, <2>1 DEF Update, Rounds
  <2>3. ASSUME NEW r \in Rounds, table[r] # <<>> PROVE table'[r] # <<>>
    <3>1. table[r] \in Seq(Bag) /\ table'[r] \in {table[r], Written(r)}
      BY <1>0, <2>1 DEF Update
    <3>2. Len(table[r]) \in Nat /\ Len(table[r]) # 0
          /\ DOMAIN table[r] = 1 .. Len(table[r])
      BY <2>3, <3>1, EmptySeq
    <3>3. Len(Append(table[r], cache[r])) # 0
      <4>1. cache[r] \in Bag
        BY DEF IInv, TypeOK
      <4>2. Len(Append(table[r], cache[r])) = Len(table[r]) + 1
        BY <3>1, <4>1, AppendProperties
      <4> QED
        BY <3>2, <4>2
    <3>4. [i \in DOMAIN table[r] |-> cache[r]] # <<>>
      <4>1. 1 \in DOMAIN table[r]
        BY <3>2
      <4>2. DOMAIN [i \in DOMAIN table[r] |-> cache[r]] = DOMAIN table[r]
        OBVIOUS
      <4>3. DOMAIN <<>> = {}
        OBVIOUS
      <4> QED
        BY <4>1, <4>2, <4>3
    <3>5. Append(table[r], cache[r]) # <<>>
      <4>1. Len(<<>>) = 0
        OBVIOUS
      <4> DEFINE longer == Append(table[r], cache[r])
      <4>2. Len(longer) # 0
        BY <3>3
      <4> HIDE DEF longer
      <4>3. longer # <<>>
        BY <4>1, <4>2
      <4> QED
        BY <4>3 DEF longer
    <3> QED
      BY <2>3, <3>1, <3>4, <3>5 DEF Written
  <2> QED
    BY <1>0, <2>1, <2>2, <2>3, ChartKept DEF LoopOK
<1>3. CASE TransactionFails
  <2>1. /\ pc' = "rounds" /\ lastCached' = lastStarted /\ table' = table
        /\ restarts' = restarts
    BY <1>3 DEF TransactionFails, OpenRound, history
  <2> QED
    BY <1>0, <2>1, ChartKept DEF LoopOK
<1>4. CASE Die
  BY <1>0, <1>4 DEF Die, ChartIInv, LoopTypes
<1>5. CASE Restart
  <2>1. pc = "down" /\ restarts' = restarts
    BY <1>5 DEF Restart, history
  <2> QED
    BY <2>1 DEF ChartIInv
<1>6. CASE GetStartedRounds \/ GetScore
  <2>1. /\ pc' = "sums" /\ lastCached' = lastCached /\ table' = table
        /\ restarts' = restarts
    BY <1>6 DEF GetStartedRounds, GetScore, history
  <2> QED
    BY <1>0, <2>1, ChartKept
<1>7. CASE Game
  <2>1. /\ pc' = pc /\ lastCached' = lastCached /\ table' = table
        /\ restarts' = restarts
    BY <1>7
       DEF Game, Tick, BeginRound, CommitRound, Begin, End, memory, history
  <2>2. CASE pc = "down"
    BY <2>1, <2>2 DEF ChartIInv
  <2>3. CASE pc # "down"
    BY <1>0, <2>1, <2>3, ChartKept
  <2> QED
    BY <2>2, <2>3
<1> QED
  BY <1>1, <1>2, <1>3, <1>4, <1>5, <1>6, <1>7 DEF Next, Process

\* The server reads a copy that has all a page has.
LEMMA UpdateCacheChart ==
  ASSUME IInv, ChartIInv, UpdateCache PROVE ChartIInv'
<1> SUFFICES ASSUME restarts' = 0 PROVE ChartIInv'
  BY DEF ChartIInv
<1>1. /\ web' = CacheRows /\ chart' = chart /\ asked' = asked /\ known' = known
      /\ pc' = pc /\ restarts' = restarts /\ table' = table
      /\ lastCached' = lastCached
  BY DEF UpdateCache, page, vars, memory, history
<1>2. /\ pc # "down"
      /\ pc = "start" => \A r \in Rounds : table[r] = <<>>
      /\ CopyOK(chart, table, lastCached) /\ asked \in Nat /\ PageOK
  BY <1>1 DEF ChartIInv
<1>3. /\ table \in [Rounds -> Seq(Bag)]
      /\ pc \in {"start", "rounds", "sums", "down"} /\ lastCached \in Nat
  BY DEF IInv, TypeOK, LoopTypes, Rounds
<1>4. \A r \in Rounds : /\ Len(table[r]) <= 1
                        /\ r > lastCached => table[r] = <<>>
  <2>1. CASE pc = "start"
    <3>1. \A r \in Rounds : table[r] = <<>>
      BY <1>2, <2>1
    <3>2. Len(<<>>) <= 1
      OBVIOUS
    <3> QED
      BY <3>1, <3>2
  <2>2. CASE pc \in {"rounds", "sums"}
    BY <2>2 DEF IInv, TableOK
  <2> QED
    BY <1>2, <1>3, <2>1, <2>2
<1> DEFINE c == CacheRows
<1>5. UpTo(c, MaxRound + 1, table)
  BY <1>3, <1>4, CacheRowsAre
<1> HIDE DEF c
<1>6. /\ c \in Seq(Entry) /\ DOMAIN c = 1 .. Len(c) /\ Len(c) \in Nat
      /\ \A k \in DOMAIN c : c[k].round \in Rounds /\ c[k].round \in Nat
  <2>1. c \in Seq(Entry)
    BY <1>5 DEF UpTo
  <2>2. DOMAIN c = 1 .. Len(c) /\ Len(c) \in Nat
    BY <2>1
  <2>3. ASSUME NEW k \in DOMAIN c PROVE c[k] \in Entry
    BY <2>1, <2>2, ElementOfSeq
  <2> QED
    BY <2>1, <2>2, <2>3 DEF Entry, Rounds
<1>7. /\ \A j, k \in DOMAIN c : j < k => c[j].round < c[k].round
      /\ \A k \in DOMAIN c : table[c[k].round] = <<c[k].standing>>
      /\ \A r \in Rounds : table[r] # <<>> => \E k \in DOMAIN c : c[k].round = r
  <2>1. \A r \in Rounds : r < MaxRound + 1
    BY RoundsCacheAssumption DEF Rounds
  <2> QED
    BY <1>5, <2>1 DEF UpTo
<1>8. CopyOK(c, table, lastCached)
  <2>1. \A x : <<x>> # <<>>
    OBVIOUS
  <2>2. ASSUME NEW k \in DOMAIN c
        PROVE  table[c[k].round] # <<>> /\ c[k].round <= lastCached
    <3>1. table[c[k].round] # <<>>
      BY <1>7, <2>1
    <3>2. c[k].round \in Rounds /\ c[k].round \in Nat
      BY <1>6
    <3>3. ~ (c[k].round > lastCached)
      BY <1>4, <3>1, <3>2
    <3> QED
      BY <1>3, <3>1, <3>2, <3>3
  <2> QED
    BY <1>6, <1>7, <2>2 DEF CopyOK, Snapshots, Entry
<1>9. ASSUME chart # <<>> PROVE c # <<>> /\ Last(chart).round <= Last(c).round
  <2>1. /\ Len(chart) \in DOMAIN chart
        /\ \A k \in DOMAIN chart : chart[k].round \in Rounds
    <3>1. /\ chart \in Seq(Entry) /\ DOMAIN chart = 1 .. Len(chart)
          /\ Len(chart) \in Nat
          /\ \A k \in DOMAIN chart : chart[k].round \in Rounds
      BY <1>2, CopyElements
    <3> QED
      BY <1>9, <3>1, EmptySeq
  <2>2. Last(chart).round \in Rounds /\ table[Last(chart).round] # <<>>
    BY <1>2, <2>1 DEF CopyOK, Last
  <2>3. PICK k \in DOMAIN c : c[k].round = Last(chart).round
    BY <1>7, <2>2
  <2>4. c # <<>> /\ Len(c) \in DOMAIN c
    BY <1>6, <2>3
  <2>5. c[k].round <= c[Len(c)].round
    BY <1>6, <1>7, <2>3, <2>4
  <2> QED
    BY <2>3, <2>4, <2>5 DEF Last
<1>10. web' = c
  BY <1>1 DEF c
<1>11. CopyOK(web, table, lastCached)'
  BY <1>1, <1>8, <1>10
<1>12. PageOK'
  BY <1>1, <1>2, <1>9, <1>10 DEF PageOK
<1> QED
  BY <1>1, <1>2, <1>11, <1>12 DEF ChartIInv

\* The first round of an answer.
LEMMA AnswerIs ==
  ASSUME CopyOK(web, table, lastCached), web # <<>>, NEW from \in Nat,
         from <= Last(web).round
  PROVE  \E m \in 1 .. Len(web) :
           /\ GetCacheJSON(from) = SubSeq(web, m, Len(web))
           /\ \A k \in DOMAIN web : web[k].round >= from => m <= k
<1> DEFINE late == {k \in DOMAIN web : web[k].round >= from}
<1>1. /\ web \in Seq(Entry) /\ DOMAIN web = 1 .. Len(web) /\ Len(web) \in Nat
      /\ \A k \in DOMAIN web : web[k].round \in Nat
  BY CopyElements
<1>2. Len(web) \in DOMAIN web
  BY <1>1, EmptySeq
<1>3. Len(web) \in late /\ late \subseteq Nat
  BY <1>1, <1>2 DEF Last
<1>4. PICK m \in late : \A k \in late : m <= k
  <2> HIDE DEF late
  <2> QED
    BY <1>3, LeastNat
<1>5. Min(late) = m
  <2> HIDE DEF late
  <2> QED
    BY <1>3, <1>4, MinIs
<1>6. GetCacheJSON(from) = IF late = {} THEN <<>>
                           ELSE SubSeq(web, Min(late), Len(web))
  BY DEF GetCacheJSON
<1>7. GetCacheJSON(from) = SubSeq(web, m, Len(web))
  BY <1>3, <1>5, <1>6
<1>8. m \in 1 .. Len(web)
  BY <1>1, <1>4
<1> QED
  BY <1>4, <1>7, <1>8

\* An answer with rounds leaves the page with the server's copy.
LEMMA FetchCurrent ==
  ASSUME IInv, ChartIInv, restarts = 0, FetchData
  PROVE  \/ polling' = FALSE /\ UNCHANGED <<chart, asked, known>>
         \/ /\ chart' = web /\ web # <<>> /\ web # None
            /\ asked' \in Nat /\ asked' <= Last(web).round
<1> DEFINE from == IF known THEN asked ELSE 0
           data == GetCacheJSON(from)
<1>1. /\ web # None /\ CopyOK(web, table, lastCached)
      /\ CopyOK(chart, table, lastCached) /\ asked \in Nat /\ PageOK
  BY DEF FetchData, ChartIInv
<1> SUFFICES ASSUME data # <<>>
             PROVE  /\ chart' = web /\ web # <<>>
                    /\ asked' \in Nat /\ asked' <= Last(web).round
  BY <1>1 DEF FetchData
<1>2. chart' = AddDataToHistory(data) /\ asked' = LastRound(data)
  BY DEF FetchData
<1>3. /\ web \in Seq(Entry) /\ DOMAIN web = 1 .. Len(web) /\ Len(web) \in Nat
      /\ \A k \in DOMAIN web : web[k].round \in Nat
  BY <1>1, CopyElements
<1>4. web # <<>>
  <2>1. CASE web = <<>>
    <3>1. DOMAIN web = {}
      BY <2>1
    <3>2. data = <<>>
      BY <3>1 DEF GetCacheJSON
    <3> QED
      BY <3>2
  <2> QED
    BY <2>1
<1>5. Len(web) \in DOMAIN web /\ Last(web).round \in Nat
  BY <1>3, <1>4, EmptySeq DEF Last
<1>6. chart # <<>> => /\ Last(chart).round <= Last(web).round
                      /\ Last(chart).round \in Nat /\ Len(chart) \in DOMAIN chart
  <2>1. /\ chart \in Seq(Entry) /\ DOMAIN chart = 1 .. Len(chart)
        /\ Len(chart) \in Nat /\ \A k \in DOMAIN chart : chart[k].round \in Nat
    BY <1>1, CopyElements
  <2>2. chart # <<>> => Len(chart) \in DOMAIN chart
    BY <2>1, EmptySeq
  <2> QED
    BY <1>1, <2>1, <2>2 DEF PageOK, Last
<1>7. /\ from \in Nat /\ from <= Last(web).round
      /\ known => chart # <<>> /\ from <= Last(chart).round
      /\ ~known => from = 0
  BY <1>1, <1>5, <1>6 DEF PageOK
<1> HIDE DEF from
<1>8. PICK m \in 1 .. Len(web) :
        /\ data = SubSeq(web, m, Len(web))
        /\ \A k \in DOMAIN web : web[k].round >= from => m <= k
  BY <1>1, <1>4, <1>7, AnswerIs
<1> HIDE DEF data
<1>9. chart # <<>> => m <= Len(chart)
  <2> SUFFICES ASSUME chart # <<>> PROVE m <= Len(chart)
    OBVIOUS
  <2>1. /\ Len(chart) \in DOMAIN web
        /\ web[Len(chart)].round = chart[Len(chart)].round
    BY <1>1, <1>4, <1>6, SameBegin
  <2>2. from <= chart[Len(chart)].round
    <3>1. Last(chart).round >= from
      BY <1>6, <1>7
    <3> QED
      BY <3>1 DEF Last
  <2>3. web[Len(chart)].round >= from
    BY <1>3, <1>7, <2>1, <2>2
  <2> QED
    BY <1>8, <2>1, <2>3
<1>10. chart = <<>> => m = 1
  <2> SUFFICES ASSUME chart = <<>> PROVE m = 1
    OBVIOUS
  <2>1. from = 0
    BY <1>7
  <2>2. 1 \in DOMAIN web /\ web[1].round >= from
    BY <1>3, <1>5, <2>1
  <2>3. m <= 1
    BY <1>8, <2>2
  <2> QED
    BY <1>3, <2>3
<1>11. /\ Last(data) = Last(web) /\ Len(data) = Len(web) - m + 1
       /\ AddDataToHistory(data) = web
  <2>1. chart # <<>> => Last(chart).round <= Last(web).round
    BY <1>6
  <2> QED
    BY <1>1, <1>4, <1>8, <1>9, <1>10, <2>1, PageCatchesUp
<1>12. LastRound(data) \in Nat /\ LastRound(data) <= Last(web).round
  <2>1. CASE chart = <<>>
    <3>1. LastRound(data) = Len(web) - 1
      BY <1>3, <1>10, <1>11, <2>1 DEF LastRound
    <3>2. Len(web) - 1 <= web[Len(web)].round
      BY <1>1, <1>5, RoundAtLeast
    <3> QED
      BY <1>3, <1>5, <3>1, <3>2 DEF Last
  <2>2. CASE chart # <<>>
    BY <1>5, <1>11, <2>2 DEF LastRound
  <2> QED
    BY <2>1, <2>2
<1> QED
  BY <1>2, <1>4, <1>11, <1>12

LEMMA FetchDataChart ==
  ASSUME IInv, ChartIInv, FetchData PROVE ChartIInv'
<1> SUFFICES ASSUME restarts' = 0 PROVE ChartIInv'
  BY DEF ChartIInv
<1>1. /\ web' = web /\ pc' = pc /\ restarts' = restarts /\ table' = table
      /\ lastCached' = lastCached
  BY DEF FetchData, vars, memory, history
<1>2. /\ pc # "down"
      /\ pc = "start" => \A r \in Rounds : table[r] = <<>>
      /\ web # None => CopyOK(web, table, lastCached)
      /\ CopyOK(chart, table, lastCached) /\ asked \in Nat /\ PageOK
  BY <1>1 DEF ChartIInv
<1>3. CASE UNCHANGED <<chart, asked, known>>
  BY <1>1, <1>2, <1>3 DEF ChartIInv, PageOK
<1>4. CASE /\ chart' = web /\ web # <<>> /\ web # None
           /\ asked' \in Nat /\ asked' <= Last(web).round
  <2>1. CopyOK(chart, table, lastCached)' /\ (web # None => CopyOK(web, table, lastCached))'
    BY <1>1, <1>2, <1>4
  <2>2. Last(web).round <= Last(web).round
    <3>1. /\ DOMAIN web = 1 .. Len(web) /\ Len(web) \in Nat /\ web \in Seq(Entry)
          /\ \A k \in DOMAIN web : web[k].round \in Nat
      BY <1>2, <1>4, CopyElements
    <3>2. Len(web) \in DOMAIN web
      BY <1>4, <3>1, EmptySeq
    <3> QED
      BY <3>1, <3>2 DEF Last
  <2>3. PageOK'
    BY <1>1, <1>4, <2>2 DEF PageOK
  <2> QED
    BY <1>1, <1>2, <1>4, <2>1, <2>3 DEF ChartIInv
<1> QED
  BY <1>1, <1>3, <1>4, FetchCurrent

\* A failed request, another server, and nothing.
LEMMA OtherChart ==
  ASSUME IInv, ChartIInv, FetchFails \/ WebRestarts \/ UNCHANGED chartVars
  PROVE  ChartIInv'
<1> SUFFICES ASSUME restarts' = 0 PROVE ChartIInv'
  BY DEF ChartIInv
<1>1. /\ pc' = pc /\ restarts' = restarts /\ table' = table
      /\ lastCached' = lastCached /\ chart' = chart
  BY DEF FetchFails, WebRestarts, chartVars, page, vars, memory, history
<1>2. /\ pc # "down"
      /\ pc = "start" => \A r \in Rounds : table[r] = <<>>
      /\ web # None => CopyOK(web, table, lastCached)
      /\ CopyOK(chart, table, lastCached) /\ asked \in Nat /\ PageOK
  BY <1>1 DEF ChartIInv
<1>3. CASE FetchFails
  <2>1. web' = web /\ asked' = 0 /\ known' = FALSE
    BY <1>3 DEF FetchFails
  <2> QED
    BY <1>1, <1>2, <2>1 DEF ChartIInv, PageOK
<1>4. CASE WebRestarts
  <2>1. web' = None /\ asked' = asked /\ known' = FALSE
    BY <1>4 DEF WebRestarts
  <2> QED
    BY <1>1, <1>2, <2>1 DEF ChartIInv, PageOK
<1>5. CASE UNCHANGED chartVars
  <2>1. web' = web /\ asked' = asked /\ known' = known
    BY <1>5 DEF chartVars, page
  <2> QED
    BY <1>1, <1>2, <2>1 DEF ChartIInv, PageOK
<1> QED
  BY <1>3, <1>4, <1>5

\* The chart's specification runs roundsCache.
THEOREM ChartRunsCache == ChartSpec => Spec
<1>1. ChartInit => Init
  BY DEF ChartInit
<1>2. [ChartNext]_chartVars => [Next]_vars
  BY DEF ChartNext, UpdateCache, FetchData, FetchFails, WebRestarts, chartVars
<1> QED
  BY <1>1, <1>2, PTL DEF ChartSpec, Spec

\* The standings stay exact, whatever the server and the pages do.
THEOREM StandingsExactBeside == ChartSpec => []StandingExact
BY ChartRunsCache, StandingsExact, PTL

THEOREM ChartInvariance == ChartSpec => [](IInv /\ ChartIInv)
<1>1. ChartInit => ChartIInv
  BY DEF ChartInit, Init, ChartIInv, CopyOK, Snapshots, PageOK
<1>2. IInv /\ IInv' /\ ChartIInv /\ [ChartNext]_chartVars => ChartIInv'
  BY RoundsCacheChart, UpdateCacheChart, FetchDataChart, OtherChart DEF ChartNext
<1> QED
  BY <1>1, <1>2, ChartRunsCache, Invariance, PTL DEF ChartSpec

\* While roundsCache has not been restarted, an answer with rounds leaves the
\* page with the server's whole history, for any number of rounds.
THEOREM ChartsCurrent == ChartSpec => ChartCurrent
<1>1. IInv /\ ChartIInv /\ [ChartNext]_chartVars =>
        [FetchData /\ restarts = 0 => chart' = web \/ ~polling']_chartVars
  BY FetchCurrent
<1> QED
  BY <1>1, ChartInvariance, PTL DEF ChartSpec, ChartCurrent
=============================================================================
