---------------------------- MODULE RoundsCache ----------------------------
(***************************************************************************)
(* The process that keeps the standing after each round                    *)
(* (ructf/roundsCache/Main).  A cycle reads the rounds that have started,  *)
(* sums the scores of each round it has not finished, adds them to the     *)
(* standing after the round before, writes the standings into the table    *)
(* rounds_cache in one transaction, and sleeps.  The last round is open:   *)
(* its window has no end, and the next cycle sums and writes it again.     *)
(*                                                                         *)
(* The five sums of every team are one bag of score rows: how often each   *)
(* row of secret_flags, access_checks, stolen_flags, advisories and        *)
(* solved_tasks has been counted.  A row's time is the start of its        *)
(* transaction (set_time), and it is read after the end; so is a round's.  *)
(* A statement of the read phase that throws ends main, as a crash does;   *)
(* a statement of the write phase is rolled back and the cycle goes on.    *)
(***************************************************************************)
EXTENDS Naturals, FiniteSets, Sequences

CONSTANTS
  Scores,      \* the rows of the five tables of scores
  MaxRound,    \* bound: rounds after round 0
  MaxTime,     \* bound: the end of the clock
  MaxFailures, \* bound: transactions that fail
  MaxRestarts  \* bound: crashes of the process

ASSUME RoundsCacheAssumption ==
  /\ MaxRound \in Nat /\ MaxTime \in Nat \ {0}
  /\ MaxFailures \in Nat /\ MaxRestarts \in Nat

VARIABLES
  now,         \* the clock
  start,       \* [Rounds -> Nat]: rounds.time; 0: not begun
  started,     \* the last committed round
  time,        \* [Scores -> Nat]: the times of the rows; 0: not begun
  visible,     \* the committed rows
  table,       \* rounds_cache: [Rounds -> Seq(bags)]: a round's rows
  pc,          \* where the process is
  lastCached,  \* lastCachedRound
  lastStarted, \* lastStartedRound
  next,        \* the loop: the next round to sum
  cache,       \* scoresCache: [Rounds -> bags]
  overtaken,   \* history: rows that committed after their round was closed
  unwritten,   \* history: rounds closed in a transaction that failed
  failures, restarts  \* history: so far

game == <<now, start, started, time, visible>>
memory == <<lastCached, lastStarted, next, cache>>
history == <<overtaken, unwritten, failures, restarts>>
vars == <<game, table, pc, memory, history>>

Rounds == 0 .. MaxRound

Zero == [x \in Scores |-> 0]

Init ==
  /\ now = 1 /\ start = [r \in Rounds |-> IF r = 0 THEN 1 ELSE 0]
  /\ started = 0
  /\ time = [x \in Scores |-> 0] /\ visible = {}
  /\ table = [r \in Rounds |-> <<>>]
  /\ pc = "start" /\ lastCached = 0 /\ lastStarted = 0 /\ next = 0
  /\ cache = [r \in Rounds |-> Zero]
  /\ overtaken = {} /\ unwritten = {} /\ failures = 0 /\ restarts = 0

DeleteCache ==
  /\ pc = "start"
  /\ table' = [r \in Rounds |-> <<>>]
  /\ pc' = "rounds"
  /\ lastCached' = 0 /\ lastStarted' = 0 /\ next' = 0
  /\ cache' = [r \in Rounds |-> Zero]
  /\ overtaken' = {} /\ unwritten' = {}
  /\ UNCHANGED <<game, failures, restarts>>

(***************************************************************************)
(* A cycle.                                                                *)
(***************************************************************************)

GetStartedRounds ==
  /\ pc = "rounds"
  /\ lastStarted' = started
  /\ next' = lastCached
  /\ pc' = "sums"
  /\ UNCHANGED <<game, table, lastCached, cache, history>>

\* The rows of a round's window; the last round's has no end.
InWindow(x, r) ==
  /\ x \in visible /\ start[r] <= time[x]
  /\ r = lastStarted \/ time[x] < start[r + 1]

\* roundSums.get(i - 1); there is no round before round 0.
RoundBefore(r) == IF r = 0 THEN Zero ELSE cache[r - 1]

\* The sums of one round, and what AddToCache makes of them: nobody looks at
\* the hashtable before every round has been read.
GetScore ==
  /\ pc = "sums" /\ next <= lastStarted
  /\ cache' = [cache EXCEPT ![next] =
       [x \in Scores |-> RoundBefore(next)[x] + IF InWindow(x, next) THEN 1 ELSE 0]]
  /\ next' = next + 1
  /\ UNCHANGED <<game, table, pc, lastCached, lastStarted, history>>

\* Mutant: the round that was open keeps the row it has.
InsertOnly(r) == IF r = lastCached /\ table[r] # <<>> THEN table[r]
                 ELSE Append(table[r], cache[r])

\* The rows of the round that was open are updated, or inserted if there are
\* none; the rounds after it are inserted.
Written(r) ==
  IF r = lastCached /\ table[r] # <<>> THEN [i \in DOMAIN table[r] |-> cache[r]]
  ELSE Append(table[r], cache[r])

Update ==
  table' = [r \in Rounds |-> IF r \in lastCached .. lastStarted THEN Written(r)
                             ELSE table[r]]

\* Mutant: the last round of a cycle is not opened again.
NothingOpen == lastStarted + 1

\* The last round stays open.
OpenRound == lastStarted

\* UpdateCacheInDb commits.
Commit ==
  /\ pc = "sums" /\ next > lastStarted
  /\ Update
  /\ lastCached' = OpenRound
  /\ pc' = "rounds"
  /\ UNCHANGED <<game, lastStarted, next, cache, history>>

\* UpdateCacheInDb rolls back, and only logs it.
TransactionFails ==
  /\ pc = "sums" /\ next > lastStarted /\ failures < MaxFailures
  /\ failures' = failures + 1
  /\ unwritten' = unwritten \cup {r \in Rounds : lastCached <= r /\ r < lastStarted}
  /\ lastCached' = OpenRound
  /\ pc' = "rounds"
  /\ UNCHANGED <<game, table, lastStarted, next, cache, overtaken, restarts>>

\* The end of the process at any point; the commit may have arrived.
Die ==
  /\ pc # "down" /\ restarts < MaxRestarts
  /\ restarts' = restarts + 1
  /\ pc' = "down"
  /\ \/ UNCHANGED table
     \/ pc = "sums" /\ next > lastStarted /\ Update
  /\ UNCHANGED <<game, memory, overtaken, unwritten, failures>>

Restart ==
  /\ pc = "down"
  /\ pc' = "start"
  /\ UNCHANGED <<game, table, memory, history>>

(***************************************************************************)
(* What the rest of the checksystem does to the tables.                    *)
(***************************************************************************)

Tick ==
  /\ now < MaxTime
  /\ now' = now + 1
  /\ UNCHANGED <<start, started, time, visible, table, pc, memory, history>>

\* The task manager inserts one round at a time.
BeginRound ==
  /\ started < MaxRound /\ start[started + 1] = 0
  /\ start' = [start EXCEPT ![started + 1] = now]
  /\ UNCHANGED <<now, started, time, visible, table, pc, memory, history>>

CommitRound ==
  /\ started < MaxRound /\ start[started + 1] # 0
  /\ started' = started + 1
  /\ UNCHANGED <<now, start, time, visible, table, pc, memory, history>>

Begin(x) ==
  /\ time[x] = 0
  /\ time' = [time EXCEPT ![x] = now]
  /\ UNCHANGED <<now, start, started, visible, table, pc, memory, history>>

\* The rounds below this one are closed: they are not read again.
Frontier == IF next < lastStarted THEN next ELSE lastStarted

End(x) ==
  /\ time[x] # 0 /\ x \notin visible
  /\ visible' = visible \cup {x}
  /\ overtaken' = IF time[x] < start[Frontier] THEN overtaken \cup {x}
                  ELSE overtaken
  /\ UNCHANGED <<now, start, started, time, table, pc, memory, unwritten,
                 failures, restarts>>

Process ==
  \/ DeleteCache \/ GetStartedRounds \/ GetScore \/ Commit \/ TransactionFails

Game ==
  \/ Tick \/ BeginRound \/ CommitRound
  \/ \E x \in Scores : Begin(x) \/ End(x)

Next == Process \/ Die \/ Restart \/ Game

Spec == Init /\ [][Next]_vars

-----------------------------------------------------------------------------

Times == 0 .. MaxTime
Bag == [Scores -> Nat]

GameOK ==
  /\ now \in 1 .. MaxTime /\ started \in Rounds
  /\ start \in [Rounds -> Times] /\ time \in [Scores -> Times]
  /\ visible \subseteq Scores

LoopTypes ==
  /\ pc \in {"start", "rounds", "sums", "down"}
  /\ lastCached \in Rounds /\ lastStarted \in Rounds
  /\ next \in 0 .. MaxRound + 1
  /\ overtaken \subseteq visible /\ unwritten \subseteq Rounds
  /\ failures \in 0 .. MaxFailures /\ restarts \in 0 .. MaxRestarts

TypeOK ==
  /\ GameOK /\ LoopTypes
  /\ table \in [Rounds -> Seq(Bag)] /\ cache \in [Rounds -> Bag]

\* Rounds start one after the other, and a row that is read has a time.
StartsOK ==
  /\ start[0] = 1
  /\ \A r \in Rounds : r <= started => start[r] # 0
  /\ \A r \in Rounds : r > started + 1 => start[r] = 0
  /\ \A r, s \in Rounds : r <= s /\ s <= started => start[r] <= start[s]
  /\ \A r \in Rounds : start[r] <= now
  /\ \A r \in Rounds : r <= started /\ started < MaxRound =>
       start[started + 1] = 0 \/ start[r] <= start[started + 1]
  /\ \A x \in visible : time[x] # 0

LoopOK ==
  /\ lastCached <= lastStarted /\ lastStarted <= started
  /\ lastCached <= next /\ next <= lastStarted + 1
  /\ pc = "rounds" => lastCached = lastStarted
  /\ \A x \in overtaken : time[x] < start[Frontier]

\* The rows that a standing after a closed round has to count.
Due(r) == {x \in visible \ overtaken : time[x] < start[r + 1]}

\* A bag that counts every row of a set once, and no other.
Each(X) == [x \in Scores |-> IF x \in X THEN 1 ELSE 0]

\* The standings in memory: exact after the closed rounds; the open one has
\* no row twice, and forgets none that came before it.
CacheOK ==
  /\ \A r \in Rounds : r < Frontier => cache[r] = Each(Due(r))
  /\ next > lastStarted =>
       \E X \in SUBSET (visible \ overtaken) :
         /\ cache[lastStarted] = Each(X)
         /\ \A x \in visible \ overtaken : time[x] < start[lastStarted] => x \in X

\* While the process runs, no round is in the table twice.
TableOK ==
  pc \in {"rounds", "sums"} => \A r \in Rounds :
    /\ Len(table[r]) <= 1
    /\ r > lastCached => table[r] = <<>>

\* The standing after a closed round is in the table once, and counts each
\* score of the rounds up to it exactly once: unless the score's transaction
\* ended too late for the round, or the round was closed in a transaction
\* that failed (roundsCache/Main 77-245).
StandingExact ==
  \A r \in Rounds : r < lastCached /\ r \notin unwritten =>
    table[r] = <<Each(Due(r))>>

\* The inductive invariant: the standings in memory are exact up to the
\* frontier of the rounds that are not read again (Main 97-131, 216-245).
IInv == TypeOK /\ StartsOK /\ LoopOK /\ CacheOK /\ TableOK /\ StandingExact

LastRow == {r \in Rounds : table[r] # <<>> /\ \A s \in Rounds : s > r => table[s] = <<>>}

\* A score that is committed gets into the latest standing, even if some
\* transactions fail: unless it was too late for its round, or the process
\* is down (roundsCache/Main 83-139).
EveryScoreShown ==
  \A x \in Scores :
    x \in visible ~> \/ \E r \in LastRow : table[r][1][x] = 1
                     \/ x \in overtaken \/ pc = "down"
=============================================================================
