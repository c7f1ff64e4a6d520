---------------------------- MODULE ScoresCache ----------------------------
(***************************************************************************)
(* The process that moves points (ructf/scoresCache/Main).  When a stolen  *)
(* flag is old enough its owner loses up to one point per team, shared by  *)
(* the thieves: the new totals go to the table score in one transaction    *)
(* and to the hashtable "state", which is read from the table only at the  *)
(* start.  The time of the last flag taken is kept in memory, and found    *)
(* again from the table after a restart.                                   *)
(*                                                                         *)
(* A catch clause swallows what it has just thrown (152-161), so after an  *)
(* SQLException the loop goes on with what the hashtable holds by then.    *)
(* Scores are whole numbers of a unit in which the shares of the instance  *)
(* are whole; the rounding of doubles is left out.                         *)
(*                                                                         *)
(* Rows of stolen_flags come from GetFlags, where a client that crosses    *)
(* another one is judged by the other's flag.  So the rows of one flag may *)
(* name different victims, and the owner that is charged for it may be one *)
(* of its thieves; only the victim and the thief of one row differ.        *)
(***************************************************************************)
EXTENDS Integers, FiniteSets, Functions, FiniteSetsExt

CONSTANTS
  Teams, Flags,
  Owner,       \* [Flags -> Teams]
  FlagTime,    \* [Flags -> Nat \ {0}]: flags.time
  Thefts,      \* [data, thief, judged]: rows that may be recorded: the flag,
               \* and the one by which StolenFlag judged it
  Expire,      \* flagExpireInterval
  Unit,        \* units to a point
  None,        \* no row
  Initial,     \* the score a team starts with, in units
  MaxTime      \* bound: the end of the clock

ASSUME ScoresCacheAssumption ==
  /\ IsFiniteSet(Teams) /\ Teams # {} /\ IsFiniteSet(Flags)
  /\ None \notin Thefts
  /\ Owner \in [Flags -> Teams] /\ FlagTime \in [Flags -> Nat \ {0}]
  /\ Thefts \subseteq [data: Flags, thief: Teams, judged: Flags]
  /\ \A p \in Thefts : Owner[p.judged] # p.thief
  /\ Expire \in Nat /\ Unit \in Nat \ {0} /\ Initial \in Nat /\ MaxTime \in Nat

VARIABLES
  now,         \* the clock
  accepted,    \* thefts GetFlags has accepted and not yet recorded
  thefts,      \* the rows of stolen_flags
  table,       \* the rows of score
  txn,         \* rows inserted and not committed
  pc,          \* where the process is
  state,       \* [Teams -> Int]: the hashtable
  last,        \* lastCreationTime
  batch,       \* result of GetRottenStolenFlags
  flagTimes,   \* rows of the sorted set that are left
  flag,        \* the row of the sorted set whose flag is being paid
  ownerTotal,  \* ownerTotalScore
  list,        \* attackers left in the transaction
  late,        \* history: thefts recorded when their flag was rotten
  failed,      \* history: flags whose transaction failed
  selfStolen,  \* history: flags paid whose owner was among the thieves
  paid,        \* history: [Flags -> Nat]: committed transactions
  paidTo       \* history: thefts paid in them

clock == <<now>>
thieves == <<accepted, thefts, late>>
job == <<batch, flagTimes, flag, ownerTotal, list>>
history == <<failed, selfStolen, paid, paidTo>>
vars == <<clock, thieves, table, txn, pc, state, last, job, history>>

Init ==
  /\ now = 0 /\ accepted = {} /\ thefts = {} /\ late = {}
  /\ table = {} /\ txn = {} /\ pc = "start"
  /\ state = [t \in Teams |-> 0] /\ last = 0
  /\ batch = {} /\ flagTimes = {} /\ flag = None /\ ownerTotal = 0 /\ list = {}
  /\ failed = {} /\ selfStolen = {} /\ paid = [f \in Flags |-> 0] /\ paidTo = {}

(***************************************************************************)
(* The start of the process.                                               *)
(***************************************************************************)

Rows(t) == {r \in table : r.team = t}

\* The last rows of a team: two, if it was thief and owner of one flag.
LastRows(t) == {r \in Rows(t) : \A q \in Rows(t) : q.time <= r.time}
LastRow(t) == CHOOSE r \in LastRows(t) : TRUE
LastTime(t) == LastRow(t).time

\* The totals that a start may read.
LastScores == {s \in [Teams -> {r.score : r \in table}] :
                 \A t \in Teams : \E r \in LastRows(t) : r.score = s[t]}

\* The rows of 2009-01-01.
CreateInitStateInDb ==
  /\ pc = "start" /\ table = {}
  /\ table' = {[time |-> 0, team |-> t, score |-> Initial] : t \in Teams}
  /\ UNCHANGED <<clock, thieves, txn, pc, state, last, job, history>>

\* Mutant: the earliest of the teams' last rows.
EarliestKnown == Min({LastTime(t) : t \in Teams})

GetLastKnownTime == Max({LastTime(t) : t \in Teams})

\* Mutant: the interval is not taken off.
NotTakenOff == GetLastKnownTime

LastCreationTime == GetLastKnownTime - Expire

GetStateFromDb ==
  /\ pc = "start" /\ table # {}
  /\ state' \in LastScores /\ last' = LastCreationTime
  /\ pc' = "query"
  /\ UNCHANGED <<clock, thieves, table, txn, job, history>>

(***************************************************************************)
(* The loop.                                                               *)
(***************************************************************************)

\* Mutant: the age is not in the query.
AnyAge(f) == TRUE

Rotten(f) == now - FlagTime[f] > Expire

\* TreeSet with a comparator of times: of rows of one time it keeps one.
OnePerTime(R, B) ==
  /\ \A p \in B : \E r \in R : FlagTime[r.data] = FlagTime[p.data]
  /\ \A r, q \in R : FlagTime[r.data] = FlagTime[q.data] => r = q

GetRottenStolenFlags ==
  /\ pc = "query"
  /\ batch' = {p \in thefts : FlagTime[p.data] > last /\ Rotten(p.data)}
  /\ \E R \in SUBSET batch' : OnePerTime(R, batch') /\ flagTimes' = R
  /\ pc' = "flags"
  /\ UNCHANGED <<clock, thieves, table, txn, state, last, flag, ownerTotal,
                 list, history>>

Victim(p) == Owner[p.judged]

\* grouped.get(flagData), by the thieves.
Grouped(f) == {p \in batch : p.data = f}
Attackers(f) == {p.thief : p \in Grouped(f)}

\* The watermark moves before the transaction.
NextFlag(p) ==
  /\ pc = "flags" /\ p \in flagTimes
  /\ \A q \in flagTimes : FlagTime[p.data] <= FlagTime[q.data]
  /\ flagTimes' = flagTimes \ {p} /\ flag' = p
  /\ last' = FlagTime[p.data]
  /\ ownerTotal' = state[Victim(p)] /\ list' = Attackers(p.data)
  /\ pc' = "insert"
  /\ UNCHANGED <<clock, thieves, table, txn, state, batch, history>>

\* Mutant: the whole fee, whatever the owner has.
WholeFee == Unit * Cardinality(Teams)

ScoreFromOwner == Min({Unit * Cardinality(Teams), ownerTotal})

\* Mutant: each thief gets all of it.
Undivided == ScoreFromOwner

ScoreToEachAttacker == ScoreFromOwner \div Cardinality(Attackers(flag.data))

\* InsertScore, then the hashtable.
InsertScore(t, score) ==
  /\ txn' = txn \cup {[time |-> FlagTime[flag.data] + Expire, team |-> t,
                       score |-> score]}
  /\ state' = [state EXCEPT ![t] = score]

InsertAttacker(a) ==
  /\ pc = "insert" /\ a \in list
  /\ InsertScore(a, state[a] + ScoreToEachAttacker)
  /\ list' = list \ {a}
  /\ UNCHANGED <<clock, thieves, table, pc, last, batch, flagTimes, flag,
                 ownerTotal, history>>

InsertOwner ==
  /\ pc = "insert" /\ list = {}
  /\ InsertScore(Victim(flag), ownerTotal - ScoreFromOwner)
  /\ pc' = "commit"
  /\ UNCHANGED <<clock, thieves, table, last, job, history>>

\* The owner's total replaces what it had as a thief.
SelfStolen == Victim(flag) \in Attackers(flag.data)

Committed ==
  /\ table' = table \cup txn /\ txn' = {}
  /\ paid' = [paid EXCEPT ![flag.data] = @ + 1]
  /\ paidTo' = paidTo \cup Grouped(flag.data)
  /\ selfStolen' = selfStolen \cup (IF SelfStolen THEN {flag.data} ELSE {})
  /\ UNCHANGED failed

Commit ==
  /\ pc = "commit"
  /\ Committed
  /\ pc' = "flags"
  /\ UNCHANGED <<clock, thieves, state, last, job>>

\* An SQLException from any statement of the transaction: it is rolled back,
\* and the loop goes on.
TransactionFails ==
  /\ pc \in {"insert", "commit"}
  /\ txn' = {} /\ failed' = failed \cup {flag.data}
  /\ pc' = "flags"
  /\ UNCHANGED <<clock, thieves, table, state, last, job, selfStolen, paid,
                 paidTo>>

Sleep ==
  /\ pc = "flags" /\ flagTimes = {}
  /\ pc' = "query"
  /\ UNCHANGED <<clock, thieves, table, txn, state, last, job, history>>

(***************************************************************************)
(* The end of the process, at any point: a broken connection, System.exit  *)
(* here or in the SLA thread, a crash.  A commit may have reached the      *)
(* server by then.                                                         *)
(***************************************************************************)

Die ==
  /\ pc # "down"
  /\ pc' = "down"
  /\ \/ txn' = {} /\ UNCHANGED <<table, history>>
     \/ pc = "commit" /\ Committed
  /\ batch' = {} /\ flagTimes' = {} /\ flag' = None /\ list' = {}
  /\ UNCHANGED <<clock, thieves, state, last, ownerTotal>>

Restart ==
  /\ pc = "down"
  /\ pc' = "start"
  /\ UNCHANGED <<clock, thieves, table, txn, state, last, job, history>>

(***************************************************************************)
(* Time, and the thieves (GetFlags): accepted while the flag they are      *)
(* judged by is fresh, recorded some time later, once for each team.       *)
(***************************************************************************)

Tick ==
  /\ now < MaxTime
  /\ now' = now + 1
  /\ UNCHANGED <<thieves, table, txn, pc, state, last, job, history>>

Accept(p) ==
  /\ \A q \in accepted \cup thefts : q.data # p.data \/ q.thief # p.thief
  /\ FlagTime[p.judged] <= now /\ now - FlagTime[p.judged] < Expire
  /\ accepted' = accepted \cup {p}
  /\ UNCHANGED <<clock, thefts, late, table, txn, pc, state, last, job, history>>

Record(p) ==
  /\ p \in accepted
  /\ accepted' = accepted \ {p} /\ thefts' = thefts \cup {p}
  /\ late' = IF now - FlagTime[p.data] > Expire THEN late \cup {p} ELSE late
  /\ UNCHANGED <<clock, table, txn, pc, state, last, job, history>>

Process ==
  \/ CreateInitStateInDb \/ GetStateFromDb \/ GetRottenStolenFlags
  \/ InsertOwner \/ Commit \/ TransactionFails \/ Sleep
  \/ \E p \in Thefts : NextFlag(p)
  \/ \E a \in Teams : InsertAttacker(a)

Next ==
  \/ Process \/ Die \/ Restart \/ Tick
  \/ \E p \in Thefts : Accept(p) \/ Record(p)

Spec == Init /\ [][Next]_vars

\* The process runs, and time passes; nobody promises to restart it.
FairSpec == Spec /\ WF_vars(Process) /\ WF_vars(Tick)

-----------------------------------------------------------------------------

TypeOK ==
  /\ now \in 0 .. MaxTime
  /\ accepted \subseteq Thefts /\ thefts \subseteq Thefts
  /\ late \subseteq thefts /\ batch \subseteq thefts
  /\ table \cup txn \subseteq [time: Int, team: Teams, score: Int]
  /\ pc \in {"start", "query", "flags", "insert", "commit", "down"}
  /\ state \in [Teams -> Int] /\ last \in Int /\ ownerTotal \in Int
  /\ flagTimes \subseteq Thefts /\ flag \in Thefts \cup {None}
  /\ list \subseteq Teams /\ failed \subseteq Flags /\ selfStolen \subseteq Flags
  /\ paid \in [Flags -> Nat] /\ paidTo \subseteq thefts

Start == Initial * Cardinality(Teams)
FullFee == Unit * Cardinality(Teams)
Spoiled == failed \cup selfStolen

\* The last rows of all teams add up to what they started with, over crashes
\* at any point.  Two things spoil that: a transaction that failed leaves its
\* shares in the hashtable, and later rows pay them out (Main 134-161); an
\* owner among the thieves has two rows of one time, neither of which is right
\* (136-147).
PointsKept == Spoiled = {} => \A s \in LastScores : SumFunction(s) = Start

\* Each flag that does so makes one fee at most, over restarts that read the
\* same flags again.
PointsBounded ==
  \A s \in LastScores :
    SumFunction(s) <= Start + FullFee * Cardinality(Spoiled)

\* Points move and are not made (Main 122-161).
PointsConserved == PointsKept /\ PointsBounded

\* No total is ever negative, failures or not (Main 128).
NoDebts == \A r \in table : r.score >= 0

\* The points of a flag are moved once, though the watermark is only in
\* memory and is found again from the table after a restart (Main 61, 94).
PaidOnce == \A f \in Flags : paid[f] <= 1

\* When a flag is paid, every theft recorded before it was rotten is in the
\* shares, although the batch was read before (Main 28, 100, 125).
TimelyThievesPaid ==
  \A p \in thefts \ late : paid[p.data] > 0 => p \in paidTo

\* Another flag of the same time was taken in its place (Main 112-117).
TwinTaken(f) ==
  \E g \in Flags \ {f} : /\ FlagTime[g] = FlagTime[f]
                         /\ paid[g] > 0 \/ g \in failed

\* A theft recorded in time is paid in the end, over restarts, unless the
\* flag's transaction failed, a flag of the same time was taken in its place,
\* or the process stays down (Main 94-95, 100, 112-120).
TheftsPaid ==
  \A p \in Thefts :
    p \in thefts \ late ~>
      p \in paidTo \/ p.data \in failed \/ TwinTaken(p.data) \/ pc = "down"

(***************************************************************************)
(* The inductive invariant.                                                *)
(***************************************************************************)

InTransaction == pc \in {"insert", "commit"}

\* The latest row of the table and of each team; a paid flag has its rows.
TableOK ==
  /\ table = {} => pc \in {"start", "down"}
  /\ table # {} => \E r \in table : \A q \in table : q.time <= r.time
  /\ table # {} => \A t \in Teams : LastRows(t) # {}
  /\ \A f \in Flags : paid[f] > 0 =>
       Rotten(f) /\ \E r \in table : r.time = FlagTime[f] + Expire

\* The watermark covers the table, and the flags to come are beyond it.
WatermarkOK ==
  /\ pc \in {"query", "flags"} => \A r \in table : r.time <= last + Expire
  /\ InTransaction =>
       /\ flag \in Thefts /\ last = FlagTime[flag.data]
       /\ \A r \in table : r.time < last + Expire
  /\ \A p, q \in flagTimes : FlagTime[p.data] = FlagTime[q.data] => p = q
  /\ \A p \in flagTimes : FlagTime[p.data] > last

TxnOK ==
  /\ pc \in {"start", "query", "down"} => flagTimes = {}
  /\ ~InTransaction => txn = {}
  /\ pc = "commit" => txn # {}
  /\ \A r \in txn : r.time = FlagTime[flag.data] + Expire /\ r.score >= 0

ScoresOK == ownerTotal >= 0 /\ \A t \in Teams : state[t] >= 0

\* The batch holds what is to be known of the flags that are left.
BatchOK ==
  \A f \in flagTimes \cup (IF InTransaction THEN {flag} ELSE {}) :
    /\ Rotten(f.data) /\ f \in batch
    /\ \A p \in thefts \ late : p.data = f.data => p \in batch

IInv ==
  /\ TypeOK /\ TableOK /\ WatermarkOK /\ TxnOK /\ ScoresOK /\ BatchOK
  /\ NoDebts /\ PaidOnce /\ TimelyThievesPaid

(***************************************************************************)
(* What it takes besides for the points to be conserved exactly: there is  *)
(* one reading of the table, and the hashtable holds it.                   *)
(***************************************************************************)

OneReading == \A t \in Teams : \A q, r \in LastRows(t) : q.score = r.score

Reading == [t \in Teams |-> LastRow(t).score]

TableKept == table # {} => OneReading /\ SumFunction(Reading) = Start

\* The teams whose new total is in the transaction.
Written ==
  (Attackers(flag.data) \ list)
    \cup (IF pc = "commit" THEN {Victim(flag)} ELSE {})

\* The hashtable holds the last rows, and in a transaction the totals written.
StateOK ==
  /\ pc \in {"query", "flags"} => state = Reading
  /\ InTransaction =>
       /\ ownerTotal = Reading[Victim(flag)] /\ list \subseteq Attackers(flag.data)
       /\ \A t \in Teams \ Written : state[t] = Reading[t]
       /\ \A t \in Written : \E r \in txn : r.team = t
       /\ \A r \in txn : r.team \in Written /\ r.score = state[r.team]

\* Shares that have been handed out.
Handed == Cardinality(Attackers(flag.data)) - Cardinality(list)

\* They are what the totals are too high by, until the owner has paid.
SharesOK ==
  /\ pc = "insert" => SumFunction(state) = Start + ScoreToEachAttacker * Handed
  /\ pc = "commit" => SumFunction(state) = Start

KeptIInv ==
  Spoiled = {} =>
    /\ TableKept
    /\ ~(InTransaction /\ SelfStolen) => StateOK /\ SharesOK

\* Shares are whole: doubles share what whole units cannot.
SharesWhole ==
  pc = "insert" =>
    ScoreToEachAttacker * Cardinality(Attackers(flag.data)) = ScoreFromOwner
=============================================================================
