----------------------------- MODULE SLAWorker -----------------------------
(***************************************************************************)
(* The thread that counts access checks (ructf/scoresCache/SLAworker).  It *)
(* reads the checks with a time beyond its watermark, adds them to the     *)
(* hashtable "state", moves the watermark to the latest time it has seen,  *)
(* and writes the totals of the teams it heard of in one transaction.      *)
(*                                                                         *)
(* A check's time is the start of its transaction (set_time), and it is    *)
(* read after the end: a check that commits after one of a later time, or  *)
(* of its own, is overtaken, for the watermark may have passed it.  As in  *)
(* ScoresCache, a failed transaction is rolled back and the loop goes on   *)
(* with the hashtable as it is.                                            *)
(***************************************************************************)
EXTENDS Integers, FiniteSets, FiniteSetsExt

CONSTANTS
  Teams,
  Checks,      \* the rows access_checks may get
  TeamOf,      \* [Checks -> Teams]
  Ok,          \* the checks with status OK; any other counts as failed
  MaxTime      \* bound: the end of the clock

ASSUME SLAWorkerAssumption ==
  /\ IsFiniteSet(Checks) /\ TeamOf \in [Checks -> Teams] /\ Ok \subseteq Checks
  /\ MaxTime \in Nat \ {0}

VARIABLES
  now,         \* the clock
  time,        \* [Checks -> Nat]: access_checks.time; 0: not begun
  visible,     \* committed rows of access_checks
  table,       \* the rows of sla
  txn,         \* rows inserted and not committed
  pc,          \* where the thread is
  state,       \* [Teams -> totals]: the hashtable; time 0: no entry
  last,        \* lastKnownTime
  list,        \* teams of stateDelta left to insert
  overtaken,   \* history: checks that committed after one as late or later
  failed       \* history: some transaction failed

checks == <<now, time, visible, overtaken>>
vars == <<checks, table, txn, pc, state, last, list, failed>>

Nothing == [successed |-> 0, failed |-> 0, time |-> 0]

Init ==
  /\ now = 1 /\ time = [c \in Checks |-> 0] /\ visible = {} /\ overtaken = {}
  /\ table = {} /\ txn = {} /\ pc = "start"
  /\ state = [t \in Teams |-> Nothing] /\ last = 0 /\ list = {}
  /\ failed = FALSE

Rows(t) == {r \in table : r.team = t}

LastRow(t) == CHOOSE r \in Rows(t) : \A q \in Rows(t) : q.time <= r.time

Totals(r) == [successed |-> r.successed, failed |-> r.failed, time |-> r.time]

\* Mutant: the watermark starts at the earliest of the teams.
EarliestKnown(times) == IF times = {} THEN 0 ELSE Min(times)

\* Zero if the table is empty.
GetLastKnownTime(times) == Max(times \cup {0})

GetStateFromDb ==
  /\ pc = "start"
  /\ state' = [t \in Teams |-> IF Rows(t) = {} THEN Nothing
                               ELSE Totals(LastRow(t))]
  /\ last' = GetLastKnownTime({LastRow(t).time : t \in {u \in Teams : Rows(u) # {}}})
  /\ pc' = "query"
  /\ UNCHANGED <<checks, table, txn, list, failed>>

(***************************************************************************)
(* The loop.                                                               *)
(***************************************************************************)

Count(t, C) == Cardinality({c \in C : TeamOf[c] = t})

Latest(t, C) == Max({time[c] : c \in {d \in C : TeamOf[d] = t}})

\* Mutant: the row of the other status replaces the delta.
LastStatusOnly(t, C) ==
  [successed |-> state[t].successed + Count(t, C \cap Ok),
   failed |-> state[t].failed + IF Count(t, C \cap Ok) = 0 THEN Count(t, C) ELSE 0,
   time |-> Latest(t, C)]

\* The delta of a team with new checks, added to its entry.
Added(t, C) ==
  [successed |-> state[t].successed + Count(t, C \cap Ok),
   failed |-> state[t].failed + Count(t, C \ Ok),
   time |-> Latest(t, C)]

\* Mutant: the watermark is the time of the query.
TimeOfQuery(C) == now

\* The latest time that was seen.
Seen(C) == Max({time[c] : c \in C} \cup {last})

GetLastAccessChecks ==
  /\ pc = "query"
  /\ LET new == {c \in visible : time[c] > last}
         heard == {TeamOf[c] : c \in new}
     IN  /\ state' = [t \in Teams |-> IF t \in heard THEN Added(t, new)
                                      ELSE state[t]]
         /\ last' = Seen(new)
         /\ list' = heard
  /\ pc' = "insert"
  /\ UNCHANGED <<checks, table, txn, failed>>

NewRow(t) == [team |-> t, successed |-> state[t].successed,
              failed |-> state[t].failed, time |-> state[t].time]

Insert(t) ==
  /\ pc = "insert" /\ t \in list
  /\ txn' = txn \cup {NewRow(t)} /\ list' = list \ {t}
  /\ UNCHANGED <<checks, table, pc, state, last, failed>>

Committed == table' = table \cup txn /\ txn' = {}

\* Commit, and ten seconds of sleep.
Commit ==
  /\ pc = "insert" /\ list = {}
  /\ Committed
  /\ pc' = "query"
  /\ UNCHANGED <<checks, state, last, list, failed>>

TransactionFails ==
  /\ pc = "insert"
  /\ txn' = {} /\ list' = {} /\ failed' = TRUE
  /\ pc' = "query"
  /\ UNCHANGED <<checks, table, state, last>>

\* The end of the process at any point; the commit may have arrived.
Die ==
  /\ pc # "down"
  /\ pc' = "down" /\ list' = {}
  /\ \/ txn' = {} /\ UNCHANGED table
     \/ pc = "insert" /\ list = {} /\ Committed
  /\ UNCHANGED <<checks, state, last, failed>>

Restart ==
  /\ pc = "down"
  /\ pc' = "start"
  /\ UNCHANGED <<checks, table, txn, state, last, list, failed>>

(***************************************************************************)
(* The task manager's transactions.                                        *)
(***************************************************************************)

Tick ==
  /\ now < MaxTime
  /\ now' = now + 1
  /\ UNCHANGED <<time, visible, overtaken, table, txn, pc, state, last, list,
                 failed>>

Begin(c) ==
  /\ time[c] = 0
  /\ time' = [time EXCEPT ![c] = now]
  /\ UNCHANGED <<now, visible, overtaken, table, txn, pc, state, last, list,
                 failed>>

End(c) ==
  /\ time[c] # 0 /\ c \notin visible
  /\ visible' = visible \cup {c}
  /\ overtaken' = IF \E d \in visible : time[c] <= time[d]
                  THEN overtaken \cup {c} ELSE overtaken
  /\ UNCHANGED <<now, time, table, txn, pc, state, last, list, failed>>

Thread ==
  \/ GetStateFromDb \/ GetLastAccessChecks \/ Commit \/ TransactionFails
  \/ \E t \in Teams : Insert(t)

Next ==
  \/ Thread \/ Die \/ Restart \/ Tick
  \/ \E c \in Checks : Begin(c) \/ End(c)

Spec == Init /\ [][Next]_vars

\* The thread runs; nobody promises to restart it, or that checks come.
FairSpec == Spec /\ WF_vars(Thread)

-----------------------------------------------------------------------------

Times == 0 .. MaxTime

Total == [successed: Nat, failed: Nat, time: Times]

Row == [team: Teams, successed: Nat, failed: Nat, time: Times]

ChecksOK ==
  /\ now \in 1 .. MaxTime /\ time \in [Checks -> Times]
  /\ overtaken \subseteq visible /\ visible \subseteq Checks

TypeOK ==
  /\ ChecksOK
  /\ table \subseteq Row /\ txn \subseteq Row
  /\ pc \in {"start", "query", "insert", "down"}
  /\ state \in [Teams -> Total] /\ last \in Times
  /\ list \subseteq Teams
  /\ failed \in BOOLEAN

\* The checks that are visible and not later than a time.
Until(when) == {c \in visible : time[c] <= when}

\* Totals that count no more checks than there are up to their time.
Honest(t, r) ==
  /\ r.successed <= Count(t, Until(r.time) \cap Ok)
  /\ r.failed <= Count(t, Until(r.time) \ Ok)

RowsHonest ==
  /\ \A r \in table : Honest(r.team, r)
  /\ \A r \in txn : Honest(r.team, r)

\* While the thread runs, its totals are honest and the watermark covers
\* them: what the next query returns is in none of them.
StateHonest ==
  pc \in {"query", "insert"} =>
    \A t \in Teams : Honest(t, state[t]) /\ state[t].time <= last

\* The inductive invariant: types, and totals that count nothing beyond the
\* watermark (SLAworker 76-112, 154-161).
IInv == TypeOK /\ (\A c \in visible : time[c] # 0) /\ RowsHonest /\ StateHonest

\* No check is counted twice: no row has more than there are checks, over
\* failed transactions and restarts (SLAworker 100-112, 154-161).
NotInflated ==
  \A r \in table :
    /\ r.successed <= Count(r.team, visible \cap Ok)
    /\ r.failed <= Count(r.team, visible \ Ok)

\* No check is left out either: a team's last row counts every check up to
\* its time that committed in the order of the times, as long as no
\* transaction has failed (SLAworker 100-112).
NothingLeftOut ==
  ~failed => \A t \in Teams : Rows(t) # {} =>
    LET r == LastRow(t)
        due == {c \in visible \ overtaken : time[c] <= r.time}
    IN  /\ r.successed >= Count(t, due \cap Ok)
        /\ r.failed >= Count(t, due \ Ok)

\* A check that commits in the order of the times reaches the table, unless
\* some transaction fails or the process stays down (SLAworker 74-145).
EveryCheckReached ==
  \A c \in Checks :
    c \in visible \ overtaken ~>
      \/ \E r \in table : r.team = TeamOf[c] /\ r.time >= time[c]
      \/ failed \/ pc = "down"
=============================================================================
