--------------------------- MODULE WorkerManager ---------------------------
(***************************************************************************)
(* The checker daemon (ructf/daemon/WorkerManager): a manager thread asks  *)
(* the task manager for as many tasks as it has free threads, gives each   *)
(* to a fixed pool, and counts in the plain field freeThreads.  The worker *)
(* threads count back when their report has been sent.  Neither "--" nor   *)
(* "++" is atomic: each is a read and a write, and a write that follows    *)
(* another thread's write loses it ("lost").                               *)
(*                                                                         *)
(* What a worker does with its task is CheckerExecution; here it only      *)
(* comes back.  Reads see the last write: the manager's loop has a system  *)
(* call in every turn, so no build keeps the field in a register.          *)
(***************************************************************************)
EXTENDS Integers, FiniteSets

CONSTANTS
  Tasks,       \* the tasks the task manager may give to this daemon
  MaxThreads   \* DaemonSettings.maxThreads

ASSUME TasksAssumption == IsFiniteSet(Tasks) /\ MaxThreads \in Nat \ {0}

VARIABLES
  mpc,         \* the manager's thread
  freeThreads, \* the field
  asked,       \* manager: the argument of getTasks
  current,     \* manager: the set holding the task being counted down
  mreg,        \* manager: the value "--" has read
  tpc,         \* [Tasks -> ...]: where a task, later its worker thread, is
  treg,        \* [Tasks -> Int]: the value a worker's "++" has read
  lost         \* history: some write to freeThreads undid another

manager == <<mpc, asked, current, mreg>>
vars == <<manager, freeThreads, tpc, treg, lost>>

At(pcs) == {t \in Tasks : tpc[t] \in pcs}

\* Fetched, given to the pool, and holding one of its threads.
Fetched == At({"fetched"})
Started == At({"queued", "running", "report", "increment", "write", "returned"})
Holding == At({"running", "report", "increment", "write"})
Returned == At({"returned"})

Init ==
  /\ mpc = "poll" /\ freeThreads = MaxThreads
  /\ asked = 0 /\ current = {} /\ mreg = 0
  /\ tpc = [t \in Tasks |-> "elsewhere"] /\ treg = [t \in Tasks |-> 0]
  /\ lost = FALSE

Write(old, new) ==
  /\ freeThreads' = new
  /\ lost' = (lost \/ freeThreads # old)

(***************************************************************************)
(* The manager's thread.                                                   *)
(***************************************************************************)

\* freeThreads is read in the condition, and again for the request.
Poll ==
  /\ mpc = "poll"
  /\ mpc' = IF freeThreads > 0 THEN "ask" ELSE "sleep"
  /\ UNCHANGED <<asked, current, mreg, freeThreads, tpc, treg, lost>>

\* Mutant: the whole pool is asked for.
WholePool == asked' = MaxThreads

FreeOnes == asked' = freeThreads

Ask ==
  /\ mpc = "ask"
  /\ mpc' = "getTasks"
  /\ FreeOnes
  /\ UNCHANGED <<current, mreg, freeThreads, tpc, treg, lost>>

\* The reply holds at most the tasks asked for, none twice.  A task whose
\* line is lost or unreadable stays elsewhere.
GetTasks(S) ==
  /\ mpc = "getTasks"
  /\ Cardinality(S) <= (IF asked > 0 THEN asked ELSE 0)
  /\ mpc' = "execute"
  /\ tpc' = [t \in Tasks |-> IF t \in S THEN "fetched" ELSE tpc[t]]
  /\ UNCHANGED <<asked, current, mreg, freeThreads, treg, lost>>

GetTasksFails ==
  /\ mpc = "getTasks"
  /\ mpc' = "recover"
  /\ UNCHANGED <<asked, current, mreg, freeThreads, tpc, treg, lost>>

Execute(t) ==
  /\ mpc = "execute" /\ tpc[t] = "fetched"
  /\ mpc' = "decrement" /\ current' = {t}
  /\ tpc' = [tpc EXCEPT ![t] = "queued"]
  /\ UNCHANGED <<asked, mreg, freeThreads, treg, lost>>

\* No thread can be started: an Error, which run does not catch.
ExecuteDies ==
  /\ mpc = "execute" /\ Fetched # {}
  /\ mpc' = "dead"
  /\ UNCHANGED <<asked, current, mreg, freeThreads, tpc, treg, lost>>

Decrement ==
  /\ mpc = "decrement"
  /\ mpc' = "write" /\ mreg' = freeThreads
  /\ UNCHANGED <<asked, current, freeThreads, tpc, treg, lost>>

\* Mutant: one task per turn, the rest of the reply is forgotten.
FirstOnly == "sleep"

\* The loop over the reply goes on.
NextTask == "execute"

DecrementWrite ==
  /\ mpc = "write"
  /\ mpc' = NextTask /\ current' = {}
  /\ Write(mreg, mreg - 1)
  /\ UNCHANGED <<asked, mreg, tpc, treg>>

AllExecuted ==
  /\ mpc = "execute" /\ Fetched = {}
  /\ mpc' = "sleep"
  /\ UNCHANGED <<asked, current, mreg, freeThreads, tpc, treg, lost>>

WakeUp ==
  /\ mpc \in {"sleep", "recover"}
  /\ mpc' = "poll"
  /\ UNCHANGED <<asked, current, mreg, freeThreads, tpc, treg, lost>>

Manager ==
  \/ Poll \/ Ask \/ GetTasksFails \/ ExecuteDies \/ AllExecuted \/ WakeUp
  \/ Decrement \/ DecrementWrite
  \/ \E S \in SUBSET At({"elsewhere"}) : GetTasks(S)
  \/ \E t \in Tasks : Execute(t)

(***************************************************************************)
(* The worker threads.                                                     *)
(***************************************************************************)

Moves(t, from, to) == tpc[t] = from /\ tpc' = [tpc EXCEPT ![t] = to]

\* newFixedThreadPool(maxThreads)
ThreadLeft == Cardinality(Holding) < MaxThreads

Begin(t) ==
  /\ ThreadLeft
  /\ Moves(t, "queued", "running")
  /\ UNCHANGED <<manager, freeThreads, treg, lost>>

ComesBack(t) ==
  /\ Moves(t, "running", "report")
  /\ UNCHANGED <<manager, freeThreads, treg, lost>>

\* Mutant: the thread is counted back only after a report that succeeded.
IfReported(ok) == IF ok THEN "increment" ELSE "returned"

\* finally
InAnyCase(ok) == "increment"

Report(t, ok) ==
  /\ Moves(t, "report", InAnyCase(ok))
  /\ UNCHANGED <<manager, freeThreads, treg, lost>>

Increment(t) ==
  /\ Moves(t, "increment", "write")
  /\ treg' = [treg EXCEPT ![t] = freeThreads]
  /\ UNCHANGED <<manager, freeThreads, lost>>

IncrementWrite(t) ==
  /\ Moves(t, "write", "returned")
  /\ Write(treg[t], treg[t] + 1)
  /\ UNCHANGED <<manager, treg>>

Worker(t) ==
  \/ Begin(t) \/ ComesBack(t) \/ Increment(t) \/ IncrementWrite(t)
  \/ \E ok \in BOOLEAN : Report(t, ok)

Next == Manager \/ \E t \in Tasks : Worker(t)

Spec == Init /\ [][Next]_vars

\* The JVM runs every thread, checkers and reports come back (see
\* CheckerExecution for the ones that do not), and the task manager answers.
FairSpec == Spec /\ WF_vars(Manager) /\ \A t \in Tasks : WF_vars(Worker(t))

-----------------------------------------------------------------------------

TypeOK ==
  /\ mpc \in {"poll", "ask", "getTasks", "execute", "decrement", "write",
              "sleep", "recover", "dead"}
  /\ freeThreads \in Int /\ asked \in Int /\ mreg \in Int
  /\ current \subseteq Tasks /\ Cardinality(current) <= 1
  /\ tpc \in [Tasks -> {"elsewhere", "fetched", "queued", "running", "report",
                        "increment", "write", "returned"}]
  /\ treg \in [Tasks -> Int]
  /\ lost \in BOOLEAN
  /\ Cardinality(Holding) <= MaxThreads

\* Short of a lost update the field is exact: what the pool has, less the
\* threads counted down, plus those counted back, whichever way reports,
\* requests and the loop interleave (WorkerManager 16, 28, 55).
CapacityKept ==
  ~lost =>
    freeThreads = MaxThreads - Cardinality(Started \ current)
                             + Cardinality(Returned)

\* Short of a lost update no task waits in the pool's queue, although a task
\* is given to the pool before it is counted down: those given and not yet
\* back never outnumber the threads (WorkerManager 50-57).
NoTaskWaits == ~lost => Cardinality(Started \ Returned) <= MaxThreads

\* A task that was fetched is run and counted back, lost updates or not,
\* unless the manager's thread died with the reply in its hands.
EveryTaskReturns ==
  \A t \in Tasks : tpc[t] = "fetched" ~> tpc[t] = "returned" \/ mpc = "dead"

\* The daemon asks for work again and again.  Only a lost update can make it
\* stop for good, by a freeThreads that stays at zero (WorkerManager 50).
KeepsAsking == []<>(mpc = "ask") \/ <>lost \/ <>(mpc = "dead")

(***************************************************************************)
(* The inductive invariant: every task in the reply has its free thread.   *)
(***************************************************************************)

CurrentOK ==
  /\ current \subseteq Started
  /\ mpc \in {"decrement", "write"} <=> current # {}
  /\ mpc \notin {"execute", "decrement", "write", "dead"} => Fetched = {}

EnoughThreads ==
  ~lost =>
    /\ freeThreads >= 0
    /\ mpc = "getTasks" => asked <= freeThreads
    /\ Cardinality(Fetched) + Cardinality(current) <= freeThreads

IInv == TypeOK /\ CurrentOK /\ CapacityKept /\ EnoughThreads
=============================================================================
