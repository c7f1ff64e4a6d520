-------------------------- MODULE CheckerExecution --------------------------
(***************************************************************************)
(* One task on a checker daemon: Worker.run takes it through its stages,   *)
(* and in each of them ProcessWrapper.ExecuteOrFail runs the checker under *)
(* a TimeoutKiller.  Three parties interleave: the worker's thread, the    *)
(* killer's thread and the checker process with whatever it started.       *)
(*                                                                         *)
(* Abstractions.  Time is left out: the deadline may pass whenever the     *)
(* killer sleeps.  The two reader threads are one condition, that one of   *)
(* them still waits for its pipe ("held"); what they read is left out.  A  *)
(* killer belongs to one process, and the model keeps the one of the       *)
(* current stage: an older one that is still awake finds a process that    *)
(* has exited, and does nothing to it.                                     *)
(***************************************************************************)
EXTENDS Naturals, FiniteSets

CONSTANTS
  Codes,       \* what a checker may exit with (CheckerExitCode)
  Unknown      \* an exit code isUnknown rejects; a killed process has one too

ASSUME CodesAssumption ==
  /\ {"OK", "Down", "CheckerError"} \subseteq Codes
  /\ Unknown \notin Codes

VARIABLES
  wpc,         \* the worker's thread
  stage,       \* Worker: the stage under way, "" when all have passed
  random,      \* the task brings a random previous flag
  status,      \* Worker: the status it will report
  newFlagSuccess, randomFlagSuccess,
  proc, code,  \* the checker process of this stage and its exit code
  held,        \* a reader waits: somebody holds the other end of its pipe
  kpc,         \* the TimeoutKiller's thread
  wasKilled,   \* TimeoutKiller.wasKilled
  passed,      \* history: stages whose checker came back with OK
  errored,     \* history: an Error (not an Exception) went through run
  outlived     \* history: in this stage destroy did not end what it should

worker == <<wpc, stage, random, status, newFlagSuccess, randomFlagSuccess>>
process == <<proc, code, held>>
killer == <<kpc, wasKilled>>
history == <<passed, errored, outlived>>
executionVars == <<worker, process, killer, history>>

Stages == {"check", "put", "get", "random"}

ExecutionInit ==
  /\ wpc = "exec" /\ stage = "check" /\ random \in BOOLEAN
  /\ status = "OK" /\ newFlagSuccess = FALSE /\ randomFlagSuccess = FALSE
  /\ proc = "none" /\ code = Unknown /\ held = FALSE
  /\ kpc = "none" /\ wasKilled = FALSE
  /\ passed = {} /\ errored = FALSE /\ outlived = FALSE

(***************************************************************************)
(* The worker's thread.                                                    *)
(***************************************************************************)

\* Both exceptions end the stages: a checker's failure brings its status,
\* any other exception is the daemon's own CheckerError.
Fail(st) ==
  /\ status' = st
  /\ wpc' = "report"
  /\ UNCHANGED <<stage, random, newFlagSuccess, randomFlagSuccess>>

\* Runtime.exec, then the killer, then the readers.
Exec ==
  /\ wpc = "exec"
  /\ proc' = "running" /\ code' = Unknown /\ held' = TRUE
  /\ kpc' = "sleeping" /\ wasKilled' = FALSE
  /\ wpc' = "join" /\ outlived' = FALSE
  /\ UNCHANGED <<stage, random, status, newFlagSuccess, randomFlagSuccess,
                 passed, errored>>

\* The checker cannot be started: an IOException.
ExecFails ==
  /\ wpc = "exec"
  /\ Fail("CheckerError")
  /\ UNCHANGED <<process, killer, history>>

\* A thread cannot be started or the memory is used up: an Error, which no
\* catch clause of run takes.  The report in its finally carries whatever the
\* fields hold.
ErrorEscapes ==
  /\ wpc \in {"exec", "result"}
  /\ wpc' = "report" /\ errored' = TRUE
  /\ UNCHANGED <<stage, random, status, newFlagSuccess, randomFlagSuccess,
                 process, killer, passed, outlived>>

\* The readers' join returns at the end of both pipes.
Join ==
  /\ wpc = "join" /\ ~held
  /\ wpc' = "waitFor"
  /\ UNCHANGED <<stage, random, status, newFlagSuccess, randomFlagSuccess,
                 process, killer, history>>

\* waitFor returns, and StopWatching interrupts the killer's sleep.  Past its
\* sleep the killer no longer hears of it.
WaitFor ==
  /\ wpc = "waitFor" /\ proc = "exited"
  /\ wpc' = "result"
  /\ kpc' = IF kpc = "sleeping" THEN "done" ELSE kpc
  /\ UNCHANGED <<stage, random, status, newFlagSuccess, randomFlagSuccess,
                 process, wasKilled, passed, errored, outlived>>

\* Mutant: the flag counts as planted before it was read back.
PlantedAfterPut(nf) == newFlagSuccess' = (nf \/ stage = "put")

\* The flag is planted once the checker has read it back.
Planted(nf) == newFlagSuccess' = (nf \/ stage = "get")

RandomServed(next) == randomFlagSuccess' = (next = "")

\* The next stage, "" after the last.
NextStage ==
  [check |-> "put", put |-> "get", get |-> IF random THEN "random" ELSE "",
   random |-> ""][stage]

Pass ==
  /\ Planted(newFlagSuccess)
  /\ RandomServed(NextStage)
  /\ stage' = NextStage
  /\ wpc' = IF NextStage = "" THEN "report" ELSE "exec"
  /\ UNCHANGED <<random, status>>

\* Mutant: any code isUnknown knows lets the stage pass.
AnyKnownCode == ~wasKilled /\ code # Unknown

\* The checker came back in time, with OK.
Passes == ~wasKilled /\ code = "OK"

\* CheckerWrapper2: a killed checker means Down, an exit code other than OK
\* is the status, even one that isUnknown rejects.
Result ==
  /\ wpc = "result"
  /\ \/ /\ Passes
        /\ Pass
     \/ /\ ~Passes
        /\ Fail(IF wasKilled THEN "Down" ELSE code)
  /\ passed' = IF ~wasKilled /\ code = "OK" THEN passed \cup {stage} ELSE passed
  /\ UNCHANGED <<process, killer, errored, outlived>>

\* finishTask, whose own exceptions end in the log.
ReportIt ==
  /\ wpc = "report"
  /\ wpc' = "done"
  /\ UNCHANGED <<stage, random, status, newFlagSuccess, randomFlagSuccess,
                 process, killer, history>>

Execution == Exec \/ ExecFails \/ ErrorEscapes \/ Join \/ WaitFor \/ Result \/ ReportIt

(***************************************************************************)
(* The killer's thread.                                                    *)
(***************************************************************************)

\* Its sleep is over.
Deadline ==
  /\ kpc = "sleeping"
  /\ kpc' = "awake"
  /\ UNCHANGED <<worker, process, wasKilled, history>>

Mark ==
  /\ kpc = "awake"
  /\ kpc' = "marked" /\ wasKilled' = TRUE
  /\ UNCHANGED <<worker, process, history>>

\* Mutant: the killer only says that time is up.
NotDestroyed == UNCHANGED <<process, outlived>>

\* destroy sends a signal the checker may ignore, and does not reach what
\* the checker has started.
Destroyed ==
  /\ \/ proc = "running" /\ proc' = "exited" /\ held' \in {FALSE, held}
     \/ UNCHANGED <<proc, held>>
  /\ outlived' = (proc' = "running" \/ held')
  /\ UNCHANGED code

Destroy ==
  /\ kpc = "marked"
  /\ kpc' = "done"
  /\ Destroyed
  /\ UNCHANGED <<worker, wasKilled, passed, errored>>

Killer == Deadline \/ Mark \/ Destroy

(***************************************************************************)
(* The checker process.                                                    *)
(***************************************************************************)

\* It exits; a child of it may keep its pipes.
Exits(c) ==
  /\ proc = "running"
  /\ proc' = "exited" /\ code' = c
  /\ held' \in {FALSE, held}
  /\ UNCHANGED <<worker, killer, history>>

\* It closes its output, or the last child that held a pipe is gone or wrote
\* to it after destroy had closed the reader's end.
Releases ==
  /\ held
  /\ held' = FALSE
  /\ UNCHANGED <<proc, code, worker, killer, history>>

Process == Releases \/ \E c \in Codes \cup {Unknown} : Exits(c)

ExecutionNext == Execution \/ Killer \/ Process

ExecutionSpec == ExecutionInit /\ [][ExecutionNext]_executionVars

\* The JVM runs both threads, and a sleep ends.  Nothing is assumed of the
\* checker: it may run for ever, and so may its children.
ExecutionFairSpec == ExecutionSpec /\ WF_executionVars(Execution) /\ WF_executionVars(Killer)

-----------------------------------------------------------------------------

WorkerType ==
  /\ wpc \in {"exec", "join", "waitFor", "result", "report", "done"}
  /\ stage \in Stages \cup {""} /\ random \in BOOLEAN
  /\ status \in Codes \cup {Unknown}
  /\ newFlagSuccess \in BOOLEAN /\ randomFlagSuccess \in BOOLEAN
  /\ passed \subseteq Stages /\ errored \in BOOLEAN

RunType ==
  /\ proc \in {"none", "running", "exited"}
  /\ code \in Codes \cup {Unknown} /\ held \in BOOLEAN
  /\ kpc \in {"none", "sleeping", "awake", "marked", "done"}
  /\ wasKilled \in BOOLEAN /\ outlived \in BOOLEAN

ExecutionTypeOK == WorkerType /\ RunType

Reporting == wpc \in {"report", "done"}

\* The stages a task must pass.
Due == IF random THEN Stages ELSE Stages \ {"random"}

\* The task manager answers 400 to a report that claims both flags and a
\* status other than OK, and the task would be failed as Down at the end of
\* the round (DoneTaskHandler 46-62): no interleaving makes a worker send one.
ReportAccepted ==
  Reporting /\ newFlagSuccess /\ randomFlagSuccess => status = "OK"

\* A flag is reported as planted only after a checker has put it and read it
\* back in time, whatever happened to the later stages (Worker 34-43).
PlantedMeansReadBack ==
  newFlagSuccess => {"check", "put", "get"} \subseteq passed

\* OK is reported when every due stage has passed.  The initial value of
\* status is OK, so the only other way there is an Error, which run does not
\* catch (Worker 21, 54-66).
OKMeansAllPassed ==
  Reporting /\ status = "OK" => Due \subseteq passed \/ errored

\* A task always ends in a report, unless the checker, or a child with its
\* pipes, outlived destroy: the worker then waits in join or waitFor
\* (ProcessWrapper 55-58).
EveryTaskReported == <>(wpc = "done") \/ <>[]outlived

(***************************************************************************)
(* The inductive invariant: where the worker stands tells what has passed. *)
(***************************************************************************)

StagesOK ==
  /\ stage # "check" => "check" \in passed
  /\ stage \notin {"check", "put"} => "put" \in passed
  /\ stage \in {"random", ""} => "get" \in passed
  /\ stage = "" /\ random => "random" \in passed
  /\ stage = "random" => random
  /\ randomFlagSuccess => stage = ""
  /\ stage = "" => Reporting /\ status = "OK"
  /\ ~Reporting => status = "OK"
  /\ Reporting /\ status = "OK" => stage = "" \/ errored

ExecutionIInv == ExecutionTypeOK /\ PlantedMeansReadBack /\ StagesOK
=============================================================================
