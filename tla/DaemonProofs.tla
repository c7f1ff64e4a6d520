---------------------------- MODULE DaemonProofs ----------------------------
(***************************************************************************)
(* The checker daemon.  The counting of WorkerManager, for every pool size *)
(* and set of tasks: without a lost update the field is exact and no task  *)
(* waits for a thread.  And what CheckerExecution reports, for every set   *)
(* of exit codes.                                                          *)
(***************************************************************************)
EXTENDS WorkerManager, CheckerExecution, FiniteSetTheorems, TLAPS

(***************************************************************************)
(* The worker manager.                                                     *)
(***************************************************************************)

PCs == {"elsewhere", "fetched", "queued", "running", "report", "increment",
        "write", "returned"}

\* The sets of tasks are finite, as Tasks is.
LEMMA AtFinite == ASSUME NEW P PROVE IsFiniteSet(At(P))
BY TasksAssumption, FS_Subset DEF At

\* The sets the invariant counts, after a step that moves no task.
LEMMA NoMove ==
  ASSUME UNCHANGED tpc
  PROVE  /\ Fetched' = Fetched /\ Started' = Started
         /\ Returned' = Returned /\ Holding' = Holding
BY DEF Fetched, Started, Returned, Holding, At

LEMMA Counts ==
  /\ IsFiniteSet(Fetched) /\ Cardinality(Fetched) \in Nat
  /\ IsFiniteSet(Started) /\ Cardinality(Started) \in Nat
  /\ IsFiniteSet(Returned) /\ Cardinality(Returned) \in Nat
  /\ IsFiniteSet(Holding) /\ Cardinality(Holding) \in Nat
BY AtFinite, FS_CardinalityType DEF Fetched, Started, Returned, Holding

LEMMA InitIInv == Init => IInv
<1> SUFFICES ASSUME Init PROVE IInv
  OBVIOUS
<1>1. Fetched = {} /\ Started = {} /\ Returned = {} /\ Holding = {}
  BY DEF Init, Fetched, Started, Returned, Holding, At
<1>2. Cardinality({}) = 0
  BY FS_EmptySet
<1>3. TypeOK
  <2>1. tpc \in [Tasks -> PCs] /\ treg \in [Tasks -> Int]
    BY DEF Init, PCs
  <2>2. Cardinality(current) <= 1 /\ Cardinality(Holding) <= MaxThreads
    BY <1>1, <1>2, TasksAssumption DEF Init
  <2>3. lost \in BOOLEAN /\ current \subseteq Tasks
    BY DEF Init
  <2>4. mpc = "poll" /\ freeThreads \in Int /\ asked \in Int /\ mreg \in Int
    BY TasksAssumption DEF Init
  <2> QED BY <2>1, <2>2, <2>3, <2>4 DEF TypeOK, PCs
<1>4. CurrentOK
  BY <1>1 DEF Init, CurrentOK
<1>5. CapacityKept
  BY <1>1, <1>2, TasksAssumption DEF Init, CapacityKept
<1>6. EnoughThreads
  BY <1>1, <1>2, TasksAssumption DEF Init, EnoughThreads
<1> QED BY <1>3, <1>4, <1>5, <1>6 DEF IInv

\* The manager's steps that neither move a task nor write the field.
LEMMA PlainSteps ==
  ASSUME IInv,
         Poll \/ Ask \/ GetTasksFails \/ ExecuteDies \/ AllExecuted \/ WakeUp
           \/ Decrement
  PROVE  IInv'
<1>1. /\ UNCHANGED tpc /\ UNCHANGED treg /\ UNCHANGED freeThreads
      /\ UNCHANGED current /\ UNCHANGED lost
  BY DEF Poll, Ask, GetTasksFails, ExecuteDies, AllExecuted, WakeUp, Decrement
<1>2. /\ Fetched' = Fetched /\ Started' = Started
      /\ Returned' = Returned /\ Holding' = Holding
  BY <1>1, NoMove
<1>3. /\ (asked' = asked /\ mpc' # "getTasks") \/ asked' = freeThreads
      /\ mreg' = mreg \/ mreg' = freeThreads
  BY DEF Poll, Ask, FreeOnes, GetTasksFails, ExecuteDies, AllExecuted, WakeUp,
         Decrement
<1>4. TypeOK'
  <2>1. mpc' \in {"poll", "ask", "getTasks", "execute", "decrement", "write",
                  "sleep", "recover", "dead"}
    BY DEF IInv, TypeOK, Poll, Ask, GetTasksFails, ExecuteDies, AllExecuted,
           WakeUp, Decrement
  <2>2. freeThreads' \in Int /\ asked' \in Int /\ mreg' \in Int
    BY <1>1, <1>3 DEF IInv, TypeOK
  <2> QED BY <1>1, <1>2, <2>1, <2>2 DEF IInv, TypeOK
<1>5. CurrentOK'
  BY <1>1, <1>2
     DEF IInv, CurrentOK, Poll, Ask, GetTasksFails, ExecuteDies, AllExecuted,
         WakeUp, Decrement
<1>6. CapacityKept'
  BY <1>1, <1>2 DEF IInv, CapacityKept
<1>7. EnoughThreads'
  BY <1>1, <1>2, <1>3 DEF IInv, TypeOK, EnoughThreads
<1> QED BY <1>4, <1>5, <1>6, <1>7 DEF IInv

\* The reply: its tasks become Fetched, and each has its free thread.
LEMMA GetTasksStep ==
  ASSUME IInv, NEW S \in SUBSET At({"elsewhere"}), GetTasks(S)
  PROVE  IInv'
<1>1. /\ UNCHANGED treg /\ UNCHANGED freeThreads /\ UNCHANGED asked
      /\ UNCHANGED current /\ UNCHANGED lost /\ UNCHANGED mreg
      /\ mpc = "getTasks" /\ mpc' = "execute"
  BY DEF GetTasks
<1>2. tpc' = [t \in Tasks |-> IF t \in S THEN "fetched" ELSE tpc[t]]
  BY DEF GetTasks
<1>3. \A t \in S : t \in Tasks /\ tpc[t] = "elsewhere"
  BY DEF At
<1>4. Fetched = {} /\ current = {}
  BY <1>1 DEF IInv, CurrentOK
<1>5. Fetched' = S
  BY <1>2, <1>3, <1>4 DEF Fetched, At
<1>6. Started' = Started /\ Returned' = Returned /\ Holding' = Holding
  BY <1>2, <1>3 DEF Started, Returned, Holding, At
<1>7. IsFiniteSet(S) /\ Cardinality(S) \in Nat
  BY <1>5, AtFinite, FS_Subset, FS_CardinalityType
<1>8. TypeOK'
  <2>1. tpc' \in [Tasks -> PCs]
    BY <1>2 DEF IInv, TypeOK, PCs
  <2> QED BY <1>1, <1>6, <2>1 DEF IInv, TypeOK, PCs
<1>9. CurrentOK'
  BY <1>1, <1>4, <1>6 DEF IInv, CurrentOK
<1>10. CapacityKept'
  BY <1>1, <1>6 DEF IInv, CapacityKept
<1>11. EnoughThreads'
  <2>1. Cardinality(current) = 0
    BY <1>4, FS_EmptySet
  <2>2. Cardinality(S) <= (IF asked > 0 THEN asked ELSE 0)
    BY DEF GetTasks
  <2> QED BY <1>1, <1>5, <1>7, <2>1, <2>2 DEF IInv, TypeOK, EnoughThreads
<1> QED BY <1>8, <1>9, <1>10, <1>11 DEF IInv

\* A task goes from the reply to the pool, and becomes the one to count down.
LEMMA ExecuteStep ==
  ASSUME IInv, NEW t \in Tasks, Execute(t)
  PROVE  IInv'
<1>1. /\ UNCHANGED treg /\ UNCHANGED freeThreads /\ UNCHANGED asked
      /\ UNCHANGED lost /\ UNCHANGED mreg
      /\ mpc = "execute" /\ mpc' = "decrement" /\ current' = {t}
  BY DEF Execute
<1>2. /\ tpc \in [Tasks -> PCs] /\ tpc[t] = "fetched"
      /\ tpc' = [tpc EXCEPT ![t] = "queued"]
  BY DEF Execute, IInv, TypeOK, PCs
<1>3. current = {}
  BY <1>1 DEF IInv, CurrentOK
<1>4. /\ Cardinality(Fetched') = Cardinality(Fetched) - 1
      /\ Started' = Started \cup {t} /\ t \notin Started
      /\ Returned' = Returned /\ Holding' = Holding
  <2>1. /\ Fetched' = Fetched \ {t} /\ t \in Fetched
        /\ Started' = Started \cup {t} /\ t \notin Started
        /\ Returned' = Returned /\ Holding' = Holding
    BY <1>2 DEF Fetched, Started, Returned, Holding, At
  <2>2. Cardinality(Fetched \ {t}) = Cardinality(Fetched) - 1
    BY <2>1, Counts, FS_RemoveElement
  <2> QED BY <2>1, <2>2
<1>5. TypeOK'
  <2>1. tpc' \in [Tasks -> PCs]
    BY <1>2 DEF PCs
  <2>2. Cardinality(current') = 1
    BY <1>1, FS_Singleton
  <2> QED BY <1>1, <1>4, <2>1, <2>2 DEF IInv, TypeOK, PCs
<1>6. CurrentOK'
  BY <1>1, <1>4 DEF IInv, CurrentOK
<1>7. CapacityKept'
  <2>1. Started' \ current' = Started \ current
    BY <1>1, <1>3, <1>4
  <2> QED BY <1>1, <1>4, <2>1 DEF IInv, CapacityKept
<1>8. EnoughThreads'
  <2>1. Cardinality(current) = 0 /\ Cardinality(current') = 1
    BY <1>1, <1>3, FS_EmptySet, FS_Singleton
  <2> QED BY <1>1, <1>4, <2>1, Counts DEF IInv, TypeOK, EnoughThreads
<1> QED BY <1>5, <1>6, <1>7, <1>8 DEF IInv

\* The task executed last is counted down.
LEMMA DecrementWriteStep ==
  ASSUME IInv, DecrementWrite
  PROVE  IInv'
<1>1. /\ UNCHANGED tpc /\ UNCHANGED treg /\ UNCHANGED asked
      /\ UNCHANGED mreg /\ freeThreads' = mreg - 1
      /\ mpc = "write" /\ mpc' = "execute" /\ current' = {}
  BY DEF DecrementWrite, NextTask, Write
<1>2. ~lost' => ~lost /\ freeThreads = mreg
  BY DEF DecrementWrite, Write
<1>3. /\ Fetched' = Fetched /\ Started' = Started
      /\ Returned' = Returned /\ Holding' = Holding
  BY <1>1, NoMove
<1>4. PICK t \in Started : current = {t}
  <2>1. current # {} /\ current \subseteq Started
    BY <1>1 DEF IInv, CurrentOK
  <2>2. PICK t \in current : TRUE
    BY <2>1
  <2>3. IsFiniteSet(current) /\ Cardinality(current) <= 1
    BY <2>1, Counts, FS_Subset DEF IInv, TypeOK
  <2>4. Cardinality(current \ {t}) = Cardinality(current) - 1
    BY <2>2, <2>3, FS_RemoveElement
  <2>5. IsFiniteSet(current \ {t}) /\ Cardinality(current \ {t}) \in Nat
        /\ Cardinality(current) \in Nat
    BY <2>3, FS_Subset, FS_CardinalityType
  <2>6. Cardinality(current \ {t}) = 0
    BY <2>3, <2>4, <2>5
  <2>7. current \ {t} = {}
    BY <2>5, <2>6, FS_EmptySet
  <2> QED BY <2>1, <2>2, <2>7
<1>5. Cardinality(Started \ {t}) = Cardinality(Started) - 1
  BY <1>4, Counts, FS_RemoveElement
<1>6. Cardinality(current) = 1 /\ Cardinality(current') = 0
  BY <1>1, <1>4, FS_EmptySet, FS_Singleton
<1>7. TypeOK'
  <2>1. freeThreads' \in Int
    BY <1>1 DEF IInv, TypeOK
  <2>2. lost' \in BOOLEAN
    BY DEF DecrementWrite, Write
  <2> QED BY <1>1, <1>3, <1>6, <2>1, <2>2 DEF IInv, TypeOK
<1>8. CurrentOK'
  BY <1>1, <1>3 DEF IInv, CurrentOK
<1>9. CapacityKept'
  <2>1. Started' \ current' = Started /\ Started \ current = Started \ {t}
    BY <1>1, <1>3, <1>4
  <2> QED BY <1>1, <1>2, <1>3, <1>5, <2>1, Counts, TasksAssumption
          DEF IInv, TypeOK, CapacityKept
<1>10. EnoughThreads'
  BY <1>1, <1>2, <1>3, <1>6, Counts DEF IInv, TypeOK, EnoughThreads
<1> QED BY <1>7, <1>8, <1>9, <1>10 DEF IInv

\* A worker's steps up to its write: only Holding may grow, and only while
\* the pool has a thread.
LEMMA WorkerSteps ==
  ASSUME IInv, NEW t \in Tasks,
         Begin(t) \/ ComesBack(t) \/ Increment(t)
           \/ \E ok \in BOOLEAN : Report(t, ok)
  PROVE  IInv'
<1>1. /\ UNCHANGED mpc /\ UNCHANGED asked /\ UNCHANGED current
      /\ UNCHANGED mreg /\ UNCHANGED freeThreads /\ UNCHANGED lost
  BY DEF Begin, ComesBack, Increment, Report, manager
<1>2. tpc \in [Tasks -> PCs] /\ treg \in [Tasks -> Int]
  BY DEF IInv, TypeOK, PCs
<1>3. PICK from \in {"queued", "running", "report", "increment"},
           to \in {"running", "report", "increment", "write"} :
        /\ tpc[t] = from /\ tpc' = [tpc EXCEPT ![t] = to]
        /\ from = "queued" => ThreadLeft
  BY DEF Begin, ComesBack, Increment, Report, Moves, InAnyCase
<1>4. Fetched' = Fetched /\ Started' = Started /\ Returned' = Returned
  BY <1>2, <1>3 DEF Fetched, Started, Returned, At
<1>5. Cardinality(Holding') <= MaxThreads
  <2>1. from = "queued" => Holding' = Holding \cup {t} /\ t \notin Holding
    BY <1>2, <1>3 DEF Holding, At
  <2>2. from # "queued" => Holding' = Holding
    BY <1>2, <1>3 DEF Holding, At
  <2>3. t \notin Holding =>
          Cardinality(Holding \cup {t}) = Cardinality(Holding) + 1
    BY Counts, FS_AddElement
  <2> QED BY <1>3, <2>1, <2>2, <2>3, Counts, TasksAssumption
          DEF ThreadLeft, IInv, TypeOK
<1>6. TypeOK'
  <2>1. tpc' \in [Tasks -> PCs]
    BY <1>2, <1>3 DEF PCs
  <2>2. treg' \in [Tasks -> Int]
    BY <1>2 DEF Begin, ComesBack, Increment, Report, IInv, TypeOK
  <2> QED BY <1>1, <1>5, <2>1, <2>2 DEF IInv, TypeOK, PCs
<1>7. CurrentOK'
  BY <1>1, <1>4 DEF IInv, CurrentOK
<1>8. CapacityKept'
  BY <1>1, <1>4 DEF IInv, CapacityKept
<1>9. EnoughThreads'
  BY <1>1, <1>4 DEF IInv, EnoughThreads
<1> QED BY <1>6, <1>7, <1>8, <1>9 DEF IInv

\* A worker counts itself back as it returns its thread.
LEMMA IncrementWriteStep ==
  ASSUME IInv, NEW t \in Tasks, IncrementWrite(t)
  PROVE  IInv'
<1>1. /\ UNCHANGED mpc /\ UNCHANGED asked /\ UNCHANGED current
      /\ UNCHANGED mreg /\ UNCHANGED treg /\ freeThreads' = treg[t] + 1
  BY DEF IncrementWrite, Write, manager
<1>2. ~lost' => ~lost /\ freeThreads = treg[t]
  BY DEF IncrementWrite, Write
<1>3. /\ tpc \in [Tasks -> PCs] /\ tpc[t] = "write"
      /\ tpc' = [tpc EXCEPT ![t] = "returned"]
  BY DEF IncrementWrite, Moves, IInv, TypeOK, PCs
<1>4. /\ Fetched' = Fetched /\ Started' = Started
      /\ Cardinality(Returned') = Cardinality(Returned) + 1
      /\ Cardinality(Holding') = Cardinality(Holding) - 1
  <2>1. /\ Fetched' = Fetched /\ Started' = Started
        /\ Returned' = Returned \cup {t} /\ t \notin Returned
        /\ Holding' = Holding \ {t} /\ t \in Holding
    BY <1>3 DEF Fetched, Started, Returned, Holding, At
  <2>2. Cardinality(Returned \cup {t}) = Cardinality(Returned) + 1
    BY <2>1, Counts, FS_AddElement
  <2>3. Cardinality(Holding \ {t}) = Cardinality(Holding) - 1
    BY <2>1, Counts, FS_RemoveElement
  <2> QED BY <2>1, <2>2, <2>3
<1>5. TypeOK'
  <2>1. tpc' \in [Tasks -> PCs] /\ freeThreads' \in Int
    BY <1>1, <1>3 DEF IInv, TypeOK, PCs
  <2>2. lost' \in BOOLEAN
    BY DEF IncrementWrite, Write
  <2>3. Cardinality(Holding') <= MaxThreads
    BY <1>4, Counts, TasksAssumption DEF IInv, TypeOK
  <2> QED BY <1>1, <2>1, <2>2, <2>3 DEF IInv, TypeOK, PCs
<1>6. CurrentOK'
  BY <1>1, <1>4 DEF IInv, CurrentOK
<1>7. CapacityKept'
  <2>1. Cardinality(Started \ current) \in Nat
    BY Counts, FS_Subset, FS_CardinalityType
  <2> QED BY <1>1, <1>2, <1>4, <2>1, Counts, TasksAssumption
          DEF IInv, TypeOK, CapacityKept
<1>8. EnoughThreads'
  <2>1. IsFiniteSet(current)
    BY TasksAssumption, FS_Subset DEF IInv, TypeOK
  <2> QED BY <1>1, <1>2, <1>4, <2>1, Counts, FS_CardinalityType
          DEF IInv, TypeOK, EnoughThreads
<1> QED BY <1>5, <1>6, <1>7, <1>8 DEF IInv

\* The inductive invariant holds in every reachable state.
THEOREM Invariance == Spec => []IInv
<1>1. IInv /\ [Next]_vars => IInv'
  <2> SUFFICES ASSUME IInv, [Next]_vars PROVE IInv'
    OBVIOUS
  <2>1. CASE Manager
    BY <2>1, PlainSteps, GetTasksStep, ExecuteStep, DecrementWriteStep
       DEF Manager
  <2>2. CASE \E t \in Tasks : Worker(t)
    BY <2>2, WorkerSteps, IncrementWriteStep DEF Worker
  <2>3. CASE UNCHANGED vars
    <3>1. /\ UNCHANGED mpc /\ UNCHANGED asked /\ UNCHANGED current
          /\ UNCHANGED mreg /\ UNCHANGED freeThreads /\ UNCHANGED lost
          /\ UNCHANGED tpc /\ UNCHANGED treg
      BY <2>3 DEF vars, manager
    <3> QED BY <3>1, NoMove
            DEF IInv, TypeOK, CurrentOK, CapacityKept, EnoughThreads
  <2> QED BY <2>1, <2>2, <2>3 DEF Next
<1> QED BY InitIInv, <1>1, PTL DEF Spec

\* Every variable keeps its type, and the pool its bound.
THEOREM TypeCorrect == Spec => []TypeOK
<1>1. IInv => TypeOK
  BY DEF IInv
<1> QED BY <1>1, Invariance, PTL

\* The field counts the free threads unless an update was lost.
THEOREM CapacityExact == Spec => []CapacityKept
<1>1. IInv => CapacityKept
  BY DEF IInv
<1> QED BY <1>1, Invariance, PTL

\* No task waits for a thread unless an update was lost.
THEOREM NoTaskQueues == Spec => []NoTaskWaits
<1>1. ASSUME IInv, ~lost
      PROVE  Cardinality(Started \ Returned) <= MaxThreads
  <2>1. Returned \subseteq Started /\ current \subseteq Started
    BY <1>1 DEF Returned, Started, At, IInv, CurrentOK
  <2>2. IsFiniteSet(current) /\ Cardinality(current) \in Nat
    BY <2>1, Counts, FS_Subset, FS_CardinalityType
  <2>3. Started \cap Returned = Returned /\ Started \cap current = current
    BY <2>1
  <2>4. Cardinality(Started \ Returned)
          = Cardinality(Started) - Cardinality(Returned)
    <3>1. Cardinality(Started \ Returned)
            = Cardinality(Started) - Cardinality(Started \cap Returned)
      BY Counts, FS_Difference
    <3> QED BY <2>3, <3>1
  <2>5. Cardinality(Started \ current)
          = Cardinality(Started) - Cardinality(current)
    <3>1. Cardinality(Started \ current)
            = Cardinality(Started) - Cardinality(Started \cap current)
      BY <2>2, Counts, FS_Difference
    <3> QED BY <2>3, <3>1
  <2>6. /\ freeThreads = MaxThreads - Cardinality(Started \ current)
                                    + Cardinality(Returned)
        /\ Cardinality(Fetched) + Cardinality(current) <= freeThreads
    BY <1>1 DEF IInv, CapacityKept, EnoughThreads
  <2> QED BY <2>2, <2>4, <2>5, <2>6, Counts, TasksAssumption
<1>2. IInv => NoTaskWaits
  BY <1>1 DEF NoTaskWaits
<1> QED BY <1>2, Invariance, PTL

(***************************************************************************)
(* The execution of a task.                                                *)
(***************************************************************************)

\* What the worker has concluded so far: the part of the invariant that
\* neither the killer nor the process can disturb.
Conclusions == WorkerType /\ PlantedMeansReadBack /\ StagesOK

LEMMA ExecutionInitIInv == ExecutionInit => ExecutionIInv
<1> SUFFICES ASSUME ExecutionInit PROVE ExecutionIInv
  OBVIOUS
<1>1. Conclusions
  BY CodesAssumption
     DEF ExecutionInit, Conclusions, WorkerType, PlantedMeansReadBack, StagesOK, Stages,
         Reporting
<1>2. RunType
  BY CodesAssumption DEF ExecutionInit, RunType
<1> QED BY <1>1, <1>2 DEF ExecutionIInv, ExecutionTypeOK, Conclusions

\* The conclusions stand while the worker only waits.
LEMMA ConclusionsStand ==
  ASSUME Conclusions,
         wpc' = wpc \/ (wpc \in {"exec", "join", "waitFor"} /\
                        wpc' \in {"join", "waitFor", "result"})
                    \/ (wpc = "report" /\ wpc' = "done"),
         UNCHANGED stage, UNCHANGED random, UNCHANGED status,
         UNCHANGED newFlagSuccess, UNCHANGED randomFlagSuccess,
         UNCHANGED passed, UNCHANGED errored
  PROVE  Conclusions'
BY DEF Conclusions, WorkerType, PlantedMeansReadBack, StagesOK, Reporting

\* The steps of the worker that judge nothing.
LEMMA WaitingSteps ==
  ASSUME ExecutionIInv, Exec \/ Join \/ WaitFor \/ ReportIt
  PROVE  ExecutionIInv'
<1>1. Conclusions /\ RunType
  BY DEF ExecutionIInv, ExecutionTypeOK, Conclusions
<1>2. Conclusions'
  BY <1>1, ConclusionsStand
     DEF Exec, Join, WaitFor, ReportIt, process, killer, history
<1>3. RunType'
  BY <1>1, CodesAssumption
     DEF RunType, Exec, Join, WaitFor, ReportIt, process, killer, history
<1> QED BY <1>2, <1>3 DEF ExecutionIInv, ExecutionTypeOK, Conclusions

\* A failure ends the stages with a status other than OK, an Error with OK.
LEMMA FailingSteps ==
  ASSUME ExecutionIInv, ExecFails \/ ErrorEscapes
  PROVE  ExecutionIInv'
<1>1. Conclusions /\ RunType
  BY DEF ExecutionIInv, ExecutionTypeOK, Conclusions
<1>2. CASE ExecFails
  <2>1. Conclusions'
    BY <1>1, <1>2, CodesAssumption
       DEF ExecFails, Fail, history, Conclusions, WorkerType,
           PlantedMeansReadBack, StagesOK, Reporting
  <2>2. RunType'
    BY <1>1, <1>2 DEF ExecFails, RunType, process, killer, history
  <2> QED BY <2>1, <2>2 DEF ExecutionIInv, ExecutionTypeOK, Conclusions
<1>3. CASE ErrorEscapes
  <2>1. Conclusions'
    BY <1>1, <1>3
       DEF ErrorEscapes, Conclusions, WorkerType, PlantedMeansReadBack,
           StagesOK, Reporting
  <2>2. RunType'
    BY <1>1, <1>3 DEF ErrorEscapes, RunType, process, killer
  <2> QED BY <2>1, <2>2 DEF ExecutionIInv, ExecutionTypeOK, Conclusions
<1> QED BY <1>2, <1>3

\* Result: a stage that passes makes the next one due, and one that fails
\* ends in a report with another status than OK.
LEMMA ResultStep ==
  ASSUME ExecutionIInv, Result
  PROVE  ExecutionIInv'
<1>1. Conclusions /\ RunType /\ stage \in Stages
  BY DEF ExecutionIInv, ExecutionTypeOK, Conclusions, WorkerType, StagesOK, Reporting, Result
<1>2. CASE Passes /\ Pass
  <2>1. passed' = passed \cup {stage} /\ UNCHANGED errored
    BY <1>2 DEF Passes, Result
  <2>2. Conclusions'
    <3>1. /\ stage' = NextStage /\ status' = status /\ random' = random
          /\ wpc' = IF stage' = "" THEN "report" ELSE "exec"
          /\ newFlagSuccess' = (newFlagSuccess \/ stage = "get")
          /\ randomFlagSuccess' = (stage' = "")
      BY <1>2 DEF Pass, Planted, RandomServed
    <3>2. /\ stage = "check" => stage' = "put"
          /\ stage = "put" => stage' = "get"
          /\ stage = "get" => stage' = IF random THEN "random" ELSE ""
          /\ stage = "random" => stage' = ""
      <4>1. CASE stage = "check"
        BY <3>1, <4>1 DEF NextStage
      <4>2. CASE stage = "put"
        BY <3>1, <4>2 DEF NextStage
      <4>3. CASE stage = "get"
        BY <3>1, <4>3 DEF NextStage
      <4>4. CASE stage = "random"
        BY <3>1, <4>4 DEF NextStage
      <4> QED BY <1>1, <4>1, <4>2, <4>3, <4>4 DEF Stages
    <3>3. WorkerType'
      <4>1. (newFlagSuccess \in BOOLEAN /\ randomFlagSuccess \in BOOLEAN)'
        BY <1>1, <3>1 DEF Conclusions, WorkerType
      <4>2. stage' \in Stages \cup {""} /\ passed' \subseteq Stages
        BY <1>1, <2>1, <3>2 DEF Conclusions, WorkerType, Stages
      <4> QED BY <1>1, <2>1, <3>1, <4>1, <4>2 DEF Conclusions, WorkerType
    <3>4. PlantedMeansReadBack'
      BY <1>1, <2>1, <3>1
         DEF Conclusions, WorkerType, PlantedMeansReadBack, StagesOK, Stages
    <3>5. StagesOK'
      BY <1>1, <2>1, <3>1, <3>2
         DEF Conclusions, WorkerType, StagesOK, Stages, Reporting, Result
    <3> QED BY <3>3, <3>4, <3>5 DEF Conclusions
  <2>3. RunType'
    BY <1>1 DEF Result, RunType, process, killer
  <2> QED BY <2>2, <2>3 DEF ExecutionIInv, ExecutionTypeOK, Conclusions
<1>3. CASE ~Passes /\ Fail(IF wasKilled THEN "Down" ELSE code)
  <2>1. passed' = passed /\ UNCHANGED errored /\ status' # "OK"
    BY <1>3, CodesAssumption DEF Passes, Result, Fail
  <2>2. Conclusions'
    BY <1>1, <1>3, <2>1, CodesAssumption
       DEF Result, Fail, Conclusions, WorkerType, RunType,
           PlantedMeansReadBack, StagesOK, Stages, Reporting
  <2>3. RunType'
    BY <1>1 DEF Result, RunType, process, killer
  <2> QED BY <2>2, <2>3 DEF ExecutionIInv, ExecutionTypeOK, Conclusions
<1> QED BY <1>2, <1>3 DEF Result

\* Neither the killer nor the process touches what the worker concluded.
LEMMA OtherSteps ==
  ASSUME ExecutionIInv, Killer \/ Process
  PROVE  ExecutionIInv'
<1>1. Conclusions /\ RunType
  BY DEF ExecutionIInv, ExecutionTypeOK, Conclusions
<1>2. UNCHANGED worker /\ UNCHANGED passed /\ UNCHANGED errored
  BY DEF Killer, Process, Deadline, Mark, Destroy, Releases, Exits, history
<1>3. Conclusions'
  BY <1>1, <1>2, ConclusionsStand DEF worker
<1>4. RunType'
  <2>1. CASE Killer
    BY <1>1, <2>1
       DEF Killer, Deadline, Mark, Destroy, Destroyed, RunType, process,
           history
  <2>2. CASE Process
    BY <1>1, <2>2 DEF Process, Releases, Exits, RunType, killer, history
  <2> QED BY <2>1, <2>2 DEF Killer, Process
<1> QED BY <1>3, <1>4 DEF ExecutionIInv, ExecutionTypeOK, Conclusions

\* The inductive invariant holds in every reachable state.
THEOREM ExecutionInvariance == ExecutionSpec => []ExecutionIInv
<1>1. ExecutionInit => ExecutionIInv
  BY ExecutionInitIInv
<1>2. ExecutionIInv /\ [ExecutionNext]_executionVars => ExecutionIInv'
  <2> SUFFICES ASSUME ExecutionIInv, [ExecutionNext]_executionVars PROVE ExecutionIInv'
    OBVIOUS
  <2>1. CASE Execution
    BY <2>1, WaitingSteps, FailingSteps, ResultStep DEF Execution
  <2>2. CASE Killer \/ Process
    BY <2>2, OtherSteps
  <2>3. CASE UNCHANGED executionVars
    <3>1. Conclusions'
      BY <2>3, ConclusionsStand
         DEF executionVars, worker, history, ExecutionIInv, ExecutionTypeOK, Conclusions
    <3>2. RunType'
      BY <2>3 DEF executionVars, process, killer, history, ExecutionIInv, ExecutionTypeOK, RunType
    <3> QED BY <3>1, <3>2 DEF ExecutionIInv, ExecutionTypeOK, Conclusions
  <2> QED BY <2>1, <2>2, <2>3 DEF ExecutionNext
<1> QED BY <1>1, <1>2, PTL DEF ExecutionSpec

\* Every variable keeps its type.
THEOREM ExecutionTypeCorrect == ExecutionSpec => []ExecutionTypeOK
<1>1. ExecutionIInv => ExecutionTypeOK
  BY DEF ExecutionIInv
<1> QED BY <1>1, ExecutionInvariance, PTL

\* The task manager never refuses a report for contradicting itself.
THEOREM ReportsAccepted == ExecutionSpec => []ReportAccepted
<1>1. ExecutionIInv => ReportAccepted
  BY DEF ExecutionIInv, StagesOK, ReportAccepted
<1> QED BY <1>1, ExecutionInvariance, PTL

\* A flag reported as planted has been put and read back.
THEOREM PlantedReadBack == ExecutionSpec => []PlantedMeansReadBack
<1>1. ExecutionIInv => PlantedMeansReadBack
  BY DEF ExecutionIInv
<1> QED BY <1>1, ExecutionInvariance, PTL

\* Short of an Error, OK is reported only when every due stage has passed.
THEOREM OKAllPassed == ExecutionSpec => []OKMeansAllPassed
<1>1. ASSUME ExecutionIInv, Reporting, status = "OK", ~errored
      PROVE  Due \subseteq passed
  <2>1. {"check", "put", "get"} \subseteq passed
    BY <1>1 DEF ExecutionIInv, StagesOK
  <2>2. random => "random" \in passed
    BY <1>1 DEF ExecutionIInv, StagesOK
  <2> QED BY <2>1, <2>2 DEF Due, Stages
<1>2. ExecutionIInv => OKMeansAllPassed
  BY <1>1 DEF OKMeansAllPassed
<1> QED BY <1>2, ExecutionInvariance, PTL
=============================================================================
