--------------------------- MODULE VerdictLedger ---------------------------
(***************************************************************************)
(* What the task manager promises about the table access_checks, without   *)
(* queues, threads, locks or connections.  A task is issued, perhaps       *)
(* handed to a daemon, and gets its rows:                                  *)
(*   - one that was never handed out is failed once, as CheckerError, in   *)
(*     its own round, and that is all it ever gets;                        *)
(*   - one that was handed out may be failed once as Down while it has no  *)
(*     row, and may be reported once, with or without its flag;            *)
(*   - a verdict may be thrown away, but a row is never changed.           *)
(***************************************************************************)
CONSTANTS Task, Rounds, Statuses

VARIABLES issued, handed, checks, flags, dropped

ledger == <<issued, handed, checks, flags, dropped>>

Init == issued = {} /\ handed = {} /\ checks = {} /\ flags = {} /\ dropped = {}

RowsOf(t) == {row \in checks : row.task = t}

Issue(T) ==
  /\ T \cap issued = {}
  /\ issued' = issued \cup T
  /\ UNCHANGED <<handed, checks, flags, dropped>>

HandOut(T) ==
  /\ T \subseteq issued \ handed
  /\ \A t \in T : RowsOf(t) = {}
  /\ handed' = handed \cup T
  /\ UNCHANGED <<issued, checks, flags, dropped>>

\* The rows of the tasks T, each its task's first from this source.
Enter(T, by, st, r) ==
  checks' = checks \cup
    {[task |-> t, by |-> by, status |-> st, round |-> r, again |-> FALSE] :
       t \in T}

FailUnhanded(T, r) ==
  /\ T \subseteq issued \ handed
  /\ \A t \in T : RowsOf(t) = {} /\ t.round = r
  /\ Enter(T, "newTasks", "CheckerError", r)
  /\ UNCHANGED <<issued, handed, flags, dropped>>

FailHanded(T, r) ==
  /\ T \subseteq handed
  /\ \A t \in T : RowsOf(t) = {}
  /\ Enter(T, "processingTasks", "Down", r)
  /\ UNCHANGED <<issued, handed, flags, dropped>>

Report(t, st, newFlag, r) ==
  /\ t \in handed
  /\ \A row \in RowsOf(t) : row.by = "processingTasks"
  /\ Enter({t}, "report", st, r)
  /\ flags' = IF newFlag THEN flags \cup {t} ELSE flags
  /\ UNCHANGED <<issued, handed, dropped>>

ThrowAway(T) ==
  /\ T \subseteq issued
  /\ dropped' = dropped \cup T
  /\ UNCHANGED <<issued, handed, checks, flags>>

Next ==
  \/ \E T \in SUBSET Task : Issue(T) \/ HandOut(T) \/ ThrowAway(T)
  \/ \E T \in SUBSET Task, r \in Rounds : FailUnhanded(T, r) \/ FailHanded(T, r)
  \/ \E t \in Task, st \in Statuses, newFlag \in BOOLEAN, r \in Rounds :
       Report(t, st, newFlag, r)

Spec == Init /\ [][Next]_ledger
=============================================================================
