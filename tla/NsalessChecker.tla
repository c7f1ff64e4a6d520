--------------------------- MODULE NsalessChecker ---------------------------
(***************************************************************************)
(* The checker of nsaless (src/checkers/nsaless) visiting the service, with *)
(* players at work beside it.  It puts a flag (a new user posts it, some   *)
(* fellows follow that user and must see it), gets it back later with the  *)
(* user's key, or checks that a new user is listed.                        *)
(*                                                                         *)
(* A visit is a chain of steps (async.waterfall), some of which send one   *)
(* request per fellow at once and wait for all (async.map).  The step ends *)
(* when every answer is there; the first bad answer ends the process.      *)
(* The fellows are as many as the constant says instead of eight.          *)
(***************************************************************************)
EXTENDS Nsaless

CONSTANTS
  Owner,      \* the user the flag is put for
  Fellows,    \* the users that follow it
  Flag,       \* the flag
  Errands,    \* what players ask for, by what the checker does meanwhile
  Beside,     \* bound: how many of them
  MaxBroken   \* bound: connections that break

\* No checker visits, it puts a flag and gets it later, or it checks.
Modes == {"none", "put", "check"}

ASSUME CheckerAssumption ==
  /\ Owner \in Users \ Members
  /\ Fellows \subseteq Users \ (Members \cup {Owner})
  /\ Flag \in Tweets
  /\ Errands \in [Modes -> SUBSET Requests]
  /\ Beside \in [Modes -> Nat]

VARIABLES
  mode,      \* what the checker was started for
  step,      \* the step of the chain
  todo,      \* users whose request of this step is not sent yet
  back,      \* users whose answer of this step has come
  status,    \* what the process exits with
  printed,   \* put: the id and key were written for the checksystem
  broken,    \* connections that broke so far
  visits     \* requests of players still to come

checker == <<mode, step, todo, back, status, printed, broken, visits>>
all == <<vars, checker>>

FirstStep == [none |-> "idle", put |-> "signup", check |-> "join"]

NextStep ==
  [signup |-> "tweet", tweet |-> "own", own |-> "fellows", fellows |-> "ask",
   ask |-> "accept", accept |-> "read", read |-> "signin",
   signin |-> "challenge", challenge |-> "get", get |-> "end",
   join |-> "users", users |-> "end"]

Callers(s) ==
  CASE s \in {"fellows", "ask", "accept", "read"} -> Fellows
    [] s \in {"idle", "end"} -> {}
    [] OTHER -> {Owner}

\* Whether the step goes on with the answer a to the user c.
Satisfied(s, c, a) ==
  CASE s \in {"own", "read", "get"} -> a.tweets # <<>> /\ Head(a.tweets) = Flag
    [] s = "challenge" -> a.page = "home"
    [] s = "users" -> c \in a.users
    [] OTHER -> TRUE

CInit ==
  /\ Init
  /\ mode \in Modes /\ step = FirstStep[mode]
  /\ visits = Beside[mode]
  /\ \A u \in Users :
       pending[u] \in (IF mode = "none" THEN Users \ {u} ELSE {}) \cup {Nobody}
  /\ todo = Callers(step) /\ back = {}
  /\ status = "running" /\ printed = FALSE /\ broken = 0

\* The request that stands for the user c in the step s.
RequestOf(s, c) ==
  CASE s \in {"signup", "fellows", "join"} -> Request("signup", Nobody, c, Flag)
    [] s = "tweet" -> Request("tweet", Owner, Owner, Flag)
    [] s \in {"own", "read", "get"} -> Request("home", c, c, Flag)
    [] s = "ask" -> Request("tryfollow", c, Owner, Flag)
    [] s = "accept" -> Request("follow", Owner, c, Flag)
    [] s = "signin" -> Request("checkpub", Nobody, Owner, Flag)
    [] s = "challenge" -> Request("checkrandom", Nobody, Owner, Flag)
    [] s = "users" -> Request("users", Nobody, c, Flag)

Call(c) ==
  /\ status = "running" /\ c \in todo
  /\ Arrive(c, RequestOf(step, c))
  /\ todo' = todo \ {c}
  /\ UNCHANGED <<mode, step, back, status, printed, broken, visits>>

Answered(c) ==
  /\ status = "running"
  /\ c \in Callers(step) \ (todo \cup back)
  /\ answer[c] # NoAnswer

\* One answer that is as expected; the last one starts the next step.
Advance(c) ==
  /\ Answered(c)
  /\ Satisfied(step, c, answer[c])
  /\ printed' = (printed \/ step = "own")
  /\ LET last == back \cup {c} = Callers(step)
         next == IF last THEN NextStep[step] ELSE step
     IN  /\ step' = next
         /\ back' = IF last THEN {} ELSE back \cup {c}
         /\ todo' = IF last THEN Callers(next) ELSE todo
         /\ status' = IF next = "end" THEN "OK" ELSE status
  /\ UNCHANGED <<vars, mode, broken, visits>>

\* done(SERVICE_FAIL): the flag, the session or the user is not there.
Fail(c) ==
  /\ Answered(c)
  /\ ~Satisfied(step, c, answer[c])
  /\ status' = "FAIL"
  /\ UNCHANGED <<vars, mode, step, todo, back, printed, broken, visits>>

\* The 'error' event of a request: the process ends at once.
Break ==
  /\ status = "running" /\ broken < MaxBroken
  /\ Callers(step) # todo \cup back
  /\ broken' = broken + 1
  /\ status' = "FAIL"
  /\ UNCHANGED <<vars, mode, step, todo, back, printed, visits>>

\* A visit is over long before the 5 minutes of its sessions are; those of a
\* put may be over when the get comes.
SessionEnds ==
  /\ \E u \in Users \ Fellows :
       /\ \/ u # Owner /\ mode # "put"
          \/ u = Owner /\ step = "signin" /\ todo = {Owner}
       /\ Expire(u)
  /\ UNCHANGED checker

\* A member, with its session or without, makes a request.
Players ==
  /\ visits > 0
  /\ visits' = visits - 1
  /\ \E c \in Members, r \in Errands[mode] :
       r.cookie \in {c, Nobody} /\ Arrive(c, r)
  /\ UNCHANGED <<mode, step, todo, back, status, printed, broken>>

Checker == \E c \in {Owner} \cup Fellows : Call(c) \/ Advance(c) \/ Fail(c)

CNext ==
  \/ Service /\ UNCHANGED checker
  \/ Players \/ Checker \/ Break \/ SessionEnds

CSpec ==
  /\ CInit /\ [][CNext]_all
  /\ ServiceFairness /\ WF_all(Checker)

-----------------------------------------------------------------------------
(* Properties                                                               *)

\* A visit to an intact service fails at one point only: the owner's own page,
\* which may be read before the tweet is stored (saveTweet answers first), and
\* before the checker has printed what a later get would need.  The
\* fellows always see the flag, because accepting them and reading their pages
\* share the connection of users.js, and so do get and check.
OnlyOwnPageFails ==
  status = "FAIL" => broken > 0 \/ (step = "own" /\ ~printed)

\* The checker's process ends: each request it makes of the service is answered.
VisitEnds == (mode # "none") ~> (status # "running")
=============================================================================
