------------------------------ MODULE GetFlags ------------------------------
(***************************************************************************)
(* The service that takes stolen flags (ructf/getflags): one thread per    *)
(* client, each with a database connection of its own.  The threads meet   *)
(* in two places: the table stolen_flags with its trigger and its unique   *)
(* index, and the two prepared statements of StolenFlag, which are static  *)
(* fields that every constructor call replaces.                            *)
(*                                                                         *)
(* Each use of a static statement is one step, and so is each statement    *)
(* sent to the database.  A result set that another thread closes is one   *)
(* of the SQLExceptions (Fails) that end a client's session.  Addresses,   *)
(* the length of a flag and the reconnect interval only keep lines out and *)
(* are left out; a team's number stands for its network.                   *)
(*                                                                         *)
(* A row is durable before its client is told: the answer to the INSERT    *)
(* may get lost on the way from the database (AnswerLost), and the process *)
(* may end at any point (Exit), when the database still completes what it  *)
(* was sent.  A client of the model may connect again.                     *)
(***************************************************************************)
EXTENDS Naturals, FiniteSets

CONSTANTS
  Clients, Teams, Services,
  Strings,     \* lines of the right length that clients send
  Flags,       \* those of them that are flags
  Owner,       \* [Flags -> Teams]
  ServiceOf,   \* [Flags -> Services]
  None,        \* no string, no client
  MaxLines     \* bound: lines a client sends

ASSUME GetFlagsAssumption ==
  /\ Flags \subseteq Strings
  /\ Owner \in [Flags -> Teams] /\ ServiceOf \in [Flags -> Services]
  /\ None \notin Strings /\ None \notin Clients /\ None \notin Teams
  /\ MaxLines \in Nat

VARIABLES
  teamId,      \* [Clients -> Teams]: set when the client connects
  pc,          \* [Clients -> ...]: the thread of each client
  line,        \* [Clients -> Strings]: the line being served
  row,         \* [Clients -> Flags]: StolenFlag: the flag its fields describe
  old,         \* [Clients -> BOOLEAN]: StolenFlag: that flag was too old
  score,       \* [Clients -> 1..2]: what the trigger has computed
  stGetFlag,   \* static: its connection and parameter
  stGetStolenFlag,   \* static: its connection and parameters
  flags,       \* database: the flags in the table flags
  expired,     \* database clock: flags older than flagExpireInterval
  stolen,      \* database: the rows of stolen_flags
  accepted,    \* history: [Teams \X Strings -> Nat]: answers "Accepted"
  crossed,     \* history: clients that met another one in StolenFlag
  unheard,     \* history: <<team, string>> with a row and no "Accepted"
  fresh,       \* history: [Clients -> BOOLEAN]: the line came before its flag
               \* was too old
  lines        \* history: lines a client has sent

client == <<pc, line, row, old, score>>
statics == <<stGetFlag, stGetStolenFlag>>
\* What the clients only read.
world == <<teamId, flags, expired>>
history == <<accepted, unheard, crossed, fresh, lines>>
vars == <<client, statics, world, stolen, history>>

Row == [flag: Strings, team: Teams, victim: Teams, service: Services,
        score: 1 .. 2, crossed: BOOLEAN, fresh: BOOLEAN]

Init ==
  /\ teamId \in [Clients -> Teams]
  /\ pc = [c \in Clients |-> "readLine"]
  /\ line = [c \in Clients |-> None] /\ row = [c \in Clients |-> None]
  /\ old = [c \in Clients |-> FALSE] /\ score = [c \in Clients |-> 1]
  /\ stGetFlag = [conn |-> None, flag |-> None]
  /\ stGetStolenFlag = [conn |-> None, flag |-> None, team |-> None]
  /\ flags \in SUBSET Flags /\ expired = {}
  /\ stolen = {}
  /\ accepted = [k \in Teams \X Strings |-> 0]
  /\ unheard = {} /\ crossed = {} /\ fresh = [c \in Clients |-> FALSE]
  /\ lines = [c \in Clients |-> 0]

(***************************************************************************)
(* The thread of a client.                                                 *)
(***************************************************************************)

\* From the constructor of StolenFlag to the answer of wasStolenByTeam.
InStolenFlag ==
  {c \in Clients : pc[c] \in {"setStolenFlag", "prepareFlag", "setFlag",
                              "getFlag", "ownFlag", "setTeam", "getStolen"}}

Goto(c, to) == pc' = [pc EXCEPT ![c] = to]

\* A line arrives, and the first statement is prepared.
ReadLine(c, s) ==
  /\ pc[c] = "readLine" /\ lines[c] < MaxLines
  /\ Goto(c, "setStolenFlag")
  /\ line' = [line EXCEPT ![c] = s]
  /\ stGetStolenFlag' = [conn |-> c, flag |-> None, team |-> None]
  /\ crossed' = IF InStolenFlag = {} THEN crossed \ {c}
                ELSE crossed \cup InStolenFlag \cup {c}
  /\ fresh' = [fresh EXCEPT ![c] = s \notin expired]
  /\ lines' = [lines EXCEPT ![c] = @ + 1]
  /\ UNCHANGED <<row, old, score, stGetFlag, world, stolen, accepted, unheard>>

SetStolenFlag(c) ==
  /\ pc[c] = "setStolenFlag"
  /\ Goto(c, "prepareFlag")
  /\ stGetStolenFlag' = [stGetStolenFlag EXCEPT !.flag = line[c]]
  /\ UNCHANGED <<line, row, old, score, stGetFlag, world, stolen, history>>

PrepareFlag(c) ==
  /\ pc[c] = "prepareFlag"
  /\ Goto(c, "setFlag")
  /\ stGetFlag' = [conn |-> c, flag |-> None]
  /\ UNCHANGED <<line, row, old, score, stGetStolenFlag, world, stolen, history>>

SetFlag(c) ==
  /\ pc[c] = "setFlag"
  /\ Goto(c, "getFlag")
  /\ stGetFlag' = [stGetFlag EXCEPT !.flag = line[c]]
  /\ UNCHANGED <<line, row, old, score, stGetStolenFlag, world, stolen, history>>

Open(conn) == conn \in Clients /\ pc[conn] # "closed"

\* The statement of the moment is executed, with the parameter of the moment;
\* "no such flag" ends the line.
GetFlag(c) ==
  /\ pc[c] = "getFlag"
  /\ Open(stGetFlag.conn) /\ stGetFlag.flag # None
  /\ \/ /\ stGetFlag.flag \in flags
        /\ Goto(c, "ownFlag")
        /\ row' = [row EXCEPT ![c] = stGetFlag.flag]
        /\ old' = [old EXCEPT ![c] = stGetFlag.flag \in expired]
     \/ /\ stGetFlag.flag \notin flags
        /\ Goto(c, "readLine")
        /\ UNCHANGED <<row, old>>
  /\ UNCHANGED <<line, score, statics, world, stolen, history>>

\* Mutant: the flag's owner is not compared.
OwnAllowed(c) == FALSE

IsOwn(c) == Owner[row[c]] = teamId[c]

OwnFlag(c) ==
  /\ pc[c] = "ownFlag"
  /\ Goto(c, IF IsOwn(c) THEN "readLine" ELSE "setTeam")
  /\ UNCHANGED <<line, row, old, score, statics, world, stolen, history>>

SetTeam(c) ==
  /\ pc[c] = "setTeam"
  /\ Goto(c, "getStolen")
  /\ stGetStolenFlag' = [stGetStolenFlag EXCEPT !.team = teamId[c]]
  /\ UNCHANGED <<line, row, old, score, stGetFlag, world, stolen, history>>

\* Mutant: the age is not looked at.
AnyAge(c) == FALSE

TooOld(c) == old[c]

\* "you already submitted this flag", then "flag is too old".
GetStolen(c) ==
  /\ pc[c] = "getStolen"
  /\ Open(stGetStolenFlag.conn)
  /\ stGetStolenFlag.flag # None /\ stGetStolenFlag.team # None
  /\ Goto(c, IF \/ TooOld(c)
                \/ \E r \in stolen : /\ r.flag = stGetStolenFlag.flag
                                     /\ r.team = stGetStolenFlag.team
             THEN "readLine" ELSE "status")
  /\ UNCHANGED <<line, row, old, score, statics, world, stolen, history>>

\* The team's own copy of the service must be OK.  What its last check says,
\* at any moment, is up to the daemons.
ServiceStatus(c) ==
  /\ pc[c] = "status"
  /\ \E ok \in BOOLEAN : Goto(c, IF ok THEN "insert" ELSE "readLine")
  /\ UNCHANGED <<line, row, old, score, statics, world, stolen, history>>

\* Mutant: the trigger fires after the insert and counts the new row too.
CountsItself(s) == 1

\* set_score_attack: the rows of the flag that are committed by now.
ScoreAttack(s) == IF \E r \in stolen : r.flag = s THEN 1 ELSE 2

Insert(c) ==
  /\ pc[c] = "insert"
  /\ Goto(c, "commit")
  /\ score' = [score EXCEPT ![c] = ScoreAttack(line[c])]
  /\ UNCHANGED <<line, row, old, statics, world, stolen, history>>

\* The string is the client's line; owner and service are those of the row.
NewRow(c) ==
  [flag |-> line[c], team |-> teamId[c], victim |-> Owner[row[c]],
   service |-> ServiceOf[row[c]], score |-> score[c],
   crossed |-> c \in crossed, fresh |-> fresh[c]]

Duplicate(c) == \E r \in stolen : r.flag = line[c] /\ r.team = teamId[c]

\* The unique index lets one row of a team and flag in.
Store(c) == ~Duplicate(c) /\ stolen' = stolen \cup {NewRow(c)}

Commit(c) ==
  /\ pc[c] = "commit"
  /\ Store(c)
  /\ Goto(c, "answer")
  /\ UNCHANGED <<line, row, old, score, statics, world, history>>

\* Mutant: InsertStolenFlag returns true after its catch.
TrueAfterCatch == "answer"

\* "Please try again later", and the next line.
AfterCatch == "readLine"

\* The index or another failure keeps the row out.
Refuse(c) ==
  /\ pc[c] = "commit"
  /\ Goto(c, AfterCatch)
  /\ UNCHANGED <<line, row, old, score, statics, world, stolen, history>>

Claim(c) == <<teamId[c], line[c]>>

\* executeUpdate returns, and the client is told "Accepted".
Answer(c) ==
  /\ pc[c] = "answer"
  /\ Goto(c, "readLine")
  /\ accepted' = [accepted EXCEPT ![Claim(c)] = @ + 1]
  /\ UNCHANGED <<line, row, old, score, statics, world, stolen, unheard,
                 crossed, fresh, lines>>

\* executeUpdate throws although the row is there: "Please try again later".
AnswerLost(c) ==
  /\ pc[c] = "answer"
  /\ Goto(c, "readLine")
  /\ unheard' = unheard \cup {Claim(c)}
  /\ UNCHANGED <<line, row, old, score, statics, world, stolen, accepted,
                 crossed, fresh, lines>>

\* An SQLException that ends the session.  Without a parameter, or on a
\* connection that is closed, there is no other way.
Fails(c) ==
  /\ pc[c] \in {"setStolenFlag", "prepareFlag", "setFlag", "getFlag",
                "setTeam", "getStolen", "status"}
  /\ Goto(c, "closed")
  /\ UNCHANGED <<line, row, old, score, statics, world, stolen, history>>

\* An empty line, the end of the input, or the TimeoutCloser.
Leaves(c) ==
  /\ pc[c] = "readLine"
  /\ Goto(c, "closed")
  /\ UNCHANGED <<line, row, old, score, statics, world, stolen, history>>

\* A new connection, and a thread for it.
Connect(c) ==
  /\ pc[c] = "closed" /\ lines[c] < MaxLines
  /\ Goto(c, "readLine")
  /\ UNCHANGED <<line, row, old, score, statics, world, stolen, history>>

\* The process ends, and another one is started.  Whose row was durable does
\* not hear of it; an INSERT under way is left to the database.
Exit ==
  /\ pc' = [c \in Clients |-> IF pc[c] \in {"commit", "orphan"} THEN "orphan"
                              ELSE "closed"]
  /\ unheard' = unheard \cup {Claim(c) : c \in {d \in Clients : pc[d] = "answer"}}
  /\ stGetFlag' = [conn |-> None, flag |-> None]
  /\ stGetStolenFlag' = [conn |-> None, flag |-> None, team |-> None]
  /\ UNCHANGED <<line, row, old, score, world, stolen, accepted, crossed, fresh,
                 lines>>

Orphan(c) ==
  /\ pc[c] = "orphan"
  /\ Goto(c, "closed")
  /\ \/ Store(c) /\ unheard' = unheard \cup {Claim(c)}
     \/ UNCHANGED <<stolen, unheard>>
  /\ UNCHANGED <<line, row, old, score, statics, world, accepted, crossed, fresh,
                 lines>>

Client(c) ==
  \/ \E s \in Strings : ReadLine(c, s)
  \/ SetStolenFlag(c) \/ PrepareFlag(c) \/ SetFlag(c) \/ GetFlag(c)
  \/ OwnFlag(c) \/ SetTeam(c) \/ GetStolen(c) \/ ServiceStatus(c)
  \/ Insert(c) \/ Commit(c) \/ Refuse(c) \/ Answer(c) \/ AnswerLost(c)
  \/ Fails(c) \/ Leaves(c) \/ Connect(c) \/ Orphan(c)

(***************************************************************************)
(* What the rest of the checksystem does to the tables.                    *)
(***************************************************************************)

Plant(f) ==
  /\ f \notin flags
  /\ flags' = flags \cup {f}
  /\ UNCHANGED <<client, statics, teamId, expired, stolen, history>>

Expire(f) ==
  /\ f \in flags
  /\ expired' = expired \cup {f}
  /\ UNCHANGED <<client, statics, teamId, flags, stolen, history>>

World == \E f \in Flags : Plant(f) \/ Expire(f)

Next == World \/ Exit \/ \E c \in Clients : Client(c)

Spec == Init /\ [][Next]_vars

-----------------------------------------------------------------------------

ClientTypes ==
  /\ teamId \in [Clients -> Teams]
  /\ pc \in [Clients -> {"readLine", "setStolenFlag", "prepareFlag", "setFlag",
                         "getFlag", "ownFlag", "setTeam", "getStolen",
                         "status", "insert", "commit", "answer", "orphan",
                         "closed"}]
  /\ line \in [Clients -> Strings \cup {None}]
  /\ row \in [Clients -> Flags \cup {None}]
  /\ score \in [Clients -> 1 .. 2]
  /\ lines \in [Clients -> 0 .. MaxLines]

BooleanTypes == old \in [Clients -> BOOLEAN] /\ fresh \in [Clients -> BOOLEAN]

StaticTypes ==
  /\ stGetFlag \in [conn: Clients \cup {None}, flag: Strings \cup {None}]
  /\ stGetStolenFlag \in [conn: Clients \cup {None},
                          flag: Strings \cup {None}, team: Teams \cup {None}]

TableTypes ==
  /\ flags \subseteq Flags /\ expired \subseteq flags
  /\ stolen \subseteq Row
  /\ accepted \in [Teams \X Strings -> Nat]
  /\ unheard \subseteq Teams \X Strings
  /\ crossed \subseteq Clients

\* Types; an expired flag is in the table flags, and a score passes the CHECK
\* of stolen_flags (tables-create.sql 71).
TypeOK == ClientTypes /\ BooleanTypes /\ StaticTypes /\ TableTypes

\* A row's victim is never the team that gets the points.  It also tells the
\* truth about its flag, that the string is one and has that owner and service,
\* unless another client was inside StolenFlag at the same time (StolenFlag
\* 12-37, ClientProcessor 122).
RowsTrue ==
  \A r \in stolen :
    /\ r.victim # r.team
    /\ ~r.crossed => /\ r.flag \in Flags
                     /\ r.victim = Owner[r.flag]
                     /\ r.service = ServiceOf[r.flag]

\* A flag that was already too old when it was sent brings no points, again
\* unless two clients crossed (ClientProcessor 134-138).
RowsFresh == \A r \in stolen : ~r.crossed => r.fresh

Stolen(t, s) == \E r \in stolen : r.flag = s /\ r.team = t

\* A client of the team is about to hear of the row.
Answering(t, s) == \E c \in Clients : pc[c] = "answer" /\ Claim(c) = <<t, s>>

\* A team is told "Accepted" once for each row it has, and never without
\* one, though two of its clients may send the same flag at the same time and
\* both pass wasStolenByTeam (ClientProcessor 128-156).  A row of which nobody
\* is told is one whose answer got lost, in the catch of InsertStolenFlag
\* (FlagManager 124-127) or with the process; it is not answered later either.
AcceptedOnce ==
  \A t \in Teams, s \in Strings :
    /\ accepted[<<t, s>>] =
         IF Stolen(t, s) /\ ~Answering(t, s) /\ <<t, s>> \notin unheard
         THEN 1 ELSE 0
    /\ Answering(t, s) \/ <<t, s>> \in unheard => Stolen(t, s)

\* Somebody has the full score of every stolen flag: the trigger may take two
\* thefts for the first, and never none (set_score_attack 205-219).
FirstThiefPaid ==
  \A r \in stolen : \E first \in stolen : first.flag = r.flag /\ first.score = 2

\* "Denied: flag is your own" (ClientProcessor 123): a team gets no points for
\* a flag of its own.  Two clients that cross can each be judged by the other's
\* flag, so this does not hold.
OwnFlagsDenied ==
  \A r \in stolen : r.flag \in Flags => Owner[r.flag] # r.team

(***************************************************************************)
(* The inductive invariant: a client alone in StolenFlag owns the statics. *)
(***************************************************************************)

AloneOK ==
  \A c \in InStolenFlag \ crossed :
    /\ InStolenFlag = {c}
    /\ pc[c] \notin {"setStolenFlag", "prepareFlag", "setFlag"} =>
         stGetFlag.flag = line[c]

FieldsOK ==
  \A c \in Clients :
    /\ pc[c] \notin {"readLine", "closed"} => line[c] \in Strings
    /\ pc[c] \in {"ownFlag", "setTeam", "getStolen", "status", "insert",
                  "commit", "orphan"} =>
         /\ row[c] \in Flags
         /\ c \notin crossed =>
              /\ row[c] = line[c]
              /\ fresh[c] \/ old[c]
    /\ pc[c] \in {"setTeam", "getStolen", "status", "insert", "commit",
                  "orphan"} =>
         Owner[row[c]] # teamId[c]
    /\ pc[c] \in {"status", "insert", "commit", "orphan"} => ~old[c]
    /\ fresh[c] \/ line[c] \in expired \cup {None}

ScoresOK ==
  \A c \in Clients : pc[c] \in {"commit", "orphan"} /\ score[c] = 1 =>
    \E r \in stolen : r.flag = line[c]

\* A row has one client that may hear of it, which nobody has yet.
AnswersOK ==
  \A c \in Clients : pc[c] = "answer" =>
    /\ Claim(c) \notin unheard
    /\ \A d \in Clients : pc[d] = "answer" /\ Claim(d) = Claim(c) => d = c

IInv ==
  /\ TypeOK /\ AloneOK /\ FieldsOK /\ ScoresOK /\ AnswersOK
  /\ RowsTrue /\ RowsFresh /\ FirstThiefPaid /\ AcceptedOnce
=============================================================================
