--------------------------- MODULE GetFlagsProofs ---------------------------
(***************************************************************************)
(* Proofs about the service that takes stolen flags, for any clients, any  *)
(* teams and any strings.  What a client has read is true of its line as   *)
(* long as it was alone in StolenFlag (AloneOK); what the trigger computed *)
(* stays justified because rows are never deleted (ScoresOK).              *)
(***************************************************************************)
EXTENDS GetFlags, TLAPS

Places == {"readLine", "setStolenFlag", "prepareFlag", "setFlag", "getFlag",
           "ownFlag", "setTeam", "getStolen", "status", "insert", "commit",
           "answer", "orphan", "closed"}

\* The parts of the invariant that are about the table of stolen flags, and
\* about what the teams are told of it.
Rows == RowsTrue /\ RowsFresh /\ FirstThiefPaid
Answers == AcceptedOnce /\ AnswersOK

\* The table has not changed, so what is said of it holds.
LEMMA RowsKept ==
  ASSUME Rows, stolen' = stolen
  PROVE  Rows'
<1>1. RowsTrue'
  BY DEF Rows, RowsTrue
<1>2. RowsFresh'
  BY DEF Rows, RowsFresh
<1>3. FirstThiefPaid'
  BY DEF Rows, FirstThiefPaid
<1> QED
  BY <1>1, <1>2, <1>3 DEF Rows

\* Nor have the answers, and those on their way.
LEMMA AnswersKept ==
  ASSUME Answers, stolen' = stolen, accepted' = accepted, unheard' = unheard,
         teamId' = teamId,
         \A d \in Clients : pc'[d] = "answer" <=> pc[d] = "answer",
         \A d \in Clients : pc[d] = "answer" => line'[d] = line[d]
  PROVE  Answers'
<1>1. \A d \in Clients : pc[d] = "answer" => Claim(d)' = Claim(d)
  BY DEF Claim
<1>2. \A t, s : Answering(t, s)' = Answering(t, s)
  BY <1>1 DEF Answering
<1>3. \A t, s : Stolen(t, s)' = Stolen(t, s)
  BY DEF Stolen
<1>4. AcceptedOnce'
  BY <1>2, <1>3 DEF Answers, AcceptedOnce
<1>5. AnswersOK'
  BY <1>1 DEF Answers, AnswersOK
<1> QED
  BY <1>4, <1>5 DEF Answers

\* The initial states.
LEMMA InitInv == Init => IInv
<1> SUFFICES ASSUME Init PROVE IInv
  OBVIOUS
<1> USE GetFlagsAssumption
<1>1. ClientTypes
  BY DEF Init, ClientTypes
<1>2. BooleanTypes
  BY DEF Init, BooleanTypes
<1>3. StaticTypes
  BY DEF Init, StaticTypes
<1>4. TableTypes
  BY DEF Init, TableTypes
<1>5. AloneOK
  BY DEF Init, AloneOK, InStolenFlag
<1>6. FieldsOK
  BY DEF Init, FieldsOK
<1>7. ScoresOK
  BY DEF Init, ScoresOK
<1>8. RowsTrue /\ RowsFresh /\ FirstThiefPaid
  BY DEF Init, RowsTrue, RowsFresh, FirstThiefPaid
<1>9. AcceptedOnce /\ AnswersOK
  <2>0. /\ stolen = {} /\ unheard = {}
        /\ \A c \in Clients : pc[c] = "readLine"
    BY DEF Init
  <2> SUFFICES ASSUME NEW t \in Teams, NEW s \in Strings
               PROVE  accepted[<<t, s>>] = 0
    BY <2>0 DEF AcceptedOnce, AnswersOK, Stolen, Answering
  <2>1. <<t, s>> \in Teams \X Strings
    OBVIOUS
  <2> QED
    BY <2>1 DEF Init
<1> QED
  BY <1>1, <1>2, <1>3, <1>4, <1>5, <1>6, <1>7, <1>8, <1>9 DEF IInv, TypeOK

\* A line arrives: alone, or the client and all it met have crossed.
LEMMA ReadLineInv ==
  ASSUME IInv, NEW c \in Clients, NEW s \in Strings, ReadLine(c, s)
  PROVE  IInv'
<1> USE GetFlagsAssumption
<1>0. /\ ClientTypes /\ BooleanTypes /\ StaticTypes /\ TableTypes
      /\ AloneOK /\ FieldsOK /\ ScoresOK /\ Rows /\ Answers
  BY DEF IInv, TypeOK, Rows, Answers
<1>1. /\ pc[c] = "readLine"
      /\ pc' = [pc EXCEPT ![c] = "setStolenFlag"]
      /\ line' = [line EXCEPT ![c] = s]
      /\ lines[c] < MaxLines /\ lines' = [lines EXCEPT ![c] = @ + 1]
      /\ stGetStolenFlag' = [conn |-> c, flag |-> None, team |-> None]
      /\ crossed' = IF InStolenFlag = {} THEN crossed \ {c}
                    ELSE crossed \cup InStolenFlag \cup {c}
  BY DEF ReadLine, Goto
<1>2. row' = row /\ score' = score /\ stGetFlag' = stGetFlag
  BY DEF ReadLine
<1>3. flags' = flags /\ expired' = expired /\ teamId' = teamId /\ stolen' = stolen
  BY DEF ReadLine, world
<1>4. old' = old /\ accepted' = accepted /\ unheard' = unheard
  BY DEF ReadLine
<1>5. fresh' = [fresh EXCEPT ![c] = s \notin expired]
  BY DEF ReadLine
<1>6. ClientTypes'
  BY <1>0, <1>1, <1>2, <1>3 DEF ClientTypes
<1>7. BooleanTypes'
  BY <1>0, <1>4, <1>5 DEF BooleanTypes
<1>8. StaticTypes'
  BY <1>0, <1>1, <1>2 DEF StaticTypes
<1>9. TableTypes'
  BY <1>0, <1>1, <1>3, <1>4 DEF TableTypes, InStolenFlag
<1>10. InStolenFlag' = InStolenFlag \cup {c}
  BY <1>0, <1>1 DEF InStolenFlag, ClientTypes
<1>11. AloneOK'
  <2> SUFFICES ASSUME NEW d \in InStolenFlag', d \notin crossed'
               PROVE  /\ InStolenFlag' = {d}
                      /\ pc'[d] = "setStolenFlag"
    BY DEF AloneOK
  <2>1. InStolenFlag = {}
    BY <1>1, <1>10
  <2> QED
    BY <2>1, <1>0, <1>1, <1>10 DEF ClientTypes
<1>12. FieldsOK'
  <2> SUFFICES ASSUME NEW d \in Clients
               PROVE  FieldsOK!(d)'
    BY DEF FieldsOK
  <2>1. CASE d = c
    BY <2>1, <1>0, <1>1, <1>3, <1>5 DEF ClientTypes, BooleanTypes
  <2>2. CASE d # c
    <3>1. /\ pc'[d] = pc[d] /\ line'[d] = line[d] /\ row'[d] = row[d]
          /\ expired' = expired /\ teamId' = teamId
      BY <2>2, <1>0, <1>1, <1>2, <1>3 DEF ClientTypes
    <3>2. fresh'[d] = fresh[d] /\ old'[d] = old[d]
      BY <2>2, <1>0, <1>4, <1>5 DEF BooleanTypes
    <3>3. d \notin crossed' => d \notin crossed
      BY <2>2, <1>1
    <3> QED
      BY <3>1, <3>2, <3>3, <1>0 DEF FieldsOK
  <2> QED
    BY <2>1, <2>2
<1>13. ScoresOK'
  BY <1>0, <1>1, <1>2, <1>3 DEF ScoresOK, ClientTypes
<1>14. Answers'
  <2>1. \A d \in Clients : pc'[d] = "answer" <=> pc[d] = "answer"
    BY <1>0, <1>1 DEF ClientTypes
  <2>2. \A d \in Clients : pc[d] = "answer" => line'[d] = line[d]
    BY <1>0, <1>1 DEF ClientTypes
  <2> QED
    BY <2>1, <2>2, <1>0, <1>3, <1>4, AnswersKept
<1>15. Rows'
  BY <1>0, <1>3, RowsKept
<1> QED
  BY <1>6, <1>7, <1>8, <1>9, <1>11, <1>12, <1>13, <1>14, <1>15
     DEF IInv, TypeOK, Rows, Answers

\* What a step that only moves a client keeps.
LEMMA MoveKeeps ==
  ASSUME IInv, NEW c \in Clients, NEW to \in Places,
         to \notin {"commit", "orphan", "answer"}, pc[c] # "answer",
         pc' = [pc EXCEPT ![c] = to],
         line' = line, row' = row, score' = score, lines' = lines,
         old' = old, fresh' = fresh, crossed' = crossed,
         flags' = flags, expired' = expired, teamId' = teamId,
         stolen' = stolen, accepted' = accepted, unheard' = unheard
  PROVE  /\ ClientTypes' /\ BooleanTypes' /\ TableTypes' /\ ScoresOK' /\ Rows'
         /\ Answers'
         /\ \A d \in Clients \ {c} : FieldsOK!(d)'
<1>0. /\ ClientTypes /\ BooleanTypes /\ StaticTypes /\ TableTypes
      /\ AloneOK /\ FieldsOK /\ ScoresOK /\ Rows /\ Answers
  BY DEF IInv, TypeOK, Rows, Answers
<1>1. ClientTypes'
  BY <1>0 DEF ClientTypes, Places
<1>2. BooleanTypes'
  BY <1>0 DEF BooleanTypes
<1>3. TableTypes'
  BY <1>0 DEF TableTypes
<1>4. ScoresOK'
  BY <1>0 DEF ScoresOK, ClientTypes
<1>5. Rows'
  BY <1>0, RowsKept
<1>6. \A d \in Clients \ {c} : FieldsOK!(d)'
  <2> SUFFICES ASSUME NEW d \in Clients \ {c} PROVE FieldsOK!(d)'
    OBVIOUS
  <2>1. pc'[d] = pc[d]
    BY <1>0 DEF ClientTypes
  <2> QED
    BY <2>1, <1>0 DEF FieldsOK
<1>7. Answers'
  <2>1. \A d \in Clients : pc'[d] = "answer" <=> pc[d] = "answer"
    BY <1>0 DEF ClientTypes
  <2> QED
    BY <2>1, <1>0, AnswersKept
<1> QED
  BY <1>1, <1>2, <1>3, <1>4, <1>5, <1>6, <1>7

\* Inside StolenFlag a client that is alone is the one that moves.
LEMMA MoveAlone ==
  ASSUME ClientTypes, AloneOK, NEW c \in Clients, NEW to \in Places,
         pc' = [pc EXCEPT ![c] = to], line' = line, crossed' = crossed,
         InStolenFlag' \subseteq InStolenFlag,
         stGetFlag' = stGetFlag \/ c \in InStolenFlag,
         c \in InStolenFlag' \ crossed =>
           \/ to \in {"setStolenFlag", "prepareFlag", "setFlag"}
           \/ stGetFlag'.flag = line[c]
  PROVE  AloneOK'
<1> SUFFICES ASSUME NEW d \in InStolenFlag', d \notin crossed'
             PROVE  /\ InStolenFlag' = {d}
                    /\ pc'[d] \notin {"setStolenFlag", "prepareFlag", "setFlag"}
                         => stGetFlag'.flag = line[d]
  BY DEF AloneOK
<1>1. InStolenFlag = {d} /\ d \in Clients
  BY DEF AloneOK, InStolenFlag
<1>2. CASE d = c
  BY <1>1, <1>2 DEF ClientTypes
<1>3. CASE d # c
  <2>1. pc'[d] = pc[d] /\ stGetFlag' = stGetFlag
    BY <1>1, <1>3 DEF ClientTypes
  <2> QED
    BY <1>1, <2>1 DEF AloneOK
<1> QED
  BY <1>2, <1>3

\* The steps that set up the two statements.
LEMMA StatementInv ==
  ASSUME IInv, NEW c \in Clients,
         SetStolenFlag(c) \/ PrepareFlag(c) \/ SetFlag(c) \/ SetTeam(c)
  PROVE  IInv'
<1> USE GetFlagsAssumption
<1>0. /\ ClientTypes /\ BooleanTypes /\ StaticTypes /\ TableTypes
      /\ AloneOK /\ FieldsOK /\ ScoresOK /\ Rows /\ Answers
  BY DEF IInv, TypeOK, Rows, Answers
<1>1. /\ line' = line /\ row' = row /\ score' = score /\ lines' = lines
      /\ crossed' = crossed /\ stolen' = stolen
      /\ flags' = flags /\ expired' = expired /\ teamId' = teamId
  BY DEF SetStolenFlag, PrepareFlag, SetFlag, SetTeam, world, history
<1>2. /\ old' = old /\ fresh' = fresh /\ accepted' = accepted
      /\ unheard' = unheard
  BY DEF SetStolenFlag, PrepareFlag, SetFlag, SetTeam, history
<1>3. PICK to \in Places :
        /\ pc' = [pc EXCEPT ![c] = to]
        /\ \/ /\ pc[c] = "setStolenFlag" /\ to = "prepareFlag"
              /\ stGetFlag' = stGetFlag
              /\ stGetStolenFlag' = [stGetStolenFlag EXCEPT !.flag = line[c]]
           \/ /\ pc[c] = "prepareFlag" /\ to = "setFlag"
              /\ stGetFlag' = [conn |-> c, flag |-> None]
              /\ stGetStolenFlag' = stGetStolenFlag
           \/ /\ pc[c] = "setFlag" /\ to = "getFlag"
              /\ stGetFlag' = [stGetFlag EXCEPT !.flag = line[c]]
              /\ stGetStolenFlag' = stGetStolenFlag
           \/ /\ pc[c] = "setTeam" /\ to = "getStolen"
              /\ stGetFlag' = stGetFlag
              /\ stGetStolenFlag' = [stGetStolenFlag EXCEPT !.team = teamId[c]]
  BY DEF SetStolenFlag, PrepareFlag, SetFlag, SetTeam, Goto, Places
<1>4. /\ ClientTypes' /\ BooleanTypes' /\ TableTypes' /\ ScoresOK' /\ Rows'
      /\ Answers' /\ \A d \in Clients \ {c} : FieldsOK!(d)'
  BY <1>1, <1>2, <1>3, MoveKeeps DEF Places
<1>5. StaticTypes'
  <2>1. line[c] \in Strings \cup {None} /\ teamId[c] \in Teams
    BY <1>0 DEF ClientTypes
  <2> QED
    BY <2>1, <1>0, <1>3 DEF StaticTypes
<1>6. AloneOK'
  <2>1. c \in InStolenFlag /\ InStolenFlag' = InStolenFlag
    BY <1>0, <1>3 DEF InStolenFlag, ClientTypes
  <2>2. \/ to \in {"setStolenFlag", "prepareFlag", "setFlag"}
        \/ c \notin crossed => stGetFlag'.flag = line[c]
    BY <2>1, <1>0, <1>3 DEF AloneOK, StaticTypes
  <2> QED
    BY <2>1, <2>2, <1>0, <1>1, <1>3, MoveAlone
<1>7. FieldsOK'
  <2>1. FieldsOK!(c)'
    <3>1. FieldsOK!(c) /\ pc'[c] = to
      BY <1>0, <1>3 DEF FieldsOK, ClientTypes
    <3> QED
      BY <3>1, <1>1, <1>2, <1>3
  <2> QED
    BY <2>1, <1>4 DEF FieldsOK
<1> QED
  BY <1>4, <1>5, <1>6, <1>7 DEF IInv, TypeOK, Rows, Answers

\* The steps that only decide where a client goes.
LEMMA DecideInv ==
  ASSUME IInv, NEW c \in Clients,
         \/ OwnFlag(c) \/ GetStolen(c) \/ ServiceStatus(c) \/ Fails(c)
         \/ Leaves(c) \/ Connect(c) \/ Refuse(c)
  PROVE  IInv'
<1> USE GetFlagsAssumption
<1>0. /\ ClientTypes /\ BooleanTypes /\ StaticTypes /\ TableTypes
      /\ AloneOK /\ FieldsOK /\ ScoresOK /\ Rows /\ Answers
  BY DEF IInv, TypeOK, Rows, Answers
<1>1. /\ line' = line /\ row' = row /\ score' = score /\ lines' = lines
      /\ crossed' = crossed /\ stolen' = stolen
      /\ flags' = flags /\ expired' = expired /\ teamId' = teamId
      /\ stGetFlag' = stGetFlag /\ stGetStolenFlag' = stGetStolenFlag
  BY DEF OwnFlag, GetStolen, ServiceStatus, Fails, Leaves, Connect, Refuse,
         world, history, statics
<1>2. /\ old' = old /\ fresh' = fresh /\ accepted' = accepted
      /\ unheard' = unheard
  BY DEF OwnFlag, GetStolen, ServiceStatus, Fails, Leaves, Connect, Refuse,
         history
<1>3. PICK to \in Places :
        /\ pc' = [pc EXCEPT ![c] = to] /\ pc[c] # "answer"
        /\ \/ to \in {"readLine", "closed"}
           \/ pc[c] = "ownFlag" /\ to = "setTeam" /\ ~IsOwn(c)
           \/ pc[c] = "getStolen" /\ to = "status" /\ ~TooOld(c)
           \/ pc[c] = "status" /\ to = "insert"
  BY DEF OwnFlag, GetStolen, ServiceStatus, Fails, Leaves, Connect, Refuse,
         AfterCatch, Goto, Places
<1>4. /\ ClientTypes' /\ BooleanTypes' /\ TableTypes' /\ ScoresOK' /\ Rows'
      /\ Answers' /\ \A d \in Clients \ {c} : FieldsOK!(d)'
  <2>1. to \notin {"commit", "orphan", "answer"}
    BY <1>3
  <2> QED
    BY <2>1, <1>1, <1>2, <1>3, MoveKeeps
<1>5. StaticTypes'
  BY <1>0, <1>1 DEF StaticTypes
<1>6. AloneOK'
  <2>1. InStolenFlag' \subseteq InStolenFlag
    BY <1>0, <1>3 DEF InStolenFlag, ClientTypes
  <2>2. c \in InStolenFlag' \ crossed => stGetFlag'.flag = line[c]
    BY <1>0, <1>1, <1>3 DEF InStolenFlag, ClientTypes, AloneOK
  <2> QED
    BY <2>1, <2>2, <1>0, <1>1, <1>3, MoveAlone
<1>7. FieldsOK'
  <2>1. FieldsOK!(c)'
    <3>1. FieldsOK!(c) /\ pc'[c] = to
      BY <1>0, <1>3 DEF FieldsOK, ClientTypes
    <3> QED
      BY <3>1, <1>1, <1>2, <1>3 DEF IsOwn, TooOld
  <2> QED
    BY <2>1, <1>4 DEF FieldsOK
<1> QED
  BY <1>4, <1>5, <1>6, <1>7 DEF IInv, TypeOK, Rows, Answers

\* The fields of StolenFlag: alone, a client reads the row of its own line.
LEMMA GetFlagInv ==
  ASSUME IInv, NEW c \in Clients, GetFlag(c)
  PROVE  IInv'
<1> USE GetFlagsAssumption
<1>0. /\ ClientTypes /\ BooleanTypes /\ StaticTypes /\ TableTypes
      /\ AloneOK /\ FieldsOK /\ ScoresOK /\ Rows /\ Answers
  BY DEF IInv, TypeOK, Rows, Answers
<1>1. /\ line' = line /\ score' = score /\ lines' = lines
      /\ crossed' = crossed /\ stolen' = stolen
      /\ flags' = flags /\ expired' = expired /\ teamId' = teamId
      /\ stGetFlag' = stGetFlag /\ stGetStolenFlag' = stGetStolenFlag
  BY DEF GetFlag, world, history, statics
<1>2. fresh' = fresh /\ accepted' = accepted /\ unheard' = unheard
  BY DEF GetFlag, history
<1>3. pc[c] = "getFlag"
  BY DEF GetFlag
<1>4. CASE stGetFlag.flag \notin flags
  <2>1. row' = row /\ pc' = [pc EXCEPT ![c] = "readLine"]
    BY <1>4 DEF GetFlag, Goto
  <2>2. old' = old
    BY <1>4 DEF GetFlag
  <2>3. /\ ClientTypes' /\ BooleanTypes' /\ TableTypes' /\ ScoresOK' /\ Rows'
        /\ Answers' /\ \A d \in Clients \ {c} : FieldsOK!(d)'
    BY <2>1, <2>2, <1>1, <1>2, <1>3, MoveKeeps DEF Places
  <2>4. StaticTypes'
    BY <1>0, <1>1 DEF StaticTypes
  <2>5. AloneOK'
    <3>1. InStolenFlag' = InStolenFlag \ {c}
      BY <1>0, <2>1 DEF InStolenFlag, ClientTypes
    <3> QED
      BY <3>1, <2>1, <1>0, <1>1, MoveAlone DEF Places
  <2>6. FieldsOK'
    <3>1. FieldsOK!(c)'
      <4>1. FieldsOK!(c) /\ pc'[c] = "readLine"
        BY <1>0, <2>1 DEF FieldsOK, ClientTypes
      <4> QED
        BY <4>1, <1>1, <1>2
    <3> QED
      BY <3>1, <2>3 DEF FieldsOK
  <2> QED
    BY <2>3, <2>4, <2>5, <2>6 DEF IInv, TypeOK, Rows, Answers
<1>5. CASE stGetFlag.flag \in flags
  <2>1. /\ row' = [row EXCEPT ![c] = stGetFlag.flag]
        /\ pc' = [pc EXCEPT ![c] = "ownFlag"]
    BY <1>5 DEF GetFlag, Goto
  <2>2. old' = [old EXCEPT ![c] = stGetFlag.flag \in expired]
    BY <1>5 DEF GetFlag
  <2>3. stGetFlag.flag \in Flags
    BY <1>0, <1>5 DEF TableTypes
  <2>4. ClientTypes'
    BY <1>0, <1>1, <2>1, <2>3 DEF ClientTypes
  <2>5. BooleanTypes'
    BY <1>0, <1>2, <2>2 DEF BooleanTypes
  <2>6. StaticTypes'
    BY <1>0, <1>1 DEF StaticTypes
  <2>7. TableTypes'
    BY <1>0, <1>1, <1>2 DEF TableTypes
  <2>8. AloneOK'
    <3>1. InStolenFlag' = InStolenFlag /\ c \in InStolenFlag
      BY <1>0, <1>3, <2>1 DEF InStolenFlag, ClientTypes
    <3>2. c \notin crossed => stGetFlag'.flag = line[c]
      BY <3>1, <1>0, <1>1, <1>3 DEF AloneOK
    <3> QED
      BY <3>1, <3>2, <2>1, <1>0, <1>1, MoveAlone DEF Places
  <2>9. FieldsOK'
    <3> SUFFICES ASSUME NEW d \in Clients PROVE FieldsOK!(d)'
      BY DEF FieldsOK
    <3>1. CASE d # c
      <4>1. pc'[d] = pc[d] /\ row'[d] = row[d]
        BY <3>1, <1>0, <2>1 DEF ClientTypes
      <4>2. old'[d] = old[d]
        BY <3>1, <1>0, <2>2 DEF BooleanTypes
      <4> QED
        BY <4>1, <4>2, <1>0, <1>1, <1>2 DEF FieldsOK
    <3>2. CASE d = c
      <4>1. c \notin crossed => stGetFlag.flag = line[c]
        BY <1>0, <1>3 DEF AloneOK, InStolenFlag
      <4>2. FieldsOK!(c)
        BY <1>0 DEF FieldsOK
      <4>3. pc'[c] = "ownFlag" /\ row'[c] = stGetFlag.flag
        BY <1>0, <2>1 DEF ClientTypes
      <4>4. old'[c] = (stGetFlag.flag \in expired)
        BY <1>0, <2>2 DEF BooleanTypes
      <4>5. line[c] \in Strings
        BY <4>2, <1>3
      <4> QED
        BY <3>2, <4>1, <4>2, <4>3, <4>4, <4>5, <2>3, <1>1, <1>2
    <3> QED
      BY <3>1, <3>2
  <2>10. ScoresOK'
    BY <1>0, <1>1, <2>1 DEF ScoresOK, ClientTypes
  <2>11. Rows'
    BY <1>0, <1>1, RowsKept
  <2>12. Answers'
    <3>1. \A d \in Clients : pc'[d] = "answer" <=> pc[d] = "answer"
      BY <1>0, <1>3, <2>1 DEF ClientTypes
    <3> QED
      BY <3>1, <1>0, <1>1, <1>2, AnswersKept
  <2> QED
    BY <2>4, <2>5, <2>6, <2>7, <2>8, <2>9, <2>10, <2>11, <2>12
       DEF IInv, TypeOK, Rows, Answers
<1> QED
  BY <1>4, <1>5

\* The trigger: one point only if the flag has a row already.
LEMMA InsertInv ==
  ASSUME IInv, NEW c \in Clients, Insert(c)
  PROVE  IInv'
<1>0. /\ ClientTypes /\ BooleanTypes /\ StaticTypes /\ TableTypes
      /\ AloneOK /\ FieldsOK /\ ScoresOK /\ Rows /\ Answers
  BY DEF IInv, TypeOK, Rows, Answers
<1>1. /\ line' = line /\ row' = row /\ lines' = lines
      /\ crossed' = crossed /\ stolen' = stolen
      /\ flags' = flags /\ expired' = expired /\ teamId' = teamId
      /\ stGetFlag' = stGetFlag /\ stGetStolenFlag' = stGetStolenFlag
  BY DEF Insert, world, history, statics
<1>2. /\ old' = old /\ fresh' = fresh /\ accepted' = accepted
      /\ unheard' = unheard
  BY DEF Insert, history
<1>3. /\ pc[c] = "insert" /\ pc' = [pc EXCEPT ![c] = "commit"]
      /\ score' = [score EXCEPT ![c] = ScoreAttack(line[c])]
  BY DEF Insert, Goto
<1>4. ClientTypes'
  BY <1>0, <1>1, <1>3 DEF ClientTypes, ScoreAttack
<1>5. BooleanTypes' /\ StaticTypes' /\ TableTypes'
  <2>1. BooleanTypes'
    BY <1>0, <1>2 DEF BooleanTypes
  <2>2. StaticTypes'
    BY <1>0, <1>1 DEF StaticTypes
  <2>3. TableTypes'
    BY <1>0, <1>1, <1>2 DEF TableTypes
  <2> QED
    BY <2>1, <2>2, <2>3
<1>6. AloneOK'
  <2>1. InStolenFlag' = InStolenFlag /\ c \notin InStolenFlag
    BY <1>0, <1>3 DEF InStolenFlag, ClientTypes
  <2> QED
    BY <2>1, <1>0, <1>1, <1>3, MoveAlone DEF Places
<1>7. FieldsOK'
  <2> SUFFICES ASSUME NEW d \in Clients PROVE FieldsOK!(d)'
    BY DEF FieldsOK
  <2>1. pc'[d] = IF d = c THEN "commit" ELSE pc[d]
    BY <1>0, <1>3 DEF ClientTypes
  <2> QED
    BY <2>1, <1>0, <1>1, <1>2, <1>3 DEF FieldsOK
<1>8. ScoresOK'
  <2> SUFFICES ASSUME NEW d \in Clients, pc'[d] \in {"commit", "orphan"},
                      score'[d] = 1
               PROVE  \E r \in stolen : r.flag = line[d]
    BY <1>1 DEF ScoresOK
  <2>1. CASE d = c
    <3>1. score'[c] = ScoreAttack(line[c])
      BY <1>0, <1>3 DEF ClientTypes
    <3> QED
      BY <3>1, <2>1 DEF ScoreAttack
  <2>2. CASE d # c
    BY <2>2, <1>0, <1>3 DEF ScoresOK, ClientTypes
  <2> QED
    BY <2>1, <2>2
<1>9. Rows'
  BY <1>0, <1>1, RowsKept
<1>10. Answers'
  <2>1. \A d \in Clients : pc'[d] = "answer" <=> pc[d] = "answer"
    BY <1>0, <1>3 DEF ClientTypes
  <2> QED
    BY <2>1, <1>0, <1>1, <1>2, AnswersKept
<1> QED
  BY <1>4, <1>5, <1>6, <1>7, <1>8, <1>9, <1>10 DEF IInv, TypeOK, Rows, Answers

\* The row that enters the table is one the table may hold.
LEMMA NewRowRight ==
  ASSUME IInv, NEW c \in Clients, pc[c] \in {"commit", "orphan"}
  PROVE  /\ NewRow(c) \in Row
         /\ NewRow(c).flag = line[c] /\ NewRow(c).team = teamId[c]
         /\ NewRow(c).score \in {1, 2}
         /\ NewRow(c).score = 1 => \E r \in stolen : r.flag = line[c]
         /\ NewRow(c).victim # NewRow(c).team
         /\ ~NewRow(c).crossed =>
              /\ NewRow(c).flag \in Flags
              /\ NewRow(c).victim = Owner[NewRow(c).flag]
              /\ NewRow(c).service = ServiceOf[NewRow(c).flag]
         /\ ~NewRow(c).crossed => NewRow(c).fresh
<1> USE GetFlagsAssumption
<1>0. ClientTypes /\ BooleanTypes /\ FieldsOK /\ ScoresOK
  BY DEF IInv, TypeOK
<1>1. FieldsOK!(c)
  BY <1>0 DEF FieldsOK
<1>2. /\ line[c] \in Strings /\ row[c] \in Flags /\ score[c] \in 1 .. 2
      /\ teamId[c] \in Teams
  BY <1>0, <1>1 DEF ClientTypes
<1>3. fresh[c] \in BOOLEAN
  BY <1>0 DEF BooleanTypes
<1>4. (c \in crossed) \in BOOLEAN
  OBVIOUS
<1>5. NewRow(c) \in Row
  BY <1>2, <1>3, <1>4 DEF NewRow, Row
<1>6. /\ NewRow(c).flag = line[c] /\ NewRow(c).team = teamId[c]
      /\ NewRow(c).score = score[c] /\ NewRow(c).victim = Owner[row[c]]
      /\ NewRow(c).service = ServiceOf[row[c]]
  BY DEF NewRow
<1>7. NewRow(c).crossed = (c \in crossed)
  BY DEF NewRow
<1>8. NewRow(c).fresh = fresh[c]
  BY DEF NewRow
<1>9. c \notin crossed => row[c] = line[c] /\ fresh[c]
  BY <1>1
<1>10. Owner[row[c]] # teamId[c]
  BY <1>1
<1>11. score[c] = 1 => \E r \in stolen : r.flag = line[c]
  BY <1>0 DEF ScoresOK
<1>12. score[c] \in {1, 2}
  BY <1>2
<1> QED
  BY <1>2, <1>5, <1>6, <1>7, <1>8, <1>9, <1>10, <1>11, <1>12

\* A row enters the table.
LEMMA StoreRows ==
  ASSUME IInv, NEW c \in Clients, pc[c] \in {"commit", "orphan"}, Store(c)
  PROVE  Rows' /\ stolen \subseteq stolen' /\ stolen' \subseteq Row
<1>0. TableTypes /\ Rows
  BY DEF IInv, TypeOK, Rows
<1>1. stolen' = stolen \cup {NewRow(c)}
  BY DEF Store
<1>2. stolen' \subseteq Row
  BY <1>0, <1>1, NewRowRight DEF TableTypes
<1>3. RowsTrue'
  BY <1>0, <1>1, NewRowRight DEF Rows, RowsTrue
<1>4. RowsFresh'
  BY <1>0, <1>1, NewRowRight DEF Rows, RowsFresh
<1>5. FirstThiefPaid'
  <2>1. \A r \in stolen : \E first \in stolen' :
          first.flag = r.flag /\ first.score = 2
    BY <1>0, <1>1 DEF Rows, FirstThiefPaid
  <2>2. \E first \in stolen' : first.flag = NewRow(c).flag /\ first.score = 2
    BY <2>1, <1>1, NewRowRight
  <2> QED
    BY <2>1, <2>2, <1>1 DEF FirstThiefPaid
<1> QED
  BY <1>1, <1>2, <1>3, <1>4, <1>5 DEF Rows

\* It is a row that the team had not, and had not heard of.
LEMMA StoreNew ==
  ASSUME IInv, NEW c \in Clients, pc[c] \in {"commit", "orphan"}, Store(c)
  PROVE  /\ Claim(c) \in Teams \X Strings
         /\ ~Stolen(teamId[c], line[c]) /\ ~Answering(teamId[c], line[c])
         /\ Claim(c) \notin unheard
         /\ accepted[Claim(c)] = 0
         /\ \A t \in Teams, s \in Strings :
              Stolen(t, s)' <=> Stolen(t, s) \/ <<t, s>> = Claim(c)
<1>1. line[c] \in Strings /\ teamId[c] \in Teams
  BY DEF IInv, TypeOK, FieldsOK, ClientTypes
<1>2. ~Stolen(teamId[c], line[c])
  BY DEF Store, Duplicate, Stolen
<1>3. AcceptedOnce
  BY DEF IInv
<1>4. /\ ~Answering(teamId[c], line[c]) /\ Claim(c) \notin unheard
      /\ accepted[Claim(c)] = 0
  BY <1>1, <1>2, <1>3 DEF AcceptedOnce, Claim
<1>5. \A t \in Teams, s \in Strings :
        Stolen(t, s)' <=> Stolen(t, s) \/ <<t, s>> = Claim(c)
  BY NewRowRight DEF Store, Stolen, Claim
<1> QED
  BY <1>1, <1>2, <1>4, <1>5 DEF Claim

\* What a step keeps that only ends an insert or moves on to the next line.
LEMMA AfterInsert ==
  ASSUME IInv, NEW c \in Clients, NEW to \in {"readLine", "answer", "closed"},
         pc[c] \in {"commit", "orphan", "answer"},
         pc' = [pc EXCEPT ![c] = to],
         line' = line, row' = row, score' = score, lines' = lines,
         old' = old, fresh' = fresh, crossed' = crossed,
         flags' = flags, expired' = expired, teamId' = teamId,
         stGetFlag' = stGetFlag, stGetStolenFlag' = stGetStolenFlag,
         stolen \subseteq stolen', stolen' \subseteq Row,
         accepted' \in [Teams \X Strings -> Nat],
         unheard' \subseteq Teams \X Strings
  PROVE  TypeOK' /\ AloneOK' /\ FieldsOK' /\ ScoresOK'
<1>0. /\ ClientTypes /\ BooleanTypes /\ StaticTypes /\ TableTypes
      /\ AloneOK /\ FieldsOK /\ ScoresOK
  BY DEF IInv, TypeOK
<1>1. ClientTypes'
  BY <1>0 DEF ClientTypes
<1>2. BooleanTypes'
  BY <1>0 DEF BooleanTypes
<1>3. StaticTypes'
  BY <1>0 DEF StaticTypes
<1>4. TableTypes'
  BY <1>0 DEF TableTypes
<1>5. AloneOK'
  <2>1. InStolenFlag' = InStolenFlag /\ c \notin InStolenFlag
    BY <1>0 DEF InStolenFlag, ClientTypes
  <2> QED
    BY <2>1, <1>0, MoveAlone DEF Places
<1>6. FieldsOK'
  <2> SUFFICES ASSUME NEW d \in Clients PROVE FieldsOK!(d)'
    BY DEF FieldsOK
  <2>1. pc'[d] = IF d = c THEN to ELSE pc[d]
    BY <1>0 DEF ClientTypes
  <2> QED
    BY <2>1, <1>0 DEF FieldsOK
<1>7. ScoresOK'
  BY <1>0 DEF ScoresOK, ClientTypes
<1> QED
  BY <1>1, <1>2, <1>3, <1>4, <1>5, <1>6, <1>7 DEF TypeOK

\* A row becomes durable, and its client waits to hear of it.
LEMMA CommitInv ==
  ASSUME IInv, NEW c \in Clients, Commit(c)
  PROVE  IInv'
<1>0. TypeOK /\ TableTypes /\ AcceptedOnce /\ AnswersOK
  BY DEF IInv, TypeOK
<1>1. /\ line' = line /\ row' = row /\ score' = score /\ lines' = lines
      /\ crossed' = crossed
      /\ flags' = flags /\ expired' = expired /\ teamId' = teamId
      /\ stGetFlag' = stGetFlag /\ stGetStolenFlag' = stGetStolenFlag
  BY DEF Commit, world, history, statics
<1>2. /\ old' = old /\ fresh' = fresh /\ accepted' = accepted
      /\ unheard' = unheard
  BY DEF Commit, history
<1>3. pc[c] = "commit" /\ pc' = [pc EXCEPT ![c] = "answer"] /\ Store(c)
  BY DEF Commit, Goto
<1>4. Rows' /\ stolen \subseteq stolen' /\ stolen' \subseteq Row
  BY <1>3, StoreRows
<1>5. TypeOK' /\ AloneOK' /\ FieldsOK' /\ ScoresOK'
  <2>1. /\ accepted' \in [Teams \X Strings -> Nat]
        /\ unheard' \subseteq Teams \X Strings
    BY <1>0, <1>2 DEF TableTypes
  <2> QED
    BY <2>1, <1>1, <1>2, <1>3, <1>4, AfterInsert
<1>6. /\ \A d \in Clients : Claim(d)' = Claim(d)
      /\ \A d \in Clients :
           pc'[d] = "answer" <=> IF d = c THEN TRUE ELSE pc[d] = "answer"
      /\ \A t, s : Answering(t, s)' <=>
           \/ Claim(c) = <<t, s>>
           \/ \E d \in Clients \ {c} : pc[d] = "answer" /\ Claim(d) = <<t, s>>
  <2>1. \A d \in Clients : Claim(d)' = Claim(d)
    BY <1>1 DEF Claim
  <2>2. \A d \in Clients :
         pc'[d] = "answer" <=> IF d = c THEN TRUE ELSE pc[d] = "answer"
    BY <1>0, <1>3 DEF TypeOK, ClientTypes
  <2> QED
    BY <2>1, <2>2 DEF Answering
<1>7. /\ ~Answering(teamId[c], line[c]) /\ Claim(c) \notin unheard
      /\ accepted[Claim(c)] = 0
      /\ \A t \in Teams, s \in Strings :
           Stolen(t, s)' <=> Stolen(t, s) \/ <<t, s>> = Claim(c)
  BY <1>3, StoreNew
<1>8. \A d \in Clients \ {c} : pc[d] = "answer" => Claim(d) # Claim(c)
  BY <1>7 DEF Answering, Claim
<1>9. AcceptedOnce'
  <2> SUFFICES ASSUME NEW t \in Teams, NEW s \in Strings
               PROVE  /\ accepted[<<t, s>>] =
                           IF /\ Stolen(t, s)' /\ ~Answering(t, s)'
                              /\ <<t, s>> \notin unheard
                           THEN 1 ELSE 0
                      /\ Answering(t, s)' \/ <<t, s>> \in unheard => Stolen(t, s)'
    BY <1>2 DEF AcceptedOnce
  <2>1. CASE <<t, s>> = Claim(c)
    BY <2>1, <1>6, <1>7
  <2>2. CASE <<t, s>> # Claim(c)
    <3>1. Answering(t, s)' <=> Answering(t, s)
      BY <2>2, <1>3, <1>6 DEF Answering
    <3> QED
      BY <3>1, <2>2, <1>0, <1>7 DEF AcceptedOnce
  <2> QED
    BY <2>1, <2>2
<1>10. AnswersOK'
  BY <1>0, <1>2, <1>6, <1>7, <1>8 DEF AnswersOK
<1> QED
  BY <1>4, <1>5, <1>9, <1>10 DEF IInv, Rows

\* The client hears of its row, or never will.
LEMMA AnswerInv ==
  ASSUME IInv, NEW c \in Clients, Answer(c) \/ AnswerLost(c)
  PROVE  IInv'
<1>0. TypeOK /\ TableTypes /\ ClientTypes /\ Rows /\ AcceptedOnce /\ AnswersOK
  BY DEF IInv, TypeOK, Rows
<1>1. /\ line' = line /\ row' = row /\ score' = score /\ lines' = lines
      /\ crossed' = crossed /\ stolen' = stolen
      /\ flags' = flags /\ expired' = expired /\ teamId' = teamId
      /\ stGetFlag' = stGetFlag /\ stGetStolenFlag' = stGetStolenFlag
  BY DEF Answer, AnswerLost, world, statics
<1>2. old' = old /\ fresh' = fresh
  BY DEF Answer, AnswerLost
<1>3. pc[c] = "answer" /\ pc' = [pc EXCEPT ![c] = "readLine"]
  BY DEF Answer, AnswerLost, Goto
<1>4. \/ /\ accepted' = [accepted EXCEPT ![Claim(c)] = @ + 1]
         /\ unheard' = unheard
      \/ unheard' = unheard \cup {Claim(c)} /\ accepted' = accepted
  BY DEF Answer, AnswerLost
<1>5. Claim(c) \in Teams \X Strings
  BY <1>3, <1>0 DEF IInv, FieldsOK, ClientTypes, Claim
<1>6. Rows'
  BY <1>0, <1>1, RowsKept
<1>7. TypeOK' /\ AloneOK' /\ FieldsOK' /\ ScoresOK'
  <2>1. /\ accepted' \in [Teams \X Strings -> Nat]
        /\ unheard' \subseteq Teams \X Strings
    BY <1>0, <1>4, <1>5 DEF TableTypes
  <2>2. stolen' \subseteq Row /\ stolen \subseteq stolen'
    BY <1>0, <1>1 DEF TableTypes
  <2> QED
    BY <2>1, <2>2, <1>1, <1>2, <1>3, AfterInsert
<1>8. /\ \A d \in Clients : Claim(d)' = Claim(d)
      /\ \A d \in Clients : pc'[d] = "answer" <=> d # c /\ pc[d] = "answer"
      /\ \A t, s : Answering(t, s)' <=>
           \E d \in Clients \ {c} : pc[d] = "answer" /\ Claim(d) = <<t, s>>
  <2>1. \A d \in Clients : Claim(d)' = Claim(d)
    BY <1>1 DEF Claim
  <2>2. \A d \in Clients : pc'[d] = "answer" <=> d # c /\ pc[d] = "answer"
    BY <1>0, <1>3 DEF ClientTypes
  <2> QED
    BY <2>1, <2>2 DEF Answering
<1>9. /\ Claim(c) \notin unheard
      /\ \A d \in Clients \ {c} : pc[d] = "answer" => Claim(d) # Claim(c)
  BY <1>0, <1>3 DEF AnswersOK
<1>10. AcceptedOnce'
  <2> SUFFICES ASSUME NEW t \in Teams, NEW s \in Strings
               PROVE  /\ accepted'[<<t, s>>] =
                           IF /\ Stolen(t, s) /\ ~Answering(t, s)'
                              /\ <<t, s>> \notin unheard'
                           THEN 1 ELSE 0
                      /\ Answering(t, s)' \/ <<t, s>> \in unheard' => Stolen(t, s)
    BY <1>1 DEF AcceptedOnce, Stolen
  <2>1. /\ accepted[<<t, s>>] =
             IF Stolen(t, s) /\ ~Answering(t, s) /\ <<t, s>> \notin unheard
             THEN 1 ELSE 0
        /\ Answering(t, s) \/ <<t, s>> \in unheard => Stolen(t, s)
    BY <1>0 DEF AcceptedOnce
  <2>2. <<t, s>> \in Teams \X Strings
    OBVIOUS
  <2>3. CASE <<t, s>> = Claim(c)
    <3>1. Answering(t, s) /\ ~Answering(t, s)'
      BY <2>3, <1>3, <1>8, <1>9 DEF Answering
    <3>2. accepted[<<t, s>>] = 0 /\ Stolen(t, s) /\ <<t, s>> \notin unheard
      BY <3>1, <2>1, <2>3, <1>9
    <3>3. \/ accepted'[<<t, s>>] = accepted[<<t, s>>] + 1 /\ unheard' = unheard
          \/ <<t, s>> \in unheard' /\ accepted' = accepted
      BY <2>2, <2>3, <1>0, <1>4 DEF TableTypes
    <3> QED
      BY <3>1, <3>2, <3>3
  <2>4. CASE <<t, s>> # Claim(c)
    <3>1. Answering(t, s)' <=> Answering(t, s)
      BY <2>4, <1>3, <1>8 DEF Answering
    <3>2. accepted'[<<t, s>>] = accepted[<<t, s>>]
      BY <2>2, <2>4, <1>0, <1>4 DEF TableTypes
    <3>3. <<t, s>> \in unheard' <=> <<t, s>> \in unheard
      BY <2>4, <1>4
    <3> QED
      BY <3>1, <3>2, <3>3, <2>1
  <2> QED
    BY <2>3, <2>4
<1>11. AnswersOK'
  <2>1. \A d \in Clients \ {c} : pc[d] = "answer" => Claim(d) \notin unheard'
    BY <1>0, <1>4, <1>9 DEF AnswersOK
  <2> QED
    BY <2>1, <1>0, <1>8 DEF AnswersOK
<1> QED
  BY <1>6, <1>7, <1>10, <1>11 DEF IInv, Rows

\* The database completes an INSERT whose process has ended.
LEMMA OrphanInv ==
  ASSUME IInv, NEW c \in Clients, Orphan(c)
  PROVE  IInv'
<1>0. /\ TypeOK /\ TableTypes /\ Rows /\ Answers
      /\ AcceptedOnce /\ AnswersOK
  BY DEF IInv, TypeOK, Rows, Answers
<1>1. /\ line' = line /\ row' = row /\ score' = score /\ lines' = lines
      /\ crossed' = crossed
      /\ flags' = flags /\ expired' = expired /\ teamId' = teamId
      /\ stGetFlag' = stGetFlag /\ stGetStolenFlag' = stGetStolenFlag
  BY DEF Orphan, world, statics
<1>2. old' = old /\ fresh' = fresh /\ accepted' = accepted
  BY DEF Orphan
<1>3. pc[c] = "orphan" /\ pc' = [pc EXCEPT ![c] = "closed"]
  BY DEF Orphan, Goto
<1>4. \/ Store(c) /\ unheard' = unheard \cup {Claim(c)}
      \/ stolen' = stolen /\ unheard' = unheard
  BY DEF Orphan
<1>5. Rows' /\ stolen \subseteq stolen' /\ stolen' \subseteq Row
  BY <1>0, <1>3, <1>4, StoreRows, RowsKept DEF TableTypes
<1>6. TypeOK' /\ AloneOK' /\ FieldsOK' /\ ScoresOK'
  <2>1. /\ accepted' \in [Teams \X Strings -> Nat]
        /\ unheard' \subseteq Teams \X Strings
    BY <1>0, <1>2, <1>3, <1>4, StoreNew DEF TableTypes
  <2> QED
    BY <2>1, <1>1, <1>2, <1>3, <1>5, AfterInsert
<1>7. Answers'
  <2>1. /\ \A d \in Clients : Claim(d)' = Claim(d)
        /\ \A d \in Clients : pc'[d] = "answer" <=> d # c /\ pc[d] = "answer"
        /\ \A t, s : Answering(t, s)' <=>
             \E d \in Clients \ {c} : pc[d] = "answer" /\ Claim(d) = <<t, s>>
    <3>1. \A d \in Clients : Claim(d)' = Claim(d)
      BY <1>1 DEF Claim
    <3>2. \A d \in Clients :
           pc'[d] = "answer" <=> d # c /\ pc[d] = "answer"
      BY <1>0, <1>3 DEF TypeOK, ClientTypes
    <3> QED
      BY <3>1, <3>2 DEF Answering
  <2>2. CASE stolen' = stolen /\ unheard' = unheard
    <3>1. \A d \in Clients : pc'[d] = "answer" <=> pc[d] = "answer"
      BY <2>1, <1>3
    <3> QED
      BY <3>1, <2>2, <1>0, <1>1, <1>2, AnswersKept
  <2>3. CASE Store(c) /\ unheard' = unheard \cup {Claim(c)}
    <3>1. /\ ~Answering(teamId[c], line[c]) /\ Claim(c) \notin unheard
          /\ accepted[Claim(c)] = 0
          /\ \A t \in Teams, s \in Strings :
               Stolen(t, s)' <=> Stolen(t, s) \/ <<t, s>> = Claim(c)
      BY <2>3, <1>3, StoreNew
    <3>2. \A t, s : Answering(t, s)' <=> Answering(t, s)
      BY <2>1, <1>3 DEF Answering
    <3>3. AcceptedOnce'
      <4> SUFFICES ASSUME NEW t \in Teams, NEW s \in Strings
                   PROVE  /\ accepted[<<t, s>>] =
                               IF /\ Stolen(t, s)' /\ ~Answering(t, s)'
                                  /\ <<t, s>> \notin unheard'
                               THEN 1 ELSE 0
                          /\ Answering(t, s)' \/ <<t, s>> \in unheard'
                               => Stolen(t, s)'
        BY <1>2 DEF AcceptedOnce
      <4>1. CASE <<t, s>> = Claim(c)
        BY <4>1, <2>3, <3>1
      <4>2. CASE <<t, s>> # Claim(c)
        BY <4>2, <2>3, <3>1, <3>2, <1>0 DEF AcceptedOnce
      <4> QED
        BY <4>1, <4>2
    <3>4. AnswersOK'
      <4>1. \A d \in Clients : pc[d] = "answer" => Claim(d) # Claim(c)
        BY <3>1 DEF Answering, Claim
      <4> QED
        BY <4>1, <2>1, <2>3, <1>0 DEF AnswersOK
    <3> QED
      BY <3>3, <3>4 DEF Answers
  <2> QED
    BY <2>2, <2>3, <1>4
<1> QED
  BY <1>5, <1>6, <1>7 DEF IInv, Rows, Answers

\* The process ends: nobody waits for an answer any more.
LEMMA ExitInv ==
  ASSUME IInv, Exit
  PROVE  IInv'
<1>0. /\ ClientTypes /\ BooleanTypes /\ StaticTypes /\ TableTypes
      /\ FieldsOK /\ ScoresOK /\ Rows /\ AcceptedOnce /\ AnswersOK
  BY DEF IInv, TypeOK, Rows
<1> DEFINE lost == {Claim(c) : c \in {d \in Clients : pc[d] = "answer"}}
<1>1. /\ line' = line /\ row' = row /\ score' = score /\ lines' = lines
      /\ crossed' = crossed /\ stolen' = stolen
      /\ flags' = flags /\ expired' = expired /\ teamId' = teamId
  BY DEF Exit, world
<1>2. old' = old /\ fresh' = fresh /\ accepted' = accepted
  BY DEF Exit
<1>3. /\ \A d \in Clients : /\ pc'[d] \in {"orphan", "closed"}
                            /\ pc'[d] = "orphan" => pc[d] \in {"commit", "orphan"}
      /\ pc' \in [Clients -> {"orphan", "closed"}]
      /\ unheard' = unheard \cup lost
      /\ stGetFlag' = [conn |-> None, flag |-> None]
      /\ stGetStolenFlag' = [conn |-> None, flag |-> None, team |-> None]
  BY DEF Exit
<1>4. ClientTypes'
  BY <1>0, <1>1, <1>3 DEF ClientTypes
<1>5. BooleanTypes'
  BY <1>0, <1>2 DEF BooleanTypes
<1>6. StaticTypes'
  BY <1>3 DEF StaticTypes
<1>7. lost \subseteq Teams \X Strings
  BY <1>0 DEF ClientTypes, FieldsOK, Claim
<1>8. TableTypes'
  BY <1>0, <1>1, <1>2, <1>3, <1>7 DEF TableTypes
<1>9. AloneOK'
  BY <1>3 DEF AloneOK, InStolenFlag
<1>10. FieldsOK'
  <2> SUFFICES ASSUME NEW d \in Clients PROVE FieldsOK!(d)'
    BY DEF FieldsOK
  <2>1. CASE pc'[d] = "closed"
    BY <2>1, <1>0, <1>1, <1>2 DEF FieldsOK
  <2>2. CASE pc'[d] = "orphan"
    BY <2>2, <1>0, <1>1, <1>2, <1>3 DEF FieldsOK
  <2> QED
    BY <2>1, <2>2, <1>3
<1>11. ScoresOK'
  BY <1>0, <1>1, <1>3 DEF ScoresOK
<1>12. Rows'
  BY <1>0, <1>1, RowsKept
<1>13. \A t, s : ~Answering(t, s)' /\ (Answering(t, s) <=> <<t, s>> \in lost)
  <2>1. \A d \in Clients : pc'[d] # "answer"
    BY <1>3
  <2> QED
    BY <2>1 DEF Answering
<1>14. AnswersOK'
  BY <1>3 DEF AnswersOK
<1>15. AcceptedOnce'
  <2>1. \A t, s : Stolen(t, s)' <=> Stolen(t, s)
    BY <1>1 DEF Stolen
  <2> HIDE DEF lost
  <2> QED
    BY <2>1, <1>0, <1>2, <1>3, <1>13 DEF AcceptedOnce
<1> QED
  BY <1>4, <1>5, <1>6, <1>8, <1>9, <1>10, <1>11, <1>12, <1>14, <1>15
     DEF IInv, TypeOK, Rows

\* Flags are planted and expire.
LEMMA WorldInv ==
  ASSUME IInv, World
  PROVE  IInv'
<1>0. /\ ClientTypes /\ BooleanTypes /\ StaticTypes /\ TableTypes
      /\ AloneOK /\ FieldsOK /\ ScoresOK /\ Rows /\ Answers
  BY DEF IInv, TypeOK, Rows, Answers
<1>1. /\ pc' = pc /\ line' = line /\ row' = row /\ score' = score
      /\ lines' = lines /\ crossed' = crossed /\ stolen' = stolen
      /\ stGetFlag' = stGetFlag /\ stGetStolenFlag' = stGetStolenFlag
      /\ teamId' = teamId
  BY DEF World, Plant, Expire, client, history, statics
<1>2. /\ old' = old /\ fresh' = fresh /\ accepted' = accepted
      /\ unheard' = unheard
  BY DEF World, Plant, Expire, client, history
<1>3. /\ flags' \subseteq Flags /\ expired' \subseteq flags'
      /\ expired \subseteq expired'
  BY <1>0 DEF World, Plant, Expire, TableTypes
<1>4. ClientTypes' /\ StaticTypes'
  BY <1>0, <1>1 DEF ClientTypes, StaticTypes
<1>5. BooleanTypes'
  BY <1>0, <1>2 DEF BooleanTypes
<1>6. TableTypes'
  BY <1>0, <1>1, <1>2, <1>3 DEF TableTypes
<1>7. AloneOK' /\ ScoresOK'
  BY <1>0, <1>1 DEF AloneOK, ScoresOK, InStolenFlag
<1>8. FieldsOK'
  BY <1>0, <1>1, <1>2, <1>3 DEF FieldsOK
<1>9. Rows' /\ Answers'
  BY <1>0, <1>1, <1>2, RowsKept, AnswersKept
<1> QED
  BY <1>4, <1>5, <1>6, <1>7, <1>8, <1>9 DEF IInv, TypeOK, Rows, Answers

\* The inductive invariant holds for any clients, teams and strings.
THEOREM Invariance == Spec => []IInv
<1>1. IInv /\ [Next]_vars => IInv'
  <2> SUFFICES ASSUME IInv, [Next]_vars PROVE IInv'
    OBVIOUS
  <2>1. CASE World
    BY <2>1, WorldInv
  <2>2. ASSUME NEW c \in Clients, Client(c) PROVE IInv'
    <3>1. CASE \E s \in Strings : ReadLine(c, s)
      BY <3>1, ReadLineInv
    <3>2. CASE SetStolenFlag(c) \/ PrepareFlag(c) \/ SetFlag(c) \/ SetTeam(c)
      BY <3>2, StatementInv
    <3>3. CASE GetFlag(c)
      BY <3>3, GetFlagInv
    <3>4. CASE \/ OwnFlag(c) \/ GetStolen(c) \/ ServiceStatus(c) \/ Fails(c)
               \/ Leaves(c) \/ Connect(c) \/ Refuse(c)
      BY <3>4, DecideInv
    <3>5. CASE Insert(c)
      BY <3>5, InsertInv
    <3>6. CASE Commit(c)
      BY <3>6, CommitInv
    <3>7. CASE Answer(c) \/ AnswerLost(c)
      BY <3>7, AnswerInv
    <3>8. CASE Orphan(c)
      BY <3>8, OrphanInv
    <3> QED
      BY <2>2, <3>1, <3>2, <3>3, <3>4, <3>5, <3>6, <3>7, <3>8 DEF Client
  <2>3. CASE UNCHANGED vars
    <3>0. /\ ClientTypes /\ BooleanTypes /\ StaticTypes /\ TableTypes
          /\ AloneOK /\ FieldsOK /\ ScoresOK /\ Rows /\ Answers
      BY DEF IInv, TypeOK, Rows, Answers
    <3>1. /\ pc' = pc /\ line' = line /\ row' = row /\ score' = score
          /\ lines' = lines /\ crossed' = crossed /\ stolen' = stolen
          /\ stGetFlag' = stGetFlag /\ stGetStolenFlag' = stGetStolenFlag
          /\ flags' = flags /\ expired' = expired /\ teamId' = teamId
      BY <2>3 DEF vars, client, statics, world, history
    <3>2. /\ old' = old /\ fresh' = fresh /\ accepted' = accepted
          /\ unheard' = unheard
      BY <2>3 DEF vars, client, history
    <3>3. ClientTypes' /\ StaticTypes'
      BY <3>0, <3>1 DEF ClientTypes, StaticTypes
    <3>4. BooleanTypes'
      BY <3>0, <3>2 DEF BooleanTypes
    <3>5. TableTypes'
      BY <3>0, <3>1, <3>2 DEF TableTypes
    <3>6. AloneOK' /\ ScoresOK'
      BY <3>0, <3>1 DEF AloneOK, ScoresOK, InStolenFlag
    <3>7. FieldsOK'
      BY <3>0, <3>1, <3>2 DEF FieldsOK
    <3>8. Rows' /\ Answers'
      BY <3>0, <3>1, <3>2, RowsKept, AnswersKept
    <3> QED
      BY <3>3, <3>4, <3>5, <3>6, <3>7, <3>8 DEF IInv, TypeOK, Rows, Answers
  <2>4. CASE Exit
    BY <2>4, ExitInv
  <2> QED
    BY <2>1, <2>2, <2>3, <2>4 DEF Next
<1> QED
  BY <1>1, InitInv, PTL DEF Spec

\* Type correctness; scores pass the table's CHECK (tables-create.sql 71).
THEOREM TypeCorrect == Spec => []TypeOK
<1>1. IInv => TypeOK
  BY DEF IInv
<1> QED
  BY <1>1, Invariance, PTL

\* No team scores against itself, and a row is true of its flag, for a client
\* that met nobody in StolenFlag (StolenFlag 12-71).
THEOREM RowsAreTrue == Spec => []RowsTrue
<1>1. IInv => RowsTrue
  BY DEF IInv
<1> QED
  BY <1>1, Invariance, PTL

\* Such a client is also never paid for a flag that was too old when its line
\* arrived (ClientProcessor 134-138).
THEOREM RowsAreFresh == Spec => []RowsFresh
<1>1. IInv => RowsFresh
  BY DEF IInv
<1> QED
  BY <1>1, Invariance, PTL

\* One row for each "Accepted", and one "Accepted" for each row whose answer
\* was not lost, in every race, over failed statements and ends of the process.
THEOREM AcceptedExactlyOnce == Spec => []AcceptedOnce
<1>1. IInv => AcceptedOnce
  BY DEF IInv
<1> QED
  BY <1>1, Invariance, PTL

\* The full score of a stolen flag is always paid to somebody.
THEOREM FullScorePaid == Spec => []FirstThiefPaid
<1>1. IInv => FirstThiefPaid
  BY DEF IInv
<1> QED
  BY <1>1, Invariance, PTL
=============================================================================
