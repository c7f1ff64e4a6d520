--------------------------- MODULE NsalessProofs ---------------------------
(***************************************************************************)
(* Proofs about nsaless, for any users, tweets and clients.  The inductive *)
(* invariant says what the commands and replies on the way stand for; the  *)
(* first lemmas say that a queue keeps that when something is appended to  *)
(* it, taken from it, or learned by redis.  The second half is about a     *)
(* visit of the checker: why it finds the flag.                            *)
(***************************************************************************)
EXTENDS NsalessChecker, SequenceTheorems, TLAPS

-----------------------------------------------------------------------------
(* Sequences                                                                *)

\* Whatever sequence it is, it is one of its own elements.
LEMMA OwnElements ==
  ASSUME NEW S, NEW q \in Seq(S)
  PROVE  q \in Seq(Range(q))
<1>1. q \in [1 .. Len(q) -> S] /\ Len(q) \in Nat
  BY LenProperties
<1>2. DOMAIN q = 1 .. Len(q)
  BY <1>1
<1>3. q \in [1 .. Len(q) -> Range(q)]
  <2>1. \A i \in 1 .. Len(q) : q[i] \in Range(q)
    BY <1>2 DEF Range
  <2> QED
    BY <1>1, <2>1
<1> QED
  BY <1>1, <1>3, SeqDef

\* A sequence is the image of its indices.
LEMMA Elements ==
  ASSUME NEW q, q \in Seq(Range(q))
  PROVE  /\ Len(q) \in Nat
         /\ \A x : x \in Range(q) <=> \E i \in 1 .. Len(q) : x = q[i]
<1>1. Len(q) \in Nat /\ DOMAIN q = 1 .. Len(q)
  BY LenProperties
<1> QED
  BY <1>1 DEF Range

LEMMA AppendQueue ==
  ASSUME NEW q, q \in Seq(Range(q)), NEW m
  PROVE  /\ Append(q, m) \in Seq(Range(Append(q, m)))
         /\ Len(q) \in Nat
         /\ Len(Append(q, m)) = Len(q) + 1
         /\ \A i \in 1 .. Len(q) : Append(q, m)[i] = q[i]
         /\ Append(q, m)[Len(q) + 1] = m
<1> DEFINE S == Range(q) \cup {m}
<1>1. q \in Seq(S) /\ m \in S
  BY SeqMonotonic
<1> HIDE DEF S
<1>2. Append(q, m) \in Seq(S) /\ Len(q) \in Nat
  BY <1>1
<1>3. Append(q, m) \in Seq(Range(Append(q, m)))
  BY <1>2, OwnElements
<1>4. Len(Append(q, m)) = Len(q) + 1
  BY <1>1
<1>5. \A i \in 1 .. Len(q) : Append(q, m)[i] = q[i]
  BY <1>1
<1>6. Append(q, m)[Len(q) + 1] = m
  BY <1>1
<1> QED
  BY <1>2, <1>3, <1>4, <1>5, <1>6

LEMMA TailQueue ==
  ASSUME NEW q, q \in Seq(Range(q)), q # <<>>
  PROVE  /\ Tail(q) \in Seq(Range(Tail(q)))
         /\ Len(q) \in Nat \ {0}
         /\ Head(q) = q[1]
         /\ Len(Tail(q)) = Len(q) - 1
         /\ \A i \in 1 .. Len(Tail(q)) : Tail(q)[i] = q[i + 1]
<1>1. Tail(q) \in Seq(Range(q)) /\ Len(Tail(q)) = Len(q) - 1
  BY HeadTailProperties
<1>2. \A i \in 1 .. Len(Tail(q)) : Tail(q)[i] = q[i + 1]
  BY HeadTailProperties
<1>3. Len(q) \in Nat \ {0}
  BY EmptySeq
<1>4. Tail(q) \in Seq(Range(Tail(q)))
  BY <1>1, OwnElements
<1>5. Head(q) = q[1]
  OBVIOUS
<1> QED
  BY <1>1, <1>2, <1>3, <1>4, <1>5

\* What is left of a sequence was in it.
LEMMA TailElements ==
  ASSUME NEW q, q \in Seq(Range(q)), q # <<>>
  PROVE  Range(Tail(q)) \subseteq Range(q)
<1>1. Tail(q) \in Seq(Range(q))
  BY HeadTailProperties
<1> DEFINE r == Tail(q)
           S == Range(q)
<1>2. r \in Seq(S)
  BY <1>1
<1> HIDE DEF r, S
<1>3. r \in [1 .. Len(r) -> S]
  BY <1>2, LenProperties
<1>4. Range(r) \subseteq S
  BY <1>3 DEF Range
<1> QED
  BY <1>4 DEF r, S

\* The head of the queue is replaced by m.
LEMMA NewHead ==
  ASSUME NEW q, q \in Seq(Range(q)), q # <<>>, NEW m
  PROVE  /\ <<m>> \o Tail(q) \in Seq(Range(<<m>> \o Tail(q)))
         /\ Len(<<m>> \o Tail(q)) = Len(q)
         /\ (<<m>> \o Tail(q))[1] = m
         /\ \A i \in 2 .. Len(q) : (<<m>> \o Tail(q))[i] = q[i]
<1> DEFINE S == Range(q) \cup {m}
           r == <<m>> \o Tail(q)
<1>1. Tail(q) \in Seq(S)
  BY TailQueue, HeadTailProperties, SeqMonotonic
<1>2. <<m>> \in Seq(S) /\ Len(<<m>>) = 1
  OBVIOUS
<1>3. /\ Len(Tail(q)) = Len(q) - 1
      /\ Len(q) \in Nat \ {0}
      /\ \A i \in 1 .. Len(Tail(q)) : Tail(q)[i] = q[i + 1]
  BY TailQueue
<1> HIDE DEF S
<1>4. /\ r \in Seq(S)
      /\ Len(r) = 1 + Len(Tail(q))
      /\ \A i \in 1 .. 1 + Len(Tail(q)) :
           r[i] = IF i <= 1 THEN <<m>>[i] ELSE Tail(q)[i - 1]
  BY <1>1, <1>2, ConcatProperties
<1>5. r \in Seq(Range(r))
  BY <1>4, OwnElements
<1> HIDE DEF r
<1>6. Len(r) = Len(q)
  BY <1>3, <1>4
<1>7. r[1] = m
  BY <1>3, <1>4
<1>8. \A i \in 2 .. Len(q) : r[i] = q[i]
  <2> TAKE i \in 2 .. Len(q)
  <2>1. i - 1 \in 1 .. Len(Tail(q)) /\ i \in 1 .. 1 + Len(Tail(q)) /\ ~(i <= 1)
    BY <1>3
  <2>2. r[i] = Tail(q)[i - 1]
    BY <1>4, <2>1
  <2>3. Tail(q)[i - 1] = q[(i - 1) + 1]
    BY <1>3, <2>1
  <2> QED
    BY <2>2, <2>3, <1>3
<1> QED
  BY <1>5, <1>6, <1>7, <1>8 DEF r

\* A tweet in front of a list.
LEMMA InFront ==
  ASSUME NEW s \in Seq(Tweets), NEW t \in Tweets
  PROVE  /\ <<t>> \o s \in Seq(Tweets)
         /\ Range(<<t>> \o s) = Range(s) \cup {t}
<1>1. <<t>> \in Seq(Tweets) /\ Len(<<t>>) = 1
  OBVIOUS
<1> DEFINE r == <<t>> \o s
<1>2. /\ r \in Seq(Tweets)
      /\ Len(r) = 1 + Len(s)
      /\ \A i \in 1 .. 1 + Len(s) :
           r[i] = IF i <= 1 THEN <<t>>[i] ELSE s[i - 1]
  BY <1>1, ConcatProperties
<1> HIDE DEF r
<1>3. Len(s) \in Nat /\ DOMAIN s = 1 .. Len(s) /\ DOMAIN r = 1 .. 1 + Len(s)
  BY <1>2, LenProperties
<1>4. ASSUME NEW x \in Range(r) PROVE x \in Range(s) \cup {t}
  <2>1. PICK i \in 1 .. 1 + Len(s) : x = r[i]
    BY <1>3, <1>4 DEF Range
  <2>2. CASE i = 1
    BY <2>1, <2>2, <1>2, <1>3
  <2>3. CASE i # 1
    <3>1. i - 1 \in 1 .. Len(s) /\ ~(i <= 1)
      BY <2>1, <2>3, <1>3
    <3>2. x = s[i - 1]
      BY <2>1, <3>1, <1>2
    <3> QED
      BY <3>1, <3>2, <1>3 DEF Range
  <2> QED
    BY <2>2, <2>3
<1>5. ASSUME NEW x \in Range(s) PROVE x \in Range(r)
  <2>1. PICK i \in 1 .. Len(s) : x = s[i]
    BY <1>3, <1>5 DEF Range
  <2>2. i + 1 \in 1 .. 1 + Len(s) /\ ~(i + 1 <= 1) /\ (i + 1) - 1 = i
    BY <1>3
  <2>3. r[i + 1] = s[(i + 1) - 1]
    BY <2>2, <1>2
  <2> QED
    BY <2>1, <2>2, <2>3, <1>3 DEF Range
<1>6. t \in Range(r)
  <2>1. 1 \in 1 .. 1 + Len(s) /\ r[1] = t
    BY <1>2, <1>3
  <2> QED
    BY <2>1, <1>3 DEF Range
<1> QED
  BY <1>2, <1>4, <1>5, <1>6 DEF r

-----------------------------------------------------------------------------
(* The queues of commands                                                   *)

\* What redis and the histories know only grows.
More(fol, fee, ask, gra, fol2, fee2, ask2, gra2) ==
  /\ ask \subseteq ask2 /\ gra \subseteq gra2
  /\ \A u \in Users : fol[u] \subseteq fol2[u]
  /\ \A u \in Users : Range(fee[u]) \subseteq Range(fee2[u])

LEMMA UsersMore ==
  ASSUME NEW q, NEW fol, NEW fee, NEW ask, NEW gra,
         NEW fol2, NEW fee2, NEW ask2, NEW gra2,
         More(fol, fee, ask, gra, fol2, fee2, ask2, gra2),
         UsersQueueOK(q, fol, fee, ask, gra)
  PROVE  UsersQueueOK(q, fol2, fee2, ask2, gra2)
<1> SUFFICES ASSUME NEW i \in 1 .. Len(q)
             PROVE  UsersCommandOK(q, i, fol2, fee2, ask2, gra2)
  BY DEF UsersQueueOK
<1>1. UsersCommandOK(q, i, fol, fee, ask, gra)
  BY DEF UsersQueueOK
<1> QED
  BY <1>1 DEF UsersCommandOK, More

LEMMA UsersAppend ==
  ASSUME NEW q, q \in Seq(Range(q)), NEW m,
         NEW fol, NEW fee, NEW ask, NEW gra,
         UsersQueueOK(q, fol, fee, ask, gra),
         UsersCommandOK(Append(q, m), Len(q) + 1, fol, fee, ask, gra)
  PROVE  UsersQueueOK(Append(q, m), fol, fee, ask, gra)
<1> DEFINE r == Append(q, m)
<1>1. /\ Len(q) \in Nat /\ Len(r) = Len(q) + 1
      /\ \A i \in 1 .. Len(q) : r[i] = q[i]
  BY AppendQueue
<1>2. UsersCommandOK(r, Len(q) + 1, fol, fee, ask, gra)
  OBVIOUS
<1> HIDE DEF r
<1> SUFFICES ASSUME NEW i \in 1 .. Len(r)
             PROVE  UsersCommandOK(r, i, fol, fee, ask, gra)
  BY DEF UsersQueueOK, r
<1>3. CASE i = Len(q) + 1
  BY <1>2, <1>3
<1>4. CASE i # Len(q) + 1
  <2>1. i \in 1 .. Len(q) /\ \A j \in 1 .. i : r[j] = q[j]
    BY <1>1, <1>4
  <2>2. UsersCommandOK(q, i, fol, fee, ask, gra)
    BY <2>1 DEF UsersQueueOK
  <2>3. r[i] = q[i] /\ \A j \in 1 .. i - 1 : r[j] = q[j]
    BY <2>1
  <2> QED
    BY <2>2, <2>3 DEF UsersCommandOK, Lookups
<1> QED
  BY <1>3, <1>4

\* A command that needs nothing before it may be appended.
LEMMA UsersAppendFree ==
  ASSUME NEW q, q \in Seq(Range(q)), NEW m,
         NEW fol, NEW fee, NEW ask, NEW gra,
         UsersQueueOK(q, fol, fee, ask, gra),
         UsersCommandOK(<<m>>, 1, fol, fee, ask, gra)
  PROVE  /\ Append(q, m) \in Seq(Range(Append(q, m)))
         /\ UsersQueueOK(Append(q, m), fol, fee, ask, gra)
<1>1. Append(q, m)[Len(q) + 1] = m /\ <<m>>[1] = m /\ 1 .. 1 - 1 = {}
  BY AppendQueue
<1>2. UsersCommandOK(Append(q, m), Len(q) + 1, fol, fee, ask, gra)
  BY <1>1 DEF UsersCommandOK, Lookups
<1> QED
  BY <1>2, AppendQueue, UsersAppend

\* An acceptance that leaves the queue must have taken effect.
LEMMA UsersTail ==
  ASSUME NEW q, q \in Seq(Range(q)), q # <<>>,
         NEW fol, NEW fee, NEW ask, NEW gra,
         UsersQueueOK(q, fol, fee, ask, gra),
         Head(q).do = "add" => Head(q).f \in fol[Head(q).u]
  PROVE  UsersQueueOK(Tail(q), fol, fee, ask, gra)
<1> DEFINE r == Tail(q)
<1>1. /\ Len(q) \in Nat \ {0} /\ Len(r) = Len(q) - 1 /\ Head(q) = q[1]
      /\ \A i \in 1 .. Len(r) : r[i] = q[i + 1]
  BY TailQueue
<1> HIDE DEF r
<1> SUFFICES ASSUME NEW i \in 1 .. Len(r)
             PROVE  UsersCommandOK(r, i, fol, fee, ask, gra)
  BY DEF UsersQueueOK, r
<1>2. i + 1 \in 1 .. Len(q) /\ r[i] = q[i + 1]
  BY <1>1
<1>3. UsersCommandOK(q, i + 1, fol, fee, ask, gra)
  BY <1>2 DEF UsersQueueOK
<1>4. ASSUME r[i].do = "lrange own", r[i].f \notin fol[r[i].u]
      PROVE  \E j \in 1 .. i - 1 :
               r[j].do = "add" /\ r[j].u = r[i].u /\ r[j].f = r[i].f
  <2>1. PICK j \in 1 .. (i + 1) - 1 :
          q[j].do = "add" /\ q[j].u = r[i].u /\ q[j].f = r[i].f
    BY <1>2, <1>3, <1>4 DEF UsersCommandOK, Lookups
  <2>2. j # 1
    BY <2>1, <1>1, <1>4
  <2>3. j - 1 \in 1 .. i - 1 /\ j - 1 \in 1 .. Len(r) /\ (j - 1) + 1 = j
    BY <2>1, <2>2, <1>1
  <2>4. r[j - 1] = q[j]
    BY <2>3, <1>1
  <2> QED
    BY <2>1, <2>3, <2>4
<1> QED
  BY <1>2, <1>3, <1>4 DEF UsersCommandOK, Lookups

\* A copy has one tweet less to go.
LEMMA UsersNewHead ==
  ASSUME NEW q, q \in Seq(Range(q)), q # <<>>, NEW m,
         NEW fol, NEW fee, NEW ask, NEW gra,
         UsersQueueOK(q, fol, fee, ask, gra),
         Head(q).do = "copies", m.do = "copies",
         m.u \in Users, m.f \in Users, m.f \in fol[m.u],
         m.ts \in Seq(Tweets) \ {<<>>},
         Range(m.ts) \subseteq Range(fee[m.u])
  PROVE  UsersQueueOK(<<m>> \o Tail(q), fol, fee, ask, gra)
<1> DEFINE r == <<m>> \o Tail(q)
<1>1. /\ Len(q) \in Nat \ {0} /\ Len(r) = Len(q) /\ r[1] = m
      /\ \A i \in 2 .. Len(q) : r[i] = q[i]
  BY NewHead, TailQueue
<1>2. Head(q) = q[1]
  BY TailQueue
<1> HIDE DEF r
<1> SUFFICES ASSUME NEW i \in 1 .. Len(r)
             PROVE  UsersCommandOK(r, i, fol, fee, ask, gra)
  BY DEF UsersQueueOK, r
<1>3. CASE i = 1
  BY <1>1, <1>3 DEF UsersCommandOK, Lookups
<1>4. CASE i # 1
  <2>1. i \in 2 .. Len(q) /\ i \in 1 .. Len(q)
    BY <1>1, <1>4
  <2>2. r[i] = q[i] /\ UsersCommandOK(q, i, fol, fee, ask, gra)
    BY <2>1, <1>1 DEF UsersQueueOK
  <2>3. \A j \in 1 .. i - 1 : q[j].do = "add" => r[j] = q[j]
    <3> TAKE j \in 1 .. i - 1
    <3>1. j = 1 \/ j \in 2 .. Len(q)
      BY <2>1
    <3> QED
      BY <3>1, <1>1, <1>2
  <2> QED
    BY <2>2, <2>3 DEF UsersCommandOK, Lookups
<1> QED
  BY <1>3, <1>4

LEMMA TweetsMore ==
  ASSUME NEW q, NEW fol, NEW fee, NEW aut, NEW fol2, NEW fee2, NEW aut2,
         \A u \in Users : fol[u] \subseteq fol2[u],
         \A u \in Users : Range(fee[u]) \subseteq Range(fee2[u]),
         \A t \in Tweets : aut[t] \subseteq aut2[t],
         TweetsQueueOK(q, fol, fee, aut)
  PROVE  TweetsQueueOK(q, fol2, fee2, aut2)
<1> SUFFICES ASSUME NEW i \in 1 .. Len(q)
             PROVE  TweetsCommandOK(q, i, fol2, fee2, aut2)
  BY DEF TweetsQueueOK
<1>1. TweetsCommandOK(q, i, fol, fee, aut)
  BY DEF TweetsQueueOK
<1> QED
  BY <1>1 DEF TweetsCommandOK

LEMMA TweetsAppend ==
  ASSUME NEW q, q \in Seq(Range(q)), NEW m, NEW fol, NEW fee, NEW aut,
         TweetsQueueOK(q, fol, fee, aut),
         TweetsCommandOK(Append(q, m), Len(q) + 1, fol, fee, aut)
  PROVE  TweetsQueueOK(Append(q, m), fol, fee, aut)
<1> DEFINE r == Append(q, m)
<1>1. /\ Len(q) \in Nat /\ Len(r) = Len(q) + 1
      /\ \A i \in 1 .. Len(q) : r[i] = q[i]
  BY AppendQueue
<1>2. TweetsCommandOK(r, Len(q) + 1, fol, fee, aut)
  OBVIOUS
<1> HIDE DEF r
<1> SUFFICES ASSUME NEW i \in 1 .. Len(r)
             PROVE  TweetsCommandOK(r, i, fol, fee, aut)
  BY DEF TweetsQueueOK, r
<1>3. CASE i = Len(q) + 1
  BY <1>2, <1>3
<1>4. CASE i # Len(q) + 1
  <2>1. i \in 1 .. Len(q) /\ \A j \in 1 .. i : r[j] = q[j]
    BY <1>1, <1>4
  <2>2. TweetsCommandOK(q, i, fol, fee, aut)
    BY <2>1 DEF TweetsQueueOK
  <2>3. r[i] = q[i] /\ \A j \in 1 .. i - 1 : r[j] = q[j]
    BY <2>1
  <2> QED
    BY <2>2, <2>3 DEF TweetsCommandOK
<1> QED
  BY <1>3, <1>4

LEMMA TweetsAppendFree ==
  ASSUME NEW q, q \in Seq(Range(q)), NEW m, NEW fol, NEW fee, NEW aut,
         TweetsQueueOK(q, fol, fee, aut),
         TweetsCommandOK(<<m>>, 1, fol, fee, aut)
  PROVE  /\ Append(q, m) \in Seq(Range(Append(q, m)))
         /\ TweetsQueueOK(Append(q, m), fol, fee, aut)
<1>1. Append(q, m)[Len(q) + 1] = m /\ <<m>>[1] = m /\ 1 .. 1 - 1 = {}
  BY AppendQueue
<1>2. TweetsCommandOK(Append(q, m), Len(q) + 1, fol, fee, aut)
  BY <1>1 DEF TweetsCommandOK
<1> QED
  BY <1>2, AppendQueue, TweetsAppend

\* The author's own copy leaves the queue when it is in the list.
LEMMA TweetsTail ==
  ASSUME NEW q, q \in Seq(Range(q)), q # <<>>, NEW fol, NEW fee, NEW aut,
         TweetsQueueOK(q, fol, fee, aut),
         Head(q).do = "own" => Head(q).t \in Range(fee[Head(q).u])
  PROVE  TweetsQueueOK(Tail(q), fol, fee, aut)
<1> DEFINE r == Tail(q)
<1>1. /\ Len(q) \in Nat \ {0} /\ Len(r) = Len(q) - 1 /\ Head(q) = q[1]
      /\ \A i \in 1 .. Len(r) : r[i] = q[i + 1]
  BY TailQueue
<1> HIDE DEF r
<1> SUFFICES ASSUME NEW i \in 1 .. Len(r)
             PROVE  TweetsCommandOK(r, i, fol, fee, aut)
  BY DEF TweetsQueueOK, r
<1>2. i + 1 \in 1 .. Len(q) /\ r[i] = q[i + 1]
  BY <1>1
<1>3. TweetsCommandOK(q, i + 1, fol, fee, aut)
  BY <1>2 DEF TweetsQueueOK
<1>4. ASSUME r[i].do = "push", r[i].t \notin Range(fee[r[i].u])
      PROVE  \E j \in 1 .. i - 1 :
               r[j].do = "own" /\ r[j].u = r[i].u /\ r[j].t = r[i].t
  <2>1. PICK j \in 1 .. (i + 1) - 1 :
          q[j].do = "own" /\ q[j].u = r[i].u /\ q[j].t = r[i].t
    BY <1>2, <1>3, <1>4 DEF TweetsCommandOK
  <2>2. j # 1
    BY <2>1, <1>1, <1>4
  <2>3. j - 1 \in 1 .. i - 1 /\ j - 1 \in 1 .. Len(r) /\ (j - 1) + 1 = j
    BY <2>1, <2>2, <1>1
  <2>4. r[j - 1] = q[j]
    BY <2>3, <1>1
  <2> QED
    BY <2>1, <2>3, <2>4
<1> QED
  BY <1>2, <1>3, <1>4 DEF TweetsCommandOK

\* A tweet has one follower less to go to.
LEMMA TweetsNewHead ==
  ASSUME NEW q, q \in Seq(Range(q)), q # <<>>, NEW m,
         NEW fol, NEW fee, NEW aut,
         TweetsQueueOK(q, fol, fee, aut),
         Head(q).do = "push", m.do = "push",
         m.u \in Users, m.t \in Tweets, m.to \subseteq fol[m.u],
         m.t \in Range(fee[m.u])
  PROVE  TweetsQueueOK(<<m>> \o Tail(q), fol, fee, aut)
<1> DEFINE r == <<m>> \o Tail(q)
<1>1. /\ Len(q) \in Nat \ {0} /\ Len(r) = Len(q) /\ r[1] = m
      /\ \A i \in 2 .. Len(q) : r[i] = q[i]
  BY NewHead, TailQueue
<1>2. Head(q) = q[1]
  BY TailQueue
<1> HIDE DEF r
<1> SUFFICES ASSUME NEW i \in 1 .. Len(r)
             PROVE  TweetsCommandOK(r, i, fol, fee, aut)
  BY DEF TweetsQueueOK, r
<1>3. CASE i = 1
  BY <1>1, <1>3 DEF TweetsCommandOK
<1>4. CASE i # 1
  <2>1. i \in 2 .. Len(q) /\ i \in 1 .. Len(q)
    BY <1>1, <1>4
  <2>2. r[i] = q[i] /\ TweetsCommandOK(q, i, fol, fee, aut)
    BY <2>1, <1>1 DEF TweetsQueueOK
  <2>3. \A j \in 1 .. i - 1 : q[j].do = "own" => r[j] = q[j]
    <3> TAKE j \in 1 .. i - 1
    <3>1. j = 1 \/ j \in 2 .. Len(q)
      BY <2>1
    <3> QED
      BY <3>1, <1>1, <1>2
  <2> QED
    BY <2>2, <2>3 DEF TweetsCommandOK
<1> QED
  BY <1>3, <1>4

\* A queue that grew holds the new message and the old ones; one that shrank
\* holds old ones.
LEMMA EachAppended ==
  ASSUME NEW q, q \in Seq(Range(q)), NEW m
  PROVE  \A i \in 1 .. Len(Append(q, m)) :
           Append(q, m)[i] = m \/ \E j \in 1 .. Len(q) : Append(q, m)[i] = q[j]
<1>1. /\ Len(q) \in Nat /\ Len(Append(q, m)) = Len(q) + 1
      /\ \A i \in 1 .. Len(q) : Append(q, m)[i] = q[i]
      /\ Append(q, m)[Len(q) + 1] = m
  BY AppendQueue
<1> TAKE i \in 1 .. Len(Append(q, m))
<1>2. i = Len(q) + 1 \/ i \in 1 .. Len(q)
  BY <1>1
<1> QED
  BY <1>1, <1>2

LEMMA EachLeft ==
  ASSUME NEW q, q \in Seq(Range(q)), q # <<>>
  PROVE  \A i \in 1 .. Len(Tail(q)) :
           \E j \in 1 .. Len(q) : Tail(q)[i] = q[j]
<1> TAKE i \in 1 .. Len(Tail(q))
<1>1. i + 1 \in 1 .. Len(q) /\ Tail(q)[i] = q[i + 1]
  BY TailQueue
<1> QED
  BY <1>1

-----------------------------------------------------------------------------
(* The queues of a state                                                    *)

\* Nothing that a queued message relies on is taken back.
Grow ==
  /\ asked \subseteq asked' /\ granted \subseteq granted'
  /\ \A u \in Users : followers[u] \subseteq followers'[u]
  /\ \A u \in Users : Range(feed[u]) \subseteq Range(feed'[u])
  /\ \A t \in Tweets : author[t] \subseteq author'[t]

\* The invariant of redis and of the commands on the way to it.
Kept == Tables /\ PendingOK /\ Queues(sent) /\ SentOK

LEMMA SentUnchanged ==
  ASSUME IInv, Grow, sent' = sent
  PROVE  Queues(sent') /\ SentOK'
<1>1. UsersQueueOK(sent["users"], followers', feed', asked', granted')
  BY UsersMore DEF IInv, SentOK, More, Grow
<1>2. TweetsQueueOK(sent["tweets"], followers', feed', author')
  BY TweetsMore DEF IInv, SentOK, Grow
<1> QED
  BY <1>1, <1>2 DEF IInv, TypeOK, SentOK

\* The queue of users.js becomes q, the others stay.
LEMMA SentUsers ==
  ASSUME IInv, Grow, NEW q, q \in Seq(Range(q)),
         sent' = [sent EXCEPT !["users"] = q],
         UsersQueueOK(q, followers', feed', asked', granted')
  PROVE  Queues(sent') /\ SentOK'
<1>1. /\ sent'["users"] = q /\ sent'["tweets"] = sent["tweets"]
      /\ sent'["crypto"] = sent["crypto"]
      /\ sent' = [n \in Connections |-> sent'[n]]
  BY DEF IInv, TypeOK, Queues, Connections
<1>2. TweetsQueueOK(sent["tweets"], followers', feed', author')
  BY TweetsMore DEF IInv, SentOK, Grow
<1>3. SentOK'
  BY <1>1, <1>2 DEF IInv, SentOK
<1>4. \A n \in Connections : sent'[n] \in Seq(Range(sent'[n]))
  BY <1>1 DEF IInv, TypeOK, Queues, Connections
<1> QED
  BY <1>1, <1>3, <1>4 DEF Queues

LEMMA SentTweets ==
  ASSUME IInv, Grow, NEW q, q \in Seq(Range(q)),
         sent' = [sent EXCEPT !["tweets"] = q],
         TweetsQueueOK(q, followers', feed', author')
  PROVE  Queues(sent') /\ SentOK'
<1>1. /\ sent'["tweets"] = q /\ sent'["users"] = sent["users"]
      /\ sent'["crypto"] = sent["crypto"]
      /\ sent' = [n \in Connections |-> sent'[n]]
  BY DEF IInv, TypeOK, Queues, Connections
<1>2. UsersQueueOK(sent["users"], followers', feed', asked', granted')
  BY UsersMore DEF IInv, SentOK, More, Grow
<1>3. SentOK'
  BY <1>1, <1>2 DEF IInv, SentOK
<1>4. \A n \in Connections : sent'[n] \in Seq(Range(sent'[n]))
  BY <1>1 DEF IInv, TypeOK, Queues, Connections
<1> QED
  BY <1>1, <1>3, <1>4 DEF Queues

LEMMA SentCrypto ==
  ASSUME IInv, Grow, NEW q, q \in Seq(Range(q)),
         sent' = [sent EXCEPT !["crypto"] = q],
         \A i \in 1 .. Len(q) : CryptoCommandOK(q[i])
  PROVE  Queues(sent') /\ SentOK'
<1>1. /\ sent'["crypto"] = q /\ sent'["users"] = sent["users"]
      /\ sent'["tweets"] = sent["tweets"]
      /\ sent' = [n \in Connections |-> sent'[n]]
  BY DEF IInv, TypeOK, Queues, Connections
<1>2. UsersQueueOK(sent["users"], followers', feed', asked', granted')
  BY UsersMore DEF IInv, SentOK, More, Grow
<1>3. TweetsQueueOK(sent["tweets"], followers', feed', author')
  BY TweetsMore DEF IInv, SentOK, Grow
<1>4. SentOK'
  BY <1>1, <1>2, <1>3 DEF SentOK
<1>5. \A n \in Connections : sent'[n] \in Seq(Range(sent'[n]))
  BY <1>1 DEF IInv, TypeOK, Queues, Connections
<1> QED
  BY <1>1, <1>4, <1>5 DEF Queues

\* A command that needs nothing before it may be sent.
LEMMA SendUsers ==
  ASSUME IInv, Grow, NEW m, Send("users", m),
         UsersCommandOK(<<m>>, 1, followers', feed', asked', granted')
  PROVE  Queues(sent') /\ SentOK'
<1> DEFINE q == sent["users"]
<1>1. q \in Seq(Range(q))
  BY DEF IInv, TypeOK, Queues, Connections
<1>2. UsersQueueOK(q, followers', feed', asked', granted')
  BY UsersMore DEF IInv, SentOK, More, Grow
<1>3. /\ Append(q, m) \in Seq(Range(Append(q, m)))
      /\ UsersQueueOK(Append(q, m), followers', feed', asked', granted')
  BY <1>1, <1>2, UsersAppendFree
<1>4. sent' = [sent EXCEPT !["users"] = Append(q, m)]
  BY DEF Send
<1> HIDE DEF q
<1> QED
  BY <1>3, <1>4, SentUsers

LEMMA SendTweets ==
  ASSUME IInv, Grow, NEW m, Send("tweets", m),
         TweetsCommandOK(<<m>>, 1, followers', feed', author')
  PROVE  Queues(sent') /\ SentOK'
<1> DEFINE q == sent["tweets"]
<1>1. q \in Seq(Range(q))
  BY DEF IInv, TypeOK, Queues, Connections
<1>2. TweetsQueueOK(q, followers', feed', author')
  BY TweetsMore DEF IInv, SentOK, Grow
<1>3. /\ Append(q, m) \in Seq(Range(Append(q, m)))
      /\ TweetsQueueOK(Append(q, m), followers', feed', author')
  BY <1>1, <1>2, TweetsAppendFree
<1>4. sent' = [sent EXCEPT !["tweets"] = Append(q, m)]
  BY DEF Send
<1> HIDE DEF q
<1> QED
  BY <1>3, <1>4, SentTweets

LEMMA SendCrypto ==
  ASSUME IInv, Grow, NEW m, Send("crypto", m), CryptoCommandOK(m)
  PROVE  Queues(sent') /\ SentOK'
<1> DEFINE q == sent["crypto"]
<1>1. q \in Seq(Range(q)) /\ \A i \in 1 .. Len(q) : CryptoCommandOK(q[i])
  BY DEF IInv, TypeOK, SentOK, Queues, Connections
<1>2. /\ Append(q, m) \in Seq(Range(Append(q, m)))
      /\ \A i \in 1 .. Len(Append(q, m)) : CryptoCommandOK(Append(q, m)[i])
  BY <1>1, AppendQueue, EachAppended
<1>3. sent' = [sent EXCEPT !["crypto"] = Append(q, m)]
  BY DEF Send
<1> HIDE DEF q
<1> QED
  BY <1>2, <1>3, SentCrypto

\* A command that has taken effect leaves its queue.
LEMMA PopUsers ==
  ASSUME IInv, Grow, sent["users"] # <<>>, Pop("users"),
         LET m == Command("users") IN m.do = "add" => m.f \in followers'[m.u]
  PROVE  Queues(sent') /\ SentOK'
<1> DEFINE q == sent["users"]
<1>1. q \in Seq(Range(q)) /\ q # <<>>
  BY DEF IInv, TypeOK, Queues, Connections
<1>2. UsersQueueOK(q, followers', feed', asked', granted')
  BY UsersMore DEF IInv, SentOK, More, Grow
<1>3. Head(q).do = "add" => Head(q).f \in followers'[Head(q).u]
  BY DEF Command
<1>4. sent' = [sent EXCEPT !["users"] = Tail(q)]
  BY DEF Pop
<1> HIDE DEF q
<1>5. /\ Tail(q) \in Seq(Range(Tail(q)))
      /\ UsersQueueOK(Tail(q), followers', feed', asked', granted')
  BY <1>1, <1>2, <1>3, TailQueue, UsersTail
<1> QED
  BY <1>4, <1>5, SentUsers

LEMMA PopTweets ==
  ASSUME IInv, Grow, sent["tweets"] # <<>>, Pop("tweets"),
         LET m == Command("tweets")
         IN  m.do = "own" => m.t \in Range(feed'[m.u])
  PROVE  Queues(sent') /\ SentOK'
<1> DEFINE q == sent["tweets"]
<1>1. q \in Seq(Range(q)) /\ q # <<>>
  BY DEF IInv, TypeOK, Queues, Connections
<1>2. TweetsQueueOK(q, followers', feed', author')
  BY TweetsMore DEF IInv, SentOK, Grow
<1>3. Head(q).do = "own" => Head(q).t \in Range(feed'[Head(q).u])
  BY DEF Command
<1>4. sent' = [sent EXCEPT !["tweets"] = Tail(q)]
  BY DEF Pop
<1> HIDE DEF q
<1>5. /\ Tail(q) \in Seq(Range(Tail(q)))
      /\ TweetsQueueOK(Tail(q), followers', feed', author')
  BY <1>1, <1>2, <1>3, TailQueue, TweetsTail
<1> QED
  BY <1>4, <1>5, SentTweets

LEMMA PopCrypto ==
  ASSUME IInv, Grow, sent["crypto"] # <<>>, Pop("crypto")
  PROVE  Queues(sent') /\ SentOK'
<1> DEFINE q == sent["crypto"]
<1>1. q \in Seq(Range(q)) /\ q # <<>>
  BY DEF IInv, TypeOK, Queues, Connections
<1>2. \A i \in 1 .. Len(q) : CryptoCommandOK(q[i])
  BY DEF IInv, SentOK
<1>3. sent' = [sent EXCEPT !["crypto"] = Tail(q)]
  BY DEF Pop
<1> HIDE DEF q
<1>4. Tail(q) \in Seq(Range(Tail(q)))
  BY <1>1, TailQueue
<1>5. \A i \in 1 .. Len(Tail(q)) : CryptoCommandOK(Tail(q)[i])
  BY <1>1, <1>2, EachLeft
<1> QED
  BY <1>3, <1>4, <1>5, SentCrypto

\* A reply of redis to the connection n that is in order after the step.
GoodReply(n, x) ==
  /\ n = "users" => UsersReplyOK(x, followers', feed', asked', granted')
  /\ n = "tweets" => TweetsReplyOK(x, followers', author')
  /\ n = "crypto" => CryptoReplyOK(x)

LEMMA OldReplies ==
  ASSUME IInv, Grow, NEW n \in Connections
  PROVE  \A i \in 1 .. Len(replies[n]) : GoodReply(n, replies[n][i])
<1> TAKE i \in 1 .. Len(replies[n])
<1>1. n = "users" =>
        UsersReplyOK(replies[n][i], followers', feed', asked', granted')
  <2> SUFFICES ASSUME n = "users"
               PROVE  UsersReplyOK(replies[n][i], followers', feed', asked', granted')
    OBVIOUS
  <2>1. UsersReplyOK(replies[n][i], followers, feed, asked, granted)
    BY DEF IInv, RepliesOK
  <2> QED
    BY <2>1 DEF UsersReplyOK, Grow
<1>2. n = "tweets" => TweetsReplyOK(replies[n][i], followers', author')
  <2> SUFFICES ASSUME n = "tweets"
               PROVE  TweetsReplyOK(replies[n][i], followers', author')
    OBVIOUS
  <2>1. TweetsReplyOK(replies[n][i], followers, author)
    BY DEF IInv, RepliesOK
  <2> QED
    BY <2>1 DEF TweetsReplyOK, Grow
<1>3. n = "crypto" => CryptoReplyOK(replies[n][i])
  BY DEF IInv, RepliesOK
<1> QED
  BY <1>1, <1>2, <1>3 DEF GoodReply

\* The queue of replies n becomes q, whose messages are old ones or in order.
LEMMA RepliesFrom ==
  ASSUME IInv, Grow, NEW n \in Connections, NEW q, q \in Seq(Range(q)),
         replies' = [replies EXCEPT ![n] = q],
         \A i \in 1 .. Len(q) :
           \/ \E j \in 1 .. Len(replies[n]) : q[i] = replies[n][j]
           \/ GoodReply(n, q[i])
  PROVE  Queues(replies') /\ RepliesOK'
<1>1. /\ \A k \in Connections : replies'[k] = IF k = n THEN q ELSE replies[k]
      /\ replies' = [k \in Connections |-> replies'[k]]
      /\ \A k \in Connections : replies[k] \in Seq(Range(replies[k]))
  BY DEF IInv, TypeOK, Queues
<1>2. \A k \in Connections : replies'[k] \in Seq(Range(replies'[k]))
  <2> TAKE k \in Connections
  <2>1. CASE k = n
    BY <1>1, <2>1
  <2>2. CASE k # n
    BY <1>1, <2>2
  <2> QED
    BY <2>1, <2>2
<1>3. \A k \in Connections : \A i \in 1 .. Len(replies'[k]) :
        GoodReply(k, replies'[k][i])
  <2> TAKE k \in Connections
  <2>1. CASE k = n
    BY <1>1, <2>1, OldReplies
  <2>2. CASE k # n
    BY <1>1, <2>2, OldReplies
  <2> QED
    BY <2>1, <2>2
<1>4. RepliesOK'
  BY <1>3 DEF RepliesOK, GoodReply, Connections
<1> QED
  BY <1>1, <1>2, <1>4 DEF Queues

LEMMA RepliesUnchanged ==
  ASSUME IInv, Grow, replies' = replies
  PROVE  Queues(replies') /\ RepliesOK'
<1>1. Queues(replies')
  BY DEF IInv, TypeOK
<1>2. \A k \in Connections : \A i \in 1 .. Len(replies[k]) :
        GoodReply(k, replies[k][i])
  BY OldReplies
<1> QED
  BY <1>1, <1>2 DEF RepliesOK, GoodReply, Connections

\* A callback has taken its reply.
LEMMA TakeReply ==
  ASSUME IInv, Grow, NEW n \in Connections, replies[n] # <<>>,
         replies' = [replies EXCEPT ![n] = Tail(@)]
  PROVE  Queues(replies') /\ RepliesOK'
<1> DEFINE q == replies[n]
<1>1. q \in Seq(Range(q)) /\ q # <<>>
  BY DEF IInv, TypeOK, Queues
<1>2. /\ Tail(q) \in Seq(Range(Tail(q)))
      /\ \A i \in 1 .. Len(Tail(q)) : \E j \in 1 .. Len(q) : Tail(q)[i] = q[j]
  BY <1>1, TailQueue, EachLeft
<1>3. replies' = [replies EXCEPT ![n] = Tail(q)]
  OBVIOUS
<1> QED
  BY <1>2, <1>3, RepliesFrom

\* redis has answered a command.
LEMMA AddReply ==
  ASSUME IInv, Grow, NEW n \in Connections, NEW m, GoodReply(n, m),
         replies' = [replies EXCEPT ![n] = Append(@, m)]
  PROVE  Queues(replies') /\ RepliesOK'
<1> DEFINE q == replies[n]
<1>1. q \in Seq(Range(q))
  BY DEF IInv, TypeOK, Queues
<1>2. /\ Append(q, m) \in Seq(Range(Append(q, m)))
      /\ \A i \in 1 .. Len(Append(q, m)) :
           Append(q, m)[i] = m \/ \E j \in 1 .. Len(q) : Append(q, m)[i] = q[j]
  BY <1>1, AppendQueue, EachAppended
<1>3. replies' = [replies EXCEPT ![n] = Append(q, m)]
  OBVIOUS
<1>4. \A i \in 1 .. Len(Append(q, m)) :
        \/ \E j \in 1 .. Len(q) : Append(q, m)[i] = q[j]
        \/ GoodReply(n, Append(q, m)[i])
  BY <1>2
<1> HIDE DEF GoodReply
<1> QED
  BY <1>2, <1>3, <1>4, RepliesFrom

-----------------------------------------------------------------------------
(* The steps                                                                *)

\* The first command of users.js has nothing before it.
LEMMA UsersHead ==
  ASSUME IInv, sent["users"] # <<>>
  PROVE  UsersCommandOK(<<Command("users")>>, 1, followers, feed, asked, granted)
<1> DEFINE q == sent["users"]
<1>1. q \in Seq(Range(q)) /\ UsersQueueOK(q, followers, feed, asked, granted)
  BY DEF IInv, TypeOK, SentOK, Queues, Connections
<1>2. 1 \in 1 .. Len(q) /\ Head(q) = q[1] /\ 1 .. 1 - 1 = {}
  BY <1>1, TailQueue
<1>3. UsersCommandOK(q, 1, followers, feed, asked, granted)
  BY <1>1, <1>2 DEF UsersQueueOK
<1>4. <<Head(q)>>[1] = q[1]
  BY <1>2
<1> QED
  BY <1>2, <1>3, <1>4 DEF UsersCommandOK, Command

LEMMA TweetsHead ==
  ASSUME IInv, sent["tweets"] # <<>>
  PROVE  TweetsCommandOK(<<Command("tweets")>>, 1, followers, feed, author)
<1> DEFINE q == sent["tweets"]
<1>1. q \in Seq(Range(q)) /\ TweetsQueueOK(q, followers, feed, author)
  BY DEF IInv, TypeOK, SentOK, Queues, Connections
<1>2. 1 \in 1 .. Len(q) /\ Head(q) = q[1] /\ 1 .. 1 - 1 = {}
  BY <1>1, TailQueue
<1>3. TweetsCommandOK(q, 1, followers, feed, author)
  BY <1>1, <1>2 DEF TweetsQueueOK
<1>4. <<Head(q)>>[1] = q[1]
  BY <1>2
<1> QED
  BY <1>2, <1>3, <1>4 DEF TweetsCommandOK, Command

LEMMA CryptoHead ==
  ASSUME IInv, sent["crypto"] # <<>>
  PROVE  CryptoCommandOK(Command("crypto"))
<1>1. sent["crypto"] \in Seq(Range(sent["crypto"]))
  BY DEF IInv, TypeOK, Queues, Connections
<1>2. 1 \in 1 .. Len(sent["crypto"]) /\ Head(sent["crypto"]) = sent["crypto"][1]
  BY <1>1, TailQueue
<1> QED
  BY <1>2 DEF IInv, SentOK, Command

LEMMA ReplyHead ==
  ASSUME IInv, NEW n \in Connections, replies[n] # <<>>
  PROVE  /\ n = "users" =>
              UsersReplyOK(Reply(n), followers, feed, asked, granted)
         /\ n = "tweets" => TweetsReplyOK(Reply(n), followers, author)
         /\ n = "crypto" => CryptoReplyOK(Reply(n))
<1>1. replies[n] \in Seq(Range(replies[n]))
  BY DEF IInv, TypeOK, Queues
<1>2. 1 \in 1 .. Len(replies[n]) /\ Head(replies[n]) = replies[n][1]
  BY <1>1, TailQueue
<1>3. n = "users" => UsersReplyOK(Reply(n), followers, feed, asked, granted)
  BY <1>2 DEF IInv, RepliesOK, Reply
<1>4. n = "tweets" => TweetsReplyOK(Reply(n), followers, author)
  BY <1>2 DEF IInv, RepliesOK, Reply
<1>5. n = "crypto" => CryptoReplyOK(Reply(n))
  BY <1>2 DEF IInv, RepliesOK, Reply
<1> QED
  BY <1>3, <1>4, <1>5

\* Neither redis nor the histories changed.
LEMMA SameGrow ==
  ASSUME followers' = followers, feed' = feed, asked' = asked,
         granted' = granted, author' = author
  PROVE  Grow
BY DEF Grow

LEMMA RequestTypes ==
  ASSUME NEW r \in Requests
  PROVE  /\ r.route \in Paths /\ r.id \in Users /\ r.tweet \in Tweets
         /\ r.cookie \in Users \cup {Nobody}
BY DEF Requests

\* The handlers: each sends at most one command and leaves redis alone.
LEMMA RouteStep ==
  ASSUME IInv, NEW c \in Users, NEW r \in Requests,
         NEW u \in Users \cup {Nobody}, Route(c, r, u),
         UNCHANGED <<accounts, lists>>
  PROVE  Kept' /\ Grow
<1> USE RequestTypes
<1>1. /\ registered' = registered /\ sessions' = sessions
      /\ randoms' = randoms /\ pending' = pending
      /\ followers' = followers /\ feed' = feed
  BY DEF accounts, lists
<1>2. Grow
  <2>1. CASE UNCHANGED history
    BY <1>1, <2>1, SameGrow DEF history
  <2>2. CASE Tweet(c, r, u)
    <3>1. asked' = asked /\ granted' = granted
      BY <2>2 DEF Tweet
    <3>2. \A t \in Tweets : author[t] \subseteq author'[t]
      BY <2>2 DEF Tweet, IInv, TypeOK, Tables
    <3> QED
      BY <1>1, <3>1, <3>2 DEF Grow
  <2>3. CASE Follow(c, r, u)
    BY <1>1, <2>3 DEF Follow, Grow
  <2> QED
    BY <2>1, <2>2, <2>3 DEF Route, Signup, Home, UsersPage, CheckPub,
       CheckRandom, TryFollow, TryFollowUnknown, ToSignin
<1>3. Queues(sent') /\ SentOK'
  <2>1. CASE Signup(c, r)
    <3>1. UsersCommandOK(<<[do |-> "save", u |-> c]>>, 1,
                         followers', feed', asked', granted')
      BY DEF UsersCommandOK, Lookups
    <3> QED
      BY <1>2, <2>1, <3>1, SendUsers DEF Signup
  <2>2. CASE Home(c, r)
    <3> DEFINE m == [do |-> "hget", c |-> c, me |-> r.cookie, u |-> r.id,
                     then |-> "page"]
    <3>1. UsersCommandOK(<<m>>, 1, followers', feed', asked', granted')
      BY DEF UsersCommandOK, Lookups
    <3> QED
      BY <1>2, <2>2, <3>1, SendUsers DEF Home, GetUserFromId
  <2>3. CASE UsersPage(c, r)
    <3>1. UsersCommandOK(<<[do |-> "hvals", c |-> c]>>, 1,
                         followers', feed', asked', granted')
      BY DEF UsersCommandOK, Lookups
    <3> QED
      BY <1>2, <2>3, <3>1, SendUsers DEF UsersPage
  <2>4. CASE CheckPub(c, r)
    <3> DEFINE m == [do |-> "hget", c |-> c, me |-> r.cookie, u |-> r.id,
                     then |-> "challenge"]
    <3>1. UsersCommandOK(<<m>>, 1, followers', feed', asked', granted')
      BY DEF UsersCommandOK, Lookups
    <3> QED
      BY <1>2, <2>4, <3>1, SendUsers DEF CheckPub, GetUserFromId
  <2>5. CASE CheckRandom(c, r)
    <3>1. CryptoCommandOK([do |-> "hget random", c |-> c, u |-> r.id])
      BY DEF CryptoCommandOK
    <3> QED
      BY <1>2, <2>5, <3>1, SendCrypto DEF CheckRandom
  <2>6. CASE Tweet(c, r, u)
    <3>1. u \in author'[r.tweet] /\ u \in Users
      BY <2>6 DEF Tweet, IInv, TypeOK, Tables
    <3>2. TweetsCommandOK(<<[do |-> "hkeys", u |-> u, t |-> r.tweet]>>, 1,
                          followers', feed', author')
      BY <3>1 DEF TweetsCommandOK
    <3> QED
      BY <1>2, <2>6, <3>2, SendTweets DEF Tweet
  <2>7. CASE TryFollow(c, r, u)
    <3> DEFINE m == [do |-> "hget", c |-> c, me |-> u, u |-> r.id,
                     then |-> "target"]
    <3>1. u \in Users
      BY <2>7 DEF TryFollow
    <3>2. UsersCommandOK(<<m>>, 1, followers', feed', asked', granted')
      BY <3>1 DEF UsersCommandOK, Lookups
    <3> QED
      BY <1>2, <2>7, <3>2, SendUsers DEF TryFollow, GetUserFromId
  <2>8. CASE Follow(c, r, u)
    <3>1. <<u, r.id>> \in granted'
      BY <2>8 DEF Follow
    <3>2. UsersCommandOK(<<[do |-> "hget pending", u |-> u, f |-> r.id]>>, 1,
                         followers', feed', asked', granted')
      BY <3>1 DEF UsersCommandOK, Lookups
    <3> QED
      BY <1>2, <2>8, <3>2, SendUsers DEF Follow
  <2>9. CASE TryFollowUnknown(c, r, u) \/ ToSignin(c, r, u)
    BY <1>2, <2>9, SentUnchanged DEF TryFollowUnknown, ToSignin
  <2> QED
    BY <2>1, <2>2, <2>3, <2>4, <2>5, <2>6, <2>7, <2>8, <2>9 DEF Route
<1>4. req' \in [Users -> Requests \cup {NoRequest}]
  <2>1. Wait(c, r) \/ \E a : Respond(c, a)
    BY DEF Route, Signup, Home, UsersPage, CheckPub, CheckRandom, Tweet,
       TryFollow, TryFollowUnknown, Follow, ToSignin
  <2> QED
    BY <2>1 DEF Wait, Respond, IInv, TypeOK, Tables
<1>5. /\ author' \in [Tweets -> SUBSET Users]
      /\ asked' \subseteq Users \X Users /\ granted' \subseteq Users \X Users
      /\ owed' \subseteq Users \X Tweets
  <2>1. CASE UNCHANGED history
    BY <2>1 DEF history, IInv, TypeOK, Tables
  <2>2. CASE Tweet(c, r, u)
    <3>1. u \in Users /\ followers[u] \subseteq Users
      BY <2>2 DEF Tweet, IInv, TypeOK, Tables
    <3>2. owed' \subseteq Users \X Tweets
      BY <2>2, <3>1 DEF Tweet, IInv, TypeOK, Tables
    <3>3. author' \in [Tweets -> SUBSET Users]
      BY <2>2, <3>1 DEF Tweet, IInv, TypeOK, Tables
    <3> QED
      BY <2>2, <3>2, <3>3 DEF Tweet, IInv, TypeOK, Tables
  <2>3. CASE Follow(c, r, u)
    <3>1. <<u, r.id>> \in Users \X Users
      BY <2>3 DEF Follow
    <3>2. granted' \subseteq Users \X Users
      BY <2>3, <3>1 DEF Follow, IInv, TypeOK, Tables
    <3>3. author' = author /\ asked' = asked /\ owed' = owed
      BY <2>3 DEF Follow
    <3> QED
      BY <3>2, <3>3 DEF IInv, TypeOK, Tables
  <2> QED
    BY <2>1, <2>2, <2>3 DEF Route, Signup, Home, UsersPage, CheckPub,
       CheckRandom, TryFollow, TryFollowUnknown, ToSignin
<1>6. Tables'
  BY <1>1, <1>4, <1>5 DEF IInv, TypeOK, Tables
<1>7. PendingOK'
  BY <1>1, <1>2 DEF IInv, PendingOK, Grow
<1> QED
  BY <1>2, <1>3, <1>6, <1>7 DEF Kept

\* Only a request is routed.
LEMMA RoutedIsRequest ==
  ASSUME NEW c, NEW r \in Requests \cup {NoRequest}, NEW u, Route(c, r, u)
  PROVE  r \in Requests
<1>1. r.route # "none"
  BY DEF Route, Signup, Home, UsersPage, CheckPub, CheckRandom, Tweet,
     TryFollow, TryFollowUnknown, Follow, ToSignin
<1> QED
  BY <1>1 DEF NoRequest

LEMMA TakesFacts ==
  ASSUME IInv, NEW n \in Connections, NEW then, Takes(n, then)
  PROVE  /\ replies[n] # <<>> /\ Reply(n).then = then
         /\ replies' = [replies EXCEPT ![n] = Tail(@)]
         /\ UNCHANGED accounts /\ UNCHANGED lists
         /\ registered' = registered /\ sessions' = sessions
         /\ randoms' = randoms /\ pending' = pending
         /\ followers' = followers /\ feed' = feed
BY DEF Takes, accounts, lists

LEMMA RequestsTyped ==
  ASSUME IInv, UNCHANGED web \/ \E c, a : Respond(c, a)
  PROVE  req' \in [Users -> Requests \cup {NoRequest}]
BY DEF web, Respond, IInv, TypeOK, Tables

\* redis is as it was, and no history but owed has changed.
LEMMA TablesUnchanged ==
  ASSUME IInv, req' \in [Users -> Requests \cup {NoRequest}],
         registered' = registered, sessions' = sessions, randoms' = randoms,
         pending' = pending, followers' = followers, feed' = feed,
         asked' = asked, granted' = granted, author' = author,
         owed' \subseteq Users \X Tweets
  PROVE  Tables' /\ PendingOK' /\ Grow
<1>1. Tables'
  BY DEF IInv, TypeOK, Tables
<1>2. PendingOK'
  BY DEF IInv, PendingOK
<1> QED
  BY <1>1, <1>2, SameGrow

LEMMA GotSessionStep ==
  ASSUME IInv, GotSession
  PROVE  Kept' /\ Grow
<1> DEFINE m == Reply("users")
<1>1. /\ replies["users"] # <<>> /\ m.then = "session"
      /\ UNCHANGED accounts /\ UNCHANGED lists
      /\ registered' = registered /\ sessions' = sessions
      /\ randoms' = randoms /\ pending' = pending
      /\ followers' = followers /\ feed' = feed
  BY TakesFacts DEF GotSession, Connections
<1>2. m.c \in Users /\ m.u \in Users
  BY <1>1, ReplyHead DEF UsersReplyOK, Lookups, Connections
<1>3. CASE /\ GetUserFromId(m.c, m.u, m.u, "user")
           /\ UNCHANGED <<web, history>>
  <2>1. asked' = asked /\ granted' = granted /\ author' = author /\ owed' = owed
    BY <1>3 DEF history
  <2>2. Tables' /\ PendingOK' /\ Grow
    BY <1>1, <1>3, <2>1, RequestsTyped, TablesUnchanged DEF IInv, TypeOK, Tables
  <2> DEFINE h == [do |-> "hget", c |-> m.c, me |-> m.u, u |-> m.u,
                   then |-> "user"]
  <2>3. UsersCommandOK(<<h>>, 1, followers', feed', asked', granted')
    BY <1>2 DEF UsersCommandOK, Lookups
  <2>4. Send("users", h)
    BY <1>3 DEF GetUserFromId
  <2> HIDE DEF h
  <2>5. Queues(sent') /\ SentOK'
    BY <2>2, <2>3, <2>4, SendUsers
  <2> QED
    BY <2>2, <2>5 DEF Kept
<1>4. CASE Route(m.c, req[m.c], Nobody)
  <2>1. req[m.c] \in Requests \cup {NoRequest}
    BY <1>2 DEF IInv, TypeOK, Tables
  <2>2. req[m.c] \in Requests
    BY <1>4, <2>1, RoutedIsRequest
  <2> QED
    BY <1>1, <1>2, <1>4, <2>2, RouteStep
<1> QED
  BY <1>3, <1>4 DEF GotSession

LEMMA GotUserStep ==
  ASSUME IInv, GotUser
  PROVE  Kept' /\ Grow
<1> DEFINE m == Reply("users")
           u == IF m.found THEN m.u ELSE Nobody
<1>1. /\ replies["users"] # <<>> /\ m.then = "user"
      /\ UNCHANGED accounts /\ UNCHANGED lists
  BY TakesFacts DEF GotUser, Connections
<1>2. m.c \in Users /\ m.u \in Users
  BY <1>1, ReplyHead DEF UsersReplyOK, Lookups, Connections
<1>3. Route(m.c, req[m.c], u)
  BY DEF GotUser
<1>4. u \in Users \cup {Nobody}
  BY <1>2
<1>5. req[m.c] \in Requests \cup {NoRequest}
  BY <1>2 DEF IInv, TypeOK, Tables
<1> HIDE DEF u
<1>6. req[m.c] \in Requests
  BY <1>3, <1>5, RoutedIsRequest
<1> QED
  BY <1>1, <1>2, <1>3, <1>4, <1>6, RouteStep

LEMMA GotPageUserStep ==
  ASSUME IInv, GotPageUser
  PROVE  Kept' /\ Grow
<1> DEFINE m == Reply("users")
           us == sent["users"]
           ts == sent["tweets"]
           ask == [do |-> "lists", c |-> m.c]
           range == [do |-> "lrange", c |-> m.c, u |-> m.u]
<1>1. /\ replies["users"] # <<>> /\ m.then = "page"
      /\ registered' = registered /\ sessions' = sessions
      /\ randoms' = randoms /\ pending' = pending
      /\ followers' = followers /\ feed' = feed
  BY TakesFacts DEF GotPageUser, Connections
<1>2. /\ asked' = asked /\ granted' = granted /\ author' = author
      /\ owed' = owed /\ req' = req
  BY DEF GotPageUser, history, web
<1>3. Tables' /\ PendingOK' /\ Grow
  BY <1>1, <1>2, TablesUnchanged DEF IInv, TypeOK, Tables
<1>4. us \in Seq(Range(us)) /\ ts \in Seq(Range(ts))
  BY DEF IInv, TypeOK, Queues, Connections
<1>5. /\ UsersQueueOK(us, followers', feed', asked', granted')
      /\ TweetsQueueOK(ts, followers', feed', author')
  BY <1>1, <1>2 DEF IInv, SentOK
<1>6. UsersCommandOK(<<ask>>, 1, followers', feed', asked', granted')
  BY DEF UsersCommandOK, Lookups
<1>7. TweetsCommandOK(<<range>>, 1, followers', feed', author')
  BY DEF TweetsCommandOK
<1> HIDE DEF ask, range, us, ts
<1>8. /\ Append(us, ask) \in Seq(Range(Append(us, ask)))
      /\ UsersQueueOK(Append(us, ask), followers', feed', asked', granted')
      /\ Append(ts, range) \in Seq(Range(Append(ts, range)))
      /\ TweetsQueueOK(Append(ts, range), followers', feed', author')
  BY <1>4, <1>5, <1>6, <1>7, UsersAppendFree, TweetsAppendFree
<1>9. CASE sent' = [sent EXCEPT !["users"] = Append(us, ask),
                                !["tweets"] = Append(ts, range)]
  <2> DEFINE a == Append(us, ask)
             b == Append(ts, range)
  <2>1. a \in Seq(Range(a)) /\ b \in Seq(Range(b))
    BY <1>8
  <2>2. /\ UsersQueueOK(a, followers', feed', asked', granted')
        /\ TweetsQueueOK(b, followers', feed', author')
    BY <1>8
  <2>3. sent' = [sent EXCEPT !["users"] = a, !["tweets"] = b]
    BY <1>9
  <2> HIDE DEF a, b
  <2>4. /\ sent'["users"] = a /\ sent'["tweets"] = b
        /\ sent'["crypto"] = sent["crypto"]
        /\ sent' = [n \in Connections |-> sent'[n]]
    BY <2>3 DEF IInv, TypeOK, Queues, Connections
  <2>5. SentOK'
    BY <2>2, <2>4 DEF IInv, SentOK
  <2>6. \A n \in Connections : sent'[n] \in Seq(Range(sent'[n]))
    BY <2>1, <2>4 DEF IInv, TypeOK, Queues, Connections
  <2> QED
    BY <1>3, <2>4, <2>5, <2>6 DEF Kept, Queues
<1>10. CASE sent' = [sent EXCEPT !["users"] = Append(us, ask)]
  <2> DEFINE a == Append(us, ask)
  <2>1. a \in Seq(Range(a))
    BY <1>8
  <2>2. UsersQueueOK(a, followers', feed', asked', granted')
    BY <1>8
  <2>3. sent' = [sent EXCEPT !["users"] = a]
    BY <1>10
  <2> HIDE DEF a
  <2>4. Queues(sent') /\ SentOK'
    BY <1>3, <2>1, <2>2, <2>3, SentUsers
  <2> QED
    BY <1>3, <2>4 DEF Kept
<1> QED
  BY <1>9, <1>10 DEF GotPageUser, us, ts, ask, range

\* Callbacks that send nothing.
LEMMA GotPartStep ==
  ASSUME IInv, GotTweets \/ GotLists \/ GotUsers
  PROVE  Kept' /\ Grow
<1>1. /\ registered' = registered /\ sessions' = sessions
      /\ randoms' = randoms /\ pending' = pending
      /\ followers' = followers /\ feed' = feed
  BY TakesFacts DEF GotTweets, GotLists, GotUsers, Connections
<1>2. asked' = asked /\ granted' = granted /\ author' = author /\ owed' = owed
  BY DEF GotTweets, GotLists, GotUsers, GotPart, history
<1>3. req' = req \/ \E c, a : Respond(c, a)
  BY DEF GotTweets, GotLists, GotUsers, GotPart
<1>4. req' \in [Users -> Requests \cup {NoRequest}]
  BY <1>3 DEF Respond, IInv, TypeOK, Tables
<1>5. Tables' /\ PendingOK' /\ Grow
  BY <1>1, <1>2, <1>4, TablesUnchanged DEF IInv, TypeOK, Tables
<1>6. sent' = sent
  BY DEF GotTweets, GotLists, GotUsers, GotPart
<1> QED
  BY <1>5, <1>6, SentUnchanged DEF Kept

LEMMA GotTargetStep ==
  ASSUME IInv, GotTarget
  PROVE  Kept' /\ Grow
<1> DEFINE m == Reply("users")
<1>1. /\ replies["users"] # <<>> /\ m.then = "target"
      /\ registered' = registered /\ sessions' = sessions
      /\ randoms' = randoms /\ pending' = pending
      /\ followers' = followers /\ feed' = feed
  BY TakesFacts DEF GotTarget, Connections
<1>2. m.c \in Users /\ m.u \in Users /\ m.me \in Users
  BY <1>1, ReplyHead DEF UsersReplyOK, Lookups, Connections
<1>3. req' \in [Users -> Requests \cup {NoRequest}]
  <2>1. \E c, a : Respond(c, a)
    BY DEF GotTarget
  <2> QED
    BY <2>1, RequestsTyped
<1>4. CASE /\ Send("users", [do |-> "hset pending", u |-> m.u, f |-> m.me])
           /\ asked' = asked \cup {<<m.me, m.u>>}
           /\ UNCHANGED <<granted, author, owed>>
  <2>1. Tables'
    <3>1. asked' \subseteq Users \X Users
      <4>1. <<m.me, m.u>> \in Users \X Users
        BY <1>2
      <4>2. asked \subseteq Users \X Users
        BY DEF IInv, TypeOK, Tables
      <4> HIDE DEF m
      <4> QED
        BY <1>4, <4>1, <4>2
    <3>2. granted' = granted /\ author' = author /\ owed' = owed
      BY <1>4
    <3> QED
      BY <1>1, <1>3, <3>1, <3>2 DEF IInv, TypeOK, Tables
  <2>2. PendingOK'
    BY <1>1, <1>4 DEF IInv, PendingOK
  <2>3. Grow
    BY <1>1, <1>4 DEF Grow
  <2> DEFINE h == [do |-> "hset pending", u |-> m.u, f |-> m.me]
  <2>4. UsersCommandOK(<<h>>, 1, followers', feed', asked', granted')
    <3>1. <<m.me, m.u>> \in asked'
      BY <1>4
    <3> QED
      BY <3>1 DEF UsersCommandOK, Lookups
  <2>5. Send("users", h)
    BY <1>4
  <2> HIDE DEF h
  <2>6. Queues(sent') /\ SentOK'
    BY <2>3, <2>4, <2>5, SendUsers
  <2> QED
    BY <2>1, <2>2, <2>3, <2>6 DEF Kept
<1>5. CASE UNCHANGED <<sent, history>>
  <2>1. /\ asked' = asked /\ granted' = granted /\ author' = author
        /\ owed' = owed /\ sent' = sent
    BY <1>5 DEF history
  <2>2. Tables' /\ PendingOK' /\ Grow
    BY <1>1, <1>3, <2>1, TablesUnchanged DEF IInv, TypeOK, Tables
  <2> QED
    BY <2>1, <2>2, SentUnchanged DEF Kept
<1> QED
  BY <1>4, <1>5 DEF GotTarget

LEMMA GotPendingStep ==
  ASSUME IInv, GotPending
  PROVE  Kept' /\ Grow
<1> DEFINE m == Reply("users")
           q == sent["users"]
           add == [do |-> "add", u |-> m.u, f |-> m.f]
           range == [do |-> "lrange own", u |-> m.u, f |-> m.f]
<1>1. /\ replies["users"] # <<>> /\ m.then = "accept"
      /\ registered' = registered /\ sessions' = sessions
      /\ randoms' = randoms /\ pending' = pending
      /\ followers' = followers /\ feed' = feed
  BY TakesFacts DEF GotPending, Connections
<1>2. <<m.u, m.f>> \in granted /\ (m.match => <<m.f, m.u>> \in asked)
  BY <1>1, ReplyHead DEF UsersReplyOK, Lookups, Connections
<1>3. m.u \in Users /\ m.f \in Users
  BY <1>2 DEF IInv, TypeOK, Tables
<1>4. /\ asked' = asked /\ granted' = granted /\ author' = author
      /\ req' = req
  BY DEF GotPending, web
<1>5. CASE /\ m.match
           /\ sent' = [sent EXCEPT !["users"] = Append(Append(@, add), range)]
           /\ owed' = owed \cup {<<m.f, t>> : t \in Range(feed[m.u])}
  <2>1. Range(feed[m.u]) \subseteq Tweets
    <3>1. feed[m.u] \in Seq(Tweets)
      BY <1>3 DEF IInv, TypeOK, Tables
    <3> QED
      BY <3>1, LenProperties DEF Range
  <2>2. owed' \subseteq Users \X Tweets
    <3>1. \A t \in Range(feed[m.u]) : <<m.f, t>> \in Users \X Tweets
      BY <1>3, <2>1
    <3>2. owed \subseteq Users \X Tweets
      BY DEF IInv, TypeOK, Tables
    <3> HIDE DEF m
    <3> QED
      BY <1>5, <3>1, <3>2
  <2>3. Tables' /\ PendingOK' /\ Grow
    BY <1>1, <1>4, <2>2, TablesUnchanged DEF IInv, TypeOK, Tables
  <2>4. q \in Seq(Range(q)) /\ UsersQueueOK(q, followers', feed', asked', granted')
    BY <1>1, <1>4 DEF IInv, TypeOK, SentOK, Queues, Connections
  <2> DEFINE a == Append(q, add)
             b == Append(a, range)
  <2>5. UsersCommandOK(<<add>>, 1, followers', feed', asked', granted')
    BY <1>2, <1>4, <1>5 DEF UsersCommandOK, Lookups
  <2>6. a \in Seq(Range(a)) /\ UsersQueueOK(a, followers', feed', asked', granted')
    <3> HIDE DEF q, add
    <3> QED
      BY <2>4, <2>5, UsersAppendFree
  <2>7. a[Len(q) + 1] = add /\ Len(a) = Len(q) + 1 /\ Len(q) \in Nat
    BY <2>4, AppendQueue
  <2>8. UsersCommandOK(b, Len(a) + 1, followers', feed', asked', granted')
    <3>1. b[Len(a) + 1] = range /\ \A i \in 1 .. Len(a) : b[i] = a[i]
      <4> HIDE DEF a, range
      <4> QED
        BY <2>6, AppendQueue
    <3>2. Len(q) + 1 \in 1 .. (Len(a) + 1) - 1 /\ b[Len(q) + 1] = add
      <4> HIDE DEF a, b, add, q, range
      <4>1. Len(q) + 1 \in 1 .. Len(a)
        BY <2>7
      <4>2. b[Len(q) + 1] = a[Len(q) + 1]
        BY <3>1, <4>1
      <4> QED
        BY <2>7, <4>1, <4>2
    <3>3. add.do = "add" /\ add.u = range.u /\ add.f = range.f
      OBVIOUS
    <3>4. /\ range.do = "lrange own"
          /\ range.u \in Users /\ range.f \in Users
      BY <1>3
    <3> HIDE DEF a, b, add, range, q
    <3> QED
      BY <3>1, <3>2, <3>3, <3>4 DEF UsersCommandOK, Lookups
  <2>9. sent' = [sent EXCEPT !["users"] = b]
    BY <1>5
  <2> HIDE DEF a, range
  <2>10. b \in Seq(Range(b)) /\ UsersQueueOK(b, followers', feed', asked', granted')
    BY <2>6, <2>8, AppendQueue, UsersAppend
  <2> HIDE DEF b
  <2>11. Queues(sent') /\ SentOK'
    BY <2>3, <2>9, <2>10, SentUsers
  <2> QED
    BY <2>3, <2>11 DEF Kept
<1>6. CASE UNCHANGED <<sent, owed>>
  <2>1. Tables' /\ PendingOK' /\ Grow
    BY <1>1, <1>4, <1>6, TablesUnchanged DEF IInv, TypeOK, Tables
  <2> QED
    BY <1>6, <2>1, SentUnchanged DEF Kept
<1> QED
  BY <1>5, <1>6 DEF GotPending

LEMMA GotOwnTweetsStep ==
  ASSUME IInv, GotOwnTweets
  PROVE  Kept' /\ Grow
<1> DEFINE m == Reply("users")
           copies == [do |-> "copies", u |-> m.u, f |-> m.f, ts |-> m.ts]
<1>1. /\ replies["users"] # <<>> /\ m.then = "copy"
      /\ registered' = registered /\ sessions' = sessions
      /\ randoms' = randoms /\ pending' = pending
      /\ followers' = followers /\ feed' = feed
  BY TakesFacts DEF GotOwnTweets, Connections
<1>2. /\ m.u \in Users /\ m.f \in followers[m.u]
      /\ m.ts \in Seq(Tweets) /\ Range(m.ts) \subseteq Range(feed[m.u])
  BY <1>1, ReplyHead DEF UsersReplyOK, Lookups, Connections
<1>3. m.f \in Users
  BY <1>2 DEF IInv, TypeOK, Tables
<1>4. /\ asked' = asked /\ granted' = granted /\ author' = author
      /\ owed' = owed /\ req' = req
  BY DEF GotOwnTweets, history, web
<1>5. Tables' /\ PendingOK' /\ Grow
  BY <1>1, <1>4, TablesUnchanged DEF IInv, TypeOK, Tables
<1>6. CASE m.ts # <<>> /\ Send("users", copies)
  <2>1. UsersCommandOK(<<copies>>, 1, followers', feed', asked', granted')
    BY <1>1, <1>2, <1>3, <1>6 DEF UsersCommandOK, Lookups
  <2> HIDE DEF copies
  <2>2. Queues(sent') /\ SentOK'
    BY <1>5, <1>6, <2>1, SendUsers
  <2> QED
    BY <1>5, <2>2 DEF Kept
<1>7. CASE UNCHANGED sent
  BY <1>5, <1>7, SentUnchanged DEF Kept
<1> QED
  BY <1>6, <1>7 DEF GotOwnTweets

LEMMA GotFollowersStep ==
  ASSUME IInv, GotFollowers
  PROVE  Kept' /\ Grow
<1> DEFINE m == Reply("tweets")
           q == sent["tweets"]
           own == [do |-> "own", u |-> m.u, t |-> m.t]
           push == [do |-> "push", u |-> m.u, t |-> m.t, to |-> m.to]
           a == Append(q, own)
           b == Append(a, push)
<1>1. /\ replies["tweets"] # <<>> /\ m.then = "deliver"
      /\ registered' = registered /\ sessions' = sessions
      /\ randoms' = randoms /\ pending' = pending
      /\ followers' = followers /\ feed' = feed
  BY TakesFacts DEF GotFollowers, Connections
<1>2. /\ m.u \in Users /\ m.t \in Tweets
      /\ m.u \in author[m.t] /\ m.to \subseteq followers[m.u]
  BY <1>1, ReplyHead DEF TweetsReplyOK, Connections
<1>3. /\ asked' = asked /\ granted' = granted /\ author' = author
      /\ owed' = owed /\ req' = req
  BY DEF GotFollowers, history, web
<1>4. Tables' /\ PendingOK' /\ Grow
  BY <1>1, <1>3, TablesUnchanged DEF IInv, TypeOK, Tables
<1>5. q \in Seq(Range(q)) /\ TweetsQueueOK(q, followers', feed', author')
  BY <1>1, <1>3 DEF IInv, TypeOK, SentOK, Queues, Connections
<1>6. TweetsCommandOK(<<own>>, 1, followers', feed', author')
  BY <1>2, <1>3 DEF TweetsCommandOK
<1>7. a \in Seq(Range(a)) /\ TweetsQueueOK(a, followers', feed', author')
  <2> HIDE DEF q, own
  <2> QED
    BY <1>5, <1>6, TweetsAppendFree
<1>8. a[Len(q) + 1] = own /\ Len(a) = Len(q) + 1 /\ Len(q) \in Nat
  BY <1>5, AppendQueue
<1>9. TweetsCommandOK(b, Len(a) + 1, followers', feed', author')
  <2>1. b[Len(a) + 1] = push /\ \A i \in 1 .. Len(a) : b[i] = a[i]
    <3> HIDE DEF a, push
    <3> QED
      BY <1>7, AppendQueue
  <2>2. Len(q) + 1 \in 1 .. (Len(a) + 1) - 1 /\ b[Len(q) + 1] = own
    <3> HIDE DEF a, b, own, push, q
    <3>1. Len(q) + 1 \in 1 .. Len(a)
      BY <1>8
    <3>2. b[Len(q) + 1] = a[Len(q) + 1]
      BY <2>1, <3>1
    <3> QED
      BY <1>8, <3>1, <3>2
  <2>3. own.do = "own" /\ own.u = push.u /\ own.t = push.t
    OBVIOUS
  <2>4. /\ push.do = "push" /\ push.u \in Users /\ push.t \in Tweets
        /\ push.to \subseteq followers'[push.u]
    BY <1>1, <1>2
  <2> HIDE DEF a, b, own, push, q
  <2> QED
    BY <2>1, <2>2, <2>3, <2>4 DEF TweetsCommandOK
<1>10. b \in Seq(Range(b)) /\ TweetsQueueOK(b, followers', feed', author')
  <2> HIDE DEF a, push
  <2> QED
    BY <1>7, <1>9, AppendQueue, TweetsAppend
<1>11. sent' = [sent EXCEPT !["tweets"] = a] \/ sent' = [sent EXCEPT !["tweets"] = b]
  BY DEF GotFollowers
<1> HIDE DEF a, b
<1>12. Queues(sent') /\ SentOK'
  BY <1>4, <1>7, <1>10, <1>11, SentTweets
<1> QED
  BY <1>4, <1>12 DEF Kept

LEMMA GotChallengedStep ==
  ASSUME IInv, GotChallenged
  PROVE  Kept' /\ Grow
<1> DEFINE m == Reply("users")
<1>1. /\ replies["users"] # <<>> /\ m.then = "challenge"
      /\ registered' = registered /\ sessions' = sessions
      /\ randoms' = randoms /\ pending' = pending
      /\ followers' = followers /\ feed' = feed
  BY TakesFacts DEF GotChallenged, Connections
<1>2. m.u \in Users
  BY <1>1, ReplyHead DEF UsersReplyOK, Lookups, Connections
<1>3. asked' = asked /\ granted' = granted /\ author' = author /\ owed' = owed
  BY DEF GotChallenged, history
<1>4. \E c, a : Respond(c, a)
  BY DEF GotChallenged
<1>5. req' \in [Users -> Requests \cup {NoRequest}]
  BY <1>4, RequestsTyped
<1>6. Tables' /\ PendingOK' /\ Grow
  BY <1>1, <1>3, <1>5, TablesUnchanged DEF IInv, TypeOK, Tables
<1>7. CryptoCommandOK([do |-> "hset random", u |-> m.u])
  BY <1>2 DEF CryptoCommandOK
<1>8. Send("crypto", [do |-> "hset random", u |-> m.u]) \/ sent' = sent
  BY DEF GotChallenged
<1>9. Queues(sent') /\ SentOK'
  BY <1>6, <1>7, <1>8, SendCrypto, SentUnchanged
<1> QED
  BY <1>6, <1>9 DEF Kept

LEMMA GotRandomStep ==
  ASSUME IInv, GotRandom
  PROVE  Kept' /\ Grow
<1> DEFINE m == Reply("crypto")
           h == [do |-> "hget", c |-> m.c, me |-> Nobody, u |-> m.u,
                 then |-> "login"]
<1>1. /\ replies["crypto"] # <<>>
      /\ registered' = registered /\ sessions' = sessions
      /\ randoms' = randoms /\ pending' = pending
      /\ followers' = followers /\ feed' = feed
  BY TakesFacts DEF GotRandom, Connections
<1>2. m.u \in Users /\ m.c \in Users
  BY <1>1, ReplyHead DEF CryptoReplyOK, Connections
<1>3. asked' = asked /\ granted' = granted /\ author' = author /\ owed' = owed
  BY DEF GotRandom, history
<1>4. UNCHANGED web \/ \E c, a : Respond(c, a)
  BY DEF GotRandom, web
<1>5. req' \in [Users -> Requests \cup {NoRequest}]
  BY <1>4, RequestsTyped
<1>6. Tables' /\ PendingOK' /\ Grow
  BY <1>1, <1>3, <1>5, TablesUnchanged DEF IInv, TypeOK, Tables
<1>7. UsersCommandOK(<<h>>, 1, followers', feed', asked', granted')
  BY <1>2 DEF UsersCommandOK, Lookups
<1>8. Send("users", h) \/ sent' = sent
  BY DEF GotRandom, GetUserFromId
<1> HIDE DEF h
<1>9. Queues(sent') /\ SentOK'
  BY <1>6, <1>7, <1>8, SendUsers, SentUnchanged
<1> QED
  BY <1>6, <1>9 DEF Kept

LEMMA GotLoginStep ==
  ASSUME IInv, GotLogin
  PROVE  Kept' /\ Grow
<1> DEFINE m == Reply("users")
           h == [do |-> "open", u |-> m.u]
<1>1. /\ replies["users"] # <<>> /\ m.then = "login"
      /\ registered' = registered /\ sessions' = sessions
      /\ randoms' = randoms /\ pending' = pending
      /\ followers' = followers /\ feed' = feed
  BY TakesFacts DEF GotLogin, Connections
<1>2. m.u \in Users
  BY <1>1, ReplyHead DEF UsersReplyOK, Lookups, Connections
<1>3. asked' = asked /\ granted' = granted /\ author' = author /\ owed' = owed
  BY DEF GotLogin, history
<1>4. \E c, a : Respond(c, a)
  BY DEF GotLogin
<1>5. req' \in [Users -> Requests \cup {NoRequest}]
  BY <1>4, RequestsTyped
<1>6. Tables' /\ PendingOK' /\ Grow
  BY <1>1, <1>3, <1>5, TablesUnchanged DEF IInv, TypeOK, Tables
<1>7. UsersCommandOK(<<h>>, 1, followers', feed', asked', granted')
  BY <1>2 DEF UsersCommandOK, Lookups
<1>8. Send("users", h)
  BY DEF GotLogin
<1> HIDE DEF h
<1>9. Queues(sent') /\ SentOK'
  BY <1>6, <1>7, <1>8, SendUsers
<1> QED
  BY <1>6, <1>9 DEF Kept

\* Every callback keeps the invariant.
LEMMA CallbackStep ==
  ASSUME IInv, UsersCallback \/ TweetsCallback \/ CryptoCallback
  PROVE  IInv'
<1>1. Kept' /\ Grow
  BY GotSessionStep, GotUserStep, GotPageUserStep, GotPartStep, GotTargetStep,
     GotPendingStep, GotOwnTweetsStep, GotChallengedStep, GotLoginStep,
     GotFollowersStep, GotRandomStep
  DEF UsersCallback, TweetsCallback, CryptoCallback
<1>2. \E n \in Connections :
        replies[n] # <<>> /\ replies' = [replies EXCEPT ![n] = Tail(@)]
  <2>1. \E n \in Connections : \E then : Takes(n, then)
    <3>1. CASE UsersCallback
      <4>1. "users" \in Connections /\ \E then : Takes("users", then)
        BY <3>1 DEF UsersCallback, GotSession, GotUser, GotPageUser, GotLists,
           GotUsers, GotTarget, GotPending, GotOwnTweets, GotChallenged,
           GotLogin, Connections
      <4> QED
        BY <4>1
    <3>2. CASE TweetsCallback
      <4>1. "tweets" \in Connections /\ \E then : Takes("tweets", then)
        BY <3>2 DEF TweetsCallback, GotFollowers, GotTweets, Connections
      <4> QED
        BY <4>1
    <3>3. CASE CryptoCallback
      <4>1. "crypto" \in Connections /\ \E then : Takes("crypto", then)
        BY <3>3 DEF CryptoCallback, GotRandom, Connections
      <4> QED
        BY <4>1
    <3> QED
      BY <3>1, <3>2, <3>3
  <2> QED
    BY <2>1 DEF Takes
<1>3. Queues(replies') /\ RepliesOK'
  BY <1>1, <1>2, TakeReply
<1> QED
  BY <1>1, <1>3 DEF Kept, IInv, TypeOK, Queues

-----------------------------------------------------------------------------
(* The commands                                                             *)

LEMMA ExecutesFacts ==
  ASSUME NEW n, NEW do, Executes(n, do)
  PROVE  /\ sent[n] # <<>> /\ Command(n).do = do /\ req' = req
         /\ asked' = asked /\ granted' = granted /\ author' = author
         /\ owed' = owed
BY DEF Executes, web, history

\* A command that only reads.
LEMMA ReadStep ==
  ASSUME IInv, NEW n \in Connections, NEW do, NEW x,
         do \notin {"add", "own"}, Executes(n, do), Done(n, x),
         Grow => GoodReply(n, x)
  PROVE  IInv'
<1>1. /\ sent[n] # <<>> /\ Command(n).do = do /\ req' = req
      /\ asked' = asked /\ granted' = granted /\ author' = author
      /\ owed' = owed
  BY ExecutesFacts
<1>2. /\ registered' = registered /\ sessions' = sessions
      /\ randoms' = randoms /\ pending' = pending
      /\ followers' = followers /\ feed' = feed
      /\ Pop(n) /\ replies' = [replies EXCEPT ![n] = Append(@, x)]
  BY DEF Done, accounts, lists
<1>3. Tables' /\ PendingOK' /\ Grow
  BY <1>1, <1>2, TablesUnchanged DEF IInv, TypeOK, Tables
<1>4. Queues(replies') /\ RepliesOK'
  BY <1>2, <1>3, AddReply
<1>5. Queues(sent') /\ SentOK'
  <2>1. CASE n = "users"
    BY <1>1, <1>2, <1>3, <2>1, PopUsers
  <2>2. CASE n = "tweets"
    BY <1>1, <1>2, <1>3, <2>2, PopTweets
  <2>3. CASE n = "crypto"
    BY <1>1, <1>2, <1>3, <2>3, PopCrypto
  <2> QED
    BY <2>1, <2>2, <2>3 DEF Connections
<1> QED
  BY <1>3, <1>4, <1>5 DEF IInv, TypeOK

LEMMA GetStep ==
  ASSUME IInv, Get
  PROVE  IInv'
<1> DEFINE m == Command("users")
           x == [then |-> "session", c |-> m.c, u |-> m.u,
                 found |-> m.u \in sessions]
<1>1. Executes("users", "get") /\ Done("users", x)
  BY DEF Get
<1>2. m.c \in Users /\ m.u \in Users
  <2>1. <<m>>[1] = m
    OBVIOUS
  <2> QED
    BY <1>1, <2>1, UsersHead, ExecutesFacts DEF UsersCommandOK, Lookups
<1>3. GoodReply("users", x)
  BY <1>2 DEF GoodReply, UsersReplyOK, Lookups
<1> HIDE DEF x
<1> QED
  BY <1>1, <1>3, ReadStep DEF Connections

LEMMA HGetStep ==
  ASSUME IInv, HGet
  PROVE  IInv'
<1> DEFINE m == Command("users")
           x == [then |-> m.then, c |-> m.c, me |-> m.me, u |-> m.u,
                 found |-> m.u \in registered]
<1>1. Executes("users", "hget") /\ Done("users", x)
  BY DEF HGet
<1>2. /\ m.then \in Lookups /\ m.c \in Users /\ m.u \in Users
      /\ m.then = "target" => m.me \in Users
  <2>1. <<m>>[1] = m
    OBVIOUS
  <2> QED
    BY <1>1, <2>1, UsersHead, ExecutesFacts DEF UsersCommandOK, Lookups
<1>3. GoodReply("users", x)
  BY <1>2 DEF GoodReply, UsersReplyOK, Lookups
<1> HIDE DEF x
<1> QED
  BY <1>1, <1>3, ReadStep DEF Connections

LEMMA ListsStep ==
  ASSUME IInv, Lists \/ HVals
  PROVE  IInv'
<1>1. CASE Lists
  <2> DEFINE x == [then |-> "lists", c |-> Command("users").c]
  <2>1. Executes("users", "lists") /\ Done("users", x)
    BY <1>1 DEF Lists
  <2>2. GoodReply("users", x)
    BY DEF GoodReply, UsersReplyOK, Lookups
  <2> HIDE DEF x
  <2> QED
    BY <2>1, <2>2, ReadStep DEF Connections
<1>2. CASE HVals
  <2> DEFINE x == [then |-> "list", c |-> Command("users").c,
                   users |-> registered]
  <2>1. Executes("users", "hvals") /\ Done("users", x)
    BY <1>2 DEF HVals
  <2>2. GoodReply("users", x)
    BY DEF GoodReply, UsersReplyOK, Lookups
  <2> HIDE DEF x
  <2> QED
    BY <2>1, <2>2, ReadStep DEF Connections
<1> QED
  BY <1>1, <1>2

\* The lookup in pending: an answer of redis that a request was there is the
\* reason why an acceptance may be carried out.
LEMMA HGetPendingStep ==
  ASSUME IInv, HGetPending
  PROVE  IInv'
<1> DEFINE m == Command("users")
           x == [then |-> "accept", u |-> m.u, f |-> m.f,
                 match |-> pending[m.f] = m.u]
<1>1. Executes("users", "hget pending") /\ Done("users", x)
  BY DEF HGetPending
<1>2. <<m.u, m.f>> \in granted
  <2>1. <<m>>[1] = m
    OBVIOUS
  <2> QED
    BY <1>1, <2>1, UsersHead, ExecutesFacts DEF UsersCommandOK
<1>3. m.u \in Users /\ m.f \in Users
  BY <1>2 DEF IInv, TypeOK, Tables
<1>4. pending[m.f] = m.u => <<m.f, m.u>> \in asked
  <2>1. m.u # Nobody
    BY <1>3, ConstantsAssumption
  <2> QED
    BY <1>3, <2>1 DEF IInv, PendingOK
<1>5. Grow => GoodReply("users", x)
  BY <1>2, <1>4 DEF GoodReply, UsersReplyOK, Lookups, Grow
<1> HIDE DEF x
<1> QED
  BY <1>1, <1>5, ReadStep DEF Connections

LEMMA LRangeOwnStep ==
  ASSUME IInv, LRangeOwn
  PROVE  IInv'
<1> DEFINE m == Command("users")
           x == [then |-> "copy", u |-> m.u, f |-> m.f, ts |-> feed[m.u]]
<1>1. Executes("users", "lrange own") /\ Done("users", x)
  BY DEF LRangeOwn
<1>2. m.u \in Users /\ m.f \in followers[m.u]
  <2>1. <<m>>[1] = m /\ 1 .. 1 - 1 = {}
    OBVIOUS
  <2> QED
    BY <1>1, <2>1, UsersHead, ExecutesFacts DEF UsersCommandOK
<1>3. feed[m.u] \in Seq(Tweets)
  BY <1>2 DEF IInv, TypeOK, Tables
<1>4. Grow => GoodReply("users", x)
  BY <1>2, <1>3 DEF GoodReply, UsersReplyOK, Lookups, Grow
<1> HIDE DEF x
<1> QED
  BY <1>1, <1>4, ReadStep DEF Connections

LEMMA HKeysStep ==
  ASSUME IInv, HKeys
  PROVE  IInv'
<1> DEFINE m == Command("tweets")
           x == [then |-> "deliver", u |-> m.u, t |-> m.t,
                 to |-> followers[m.u]]
<1>1. Executes("tweets", "hkeys") /\ Done("tweets", x)
  BY DEF HKeys
<1>2. m.u \in Users /\ m.t \in Tweets /\ m.u \in author[m.t]
  <2>1. <<m>>[1] = m
    OBVIOUS
  <2> QED
    BY <1>1, <2>1, TweetsHead, ExecutesFacts DEF TweetsCommandOK
<1>3. Grow => GoodReply("tweets", x)
  BY <1>2 DEF GoodReply, TweetsReplyOK, Grow
<1> HIDE DEF x
<1> QED
  BY <1>1, <1>3, ReadStep DEF Connections

LEMMA LRangeStep ==
  ASSUME IInv, LRange
  PROVE  IInv'
<1> DEFINE m == Command("tweets")
           x == [then |-> "feed", c |-> m.c, ts |-> feed[m.u]]
<1>1. Executes("tweets", "lrange") /\ Done("tweets", x)
  BY DEF LRange
<1>2. GoodReply("tweets", x)
  BY DEF GoodReply, TweetsReplyOK
<1> HIDE DEF x
<1> QED
  BY <1>1, <1>2, ReadStep DEF Connections

LEMMA HGetRandomStep ==
  ASSUME IInv, HGetRandom
  PROVE  IInv'
<1> DEFINE m == Command("crypto")
           x == [then |-> "random", c |-> m.c, u |-> m.u,
                 found |-> m.u \in randoms]
<1>1. Executes("crypto", "hget random") /\ Done("crypto", x)
  BY DEF HGetRandom
<1>2. m.u \in Users /\ m.c \in Users
  BY <1>1, CryptoHead, ExecutesFacts DEF CryptoCommandOK
<1>3. GoodReply("crypto", x)
  BY <1>2 DEF GoodReply, CryptoReplyOK
<1> HIDE DEF x
<1> QED
  BY <1>1, <1>3, ReadStep DEF Connections

\* Commands that write, and that redis does not answer to anybody.
LEMMA SaveStep ==
  ASSUME IInv, Save
  PROVE  IInv'
<1> DEFINE m == Command("users")
<1>1. /\ sent["users"] # <<>> /\ m.do \in {"save", "open"}
      /\ sessions' = sessions \cup {m.u}
      /\ registered' \in {registered, registered \cup {m.u}}
      /\ Pop("users") /\ replies' = replies /\ randoms' = randoms
      /\ pending' = pending /\ followers' = followers /\ feed' = feed
      /\ asked' = asked /\ granted' = granted /\ author' = author
      /\ owed' = owed /\ req' = req
  BY DEF Save, web, lists, history
<1>2. m.u \in Users
  <2>1. <<m>>[1] = m
    OBVIOUS
  <2> QED
    BY <1>1, <2>1, UsersHead DEF UsersCommandOK
<1>3. Tables'
  BY <1>1, <1>2 DEF IInv, TypeOK, Tables
<1>4. PendingOK' /\ Grow
  BY <1>1, SameGrow DEF IInv, PendingOK
<1>5. Queues(sent') /\ SentOK'
  BY <1>1, <1>4, PopUsers
<1>6. Queues(replies') /\ RepliesOK'
  BY <1>1, <1>4, RepliesUnchanged
<1> QED
  BY <1>3, <1>4, <1>5, <1>6 DEF IInv, TypeOK

LEMMA HSetPendingStep ==
  ASSUME IInv, HSetPending
  PROVE  IInv'
<1> DEFINE m == Command("users")
<1>1. /\ sent["users"] # <<>> /\ m.do = "hset pending"
      /\ pending' = [pending EXCEPT ![m.f] = m.u]
      /\ Pop("users") /\ replies' = replies
      /\ registered' = registered /\ sessions' = sessions
      /\ randoms' = randoms /\ followers' = followers /\ feed' = feed
      /\ asked' = asked /\ granted' = granted /\ author' = author
      /\ owed' = owed /\ req' = req
  BY ExecutesFacts DEF HSetPending, accounts
<1>2. <<m.f, m.u>> \in asked
  <2>1. <<m>>[1] = m
    OBVIOUS
  <2> QED
    BY <1>1, <2>1, UsersHead DEF UsersCommandOK
<1>3. m.f \in Users /\ m.u \in Users
  BY <1>2 DEF IInv, TypeOK, Tables
<1>4. Tables'
  BY <1>1, <1>3 DEF IInv, TypeOK, Tables
<1>5. PendingOK'
  <2> SUFFICES ASSUME NEW f \in Users, pending'[f] # Nobody
               PROVE  <<f, pending'[f]>> \in asked
    BY <1>1 DEF PendingOK
  <2>1. pending \in [Users -> Users \cup {Nobody}]
    BY DEF IInv, TypeOK, Tables
  <2>2. CASE f = m.f
    BY <1>1, <1>2, <2>1, <2>2
  <2>3. CASE f # m.f
    BY <1>1, <2>1, <2>3 DEF IInv, PendingOK
  <2> QED
    BY <2>2, <2>3
<1>6. Grow
  BY <1>1, SameGrow
<1>7. Queues(sent') /\ SentOK'
  BY <1>1, <1>6, PopUsers
<1>8. Queues(replies') /\ RepliesOK'
  BY <1>1, <1>6, RepliesUnchanged
<1> QED
  BY <1>4, <1>5, <1>7, <1>8 DEF IInv, TypeOK

LEMMA AddStep ==
  ASSUME IInv, Add
  PROVE  IInv'
<1> DEFINE m == Command("users")
<1>1. /\ sent["users"] # <<>> /\ m.do = "add"
      /\ followers' = [followers EXCEPT ![m.u] = @ \cup {m.f}]
      /\ pending' = [pending EXCEPT ![m.f] = Nobody]
      /\ Pop("users") /\ replies' = replies
      /\ registered' = registered /\ sessions' = sessions
      /\ randoms' = randoms /\ feed' = feed
      /\ asked' = asked /\ granted' = granted /\ author' = author
      /\ owed' = owed /\ req' = req
  BY ExecutesFacts DEF Add, accounts
<1>2. <<m.f, m.u>> \in asked
  <2>1. <<m>>[1] = m
    OBVIOUS
  <2> QED
    BY <1>1, <2>1, UsersHead DEF UsersCommandOK
<1>3. m.f \in Users /\ m.u \in Users
  BY <1>2 DEF IInv, TypeOK, Tables
<1>4. /\ followers \in [Users -> SUBSET Users]
      /\ pending \in [Users -> Users \cup {Nobody}]
  BY DEF IInv, TypeOK, Tables
<1>5. Tables'
  <2>1. /\ followers' \in [Users -> SUBSET Users]
        /\ pending' \in [Users -> Users \cup {Nobody}]
    BY <1>1, <1>3, <1>4
  <2> QED
    BY <1>1, <2>1 DEF IInv, TypeOK, Tables
<1>6. PendingOK'
  BY <1>1, <1>4 DEF IInv, PendingOK
<1>7. Grow
  <2>1. \A u \in Users : followers[u] \subseteq followers'[u]
    BY <1>1, <1>4
  <2> QED
    BY <1>1, <2>1 DEF Grow
<1>8. m.f \in followers'[m.u]
  BY <1>1, <1>3, <1>4
<1>9. Queues(sent') /\ SentOK'
  BY <1>1, <1>7, <1>8, PopUsers
<1>10. Queues(replies') /\ RepliesOK'
  BY <1>1, <1>7, RepliesUnchanged
<1> QED
  BY <1>5, <1>6, <1>9, <1>10 DEF IInv, TypeOK

\* One more tweet in the list of f.
LEMMA LPushStep ==
  ASSUME IInv, NEW f \in Users, NEW t \in Tweets, LPush(f, t),
         registered' = registered, sessions' = sessions, randoms' = randoms,
         pending' = pending, followers' = followers, asked' = asked,
         granted' = granted, author' = author, owed' = owed, req' = req
  PROVE  /\ Tables' /\ PendingOK' /\ Grow
         /\ \A u \in Users :
              Range(feed'[u]) = Range(feed[u]) \cup (IF u = f THEN {t} ELSE {})
<1>1. feed \in [Users -> Seq(Tweets)]
  BY DEF IInv, TypeOK, Tables
<1>2. /\ <<t>> \o feed[f] \in Seq(Tweets)
      /\ Range(<<t>> \o feed[f]) = Range(feed[f]) \cup {t}
  BY <1>1, InFront
<1>3. feed' \in [Users -> Seq(Tweets)]
  BY <1>1, <1>2 DEF LPush
<1>4. \A u \in Users :
        Range(feed'[u]) = Range(feed[u]) \cup (IF u = f THEN {t} ELSE {})
  <2> TAKE u \in Users
  <2>1. CASE u = f
    <3>1. feed'[u] = <<t>> \o feed[f]
      BY <1>1, <2>1 DEF LPush
    <3> QED
      BY <1>2, <2>1, <3>1
  <2>2. CASE u # f
    BY <1>1, <2>2 DEF LPush
  <2> QED
    BY <2>1, <2>2
<1>5. Tables'
  BY <1>3 DEF IInv, TypeOK, Tables
<1>6. PendingOK'
  BY DEF IInv, PendingOK
<1>7. Grow
  BY <1>4 DEF Grow
<1> QED
  BY <1>4, <1>5, <1>6, <1>7

\* What a copy that is pushed stands for.
LEMMA CopyFacts ==
  ASSUME IInv, LPushCopy
  PROVE  LET m == Command("users")
         IN  /\ sent["users"] # <<>> /\ m.do = "copies"
             /\ m.u \in Users /\ m.f \in Users /\ m.f \in followers[m.u]
             /\ m.ts \in Seq(Tweets) \ {<<>>}
             /\ Range(m.ts) \subseteq Range(feed[m.u])
             /\ Head(m.ts) \in Tweets /\ Head(m.ts) \in Range(feed[m.u])
<1> DEFINE m == Command("users")
<1>1. sent["users"] # <<>> /\ m.do = "copies"
  BY ExecutesFacts DEF LPushCopy
<1>2. /\ m.u \in Users /\ m.f \in Users /\ m.f \in followers[m.u]
      /\ m.ts \in Seq(Tweets) \ {<<>>}
      /\ Range(m.ts) \subseteq Range(feed[m.u])
  <2>1. <<m>>[1] = m
    OBVIOUS
  <2> QED
    BY <1>1, <2>1, UsersHead DEF UsersCommandOK
<1> DEFINE ts == m.ts
<1>3. ts \in Seq(Range(ts)) /\ ts # <<>>
  BY <1>2, OwnElements
<1> HIDE DEF ts
<1>4. Head(ts) \in Range(ts)
  BY <1>3, HeadTailProperties
<1>5. Range(ts) \subseteq Tweets
  BY <1>2, Elements, ElementOfSeq, <1>3 DEF ts
<1> QED
  BY <1>1, <1>2, <1>4, <1>5 DEF ts

LEMMA LPushCopyStep ==
  ASSUME IInv, LPushCopy
  PROVE  IInv'
<1> DEFINE m == Command("users")
           q == sent["users"]
           rest == [do |-> "copies", u |-> m.u, f |-> m.f, ts |-> Tail(m.ts)]
<1>1. /\ sent["users"] # <<>> /\ m.do = "copies"
      /\ m.u \in Users /\ m.f \in Users /\ m.f \in followers[m.u]
      /\ m.ts \in Seq(Tweets) \ {<<>>}
      /\ Range(m.ts) \subseteq Range(feed[m.u])
      /\ Head(m.ts) \in Tweets
  BY CopyFacts
<1>2. /\ LPush(m.f, Head(m.ts)) /\ replies' = replies
      /\ registered' = registered /\ sessions' = sessions
      /\ randoms' = randoms /\ pending' = pending
      /\ followers' = followers /\ asked' = asked /\ granted' = granted
      /\ author' = author /\ owed' = owed /\ req' = req
  BY ExecutesFacts DEF LPushCopy, accounts
<1>3. Tables' /\ PendingOK' /\ Grow
  BY <1>1, <1>2, LPushStep
<1>4. Queues(sent') /\ SentOK'
  <2>1. CASE Pop("users")
    BY <1>1, <1>3, <2>1, PopUsers
  <2>2. CASE /\ Len(m.ts) # 1
             /\ sent' = [sent EXCEPT !["users"] = <<rest>> \o Tail(@)]
    <3>1. Tail(m.ts) \in Seq(Tweets) \ {<<>>}
      <4>1. Tail(m.ts) \in Seq(Tweets) /\ Len(Tail(m.ts)) = Len(m.ts) - 1
        BY <1>1, HeadTailProperties
      <4>2. Len(m.ts) \in Nat \ {0}
        BY <1>1, EmptySeq
      <4>3. Len(Tail(m.ts)) # 0
        BY <2>2, <4>1, <4>2
      <4> QED
        BY <4>1, <4>3, EmptySeq
    <3>2. Range(Tail(m.ts)) \subseteq Range(m.ts)
      <4> DEFINE ts == m.ts
      <4>1. ts \in Seq(Range(ts)) /\ ts # <<>>
        BY <1>1, OwnElements
      <4> HIDE DEF ts
      <4>2. Range(Tail(ts)) \subseteq Range(ts)
        BY <4>1, TailElements
      <4> QED
        BY <4>2 DEF ts
    <3>3. /\ rest.do = "copies" /\ rest.u \in Users /\ rest.f \in Users
          /\ rest.f \in followers'[rest.u]
          /\ rest.ts \in Seq(Tweets) \ {<<>>}
          /\ Range(rest.ts) \subseteq Range(feed'[rest.u])
      <4>1. Range(Tail(m.ts)) \subseteq Range(feed'[m.u])
        BY <1>1, <1>3, <3>2 DEF Grow
      <4> QED
        BY <1>1, <1>2, <3>1, <4>1
    <3>4. /\ q \in Seq(Range(q)) /\ q # <<>> /\ Head(q).do = "copies"
          /\ UsersQueueOK(q, followers', feed', asked', granted')
      <4>1. UsersQueueOK(q, followers', feed', asked', granted')
        BY <1>3, UsersMore DEF IInv, SentOK, More, Grow
      <4>2. \A n \in Connections : sent[n] \in Seq(Range(sent[n]))
        BY DEF IInv, TypeOK, Queues
      <4>3. q \in Seq(Range(q))
        BY <4>2 DEF Connections
      <4>4. q # <<>> /\ Head(q).do = "copies"
        BY <1>1 DEF Command
      <4> QED
        BY <4>1, <4>3, <4>4
    <3>5. sent' = [sent EXCEPT !["users"] = <<rest>> \o Tail(q)]
      BY <2>2
    <3> HIDE DEF rest, q
    <3>6. /\ <<rest>> \o Tail(q) \in Seq(Range(<<rest>> \o Tail(q)))
          /\ UsersQueueOK(<<rest>> \o Tail(q), followers', feed', asked', granted')
      BY <3>3, <3>4, NewHead, UsersNewHead
    <3> QED
      BY <1>3, <3>5, <3>6, SentUsers
  <2> QED
    BY <2>1, <2>2 DEF LPushCopy
<1>5. Queues(replies') /\ RepliesOK'
  BY <1>2, <1>3, RepliesUnchanged
<1> QED
  BY <1>3, <1>4, <1>5 DEF IInv, TypeOK

LEMMA LPushOwnStep ==
  ASSUME IInv, LPushOwn
  PROVE  IInv'
<1> DEFINE m == Command("tweets")
<1>1. /\ sent["tweets"] # <<>> /\ m.do = "own"
      /\ LPush(m.u, m.t) /\ Pop("tweets") /\ replies' = replies
      /\ registered' = registered /\ sessions' = sessions
      /\ randoms' = randoms /\ pending' = pending
      /\ followers' = followers /\ asked' = asked /\ granted' = granted
      /\ author' = author /\ owed' = owed /\ req' = req
  BY ExecutesFacts DEF LPushOwn, accounts
<1>2. m.u \in Users /\ m.t \in Tweets
  <2>1. <<m>>[1] = m
    OBVIOUS
  <2> QED
    BY <1>1, <2>1, TweetsHead DEF TweetsCommandOK
<1>3. /\ Tables' /\ PendingOK' /\ Grow
      /\ \A u \in Users :
           Range(feed'[u]) = Range(feed[u]) \cup (IF u = m.u THEN {m.t} ELSE {})
  BY <1>1, <1>2, LPushStep
<1>4. m.t \in Range(feed'[m.u])
  BY <1>2, <1>3
<1>5. Queues(sent') /\ SentOK'
  BY <1>1, <1>3, <1>4, PopTweets
<1>6. Queues(replies') /\ RepliesOK'
  BY <1>1, <1>3, RepliesUnchanged
<1> QED
  BY <1>3, <1>5, <1>6 DEF IInv, TypeOK

\* What a tweet that goes to the followers stands for.
LEMMA PushFacts ==
  ASSUME IInv, LPushFollower
  PROVE  LET m == Command("tweets")
         IN  /\ sent["tweets"] # <<>> /\ m.do = "push"
             /\ m.u \in Users /\ m.t \in Tweets
             /\ m.to \subseteq followers[m.u] /\ m.to \subseteq Users
             /\ m.t \in Range(feed[m.u])
<1> DEFINE m == Command("tweets")
<1>1. sent["tweets"] # <<>> /\ m.do = "push"
  BY ExecutesFacts DEF LPushFollower
<1>2. <<m>>[1] = m /\ 1 .. 1 - 1 = {}
  OBVIOUS
<1>3. /\ m.u \in Users /\ m.t \in Tweets /\ m.to \subseteq followers[m.u]
      /\ m.t \in Range(feed[m.u])
  BY <1>1, <1>2, TweetsHead DEF TweetsCommandOK
<1>4. followers[m.u] \subseteq Users
  BY <1>3 DEF IInv, TypeOK, Tables
<1> QED
  BY <1>1, <1>3, <1>4

LEMMA LPushFollowerStep ==
  ASSUME IInv, LPushFollower
  PROVE  IInv'
<1> DEFINE m == Command("tweets")
           q == sent["tweets"]
<1>1. /\ sent["tweets"] # <<>> /\ m.do = "push"
      /\ m.u \in Users /\ m.t \in Tweets
      /\ m.to \subseteq followers[m.u] /\ m.to \subseteq Users
      /\ m.t \in Range(feed[m.u])
  BY PushFacts
<1>2. PICK f \in m.to :
        /\ LPush(f, m.t)
        /\ IF m.to = {f} THEN Pop("tweets")
           ELSE sent' = [sent EXCEPT !["tweets"] =
                           <<[do |-> "push", u |-> m.u, t |-> m.t,
                              to |-> m.to \ {f}]>> \o Tail(@)]
  BY DEF LPushFollower
<1> DEFINE rest == [do |-> "push", u |-> m.u, t |-> m.t, to |-> m.to \ {f}]
<1>3. /\ f \in Users /\ replies' = replies
      /\ registered' = registered /\ sessions' = sessions
      /\ randoms' = randoms /\ pending' = pending
      /\ followers' = followers /\ asked' = asked /\ granted' = granted
      /\ author' = author /\ owed' = owed /\ req' = req
  BY <1>1, ExecutesFacts DEF LPushFollower, accounts
<1>4. Tables' /\ PendingOK' /\ Grow
  BY <1>1, <1>2, <1>3, LPushStep
<1>5. Queues(sent') /\ SentOK'
  <2>1. CASE Pop("tweets")
    BY <1>1, <1>4, <2>1, PopTweets
  <2>2. CASE sent' = [sent EXCEPT !["tweets"] = <<rest>> \o Tail(@)]
    <3>1. /\ rest.do = "push" /\ rest.u \in Users /\ rest.t \in Tweets
          /\ rest.to \subseteq followers'[rest.u]
          /\ rest.t \in Range(feed'[rest.u])
      <4>1. m.t \in Range(feed'[m.u])
        BY <1>1, <1>4 DEF Grow
      <4> QED
        BY <1>1, <1>3, <4>1
    <3>2. q \in Seq(Range(q)) /\ q # <<>> /\ Head(q).do = "push"
      <4>1. \A n \in Connections : sent[n] \in Seq(Range(sent[n]))
        BY DEF IInv, TypeOK, Queues
      <4>2. q \in Seq(Range(q))
        BY <4>1 DEF Connections
      <4>3. q # <<>> /\ Head(q).do = "push"
        BY <1>1 DEF Command
      <4> QED
        BY <4>2, <4>3
    <3>3. TweetsQueueOK(q, followers', feed', author')
      BY <1>4, TweetsMore DEF IInv, SentOK, Grow
    <3>4. sent' = [sent EXCEPT !["tweets"] = <<rest>> \o Tail(q)]
      BY <2>2
    <3> HIDE DEF rest, q
    <3>5. /\ <<rest>> \o Tail(q) \in Seq(Range(<<rest>> \o Tail(q)))
          /\ TweetsQueueOK(<<rest>> \o Tail(q), followers', feed', author')
      BY <3>1, <3>2, <3>3, NewHead, TweetsNewHead
    <3> QED
      BY <1>4, <3>4, <3>5, SentTweets
  <2> QED
    BY <1>2, <2>1, <2>2
<1>6. Queues(replies') /\ RepliesOK'
  BY <1>3, <1>4, RepliesUnchanged
<1> QED
  BY <1>4, <1>5, <1>6 DEF IInv, TypeOK

LEMMA HSetRandomStep ==
  ASSUME IInv, HSetRandom
  PROVE  IInv'
<1> DEFINE m == Command("crypto")
<1>1. /\ sent["crypto"] # <<>> /\ randoms' = randoms \cup {m.u}
      /\ Pop("crypto") /\ replies' = replies
      /\ registered' = registered /\ sessions' = sessions
      /\ pending' = pending /\ followers' = followers /\ feed' = feed
      /\ asked' = asked /\ granted' = granted /\ author' = author
      /\ owed' = owed /\ req' = req
  BY ExecutesFacts DEF HSetRandom, lists
<1>2. m.u \in Users
  BY <1>1, CryptoHead DEF CryptoCommandOK
<1>3. Tables'
  BY <1>1, <1>2 DEF IInv, TypeOK, Tables
<1>4. PendingOK' /\ Grow
  BY <1>1, SameGrow DEF IInv, PendingOK
<1>5. Queues(sent') /\ SentOK'
  BY <1>1, <1>4, PopCrypto
<1>6. Queues(replies') /\ RepliesOK'
  BY <1>1, <1>4, RepliesUnchanged
<1> QED
  BY <1>3, <1>4, <1>5, <1>6 DEF IInv, TypeOK

\* A session ends.
LEMMA ExpireStep ==
  ASSUME IInv, NEW u \in Users, Expire(u)
  PROVE  IInv'
<1>1. /\ sessions' = sessions \ {u} /\ sent' = sent /\ replies' = replies
      /\ registered' = registered /\ randoms' = randoms
      /\ pending' = pending /\ followers' = followers /\ feed' = feed
      /\ asked' = asked /\ granted' = granted /\ author' = author
      /\ owed' = owed /\ req' = req
  BY DEF Expire, web, wire, lists, history
<1>2. Tables'
  BY <1>1 DEF IInv, TypeOK, Tables
<1>3. PendingOK' /\ Grow
  BY <1>1, SameGrow DEF IInv, PendingOK
<1>4. Queues(sent') /\ SentOK'
  BY <1>1, <1>3, SentUnchanged
<1>5. Queues(replies') /\ RepliesOK'
  BY <1>1, <1>3, RepliesUnchanged
<1> QED
  BY <1>2, <1>3, <1>4, <1>5 DEF IInv, TypeOK

\* A request comes in: its handler runs, or its session is looked up first.
LEMMA ArriveStep ==
  ASSUME IInv, NEW c \in Users, NEW r \in Requests, Arrive(c, r)
  PROVE  IInv'
<1> USE RequestTypes
<1>1. /\ replies' = replies /\ UNCHANGED <<accounts, lists>>
      /\ registered' = registered /\ sessions' = sessions
      /\ randoms' = randoms /\ pending' = pending
      /\ followers' = followers /\ feed' = feed
  BY DEF Arrive, accounts, lists
<1>2. Kept' /\ Grow
  <2>1. CASE Route(c, r, Nobody)
    BY <1>1, <2>1, RouteStep
  <2>2. CASE /\ r.cookie # Nobody
             /\ Send("users", [do |-> "get", c |-> c, u |-> r.cookie])
             /\ Wait(c, r)
             /\ UNCHANGED history
    <3> DEFINE g == [do |-> "get", c |-> c, u |-> r.cookie]
    <3>1. UsersCommandOK(<<g>>, 1, followers', feed', asked', granted')
      BY <2>2 DEF UsersCommandOK
    <3>2. Send("users", g)
      BY <2>2
    <3>3. /\ asked' = asked /\ granted' = granted /\ author' = author
          /\ owed' = owed
      BY <2>2 DEF history
    <3>4. req' \in [Users -> Requests \cup {NoRequest}]
      BY <2>2 DEF Wait, IInv, TypeOK, Tables
    <3>5. owed' \subseteq Users \X Tweets
      BY <3>3 DEF IInv, TypeOK, Tables
    <3>6. Tables' /\ PendingOK' /\ Grow
      BY <1>1, <3>3, <3>4, <3>5, TablesUnchanged
    <3> HIDE DEF g
    <3>7. Queues(sent') /\ SentOK'
      BY <3>1, <3>2, <3>6, SendUsers
    <3> QED
      BY <3>6, <3>7 DEF Kept
  <2> QED
    BY <2>1, <2>2 DEF Arrive
<1>3. Queues(replies') /\ RepliesOK'
  BY <1>1, <1>2, RepliesUnchanged
<1> QED
  BY <1>2, <1>3 DEF Kept, IInv, TypeOK

-----------------------------------------------------------------------------
(* The invariant                                                            *)

LEMMA CommandStep ==
  ASSUME IInv, UsersCommand \/ TweetsCommand \/ CryptoCommand
  PROVE  IInv'
BY GetStep, HGetStep, ListsStep, SaveStep, HSetPendingStep, HGetPendingStep,
   AddStep, LRangeOwnStep, LPushCopyStep, HKeysStep, LPushOwnStep,
   LPushFollowerStep, LRangeStep, HSetRandomStep, HGetRandomStep
DEF UsersCommand, TweetsCommand, CryptoCommand

LEMMA InitInv == Init => IInv
<1> SUFFICES ASSUME Init
             PROVE  IInv
  OBVIOUS
<1>1. pending \in [Users -> Users \cup {Nobody}]
  BY ConstantsAssumption DEF Init
<1>2. PendingOK
  BY DEF Init, PendingOK
<1>3. asked \subseteq Users \X Users
  <2> SUFFICES ASSUME NEW f \in Users, pending[f] # Nobody
               PROVE  <<f, pending[f]>> \in Users \X Users
    BY DEF Init
  <2> QED
    BY <1>1
<1>4. Tables
  BY <1>1, <1>3, ConstantsAssumption DEF Init, Tables
<1>5. /\ sent = [n \in Connections |-> <<>>]
      /\ replies = [n \in Connections |-> <<>>]
  BY DEF Init
<1>6. Queues(sent) /\ Queues(replies)
  <2>1. <<>> \in Seq(Range(<<>>))
    OBVIOUS
  <2> QED
    BY <1>5, <2>1 DEF Queues
<1>7. SentOK /\ RepliesOK
  <2>1. /\ sent["users"] = <<>> /\ sent["tweets"] = <<>>
        /\ sent["crypto"] = <<>> /\ replies["users"] = <<>>
        /\ replies["tweets"] = <<>> /\ replies["crypto"] = <<>>
    BY <1>5 DEF Connections
  <2>2. 1 .. Len(<<>>) = {}
    OBVIOUS
  <2> QED
    BY <2>1, <2>2 DEF SentOK, RepliesOK, UsersQueueOK, TweetsQueueOK
<1> QED
  BY <1>2, <1>4, <1>6, <1>7 DEF IInv, TypeOK

LEMMA StutterInv ==
  ASSUME IInv, UNCHANGED vars
  PROVE  IInv'
<1>1. /\ sent' = sent /\ replies' = replies
      /\ registered' = registered /\ sessions' = sessions
      /\ randoms' = randoms /\ pending' = pending
      /\ followers' = followers /\ feed' = feed
      /\ asked' = asked /\ granted' = granted /\ author' = author
      /\ owed' = owed /\ req' = req
  BY DEF vars, web, wire, accounts, lists, history
<1>2. req' \in [Users -> Requests \cup {NoRequest}] /\ owed' \subseteq Users \X Tweets
  BY <1>1 DEF IInv, TypeOK, Tables
<1>3. Tables' /\ PendingOK' /\ Grow
  BY <1>1, <1>2, TablesUnchanged
<1> QED
  BY <1>1, <1>3, SentUnchanged, RepliesUnchanged DEF IInv, TypeOK

LEMMA NextInv == IInv /\ [Next]_vars => IInv'
BY CallbackStep, CommandStep, ArriveStep, ExpireStep, StutterInv
DEF Next, Service

\* Whatever requests come in and in whatever order the three connections are
\* served, each command and reply on the way stands for what was really asked,
\* accepted or posted (users.js addFollower, tweets.js saveTweet).
THEOREM Invariance == Spec => []IInv
BY InitInv, NextInv, PTL DEF Spec

\* The types of what redis keeps and of the requests.
THEOREM TypeCorrect == Spec => []TypeOK
<1>1. IInv => TypeOK
  BY DEF IInv
<1> QED
  BY <1>1, Invariance, PTL

-----------------------------------------------------------------------------
(* The service implements SocialFeed                                        *)

\* What the service does is a step of SocialFeed or nothing to it.
Promised == FeedRefined!Next \/ UNCHANGED FeedRefined!feeds

LEMMA SameFeeds ==
  ASSUME followers' = followers, feed' = feed, asked' = asked,
         granted' = granted, author' = author
  PROVE  Promised
BY DEF Promised, FeedRefined!feeds

LEMMA RouteFeeds ==
  ASSUME IInv, NEW c \in Users, NEW r \in Requests,
         NEW u \in Users \cup {Nobody}, Route(c, r, u), UNCHANGED lists
  PROVE  Promised
<1> USE RequestTypes
<1>1. followers' = followers /\ feed' = feed
  BY DEF lists
<1>2. CASE UNCHANGED history
  BY <1>1, <1>2, SameFeeds DEF history
<1>3. CASE Tweet(c, r, u)
  <2>1. /\ u \in Users /\ r.tweet \in Tweets
        /\ author' = [author EXCEPT ![r.tweet] = @ \cup {u}]
        /\ asked' = asked /\ granted' = granted
    BY <1>3 DEF Tweet
  <2>2. FeedRefined!Post(u, r.tweet)
    BY <1>1, <2>1 DEF FeedRefined!Post
  <2> QED
    BY <2>1, <2>2 DEF Promised, FeedRefined!Next
<1>4. CASE Follow(c, r, u)
  <2>1. /\ u \in Users /\ r.id \in Users
        /\ granted' = granted \cup {<<u, r.id>>}
        /\ asked' = asked /\ author' = author
    BY <1>4 DEF Follow
  <2>2. FeedRefined!Grant(u, r.id)
    BY <1>1, <2>1 DEF FeedRefined!Grant
  <2> QED
    BY <2>1, <2>2 DEF Promised, FeedRefined!Next
<1> QED
  BY <1>2, <1>3, <1>4 DEF Route, Signup, Home, UsersPage, CheckPub,
     CheckRandom, TryFollow, TryFollowUnknown, ToSignin

LEMMA GotTargetFeeds ==
  ASSUME IInv, GotTarget
  PROVE  Promised
<1> DEFINE m == Reply("users")
<1>1. /\ replies["users"] # <<>> /\ m.then = "target"
      /\ followers' = followers /\ feed' = feed
  BY TakesFacts DEF GotTarget, Connections
<1>2. m.u \in Users /\ m.me \in Users
  BY <1>1, ReplyHead DEF UsersReplyOK, Lookups, Connections
<1>3. \/ UNCHANGED history
      \/ /\ asked' = asked \cup {<<m.me, m.u>>}
         /\ UNCHANGED <<granted, author, owed>>
  BY DEF GotTarget
<1>4. CASE UNCHANGED history
  BY <1>1, <1>4, SameFeeds DEF history
<1>5. CASE /\ asked' = asked \cup {<<m.me, m.u>>}
           /\ UNCHANGED <<granted, author, owed>>
  <2>1. FeedRefined!Ask(m.me, m.u)
    BY <1>1, <1>5 DEF FeedRefined!Ask
  <2> QED
    BY <1>2, <2>1 DEF Promised, FeedRefined!Next
<1> QED
  BY <1>3, <1>4, <1>5

LEMMA CallbackFeeds ==
  ASSUME IInv, UsersCallback \/ TweetsCallback \/ CryptoCallback
  PROVE  Promised
<1>1. CASE GotSession
  <2> DEFINE c == Reply("users").c
  <2>1. /\ replies["users"] # <<>> /\ Reply("users").then = "session"
        /\ UNCHANGED lists /\ followers' = followers /\ feed' = feed
    BY <1>1, TakesFacts DEF GotSession, Connections
  <2>2. c \in Users
    BY <2>1, ReplyHead DEF UsersReplyOK, Connections
  <2>3. CASE UNCHANGED history
    BY <2>1, <2>3, SameFeeds DEF history
  <2>4. CASE Route(c, req[c], Nobody)
    <3>1. req[c] \in Requests \cup {NoRequest}
      BY <2>2 DEF IInv, TypeOK, Tables
    <3>2. req[c] \in Requests
      BY <2>4, <3>1, RoutedIsRequest
    <3> QED
      BY <2>1, <2>2, <2>4, <3>2, RouteFeeds
  <2> QED
    BY <1>1, <2>3, <2>4 DEF GotSession
<1>2. CASE GotUser
  <2> DEFINE c == Reply("users").c
             u == IF Reply("users").found THEN Reply("users").u ELSE Nobody
  <2>1. /\ replies["users"] # <<>> /\ Reply("users").then = "user"
        /\ UNCHANGED lists
    BY <1>2, TakesFacts DEF GotUser, Connections
  <2>2. c \in Users /\ u \in Users \cup {Nobody}
    BY <2>1, ReplyHead DEF UsersReplyOK, Lookups, Connections
  <2>3. Route(c, req[c], u)
    BY <1>2 DEF GotUser
  <2> HIDE DEF u
  <2>4. req[c] \in Requests \cup {NoRequest}
    BY <2>2 DEF IInv, TypeOK, Tables
  <2>5. req[c] \in Requests
    BY <2>3, <2>4, RoutedIsRequest
  <2> QED
    BY <2>1, <2>2, <2>3, <2>5, RouteFeeds
<1>3. CASE GotTarget
  BY <1>3, GotTargetFeeds
<1>4. CASE GotPending
  BY <1>4, SameFeeds DEF GotPending, Takes, lists
<1>5. CASE \/ GotPageUser \/ GotLists \/ GotUsers \/ GotOwnTweets
           \/ GotChallenged \/ GotLogin \/ GotFollowers \/ GotTweets \/ GotRandom
  <2>1. UNCHANGED history
    BY <1>5 DEF GotPageUser, GotLists, GotUsers, GotOwnTweets, GotChallenged,
       GotLogin, GotFollowers, GotTweets, GotRandom, GotPart, history
  <2>2. UNCHANGED lists
    BY <1>5 DEF GotPageUser, GotLists, GotUsers, GotOwnTweets, GotChallenged,
       GotLogin, GotFollowers, GotTweets, GotRandom, Takes
  <2> QED
    BY <2>1, <2>2, SameFeeds DEF history, lists
<1> QED
  BY <1>1, <1>2, <1>3, <1>4, <1>5
  DEF UsersCallback, TweetsCallback, CryptoCallback

\* A tweet that redis puts in front of the list of f is one more it was shown.
LEMMA PushShows ==
  ASSUME IInv, NEW f \in Users, NEW t \in Tweets, LPush(f, t),
         registered' = registered, sessions' = sessions, randoms' = randoms,
         pending' = pending, followers' = followers, asked' = asked,
         granted' = granted, author' = author, owed' = owed, req' = req
  PROVE  FeedRefined!Show(f, t)
<1>1. \A u \in Users :
        Range(feed'[u]) = Range(feed[u]) \cup (IF u = f THEN {t} ELSE {})
  BY LPushStep
<1>2. [u \in Users |-> Range(feed'[u])] =
        [[u \in Users |-> Range(feed[u])] EXCEPT ![f] = @ \cup {t}]
  BY <1>1
<1> QED
  BY <1>2 DEF FeedRefined!Show

LEMMA AddFeeds ==
  ASSUME IInv, Add
  PROVE  Promised
<1> DEFINE m == Command("users")
<1>1. /\ sent["users"] # <<>> /\ m.do = "add"
      /\ followers' = [followers EXCEPT ![m.u] = @ \cup {m.f}]
      /\ feed' = feed /\ asked' = asked /\ granted' = granted
      /\ author' = author
  BY ExecutesFacts DEF Add
<1>2. <<m.f, m.u>> \in asked /\ <<m.u, m.f>> \in granted
  <2>1. <<m>>[1] = m
    OBVIOUS
  <2> QED
    BY <1>1, <2>1, UsersHead DEF UsersCommandOK
<1>3. m.f \in Users /\ m.u \in Users
  BY <1>2 DEF IInv, TypeOK, Tables
<1>4. FeedRefined!Follow(m.u, m.f)
  BY <1>1, <1>2 DEF FeedRefined!Follow
<1> QED
  BY <1>3, <1>4 DEF Promised, FeedRefined!Next

LEMMA LPushCopyFeeds ==
  ASSUME IInv, LPushCopy
  PROVE  Promised
<1> DEFINE m == Command("users")
           t == Head(m.ts)
<1>1. /\ m.u \in Users /\ m.f \in Users /\ m.f \in followers[m.u]
      /\ t \in Tweets /\ t \in Range(feed[m.u])
  BY CopyFacts
<1>2. /\ LPush(m.f, t)
      /\ registered' = registered /\ sessions' = sessions
      /\ randoms' = randoms /\ pending' = pending
      /\ followers' = followers /\ asked' = asked /\ granted' = granted
      /\ author' = author /\ owed' = owed /\ req' = req
  BY ExecutesFacts DEF LPushCopy, accounts
<1> HIDE DEF t
<1>3. FeedRefined!Show(m.f, t)
  BY <1>1, <1>2, PushShows
<1>4. FeedRefined!Share(m.u, m.f, t)
  BY <1>1, <1>3 DEF FeedRefined!Share
<1> QED
  BY <1>1, <1>4 DEF Promised, FeedRefined!Next

LEMMA LPushOwnFeeds ==
  ASSUME IInv, LPushOwn
  PROVE  Promised
<1> DEFINE m == Command("tweets")
<1>1. /\ sent["tweets"] # <<>> /\ m.do = "own" /\ LPush(m.u, m.t)
      /\ registered' = registered /\ sessions' = sessions
      /\ randoms' = randoms /\ pending' = pending
      /\ followers' = followers /\ asked' = asked /\ granted' = granted
      /\ author' = author /\ owed' = owed /\ req' = req
  BY ExecutesFacts DEF LPushOwn, accounts
<1>2. m.u \in Users /\ m.t \in Tweets /\ m.u \in author[m.t]
  <2>1. <<m>>[1] = m
    OBVIOUS
  <2> QED
    BY <1>1, <2>1, TweetsHead DEF TweetsCommandOK
<1>3. FeedRefined!Show(m.u, m.t)
  BY <1>1, <1>2, PushShows
<1>4. FeedRefined!Keep(m.u, m.t)
  BY <1>2, <1>3 DEF FeedRefined!Keep
<1> QED
  BY <1>2, <1>4 DEF Promised, FeedRefined!Next

LEMMA LPushFollowerFeeds ==
  ASSUME IInv, LPushFollower
  PROVE  Promised
<1> DEFINE m == Command("tweets")
<1>1. /\ m.u \in Users /\ m.t \in Tweets
      /\ m.to \subseteq followers[m.u] /\ m.to \subseteq Users
      /\ m.t \in Range(feed[m.u])
  BY PushFacts
<1>2. PICK f \in m.to : LPush(f, m.t)
  BY DEF LPushFollower
<1>3. /\ registered' = registered /\ sessions' = sessions
      /\ randoms' = randoms /\ pending' = pending
      /\ followers' = followers /\ asked' = asked /\ granted' = granted
      /\ author' = author /\ owed' = owed /\ req' = req
  BY ExecutesFacts DEF LPushFollower, accounts
<1>4. FeedRefined!Show(f, m.t)
  BY <1>1, <1>2, <1>3, PushShows
<1>5. FeedRefined!Share(m.u, f, m.t)
  BY <1>1, <1>4 DEF FeedRefined!Share
<1> QED
  BY <1>1, <1>5 DEF Promised, FeedRefined!Next

LEMMA CommandFeeds ==
  ASSUME IInv, UsersCommand \/ TweetsCommand \/ CryptoCommand
  PROVE  Promised
<1>1. CASE Add \/ LPushCopy \/ LPushOwn \/ LPushFollower
  BY <1>1, AddFeeds, LPushCopyFeeds, LPushOwnFeeds, LPushFollowerFeeds
<1>2. CASE \/ Get \/ HGet \/ Lists \/ HVals \/ HGetPending \/ LRangeOwn
           \/ HKeys \/ LRange \/ HGetRandom \/ Save \/ HSetPending \/ HSetRandom
  <2>1. UNCHANGED history
    BY <1>2 DEF Get, HGet, Lists, HVals, HGetPending, LRangeOwn, HKeys, LRange,
       HGetRandom, Save, HSetPending, HSetRandom, Executes
  <2>2. followers' = followers /\ feed' = feed
    BY <1>2 DEF Get, HGet, Lists, HVals, HGetPending, LRangeOwn, HKeys, LRange,
       HGetRandom, Save, HSetPending, HSetRandom, Done, lists
  <2> QED
    BY <2>1, <2>2, SameFeeds DEF history
<1> QED
  BY <1>1, <1>2 DEF UsersCommand, TweetsCommand, CryptoCommand

LEMMA StepFeeds == IInv /\ [Next]_vars => Promised
<1> SUFFICES ASSUME IInv, [Next]_vars
             PROVE  Promised
  OBVIOUS
<1>1. ASSUME NEW c \in Users, NEW r \in Requests, Arrive(c, r)
      PROVE  Promised
  <2>1. UNCHANGED lists
    BY <1>1 DEF Arrive
  <2>2. CASE Route(c, r, Nobody)
    BY <2>1, <2>2, RouteFeeds
  <2>3. CASE UNCHANGED history
    BY <2>1, <2>3, SameFeeds DEF lists, history
  <2> QED
    BY <1>1, <2>2, <2>3 DEF Arrive
<1>2. ASSUME NEW u \in Users, Expire(u)
      PROVE  Promised
  BY <1>2, SameFeeds DEF Expire, lists, history
<1>3. CASE UNCHANGED vars
  BY <1>3, SameFeeds DEF vars, lists, history
<1> QED
  BY <1>1, <1>2, <1>3, CallbackFeeds, CommandFeeds DEF Next, Service

LEMMA InitFeeds == Init => FeedRefined!Init
<1> SUFFICES ASSUME Init
             PROVE  FeedRefined!Init
  OBVIOUS
<1>1. asked \subseteq Users \X Users
  BY InitInv DEF IInv, TypeOK, Tables
<1>2. [u \in Users |-> Range(feed[u])] = [u \in Users |-> {}]
  <2>1. Range(<<>>) = {}
    BY DEF Range
  <2>2. \A u \in Users : feed[u] = <<>>
    BY DEF Init
  <2> QED
    BY <2>1, <2>2
<1> QED
  BY <1>1, <1>2 DEF Init, FeedRefined!Init

\* Nobody becomes a follower without having asked and been accepted, and
\* nobody is shown a tweet except its author or by somebody followed: the
\* three connections of the service implement the promises of SocialFeed.
THEOREM ImplementsFeed == Spec => FeedSpec
<1>1. IInv /\ [Next]_vars => [FeedRefined!Next]_(FeedRefined!feeds)
  BY StepFeeds DEF Promised
<1> QED
  BY <1>1, InitFeeds, Invariance, PTL DEF Spec, FeedSpec, FeedRefined!Spec

-----------------------------------------------------------------------------
(* The checker and the players only make requests                           *)

LEMMA RequestIsRequest ==
  ASSUME NEW route \in Paths, NEW cookie \in Users \cup {Nobody},
         NEW id \in Users, NEW t \in Tweets
  PROVE  Request(route, cookie, id, t) \in Requests
BY DEF Request, Requests

LEMMA AskStep ==
  ASSUME NEW c \in {Owner} \cup Fellows, step \in DOMAIN NextStep,
         Arrive(c, RequestOf(step, c))
  PROVE  Next
<1>1. /\ c \in Users /\ Owner \in Users /\ Flag \in Tweets
      /\ Nobody \in Users \cup {Nobody}
  BY CheckerAssumption
<1>2. RequestOf(step, c) \in Requests
  BY <1>1, RequestIsRequest DEF RequestOf, NextStep, Paths
<1> QED
  BY <1>1, <1>2 DEF Next

\* What the checker was started for, and where it is.
Steps == DOMAIN NextStep \cup {"idle", "end"}
ModeOK == mode \in Modes /\ step \in Steps /\ todo \subseteq Callers(step)

LEMMA NextSteps == \A s \in DOMAIN NextStep : NextStep[s] \in Steps
BY DEF NextStep, Steps

LEMMA CInitInv == CInit => Init /\ ModeOK
<1> SUFFICES ASSUME CInit
             PROVE  Init /\ ModeOK
  OBVIOUS
<1>1. \A m \in Modes : FirstStep[m] \in Steps
  BY DEF Modes, FirstStep, Steps, NextStep
<1> QED
  BY <1>1 DEF CInit, ModeOK

LEMMA AdvanceMode ==
  ASSUME ModeOK, NEW c, Advance(c)
  PROVE  ModeOK'
<1>1. /\ c \in Callers(step) /\ mode' = mode
      /\ \/ step' = NextStep[step] /\ todo' = Callers(step')
         \/ step' = step /\ todo' = todo
  BY DEF Advance, Answered
<1>2. step \in DOMAIN NextStep
  BY <1>1 DEF ModeOK, Steps, Callers
<1> QED
  BY <1>1, <1>2, NextSteps DEF ModeOK

\* One step of the checker, the players or the service, after the first.
LEMMA CheckerStep == ModeOK /\ [CNext]_all => [Next]_vars /\ ModeOK'
<1> SUFFICES ASSUME ModeOK, [CNext]_all
             PROVE  (Next \/ UNCHANGED vars) /\ ModeOK'
  OBVIOUS
<1>1. ASSUME mode' = mode, step' = step, todo' \subseteq todo
      PROVE  ModeOK'
  BY <1>1 DEF ModeOK
<1>2. CASE Service /\ UNCHANGED checker
  BY <1>1, <1>2 DEF Next, checker
<1>3. CASE Players
  <2>1. PICK c \in Members, r \in Errands[mode] : Arrive(c, r)
    BY <1>3 DEF Players
  <2>2. c \in Users /\ r \in Requests
    BY <2>1, ConstantsAssumption, CheckerAssumption DEF ModeOK
  <2> QED
    BY <1>1, <1>3, <2>1, <2>2 DEF Next, Players
<1>4. CASE Checker
  <2>1. PICK c \in {Owner} \cup Fellows : Call(c) \/ Advance(c) \/ Fail(c)
    BY <1>4 DEF Checker
  <2>2. CASE Call(c)
    <3>1. step \in DOMAIN NextStep
      BY <2>2 DEF Call, ModeOK, Steps, Callers
    <3>2. Next
      BY <2>2, <3>1, AskStep DEF Call
    <3> QED
      BY <1>1, <2>2, <3>2 DEF Call
  <2>3. CASE Advance(c)
    BY <2>3, AdvanceMode DEF Advance
  <2>4. CASE Fail(c)
    BY <1>1, <2>4 DEF Fail
  <2> QED
    BY <2>1, <2>2, <2>3, <2>4
<1>5. CASE Break
  BY <1>1, <1>5 DEF Break
<1>6. CASE SessionEnds
  BY <1>1, <1>6 DEF SessionEnds, Next, checker
<1>7. CASE UNCHANGED all
  BY <1>1, <1>7 DEF all, checker
<1> QED
  BY <1>2, <1>3, <1>4, <1>5, <1>6, <1>7 DEF CNext

\* A visit of the checker with players beside it is a behaviour of the service.
THEOREM VisitsAreRequests == CSpec => Spec
<1>1. CInit => Init /\ ModeOK
  BY CInitInv
<1>2. ModeOK /\ [CNext]_all => [Next]_vars /\ ModeOK'
  BY CheckerStep
<1> QED
  BY <1>1, <1>2, PTL DEF CSpec, Spec

\* What is proved of the service holds during the visits: the invariant of the
\* commands and replies on the way.
THEOREM CheckedInvariance == CSpec => []IInv
BY VisitsAreRequests, Invariance, PTL

\* The promises of SocialFeed hold while the checker and players are at work.
THEOREM CheckedFeed == CSpec => FeedSpec
BY VisitsAreRequests, ImplementsFeed, PTL

-----------------------------------------------------------------------------
(***************************************************************************)
(* The inductive invariant of a visit.  What the checker reads is on its   *)
(* way behind what it wrote, and both go round the connection of users.js  *)
(* as often: a fellow's page takes three rounds (its session, its user,    *)
(* the page's user) before its tweets are asked for, and so does the copy  *)
(* of the flag that was begun before (whom the fellow asked, the owner's   *)
(* list, the pushes).  So each message is seen with what is ahead of it.   *)
(***************************************************************************)

Visitors == {Owner} \cup Fellows

Items(q) == {<<q[i], {q[j] : j \in 1 .. i - 1}>> : i \in 1 .. Len(q)}

\* The messages that a visitor waits for, and these visitors.
Asks(m) ==
  /\ m.do \in {"get", "hget", "lists", "hvals", "hget random", "lrange"}
  /\ m.c \in Visitors
Answers(m) ==
  /\ m.then \in {"session", "lists", "list", "random", "feed"} \cup Lookups
  /\ m.c \in Visitors
Asking(q) == {m.c : m \in {x \in Range(q) : Asks(x)}}
Answering(q) == {m.c : m \in {x \in Range(q) : Answers(x)}}

\* Those with a message on the connection n, s and r as sent and replies.
Busy(n, s, r) == Asking(s[n]) \cup Answering(r[n])

\* Those that wait for their tweets.
Awaiting == Busy("tweets", sent, replies)

\* Each connection carries the commands of its own module, and their replies.
SentKinds ==
  [users |-> {"get", "hget", "lists", "hvals", "save", "open", "hset pending",
              "hget pending", "add", "lrange own", "copies"},
   tweets |-> {"hkeys", "own", "push", "lrange"},
   crypto |-> {"hset random", "hget random"}]
ReplyKinds ==
  [users |-> {"session", "lists", "list", "accept", "copy"} \cup Lookups,
   tweets |-> {"deliver", "feed"},
   crypto |-> {"random"}]
Wired ==
  \A n \in Connections :
    /\ \A m \in Range(sent[n]) : m.do \in SentKinds[n]
    /\ \A m \in Range(replies[n]) : m.then \in ReplyKinds[n]

\* A visitor waits for one message at a time, but for the two parts of a page.
OneQuestion(q) ==
  \A x \in Items(q) : Asks(x[1]) => \A a \in x[2] : Asks(a) => a.c # x[1].c
OneAnswer(q) ==
  \A x \in Items(q) : Answers(x[1]) => \A a \in x[2] : Answers(a) => a.c # x[1].c

OneMessage(s, r) ==
  /\ \A n \in Connections :
       /\ OneQuestion(s[n]) /\ OneAnswer(r[n])
       /\ Asking(s[n]) \cap Answering(r[n]) = {}
  /\ Busy("users", s, r) \cap Busy("crypto", s, r) = {}

\* The commands by which a user signs up, asks the owner, is accepted.
SaveUser(u) == [do |-> "save", u |-> u]
AskOwner(f) == [do |-> "hset pending", u |-> Owner, f |-> f]
AcceptFellow(f) == [do |-> "hget pending", u |-> Owner, f |-> f]
Match(f) == [then |-> "accept", u |-> Owner, f |-> f, match |-> TRUE]
CopyOwn(f) == [do |-> "lrange own", u |-> Owner, f |-> f]
CopyTo(m, f) == m.do = "copies" /\ m.f = f
CopyFrom(m, f) == m.then = "copy" /\ m.u = Owner /\ m.f = f

Known(u) ==
  /\ u \in registered
  /\ u \in sessions \/ (u = Owner /\ step \in {"signin", "challenge", "get"})

\* How far the way of the flag to the fellow f is.
Shown(f) == feed[f] # <<>>
Copying(f) == Shown(f) \/ \E m \in Range(sent["users"]) : CopyTo(m, f)
Copied(f) == Copying(f) \/ \E m \in Range(replies["users"]) : CopyFrom(m, f)
Added(f) == Copied(f) \/ CopyOwn(f) \in Range(sent["users"])
Matched(f) == Added(f) \/ Match(f) \in Range(replies["users"])
Accepted(f) == Matched(f) \/ AcceptFellow(f) \in Range(sent["users"])

Waiting(f) == Matched(f) \/ pending[f] = Owner
Asked(f) == Waiting(f) \/ AskOwner(f) \in Range(sent["users"])

ChallengeOwner == [do |-> "hset random", u |-> Owner]
Challenged ==
  Owner \in randoms \/ ChallengeOwner \in Range(sent["crypto"])

\* The client c has asked, and has nothing of a page yet.
Fresh(c) == req[c] # NoRequest /\ parts[c] = NoParts /\ c \notin Awaiting

\* Who must see the flag, and what a client is shown.
Reader(c) == c \in Fellows \/ step = "get"
TweetsOK(c, ts) ==
  /\ ts \in Seq({Flag})
  /\ ts # <<>> => Shown(c)
  /\ Reader(c) => ts # <<>>

\* A lookup on its way to redis or back, for a client of the checker or another.
LookupOK(m) ==
  IF m.c \in Visitors
  THEN /\ Fresh(m.c) /\ m.u \in Visitors
       /\ m.then = "user" => m.u = req[m.c].cookie
       /\ m.then = "page" => m.u = m.c /\ req[m.c].route = "home"
       /\ m.then = "target" => /\ m.me = req[m.c].cookie /\ m.u = req[m.c].id
                               /\ req[m.c].route = "tryfollow"
       /\ m.then = "challenge" => /\ m.u = req[m.c].id
                                  /\ req[m.c].route = "checkpub"
       /\ m.then = "login" => req[m.c].route = "checkrandom"
  ELSE /\ m.then = "user" => m.u \notin Visitors
       /\ m.then = "target" => m.me \notin Visitors

SessionOK(m) ==
  IF m.c \in Visitors
  THEN Fresh(m.c) /\ m.u \in Visitors /\ m.u = req[m.c].cookie
  ELSE m.u \notin Visitors

ListsOK(m) ==
  m.c \in Visitors => req[m.c].route = "home" /\ "lists" \notin parts[m.c].got

\* The command m of users.js with the commands A ahead of it.
UsersSentOK(m, A) ==
  /\ m.do = "get" =>
       /\ SessionOK(m)
       /\ m.c \in Visitors => Known(m.u) \/ SaveUser(m.u) \in A
  /\ m.do = "hget" =>
       /\ LookupOK(m)
       /\ m.c \in Visitors => m.u \in registered \/ SaveUser(m.u) \in A
  /\ m.do = "hvals" /\ m.c \in Visitors =>
       /\ Fresh(m.c) /\ req[m.c].route = "users"
       /\ m.c \in registered \/ SaveUser(m.c) \in A
  /\ m.do = "lists" => ListsOK(m)
  /\ m.do = "hget pending" /\ m.u = Owner =>
       m.f \in Fellows /\ (Waiting(m.f) \/ AskOwner(m.f) \in A)
  /\ m.do = "add" /\ m.u = Owner => m.f \in Fellows /\ Added(m.f)

\* A fellow's request for its page, behind the flag's way to it.
ReadingSent(m, A) ==
  /\ m.do = "get" /\ m.c \in Fellows /\ req[m.c].route = "home" =>
       Matched(m.c) \/ AcceptFellow(m.c) \in A
  /\ m.do = "hget" /\ m.then = "user" /\ m.c \in Fellows
       /\ req[m.c].route = "home" =>
       Copied(m.c) \/ CopyOwn(m.c) \in A
  /\ m.do = "hget" /\ m.then = "page" /\ m.c \in Fellows =>
       Shown(m.c) \/ \E a \in A : CopyTo(a, m.c)

UsersReplySafe(m) ==
  /\ m.then = "session" =>
       /\ SessionOK(m)
       /\ m.c \in Visitors =>
            /\ m.u \in registered
            /\ m.found \/ (m.u = Owner /\ step = "get")
  /\ m.then \in Lookups => LookupOK(m) /\ (m.c \in Visitors => m.found)
  /\ m.then = "list" /\ m.c \in Visitors =>
       Fresh(m.c) /\ req[m.c].route = "users" /\ m.c \in m.users
  /\ m.then = "lists" => ListsOK(m)
  /\ m.then = "copy" /\ m.u = Owner => m.ts # <<>>

ReadingReply(m, A) ==
  /\ m.then = "session" /\ m.c \in Fellows /\ req[m.c].route = "home" =>
       Added(m.c) \/ Match(m.c) \in A
  /\ m.then = "user" /\ m.c \in Fellows /\ req[m.c].route = "home" =>
       Copying(m.c) \/ \E a \in A : CopyFrom(a, m.c)
  /\ m.then = "page" /\ m.c \in Fellows => Shown(m.c)

SentWay(q) ==
  \A x \in Items(q) : UsersSentOK(x[1], x[2]) /\ ReadingSent(x[1], x[2])
ReplyWay(q) ==
  \A x \in Items(q) : UsersReplySafe(x[1]) /\ ReadingReply(x[1], x[2])
WayOK == SentWay(sent["users"]) /\ ReplyWay(replies["users"])

\* A visitor's request for its tweets, their answer, the parts of its page.
PageSentOK(m) ==
  m.do = "lrange" /\ m.c \in Visitors =>
    /\ m.u = m.c /\ req[m.c].route = "home"
    /\ "tweets" \notin parts[m.c].got
    /\ Reader(m.c) => Shown(m.c)

PageReplyOK(m) ==
  m.then = "feed" /\ m.c \in Visitors =>
    /\ req[m.c].route = "home" /\ "tweets" \notin parts[m.c].got
    /\ TweetsOK(m.c, m.ts)

PartsOK(c) ==
  \/ parts[c] = NoParts
  \/ parts[c].got = {"lists"} /\ req[c].route = "home"
  \/ /\ parts[c].got = {"tweets"} /\ req[c].route = "home"
     /\ TweetsOK(c, parts[c].tweets)

PageOK ==
  /\ \A m \in Range(sent["tweets"]) : PageSentOK(m)
  /\ \A m \in Range(replies["tweets"]) : PageReplyOK(m)
  /\ \A c \in Visitors : PartsOK(c)

\* The owner's answer to the challenge, behind the challenge.
OwnerAnswers(c) == c = Owner /\ Fresh(c) /\ req[c].route = "checkrandom"

ChallengeSentOK(m, A) ==
  m.do = "hget random" /\ m.c \in Visitors =>
    /\ OwnerAnswers(m.c) /\ m.u = Owner
    /\ Owner \in randoms \/ ChallengeOwner \in A

ChallengeReplyOK(m) ==
  m.then = "random" /\ m.c \in Visitors =>
    OwnerAnswers(m.c) /\ m.u = Owner /\ m.found

ChallengeOK ==
  /\ \A x \in Items(sent["crypto"]) : ChallengeSentOK(x[1], x[2])
  /\ \A m \in Range(replies["crypto"]) : ChallengeReplyOK(m)

\* What the requests of the visitors and the players have left.
TraceOK ==
  /\ \A f \in Visitors, u \in Users : <<f, u>> \in asked => f \in Fellows /\ u = Owner
  /\ \A u \in Visitors, f \in Users : <<u, f>> \in granted =>
       u = Owner /\ f \in Fellows /\ Shown(Owner)
  /\ \A t \in Tweets : \A u \in Visitors \cap author[t] : u = Owner /\ t = Flag
  /\ \A u \in Users : \A f \in followers[u] :
       <<f, u>> \in asked /\ <<u, f>> \in granted
  /\ \A c \in Visitors : feed[c] \in Seq({Flag})

\* The requests under way are those of the step, and what was answered is good.
RequestsOK ==
  /\ step \in DOMAIN NextStep
  /\ parts = [c \in Users |-> parts[c]] /\ answer = [c \in Users |-> answer[c]]
  /\ todo \subseteq Callers(step)
  /\ back \subseteq Callers(step) \ todo
  /\ \A c \in back : answer[c] # NoAnswer
  /\ \A c \in Visitors : req[c] # NoRequest =>
       /\ c \in Callers(step) \ todo /\ answer[c] = NoAnswer
       /\ req[c] = RequestOf(step, c)
  /\ printed => step \notin {"signup", "tweet", "own"}

Served(c) == c \in Callers(step) \ todo /\ answer[c] # NoAnswer

\* An answer is what the checker waits for, and what it stands for was begun.
AnswerOK(c) ==
  /\ step \in {"own", "read", "get"} => TweetsOK(c, answer[c].tweets)
  /\ step = "challenge" => answer[c].page = "home"
  /\ step = "users" => c \in answer[c].users
  /\ step = "ask" => Asked(c)
  /\ step = "accept" => Accepted(c)
  /\ step = "signin" => Challenged

AnswersOK == \A c \in Visitors : Served(c) => AnswerOK(c)

\* What the steps behind have led to.
SignedUp(u) == Known(u) \/ SaveUser(u) \in Range(sent["users"])

ProgressOK ==
  /\ (step \in {"signup", "join"} /\ Owner \in todo) \/ SignedUp(Owner)
  /\ step = "fellows" => \A f \in Fellows \ todo : SignedUp(f)
  /\ step \in {"ask", "accept", "read", "signin", "challenge", "get"} =>
       \A f \in Fellows : SignedUp(f)
  /\ step \in {"fellows", "ask", "accept", "read", "signin", "challenge", "get"}
       => Shown(Owner)
  /\ step \in {"accept", "read", "signin", "challenge", "get"} =>
       \A f \in Fellows : Asked(f)
  /\ step \in {"read", "signin", "challenge", "get"} =>
       \A f \in Fellows : Accepted(f)
  /\ step \in {"challenge", "get"} => Challenged

RunningOK ==
  /\ OneMessage(sent, replies) /\ WayOK /\ PageOK /\ ChallengeOK /\ TraceOK
  /\ RequestsOK /\ AnswersOK /\ ProgressOK

VisitIInv ==
  /\ Wired /\ broken \in Nat
  /\ mode = "none" => step = "idle" /\ todo = {} /\ back = {} /\ status = "running"
  /\ mode # "none" /\ status = "running" => RunningOK
  /\ OnlyOwnPageFails

-----------------------------------------------------------------------------
(* A queue as the set of its messages, each with what is ahead of it        *)

LEMMA ItemsRange ==
  ASSUME NEW q, q \in Seq(Range(q))
  PROVE  /\ \A x \in Items(q) :
              x[1] \in Range(q) /\ x[2] \subseteq Range(q) /\ x = <<x[1], x[2]>>
         /\ \A m \in Range(q) : \E A : <<m, A>> \in Items(q)
<1>1. /\ Len(q) \in Nat
      /\ \A x : x \in Range(q) <=> \E i \in 1 .. Len(q) : x = q[i]
  BY Elements
<1>2. ASSUME NEW x \in Items(q)
      PROVE  x[1] \in Range(q) /\ x[2] \subseteq Range(q) /\ x = <<x[1], x[2]>>
  <2>1. PICK i \in 1 .. Len(q) : x = <<q[i], {q[j] : j \in 1 .. i - 1}>>
    BY DEF Items
  <2>2. x[1] = q[i] /\ x[2] = {q[j] : j \in 1 .. i - 1}
    BY <2>1
  <2>3. \A j \in 1 .. i - 1 : j \in 1 .. Len(q)
    BY <1>1
  <2> QED
    BY <1>1, <2>1, <2>2, <2>3
<1>3. ASSUME NEW m \in Range(q) PROVE \E A : <<m, A>> \in Items(q)
  <2>1. PICK i \in 1 .. Len(q) : m = q[i]
    BY <1>1
  <2>2. <<m, {q[j] : j \in 1 .. i - 1}>> \in Items(q)
    BY <2>1 DEF Items
  <2> QED
    BY <2>2
<1> QED
  BY <1>2, <1>3

\* The new message is behind all others.
LEMMA ItemsAppend ==
  ASSUME NEW q, q \in Seq(Range(q)), NEW m
  PROVE  /\ Items(Append(q, m)) = Items(q) \cup {<<m, Range(q)>>}
         /\ Range(Append(q, m)) = Range(q) \cup {m}
<1> DEFINE r == Append(q, m)
<1>1. /\ r \in Seq(Range(r)) /\ Len(q) \in Nat /\ Len(r) = Len(q) + 1
      /\ \A i \in 1 .. Len(q) : r[i] = q[i]
      /\ r[Len(q) + 1] = m
  BY AppendQueue
<1> HIDE DEF r
<1>2. /\ \A x : x \in Range(q) <=> \E i \in 1 .. Len(q) : x = q[i]
      /\ \A x : x \in Range(r) <=> \E i \in 1 .. Len(r) : x = r[i]
  BY <1>1, Elements
<1>3. \A i \in 1 .. Len(q) : {r[j] : j \in 1 .. i - 1} = {q[j] : j \in 1 .. i - 1}
  <2> TAKE i \in 1 .. Len(q)
  <2>1. \A j \in 1 .. i - 1 : j \in 1 .. Len(q)
    BY <1>1
  <2> QED
    BY <1>1, <2>1
<1>4. {r[j] : j \in 1 .. (Len(q) + 1) - 1} = Range(q)
  <2>1. 1 .. (Len(q) + 1) - 1 = 1 .. Len(q)
    BY <1>1
  <2>2. \A x : x \in {r[j] : j \in 1 .. Len(q)} <=> x \in Range(q)
    <3> TAKE x
    <3>1. x \in {r[j] : j \in 1 .. Len(q)} <=> \E i \in 1 .. Len(q) : x = r[i]
      OBVIOUS
    <3>2. x \in Range(q) <=> \E i \in 1 .. Len(q) : x = q[i]
      BY <1>2
    <3>3. \A i \in 1 .. Len(q) : r[i] = q[i]
      BY <1>1
    <3> QED
      BY <3>1, <3>2, <3>3
  <2> QED
    BY <2>1, <2>2
<1>5. 1 .. Len(r) = (1 .. Len(q)) \cup {Len(q) + 1}
  BY <1>1
<1>6. ASSUME NEW x \in Items(r) PROVE x \in Items(q) \cup {<<m, Range(q)>>}
  <2>1. PICK i \in 1 .. Len(r) : x = <<r[i], {r[j] : j \in 1 .. i - 1}>>
    BY DEF Items
  <2>2. CASE i \in 1 .. Len(q)
    BY <1>1, <1>3, <2>1, <2>2 DEF Items
  <2>3. CASE i = Len(q) + 1
    BY <1>1, <1>4, <2>1, <2>3
  <2> QED
    BY <1>5, <2>2, <2>3
<1>7. ASSUME NEW x \in Items(q) PROVE x \in Items(r)
  <2>1. PICK i \in 1 .. Len(q) : x = <<q[i], {q[j] : j \in 1 .. i - 1}>>
    BY DEF Items
  <2>2. x = <<r[i], {r[j] : j \in 1 .. i - 1}>> /\ i \in 1 .. Len(r)
    BY <1>1, <1>3, <1>5, <2>1
  <2> QED
    BY <2>2 DEF Items
<1>8. <<m, Range(q)>> \in Items(r)
  <2>1. Len(q) + 1 \in 1 .. Len(r)
    BY <1>5
  <2>2. <<r[Len(q) + 1], {r[j] : j \in 1 .. (Len(q) + 1) - 1}>> \in Items(r)
    BY <2>1 DEF Items
  <2> QED
    BY <1>1, <1>4, <2>2
<1>9. \A x : x \in Range(r) <=> x \in Range(q) \cup {m}
  <2> TAKE x
  <2>1. x \in Range(r) <=> \E i \in 1 .. Len(r) : x = r[i]
    BY <1>2
  <2>2. x \in Range(q) <=> \E i \in 1 .. Len(q) : x = q[i]
    BY <1>2
  <2>3. \A i \in 1 .. Len(q) : r[i] = q[i] /\ i \in 1 .. Len(r)
    BY <1>1, <1>5
  <2>4. Len(q) + 1 \in 1 .. Len(r) /\ r[Len(q) + 1] = m
    BY <1>1, <1>5
  <2> QED
    BY <1>5, <2>1, <2>2, <2>3, <2>4
<1> QED
  BY <1>6, <1>7, <1>8, <1>9 DEF r

\* The first message is no longer ahead of the others.
LEMMA ItemsTail ==
  ASSUME NEW q, q \in Seq(Range(q)), q # <<>>
  PROVE  /\ \A x \in Items(Tail(q)) : <<x[1], x[2] \cup {Head(q)}>> \in Items(q)
         /\ Range(q) = Range(Tail(q)) \cup {Head(q)}
         /\ <<Head(q), {}>> \in Items(q)
<1> DEFINE r == Tail(q)
           h == Head(q)
<1>1. /\ r \in Seq(Range(r)) /\ Len(q) \in Nat \ {0} /\ Len(r) = Len(q) - 1
      /\ h = q[1] /\ \A i \in 1 .. Len(r) : r[i] = q[i + 1]
  BY TailQueue
<1> HIDE DEF r, h
<1>2. /\ \A x : x \in Range(q) <=> \E i \in 1 .. Len(q) : x = q[i]
      /\ \A x : x \in Range(r) <=> \E i \in 1 .. Len(r) : x = r[i]
  BY <1>1, Elements
<1>3. ASSUME NEW x \in Items(r) PROVE <<x[1], x[2] \cup {h}>> \in Items(q)
  <2>1. PICK i \in 1 .. Len(r) : x = <<r[i], {r[j] : j \in 1 .. i - 1}>>
    BY DEF Items
  <2>2. i + 1 \in 1 .. Len(q) /\ r[i] = q[i + 1]
    BY <1>1
  <2>3. ASSUME NEW y
        PROVE  y \in {r[j] : j \in 1 .. i - 1} \cup {h}
                 <=> y \in {q[j] : j \in 1 .. (i + 1) - 1}
    <3>1. ASSUME NEW j \in 1 .. i - 1
          PROVE  r[j] = q[j + 1] /\ j + 1 \in 1 .. (i + 1) - 1
      BY <1>1
    <3>2. ASSUME NEW k \in 1 .. (i + 1) - 1, k # 1
          PROVE  k - 1 \in 1 .. i - 1 /\ r[k - 1] = q[k]
      <4>1. k - 1 \in 1 .. i - 1 /\ k - 1 \in 1 .. Len(r) /\ (k - 1) + 1 = k
        BY <1>1, <3>2
      <4>2. r[k - 1] = q[(k - 1) + 1]
        BY <1>1, <4>1
      <4> QED
        BY <4>1, <4>2
    <3>3. 1 \in 1 .. (i + 1) - 1
      BY <1>1
    <3>4. ASSUME y \in {q[j] : j \in 1 .. (i + 1) - 1}
          PROVE  y \in {r[j] : j \in 1 .. i - 1} \cup {h}
      <4>1. PICK k \in 1 .. (i + 1) - 1 : y = q[k]
        BY <3>4
      <4>2. CASE k = 1
        BY <1>1, <4>1, <4>2
      <4>3. CASE k # 1
        BY <3>2, <4>1, <4>3
      <4> QED
        BY <4>2, <4>3
    <3>5. ASSUME y \in {r[j] : j \in 1 .. i - 1} \cup {h}
          PROVE  y \in {q[j] : j \in 1 .. (i + 1) - 1}
      BY <1>1, <3>1, <3>3, <3>5
    <3> QED
      BY <3>4, <3>5
  <2>4. <<q[i + 1], {q[j] : j \in 1 .. (i + 1) - 1}>> \in Items(q)
    BY <2>2 DEF Items
  <2>5. x[1] = q[i + 1] /\ x[2] = {r[j] : j \in 1 .. i - 1}
    BY <2>1, <2>2
  <2>6. x[2] \cup {h} = {q[j] : j \in 1 .. (i + 1) - 1}
    BY <2>3, <2>5
  <2> QED
    BY <2>4, <2>5, <2>6
<1>4. \A x : x \in Range(q) <=> x \in Range(r) \cup {h}
  <2>1. \A i \in 1 .. Len(q) : i = 1 \/ (i - 1 \in 1 .. Len(r) /\ r[i - 1] = q[i])
    <3> TAKE i \in 1 .. Len(q)
    <3>1. i # 1 => i - 1 \in 1 .. Len(r) /\ (i - 1) + 1 = i
      BY <1>1
    <3> QED
      BY <1>1, <3>1
  <2>2. \A i \in 1 .. Len(r) : i + 1 \in 1 .. Len(q)
    BY <1>1
  <2>3. 1 \in 1 .. Len(q)
    BY <1>1
  <2>4. q[1] = h
    BY <1>1
  <2> TAKE x
  <2>5. x \in Range(q) <=> \E i \in 1 .. Len(q) : x = q[i]
    BY <1>2
  <2>6. x \in Range(r) <=> \E i \in 1 .. Len(r) : x = r[i]
    BY <1>2
  <2>7. ASSUME x \in Range(q) PROVE x \in Range(r) \cup {h}
    <3>1. PICK i \in 1 .. Len(q) : x = q[i]
      BY <2>5, <2>7
    <3> QED
      BY <2>1, <2>4, <2>6, <3>1
  <2>8. ASSUME x \in Range(r) PROVE x \in Range(q)
    <3>1. PICK i \in 1 .. Len(r) : x = r[i]
      BY <2>6, <2>8
    <3>2. i + 1 \in 1 .. Len(q) /\ q[i + 1] = r[i]
      BY <1>1, <2>2, <3>1
    <3> QED
      BY <2>5, <3>1, <3>2
  <2> QED
    BY <2>3, <2>4, <2>5, <2>7, <2>8
<1>5. <<h, {}>> \in Items(q)
  <2>1. 1 \in 1 .. Len(q) /\ 1 .. 1 - 1 = {}
    BY <1>1
  <2>2. <<q[1], {q[j] : j \in 1 .. 1 - 1}>> \in Items(q)
    BY <2>1 DEF Items
  <2>3. {q[j] : j \in 1 .. 1 - 1} = {}
    BY <2>1
  <2> QED
    BY <1>1, <2>2, <2>3
<1> QED
  BY <1>3, <1>4, <1>5 DEF r, h

\* Another message in the place of the first.
LEMMA ItemsNewHead ==
  ASSUME NEW q, q \in Seq(Range(q)), q # <<>>, NEW m
  PROVE  /\ \A x \in Items(<<m>> \o Tail(q)) :
              \/ x[1] = m
              \/ \E A : /\ <<x[1], A>> \in Items(q)
                        /\ A \subseteq x[2] \cup {Head(q)} /\ x[2] \subseteq A \cup {m}
         /\ Range(<<m>> \o Tail(q)) = Range(Tail(q)) \cup {m}
<1> DEFINE r == <<m>> \o Tail(q)
           t == Tail(q)
<1>1. /\ r \in Seq(Range(r)) /\ Len(q) \in Nat \ {0} /\ Len(r) = Len(q)
      /\ r[1] = m /\ \A i \in 2 .. Len(q) : r[i] = q[i]
      /\ t \in Seq(Range(t)) /\ Len(t) = Len(q) - 1 /\ Head(q) = q[1]
      /\ \A i \in 1 .. Len(t) : t[i] = q[i + 1]
  BY NewHead, TailQueue
<1> HIDE DEF r, t
<1>2. /\ \A x : x \in Range(r) <=> \E i \in 1 .. Len(r) : x = r[i]
      /\ \A x : x \in Range(t) <=> \E i \in 1 .. Len(t) : x = t[i]
  BY <1>1, Elements
<1>3. ASSUME NEW x \in Items(r), x[1] # m
      PROVE  \E A : /\ <<x[1], A>> \in Items(q)
                    /\ A \subseteq x[2] \cup {Head(q)} /\ x[2] \subseteq A \cup {m}
  <2>1. PICK i \in 1 .. Len(r) : x = <<r[i], {r[j] : j \in 1 .. i - 1}>>
    BY DEF Items
  <2>2. i # 1 /\ i \in 2 .. Len(q) /\ i \in 1 .. Len(q) /\ x[1] = q[i]
    BY <1>1, <1>3, <2>1
  <2>3. {q[j] : j \in 1 .. i - 1} \subseteq x[2] \cup {Head(q)}
    <3>1. ASSUME NEW j \in 1 .. i - 1 PROVE q[j] \in x[2] \cup {Head(q)}
      <4>1. j = 1 \/ j \in 2 .. Len(q)
        BY <1>1, <2>2
      <4>2. j \in 2 .. Len(q) => r[j] = q[j] /\ r[j] \in x[2]
        BY <1>1, <2>1
      <4> QED
        BY <1>1, <4>1, <4>2
    <3> QED
      BY <3>1
  <2>4. <<q[i], {q[j] : j \in 1 .. i - 1}>> \in Items(q)
    BY <2>2 DEF Items
  <2>5. x[2] \subseteq {q[j] : j \in 1 .. i - 1} \cup {m}
    <3>1. ASSUME NEW j \in 1 .. i - 1
          PROVE  r[j] \in {q[k] : k \in 1 .. i - 1} \cup {m}
      <4>1. j = 1 \/ j \in 2 .. Len(q)
        BY <1>1, <2>2
      <4> QED
        BY <1>1, <4>1
    <3>2. x[2] = {r[j] : j \in 1 .. i - 1}
      BY <2>1
    <3> QED
      BY <3>1, <3>2
  <2> QED
    BY <2>2, <2>3, <2>4, <2>5
<1>4. \A x : x \in Range(r) <=> x \in Range(t) \cup {m}
  <2>1. \A i \in 1 .. Len(r) : i = 1 \/ (i - 1 \in 1 .. Len(t) /\ t[i - 1] = r[i])
    <3> TAKE i \in 1 .. Len(r)
    <3>1. i # 1 => i - 1 \in 1 .. Len(t) /\ (i - 1) + 1 = i /\ i \in 2 .. Len(q)
      BY <1>1
    <3> QED
      BY <1>1, <3>1
  <2>2. \A i \in 1 .. Len(t) : /\ i + 1 \in 1 .. Len(r) /\ i + 1 \in 2 .. Len(q)
                               /\ r[i + 1] = t[i]
    BY <1>1
  <2>3. 1 \in 1 .. Len(r)
    BY <1>1
  <2>4. r[1] = m
    BY <1>1
  <2> TAKE x
  <2>5. x \in Range(r) <=> \E i \in 1 .. Len(r) : x = r[i]
    BY <1>2
  <2>6. x \in Range(t) <=> \E i \in 1 .. Len(t) : x = t[i]
    BY <1>2
  <2>7. ASSUME x \in Range(r) PROVE x \in Range(t) \cup {m}
    <3>1. PICK i \in 1 .. Len(r) : x = r[i]
      BY <2>5, <2>7
    <3> QED
      BY <2>1, <2>4, <2>6, <3>1
  <2>8. ASSUME x \in Range(t) PROVE x \in Range(r)
    <3>1. PICK i \in 1 .. Len(t) : x = t[i]
      BY <2>6, <2>8
    <3>2. i + 1 \in 1 .. Len(r) /\ r[i + 1] = t[i]
      BY <1>1, <2>2, <3>1
    <3> QED
      BY <2>5, <3>1, <3>2
  <2> QED
    BY <2>3, <2>4, <2>5, <2>7, <2>8
<1> QED
  BY <1>3, <1>4 DEF r, t

-----------------------------------------------------------------------------
(* A visitor waits for one message                                          *)

LEMMA AskingAppend ==
  ASSUME NEW q, q \in Seq(Range(q)), NEW m, OneQuestion(q),
         Asks(m) => m.c \notin Asking(q)
  PROVE  /\ OneQuestion(Append(q, m))
         /\ Asks(m) => Asking(Append(q, m)) = Asking(q) \cup {m.c}
         /\ ~Asks(m) => Asking(Append(q, m)) = Asking(q)
<1> DEFINE r == Append(q, m)
<1>1. Items(r) = Items(q) \cup {<<m, Range(q)>>} /\ Range(r) = Range(q) \cup {m}
  BY ItemsAppend
<1> HIDE DEF r
<1>2. OneQuestion(r)
  <2> SUFFICES ASSUME NEW x \in Items(r), Asks(x[1]), NEW a \in x[2], Asks(a)
               PROVE  a.c # x[1].c
    BY DEF OneQuestion
  <2>1. CASE x \in Items(q)
    BY <2>1 DEF OneQuestion
  <2>2. CASE x = <<m, Range(q)>>
    <3>1. x[1] = m /\ x[2] = Range(q)
      BY <2>2
    <3>2. a.c \in Asking(q)
      BY <3>1 DEF Asking
    <3> QED
      BY <3>1, <3>2
  <2> QED
    BY <1>1, <2>1, <2>2
<1>3. Asks(m) => Asking(r) = Asking(q) \cup {m.c}
  BY <1>1 DEF Asking
<1>4. ~Asks(m) => Asking(r) = Asking(q)
  BY <1>1 DEF Asking
<1> QED
  BY <1>2, <1>3, <1>4 DEF r

LEMMA AskingTail ==
  ASSUME NEW q, q \in Seq(Range(q)), q # <<>>, OneQuestion(q)
  PROVE  /\ OneQuestion(Tail(q))
         /\ Asking(Tail(q)) \subseteq Asking(q)
         /\ Asks(Head(q)) => /\ Head(q).c \in Asking(q)
                             /\ Head(q).c \notin Asking(Tail(q))
<1> DEFINE r == Tail(q)
           h == Head(q)
<1>1. /\ \A x \in Items(r) : <<x[1], x[2] \cup {h}>> \in Items(q)
      /\ Range(q) = Range(r) \cup {h}
  BY ItemsTail
<1>2. r \in Seq(Range(r))
  BY TailQueue
<1> HIDE DEF r, h
<1>3. OneQuestion(r)
  <2> SUFFICES ASSUME NEW x \in Items(r), Asks(x[1]), NEW a \in x[2], Asks(a)
               PROVE  a.c # x[1].c
    BY DEF OneQuestion
  <2> DEFINE y == <<x[1], x[2] \cup {h}>>
  <2>1. y \in Items(q) /\ y[1] = x[1] /\ a \in y[2]
    BY <1>1
  <2> HIDE DEF y
  <2>2. Asks(y[1]) => \A b \in y[2] : Asks(b) => b.c # y[1].c
    BY <2>1 DEF OneQuestion
  <2> QED
    BY <2>1, <2>2
<1>4. Asking(r) \subseteq Asking(q)
  BY <1>1 DEF Asking
<1>5. ASSUME Asks(h) PROVE h.c \in Asking(q) /\ h.c \notin Asking(r)
  <2>1. h.c \in Asking(q)
    BY <1>1, <1>5 DEF Asking
  <2>2. ASSUME NEW m \in Range(r), Asks(m), m.c = h.c PROVE FALSE
    <3>1. PICK A : <<m, A>> \in Items(r)
      BY <1>2, ItemsRange
    <3>2. <<m, A \cup {h}>> \in Items(q)
      BY <1>1, <3>1
    <3> DEFINE y == <<m, A \cup {h}>>
    <3>3. y[1] = m /\ h \in y[2] /\ y \in Items(q)
      BY <3>2
    <3> HIDE DEF y
    <3>4. Asks(y[1]) => \A b \in y[2] : Asks(b) => b.c # y[1].c
      BY <3>3 DEF OneQuestion
    <3> QED
      BY <1>5, <2>2, <3>3, <3>4
  <2> QED
    BY <2>1, <2>2 DEF Asking
<1> QED
  BY <1>3, <1>4, <1>5 DEF r, h

LEMMA AnsweringAppend ==
  ASSUME NEW q, q \in Seq(Range(q)), NEW m, OneAnswer(q),
         Answers(m) => m.c \notin Answering(q)
  PROVE  /\ OneAnswer(Append(q, m))
         /\ Answers(m) => Answering(Append(q, m)) = Answering(q) \cup {m.c}
         /\ ~Answers(m) => Answering(Append(q, m)) = Answering(q)
<1> DEFINE r == Append(q, m)
<1>1. Items(r) = Items(q) \cup {<<m, Range(q)>>} /\ Range(r) = Range(q) \cup {m}
  BY ItemsAppend
<1> HIDE DEF r
<1>2. OneAnswer(r)
  <2> SUFFICES ASSUME NEW x \in Items(r), Answers(x[1]), NEW a \in x[2], Answers(a)
               PROVE  a.c # x[1].c
    BY DEF OneAnswer
  <2>1. CASE x \in Items(q)
    BY <2>1 DEF OneAnswer
  <2>2. CASE x = <<m, Range(q)>>
    <3>1. x[1] = m /\ x[2] = Range(q)
      BY <2>2
    <3>2. a.c \in Answering(q)
      BY <3>1 DEF Answering
    <3> QED
      BY <3>1, <3>2
  <2> QED
    BY <1>1, <2>1, <2>2
<1>3. Answers(m) => Answering(r) = Answering(q) \cup {m.c}
  BY <1>1 DEF Answering
<1>4. ~Answers(m) => Answering(r) = Answering(q)
  BY <1>1 DEF Answering
<1> QED
  BY <1>2, <1>3, <1>4 DEF r

LEMMA AnsweringTail ==
  ASSUME NEW q, q \in Seq(Range(q)), q # <<>>, OneAnswer(q)
  PROVE  /\ OneAnswer(Tail(q))
         /\ Answering(Tail(q)) \subseteq Answering(q)
         /\ Answers(Head(q)) => /\ Head(q).c \in Answering(q)
                             /\ Head(q).c \notin Answering(Tail(q))
<1> DEFINE r == Tail(q)
           h == Head(q)
<1>1. /\ \A x \in Items(r) : <<x[1], x[2] \cup {h}>> \in Items(q)
      /\ Range(q) = Range(r) \cup {h}
  BY ItemsTail
<1>2. r \in Seq(Range(r))
  BY TailQueue
<1> HIDE DEF r, h
<1>3. OneAnswer(r)
  <2> SUFFICES ASSUME NEW x \in Items(r), Answers(x[1]), NEW a \in x[2], Answers(a)
               PROVE  a.c # x[1].c
    BY DEF OneAnswer
  <2> DEFINE y == <<x[1], x[2] \cup {h}>>
  <2>1. y \in Items(q) /\ y[1] = x[1] /\ a \in y[2]
    BY <1>1
  <2> HIDE DEF y
  <2>2. Answers(y[1]) => \A b \in y[2] : Answers(b) => b.c # y[1].c
    BY <2>1 DEF OneAnswer
  <2> QED
    BY <2>1, <2>2
<1>4. Answering(r) \subseteq Answering(q)
  BY <1>1 DEF Answering
<1>5. ASSUME Answers(h) PROVE h.c \in Answering(q) /\ h.c \notin Answering(r)
  <2>1. h.c \in Answering(q)
    BY <1>1, <1>5 DEF Answering
  <2>2. ASSUME NEW m \in Range(r), Answers(m), m.c = h.c PROVE FALSE
    <3>1. PICK A : <<m, A>> \in Items(r)
      BY <1>2, ItemsRange
    <3>2. <<m, A \cup {h}>> \in Items(q)
      BY <1>1, <3>1
    <3> DEFINE y == <<m, A \cup {h}>>
    <3>3. y[1] = m /\ h \in y[2] /\ y \in Items(q)
      BY <3>2
    <3> HIDE DEF y
    <3>4. Answers(y[1]) => \A b \in y[2] : Answers(b) => b.c # y[1].c
      BY <3>3 DEF OneAnswer
    <3> QED
      BY <1>5, <2>2, <3>3, <3>4
  <2> QED
    BY <2>1, <2>2 DEF Answering
<1> QED
  BY <1>3, <1>4, <1>5 DEF r, h

LEMMA AskingNewHead ==
  ASSUME NEW q, q \in Seq(Range(q)), q # <<>>, OneQuestion(q),
         NEW m, ~Asks(m), ~Asks(Head(q))
  PROVE  /\ OneQuestion(<<m>> \o Tail(q))
         /\ Asking(<<m>> \o Tail(q)) \subseteq Asking(q)
<1> DEFINE r == <<m>> \o Tail(q)
           h == Head(q)
<1>1. /\ \A x \in Items(r) :
           \/ x[1] = m
           \/ \E A : /\ <<x[1], A>> \in Items(q)
                     /\ A \subseteq x[2] \cup {h} /\ x[2] \subseteq A \cup {m}
      /\ Range(r) = Range(Tail(q)) \cup {m}
  BY ItemsNewHead
<1>2. Range(q) = Range(Tail(q)) \cup {h}
  BY ItemsTail
<1> HIDE DEF r, h
<1>3. Asking(r) \subseteq Asking(q)
  BY <1>1, <1>2 DEF Asking
<1>4. OneQuestion(r)
  <2> SUFFICES ASSUME NEW x \in Items(r), Asks(x[1]), NEW a \in x[2], Asks(a)
               PROVE  a.c # x[1].c
    BY DEF OneQuestion
  <2>1. PICK A : <<x[1], A>> \in Items(q) /\ x[2] \subseteq A \cup {m}
    BY <1>1
  <2> DEFINE y == <<x[1], A>>
  <2>2. y \in Items(q) /\ y[1] = x[1] /\ a \in y[2]
    BY <2>1
  <2> HIDE DEF y
  <2>3. Asks(y[1]) => \A b \in y[2] : Asks(b) => b.c # y[1].c
    BY <2>2 DEF OneQuestion
  <2> QED
    BY <2>2, <2>3
<1> QED
  BY <1>3, <1>4 DEF r

-----------------------------------------------------------------------------
(* What a step of the service leaves in place                               *)

\* What the removal of a command, or of a reply, of users.js must have led to.
SentEffect(m) ==
  /\ \A u \in Visitors : m = SaveUser(u) => Known(u)'
  /\ \A f \in Fellows : /\ m = AskOwner(f) => Waiting(f)'
                        /\ m = AcceptFellow(f) => Matched(f) \/ Matched(f)'
                        /\ m = CopyOwn(f) => Copied(f)'
                        /\ CopyTo(m, f) => Shown(f)'

ReplyEffect(m) ==
  \A f \in Fellows : /\ m = Match(f) => Added(f)'
                     /\ CopyFrom(m, f) => Copying(f)'

\* What was reached stays reached.
Grows ==
  /\ registered \subseteq registered'
  /\ \A u \in Visitors : /\ Known(u) => Known(u)'
                         /\ SignedUp(u) => SignedUp(u)'
                         /\ Shown(u) => Shown(u)'
  /\ \A f \in Fellows : /\ Copying(f) => Copying(f)'
                        /\ Copied(f) => Copied(f)'
                        /\ Added(f) => Added(f)'
                        /\ Matched(f) => Matched(f)'
                        /\ Accepted(f) => Accepted(f)'
                        /\ Waiting(f) => Waiting(f)'
                        /\ Asked(f) => Asked(f)'
  /\ Owner \in randoms => Owner \in randoms'
  /\ Challenged => Challenged'

\* The request of the client c is as before, and what it waits for.
SameWeb(c) == req'[c] = req[c] /\ parts'[c] = parts[c]
Still(c) == SameWeb(c) /\ (c \in Awaiting' => c \in Awaiting)

LEMMA GrowsBy ==
  ASSUME step' = step, registered \subseteq registered',
         Owner \in randoms => Owner \in randoms',
         \A u \in Visitors : u \in sessions => u \in sessions',
         \A u \in Visitors : Shown(u) => Shown(u)',
         \A f \in Fellows : pending[f] = Owner => Matched(f) \/ Waiting(f)',
         \A m \in Range(sent["users"]) :
           m \in Range(sent'["users"]) \/ SentEffect(m),
         \A m \in Range(replies["users"]) :
           m \in Range(replies'["users"]) \/ ReplyEffect(m),
         ChallengeOwner \in Range(sent["crypto"]) =>
           ChallengeOwner \in Range(sent'["crypto"]) \/ Owner \in randoms'
  PROVE  Grows
<1>1. \A u \in Visitors : Known(u) => Known(u)'
  BY DEF Known
<1>2. \A u \in Visitors : SignedUp(u) => SignedUp(u)'
  BY <1>1 DEF SignedUp, SentEffect, SaveUser
<1>3. ASSUME NEW f \in Fellows PROVE Copying(f) => Copying(f)'
  BY DEF Copying, SentEffect, CopyTo, Visitors
<1>4. ASSUME NEW f \in Fellows PROVE Copied(f) => Copied(f)'
  BY <1>3 DEF Copied, ReplyEffect, CopyFrom
<1>5. ASSUME NEW f \in Fellows PROVE Added(f) => Added(f)'
  BY <1>4 DEF Added, SentEffect, CopyOwn
<1>6. ASSUME NEW f \in Fellows PROVE Matched(f) => Matched(f)'
  BY <1>5 DEF Matched, ReplyEffect, Match
<1>7. ASSUME NEW f \in Fellows PROVE Accepted(f) => Accepted(f)'
  BY <1>6 DEF Accepted, SentEffect, AcceptFellow
<1>8. ASSUME NEW f \in Fellows PROVE Waiting(f) => Waiting(f)'
  BY <1>6 DEF Waiting
<1>9. ASSUME NEW f \in Fellows PROVE Asked(f) => Asked(f)'
  BY <1>8 DEF Asked, SentEffect, AskOwner
<1>10. Challenged => Challenged'
  BY DEF Challenged, ChallengeOwner
<1> QED
  BY <1>1, <1>2, <1>3, <1>4, <1>5, <1>6, <1>7, <1>8, <1>9, <1>10 DEF Grows

LEMMA FellowsVisit == Fellows \subseteq Visitors /\ Visitors \subseteq Users
                      /\ Owner \in Visitors /\ Owner \notin Fellows
BY CheckerAssumption DEF Visitors

LEMMA SentKept ==
  ASSUME Grows, step' = step, NEW m, NEW A, NEW B,
         UsersSentOK(m, A), ReadingSent(m, A),
         Asks(m) => Still(m.c) \/ (m.do = "lists" /\ ListsOK(m)'),
         \A a \in A : a \in B \/ SentEffect(a)
  PROVE  UsersSentOK(m, B)' /\ ReadingSent(m, B)'
<1> USE FellowsVisit
<1>1. ASSUME m.do = "get"
      PROVE  /\ SessionOK(m)'
             /\ m.c \in Visitors => Known(m.u)' \/ SaveUser(m.u) \in B
  BY <1>1 DEF UsersSentOK, SessionOK, Asks, Still, SameWeb, Fresh, Grows, SentEffect
<1>2. ASSUME m.do = "hget"
      PROVE  /\ LookupOK(m)'
             /\ m.c \in Visitors => m.u \in registered' \/ SaveUser(m.u) \in B
  <2>1. LookupOK(m)'
    BY <1>2 DEF UsersSentOK, LookupOK, Asks, Still, SameWeb, Fresh
  <2>2. ASSUME m.c \in Visitors
        PROVE  m.u \in registered' \/ SaveUser(m.u) \in B
    <3>1. m.u \in Visitors /\ (m.u \in registered \/ SaveUser(m.u) \in A)
      BY <1>2, <2>2 DEF UsersSentOK, LookupOK
    <3> QED
      BY <3>1 DEF Grows, SentEffect, Known
  <2> QED
    BY <2>1, <2>2
<1>3. ASSUME m.do = "hvals", m.c \in Visitors
      PROVE  /\ Fresh(m.c)' /\ req'[m.c].route = "users"
             /\ m.c \in registered' \/ SaveUser(m.c) \in B
  <2>1. Still(m.c)
    BY <1>3 DEF Asks
  <2>2. /\ Fresh(m.c) /\ req[m.c].route = "users"
        /\ m.c \in registered \/ SaveUser(m.c) \in A
    BY <1>3 DEF UsersSentOK
  <2>3. Fresh(m.c)' /\ req'[m.c].route = "users"
    BY <2>1, <2>2 DEF Still, SameWeb, Fresh
  <2>4. m.c \in registered' \/ SaveUser(m.c) \in B
    BY <1>3, <2>2 DEF Grows, SentEffect, Known
  <2> QED
    BY <2>3, <2>4
<1>4. ASSUME m.do = "lists" PROVE ListsOK(m)'
  <2>1. CASE m.c \in Visitors /\ ~ListsOK(m)'
    BY <1>4, <2>1 DEF UsersSentOK, ListsOK, Asks, Still, SameWeb
  <2> QED
    BY <2>1 DEF ListsOK
<1>5. ASSUME m.do = "hget pending", m.u = Owner
      PROVE  m.f \in Fellows /\ (Waiting(m.f)' \/ AskOwner(m.f) \in B)
  <2>1. m.f \in Fellows /\ (Waiting(m.f) \/ AskOwner(m.f) \in A)
    BY <1>5 DEF UsersSentOK
  <2> QED
    BY <2>1 DEF Grows, SentEffect
<1>6. ASSUME m.do = "add", m.u = Owner PROVE m.f \in Fellows /\ Added(m.f)'
  BY <1>6 DEF UsersSentOK, Grows
<1>7. ASSUME m.do = "get", m.c \in Fellows, req'[m.c].route = "home"
      PROVE  Matched(m.c)' \/ AcceptFellow(m.c) \in B
  <2>1. Still(m.c)
    BY <1>7 DEF Asks
  <2>2. Matched(m.c) \/ AcceptFellow(m.c) \in A
    BY <1>7, <2>1 DEF ReadingSent, Still, SameWeb
  <2> QED
    BY <1>7, <2>2 DEF Grows, SentEffect
<1>8. ASSUME m.do = "hget", m.then = "user", m.c \in Fellows,
             req'[m.c].route = "home"
      PROVE  Copied(m.c)' \/ CopyOwn(m.c) \in B
  <2>1. Still(m.c)
    BY <1>8 DEF Asks
  <2>2. Copied(m.c) \/ CopyOwn(m.c) \in A
    BY <1>8, <2>1 DEF ReadingSent, Still, SameWeb
  <2> QED
    BY <1>8, <2>2 DEF Grows, SentEffect
<1>9. ASSUME m.do = "hget", m.then = "page", m.c \in Fellows
      PROVE  Shown(m.c)' \/ \E a \in B : CopyTo(a, m.c)
  <2>1. Shown(m.c) \/ \E a \in A : CopyTo(a, m.c)
    BY <1>9 DEF ReadingSent
  <2> QED
    BY <1>9, <2>1 DEF Grows, SentEffect
<1>10. UsersSentOK(m, B)'
  BY <1>1, <1>2, <1>3, <1>4, <1>5, <1>6 DEF UsersSentOK
<1>11. ReadingSent(m, B)'
  BY <1>7, <1>8, <1>9 DEF ReadingSent
<1> QED
  BY <1>10, <1>11

LEMMA ReplyKept ==
  ASSUME Grows, step' = step, NEW m, NEW A, NEW B,
         UsersReplySafe(m), ReadingReply(m, A),
         Answers(m) => Still(m.c) \/ (m.then = "lists" /\ ListsOK(m)'),
         \A a \in A : a \in B \/ ReplyEffect(a)
  PROVE  UsersReplySafe(m)' /\ ReadingReply(m, B)'
<1> USE FellowsVisit
<1>0. "user" \in Lookups /\ "page" \in Lookups /\ "lists" \notin Lookups
  BY DEF Lookups
<1>1. ASSUME m.then = "session"
      PROVE  /\ SessionOK(m)'
             /\ m.c \in Visitors =>
                  m.u \in registered' /\ (m.found \/ (m.u = Owner /\ step' = "get"))
  BY <1>1 DEF UsersReplySafe, SessionOK, Answers, Still, SameWeb, Fresh, Grows
<1>2. ASSUME m.then \in Lookups
      PROVE  LookupOK(m)' /\ (m.c \in Visitors => m.found)
  BY <1>0, <1>2 DEF UsersReplySafe, LookupOK, Answers, Still, SameWeb, Fresh
<1>3. ASSUME m.then = "list", m.c \in Visitors
      PROVE  Fresh(m.c)' /\ req'[m.c].route = "users" /\ m.c \in m.users
  BY <1>3 DEF UsersReplySafe, Answers, Still, SameWeb, Fresh
<1>4. ASSUME m.then = "lists" PROVE ListsOK(m)'
  <2>1. CASE m.c \in Visitors /\ ~ListsOK(m)'
    BY <1>4, <2>1 DEF UsersReplySafe, ListsOK, Answers, Still, SameWeb
  <2> QED
    BY <2>1 DEF ListsOK
<1>5. ASSUME m.then = "session", m.c \in Fellows, req'[m.c].route = "home"
      PROVE  Added(m.c)' \/ Match(m.c) \in B
  <2>1. Still(m.c)
    BY <1>5 DEF Answers
  <2>2. Added(m.c) \/ Match(m.c) \in A
    BY <1>5, <2>1 DEF ReadingReply, Still, SameWeb
  <2> QED
    BY <1>5, <2>2 DEF Grows, ReplyEffect
<1>6. ASSUME m.then = "user", m.c \in Fellows, req'[m.c].route = "home"
      PROVE  Copying(m.c)' \/ \E a \in B : CopyFrom(a, m.c)
  <2>1. Still(m.c)
    BY <1>0, <1>6 DEF Answers
  <2>2. Copying(m.c) \/ \E a \in A : CopyFrom(a, m.c)
    BY <1>6, <2>1 DEF ReadingReply, Still, SameWeb
  <2> QED
    BY <1>6, <2>2 DEF Grows, ReplyEffect
<1>7. ASSUME m.then = "page", m.c \in Fellows PROVE Shown(m.c)'
  BY <1>7 DEF ReadingReply, Grows
<1>8. UsersReplySafe(m)'
  <2>1. m.then = "copy" /\ m.u = Owner => m.ts # <<>>
    BY DEF UsersReplySafe
  <2> QED
    BY <1>1, <1>2, <1>3, <1>4, <2>1 DEF UsersReplySafe
<1>9. ReadingReply(m, B)'
  BY <1>5, <1>6, <1>7 DEF ReadingReply
<1> QED
  BY <1>8, <1>9

\* The queues stay, lose the first message, get another one.
LEMMA SentWayMoves ==
  ASSUME NEW q, q \in Seq(Range(q)), SentWay(q), Grows, step' = step,
         \A m \in Range(q) :
           Asks(m) => Still(m.c) \/ (m.do = "lists" /\ ListsOK(m)')
  PROVE  SentWay(q)'
<1> SUFFICES ASSUME NEW x \in Items(q)
             PROVE  UsersSentOK(x[1], x[2])' /\ ReadingSent(x[1], x[2])'
  BY DEF SentWay
<1>1. x[1] \in Range(q) /\ UsersSentOK(x[1], x[2]) /\ ReadingSent(x[1], x[2])
  BY ItemsRange DEF SentWay
<1>2. Asks(x[1]) =>
        Still(x[1].c) \/ (x[1].do = "lists" /\ ListsOK(x[1])')
  BY <1>1
<1> QED
  BY <1>1, <1>2, SentKept

LEMMA SentWayStays ==
  ASSUME NEW q, q \in Seq(Range(q)), SentWay(q), Grows, step' = step,
         \A c \in Asking(q) : Still(c)
  PROVE  SentWay(q)'
<1>1. \A m \in Range(q) : Asks(m) => Still(m.c)
  BY DEF Asking
<1> QED
  BY <1>1, SentWayMoves

LEMMA SentWayTail ==
  ASSUME NEW q, q \in Seq(Range(q)), q # <<>>, SentWay(q), Grows, step' = step,
         \A c \in Asking(Tail(q)) : Still(c), SentEffect(Head(q))
  PROVE  SentWay(Tail(q))'
<1>1. /\ \A x \in Items(Tail(q)) : <<x[1], x[2] \cup {Head(q)}>> \in Items(q)
      /\ Tail(q) \in Seq(Range(Tail(q)))
  BY ItemsTail, TailQueue
<1> DEFINE r == Tail(q)
           h == Head(q)
<1>2. \A x \in Items(r) : <<x[1], x[2] \cup {h}>> \in Items(q)
  BY <1>1
<1>3. /\ r \in Seq(Range(r)) /\ SentEffect(h)
      /\ \A c \in Asking(r) : Still(c)
  BY <1>1
<1> HIDE DEF r, h
<1> SUFFICES ASSUME NEW x \in Items(r)
             PROVE  UsersSentOK(x[1], x[2])' /\ ReadingSent(x[1], x[2])'
  BY DEF SentWay, r
<1>4. UsersSentOK(x[1], x[2] \cup {h}) /\ ReadingSent(x[1], x[2] \cup {h})
  BY <1>2 DEF SentWay
<1>5. Asks(x[1]) => Still(x[1].c)
  BY <1>3, ItemsRange DEF Asking
<1>6. \A a \in x[2] \cup {h} : a \in x[2] \/ SentEffect(a)
  BY <1>3
<1> QED
  BY <1>4, <1>5, <1>6, SentKept

LEMMA SentWayNewHead ==
  ASSUME NEW q, q \in Seq(Range(q)), q # <<>>, SentWay(q), Grows, step' = step,
         NEW m, ~Asks(m), ~Asks(Head(q)), \A c \in Asking(q) : Still(c),
         SentEffect(Head(q)), \A B : UsersSentOK(m, B)' /\ ReadingSent(m, B)'
  PROVE  SentWay(<<m>> \o Tail(q))'
<1> DEFINE r == <<m>> \o Tail(q)
           h == Head(q)
<1>1. \A x \in Items(r) :
        \/ x[1] = m
        \/ \E A : /\ <<x[1], A>> \in Items(q)
                  /\ A \subseteq x[2] \cup {h} /\ x[2] \subseteq A \cup {m}
  BY ItemsNewHead
<1>2. SentEffect(h)
  OBVIOUS
<1> HIDE DEF r, h
<1> SUFFICES ASSUME NEW x \in Items(r)
             PROVE  UsersSentOK(x[1], x[2])' /\ ReadingSent(x[1], x[2])'
  BY DEF SentWay, r
<1>3. CASE x[1] = m
  BY <1>3
<1>4. CASE x[1] # m
  <2>1. PICK A : <<x[1], A>> \in Items(q) /\ A \subseteq x[2] \cup {h}
    BY <1>1, <1>4
  <2> DEFINE y == <<x[1], A>>
  <2>2. y \in Items(q) /\ y[1] = x[1] /\ y[2] = A
    BY <2>1
  <2> HIDE DEF y
  <2>3. UsersSentOK(x[1], A) /\ ReadingSent(x[1], A) /\ x[1] \in Range(q)
    BY <2>2, ItemsRange DEF SentWay
  <2>4. Asks(x[1]) => Still(x[1].c)
    BY <2>3 DEF Asking
  <2>5. \A a \in A : a \in x[2] \/ SentEffect(a)
    BY <1>2, <2>1
  <2> QED
    BY <2>3, <2>4, <2>5, SentKept
<1> QED
  BY <1>3, <1>4

LEMMA ReplyWayMoves ==
  ASSUME NEW q, q \in Seq(Range(q)), ReplyWay(q), Grows, step' = step,
         \A m \in Range(q) :
           Answers(m) => Still(m.c) \/ (m.then = "lists" /\ ListsOK(m)')
  PROVE  ReplyWay(q)'
<1> SUFFICES ASSUME NEW x \in Items(q)
             PROVE  UsersReplySafe(x[1])' /\ ReadingReply(x[1], x[2])'
  BY DEF ReplyWay
<1>1. x[1] \in Range(q) /\ UsersReplySafe(x[1]) /\ ReadingReply(x[1], x[2])
  BY ItemsRange DEF ReplyWay
<1>2. Answers(x[1]) =>
        Still(x[1].c) \/ (x[1].then = "lists" /\ ListsOK(x[1])')
  BY <1>1
<1> QED
  BY <1>1, <1>2, ReplyKept

LEMMA ReplyWayStays ==
  ASSUME NEW q, q \in Seq(Range(q)), ReplyWay(q), Grows, step' = step,
         \A c \in Answering(q) : Still(c)
  PROVE  ReplyWay(q)'
<1>1. \A m \in Range(q) : Answers(m) => Still(m.c)
  BY DEF Answering
<1> QED
  BY <1>1, ReplyWayMoves

LEMMA ReplyWayTail ==
  ASSUME NEW q, q \in Seq(Range(q)), q # <<>>, ReplyWay(q), Grows, step' = step,
         \A m \in Range(Tail(q)) :
           Answers(m) => Still(m.c) \/ (m.then = "lists" /\ ListsOK(m)'),
         ReplyEffect(Head(q))
  PROVE  ReplyWay(Tail(q))'
<1>1. /\ \A x \in Items(Tail(q)) : <<x[1], x[2] \cup {Head(q)}>> \in Items(q)
      /\ Tail(q) \in Seq(Range(Tail(q)))
  BY ItemsTail, TailQueue
<1> DEFINE r == Tail(q)
           h == Head(q)
<1>2. \A x \in Items(r) : <<x[1], x[2] \cup {h}>> \in Items(q)
  BY <1>1
<1>3. /\ r \in Seq(Range(r)) /\ ReplyEffect(h)
      /\ \A m \in Range(r) :
           Answers(m) => Still(m.c) \/ (m.then = "lists" /\ ListsOK(m)')
  BY <1>1
<1> HIDE DEF r, h
<1> SUFFICES ASSUME NEW x \in Items(r)
             PROVE  UsersReplySafe(x[1])' /\ ReadingReply(x[1], x[2])'
  BY DEF ReplyWay, r
<1>4. UsersReplySafe(x[1]) /\ ReadingReply(x[1], x[2] \cup {h})
  BY <1>2 DEF ReplyWay
<1>5. Answers(x[1]) =>
        Still(x[1].c) \/ (x[1].then = "lists" /\ ListsOK(x[1])')
  BY <1>3, ItemsRange
<1>6. \A a \in x[2] \cup {h} : a \in x[2] \/ ReplyEffect(a)
  BY <1>3
<1> QED
  BY <1>4, <1>5, <1>6, ReplyKept

LEMMA ReplyWayAppend ==
  ASSUME NEW q, q \in Seq(Range(q)), ReplyWay(q)', NEW m,
         UsersReplySafe(m)', ReadingReply(m, Range(q))'
  PROVE  ReplyWay(Append(q, m))'
<1> DEFINE r == Append(q, m)
<1>1. Items(r) = Items(q) \cup {<<m, Range(q)>>}
  BY ItemsAppend
<1> HIDE DEF r
<1> SUFFICES ASSUME NEW x \in Items(r)
             PROVE  UsersReplySafe(x[1])' /\ ReadingReply(x[1], x[2])'
  BY DEF ReplyWay, r
<1>2. CASE x \in Items(q)
  BY <1>2 DEF ReplyWay
<1>3. CASE x = <<m, Range(q)>>
  <2>1. x[1] = m /\ x[2] = Range(q)
    BY <1>3
  <2> QED
    BY <2>1
<1> QED
  BY <1>1, <1>2, <1>3

-----------------------------------------------------------------------------
(* Messages go from one queue to another                                    *)

\* The queues s without the first message of n, with the new message m.
Without(s, n) == [s EXCEPT ![n] = Tail(@)]
With(s, n, m) == [s EXCEPT ![n] = Append(@, m)]

\* The visitor c may send something on the connection n.
Free(n, c, s, r) ==
  \A k \in Connections :
    k = n \/ (k # "tweets" /\ n # "tweets") => c \notin Busy(k, s, r)

LEMMA MessagesLeft ==
  ASSUME NEW s, NEW r, NEW s2, NEW r2, OneMessage(s, r),
         \A k \in Connections : /\ OneQuestion(s2[k]) /\ OneAnswer(r2[k])
                                /\ Asking(s2[k]) \subseteq Asking(s[k])
                                /\ Answering(r2[k]) \subseteq Answering(r[k])
  PROVE  /\ OneMessage(s2, r2)
         /\ \A k \in Connections : Busy(k, s2, r2) \subseteq Busy(k, s, r)
BY DEF OneMessage, Busy, Connections

LEMMA TakeCommand ==
  ASSUME NEW s, NEW r, Queues(s), OneMessage(s, r),
         NEW n \in Connections, s[n] # <<>>,
         NEW s2, s2 = Without(s, n)
  PROVE  /\ OneMessage(s2, r)
         /\ \A k \in Connections : Busy(k, s2, r) \subseteq Busy(k, s, r)
         /\ Asks(Head(s[n])) => /\ Head(s[n]).c \in Asking(s[n])
                                /\ Free(n, Head(s[n]).c, s2, r)
<1> DEFINE h == Head(s[n])
<1>1. s2[n] = Tail(s[n]) /\ \A k \in Connections \ {n} : s2[k] = s[k]
  BY DEF Queues, Without
<1>2. s[n] \in Seq(Range(s[n])) /\ OneQuestion(s[n])
  BY DEF Queues, OneMessage
<1>3. /\ OneQuestion(s2[n]) /\ Asking(s2[n]) \subseteq Asking(s[n])
      /\ Asks(h) => h.c \in Asking(s[n]) /\ h.c \notin Asking(s2[n])
  BY <1>1, <1>2, AskingTail
<1> HIDE DEF h
<1>4. /\ OneMessage(s2, r)
      /\ \A k \in Connections : Busy(k, s2, r) \subseteq Busy(k, s, r)
  <2>1. \A k \in Connections : /\ OneQuestion(s2[k]) /\ OneAnswer(r[k])
                               /\ Asking(s2[k]) \subseteq Asking(s[k])
    BY <1>1, <1>3 DEF OneMessage
  <2> QED
    BY <2>1, MessagesLeft
<1>5. ASSUME Asks(h) PROVE Free(n, h.c, s2, r)
  <2>1. h.c \notin Busy(n, s2, r)
    BY <1>3, <1>5 DEF Busy, OneMessage
  <2>2. ASSUME NEW k \in Connections, k # n, k # "tweets", n # "tweets"
        PROVE  h.c \notin Busy(k, s2, r)
    <3>1. h.c \in Busy(n, s, r) /\ Busy(k, s2, r) \subseteq Busy(k, s, r)
      BY <1>3, <1>4, <1>5 DEF Busy
    <3>2. Busy("users", s, r) \cap Busy("crypto", s, r) = {}
      BY DEF OneMessage
    <3>3. {k, n} = {"users", "crypto"}
      BY <2>2 DEF Connections
    <3>4. (k = "users" /\ n = "crypto") \/ (k = "crypto" /\ n = "users")
      BY <2>2 DEF Connections
    <3> QED
      BY <3>1, <3>2, <3>4
  <2> QED
    BY <2>1, <2>2 DEF Free
<1> QED
  BY <1>3, <1>4, <1>5 DEF h

LEMMA TakeAnswer ==
  ASSUME NEW s, NEW r, Queues(r), OneMessage(s, r),
         NEW n \in Connections, r[n] # <<>>,
         NEW r2, r2 = Without(r, n)
  PROVE  /\ OneMessage(s, r2)
         /\ \A k \in Connections : Busy(k, s, r2) \subseteq Busy(k, s, r)
         /\ Answers(Head(r[n])) => /\ Head(r[n]).c \in Answering(r[n])
                                   /\ Free(n, Head(r[n]).c, s, r2)
<1> DEFINE h == Head(r[n])
<1>1. r2[n] = Tail(r[n]) /\ \A k \in Connections \ {n} : r2[k] = r[k]
  BY DEF Queues, Without
<1>2. r[n] \in Seq(Range(r[n])) /\ OneAnswer(r[n])
  BY DEF Queues, OneMessage
<1>3. /\ OneAnswer(r2[n]) /\ Answering(r2[n]) \subseteq Answering(r[n])
      /\ Answers(h) => h.c \in Answering(r[n]) /\ h.c \notin Answering(r2[n])
  BY <1>1, <1>2, AnsweringTail
<1> HIDE DEF h
<1>4. /\ OneMessage(s, r2)
      /\ \A k \in Connections : Busy(k, s, r2) \subseteq Busy(k, s, r)
  <2>1. \A k \in Connections : /\ OneQuestion(s[k]) /\ OneAnswer(r2[k])
                               /\ Asking(s[k]) \subseteq Asking(s[k])
                               /\ Answering(r2[k]) \subseteq Answering(r[k])
    BY <1>1, <1>3 DEF OneMessage
  <2> QED
    BY <2>1 DEF OneMessage, Busy, Connections
<1>5. ASSUME Answers(h) PROVE Free(n, h.c, s, r2)
  <2>1. h.c \notin Busy(n, s, r2)
    BY <1>3, <1>5 DEF Busy, OneMessage
  <2>2. ASSUME NEW k \in Connections, k # n, k # "tweets", n # "tweets"
        PROVE  h.c \notin Busy(k, s, r2)
    <3>1. h.c \in Busy(n, s, r) /\ Busy(k, s, r2) \subseteq Busy(k, s, r)
      BY <1>3, <1>4, <1>5 DEF Busy
    <3>2. Busy("users", s, r) \cap Busy("crypto", s, r) = {}
      BY DEF OneMessage
    <3>3. (k = "users" /\ n = "crypto") \/ (k = "crypto" /\ n = "users")
      BY <2>2 DEF Connections
    <3> QED
      BY <3>1, <3>2, <3>3
  <2> QED
    BY <2>1, <2>2 DEF Free
<1> QED
  BY <1>3, <1>4, <1>5 DEF h

LEMMA PutCommand ==
  ASSUME NEW s, NEW r, Queues(s), OneMessage(s, r), NEW n \in Connections,
         NEW m, Asks(m) => Free(n, m.c, s, r),
         NEW s2, s2 = With(s, n, m)
  PROVE  /\ Queues(s2) /\ OneMessage(s2, r)
         /\ \A k \in Connections \ {n} : Busy(k, s2, r) = Busy(k, s, r)
         /\ Asks(m) => Busy(n, s2, r) = Busy(n, s, r) \cup {m.c}
         /\ ~Asks(m) => Busy(n, s2, r) = Busy(n, s, r)
<1>1. s2[n] = Append(s[n], m) /\ \A k \in Connections \ {n} : s2[k] = s[k]
  BY DEF Queues, With
<1>2. s[n] \in Seq(Range(s[n])) /\ OneQuestion(s[n])
  BY DEF Queues, OneMessage
<1>3. Asks(m) => m.c \notin Busy(n, s, r)
  BY DEF Free
<1>4. /\ OneQuestion(s2[n])
      /\ Asks(m) => Asking(s2[n]) = Asking(s[n]) \cup {m.c}
      /\ ~Asks(m) => Asking(s2[n]) = Asking(s[n])
  BY <1>1, <1>2, <1>3, AskingAppend DEF Busy
<1>5. /\ \A k \in Connections \ {n} : Busy(k, s2, r) = Busy(k, s, r)
      /\ Asks(m) => Busy(n, s2, r) = Busy(n, s, r) \cup {m.c}
      /\ ~Asks(m) => Busy(n, s2, r) = Busy(n, s, r)
  BY <1>1, <1>4 DEF Busy
<1>6. \A k \in Connections : /\ OneQuestion(s2[k]) /\ OneAnswer(r[k])
                             /\ Asking(s2[k]) \cap Answering(r[k]) = {}
  BY <1>1, <1>3, <1>4 DEF OneMessage, Busy
<1>7. Busy("users", s2, r) \cap Busy("crypto", s2, r) = {}
  <2>1. Busy("users", s, r) \cap Busy("crypto", s, r) = {}
    BY DEF OneMessage
  <2>2. CASE Asks(m) /\ n = "users"
    <3>1. m.c \notin Busy("crypto", s, r)
      BY <2>2 DEF Free, Connections
    <3> QED
      BY <1>5, <2>1, <2>2, <3>1 DEF Connections
  <2>3. CASE Asks(m) /\ n = "crypto"
    <3>1. m.c \notin Busy("users", s, r)
      BY <2>3 DEF Free, Connections
    <3> QED
      BY <1>5, <2>1, <2>3, <3>1 DEF Connections
  <2>4. CASE ~Asks(m) \/ n = "tweets"
    BY <1>5, <2>1, <2>4 DEF Connections
  <2> QED
    BY <2>2, <2>3, <2>4 DEF Connections
<1>8. Queues(s2)
  <2> DEFINE q == s[n]
  <2>1. q \in Seq(Range(q))
    BY <1>2
  <2> HIDE DEF q
  <2>2. Append(q, m) \in Seq(Range(Append(q, m)))
    BY <2>1, AppendQueue
  <2>3. s2[n] \in Seq(Range(s2[n]))
    BY <1>1, <2>2 DEF q
  <2> QED
    BY <1>1, <2>3 DEF Queues, With
<1> QED
  BY <1>5, <1>6, <1>7, <1>8 DEF OneMessage

LEMMA PutAnswer ==
  ASSUME NEW s, NEW r, Queues(r), OneMessage(s, r), NEW n \in Connections,
         NEW m, Answers(m) => Free(n, m.c, s, r),
         NEW r2, r2 = With(r, n, m)
  PROVE  /\ OneMessage(s, r2)
         /\ \A k \in Connections \ {n} : Busy(k, s, r2) = Busy(k, s, r)
         /\ Answers(m) => Busy(n, s, r2) = Busy(n, s, r) \cup {m.c}
         /\ ~Answers(m) => Busy(n, s, r2) = Busy(n, s, r)
<1>1. r2[n] = Append(r[n], m) /\ \A k \in Connections \ {n} : r2[k] = r[k]
  BY DEF Queues, With
<1>2. r[n] \in Seq(Range(r[n])) /\ OneAnswer(r[n])
  BY DEF Queues, OneMessage
<1>3. Answers(m) => m.c \notin Busy(n, s, r)
  BY DEF Free
<1>4. /\ OneAnswer(r2[n])
      /\ Answers(m) => Answering(r2[n]) = Answering(r[n]) \cup {m.c}
      /\ ~Answers(m) => Answering(r2[n]) = Answering(r[n])
  BY <1>1, <1>2, <1>3, AnsweringAppend DEF Busy
<1>5. /\ \A k \in Connections \ {n} : Busy(k, s, r2) = Busy(k, s, r)
      /\ Answers(m) => Busy(n, s, r2) = Busy(n, s, r) \cup {m.c}
      /\ ~Answers(m) => Busy(n, s, r2) = Busy(n, s, r)
  BY <1>1, <1>4 DEF Busy
<1>6. \A k \in Connections : /\ OneQuestion(s[k]) /\ OneAnswer(r2[k])
                             /\ Asking(s[k]) \cap Answering(r2[k]) = {}
  BY <1>1, <1>3, <1>4 DEF OneMessage, Busy
<1>7. Busy("users", s, r2) \cap Busy("crypto", s, r2) = {}
  <2>1. Busy("users", s, r) \cap Busy("crypto", s, r) = {}
    BY DEF OneMessage
  <2>2. CASE Answers(m) /\ n = "users"
    <3>1. m.c \notin Busy("crypto", s, r)
      BY <2>2 DEF Free, Connections
    <3> QED
      BY <1>5, <2>1, <2>2, <3>1 DEF Connections
  <2>3. CASE Answers(m) /\ n = "crypto"
    <3>1. m.c \notin Busy("users", s, r)
      BY <2>3 DEF Free, Connections
    <3> QED
      BY <1>5, <2>1, <2>3, <3>1 DEF Connections
  <2>4. CASE ~Answers(m) \/ n = "tweets"
    BY <1>5, <2>1, <2>4 DEF Connections
  <2> QED
    BY <2>2, <2>3, <2>4 DEF Connections
<1> QED
  BY <1>5, <1>6, <1>7 DEF OneMessage

-----------------------------------------------------------------------------
(* What a step leaves of the invariant                                      *)

CheckerStays == UNCHANGED <<step, todo, back, printed>>

\* The request of the client c goes on, or it is answered as it must be.
GoesOn(c) ==
  \/ req'[c] = req[c] /\ answer'[c] = answer[c]
  \/ /\ req'[c] = NoRequest /\ answer'[c] # NoAnswer
     /\ Served(c)' => AnswerOK(c)'

LEMMA CallersVisit == Callers(step) \subseteq Visitors
BY DEF Callers, Visitors

LEMMA RequestsKept ==
  ASSUME RequestsOK, CheckerStays,
         parts' = [c \in Users |-> parts'[c]],
         answer' = [c \in Users |-> answer'[c]],
         \A c \in Visitors : GoesOn(c)
  PROVE  RequestsOK'
<1>1. \A c \in back : c \in Visitors
  BY CallersVisit DEF RequestsOK
<1>2. \A c \in back : answer'[c] # NoAnswer
  BY <1>1 DEF RequestsOK, GoesOn
<1>3. Callers(step)' = Callers(step)
  BY DEF CheckerStays, Callers
<1>4. \A c \in Visitors : RequestOf(step, c)' = RequestOf(step, c)
  BY DEF CheckerStays, RequestOf
<1>5. ASSUME NEW c \in Visitors, req'[c] # NoRequest
      PROVE  /\ c \in Callers(step) \ todo /\ answer'[c] = NoAnswer
             /\ req'[c] = RequestOf(step, c)
  BY <1>5 DEF RequestsOK, GoesOn
<1> QED
  BY <1>2, <1>3, <1>4, <1>5 DEF RequestsOK, CheckerStays

LEMMA AnswersKept ==
  ASSUME AnswersOK, Grows, CheckerStays, \A c \in Visitors : GoesOn(c)
  PROVE  AnswersOK'
<1> SUFFICES ASSUME NEW c \in Visitors, Served(c)', answer'[c] = answer[c]
             PROVE  AnswerOK(c)'
  BY DEF AnswersOK, GoesOn
<1>1. Served(c)
  BY DEF Served, CheckerStays, Callers
<1>2. AnswerOK(c)
  BY <1>1 DEF AnswersOK
<1>3. \A ts : TweetsOK(c, ts) => TweetsOK(c, ts)'
  BY DEF TweetsOK, Reader, Grows, CheckerStays
<1>4. step \in {"ask", "accept"} => c \in Fellows
  BY <1>1 DEF Served, Callers
<1> QED
  BY <1>2, <1>3, <1>4 DEF AnswerOK, Grows, CheckerStays

LEMMA ProgressKept ==
  ASSUME ProgressOK, Grows, CheckerStays
  PROVE  ProgressOK'
BY FellowsVisit DEF ProgressOK, Grows, CheckerStays

\* What was asked, granted and posted since.
LEMMA TraceHistory ==
  ASSUME TraceOK, Grows, UNCHANGED lists,
         asked \subseteq asked', granted \subseteq granted',
         \A f \in Visitors, u \in Users : <<f, u>> \in asked' =>
           <<f, u>> \in asked \/ (f \in Fellows /\ u = Owner),
         \A u \in Visitors, f \in Users : <<u, f>> \in granted' =>
           \/ <<u, f>> \in granted
           \/ u = Owner /\ f \in Fellows /\ Shown(Owner),
         \A t \in Tweets : \A u \in Visitors \cap author'[t] :
           u \in author[t] \/ (u = Owner /\ t = Flag)
  PROVE  TraceOK'
<1>1. \A u \in Visitors, f \in Users : <<u, f>> \in granted' =>
        u = Owner /\ f \in Fellows /\ Shown(Owner)'
  BY FellowsVisit DEF TraceOK, Grows
<1>2. \A f \in Visitors, u \in Users : <<f, u>> \in asked' =>
        f \in Fellows /\ u = Owner
  BY DEF TraceOK
<1>3. \A t \in Tweets : \A u \in Visitors \cap author'[t] : u = Owner /\ t = Flag
  BY DEF TraceOK
<1>4. /\ \A u \in Users : \A f \in followers'[u] :
           <<f, u>> \in asked' /\ <<u, f>> \in granted'
      /\ \A c \in Visitors : feed'[c] \in Seq({Flag})
  BY DEF TraceOK, lists
<1> QED
  BY <1>1, <1>2, <1>3, <1>4 DEF TraceOK

LEMMA TraceLists ==
  ASSUME TraceOK, Grows, UNCHANGED history,
         \A u \in Users : \A f \in followers'[u] :
           <<f, u>> \in asked /\ <<u, f>> \in granted,
         \A c \in Visitors : feed'[c] \in Seq({Flag})
  PROVE  TraceOK'
BY FellowsVisit DEF TraceOK, Grows, history

LEMMA TraceStays ==
  ASSUME TraceOK, Grows, UNCHANGED <<lists, history>>
  PROVE  TraceOK'
BY TraceLists DEF TraceOK, lists

LEMMA PageKept ==
  ASSUME PageOK, Grows, step' = step,
         \A m \in Range(sent'["tweets"]) :
           \/ m \in Range(sent["tweets"]) /\ (Asks(m) => SameWeb(m.c))
           \/ PageSentOK(m)',
         \A m \in Range(replies'["tweets"]) :
           \/ m \in Range(replies["tweets"]) /\ (Answers(m) => SameWeb(m.c))
           \/ PageReplyOK(m)',
         \A c \in Visitors : SameWeb(c) \/ PartsOK(c)'
  PROVE  PageOK'
<1>1. \A c \in Visitors : \A ts : TweetsOK(c, ts) => TweetsOK(c, ts)'
  BY DEF TweetsOK, Reader, Grows
<1>2. ASSUME NEW m, PageSentOK(m), Asks(m) => SameWeb(m.c)
      PROVE  PageSentOK(m)'
  BY <1>2 DEF PageSentOK, Asks, SameWeb, Reader, Grows
<1>3. ASSUME NEW m, PageReplyOK(m), Answers(m) => SameWeb(m.c)
      PROVE  PageReplyOK(m)'
  BY <1>1, <1>3 DEF PageReplyOK, Answers, SameWeb
<1>4. ASSUME NEW c \in Visitors, PartsOK(c), SameWeb(c)
      PROVE  PartsOK(c)'
  BY <1>1, <1>4 DEF PartsOK, SameWeb
<1> QED
  BY <1>2, <1>3, <1>4 DEF PageOK

LEMMA PageStays ==
  ASSUME PageOK, Grows, step' = step,
         sent'["tweets"] = sent["tweets"], replies'["tweets"] = replies["tweets"],
         \A c \in Busy("tweets", sent, replies) : SameWeb(c),
         \A c \in Visitors : SameWeb(c) \/ PartsOK(c)'
  PROVE  PageOK'
BY PageKept DEF Busy, Asking, Answering

\* The command m is on the queue q2 as it was on q: the challenge is ahead of
\* it or done, and its client still waits for it.
StillChallenged(q, m, B) ==
  /\ Asks(m) => Still(m.c)
  /\ \E A : /\ <<m, A>> \in Items(q)
            /\ ChallengeOwner \in A => ChallengeOwner \in B \/ Owner \in randoms'

LEMMA ChallengeKept ==
  ASSUME ChallengeOK, Grows,
         \A x \in Items(sent'["crypto"]) :
           \/ StillChallenged(sent["crypto"], x[1], x[2])
           \/ ChallengeSentOK(x[1], x[2])',
         \A m \in Range(replies'["crypto"]) :
           \/ m \in Range(replies["crypto"]) /\ (Answers(m) => Still(m.c))
           \/ ChallengeReplyOK(m)'
  PROVE  ChallengeOK'
<1>1. \A c \in Visitors : OwnerAnswers(c) /\ Still(c) => OwnerAnswers(c)'
  BY DEF OwnerAnswers, Fresh, Still, SameWeb
<1>2. ASSUME NEW x \in Items(sent'["crypto"]),
             StillChallenged(sent["crypto"], x[1], x[2])
      PROVE  ChallengeSentOK(x[1], x[2])'
  <2>1. PICK A : /\ <<x[1], A>> \in Items(sent["crypto"])
                 /\ ChallengeOwner \in A =>
                      ChallengeOwner \in x[2] \/ Owner \in randoms'
    BY <1>2 DEF StillChallenged
  <2> DEFINE y == <<x[1], A>>
  <2>2. y \in Items(sent["crypto"]) /\ y[1] = x[1] /\ y[2] = A
    BY <2>1
  <2> HIDE DEF y
  <2>3. ChallengeSentOK(x[1], A)
    BY <2>2 DEF ChallengeOK
  <2> QED
    BY <1>1, <1>2, <2>1, <2>3
       DEF ChallengeSentOK, StillChallenged, Asks, Grows
<1>3. ASSUME NEW m, ChallengeReplyOK(m), Answers(m) => Still(m.c)
      PROVE  ChallengeReplyOK(m)'
  BY <1>1, <1>3 DEF ChallengeReplyOK, Answers
<1> QED
  BY <1>2, <1>3 DEF ChallengeOK

LEMMA ChallengeStays ==
  ASSUME ChallengeOK, Grows, Queues(sent),
         sent'["crypto"] = sent["crypto"], replies'["crypto"] = replies["crypto"],
         \A c \in Busy("crypto", sent, replies) : Still(c)
  PROVE  ChallengeOK'
<1>1. ASSUME NEW x \in Items(sent["crypto"])
      PROVE  StillChallenged(sent["crypto"], x[1], x[2])
  <2>1. sent["crypto"] \in Seq(Range(sent["crypto"]))
    BY DEF Queues, Connections
  <2>2. x[1] \in Range(sent["crypto"]) /\ x = <<x[1], x[2]>>
    BY <2>1, ItemsRange
  <2> QED
    BY <2>2 DEF StillChallenged, Busy, Asking
<1>2. \A m \in Range(replies["crypto"]) : Answers(m) => Still(m.c)
  BY DEF Busy, Answering
<1> QED
  BY <1>1, <1>2, ChallengeKept

\* All parts together.
LEMMA Stepped ==
  ASSUME RunningOK, Grows, CheckerStays,
         parts' = [c \in Users |-> parts'[c]],
         answer' = [c \in Users |-> answer'[c]],
         \A c \in Visitors : GoesOn(c),
         OneMessage(sent', replies'), WayOK', PageOK', ChallengeOK', TraceOK'
  PROVE  RunningOK'
BY RequestsKept, AnswersKept, ProgressKept DEF RunningOK

-----------------------------------------------------------------------------
(* Commands                                                                 *)

LEMMA QueuesTyped ==
  ASSUME IInv
  PROVE  /\ Queues(sent) /\ Queues(replies)
         /\ \A n \in Connections : /\ sent[n] \in Seq(Range(sent[n]))
                                   /\ replies[n] \in Seq(Range(replies[n]))
BY DEF IInv, TypeOK, Queues

\* The contents of the queues when the first command of n makes way, or the
\* reply m is added.
LEMMA CommandTaken ==
  ASSUME NEW s, Queues(s), NEW n \in Connections, s[n] # <<>>,
         NEW s2, s2 = Without(s, n)
  PROVE  /\ \A k \in Connections \ {n} : s2[k] = s[k]
         /\ s2[n] = Tail(s[n])
         /\ Range(s[n]) = Range(s2[n]) \cup {Head(s[n])}
<1> DEFINE q == s[n]
<1>1. q \in Seq(Range(q)) /\ q # <<>>
  BY DEF Queues
<1>2. s2[n] = Tail(q) /\ \A k \in Connections \ {n} : s2[k] = s[k]
  BY DEF Queues, Without
<1> HIDE DEF q
<1>3. Range(q) = Range(Tail(q)) \cup {Head(q)}
  BY <1>1, ItemsTail
<1> QED
  BY <1>2, <1>3 DEF q

LEMMA CommandAdded ==
  ASSUME NEW s, Queues(s), NEW n \in Connections, NEW m,
         NEW s2, s2 = With(s, n, m)
  PROVE  /\ \A k \in Connections \ {n} : s2[k] = s[k]
         /\ s2[n] = Append(s[n], m)
         /\ Range(s2[n]) = Range(s[n]) \cup {m}
<1> DEFINE q == s[n]
<1>1. q \in Seq(Range(q))
  BY DEF Queues
<1>2. s2[n] = Append(q, m) /\ \A k \in Connections \ {n} : s2[k] = s[k]
  BY DEF Queues, With
<1> HIDE DEF q
<1>3. Range(Append(q, m)) = Range(q) \cup {m}
  BY <1>1, ItemsAppend
<1> QED
  BY <1>2, <1>3 DEF q

\* A command makes way for its reply.
LEMMA MessageAnswered ==
  ASSUME NEW s, NEW r, Queues(s), Queues(r), OneMessage(s, r),
         NEW n \in Connections, s[n] # <<>>, NEW m,
         Asks(Head(s[n])) <=> Answers(m), Asks(Head(s[n])) => m.c = Head(s[n]).c,
         NEW s2, s2 = Without(s, n), NEW r2, r2 = With(r, n, m)
  PROVE  /\ OneMessage(s2, r2)
         /\ \A k \in Connections : Busy(k, s2, r2) \subseteq Busy(k, s, r)
<1>1. /\ OneMessage(s2, r)
      /\ \A k \in Connections : Busy(k, s2, r) \subseteq Busy(k, s, r)
      /\ Asks(Head(s[n])) => /\ Head(s[n]).c \in Asking(s[n])
                             /\ Free(n, Head(s[n]).c, s2, r)
  BY TakeCommand
<1>2. Answers(m) => m.c \in Busy(n, s, r) /\ Free(n, m.c, s2, r)
  BY <1>1 DEF Busy
<1>3. /\ OneMessage(s2, r2)
      /\ \A k \in Connections \ {n} : Busy(k, s2, r2) = Busy(k, s2, r)
      /\ Answers(m) => Busy(n, s2, r2) = Busy(n, s2, r) \cup {m.c}
      /\ ~Answers(m) => Busy(n, s2, r2) = Busy(n, s2, r)
  BY <1>1, <1>2, PutAnswer
<1> QED
  BY <1>1, <1>2, <1>3

\* A step of redis: nothing is lost, and the clients' requests are as before.
Settled == Grows /\ \A c : Still(c)

\* A command that is answered and changes nothing else.
LEMMA Replied ==
  ASSUME IInv, RunningOK, NEW n \in Connections, sent[n] # <<>>, NEW r,
         NEW h, h = Head(sent[n]), NEW p, p = replies["users"],
         Done(n, r), UNCHANGED <<web, history>>, CheckerStays,
         Asks(h) <=> Answers(r), Asks(h) => r.c = h.c,
         n = "users" => SentEffect(h),
         n = "users" /\ Settled =>
           UsersReplySafe(r)' /\ ReadingReply(r, Range(p))',
         n = "tweets" /\ Settled => PageReplyOK(r)',
         n = "crypto" /\ Settled => ChallengeReplyOK(r)',
         h # ChallengeOwner
  PROVE  RunningOK'
<1>1. /\ sent' = Without(sent, n) /\ replies' = With(replies, n, r)
      /\ UNCHANGED <<accounts, lists>>
  BY DEF Done, Pop, Without, With
<1>2. /\ req' = req /\ parts' = parts /\ answer' = answer
      /\ registered' = registered /\ sessions' = sessions /\ randoms' = randoms
      /\ pending' = pending /\ feed' = feed /\ step' = step
  BY <1>1 DEF web, accounts, lists, CheckerStays
<1>3. Queues(sent) /\ Queues(replies) /\ OneMessage(sent, replies)
  BY QueuesTyped DEF RunningOK
<1>4. /\ OneMessage(sent', replies')
      /\ \A k \in Connections : Busy(k, sent', replies') \subseteq Busy(k, sent, replies)
  BY <1>1, <1>3, MessageAnswered
<1>5. \A c : Still(c)
  BY <1>2, <1>4 DEF Still, SameWeb, Awaiting, Connections
<1>6. /\ \A k \in Connections \ {n} : sent'[k] = sent[k]
      /\ sent'[n] = Tail(sent[n]) /\ Range(sent[n]) = Range(sent'[n]) \cup {h}
  BY <1>1, <1>3, CommandTaken
<1>7. /\ \A k \in Connections \ {n} : replies'[k] = replies[k]
      /\ replies'[n] = Append(replies[n], r)
      /\ Range(replies'[n]) = Range(replies[n]) \cup {r}
  BY <1>1, <1>3, CommandAdded
<1>8. Grows
  <2>1. \A m \in Range(sent["users"]) :
          m \in Range(sent'["users"]) \/ SentEffect(m)
    BY <1>6 DEF Connections
  <2>2. \A m \in Range(replies["users"]) : m \in Range(replies'["users"])
    BY <1>7 DEF Connections
  <2>3. ChallengeOwner \in Range(sent["crypto"]) =>
          ChallengeOwner \in Range(sent'["crypto"])
    BY <1>6 DEF Connections
  <2>4. \A f \in Fellows : pending[f] = Owner => Waiting(f)'
    BY <1>2 DEF Waiting
  <2>5. \A u \in Visitors : Shown(u) => Shown(u)'
    BY <1>2 DEF Shown
  <2> QED
    BY <1>2, <2>1, <2>2, <2>3, <2>4, <2>5, GrowsBy
<1>15. Settled
  BY <1>5, <1>8 DEF Settled
<1>9. WayOK'
  <2> SUFFICES ASSUME NEW q, q = sent["users"]
               PROVE  WayOK'
    OBVIOUS
  <2>1. q \in Seq(Range(q)) /\ p \in Seq(Range(p)) /\ SentWay(q) /\ ReplyWay(p)
    BY QueuesTyped DEF Connections, RunningOK, WayOK
  <2>2. SentWay(q)'
    BY <1>2, <1>5, <1>8, <2>1, SentWayStays
  <2>3. ReplyWay(p)'
    BY <1>2, <1>5, <1>8, <2>1, ReplyWayStays
  <2>4. CASE n = "users"
    <3>1. q # <<>> /\ SentEffect(Head(q)) /\ sent'["users"] = Tail(q)
      BY <1>6, <2>4
    <3>2. SentWay(Tail(q))'
      BY <1>2, <1>5, <1>8, <2>1, <3>1, SentWayTail
    <3>3. ReplyWay(Append(p, r))'
      BY <1>15, <2>1, <2>3, <2>4, ReplyWayAppend
    <3>4. replies'["users"] = Append(p, r)
      BY <1>7, <2>4
    <3> QED
      BY <3>1, <3>2, <3>3, <3>4 DEF WayOK
  <2>5. CASE n # "users"
    <3>1. sent'["users"] = q /\ replies'["users"] = p
      BY <1>6, <1>7, <2>5 DEF Connections
    <3> QED
      BY <2>2, <2>3, <3>1 DEF WayOK
  <2> QED
    BY <2>4, <2>5
<1>10. PageOK'
  <2>1. Range(sent'["tweets"]) \subseteq Range(sent["tweets"])
    BY <1>6 DEF Connections
  <2>2. \A m \in Range(replies'["tweets"]) :
          m \in Range(replies["tweets"]) \/ (n = "tweets" /\ m = r)
    BY <1>7 DEF Connections
  <2>3. \A c : SameWeb(c)
    BY <1>5 DEF Still
  <2> QED
    BY <1>15, <1>8, <2>1, <2>2, <2>3, PageKept DEF RunningOK, CheckerStays
<1>11. ChallengeOK'
  <2>1. CASE n = "crypto"
    <3> SUFFICES ASSUME NEW q, q = sent["crypto"]
                 PROVE  ChallengeOK'
      OBVIOUS
    <3>1. q \in Seq(Range(q)) /\ q # <<>> /\ Head(q) = h /\ sent'["crypto"] = Tail(q)
      BY <1>6, <2>1, QueuesTyped
    <3>2. \A x \in Items(Tail(q)) : <<x[1], x[2] \cup {h}>> \in Items(q)
      BY <3>1, ItemsTail
    <3>3. ASSUME NEW x \in Items(Tail(q))
          PROVE  StillChallenged(q, x[1], x[2])
      <4>1. <<x[1], x[2] \cup {h}>> \in Items(q)
        BY <3>2
      <4>2. ChallengeOwner \in x[2] \cup {h} => ChallengeOwner \in x[2]
        OBVIOUS
      <4> QED
        BY <1>5, <4>1, <4>2 DEF StillChallenged
    <3>4. \A m \in Range(replies'["crypto"]) :
            m \in Range(replies["crypto"]) \/ ChallengeReplyOK(m)'
      BY <1>15, <1>7, <2>1
    <3> QED
      BY <1>5, <1>8, <3>1, <3>3, <3>4, ChallengeKept DEF RunningOK
  <2>2. CASE n # "crypto"
    <3>1. sent'["crypto"] = sent["crypto"] /\ replies'["crypto"] = replies["crypto"]
      BY <1>6, <1>7, <2>2 DEF Connections
    <3> QED
      BY <1>3, <1>5, <1>8, <3>1, ChallengeStays DEF RunningOK
  <2> QED
    BY <2>1, <2>2
<1>12. TraceOK'
  BY <1>1, <1>8, TraceStays DEF RunningOK
<1>13. \A c \in Visitors : GoesOn(c)
  BY <1>2 DEF GoesOn
<1>14. /\ parts' = [c \in Users |-> parts'[c]]
       /\ answer' = [c \in Users |-> answer'[c]]
  BY <1>2 DEF RunningOK, RequestsOK
<1> QED
  BY <1>4, <1>8, <1>9, <1>10, <1>11, <1>12, <1>13, <1>14, Stepped

LEMMA Commands ==
  /\ \A u : SaveUser(u).do = "save"
  /\ \A f : /\ AskOwner(f).do = "hset pending"
            /\ AcceptFellow(f).do = "hget pending" /\ CopyOwn(f).do = "lrange own"
            /\ AskOwner(f).f = f
            /\ AcceptFellow(f).u = Owner /\ AcceptFellow(f).f = f
            /\ CopyOwn(f).u = Owner /\ CopyOwn(f).f = f
            /\ \A m : CopyTo(m, f) => m.do = "copies"
  /\ ChallengeOwner.do = "hset random"
BY DEF SaveUser, AskOwner, AcceptFellow, CopyOwn, CopyTo, ChallengeOwner

\* Most commands lead to nothing but their reply.
LEMMA NoEffect ==
  ASSUME NEW h,
         h.do \notin {"save", "hset pending", "hget pending", "lrange own", "copies"}
  PROVE  SentEffect(h)
BY Commands DEF SentEffect

\* What the invariant says of the first command of users.js.
LEMMA UsersSentHead ==
  ASSUME IInv, RunningOK, sent["users"] # <<>>, NEW h, h = Command("users")
  PROVE  /\ UsersSentOK(h, {}) /\ ReadingSent(h, {})
         /\ UsersCommandOK(<<h>>, 1, followers, feed, asked, granted)
<1> DEFINE q == sent["users"]
<1>1. q \in Seq(Range(q)) /\ q # <<>> /\ SentWay(q)
  BY QueuesTyped DEF Connections, RunningOK, WayOK
<1> DEFINE x == <<Head(q), {}>>
<1>2. x \in Items(q)
  <2> HIDE DEF q
  <2> QED
    BY <1>1, ItemsTail
<1>3. x[1] = h /\ x[2] = {}
  BY DEF Command
<1> HIDE DEF x, q
<1>4. UsersSentOK(x[1], x[2]) /\ ReadingSent(x[1], x[2])
  BY <1>1, <1>2 DEF SentWay
<1> QED
  BY <1>3, <1>4, UsersHead

\* A visitor with a session is known to redis, the owner's may be over when the
\* flag is got.
LEMMA KnownVisitor ==
  ASSUME RunningOK, NEW c \in Visitors, NEW u \in Visitors, Known(u),
         req[c] # NoRequest, u = req[c].cookie
  PROVE  u \in registered /\ (u \in sessions \/ (u = Owner /\ step = "get"))
<1>1. req[c] = RequestOf(step, c)
  BY DEF RunningOK, RequestsOK
<1>2. step \in {"signin", "challenge"} => u = Nobody
  BY <1>1 DEF RequestOf, Request
<1>3. u # Nobody
  BY FellowsVisit, ConstantsAssumption
<1> QED
  BY <1>2, <1>3 DEF Known

LEMMA GetVisit ==
  ASSUME IInv, RunningOK, CheckerStays, Get
  PROVE  RunningOK'
<1> SUFFICES ASSUME NEW h, h = Head(sent["users"]), NEW p, p = replies["users"],
                    NEW r, r = [then |-> "session", c |-> h.c, u |-> h.u,
                            found |-> h.u \in sessions]
             PROVE  RunningOK'
  OBVIOUS
<1>1. /\ sent["users"] # <<>> /\ h.do = "get" /\ Done("users", r)
      /\ UNCHANGED <<web, history>>
  BY DEF Get, Executes, Command
<1>2. UsersSentOK(h, {}) /\ ReadingSent(h, {})
  BY <1>1, UsersSentHead DEF Command
<1>3. /\ r.then = "session" /\ r.c = h.c /\ r.u = h.u
      /\ r.found <=> h.u \in sessions
  OBVIOUS
<1>4. Asks(h) <=> Answers(r)
  BY <1>1, <1>3 DEF Asks, Answers
<1>5. SentEffect(h) /\ h # ChallengeOwner
  BY <1>1, NoEffect, Commands
<1>6. SessionOK(h)
  BY <1>1, <1>2 DEF UsersSentOK
<1>7. h.c \in Visitors => Known(h.u)
  BY <1>1, <1>2 DEF UsersSentOK
<1>8. h.c \in Visitors =>
        /\ h.u \in registered
        /\ h.u \in sessions \/ (h.u = Owner /\ step = "get")
  BY <1>6, <1>7, KnownVisitor DEF SessionOK, Fresh
<1>9. ASSUME Settled PROVE UsersReplySafe(r)'
  <2>1. SessionOK(r)'
    BY <1>3, <1>6, <1>9 DEF SessionOK, Settled, Still, SameWeb, Fresh
  <2> QED
    BY <1>3, <1>8, <1>9, <2>1
       DEF UsersReplySafe, Lookups, Settled, Grows, CheckerStays
<1>10. ASSUME Settled PROVE ReadingReply(r, Range(p))'
  <2>1. ASSUME h.c \in Fellows, req'[h.c].route = "home"
        PROVE  Added(h.c)' \/ Match(h.c) \in Range(p)
    <3>1. Matched(h.c)
      BY <1>1, <1>2, <1>10, <2>1 DEF ReadingSent, Settled, Still, SameWeb
    <3> QED
      BY <1>10, <2>1, <3>1 DEF Matched, Settled, Grows
  <2> QED
    BY <1>3, <2>1 DEF ReadingReply
<1> QED
  BY <1>1, <1>3, <1>4, <1>5, <1>9, <1>10, Replied DEF Connections

LEMMA HGetVisit ==
  ASSUME IInv, RunningOK, CheckerStays, HGet
  PROVE  RunningOK'
<1> SUFFICES ASSUME NEW h, h = Head(sent["users"]), NEW p, p = replies["users"],
                    NEW r, r = [then |-> h.then, c |-> h.c, me |-> h.me, u |-> h.u,
                            found |-> h.u \in registered]
             PROVE  RunningOK'
  OBVIOUS
<1>1. /\ sent["users"] # <<>> /\ h.do = "hget" /\ Done("users", r)
      /\ UNCHANGED <<web, history>>
  BY DEF HGet, Executes, Command
<1>2. /\ UsersSentOK(h, {}) /\ ReadingSent(h, {})
      /\ UsersCommandOK(<<h>>, 1, followers, feed, asked, granted)
  BY <1>1, UsersSentHead DEF Command
<1>3. /\ r.then = h.then /\ r.c = h.c /\ r.u = h.u /\ r.me = h.me
      /\ r.found <=> h.u \in registered
  OBVIOUS
<1>4. h.then \in Lookups
  <2>1. <<h>>[1] = h
    OBVIOUS
  <2> QED
    BY <1>1, <1>2, <2>1 DEF UsersCommandOK
<1>5. Asks(h) <=> Answers(r)
  BY <1>1, <1>3, <1>4 DEF Asks, Answers
<1>6. SentEffect(h) /\ h # ChallengeOwner
  BY <1>1, NoEffect, Commands
<1>7. LookupOK(h) /\ (h.c \in Visitors => h.u \in registered)
  BY <1>1, <1>2 DEF UsersSentOK
<1>8. ASSUME Settled PROVE UsersReplySafe(r)'
  <2>1. LookupOK(r)'
    BY <1>3, <1>7, <1>8 DEF LookupOK, Settled, Still, SameWeb, Fresh
  <2> QED
    BY <1>3, <1>4, <1>7, <2>1 DEF UsersReplySafe, Lookups
<1>9. ASSUME Settled PROVE ReadingReply(r, Range(p))'
  <2>1. ASSUME h.then = "user", h.c \in Fellows, req'[h.c].route = "home"
        PROVE  Copying(h.c)' \/ \E a \in Range(p) : CopyFrom(a, h.c)
    <3>1. Copied(h.c)
      BY <1>1, <1>2, <1>9, <2>1 DEF ReadingSent, Settled, Still, SameWeb
    <3> QED
      BY <1>9, <2>1, <3>1 DEF Copied, Settled, Grows
  <2>2. ASSUME h.then = "page", h.c \in Fellows PROVE Shown(h.c)'
    <3>1. Shown(h.c)
      BY <1>1, <1>2, <2>2 DEF ReadingSent
    <3> QED
      BY <1>9, <2>2, <3>1, FellowsVisit DEF Settled, Grows
  <2>3. h.then # "session"
    BY <1>4 DEF Lookups
  <2> QED
    BY <1>3, <2>1, <2>2, <2>3 DEF ReadingReply
<1> QED
  BY <1>1, <1>3, <1>5, <1>6, <1>8, <1>9, Replied DEF Connections

LEMMA ListsVisit ==
  ASSUME IInv, RunningOK, CheckerStays, Lists
  PROVE  RunningOK'
<1> SUFFICES ASSUME NEW h, h = Head(sent["users"]), NEW p, p = replies["users"],
                    NEW r, r = [then |-> "lists", c |-> h.c]
             PROVE  RunningOK'
  OBVIOUS
<1>1. /\ sent["users"] # <<>> /\ h.do = "lists" /\ Done("users", r)
      /\ UNCHANGED <<web, history>>
  BY DEF Lists, Executes, Command
<1>2. ListsOK(h)
  BY <1>1, UsersSentHead DEF Command, UsersSentOK
<1>3. r.then = "lists" /\ r.c = h.c
  OBVIOUS
<1>4. Asks(h) <=> Answers(r)
  BY <1>1, <1>3 DEF Asks, Answers
<1>5. SentEffect(h) /\ h # ChallengeOwner
  BY <1>1, NoEffect, Commands
<1>6. ASSUME Settled PROVE UsersReplySafe(r)' /\ ReadingReply(r, Range(p))'
  <2>1. ListsOK(r)'
    BY <1>2, <1>3, <1>6 DEF ListsOK, Settled, Still, SameWeb
  <2> QED
    BY <1>3, <2>1 DEF UsersReplySafe, ReadingReply, Lookups
<1> QED
  BY <1>1, <1>3, <1>4, <1>5, <1>6, Replied DEF Connections

LEMMA HValsVisit ==
  ASSUME IInv, RunningOK, CheckerStays, HVals
  PROVE  RunningOK'
<1> SUFFICES ASSUME NEW h, h = Head(sent["users"]), NEW p, p = replies["users"],
                    NEW r, r = [then |-> "list", c |-> h.c, users |-> registered]
             PROVE  RunningOK'
  OBVIOUS
<1>1. /\ sent["users"] # <<>> /\ h.do = "hvals" /\ Done("users", r)
      /\ UNCHANGED <<web, history>>
  BY DEF HVals, Executes, Command
<1>2. UsersSentOK(h, {})
  BY <1>1, UsersSentHead DEF Command
<1>3. r.then = "list" /\ r.c = h.c /\ r.users = registered
  OBVIOUS
<1>4. Asks(h) <=> Answers(r)
  BY <1>1, <1>3 DEF Asks, Answers
<1>5. SentEffect(h) /\ h # ChallengeOwner
  BY <1>1, NoEffect, Commands
<1>6. ASSUME Settled PROVE UsersReplySafe(r)' /\ ReadingReply(r, Range(p))'
  <2>1. h.c \in Visitors =>
          Fresh(h.c) /\ req[h.c].route = "users" /\ h.c \in registered
    BY <1>1, <1>2 DEF UsersSentOK
  <2>2. h.c \in Visitors =>
          Fresh(h.c)' /\ req'[h.c].route = "users" /\ h.c \in registered
    BY <1>6, <2>1 DEF Settled, Still, SameWeb, Fresh
  <2> QED
    BY <1>3, <2>2 DEF UsersReplySafe, ReadingReply, Lookups
<1> QED
  BY <1>1, <1>3, <1>4, <1>5, <1>6, Replied DEF Connections

LEMMA HGetPendingVisit ==
  ASSUME IInv, RunningOK, CheckerStays, HGetPending
  PROVE  RunningOK'
<1> SUFFICES ASSUME NEW h, h = Head(sent["users"]), NEW p, p = replies["users"],
                    NEW r, r = [then |-> "accept", u |-> h.u, f |-> h.f,
                                match |-> pending[h.f] = h.u]
             PROVE  RunningOK'
  OBVIOUS
<1>1. /\ sent["users"] # <<>> /\ h.do = "hget pending" /\ Done("users", r)
      /\ UNCHANGED <<web, history>>
  BY DEF HGetPending, Executes, Command
<1>2. UsersSentOK(h, {})
  BY <1>1, UsersSentHead DEF Command
<1>3. r.then = "accept"
  OBVIOUS
<1>4. ~Asks(h) /\ ~Answers(r)
  BY <1>1, <1>3 DEF Asks, Answers, Lookups
<1>5. ASSUME NEW f \in Fellows, h = AcceptFellow(f)
      PROVE  Matched(f) \/ Matched(f)'
  <2>1. h.u = Owner /\ h.f = f
    <3>1. AcceptFellow(f).u = Owner /\ AcceptFellow(f).f = f
      BY Commands
    <3> QED
      BY <1>5, <3>1
  <2>2. Waiting(f)
    BY <1>1, <1>2, <2>1 DEF UsersSentOK
  <2>3. CASE pending[f] = Owner
    <3>1. r = Match(f)
      BY <2>1, <2>3 DEF Match
    <3>2. replies' = With(replies, "users", r) /\ Queues(replies)
      BY <1>1, QueuesTyped DEF Done, With
    <3>3. Range(replies'["users"]) = Range(replies["users"]) \cup {r}
      BY <3>2, CommandAdded DEF Connections
    <3> QED
      BY <3>1, <3>3 DEF Matched
  <2> QED
    BY <2>2, <2>3 DEF Waiting
<1>6. SentEffect(h) /\ h # ChallengeOwner
  BY <1>1, <1>5, Commands DEF SentEffect
<1>7. UsersReplySafe(r)' /\ ReadingReply(r, Range(p))'
  BY <1>3 DEF UsersReplySafe, ReadingReply, Lookups
<1> QED
  BY <1>1, <1>4, <1>6, <1>7, Replied DEF Connections

LEMMA LRangeOwnVisit ==
  ASSUME IInv, RunningOK, CheckerStays, LRangeOwn
  PROVE  RunningOK'
<1> SUFFICES ASSUME NEW h, h = Head(sent["users"]), NEW p, p = replies["users"],
                    NEW r, r = [then |-> "copy", u |-> h.u, f |-> h.f,
                                ts |-> feed[h.u]]
             PROVE  RunningOK'
  OBVIOUS
<1>1. /\ sent["users"] # <<>> /\ h.do = "lrange own" /\ Done("users", r)
      /\ UNCHANGED <<web, history>>
  BY DEF LRangeOwn, Executes, Command
<1>2. h.u \in Users /\ h.f \in followers[h.u]
  <2>1. <<h>>[1] = h /\ 1 .. 1 - 1 = {}
    OBVIOUS
  <2> QED
    BY <1>1, <2>1, UsersSentHead DEF Command, UsersCommandOK
<1>3. r.then = "copy" /\ r.u = h.u /\ r.f = h.f /\ r.ts = feed[h.u]
  OBVIOUS
<1>4. ~Asks(h) /\ ~Answers(r)
  BY <1>1, <1>3 DEF Asks, Answers, Lookups
<1>5. ASSUME NEW f \in Fellows, h = CopyOwn(f) PROVE Copied(f)'
  <2>1. h.u = Owner /\ h.f = f
    <3>1. CopyOwn(f).u = Owner /\ CopyOwn(f).f = f
      BY Commands
    <3> QED
      BY <1>5, <3>1
  <2>2. CopyFrom(r, f)
    BY <1>3, <2>1 DEF CopyFrom
  <2>3. replies' = With(replies, "users", r) /\ Queues(replies)
    BY <1>1, QueuesTyped DEF Done, With
  <2>4. Range(replies'["users"]) = Range(replies["users"]) \cup {r}
    BY <2>3, CommandAdded DEF Connections
  <2> QED
    BY <2>2, <2>4 DEF Copied
<1>6. SentEffect(h) /\ h # ChallengeOwner
  BY <1>1, <1>5, Commands DEF SentEffect
<1>7. h.u = Owner => feed[h.u] # <<>>
  <2>1. h.f \in Users
    BY <1>2 DEF IInv, TypeOK, Tables
  <2>2. <<h.u, h.f>> \in granted
    BY <1>2 DEF RunningOK, TraceOK
  <2>3. h.u = Owner => Shown(h.u)
    BY <2>1, <2>2, FellowsVisit DEF RunningOK, TraceOK
  <2> QED
    BY <2>3 DEF Shown
<1>8. UsersReplySafe(r)' /\ ReadingReply(r, Range(p))'
  BY <1>3, <1>7 DEF UsersReplySafe, ReadingReply, Lookups
<1> QED
  BY <1>1, <1>4, <1>6, <1>8, Replied DEF Connections

LEMMA HKeysVisit ==
  ASSUME IInv, RunningOK, CheckerStays, HKeys
  PROVE  RunningOK'
<1> SUFFICES ASSUME NEW h, h = Head(sent["tweets"]), NEW p, p = replies["users"],
                    NEW r, r = [then |-> "deliver", u |-> h.u, t |-> h.t,
                                to |-> followers[h.u]]
             PROVE  RunningOK'
  OBVIOUS
<1>1. /\ sent["tweets"] # <<>> /\ h.do = "hkeys" /\ Done("tweets", r)
      /\ UNCHANGED <<web, history>> /\ r.then = "deliver"
  BY DEF HKeys, Executes, Command
<1>2. ~Asks(h) /\ ~Answers(r) /\ h # ChallengeOwner
  BY <1>1, Commands DEF Asks, Answers, Lookups
<1>3. PageReplyOK(r)'
  BY <1>1 DEF PageReplyOK
<1> QED
  BY <1>1, <1>2, <1>3, Replied DEF Connections

LEMMA LRangeVisit ==
  ASSUME IInv, RunningOK, CheckerStays, LRange
  PROVE  RunningOK'
<1> SUFFICES ASSUME NEW h, h = Head(sent["tweets"]), NEW p, p = replies["users"],
                    NEW r, r = [then |-> "feed", c |-> h.c, ts |-> feed[h.u]]
             PROVE  RunningOK'
  OBVIOUS
<1>1. /\ sent["tweets"] # <<>> /\ h.do = "lrange" /\ Done("tweets", r)
      /\ UNCHANGED <<web, history>>
  BY DEF LRange, Executes, Command
<1>2. r.then = "feed" /\ r.c = h.c /\ r.ts = feed[h.u]
  OBVIOUS
<1>3. (Asks(h) <=> Answers(r)) /\ h # ChallengeOwner
  BY <1>1, <1>2, Commands DEF Asks, Answers
<1>4. PageSentOK(h)
  <2>1. "tweets" \in Connections
    BY DEF Connections
  <2>2. h \in Range(sent["tweets"])
    BY <1>1, <2>1, QueuesTyped, CommandTaken
  <2> QED
    BY <2>2 DEF RunningOK, PageOK
<1>5. ASSUME Settled PROVE PageReplyOK(r)'
  <2>1. ASSUME h.c \in Visitors
        PROVE  /\ req'[h.c].route = "home" /\ "tweets" \notin parts'[h.c].got
               /\ TweetsOK(h.c, feed[h.u])'
    <3>1. /\ h.u = h.c /\ req[h.c].route = "home"
          /\ "tweets" \notin parts[h.c].got
          /\ Reader(h.c) => Shown(h.c)
      BY <1>1, <1>4, <2>1 DEF PageSentOK
    <3>2. feed[h.c] \in Seq({Flag}) /\ feed' = feed
      BY <1>1, <2>1 DEF RunningOK, TraceOK, Done, lists
    <3>3. TweetsOK(h.c, feed[h.u])'
      BY <3>1, <3>2 DEF TweetsOK, Reader, Shown, CheckerStays
    <3> QED
      BY <1>5, <3>1, <3>3 DEF Settled, Still, SameWeb
  <2>2. feed' = feed
    BY <1>1 DEF Done, lists
  <2> QED
    BY <1>2, <2>1, <2>2 DEF PageReplyOK
<1> QED
  BY <1>1, <1>2, <1>3, <1>5, Replied DEF Connections

LEMMA HGetRandomVisit ==
  ASSUME IInv, RunningOK, CheckerStays, HGetRandom
  PROVE  RunningOK'
<1> SUFFICES ASSUME NEW h, h = Head(sent["crypto"]), NEW p, p = replies["users"],
                    NEW r, r = [then |-> "random", c |-> h.c, u |-> h.u,
                                found |-> h.u \in randoms]
             PROVE  RunningOK'
  OBVIOUS
<1>1. /\ sent["crypto"] # <<>> /\ h.do = "hget random" /\ Done("crypto", r)
      /\ UNCHANGED <<web, history>>
  BY DEF HGetRandom, Executes, Command
<1>2. r.then = "random" /\ r.c = h.c /\ r.u = h.u /\ (r.found <=> h.u \in randoms)
  OBVIOUS
<1>3. (Asks(h) <=> Answers(r)) /\ h # ChallengeOwner
  BY <1>1, <1>2, Commands DEF Asks, Answers
<1>4. ChallengeSentOK(h, {})
  <2> SUFFICES ASSUME NEW q, q = sent["crypto"]
               PROVE  ChallengeSentOK(h, {})
    OBVIOUS
  <2> DEFINE x == <<h, {}>>
  <2>1. q \in Seq(Range(q)) /\ q # <<>> /\ h = Head(q)
    BY <1>1, QueuesTyped DEF Connections
  <2>2. x \in Items(q) /\ x[1] = h /\ x[2] = {}
    BY <2>1, ItemsTail
  <2> HIDE DEF x
  <2>3. ChallengeSentOK(x[1], x[2])
    BY <2>2 DEF RunningOK, ChallengeOK
  <2> QED
    BY <2>2, <2>3
<1>5. ASSUME Settled PROVE ChallengeReplyOK(r)'
  <2>1. h.c \in Visitors => OwnerAnswers(h.c) /\ h.u = Owner /\ Owner \in randoms
    BY <1>1, <1>4 DEF ChallengeSentOK
  <2>2. OwnerAnswers(h.c) => OwnerAnswers(h.c)'
    BY <1>5 DEF OwnerAnswers, Fresh, Settled, Still, SameWeb
  <2> QED
    BY <1>2, <2>1, <2>2 DEF ChallengeReplyOK
<1> QED
  BY <1>1, <1>2, <1>3, <1>5, Replied DEF Connections

\* A command that nobody waits for: it leaves its queue q, which becomes q2, and
\* changes what redis keeps.
LEMMA Executed ==
  ASSUME IInv, RunningOK, CheckerStays, UNCHANGED <<web, replies, history>>,
         NEW n \in Connections, NEW q, q = sent[n], q # <<>>,
         NEW h, h = Head(q), NEW q2, sent' = [sent EXCEPT ![n] = q2],
         registered \subseteq registered', randoms \subseteq randoms',
         \A u \in Visitors : u \in sessions => u \in sessions',
         \A u \in Visitors : Shown(u) => Shown(u)',
         \A f \in Fellows : pending[f] = Owner => Matched(f) \/ Waiting(f)',
         \A m \in Range(q) : m \in Range(q2) \/ m = h,
         n = "users" => SentEffect(h), h = ChallengeOwner => Owner \in randoms',
         OneQuestion(q2), Asking(q2) \subseteq Asking(q),
         Settled => TraceOK', n = "users" /\ Settled => SentWay(q2)',
         n = "tweets" => \A m \in Range(q2) : m \in Range(q) \/ ~Asks(m),
         n = "crypto" => q2 = Tail(q)
  PROVE  RunningOK'
<1>1. /\ req' = req /\ parts' = parts /\ answer' = answer /\ step' = step
      /\ replies' = replies
  BY DEF web, CheckerStays
<1>2. /\ sent'[n] = q2 /\ \A k \in Connections \ {n} : sent'[k] = sent[k]
  BY QueuesTyped DEF Queues
<1>3. /\ OneMessage(sent', replies')
      /\ \A k \in Connections : Busy(k, sent', replies') \subseteq Busy(k, sent, replies)
  <2>1. OneMessage(sent, replies)
    BY DEF RunningOK
  <2>2. \A k \in Connections : /\ OneQuestion(sent'[k]) /\ OneAnswer(replies'[k])
                               /\ Asking(sent'[k]) \subseteq Asking(sent[k])
                               /\ Answering(replies'[k]) \subseteq Answering(replies[k])
    BY <1>1, <1>2, <2>1 DEF OneMessage
  <2> QED
    BY <2>1, <2>2, MessagesLeft
<1>4. \A c : Still(c)
  BY <1>1, <1>3 DEF Still, SameWeb, Awaiting, Connections
<1>5. Grows
  <2>1. \A m \in Range(sent["users"]) :
          m \in Range(sent'["users"]) \/ SentEffect(m)
    BY <1>2 DEF Connections
  <2>2. \A m \in Range(replies["users"]) : m \in Range(replies'["users"])
    BY <1>1
  <2>3. ChallengeOwner \in Range(sent["crypto"]) =>
          ChallengeOwner \in Range(sent'["crypto"]) \/ Owner \in randoms'
    BY <1>2 DEF Connections
  <2> QED
    BY <1>1, <2>1, <2>2, <2>3, GrowsBy
<1>6. Settled
  BY <1>4, <1>5 DEF Settled
<1>7. WayOK'
  <2>1. ReplyWay(replies["users"])'
    <3> SUFFICES ASSUME NEW p, p = replies["users"]
                 PROVE  ReplyWay(p)'
      BY <1>1
    <3>1. p \in Seq(Range(p)) /\ ReplyWay(p)
      BY QueuesTyped DEF Connections, RunningOK, WayOK
    <3> QED
      BY <1>1, <1>4, <1>5, <3>1, ReplyWayStays
  <2>2. CASE n = "users"
    BY <1>2, <1>6, <2>1, <2>2 DEF WayOK
  <2>3. CASE n # "users"
    <3> SUFFICES ASSUME NEW p, p = sent["users"]
                 PROVE  WayOK'
      OBVIOUS
    <3>1. p \in Seq(Range(p)) /\ SentWay(p) /\ sent'["users"] = p
      BY <1>2, <2>3, QueuesTyped DEF Connections, RunningOK, WayOK
    <3>2. SentWay(p)'
      BY <1>1, <1>4, <1>5, <3>1, SentWayStays
    <3> QED
      BY <2>1, <3>1, <3>2 DEF WayOK
  <2> QED
    BY <2>2, <2>3
<1>8. PageOK'
  <2>1. \A m \in Range(sent'["tweets"]) :
          m \in Range(sent["tweets"]) \/ PageSentOK(m)'
    BY <1>2 DEF Connections, PageSentOK, Asks
  <2>2. \A c : SameWeb(c)
    BY <1>4 DEF Still
  <2> QED
    BY <1>1, <1>5, <2>1, <2>2, PageKept DEF RunningOK, CheckerStays
<1>9. ChallengeOK'
  <2>1. CASE n = "crypto"
    <3>1. q \in Seq(Range(q)) /\ sent'["crypto"] = Tail(q) /\ sent["crypto"] = q
      BY <1>2, <2>1, QueuesTyped
    <3>2. \A x \in Items(Tail(q)) : <<x[1], x[2] \cup {h}>> \in Items(q)
      BY <3>1, ItemsTail
    <3>3. ASSUME NEW x \in Items(Tail(q))
          PROVE  StillChallenged(q, x[1], x[2])
      <4>1. <<x[1], x[2] \cup {h}>> \in Items(q)
        BY <3>2
      <4>2. ChallengeOwner \in x[2] \cup {h} =>
              ChallengeOwner \in x[2] \/ Owner \in randoms'
        OBVIOUS
      <4> QED
        BY <1>4, <4>1, <4>2 DEF StillChallenged
    <3> QED
      BY <1>1, <1>4, <1>5, <3>1, <3>3, ChallengeKept DEF RunningOK
  <2>2. CASE n # "crypto"
    <3>1. sent'["crypto"] = sent["crypto"] /\ replies'["crypto"] = replies["crypto"]
      BY <1>1, <1>2, <2>2 DEF Connections
    <3> QED
      BY <1>4, <1>5, <3>1, ChallengeStays, QueuesTyped DEF RunningOK
  <2> QED
    BY <2>1, <2>2
<1>10. \A c \in Visitors : GoesOn(c)
  BY <1>1 DEF GoesOn
<1>11. /\ parts' = [c \in Users |-> parts'[c]]
       /\ answer' = [c \in Users |-> answer'[c]]
  BY <1>1 DEF RunningOK, RequestsOK
<1> QED
  BY <1>3, <1>5, <1>6, <1>7, <1>8, <1>9, <1>10, <1>11, Stepped

\* The queue loses the command.
LEMMA Popped ==
  ASSUME IInv, RunningOK, CheckerStays, UNCHANGED <<web, replies, history>>,
         NEW n \in Connections, sent[n] # <<>>, Pop(n),
         NEW h, h = Head(sent[n]),
         registered \subseteq registered', randoms \subseteq randoms',
         \A u \in Visitors : u \in sessions => u \in sessions',
         \A u \in Visitors : Shown(u) => Shown(u)',
         \A f \in Fellows : pending[f] = Owner => Matched(f) \/ Waiting(f)',
         n = "users" => SentEffect(h), h = ChallengeOwner => Owner \in randoms',
         Settled => TraceOK'
  PROVE  RunningOK'
<1> SUFFICES ASSUME NEW q, q = sent[n]
             PROVE  RunningOK'
  OBVIOUS
<1>1. q \in Seq(Range(q)) /\ q # <<>> /\ h = Head(q) /\ OneQuestion(q)
  BY QueuesTyped DEF RunningOK, OneMessage
<1>2. Range(q) = Range(Tail(q)) \cup {h}
  BY <1>1, ItemsTail
<1>3. OneQuestion(Tail(q)) /\ Asking(Tail(q)) \subseteq Asking(q)
  BY <1>1, AskingTail
<1>4. sent' = [sent EXCEPT ![n] = Tail(q)]
  BY DEF Pop
<1>5. ASSUME n = "users", Settled PROVE SentWay(Tail(q))'
  <2>1. SentWay(q) /\ Grows /\ step' = step /\ SentEffect(Head(q))
    BY <1>1, <1>5 DEF RunningOK, WayOK, Settled, CheckerStays
  <2>2. \A c \in Asking(Tail(q)) : Still(c)
    BY <1>5 DEF Settled
  <2> QED
    BY <1>1, <2>1, <2>2, SentWayTail
<1> QED
  BY <1>1, <1>2, <1>3, <1>4, <1>5, Executed

LEMMA SaveVisit ==
  ASSUME IInv, RunningOK, CheckerStays, Save
  PROVE  RunningOK'
<1> SUFFICES ASSUME NEW h, h = Head(sent["users"])
             PROVE  RunningOK'
  OBVIOUS
<1>1. /\ sent["users"] # <<>> /\ h.do \in {"save", "open"} /\ Pop("users")
      /\ sessions' = sessions \cup {h.u} /\ registered \subseteq registered'
      /\ h.do = "save" => h.u \in registered'
      /\ UNCHANGED <<web, replies, randoms, lists, history>>
  BY DEF Save, Command
<1>2. SentEffect(h)
  <2>1. ASSUME NEW u, h = SaveUser(u) PROVE Known(u)'
    <3>1. h.do = "save" /\ h.u = u
      BY <2>1 DEF SaveUser
    <3> QED
      BY <1>1, <3>1 DEF Known
  <2> QED
    BY <1>1, <2>1, Commands DEF SentEffect
<1>3. /\ \A u \in Visitors : Shown(u) => Shown(u)'
      /\ \A f \in Fellows : pending[f] = Owner => Waiting(f)'
  BY <1>1 DEF Shown, Waiting, lists
<1>4. Settled => TraceOK'
  BY <1>1, TraceStays DEF Settled, RunningOK
<1> QED
  BY <1>1, <1>2, <1>3, <1>4, Commands, Popped DEF Connections

LEMMA HSetPendingVisit ==
  ASSUME IInv, RunningOK, CheckerStays, HSetPending
  PROVE  RunningOK'
<1> SUFFICES ASSUME NEW h, h = Head(sent["users"])
             PROVE  RunningOK'
  OBVIOUS
<1>1. /\ sent["users"] # <<>> /\ h.do = "hset pending" /\ Pop("users")
      /\ pending' = [pending EXCEPT ![h.f] = h.u]
      /\ UNCHANGED <<web, replies, accounts, history>>
      /\ followers' = followers /\ feed' = feed
  BY DEF HSetPending, Command, Executes
<1>2. <<h.f, h.u>> \in asked
  <2>1. <<h>>[1] = h
    OBVIOUS
  <2> QED
    BY <1>1, <2>1, UsersSentHead DEF Command, UsersCommandOK
<1>3. /\ asked \subseteq Users \X Users
      /\ pending \in [Users -> Users \cup {Nobody}]
  BY DEF IInv, TypeOK, Tables
<1>4. h.f \in Visitors => h.u = Owner
  BY <1>2, <1>3 DEF RunningOK, TraceOK
<1>5. ASSUME NEW f \in Fellows, pending[f] = Owner \/ h = AskOwner(f)
      PROVE  Waiting(f)'
  <2>1. CASE h.f = f
    BY <1>1, <1>3, <1>4, <2>1, FellowsVisit DEF Waiting
  <2>2. CASE h.f # f
    <3>1. h # AskOwner(f)
      BY <2>2, Commands
    <3> QED
      BY <1>1, <1>3, <1>5, <2>2, <3>1, FellowsVisit DEF Waiting
  <2> QED
    BY <2>1, <2>2
<1>6. SentEffect(h)
  BY <1>1, <1>5, Commands DEF SentEffect
<1>7. /\ \A u \in Visitors : Shown(u) => Shown(u)'
      /\ registered' = registered /\ sessions' = sessions /\ randoms' = randoms
  BY <1>1 DEF Shown, accounts
<1>8. Settled => TraceOK'
  BY <1>1, TraceLists DEF Settled, RunningOK, TraceOK
<1> QED
  BY <1>1, <1>5, <1>6, <1>7, <1>8, Commands, Popped DEF Connections

LEMMA AddVisit ==
  ASSUME IInv, RunningOK, CheckerStays, Add
  PROVE  RunningOK'
<1> SUFFICES ASSUME NEW h, h = Head(sent["users"])
             PROVE  RunningOK'
  OBVIOUS
<1>1. /\ sent["users"] # <<>> /\ h.do = "add" /\ Pop("users")
      /\ followers' = [followers EXCEPT ![h.u] = @ \cup {h.f}]
      /\ pending' = [pending EXCEPT ![h.f] = Nobody]
      /\ UNCHANGED <<web, replies, accounts, history>> /\ feed' = feed
  BY DEF Add, Command, Executes
<1>2. <<h.f, h.u>> \in asked /\ <<h.u, h.f>> \in granted /\ UsersSentOK(h, {})
  <2>1. <<h>>[1] = h
    OBVIOUS
  <2> QED
    BY <1>1, <2>1, UsersSentHead DEF Command, UsersCommandOK
<1>3. /\ asked \subseteq Users \X Users
      /\ pending \in [Users -> Users \cup {Nobody}]
      /\ followers \in [Users -> SUBSET Users]
  BY DEF IInv, TypeOK, Tables
<1>4. ASSUME NEW f \in Fellows, pending[f] = Owner
      PROVE  Matched(f) \/ Waiting(f)'
  <2>1. CASE h.f = f
    <3>1. h.u = Owner
      BY <1>2, <1>3, <2>1, FellowsVisit DEF RunningOK, TraceOK
    <3>2. Added(f)
      BY <1>1, <1>2, <2>1, <3>1 DEF UsersSentOK
    <3> QED
      BY <3>2 DEF Matched
  <2>2. CASE h.f # f
    BY <1>1, <1>3, <1>4, <2>2, FellowsVisit DEF Waiting
  <2> QED
    BY <2>1, <2>2
<1>5. SentEffect(h) /\ h # ChallengeOwner
  BY <1>1, NoEffect, Commands
<1>6. /\ \A u \in Visitors : Shown(u) => Shown(u)'
      /\ registered' = registered /\ sessions' = sessions /\ randoms' = randoms
  BY <1>1 DEF Shown, accounts
<1>7. ASSUME Settled PROVE TraceOK'
  <2>1. \A u \in Users : \A f \in followers'[u] :
          f \in followers[u] \/ (u = h.u /\ f = h.f)
    BY <1>1, <1>3
  <2>2. \A u \in Users : \A f \in followers'[u] :
          <<f, u>> \in asked /\ <<u, f>> \in granted
    BY <1>2, <2>1 DEF RunningOK, TraceOK
  <2>3. \A c \in Visitors : feed'[c] \in Seq({Flag})
    BY <1>1 DEF RunningOK, TraceOK
  <2> QED
    BY <1>1, <1>7, <2>2, <2>3, TraceLists DEF Settled, RunningOK
<1> QED
  BY <1>1, <1>4, <1>5, <1>6, <1>7, Popped DEF Connections

LEMMA HSetRandomVisit ==
  ASSUME IInv, RunningOK, CheckerStays, HSetRandom
  PROVE  RunningOK'
<1> SUFFICES ASSUME NEW h, h = Head(sent["crypto"])
             PROVE  RunningOK'
  OBVIOUS
<1>1. /\ sent["crypto"] # <<>> /\ Pop("crypto")
      /\ randoms' = randoms \cup {h.u}
      /\ UNCHANGED <<web, replies, registered, sessions, lists, history>>
  BY DEF HSetRandom, Command, Executes
<1>2. /\ \A u \in Visitors : Shown(u) => Shown(u)'
      /\ \A f \in Fellows : pending[f] = Owner => Waiting(f)'
      /\ registered' = registered /\ sessions' = sessions
  BY <1>1 DEF Shown, Waiting, lists
<1>3. ChallengeOwner.u = Owner
  BY DEF ChallengeOwner
<1>4. h = ChallengeOwner => Owner \in randoms'
  BY <1>1, <1>3
<1>5. Settled => TraceOK'
  BY <1>1, TraceStays DEF Settled, RunningOK
<1> QED
  BY <1>1, <1>2, <1>4, <1>5, Popped DEF Connections

LEMMA RangeNewHead ==
  ASSUME NEW q, q \in Seq(Range(q)), q # <<>>, NEW m
  PROVE  Range(<<m>> \o Tail(q)) = Range(Tail(q)) \cup {m}
BY ItemsNewHead

Replaced(q, m) == <<m>> \o Tail(q)

LEMMA HeadReplaced ==
  ASSUME NEW q, q \in Seq(Range(q)), q # <<>>, OneQuestion(q),
         NEW m, ~Asks(m), ~Asks(Head(q))
  PROVE  /\ OneQuestion(Replaced(q, m)) /\ Asking(Replaced(q, m)) \subseteq Asking(q)
         /\ \A x \in Range(q) : x \in Range(Replaced(q, m)) \/ x = Head(q)
         /\ \A x \in Range(Replaced(q, m)) : x \in Range(q) \/ x = m
<1> SUFFICES ASSUME NEW r, r = Replaced(q, m)
             PROVE  /\ OneQuestion(r) /\ Asking(r) \subseteq Asking(q)
                    /\ \A x \in Range(q) : x \in Range(r) \/ x = Head(q)
                    /\ \A x \in Range(r) : x \in Range(q) \/ x = m
  OBVIOUS
<1> USE DEF Replaced
<1>1. Range(r) = Range(Tail(q)) \cup {m}
  BY RangeNewHead
<1>2. Range(q) = Range(Tail(q)) \cup {Head(q)}
  BY ItemsTail
<1>3. OneQuestion(r) /\ Asking(r) \subseteq Asking(q)
  BY AskingNewHead
<1> QED
  BY <1>1, <1>2, <1>3

\* Another command that nobody waits for takes the place of the first.
LEMMA HeadChanged ==
  ASSUME IInv, RunningOK, CheckerStays, UNCHANGED <<web, replies, history>>,
         NEW n \in {"users", "tweets"}, NEW h, h = Head(sent[n]), sent[n] # <<>>,
         NEW m, NEW q2, q2 = Replaced(sent[n], m),
         sent' = [sent EXCEPT ![n] = q2],
         h.do \in {"copies", "push"}, m.do = h.do, n = "users" => m.do = "copies",
         registered \subseteq registered', randoms \subseteq randoms',
         \A u \in Visitors : u \in sessions => u \in sessions',
         \A u \in Visitors : Shown(u) => Shown(u)',
         \A f \in Fellows : pending[f] = Owner => Matched(f) \/ Waiting(f)',
         n = "users" => SentEffect(h), Settled => TraceOK'
  PROVE  RunningOK'
<1> SUFFICES ASSUME NEW q, q = sent[n]
             PROVE  RunningOK'
  OBVIOUS
<1>1. ~Asks(m) /\ ~Asks(h) /\ h # ChallengeOwner
  BY Commands DEF Asks
<1>2. q \in Seq(Range(q)) /\ OneQuestion(q) /\ (n = "users" => SentWay(q))
  BY QueuesTyped DEF RunningOK, OneMessage, WayOK, Connections
<1>3. /\ OneQuestion(q2) /\ Asking(q2) \subseteq Asking(q)
      /\ \A x \in Range(q) : x \in Range(q2) \/ x = h
      /\ \A x \in Range(q2) : x \in Range(q) \/ x = m
  BY <1>1, <1>2, HeadReplaced
<1>4. ASSUME n = "users", Settled PROVE SentWay(q2)'
  <2>1. \A B : UsersSentOK(m, B)' /\ ReadingSent(m, B)'
    BY <1>4 DEF UsersSentOK, ReadingSent
  <2>2. SentWay(<<m>> \o Tail(q))'
    BY <1>1, <1>2, <1>4, <2>1, SentWayNewHead DEF Settled, CheckerStays
  <2> QED
    BY <2>2 DEF Replaced
<1>6. n = "tweets" => \A x \in Range(q2) : x \in Range(q) \/ ~Asks(x)
  BY <1>1, <1>3
<1>7. n \in Connections /\ n # "crypto"
  BY DEF Connections
<1> QED
  BY <1>1, <1>3, <1>4, <1>6, <1>7, Executed

\* A list of a visitor gets the flag in front.
LEMMA PushVisit ==
  ASSUME IInv, TraceOK, NEW f \in Users, NEW t, LPush(f, t),
         f \in Visitors => t = Flag
  PROVE  /\ \A u \in Visitors : Shown(u) => Shown(u)'
         /\ f \in Visitors => Shown(f)'
         /\ \A c \in Visitors : feed'[c] \in Seq({Flag})
<1>1. feed' = [feed EXCEPT ![f] = <<t>> \o @] /\ feed \in [Users -> Seq(Tweets)]
  BY DEF LPush, IInv, TypeOK, Tables
<1>2. \A c \in Visitors : feed[c] \in Seq({Flag})
  BY DEF TraceOK
<1>3. ASSUME f \in Visitors
      PROVE  <<t>> \o feed[f] \in Seq({Flag}) /\ <<t>> \o feed[f] # <<>>
  <2> DEFINE s == feed[f]
  <2>1. s \in Seq({Flag}) /\ <<t>> \in Seq({Flag}) /\ Len(<<t>>) = 1
    BY <1>2, <1>3
  <2> HIDE DEF s
  <2>2. <<t>> \o s \in Seq({Flag}) /\ Len(<<t>> \o s) = 1 + Len(s) /\ Len(s) \in Nat
    BY <2>1
  <2>3. Len(<<t>> \o s) # 0
    BY <2>2
  <2> QED
    BY <2>2, <2>3 DEF s
<1>4. f \in Visitors => feed'[f] = <<t>> \o feed[f]
  BY <1>1
<1>5. \A c \in Visitors : c # f => feed'[c] = feed[c]
  BY <1>1, FellowsVisit
<1> QED
  BY <1>2, <1>3, <1>4, <1>5 DEF Shown

\* What a follower that visits is shown is the flag.
LEMMA SharedFlag ==
  ASSUME IInv, TraceOK, NEW u \in Users, NEW f \in followers[u], NEW t \in Range(feed[u])
  PROVE  f \in Users /\ (f \in Visitors => t = Flag)
<1>1. f \in Users /\ <<f, u>> \in asked
  BY DEF IInv, TypeOK, Tables, TraceOK
<1>2. ASSUME f \in Visitors PROVE t = Flag
  <2>1. u = Owner
    BY <1>1, <1>2 DEF TraceOK
  <2>2. feed[u] \in Seq({Flag})
    BY <2>1, FellowsVisit DEF TraceOK
  <2> DEFINE s == feed[u]
  <2>3. s \in Seq({Flag}) /\ t \in Range(s)
    BY <2>2
  <2> HIDE DEF s
  <2>5. s \in Seq(Range(s))
    BY <2>3, OwnElements
  <2>4. PICK i \in 1 .. Len(s) : t = s[i]
    BY <2>3, <2>5, Elements
  <2> QED
    BY <2>3, <2>4, ElementOfSeq
<1> QED
  BY <1>1, <1>2

LEMMA LPushOwnVisit ==
  ASSUME IInv, RunningOK, CheckerStays, LPushOwn
  PROVE  RunningOK'
<1> SUFFICES ASSUME NEW h, h = Head(sent["tweets"])
             PROVE  RunningOK'
  OBVIOUS
<1>1. /\ sent["tweets"] # <<>> /\ h.do = "own" /\ Pop("tweets")
      /\ LPush(h.u, h.t)
      /\ UNCHANGED <<web, replies, accounts, history>>
      /\ pending' = pending /\ followers' = followers
  BY DEF LPushOwn, Command, Executes
<1>2. h.u \in Users /\ h.t \in Tweets /\ h.u \in author[h.t]
  <2>1. <<h>>[1] = h
    OBVIOUS
  <2> QED
    BY <1>1, <2>1, TweetsHead DEF Command, TweetsCommandOK
<1>3. TraceOK /\ (h.u \in Visitors => h.t = Flag)
  BY <1>2 DEF RunningOK, TraceOK
<1>4. /\ \A u \in Visitors : Shown(u) => Shown(u)'
      /\ \A c \in Visitors : feed'[c] \in Seq({Flag})
  BY <1>1, <1>2, <1>3, PushVisit
<1>5. /\ \A f \in Fellows : pending[f] = Owner => Waiting(f)'
      /\ registered' = registered /\ sessions' = sessions /\ randoms' = randoms
      /\ h # ChallengeOwner
  BY <1>1, Commands DEF Waiting, accounts
<1>6. Settled => TraceOK'
  BY <1>1, <1>3, <1>4, TraceLists DEF Settled, TraceOK
<1> QED
  BY <1>1, <1>4, <1>5, <1>6, Popped DEF Connections

LEMMA LPushFollowerVisit ==
  ASSUME IInv, RunningOK, CheckerStays, LPushFollower
  PROVE  RunningOK'
<1> SUFFICES ASSUME NEW q, q = sent["tweets"], NEW h, h = Head(q)
             PROVE  RunningOK'
  OBVIOUS
<1>1. /\ h.u \in Users /\ h.to \subseteq followers[h.u] /\ h.t \in Range(feed[h.u])
      /\ h.do = "push" /\ q # <<>>
  BY PushFacts DEF Command
<1>2. PICK f \in h.to :
        /\ LPush(f, h.t)
        /\ IF h.to = {f} THEN Pop("tweets")
           ELSE sent' = [sent EXCEPT !["tweets"] =
                           <<[do |-> "push", u |-> h.u, t |-> h.t,
                              to |-> h.to \ {f}]>> \o Tail(@)]
  BY DEF LPushFollower, Command
<1>3. /\ UNCHANGED <<web, replies, accounts, history>>
      /\ pending' = pending /\ followers' = followers
  BY DEF LPushFollower, Executes
<1>4. TraceOK /\ f \in Users /\ (f \in Visitors => h.t = Flag)
  BY <1>1, SharedFlag DEF RunningOK
<1>5. /\ \A u \in Visitors : Shown(u) => Shown(u)'
      /\ \A c \in Visitors : feed'[c] \in Seq({Flag})
  BY <1>2, <1>4, PushVisit
<1>6. /\ \A g \in Fellows : pending[g] = Owner => Waiting(g)'
      /\ registered' = registered /\ sessions' = sessions /\ randoms' = randoms
      /\ h # ChallengeOwner
  BY <1>1, <1>3, Commands DEF Waiting, accounts
<1>7. Settled => TraceOK'
  BY <1>3, <1>4, <1>5, TraceLists DEF Settled, TraceOK
<1>8. CASE Pop("tweets")
  BY <1>1, <1>3, <1>5, <1>6, <1>7, <1>8, Popped DEF Connections
<1>9. CASE ~Pop("tweets")
  <2> SUFFICES ASSUME NEW m, m = [do |-> "push", u |-> h.u, t |-> h.t,
                                  to |-> h.to \ {f}],
                      NEW q2, q2 = Replaced(q, m)
               PROVE  RunningOK'
    OBVIOUS
  <2>1. sent' = [sent EXCEPT !["tweets"] = q2] /\ m.do = "push"
    BY <1>2, <1>9 DEF Replaced
  <2> QED
    BY <1>1, <1>3, <1>5, <1>6, <1>7, <2>1, HeadChanged
<1> QED
  BY <1>8, <1>9

LEMMA LPushCopyVisit ==
  ASSUME IInv, RunningOK, CheckerStays, LPushCopy
  PROVE  RunningOK'
<1> SUFFICES ASSUME NEW q, q = sent["users"], NEW h, h = Head(q)
             PROVE  RunningOK'
  OBVIOUS
<1>1. /\ q # <<>> /\ h.do = "copies" /\ h.u \in Users /\ h.f \in Users
      /\ h.f \in followers[h.u] /\ Head(h.ts) \in Range(feed[h.u])
  BY CopyFacts DEF Command
<1>2. /\ LPush(h.f, Head(h.ts))
      /\ IF Len(h.ts) = 1 THEN Pop("users")
         ELSE sent' = [sent EXCEPT !["users"] =
                         <<[do |-> "copies", u |-> h.u, f |-> h.f,
                            ts |-> Tail(h.ts)]>> \o Tail(@)]
      /\ UNCHANGED <<web, replies, accounts, history>>
      /\ pending' = pending /\ followers' = followers
  BY DEF LPushCopy, Executes, Command
<1>3. TraceOK /\ (h.f \in Visitors => Head(h.ts) = Flag)
  BY <1>1, SharedFlag DEF RunningOK
<1>4. /\ \A u \in Visitors : Shown(u) => Shown(u)'
      /\ h.f \in Visitors => Shown(h.f)'
      /\ \A c \in Visitors : feed'[c] \in Seq({Flag})
  BY <1>1, <1>2, <1>3, PushVisit
<1>5. /\ \A g \in Fellows : pending[g] = Owner => Waiting(g)'
      /\ registered' = registered /\ sessions' = sessions /\ randoms' = randoms
      /\ h # ChallengeOwner
  BY <1>1, <1>2, Commands DEF Waiting, accounts
<1>6. SentEffect(h)
  <2>1. \A f \in Fellows : CopyTo(h, f) => Shown(f)'
    BY <1>4, FellowsVisit DEF CopyTo
  <2> QED
    BY <1>1, <2>1, Commands DEF SentEffect
<1>7. Settled => TraceOK'
  BY <1>2, <1>3, <1>4, TraceLists DEF Settled, TraceOK
<1>8. CASE Pop("users")
  BY <1>1, <1>2, <1>4, <1>5, <1>6, <1>7, <1>8, Popped DEF Connections
<1>9. CASE ~Pop("users")
  <2> SUFFICES ASSUME NEW m, m = [do |-> "copies", u |-> h.u, f |-> h.f,
                                  ts |-> Tail(h.ts)],
                      NEW q2, q2 = Replaced(q, m)
               PROVE  RunningOK'
    OBVIOUS
  <2>1. sent' = [sent EXCEPT !["users"] = q2] /\ m.do = "copies"
    BY <1>2, <1>9 DEF Replaced
  <2> QED
    BY <1>1, <1>2, <1>4, <1>5, <1>6, <1>7, <2>1, HeadChanged
<1> QED
  BY <1>8, <1>9

-----------------------------------------------------------------------------
(* Callbacks and requests                                                   *)

\* Node sends and is told, redis is as it was.
LEMMA HandlerGrows ==
  ASSUME step' = step, UNCHANGED <<accounts, lists>>,
         \A n \in Connections : Range(sent[n]) \subseteq Range(sent'[n]),
         \A m \in Range(replies["users"]) :
           m \in Range(replies'["users"]) \/ ReplyEffect(m)
  PROVE  Grows
<1>1. /\ registered' = registered /\ sessions' = sessions /\ randoms' = randoms
      /\ pending' = pending /\ feed' = feed
  BY DEF accounts, lists
<1>2. /\ \A u \in Visitors : Shown(u) => Shown(u)'
      /\ \A f \in Fellows : pending[f] = Owner => Waiting(f)'
  BY <1>1 DEF Shown, Waiting
<1>3. /\ \A m \in Range(sent["users"]) : m \in Range(sent'["users"])
      /\ \A m \in Range(sent["crypto"]) : m \in Range(sent'["crypto"])
  BY DEF Connections
<1> QED
  BY <1>1, <1>2, <1>3, GrowsBy

\* The queue r is q and behind it messages of N.
Longer(q, r, N) ==
  /\ r \in Seq(Range(r)) /\ Range(q) \subseteq Range(r)
  /\ \A x \in Items(r) : x \in Items(q) \/ (x[1] \in N /\ Range(q) \subseteq x[2])

LEMMA LongerSame ==
  ASSUME NEW q, q \in Seq(Range(q)), NEW N
  PROVE  Longer(q, q, N)
BY DEF Longer

LEMMA LongerAppend ==
  ASSUME NEW q, NEW r, NEW N, Longer(q, r, N), NEW m \in N
  PROVE  Longer(q, Append(r, m), N)
<1> SUFFICES ASSUME NEW s, s = Append(r, m)
             PROVE  Longer(q, s, N)
  OBVIOUS
<1>1. r \in Seq(Range(r))
  BY DEF Longer
<1>2. Items(s) = Items(r) \cup {<<m, Range(r)>>} /\ Range(s) = Range(r) \cup {m}
  BY <1>1, ItemsAppend
<1>3. s \in Seq(Range(s))
  BY <1>1, AppendQueue
<1>4. ASSUME NEW x \in Items(s)
      PROVE  x \in Items(q) \/ (x[1] \in N /\ Range(q) \subseteq x[2])
  <2>1. CASE x \in Items(r)
    BY <2>1 DEF Longer
  <2>2. CASE x = <<m, Range(r)>>
    <3>1. x[1] = m /\ x[2] = Range(r)
      BY <2>2
    <3> QED
      BY <3>1 DEF Longer
  <2> QED
    BY <1>2, <1>4, <2>1, <2>2
<1> QED
  BY <1>2, <1>3, <1>4 DEF Longer

LEMMA LongerFacts ==
  ASSUME NEW q, NEW r, NEW N, q \in Seq(Range(q)), Longer(q, r, N)
  PROVE  \A m \in Range(r) : m \in Range(q) \/ m \in N
<1> SUFFICES ASSUME NEW m \in Range(r)
             PROVE  m \in Range(q) \/ m \in N
  OBVIOUS
<1>1. PICK A : <<m, A>> \in Items(r)
  BY ItemsRange DEF Longer
<1> DEFINE x == <<m, A>>
<1>2. x \in Items(r) /\ x[1] = m
  BY <1>1
<1> HIDE DEF x
<1> QED
  BY <1>2, ItemsRange DEF Longer

LEMMA LongerQuiet ==
  ASSUME NEW q, NEW r, NEW N, q \in Seq(Range(q)), Longer(q, r, N),
         OneQuestion(q), \A m \in N : ~Asks(m)
  PROVE  OneQuestion(r) /\ Asking(r) \subseteq Asking(q)
<1>1. Asking(r) \subseteq Asking(q)
  BY LongerFacts DEF Asking
<1>2. OneQuestion(r)
  BY DEF OneQuestion, Longer
<1> QED
  BY <1>1, <1>2

\* The head of n is taken from the replies, or none.
TakesOf(n) == replies[n] # <<>> /\ replies' = Without(replies, n)
TakesOne == replies' = replies \/ \E n \in Connections : TakesOf(n)

LEMMA RepliesTaken ==
  ASSUME IInv, OneMessage(sent, replies), TakesOne
  PROVE  /\ OneMessage(sent, replies')
         /\ \A k \in Connections :
              /\ replies'[k] = replies[k] \/ replies'[k] = Tail(replies[k])
              /\ replies'[k] # replies[k] => replies[k] # <<>>
              /\ Busy(k, sent, replies') \subseteq Busy(k, sent, replies)
              /\ Range(replies'[k]) \subseteq Range(replies[k])
<1>1. CASE replies' = replies
  BY <1>1
<1>2. ASSUME NEW n \in Connections, TakesOf(n)
      PROVE  /\ OneMessage(sent, replies')
             /\ \A k \in Connections :
                  /\ replies'[k] = replies[k] \/ replies'[k] = Tail(replies[k])
                  /\ replies'[k] # replies[k] => replies[k] # <<>>
                  /\ Busy(k, sent, replies') \subseteq Busy(k, sent, replies)
                  /\ Range(replies'[k]) \subseteq Range(replies[k])
  <2>1. n \in Connections /\ replies[n] # <<>> /\ Queues(replies)
    BY <1>2, QueuesTyped DEF TakesOf
  <2> DEFINE r2 == Without(replies, n)
  <2>2. replies' = r2
    BY <1>2 DEF TakesOf
  <2>3. /\ \A k \in Connections \ {n} : r2[k] = replies[k]
        /\ r2[n] = Tail(replies[n])
        /\ Range(replies[n]) = Range(r2[n]) \cup {Head(replies[n])}
    BY <2>1, CommandTaken
  <2>4. /\ OneMessage(sent, r2)
        /\ \A k \in Connections : Busy(k, sent, r2) \subseteq Busy(k, sent, replies)
    BY <2>1, TakeAnswer
  <2> HIDE DEF r2
  <2>5. ASSUME NEW k \in Connections
        PROVE  /\ r2[k] = replies[k] \/ r2[k] = Tail(replies[k])
               /\ r2[k] # replies[k] => replies[k] # <<>>
               /\ Range(r2[k]) \subseteq Range(replies[k])
    BY <2>1, <2>3
  <2> QED
    BY <2>2, <2>4, <2>5
<1> QED
  BY <1>1, <1>2 DEF TakesOne

\* What is left of the replies keeps, and what is behind the commands is good.
SentStays(m) == Asks(m) => Still(m.c) \/ (m.do = "lists" /\ ListsOK(m)')
ReplyStays(m) == Answers(m) => Still(m.c) \/ (m.then = "lists" /\ ListsOK(m)')

\* The reply of users.js that is taken, if any, has had its effect.
TakenDone ==
  replies'["users"] # replies["users"] => ReplyEffect(Head(replies["users"]))

LEMMA TakenGrows ==
  ASSUME IInv, RunningOK, step' = step, UNCHANGED <<accounts, lists>>, TakesOne,
         \A n \in Connections : Range(sent[n]) \subseteq Range(sent'[n]), TakenDone
  PROVE  Grows
<1> SUFFICES ASSUME NEW p, p = replies["users"] PROVE Grows
  OBVIOUS
<1>1. /\ replies'["users"] = p \/ replies'["users"] = Tail(p)
      /\ replies'["users"] # p => p # <<>>
  BY RepliesTaken DEF RunningOK, Connections
<1>2. p \in Seq(Range(p))
  BY QueuesTyped DEF Connections
<1>3. p # <<>> => Range(p) = Range(Tail(p)) \cup {Head(p)}
  BY <1>2, ItemsTail
<1>4. \A m \in Range(p) : m \in Range(replies'["users"]) \/ ReplyEffect(m)
  BY <1>1, <1>3 DEF TakenDone
<1> QED
  BY <1>4, HandlerGrows

LEMMA SentWayLonger ==
  ASSUME NEW q, q \in Seq(Range(q)), SentWay(q)', NEW r, NEW N, Longer(q, r, N),
         \A m \in N : \A B : Range(q) \subseteq B =>
           UsersSentOK(m, B)' /\ ReadingSent(m, B)'
  PROVE  SentWay(r)'
<1> SUFFICES ASSUME NEW x \in Items(r)
             PROVE  UsersSentOK(x[1], x[2])' /\ ReadingSent(x[1], x[2])'
  BY DEF SentWay
<1>1. CASE x \in Items(q)
  BY <1>1 DEF SentWay
<1>2. CASE x[1] \in N /\ Range(q) \subseteq x[2]
  BY <1>2
<1> QED
  BY <1>1, <1>2 DEF Longer

LEMMA WayHandled ==
  ASSUME IInv, RunningOK, step' = step, Grows, TakesOne, TakenDone,
         NEW q, q = sent["users"], NEW N, Longer(q, sent'["users"], N),
         \A m \in Range(sent["users"]) : SentStays(m),
         \A m \in Range(replies'["users"]) : ReplyStays(m),
         \A m \in N : \A B : Range(q) \subseteq B =>
           UsersSentOK(m, B)' /\ ReadingSent(m, B)'
  PROVE  WayOK'
<1> SUFFICES ASSUME NEW p, p = replies["users"], NEW r, r = sent'["users"]
             PROVE  WayOK'
  OBVIOUS
<1>1. /\ q \in Seq(Range(q)) /\ p \in Seq(Range(p))
      /\ SentWay(q) /\ ReplyWay(p)
  BY QueuesTyped DEF Connections, RunningOK, WayOK
<1>2. SentWay(q)'
  BY <1>1, SentWayMoves DEF SentStays
<1>3. SentWay(r)'
  BY <1>1, <1>2, SentWayLonger
<1>4. /\ replies'["users"] = p \/ replies'["users"] = Tail(p)
      /\ replies'["users"] # p => p # <<>>
  BY RepliesTaken DEF RunningOK, Connections
<1>5. CASE replies'["users"] = p
  <2>1. ReplyWay(p)'
    BY <1>1, <1>5, ReplyWayMoves DEF ReplyStays
  <2> QED
    BY <1>3, <1>5, <2>1 DEF WayOK
<1>6. CASE replies'["users"] # p
  <2>1. p # <<>> /\ ReplyEffect(Head(p)) /\ replies'["users"] = Tail(p)
    BY <1>4, <1>6 DEF TakenDone
  <2>2. ReplyWay(Tail(p))'
    BY <1>1, <2>1, ReplyWayTail DEF ReplyStays
  <2> QED
    BY <1>3, <2>1, <2>2 DEF WayOK
<1> QED
  BY <1>5, <1>6

LEMMA ChallengeHandled ==
  ASSUME IInv, RunningOK, Grows, TakesOne,
         NEW q, q = sent["crypto"], NEW N, Longer(q, sent'["crypto"], N),
         \A c \in Busy("crypto", sent, replies') : Still(c),
         \A m \in N : \A B : Range(q) \subseteq B => ChallengeSentOK(m, B)'
  PROVE  ChallengeOK'
<1>1. q \in Seq(Range(q))
  BY QueuesTyped DEF Connections
<1>2. ASSUME NEW x \in Items(q) PROVE StillChallenged(q, x[1], x[2])
  <2>1. x[1] \in Range(q) /\ x = <<x[1], x[2]>>
    BY <1>1, ItemsRange
  <2>2. Asks(x[1]) => Still(x[1].c)
    BY <2>1 DEF Busy, Asking
  <2> QED
    BY <2>1, <2>2 DEF StillChallenged
<1>3. \A x \in Items(sent'["crypto"]) :
        StillChallenged(q, x[1], x[2]) \/ ChallengeSentOK(x[1], x[2])'
  BY <1>2 DEF Longer
<1>4. \A m \in Range(replies'["crypto"]) :
        m \in Range(replies["crypto"]) /\ (Answers(m) => Still(m.c))
  BY RepliesTaken DEF RunningOK, Connections, Busy, Answering
<1> QED
  BY <1>3, <1>4, ChallengeKept DEF RunningOK

LEMMA PageHandled ==
  ASSUME IInv, RunningOK, step' = step, Grows, TakesOne,
         NEW q, q = sent["tweets"], NEW N, Longer(q, sent'["tweets"], N),
         \A m \in Range(sent["tweets"]) : Asks(m) => SameWeb(m.c) \/ PageSentOK(m)',
         \A m \in Range(replies'["tweets"]) :
           Answers(m) => SameWeb(m.c) \/ PageReplyOK(m)',
         \A c \in Visitors : SameWeb(c) \/ PartsOK(c)',
         \A m \in N : PageSentOK(m)'
  PROVE  PageOK'
<1>1. q \in Seq(Range(q))
  BY QueuesTyped DEF Connections
<1>2. \A m \in Range(sent'["tweets"]) : m \in Range(q) \/ m \in N
  BY <1>1, LongerFacts
<1>3. \A m \in Range(replies'["tweets"]) : m \in Range(replies["tweets"])
  BY RepliesTaken DEF RunningOK, Connections
<1>4. \A m \in Range(sent'["tweets"]) :
        \/ m \in Range(sent["tweets"]) /\ (Asks(m) => SameWeb(m.c))
        \/ PageSentOK(m)'
  BY <1>2
<1>5. \A m \in Range(replies'["tweets"]) :
        \/ m \in Range(replies["tweets"]) /\ (Answers(m) => SameWeb(m.c))
        \/ PageReplyOK(m)'
  BY <1>3
<1> QED
  BY <1>4, <1>5, PageKept DEF RunningOK

MessagesOK == OneMessage(sent, replies) /\ WayOK /\ PageOK /\ ChallengeOK

\* A step for somebody who is no visitor.
LEMMA OthersHandle ==
  ASSUME IInv, RunningOK, step' = step, Grows, TakesOne, TakenDone,
         \A v \in Visitors : SameWeb(v),
         NEW U, NEW T, NEW K,
         Longer(sent["users"], sent'["users"], U),
         Longer(sent["tweets"], sent'["tweets"], T),
         Longer(sent["crypto"], sent'["crypto"], K),
         \A m \in U \cup T \cup K : ~Asks(m),
         \A m \in U : \A B : UsersSentOK(m, B)' /\ ReadingSent(m, B)'
  PROVE  MessagesOK'
<1>1. /\ OneMessage(sent, replies')
      /\ \A k \in Connections :
           Busy(k, sent, replies') \subseteq Busy(k, sent, replies)
  BY RepliesTaken DEF RunningOK
<1>2. \A k \in Connections :
        OneQuestion(sent'[k]) /\ Asking(sent'[k]) \subseteq Asking(sent[k])
  <2>1. \A k \in Connections :
          OneQuestion(sent[k]) /\ sent[k] \in Seq(Range(sent[k]))
    BY QueuesTyped DEF RunningOK, OneMessage
  <2>2. /\ OneQuestion(sent'["users"])
        /\ Asking(sent'["users"]) \subseteq Asking(sent["users"])
    BY <2>1, LongerQuiet DEF Connections
  <2>3. /\ OneQuestion(sent'["tweets"])
        /\ Asking(sent'["tweets"]) \subseteq Asking(sent["tweets"])
    BY <2>1, LongerQuiet DEF Connections
  <2>4. /\ OneQuestion(sent'["crypto"])
        /\ Asking(sent'["crypto"]) \subseteq Asking(sent["crypto"])
    BY <2>1, LongerQuiet DEF Connections
  <2> QED
    BY <2>2, <2>3, <2>4 DEF Connections
<1>3. /\ OneMessage(sent', replies')
      /\ \A k \in Connections :
           Busy(k, sent', replies') \subseteq Busy(k, sent, replies')
  <2>1. \A k \in Connections : OneAnswer(replies'[k])
    BY <1>1 DEF OneMessage
  <2> QED
    BY <1>1, <1>2, <2>1, MessagesLeft
<1>4. \A v \in Visitors : Still(v)
  BY <1>1, <1>3 DEF Still, Awaiting, Connections
<1>5. /\ \A m : Asks(m) => Still(m.c)
      /\ \A m : Answers(m) => Still(m.c)
  BY <1>4 DEF Asks, Answers
<1>6. WayOK'
  BY <1>5, WayHandled DEF SentStays, ReplyStays
<1>7. PageOK'
  <2>1. \A m \in T : PageSentOK(m)'
    BY DEF PageSentOK, Asks
  <2> QED
    BY <1>5, <2>1, PageHandled DEF Still
<1>8. ChallengeOK'
  <2>1. \A m \in K : \A B : ChallengeSentOK(m, B)'
    BY DEF ChallengeSentOK, Asks
  <2>2. \A c \in Busy("crypto", sent, replies') : Still(c)
    BY <1>5 DEF Busy, Asking, Answering
  <2> QED
    BY <2>1, <2>2, ChallengeHandled
<1> QED
  BY <1>3, <1>6, <1>7, <1>8 DEF MessagesOK

\* A client that waits for nothing on any connection.
Idle(c, s, r) == \A k \in Connections : c \notin Busy(k, s, r)

\* A step for the visitor c, which sends nothing or the message m on k.
LEMMA VisitorHandles ==
  ASSUME IInv, RunningOK, step' = step, Grows, TakesOne, TakenDone,
         NEW c \in Visitors, Idle(c, sent, replies'),
         \A v \in Visitors \ {c} : SameWeb(v), PartsOK(c)',
         NEW k \in Connections, NEW m, NEW q, q = sent[k],
         \/ sent' = sent
         \/ /\ sent' = With(sent, k, m)
            /\ Asks(m) => m.c = c
            /\ k = "tweets" => ~Asks(m)
            /\ k = "users" /\ c \notin Awaiting' =>
                 \A B : Range(q) \subseteq B =>
                   UsersSentOK(m, B)' /\ ReadingSent(m, B)'
            /\ k = "crypto" /\ c \notin Awaiting' =>
                 \A B : Range(q) \subseteq B => ChallengeSentOK(m, B)'
  PROVE  MessagesOK'
<1>1. /\ OneMessage(sent, replies')
      /\ \A n \in Connections :
           Busy(n, sent, replies') \subseteq Busy(n, sent, replies)
      /\ Queues(sent)
  BY RepliesTaken, QueuesTyped DEF RunningOK
<1>2. /\ OneMessage(sent', replies')
      /\ \A n \in Connections :
           Busy(n, sent', replies') \subseteq Busy(n, sent, replies') \cup {c}
      /\ Busy("tweets", sent', replies') = Busy("tweets", sent, replies')
  <2>1. CASE sent' = With(sent, k, m) /\ sent' # sent
    <3>1. Asks(m) => Free(k, m.c, sent, replies') /\ m.c = c /\ k # "tweets"
      BY <2>1 DEF Free, Idle
    <3> DEFINE s2 == With(sent, k, m)
    <3>2. /\ OneMessage(s2, replies')
          /\ \A n \in Connections \ {k} :
               Busy(n, s2, replies') = Busy(n, sent, replies')
          /\ Asks(m) => Busy(k, s2, replies') = Busy(k, sent, replies') \cup {m.c}
          /\ ~Asks(m) => Busy(k, s2, replies') = Busy(k, sent, replies')
      BY <1>1, <3>1, PutCommand
    <3>3. sent' = s2
      BY <2>1
    <3> HIDE DEF s2
    <3> QED
      BY <3>1, <3>2, <3>3 DEF Connections
  <2>2. CASE sent' = sent
    BY <1>1, <2>2
  <2> QED
    BY <2>1, <2>2
<1>3. c \notin Awaiting'
  BY <1>2 DEF Idle, Awaiting, Connections
<1>4. \A v \in Visitors \ {c} : Still(v)
  BY <1>1, <1>2 DEF Still, Awaiting, Connections
<1>5. \A n \in Connections :
        /\ \A x \in Range(sent[n]) : Asks(x) => Still(x.c)
        /\ \A x \in Range(replies'[n]) : Answers(x) => Still(x.c)
  <2>1. ASSUME NEW n \in Connections, NEW x \in Range(sent[n]), Asks(x)
        PROVE  Still(x.c)
    <3>1. x.c \in Busy(n, sent, replies') /\ x.c \in Visitors
      BY <2>1 DEF Busy, Asking, Asks
    <3> QED
      BY <1>4, <3>1 DEF Idle
  <2>2. ASSUME NEW n \in Connections, NEW x \in Range(replies'[n]), Answers(x)
        PROVE  Still(x.c)
    <3>1. x.c \in Busy(n, sent, replies') /\ x.c \in Visitors
      BY <2>2 DEF Busy, Answering, Answers
    <3> QED
      BY <1>4, <3>1 DEF Idle
  <2> QED
    BY <2>1, <2>2
<1> DEFINE N(n) == IF n = k /\ sent' # sent THEN {m} ELSE {}
<1>6. ASSUME NEW n \in Connections PROVE Longer(sent[n], sent'[n], N(n))
  <2> SUFFICES ASSUME NEW p, p = sent[n] PROVE Longer(p, sent'[n], N(n))
    OBVIOUS
  <2>1. p \in Seq(Range(p))
    BY QueuesTyped
  <2>2. Longer(p, p, N(n))
    BY <2>1, LongerSame
  <2>3. CASE sent' # sent
    <3>1. sent'[n] = IF n = k THEN Append(p, m) ELSE p
      BY <1>1, <2>3 DEF With, Queues
    <3>2. CASE n = k
      <4>1. m \in N(n)
        BY <2>3, <3>2
      <4> QED
        BY <2>2, <3>1, <3>2, <4>1, LongerAppend
    <3> QED
      BY <2>2, <3>1, <3>2
  <2> QED
    BY <2>2, <2>3
<1>7. WayOK'
  <2> SUFFICES ASSUME NEW p, p = sent["users"] PROVE WayOK'
    OBVIOUS
  <2>1. \A x \in N("users") : \A B : Range(p) \subseteq B =>
          UsersSentOK(x, B)' /\ ReadingSent(x, B)'
    BY <1>3
  <2>2. /\ \A x \in Range(sent["users"]) : SentStays(x)
        /\ \A x \in Range(replies'["users"]) : ReplyStays(x)
        /\ Longer(p, sent'["users"], N("users"))
    BY <1>5, <1>6 DEF Connections, SentStays, ReplyStays
  <2> HIDE DEF N
  <2> QED
    BY <2>1, <2>2, WayHandled
<1>8. PageOK'
  <2>1. \A x \in N("tweets") : PageSentOK(x)'
    BY DEF PageSentOK, Asks
  <2>2. /\ \A x \in Range(sent["tweets"]) : Asks(x) => SameWeb(x.c)
        /\ \A x \in Range(replies'["tweets"]) : Answers(x) => SameWeb(x.c)
        /\ Longer(sent["tweets"], sent'["tweets"], N("tweets"))
        /\ \A v \in Visitors : SameWeb(v) \/ PartsOK(v)'
    BY <1>5, <1>6 DEF Connections, Still
  <2> HIDE DEF N
  <2> QED
    BY <2>1, <2>2, PageHandled
<1>9. ChallengeOK'
  <2> SUFFICES ASSUME NEW p, p = sent["crypto"] PROVE ChallengeOK'
    OBVIOUS
  <2>1. \A x \in N("crypto") : \A B : Range(p) \subseteq B => ChallengeSentOK(x, B)'
    BY <1>3
  <2>2. /\ \A x \in Busy("crypto", sent, replies') : Still(x)
        /\ Longer(p, sent'["crypto"], N("crypto"))
    BY <1>5, <1>6 DEF Connections, Busy, Asking, Answering
  <2> HIDE DEF N
  <2> QED
    BY <2>1, <2>2, ChallengeHandled
<1> QED
  BY <1>2, <1>7, <1>8, <1>9 DEF MessagesOK

-----------------------------------------------------------------------------
(* What happens for others than the visitors                                *)

\* The messages that no visitor waits for and that are none of its commands.
Harmless(m) == ~Asks(m) /\ \A B : UsersSentOK(m, B) /\ ReadingSent(m, B)

LEMMA HarmlessKinds ==
  ASSUME NEW m,
         m.do \in {"get", "hget", "hvals", "lists", "hget random", "lrange"} =>
           m.c \notin Visitors,
         m.do = "get" => m.u \notin Visitors,
         m.do = "hget" /\ m.then = "user" => m.u \notin Visitors,
         m.do = "hget" /\ m.then = "target" => m.me \notin Visitors,
         m.do = "hget pending" => m.u # Owner,
         m.do = "add" /\ m.u = Owner => m.f \in Fellows /\ Added(m.f)'
  PROVE  Harmless(m)'
<1>1. ~Asks(m)
  BY DEF Asks
<1>2. ASSUME NEW B PROVE UsersSentOK(m, B)'
  BY DEF UsersSentOK, SessionOK, LookupOK, ListsOK
<1>3. ASSUME NEW B PROVE ReadingSent(m, B)'
  BY FellowsVisit DEF ReadingSent
<1>4. Asks(m)' = Asks(m)
  BY DEF Asks
<1> QED
  BY <1>1, <1>2, <1>3, <1>4 DEF Harmless

\* The visitors' requests are as before.
Unvisited ==
  /\ \A v \in Visitors : SameWeb(v) /\ answer'[v] = answer[v]
  /\ parts' = [c \in Users |-> parts'[c]]
  /\ answer' = [c \in Users |-> answer'[c]]

\* All that is sent is harmless.
SendsHarmless ==
  \A n \in Connections : \E N :
    /\ Longer(sent[n], sent'[n], N)
    /\ \A m \in N : ~Asks(m) /\ (n = "users" => Harmless(m)')

\* What is asked, accepted and posted is nothing of the visitors.
HistoryOfOthers ==
  /\ asked \subseteq asked' /\ granted \subseteq granted'
  /\ \A f \in Visitors, u \in Users : <<f, u>> \in asked' => <<f, u>> \in asked
  /\ \A u \in Visitors, f \in Users : <<u, f>> \in granted' => <<u, f>> \in granted
  /\ \A t \in Tweets : \A u \in Visitors \cap author'[t] : u \in author[t]

LEMMA WebOfOthers ==
  ASSUME RequestsOK, NEW c, c \notin Visitors, Visitors \subseteq Users,
         IInv
  PROVE  /\ \A r : Wait(c, r) => Unvisited
         /\ \A a : Respond(c, a) => Unvisited
         /\ UNCHANGED web => Unvisited
<1>1. /\ parts = [d \in Users |-> parts[d]] /\ answer = [d \in Users |-> answer[d]]
      /\ req = [d \in Users |-> req[d]]
  BY DEF RequestsOK, IInv, TypeOK, Tables
<1>2. ASSUME NEW r, Wait(c, r) PROVE Unvisited
  BY <1>1, <1>2 DEF Wait, Unvisited, SameWeb
<1>3. ASSUME NEW a, Respond(c, a) PROVE Unvisited
  BY <1>1, <1>3 DEF Respond, Unvisited, SameWeb
<1>4. ASSUME UNCHANGED web PROVE Unvisited
  BY <1>1, <1>4 DEF web, Unvisited, SameWeb
<1> QED
  BY <1>2, <1>3, <1>4

LEMMA SendNothing ==
  ASSUME IInv, sent' = sent
  PROVE  SendsHarmless
<1> SUFFICES ASSUME NEW n \in Connections
             PROVE  \E N : /\ Longer(sent[n], sent'[n], N)
                           /\ \A m \in N : ~Asks(m) /\ (n = "users" => Harmless(m)')
  BY DEF SendsHarmless
<1>1. Longer(sent[n], sent[n], {})
  BY QueuesTyped, LongerSame
<1> QED
  BY <1>1

\* The queue of k is longer by a message.
LEMMA SendLonger ==
  ASSUME IInv, NEW k \in Connections, NEW m, sent' = With(sent, k, m),
         NEW n \in Connections
  PROVE  Longer(sent[n], sent'[n], IF n = k THEN {m} ELSE {})
<1> SUFFICES ASSUME NEW p, p = sent[n], NEW N, N = IF n = k THEN {m} ELSE {}
             PROVE  Longer(p, sent'[n], N)
  OBVIOUS
<1>1. p \in Seq(Range(p)) /\ Queues(sent)
  BY QueuesTyped
<1>2. Longer(p, p, N)
  BY <1>1, LongerSame
<1>3. sent'[n] = IF n = k THEN Append(p, m) ELSE p
  BY <1>1 DEF With, Queues
<1>4. CASE n = k
  <2>1. m \in N
    BY <1>4
  <2> QED
    BY <1>2, <1>3, <1>4, <2>1, LongerAppend
<1> QED
  BY <1>2, <1>3, <1>4

LEMMA SendHarmless ==
  ASSUME IInv, NEW k \in Connections, NEW m, Send(k, m),
         ~Asks(m), k = "users" => Harmless(m)'
  PROVE  SendsHarmless
<1> SUFFICES ASSUME NEW n \in Connections
             PROVE  \E N : /\ Longer(sent[n], sent'[n], N)
                           /\ \A x \in N : ~Asks(x) /\ (n = "users" => Harmless(x)')
  BY DEF SendsHarmless
<1>1. sent' = With(sent, k, m)
  BY DEF Send, With
<1>2. Longer(sent[n], sent'[n], IF n = k THEN {m} ELSE {})
  BY <1>1, SendLonger
<1> DEFINE N == IF n = k THEN {m} ELSE {}
<1>3. \A x \in N : ~Asks(x) /\ (n = "users" => Harmless(x)')
  OBVIOUS
<1> QED
  BY <1>2, <1>3

LEMMA HistoryStaysOthers ==
  UNCHANGED history => HistoryOfOthers
BY DEF history, HistoryOfOthers

LEMMA RouteOthers ==
  ASSUME IInv, RequestsOK, NEW c, c \notin Visitors, NEW r,
         NEW u, u \notin Visitors, Route(c, r, u)
  PROVE  Unvisited /\ SendsHarmless /\ HistoryOfOthers
<1>0. /\ Visitors \subseteq Users /\ Owner \in Visitors /\ "users" \in Connections
      /\ "tweets" \in Connections /\ "crypto" \in Connections
  BY FellowsVisit DEF Connections
<1>1. CASE Signup(c, r)
  <2>1. Unvisited /\ HistoryOfOthers
    BY <1>0, <1>1, WebOfOthers, HistoryStaysOthers DEF Signup
  <2> DEFINE m == [do |-> "save", u |-> c]
  <2>2. m.do = "save" /\ Send("users", m)
    BY <1>1 DEF Signup
  <2> HIDE DEF m
  <2>3. Harmless(m)' /\ ~Asks(m)
    BY <2>2, HarmlessKinds DEF Asks
  <2> QED
    BY <1>0, <2>1, <2>2, <2>3, SendHarmless
<1>2. ASSUME Home(c, r) \/ CheckPub(c, r)
      PROVE  Unvisited /\ SendsHarmless /\ HistoryOfOthers
  <2>1. Unvisited /\ HistoryOfOthers
    BY <1>0, <1>2, WebOfOthers, HistoryStaysOthers DEF Home, CheckPub
  <2>2. PICK m : /\ Send("users", m) /\ m.do = "hget" /\ m.c = c
                 /\ m.then \in {"page", "challenge"}
    <3> DEFINE g(t) == [do |-> "hget", c |-> c, me |-> r.cookie, u |-> r.id,
                        then |-> t]
    <3>1. \A t : g(t).do = "hget" /\ g(t).c = c /\ g(t).then = t
      OBVIOUS
    <3>2. \E t \in {"page", "challenge"} : Send("users", g(t))
      BY <1>2 DEF Home, CheckPub, GetUserFromId
    <3> HIDE DEF g
    <3> QED
      BY <3>1, <3>2
  <2>3. Harmless(m)' /\ ~Asks(m)
    BY <2>2, HarmlessKinds DEF Asks
  <2> QED
    BY <1>0, <2>1, <2>2, <2>3, SendHarmless
<1>3. CASE UsersPage(c, r)
  <2>1. Unvisited /\ HistoryOfOthers
    BY <1>0, <1>3, WebOfOthers, HistoryStaysOthers DEF UsersPage
  <2> DEFINE m == [do |-> "hvals", c |-> c]
  <2>2. m.do = "hvals" /\ m.c = c /\ Send("users", m)
    BY <1>3 DEF UsersPage
  <2> HIDE DEF m
  <2>3. Harmless(m)' /\ ~Asks(m)
    BY <2>2, HarmlessKinds DEF Asks
  <2> QED
    BY <1>0, <2>1, <2>2, <2>3, SendHarmless
<1>4. CASE CheckRandom(c, r)
  <2>1. Unvisited /\ HistoryOfOthers
    BY <1>0, <1>4, WebOfOthers, HistoryStaysOthers DEF CheckRandom
  <2> DEFINE m == [do |-> "hget random", c |-> c, u |-> r.id]
  <2>2. m.do = "hget random" /\ m.c = c /\ Send("crypto", m)
    BY <1>4 DEF CheckRandom
  <2> HIDE DEF m
  <2>3. ~Asks(m)
    BY <2>2 DEF Asks
  <2> QED
    BY <1>0, <2>1, <2>2, <2>3, SendHarmless
<1>5. CASE Tweet(c, r, u)
  <2>1. Unvisited
    BY <1>0, <1>5, WebOfOthers DEF Tweet
  <2> DEFINE m == [do |-> "hkeys", u |-> u, t |-> r.tweet]
  <2>2. m.do = "hkeys" /\ Send("tweets", m)
    BY <1>5 DEF Tweet
  <2> HIDE DEF m
  <2>3. ~Asks(m)
    BY <2>2 DEF Asks
  <2>4. HistoryOfOthers
    <3>1. author \in [Tweets -> SUBSET Users]
      BY DEF IInv, TypeOK, Tables
    <3>2. \A t \in Tweets : \A v \in author'[t] : v \in author[t] \/ v = u
      BY <1>5, <3>1 DEF Tweet
    <3> QED
      BY <1>5, <3>2 DEF Tweet, HistoryOfOthers
  <2> QED
    BY <1>0, <2>1, <2>2, <2>3, <2>4, SendHarmless
<1>6. CASE TryFollow(c, r, u)
  <2>1. Unvisited /\ HistoryOfOthers
    BY <1>0, <1>6, WebOfOthers, HistoryStaysOthers DEF TryFollow
  <2> DEFINE m == [do |-> "hget", c |-> c, me |-> u, u |-> r.id, then |-> "target"]
  <2>2. /\ m.do = "hget" /\ m.c = c /\ m.me = u /\ m.then = "target"
        /\ Send("users", m)
    BY <1>6 DEF TryFollow, GetUserFromId
  <2> HIDE DEF m
  <2>3. Harmless(m)' /\ ~Asks(m)
    BY <2>2, HarmlessKinds DEF Asks
  <2> QED
    BY <1>0, <2>1, <2>2, <2>3, SendHarmless
<1>7. CASE TryFollowUnknown(c, r, u)
  BY <1>0, <1>7, WebOfOthers, HistoryStaysOthers, SendNothing DEF TryFollowUnknown
<1>8. CASE Follow(c, r, u)
  <2>1. Unvisited
    BY <1>0, <1>8, WebOfOthers DEF Follow
  <2> DEFINE m == [do |-> "hget pending", u |-> u, f |-> r.id]
  <2>2. m.do = "hget pending" /\ m.u = u /\ Send("users", m)
    BY <1>8 DEF Follow
  <2> HIDE DEF m
  <2>3. Harmless(m)' /\ ~Asks(m)
    BY <1>0, <2>2, HarmlessKinds DEF Asks
  <2>4. HistoryOfOthers
    BY <1>8 DEF Follow, HistoryOfOthers
  <2> QED
    BY <1>0, <2>1, <2>2, <2>3, <2>4, SendHarmless
<1>9. CASE ToSignin(c, r, u)
  BY <1>0, <1>9, WebOfOthers, HistoryStaysOthers, SendNothing DEF ToSignin
<1> QED
  BY <1>1, <1>2, <1>3, <1>4, <1>5, <1>6, <1>7, <1>8, <1>9 DEF Route

\* After a handler, when the checker has not moved.
LEMMA HandledRun ==
  ASSUME RunningOK, Grows, CheckerStays, MessagesOK', TraceOK',
         parts' = [c \in Users |-> parts'[c]],
         answer' = [c \in Users |-> answer'[c]],
         \A c \in Visitors : GoesOn(c)
  PROVE  RunningOK'
<1>1. OneMessage(sent', replies') /\ WayOK' /\ PageOK' /\ ChallengeOK'
  BY DEF MessagesOK
<1> QED
  BY <1>1, Stepped

LEMMA OthersRun ==
  ASSUME IInv, RunningOK, CheckerStays, UNCHANGED <<accounts, lists>>,
         TakesOne, TakenDone, Unvisited, SendsHarmless, HistoryOfOthers
  PROVE  RunningOK'
<1>1. PICK U : /\ Longer(sent["users"], sent'["users"], U)
               /\ \A m \in U : ~Asks(m) /\ Harmless(m)'
  BY DEF SendsHarmless, Connections
<1>2. PICK T : /\ Longer(sent["tweets"], sent'["tweets"], T)
               /\ \A m \in T : ~Asks(m)
  BY DEF SendsHarmless, Connections
<1>3. PICK K : /\ Longer(sent["crypto"], sent'["crypto"], K)
               /\ \A m \in K : ~Asks(m)
  BY DEF SendsHarmless, Connections
<1>4. /\ \A m \in U \cup T \cup K : ~Asks(m)
      /\ \A m \in U : \A B : UsersSentOK(m, B)' /\ ReadingSent(m, B)'
  BY <1>1, <1>2, <1>3 DEF Harmless
<1>6. \A n \in Connections : Range(sent[n]) \subseteq Range(sent'[n])
  BY DEF SendsHarmless, Longer
<1>7. Grows
  BY <1>6, TakenGrows DEF CheckerStays
<1>8. MessagesOK'
  BY <1>1, <1>2, <1>3, <1>4, <1>7, OthersHandle DEF Unvisited, CheckerStays
<1>9. TraceOK'
  BY <1>7, TraceHistory DEF HistoryOfOthers, RunningOK
<1>10. \A c \in Visitors : GoesOn(c)
  BY DEF Unvisited, SameWeb, GoesOn
<1> QED
  BY <1>7, <1>8, <1>9, <1>10, HandledRun DEF Unvisited

\* What the invariant says of the next reply of users.js.
LEMMA UsersReplyHead ==
  ASSUME IInv, RunningOK, replies["users"] # <<>>, NEW h, h = Reply("users")
  PROVE  /\ UsersReplySafe(h) /\ ReadingReply(h, {})
         /\ UsersReplyOK(h, followers, feed, asked, granted)
         /\ h \in Range(replies["users"])
<1> DEFINE q == replies["users"]
<1>1. q \in Seq(Range(q)) /\ q # <<>> /\ ReplyWay(q)
  BY QueuesTyped DEF Connections, RunningOK, WayOK
<1> DEFINE x == <<Head(q), {}>>
<1>2. x \in Items(q) /\ Head(q) \in Range(q)
  <2> HIDE DEF q
  <2> QED
    BY <1>1, ItemsTail
<1>3. x[1] = h /\ x[2] = {}
  BY DEF Reply
<1>4. UsersReplyOK(h, followers, feed, asked, granted)
  <2>1. \A i \in 1 .. Len(q) :
          UsersReplyOK(q[i], followers, feed, asked, granted)
    BY DEF IInv, RepliesOK
  <2>2. Len(q) \in Nat \ {0} /\ Head(q) = q[1]
    BY <1>1
  <2> QED
    BY <1>3, <2>1, <2>2
<1> HIDE DEF x
<1>5. UsersReplySafe(x[1]) /\ ReadingReply(x[1], x[2])
  BY <1>1, <1>2 DEF ReplyWay
<1> QED
  BY <1>2, <1>3, <1>4, <1>5 DEF Reply

\* The replies without effect.
LEMMA NoReplyEffect ==
  ASSUME NEW h, h.then \notin {"accept", "copy"}
  PROVE  ReplyEffect(h)
<1>1. \A f : Match(f).then = "accept"
  BY DEF Match
<1> QED
  BY <1>1 DEF ReplyEffect, CopyFrom

\* A callback takes a reply.
LEMMA CallbackTakes ==
  ASSUME NEW n \in Connections, NEW t, Takes(n, t)
  PROVE  /\ TakesOf(n) /\ TakesOne /\ UNCHANGED <<accounts, lists>>
         /\ Reply(n) = Head(replies[n]) /\ Reply(n).then = t
         /\ replies' = Without(replies, n) /\ replies[n] # <<>>
<1>1. replies' = Without(replies, n) /\ replies[n] # <<>>
  BY DEF Takes, Without
<1> QED
  BY <1>1 DEF Takes, TakesOf, TakesOne, Reply

LEMMA CallbackEffect ==
  ASSUME IInv, NEW n \in Connections, NEW t, Takes(n, t),
         t \notin {"accept", "copy"}
  PROVE  TakenDone
<1>1. /\ replies' = Without(replies, n) /\ replies[n] # <<>>
      /\ Reply(n) = Head(replies[n]) /\ Reply(n).then = t
  BY CallbackTakes
<1>2. CASE n = "users"
  <2>1. ReplyEffect(Head(replies["users"]))
    BY <1>1, <1>2, NoReplyEffect
  <2> QED
    BY <2>1 DEF TakenDone
<1>3. CASE n # "users"
  <2>1. replies'["users"] = replies["users"]
    BY <1>1, <1>3, QueuesTyped DEF Without, Queues, Connections
  <2> QED
    BY <2>1 DEF TakenDone
<1> QED
  BY <1>2, <1>3

\* The callbacks for clients that are no visitors.
LEMMA CallbackRun ==
  ASSUME IInv, RunningOK, CheckerStays, NEW n \in Connections, NEW t, Takes(n, t),
         t \notin {"accept", "copy"}, Unvisited, SendsHarmless, HistoryOfOthers
  PROVE  RunningOK'
BY CallbackTakes, CallbackEffect, OthersRun

LEMMA SessionOfOthers ==
  ASSUME IInv, RunningOK, CheckerStays, GotSession,
         Reply("users").c \notin Visitors
  PROVE  RunningOK'
<1> SUFFICES ASSUME NEW h, h = Reply("users") PROVE RunningOK'
  OBVIOUS
<1>1. Takes("users", "session") /\ "users" \in Connections /\ h.then = "session"
  BY DEF GotSession, Takes, Connections
<1>2. h.u \notin Visitors /\ Nobody \notin Visitors /\ RequestsOK
  <2>1. UsersReplySafe(h)
    BY <1>1, UsersReplyHead DEF Takes
  <2> QED
    BY <1>1, <2>1, FellowsVisit, ConstantsAssumption
       DEF UsersReplySafe, SessionOK, RunningOK
<1>3. CASE /\ GetUserFromId(h.c, h.u, h.u, "user")
           /\ UNCHANGED <<web, history>>
  <2> DEFINE m == [do |-> "hget", c |-> h.c, me |-> h.u, u |-> h.u, then |-> "user"]
  <2>1. /\ m.do = "hget" /\ m.c = h.c /\ m.u = h.u /\ m.then = "user"
        /\ Send("users", m)
    BY <1>3 DEF GetUserFromId
  <2> HIDE DEF m
  <2>2. Harmless(m)' /\ ~Asks(m)
    BY <1>2, <2>1, HarmlessKinds DEF Asks
  <2>3. SendsHarmless
    BY <1>1, <2>1, <2>2, SendHarmless
  <2>4. Unvisited /\ HistoryOfOthers
    BY <1>2, <1>3, FellowsVisit, WebOfOthers, HistoryStaysOthers
  <2> QED
    BY <1>1, <2>3, <2>4, CallbackRun
<1>4. CASE Route(h.c, req[h.c], Nobody)
  BY <1>1, <1>2, <1>4, RouteOthers, CallbackRun
<1> QED
  BY <1>3, <1>4 DEF GotSession

LEMMA UserOfOthers ==
  ASSUME IInv, RunningOK, CheckerStays, GotUser, Reply("users").c \notin Visitors
  PROVE  RunningOK'
<1> SUFFICES ASSUME NEW h, h = Reply("users") PROVE RunningOK'
  OBVIOUS
<1>1. Takes("users", "user") /\ "users" \in Connections /\ h.then = "user"
  BY DEF GotUser, Takes, Connections
<1>2. h.u \notin Visitors /\ Nobody \notin Visitors /\ RequestsOK
  <2>1. UsersReplySafe(h)
    BY <1>1, UsersReplyHead DEF Takes
  <2> QED
    BY <1>1, <2>1, FellowsVisit, ConstantsAssumption
       DEF UsersReplySafe, LookupOK, Lookups, RunningOK
<1>3. PICK u : u \notin Visitors /\ Route(h.c, req[h.c], u)
  BY <1>2 DEF GotUser
<1> QED
  BY <1>1, <1>2, <1>3, RouteOthers, CallbackRun

LEMMA PartsOfAnother ==
  ASSUME RequestsOK, NEW c, c \notin Visitors, UNCHANGED <<req, answer>>,
         NEW p, \/ parts' = [parts EXCEPT ![c] = p]
                \/ parts' = [parts EXCEPT ![c].got = p]
  PROVE  Unvisited
<1>1. parts = [d \in Users |-> parts[d]] /\ answer = [d \in Users |-> answer[d]]
  BY DEF RequestsOK
<1>2. PICK x : parts' = [parts EXCEPT ![c] = x]
  OBVIOUS
<1>3. parts' = [d \in Users |-> IF d = c THEN x ELSE parts[d]]
  BY <1>1, <1>2
<1>4. \A v \in Visitors : parts'[v] = parts[v]
  BY <1>3, FellowsVisit
<1>5. parts' = [d \in Users |-> parts'[d]]
  BY <1>3
<1> QED
  BY <1>1, <1>4, <1>5 DEF Unvisited, SameWeb

LEMMA PageUserOfOthers ==
  ASSUME IInv, RunningOK, CheckerStays, GotPageUser,
         Reply("users").c \notin Visitors
  PROVE  RunningOK'
<1> SUFFICES ASSUME NEW h, h = Reply("users") PROVE RunningOK'
  OBVIOUS
<1>1. Takes("users", "page") /\ "users" \in Connections
  BY DEF GotPageUser, Connections
<1>2. Unvisited /\ HistoryOfOthers
  <2>1. RequestsOK /\ Visitors \subseteq Users
    BY FellowsVisit DEF RunningOK
  <2>2. UNCHANGED web => Unvisited
    BY <2>1, WebOfOthers
  <2>3. ASSUME parts' = [parts EXCEPT ![h.c].got = {"tweets"}],
               UNCHANGED <<req, answer>>
        PROVE  Unvisited
    BY <2>1, <2>3, PartsOfAnother
  <2> QED
    BY <2>2, <2>3, HistoryStaysOthers DEF GotPageUser, history
<1>3. SendsHarmless
  <2> DEFINE m == [do |-> "lists", c |-> h.c]
             l == [do |-> "lrange", c |-> h.c, u |-> h.u]
  <2>1. /\ m.do = "lists" /\ m.c = h.c /\ l.do = "lrange" /\ l.c = h.c
        /\ sent'["users"] = Append(sent["users"], m)
        /\ sent'["crypto"] = sent["crypto"]
        /\ \/ sent'["tweets"] = sent["tweets"]
           \/ sent'["tweets"] = Append(sent["tweets"], l)
    BY QueuesTyped DEF GotPageUser, Queues, Connections
  <2> HIDE DEF m, l
  <2>2. Harmless(m)' /\ ~Asks(m) /\ ~Asks(l)
    BY <2>1, HarmlessKinds DEF Asks
  <2>3. \A n \in Connections : \A N : Longer(sent[n], sent[n], N)
    BY QueuesTyped, LongerSame
  <2>4. Longer(sent["users"], sent'["users"], {m})
    BY <1>1, <2>1, <2>3, LongerAppend
  <2>5. Longer(sent["tweets"], sent'["tweets"], {l})
    <3>1. Longer(sent["tweets"], sent["tweets"], {l})
      BY <2>3 DEF Connections
    <3> QED
      BY <2>1, <3>1, LongerAppend
  <2>6. Longer(sent["crypto"], sent'["crypto"], {})
    BY <2>1, <2>3 DEF Connections
  <2> QED
    BY <2>2, <2>4, <2>5, <2>6 DEF SendsHarmless, Connections
<1> QED
  BY <1>1, <1>2, <1>3, CallbackRun

LEMMA PartOfOthers ==
  ASSUME IInv, RequestsOK, NEW c, c \notin Visitors, NEW part, NEW ts,
         GotPart(c, part, ts)
  PROVE  Unvisited /\ SendsHarmless /\ HistoryOfOthers
<1>1. SendsHarmless /\ HistoryOfOthers
  BY SendNothing, HistoryStaysOthers DEF GotPart
<1>2. CASE Respond(c, [page |-> "home", tweets |-> ts])
  BY <1>1, <1>2, FellowsVisit, WebOfOthers
<1>3. CASE /\ parts' = [parts EXCEPT ![c] = [got |-> {part}, tweets |-> ts]]
           /\ UNCHANGED <<req, answer>>
  BY <1>1, <1>3, PartsOfAnother
<1> QED
  BY <1>2, <1>3 DEF GotPart

LEMMA PartsOfOthers ==
  ASSUME IInv, RunningOK, CheckerStays,
         \/ GotLists /\ Reply("users").c \notin Visitors
         \/ GotTweets /\ Reply("tweets").c \notin Visitors
  PROVE  RunningOK'
<1>1. RequestsOK /\ "users" \in Connections /\ "tweets" \in Connections
  BY DEF RunningOK, Connections
<1>2. CASE GotLists /\ Reply("users").c \notin Visitors
  <2>1. Unvisited /\ SendsHarmless /\ HistoryOfOthers
    BY <1>1, <1>2, PartOfOthers DEF GotLists
  <2> QED
    BY <1>1, <1>2, <2>1, CallbackRun DEF GotLists
<1>3. CASE GotTweets /\ Reply("tweets").c \notin Visitors
  <2>1. Unvisited /\ SendsHarmless /\ HistoryOfOthers
    BY <1>1, <1>3, PartOfOthers DEF GotTweets
  <2> QED
    BY <1>1, <1>3, <2>1, CallbackRun DEF GotTweets
<1> QED
  BY <1>2, <1>3

LEMMA AnswersOfOthers ==
  ASSUME IInv, RunningOK, CheckerStays,
         GotUsers \/ GotChallenged \/ GotLogin, Reply("users").c \notin Visitors
  PROVE  RunningOK'
<1> SUFFICES ASSUME NEW h, h = Reply("users") PROVE RunningOK'
  OBVIOUS
<1>1. /\ "users" \in Connections /\ "crypto" \in Connections
      /\ Visitors \subseteq Users /\ RequestsOK
  BY FellowsVisit DEF Connections, RunningOK
<1>2. Unvisited /\ HistoryOfOthers
  <2>1. \A a : Respond(h.c, a) => Unvisited
    BY <1>1, WebOfOthers
  <2> QED
    BY <2>1, HistoryStaysOthers DEF GotUsers, GotChallenged, GotLogin
<1>3. CASE GotUsers
  BY <1>1, <1>2, <1>3, SendNothing, CallbackRun DEF GotUsers
<1>4. CASE GotChallenged
  <2>1. SendsHarmless
    <3> DEFINE m == [do |-> "hset random", u |-> h.u]
    <3>1. m.do = "hset random" /\ (sent' = sent \/ Send("crypto", m))
      BY <1>4 DEF GotChallenged
    <3> HIDE DEF m
    <3>2. ~Asks(m)
      BY <3>1 DEF Asks
    <3> QED
      BY <1>1, <3>1, <3>2, SendNothing, SendHarmless
  <2> QED
    BY <1>1, <1>2, <1>4, <2>1, CallbackRun DEF GotChallenged
<1>5. CASE GotLogin
  <2>1. SendsHarmless
    <3> DEFINE m == [do |-> "open", u |-> h.u]
    <3>1. m.do = "open" /\ Send("users", m)
      BY <1>5 DEF GotLogin
    <3> HIDE DEF m
    <3>2. ~Asks(m) /\ Harmless(m)'
      BY <3>1, HarmlessKinds DEF Asks
    <3> QED
      BY <1>1, <3>1, <3>2, SendHarmless
  <2> QED
    BY <1>1, <1>2, <1>5, <2>1, CallbackRun DEF GotLogin
<1> QED
  BY <1>3, <1>4, <1>5

LEMMA TargetOfOthers ==
  ASSUME IInv, RunningOK, CheckerStays, GotTarget, Reply("users").c \notin Visitors
  PROVE  RunningOK'
<1> SUFFICES ASSUME NEW h, h = Reply("users") PROVE RunningOK'
  OBVIOUS
<1>1. /\ Takes("users", "target") /\ "users" \in Connections
      /\ h.then = "target" /\ Visitors \subseteq Users /\ RequestsOK
  BY FellowsVisit DEF GotTarget, Takes, Connections, RunningOK
<1>2. h.me \notin Visitors
  <2>1. UsersReplySafe(h)
    BY <1>1, UsersReplyHead DEF Takes
  <2> QED
    BY <1>1, <2>1 DEF UsersReplySafe, LookupOK, Lookups
<1>3. Unvisited
  <2>1. \A a : Respond(h.c, a) => Unvisited
    BY <1>1, WebOfOthers
  <2> QED
    BY <2>1 DEF GotTarget
<1>4. HistoryOfOthers
  <2>1. UNCHANGED <<granted, author>> /\ (asked' = asked \/ asked' = asked \cup {<<h.me, h.u>>})
    BY DEF GotTarget, history
  <2> QED
    BY <1>2, <2>1 DEF HistoryOfOthers
<1>5. SendsHarmless
  <2> DEFINE m == [do |-> "hset pending", u |-> h.u, f |-> h.me]
  <2>1. m.do = "hset pending" /\ (sent' = sent \/ Send("users", m))
    BY DEF GotTarget
  <2> HIDE DEF m
  <2>2. ~Asks(m) /\ Harmless(m)'
    BY <2>1, HarmlessKinds DEF Asks
  <2> QED
    BY <1>1, <2>1, <2>2, SendNothing, SendHarmless
<1> QED
  BY <1>1, <1>3, <1>4, <1>5, CallbackRun

LEMMA RandomOfOthers ==
  ASSUME IInv, RunningOK, CheckerStays, GotRandom, Reply("crypto").c \notin Visitors
  PROVE  RunningOK'
<1> SUFFICES ASSUME NEW h, h = Reply("crypto") PROVE RunningOK'
  OBVIOUS
<1>1. /\ Takes("crypto", "random") /\ "crypto" \in Connections
      /\ "users" \in Connections /\ Visitors \subseteq Users /\ RequestsOK
  BY FellowsVisit DEF GotRandom, Connections, RunningOK
<1>2. Unvisited
  <2>1. /\ \A a : Respond(h.c, a) => Unvisited
        /\ UNCHANGED web => Unvisited
    BY <1>1, WebOfOthers
  <2> QED
    BY <2>1 DEF GotRandom, web
<1>3. HistoryOfOthers
  BY HistoryStaysOthers DEF GotRandom
<1>4. SendsHarmless
  <2> DEFINE m == [do |-> "hget", c |-> h.c, me |-> Nobody, u |-> h.u, then |-> "login"]
  <2>1. /\ m.do = "hget" /\ m.c = h.c /\ m.then = "login"
        /\ sent' = sent \/ Send("users", m)
    BY DEF GotRandom, GetUserFromId
  <2> HIDE DEF m
  <2>2. ~Asks(m) /\ Harmless(m)'
    BY <2>1, HarmlessKinds DEF Asks
  <2> QED
    BY <1>1, <2>1, <2>2, SendNothing, SendHarmless
<1> QED
  BY <1>1, <1>2, <1>3, <1>4, CallbackRun

\* The callbacks that no client waits for.
LEMMA PendingVisit ==
  ASSUME IInv, RunningOK, CheckerStays, GotPending
  PROVE  RunningOK'
<1> SUFFICES ASSUME NEW h, h = Reply("users") PROVE RunningOK'
  OBVIOUS
<1>1. /\ Takes("users", "accept") /\ "users" \in Connections
      /\ replies["users"] # <<>> /\ h.then = "accept" /\ h = Head(replies["users"])
      /\ TakesOne /\ UNCHANGED <<accounts, lists>>
  BY CallbackTakes DEF GotPending, Connections
<1>2. Unvisited /\ HistoryOfOthers
  <2>1. UNCHANGED web /\ UNCHANGED <<asked, granted, author>>
    BY DEF GotPending
  <2>2. Unvisited
    BY <2>1 DEF web, Unvisited, SameWeb, RunningOK, RequestsOK
  <2> QED
    BY <2>1, <2>2 DEF HistoryOfOthers
<1>3. CASE ~h.match
  <2>1. SendsHarmless
    BY <1>3, SendNothing DEF GotPending
  <2>2. \A f : Match(f) # h /\ ~CopyFrom(h, f)
    <3>1. \A f : Match(f).match
      BY DEF Match
    <3> QED
      BY <1>1, <1>3, <3>1 DEF CopyFrom
  <2>3. TakenDone
    BY <1>1, <2>2 DEF TakenDone, ReplyEffect
  <2> QED
    BY <1>1, <1>2, <2>1, <2>3, OthersRun
<1>4. CASE h.match
  <2> DEFINE m == [do |-> "add", u |-> h.u, f |-> h.f]
             l == [do |-> "lrange own", u |-> h.u, f |-> h.f]
  <2>1. /\ m.do = "add" /\ m.u = h.u /\ m.f = h.f
        /\ l.do = "lrange own"
        /\ h.u = Owner => l = CopyOwn(h.f)
    BY DEF CopyOwn
  <2>2. /\ sent'["users"] = Append(Append(sent["users"], m), l)
        /\ \A n \in Connections \ {"users"} : sent'[n] = sent[n]
    BY <1>4, QueuesTyped DEF GotPending, Queues, Connections
  <2> HIDE DEF m, l
  <2>3. \A n \in Connections : \A N : Longer(sent[n], sent[n], N)
    BY QueuesTyped, LongerSame
  <2>4. Longer(sent["users"], sent'["users"], {m, l})
    <3> SUFFICES ASSUME NEW q, q = sent["users"], NEW r, r = Append(q, m)
                 PROVE  Longer(q, Append(r, l), {m, l})
      BY <2>2
    <3>1. Longer(q, q, {m, l})
      BY <1>1, <2>3
    <3>2. Longer(q, r, {m, l})
      BY <3>1, LongerAppend
    <3> QED
      BY <3>2, LongerAppend
  <2>5. h.u = Owner => CopyOwn(h.f) \in Range(sent'["users"])
    <3> SUFFICES ASSUME NEW q, q = sent["users"], NEW r, r = Append(q, m)
                 PROVE  l \in Range(sent'["users"])
      BY <2>1
    <3>1. q \in Seq(Range(q))
      BY <1>1, QueuesTyped
    <3>2. r \in Seq(Range(r))
      BY <3>1, AppendQueue
    <3>3. Range(Append(r, l)) = Range(r) \cup {l}
      BY <3>2, ItemsAppend
    <3> QED
      BY <2>2, <3>3
  <2>6. h.u = Owner => h.f \in Fellows /\ Added(h.f)'
    <3>1. h.u = Owner => h.f \in Fellows
      <4>1. <<h.u, h.f>> \in granted
        BY <1>1, UsersReplyHead DEF UsersReplyOK
      <4>2. h.f \in Users
        BY <4>1 DEF IInv, TypeOK, Tables
      <4> QED
        BY <4>1, <4>2, FellowsVisit DEF RunningOK, TraceOK
    <3> QED
      BY <2>5, <3>1 DEF Added
  <2>7. Harmless(m)' /\ Harmless(l)' /\ ~Asks(m) /\ ~Asks(l)
    BY <2>1, <2>6, HarmlessKinds DEF Asks
  <2>8. SendsHarmless
    <3>1. Longer(sent["tweets"], sent'["tweets"], {})
      BY <2>2, <2>3 DEF Connections
    <3>2. Longer(sent["crypto"], sent'["crypto"], {})
      BY <2>2, <2>3 DEF Connections
    <3> QED
      BY <2>4, <2>7, <3>1, <3>2 DEF SendsHarmless, Connections
  <2>9. TakenDone
    <3>1. ASSUME NEW f \in Fellows, h = Match(f) PROVE Added(f)'
      <4>1. Match(f).u = Owner /\ Match(f).f = f
        BY DEF Match
      <4> QED
        BY <2>6, <3>1, <4>1
    <3>2. \A f : ~CopyFrom(h, f)
      BY <1>1 DEF CopyFrom
    <3> QED
      BY <1>1, <3>1, <3>2 DEF TakenDone, ReplyEffect
  <2> QED
    BY <1>1, <1>2, <2>8, <2>9, OthersRun
<1> QED
  BY <1>3, <1>4

LEMMA OwnTweetsVisit ==
  ASSUME IInv, RunningOK, CheckerStays, GotOwnTweets
  PROVE  RunningOK'
<1> SUFFICES ASSUME NEW h, h = Reply("users") PROVE RunningOK'
  OBVIOUS
<1>1. /\ Takes("users", "copy") /\ "users" \in Connections
      /\ replies["users"] # <<>> /\ h.then = "copy" /\ h = Head(replies["users"])
      /\ TakesOne /\ UNCHANGED <<accounts, lists>>
  BY CallbackTakes DEF GotOwnTweets, Connections
<1>2. Unvisited /\ HistoryOfOthers
  <2>1. UNCHANGED <<web, history>>
    BY DEF GotOwnTweets
  <2> QED
    BY <2>1, HistoryStaysOthers DEF web, Unvisited, SameWeb, RunningOK, RequestsOK
<1>3. h.u = Owner => h.ts # <<>>
  BY <1>1, UsersReplyHead DEF UsersReplySafe
<1>4. \A f : h # Match(f)
  <2>1. \A f : Match(f).then = "accept"
    BY DEF Match
  <2> QED
    BY <1>1, <2>1
<1>5. CASE h.ts = <<>>
  <2>1. SendsHarmless
    BY <1>5, SendNothing DEF GotOwnTweets
  <2>2. TakenDone
    BY <1>1, <1>3, <1>4, <1>5 DEF TakenDone, ReplyEffect, CopyFrom
  <2> QED
    BY <1>1, <1>2, <2>1, <2>2, OthersRun
<1>6. CASE h.ts # <<>>
  <2> DEFINE m == [do |-> "copies", u |-> h.u, f |-> h.f, ts |-> h.ts]
  <2>1. m.do = "copies" /\ m.f = h.f /\ Send("users", m)
    BY <1>6 DEF GotOwnTweets
  <2> HIDE DEF m
  <2>2. Harmless(m)' /\ ~Asks(m)
    BY <2>1, HarmlessKinds DEF Asks
  <2>3. SendsHarmless
    BY <1>1, <2>1, <2>2, SendHarmless
  <2>4. m \in Range(sent'["users"])
    <3>1. sent' = With(sent, "users", m) /\ Queues(sent)
      BY <2>1, QueuesTyped DEF Send, With
    <3>2. Range(sent'["users"]) = Range(sent["users"]) \cup {m}
      BY <1>1, <3>1, CommandAdded
    <3> QED
      BY <3>2
  <2>5. TakenDone
    <3>1. ASSUME NEW f \in Fellows, CopyFrom(h, f) PROVE Copying(f)'
      BY <2>1, <2>4, <3>1 DEF Copying, CopyTo, CopyFrom
    <3> QED
      BY <1>1, <1>4, <3>1 DEF TakenDone, ReplyEffect
  <2> QED
    BY <1>1, <1>2, <2>3, <2>5, OthersRun
<1> QED
  BY <1>5, <1>6

LEMMA FollowersVisit ==
  ASSUME IInv, RunningOK, CheckerStays, GotFollowers
  PROVE  RunningOK'
<1> SUFFICES ASSUME NEW h, h = Reply("tweets") PROVE RunningOK'
  OBVIOUS
<1>1. Takes("tweets", "deliver") /\ "tweets" \in Connections
  BY DEF GotFollowers, Connections
<1>2. Unvisited /\ HistoryOfOthers
  <2>1. UNCHANGED <<web, history>>
    BY DEF GotFollowers
  <2> QED
    BY <2>1, HistoryStaysOthers DEF web, Unvisited, SameWeb, RunningOK, RequestsOK
<1>3. SendsHarmless
  <2> DEFINE m == [do |-> "own", u |-> h.u, t |-> h.t]
             l == [do |-> "push", u |-> h.u, t |-> h.t, to |-> h.to]
  <2>1. /\ m.do = "own" /\ l.do = "push"
        /\ \A n \in Connections \ {"tweets"} : sent'[n] = sent[n]
        /\ \/ sent'["tweets"] = Append(sent["tweets"], m)
           \/ sent'["tweets"] = Append(Append(sent["tweets"], m), l)
    BY QueuesTyped DEF GotFollowers, Queues, Connections
  <2> HIDE DEF m, l
  <2>2. \A n \in Connections : \A N : Longer(sent[n], sent[n], N)
    BY QueuesTyped, LongerSame
  <2>3. Longer(sent["tweets"], sent'["tweets"], {m, l})
    <3> SUFFICES ASSUME NEW q, q = sent["tweets"], NEW r, r = Append(q, m)
                 PROVE  Longer(q, r, {m, l}) /\ Longer(q, Append(r, l), {m, l})
      BY <2>1
    <3>1. Longer(q, q, {m, l})
      BY <1>1, <2>2
    <3>2. Longer(q, r, {m, l})
      BY <3>1, LongerAppend
    <3> QED
      BY <3>2, LongerAppend
  <2>4. ~Asks(m) /\ ~Asks(l)
    BY <2>1 DEF Asks
  <2>5. Longer(sent["users"], sent'["users"], {})
    BY <2>1, <2>2 DEF Connections
  <2>6. Longer(sent["crypto"], sent'["crypto"], {})
    BY <2>1, <2>2 DEF Connections
  <2> QED
    BY <2>3, <2>4, <2>5, <2>6 DEF SendsHarmless, Connections
<1> QED
  BY <1>1, <1>2, <1>3, CallbackRun

-----------------------------------------------------------------------------
(* What happens for a visitor                                               *)

\* The requests of all but the client c are as before.
Elsewhere(c) ==
  /\ \A v \in Visitors \ {c} : SameWeb(v) /\ answer'[v] = answer[v]
  /\ parts' = [d \in Users |-> parts'[d]]
  /\ answer' = [d \in Users |-> answer'[d]]

LEMMA WebOfVisitor ==
  ASSUME IInv, RequestsOK, NEW c \in Visitors
  PROVE  /\ \A r : Wait(c, r) => /\ Elsewhere(c) /\ req'[c] = r
                                 /\ parts'[c] = parts[c] /\ answer'[c] = NoAnswer
         /\ \A a : Respond(c, a) => /\ Elsewhere(c) /\ req'[c] = NoRequest
                                    /\ parts'[c] = NoParts /\ answer'[c] = a
         /\ UNCHANGED web => /\ Elsewhere(c) /\ SameWeb(c)
                             /\ answer'[c] = answer[c]
<1>1. /\ parts = [d \in Users |-> parts[d]] /\ answer = [d \in Users |-> answer[d]]
      /\ req = [d \in Users |-> req[d]] /\ Visitors \subseteq Users
  BY FellowsVisit DEF RequestsOK, IInv, TypeOK, Tables
<1>2. ASSUME NEW r, Wait(c, r)
      PROVE  /\ Elsewhere(c) /\ req'[c] = r
             /\ parts'[c] = parts[c] /\ answer'[c] = NoAnswer
  BY <1>1, <1>2 DEF Wait, Elsewhere, SameWeb
<1>3. ASSUME NEW a, Respond(c, a)
      PROVE  /\ Elsewhere(c) /\ req'[c] = NoRequest
             /\ parts'[c] = NoParts /\ answer'[c] = a
  BY <1>1, <1>3 DEF Respond, Elsewhere, SameWeb
<1>4. ASSUME UNCHANGED web
      PROVE  Elsewhere(c) /\ SameWeb(c) /\ answer'[c] = answer[c]
  BY <1>1, <1>4 DEF web, Elsewhere, SameWeb
<1> QED
  BY <1>2, <1>3, <1>4

\* The message m is good behind the queue q of k.
SentGood(k, m, q) ==
  /\ k = "users" =>
       \A B : Range(q) \subseteq B => UsersSentOK(m, B)' /\ ReadingSent(m, B)'
  /\ k = "crypto" => \A B : Range(q) \subseteq B => ChallengeSentOK(m, B)'

LEMMA VisitorMessages ==
  ASSUME IInv, RunningOK, step' = step, UNCHANGED <<accounts, lists>>,
         TakesOne, TakenDone,
         NEW c \in Visitors, Idle(c, sent, replies'), Elsewhere(c),
         parts'[c] = NoParts,
         NEW k \in Connections, NEW m, NEW q, q = sent[k],
         \/ sent' = sent
         \/ /\ sent' = With(sent, k, m)
            /\ Asks(m) => m.c = c /\ k # "tweets"
            /\ Grows /\ c \notin Awaiting' => SentGood(k, m, q)
  PROVE  Grows /\ MessagesOK'
<1>1. \A n \in Connections : Range(sent[n]) \subseteq Range(sent'[n])
  <2>1. CASE sent' = sent
    BY <2>1
  <2>2. CASE sent' = With(sent, k, m)
    BY <2>2, SendLonger DEF Longer
  <2> QED
    BY <2>1, <2>2
<1>2. Grows
  BY <1>1, TakenGrows
<1>3. PartsOK(c)'
  BY DEF PartsOK
<1>4. \/ sent' = sent
      \/ /\ sent' = With(sent, k, m)
         /\ Asks(m) => m.c = c
         /\ k = "tweets" => ~Asks(m)
         /\ k = "users" /\ c \notin Awaiting' =>
              \A B : Range(q) \subseteq B =>
                UsersSentOK(m, B)' /\ ReadingSent(m, B)'
         /\ k = "crypto" /\ c \notin Awaiting' =>
              \A B : Range(q) \subseteq B => ChallengeSentOK(m, B)'
  BY <1>2 DEF SentGood
<1>5. \A v \in Visitors \ {c} : SameWeb(v)
  BY DEF Elsewhere
<1> QED
  BY <1>2, <1>3, <1>4, <1>5, VisitorHandles

\* A callback for the visitor c.
LEMMA VisitorRun ==
  ASSUME IInv, RunningOK, CheckerStays, UNCHANGED <<accounts, lists>>,
         TakesOne, TakenDone,
         NEW c \in Visitors, Idle(c, sent, replies'), Elsewhere(c),
         parts'[c] = NoParts,
         NEW k \in Connections, NEW m, NEW q, q = sent[k],
         \/ sent' = sent
         \/ /\ sent' = With(sent, k, m)
            /\ Asks(m) => m.c = c /\ k # "tweets"
            /\ Grows /\ c \notin Awaiting' => SentGood(k, m, q),
         Grows => GoesOn(c) /\ TraceOK'
  PROVE  RunningOK'
<1>1. Grows /\ MessagesOK'
  BY VisitorMessages DEF CheckerStays
<1>2. \A v \in Visitors : GoesOn(v)
  BY <1>1 DEF Elsewhere, SameWeb, GoesOn
<1> QED
  BY <1>1, <1>2, HandledRun DEF Elsewhere

\* A visitor whose answer comes has nothing else under way.
LEMMA VisitorIdle ==
  ASSUME IInv, RunningOK, NEW n \in {"users", "crypto"}, NEW t, Takes(n, t),
         NEW h, h = Reply(n), Answers(h), Fresh(h.c)
  PROVE  /\ Idle(h.c, sent, replies')
         /\ h.c \in Visitors /\ parts[h.c] = NoParts
         /\ h.c \in Callers(step) \ todo /\ answer[h.c] = NoAnswer
         /\ req[h.c] = RequestOf(step, h.c)
<1>1. /\ replies' = Without(replies, n) /\ replies[n] # <<>>
      /\ h = Head(replies[n]) /\ n \in Connections /\ n # "tweets"
  BY CallbackTakes DEF Connections
<1>2. /\ \A k \in Connections :
           Busy(k, sent, replies') \subseteq Busy(k, sent, replies)
      /\ Free(n, h.c, sent, replies')
  BY <1>1, QueuesTyped, TakeAnswer DEF RunningOK
<1>3. h.c \notin Busy("tweets", sent, replies')
  BY <1>2 DEF Fresh, Awaiting, Connections
<1>4. Idle(h.c, sent, replies')
  BY <1>1, <1>2, <1>3 DEF Idle, Free, Connections
<1> QED
  BY <1>4 DEF Answers, Fresh, RunningOK, RequestsOK

\* What the request of each step is.
LEMMA RequestFields ==
  ASSUME NEW s \in DOMAIN NextStep, NEW c, NEW r, r = RequestOf(s, c)
  PROVE  /\ s \in {"signup", "fellows", "join"} =>
              r.route = "signup" /\ r.cookie = Nobody
         /\ s = "tweet" =>
              r.route = "tweet" /\ r.cookie = Owner /\ r.tweet = Flag
         /\ s \in {"own", "read", "get"} =>
              r.route = "home" /\ r.cookie = c /\ r.id = c
         /\ s = "ask" => r.route = "tryfollow" /\ r.cookie = c /\ r.id = Owner
         /\ s = "accept" => r.route = "follow" /\ r.cookie = Owner /\ r.id = c
         /\ s = "signin" =>
              r.route = "checkpub" /\ r.cookie = Nobody /\ r.id = Owner
         /\ s = "challenge" =>
              r.route = "checkrandom" /\ r.cookie = Nobody /\ r.id = Owner
         /\ s = "users" => r.route = "users" /\ r.cookie = Nobody
<1>1. CASE s \in {"signup", "fellows", "join"}
  BY <1>1 DEF RequestOf, Request
<1>2. CASE s = "tweet"
  BY <1>2 DEF RequestOf, Request
<1>3. CASE s \in {"own", "read", "get"}
  BY <1>3 DEF RequestOf, Request
<1>4. CASE s = "ask"
  BY <1>4 DEF RequestOf, Request
<1>5. CASE s = "accept"
  BY <1>5 DEF RequestOf, Request
<1>6. CASE s = "signin"
  BY <1>6 DEF RequestOf, Request
<1>7. CASE s = "challenge"
  BY <1>7 DEF RequestOf, Request
<1>8. CASE s = "users"
  BY <1>8 DEF RequestOf, Request
<1>9. s \in {"signup", "tweet", "own", "fellows", "ask", "accept", "read",
             "signin", "challenge", "get", "join", "users"}
  BY DEF NextStep
<1> QED
  BY <1>1, <1>2, <1>3, <1>4, <1>5, <1>6, <1>7, <1>8, <1>9

\* The step in which a visitor waits, by its request.
LEMMA StepOfRequest ==
  ASSUME RunningOK, NEW c \in Visitors, req[c] # NoRequest
  PROVE  /\ step \in DOMAIN NextStep /\ req[c] = RequestOf(step, c)
         /\ c \in Callers(step)
         /\ req[c].route = "tweet" <=> step = "tweet"
         /\ req[c].route = "home" <=> step \in {"own", "read", "get"}
         /\ req[c].route = "tryfollow" <=> step = "ask"
         /\ req[c].route = "follow" <=> step = "accept"
         /\ req[c].route = "checkpub" <=> step = "signin"
         /\ req[c].route = "checkrandom" <=> step = "challenge"
         /\ req[c].route = "users" <=> step = "users"
         /\ req[c].cookie \in Visitors <=>
              step \in {"tweet", "own", "read", "get", "ask", "accept"}
<1>1. /\ step \in DOMAIN NextStep /\ req[c] = RequestOf(step, c)
      /\ c \in Callers(step)
  BY DEF RunningOK, RequestsOK
<1>2. step \in {"signup", "tweet", "own", "fellows", "ask", "accept", "read",
                "signin", "challenge", "get", "join", "users"}
  BY <1>1 DEF NextStep
<1>3. Nobody \notin Visitors /\ Owner \in Visitors
  BY FellowsVisit, ConstantsAssumption
<1> QED
  BY <1>1, <1>2, <1>3, RequestFields

LEMMA CallersOf ==
  /\ \A s \in {"fellows", "ask", "accept", "read"} : Callers(s) = Fellows
  /\ \A s \in {"signup", "tweet", "own", "signin", "challenge", "get", "join",
               "users"} : Callers(s) = {Owner}
  /\ \A s \in {"idle", "end"} : Callers(s) = {}
BY DEF Callers

\* A visitor that reads is signed up, or will be when its commands are done.
LEMMA VisitorSignedUp ==
  ASSUME RunningOK, step \in {"own", "ask", "accept", "read", "signin",
                              "challenge", "get", "tweet", "users"}
  PROVE  SignedUp(Owner) /\ \A c \in Callers(step) : SignedUp(c)
<1>1. SignedUp(Owner)
  BY DEF RunningOK, ProgressOK
<1>2. \A c \in Callers(step) : c = Owner \/ (c \in Fellows /\ step \in {"ask", "accept", "read"})
  BY CallersOf
<1> QED
  BY <1>1, <1>2 DEF RunningOK, ProgressOK

LEMMA SignedUpGood ==
  ASSUME NEW u \in Visitors, SignedUp(u), Grows, NEW q, q = sent["users"],
         NEW B, Range(q) \subseteq B
  PROVE  u \in registered' \/ SaveUser(u) \in B
BY DEF SignedUp, Known, Grows

\* The lookups that a visitor may ask for.
LEMMA LookupGood ==
  ASSUME NEW m, NEW c \in Visitors, Grows, step' = step, NEW q, q = sent["users"],
         m.do = "hget", m.c = c, LookupOK(m)', m.u \in Visitors,
         m.u \in registered \/ SignedUp(m.u),
         m.then = "user" /\ c \in Fellows /\ req'[c].route = "home" => Added(c),
         m.then = "page" /\ c \in Fellows => Copying(c)
  PROVE  SentGood("users", m, q)
<1> SUFFICES ASSUME NEW B, Range(q) \subseteq B
             PROVE  UsersSentOK(m, B)' /\ ReadingSent(m, B)'
  BY DEF SentGood
<1>1. m.u \in registered' \/ SaveUser(m.u) \in B
  BY SignedUpGood DEF Grows
<1>2. UsersSentOK(m, B)'
  BY <1>1 DEF UsersSentOK
<1>3. ASSUME m.then = "user", c \in Fellows, req'[c].route = "home"
      PROVE  Copied(c)' \/ CopyOwn(c) \in B
  BY <1>3 DEF Added, Grows
<1>4. ASSUME m.then = "page", c \in Fellows
      PROVE  Shown(c)' \/ \E a \in B : CopyTo(a, c)
  BY <1>4, FellowsVisit DEF Copying, Grows
<1>5. ReadingSent(m, B)'
  BY <1>3, <1>4 DEF ReadingSent
<1> QED
  BY <1>2, <1>5

\* A trace that a handler leaves as it is.
LEMMA TraceUntouched ==
  ASSUME RunningOK, UNCHANGED <<accounts, lists>>, UNCHANGED history, Grows
  PROVE  TraceOK'
BY TraceStays DEF RunningOK

LEMMA HomeSends ==
  ASSUME NEW c, NEW r, Home(c, r), r.id = c
  PROVE  \E m : /\ m.do = "hget" /\ m.c = c /\ m.u = c /\ m.then = "page"
               /\ sent' = With(sent, "users", m)
<1> DEFINE m == [do |-> "hget", c |-> c, me |-> r.cookie, u |-> r.id, then |-> "page"]
<1>1. /\ m.do = "hget" /\ m.c = c /\ m.u = c /\ m.then = "page"
      /\ sent' = With(sent, "users", m)
  BY DEF Home, GetUserFromId, Send, With
<1> HIDE DEF m
<1> QED
  BY <1>1

LEMMA VisitorSession ==
  ASSUME IInv, RunningOK, CheckerStays, GotSession, Reply("users").c \in Visitors
  PROVE  RunningOK'
<1> SUFFICES ASSUME NEW h, h = Reply("users"), NEW c, c = h.c,
                    NEW q, q = sent["users"]
             PROVE  RunningOK'
  OBVIOUS
<1>1. /\ Takes("users", "session") /\ "users" \in Connections
      /\ h.then = "session" /\ TakesOne /\ TakenDone
      /\ UNCHANGED <<accounts, lists>>
  BY CallbackTakes, CallbackEffect DEF GotSession, Takes, Connections
<1>2. UsersReplySafe(h) /\ ReadingReply(h, {})
  BY <1>1, UsersReplyHead DEF Takes
<1>3. /\ c \in Visitors /\ Fresh(c) /\ h.u \in Visitors /\ h.u = req[c].cookie
      /\ h.u \in registered /\ (h.found \/ (h.u = Owner /\ step = "get"))
  BY <1>1, <1>2 DEF UsersReplySafe, SessionOK
<1>4. /\ Idle(c, sent, replies') /\ parts[c] = NoParts
      /\ c \in Callers(step) \ todo /\ answer[c] = NoAnswer
      /\ req[c] = RequestOf(step, c)
  BY <1>1, <1>3, VisitorIdle DEF Answers
<1>5. RequestsOK /\ step' = step
  BY DEF RunningOK, CheckerStays
<1>6. CASE /\ GetUserFromId(c, h.u, h.u, "user")
           /\ UNCHANGED <<web, history>>
  <2> DEFINE m == [do |-> "hget", c |-> c, me |-> h.u, u |-> h.u, then |-> "user"]
  <2>1. /\ m.do = "hget" /\ m.c = c /\ m.u = h.u /\ m.then = "user"
        /\ sent' = With(sent, "users", m)
    BY <1>6 DEF GetUserFromId, Send, With
  <2> HIDE DEF m
  <2>2. Elsewhere(c) /\ SameWeb(c) /\ answer'[c] = answer[c]
    BY <1>3, <1>5, <1>6, WebOfVisitor
  <2>3. ASSUME Grows, c \notin Awaiting' PROVE SentGood("users", m, q)
    <3>1. Fresh(c)'
      BY <1>3, <2>2, <2>3 DEF Fresh, SameWeb
    <3>2. LookupOK(m)'
      BY <1>3, <2>1, <2>2, <3>1 DEF LookupOK, SameWeb
    <3>3. c \in Fellows /\ req'[c].route = "home" => Added(c)
      BY <1>1, <1>2, <2>2 DEF ReadingReply, SameWeb
    <3> QED
      BY <1>3, <1>5, <2>1, <2>3, <3>2, <3>3, LookupGood
  <2>4. GoesOn(c)
    BY <2>2 DEF GoesOn, SameWeb
  <2>5. Grows => TraceOK'
    BY <1>1, <1>6, TraceUntouched
  <2>6. parts'[c] = NoParts
    BY <1>4, <2>2 DEF SameWeb
  <2> QED
    BY <1>1, <1>3, <1>4, <2>1, <2>2, <2>3, <2>4, <2>5, <2>6, VisitorRun
<1>7. CASE ~h.found /\ Route(c, req[c], Nobody)
  <2>1. c = Owner /\ req[c].route = "home" /\ req[c].id = c /\ step = "get"
        /\ req[c].cookie = Owner
    BY <1>3, <1>4, <1>7, CallersOf, RequestFields DEF NextStep
  <2>2. Home(c, req[c])
    BY <1>7, <2>1 DEF Route, Signup, UsersPage, CheckPub, CheckRandom, Tweet,
                      TryFollow, TryFollowUnknown, Follow, ToSignin
  <2>3. PICK m : /\ m.do = "hget" /\ m.c = c /\ m.u = c /\ m.then = "page"
                 /\ sent' = With(sent, "users", m)
    BY <2>1, <2>2, HomeSends
  <2>4. /\ Elsewhere(c) /\ req'[c] = req[c] /\ parts'[c] = parts[c]
        /\ answer'[c] = NoAnswer
    BY <1>3, <1>5, <2>2, WebOfVisitor DEF Home
  <2>5. ASSUME Grows, c \notin Awaiting' PROVE SentGood("users", m, q)
    <3>1. Fresh(c)'
      BY <1>3, <2>4, <2>5 DEF Fresh
    <3>2. m.u \in Visitors /\ m.u \in registered
      BY <1>3, <2>1, <2>3
    <3>3. req'[c].route = "home"
      BY <2>1, <2>4
    <3>4. LookupOK(m)'
      BY <1>3, <2>3, <3>1, <3>2, <3>3 DEF LookupOK
    <3>5. c \notin Fellows
      BY <2>1, FellowsVisit
    <3> QED
      BY <1>3, <1>5, <2>3, <2>5, <3>2, <3>4, <3>5, LookupGood
  <2>6. GoesOn(c)
    BY <1>4, <2>4 DEF GoesOn
  <2>7. Grows => TraceOK'
    BY <1>1, <2>2, TraceUntouched DEF Home
  <2>8. parts'[c] = NoParts
    BY <1>4, <2>4
  <2> QED
    BY <1>1, <1>3, <1>4, <2>3, <2>4, <2>5, <2>6, <2>7, <2>8, VisitorRun
<1> QED
  BY <1>6, <1>7 DEF GotSession

LEMMA VisitorUser ==
  ASSUME IInv, RunningOK, CheckerStays, GotUser, Reply("users").c \in Visitors
  PROVE  RunningOK'
<1> SUFFICES ASSUME NEW h, h = Reply("users"), NEW c, c = h.c,
                    NEW q, q = sent["users"], NEW r, r = req[c]
             PROVE  RunningOK'
  OBVIOUS
<1>1. /\ Takes("users", "user") /\ "users" \in Connections
      /\ "tweets" \in Connections
      /\ h.then = "user" /\ TakesOne /\ TakenDone
      /\ UNCHANGED <<accounts, lists>>
  BY CallbackTakes, CallbackEffect DEF GotUser, Takes, Connections
<1>2. UsersReplySafe(h) /\ ReadingReply(h, {})
  BY <1>1, UsersReplyHead DEF Takes
<1>3. /\ c \in Visitors /\ Fresh(c) /\ h.u \in Visitors /\ h.u = r.cookie
      /\ h.found
  BY <1>1, <1>2 DEF UsersReplySafe, LookupOK, Lookups
<1>4. /\ Idle(c, sent, replies') /\ parts[c] = NoParts
      /\ c \in Callers(step) \ todo /\ answer[c] = NoAnswer
      /\ r = RequestOf(step, c) /\ r # NoRequest
  BY <1>1, <1>3, VisitorIdle DEF Answers, Lookups, Fresh
<1>5. /\ RequestsOK /\ step' = step /\ Nobody \notin Visitors
      /\ Route(c, r, h.u) /\ step \in DOMAIN NextStep
  BY <1>3, FellowsVisit, ConstantsAssumption
     DEF RunningOK, CheckerStays, GotUser, RequestsOK
<1>6. step \in {"tweet", "own", "read", "get", "ask", "accept"}
  BY <1>3, <1>4, StepOfRequest
<1>7. Callers(step)' = Callers(step)
  BY DEF CheckerStays, Callers
<1>8. SignedUp(Owner) /\ SignedUp(c)
  BY <1>4, <1>6, VisitorSignedUp
<1>9. CASE step = "tweet"
  <2>1. r.route = "tweet" /\ r.tweet = Flag /\ c = Owner /\ h.u = Owner
    BY <1>3, <1>4, <1>5, <1>9, CallersOf, RequestFields
  <2>2. Tweet(c, r, h.u)
    BY <1>5, <2>1 DEF Route, Signup, Home, UsersPage, CheckPub, CheckRandom,
                      TryFollow, TryFollowUnknown, Follow, ToSignin
  <2> DEFINE m == [do |-> "hkeys", u |-> h.u, t |-> r.tweet]
  <2>3. m.do = "hkeys" /\ sent' = With(sent, "tweets", m)
    BY <2>2 DEF Tweet, Send, With
  <2> HIDE DEF m
  <2>4. ~Asks(m) /\ SentGood("tweets", m, sent["tweets"])
    BY <2>3 DEF Asks, SentGood
  <2>5. /\ Elsewhere(c) /\ req'[c] = NoRequest /\ parts'[c] = NoParts
        /\ answer'[c] = Page("home")
    BY <1>3, <1>5, <2>2, WebOfVisitor DEF Tweet
  <2>6. GoesOn(c)
    BY <1>5, <1>9, <2>5 DEF GoesOn, AnswerOK, Page, NoAnswer
  <2>7. ASSUME Grows PROVE TraceOK'
    <3>1. author \in [Tweets -> SUBSET Users]
      BY DEF IInv, TypeOK, Tables
    <3>2. \A t \in Tweets : \A u \in author'[t] :
            u \in author[t] \/ (u = Owner /\ t = Flag)
      BY <2>1, <2>2, <3>1 DEF Tweet
    <3> QED
      BY <1>1, <2>2, <2>7, <3>2, TraceHistory DEF Tweet, RunningOK
  <2> QED
    BY <1>1, <1>3, <1>4, <2>3, <2>4, <2>5, <2>6, <2>7, VisitorRun
<1>10. CASE step \in {"own", "read", "get"}
  <2>1. r.route = "home" /\ r.id = c /\ r.cookie = c
    BY <1>4, <1>5, <1>10, RequestFields
  <2>2. Home(c, r)
    BY <1>5, <2>1 DEF Route, Signup, Tweet, UsersPage, CheckPub, CheckRandom,
                      TryFollow, TryFollowUnknown, Follow, ToSignin
  <2>3. PICK m : /\ m.do = "hget" /\ m.c = c /\ m.u = c /\ m.then = "page"
                 /\ sent' = With(sent, "users", m)
    BY <2>1, <2>2, HomeSends
  <2>4. /\ Elsewhere(c) /\ req'[c] = r /\ parts'[c] = parts[c]
        /\ answer'[c] = NoAnswer
    BY <1>3, <1>5, <2>2, WebOfVisitor DEF Home
  <2>5. ASSUME Grows, c \notin Awaiting' PROVE SentGood("users", m, q)
    <3>1. Fresh(c)'
      BY <1>3, <2>4, <2>5 DEF Fresh
    <3>2. m.u \in Visitors /\ SignedUp(m.u)
      BY <1>3, <1>8, <2>3
    <3>3. LookupOK(m)'
      BY <1>3, <2>1, <2>3, <2>4, <3>1, <3>2 DEF LookupOK
    <3>4. c \in Fellows => Copying(c)
      BY <1>1, <1>2, <2>1 DEF ReadingReply
    <3> QED
      BY <1>3, <1>5, <2>3, <2>5, <3>2, <3>3, <3>4, LookupGood
  <2>6. GoesOn(c)
    BY <1>4, <2>4 DEF GoesOn
  <2>7. Grows => TraceOK'
    BY <1>1, <2>2, TraceUntouched DEF Home
  <2>8. parts'[c] = NoParts
    BY <1>4, <2>4
  <2> QED
    BY <1>1, <1>3, <1>4, <2>3, <2>4, <2>5, <2>6, <2>7, <2>8, VisitorRun
<1>11. CASE step = "ask"
  <2>1. r.route = "tryfollow" /\ r.id = Owner /\ r.cookie = c
    BY <1>4, <1>5, <1>11, RequestFields
  <2>2. TryFollow(c, r, h.u)
    BY <1>3, <1>5, <2>1 DEF Route, Signup, Home, Tweet, UsersPage, CheckPub,
                      CheckRandom, TryFollowUnknown, Follow, ToSignin
  <2> DEFINE m == [do |-> "hget", c |-> c, me |-> h.u, u |-> r.id, then |-> "target"]
  <2>3. /\ m.do = "hget" /\ m.c = c /\ m.u = Owner /\ m.me = c
        /\ m.then = "target" /\ sent' = With(sent, "users", m)
    BY <1>3, <2>1, <2>2 DEF TryFollow, GetUserFromId, Send, With
  <2> HIDE DEF m
  <2>4. /\ Elsewhere(c) /\ req'[c] = r /\ parts'[c] = parts[c]
        /\ answer'[c] = NoAnswer
    BY <1>3, <1>5, <2>2, WebOfVisitor DEF TryFollow
  <2>5. ASSUME Grows, c \notin Awaiting' PROVE SentGood("users", m, q)
    <3>1. Fresh(c)'
      BY <1>3, <2>4, <2>5 DEF Fresh
    <3>2. m.u \in Visitors /\ SignedUp(m.u)
      BY <1>8, <2>3, FellowsVisit
    <3>3. LookupOK(m)'
      BY <1>3, <2>1, <2>3, <2>4, <3>1, <3>2 DEF LookupOK
    <3> QED
      BY <1>3, <1>5, <2>3, <2>5, <3>2, <3>3, LookupGood
  <2>6. GoesOn(c)
    BY <1>4, <2>4 DEF GoesOn
  <2>7. Grows => TraceOK'
    BY <1>1, <2>2, TraceUntouched DEF TryFollow
  <2>8. parts'[c] = NoParts
    BY <1>4, <2>4
  <2> QED
    BY <1>1, <1>3, <1>4, <2>3, <2>4, <2>5, <2>6, <2>7, <2>8, VisitorRun
<1>12. CASE step = "accept"
  <2>1. /\ r.route = "follow" /\ r.id = c /\ r.cookie = Owner /\ h.u = Owner
        /\ c \in Fellows
    BY <1>3, <1>4, <1>5, <1>12, CallersOf, RequestFields
  <2>2. Follow(c, r, h.u)
    BY <1>3, <1>5, <2>1 DEF Route, Signup, Home, Tweet, UsersPage, CheckPub,
                      CheckRandom, TryFollow, TryFollowUnknown, ToSignin
  <2>3. sent' = With(sent, "users", AcceptFellow(c))
    BY <2>1, <2>2 DEF Follow, Send, With, AcceptFellow
  <2>4. /\ Elsewhere(c) /\ req'[c] = NoRequest /\ parts'[c] = NoParts
        /\ answer'[c] = Page("home")
    BY <1>3, <1>5, <2>2, WebOfVisitor DEF Follow
  <2>5. PICK m : m = AcceptFellow(c)
    OBVIOUS
  <2>6. m.do = "hget pending" /\ m.u = Owner /\ m.f = c /\ ~Asks(m)
    BY <2>5, Commands DEF Asks
  <2>7. ASSUME Grows PROVE SentGood("users", m, q)
    <3> SUFFICES ASSUME NEW B, Range(q) \subseteq B
                 PROVE  UsersSentOK(m, B)' /\ ReadingSent(m, B)'
      BY DEF SentGood
    <3>1. Asked(c)
      BY <1>12, <2>1 DEF RunningOK, ProgressOK
    <3>2. Waiting(c)' \/ AskOwner(c) \in B
      BY <2>1, <2>7, <3>1 DEF Asked, Grows
    <3> QED
      BY <2>1, <2>6, <3>2 DEF UsersSentOK, ReadingSent
  <2>8. Accepted(c)'
    <3>1. sent' = With(sent, "users", m) /\ Queues(sent)
      BY <2>3, <2>5, QueuesTyped
    <3>2. Range(sent'["users"]) = Range(sent["users"]) \cup {m}
      BY <1>1, <3>1, CommandAdded
    <3> QED
      BY <2>5, <3>2 DEF Accepted
  <2>9. GoesOn(c)
    BY <1>5, <1>12, <2>4, <2>8 DEF GoesOn, AnswerOK, Page, NoAnswer
  <2>10. ASSUME Grows PROVE TraceOK'
    <3>1. Shown(Owner)
      BY <1>12 DEF RunningOK, ProgressOK
    <3> QED
      BY <1>1, <2>1, <2>2, <2>10, <3>1, TraceHistory DEF Follow, RunningOK
  <2> QED
    BY <1>1, <1>3, <1>4, <2>3, <2>4, <2>5, <2>6, <2>7, <2>9, <2>10, VisitorRun
<1> QED
  BY <1>6, <1>9, <1>10, <1>11, <1>12

LEMMA VisitorTarget ==
  ASSUME IInv, RunningOK, CheckerStays, GotTarget, Reply("users").c \in Visitors
  PROVE  RunningOK'
<1> SUFFICES ASSUME NEW h, h = Reply("users"), NEW c, c = h.c,
                    NEW q, q = sent["users"]
             PROVE  RunningOK'
  OBVIOUS
<1>1. /\ Takes("users", "target") /\ "users" \in Connections
      /\ h.then = "target" /\ TakesOne /\ TakenDone
      /\ UNCHANGED <<accounts, lists>>
  BY CallbackTakes, CallbackEffect DEF GotTarget, Takes, Connections
<1>2. UsersReplySafe(h)
  BY <1>1, UsersReplyHead DEF Takes
<1>3. /\ c \in Visitors /\ Fresh(c) /\ h.found
      /\ h.me = req[c].cookie /\ h.u = req[c].id /\ req[c].route = "tryfollow"
  BY <1>1, <1>2 DEF UsersReplySafe, LookupOK, Lookups
<1>4. /\ Idle(c, sent, replies') /\ parts[c] = NoParts
      /\ c \in Callers(step) \ todo
      /\ req[c] = RequestOf(step, c) /\ req[c] # NoRequest
  BY <1>1, <1>3, VisitorIdle DEF Answers, Lookups, Fresh
<1>5. /\ RequestsOK /\ step' = step /\ step \in DOMAIN NextStep
  BY DEF RunningOK, CheckerStays, RequestsOK
<1>6. step = "ask"
  BY <1>3, <1>4, StepOfRequest
<1>7. h.me = c /\ h.u = Owner /\ c \in Fellows
  BY <1>3, <1>4, <1>5, <1>6, RequestFields, CallersOf
<1>8. /\ Send("users", [do |-> "hset pending", u |-> h.u, f |-> h.me])
      /\ Respond(c, Page("home")) /\ asked' = asked \cup {<<h.me, h.u>>}
      /\ UNCHANGED <<granted, author, owed>>
  BY <1>3 DEF GotTarget
<1>9. PICK m : m = AskOwner(c)
  OBVIOUS
<1>10. m.do = "hset pending" /\ ~Asks(m) /\ sent' = With(sent, "users", m)
  <2>1. sent' = With(sent, "users", m)
    BY <1>7, <1>8, <1>9 DEF Send, With, AskOwner
  <2> QED
    BY <1>9, <2>1, Commands DEF Asks
<1>11. SentGood("users", m, q)
  BY <1>10 DEF SentGood, UsersSentOK, ReadingSent
<1>12. /\ Elsewhere(c) /\ req'[c] = NoRequest /\ parts'[c] = NoParts
       /\ answer'[c] = Page("home")
  BY <1>3, <1>5, <1>8, WebOfVisitor
<1>13. Asked(c)'
  <2>1. sent' = With(sent, "users", m) /\ Queues(sent)
    BY <1>10, QueuesTyped
  <2>2. Range(sent'["users"]) = Range(sent["users"]) \cup {m}
    BY <1>1, <2>1, CommandAdded
  <2> QED
    BY <1>9, <2>2 DEF Asked
<1>14. GoesOn(c)
  BY <1>5, <1>6, <1>12, <1>13 DEF GoesOn, AnswerOK, Page, NoAnswer
<1>15. ASSUME Grows PROVE TraceOK'
  BY <1>1, <1>7, <1>8, <1>15, TraceHistory DEF RunningOK
<1> QED
  BY <1>1, <1>3, <1>4, <1>10, <1>11, <1>12, <1>14, <1>15, VisitorRun

LEMMA VisitorUsers ==
  ASSUME IInv, RunningOK, CheckerStays, GotUsers, Reply("users").c \in Visitors
  PROVE  RunningOK'
<1> SUFFICES ASSUME NEW h, h = Reply("users"), NEW c, c = h.c
             PROVE  RunningOK'
  OBVIOUS
<1>1. /\ Takes("users", "list") /\ "users" \in Connections
      /\ h.then = "list" /\ TakesOne /\ TakenDone
      /\ UNCHANGED <<accounts, lists>>
  BY CallbackTakes, CallbackEffect DEF GotUsers, Takes, Connections
<1>2. UsersReplySafe(h)
  BY <1>1, UsersReplyHead DEF Takes
<1>3. c \in Visitors /\ Fresh(c) /\ c \in h.users /\ req[c].route = "users"
  BY <1>1, <1>2 DEF UsersReplySafe
<1>4. /\ Idle(c, sent, replies') /\ parts[c] = NoParts
      /\ c \in Callers(step) \ todo /\ req[c] # NoRequest
  BY <1>1, <1>3, VisitorIdle DEF Answers, Lookups, Fresh
<1>5. /\ RequestsOK /\ step' = step
  BY DEF RunningOK, CheckerStays
<1>6. step = "users"
  BY <1>3, <1>4, StepOfRequest
<1>7. /\ Elsewhere(c) /\ req'[c] = NoRequest /\ parts'[c] = NoParts
      /\ answer'[c] = [page |-> "users", users |-> h.users]
      /\ sent' = sent /\ UNCHANGED history
  BY <1>3, <1>5, WebOfVisitor DEF GotUsers
<1>8. answer'[c] # NoAnswer /\ answer'[c].users = h.users
  BY <1>7 DEF NoAnswer
<1>9. GoesOn(c)
  BY <1>3, <1>5, <1>6, <1>7, <1>8 DEF GoesOn, AnswerOK
<1>10. Grows => TraceOK'
  BY <1>1, <1>7, TraceUntouched
<1> QED
  BY <1>1, <1>3, <1>4, <1>7, <1>9, <1>10, VisitorRun

LEMMA VisitorChallenged ==
  ASSUME IInv, RunningOK, CheckerStays, GotChallenged,
         Reply("users").c \in Visitors
  PROVE  RunningOK'
<1> SUFFICES ASSUME NEW h, h = Reply("users"), NEW c, c = h.c,
                    NEW q, q = sent["crypto"]
             PROVE  RunningOK'
  OBVIOUS
<1>1. /\ Takes("users", "challenge") /\ "users" \in Connections
      /\ "crypto" \in Connections
      /\ h.then = "challenge" /\ TakesOne /\ TakenDone
      /\ UNCHANGED <<accounts, lists>>
  BY CallbackTakes, CallbackEffect DEF GotChallenged, Takes, Connections
<1>2. UsersReplySafe(h)
  BY <1>1, UsersReplyHead DEF Takes
<1>3. /\ c \in Visitors /\ Fresh(c) /\ h.found
      /\ h.u = req[c].id /\ req[c].route = "checkpub"
  BY <1>1, <1>2 DEF UsersReplySafe, LookupOK, Lookups
<1>4. /\ Idle(c, sent, replies') /\ parts[c] = NoParts
      /\ c \in Callers(step) \ todo
      /\ req[c] = RequestOf(step, c) /\ req[c] # NoRequest
  BY <1>1, <1>3, VisitorIdle DEF Answers, Lookups, Fresh
<1>5. /\ RequestsOK /\ step' = step /\ step \in DOMAIN NextStep
  BY DEF RunningOK, CheckerStays, RequestsOK
<1>6. step = "signin"
  BY <1>3, <1>4, StepOfRequest
<1>7. h.u = Owner
  BY <1>3, <1>4, <1>5, <1>6, RequestFields
<1>8. /\ Send("crypto", [do |-> "hset random", u |-> h.u])
      /\ Respond(c, Page("checkpub")) /\ UNCHANGED history
  BY <1>3 DEF GotChallenged
<1>9. PICK m : m = ChallengeOwner
  OBVIOUS
<1>10. m.do = "hset random" /\ ~Asks(m) /\ sent' = With(sent, "crypto", m)
  <2>1. sent' = With(sent, "crypto", m)
    BY <1>7, <1>8, <1>9 DEF Send, With, ChallengeOwner
  <2> QED
    BY <1>9, <2>1, Commands DEF Asks
<1>11. SentGood("crypto", m, q)
  BY <1>10 DEF SentGood, ChallengeSentOK
<1>12. /\ Elsewhere(c) /\ req'[c] = NoRequest /\ parts'[c] = NoParts
       /\ answer'[c] = Page("checkpub")
  BY <1>3, <1>5, <1>8, WebOfVisitor
<1>13. Challenged'
  <2>1. sent' = With(sent, "crypto", m) /\ Queues(sent)
    BY <1>10, QueuesTyped
  <2>2. Range(sent'["crypto"]) = Range(sent["crypto"]) \cup {m}
    BY <1>1, <2>1, CommandAdded
  <2> QED
    BY <1>9, <2>2 DEF Challenged
<1>14. GoesOn(c)
  BY <1>5, <1>6, <1>12, <1>13 DEF GoesOn, AnswerOK, Page, NoAnswer
<1>15. Grows => TraceOK'
  BY <1>1, <1>8, TraceUntouched
<1> QED
  BY <1>1, <1>3, <1>4, <1>10, <1>11, <1>12, <1>14, <1>15, VisitorRun

LEMMA VisitorRandom ==
  ASSUME IInv, RunningOK, CheckerStays, GotRandom, Reply("crypto").c \in Visitors
  PROVE  RunningOK'
<1> SUFFICES ASSUME NEW h, h = Reply("crypto"), NEW c, c = h.c,
                    NEW q, q = sent["users"], NEW p, p = replies["crypto"]
             PROVE  RunningOK'
  OBVIOUS
<1>1. /\ Takes("crypto", "random") /\ "users" \in Connections
      /\ "crypto" \in Connections
      /\ h.then = "random" /\ TakesOne /\ TakenDone
      /\ UNCHANGED <<accounts, lists>> /\ p # <<>> /\ h = Head(p)
  BY CallbackTakes, CallbackEffect DEF GotRandom, Takes, Connections
<1>2. ChallengeReplyOK(h)
  <2>1. p \in Seq(Range(p))
    BY <1>1, QueuesTyped
  <2>2. h \in Range(p)
    BY <1>1, <2>1, ItemsTail
  <2> QED
    BY <2>2 DEF RunningOK, ChallengeOK
<1>3. /\ c \in Visitors /\ c = Owner /\ Fresh(c) /\ h.u = Owner /\ h.found
      /\ req[c].route = "checkrandom"
  BY <1>1, <1>2 DEF ChallengeReplyOK, OwnerAnswers
<1>4. /\ Idle(c, sent, replies') /\ parts[c] = NoParts
      /\ c \in Callers(step) \ todo /\ req[c] # NoRequest
  BY <1>1, <1>3, VisitorIdle DEF Answers, Lookups, Fresh
<1>5. /\ RequestsOK /\ step' = step /\ step = "challenge"
  BY <1>3, <1>4, StepOfRequest DEF RunningOK, CheckerStays
<1>6. GetUserFromId(c, Nobody, h.u, "login") /\ UNCHANGED web /\ UNCHANGED history
  BY <1>3 DEF GotRandom
<1> DEFINE m == [do |-> "hget", c |-> c, me |-> Nobody, u |-> h.u, then |-> "login"]
<1>7. /\ m.do = "hget" /\ m.c = c /\ m.u = Owner /\ m.then = "login"
      /\ sent' = With(sent, "users", m)
  BY <1>3, <1>6 DEF GetUserFromId, Send, With
<1> HIDE DEF m
<1>8. Elsewhere(c) /\ SameWeb(c) /\ answer'[c] = answer[c]
  BY <1>3, <1>5, <1>6, WebOfVisitor
<1>9. ASSUME Grows, c \notin Awaiting' PROVE SentGood("users", m, q)
  <2>1. Fresh(c)' /\ req'[c].route = "checkrandom"
    BY <1>3, <1>8, <1>9 DEF Fresh, SameWeb
  <2>2. m.u \in Visitors /\ SignedUp(m.u)
    BY <1>3, <1>5, <1>7, VisitorSignedUp
  <2>3. LookupOK(m)'
    BY <1>3, <1>7, <2>1, <2>2 DEF LookupOK
  <2> QED
    BY <1>3, <1>5, <1>7, <1>9, <2>2, <2>3, LookupGood
<1>10. GoesOn(c)
  BY <1>8 DEF GoesOn, SameWeb
<1>11. Grows => TraceOK'
  BY <1>1, <1>6, TraceUntouched
<1>12. parts'[c] = NoParts
  BY <1>4, <1>8 DEF SameWeb
<1> QED
  BY <1>1, <1>3, <1>4, <1>7, <1>8, <1>9, <1>10, <1>11, <1>12, VisitorRun

LEMMA VisitorLogin ==
  ASSUME IInv, RunningOK, CheckerStays, GotLogin, Reply("users").c \in Visitors
  PROVE  RunningOK'
<1> SUFFICES ASSUME NEW h, h = Reply("users"), NEW c, c = h.c,
                    NEW q, q = sent["users"]
             PROVE  RunningOK'
  OBVIOUS
<1>1. /\ Takes("users", "login") /\ "users" \in Connections
      /\ h.then = "login" /\ TakesOne /\ TakenDone
      /\ UNCHANGED <<accounts, lists>>
  BY CallbackTakes, CallbackEffect DEF GotLogin, Takes, Connections
<1>2. UsersReplySafe(h)
  BY <1>1, UsersReplyHead DEF Takes
<1>3. c \in Visitors /\ Fresh(c) /\ req[c].route = "checkrandom"
  BY <1>1, <1>2 DEF UsersReplySafe, LookupOK, Lookups
<1>4. /\ Idle(c, sent, replies') /\ parts[c] = NoParts
      /\ c \in Callers(step) \ todo /\ req[c] # NoRequest
  BY <1>1, <1>3, VisitorIdle DEF Answers, Lookups, Fresh
<1>5. /\ RequestsOK /\ step' = step /\ step = "challenge"
  BY <1>3, <1>4, StepOfRequest DEF RunningOK, CheckerStays
<1> DEFINE m == [do |-> "open", u |-> h.u]
<1>6. m.do = "open" /\ sent' = With(sent, "users", m)
  BY DEF GotLogin, Send, With
<1> HIDE DEF m
<1>7. ~Asks(m) /\ SentGood("users", m, q)
  BY <1>6 DEF Asks, SentGood, UsersSentOK, ReadingSent
<1>8. /\ Elsewhere(c) /\ req'[c] = NoRequest /\ parts'[c] = NoParts
      /\ answer'[c] = Page("home")
  BY <1>3, <1>5, WebOfVisitor DEF GotLogin
<1>9. GoesOn(c)
  BY <1>5, <1>8 DEF GoesOn, AnswerOK, Page, NoAnswer
<1>10. Grows => TraceOK'
  BY <1>1, TraceUntouched DEF GotLogin
<1> QED
  BY <1>1, <1>3, <1>4, <1>6, <1>7, <1>8, <1>9, <1>10, VisitorRun

-----------------------------------------------------------------------------
(* The connections carry the commands and replies of their own module       *)

LEMMA Kinds ==
  /\ SentKinds["users"] =
       {"get", "hget", "lists", "hvals", "save", "open", "hset pending",
        "hget pending", "add", "lrange own", "copies"}
  /\ SentKinds["tweets"] = {"hkeys", "own", "push", "lrange"}
  /\ SentKinds["crypto"] = {"hset random", "hget random"}
  /\ ReplyKinds["users"] =
       {"session", "lists", "list", "accept", "copy"} \cup Lookups
  /\ ReplyKinds["tweets"] = {"deliver", "feed"}
  /\ ReplyKinds["crypto"] = {"random"}
  /\ "users" \in Connections /\ "tweets" \in Connections
  /\ "crypto" \in Connections
BY DEF SentKinds, ReplyKinds, Connections

SendsWired ==
  \A n \in Connections : \A m \in Range(sent'[n]) :
    m \in Range(sent[n]) \/ m.do \in SentKinds[n]
RepliesWired ==
  \A n \in Connections : \A m \in Range(replies'[n]) :
    m \in Range(replies[n]) \/ m.then \in ReplyKinds[n]

LEMMA SendWired ==
  ASSUME IInv, NEW k \in Connections, NEW m, Send(k, m), m.do \in SentKinds[k]
  PROVE  SendsWired
<1>1. sent' = With(sent, k, m) /\ Queues(sent)
  BY QueuesTyped DEF Send, With
<1>2. /\ \A n \in Connections \ {k} : sent'[n] = sent[n]
      /\ Range(sent'[k]) = Range(sent[k]) \cup {m}
  BY <1>1, CommandAdded
<1> QED
  BY <1>2 DEF SendsWired

LEMMA PopWired ==
  ASSUME IInv, NEW n \in Connections, sent[n] # <<>>, Pop(n)
  PROVE  SendsWired
<1>1. sent' = Without(sent, n) /\ Queues(sent)
  BY QueuesTyped DEF Pop, Without
<1>2. /\ \A k \in Connections \ {n} : sent'[k] = sent[k]
      /\ Range(sent[n]) = Range(sent'[n]) \cup {Head(sent[n])}
  BY <1>1, CommandTaken
<1> QED
  BY <1>2 DEF SendsWired

LEMMA TakesWired ==
  ASSUME IInv, NEW n \in Connections, NEW t, Takes(n, t)
  PROVE  RepliesWired
<1>1. replies' = Without(replies, n) /\ replies[n] # <<>> /\ Queues(replies)
  BY CallbackTakes, QueuesTyped
<1>2. /\ \A k \in Connections \ {n} : replies'[k] = replies[k]
      /\ Range(replies[n]) = Range(replies'[n]) \cup {Head(replies[n])}
  BY <1>1, CommandTaken
<1> QED
  BY <1>2 DEF RepliesWired

LEMMA DoneWired ==
  ASSUME IInv, NEW n \in Connections, sent[n] # <<>>, NEW r, Done(n, r),
         r.then \in ReplyKinds[n]
  PROVE  SendsWired /\ RepliesWired
<1>1. replies' = With(replies, n, r) /\ Queues(replies)
  BY QueuesTyped DEF Done, With
<1>2. /\ \A k \in Connections \ {n} : replies'[k] = replies[k]
      /\ Range(replies'[n]) = Range(replies[n]) \cup {r}
  BY <1>1, CommandAdded
<1> QED
  BY <1>2, PopWired DEF RepliesWired, Done

LEMMA WiredStep ==
  ASSUME Wired, SendsWired, RepliesWired
  PROVE  Wired'
BY DEF Wired, SendsWired, RepliesWired

LEMMA WiredStays ==
  /\ sent' = sent => SendsWired
  /\ replies' = replies => RepliesWired
BY DEF SendsWired, RepliesWired

LEMMA RouteWired ==
  ASSUME IInv, NEW c, NEW r, NEW u, Route(c, r, u)
  PROVE  SendsWired
<1>1. CASE Signup(c, r)
  <2> DEFINE m == [do |-> "save", u |-> c]
  <2>1. m.do = "save" /\ Send("users", m)
    BY <1>1 DEF Signup
  <2> HIDE DEF m
  <2> QED
    BY <2>1, Kinds, SendWired
<1>2. ASSUME NEW i, NEW j, NEW t, GetUserFromId(c, i, j, t)
      PROVE  SendsWired
  <2> DEFINE m == [do |-> "hget", c |-> c, me |-> i, u |-> j, then |-> t]
  <2>1. m.do = "hget" /\ Send("users", m)
    BY <1>2 DEF GetUserFromId
  <2> HIDE DEF m
  <2> QED
    BY <2>1, Kinds, SendWired
<1>3. CASE UsersPage(c, r)
  <2> DEFINE m == [do |-> "hvals", c |-> c]
  <2>1. m.do = "hvals" /\ Send("users", m)
    BY <1>3 DEF UsersPage
  <2> HIDE DEF m
  <2> QED
    BY <2>1, Kinds, SendWired
<1>4. CASE CheckRandom(c, r)
  <2> DEFINE m == [do |-> "hget random", c |-> c, u |-> r.id]
  <2>1. m.do = "hget random" /\ Send("crypto", m)
    BY <1>4 DEF CheckRandom
  <2> HIDE DEF m
  <2> QED
    BY <2>1, Kinds, SendWired
<1>5. CASE Tweet(c, r, u)
  <2> DEFINE m == [do |-> "hkeys", u |-> u, t |-> r.tweet]
  <2>1. m.do = "hkeys" /\ Send("tweets", m)
    BY <1>5 DEF Tweet
  <2> HIDE DEF m
  <2> QED
    BY <2>1, Kinds, SendWired
<1>6. CASE Follow(c, r, u)
  <2> DEFINE m == [do |-> "hget pending", u |-> u, f |-> r.id]
  <2>1. m.do = "hget pending" /\ Send("users", m)
    BY <1>6 DEF Follow
  <2> HIDE DEF m
  <2> QED
    BY <2>1, Kinds, SendWired
<1>7. CASE TryFollowUnknown(c, r, u) \/ ToSignin(c, r, u)
  BY <1>7, WiredStays DEF TryFollowUnknown, ToSignin
<1> QED
  BY <1>1, <1>2, <1>3, <1>4, <1>5, <1>6, <1>7
     DEF Route, Home, CheckPub, TryFollow

LEMMA ArriveWired ==
  ASSUME IInv, Wired, NEW c, NEW r, Arrive(c, r)
  PROVE  Wired'
<1>1. RepliesWired
  BY WiredStays DEF Arrive
<1>2. CASE Route(c, r, Nobody)
  BY <1>1, <1>2, RouteWired, WiredStep
<1>3. CASE Send("users", [do |-> "get", c |-> c, u |-> r.cookie])
  <2> DEFINE m == [do |-> "get", c |-> c, u |-> r.cookie]
  <2>1. m.do = "get" /\ Send("users", m)
    BY <1>3
  <2> HIDE DEF m
  <2> QED
    BY <1>1, <2>1, Kinds, SendWired, WiredStep
<1> QED
  BY <1>2, <1>3 DEF Arrive

LEMMA CallbackWired ==
  ASSUME IInv, Wired, UsersCallback \/ TweetsCallback \/ CryptoCallback
  PROVE  Wired'
<1>1. RepliesWired
  BY Kinds, TakesWired
     DEF UsersCallback, TweetsCallback, CryptoCallback, GotSession, GotUser,
         GotPageUser, GotLists, GotUsers, GotTarget, GotPending, GotOwnTweets,
         GotChallenged, GotLogin, GotFollowers, GotTweets, GotRandom
<1>2. SUFFICES SendsWired
  BY <1>1, WiredStep
<1> DEFINE h == Reply("users")
<1>3. ASSUME NEW c, NEW i, NEW j, NEW t, GetUserFromId(c, i, j, t)
      PROVE  SendsWired
  <2> DEFINE m == [do |-> "hget", c |-> c, me |-> i, u |-> j, then |-> t]
  <2>1. m.do = "hget" /\ Send("users", m)
    BY <1>3 DEF GetUserFromId
  <2> HIDE DEF m
  <2> QED
    BY <2>1, Kinds, SendWired
<1>4. CASE GotSession
  BY <1>3, <1>4, RouteWired DEF GotSession
<1>5. CASE GotUser
  BY <1>5, RouteWired DEF GotUser
<1>6. CASE GotPageUser
  <2> DEFINE m == [do |-> "lists", c |-> h.c]
             l == [do |-> "lrange", c |-> h.c, u |-> h.u]
  <2>1. /\ m.do = "lists" /\ l.do = "lrange"
        /\ sent'["users"] = Append(sent["users"], m)
        /\ sent'["crypto"] = sent["crypto"]
        /\ \/ sent'["tweets"] = sent["tweets"]
           \/ sent'["tweets"] = Append(sent["tweets"], l)
    BY <1>6, QueuesTyped DEF GotPageUser, Queues, Connections
  <2> HIDE DEF m, l
  <2>2. Range(Append(sent["users"], m)) = Range(sent["users"]) \cup {m}
    <3> SUFFICES ASSUME NEW q, q = sent["users"]
                 PROVE  Range(Append(q, m)) = Range(q) \cup {m}
      OBVIOUS
    <3> QED
      BY Kinds, QueuesTyped, ItemsAppend
  <2>3. Range(Append(sent["tweets"], l)) = Range(sent["tweets"]) \cup {l}
    <3> SUFFICES ASSUME NEW q, q = sent["tweets"]
                 PROVE  Range(Append(q, l)) = Range(q) \cup {l}
      OBVIOUS
    <3> QED
      BY Kinds, QueuesTyped, ItemsAppend
  <2>4. \A x \in Range(sent'["users"]) :
          x \in Range(sent["users"]) \/ x.do \in SentKinds["users"]
    <3>1. Range(sent'["users"]) = Range(sent["users"]) \cup {m}
      BY <2>1, <2>2
    <3>2. m.do \in SentKinds["users"]
      BY <2>1, Kinds
    <3> QED
      BY <3>1, <3>2
  <2>5. \A x \in Range(sent'["tweets"]) :
          x \in Range(sent["tweets"]) \/ x.do \in SentKinds["tweets"]
    <3>1. \/ sent'["tweets"] = sent["tweets"]
          \/ Range(sent'["tweets"]) = Range(sent["tweets"]) \cup {l}
      BY <2>1, <2>3
    <3>2. l.do \in SentKinds["tweets"]
      BY <2>1, Kinds
    <3> QED
      BY <3>1, <3>2
  <2>6. \A x \in Range(sent'["crypto"]) :
          x \in Range(sent["crypto"]) \/ x.do \in SentKinds["crypto"]
    BY <2>1
  <2> QED
    BY <2>4, <2>5, <2>6 DEF SendsWired, Connections
<1>7. CASE GotLists \/ GotTweets
  BY <1>7, WiredStays DEF GotLists, GotTweets, GotPart
<1>8. CASE GotUsers
  BY <1>8, WiredStays DEF GotUsers
<1>9. CASE GotTarget
  <2> DEFINE m == [do |-> "hset pending", u |-> h.u, f |-> h.me]
  <2>1. m.do = "hset pending" /\ (Send("users", m) \/ sent' = sent)
    BY <1>9 DEF GotTarget
  <2> HIDE DEF m
  <2> QED
    BY <2>1, Kinds, SendWired, WiredStays
<1>10. CASE GotPending
  <2> DEFINE m == [do |-> "add", u |-> h.u, f |-> h.f]
             l == [do |-> "lrange own", u |-> h.u, f |-> h.f]
  <2>1. /\ m.do = "add" /\ l.do = "lrange own"
        /\ \/ sent' = sent
           \/ /\ sent'["users"] = Append(Append(sent["users"], m), l)
              /\ \A n \in Connections \ {"users"} : sent'[n] = sent[n]
    BY <1>10, QueuesTyped DEF GotPending, Queues, Connections
  <2> HIDE DEF m, l
  <2>2. Range(Append(Append(sent["users"], m), l))
          = Range(sent["users"]) \cup {m, l}
    <3> SUFFICES ASSUME NEW q, q = sent["users"], NEW r, r = Append(q, m)
                 PROVE  Range(Append(r, l)) = Range(q) \cup {m, l}
      OBVIOUS
    <3>1. q \in Seq(Range(q))
      BY Kinds, QueuesTyped
    <3>2. r \in Seq(Range(r)) /\ Range(r) = Range(q) \cup {m}
      BY <3>1, AppendQueue, ItemsAppend
    <3>3. Range(Append(r, l)) = Range(r) \cup {l}
      BY <3>2, ItemsAppend
    <3> QED
      BY <3>2, <3>3
  <2>3. \A x \in Range(sent'["users"]) :
          x \in Range(sent["users"]) \/ x.do \in SentKinds["users"]
    <3>1. \/ sent' = sent
          \/ Range(sent'["users"]) = Range(sent["users"]) \cup {m, l}
      BY <2>1, <2>2
    <3>2. m.do \in SentKinds["users"] /\ l.do \in SentKinds["users"]
      BY <2>1, Kinds
    <3> QED
      BY <3>1, <3>2
  <2>4. \A x \in Range(sent'["tweets"]) :
          x \in Range(sent["tweets"]) \/ x.do \in SentKinds["tweets"]
    BY <2>1, Kinds
  <2>5. \A x \in Range(sent'["crypto"]) :
          x \in Range(sent["crypto"]) \/ x.do \in SentKinds["crypto"]
    BY <2>1, Kinds
  <2> QED
    BY <2>3, <2>4, <2>5 DEF SendsWired, Connections
<1>11. CASE GotOwnTweets
  <2> DEFINE m == [do |-> "copies", u |-> h.u, f |-> h.f, ts |-> h.ts]
  <2>1. m.do = "copies" /\ (Send("users", m) \/ sent' = sent)
    BY <1>11 DEF GotOwnTweets
  <2> HIDE DEF m
  <2> QED
    BY <2>1, Kinds, SendWired, WiredStays
<1>12. CASE GotFollowers
  <2> DEFINE g == Reply("tweets")
             m == [do |-> "own", u |-> g.u, t |-> g.t]
             l == [do |-> "push", u |-> g.u, t |-> g.t, to |-> g.to]
  <2>1. /\ m.do = "own" /\ l.do = "push"
        /\ \A n \in Connections \ {"tweets"} : sent'[n] = sent[n]
        /\ \/ sent'["tweets"] = Append(sent["tweets"], m)
           \/ sent'["tweets"] = Append(Append(sent["tweets"], m), l)
    BY <1>12, QueuesTyped DEF GotFollowers, Queues, Connections
  <2> HIDE DEF m, l
  <2>2. /\ Range(Append(sent["tweets"], m)) = Range(sent["tweets"]) \cup {m}
        /\ Range(Append(Append(sent["tweets"], m), l))
             = Range(sent["tweets"]) \cup {m, l}
    <3> SUFFICES ASSUME NEW q, q = sent["tweets"], NEW r, r = Append(q, m)
                 PROVE  /\ Range(r) = Range(q) \cup {m}
                        /\ Range(Append(r, l)) = Range(q) \cup {m, l}
      OBVIOUS
    <3>1. q \in Seq(Range(q))
      BY Kinds, QueuesTyped
    <3>2. r \in Seq(Range(r)) /\ Range(r) = Range(q) \cup {m}
      BY <3>1, AppendQueue, ItemsAppend
    <3>3. Range(Append(r, l)) = Range(r) \cup {l}
      BY <3>2, ItemsAppend
    <3> QED
      BY <3>2, <3>3
  <2>3. \A x \in Range(sent'["users"]) :
          x \in Range(sent["users"]) \/ x.do \in SentKinds["users"]
    BY <2>1, Kinds
  <2>4. \A x \in Range(sent'["tweets"]) :
          x \in Range(sent["tweets"]) \/ x.do \in SentKinds["tweets"]
    <3>1. \/ Range(sent'["tweets"]) = Range(sent["tweets"]) \cup {m}
          \/ Range(sent'["tweets"]) = Range(sent["tweets"]) \cup {m, l}
      BY <2>1, <2>2
    <3>2. m.do \in SentKinds["tweets"] /\ l.do \in SentKinds["tweets"]
      BY <2>1, Kinds
    <3> QED
      BY <3>1, <3>2
  <2>5. \A x \in Range(sent'["crypto"]) :
          x \in Range(sent["crypto"]) \/ x.do \in SentKinds["crypto"]
    BY <2>1, Kinds
  <2> QED
    BY <2>3, <2>4, <2>5 DEF SendsWired, Connections
<1>13. CASE GotChallenged
  <2> DEFINE m == [do |-> "hset random", u |-> h.u]
  <2>1. m.do = "hset random" /\ (Send("crypto", m) \/ sent' = sent)
    BY <1>13 DEF GotChallenged
  <2> HIDE DEF m
  <2> QED
    BY <2>1, Kinds, SendWired, WiredStays
<1>14. CASE GotRandom
  BY <1>3, <1>14, WiredStays DEF GotRandom
<1>15. CASE GotLogin
  <2> DEFINE m == [do |-> "open", u |-> h.u]
  <2>1. m.do = "open" /\ Send("users", m)
    BY <1>15 DEF GotLogin
  <2> HIDE DEF m
  <2> QED
    BY <2>1, Kinds, SendWired
<1> QED
  BY <1>4, <1>5, <1>6, <1>7, <1>8, <1>9, <1>10, <1>11, <1>12, <1>13, <1>14, <1>15
     DEF UsersCallback, TweetsCallback, CryptoCallback

\* A command that redis answers.
LEMMA ReadWired ==
  ASSUME IInv, NEW n \in Connections, sent[n] # <<>>, NEW r, Done(n, r),
         NEW t \in ReplyKinds[n], r.then = t
  PROVE  SendsWired /\ RepliesWired
BY DoneWired

\* One whose rest stays in the queue.
LEMMA RestWired ==
  ASSUME IInv, NEW n \in Connections, sent[n] # <<>>, NEW m,
         sent' = [sent EXCEPT ![n] = <<m>> \o Tail(@)], m.do \in SentKinds[n]
  PROVE  SendsWired
<1> SUFFICES ASSUME NEW q, q = sent[n] PROVE SendsWired
  OBVIOUS
<1>1. q \in Seq(Range(q)) /\ q # <<>> /\ Queues(sent)
  BY QueuesTyped
<1>2. /\ Range(<<m>> \o Tail(q)) = Range(Tail(q)) \cup {m}
      /\ Range(q) = Range(Tail(q)) \cup {Head(q)}
  BY <1>1, ItemsNewHead, ItemsTail
<1>3. /\ \A k \in Connections \ {n} : sent'[k] = sent[k]
      /\ sent'[n] = <<m>> \o Tail(q)
  BY <1>1 DEF Queues
<1> QED
  BY <1>2, <1>3 DEF SendsWired

LEMMA CommandWired ==
  ASSUME IInv, Wired, UsersCommand \/ TweetsCommand \/ CryptoCommand
  PROVE  Wired'
<1>1. SUFFICES SendsWired /\ RepliesWired
  BY WiredStep
<1> DEFINE h == Command("users")
           g == Command("tweets")
<1>2. CASE Get
  <2> DEFINE r == [then |-> "session", c |-> h.c, u |-> h.u,
                   found |-> h.u \in sessions]
  <2>1. sent["users"] # <<>> /\ Done("users", r) /\ r.then = "session"
    BY <1>2 DEF Get, Executes
  <2> HIDE DEF r
  <2> QED
    BY <2>1, Kinds, ReadWired
<1>3. CASE HGet
  <2> DEFINE r == [then |-> h.then, c |-> h.c, me |-> h.me, u |-> h.u,
                   found |-> h.u \in registered]
  <2>1. sent["users"] # <<>> /\ Done("users", r) /\ r.then = h.then
    BY <1>3 DEF HGet, Executes
  <2>2. h.then \in Lookups
    <3> SUFFICES ASSUME NEW m, m = h PROVE m.then \in Lookups
      OBVIOUS
    <3>1. m.do = "hget"
      BY <1>3 DEF HGet, Executes
    <3>2. UsersCommandOK(<<m>>, 1, followers, feed, asked, granted)
      BY <2>1, UsersHead
    <3>3. <<m>>[1] = m
      OBVIOUS
    <3> QED
      BY <3>1, <3>2, <3>3 DEF UsersCommandOK
  <2> HIDE DEF r
  <2> QED
    BY <2>1, <2>2, Kinds, ReadWired
<1>4. CASE Lists
  <2> DEFINE r == [then |-> "lists", c |-> h.c]
  <2>1. sent["users"] # <<>> /\ Done("users", r) /\ r.then = "lists"
    BY <1>4 DEF Lists, Executes
  <2> HIDE DEF r
  <2> QED
    BY <2>1, Kinds, ReadWired
<1>5. CASE HVals
  <2> DEFINE r == [then |-> "list", c |-> h.c, users |-> registered]
  <2>1. sent["users"] # <<>> /\ Done("users", r) /\ r.then = "list"
    BY <1>5 DEF HVals, Executes
  <2> HIDE DEF r
  <2> QED
    BY <2>1, Kinds, ReadWired
<1>6. CASE HGetPending
  <2> DEFINE r == [then |-> "accept", u |-> h.u, f |-> h.f,
                   match |-> pending[h.f] = h.u]
  <2>1. sent["users"] # <<>> /\ Done("users", r) /\ r.then = "accept"
    BY <1>6 DEF HGetPending, Executes
  <2> HIDE DEF r
  <2> QED
    BY <2>1, Kinds, ReadWired
<1>7. CASE LRangeOwn
  <2> DEFINE r == [then |-> "copy", u |-> h.u, f |-> h.f, ts |-> feed[h.u]]
  <2>1. sent["users"] # <<>> /\ Done("users", r) /\ r.then = "copy"
    BY <1>7 DEF LRangeOwn, Executes
  <2> HIDE DEF r
  <2> QED
    BY <2>1, Kinds, ReadWired
<1>8. CASE HKeys
  <2> DEFINE r == [then |-> "deliver", u |-> g.u, t |-> g.t, to |-> followers[g.u]]
  <2>1. sent["tweets"] # <<>> /\ Done("tweets", r) /\ r.then = "deliver"
    BY <1>8 DEF HKeys, Executes
  <2> HIDE DEF r
  <2> QED
    BY <2>1, Kinds, ReadWired
<1>9. CASE LRange
  <2> DEFINE r == [then |-> "feed", c |-> g.c, ts |-> feed[g.u]]
  <2>1. sent["tweets"] # <<>> /\ Done("tweets", r) /\ r.then = "feed"
    BY <1>9 DEF LRange, Executes
  <2> HIDE DEF r
  <2> QED
    BY <2>1, Kinds, ReadWired
<1>10. CASE HGetRandom
  <2> DEFINE m == Command("crypto")
             r == [then |-> "random", c |-> m.c, u |-> m.u,
                   found |-> m.u \in randoms]
  <2>1. sent["crypto"] # <<>> /\ Done("crypto", r) /\ r.then = "random"
    BY <1>10 DEF HGetRandom, Executes
  <2> HIDE DEF r
  <2> QED
    BY <2>1, Kinds, ReadWired
<1>11. CASE Save \/ HSetPending \/ Add
  <2>1. sent["users"] # <<>> /\ Pop("users") /\ replies' = replies
    BY <1>11 DEF Save, HSetPending, Add, Executes
  <2> QED
    BY <2>1, Kinds, PopWired, WiredStays
<1>12. CASE LPushOwn
  <2>1. sent["tweets"] # <<>> /\ Pop("tweets") /\ replies' = replies
    BY <1>12 DEF LPushOwn, Executes
  <2> QED
    BY <2>1, Kinds, PopWired, WiredStays
<1>13. CASE HSetRandom
  <2>1. sent["crypto"] # <<>> /\ Pop("crypto") /\ replies' = replies
    BY <1>13 DEF HSetRandom, Executes
  <2> QED
    BY <2>1, Kinds, PopWired, WiredStays
<1>14. CASE LPushCopy
  <2> DEFINE m == [do |-> "copies", u |-> h.u, f |-> h.f, ts |-> Tail(h.ts)]
  <2>1. /\ sent["users"] # <<>> /\ replies' = replies /\ m.do = "copies"
        /\ \/ Pop("users")
           \/ sent' = [sent EXCEPT !["users"] = <<m>> \o Tail(@)]
    BY <1>14 DEF LPushCopy, Executes
  <2> HIDE DEF m
  <2> QED
    BY <2>1, Kinds, PopWired, RestWired, WiredStays
<1>15. CASE LPushFollower
  <2>1. PICK f : \/ Pop("tweets")
                 \/ sent' = [sent EXCEPT !["tweets"] =
                      <<[do |-> "push", u |-> g.u, t |-> g.t,
                         to |-> g.to \ {f}]>> \o Tail(@)]
    BY <1>15 DEF LPushFollower
  <2> DEFINE m == [do |-> "push", u |-> g.u, t |-> g.t, to |-> g.to \ {f}]
  <2>2. /\ sent["tweets"] # <<>> /\ replies' = replies /\ m.do = "push"
        /\ \/ Pop("tweets")
           \/ sent' = [sent EXCEPT !["tweets"] = <<m>> \o Tail(@)]
    BY <1>15, <2>1 DEF LPushFollower, Executes
  <2> HIDE DEF m
  <2> QED
    BY <2>2, Kinds, PopWired, RestWired, WiredStays
<1> QED
  BY <1>2, <1>3, <1>4, <1>5, <1>6, <1>7, <1>8, <1>9, <1>10, <1>11, <1>12,
     <1>13, <1>14, <1>15
     DEF UsersCommand, TweetsCommand, CryptoCommand

-----------------------------------------------------------------------------
(* Who is waited for                                                        *)

\* What waits on users and crypto has nothing of its page, or is the first part.
LEMMA BusyUsers ==
  ASSUME IInv, RunningOK, Wired
  PROVE  /\ \A x \in Range(sent["users"]) :
              Asks(x) => Fresh(x.c) \/ (x.do = "lists" /\ ListsOK(x))
         /\ \A x \in Range(replies["users"]) :
              Answers(x) => Fresh(x.c) \/ (x.then = "lists" /\ ListsOK(x))
<1>1. ASSUME NEW x \in Range(sent["users"]), Asks(x)
      PROVE  Fresh(x.c) \/ (x.do = "lists" /\ ListsOK(x))
  <2>1. PICK A : <<x, A>> \in Items(sent["users"])
    BY <1>1, QueuesTyped, ItemsRange, Kinds
  <2> DEFINE y == <<x, A>>
  <2>2. y[1] = x /\ y[2] = A /\ y \in Items(sent["users"])
    BY <2>1
  <2> HIDE DEF y
  <2>3. UsersSentOK(x, A)
    BY <2>2 DEF RunningOK, WayOK, SentWay
  <2>4. x.do \in {"get", "hget", "lists", "hvals"} /\ x.c \in Visitors
    BY <1>1, Kinds DEF Wired, Asks
  <2> QED
    BY <2>3, <2>4 DEF UsersSentOK, SessionOK, LookupOK
<1>2. ASSUME NEW x \in Range(replies["users"]), Answers(x)
      PROVE  Fresh(x.c) \/ (x.then = "lists" /\ ListsOK(x))
  <2>1. PICK A : <<x, A>> \in Items(replies["users"])
    BY <1>2, QueuesTyped, ItemsRange, Kinds
  <2> DEFINE y == <<x, A>>
  <2>2. y[1] = x /\ y[2] = A /\ y \in Items(replies["users"])
    BY <2>1
  <2> HIDE DEF y
  <2>3. UsersReplySafe(x)
    BY <2>2 DEF RunningOK, WayOK, ReplyWay
  <2>4. x.then \in {"session", "list", "lists"} \cup Lookups /\ x.c \in Visitors
    BY <1>2, Kinds DEF Wired, Answers
  <2> QED
    BY <2>3, <2>4 DEF UsersReplySafe, SessionOK, LookupOK
<1> QED
  BY <1>1, <1>2

LEMMA BusyCrypto ==
  ASSUME IInv, RunningOK, Wired, NEW c \in Busy("crypto", sent, replies)
  PROVE  Fresh(c)
<1>1. ASSUME NEW x \in Range(sent["crypto"]), Asks(x), x.c = c
      PROVE  Fresh(c)
  <2>1. PICK A : <<x, A>> \in Items(sent["crypto"])
    BY <1>1, QueuesTyped, ItemsRange, Kinds
  <2> DEFINE y == <<x, A>>
  <2>2. y[1] = x /\ y[2] = A /\ y \in Items(sent["crypto"])
    BY <2>1
  <2> HIDE DEF y
  <2>3. ChallengeSentOK(x, A)
    BY <2>2 DEF RunningOK, ChallengeOK
  <2>4. x.do = "hget random" /\ x.c \in Visitors
    BY <1>1, Kinds DEF Wired, Asks
  <2> QED
    BY <1>1, <2>3, <2>4 DEF ChallengeSentOK, OwnerAnswers
<1>2. ASSUME NEW x \in Range(replies["crypto"]), Answers(x), x.c = c
      PROVE  Fresh(c)
  <2>1. x.then = "random" /\ x.c \in Visitors
    BY <1>2, Kinds DEF Wired, Answers
  <2>2. ChallengeReplyOK(x)
    BY <1>2 DEF RunningOK, ChallengeOK
  <2> QED
    BY <1>2, <2>1, <2>2 DEF ChallengeReplyOK, OwnerAnswers
<1> QED
  BY <1>1, <1>2 DEF Busy, Asking, Answering

LEMMA BusyMeans ==
  ASSUME IInv, RunningOK, Wired, NEW c \in Visitors,
         NEW n \in {"users", "crypto"}, c \in Busy(n, sent, replies)
  PROVE  Fresh(c) \/ (req[c].route = "home" /\ "lists" \notin parts[c].got)
<1>1. CASE n = "crypto"
  BY <1>1, BusyCrypto
<1>2. CASE n = "users"
  BY <1>2, BusyUsers DEF Busy, Asking, Answering, ListsOK
<1> QED
  BY <1>1, <1>2

LEMMA AwaitingMeans ==
  ASSUME RunningOK, Wired, NEW c \in Visitors, c \in Awaiting
  PROVE  req[c].route = "home" /\ "tweets" \notin parts[c].got
<1>1. ASSUME NEW x \in Range(sent["tweets"]), Asks(x), x.c = c
      PROVE  req[c].route = "home" /\ "tweets" \notin parts[c].got
  <2>1. x.do = "lrange" /\ PageSentOK(x)
    BY <1>1, Kinds DEF Wired, Asks, RunningOK, PageOK
  <2> QED
    BY <1>1, <2>1 DEF PageSentOK
<1>2. ASSUME NEW x \in Range(replies["tweets"]), Answers(x), x.c = c
      PROVE  req[c].route = "home" /\ "tweets" \notin parts[c].got
  <2>1. PageReplyOK(x) /\ x.then \in ReplyKinds["tweets"]
    BY <1>2, Kinds DEF Wired, RunningOK, PageOK
  <2>2. x.then = "feed"
    BY <1>2, <2>1, Kinds DEF Answers, Lookups
  <2> QED
    BY <1>2, <2>1, <2>2 DEF PageReplyOK
<1> QED
  BY <1>1, <1>2 DEF Awaiting, Busy, Asking, Answering

\* A visitor without a request has nothing under way.
LEMMA RequestlessIdle ==
  ASSUME IInv, RunningOK, Wired, NEW c \in Visitors, req[c] = NoRequest
  PROVE  Idle(c, sent, replies) /\ parts[c] = NoParts
<1>1. req[c].route = "none"
  BY DEF NoRequest
<1>2. c \notin Busy("users", sent, replies) /\ c \notin Busy("crypto", sent, replies)
  BY <1>1, BusyMeans DEF Fresh
<1>3. c \notin Busy("tweets", sent, replies)
  BY <1>1, AwaitingMeans DEF Awaiting
<1>4. parts[c] = NoParts
  BY <1>1 DEF RunningOK, PageOK, PartsOK
<1> QED
  BY <1>2, <1>3, <1>4 DEF Idle, Connections

\* One with one part of its page waits for the other.
LEMMA PartIdle ==
  ASSUME IInv, RunningOK, Wired, NEW c \in Visitors
  PROVE  /\ parts[c].got = {"lists"} =>
              c \notin Busy("users", sent, replies) \cup Busy("crypto", sent, replies)
         /\ parts[c].got = {"tweets"} => c \notin Awaiting
<1>1. ASSUME parts[c].got = {"lists"}
      PROVE  c \notin Busy("users", sent, replies) \cup Busy("crypto", sent, replies)
  <2>1. ~Fresh(c)
    BY <1>1 DEF Fresh, NoParts
  <2> QED
    BY <1>1, <2>1, BusyMeans
<1> QED
  BY <1>1, AwaitingMeans

\* The first part of a page of the visitor c.
LEMMA FirstPart ==
  ASSUME IInv, RunningOK, Wired, CheckerStays, NEW c \in Visitors,
         UNCHANGED <<accounts, lists>>, UNCHANGED <<req, answer, sent, history>>,
         TakesOne, TakenDone, PartsOK(c)',
         NEW p, parts' = [parts EXCEPT ![c] = p],
         \A m \in Range(sent["users"]) : Asks(m) /\ m.c = c =>
           m.do = "lists" /\ ListsOK(m)',
         \A m \in Range(replies'["users"]) : Answers(m) /\ m.c = c =>
           m.then = "lists" /\ ListsOK(m)',
         c \notin Busy("crypto", sent, replies'),
         Grows => \A m \in Range(sent["tweets"]) : Asks(m) /\ m.c = c => PageSentOK(m)',
         Grows => \A m \in Range(replies'["tweets"]) :
           Answers(m) /\ m.c = c => PageReplyOK(m)'
  PROVE  RunningOK'
<1>1. /\ OneMessage(sent', replies')
      /\ \A k \in Connections :
           Busy(k, sent', replies') \subseteq Busy(k, sent, replies)
  BY RepliesTaken DEF RunningOK
<1>2. \A n \in Connections : Longer(sent[n], sent'[n], {})
  BY QueuesTyped, LongerSame
<1>3. Grows
  BY TakenGrows DEF CheckerStays
<1>4. \A v \in Visitors \ {c} : Still(v) /\ SameWeb(v)
  <2>1. parts = [d \in Users |-> parts[d]] /\ Visitors \subseteq Users
    BY FellowsVisit DEF RunningOK, RequestsOK
  <2>2. \A v \in Visitors \ {c} : parts'[v] = parts[v]
    BY <2>1
  <2>3. Awaiting' \subseteq Awaiting
    BY <1>1, Kinds DEF Awaiting
  <2> QED
    BY <2>2, <2>3 DEF Still, SameWeb
<1>5. WayOK'
  <2>1. /\ \A m \in Range(sent["users"]) : SentStays(m)
        /\ \A m \in Range(replies'["users"]) : ReplyStays(m)
    BY <1>4 DEF SentStays, ReplyStays, Asks, Answers
  <2>2. Longer(sent["users"], sent'["users"], {})
    BY <1>2, Kinds
  <2> QED
    BY <1>3, <2>1, <2>2, WayHandled DEF CheckerStays
<1>6. PageOK'
  <2>1. /\ \A m \in Range(sent["tweets"]) :
             Asks(m) => SameWeb(m.c) \/ PageSentOK(m)'
        /\ \A m \in Range(replies'["tweets"]) :
             Answers(m) => SameWeb(m.c) \/ PageReplyOK(m)'
        /\ \A v \in Visitors : SameWeb(v) \/ PartsOK(v)'
    BY <1>3, <1>4 DEF Asks, Answers
  <2>2. Longer(sent["tweets"], sent'["tweets"], {})
    BY <1>2, Kinds
  <2> QED
    BY <1>3, <2>1, <2>2, PageHandled DEF CheckerStays
<1>7. ChallengeOK'
  <2>1. \A v \in Busy("crypto", sent, replies') : Still(v)
    BY <1>4 DEF Busy, Asking, Answering, Asks, Answers
  <2>2. Longer(sent["crypto"], sent'["crypto"], {})
    BY <1>2, Kinds
  <2> QED
    BY <1>3, <2>1, <2>2, ChallengeHandled
<1>8. MessagesOK'
  BY <1>1, <1>5, <1>6, <1>7 DEF MessagesOK
<1>9. TraceOK'
  BY <1>3, TraceUntouched
<1>10. \A v \in Visitors : GoesOn(v)
  BY DEF GoesOn
<1>11. /\ parts' = [d \in Users |-> parts'[d]]
       /\ answer' = [d \in Users |-> answer'[d]]
  BY DEF RunningOK, RequestsOK
<1> QED
  BY <1>3, <1>8, <1>9, <1>10, <1>11, HandledRun

\* Both parts are there: the page is rendered.
LEMMA LastPart ==
  ASSUME IInv, RunningOK, CheckerStays, NEW c \in Visitors,
         UNCHANGED <<accounts, lists>>, UNCHANGED <<sent, history>>,
         TakesOne, TakenDone, Idle(c, sent, replies'), req[c].route = "home",
         NEW ts, TweetsOK(c, ts), Respond(c, [page |-> "home", tweets |-> ts])
  PROVE  RunningOK'
<1>1. RequestsOK
  BY DEF RunningOK
<1>2. /\ Elsewhere(c) /\ req'[c] = NoRequest /\ parts'[c] = NoParts
      /\ answer'[c] = [page |-> "home", tweets |-> ts]
  BY <1>1, WebOfVisitor
<1>3. answer'[c].tweets = ts /\ answer'[c] # NoAnswer
  BY <1>2 DEF NoAnswer
<1>4. step \in {"own", "read", "get"}
  <2>1. req[c] # NoRequest
    BY DEF NoRequest
  <2> QED
    BY <2>1, StepOfRequest
<1>5. ASSUME Grows PROVE GoesOn(c)
  <2>1. TweetsOK(c, ts)'
    BY <1>5 DEF TweetsOK, Grows, CheckerStays, Reader
  <2> QED
    BY <1>2, <1>3, <1>4, <2>1 DEF GoesOn, AnswerOK, CheckerStays
<1>6. Grows => TraceOK'
  BY TraceUntouched
<1> QED
  BY <1>2, <1>5, <1>6, Kinds, VisitorRun

LEMMA VisitorLists ==
  ASSUME IInv, RunningOK, Wired, CheckerStays, GotLists,
         Reply("users").c \in Visitors
  PROVE  RunningOK'
<1> SUFFICES ASSUME NEW h, h = Reply("users"), NEW c, c = h.c
             PROVE  RunningOK'
  OBVIOUS
<1>1. /\ Takes("users", "lists") /\ "users" \in Connections
      /\ h.then = "lists" /\ TakesOne /\ TakenDone
      /\ UNCHANGED <<accounts, lists>> /\ c \in Visitors
      /\ GotPart(c, "lists", parts[c].tweets)
  BY CallbackTakes, CallbackEffect DEF GotLists, Takes, Connections
<1>2. ListsOK(h) /\ Answers(h)
  <2>1. UsersReplySafe(h)
    BY <1>1, UsersReplyHead DEF Takes
  <2> QED
    BY <1>1, <2>1 DEF UsersReplySafe, Answers
<1>3. req[c].route = "home" /\ "lists" \notin parts[c].got
  BY <1>1, <1>2 DEF ListsOK
<1>4. /\ Free("users", c, sent, replies')
      /\ \A k \in Connections :
           Busy(k, sent, replies') \subseteq Busy(k, sent, replies)
  <2>1. /\ replies' = Without(replies, "users") /\ replies["users"] # <<>>
        /\ h = Head(replies["users"])
    BY <1>1, CallbackTakes
  <2> QED
    BY <1>1, <1>2, <2>1, QueuesTyped, TakeAnswer DEF RunningOK
<1>5. c \notin Busy("users", sent, replies') \cup Busy("crypto", sent, replies')
  BY <1>4, Kinds DEF Free
<1>6. UNCHANGED <<sent, history>>
  BY <1>1 DEF GotPart
<1>7. CASE parts[c].got = {"tweets"}
  <2>1. c \notin Busy("tweets", sent, replies')
    BY <1>1, <1>4, <1>7, PartIdle, Kinds DEF Awaiting
  <2>2. Idle(c, sent, replies')
    BY <1>5, <2>1 DEF Idle, Connections
  <2>3. TweetsOK(c, parts[c].tweets)
    <3>1. parts[c] # NoParts /\ parts[c].got # {"lists"}
      BY <1>7 DEF NoParts
    <3> QED
      BY <1>1, <3>1 DEF RunningOK, PageOK, PartsOK
  <2>4. Respond(c, [page |-> "home", tweets |-> parts[c].tweets])
    BY <1>1, <1>7 DEF GotPart
  <2> QED
    BY <1>1, <1>3, <1>6, <2>2, <2>3, <2>4, LastPart
<1>8. CASE parts[c] = NoParts
  <2> DEFINE p == [got |-> {"lists"}, tweets |-> parts[c].tweets]
  <2>1. /\ parts' = [parts EXCEPT ![c] = p] /\ UNCHANGED <<req, answer>>
        /\ p.got = {"lists"}
    BY <1>1, <1>8 DEF GotPart, NoParts
  <2> HIDE DEF p
  <2>2. parts'[c] = p
    <3>1. parts = [d \in Users |-> parts[d]] /\ c \in Users
      BY <1>1, FellowsVisit DEF RunningOK, RequestsOK
    <3> QED
      BY <2>1, <3>1
  <2>3. PartsOK(c)'
    BY <1>3, <2>1, <2>2 DEF PartsOK
  <2>4. /\ \A m \in Range(sent["users"]) : ~(Asks(m) /\ m.c = c)
        /\ \A m \in Range(replies'["users"]) : ~(Answers(m) /\ m.c = c)
    BY <1>5 DEF Busy, Asking, Answering
  <2>5. ASSUME Grows, NEW m \in Range(sent["tweets"]), Asks(m), m.c = c
        PROVE  PageSentOK(m)'
    <3>1. PageSentOK(m)
      BY DEF RunningOK, PageOK
    <3> QED
      BY <1>3, <2>1, <2>2, <2>5, <3>1 DEF PageSentOK, Grows, Reader, CheckerStays
  <2>6. ASSUME Grows, NEW m \in Range(replies'["tweets"]), Answers(m), m.c = c
        PROVE  PageReplyOK(m)'
    <3>1. Range(replies'["tweets"]) \subseteq Range(replies["tweets"])
      BY <1>1, RepliesTaken, Kinds DEF RunningOK
    <3>2. PageReplyOK(m)
      BY <3>1 DEF RunningOK, PageOK
    <3> QED
      BY <1>3, <2>1, <2>2, <2>6, <3>2
         DEF PageReplyOK, Grows, TweetsOK, Reader, CheckerStays
  <2> QED
    BY <1>1, <1>5, <1>6, <2>1, <2>3, <2>4, <2>5, <2>6, FirstPart
<1> QED
  BY <1>1, <1>3, <1>7, <1>8 DEF RunningOK, PageOK, PartsOK

LEMMA VisitorTweets ==
  ASSUME IInv, RunningOK, Wired, CheckerStays, GotTweets,
         Reply("tweets").c \in Visitors
  PROVE  RunningOK'
<1> SUFFICES ASSUME NEW h, h = Reply("tweets"), NEW c, c = h.c
             PROVE  RunningOK'
  OBVIOUS
<1>1. /\ Takes("tweets", "feed") /\ "tweets" \in Connections
      /\ h.then = "feed" /\ TakesOne /\ TakenDone
      /\ UNCHANGED <<accounts, lists>> /\ c \in Visitors
      /\ GotPart(c, "tweets", h.ts)
      /\ replies' = Without(replies, "tweets") /\ replies["tweets"] # <<>>
      /\ h = Head(replies["tweets"])
  BY CallbackTakes, CallbackEffect DEF GotTweets, Takes, Connections
<1>2. h \in Range(replies["tweets"]) /\ Answers(h)
  <2>1. Range(replies["tweets"])
          = Range(replies'["tweets"]) \cup {Head(replies["tweets"])}
    BY <1>1, QueuesTyped, CommandTaken
  <2> QED
    BY <1>1, <2>1 DEF Answers
<1>3. /\ req[c].route = "home" /\ "tweets" \notin parts[c].got
      /\ TweetsOK(c, h.ts)
  BY <1>1, <1>2 DEF RunningOK, PageOK, PageReplyOK
<1>4. c \in Awaiting
  BY <1>1, <1>2 DEF Awaiting, Busy, Answering
<1>5. /\ Free("tweets", c, sent, replies')
      /\ \A k \in Connections :
           Busy(k, sent, replies') \subseteq Busy(k, sent, replies)
  BY <1>1, <1>2, QueuesTyped, TakeAnswer DEF RunningOK
<1>6. c \notin Busy("tweets", sent, replies')
  BY <1>5, Kinds DEF Free
<1>7. UNCHANGED <<sent, history>>
  BY <1>1 DEF GotPart
<1>8. CASE parts[c].got = {"lists"}
  <2>1. c \notin Busy("users", sent, replies') \cup Busy("crypto", sent, replies')
    BY <1>1, <1>5, <1>8, PartIdle, Kinds
  <2>2. Idle(c, sent, replies')
    BY <1>6, <2>1 DEF Idle, Connections
  <2>3. Respond(c, [page |-> "home", tweets |-> h.ts])
    BY <1>1, <1>8 DEF GotPart
  <2> QED
    BY <1>1, <1>3, <1>7, <2>2, <2>3, LastPart
<1>9. CASE parts[c] = NoParts
  <2> DEFINE p == [got |-> {"tweets"}, tweets |-> h.ts]
  <2>1. /\ parts' = [parts EXCEPT ![c] = p] /\ UNCHANGED <<req, answer>>
        /\ p.got = {"tweets"} /\ p.tweets = h.ts
    BY <1>1, <1>9 DEF GotPart, NoParts
  <2> HIDE DEF p
  <2>2. parts'[c] = p
    <3>1. parts = [d \in Users |-> parts[d]] /\ c \in Users
      BY <1>1, FellowsVisit DEF RunningOK, RequestsOK
    <3> QED
      BY <2>1, <3>1
  <2>3. Grows
    BY <1>1, <1>7, TakenGrows DEF CheckerStays
  <2>4. PartsOK(c)'
    <3>1. TweetsOK(c, h.ts)'
      BY <1>1, <1>3, <2>3 DEF TweetsOK, Grows, Reader, CheckerStays
    <3> QED
      BY <1>3, <2>1, <2>2, <3>1 DEF PartsOK
  <2>5. ~Fresh(c)
    BY <1>4 DEF Fresh
  <2>6. ASSUME NEW m \in Range(sent["users"]), Asks(m), m.c = c
        PROVE  m.do = "lists" /\ ListsOK(m)'
    <3>1. m.do = "lists" /\ ListsOK(m)
      BY <2>5, <2>6, BusyUsers
    <3> QED
      BY <1>3, <2>1, <2>2, <2>6, <3>1 DEF ListsOK
  <2>7. ASSUME NEW m \in Range(replies'["users"]), Answers(m), m.c = c
        PROVE  m.then = "lists" /\ ListsOK(m)'
    <3>1. Range(replies'["users"]) \subseteq Range(replies["users"])
      BY <1>1, RepliesTaken, Kinds DEF RunningOK
    <3>2. m.then = "lists" /\ ListsOK(m)
      BY <2>5, <2>7, <3>1, BusyUsers
    <3> QED
      BY <1>3, <2>1, <2>2, <2>7, <3>2 DEF ListsOK
  <2>8. c \notin Busy("crypto", sent, replies')
    BY <1>5, <2>5, BusyCrypto, Kinds
  <2>9. /\ \A m \in Range(sent["tweets"]) : ~(Asks(m) /\ m.c = c)
        /\ \A m \in Range(replies'["tweets"]) : ~(Answers(m) /\ m.c = c)
    BY <1>6 DEF Busy, Asking, Answering
  <2> QED
    BY <1>1, <1>7, <2>1, <2>4, <2>6, <2>7, <2>8, <2>9, FirstPart
<1> QED
  BY <1>1, <1>3, <1>8, <1>9 DEF RunningOK, PageOK, PartsOK

LEMMA VisitorPageUser ==
  ASSUME IInv, RunningOK, CheckerStays, GotPageUser,
         Reply("users").c \in Visitors
  PROVE  RunningOK'
<1> SUFFICES ASSUME NEW h, h = Reply("users"), NEW c, c = h.c
             PROVE  RunningOK'
  OBVIOUS
<1>1. /\ Takes("users", "page") /\ "users" \in Connections
      /\ "tweets" \in Connections /\ "crypto" \in Connections
      /\ h.then = "page" /\ TakesOne /\ TakenDone
      /\ UNCHANGED <<accounts, lists>>
  BY CallbackTakes, CallbackEffect DEF GotPageUser, Takes, Connections
<1>2. UsersReplySafe(h) /\ ReadingReply(h, {})
  BY <1>1, UsersReplyHead DEF Takes
<1>3. /\ c \in Visitors /\ Fresh(c) /\ h.u = c /\ req[c].route = "home"
      /\ h.found
  BY <1>1, <1>2 DEF UsersReplySafe, LookupOK, Lookups
<1>4. /\ Idle(c, sent, replies') /\ parts[c] = NoParts
      /\ req[c] # NoRequest /\ c \in Callers(step)
  BY <1>1, <1>3, VisitorIdle DEF Answers, Lookups, Fresh
<1>5. Reader(c) => Shown(c)
  <2>1. ASSUME step = "get" PROVE Shown(c)
    <3>1. c = Owner
      BY <1>4, <2>1, CallersOf
    <3> QED
      BY <2>1, <3>1 DEF RunningOK, ProgressOK
  <2> QED
    BY <1>1, <1>2, <2>1 DEF Reader, ReadingReply
<1> DEFINE m == [do |-> "lists", c |-> c]
           l == [do |-> "lrange", c |-> c, u |-> h.u]
           s == With(sent, "users", m)
<1>6. UNCHANGED <<web, history>>
  BY <1>3 DEF GotPageUser
<1>7. sent' = With(s, "tweets", l)
  <2>1. sent' = [sent EXCEPT
          !["users"] = Append(sent["users"], m), !["tweets"] = Append(@, l)]
    BY <1>3 DEF GotPageUser
  <2> HIDE DEF m, l
  <2> QED
    BY <1>1, <2>1, QueuesTyped DEF With, Queues
<1>8. /\ m.do = "lists" /\ m.c = c /\ l.do = "lrange" /\ l.c = c /\ l.u = c
      /\ Asks(m) /\ Asks(l)
  BY <1>3 DEF Asks
<1> HIDE DEF m, l
<1>9. /\ OneMessage(sent, replies') /\ Queues(sent)
      /\ \A k \in Connections :
           Busy(k, sent, replies') \subseteq Busy(k, sent, replies)
  BY <1>1, QueuesTyped, RepliesTaken DEF RunningOK
<1>10. /\ OneMessage(s, replies') /\ Queues(s)
       /\ Busy("tweets", s, replies') = Busy("tweets", sent, replies')
  <2>1. Free("users", m.c, sent, replies')
    BY <1>4, <1>8 DEF Free, Idle
  <2> QED
    BY <1>1, <1>9, <2>1, PutCommand
<1>11. /\ \A k \in Connections \ {"users"} : s[k] = sent[k]
       /\ s["users"] = Append(sent["users"], m)
  BY <1>1, <1>9, CommandAdded
<1> HIDE DEF s
<1>12. /\ OneMessage(sent', replies')
       /\ Busy("tweets", sent', replies') = Busy("tweets", sent, replies') \cup {c}
  <2>1. Free("tweets", l.c, s, replies')
    BY <1>1, <1>4, <1>8, <1>10 DEF Free, Idle
  <2> DEFINE s2 == With(s, "tweets", l)
  <2>2. /\ OneMessage(s2, replies')
        /\ Busy("tweets", s2, replies') = Busy("tweets", s, replies') \cup {l.c}
    BY <1>1, <1>8, <1>10, <2>1, PutCommand
  <2>3. sent' = s2
    BY <1>7
  <2> HIDE DEF s2
  <2> QED
    BY <1>8, <1>10, <2>2, <2>3
<1>13. /\ sent'["users"] = Append(sent["users"], m)
       /\ sent'["tweets"] = Append(sent["tweets"], l)
       /\ sent'["crypto"] = sent["crypto"]
  <2> DEFINE s2 == With(s, "tweets", l)
  <2>1. /\ \A k \in Connections \ {"tweets"} : s2[k] = s[k]
        /\ s2["tweets"] = Append(s["tweets"], l)
    BY <1>1, <1>10, CommandAdded
  <2>2. sent' = s2
    BY <1>7
  <2> HIDE DEF s2
  <2> QED
    BY <1>1, <1>11, <2>1, <2>2 DEF Connections
<1>14. /\ Longer(sent["users"], sent'["users"], {m})
       /\ Longer(sent["tweets"], sent'["tweets"], {l})
       /\ Longer(sent["crypto"], sent'["crypto"], {})
  <2>1. /\ Longer(sent["users"], sent["users"], {m})
        /\ Longer(sent["tweets"], sent["tweets"], {l})
        /\ Longer(sent["crypto"], sent["crypto"], {})
    BY <1>1, QueuesTyped, LongerSame
  <2> QED
    BY <1>13, <2>1, LongerAppend
<1>15. Grows
  <2>1. \A n \in Connections : Range(sent[n]) \subseteq Range(sent'[n])
    BY <1>14 DEF Longer, Connections
  <2> QED
    BY <1>1, <2>1, TakenGrows DEF CheckerStays
<1>16. \A v \in Visitors \ {c} : Still(v)
  <2>1. Awaiting' \subseteq Awaiting \cup {c}
    BY <1>1, <1>9, <1>12 DEF Awaiting
  <2> QED
    BY <1>6, <2>1 DEF Still, SameWeb, web
<1>17. SameWeb(c)
  BY <1>6 DEF SameWeb, web
<1>18. /\ \A n \in Connections : \A x \in Range(sent[n]) : Asks(x) => Still(x.c)
       /\ \A n \in Connections : \A x \in Range(replies'[n]) : Answers(x) => Still(x.c)
  BY <1>4, <1>16 DEF Idle, Busy, Asking, Answering, Asks, Answers
<1>19. WayOK'
  <2>1. /\ \A x \in Range(sent["users"]) : SentStays(x)
        /\ \A x \in Range(replies'["users"]) : ReplyStays(x)
    BY <1>1, <1>18 DEF SentStays, ReplyStays
  <2>2. ASSUME NEW x \in {m}, NEW B
        PROVE  UsersSentOK(x, B)' /\ ReadingSent(x, B)'
    <3>1. x.do = "lists" /\ ListsOK(x)'
      BY <1>3, <1>4, <1>8, <1>17 DEF ListsOK, SameWeb, NoParts
    <3> QED
      BY <3>1 DEF UsersSentOK, ReadingSent
  <2> QED
    BY <1>1, <1>14, <1>15, <2>1, <2>2, WayHandled DEF CheckerStays
<1>20. PageOK'
  <2>1. /\ \A x \in Range(sent["tweets"]) : Asks(x) => SameWeb(x.c)
        /\ \A x \in Range(replies'["tweets"]) : Answers(x) => SameWeb(x.c)
        /\ \A v \in Visitors : SameWeb(v)
    BY <1>1, <1>16, <1>17, <1>18 DEF Still
  <2>2. ASSUME NEW x \in {l} PROVE PageSentOK(x)'
    <3>1. x.u = c /\ x.c = c
      BY <1>8
    <3> QED
      BY <1>3, <1>4, <1>5, <1>15, <1>17, <3>1
         DEF PageSentOK, SameWeb, NoParts, Grows, Reader, CheckerStays
  <2> QED
    BY <1>1, <1>14, <1>15, <2>1, <2>2, PageHandled DEF CheckerStays
<1>21. ChallengeOK'
  <2>1. \A v \in Busy("crypto", sent, replies') : Still(v)
    BY <1>1, <1>18 DEF Busy, Asking, Answering
  <2> QED
    BY <1>1, <1>14, <1>15, <2>1, ChallengeHandled
<1>22. MessagesOK'
  BY <1>12, <1>19, <1>20, <1>21 DEF MessagesOK
<1>23. TraceOK'
  BY <1>1, <1>6, <1>15, TraceUntouched
<1>24. \A v \in Visitors : GoesOn(v)
  BY <1>6 DEF GoesOn, web
<1>25. /\ parts' = [d \in Users |-> parts'[d]]
       /\ answer' = [d \in Users |-> answer'[d]]
  BY <1>6 DEF RunningOK, RequestsOK, web
<1> QED
  BY <1>15, <1>22, <1>23, <1>24, <1>25, HandledRun

\* Every step of the service keeps what is known of the visit.
LEMMA CommandVisit ==
  ASSUME IInv, RunningOK, CheckerStays,
         UsersCommand \/ TweetsCommand \/ CryptoCommand
  PROVE  RunningOK'
<1>1. CASE UsersCommand
  BY <1>1, GetVisit, HGetVisit, ListsVisit, HValsVisit, SaveVisit,
     HSetPendingVisit, HGetPendingVisit, AddVisit, LRangeOwnVisit, LPushCopyVisit
     DEF UsersCommand
<1>2. CASE TweetsCommand
  BY <1>2, HKeysVisit, LPushOwnVisit, LPushFollowerVisit, LRangeVisit
     DEF TweetsCommand
<1>3. CASE CryptoCommand
  BY <1>3, HSetRandomVisit, HGetRandomVisit DEF CryptoCommand
<1> QED
  BY <1>1, <1>2, <1>3

LEMMA CallbackVisit ==
  ASSUME IInv, RunningOK, Wired, CheckerStays,
         UsersCallback \/ TweetsCallback \/ CryptoCallback
  PROVE  RunningOK'
<1>1. CASE GotSession
  BY <1>1, VisitorSession, SessionOfOthers
<1>2. CASE GotUser
  BY <1>2, VisitorUser, UserOfOthers
<1>3. CASE GotPageUser
  BY <1>3, VisitorPageUser, PageUserOfOthers
<1>4. CASE GotLists
  BY <1>4, VisitorLists, PartsOfOthers
<1>5. CASE GotUsers
  BY <1>5, VisitorUsers, AnswersOfOthers
<1>6. CASE GotTarget
  BY <1>6, VisitorTarget, TargetOfOthers
<1>7. CASE GotPending \/ GotOwnTweets \/ GotFollowers
  BY <1>7, PendingVisit, OwnTweetsVisit, FollowersVisit
<1>8. CASE GotChallenged
  BY <1>8, VisitorChallenged, AnswersOfOthers
<1>9. CASE GotLogin
  BY <1>9, VisitorLogin, AnswersOfOthers
<1>10. CASE GotTweets
  BY <1>10, VisitorTweets, PartsOfOthers
<1>11. CASE GotRandom
  BY <1>11, VisitorRandom, RandomOfOthers
<1> QED
  BY <1>1, <1>2, <1>3, <1>4, <1>5, <1>6, <1>7, <1>8, <1>9, <1>10, <1>11
     DEF UsersCallback, TweetsCallback, CryptoCallback

LEMMA ServiceVisit ==
  ASSUME IInv, Wired, Service
  PROVE  Wired' /\ (RunningOK /\ CheckerStays => RunningOK')
BY CommandVisit, CallbackVisit, CommandWired, CallbackWired DEF Service

-----------------------------------------------------------------------------
(* The requests of players, and the ends of sessions                        *)

LEMMA PlayerVisit ==
  ASSUME IInv, RunningOK, CheckerStays, NEW c \in Members, NEW r,
         r.cookie \in {c, Nobody}, Arrive(c, r)
  PROVE  RunningOK'
<1>1. /\ c \notin Visitors /\ Nobody \notin Visitors /\ Visitors \subseteq Users
      /\ RequestsOK
  BY CheckerAssumption, ConstantsAssumption, FellowsVisit
     DEF Visitors, RunningOK
<1>2. UNCHANGED <<replies, accounts, lists>> /\ TakesOne /\ TakenDone
  BY DEF Arrive, TakesOne, TakenDone
<1>3. CASE Route(c, r, Nobody)
  BY <1>1, <1>2, <1>3, RouteOthers, OthersRun
<1>4. CASE /\ r.cookie # Nobody
           /\ Send("users", [do |-> "get", c |-> c, u |-> r.cookie])
           /\ Wait(c, r)
           /\ UNCHANGED history
  <2> DEFINE m == [do |-> "get", c |-> c, u |-> r.cookie]
  <2>1. /\ m.do = "get" /\ m.c = c /\ m.u = c /\ Send("users", m)
    BY <1>4
  <2> HIDE DEF m
  <2>2. Harmless(m)' /\ ~Asks(m)
    BY <1>1, <2>1, HarmlessKinds DEF Asks
  <2>3. SendsHarmless
    BY <2>1, <2>2, SendHarmless DEF Connections
  <2>4. Unvisited /\ HistoryOfOthers
    BY <1>1, <1>4, WebOfOthers, HistoryStaysOthers
  <2> QED
    BY <1>2, <2>3, <2>4, OthersRun
<1> QED
  BY <1>3, <1>4 DEF Arrive

\* Only the checker, or what redis keeps of the accounts, has moved.
LEMMA Unmoved ==
  ASSUME IInv, RunningOK, step' = step, Grows,
         UNCHANGED <<web, wire, lists, history>>
  PROVE  MessagesOK' /\ TraceOK'
<1>1. sent' = sent /\ replies' = replies /\ req' = req /\ parts' = parts
  BY DEF web, wire
<1>2. \A v : Still(v)
  BY <1>1 DEF Still, SameWeb, Awaiting, Busy
<1>3. OneMessage(sent', replies')
  BY <1>1 DEF RunningOK
<1>4. WayOK'
  <2>1. /\ sent["users"] \in Seq(Range(sent["users"]))
        /\ replies["users"] \in Seq(Range(replies["users"]))
    BY QueuesTyped, Kinds
  <2>2. SentWay(sent["users"])' /\ ReplyWay(replies["users"])'
    <3> SUFFICES ASSUME NEW q, q = sent["users"], NEW p, p = replies["users"]
                 PROVE  SentWay(q)' /\ ReplyWay(p)'
      BY <1>1
    <3> QED
      BY <1>2, <2>1, SentWayStays, ReplyWayStays DEF RunningOK, WayOK
  <2> QED
    BY <2>2 DEF WayOK
<1>5. PageOK'
  BY <1>1, <1>2, PageStays DEF RunningOK, Still
<1>6. ChallengeOK'
  BY <1>1, <1>2, QueuesTyped, ChallengeStays DEF RunningOK
<1>7. TraceOK'
  BY TraceStays DEF RunningOK
<1> QED
  BY <1>3, <1>4, <1>5, <1>6, <1>7 DEF MessagesOK

\* Sessions that the visit does not need.
LEMMA SessionsVisit ==
  ASSUME IInv, RunningOK, SessionEnds
  PROVE  RunningOK'
<1>1. CheckerStays /\ step' = step
  BY DEF SessionEnds, checker, CheckerStays
<1>2. PICK u \in Users \ Fellows : /\ \/ u # Owner
                                      \/ u = Owner /\ step = "signin" /\ todo = {Owner}
                                   /\ Expire(u)
  BY DEF SessionEnds
<1>3. /\ UNCHANGED <<web, wire, registered, randoms, lists, history>>
      /\ sessions' = sessions \ {u} /\ sent' = sent /\ replies' = replies
      /\ req' = req /\ parts' = parts /\ answer' = answer
  BY <1>2 DEF Expire, wire, web
<1>4. \A v \in Visitors : Known(v) => Known(v)'
  BY <1>1, <1>2, <1>3 DEF Known, Visitors
<1>5. Grows
  <2>1. \A f \in Visitors : /\ Shown(f)' <=> Shown(f)
                            /\ Waiting(f)' <=> Waiting(f)
                            /\ Copying(f)' <=> Copying(f)
                            /\ Copied(f)' <=> Copied(f)
                            /\ Added(f)' <=> Added(f)
                            /\ Matched(f)' <=> Matched(f)
    BY <1>3 DEF lists, Shown, Waiting, Copying, Copied, Added, Matched,
                CopyTo, CopyFrom
  <2>2. /\ \A v \in Visitors : SignedUp(v) => SignedUp(v)'
        /\ \A f \in Fellows : /\ Accepted(f) => Accepted(f)'
                              /\ Asked(f) => Asked(f)'
        /\ Challenged => Challenged'
    BY <1>3, <1>4, <2>1, FellowsVisit DEF SignedUp, Accepted, Asked, Challenged
  <2> QED
    BY <1>3, <1>4, <2>1, <2>2, FellowsVisit DEF Grows
<1>6. MessagesOK' /\ TraceOK'
  BY <1>1, <1>3, <1>5, Unmoved
<1>7. \A v \in Visitors : GoesOn(v)
  BY <1>3 DEF GoesOn
<1>8. /\ parts' = [d \in Users |-> parts'[d]]
      /\ answer' = [d \in Users |-> answer'[d]]
  BY <1>3 DEF RunningOK, RequestsOK
<1> QED
  BY <1>1, <1>5, <1>6, <1>7, <1>8, HandledRun

-----------------------------------------------------------------------------
(* The requests of the checker                                              *)

LEMMA CallRun ==
  ASSUME IInv, RunningOK, NEW c \in todo, UNCHANGED <<step, back, printed>>,
         todo' = todo \ {c}, UNCHANGED <<replies, accounts, lists>>,
         Idle(c, sent, replies), Elsewhere(c), parts'[c] = NoParts,
         NEW k \in Connections, NEW m, NEW q, q = sent[k],
         sent' = With(sent, k, m), Asks(m) => m.c = c /\ k # "tweets",
         Grows /\ c \notin Awaiting' => SentGood(k, m, q),
         UNCHANGED history,
         \/ req'[c] = RequestOf(step, c) /\ answer'[c] = NoAnswer
         \/ req'[c] = NoRequest /\ answer'[c] # NoAnswer /\ AnswerOK(c)',
         step \in {"signup", "join", "fellows"} => SignedUp(c)'
  PROVE  RunningOK'
<1>1. /\ step' = step /\ c \in Visitors /\ c \in Callers(step) /\ RequestsOK
      /\ TakesOne /\ TakenDone /\ Idle(c, sent, replies')
      /\ UNCHANGED <<accounts, lists>>
  BY CallersVisit DEF RunningOK, RequestsOK, TakesOne, TakenDone
<1>2. Grows /\ MessagesOK'
  BY <1>1, VisitorMessages
<1>3. TraceOK'
  BY <1>1, <1>2, TraceUntouched
<1>4. \A v \in Visitors \ {c} : req'[v] = req[v] /\ answer'[v] = answer[v]
  BY DEF Elsewhere, SameWeb
<1>5. Callers(step)' = Callers(step) /\ RequestOf(step, c)' = RequestOf(step, c)
      /\ \A v : RequestOf(step, v)' = RequestOf(step, v)
  BY <1>1 DEF Callers, RequestOf
<1>6. RequestsOK'
  <2>1. \A v \in back : answer'[v] # NoAnswer
    BY <1>1, <1>4, CallersVisit DEF RequestsOK
  <2>2. \A v \in Visitors : req'[v] # NoRequest =>
          /\ v \in Callers(step) \ todo' /\ answer'[v] = NoAnswer
          /\ req'[v] = RequestOf(step, v)
    BY <1>1, <1>4 DEF RequestsOK
  <2> QED
    BY <1>1, <1>5, <2>1, <2>2 DEF RequestsOK, Elsewhere
<1>7. AnswersOK'
  <2> SUFFICES ASSUME NEW v \in Visitors, Served(v)'
               PROVE  AnswerOK(v)'
    BY DEF AnswersOK
  <2>1. CASE v = c
    BY <2>1 DEF Served
  <2>2. CASE v # c
    <3>1. Served(v) /\ answer'[v] = answer[v]
      BY <1>4, <1>5, <2>2 DEF Served
    <3>2. AnswerOK(v) /\ (step \in {"ask", "accept"} => v \in Fellows)
      BY <3>1, CallersOf DEF RunningOK, AnswersOK, Served
    <3> QED
      BY <1>1, <1>2, <3>1, <3>2 DEF AnswerOK, Grows, TweetsOK, Reader
  <2> QED
    BY <2>1, <2>2
<1>8. ProgressOK'
  <2>1. ProgressOK /\ Owner \in Visitors /\ Fellows \subseteq Visitors
    BY FellowsVisit DEF RunningOK
  <2>2. (step \in {"signup", "join"} /\ Owner \in todo') \/ SignedUp(Owner)'
    BY <1>2, <2>1 DEF ProgressOK, Grows
  <2>3. step = "fellows" => \A f \in Fellows \ todo' : SignedUp(f)'
    BY <1>2, <2>1 DEF ProgressOK, Grows
  <2> QED
    BY <1>1, <1>2, <2>1, <2>2, <2>3 DEF ProgressOK, Grows
<1> QED
  BY <1>2, <1>3, <1>6, <1>7, <1>8 DEF MessagesOK, RunningOK

LEMMA CallVisit ==
  ASSUME IInv, RunningOK, Wired, NEW c, Call(c)
  PROVE  RunningOK'
<1> SUFFICES ASSUME NEW r, r = RequestOf(step, c), NEW q, q = sent["users"],
                    NEW p, p = sent["crypto"]
             PROVE  RunningOK'
  OBVIOUS
<1>1. /\ c \in todo /\ Arrive(c, r) /\ todo' = todo \ {c} /\ step' = step
      /\ UNCHANGED <<step, back, printed>>
      /\ UNCHANGED <<replies, accounts, lists>> /\ req[c] = NoRequest
  BY DEF Call, Arrive
<1>2. /\ c \in Visitors /\ c \in Callers(step) /\ RequestsOK
      /\ step \in DOMAIN NextStep /\ Nobody \notin Visitors
  BY <1>1, CallersVisit, FellowsVisit, ConstantsAssumption
     DEF RunningOK, RequestsOK
<1>3. Idle(c, sent, replies) /\ parts[c] = NoParts
  BY <1>1, <1>2, RequestlessIdle
<1>4. CASE step \in {"signup", "join", "fellows"}
  <2>1. r.route = "signup" /\ r.cookie = Nobody
    BY <1>2, <1>4, RequestFields
  <2>2. Signup(c, r)
    BY <1>1, <2>1 DEF Arrive, Route, Home, Tweet, UsersPage, CheckPub,
                      CheckRandom, TryFollow, TryFollowUnknown, Follow, ToSignin
  <2>3. PICK m : m = SaveUser(c)
    OBVIOUS
  <2>4. /\ sent' = With(sent, "users", m) /\ m.do = "save" /\ ~Asks(m)
        /\ UNCHANGED history
    <3>1. sent' = With(sent, "users", m) /\ UNCHANGED history
      BY <2>2, <2>3 DEF Signup, Send, With, SaveUser
    <3> QED
      BY <2>3, <3>1, Commands DEF Asks
  <2>5. /\ Elsewhere(c) /\ req'[c] = NoRequest /\ parts'[c] = NoParts
        /\ answer'[c] = Page("signup")
    BY <1>2, <2>2, WebOfVisitor DEF Signup
  <2>6. SentGood("users", m, q)
    BY <2>4 DEF SentGood, UsersSentOK, ReadingSent
  <2>7. SignedUp(c)'
    <3>1. /\ sent' = With(sent, "users", m) /\ Queues(sent)
          /\ "users" \in Connections
      BY <2>4, QueuesTyped, Kinds
    <3>2. Range(sent'["users"]) = Range(sent["users"]) \cup {m}
      BY <3>1, CommandAdded
    <3> QED
      BY <2>3, <3>2 DEF SignedUp
  <2>8. answer'[c] # NoAnswer /\ AnswerOK(c)'
    BY <1>1, <1>4, <2>5 DEF AnswerOK, Page, NoAnswer
  <2> QED
    BY <1>1, <1>3, <2>4, <2>5, <2>6, <2>7, <2>8, Kinds, CallRun
<1>5. CASE step \in {"tweet", "own", "read", "get", "ask", "accept"}
  <2>1. /\ r.cookie \in Visitors /\ SignedUp(r.cookie) /\ r # NoRequest
        /\ r.route = "home" /\ c \in Fellows => step = "read"
    <3>1. SignedUp(Owner) /\ SignedUp(c)
      BY <1>2, <1>5, VisitorSignedUp
    <3>2. /\ r.cookie \in {c, Owner}
          /\ r.route \in {"tweet", "home", "tryfollow", "follow"}
          /\ r.route = "home" => step \in {"own", "read", "get"}
      BY <1>2, <1>5, RequestFields
    <3>3. r.route # "none" /\ NoRequest.route = "none"
      BY <3>2 DEF NoRequest
    <3>4. step \in {"own", "get"} => c \notin Fellows
      BY <1>2, CallersOf, FellowsVisit
    <3> QED
      BY <1>2, <3>1, <3>2, <3>3, <3>4, FellowsVisit
  <2> DEFINE m == [do |-> "get", c |-> c, u |-> r.cookie]
  <2>2. /\ m.do = "get" /\ m.c = c /\ m.u = r.cookie
        /\ sent' = With(sent, "users", m) /\ Wait(c, r) /\ UNCHANGED history
    BY <1>1, <1>2, <2>1 DEF Arrive, Send, With
  <2> HIDE DEF m
  <2>3. /\ Elsewhere(c) /\ req'[c] = r /\ parts'[c] = NoParts
        /\ answer'[c] = NoAnswer
    BY <1>2, <1>3, <2>2, WebOfVisitor
  <2>4. ASSUME Grows, c \notin Awaiting' PROVE SentGood("users", m, q)
    <3> SUFFICES ASSUME NEW B, Range(q) \subseteq B
                 PROVE  UsersSentOK(m, B)' /\ ReadingSent(m, B)'
      BY DEF SentGood
    <3>1. Fresh(c)'
      BY <2>1, <2>3, <2>4 DEF Fresh
    <3>2. SessionOK(m)'
      BY <1>2, <2>1, <2>2, <2>3, <3>1 DEF SessionOK
    <3>3. Known(m.u)' \/ SaveUser(m.u) \in B
      BY <2>1, <2>2, <2>4 DEF SignedUp, Grows
    <3>4. ASSUME c \in Fellows, req'[c].route = "home"
          PROVE  Matched(c)' \/ AcceptFellow(c) \in B
      <4>1. Accepted(c)
        BY <2>1, <2>3, <3>4 DEF RunningOK, ProgressOK
      <4> QED
        BY <2>4, <3>4, <4>1 DEF Accepted, Grows
    <3> QED
      BY <2>2, <3>2, <3>3, <3>4 DEF UsersSentOK, ReadingSent
  <2> QED
    BY <1>1, <1>3, <1>5, <2>2, <2>3, <2>4, Kinds, CallRun
<1>6. CASE step = "signin"
  <2>1. /\ r.route = "checkpub" /\ r.cookie = Nobody /\ r.id = Owner
        /\ c = Owner /\ SignedUp(Owner) /\ r # NoRequest
    <3>1. r.route = "checkpub" /\ r.cookie = Nobody /\ r.id = Owner
      BY <1>2, <1>6, RequestFields
    <3>2. r # NoRequest
      BY <3>1 DEF NoRequest
    <3> QED
      BY <1>2, <1>6, <3>1, <3>2, CallersOf, VisitorSignedUp
  <2>2. CheckPub(c, r)
    BY <1>1, <2>1 DEF Arrive, Route, Signup, Home, Tweet, UsersPage,
                      CheckRandom, TryFollow, TryFollowUnknown, Follow, ToSignin
  <2> DEFINE m == [do |-> "hget", c |-> c, me |-> r.cookie, u |-> r.id,
                   then |-> "challenge"]
  <2>3. /\ m.do = "hget" /\ m.c = c /\ m.u = Owner /\ m.then = "challenge"
        /\ sent' = With(sent, "users", m) /\ Wait(c, r) /\ UNCHANGED history
    BY <2>1, <2>2 DEF CheckPub, GetUserFromId, Send, With
  <2> HIDE DEF m
  <2>4. /\ Elsewhere(c) /\ req'[c] = r /\ parts'[c] = NoParts
        /\ answer'[c] = NoAnswer
    BY <1>2, <1>3, <2>3, WebOfVisitor
  <2>5. ASSUME Grows, c \notin Awaiting' PROVE SentGood("users", m, q)
    <3>1. Fresh(c)'
      BY <2>1, <2>4, <2>5 DEF Fresh
    <3>2. LookupOK(m)'
      BY <1>2, <2>1, <2>3, <2>4, <3>1 DEF LookupOK
    <3> QED
      BY <1>1, <1>2, <2>1, <2>3, <2>5, <3>2, LookupGood
  <2> QED
    BY <1>1, <1>3, <1>6, <2>3, <2>4, <2>5, Kinds, CallRun
<1>7. CASE step = "challenge"
  <2>1. /\ r.route = "checkrandom" /\ r.cookie = Nobody /\ r.id = Owner
        /\ c = Owner /\ Challenged /\ r # NoRequest
    <3>1. r.route = "checkrandom" /\ r.cookie = Nobody /\ r.id = Owner
      BY <1>2, <1>7, RequestFields
    <3>2. r # NoRequest
      BY <3>1 DEF NoRequest
    <3> QED
      BY <1>2, <1>7, <3>1, <3>2, CallersOf DEF RunningOK, ProgressOK
  <2>2. CheckRandom(c, r)
    BY <1>1, <2>1 DEF Arrive, Route, Signup, Home, Tweet, UsersPage,
                      CheckPub, TryFollow, TryFollowUnknown, Follow, ToSignin
  <2> DEFINE m == [do |-> "hget random", c |-> c, u |-> r.id]
  <2>3. /\ m.do = "hget random" /\ m.c = c /\ m.u = Owner
        /\ sent' = With(sent, "crypto", m) /\ Wait(c, r) /\ UNCHANGED history
    BY <2>1, <2>2 DEF CheckRandom, Send, With
  <2> HIDE DEF m
  <2>4. /\ Elsewhere(c) /\ req'[c] = r /\ parts'[c] = NoParts
        /\ answer'[c] = NoAnswer
    BY <1>2, <1>3, <2>3, WebOfVisitor
  <2>5. ASSUME Grows, c \notin Awaiting' PROVE SentGood("crypto", m, p)
    <3> SUFFICES ASSUME NEW B, Range(p) \subseteq B
                 PROVE  ChallengeSentOK(m, B)'
      BY DEF SentGood
    <3>1. Fresh(c)'
      BY <2>1, <2>4, <2>5 DEF Fresh
    <3>2. OwnerAnswers(m.c)'
      BY <2>1, <2>3, <2>4, <3>1 DEF OwnerAnswers
    <3>3. Owner \in randoms' \/ ChallengeOwner \in B
      BY <2>1, <2>5 DEF Challenged, Grows
    <3> QED
      BY <2>3, <3>2, <3>3 DEF ChallengeSentOK
  <2> QED
    BY <1>1, <1>3, <1>7, <2>3, <2>4, <2>5, Kinds, CallRun
<1>8. CASE step = "users"
  <2>1. r.route = "users" /\ r.cookie = Nobody /\ SignedUp(c) /\ r # NoRequest
    <3>1. r.route = "users" /\ r.cookie = Nobody
      BY <1>2, <1>8, RequestFields
    <3>2. r # NoRequest
      BY <3>1 DEF NoRequest
    <3> QED
      BY <1>2, <1>8, <3>1, <3>2, VisitorSignedUp
  <2>2. UsersPage(c, r)
    BY <1>1, <2>1 DEF Arrive, Route, Signup, Home, Tweet, CheckRandom,
                      CheckPub, TryFollow, TryFollowUnknown, Follow, ToSignin
  <2> DEFINE m == [do |-> "hvals", c |-> c]
  <2>3. /\ m.do = "hvals" /\ m.c = c
        /\ sent' = With(sent, "users", m) /\ Wait(c, r) /\ UNCHANGED history
    BY <2>1, <2>2 DEF UsersPage, Send, With
  <2> HIDE DEF m
  <2>4. /\ Elsewhere(c) /\ req'[c] = r /\ parts'[c] = NoParts
        /\ answer'[c] = NoAnswer
    BY <1>2, <1>3, <2>3, WebOfVisitor
  <2>5. ASSUME Grows, c \notin Awaiting' PROVE SentGood("users", m, q)
    <3> SUFFICES ASSUME NEW B, Range(q) \subseteq B
                 PROVE  UsersSentOK(m, B)' /\ ReadingSent(m, B)'
      BY DEF SentGood
    <3>1. Fresh(c)'
      BY <2>1, <2>4, <2>5 DEF Fresh
    <3>2. c \in registered' \/ SaveUser(c) \in B
      BY <1>2, <2>1, <2>5, SignedUpGood
    <3> QED
      BY <2>1, <2>3, <2>4, <3>1, <3>2 DEF UsersSentOK, ReadingSent
  <2> QED
    BY <1>1, <1>3, <1>8, <2>3, <2>4, <2>5, Kinds, CallRun
<1>9. step \in {"signup", "tweet", "own", "fellows", "ask", "accept", "read",
                "signin", "challenge", "get", "join", "users"}
  BY <1>2 DEF NextStep
<1> QED
  BY <1>4, <1>5, <1>6, <1>7, <1>8, <1>9

-----------------------------------------------------------------------------
(* The answers that the checker gets                                        *)

LEMMA AnsweredGood ==
  ASSUME RunningOK, NEW c, Answered(c)
  PROVE  c \in Visitors /\ c \in Callers(step) /\ AnswerOK(c)
BY CallersVisit DEF Answered, Served, RunningOK, AnswersOK

\* Nothing of the service has moved.
LEMMA UntouchedGrows ==
  ASSUME UNCHANGED vars, \A u \in Visitors : Known(u) => Known(u)'
  PROVE  Grows /\ \A f : (Waiting(f)' <=> Waiting(f)) /\ (Added(f)' <=> Added(f))
<1>1. /\ sent' = sent /\ replies' = replies /\ feed' = feed
      /\ pending' = pending /\ registered' = registered /\ randoms' = randoms
  BY DEF vars, wire, accounts, lists
<1>2. \A f : /\ Shown(f)' <=> Shown(f)
             /\ Copying(f)' <=> Copying(f)
             /\ Copied(f)' <=> Copied(f)
             /\ Added(f)' <=> Added(f)
             /\ Matched(f)' <=> Matched(f)
             /\ Waiting(f)' <=> Waiting(f)
  BY <1>1 DEF Shown, Waiting, Copying, Copied, Added, Matched, CopyTo, CopyFrom
<1>3. /\ \A v \in Visitors : SignedUp(v) => SignedUp(v)'
      /\ \A f \in Fellows : /\ Accepted(f) => Accepted(f)'
                            /\ Asked(f) => Asked(f)'
      /\ Challenged => Challenged'
  BY <1>1, <1>2 DEF SignedUp, Accepted, Asked, Challenged
<1> QED
  BY <1>1, <1>2, <1>3, FellowsVisit DEF Grows

\* The step goes on.
LEMMA AdvanceStays ==
  ASSUME IInv, RunningOK, NEW c, Advance(c), back \cup {c} # Callers(step)
  PROVE  RunningOK'
<1>1. /\ step' = step /\ todo' = todo /\ back' = back \cup {c}
      /\ UNCHANGED vars /\ c \in Callers(step) \ (todo \cup back)
      /\ answer[c] # NoAnswer /\ printed' = (printed \/ step = "own")
  BY DEF Advance, Answered
<1>2. printed' => step \notin {"signup", "tweet", "own"}
  <2>1. step # "own"
    BY <1>1, CallersOf DEF RunningOK, RequestsOK
  <2> QED
    BY <1>1, <2>1 DEF RunningOK, RequestsOK
<1>3. Callers(step)' = Callers(step)
  BY <1>1 DEF Callers
<1>4. /\ req' = req /\ parts' = parts /\ answer' = answer
      /\ sent' = sent /\ replies' = replies
  BY <1>1 DEF vars, web, wire
<1>5. RequestsOK'
  <2>1. \A v : RequestOf(step, v)' = RequestOf(step, v)
    BY <1>1 DEF RequestOf
  <2> QED
    BY <1>1, <1>2, <1>3, <1>4, <2>1 DEF RunningOK, RequestsOK
<1>6. Grows
  <2>1. \A u : Known(u) => Known(u)'
    BY <1>1 DEF Known, vars, accounts
  <2> QED
    BY <1>1, <2>1, UntouchedGrows
<1>7. AnswersOK'
  <2> SUFFICES ASSUME NEW v \in Visitors, Served(v)'
               PROVE  AnswerOK(v)'
    BY DEF AnswersOK
  <2>1. Served(v)
    BY <1>1, <1>3, <1>4 DEF Served
  <2>2. AnswerOK(v) /\ (step \in {"ask", "accept"} => v \in Fellows)
    BY <2>1, CallersOf DEF RunningOK, AnswersOK, Served
  <2> QED
    BY <1>1, <1>4, <1>6, <2>2 DEF AnswerOK, Grows, TweetsOK, Reader
<1>8. ProgressOK'
  BY <1>1, <1>6, FellowsVisit DEF RunningOK, ProgressOK, Grows
<1>9. MessagesOK' /\ TraceOK'
  BY <1>1, <1>6, Unmoved DEF vars
<1> QED
  BY <1>5, <1>7, <1>8, <1>9 DEF MessagesOK, RunningOK

LEMMA AllAnswered ==
  ASSUME IInv, RunningOK, Wired, NEW c, Answered(c), back \cup {c} = Callers(step)
  PROVE  /\ todo = {} /\ \A v \in Callers(step) : v \in Visitors /\ AnswerOK(v)
         /\ \A v \in Visitors : /\ req[v] = NoRequest /\ parts[v] = NoParts
                                /\ Idle(v, sent, replies)
<1>1. todo = {}
  BY DEF RunningOK, RequestsOK, Answered
<1>2. \A v \in Callers(step) : answer[v] # NoAnswer
  BY DEF RunningOK, RequestsOK, Answered
<1>3. \A v \in Callers(step) : v \in Visitors /\ AnswerOK(v)
  BY <1>1, <1>2, CallersVisit DEF Served, RunningOK, AnswersOK
<1>4. \A v \in Visitors : req[v] = NoRequest
  BY <1>2 DEF RunningOK, RequestsOK
<1> QED
  BY <1>1, <1>3, <1>4, RequestlessIdle

\* No visitor waits for any of the messages, whatever the step.
LEMMA QuietMessages ==
  ASSUME IInv, RunningOK, UNCHANGED vars, Grows,
         \A f : (Waiting(f)' <=> Waiting(f)) /\ (Added(f)' <=> Added(f)),
         \A v \in Visitors : parts[v] = NoParts /\ Idle(v, sent, replies)
  PROVE  MessagesOK' /\ TraceOK'
<1>1. /\ sent' = sent /\ replies' = replies /\ req' = req /\ parts' = parts
  BY DEF vars, web, wire
<1>2. /\ \A n \in Connections : \A m \in Range(sent[n]) : ~Asks(m)
      /\ \A n \in Connections : \A m \in Range(replies[n]) : ~Answers(m)
  BY DEF Idle, Busy, Asking, Answering, Asks, Answers
<1>3. OneMessage(sent', replies')
  BY <1>1 DEF RunningOK
<1>4. WayOK'
  <2>1. /\ sent["users"] \in Seq(Range(sent["users"]))
        /\ replies["users"] \in Seq(Range(replies["users"]))
    BY QueuesTyped, Kinds
  <2>2. SentWay(sent["users"])'
    <3> SUFFICES ASSUME NEW q, q = sent["users"], NEW x \in Items(q)
                 PROVE  UsersSentOK(x[1], x[2])' /\ ReadingSent(x[1], x[2])'
      BY <1>1 DEF SentWay
    <3> SUFFICES ASSUME NEW m, m = x[1], NEW A, A = x[2]
                 PROVE  UsersSentOK(m, A)' /\ ReadingSent(m, A)'
      OBVIOUS
    <3>1. m \in Range(q) /\ UsersSentOK(m, A)
      BY <2>1, ItemsRange DEF RunningOK, WayOK, SentWay
    <3>2. ~Asks(m)
      BY <1>2, <3>1, Kinds
    <3>3. m.do \in {"get", "hget", "lists", "hvals"} => m.c \notin Visitors
      BY <3>2 DEF Asks
    <3>4. UsersSentOK(m, A)'
      BY <3>1, <3>3 DEF UsersSentOK, SessionOK, LookupOK, ListsOK
    <3>5. ReadingSent(m, A)'
      BY <3>3, FellowsVisit DEF ReadingSent
    <3> QED
      BY <3>4, <3>5
  <2>3. ReplyWay(replies["users"])'
    <3> SUFFICES ASSUME NEW q, q = replies["users"], NEW x \in Items(q)
                 PROVE  UsersReplySafe(x[1])' /\ ReadingReply(x[1], x[2])'
      BY <1>1 DEF ReplyWay
    <3> SUFFICES ASSUME NEW m, m = x[1], NEW A, A = x[2]
                 PROVE  UsersReplySafe(m)' /\ ReadingReply(m, A)'
      OBVIOUS
    <3>1. m \in Range(q) /\ UsersReplySafe(m)
      BY <2>1, ItemsRange DEF RunningOK, WayOK, ReplyWay
    <3>2. ~Answers(m)
      BY <1>2, <3>1, Kinds
    <3>3. m.then \in {"session", "lists", "list"} \cup Lookups => m.c \notin Visitors
      BY <3>2 DEF Answers
    <3>4. UsersReplySafe(m)'
      BY <3>1, <3>3 DEF UsersReplySafe, SessionOK, LookupOK, ListsOK
    <3>5. ReadingReply(m, A)'
      BY <3>3, FellowsVisit DEF ReadingReply, Lookups
    <3> QED
      BY <3>4, <3>5
  <2> QED
    BY <2>2, <2>3 DEF WayOK
<1>5. PageOK'
  <2>1. \A m \in Range(sent["tweets"]) : PageSentOK(m)'
    BY <1>2, Kinds DEF PageSentOK, Asks
  <2>2. \A m \in Range(replies["tweets"]) : PageReplyOK(m)'
    BY <1>2, Kinds DEF PageReplyOK, Answers
  <2>3. \A v \in Visitors : PartsOK(v)'
    BY <1>1 DEF PartsOK
  <2> QED
    BY <1>1, <2>1, <2>2, <2>3 DEF PageOK
<1>6. ChallengeOK'
  <2>1. \A x \in Items(sent["crypto"]) : ChallengeSentOK(x[1], x[2])'
    <3>1. \A x \in Items(sent["crypto"]) : x[1] \in Range(sent["crypto"])
      BY QueuesTyped, ItemsRange, Kinds
    <3> QED
      BY <1>2, <3>1, Kinds DEF ChallengeSentOK, Asks
  <2>2. \A m \in Range(replies["crypto"]) : ChallengeReplyOK(m)'
    BY <1>2, Kinds DEF ChallengeReplyOK, Answers
  <2> QED
    BY <1>1, <2>1, <2>2 DEF ChallengeOK
<1>7. TraceOK'
  BY TraceStays DEF RunningOK, vars
<1> QED
  BY <1>3, <1>4, <1>5, <1>6, <1>7 DEF MessagesOK

\* Where the steps lead.
LEMMA StepsLead ==
  ASSUME NEW s \in DOMAIN NextStep, NEW n, n = NextStep[s], n # "end"
  PROVE  /\ n \in DOMAIN NextStep /\ n \notin {"signup", "join"}
         /\ n = "tweet" => s = "signup"
         /\ n = "own" => s = "tweet"
         /\ n = "fellows" => s = "own"
         /\ n = "ask" => s = "fellows"
         /\ n = "accept" => s = "ask"
         /\ n = "read" => s = "accept"
         /\ n = "signin" => s = "read"
         /\ n = "challenge" => s = "signin"
         /\ n = "get" => s = "challenge"
         /\ n = "users" => s = "join"
<1>1. s \in {"signup", "tweet", "own", "fellows", "ask", "accept", "read",
             "signin", "challenge", "get", "join", "users"}
  BY DEF NextStep
<1>2. /\ NextStep["signup"] = "tweet" /\ NextStep["tweet"] = "own"
      /\ NextStep["own"] = "fellows" /\ NextStep["fellows"] = "ask"
      /\ NextStep["ask"] = "accept" /\ NextStep["accept"] = "read"
      /\ NextStep["read"] = "signin" /\ NextStep["signin"] = "challenge"
      /\ NextStep["challenge"] = "get" /\ NextStep["get"] = "end"
      /\ NextStep["join"] = "users" /\ NextStep["users"] = "end"
  BY DEF NextStep
<1>3. {"tweet", "own", "fellows", "ask", "accept", "read", "signin", "challenge",
       "get", "users"} \subseteq DOMAIN NextStep
  BY DEF NextStep
<1> QED
  BY <1>1, <1>2, <1>3

LEMMA AdvanceLast ==
  ASSUME IInv, RunningOK, Wired, NEW c, Advance(c), back \cup {c} = Callers(step),
         NextStep[step] # "end"
  PROVE  RunningOK'
<1> SUFFICES ASSUME NEW s, s = step, NEW n, n = NextStep[s]
             PROVE  RunningOK'
  OBVIOUS
<1>1. /\ step' = n /\ todo' = Callers(step)' /\ back' = {} /\ UNCHANGED vars
      /\ printed' = (printed \/ s = "own") /\ Answered(c)
      /\ Satisfied(s, c, answer[c]) /\ c \in Callers(s)
  BY DEF Advance, Answered, Callers
<1>2. /\ todo = {} /\ \A v \in Callers(s) : v \in Visitors /\ AnswerOK(v)
      /\ \A v \in Visitors : /\ req[v] = NoRequest /\ parts[v] = NoParts
                             /\ Idle(v, sent, replies)
  BY <1>1, AllAnswered
<1>3. s \in DOMAIN NextStep /\ n # "end"
  BY DEF RunningOK, RequestsOK
<1>4. /\ req' = req /\ parts' = parts /\ answer' = answer
      /\ registered' = registered /\ sessions' = sessions
  BY <1>1 DEF vars, web, accounts
<1>5. \A u \in Visitors : Known(u) => Known(u)'
  <2>1. s \in {"signin", "challenge", "get"} => n \in {"signin", "challenge", "get"}
    BY <1>3 DEF NextStep
  <2> QED
    BY <1>1, <1>4, <2>1 DEF Known
<1>6. /\ Grows
      /\ \A f : (Waiting(f)' <=> Waiting(f)) /\ (Added(f)' <=> Added(f))
  BY <1>1, <1>5, UntouchedGrows
<1>7. MessagesOK' /\ TraceOK'
  BY <1>1, <1>2, <1>6, QuietMessages
<1>8. RequestsOK'
  <2>1. printed' => n \notin {"signup", "tweet", "own"}
    BY <1>1, <1>3, StepsLead DEF RunningOK, RequestsOK
  <2> QED
    BY <1>1, <1>2, <1>3, <1>4, <2>1, StepsLead DEF RunningOK, RequestsOK
<1>9. AnswersOK'
  BY <1>1 DEF AnswersOK, Served
<1>10. ProgressOK'
  <2>1. SignedUp(Owner)
    BY <1>2 DEF RunningOK, ProgressOK
  <2>2. n \in {"ask", "accept", "read", "signin", "challenge", "get"} =>
          \A f \in Fellows : SignedUp(f)
    BY <1>2, <1>3, StepsLead DEF RunningOK, ProgressOK
  <2>3. n \in {"fellows", "ask", "accept", "read", "signin", "challenge", "get"}
          => Shown(Owner)
    <3>1. s = "own" => Shown(Owner)
      BY <1>1, <1>2, CallersOf DEF AnswerOK, TweetsOK, Satisfied
    <3> QED
      BY <1>3, <3>1, StepsLead DEF RunningOK, ProgressOK
  <2>4. n \in {"accept", "read", "signin", "challenge", "get"} =>
          \A f \in Fellows : Asked(f)
    <3>1. s = "ask" => \A f \in Fellows : Asked(f)
      BY <1>2, CallersOf DEF AnswerOK
    <3> QED
      BY <1>3, <3>1, StepsLead DEF RunningOK, ProgressOK
  <2>5. n \in {"read", "signin", "challenge", "get"} =>
          \A f \in Fellows : Accepted(f)
    <3>1. s = "accept" => \A f \in Fellows : Accepted(f)
      BY <1>2, CallersOf DEF AnswerOK
    <3> QED
      BY <1>3, <3>1, StepsLead DEF RunningOK, ProgressOK
  <2>6. n \in {"challenge", "get"} => Challenged
    <3>1. s = "signin" => Challenged
      BY <1>2, CallersOf DEF AnswerOK
    <3> QED
      BY <1>3, <3>1, StepsLead DEF RunningOK, ProgressOK
  <2>7. n = "fellows" => \A f \in Fellows \ todo' : FALSE
    BY <1>1, CallersOf DEF Callers
  <2> QED
    BY <1>1, <1>6, <2>1, <2>2, <2>3, <2>4, <2>5, <2>6, <2>7, FellowsVisit
       DEF ProgressOK, Grows
<1> QED
  BY <1>7, <1>8, <1>9, <1>10 DEF MessagesOK, RunningOK

\* The checker gives up: only the owner's own page may not be as expected.
LEMMA FailVisit ==
  ASSUME RunningOK, NEW c, Fail(c)
  PROVE  step = "own" /\ ~printed
<1>1. /\ c \in Visitors /\ c \in Callers(step) /\ AnswerOK(c)
      /\ ~Satisfied(step, c, answer[c])
  BY AnsweredGood DEF Fail
<1>2. ASSUME NEW ts, TweetsOK(c, ts), Reader(c)
      PROVE  ts # <<>> /\ Head(ts) = Flag
  BY <1>2 DEF TweetsOK
<1>3. step # "read" /\ step # "get"
  BY <1>1, <1>2, CallersOf DEF AnswerOK, Satisfied, Reader
<1>4. step = "own"
  BY <1>1, <1>3 DEF AnswerOK, Satisfied
<1> QED
  BY <1>4 DEF RunningOK, RequestsOK

-----------------------------------------------------------------------------
(* The invariant of a visit                                                 *)

LEMMA EmptyQueues ==
  ASSUME Init
  PROVE  /\ \A n \in Connections : sent[n] = <<>> /\ replies[n] = <<>>
         /\ Items(<<>>) = {} /\ Range(<<>>) = {}
         /\ OneMessage(sent, replies) /\ WayOK /\ ChallengeOK /\ Wired
<1>1. \A n \in Connections : sent[n] = <<>> /\ replies[n] = <<>>
  BY DEF Init
<1>2. Items(<<>>) = {} /\ Range(<<>>) = {}
  BY DEF Items, Range
<1>3. OneMessage(sent, replies)
  BY <1>1, <1>2 DEF OneMessage, OneQuestion, OneAnswer, Busy, Asking, Answering,
                    Connections
<1>4. WayOK /\ ChallengeOK /\ Wired
  BY <1>1, <1>2, Kinds DEF WayOK, SentWay, ReplyWay, ChallengeOK, Wired
<1> QED
  BY <1>1, <1>2, <1>3, <1>4

LEMMA VisitInit == CInit => VisitIInv
<1> SUFFICES ASSUME CInit PROVE VisitIInv
  OBVIOUS
<1>1. /\ Init /\ mode \in Modes /\ step = FirstStep[mode] /\ todo = Callers(step)
      /\ back = {} /\ status = "running" /\ printed = FALSE /\ broken = 0
  BY DEF CInit
<1>2. mode = "none" => step = "idle" /\ todo = {}
  BY <1>1, CallersOf DEF FirstStep
<1>3. ASSUME mode # "none" PROVE RunningOK
  <2>1. step \in {"signup", "join"} /\ todo = {Owner}
    BY <1>1, <1>3, CallersOf DEF Modes, FirstStep
  <2>2. /\ req = [c \in Users |-> NoRequest] /\ parts = [c \in Users |-> NoParts]
        /\ answer = [c \in Users |-> NoAnswer]
        /\ followers = [u \in Users |-> {}] /\ feed = [u \in Users |-> <<>>]
        /\ granted = {} /\ author = [t \in Tweets |-> {}]
        /\ Visitors \subseteq Users
    BY <1>1, FellowsVisit DEF Init
  <2>3. asked = {}
    <3>1. \A u \in Users : pending[u] = Nobody
      BY <1>3 DEF CInit
    <3> QED
      BY <1>1, <3>1 DEF Init
  <2>4. PageOK
    BY <1>1, <2>2, EmptyQueues, Kinds DEF PageOK, PartsOK
  <2>5. TraceOK
    BY <2>2, <2>3 DEF TraceOK
  <2>6. RequestsOK
    <3>1. step \in DOMAIN NextStep
      BY <2>1 DEF NextStep
    <3> QED
      BY <1>1, <2>2, <3>1 DEF RequestsOK
  <2>7. AnswersOK
    BY <1>1 DEF AnswersOK, Served
  <2>8. ProgressOK
    BY <2>1 DEF ProgressOK
  <2> QED
    BY <1>1, <2>4, <2>5, <2>6, <2>7, <2>8, EmptyQueues DEF RunningOK
<1>4. OnlyOwnPageFails
  BY <1>1 DEF OnlyOwnPageFails
<1> QED
  BY <1>1, <1>2, <1>3, <1>4, EmptyQueues DEF VisitIInv

\* The checker and its process are as before.
CheckerRests == UNCHANGED <<mode, step, todo, back, status, printed, broken>>

LEMMA RestingInv ==
  ASSUME VisitIInv, CheckerRests, Wired', RunningOK => RunningOK'
  PROVE  VisitIInv'
BY DEF VisitIInv, CheckerRests, OnlyOwnPageFails

LEMMA VisitStep ==
  ASSUME IInv, VisitIInv, CNext
  PROVE  VisitIInv'
<1>1. Wired
  BY DEF VisitIInv
<1>2. CASE Service /\ UNCHANGED checker
  <2>1. CheckerRests /\ CheckerStays
    BY <1>2 DEF checker, CheckerRests, CheckerStays
  <2> QED
    BY <1>1, <1>2, <2>1, ServiceVisit, RestingInv
<1>3. CASE Players
  <2>1. PICK c \in Members, r \in Errands[mode] :
          r.cookie \in {c, Nobody} /\ Arrive(c, r)
    BY <1>3 DEF Players
  <2>2. CheckerRests /\ CheckerStays
    BY <1>3 DEF Players, CheckerRests, CheckerStays
  <2>3. Wired'
    BY <1>1, <2>1, ArriveWired
  <2> QED
    BY <2>1, <2>2, <2>3, PlayerVisit, RestingInv
<1>4. CASE SessionEnds
  <2>1. CheckerRests
    BY <1>4 DEF SessionEnds, checker, CheckerRests
  <2>2. Wired'
    BY <1>1, <1>4 DEF SessionEnds, Expire, wire, Wired
  <2> QED
    BY <1>4, <2>1, <2>2, SessionsVisit, RestingInv
<1>5. CASE Break
  <2>1. /\ broken \in Nat /\ broken' = broken + 1 /\ UNCHANGED vars
        /\ mode' = mode /\ status' = "FAIL" /\ mode # "none"
    BY <1>5, CallersOf DEF Break, VisitIInv
  <2>2. Wired'
    BY <1>1, <2>1 DEF vars, wire, Wired
  <2> QED
    BY <2>1, <2>2 DEF VisitIInv, OnlyOwnPageFails
<1>6. ASSUME NEW c \in {Owner} \cup Fellows, Call(c)
      PROVE  VisitIInv'
  <2>1. mode # "none" /\ status = "running" /\ RunningOK
    BY <1>6 DEF Call, VisitIInv
  <2>2. RunningOK'
    BY <1>1, <1>6, <2>1, CallVisit
  <2>3. Wired'
    BY <1>1, <1>6, ArriveWired DEF Call
  <2> QED
    BY <1>6, <2>1, <2>2, <2>3 DEF Call, VisitIInv, OnlyOwnPageFails
<1>7. ASSUME NEW c \in {Owner} \cup Fellows, Advance(c) \/ Fail(c)
      PROVE  VisitIInv'
  <2>1. mode # "none" /\ status = "running" /\ RunningOK
    BY <1>7, CallersOf DEF Advance, Fail, Answered, VisitIInv
  <2>2. UNCHANGED vars /\ mode' = mode /\ broken' = broken
    BY <1>7 DEF Advance, Fail
  <2>3. Wired' /\ broken' \in Nat
    BY <1>1, <2>2 DEF vars, wire, Wired, VisitIInv
  <2>4. CASE Advance(c) /\ back \cup {c} # Callers(step)
    <3>1. RunningOK'
      BY <2>1, <2>4, AdvanceStays
    <3>2. status' # "FAIL"
      BY <2>1, <2>4 DEF Advance
    <3> QED
      BY <2>1, <2>2, <2>3, <3>1, <3>2 DEF VisitIInv, OnlyOwnPageFails
  <2>5. CASE Advance(c) /\ back \cup {c} = Callers(step)
    <3>1. status' = IF NextStep[step] = "end" THEN "OK" ELSE status
      BY <2>5 DEF Advance
    <3>2. NextStep[step] # "end" => RunningOK'
      BY <1>1, <2>1, <2>5, AdvanceLast
    <3> QED
      BY <2>1, <2>2, <2>3, <3>1, <3>2 DEF VisitIInv, OnlyOwnPageFails
  <2>6. CASE Fail(c)
    <3>1. step = "own" /\ ~printed /\ step' = step /\ printed' = printed
          /\ status' = "FAIL"
      BY <2>1, <2>6, FailVisit DEF Fail
    <3> QED
      BY <2>1, <2>2, <2>3, <3>1 DEF VisitIInv, OnlyOwnPageFails
  <2> QED
    BY <1>7, <2>4, <2>5, <2>6
<1> QED
  BY <1>2, <1>3, <1>4, <1>5, <1>6, <1>7 DEF CNext, Checker

LEMMA VisitStutter ==
  ASSUME IInv, VisitIInv, UNCHANGED all
  PROVE  VisitIInv'
<1>1. CheckerRests /\ CheckerStays /\ UNCHANGED vars
  BY DEF all, checker, CheckerRests, CheckerStays
<1>2. Wired'
  BY <1>1 DEF VisitIInv, vars, wire, Wired
<1>3. ASSUME RunningOK PROVE RunningOK'
  <2>1. /\ UNCHANGED web /\ UNCHANGED <<web, wire, lists, history>>
        /\ req' = req /\ parts' = parts /\ answer' = answer
        /\ sessions' = sessions /\ registered' = registered
    BY <1>1 DEF vars, web, accounts
  <2>2. \A u : Known(u) => Known(u)'
    BY <1>1, <2>1 DEF Known, CheckerStays
  <2>3. Grows
    BY <1>1, <2>2, UntouchedGrows
  <2>4. MessagesOK' /\ TraceOK'
    BY <1>1, <1>3, <2>1, <2>3, Unmoved DEF CheckerStays
  <2>5. \A v \in Visitors : GoesOn(v)
    BY <2>1 DEF GoesOn
  <2>6. /\ parts' = [d \in Users |-> parts'[d]]
        /\ answer' = [d \in Users |-> answer'[d]]
    BY <1>3, <2>1 DEF RunningOK, RequestsOK
  <2> QED
    BY <1>1, <1>3, <2>3, <2>4, <2>5, <2>6, HandledRun
<1> QED
  BY <1>1, <1>2, <1>3, RestingInv

LEMMA VisitNext == IInv /\ VisitIInv /\ [CNext]_all => VisitIInv'
BY VisitStep, VisitStutter

\* What is known of a visit, while it runs and when it has ended.
THEOREM VisitInvariance == CSpec => []VisitIInv
<1>1. CInit => VisitIInv
  BY VisitInit
<1>2. IInv /\ VisitIInv /\ [CNext]_all => VisitIInv'
  BY VisitNext
<1> QED
  BY <1>1, <1>2, CheckedInvariance, PTL DEF CSpec

\* A visit to an intact service fails only where the owner's page was read too
\* early, or a connection broke.
THEOREM IntactServicePasses == CSpec => []OnlyOwnPageFails
<1>1. VisitIInv => OnlyOwnPageFails
  BY DEF VisitIInv
<1> QED
  BY <1>1, VisitInvariance, PTL
=============================================================================
