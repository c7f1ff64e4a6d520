----------------------------- MODULE SocialFeed -----------------------------
(***************************************************************************)
(* What the service nsaless promises its users, without requests, lookups  *)
(* or connections to the database: nobody follows a user without having    *)
(* asked and been accepted, a user's own list starts with tweets that user *)
(* posted, and a tweet is shown to anybody else only because someone they  *)
(* follow was shown it.  Nothing is ever taken back.                       *)
(***************************************************************************)
CONSTANTS Users, Tweets

VARIABLES asked, granted, author, follows, seen

feeds == <<asked, granted, author, follows, seen>>

Init ==
  /\ asked \subseteq Users \X Users
  /\ granted = {}
  /\ author = [t \in Tweets |-> {}]
  /\ follows = [u \in Users |-> {}]
  /\ seen = [u \in Users |-> {}]

Ask(f, u) ==
  /\ asked' = asked \cup {<<f, u>>}
  /\ UNCHANGED <<granted, author, follows, seen>>

Grant(u, f) ==
  /\ granted' = granted \cup {<<u, f>>}
  /\ UNCHANGED <<asked, author, follows, seen>>

Follow(u, f) ==
  /\ <<f, u>> \in asked
  /\ <<u, f>> \in granted
  /\ follows' = [follows EXCEPT ![u] = @ \cup {f}]
  /\ UNCHANGED <<asked, granted, author, seen>>

Post(u, t) ==
  /\ author' = [author EXCEPT ![t] = @ \cup {u}]
  /\ UNCHANGED <<asked, granted, follows, seen>>

Show(f, t) ==
  /\ seen' = [seen EXCEPT ![f] = @ \cup {t}]
  /\ UNCHANGED <<asked, granted, author, follows>>

Keep(u, t) == u \in author[t] /\ Show(u, t)

Share(u, f, t) == f \in follows[u] /\ t \in seen[u] /\ Show(f, t)

Next ==
  \/ \E u, f \in Users : Ask(f, u) \/ Grant(u, f) \/ Follow(u, f)
  \/ \E u \in Users, t \in Tweets : Post(u, t) \/ Keep(u, t)
  \/ \E u, f \in Users, t \in Tweets : Share(u, f, t)

Spec == Init /\ [][Next]_feeds
=============================================================================
