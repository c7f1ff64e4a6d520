------------------------------ MODULE Nsaless ------------------------------
(***************************************************************************)
(* The service nsaless (src/services/nsaless): users post tweets, ask to   *)
(* follow each other and accept; a tweet is pushed onto the list of every  *)
(* follower, and a new follower gets a copy of the list so far.            *)
(*                                                                         *)
(* One Node process, whose callbacks run one at a time, talks to redis     *)
(* over three connections: users.js, tweets.js and crypto.js each open     *)
(* their own.  Commands of one connection are executed and answered in the *)
(* order they were sent; between two connections there is no order at all. *)
(* Most answers to the browser leave before redis has heard of anything.   *)
(*                                                                         *)
(* Abstractions.  A client is named by the user it signs up as (ids are    *)
(* random numbers of 64 bits), and its cookie by that user.  Messages are  *)
(* not empty.  Keys and encryption are left out: only the client c can     *)
(* answer the challenge of the user c.  Commands that one callback sends   *)
(* one after another on one connection are one command where no other      *)
(* connection touches what they touch (set, expire, hset of a signup; hset *)
(* and hdel of an acceptance; hkeys and hgetall of a page).                *)
(***************************************************************************)
EXTENDS Integers, Sequences, FiniteSets, Functions

CONSTANTS
  Users,      \* the users that may come to be
  Members,    \* those that signed up before
  Tweets,     \* the messages that may be posted
  Nobody      \* no user: no cookie, an unknown session, a null user

Paths == {"signup", "home", "users", "checkpub", "checkrandom", "tweet",
          "tryfollow", "follow"}

Request(route, cookie, id, t) ==
  [route |-> route, cookie |-> cookie, id |-> id, tweet |-> t]

Requests == [route : Paths, cookie : Users \cup {Nobody}, id : Users,
             tweet : Tweets]

ASSUME ConstantsAssumption ==
  /\ Members \subseteq Users
  /\ Nobody \notin Users

Connections == {"users", "tweets", "crypto"}

VARIABLES
  req,         \* [Users -> request]: what each client waits for
  parts,       \* [Users -> parts]: what each client's page has so far
  answer,      \* [Users -> page]: the last answer each client got
  sent,        \* [Connections -> Seq(command)]: not executed by redis yet
  replies,     \* [Connections -> Seq(reply)]: not seen by Node yet
  registered,  \* redis: the hash users
  sessions,    \* redis: users with a live session
  randoms,     \* redis: users with a challenge in the hash randoms
  pending,     \* redis: the hash pending, [follower -> whom it asked]
  followers,   \* redis: the hashes ..._followers
  feed,        \* redis: the lists ..._tweets, the newest first
  asked,       \* history: pairs <<f, u>>, f asked to follow u
  granted,     \* history: pairs <<u, f>>, u accepted f
  author,      \* history: [Tweets -> SUBSET Users], who posted each
  owed         \* history: pairs <<f, t>>, the service must show t to f

web == <<req, parts, answer>>
wire == <<sent, replies>>
accounts == <<registered, sessions, randoms>>
lists == <<pending, followers, feed>>
history == <<asked, granted, author, owed>>
vars == <<web, wire, accounts, lists, history>>

NoRequest == [route |-> "none"]
NoAnswer == [page |-> "none"]
NoParts == [got |-> {}, tweets |-> <<>>]

\* The graph of who asked whom is any that requests before could have left.
Init ==
  /\ req = [c \in Users |-> NoRequest]
  /\ parts = [c \in Users |-> NoParts]
  /\ answer = [c \in Users |-> NoAnswer]
  /\ sent = [n \in Connections |-> <<>>]
  /\ replies = [n \in Connections |-> <<>>]
  /\ registered = Members /\ sessions = Members /\ randoms = {}
  /\ pending \in {p \in [Users -> Members \cup {Nobody}] :
                    \A f \in Users \ Members : p[f] = Nobody}
  /\ followers = [u \in Users |-> {}]
  /\ feed = [u \in Users |-> <<>>]
  /\ asked = {<<f, pending[f]>> : f \in {g \in Users : pending[g] # Nobody}}
  /\ granted = {} /\ owed = {}
  /\ author = [t \in Tweets |-> {}]

-----------------------------------------------------------------------------
(* What a callback does: send a command, leave the request open, answer it *)

Send(n, m) == sent' = [sent EXCEPT ![n] = Append(@, m)]

Wait(c, r) ==
  /\ req' = [req EXCEPT ![c] = r]
  /\ answer' = [answer EXCEPT ![c] = NoAnswer]
  /\ UNCHANGED parts

Respond(c, a) ==
  /\ req' = [req EXCEPT ![c] = NoRequest]
  /\ parts' = [parts EXCEPT ![c] = NoParts]
  /\ answer' = [answer EXCEPT ![c] = a]

Page(p) == [page |-> p]

\* users.getUserFromId for the request of the user "me", with the callback
\* "then".
GetUserFromId(c, me, u, then) ==
  Send("users", [do |-> "hget", c |-> c, me |-> me, u |-> u, then |-> then])

-----------------------------------------------------------------------------
(* The handlers of routes/index.js, for the request r of the client c whose *)
(* cookie belongs to u                                                      *)

Signup(c, r) ==
  /\ r.route = "signup"
  /\ Send("users", [do |-> "save", u |-> c])
  /\ Respond(c, Page("signup"))
  /\ UNCHANGED history

\* Mutant: the page's user is not looked up before its tweets.
HomeAtOnce(c, r) ==
  /\ r.route = "home"
  /\ sent' = [sent EXCEPT
       !["users"] = Append(@, [do |-> "lists", c |-> c]),
       !["tweets"] = Append(@, [do |-> "lrange", c |-> c, u |-> r.id])]
  /\ Wait(c, r)
  /\ UNCHANGED history

Home(c, r) ==
  /\ r.route = "home"
  /\ GetUserFromId(c, r.cookie, r.id, "page")
  /\ Wait(c, r)
  /\ UNCHANGED history

UsersPage(c, r) ==
  /\ r.route = "users"
  /\ Send("users", [do |-> "hvals", c |-> c])
  /\ Wait(c, r)
  /\ UNCHANGED history

CheckPub(c, r) ==
  /\ r.route = "checkpub"
  /\ GetUserFromId(c, r.cookie, r.id, "challenge")
  /\ Wait(c, r)
  /\ UNCHANGED history

CheckRandom(c, r) ==
  /\ r.route = "checkrandom"
  /\ Send("crypto", [do |-> "hget random", c |-> c, u |-> r.id])
  /\ Wait(c, r)
  /\ UNCHANGED history

Tweet(c, r, u) ==
  /\ r.route = "tweet" /\ u # Nobody
  /\ Send("tweets", [do |-> "hkeys", u |-> u, t |-> r.tweet])
  /\ Respond(c, Page("home"))
  /\ author' = [author EXCEPT ![r.tweet] = @ \cup {u}]
  /\ owed' = owed \cup {<<f, r.tweet>> : f \in followers[u] \cup {u}}
  /\ UNCHANGED <<asked, granted>>

TryFollow(c, r, u) ==
  /\ r.route = "tryfollow" /\ u # Nobody
  /\ GetUserFromId(c, u, r.id, "target")
  /\ Wait(c, r)
  /\ UNCHANGED history

\* Without a user the handler does nothing: no answer ever comes.
TryFollowUnknown(c, r, u) ==
  /\ r.route = "tryfollow" /\ u = Nobody
  /\ Wait(c, r)
  /\ UNCHANGED <<sent, history>>

Follow(c, r, u) ==
  /\ r.route = "follow" /\ u # Nobody
  /\ Send("users", [do |-> "hget pending", u |-> u, f |-> r.id])
  /\ Respond(c, Page("home"))
  /\ granted' = granted \cup {<<u, r.id>>}
  /\ UNCHANGED <<asked, author, owed>>

\* tweet and follow of a client without a session.
ToSignin(c, r, u) ==
  /\ r.route \in {"tweet", "follow"} /\ u = Nobody
  /\ Respond(c, Page("signin"))
  /\ UNCHANGED <<sent, history>>

Route(c, r, u) ==
  \/ Signup(c, r) \/ Home(c, r) \/ UsersPage(c, r)
  \/ CheckPub(c, r) \/ CheckRandom(c, r)
  \/ Tweet(c, r, u) \/ TryFollow(c, r, u) \/ TryFollowUnknown(c, r, u)
  \/ Follow(c, r, u) \/ ToSignin(c, r, u)

\* routes.getUser runs before every route: without a cookie the handler is
\* called at once, with one its session is looked up first.
Arrive(c, r) ==
  /\ req[c] = NoRequest
  /\ \/ /\ r.cookie = Nobody
        /\ Route(c, r, Nobody)
     \/ /\ r.cookie # Nobody
        /\ Send("users", [do |-> "get", c |-> c, u |-> r.cookie])
        /\ Wait(c, r)
        /\ UNCHANGED history
  /\ UNCHANGED <<replies, accounts, lists>>

-----------------------------------------------------------------------------
(* Callbacks of redis                                                       *)

\* The next reply of the connection n is for the callback "then".
Reply(n) == Head(replies[n])

Takes(n, then) ==
  /\ replies[n] # <<>>
  /\ Reply(n).then = then
  /\ replies' = [replies EXCEPT ![n] = Tail(@)]
  /\ UNCHANGED <<accounts, lists>>

GotSession ==
  /\ Takes("users", "session")
  /\ LET c == Reply("users").c
         u == Reply("users").u
     IN  \/ /\ Reply("users").found
            /\ GetUserFromId(c, u, u, "user")
            /\ UNCHANGED <<web, history>>
         \/ /\ ~Reply("users").found
            /\ Route(c, req[c], Nobody)

GotUser ==
  /\ Takes("users", "user")
  /\ LET m == Reply("users")
     IN  Route(m.c, req[m.c], IF m.found THEN m.u ELSE Nobody)

\* home: the three parts of the page are asked for together (async.parallel).
GotPageUser ==
  /\ Takes("users", "page")
  /\ LET m == Reply("users")
         askLists == Append(sent["users"], [do |-> "lists", c |-> m.c])
     IN  \/ /\ m.found
            /\ sent' = [sent EXCEPT !["users"] = askLists,
                         !["tweets"] = Append(@, [do |-> "lrange", c |-> m.c,
                                                  u |-> m.u])]
            /\ UNCHANGED <<web, history>>
         \/ /\ ~m.found
            /\ sent' = [sent EXCEPT !["users"] = askLists]
            /\ parts' = [parts EXCEPT ![m.c].got = {"tweets"}]
            /\ UNCHANGED <<req, answer, history>>

\* Mutant: a part that comes forgets the ones before it.
GotLastPart(c, part, ts) ==
  /\ parts' = [parts EXCEPT ![c] = [got |-> {part}, tweets |-> ts]]
  /\ UNCHANGED <<req, answer>>
  /\ UNCHANGED <<sent, history>>

\* One more part of the page is there; the last one renders it.
GotPart(c, part, ts) ==
  /\ \/ /\ parts[c].got \cup {part} = {"tweets", "lists"}
        /\ Respond(c, [page |-> "home", tweets |-> ts])
     \/ /\ parts[c].got = {}
        /\ parts' = [parts EXCEPT ![c] = [got |-> {part}, tweets |-> ts]]
        /\ UNCHANGED <<req, answer>>
  /\ UNCHANGED <<sent, history>>

GotTweets ==
  /\ Takes("tweets", "feed")
  /\ GotPart(Reply("tweets").c, "tweets", Reply("tweets").ts)

GotLists ==
  /\ Takes("users", "lists")
  /\ LET c == Reply("users").c IN GotPart(c, "lists", parts[c].tweets)

GotUsers ==
  /\ Takes("users", "list")
  /\ Respond(Reply("users").c,
             [page |-> "users", users |-> Reply("users").users])
  /\ UNCHANGED <<sent, history>>

GotTarget ==
  /\ Takes("users", "target")
  /\ LET m == Reply("users")
         f == m.me
     IN  \/ /\ m.found
            /\ Send("users", [do |-> "hset pending", u |-> m.u, f |-> f])
            /\ Respond(m.c, Page("home"))
            /\ asked' = asked \cup {<<f, m.u>>}
            /\ UNCHANGED <<granted, author, owed>>
         \/ /\ ~m.found
            /\ Respond(m.c, Page("signin"))
            /\ UNCHANGED <<sent, history>>

\* addFollower: what is in the author's list now is due to the new follower.
GotPending ==
  /\ Takes("users", "accept")
  /\ LET u == Reply("users").u
         f == Reply("users").f
     IN  \/ /\ Reply("users").match
            /\ sent' = [sent EXCEPT !["users"] =
                          Append(Append(@, [do |-> "add", u |-> u, f |-> f]),
                                 [do |-> "lrange own", u |-> u, f |-> f])]
            /\ owed' = owed \cup {<<f, t>> : t \in Range(feed[u])}
         \/ /\ ~Reply("users").match
            /\ UNCHANGED <<sent, owed>>
  /\ UNCHANGED <<web, asked, granted, author>>

\* Mutant: the loop over the list ends one tweet early.
GotOwnTweetsButOne ==
  /\ Takes("users", "copy")
  /\ LET m == Reply("users")
     IN  IF Len(m.ts) <= 1 THEN UNCHANGED sent
         ELSE Send("users", [do |-> "copies", u |-> m.u, f |-> m.f,
                             ts |-> SubSeq(m.ts, 1, Len(m.ts) - 1)])
  /\ UNCHANGED <<web, history>>

GotOwnTweets ==
  /\ Takes("users", "copy")
  /\ LET m == Reply("users")
     IN  IF m.ts = <<>> THEN UNCHANGED sent
         ELSE Send("users", [do |-> "copies", u |-> m.u, f |-> m.f,
                             ts |-> m.ts])
  /\ UNCHANGED <<web, history>>

\* saveTweet: the author's own list first, then the followers'.
GotFollowers ==
  /\ Takes("tweets", "deliver")
  /\ LET m == Reply("tweets")
         own == Append(sent["tweets"], [do |-> "own", u |-> m.u, t |-> m.t])
     IN  sent' = [sent EXCEPT !["tweets"] =
                    IF m.to = {} THEN own
                    ELSE Append(own, [do |-> "push", u |-> m.u, t |-> m.t,
                                      to |-> m.to])]
  /\ UNCHANGED <<web, history>>

GotChallenged ==
  /\ Takes("users", "challenge")
  /\ LET m == Reply("users")
     IN  \/ /\ m.found
            /\ Send("crypto", [do |-> "hset random", u |-> m.u])
            /\ Respond(m.c, Page("checkpub"))
         \/ /\ ~m.found
            /\ Respond(m.c, Page("signin"))
            /\ UNCHANGED sent
  /\ UNCHANGED history

\* getIdByRandom calls nobody back when there is no such challenge.
GotRandom ==
  /\ Takes("crypto", "random")
  /\ LET m == Reply("crypto")
     IN  \/ /\ m.found /\ m.c = m.u
            /\ GetUserFromId(m.c, Nobody, m.u, "login")
            /\ UNCHANGED web
         \/ /\ m.found /\ m.c # m.u
            /\ Respond(m.c, Page("signin"))
            /\ UNCHANGED sent
         \/ /\ ~m.found
            /\ UNCHANGED <<web, sent>>
  /\ UNCHANGED history

GotLogin ==
  /\ Takes("users", "login")
  /\ Send("users", [do |-> "open", u |-> Reply("users").u])
  /\ Respond(Reply("users").c, Page("home"))
  /\ UNCHANGED history

UsersCallback ==
  \/ GotSession \/ GotUser \/ GotPageUser \/ GotLists \/ GotUsers
  \/ GotTarget \/ GotPending \/ GotOwnTweets \/ GotChallenged \/ GotLogin

TweetsCallback == GotFollowers \/ GotTweets

CryptoCallback == GotRandom

-----------------------------------------------------------------------------
(* redis: one command at a time, of any connection                          *)

Command(n) == Head(sent[n])

Executes(n, do) ==
  /\ sent[n] # <<>>
  /\ Command(n).do = do
  /\ UNCHANGED <<web, history>>

Pop(n) == sent' = [sent EXCEPT ![n] = Tail(@)]

\* The command is done and Node will be told r.
Done(n, r) ==
  /\ Pop(n)
  /\ replies' = [replies EXCEPT ![n] = Append(@, r)]
  /\ UNCHANGED <<accounts, lists>>

Get ==
  /\ Executes("users", "get")
  /\ LET m == Command("users")
     IN  Done("users", [then |-> "session", c |-> m.c, u |-> m.u,
                        found |-> m.u \in sessions])

HGet ==
  /\ Executes("users", "hget")
  /\ LET m == Command("users")
     IN  Done("users", [then |-> m.then, c |-> m.c, me |-> m.me, u |-> m.u,
                        found |-> m.u \in registered])

Lists ==
  /\ Executes("users", "lists")
  /\ Done("users", [then |-> "lists", c |-> Command("users").c])

HVals ==
  /\ Executes("users", "hvals")
  /\ Done("users", [then |-> "list", c |-> Command("users").c,
                    users |-> registered])

\* createSession and saveUser of a signup, createSession of a signin.
Save ==
  /\ sent["users"] # <<>>
  /\ Command("users").do \in {"save", "open"}
  /\ sessions' = sessions \cup {Command("users").u}
  /\ registered' = IF Command("users").do = "save"
                     THEN registered \cup {Command("users").u} ELSE registered
  /\ Pop("users")
  /\ UNCHANGED <<web, replies, randoms, lists, history>>

HSetPending ==
  /\ Executes("users", "hset pending")
  /\ pending' = [pending EXCEPT ![Command("users").f] = Command("users").u]
  /\ Pop("users")
  /\ UNCHANGED <<replies, accounts, followers, feed>>

\* Mutant: nobody looks whether f has asked.
HGetAnyPending ==
  /\ Executes("users", "hget pending")
  /\ LET m == Command("users")
     IN  Done("users", [then |-> "accept", u |-> m.u, f |-> m.f,
                        match |-> TRUE])

HGetPending ==
  /\ Executes("users", "hget pending")
  /\ LET m == Command("users")
     IN  Done("users", [then |-> "accept", u |-> m.u, f |-> m.f,
                        match |-> pending[m.f] = m.u])

Add ==
  /\ Executes("users", "add")
  /\ LET m == Command("users")
     IN  /\ followers' = [followers EXCEPT ![m.u] = @ \cup {m.f}]
         /\ pending' = [pending EXCEPT ![m.f] = Nobody]
  /\ Pop("users")
  /\ UNCHANGED <<replies, accounts, feed>>

LRangeOwn ==
  /\ Executes("users", "lrange own")
  /\ LET m == Command("users")
     IN  Done("users", [then |-> "copy", u |-> m.u, f |-> m.f,
                        ts |-> feed[m.u]])

LPush(f, t) == feed' = [feed EXCEPT ![f] = <<t>> \o @]

\* One of the tweets copied to a new follower; the rest stays in the queue.
LPushCopy ==
  /\ Executes("users", "copies")
  /\ LET m == Command("users")
     IN  /\ LPush(m.f, Head(m.ts))
         /\ IF Len(m.ts) = 1 THEN Pop("users")
            ELSE sent' = [sent EXCEPT !["users"] =
                            <<[do |-> "copies", u |-> m.u, f |-> m.f,
                               ts |-> Tail(m.ts)]>> \o Tail(@)]
  /\ UNCHANGED <<replies, accounts, pending, followers>>

HKeys ==
  /\ Executes("tweets", "hkeys")
  /\ LET m == Command("tweets")
     IN  Done("tweets", [then |-> "deliver", u |-> m.u, t |-> m.t,
                         to |-> followers[m.u]])

LPushOwn ==
  /\ Executes("tweets", "own")
  /\ LPush(Command("tweets").u, Command("tweets").t)
  /\ Pop("tweets")
  /\ UNCHANGED <<replies, accounts, pending, followers>>

\* One of the followers of a new tweet; the rest stays in the queue.
LPushFollower ==
  /\ Executes("tweets", "push")
  /\ LET m == Command("tweets")
     IN  \E f \in m.to :
           /\ LPush(f, m.t)
           /\ IF m.to = {f} THEN Pop("tweets")
              ELSE sent' = [sent EXCEPT !["tweets"] =
                              <<[do |-> "push", u |-> m.u, t |-> m.t,
                                 to |-> m.to \ {f}]>> \o Tail(@)]
  /\ UNCHANGED <<replies, accounts, pending, followers>>

LRange ==
  /\ Executes("tweets", "lrange")
  /\ LET m == Command("tweets")
     IN  Done("tweets", [then |-> "feed", c |-> m.c, ts |-> feed[m.u]])

HSetRandom ==
  /\ Executes("crypto", "hset random")
  /\ randoms' = randoms \cup {Command("crypto").u}
  /\ Pop("crypto")
  /\ UNCHANGED <<replies, registered, sessions, lists>>

HGetRandom ==
  /\ Executes("crypto", "hget random")
  /\ LET m == Command("crypto")
     IN  Done("crypto", [then |-> "random", c |-> m.c, u |-> m.u,
                         found |-> m.u \in randoms])

UsersCommand ==
  \/ Get \/ HGet \/ Lists \/ HVals \/ Save \/ HSetPending \/ HGetPending
  \/ Add \/ LRangeOwn \/ LPushCopy

TweetsCommand == HKeys \/ LPushOwn \/ LPushFollower \/ LRange

CryptoCommand == HSetRandom \/ HGetRandom

\* A session lives for 5 minutes.
Expire(u) ==
  /\ u \in sessions
  /\ sessions' = sessions \ {u}
  /\ UNCHANGED <<web, wire, registered, randoms, lists, history>>

-----------------------------------------------------------------------------
Service ==
  \/ UsersCallback \/ TweetsCallback \/ CryptoCallback
  \/ UsersCommand \/ TweetsCommand \/ CryptoCommand

\* Each socket that has something is read in the end, by redis and by Node.
ServiceFairness ==
  /\ WF_vars(UsersCallback) /\ WF_vars(TweetsCallback) /\ WF_vars(CryptoCallback)
  /\ WF_vars(UsersCommand) /\ WF_vars(TweetsCommand) /\ WF_vars(CryptoCommand)

Next ==
  \/ Service
  \/ \E c \in Users, r \in Requests : Arrive(c, r)
  \/ \E u \in Users : Expire(u)

Spec == Init /\ [][Next]_vars

-----------------------------------------------------------------------------
(* Properties                                                               *)

\* One sequence per connection.
Queues(f) ==
  /\ f = [n \in Connections |-> f[n]]
  /\ \A n \in Connections : f[n] \in Seq(Range(f[n]))

Tables ==
  /\ req \in [Users -> Requests \cup {NoRequest}]
  /\ registered \subseteq Users /\ sessions \subseteq Users
  /\ randoms \subseteq Users
  /\ pending \in [Users -> Users \cup {Nobody}]
  /\ followers \in [Users -> SUBSET Users]
  /\ feed \in [Users -> Seq(Tweets)]
  /\ author \in [Tweets -> SUBSET Users]
  /\ asked \subseteq Users \X Users
  /\ granted \subseteq Users \X Users
  /\ owed \subseteq Users \X Tweets

\* Types of what redis keeps and of the requests; the inductive invariant
\* IInv adds what each queued command and reply stands for.
TypeOK == Tables /\ Queues(sent) /\ Queues(replies)

\* What getUserFromId may be called for.
Lookups == {"user", "page", "target", "challenge", "login"}

\* What a command of users.js stands for, number i of the queue q: a request
\* that was made, an acceptance of it, a copy that comes after its acceptance.
\* fol, fee, ask and gra are followers, feed, asked and granted.
UsersCommandOK(q, i, fol, fee, ask, gra) ==
  LET m == q[i]
  IN  /\ m.do = "get" => m.c \in Users /\ m.u \in Users
      /\ m.do = "hget" =>
           m.then \in Lookups /\ m.c \in Users /\ m.u \in Users
      /\ m.do = "hget" /\ m.then = "target" => m.me \in Users
      /\ m.do \in {"save", "open"} => m.u \in Users
      /\ m.do \in {"hset pending", "add"} => <<m.f, m.u>> \in ask
      /\ m.do \in {"hget pending", "add"} => <<m.u, m.f>> \in gra
      /\ m.do \in {"lrange own", "copies"} => m.u \in Users /\ m.f \in Users
      /\ m.do = "lrange own" =>
           \/ m.f \in fol[m.u]
           \/ \E j \in 1 .. i - 1 :
                q[j].do = "add" /\ q[j].u = m.u /\ q[j].f = m.f
      /\ m.do = "copies" =>
           /\ m.ts \in Seq(Tweets) \ {<<>>}
           /\ m.f \in fol[m.u] /\ Range(m.ts) \subseteq Range(fee[m.u])

UsersReplyOK(m, fol, fee, ask, gra) ==
  /\ m.then = "session" => m.c \in Users /\ m.u \in Users
  /\ m.then \in Lookups => m.c \in Users /\ m.u \in Users
  /\ m.then = "target" => m.me \in Users
  /\ m.then = "accept" => /\ <<m.u, m.f>> \in gra
                          /\ m.match => <<m.f, m.u>> \in ask
  /\ m.then = "copy" => /\ m.u \in Users /\ m.f \in fol[m.u]
                        /\ m.ts \in Seq(Tweets)
                        /\ Range(m.ts) \subseteq Range(fee[m.u])

TweetsCommandOK(q, i, fol, fee, aut) ==
  LET m == q[i]
  IN  /\ m.do \in {"hkeys", "own", "push"} => m.u \in Users /\ m.t \in Tweets
      /\ m.do \in {"hkeys", "own"} => m.u \in aut[m.t]
      /\ m.do = "push" =>
           /\ m.to \subseteq fol[m.u]
           /\ \/ m.t \in Range(fee[m.u])
              \/ \E j \in 1 .. i - 1 :
                   q[j].do = "own" /\ q[j].u = m.u /\ q[j].t = m.t

TweetsReplyOK(m, fol, aut) ==
  m.then = "deliver" =>
    /\ m.u \in Users /\ m.t \in Tweets
    /\ m.u \in aut[m.t] /\ m.to \subseteq fol[m.u]

CryptoCommandOK(m) ==
  m.u \in Users /\ (m.do = "hget random" => m.c \in Users)

CryptoReplyOK(m) == m.u \in Users /\ m.c \in Users

UsersQueueOK(q, fol, fee, ask, gra) ==
  \A i \in 1 .. Len(q) : UsersCommandOK(q, i, fol, fee, ask, gra)

TweetsQueueOK(q, fol, fee, aut) ==
  \A i \in 1 .. Len(q) : TweetsCommandOK(q, i, fol, fee, aut)

SentOK ==
  /\ UsersQueueOK(sent["users"], followers, feed, asked, granted)
  /\ TweetsQueueOK(sent["tweets"], followers, feed, author)
  /\ \A i \in 1 .. Len(sent["crypto"]) : CryptoCommandOK(sent["crypto"][i])

RepliesOK ==
  /\ \A i \in 1 .. Len(replies["users"]) :
       UsersReplyOK(replies["users"][i], followers, feed, asked, granted)
  /\ \A i \in 1 .. Len(replies["tweets"]) :
       TweetsReplyOK(replies["tweets"][i], followers, author)
  /\ \A i \in 1 .. Len(replies["crypto"]) :
       CryptoReplyOK(replies["crypto"][i])

PendingOK ==
  \A f \in Users : pending[f] # Nobody => <<f, pending[f]>> \in asked

IInv == TypeOK /\ PendingOK /\ SentOK /\ RepliesOK

\* The service keeps the promises of SocialFeed: whatever the order of the
\* lookups and pushes of its three connections, only somebody who asked and
\* was accepted becomes a follower (addFollower), and a tweet gets onto a list
\* only from its author or from the list of somebody followed.
FeedRefined == INSTANCE SocialFeed WITH
  follows <- followers, seen <- [u \in Users |-> Range(feed[u])]
FeedSpec == FeedRefined!Spec

\* A tweet reaches everybody who follows its author when it is posted, and a
\* new follower gets what the author's list holds at the acceptance (saveTweet,
\* addFollower): none is lost between the lookups and the pushes.
Delivered == <>[](\A due \in owed : due[2] \in Range(feed[due[1]]))
=============================================================================
