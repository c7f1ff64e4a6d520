----------------------------- MODULE MCNsaless -----------------------------
(***************************************************************************)
(* Instances of NsalessChecker for TLC.  The members a and b post, ask and *)
(* accept in any order, each with one message of its own.                  *)
(***************************************************************************)
EXTENDS NsalessChecker, TLC

CONSTANTS o, f1, f2, a, b, flag, t1

UsersValue == {o, f1, f2, a, b}
MembersValue == {a, b}
FellowsValue == {f1, f2}
TweetsValue == {flag, t1}

\* What the members may leave behind: tweets, requests, acceptances.
Plays ==
  {Request("tweet", a, a, flag), Request("tweet", b, b, t1),
   Request("tryfollow", a, b, flag), Request("follow", b, a, flag),
   Request("follow", a, b, flag)}

\* A user that does not exist yet, a page of somebody else.
Strangers == {Request("tryfollow", a, f1, flag), Request("home", a, f1, flag)}

\* Challenges of nobody, of somebody else, of oneself; requests without a user.
Anonymous ==
  {Request("checkpub", Nobody, f1, flag), Request("checkpub", Nobody, b, flag),
   Request("checkrandom", Nobody, b, flag),
   Request("tryfollow", Nobody, b, flag), Request("follow", Nobody, b, flag)}

\* The owner of the flag, beside its fellows.
Admirers == {Request("tryfollow", a, o, flag)}

ErrandsValue ==
  [none |-> Plays, put |-> Admirers, check |-> Strangers \cup Anonymous]
BesideValue == [none |-> 3, put |-> 1, check |-> 2]
=============================================================================
