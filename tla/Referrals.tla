-------------------------------- MODULE Referrals --------------------------------
(***************************************************************************)
(* Invitations: the referral code an account gets when it first asks for   *)
(* one, the claim that records who invited an account, and the public      *)
(* leaderboard of those who opted in, with the answer the coordinator      *)
(* keeps for thirty seconds, and the copy a browser or a proxy may keep.   *)
(*                                                                         *)
(* The accounts exist already (Accounts).  A request reads the users table *)
(* in one statement and writes it in a later one; other requests of the    *)
(* same account, from another tab or a retry, come in between.  Time is    *)
(* ages in ticks, which grow together and stop where nothing tells them    *)
(* from older ones.                                                        *)
(***************************************************************************)
EXTENDS Integers, FiniteSets, Sequences

CONSTANTS
  Users,       \* accounts
  Joined,      \* the order in which they were created: users.created_at
  Codes,       \* the codes newReferralCode may draw
  Devices,
  Requests,    \* requests at work at a time
  None,
  Limits,      \* values of the leaderboard's limit
  MaxAttempts, \* codes drawn before ReferralCode gives up
  Ttl,         \* thirty seconds, in ticks
  MaxFill,     \* bound: ticks that building an answer takes
  MaxClaims,   \* bound: claims
  MaxFaults    \* bound: failed calls

ReferralAssumption ==
  /\ None \notin Users \cup Codes
  /\ Ttl \in Nat \ {0} /\ MaxFill \in Nat
  /\ MaxAttempts \in Nat /\ MaxClaims \in Nat /\ MaxFaults \in Nat

VARIABLES
  code,    \* users.referral_code, None for NULL
  by,      \* users.referred_by, None for ''
  listed,  \* leaderboard_opt_in with a display name
  gone,    \* for how long an account has been off the list
  owner,   \* provider_owners: the account of a device, None for no row
  cache,   \* leaderboardCache: its rows and the age of its stamp
  fill,    \* the request that builds an answer under leaderboardCache.mu: the rows it has
           \* read, and how long ago; None when the lock is free
  copy,    \* an answer kept on its way to the viewer, and for how long
  board,   \* the rows a viewer has just been shown
  req,     \* the requests at work
  told,    \* the codes an account was answered with
  applied, \* the referrers of the claims of an account that were answered "applied"
  claims, faults

table == <<code, by, listed, owner>>
boards == <<gone, cache, fill, copy, board>>
vars == <<table, boards, req, told, applied, claims, faults>>

\* How long after an opt-out the person may still be shown: while the answer is built,
\* then for less than thirty seconds from the coordinator, then as long from a copy.
ShownAtMost == MaxFill + (Ttl - 1) + (Ttl - 1)

Answers(age) == [rows : SUBSET Users, age : age]

Idle == [op |-> "idle"]

TypeOK ==
  /\ code \in [Users -> Codes \cup {None}]
  /\ by \in [Users -> Users \cup {None}]
  /\ listed \subseteq Users
  /\ owner \in [Devices -> Users \cup {None}]
  /\ gone \in [Users -> 0..ShownAtMost + 1]
  /\ cache \in Answers(0..Ttl) /\ copy \in Answers(0..Ttl)
  /\ fill \in Answers(0..MaxFill) \cup {None}
  /\ board \subseteq Users
  /\ req \in [Requests -> {Idle} \cup [op : {"look", "draw"}, user : Users, tries : Nat]
                             \cup [op : {"apply"}, user : Users, referrer : Users]]
  /\ told \in [Users -> SUBSET Codes]
  /\ applied \in [Users -> Seq(Users)]
  /\ claims \in Nat /\ faults \in Nat

Init ==
  /\ code = [u \in Users |-> None] /\ by = [u \in Users |-> None]
  /\ listed = {} /\ gone = [u \in Users |-> ShownAtMost + 1]
  /\ owner = [d \in Devices |-> None]
  /\ cache = [rows |-> {}, age |-> Ttl] /\ copy = [rows |-> {}, age |-> Ttl]
  /\ fill = None /\ board = {}
  /\ req = [r \in Requests |-> Idle]
  /\ told = [u \in Users |-> {}] /\ applied = [u \in Users |-> <<>>]
  /\ claims = 0 /\ faults = 0

Ends(r) == req' = [req EXCEPT ![r] = Idle]

----------------------------------------------------------------------------
(* Referral codes.                                                         *)

\* GET /v1/me/referral.
AskCode(r, u) ==
  /\ req[r] = Idle
  /\ req' = [req EXCEPT ![r] = [op |-> "look", user |-> u, tries |-> 0]]
  /\ UNCHANGED <<table, boards, told, applied, claims, faults>>

\* The account is answered with c.
Told(r, c) ==
  /\ told' = [told EXCEPT ![req[r].user] = @ \cup {c}]
  /\ Ends(r)

\* ReferralCode reads the row: it answers the code it finds, or goes on to
\* draw one.
LookForCode(r) ==
  /\ req[r].op = "look"
  /\ LET c == code[req[r].user]
     IN IF c # None THEN Told(r, c)
        ELSE req' = [req EXCEPT ![r].op = "draw"] /\ UNCHANGED told
  /\ UNCHANGED <<table, boards, applied, claims, faults>>

Taken(c) == \E u \in Users : code[u] = c

\* A code is drawn and stored if the row still has none.  It is answered if
\* this wrote it; if another request wrote one first, that one is read back;
\* a code that is taken fails on users_referral_code_idx and another is drawn,
\* five times.
DrawCode(r, c) ==
  /\ req[r].op = "draw"
  /\ LET u == req[r].user
     IN \/ /\ code[u] = None /\ ~Taken(c)
           /\ code' = [code EXCEPT ![u] = c]
           /\ Told(r, c)
        \/ /\ code[u] # None
           /\ Told(r, code[u])
           /\ UNCHANGED code
        \/ /\ code[u] = None /\ Taken(c)
           /\ IF req[r].tries + 1 = MaxAttempts THEN Ends(r)
              ELSE req' = [req EXCEPT ![r].tries = @ + 1]
           /\ UNCHANGED <<code, told>>
  /\ UNCHANGED <<by, listed, owner, boards, applied, claims, faults>>

----------------------------------------------------------------------------
(* Claims.                                                                 *)

\* POST /v1/me/referral/claim: who has the code?  An unknown code, and the
\* account's own, are answered "not applied".
Claim(r, u, c) ==
  /\ req[r] = Idle /\ claims < MaxClaims
  /\ claims' = claims + 1
  /\ \E referrer \in Users \ {u} :
       /\ code[referrer] = c
       /\ req' = [req EXCEPT ![r] = [op |-> "apply", user |-> u, referrer |-> referrer]]
  /\ UNCHANGED <<table, boards, told, applied, faults>>

\* Mutant: the UPDATE does not ask whether there is a referrer.
ApplyClaimAnyway(r) ==
  /\ req[r].op = "apply"
  /\ by' = [by EXCEPT ![req[r].user] = req[r].referrer]
  /\ applied' = [applied EXCEPT ![req[r].user] = Append(@, req[r].referrer)]
  /\ Ends(r)
  /\ UNCHANGED <<code, listed, owner, boards, told, claims, faults>>

\* The referrer is recorded if there is none yet; the answer says whether this
\* claim did it.
ApplyClaim(r) ==
  /\ req[r].op = "apply"
  /\ LET u == req[r].user
     IN IF by[u] = None
        THEN /\ by' = [by EXCEPT ![u] = req[r].referrer]
             /\ applied' = [applied EXCEPT ![u] = Append(@, req[r].referrer)]
        ELSE UNCHANGED <<by, applied>>
  /\ Ends(r)
  /\ UNCHANGED <<code, listed, owner, boards, told, claims, faults>>

\* After a failed UPDATE ReferralCode draws again, while attempts are left; every other
\* failure is answered as one.
Fails(r) ==
  /\ faults < MaxFaults
  /\ faults' = faults + 1
  /\ IF req[r].op = "draw" /\ req[r].tries + 1 < MaxAttempts
     THEN req' = [req EXCEPT ![r].tries = @ + 1]
     ELSE Ends(r)
  /\ UNCHANGED <<listed, owner, boards, told, applied, claims>>

\* A statement fails and has no effect.
CallFails(r) ==
  /\ req[r] # Idle
  /\ Fails(r)
  /\ UNCHANGED <<code, by>>

\* An UPDATE takes effect and its answer is lost.
CallLost(r) ==
  /\ LET u == req[r].user
     IN \/ /\ req[r].op = "draw" /\ code[u] = None
           /\ \E c \in Codes : ~Taken(c) /\ code' = [code EXCEPT ![u] = c]
           /\ UNCHANGED by
        \/ /\ req[r].op = "apply" /\ by[u] = None
           /\ by' = [by EXCEPT ![u] = req[r].referrer]
           /\ UNCHANGED code
  /\ Fails(r)

----------------------------------------------------------------------------
(* The leaderboard.                                                        *)

\* LinkProviderDevice, of which only the counts matter here.
Link(d, u) ==
  /\ owner[d] # u
  /\ owner' = [owner EXCEPT ![d] = u]
  /\ UNCHANGED <<code, by, listed, boards, req, told, applied, claims, faults>>

\* POST /v1/me/profile: opting in takes a display name.
SetProfile(u, optIn) ==
  /\ listed' = IF optIn THEN listed \cup {u} ELSE listed \ {u}
  /\ gone' = IF u \in listed' THEN [gone EXCEPT ![u] = 0] ELSE gone
  /\ UNCHANGED <<code, by, owner, cache, fill, copy, board, req, told, applied, claims, faults>>

Invited(u) == {v \in Users : by[v] = u}
DevicesOf(S) == {d \in Devices : owner[d] \in S}

\* ReferralStats: accounts invited, devices these linked.
ReferralStats(u) == <<Cardinality(Invited(u)), Cardinality(DevicesOf(Invited(u)))>>

\* ORDER BY ref_devices DESC, ref_users DESC, devices DESC, created_at.
Ahead(u, v) ==
  LET mine == ReferralStats(u)
      theirs == ReferralStats(v)
      devices == Cardinality(DevicesOf({u})) - Cardinality(DevicesOf({v}))
  IN \/ mine[2] > theirs[2]
     \/ mine[2] = theirs[2] /\ mine[1] > theirs[1]
     \/ mine = theirs /\ devices > 0
     \/ mine = theirs /\ devices = 0 /\ Joined[u] < Joined[v]

\* The first `limit' of those who are listed.
Leaderboard(limit) ==
  {u \in listed : Cardinality({v \in listed : Ahead(v, u)}) < limit}

\* A viewer is shown the rows, and their copy may be kept: Cache-Control: public,
\* max-age=30, whatever the age of the coordinator's own answer.
Answer(rows) ==
  /\ board' = rows
  /\ copy' \in {copy, [rows |-> rows, age |-> 0]}

\* Mutant: an answer that is asked for stays fresh.
KeptBoardRefreshed ==
  /\ fill = None /\ cache.age < Ttl
  /\ cache' = [cache EXCEPT !.age = 0]
  /\ Answer(cache.rows)
  /\ UNCHANGED <<table, gone, fill, req, told, applied, claims, faults>>

\* GET /v1/leaderboard: an answer under thirty seconds old is given again, whatever
\* limit is asked for.
KeptBoard ==
  /\ fill = None /\ cache.age < Ttl
  /\ Answer(cache.rows)
  /\ UNCHANGED <<table, gone, cache, fill, req, told, applied, claims, faults>>

\* Otherwise the rows are read, with the lock held.  (If that fails nothing changes.)
ReadBoard(limit) ==
  /\ fill = None /\ cache.age = Ttl
  /\ fill' = [rows |-> Leaderboard(limit), age |-> 0]
  /\ UNCHANGED <<table, gone, cache, copy, board, req, told, applied, claims, faults>>

\* The devices are counted, which takes its time; only then is the answer stamped.
StampBoard ==
  /\ fill # None
  /\ cache' = [rows |-> fill.rows, age |-> 0]
  /\ fill' = None
  /\ Answer(fill.rows)
  /\ UNCHANGED <<table, gone, req, told, applied, claims, faults>>

\* A viewer is shown the copy, without a request to the coordinator.
ShowCopy ==
  /\ copy.age < Ttl
  /\ board' = copy.rows
  /\ UNCHANGED <<table, gone, cache, fill, copy, req, told, applied, claims, faults>>

Older(age, cap) == IF age < cap THEN age + 1 ELSE cap

Tick ==
  /\ fill # None => fill.age < MaxFill
  /\ gone' = [u \in Users |-> IF u \in listed THEN 0 ELSE Older(gone[u], ShownAtMost + 1)]
  /\ cache' = [cache EXCEPT !.age = Older(@, Ttl)]
  /\ copy' = [copy EXCEPT !.age = Older(@, Ttl)]
  /\ fill' = IF fill = None THEN fill ELSE [fill EXCEPT !.age = @ + 1]
  /\ board' = {}
  /\ UNCHANGED <<table, req, told, applied, claims, faults>>

----------------------------------------------------------------------------
InviteStep ==
  \/ \E r \in Requests, u \in Users : AskCode(r, u)
  \/ \E r \in Requests, u \in Users, c \in Codes : Claim(r, u, c)
  \/ \E r \in Requests, c \in Codes : DrawCode(r, c)
  \/ \E r \in Requests : LookForCode(r) \/ ApplyClaim(r) \/ CallFails(r) \/ CallLost(r)

BoardStep ==
  \/ \E d \in Devices, u \in Users : Link(d, u)
  \/ \E u \in Users, optIn \in BOOLEAN : SetProfile(u, optIn)
  \/ \E limit \in Limits : ReadBoard(limit)
  \/ KeptBoard \/ StampBoard \/ ShowCopy \/ Tick

Next == InviteStep \/ BoardStep

Spec == Init /\ [][Next]_vars

----------------------------------------------------------------------------
(* Properties.                                                             *)

\* An invitation leads to the one who sent it: every code an account was ever
\* shown is its code still, and nobody else's, however many tabs asked first
\* (ReferralCode's conditional UPDATE and its read-back).
CodeAgrees ==
  \A u \in Users : \A c \in told[u] : code[u] = c /\ \A v \in Users \ {u} : code[v] # c

\* An account is claimed once: at most one of overlapping claims is told that it applied,
\* also when the answer of another one's UPDATE was lost, and the referrer it was told of
\* is the account's still (ClaimReferral's second WHERE).
ClaimedOnce ==
  \A u \in Users : applied[u] \in {<<>>, <<by[u]>>}

\* Nobody is shown who was off the leaderboard for longer than it takes to build an
\* answer and for two caches of thirty seconds, one behind the other, to forget it; and
\* who never opted in is shown to nobody (leaderboardCache, Cache-Control).
OptOutIsHonoured == \A u \in board : gone[u] <= ShownAtMost

\* Their inductive invariant: users_referral_code_idx keeps codes apart, and whoever is
\* in rows that may still be shown was listed when these were read.
CodesDiffer == \A u, v \in Users : code[u] = code[v] /\ code[u] # None => u = v
BoardInv ==
  /\ \A u \in listed : gone[u] = 0
  /\ fill # None => \A u \in fill.rows : gone[u] <= fill.age
  /\ cache.age < Ttl => \A u \in cache.rows : gone[u] <= MaxFill + cache.age
  /\ copy.age < Ttl => \A u \in copy.rows : gone[u] <= MaxFill + (Ttl - 1) + copy.age

ReferralInv ==
  TypeOK /\ CodeAgrees /\ ClaimedOnce /\ OptOutIsHonoured /\ CodesDiffer /\ BoardInv
=============================================================================
