--------------------------------- MODULE Members ---------------------------------
(***************************************************************************)
(* The members: signing in, credentials, pairing and devices (Accounts),   *)
(* and invitations and the leaderboard (Referrals).  Referrals is about    *)
(* columns of the users table that Accounts does not touch, of accounts    *)
(* that exist, and its board does not depend on codes that are asked for   *)
(* or claimed at the same time, except for the order of its rows; and      *)
(* codes that pair phones and devices that register meet only in the       *)
(* tokens, which the browser shows too.  So the initial state chooses      *)
(* what moves.                                                             *)
(***************************************************************************)
EXTENDS Accounts

CONSTANTS
  Joined, Limits, MaxAttempts, MaxClaims, Ttl, MaxFill,
  Parts,       \* what may move: "accounts" or its "pairing" or "linking", "referrals" or
               \* its "invites" or "board"
  Inviters,    \* the accounts, codes, devices and requests that Referrals follows
  InviteCodes,
  Laptops,
  Tabs

VARIABLES part, invite, by, listed, joined, gone, cache, fill, copy, board, asked, told,
          applied, claims, failures

R == INSTANCE Referrals
       WITH Users <- Inviters, Codes <- InviteCodes, Devices <- Laptops, Requests <- Tabs,
            code <- invite, owner <- joined, req <- asked, faults <- failures

ASSUME ReferralAssumed == R!ReferralAssumption

referrals == <<invite, by, listed, joined, gone, cache, fill, copy, board, asked, told,
               applied, claims, failures>>

MembersInit == part \in Parts /\ Init /\ R!Init

AccountsMove ==
  /\ \/ part \in {"pairing", "linking", "accounts"} /\ SigningIn
     \/ part \in {"pairing", "accounts"} /\ Pairing
     \/ part \in {"linking", "accounts"} /\ Linking
  /\ UNCHANGED <<part, referrals>>

ReferralsMove ==
  /\ \/ part \in {"invites", "referrals"} /\ R!InviteStep
     \/ part \in {"board", "referrals"} /\ R!BoardStep
  /\ UNCHANGED <<part, vars>>

MembersSpec == MembersInit /\ [][AccountsMove \/ ReferralsMove]_<<part, vars, referrals>>

\* An invitation leads to the one who sent it: every code an account was shown is its own
\* still, and of overlapping claims at most one is told that it applied, and truly so
\* (Referrals!CodeAgrees, Referrals!ClaimedOnce).
InvitationsAgree == R!CodeAgrees /\ R!ClaimedOnce

\* Who opts out is off the leaderboard when every cache on the way has forgotten it
\* (Referrals!OptOutIsHonoured).
OptOutIsHonoured == R!OptOutIsHonoured
================================================================================
