--------------------------------- MODULE Accounts --------------------------------
(***************************************************************************)
(* Accounts: signing in through an OAuth provider, the credentials an      *)
(* account gets with its first sign-in, sessions, the six-character codes  *)
(* that pair a phone, and the devices that register with an account's      *)
(* token.                                                                  *)
(*                                                                         *)
(* A request is a handler at work.  Its calls to the database are its      *)
(* steps, and those of other requests come in between: what a step found   *)
(* may be out of date when the next one writes.  The database itself is    *)
(* atomic per statement and keeps its unique indexes; a call that fails is *)
(* a fault.  The random ids (keys, tokens) are numbers never used before.  *)
(***************************************************************************)
EXTENDS Integers, FiniteSets, Sequences

CONSTANTS
  Logins,     \* identities at a provider: a provider and its id for the user
  ProviderOf, \* "github" or "google"
  Profile,    \* the addresses its profile shows over time, as spelled, or None
  Primary,    \* the verified primary address of a GitHub login, or None
  Lower,      \* SQL's lower(): the address a spelling stands for
  Users,      \* ids of accounts
  Browsers, Phones, Devices,
  Codes,      \* pairing codes, as NormalizePairCode leaves them
  Requests,   \* requests at work at a time
  None,
  MaxSignIns, \* bound: callbacks that reach upsertUser
  MaxCodes,   \* bound: codes created
  MaxLinks,   \* bound: registrations
  MaxFaults   \* bound: failed calls

ASSUME AccountsAssumption ==
  /\ None \notin Logins \cup Users \cup Browsers \cup Phones \cup Devices \cup Codes
  /\ None \notin DOMAIN Lower
  /\ \A l \in Logins : /\ ProviderOf[l] \in {"github", "google"}
                       /\ Profile[l] \subseteq DOMAIN Lower \cup {None}
                       /\ Primary[l] \in DOMAIN Lower \cup {None}
  /\ {MaxSignIns, MaxCodes, MaxLinks, MaxFaults} \subseteq Nat

VARIABLES
  mail,       \* table users: the address of an account, None without a row
  ident,      \* table oauth_identities: the account of a login
  key,        \* table user_api_keys: the account's key, 0 without a row
  token,      \* table user_provider_tokens: its token, 0 without a row
  code,       \* table pairing_codes; history: a row is the issue-th that was created
  owner,      \* table provider_owners: the account of a device
  firstSeen,  \* its devices in the order of first_seen
  started,    \* browsers that hold the state cookie of a sign-in
  session,    \* the account of a browser's session cookie
  phone,      \* the token a phone was given and whose it is; history: by which issue of a
              \* code, and the age at which that was spent
  req,        \* the requests at work
  fresh,      \* ids drawn so far
  count       \* the bounded events so far

tables == <<mail, ident, key, token, code, owner, firstSeen>>
vars == <<tables, started, session, phone, req, fresh, count>>

Mails == DOMAIN Lower
Idle == [op |-> "idle"]

\* A callback.  clean: none of its calls has failed.
SignIns == [op : {"look", "commit", "key", "mint", "link", "token", "session"},
            browser : Browsers, login : Logins, mail : Mails,
            user : Users \cup {None}, new : Nat, clean : BOOLEAN]

\* A phone that waits for the answer to a code, and what is known of that code.
Redeems == [op : {"redeem"}, phone : Phones, user : Users, issue : Nat, age : 0..2]

\* A row of pairing_codes, and what a phone was given.
Rows   == [user : Users, used : BOOLEAN, age : 0..2, issue : Nat]
Grants == [user : Users, token : Nat, issue : Nat, age : 0..2]

TypeOK ==
  /\ mail \in [Users -> Mails \cup {None}]
  /\ ident \in [Logins -> Users \cup {None}]
  /\ key \in [Users -> Nat] /\ token \in [Users -> Nat]
  /\ code \in [Codes -> {None} \cup Rows]
  /\ owner \in [Devices -> Users \cup {None}]
  /\ firstSeen \in Seq(Devices)
  /\ started \subseteq Browsers
  /\ session \in [Browsers -> Users \cup {None}]
  /\ phone \in [Phones -> {None} \cup Grants]
  /\ req \in [Requests -> {Idle} \cup SignIns \cup Redeems
                \cup [op : {"register"}, device : Devices, token : Nat]]
  /\ fresh \in Nat
  /\ count \in [{"signIns", "codes", "links", "faults"} -> Nat]

Init ==
  /\ mail = [u \in Users |-> None]
  /\ ident = [l \in Logins |-> None]
  /\ key = [u \in Users |-> 0] /\ token = [u \in Users |-> 0]
  /\ code = [c \in Codes |-> None]
  /\ owner = [d \in Devices |-> None]
  /\ firstSeen = <<>>
  /\ started = {}
  /\ session = [b \in Browsers |-> None]
  /\ phone = [p \in Phones |-> None]
  /\ req = [r \in Requests |-> Idle]
  /\ fresh = 0
  /\ count = [k \in {"signIns", "codes", "links", "faults"} |-> 0]

----------------------------------------------------------------------------
(* What the handlers look up.                                              *)

Accounts == {u \in Users : mail[u] # None}

\* The row of users with this address, compared by lower().
UsersOfMail(m) == {u \in Accounts : Lower[mail[u]] = Lower[m]}

\* The account a raw token belongs to.
UsersOfToken(t) == {u \in Users : token[u] = t /\ t # 0}

\* What a browser's cookie leads to: the account, its consumer key, and what
\* /v1/me shows.
SessionUser(b) == session[b]
KeyIDForRequest(b) == key[SessionUser(b)]
Me(b) == [user |-> SessionUser(b), api_key |-> KeyIDForRequest(b),
          provider_token |-> token[SessionUser(b)]]

Within(event, bound) == count[event] < bound
Counted(event) == count' = [count EXCEPT ![event] = @ + 1]

GoOn(r, op) == req' = [req EXCEPT ![r].op = op]
Ends(r) == req' = [req EXCEPT ![r] = Idle]

----------------------------------------------------------------------------
(* Signing in.                                                             *)

\* GET /auth/{provider}: the state cookie is set and the browser sent away.
Start(b) ==
  /\ b \notin started
  /\ started' = started \cup {b}
  /\ UNCHANGED <<tables, session, phone, req, fresh, count>>

\* The address that comes with an identity, None for "": GitHub's profile may
\* hide it, and then the list of addresses is asked, which may fail.
GithubMails(l) == (Profile[l] \ {None}) \cup (IF None \in Profile[l] THEN {Primary[l], None} ELSE {})
GoogleMails(l) == Profile[l]
MailsOf(l) == IF ProviderOf[l] = "github" THEN GithubMails(l) ELSE GoogleMails(l)

\* The callback comes back with the browser's state, and the exchange yields
\* an identity and an address.
Callback(r, b, l) ==
  /\ req[r] = Idle /\ b \in started
  /\ Within("signIns", MaxSignIns) /\ Counted("signIns")
  /\ \E m \in MailsOf(l) \ {None} :
       req' = [req EXCEPT ![r] = [op |-> "look", browser |-> b, login |-> l, mail |-> m,
                                  user |-> None, new |-> 0, clean |-> TRUE]]
  /\ UNCHANGED <<tables, started, session, phone, fresh>>

\* A call of the exchange fails, or no address comes with the identity: the
\* answer clears the state cookie and that is all.
CallbackRejected(b) ==
  /\ b \in started
  /\ started' = started \ {b}
  /\ UNCHANGED <<tables, session, phone, req, fresh, count>>

\* upsertUser looks for the identity and then for the address.  A known
\* identity has its profile refreshed and is committed.
Look(r) ==
  /\ req[r].op = "look"
  /\ LET known == ident[req[r].login]
         found == UsersOfMail(req[r].mail)
     IN \/ /\ known # None
           /\ req' = [req EXCEPT ![r].op = "key", ![r].user = known]
        \/ /\ known = None
           /\ \E u \in IF found = {} THEN {None} ELSE found :
                req' = [req EXCEPT ![r].op = "commit", ![r].user = u]
  /\ UNCHANGED <<tables, started, session, phone, fresh, count>>

\* Mutant: the users table has no unique index on lower(email).
CommitConflictsNoMailIndex(r) == ident[req[r].login] # None

\* The unique indexes that the transaction meets.
CommitConflicts(r) ==
  \/ req[r].user = None /\ UsersOfMail(req[r].mail) # {}
  \/ ident[req[r].login] # None

\* ... inserts the account unless one was found, inserts the identity, and
\* commits.  An index that is violated is an "account error".
Commit(r) ==
  /\ req[r].op = "commit"
  /\ IF CommitConflicts(r)
     THEN /\ Ends(r)
          /\ started' = started \ {req[r].browser}
          /\ UNCHANGED <<mail, ident>>
     ELSE \E u \in IF req[r].user = None THEN Users \ Accounts ELSE {req[r].user} :
            /\ mail' = [mail EXCEPT ![u] = IF req[r].user = None THEN req[r].mail ELSE @]
            /\ ident' = [ident EXCEPT ![req[r].login] = u]
            /\ req' = [req EXCEPT ![r].op = "key", ![r].user = u]
            /\ UNCHANGED started
  /\ UNCHANGED <<key, token, code, owner, firstSeen, session, phone, fresh, count>>

\* A step of upsertUser fails; a commit may have taken effect all the same.
CommitFails(r) ==
  /\ req[r].op \in {"look", "commit"}
  /\ Within("faults", MaxFaults) /\ Counted("faults")
  /\ Ends(r)
  /\ started' = started \ {req[r].browser}
  /\ \/ UNCHANGED <<mail, ident>>
     \/ /\ req[r].op = "commit" /\ ~CommitConflicts(r)
        /\ \E u \in IF req[r].user = None THEN Users \ Accounts ELSE {req[r].user} :
             /\ mail' = [mail EXCEPT ![u] = IF req[r].user = None THEN req[r].mail ELSE @]
             /\ ident' = [ident EXCEPT ![req[r].login] = u]
  /\ UNCHANGED <<key, token, code, owner, firstSeen, session, phone, fresh>>

\* Mutant: an account that has its key is taken to have its token.
LookForKeyOnly(r) ==
  /\ req[r].op = "key"
  /\ GoOn(r, IF key[req[r].user] = 0 THEN "mint" ELSE "session")
  /\ UNCHANGED <<tables, started, session, phone, fresh, count>>

\* ensureUserCredentials: is there a key?
LookForKey(r) ==
  /\ req[r].op = "key"
  /\ GoOn(r, IF key[req[r].user] = 0 THEN "mint" ELSE "token")
  /\ UNCHANGED <<tables, started, session, phone, fresh, count>>

\* A consumer key is created in the store of keys ...
MintKey(r) ==
  /\ req[r].op = "mint"
  /\ fresh' = fresh + 1
  /\ req' = [req EXCEPT ![r].op = "link", ![r].new = fresh + 1]
  /\ UNCHANGED <<tables, started, session, phone, count>>

\* Mutant: ON CONFLICT DO UPDATE.
LinkKeyOverwrites(r) ==
  /\ req[r].op = "link"
  /\ key' = [key EXCEPT ![req[r].user] = req[r].new]
  /\ GoOn(r, "token")
  /\ UNCHANGED <<mail, ident, token, code, owner, firstSeen, started, session, phone,
                 fresh, count>>

\* ... and becomes the account's, unless the account has got one meanwhile
\* (ON CONFLICT DO NOTHING): the new key is then nobody's.
LinkKey(r) ==
  /\ req[r].op = "link"
  /\ key' = [key EXCEPT ![req[r].user] = IF @ = 0 THEN req[r].new ELSE @]
  /\ GoOn(r, "token")
  /\ UNCHANGED <<mail, ident, token, code, owner, firstSeen, started, session, phone,
                 fresh, count>>

\* The provider token, drawn each time and kept the first time.
LinkToken(r) ==
  /\ req[r].op = "token"
  /\ fresh' = fresh + 1
  /\ token' = [token EXCEPT ![req[r].user] = IF @ = 0 THEN fresh + 1 ELSE @]
  /\ GoOn(r, "session")
  /\ UNCHANGED <<mail, ident, key, code, owner, firstSeen, started, session, phone, count>>

\* A call of ensureUserCredentials fails.  That is logged, and the sign-in
\* goes on without the rest of the credentials.
CredentialsFail(r) ==
  /\ req[r].op \in {"key", "mint", "link", "token"}
  /\ Within("faults", MaxFaults) /\ Counted("faults")
  /\ req' = [req EXCEPT ![r].op = "session", ![r].clean = FALSE]
  /\ UNCHANGED <<tables, started, session, phone, fresh>>

\* createSession, and the answer with the session cookie.
OpenSession(r) ==
  /\ req[r].op = "session"
  /\ session' = [session EXCEPT ![req[r].browser] = req[r].user]
  /\ started' = started \ {req[r].browser}
  /\ Ends(r)
  /\ UNCHANGED <<tables, phone, fresh, count>>

SessionFails(r) ==
  /\ req[r].op = "session"
  /\ Within("faults", MaxFaults) /\ Counted("faults")
  /\ started' = started \ {req[r].browser}
  /\ Ends(r)
  /\ UNCHANGED <<tables, session, phone, fresh>>

\* POST /auth/logout, or the row of the session expires.
SessionEnds(b) ==
  /\ session[b] # None
  /\ session' = [session EXCEPT ![b] = None]
  /\ UNCHANGED <<tables, started, phone, req, fresh, count>>

----------------------------------------------------------------------------
(* Pairing a phone.                                                        *)

\* POST /v1/me/pair: a code that is not in the table becomes the account's.
CreatePairCode(b, c) ==
  /\ SessionUser(b) # None /\ code[c] = None
  /\ Within("codes", MaxCodes) /\ Counted("codes")
  /\ code' = [code EXCEPT ![c] = [user |-> SessionUser(b), used |-> FALSE, age |-> 0,
                                 issue |-> count.codes + 1]]
  /\ UNCHANGED <<mail, ident, key, token, owner, firstSeen, started, session, phone, req, fresh>>

\* Whoever creates a code, here or of an account that is not followed, drops the rows that
\* are over a day old: their characters may be drawn again.
DropOldCodes ==
  /\ code' = [c \in Codes |-> IF code[c] # None /\ code[c].age = 2 THEN None ELSE code[c]]
  /\ UNCHANGED <<mail, ident, key, token, owner, firstSeen, started, session, phone, req,
                 fresh, count>>

\* A code outlives PairCodeTTL (age 1) and then pairCodeMaxAge (age 2).
CodeAges(c) ==
  /\ code[c] # None /\ code[c].age < 2
  /\ code' = [code EXCEPT ![c].age = @ + 1]
  /\ UNCHANGED <<mail, ident, key, token, owner, firstSeen, started, session, phone, req,
                 fresh, count>>

\* Mutant: a code that was used is redeemed again.
RedeemableTwice(c) == code[c] # None /\ code[c].age = 0

\* Mutant: a code is redeemed as long as its row is there.
RedeemableStale(c) == code[c] # None /\ ~code[c].used

\* Redeemable: the WHERE of the UPDATE in RedeemPairCode.
Redeemable(c) == code[c] # None /\ ~code[c].used /\ code[c].age = 0

\* POST /v1/pair/{code}: the code is spent, in one statement ...
Redeem(r, p, c) ==
  /\ req[r] = Idle /\ phone[p] = None /\ Redeemable(c)
  /\ code' = [code EXCEPT ![c].used = TRUE]
  /\ req' = [req EXCEPT ![r] = [op |-> "redeem", phone |-> p, user |-> code[c].user,
                               issue |-> code[c].issue, age |-> code[c].age]]
  /\ UNCHANGED <<mail, ident, key, token, owner, firstSeen, started, session, phone,
                 fresh, count>>

\* ... and then the account's token is read.  Without one the answer is an
\* error, and the code is spent.
RedeemAnswers(r) ==
  /\ req[r].op = "redeem"
  /\ LET t == token[req[r].user]
     IN phone' = IF t = 0 THEN phone
                 ELSE [phone EXCEPT ![req[r].phone] =
                         [user |-> req[r].user, token |-> t,
                          issue |-> req[r].issue, age |-> req[r].age]]
  /\ Ends(r)
  /\ UNCHANGED <<tables, started, session, fresh, count>>

\* The read fails, or the answer does not reach the phone.
RedeemFails(r) ==
  /\ req[r].op = "redeem"
  /\ Within("faults", MaxFaults) /\ Counted("faults")
  /\ Ends(r)
  /\ UNCHANGED <<tables, started, session, phone, fresh>>

----------------------------------------------------------------------------
(* Devices.                                                                *)

\* The tokens a person can give a device: the one a paired phone holds, or
\* the one the Share page shows.
TokensShown ==
  {phone[p].token : p \in {q \in Phones : phone[q] # None}}
    \cup {Me(b).provider_token : b \in {x \in Browsers : session[x] # None}}

\* A device registers with a token; the hub asks ValidProviderToken.
Register(r, d, t) ==
  /\ req[r] = Idle /\ UsersOfToken(t) # {}
  /\ Within("links", MaxLinks) /\ Counted("links")
  /\ req' = [req EXCEPT ![r] = [op |-> "register", device |-> d, token |-> t]]
  /\ UNCHANGED <<tables, started, session, phone, fresh>>

\* Mutant: the row of a known device is written anew, first_seen and all.
LinkProviderDeviceAnew(r) ==
  /\ req[r].op = "register"
  /\ LET d == req[r].device
     IN /\ \E u \in UsersOfToken(req[r].token) : owner' = [owner EXCEPT ![d] = u]
        /\ firstSeen' = Append(SelectSeq(firstSeen, LAMBDA x : x # d), d)
  /\ Ends(r)
  /\ UNCHANGED <<mail, ident, key, token, code, started, session, phone, fresh, count>>

\* LinkProviderDevice looks the account up again and makes the device its
\* own.  A device known before keeps its first_seen.
LinkProviderDevice(r) ==
  /\ req[r].op = "register"
  /\ LET d == req[r].device
     IN /\ \E u \in UsersOfToken(req[r].token) : owner' = [owner EXCEPT ![d] = u]
        /\ firstSeen' = IF owner[d] = None THEN Append(firstSeen, d) ELSE firstSeen
  /\ Ends(r)
  /\ UNCHANGED <<mail, ident, key, token, code, started, session, phone, fresh, count>>

\* It fails: a warning in the log.
LinkFails(r) ==
  /\ req[r].op = "register"
  /\ Within("faults", MaxFaults) /\ Counted("faults")
  /\ Ends(r)
  /\ UNCHANGED <<tables, started, session, phone, fresh>>

DevicePKsForUser(u) == {d \in Devices : owner[d] = u}

\* The join order of the account's first device, 0 without one.
FoundingRank(u) ==
  LET places == {i \in DOMAIN firstSeen : owner[firstSeen[i]] = u}
  IN IF places = {} THEN 0 ELSE CHOOSE i \in places : \A j \in places : i <= j

----------------------------------------------------------------------------
SignInStep(r) ==
  \/ Look(r) \/ Commit(r) \/ CommitFails(r)
  \/ LookForKey(r) \/ MintKey(r) \/ LinkKey(r) \/ LinkToken(r) \/ CredentialsFail(r)
  \/ OpenSession(r) \/ SessionFails(r)

SigningIn ==
  \/ \E b \in Browsers : Start(b) \/ CallbackRejected(b) \/ SessionEnds(b)
  \/ \E r \in Requests, b \in Browsers, l \in Logins : Callback(r, b, l)
  \/ \E r \in Requests : SignInStep(r)

Pairing ==
  \/ \E b \in Browsers, c \in Codes : CreatePairCode(b, c)
  \/ \E c \in Codes : CodeAges(c)
  \/ DropOldCodes
  \/ \E r \in Requests, p \in Phones, c \in Codes : Redeem(r, p, c)
  \/ \E r \in Requests : RedeemAnswers(r) \/ RedeemFails(r)

Linking ==
  \/ \E r \in Requests, d \in Devices : \E t \in TokensShown : Register(r, d, t)
  \/ \E r \in Requests : LinkProviderDevice(r) \/ LinkFails(r)

Next == SigningIn \/ Pairing \/ Linking

Spec == Init /\ [][Next]_vars

----------------------------------------------------------------------------
(* Properties.                                                             *)

\* One account per person: whoever signs in with whichever provider, however
\* the callbacks overlap, no two accounts stand for the same address
\* (users_email_idx and the order of upsertUser's statements).
OneAccountPerMail ==
  \A u, v \in Accounts : Lower[mail[u]] = Lower[mail[v]] => u = v

\* What hangs on an account stays: once bound, a login keeps its account, and
\* an account its address, the key its money is booked under and the token
\* its phones and machines hold, whatever signs in at the same time
\* (the ON CONFLICT clauses of ensureUserCredentials).
AccountsKeepTheirs ==
  [][/\ \A l \in Logins : ident[l] # None => ident'[l] = ident[l]
     /\ \A u \in Users : /\ mail[u] # None => mail'[u] = mail[u]
                         /\ key[u] # 0 => key'[u] = key[u]
                         /\ token[u] # 0 => token'[u] = token[u]]_vars

\* A sign-in none of whose calls failed leaves the browser on an account that
\* has both its key and its token, also when an earlier sign-in of the account
\* stopped half-way: a failed ensureUserCredentials, which is only logged, is
\* made good by the next callback.
SignInEquips ==
  [][\A r \in Requests, b \in Browsers :
       /\ req[r].op = "session" /\ req[r].browser = b /\ req[r].clean
       /\ req'[r] = Idle /\ session'[b] = req[r].user
       => Me(b)'.api_key # 0 /\ Me(b)'.provider_token # 0]_vars

\* A phone that was given a token was given it for a code that was under ten minutes old
\* when it was spent, and the token is that of the account the code was created for.  Each
\* time a code is created it pairs one phone at most, however the phones that typed it
\* overlap; also when the row is dropped and the same characters are drawn again while a
\* phone waits for its answer (RedeemPairCode).
CodeSingleUse ==
  \A p \in Phones : phone[p] # None =>
    /\ phone[p].age = 0
    /\ UsersOfToken(phone[p].token) = {phone[p].user}
    /\ \A q \in Phones \ {p} : phone[q] # None => phone[q].issue # phone[p].issue

\* The founding rank of an account, its place among those who joined first,
\* is changed by nobody else joining or reconnecting: it moves only when one
\* of the account's own devices is linked to another account
\* (provider_owners.first_seen, FoundingRank).
RankIsKept ==
  [][\A u \in Users :
       FoundingRank(u) # 0 /\ DevicePKsForUser(u) \subseteq DevicePKsForUser(u)'
         => \/ FoundingRank(u)' = FoundingRank(u)
            \/ FoundingRank(u)' < FoundingRank(u) /\ DevicePKsForUser(u) # DevicePKsForUser(u)']_vars
=============================================================================
