------------------------------ MODULE AccountProofs ------------------------------
(***************************************************************************)
(* Accounts: one account for an address, credentials that stay where they  *)
(* are, sign-ins that leave an account equipped, codes used once; for any  *)
(* number of logins, addresses, accounts, phones, devices and requests.    *)
(* And their invitations: codes, claims and the leaderboard (Referrals).   *)
(***************************************************************************)
EXTENDS Members, FiniteSetTheorems, WellFoundedInduction, TLAPS

SignInOps == {"look", "commit", "key", "mint", "link", "token", "session"}
Bound == {"key", "mint", "link", "token", "session"}

\* What a callback at work has established.
ReqInv(r) ==
  /\ req[r].op = "commit" => req[r].user \in Accounts \cup {None}
  /\ req[r].op \in Bound => req[r].user \in Users
  /\ req[r].op = "link" => req[r].new # 0
  /\ req[r].op \in {"token", "session"} /\ req[r].clean => key[req[r].user] # 0
  /\ req[r].op = "session" /\ req[r].clean => token[req[r].user] # 0

\* No two accounts have the same token, and what a phone was given is still its account's.
TokenInv ==
  /\ \A u \in Users : token[u] <= fresh
  /\ \A u, v \in Users : token[u] = token[v] /\ token[u] # 0 => u = v
  /\ \A p \in Phones : phone[p] # None =>
       phone[p].token # 0 /\ token[phone[p].user] = phone[p].token

AccountsInv ==
  /\ TypeOK
  /\ OneAccountPerMail
  /\ \A r \in Requests : ReqInv(r)
  /\ TokenInv

LEMMA InitAccounts == ASSUME AccountsAssumption, Init PROVE AccountsInv
<1>1. TypeOK BY DEF Init, TypeOK, Idle, tables, Mails
<1>2. \A r \in Requests : ReqInv(r) BY DEF Init, ReqInv, Idle, Bound
<1>3. OneAccountPerMail /\ TokenInv
  BY DEF Init, OneAccountPerMail, Accounts, TokenInv
<1> QED BY <1>1, <1>2, <1>3 DEF AccountsInv

\* A request that is at a step of a sign-in is a callback.
LEMMA SignInRecord ==
  ASSUME TypeOK, NEW r \in Requests, req[r].op \in SignInOps
  PROVE  req[r] \in SignIns
<1> DEFINE x == req[r]
<1>1. x \in {Idle} \cup SignIns
           \cup Redeems
           \cup [op : {"register"}, device : Devices, token : Nat]
  BY DEF TypeOK
<1>2. x.op \in SignInOps OBVIOUS
<1> HIDE DEF x
<1>3. x # Idle BY <1>2 DEF Idle, SignInOps
<1>4. x \notin Redeems BY <1>2 DEF SignInOps, Redeems
<1>5. x \notin [op : {"register"}, device : Devices, token : Nat] BY <1>2 DEF SignInOps
<1> QED BY <1>1, <1>3, <1>4, <1>5 DEF x

LEMMA SignInGoesOn ==
  ASSUME NEW x \in SignIns, NEW o \in SignInOps
  PROVE  /\ [x EXCEPT !.op = o] \in SignIns
         /\ [x EXCEPT !.op = o, !.clean = FALSE] \in SignIns
         /\ \A u \in Users \cup {None} : [x EXCEPT !.op = o, !.user = u] \in SignIns
         /\ \A n \in Nat : [x EXCEPT !.op = o, !.new = n] \in SignIns
BY DEF SignIns, SignInOps

\* What a request can be.
Kinds == {Idle} \cup SignIns
           \cup Redeems
           \cup [op : {"register"}, device : Devices, token : Nat]

\* What hangs on an account is never taken away.
Kept ==
  \A u \in Users : /\ mail[u] # None => mail'[u] = mail[u]
                   /\ key[u] # 0 => key'[u] = key[u]
                   /\ token[u] # 0 => token'[u] = token[u]

\* The requests that do not move keep what they have established.
LEMMA OthersKeep ==
  ASSUME AccountsInv, NEW r \in Requests, Kept,
         \A s \in Requests \ {r} : req'[s] = req[s], ReqInv(r)'
  PROVE  \A s \in Requests : ReqInv(s)'
<1> SUFFICES ASSUME NEW s \in Requests \ {r} PROVE ReqInv(s)' OBVIOUS
<1>1. ReqInv(s) /\ req'[s] = req[s] BY DEF AccountsInv
<1>2. req[s].op \in SignInOps => req[s] \in SignIns BY SignInRecord DEF AccountsInv
<1>3. req[s].op \in Bound => req[s].user \in Users BY <1>1 DEF ReqInv
<1>4. Accounts \subseteq Accounts' BY DEF Kept, Accounts
<1> QED BY <1>1, <1>3, <1>4 DEF ReqInv, Kept, Bound

\* A step that leaves addresses, tokens, ids and phones alone leaves what is said of them.
LEMMA SameTables ==
  ASSUME AccountsInv, UNCHANGED <<mail, token, fresh, phone>>
  PROVE  OneAccountPerMail' /\ TokenInv'
BY DEF AccountsInv, OneAccountPerMail, Accounts, TokenInv

(***************************************************************************)
(* The steps that no request makes.                                        *)
(***************************************************************************)

LEMMA BrowserSteps ==
  ASSUME AccountsInv, NEW b \in Browsers, Start(b) \/ CallbackRejected(b) \/ SessionEnds(b)
  PROVE  AccountsInv'
<1>1. UNCHANGED <<tables, phone, req, fresh, count>>
  BY DEF Start, CallbackRejected, SessionEnds
<1>2. started' \subseteq Browsers /\ session' \in [Browsers -> Users \cup {None}]
  BY DEF AccountsInv, TypeOK, Start, CallbackRejected, SessionEnds
<1>3. TypeOK' BY <1>1, <1>2 DEF AccountsInv, TypeOK, tables
<1>4. OneAccountPerMail' /\ TokenInv' BY <1>1, SameTables DEF tables
<1>5. \A r \in Requests : ReqInv(r)'
  BY <1>1 DEF AccountsInv, ReqInv, Accounts, tables
<1> QED BY <1>3, <1>4, <1>5 DEF AccountsInv

LEMMA CodeSteps ==
  ASSUME AccountsInv,
         \/ DropOldCodes
         \/ \E c \in Codes : CodeAges(c) \/ \E b \in Browsers : CreatePairCode(b, c)
  PROVE  AccountsInv'
<1>1. UNCHANGED <<mail, ident, key, token, owner, firstSeen, started, session, phone, req, fresh>>
  BY DEF DropOldCodes, CodeAges, CreatePairCode
<1>2. code' \in [Codes -> {None} \cup Rows]
  <2>0. code \in [Codes -> {None} \cup Rows] /\ count.codes \in Nat
    BY DEF AccountsInv, TypeOK
  <2>1. ASSUME NEW c \in Codes, CodeAges(c) PROVE <1>2
    <3>1. code[c] \in Rows /\ code[c].age \in {0, 1} BY <2>0, <2>1 DEF CodeAges, Rows
    <3>2. [code[c] EXCEPT !.age = @ + 1] \in Rows BY <3>1 DEF Rows
    <3>3. code' = [code EXCEPT ![c] = [code[c] EXCEPT !.age = @ + 1]] BY <2>1 DEF CodeAges
    <3> QED BY <2>0, <3>2, <3>3
  <2>2. ASSUME NEW c \in Codes, NEW b \in Browsers, CreatePairCode(b, c) PROVE <1>2
    <3>1. [user |-> SessionUser(b), used |-> FALSE, age |-> 0, issue |-> count.codes + 1] \in Rows
      BY <2>0, <2>2 DEF CreatePairCode, SessionUser, AccountsInv, TypeOK, Rows
    <3> QED BY <2>0, <2>2, <3>1 DEF CreatePairCode
  <2>3. CASE DropOldCodes BY <2>0, <2>3 DEF DropOldCodes
  <2> QED BY <2>1, <2>2, <2>3
<1>3. count' \in [{"signIns", "codes", "links", "faults"} -> Nat]
  BY DEF AccountsInv, TypeOK, DropOldCodes, CodeAges, CreatePairCode, Counted
<1>4. TypeOK' BY <1>1, <1>2, <1>3 DEF AccountsInv, TypeOK
<1>5. OneAccountPerMail' /\ TokenInv' BY <1>1, SameTables
<1>6. \A r \in Requests : ReqInv(r)'
  BY <1>1 DEF AccountsInv, ReqInv, Accounts
<1> QED BY <1>4, <1>5, <1>6 DEF AccountsInv

(***************************************************************************)
(* The steps of a request.                                                 *)
(***************************************************************************)

LEMMA Turns ==
  ASSUME TypeOK, NEW r \in Requests, NEW x \in Kinds, req' = [req EXCEPT ![r] = x]
  PROVE  /\ req' \in [Requests -> Kinds] /\ req'[r] = x
         /\ \A s \in Requests \ {r} : req'[s] = req[s]
<1>1. req \in [Requests -> Kinds] BY DEF TypeOK, Kinds
<1> QED BY <1>1

\* The count of bounded events stays a count.
LEMMA Counts ==
  ASSUME TypeOK,
         NEW e \in {"signIns", "codes", "links", "faults"}, Counted(e)
  PROVE  count' \in [{"signIns", "codes", "links", "faults"} -> Nat]
BY DEF TypeOK, Counted

\* A request ends, or goes on, and no table that matters to others is written.
LEMMA QuietRequest ==
  ASSUME AccountsInv, NEW r \in Requests, NEW x \in Kinds, req' = [req EXCEPT ![r] = x],
         UNCHANGED <<mail, ident, key, token, code, phone>>,
         fresh' \in Nat, fresh <= fresh',
         owner' \in [Devices -> Users \cup {None}], firstSeen' \in Seq(Devices),
         started' \subseteq Browsers, session' \in [Browsers -> Users \cup {None}],
         count' \in [{"signIns", "codes", "links", "faults"} -> Nat],
         ReqInv(r)'
  PROVE  AccountsInv'
<1>1. TypeOK BY DEF AccountsInv
<1>2. req' \in [Requests -> Kinds] /\ \A s \in Requests \ {r} : req'[s] = req[s]
  BY <1>1, Turns
<1>3. TypeOK' BY <1>1, <1>2 DEF TypeOK, Kinds
<1>4. OneAccountPerMail' BY DEF AccountsInv, OneAccountPerMail, Accounts
<1>5. TokenInv' BY <1>1 DEF AccountsInv, TokenInv, TypeOK
<1>6. Kept BY DEF Kept
<1> QED BY <1>2, <1>3, <1>4, <1>5, <1>6, OthersKeep DEF AccountsInv

\* ... and a step that writes no table at all.
LEMMA ReadOnlyRequest ==
  ASSUME AccountsInv, NEW r \in Requests, NEW x \in Kinds, req' = [req EXCEPT ![r] = x],
         UNCHANGED tables, UNCHANGED phone,
         fresh' \in Nat, fresh <= fresh',
         started' \subseteq Browsers, session' \in [Browsers -> Users \cup {None}],
         count' \in [{"signIns", "codes", "links", "faults"} -> Nat],
         ReqInv(r)'
  PROVE  AccountsInv'
<1>1. /\ owner' \in [Devices -> Users \cup {None}] /\ firstSeen' \in Seq(Devices)
      /\ UNCHANGED <<mail, ident, key, token, code, phone>>
  BY DEF AccountsInv, TypeOK, tables
<1> QED BY <1>1, QuietRequest

\* The types of what a request's step leaves alone.
LEMMA Unmoved ==
  ASSUME AccountsInv
  PROVE  /\ UNCHANGED fresh => fresh' \in Nat /\ fresh <= fresh'
         /\ UNCHANGED started => started' \subseteq Browsers
         /\ UNCHANGED session => session' \in [Browsers -> Users \cup {None}]
         /\ UNCHANGED count => count' \in [{"signIns", "codes", "links", "faults"} -> Nat]
BY DEF AccountsInv, TypeOK

LEMMA EndedIsFine == ASSUME TypeOK, NEW r \in Requests, Ends(r) PROVE ReqInv(r)' /\ Idle \in Kinds
BY DEF TypeOK, Ends, ReqInv, Idle, Bound, Kinds

LEMMA CallbackStep ==
  ASSUME AccountsInv, NEW r \in Requests, NEW b \in Browsers, NEW l \in Logins, Callback(r, b, l),
         AccountsAssumption
  PROVE  AccountsInv'
<1>1. PICK m \in MailsOf(l) \ {None} :
        req' = [req EXCEPT ![r] = [op |-> "look", browser |-> b, login |-> l, mail |-> m,
                                   user |-> None, new |-> 0, clean |-> TRUE]]
  BY DEF Callback
<1>2. m \in Mails
  BY DEF AccountsAssumption, MailsOf, GithubMails, GoogleMails, Mails
<1> DEFINE x == [op |-> "look", browser |-> b, login |-> l, mail |-> m,
                 user |-> None, new |-> 0, clean |-> TRUE]
<1>3. x \in Kinds BY <1>2 DEF Kinds, SignIns
<1>4. x.op = "look" OBVIOUS
<1>5. TypeOK BY DEF AccountsInv
<1> HIDE DEF x
<1>6. req' = [req EXCEPT ![r] = x] BY <1>1 DEF x
<1>7. req'[r] = x BY <1>3, <1>5, <1>6, Turns
<1>8. ReqInv(r)' BY <1>4, <1>7 DEF ReqInv, Bound
<1>9. count' \in [{"signIns", "codes", "links", "faults"} -> Nat]
  BY <1>5, Counts DEF Callback
<1>10. UNCHANGED <<tables, started, session, phone, fresh>> BY DEF Callback
<1> QED BY <1>3, <1>6, <1>8, <1>9, <1>10, Unmoved, ReadOnlyRequest

LEMMA LookStep ==
  ASSUME AccountsInv, NEW r \in Requests, Look(r)
  PROVE  AccountsInv'
<1>1. TypeOK /\ UNCHANGED <<tables, started, session, phone, fresh, count>>
  BY DEF AccountsInv, Look
<1>2. req[r] \in SignIns BY <1>1, SignInRecord DEF Look, SignInOps
<1>3. PICK o \in {"key", "commit"}, u \in Users \cup {None} :
        /\ req' = [req EXCEPT ![r] = [req[r] EXCEPT !.op = o, !.user = u]]
        /\ o = "key" => u \in Users
        /\ o = "commit" => u \in Accounts \cup {None}
  <2>1. ident[req[r].login] \in Users \cup {None} BY <1>1, <1>2 DEF TypeOK, SignIns
  <2>2. UsersOfMail(req[r].mail) \subseteq Accounts /\ Accounts \subseteq Users
    BY DEF UsersOfMail, Accounts
  <2>3. CASE ident[req[r].login] # None BY <2>1, <2>3 DEF Look
  <2>4. CASE ident[req[r].login] = None
    <3>1. PICK u \in IF UsersOfMail(req[r].mail) = {} THEN {None} ELSE UsersOfMail(req[r].mail) :
            req' = [req EXCEPT ![r].op = "commit", ![r].user = u]
      BY <2>4 DEF Look
    <3> QED BY <2>2, <3>1
  <2> QED BY <2>3, <2>4
<1>4. [req[r] EXCEPT !.op = o, !.user = u] \in SignIns BY <1>2, SignInGoesOn DEF SignInOps
<1>5. req'[r] = [req[r] EXCEPT !.op = o, !.user = u] BY <1>1, <1>3, <1>4, Turns DEF Kinds
<1>6. req'[r].op = o /\ req'[r].user = u BY <1>2, <1>5 DEF SignIns
<1>7. UNCHANGED mail BY <1>1 DEF tables
<1>8. ReqInv(r)' BY <1>3, <1>6, <1>7 DEF ReqInv, Bound, Accounts
<1>9. [req[r] EXCEPT !.op = o, !.user = u] \in Kinds BY <1>4 DEF Kinds
<1> QED BY <1>1, <1>3, <1>8, <1>9, Unmoved, ReadOnlyRequest

\* The requests that end without having written a table.
LEMMA EndingSteps ==
  ASSUME AccountsInv, NEW r \in Requests,
         OpenSession(r) \/ SessionFails(r) \/ RedeemFails(r) \/ LinkFails(r)
  PROVE  AccountsInv'
<1>1. TypeOK /\ Ends(r) /\ UNCHANGED <<tables, phone, fresh>>
  BY DEF AccountsInv, OpenSession, SessionFails, RedeemFails, LinkFails
<1>2. req' = [req EXCEPT ![r] = Idle] BY <1>1 DEF Ends
<1>3. started' \subseteq Browsers
  BY <1>1 DEF OpenSession, SessionFails, RedeemFails, LinkFails, TypeOK
<1>4. session' \in [Browsers -> Users \cup {None}]
  <2>1. CASE OpenSession(r)
    <3>1. req[r] \in SignIns BY <1>1, <2>1, SignInRecord DEF OpenSession, SignInOps
    <3>2. req[r].user \in Users \cup {None} BY <3>1 DEF SignIns
    <3> QED BY <1>1, <2>1, <3>2 DEF OpenSession, TypeOK
  <2>2. CASE UNCHANGED session BY <2>2, Unmoved
  <2> QED BY <2>1, <2>2 DEF SessionFails, RedeemFails, LinkFails
<1>5. count' \in [{"signIns", "codes", "links", "faults"} -> Nat]
  <2>1. CASE Counted("faults") BY <1>1, <2>1, Counts
  <2>2. CASE UNCHANGED count BY <2>2, Unmoved
  <2> QED BY <2>1, <2>2 DEF OpenSession, SessionFails, RedeemFails, LinkFails
<1> QED BY <1>1, <1>2, <1>3, <1>4, <1>5, EndedIsFine, Unmoved, ReadOnlyRequest

LEMMA LookForKeyStep ==
  ASSUME AccountsInv, NEW r \in Requests, LookForKey(r)
  PROVE  AccountsInv'
<1>1. TypeOK /\ ReqInv(r) /\ UNCHANGED <<tables, started, session, phone, fresh, count>>
  BY DEF AccountsInv, LookForKey
<1>2. req[r] \in SignIns BY <1>1, SignInRecord DEF LookForKey, SignInOps
<1> DEFINE o == IF key[req[r].user] = 0 THEN "mint" ELSE "token"
           x == [req[r] EXCEPT !.op = o]
<1>3. x \in Kinds
  <2>1. o \in SignInOps BY DEF SignInOps
  <2> HIDE DEF o
  <2>2. x \in SignIns BY <1>2, <2>1, SignInGoesOn
  <2> QED BY <2>2 DEF Kinds
<1>4. req' = [req EXCEPT ![r] = x] BY DEF LookForKey, GoOn
<1>5. req'[r] = x BY <1>1, <1>3, <1>4, Turns
<1>6. ReqInv(r)'
  <2>1. x.op = o /\ x.user = req[r].user BY <1>2 DEF SignIns
  <2>2. req[r].user \in Users BY <1>1 DEF ReqInv, Bound, LookForKey
  <2>3. key' = key BY <1>1 DEF tables
  <2> HIDE DEF x
  <2> QED BY <1>5, <2>1, <2>2, <2>3 DEF ReqInv, Bound
<1> HIDE DEF x
<1> QED BY <1>1, <1>3, <1>4, <1>6, Unmoved, ReadOnlyRequest

LEMMA MintKeyStep ==
  ASSUME AccountsInv, NEW r \in Requests, MintKey(r)
  PROVE  AccountsInv'
<1>1. TypeOK /\ ReqInv(r) /\ UNCHANGED <<tables, started, session, phone, count>>
  BY DEF AccountsInv, MintKey
<1>2. req[r] \in SignIns BY <1>1, SignInRecord DEF MintKey, SignInOps
<1>3. fresh' = fresh + 1 /\ fresh \in Nat /\ fresh' \in Nat /\ fresh <= fresh' BY <1>1 DEF MintKey, TypeOK
<1> DEFINE x == [req[r] EXCEPT !.op = "link", !.new = fresh + 1]
<1>4. x \in Kinds
  <2>1. fresh + 1 \in Nat BY <1>3
  <2>2. x \in SignIns BY <1>2, <2>1, SignInGoesOn DEF SignInOps
  <2> QED BY <2>2 DEF Kinds
<1>5. req' = [req EXCEPT ![r] = x] BY DEF MintKey
<1>6. req'[r] = x BY <1>1, <1>4, <1>5, Turns
<1>7. ReqInv(r)'
  <2>1. x.op = "link" /\ x.user = req[r].user /\ x.new = fresh + 1 BY <1>2 DEF SignIns
  <2>2. req[r].user \in Users BY <1>1 DEF ReqInv, Bound, MintKey
  <2> HIDE DEF x
  <2> QED BY <1>3, <1>6, <2>1, <2>2 DEF ReqInv, Bound
<1> HIDE DEF x
<1> QED BY <1>1, <1>3, <1>4, <1>5, <1>7, Unmoved, ReadOnlyRequest

LEMMA CredentialsFailStep ==
  ASSUME AccountsInv, NEW r \in Requests, CredentialsFail(r)
  PROVE  AccountsInv'
<1>1. TypeOK /\ ReqInv(r) /\ UNCHANGED <<tables, started, session, phone, fresh>>
  BY DEF AccountsInv, CredentialsFail
<1>2. req[r] \in SignIns BY <1>1, SignInRecord DEF CredentialsFail, SignInOps
<1> DEFINE x == [req[r] EXCEPT !.op = "session", !.clean = FALSE]
<1>3. x \in Kinds
  <2>1. x \in SignIns BY <1>2, SignInGoesOn DEF SignInOps
  <2> QED BY <2>1 DEF Kinds
<1>4. req' = [req EXCEPT ![r] = x] BY DEF CredentialsFail
<1>5. req'[r] = x BY <1>1, <1>3, <1>4, Turns
<1>6. ReqInv(r)'
  <2>1. x.op = "session" /\ x.user = req[r].user /\ x.clean = FALSE BY <1>2 DEF SignIns
  <2>2. req[r].user \in Users BY <1>1 DEF ReqInv, Bound, CredentialsFail
  <2> HIDE DEF x
  <2> QED BY <1>5, <2>1, <2>2 DEF ReqInv, Bound
<1>7. count' \in [{"signIns", "codes", "links", "faults"} -> Nat]
  BY <1>1, Counts DEF CredentialsFail
<1> HIDE DEF x
<1> QED BY <1>1, <1>3, <1>4, <1>6, <1>7, Unmoved, ReadOnlyRequest

LEMMA RegisterStep ==
  ASSUME AccountsInv, NEW r \in Requests, NEW d \in Devices, NEW t \in TokensShown,
         Register(r, d, t)
  PROVE  AccountsInv'
<1>1. TypeOK /\ UNCHANGED <<tables, started, session, phone, fresh>>
  BY DEF AccountsInv, Register
<1>2. t \in Nat BY <1>1 DEF Register, UsersOfToken, TypeOK
<1> DEFINE x == [op |-> "register", device |-> d, token |-> t]
<1>3. x \in Kinds BY <1>2 DEF Kinds
<1>4. req' = [req EXCEPT ![r] = x] BY DEF Register
<1>5. req'[r] = x BY <1>1, <1>3, <1>4, Turns
<1>6. ReqInv(r)' BY <1>5 DEF ReqInv, Bound
<1>7. count' \in [{"signIns", "codes", "links", "faults"} -> Nat]
  BY <1>1, Counts DEF Register
<1> HIDE DEF x
<1> QED BY <1>1, <1>3, <1>4, <1>6, <1>7, Unmoved, ReadOnlyRequest

\* LinkKey and LinkToken write under a row that is not there yet.
LEMMA LinkKeyStep ==
  ASSUME AccountsInv, NEW r \in Requests, LinkKey(r)
  PROVE  AccountsInv' /\ Kept
<1>1. TypeOK /\ ReqInv(r)
      /\ UNCHANGED <<mail, ident, token, code, owner, firstSeen, started, session, phone,
                     fresh, count>>
  BY DEF AccountsInv, LinkKey
<1>2. req[r] \in SignIns BY <1>1, SignInRecord DEF LinkKey, SignInOps
<1>3. req[r].user \in Users /\ req[r].new \in Nat \ {0}
  BY <1>1, <1>2 DEF ReqInv, Bound, LinkKey, SignIns
<1>4. key' = [key EXCEPT ![req[r].user] = IF @ = 0 THEN req[r].new ELSE @]
  BY DEF LinkKey
<1>5. key' \in [Users -> Nat] /\ key'[req[r].user] # 0 /\ Kept
  BY <1>1, <1>3, <1>4 DEF TypeOK, Kept
<1> DEFINE x == [req[r] EXCEPT !.op = "token"]
<1>6. x \in Kinds
  <2>1. x \in SignIns BY <1>2, SignInGoesOn DEF SignInOps
  <2> QED BY <2>1 DEF Kinds
<1>7. req' = [req EXCEPT ![r] = x] BY DEF LinkKey, GoOn
<1>8. x.op = "token" /\ x.user = req[r].user BY <1>2 DEF SignIns
<1> HIDE DEF x
<1>9. /\ req' \in [Requests -> Kinds] /\ req'[r] = x
      /\ \A s \in Requests \ {r} : req'[s] = req[s]
  BY <1>1, <1>6, <1>7, Turns
<1>10. ReqInv(r)' BY <1>3, <1>5, <1>8, <1>9 DEF ReqInv, Bound
<1>11. TypeOK' BY <1>1, <1>5, <1>9 DEF TypeOK, Kinds
<1>12. OneAccountPerMail' /\ TokenInv' BY <1>1, SameTables
<1> QED BY <1>5, <1>9, <1>10, <1>11, <1>12, OthersKeep DEF AccountsInv

LEMMA LinkTokenStep ==
  ASSUME AccountsInv, NEW r \in Requests, LinkToken(r)
  PROVE  AccountsInv' /\ Kept
<1>1. TypeOK /\ ReqInv(r) /\ TokenInv
      /\ UNCHANGED <<mail, ident, key, code, owner, firstSeen, started, session, phone, count>>
  BY DEF AccountsInv, LinkToken
<1>2. req[r] \in SignIns BY <1>1, SignInRecord DEF LinkToken, SignInOps
<1>3. req[r].user \in Users
  BY <1>1 DEF ReqInv, Bound, LinkToken
<1>4. /\ fresh' = fresh + 1 /\ fresh \in Nat
      /\ token \in [Users -> Nat]
      /\ token' = [token EXCEPT ![req[r].user] = IF @ = 0 THEN fresh + 1 ELSE @]
  BY <1>1 DEF LinkToken, TypeOK
<1>5. token' \in [Users -> Nat] /\ fresh' \in Nat /\ token'[req[r].user] # 0 /\ Kept
  BY <1>1, <1>3, <1>4 DEF Kept
<1> DEFINE x == [req[r] EXCEPT !.op = "session"]
<1>6. x \in Kinds
  <2>1. x \in SignIns BY <1>2, SignInGoesOn DEF SignInOps
  <2> QED BY <2>1 DEF Kinds
<1>7. req' = [req EXCEPT ![r] = x] BY DEF LinkToken, GoOn
<1>8. x.op = "session" /\ x.user = req[r].user /\ x.clean = req[r].clean BY <1>2 DEF SignIns
<1> HIDE DEF x
<1>9. /\ req' \in [Requests -> Kinds] /\ req'[r] = x
      /\ \A s \in Requests \ {r} : req'[s] = req[s]
  BY <1>1, <1>6, <1>7, Turns
<1>10. ReqInv(r)'
  <2>1. req[r].clean => key[req[r].user] # 0 BY <1>1 DEF ReqInv, LinkToken
  <2> QED BY <1>1, <1>3, <1>5, <1>8, <1>9, <2>1 DEF ReqInv, Bound
<1>11. TypeOK' BY <1>1, <1>5, <1>9 DEF TypeOK, Kinds
<1>12. TokenInv'
  <2>1. \A u \in Users : token'[u] <= fresh'
    BY <1>1, <1>3, <1>4 DEF TokenInv
  <2>2. \A u, v \in Users : token'[u] = token'[v] /\ token'[u] # 0 => u = v
    BY <1>1, <1>3, <1>4 DEF TokenInv
  <2>3. \A p \in Phones : phone[p] # None => phone[p].user \in Users
    BY <1>1 DEF TypeOK, Grants
  <2>4. \A p \in Phones : phone'[p] # None =>
          phone'[p].token # 0 /\ token'[phone'[p].user] = phone'[p].token
    BY <1>1, <1>3, <1>4, <2>3 DEF TokenInv
  <2> QED BY <2>1, <2>2, <2>4 DEF TokenInv
<1>13. OneAccountPerMail' BY <1>1 DEF AccountsInv, OneAccountPerMail, Accounts
<1> QED BY <1>5, <1>9, <1>10, <1>11, <1>12, <1>13, OthersKeep DEF AccountsInv

(***************************************************************************)
(* The transaction of upsertUser.                                          *)
(***************************************************************************)

\* The rows it writes: an account only under an address nobody has, an identity only
\* once.
Writes(r) ==
  \E u \in IF req[r].user = None THEN Users \ Accounts ELSE {req[r].user} :
    /\ mail' = [mail EXCEPT ![u] = IF req[r].user = None THEN req[r].mail ELSE @]
    /\ ident' = [ident EXCEPT ![req[r].login] = u]

LEMMA WritesKeep ==
  ASSUME AccountsInv, NEW r \in Requests, req[r].op = "commit", ~CommitConflicts(r), Writes(r),
         UNCHANGED <<key, token, phone, fresh>>, AccountsAssumption
  PROVE  /\ mail' \in [Users -> Mails \cup {None}] /\ ident' \in [Logins -> Users \cup {None}]
         /\ OneAccountPerMail' /\ TokenInv' /\ Kept
         /\ \A l \in Logins : ident[l] # None => ident'[l] = ident[l]
<1>1. TypeOK /\ ReqInv(r) BY DEF AccountsInv
<1>2. req[r] \in SignIns BY <1>1, SignInRecord DEF SignInOps
<1>3. /\ req[r].user \in Accounts \cup {None} /\ Accounts \subseteq Users
      /\ req[r].login \in Logins /\ req[r].mail \in Mails
  BY <1>1, <1>2 DEF ReqInv, SignIns, Accounts
<1>4. PICK u \in IF req[r].user = None THEN Users \ Accounts ELSE {req[r].user} :
        /\ mail' = [mail EXCEPT ![u] = IF req[r].user = None THEN req[r].mail ELSE @]
        /\ ident' = [ident EXCEPT ![req[r].login] = u]
  BY DEF Writes
<1>5. u \in Users /\ ident[req[r].login] = None
  BY <1>3, <1>4 DEF CommitConflicts
<1>6. ident' \in [Logins -> Users \cup {None}]
      /\ \A l \in Logins : ident[l] # None => ident'[l] = ident[l]
  BY <1>1, <1>3, <1>4, <1>5 DEF TypeOK
<1>7. TokenInv' BY DEF AccountsInv, TokenInv
<1>8. CASE req[r].user = None
  <2>1. u \notin Accounts /\ mail' = [mail EXCEPT ![u] = req[r].mail] BY <1>4, <1>8
  <2>2. \A v \in Accounts : Lower[mail[v]] # Lower[req[r].mail]
    BY <1>8 DEF CommitConflicts, UsersOfMail
  <2>3. mail' \in [Users -> Mails \cup {None}] /\ Kept
    BY <1>1, <1>3, <1>5, <2>1 DEF TypeOK, Kept, Accounts
  <2>4. Accounts' = Accounts \cup {u} /\ mail'[u] = req[r].mail
        /\ \A v \in Accounts : mail'[v] = mail[v]
    BY <1>1, <1>3, <1>5, <2>1 DEF TypeOK, Accounts, AccountsAssumption, Mails
  <2>5. OneAccountPerMail' BY <2>1, <2>2, <2>4 DEF AccountsInv, OneAccountPerMail
  <2> QED BY <1>6, <1>7, <2>3, <2>5
<1>9. CASE req[r].user # None
  <2>1. mail' = mail BY <1>1, <1>4, <1>9 DEF TypeOK
  <2> QED BY <1>1, <1>6, <1>7, <2>1 DEF TypeOK, Kept, AccountsInv, OneAccountPerMail, Accounts
<1> QED BY <1>8, <1>9

LEMMA CommitStep ==
  ASSUME AccountsInv, NEW r \in Requests, Commit(r), AccountsAssumption
  PROVE  AccountsInv' /\ Kept /\ \A l \in Logins : ident[l] # None => ident'[l] = ident[l]
<1>1. TypeOK /\ req[r].op = "commit"
      /\ UNCHANGED <<key, token, code, owner, firstSeen, session, phone, fresh, count>>
  BY DEF AccountsInv, Commit
<1>2. CASE CommitConflicts(r)
  <2>1. Ends(r) /\ UNCHANGED tables /\ started' \subseteq Browsers
    BY <1>1, <1>2 DEF Commit, tables, TypeOK
  <2>2. AccountsInv'
    BY <1>1, <2>1, EndedIsFine, Unmoved, ReadOnlyRequest DEF Ends
  <2> QED BY <2>1, <2>2 DEF Kept, tables
<1>3. CASE ~CommitConflicts(r)
  <2>1. PICK u \in IF req[r].user = None THEN Users \ Accounts ELSE {req[r].user} :
          /\ mail' = [mail EXCEPT ![u] = IF req[r].user = None THEN req[r].mail ELSE @]
          /\ ident' = [ident EXCEPT ![req[r].login] = u]
          /\ req' = [req EXCEPT ![r].op = "key", ![r].user = u]
          /\ UNCHANGED started
    BY <1>3 DEF Commit
  <2>2. /\ mail' \in [Users -> Mails \cup {None}] /\ ident' \in [Logins -> Users \cup {None}]
        /\ OneAccountPerMail' /\ TokenInv' /\ Kept
        /\ \A l \in Logins : ident[l] # None => ident'[l] = ident[l]
    BY <1>1, <1>3, <2>1, WritesKeep DEF Writes
  <2>3. req[r] \in SignIns BY <1>1, SignInRecord DEF SignInOps
  <2>4. u \in Users
    BY <1>1, <2>1 DEF AccountsInv, ReqInv, Accounts
  <2> DEFINE x == [req[r] EXCEPT !.op = "key", !.user = u]
  <2>5. x \in Kinds
    <3>1. x \in SignIns BY <2>3, <2>4, SignInGoesOn DEF SignInOps
    <3> QED BY <3>1 DEF Kinds
  <2>6. x.op = "key" /\ x.user = u BY <2>3 DEF SignIns
  <2>7. req' = [req EXCEPT ![r] = x]
    <3>1. req \in [Requests -> Kinds] BY <1>1 DEF TypeOK, Kinds
    <3> QED BY <2>1, <3>1
  <2> HIDE DEF x
  <2>8. /\ req' \in [Requests -> Kinds] /\ req'[r] = x
        /\ \A s \in Requests \ {r} : req'[s] = req[s]
    BY <1>1, <2>5, <2>7, Turns
  <2>9. ReqInv(r)' BY <2>4, <2>6, <2>8 DEF ReqInv, Bound
  <2>10. TypeOK' BY <1>1, <2>1, <2>2, <2>8 DEF TypeOK, Kinds
  <2> QED BY <2>2, <2>8, <2>9, <2>10, OthersKeep DEF AccountsInv
<1> QED BY <1>2, <1>3

LEMMA CommitFailsStep ==
  ASSUME AccountsInv, NEW r \in Requests, CommitFails(r), AccountsAssumption
  PROVE  AccountsInv' /\ Kept /\ \A l \in Logins : ident[l] # None => ident'[l] = ident[l]
<1>1. TypeOK /\ Ends(r)
      /\ UNCHANGED <<key, token, code, owner, firstSeen, session, phone, fresh>>
  BY DEF AccountsInv, CommitFails
<1>2. started' \subseteq Browsers BY <1>1 DEF CommitFails, TypeOK
<1>3. count' \in [{"signIns", "codes", "links", "faults"} -> Nat]
  BY <1>1, Counts DEF CommitFails
<1>4. CASE UNCHANGED <<mail, ident>>
  <2>1. UNCHANGED tables BY <1>1, <1>4 DEF tables
  <2>2. AccountsInv'
    BY <1>1, <1>2, <1>3, <2>1, EndedIsFine, Unmoved, ReadOnlyRequest DEF Ends
  <2> QED BY <2>1, <2>2 DEF Kept, tables
<1>5. CASE req[r].op = "commit" /\ ~CommitConflicts(r) /\ Writes(r)
  <2>1. /\ mail' \in [Users -> Mails \cup {None}] /\ ident' \in [Logins -> Users \cup {None}]
        /\ OneAccountPerMail' /\ TokenInv' /\ Kept
        /\ \A l \in Logins : ident[l] # None => ident'[l] = ident[l]
    BY <1>1, <1>5, WritesKeep
  <2>2. ReqInv(r)' /\ Idle \in Kinds BY <1>1, EndedIsFine
  <2>3. /\ req' \in [Requests -> Kinds] /\ \A s \in Requests \ {r} : req'[s] = req[s]
    BY <1>1, <2>2, Turns DEF Ends
  <2>4. TypeOK' BY <1>1, <1>2, <1>3, <2>1, <2>3 DEF TypeOK, Kinds
  <2> QED BY <2>1, <2>2, <2>3, <2>4, OthersKeep DEF AccountsInv
<1> QED BY <1>4, <1>5 DEF CommitFails, Writes

(***************************************************************************)
(* Phones and devices.                                                     *)
(***************************************************************************)

LEMMA RedeemStep ==
  ASSUME AccountsInv, NEW r \in Requests, NEW p \in Phones, NEW c \in Codes, Redeem(r, p, c)
  PROVE  AccountsInv'
<1>1. /\ TypeOK /\ code \in [Codes -> {None} \cup Rows]
      /\ UNCHANGED <<mail, ident, key, token, owner, firstSeen, started, session, phone,
                     fresh, count>>
  BY DEF AccountsInv, TypeOK, Redeem
<1>2. code[c] \in Rows BY <1>1 DEF Redeem, Redeemable
<1>3. [code[c] EXCEPT !.used = TRUE] \in Rows BY <1>2 DEF Rows
<1>4. code' \in [Codes -> {None} \cup Rows] BY <1>1, <1>3 DEF Redeem
<1> DEFINE x == [op |-> "redeem", phone |-> p, user |-> code[c].user,
                 issue |-> code[c].issue, age |-> code[c].age]
<1>5. x \in Kinds BY <1>2 DEF Kinds, Redeems, Rows
<1>6. req' = [req EXCEPT ![r] = x] BY DEF Redeem
<1>7. x.op = "redeem" OBVIOUS
<1> HIDE DEF x
<1>8. /\ req' \in [Requests -> Kinds] /\ req'[r] = x
      /\ \A s \in Requests \ {r} : req'[s] = req[s]
  BY <1>1, <1>5, <1>6, Turns
<1>9. ReqInv(r)' BY <1>7, <1>8 DEF ReqInv, Bound
<1>10. TypeOK' BY <1>1, <1>4, <1>8 DEF TypeOK, Kinds
<1>11. OneAccountPerMail' /\ TokenInv' BY <1>1, SameTables
<1>12. Kept BY <1>1 DEF Kept
<1> QED BY <1>8, <1>9, <1>10, <1>11, <1>12, OthersKeep DEF AccountsInv

\* A request that waits for the answer to a code.
LEMMA RedeemRecord ==
  ASSUME TypeOK, NEW r \in Requests, req[r].op = "redeem"
  PROVE  req[r] \in Redeems
<1> DEFINE x == req[r]
<1>1. x \in Kinds /\ x.op = "redeem" BY DEF TypeOK, Kinds
<1> HIDE DEF x
<1>2. x # Idle BY <1>1 DEF Idle
<1>3. x \notin SignIns BY <1>1 DEF SignIns
<1>4. x \notin [op : {"register"}, device : Devices, token : Nat] BY <1>1
<1> QED BY <1>1, <1>2, <1>3, <1>4 DEF Kinds, x

LEMMA RedeemAnswersStep ==
  ASSUME AccountsInv, NEW r \in Requests, RedeemAnswers(r), AccountsAssumption
  PROVE  AccountsInv'
<1>1. TypeOK /\ Ends(r) /\ UNCHANGED <<tables, started, session, fresh, count>>
  BY DEF AccountsInv, RedeemAnswers
<1>2. req[r] \in Redeems BY <1>1, RedeemRecord DEF RedeemAnswers
<1> DEFINE u == req[r].user
           given == [user |-> u, token |-> token[u], issue |-> req[r].issue, age |-> req[r].age]
<1>3. u \in Users /\ req[r].phone \in Phones BY <1>2 DEF Redeems
<1>4. phone' = phone \/ (token[u] # 0 /\ phone' = [phone EXCEPT ![req[r].phone] = given])
  <2>1. phone' = IF token[u] = 0 THEN phone ELSE [phone EXCEPT ![req[r].phone] = given]
    BY DEF RedeemAnswers
  <2>2. CASE token[u] = 0 BY <2>1, <2>2
  <2>3. CASE token[u] # 0 BY <2>1, <2>3
  <2> QED BY <2>2, <2>3
<1>5. phone' \in [Phones -> {None} \cup Grants]
  <2>1. token[u] \in Nat /\ phone \in [Phones -> {None} \cup Grants]
    BY <1>1, <1>3 DEF TypeOK
  <2>2. given \in Grants BY <1>2, <1>3, <2>1 DEF Redeems, Grants
  <2> HIDE DEF given
  <2> QED BY <1>3, <1>4, <2>1, <2>2
<1>6. TokenInv'
  <2>1. UNCHANGED <<token, fresh>> /\ TokenInv BY <1>1 DEF tables, AccountsInv
  <2>2. given.user = u /\ given.token = token[u] OBVIOUS
  <2>3. phone \in [Phones -> {None} \cup Grants] BY <1>1 DEF TypeOK
  <2> HIDE DEF given, u
  <2>4. \A q \in Phones : phone'[q] # None =>
          phone'[q].token # 0 /\ token[phone'[q].user] = phone'[q].token
    BY <1>4, <2>1, <2>2, <2>3 DEF TokenInv
  <2> QED BY <2>1, <2>4 DEF TokenInv
<1>7. ReqInv(r)' /\ Idle \in Kinds BY <1>1, EndedIsFine
<1>8. /\ req' \in [Requests -> Kinds] /\ \A s \in Requests \ {r} : req'[s] = req[s]
  BY <1>1, <1>7, Turns DEF Ends
<1>9. TypeOK' BY <1>1, <1>5, <1>8 DEF TypeOK, Kinds, tables
<1>10. OneAccountPerMail' BY <1>1 DEF tables, AccountsInv, OneAccountPerMail, Accounts
<1>11. Kept BY <1>1 DEF Kept, tables
<1> QED BY <1>6, <1>7, <1>8, <1>9, <1>10, <1>11, OthersKeep DEF AccountsInv

LEMMA RegistrationRecord ==
  ASSUME TypeOK, NEW r \in Requests, LinkProviderDevice(r)
  PROVE  req[r] \in [op : {"register"}, device : Devices, token : Nat] /\ req[r].device \in Devices
<1> DEFINE x == req[r]
<1>1. x \in Kinds /\ x.op = "register" BY DEF TypeOK, Kinds, LinkProviderDevice
<1> HIDE DEF x
<1>2. x # Idle BY <1>1 DEF Idle
<1>3. x \notin SignIns BY <1>1 DEF SignIns
<1>4. x \notin Redeems BY <1>1 DEF Redeems
<1>5. x \in [op : {"register"}, device : Devices, token : Nat] BY <1>1, <1>2, <1>3, <1>4 DEF Kinds
<1> QED BY <1>5 DEF x

LEMMA LinkDeviceStep ==
  ASSUME AccountsInv, NEW r \in Requests, LinkProviderDevice(r)
  PROVE  AccountsInv'
<1>1. TypeOK /\ Ends(r)
      /\ UNCHANGED <<mail, ident, key, token, code, started, session, phone, fresh, count>>
  BY DEF AccountsInv, LinkProviderDevice
<1>2. req[r].device \in Devices BY <1>1, RegistrationRecord
<1> DEFINE d == req[r].device
<1>3. d \in Devices BY <1>2
<1>4. owner' \in [Devices -> Users \cup {None}]
  <2>1. PICK u \in UsersOfToken(req[r].token) : owner' = [owner EXCEPT ![d] = u]
    BY DEF LinkProviderDevice
  <2> QED BY <1>1, <2>1 DEF TypeOK, UsersOfToken
<1>5. firstSeen' \in Seq(Devices)
  BY <1>1, <1>3 DEF LinkProviderDevice, TypeOK
<1> QED BY <1>1, <1>4, <1>5, EndedIsFine, Unmoved, QuietRequest DEF Ends

(***************************************************************************)
(* The theorems.                                                           *)
(***************************************************************************)

KeptLogins == \A l \in Logins : ident[l] # None => ident'[l] = ident[l]

LEMMA NextAccounts ==
  ASSUME AccountsInv, [Next]_vars, AccountsAssumption
  PROVE  AccountsInv' /\ Kept /\ KeptLogins
<1> DEFINE Same == UNCHANGED <<mail, ident, key, token>>
<1>0. Same => Kept /\ KeptLogins BY DEF Kept, KeptLogins
<1> HIDE DEF Same
<1>1. CASE UNCHANGED vars
  <2>1. Same BY <1>1 DEF Same, vars, tables
  <2>2. AccountsInv'
    BY <1>1 DEF AccountsInv, TypeOK, OneAccountPerMail, Accounts, ReqInv, TokenInv, vars,
                tables
  <2> QED BY <1>0, <2>1, <2>2
<1>2. ASSUME NEW b \in Browsers, Start(b) \/ CallbackRejected(b) \/ SessionEnds(b)
      PROVE  AccountsInv' /\ Kept /\ KeptLogins
  <2>1. Same BY <1>2 DEF Same, Start, CallbackRejected, SessionEnds, tables
  <2> QED BY <1>0, <1>2, <2>1, BrowserSteps
<1>3. ASSUME NEW r \in Requests, NEW b \in Browsers, NEW l \in Logins, Callback(r, b, l)
      PROVE  AccountsInv' /\ Kept /\ KeptLogins
  <2>1. Same BY <1>3 DEF Same, Callback, tables
  <2> QED BY <1>0, <1>3, <2>1, CallbackStep
<1>4. CASE \/ DropOldCodes
           \/ \E c \in Codes : CodeAges(c) \/ \E b \in Browsers : CreatePairCode(b, c)
  <2>1. Same BY <1>4 DEF Same, DropOldCodes, CodeAges, CreatePairCode
  <2> QED BY <1>0, <1>4, <2>1, CodeSteps
<1>5. ASSUME NEW r \in Requests, NEW p \in Phones, NEW c \in Codes, Redeem(r, p, c)
      PROVE  AccountsInv' /\ Kept /\ KeptLogins
  <2>1. Same BY <1>5 DEF Same, Redeem
  <2> QED BY <1>0, <1>5, <2>1, RedeemStep
<1>6. ASSUME NEW r \in Requests, NEW d \in Devices, NEW t \in TokensShown, Register(r, d, t)
      PROVE  AccountsInv' /\ Kept /\ KeptLogins
  <2>1. Same BY <1>6 DEF Same, Register, tables
  <2> QED BY <1>0, <1>6, <2>1, RegisterStep
<1>7. ASSUME NEW r \in Requests,
             SignInStep(r) \/ RedeemAnswers(r) \/ RedeemFails(r)
               \/ LinkProviderDevice(r) \/ LinkFails(r)
      PROVE  AccountsInv' /\ Kept /\ KeptLogins
  <2>1. CASE Look(r)
    <3>1. Same BY <2>1 DEF Same, Look, tables
    <3> QED BY <1>0, <2>1, <3>1, LookStep
  <2>2. CASE Commit(r) BY <2>2, CommitStep DEF KeptLogins
  <2>3. CASE CommitFails(r) BY <2>3, CommitFailsStep DEF KeptLogins
  <2>4. CASE LookForKey(r)
    <3>1. Same BY <2>4 DEF Same, LookForKey, tables
    <3> QED BY <1>0, <2>4, <3>1, LookForKeyStep
  <2>5. CASE MintKey(r)
    <3>1. Same BY <2>5 DEF Same, MintKey, tables
    <3> QED BY <1>0, <2>5, <3>1, MintKeyStep
  <2>6. CASE LinkKey(r) BY <2>6, LinkKeyStep DEF LinkKey, KeptLogins
  <2>7. CASE LinkToken(r) BY <2>7, LinkTokenStep DEF LinkToken, KeptLogins
  <2>8. CASE CredentialsFail(r)
    <3>1. Same BY <2>8 DEF Same, CredentialsFail, tables
    <3> QED BY <1>0, <2>8, <3>1, CredentialsFailStep
  <2>9. CASE OpenSession(r) \/ SessionFails(r) \/ RedeemFails(r) \/ LinkFails(r)
    <3>1. Same BY <2>9 DEF Same, OpenSession, SessionFails, RedeemFails, LinkFails, tables
    <3> QED BY <1>0, <2>9, <3>1, EndingSteps
  <2>10. CASE RedeemAnswers(r)
    <3>1. Same BY <2>10 DEF Same, RedeemAnswers, tables
    <3> QED BY <1>0, <2>10, <3>1, RedeemAnswersStep
  <2>11. CASE LinkProviderDevice(r)
    <3>1. Same BY <2>11 DEF Same, LinkProviderDevice
    <3> QED BY <1>0, <2>11, <3>1, LinkDeviceStep
  <2> QED BY <1>7, <2>1, <2>2, <2>3, <2>4, <2>5, <2>6, <2>7, <2>8, <2>9, <2>10, <2>11
          DEF SignInStep
<1> QED BY <1>1, <1>2, <1>3, <1>4, <1>5, <1>6, <1>7
       DEF Next, SigningIn, Pairing, Linking

\* The inductive invariant holds throughout.
THEOREM AccountsInvariant == Spec => []AccountsInv
<1>1. Init => AccountsInv BY InitAccounts, AccountsAssumption
<1>2. AccountsInv /\ [Next]_vars => AccountsInv' BY NextAccounts, AccountsAssumption
<1> QED BY <1>1, <1>2, PTL DEF Spec

\* However many callbacks of however many logins overlap, and whatever fails between
\* the statements of upsertUser, no two accounts stand for one address.
THEOREM AddressIsOneAccount == Spec => []OneAccountPerMail
<1>1. AccountsInv => OneAccountPerMail BY DEF AccountsInv
<1> QED BY <1>1, AccountsInvariant, PTL

(***************************************************************************)
(* The issues of pairing codes: each is spent by one request, which waits  *)
(* and then answers one phone.                                             *)
(***************************************************************************)

Waits(r) == req[r].op = "redeem"

\* No issue is ahead of the count, and what was spent was fresh.
IssueInv ==
  /\ \A c \in Codes : code[c] # None => code[c].issue <= count.codes
  /\ \A r \in Requests : Waits(r) => req[r].issue <= count.codes /\ req[r].age = 0
  /\ \A p \in Phones : phone[p] # None => phone[p].issue <= count.codes /\ phone[p].age = 0

\* An issue has one row, and once that is spent one request or one phone.
SpentInv ==
  /\ \A c, d \in Codes :
       code[c] # None /\ code[d] # None /\ code[c].issue = code[d].issue => c = d
  /\ \A c \in Codes : code[c] # None /\ ~code[c].used =>
       /\ \A r \in Requests : Waits(r) => req[r].issue # code[c].issue
       /\ \A p \in Phones : phone[p] # None => phone[p].issue # code[c].issue
  /\ \A r, s \in Requests :
       Waits(r) /\ Waits(s) /\ req[r].issue = req[s].issue => r = s
  /\ \A p, q \in Phones :
       phone[p] # None /\ phone[q] # None /\ phone[p].issue = phone[q].issue => p = q
  /\ \A r \in Requests, p \in Phones :
       Waits(r) /\ phone[p] # None => req[r].issue # phone[p].issue

CodeInv == IssueInv /\ SpentInv

\* Issues are numbers.
LEMMA IssueTypes ==
  ASSUME TypeOK
  PROVE  /\ count.codes \in Nat
         /\ \A c \in Codes : code[c] # None => code[c].issue \in Nat
         /\ \A r \in Requests : Waits(r) => req[r].issue \in Nat
         /\ \A p \in Phones : phone[p] # None => phone[p].issue \in Nat
<1>1. \A r \in Requests : Waits(r) => req[r].issue \in Nat
  BY RedeemRecord DEF Waits, Redeems
<1> QED BY <1>1 DEF TypeOK, Rows, Grants

\* A step that spends no code and answers none: rows may go, and requests that wait end.
LEMMA NoneSpent ==
  ASSUME TypeOK, CodeInv, phone' = phone,
         count'.codes \in Nat, count.codes <= count'.codes,
         \A c \in Codes : code'[c] # None =>
           code[c] # None /\ code'[c].issue = code[c].issue /\ code'[c].used = code[c].used,
         \A r \in Requests : Waits(r)' => Waits(r) /\ req'[r] = req[r]
  PROVE  CodeInv'
<1>1. IssueInv' BY IssueTypes DEF CodeInv, IssueInv
<1>2. SpentInv' BY DEF CodeInv, SpentInv
<1> QED BY <1>1, <1>2 DEF CodeInv

\* A request goes on to something that is no wait.
Leaves(r) == \E x : req' = [req EXCEPT ![r] = x] /\ x.op # "redeem"

LEMMA LeavingSpendsNone ==
  ASSUME TypeOK, CodeInv, UNCHANGED <<code, phone>>,
         count'.codes \in Nat, count.codes <= count'.codes,
         NEW r \in Requests, Leaves(r)
  PROVE  CodeInv'
<1>1. PICK x : req' = [req EXCEPT ![r] = x] /\ x.op # "redeem" BY DEF Leaves
<1>2. req'[r] = x /\ \A s \in Requests \ {r} : req'[s] = req[s] BY <1>1 DEF TypeOK
<1>3. \A s \in Requests : Waits(s)' => Waits(s) /\ req'[s] = req[s] BY <1>1, <1>2 DEF Waits
<1> QED BY <1>3, NoneSpent

LEMMA EndLeaves ==
  ASSUME NEW r \in Requests, Ends(r)
  PROVE  Leaves(r)
<1>1. Idle.op # "redeem" BY DEF Idle
<1>2. req' = [req EXCEPT ![r] = Idle] BY DEF Ends
<1> QED BY <1>1, <1>2 DEF Leaves

\* The steps of a sign-in lead to another one of its places, or to the end.
LEMMA SignInLeaves ==
  ASSUME TypeOK, NEW r \in Requests, SignInStep(r)
  PROVE  Leaves(r)
<1>1. req[r] \in SignIns
  BY SignInRecord
  DEF SignInStep, Look, Commit, CommitFails, LookForKey, MintKey, LinkKey, LinkToken,
      CredentialsFail, OpenSession, SessionFails, SignInOps
<1>2. req \in [Requests -> Kinds] BY DEF TypeOK, Kinds
<1>3. CASE Ends(r) BY <1>3, EndLeaves
<1>4. ASSUME NEW o \in SignInOps, GoOn(r, o) PROVE Leaves(r)
  <2>1. req' = [req EXCEPT ![r] = [req[r] EXCEPT !.op = o]] BY <1>4 DEF GoOn
  <2>2. [req[r] EXCEPT !.op = o].op = o BY <1>1 DEF SignIns
  <2> QED BY <2>1, <2>2 DEF Leaves, SignInOps
<1>5. ASSUME NEW o \in SignInOps, NEW u, req' = [req EXCEPT ![r].op = o, ![r].user = u]
      PROVE  Leaves(r)
  <2>1. req' = [req EXCEPT ![r] = [req[r] EXCEPT !.op = o, !.user = u]] BY <1>2, <1>5
  <2>2. [req[r] EXCEPT !.op = o, !.user = u].op = o BY <1>1 DEF SignIns
  <2> QED BY <2>1, <2>2 DEF Leaves, SignInOps
<1>6. CASE Look(r) BY <1>5, <1>6 DEF Look, SignInOps
<1>7. CASE Commit(r) BY <1>3, <1>5, <1>7 DEF Commit, SignInOps
<1>8. CASE CommitFails(r) \/ OpenSession(r) \/ SessionFails(r)
  BY <1>3, <1>8 DEF CommitFails, OpenSession, SessionFails
<1>9. CASE LookForKey(r) BY <1>4, <1>9 DEF LookForKey, SignInOps
<1>10. CASE LinkKey(r) \/ LinkToken(r) BY <1>4, <1>10 DEF LinkKey, LinkToken, SignInOps
<1>11. CASE MintKey(r)
  <2>1. req' = [req EXCEPT ![r] = [req[r] EXCEPT !.op = "link", !.new = fresh + 1]]
    BY <1>2, <1>11 DEF MintKey
  <2>2. [req[r] EXCEPT !.op = "link", !.new = fresh + 1].op = "link" BY <1>1 DEF SignIns
  <2> QED BY <2>1, <2>2 DEF Leaves
<1>12. CASE CredentialsFail(r)
  <2>1. req' = [req EXCEPT ![r] = [req[r] EXCEPT !.op = "session", !.clean = FALSE]]
    BY <1>2, <1>12 DEF CredentialsFail
  <2>2. [req[r] EXCEPT !.op = "session", !.clean = FALSE].op = "session" BY <1>1 DEF SignIns
  <2> QED BY <2>1, <2>2 DEF Leaves
<1> QED BY <1>6, <1>7, <1>8, <1>9, <1>10, <1>11, <1>12 DEF SignInStep

\* What is counted, other than codes.
LEMMA CodesNotCounted ==
  ASSUME TypeOK, UNCHANGED count \/ \E e \in {"signIns", "links", "faults"} : Counted(e)
  PROVE  count'.codes \in Nat /\ count.codes <= count'.codes
<1>1. count.codes \in Nat /\ count'.codes = count.codes BY DEF TypeOK, Counted
<1> QED BY <1>1

\* A code is created under a number of its own.
LEMMA CreateKeepsCodes ==
  ASSUME TypeOK, CodeInv, NEW b \in Browsers, NEW c \in Codes, CreatePairCode(b, c)
  PROVE  CodeInv'
<1>1. /\ req' = req /\ phone' = phone /\ code[c] = None
      /\ count.codes \in Nat /\ count'.codes = count.codes + 1
  BY DEF CreatePairCode, TypeOK, Counted
<1>2. /\ code'[c].issue = count.codes + 1
      /\ \A d \in Codes \ {c} : code'[d] = code[d]
  BY DEF CreatePairCode, TypeOK
<1>3. IssueInv'
  <2>1. \A d \in Codes : code'[d] # None => code'[d].issue <= count'.codes
    BY <1>1, <1>2, IssueTypes DEF CodeInv, IssueInv
  <2>2. \A r \in Requests : Waits(r)' => req'[r].issue <= count'.codes /\ req'[r].age = 0
    BY <1>1, IssueTypes DEF CodeInv, IssueInv, Waits
  <2>3. \A p \in Phones : phone'[p] # None => phone'[p].issue <= count'.codes /\ phone'[p].age = 0
    BY <1>1, IssueTypes DEF CodeInv, IssueInv
  <2> QED BY <2>1, <2>2, <2>3 DEF IssueInv, Waits
<1>4. SpentInv'
  <2>1. /\ \A d \in Codes : code[d] # None => code[d].issue # count.codes + 1
        /\ \A r \in Requests : Waits(r) => req[r].issue # count.codes + 1
        /\ \A p \in Phones : phone[p] # None => phone[p].issue # count.codes + 1
    BY <1>1, IssueTypes DEF CodeInv, IssueInv
  <2> QED BY <1>1, <1>2, <2>1 DEF CodeInv, SpentInv, Waits
<1> QED BY <1>3, <1>4 DEF CodeInv

\* A code that is fresh and not spent is spent by the request that then waits.
LEMMA RedeemKeepsCodes ==
  ASSUME TypeOK, CodeInv, NEW r \in Requests, NEW p \in Phones, NEW c \in Codes, Redeem(r, p, c)
  PROVE  CodeInv'
<1>1. /\ phone' = phone /\ count' = count
      /\ code[c] # None /\ ~code[c].used /\ code[c].age = 0 /\ ~Waits(r)
  BY DEF Redeem, Redeemable, Waits, Idle
<1>2. req'[r].issue = code[c].issue /\ req'[r].age = 0
      /\ \A s \in Requests \ {r} : req'[s] = req[s]
  BY <1>1 DEF Redeem, TypeOK
<1>3. code[c] \in Rows BY <1>1 DEF TypeOK
<1>4. /\ code'[c].used /\ code'[c].issue = code[c].issue
      /\ \A d \in Codes \ {c} : code'[d] = code[d]
  BY <1>3 DEF Redeem, TypeOK, Rows
<1>5. IssueInv'
  <2>1. \A d \in Codes : code'[d] # None => code'[d].issue <= count'.codes
    BY <1>1, <1>4 DEF CodeInv, IssueInv
  <2>2. \A s \in Requests : Waits(s)' => req'[s].issue <= count'.codes /\ req'[s].age = 0
    BY <1>1, <1>2 DEF CodeInv, IssueInv, Waits
  <2> QED BY <1>1, <2>1, <2>2 DEF CodeInv, IssueInv, Waits
<1>6. SpentInv'
  <2>1. \A d, e \in Codes :
          code'[d] # None /\ code'[e] # None /\ code'[d].issue = code'[e].issue => d = e
    BY <1>1, <1>4 DEF CodeInv, SpentInv
  <2>2. \A d \in Codes : code'[d] # None /\ ~code'[d].used =>
          /\ \A s \in Requests : Waits(s)' => req'[s].issue # code'[d].issue
          /\ \A q \in Phones : phone'[q] # None => phone'[q].issue # code'[d].issue
    BY <1>1, <1>2, <1>4 DEF CodeInv, SpentInv, Waits
  <2>3. \A s, t \in Requests :
          Waits(s)' /\ Waits(t)' /\ req'[s].issue = req'[t].issue => s = t
    BY <1>1, <1>2 DEF CodeInv, SpentInv, Waits
  <2>4. \A s \in Requests, q \in Phones :
          Waits(s)' /\ phone'[q] # None => req'[s].issue # phone'[q].issue
    BY <1>1, <1>2 DEF CodeInv, SpentInv, Waits
  <2> QED BY <1>1, <2>1, <2>2, <2>3, <2>4 DEF CodeInv, SpentInv, Waits
<1> QED BY <1>5, <1>6 DEF CodeInv

\* The request that waited hands its issue to one phone.
LEMMA AnswerKeepsCodes ==
  ASSUME TypeOK, CodeInv, NEW r \in Requests, RedeemAnswers(r)
  PROVE  CodeInv'
<1>1. code' = code /\ count' = count /\ Waits(r) /\ ~Waits(r)'
      /\ \A s \in Requests \ {r} : req'[s] = req[s]
  BY DEF RedeemAnswers, tables, Waits, Ends, Idle, TypeOK
<1>2. req[r] \in Redeems BY <1>1, RedeemRecord DEF Waits
<1>3. CASE phone' = phone
  BY <1>1, <1>3, CodesNotCounted, NoneSpent DEF Waits
<1>4. CASE phone' = [phone EXCEPT ![req[r].phone] =
                       [user |-> req[r].user, token |-> token[req[r].user],
                        issue |-> req[r].issue, age |-> req[r].age]]
  <2> DEFINE p == req[r].phone
  <2>1. p \in Phones BY <1>2 DEF Redeems
  <2>2. /\ phone'[p].issue = req[r].issue /\ phone'[p].age = req[r].age
        /\ \A q \in Phones \ {p} : phone'[q] = phone[q]
    BY <1>4, <2>1 DEF TypeOK
  <2> HIDE DEF p
  <2>3. IssueInv'
    <3>1. \A q \in Phones : phone'[q] # None => phone'[q].issue <= count'.codes /\ phone'[q].age = 0
      BY <1>1, <2>1, <2>2 DEF CodeInv, IssueInv
    <3> QED BY <1>1, <3>1 DEF CodeInv, IssueInv, Waits
  <2>4. SpentInv'
    <3>1. \A c \in Codes : code'[c] # None /\ ~code'[c].used =>
            /\ \A s \in Requests : Waits(s)' => req'[s].issue # code'[c].issue
            /\ \A q \in Phones : phone'[q] # None => phone'[q].issue # code'[c].issue
      BY <1>1, <2>1, <2>2 DEF CodeInv, SpentInv, Waits
    <3>2. \A q, t \in Phones :
            phone'[q] # None /\ phone'[t] # None /\ phone'[q].issue = phone'[t].issue => q = t
      BY <1>1, <2>1, <2>2 DEF CodeInv, SpentInv
    <3>3. \A s \in Requests, q \in Phones :
            Waits(s)' /\ phone'[q] # None => req'[s].issue # phone'[q].issue
      BY <1>1, <2>1, <2>2 DEF CodeInv, SpentInv, Waits
    <3> QED BY <1>1, <3>1, <3>2, <3>3 DEF CodeInv, SpentInv, Waits
  <2> QED BY <2>3, <2>4 DEF CodeInv
<1>5. phone' = phone \/ <1>4!1
  <2>1. CASE token[req[r].user] = 0 BY <2>1 DEF RedeemAnswers
  <2>2. CASE token[req[r].user] # 0 BY <2>2 DEF RedeemAnswers
  <2> QED BY <2>1, <2>2
<1> QED BY <1>3, <1>4, <1>5

LEMMA NextCodes ==
  ASSUME TypeOK, CodeInv, [Next]_vars
  PROVE  CodeInv'
<1>1. CASE UNCHANGED vars
  BY <1>1, CodesNotCounted, NoneSpent DEF vars, tables, Waits
<1>2. ASSUME NEW b \in Browsers, Start(b) \/ CallbackRejected(b) \/ SessionEnds(b)
      PROVE  CodeInv'
  <2>1. UNCHANGED <<code, phone, req, count>>
    BY <1>2 DEF Start, CallbackRejected, SessionEnds, tables
  <2> QED BY <2>1, CodesNotCounted, NoneSpent DEF Waits
<1>3. ASSUME NEW r \in Requests, NEW b \in Browsers, NEW l \in Logins, Callback(r, b, l)
      PROVE  CodeInv'
  <2>1. Leaves(r)
    <3> DEFINE x(m) == [op |-> "look", browser |-> b, login |-> l, mail |-> m,
                        user |-> None, new |-> 0, clean |-> TRUE]
    <3>1. PICK m \in MailsOf(l) \ {None} : req' = [req EXCEPT ![r] = x(m)]
      BY <1>3 DEF Callback
    <3>2. x(m).op # "redeem" OBVIOUS
    <3> HIDE DEF x
    <3> QED BY <3>1, <3>2 DEF Leaves
  <2>2. UNCHANGED <<code, phone>> /\ Counted("signIns") BY <1>3 DEF Callback, tables
  <2> QED BY <2>1, <2>2, CodesNotCounted, LeavingSpendsNone
<1>4. ASSUME NEW r \in Requests, SignInStep(r) PROVE CodeInv'
  <2>1. Leaves(r) BY <1>4, SignInLeaves
  <2>2. UNCHANGED <<code, phone>> /\ (UNCHANGED count \/ Counted("faults"))
    BY <1>4 DEF SignInStep, Look, Commit, CommitFails, LookForKey, MintKey, LinkKey, LinkToken,
                CredentialsFail, OpenSession, SessionFails, tables
  <2> QED BY <2>1, <2>2, CodesNotCounted, LeavingSpendsNone
<1>5. ASSUME NEW b \in Browsers, NEW c \in Codes, CreatePairCode(b, c) PROVE CodeInv'
  BY <1>5, CreateKeepsCodes
<1>6. ASSUME DropOldCodes \/ \E c \in Codes : CodeAges(c) PROVE CodeInv'
  <2>1. UNCHANGED <<req, phone, count>> BY <1>6 DEF DropOldCodes, CodeAges
  <2>2. \A d \in Codes : code'[d] # None =>
          code[d] # None /\ code'[d].issue = code[d].issue /\ code'[d].used = code[d].used
    <3>1. CASE DropOldCodes BY <3>1 DEF DropOldCodes
    <3>2. ASSUME NEW c \in Codes, CodeAges(c) PROVE <2>2
      <4>1. code[c] \in Rows BY <3>2 DEF CodeAges, TypeOK
      <4>2. code' = [code EXCEPT ![c] = [code[c] EXCEPT !.age = @ + 1]] BY <3>2 DEF CodeAges
      <4>3. /\ [code[c] EXCEPT !.age = @ + 1].issue = code[c].issue
            /\ [code[c] EXCEPT !.age = @ + 1].used = code[c].used
        BY <4>1 DEF Rows
      <4> QED BY <3>2, <4>2, <4>3 DEF CodeAges, TypeOK
    <3> QED BY <1>6, <3>1, <3>2
  <2> QED BY <2>1, <2>2, CodesNotCounted, NoneSpent DEF Waits
<1>7. ASSUME NEW r \in Requests, NEW p \in Phones, NEW c \in Codes, Redeem(r, p, c)
      PROVE  CodeInv'
  BY <1>7, RedeemKeepsCodes
<1>8. ASSUME NEW r \in Requests, RedeemAnswers(r) PROVE CodeInv'
  BY <1>8, AnswerKeepsCodes
<1>9. ASSUME NEW r \in Requests, RedeemFails(r) \/ LinkProviderDevice(r) \/ LinkFails(r)
      PROVE  CodeInv'
  <2>1. Leaves(r)
    <3>1. Ends(r) BY <1>9 DEF RedeemFails, LinkProviderDevice, LinkFails
    <3> QED BY <3>1, EndLeaves
  <2>2. UNCHANGED <<code, phone>> /\ (UNCHANGED count \/ Counted("faults"))
    BY <1>9 DEF RedeemFails, LinkProviderDevice, LinkFails, tables
  <2> QED BY <2>1, <2>2, CodesNotCounted, LeavingSpendsNone
<1>10. ASSUME NEW r \in Requests, NEW d \in Devices, NEW t \in TokensShown, Register(r, d, t)
       PROVE  CodeInv'
  <2>1. Leaves(r)
    <3> DEFINE x == [op |-> "register", device |-> d, token |-> t]
    <3>1. req' = [req EXCEPT ![r] = x] BY <1>10 DEF Register
    <3>2. x.op # "redeem" OBVIOUS
    <3> HIDE DEF x
    <3> QED BY <3>1, <3>2 DEF Leaves
  <2>2. UNCHANGED <<code, phone>> /\ Counted("links") BY <1>10 DEF Register, tables
  <2> QED BY <2>1, <2>2, CodesNotCounted, LeavingSpendsNone
<1> QED BY <1>1, <1>2, <1>3, <1>4, <1>5, <1>6, <1>7, <1>8, <1>9, <1>10
        DEF Next, SigningIn, Pairing, Linking

\* Every phone was paired by a code that was fresh when it was spent, with the token of the
\* account the code was created for, and by a creation of a code that paired no other
\* phone, however requests overlap and characters are drawn again (RedeemPairCode).
THEOREM CodesAreSpent == Spec => []CodeSingleUse
<1>1. AccountsInv /\ CodeInv => CodeSingleUse
  <2> SUFFICES ASSUME AccountsInv, CodeInv PROVE CodeSingleUse OBVIOUS
  <2>1. ASSUME NEW p \in Phones, phone[p] # None
        PROVE  UsersOfToken(phone[p].token) = {phone[p].user}
    <3>1. phone[p].user \in Users BY <2>1 DEF AccountsInv, TypeOK, Grants
    <3>2. phone[p].token # 0 /\ token[phone[p].user] = phone[p].token
      BY <2>1 DEF AccountsInv, TokenInv
    <3>3. \A u, v \in Users : token[u] = token[v] /\ token[u] # 0 => u = v
      BY DEF AccountsInv, TokenInv
    <3> QED BY <3>1, <3>2, <3>3 DEF UsersOfToken
  <2>2. ASSUME NEW p \in Phones, phone[p] # None
        PROVE  /\ phone[p].age = 0
               /\ \A q \in Phones \ {p} : phone[q] # None => phone[q].issue # phone[p].issue
    BY <2>2 DEF CodeInv, IssueInv, SpentInv
  <2> QED BY <2>1, <2>2 DEF CodeSingleUse
<1>2. Init => CodeInv BY DEF Init, CodeInv, IssueInv, SpentInv, Waits, Idle
<1>3. AccountsInv /\ CodeInv /\ [Next]_vars => CodeInv' BY NextCodes DEF AccountsInv
<1> QED BY <1>1, <1>2, <1>3, AccountsInvariant, PTL DEF Spec

\* No step of any request moves a login to another account, or changes an account's
\* address, key or token (the ON CONFLICT clauses of ensureUserCredentials).
THEOREM NothingIsTakenAway == Spec => AccountsKeepTheirs
<1>1. AccountsInv /\ [Next]_vars =>
        [/\ \A l \in Logins : ident[l] # None => ident'[l] = ident[l]
         /\ \A u \in Users : /\ mail[u] # None => mail'[u] = mail[u]
                             /\ key[u] # 0 => key'[u] = key[u]
                             /\ token[u] # 0 => token'[u] = token[u]]_vars
  BY NextAccounts, AccountsAssumption DEF Kept, KeptLogins
<1> QED BY <1>1, AccountsInvariant, PTL DEF Spec, AccountsKeepTheirs

\* A sign-in that went through leaves the browser on an account with both credentials,
\* whatever earlier sign-ins of the account left undone (ensureUserCredentials).
THEOREM SignInIsEquipped == Spec => SignInEquips
<1>1. AccountsInv /\ AccountsInv' /\ [Next]_vars =>
        [\A r \in Requests, b \in Browsers :
           /\ req[r].op = "session" /\ req[r].browser = b /\ req[r].clean
           /\ req'[r] = Idle /\ session'[b] = req[r].user
           => Me(b)'.api_key # 0 /\ Me(b)'.provider_token # 0]_vars
  <2> SUFFICES ASSUME AccountsInv, AccountsInv', [Next]_vars, NEW r \in Requests, NEW b \in Browsers,
                      req[r].op = "session", req[r].clean, session'[b] = req[r].user
               PROVE  Me(b)'.api_key # 0 /\ Me(b)'.provider_token # 0
    OBVIOUS
  <2>1. /\ req[r].user \in Users /\ key[req[r].user] # 0 /\ token[req[r].user] # 0
    BY DEF AccountsInv, ReqInv, Bound
  <2>2. key'[req[r].user] # 0 /\ token'[req[r].user] # 0
    BY <2>1, NextAccounts, AccountsAssumption DEF Kept
  <2> QED BY <2>2 DEF Me, KeyIDForRequest, SessionUser
<1> QED BY <1>1, AccountsInvariant, PTL DEF Spec, SignInEquips

(***************************************************************************)
(* The founding rank.                                                      *)
(***************************************************************************)

\* A set of places has a first one: its finite initial parts have a smallest.
LEMMA FirstPlace ==
  ASSUME NEW n \in Nat, NEW T \in SUBSET (1 .. n), T # {}
  PROVE  \E i \in T : \A j \in T : i <= j
<1> DEFINE Initial(k) == T \cap (1 .. k)
           Initials == {Initial(k) : k \in T}
<1>1. IsFiniteSet(T)
  <2>1. IsFiniteSet(1 .. n) BY FS_Interval
  <2> QED BY <2>1, FS_Subset
<1>2. \A k \in T : IsFiniteSet(Initial(k)) /\ Initial(k) \in SUBSET T BY <1>1, FS_Subset
<1>3. Initials \subseteq FiniteSubsetsOf(T) /\ Initials # {} BY <1>2 DEF FiniteSubsetsOf
<1> HIDE DEF Initials
<1>4. \E X \in Initials : \A Y \in Initials : <<Y, X>> \notin StrictSubsetOrdering(T)
  BY <1>3, FS_StrictSubsetOrderingWellFounded, WFMin
<1>5. PICK i \in T : \A j \in T : <<Initial(j), Initial(i)>> \notin StrictSubsetOrdering(T)
  BY <1>4 DEF Initials
<1>6. ASSUME NEW j \in T, j < i PROVE FALSE
  <2>1. Initial(j) \subseteq Initial(i) /\ i \in Initial(i) /\ i \notin Initial(j)
    BY <1>6
  <2>2. <<Initial(j), Initial(i)>> \in StrictSubsetOrdering(T)
    BY <1>2, <2>1 DEF StrictSubsetOrdering
  <2> QED BY <1>5, <2>2
<1> QED BY <1>5, <1>6

Places(u) == {i \in DOMAIN firstSeen : owner[firstSeen[i]] = u}

First(T) == IF T = {} THEN 0 ELSE CHOOSE i \in T : \A j \in T : i <= j

LEMMA FirstIsFirst ==
  ASSUME NEW T, NEW n \in Nat, T \subseteq 1 .. n, T # {}
  PROVE  First(T) \in T /\ First(T) \in Nat \ {0} /\ \A j \in T : First(T) <= j
<1> DEFINE w == CHOOSE i \in T : \A j \in T : i <= j
<1>1. \E i \in T : \A j \in T : i <= j BY FirstPlace
<1>2. w \in T /\ \A j \in T : w <= j BY <1>1
<1>3. First(T) = w BY DEF First
<1> HIDE DEF w
<1> QED BY <1>2, <1>3

LEMMA RankMoves ==
  ASSUME AccountsInv, AccountsInv', NEW u \in Users, AccountsAssumption,
         \/ firstSeen' = firstSeen
         \/ \E d \in Devices : owner[d] = None /\ firstSeen' = Append(firstSeen, d),
         FoundingRank(u) # 0, DevicePKsForUser(u) \subseteq DevicePKsForUser(u)'
  PROVE  \/ FoundingRank(u)' = FoundingRank(u)
         \/ FoundingRank(u)' < FoundingRank(u) /\ DevicePKsForUser(u) # DevicePKsForUser(u)'
<1>1. firstSeen \in Seq(Devices) /\ firstSeen' \in Seq(Devices) /\ u # None
  BY DEF AccountsInv, TypeOK, AccountsAssumption
<1>0. FoundingRank(u) = First(Places(u)) /\ FoundingRank(u)' = First(Places(u)')
  BY DEF FoundingRank, Places, First
<1>2. /\ Places(u) \subseteq 1 .. Len(firstSeen) /\ Places(u)' \subseteq 1 .. Len(firstSeen')
      /\ Len(firstSeen) \in Nat /\ Len(firstSeen') \in Nat /\ Places(u) # {}
  BY <1>0, <1>1 DEF Places, First
<1>3. \A i \in DOMAIN firstSeen : i \in DOMAIN firstSeen' /\ firstSeen'[i] = firstSeen[i]
  BY <1>1
<1>4. Places(u) \subseteq Places(u)'
  BY <1>1, <1>3 DEF Places, DevicePKsForUser
<1>5. /\ FoundingRank(u)' \in Places(u)' /\ FoundingRank(u)' \in Nat
      /\ \A j \in Places(u)' : FoundingRank(u)' <= j
  BY <1>0, <1>2, <1>4, FirstIsFirst
<1>6. /\ FoundingRank(u) \in Places(u) /\ FoundingRank(u) \in Nat
      /\ \A j \in Places(u) : FoundingRank(u) <= j
  BY <1>0, <1>2, FirstIsFirst
<1>7. FoundingRank(u)' <= FoundingRank(u) BY <1>4, <1>5, <1>6
<1>8. ASSUME DevicePKsForUser(u) = DevicePKsForUser(u)'
      PROVE  Places(u)' \subseteq Places(u)
  <2> SUFFICES ASSUME NEW i \in Places(u)' PROVE i \in Places(u) OBVIOUS
  <2>1. i \in DOMAIN firstSeen' /\ firstSeen'[i] \in DevicePKsForUser(u)
    BY <1>1, <1>8 DEF Places, DevicePKsForUser
  <2>2. owner[firstSeen'[i]] = u BY <2>1 DEF DevicePKsForUser
  <2>3. i \in DOMAIN firstSeen
    <3>1. CASE firstSeen' = firstSeen BY <2>1, <3>1
    <3>2. ASSUME NEW d \in Devices, owner[d] = None, firstSeen' = Append(firstSeen, d)
          PROVE  i \in DOMAIN firstSeen
      BY <1>1, <2>1, <2>2, <3>2
    <3> QED BY <3>1, <3>2
  <2> QED BY <1>3, <2>2, <2>3 DEF Places
<1> QED BY <1>4, <1>5, <1>6, <1>7, <1>8

\* Nobody else's joining or reconnecting moves an account among those who joined first
\* (provider_owners.first_seen); it loses its place only with its own device.
THEOREM FoundersKeepTheirRank == Spec => RankIsKept
<1>1. AccountsInv /\ AccountsInv' /\ [Next]_vars =>
        [\A u \in Users :
           FoundingRank(u) # 0 /\ DevicePKsForUser(u) \subseteq DevicePKsForUser(u)'
             => \/ FoundingRank(u)' = FoundingRank(u)
                \/ FoundingRank(u)' < FoundingRank(u) /\ DevicePKsForUser(u) # DevicePKsForUser(u)']_vars
  <2> SUFFICES ASSUME AccountsInv, AccountsInv', [Next]_vars, NEW u \in Users,
                      FoundingRank(u) # 0, DevicePKsForUser(u) \subseteq DevicePKsForUser(u)'
               PROVE  \/ FoundingRank(u)' = FoundingRank(u)
                      \/ FoundingRank(u)' < FoundingRank(u) /\ DevicePKsForUser(u) # DevicePKsForUser(u)'
    OBVIOUS
  <2>1. \/ firstSeen' = firstSeen
        \/ \E r \in Requests : LinkProviderDevice(r)
    BY DEF Next, SigningIn, Pairing, Linking, vars, tables, Start, CallbackRejected,
           SessionEnds, Callback, CreatePairCode, DropOldCodes, CodeAges, Redeem, Register, SignInStep, Look, Commit, CommitFails, LookForKey, MintKey,
           LinkKey, LinkToken, CredentialsFail, OpenSession, SessionFails, RedeemAnswers,
           RedeemFails, LinkFails
  <2>2. ASSUME NEW r \in Requests, LinkProviderDevice(r)
        PROVE  \/ firstSeen' = firstSeen
               \/ \E d \in Devices : owner[d] = None /\ firstSeen' = Append(firstSeen, d)
    <3> DEFINE d == req[r].device
    <3>1. firstSeen' = IF owner[d] = None THEN Append(firstSeen, d) ELSE firstSeen
      BY <2>2 DEF LinkProviderDevice
    <3>2. d \in Devices BY <2>2, RegistrationRecord DEF AccountsInv
    <3> HIDE DEF d
    <3> QED BY <3>1, <3>2
  <2> QED BY <2>1, <2>2, RankMoves, AccountsAssumption
<1> QED BY <1>1, AccountsInvariant, PTL DEF Spec, RankIsKept

--------------------------------------------------------------------------------
(***************************************************************************)
(* Invitations: any accounts and codes, any number of requests, draws,     *)
(* claims and faults (Referrals, instantiated).                            *)
(***************************************************************************)
\* The longest time that somebody may be shown after opting out is a number of ticks.
LEMMA ShownTicks ==
  ASSUME R!ReferralAssumption
  PROVE  R!ShownAtMost \in Nat /\ R!ShownAtMost = MaxFill + (Ttl - 1) + (Ttl - 1)
BY DEF R!ReferralAssumption, R!ShownAtMost

LEMMA InitReferrals == ASSUME R!ReferralAssumption, R!Init PROVE R!ReferralInv
<1> USE DEF R!Init, R!Idle
<1>1. R!TypeOK
  <2>1. Ttl \in 0..Ttl /\ R!ShownAtMost + 1 \in 0..(R!ShownAtMost + 1)
    BY ShownTicks DEF R!ReferralAssumption
  <2>2. gone \in [Inviters -> 0..(R!ShownAtMost + 1)] BY <2>1
  <2>3. cache \in R!Answers(0..Ttl) /\ copy \in R!Answers(0..Ttl) BY <2>1 DEF R!Answers
  <2>4. applied \in [Inviters -> Seq(Inviters)] OBVIOUS
  <2>5. claims \in Nat /\ failures \in Nat OBVIOUS
  <2> QED BY <2>2, <2>3, <2>4, <2>5 DEF R!TypeOK
<1>2. R!CodeAgrees /\ R!ClaimedOnce /\ R!OptOutIsHonoured
  BY DEF R!CodeAgrees, R!ClaimedOnce, R!OptOutIsHonoured
<1>3. R!CodesDiffer /\ R!BoardInv BY DEF R!CodesDiffer, R!BoardInv
<1> QED BY <1>1, <1>2, <1>3 DEF R!ReferralInv

\* What the record of a request at work holds.
LEMMA InviteRecord ==
  ASSUME R!TypeOK, NEW r \in Tabs, asked[r].op \in {"look", "draw", "apply"}
  PROVE  /\ asked[r].user \in Inviters
         /\ asked[r].op \in {"look", "draw"} =>
              asked[r] \in [op : {"look", "draw"}, user : Inviters, tries : Nat]
         /\ asked[r].op = "apply" => asked[r].referrer \in Inviters
<1> DEFINE x == asked[r]
<1>1. x \in {R!Idle} \cup [op : {"look", "draw"}, user : Inviters, tries : Nat]
                     \cup [op : {"apply"}, user : Inviters, referrer : Inviters]
  BY DEF R!TypeOK
<1>2. x # R!Idle BY DEF R!Idle
<1> HIDE DEF x
<1> QED BY <1>1, <1>2 DEF x

\* Whatever else it does, a step leaves a request idle or with a record of its kind.
LEMMA AskedStaysTyped ==
  ASSUME R!TypeOK, NEW r \in Tabs, NEW x,
         x \in {R!Idle} \cup [op : {"look", "draw"}, user : Inviters, tries : Nat]
                 \cup [op : {"apply"}, user : Inviters, referrer : Inviters],
         asked' = [asked EXCEPT ![r] = x]
  PROVE  asked' \in [Tabs ->
                       {R!Idle} \cup [op : {"look", "draw"}, user : Inviters, tries : Nat]
                         \cup [op : {"apply"}, user : Inviters, referrer : Inviters]]
BY DEF R!TypeOK

\* A code is drawn, read back or given up.
LEMMA CodeStep ==
  ASSUME R!ReferralAssumption, R!ReferralInv, NEW r \in Tabs,
         R!LookForCode(r) \/ \E c \in InviteCodes : R!DrawCode(r, c)
  PROVE  R!ReferralInv'
<1> DEFINE u == asked[r].user
<1>1. R!TypeOK /\ R!CodeAgrees /\ R!CodesDiffer /\ None \notin InviteCodes
  BY DEF R!ReferralInv, R!ReferralAssumption
<1>2. /\ asked[r].op \in {"look", "draw"}
      /\ UNCHANGED <<by, listed, joined, gone, cache, fill, copy, board, applied, claims, failures>>
  BY DEF R!LookForCode, R!DrawCode, R!table, R!boards
<1>3. u \in Inviters /\ asked[r] \in [op : {"look", "draw"}, user : Inviters, tries : Nat]
  BY <1>1, <1>2, InviteRecord
<1>4. \E x \in {R!Idle} \cup [op : {"look", "draw"}, user : Inviters, tries : Nat] :
         asked' = [asked EXCEPT ![r] = x]
  <2>1. CASE asked' = [asked EXCEPT ![r] = R!Idle] BY <2>1
  <2>2. CASE asked' = [asked EXCEPT ![r].op = "draw"]
    <3>1. [asked[r] EXCEPT !.op = "draw"] \in [op : {"look", "draw"}, user : Inviters, tries : Nat]
      BY <1>3
    <3> QED BY <2>2, <3>1
  <2>3. CASE asked' = [asked EXCEPT ![r].tries = @ + 1]
    <3>1. [asked[r] EXCEPT !.tries = @ + 1]
            \in [op : {"look", "draw"}, user : Inviters, tries : Nat]
      BY <1>3
    <3> QED BY <2>3, <3>1
  <2> QED BY <2>1, <2>2, <2>3 DEF R!LookForCode, R!DrawCode, R!Told, R!Ends
<1> HIDE DEF u
<1>5. asked' \in [Tabs ->
                    {R!Idle} \cup [op : {"look", "draw"}, user : Inviters, tries : Nat]
                      \cup [op : {"apply"}, user : Inviters, referrer : Inviters]]
  BY <1>1, <1>4, AskedStaysTyped
<1>6. \/ invite' = invite /\ told' = told
      \/ \E c \in InviteCodes : /\ invite[u] = c /\ invite' = invite
                          /\ told' = [told EXCEPT ![u] = @ \cup {c}]
      \/ \E c \in InviteCodes : /\ invite[u] = None /\ invite' = [invite EXCEPT ![u] = c]
                          /\ \A v \in Inviters : invite[v] # c
                          /\ told' = [told EXCEPT ![u] = @ \cup {c}]
  <2>1. invite[u] \in InviteCodes \cup {None} BY <1>1, <1>3 DEF R!TypeOK
  <2>2. CASE R!LookForCode(r)
    BY <2>1, <2>2 DEF R!LookForCode, R!Told, R!table, u
  <2>3. ASSUME NEW c \in InviteCodes, R!DrawCode(r, c) PROVE <1>6
    <3>1. CASE invite[u] = None /\ ~R!Taken(c) /\ invite' = [invite EXCEPT ![u] = c]
                 /\ R!Told(r, c)
      BY <3>1 DEF R!Taken, R!Told, u
    <3>2. CASE invite[u] # None /\ R!Told(r, invite[u]) /\ invite' = invite
      BY <2>1, <3>2 DEF R!Told, u
    <3>3. CASE invite' = invite /\ told' = told BY <3>3
    <3> QED BY <2>3, <3>1, <3>2, <3>3 DEF R!DrawCode, u
  <2> QED BY <2>2, <2>3
<1>7. invite' \in [Inviters -> InviteCodes \cup {None}] /\ told' \in [Inviters -> SUBSET InviteCodes]
  <2>1. invite \in [Inviters -> InviteCodes \cup {None}] /\ told \in [Inviters -> SUBSET InviteCodes]
    BY <1>1 DEF R!TypeOK
  <2>2. CASE invite' = invite /\ told' = told BY <2>1, <2>2
  <2>3. ASSUME NEW c \in InviteCodes, told' = [told EXCEPT ![u] = @ \cup {c}]
        PROVE  told' \in [Inviters -> SUBSET InviteCodes]
    <3>1. told[u] \cup {c} \in SUBSET InviteCodes BY <1>3, <2>1
    <3> QED BY <1>3, <2>1, <2>3, <3>1
  <2>4. CASE \E c \in InviteCodes : /\ invite[u] = c /\ invite' = invite
                                  /\ told' = [told EXCEPT ![u] = @ \cup {c}]
    <3>1. PICK c \in InviteCodes : invite' = invite /\ told' = [told EXCEPT ![u] = @ \cup {c}]
      BY <2>4
    <3> QED BY <2>1, <2>3, <3>1
  <2>5. CASE \E c \in InviteCodes : /\ invite[u] = None /\ invite' = [invite EXCEPT ![u] = c]
                                  /\ \A v \in Inviters : invite[v] # c
                                  /\ told' = [told EXCEPT ![u] = @ \cup {c}]
    <3>1. PICK c \in InviteCodes : /\ invite[u] = None /\ invite' = [invite EXCEPT ![u] = c]
                                 /\ \A v \in Inviters : invite[v] # c
                                 /\ told' = [told EXCEPT ![u] = @ \cup {c}]
      BY <2>5
    <3>2. invite' \in [Inviters -> InviteCodes \cup {None}] BY <2>1, <3>1
    <3> QED BY <2>3, <3>1, <3>2
  <2> QED BY <1>6, <2>2, <2>4, <2>5
<1>8. R!CodeAgrees' /\ R!CodesDiffer'
  <2>1. CASE invite' = invite /\ told' = told
    BY <1>1, <2>1 DEF R!CodeAgrees, R!CodesDiffer
  <2>2. CASE \E c \in InviteCodes : /\ invite[u] = c /\ invite' = invite
                               /\ told' = [told EXCEPT ![u] = @ \cup {c}]
    <3>1. PICK c \in InviteCodes : /\ invite[u] = c /\ invite' = invite
                              /\ told' = [told EXCEPT ![u] = @ \cup {c}]
      BY <2>2
    <3> QED BY <1>1, <1>3, <3>1 DEF R!CodeAgrees, R!CodesDiffer, R!TypeOK
  <2>3. CASE \E c \in InviteCodes : /\ invite[u] = None /\ invite' = [invite EXCEPT ![u] = c]
                               /\ \A v \in Inviters : invite[v] # c
                               /\ told' = [told EXCEPT ![u] = @ \cup {c}]
    <3>1. PICK c \in InviteCodes : /\ invite[u] = None /\ invite' = [invite EXCEPT ![u] = c]
                              /\ \A v \in Inviters : invite[v] # c
                              /\ told' = [told EXCEPT ![u] = @ \cup {c}]
      BY <2>3
    <3>2. told[u] = {} /\ \A v \in Inviters : c \notin told[v]
      BY <1>1, <1>3, <3>1 DEF R!CodeAgrees, R!TypeOK
    <3>3. \A v \in Inviters : invite'[v] = IF v = u THEN c ELSE invite[v]
      BY <1>1, <3>1 DEF R!TypeOK
    <3>4. \A v \in Inviters : told'[v] = IF v = u THEN {c} ELSE told[v]
      BY <1>1, <3>1, <3>2 DEF R!TypeOK
    <3>5. R!CodeAgrees'
      BY <1>1, <3>1, <3>2, <3>3, <3>4 DEF R!CodeAgrees
    <3>6. R!CodesDiffer'
      BY <1>1, <3>1, <3>3 DEF R!CodesDiffer
    <3> QED BY <3>5, <3>6
  <2> QED BY <1>6, <2>1, <2>2, <2>3
<1>9. R!TypeOK' /\ R!ClaimedOnce' /\ R!OptOutIsHonoured' /\ R!BoardInv'
  BY <1>2, <1>5, <1>7 DEF R!ReferralInv, R!TypeOK, R!ClaimedOnce, R!OptOutIsHonoured, R!BoardInv
<1> QED BY <1>8, <1>9 DEF R!ReferralInv

\* A code becomes an account's without its being told.
LEMMA CodeUntold ==
  ASSUME R!ReferralAssumption, R!TypeOK, R!CodeAgrees, R!CodesDiffer, told' = told,
         \/ invite' = invite
         \/ \E u \in Inviters, c \in InviteCodes :
              /\ invite[u] = None /\ \A v \in Inviters : invite[v] # c
              /\ invite' = [invite EXCEPT ![u] = c]
  PROVE  /\ R!CodeAgrees' /\ R!CodesDiffer'
         /\ invite' \in [Inviters -> InviteCodes \cup {None}]
<1>1. CASE invite' = invite BY <1>1 DEF R!CodeAgrees, R!CodesDiffer, R!TypeOK
<1>2. ASSUME NEW u \in Inviters, NEW c \in InviteCodes, invite[u] = None,
             \A v \in Inviters : invite[v] # c, invite' = [invite EXCEPT ![u] = c]
      PROVE  /\ R!CodeAgrees' /\ R!CodesDiffer'
             /\ invite' \in [Inviters -> InviteCodes \cup {None}]
  <2>1. \A v \in Inviters : invite'[v] = IF v = u THEN c ELSE invite[v] BY <1>2 DEF R!TypeOK
  <2>2. told[u] = {} /\ \A v \in Inviters : c \notin told[v]
    BY <1>2 DEF R!CodeAgrees, R!TypeOK, R!ReferralAssumption
  <2>3. R!CodesDiffer' BY <1>2, <2>1 DEF R!CodesDiffer
  <2>4. R!CodeAgrees' BY <1>2, <2>1, <2>2 DEF R!CodeAgrees
  <2> QED BY <1>2, <2>3, <2>4 DEF R!TypeOK
<1> QED BY <1>1, <1>2

\* A claim is made, and the first to be recorded stays.
LEMMA ClaimStep ==
  ASSUME R!ReferralAssumption, R!ReferralInv, NEW r \in Tabs,
         \/ \E u \in Inviters : R!AskCode(r, u) \/ \E c \in InviteCodes : R!Claim(r, u, c)
         \/ R!ApplyClaim(r) \/ R!CallFails(r) \/ R!CallLost(r)
  PROVE  R!ReferralInv'
<1> DEFINE Records == {R!Idle} \cup [op : {"look", "draw"}, user : Inviters, tries : Nat]
                        \cup [op : {"apply"}, user : Inviters, referrer : Inviters]
<1>1. R!TypeOK /\ R!ClaimedOnce /\ None \notin Inviters
  BY DEF R!ReferralInv, R!ReferralAssumption
<1>2. UNCHANGED <<told, listed, joined, gone, cache, fill, copy, board>>
  BY DEF R!AskCode, R!Claim, R!ApplyClaim, R!CallFails, R!CallLost, R!Fails, R!table, R!boards
<1>3. R!OptOutIsHonoured' /\ R!BoardInv'
  BY <1>2 DEF R!ReferralInv, R!OptOutIsHonoured, R!BoardInv
<1>4. R!CodeAgrees' /\ R!CodesDiffer' /\ invite' \in [Inviters -> InviteCodes \cup {None}]
  <2>1. \/ invite' = invite
        \/ \E u \in Inviters, c \in InviteCodes :
             /\ invite[u] = None /\ \A v \in Inviters : invite[v] # c
             /\ invite' = [invite EXCEPT ![u] = c]
    <3>1. CASE R!CallLost(r)
      <4>1. asked[r].op \in {"draw", "apply"} BY <3>1 DEF R!CallLost
      <4>2. asked[r].user \in Inviters BY <1>1, <4>1, InviteRecord
      <4> QED BY <3>1, <4>2 DEF R!CallLost, R!Taken
    <3> QED BY <3>1 DEF R!AskCode, R!Claim, R!ApplyClaim, R!CallFails, R!table
  <2> QED BY <1>1, <1>2, <2>1, CodeUntold DEF R!ReferralInv
<1>5. \/ UNCHANGED <<by, applied>>
      \/ \E u \in Inviters, v \in Inviters :
           /\ by[u] = None /\ by' = [by EXCEPT ![u] = v]
           /\ applied' \in {applied, [applied EXCEPT ![u] = Append(@, v)]}
  <2>1. CASE R!ApplyClaim(r)
    <3>1. asked[r].user \in Inviters /\ asked[r].referrer \in Inviters
      BY <1>1, <2>1, InviteRecord DEF R!ApplyClaim
    <3> QED BY <2>1, <3>1 DEF R!ApplyClaim
  <2>2. CASE R!CallLost(r)
    <3>1. applied' = applied BY <2>2 DEF R!CallLost, R!Fails
    <3>2. CASE by' = by BY <3>1, <3>2
    <3>3. CASE asked[r].op = "apply" /\ by[asked[r].user] = None
                 /\ by' = [by EXCEPT ![asked[r].user] = asked[r].referrer]
      <4>1. asked[r].user \in Inviters /\ asked[r].referrer \in Inviters
        BY <1>1, <3>3, InviteRecord
      <4> QED BY <3>1, <3>3, <4>1
    <3> QED BY <2>2, <3>2, <3>3 DEF R!CallLost
  <2> QED BY <2>1, <2>2 DEF R!AskCode, R!Claim, R!CallFails, R!Fails, R!table
<1>6. R!ClaimedOnce' /\ by' \in [Inviters -> Inviters \cup {None}]
      /\ applied' \in [Inviters -> Seq(Inviters)]
  <2>1. CASE UNCHANGED <<by, applied>> BY <1>1, <2>1 DEF R!ClaimedOnce, R!TypeOK
  <2>2. ASSUME NEW u \in Inviters, NEW v \in Inviters, by[u] = None,
               by' = [by EXCEPT ![u] = v],
               applied' \in {applied, [applied EXCEPT ![u] = Append(@, v)]}
        PROVE  <1>6
    <3>1. applied[u] \in Seq(Inviters) /\ applied[u] \in {<<>>, <<None>>}
      BY <1>1, <2>2 DEF R!ClaimedOnce, R!TypeOK
    <3>2. <<None>> \notin Seq(Inviters)
      <4>1. SUFFICES ASSUME <<None>> \in Seq(Inviters) PROVE FALSE OBVIOUS
      <4>2. <<None>>[1] \in Inviters BY <4>1
      <4> QED BY <1>1, <4>2
    <3>3. applied[u] = <<>> BY <3>1, <3>2
    <3>4. Append(<<>>, v) = <<v>> /\ <<v>> \in Seq(Inviters) OBVIOUS
    <3>5. applied' \in {applied, [applied EXCEPT ![u] = <<v>>]} BY <2>2, <3>3, <3>4
    <3>6. by'[u] = v /\ \A w \in Inviters \ {u} : by'[w] = by[w] BY <1>1, <2>2 DEF R!TypeOK
    <3>7. applied'[u] \in {<<>>, <<v>>} /\ \A w \in Inviters \ {u} : applied'[w] = applied[w]
      BY <1>1, <3>3, <3>5 DEF R!TypeOK
    <3>8. R!ClaimedOnce' BY <1>1, <3>6, <3>7 DEF R!ClaimedOnce
    <3>9. applied' \in [Inviters -> Seq(Inviters)]
      <4>1. applied \in [Inviters -> Seq(Inviters)] BY <1>1 DEF R!TypeOK
      <4> DEFINE one == <<v>>
      <4>2. one \in Seq(Inviters) /\ applied' \in {applied, [applied EXCEPT ![u] = one]}
        BY <3>4, <3>5
      <4> HIDE DEF one
      <4> QED BY <4>1, <4>2
    <3> QED BY <1>1, <2>2, <3>8, <3>9 DEF R!TypeOK
  <2> QED BY <1>5, <2>1, <2>2
<1>7. \E x \in Records : asked' = [asked EXCEPT ![r] = x]
  <2>1. CASE asked' = [asked EXCEPT ![r] = R!Idle] BY <2>1
  <2>2. ASSUME NEW u \in Inviters, R!AskCode(r, u) PROVE <1>7
    BY <2>2 DEF R!AskCode
  <2>3. ASSUME NEW u \in Inviters, NEW c \in InviteCodes, R!Claim(r, u, c) PROVE <1>7
    <3>1. PICK v \in Inviters : asked' = [asked EXCEPT ![r] =
                                         [op |-> "apply", user |-> u, referrer |-> v]]
      BY <2>3 DEF R!Claim
    <3>2. [op |-> "apply", user |-> u, referrer |-> v] \in Records OBVIOUS
    <3> QED BY <3>1, <3>2
  <2>4. CASE R!ApplyClaim(r) BY <2>1, <2>4 DEF R!ApplyClaim, R!Ends
  <2>5. CASE R!CallFails(r) \/ R!CallLost(r)
    <3>1. CASE asked[r].op = "draw" /\ asked' = [asked EXCEPT ![r].tries = @ + 1]
      <4>1. asked[r] \in [op : {"look", "draw"}, user : Inviters, tries : Nat]
        BY <1>1, <3>1, InviteRecord
      <4>2. [asked[r] EXCEPT !.tries = @ + 1]
              \in [op : {"look", "draw"}, user : Inviters, tries : Nat]
        BY <4>1
      <4> QED BY <3>1, <4>2
    <3> QED BY <2>1, <2>5, <3>1 DEF R!CallFails, R!CallLost, R!Fails, R!Ends
  <2> QED BY <2>2, <2>3, <2>4, <2>5
<1>8. asked' \in [Tabs -> Records] BY <1>1, <1>7, AskedStaysTyped
<1>9. claims' \in Nat /\ failures' \in Nat
  BY <1>1 DEF R!AskCode, R!Claim, R!ApplyClaim, R!CallFails, R!CallLost, R!Fails, R!TypeOK
<1>10. R!TypeOK' BY <1>1, <1>2, <1>4, <1>6, <1>8, <1>9 DEF R!TypeOK
<1> QED BY <1>3, <1>4, <1>6, <1>10 DEF R!ReferralInv

\* What an age becomes in a tick.
LEMMA Aging ==
  ASSUME NEW cap \in Nat, NEW age \in 0..cap
  PROVE  /\ R!Older(age, cap) \in 0..cap /\ R!Older(age, cap) <= age + 1
         /\ R!Older(age, cap) < cap => age < cap /\ R!Older(age, cap) = age + 1
BY DEF R!Older

\* Rows that a viewer is shown, and a copy of them, when all of them were listed lately.
LEMMA AnswerIsRecent ==
  ASSUME R!ReferralAssumption, R!TypeOK, R!BoardInv, gone' = gone,
         NEW rows \in SUBSET Inviters, R!Answer(rows),
         \A u \in rows : gone[u] <= MaxFill + (Ttl - 1)
  PROVE  /\ R!OptOutIsHonoured' /\ board' \in SUBSET Inviters /\ copy' \in R!Answers(0..Ttl)
         /\ copy'.age < Ttl => \A u \in copy'.rows : gone'[u] <= MaxFill + (Ttl - 1) + copy'.age
<1>1. /\ Ttl \in Nat /\ Ttl > 0 /\ MaxFill \in Nat /\ 0 \in 0..Ttl
      /\ \A u \in Inviters : gone[u] \in Int
  BY ShownTicks DEF R!ReferralAssumption, R!TypeOK
<1>2. R!OptOutIsHonoured'
  <2>1. \A u \in rows : gone[u] <= R!ShownAtMost BY <1>1, ShownTicks
  <2> QED BY <2>1 DEF R!Answer, R!OptOutIsHonoured
<1>3. [rows |-> rows, age |-> 0] \in R!Answers(0..Ttl) BY <1>1 DEF R!Answers
<1>4. CASE copy' = copy BY <1>2, <1>4 DEF R!Answer, R!BoardInv, R!TypeOK
<1>5. CASE copy' = [rows |-> rows, age |-> 0]
  <2>1. copy'.age = 0 /\ copy'.rows = rows BY <1>5
  <2>2. \A u \in rows : gone[u] <= MaxFill + (Ttl - 1) + 0 BY <1>1
  <2> QED BY <1>2, <1>3, <1>5, <2>1, <2>2 DEF R!Answer
<1> QED BY <1>4, <1>5 DEF R!Answer

\* Whoever is in rows that may be shown was listed when they were read.
LEMMA BoardStep ==
  ASSUME R!ReferralAssumption, R!ReferralInv, R!BoardStep
  PROVE  R!ReferralInv'
<1>1. /\ R!TypeOK /\ R!BoardInv /\ R!OptOutIsHonoured
      /\ Ttl \in Nat \ {0} /\ MaxFill \in Nat
  BY DEF R!ReferralInv, R!ReferralAssumption
<1>2. UNCHANGED <<invite, by, asked, told, applied, claims, failures>>
  BY DEF R!BoardStep, R!Link, R!SetProfile, R!ReadBoard, R!KeptBoard, R!StampBoard, R!ShowCopy,
         R!Tick, R!table
<1>3. R!CodeAgrees' /\ R!ClaimedOnce' /\ R!CodesDiffer'
  BY <1>2 DEF R!ReferralInv, R!CodeAgrees, R!ClaimedOnce, R!CodesDiffer
<1>4. /\ gone \in [Inviters -> 0..(R!ShownAtMost + 1)] /\ R!ShownAtMost \in Nat
      /\ \A u \in Inviters : gone[u] \in Nat
      /\ cache \in R!Answers(0..Ttl) /\ cache.age \in 0..Ttl /\ cache.rows \in SUBSET Inviters
      /\ copy \in R!Answers(0..Ttl) /\ copy.age \in 0..Ttl /\ copy.rows \in SUBSET Inviters
      /\ fill # None => fill.age \in 0..MaxFill /\ fill.rows \in SUBSET Inviters
  BY <1>1, ShownTicks DEF R!TypeOK, R!Answers
<1>5. ASSUME NEW d \in Laptops, NEW u \in Inviters, R!Link(d, u) PROVE R!ReferralInv'
  <2>1. R!TypeOK' BY <1>1, <1>2, <1>5 DEF R!TypeOK, R!Link, R!boards
  <2>2. R!BoardInv' /\ R!OptOutIsHonoured'
    BY <1>1, <1>5 DEF R!Link, R!BoardInv, R!OptOutIsHonoured, R!boards
  <2> QED BY <1>3, <2>1, <2>2 DEF R!ReferralInv
<1>6. ASSUME NEW u \in Inviters, NEW optIn \in BOOLEAN, R!SetProfile(u, optIn)
      PROVE  R!ReferralInv'
  <2>1. /\ UNCHANGED <<joined, cache, fill, copy, board>>
        /\ listed' \subseteq Inviters
        /\ \/ gone' = [gone EXCEPT ![u] = 0] /\ listed' = listed \cup {u}
           \/ gone' = gone /\ listed' = listed \ {u}
    <3>1. listed \subseteq Inviters BY <1>1 DEF R!TypeOK
    <3>2. CASE optIn BY <1>6, <3>1, <3>2 DEF R!SetProfile
    <3>3. CASE ~optIn BY <1>6, <3>1, <3>3 DEF R!SetProfile
    <3> QED BY <3>2, <3>3
  <2>2. gone' \in [Inviters -> 0..(R!ShownAtMost + 1)]
    <3>1. 0 \in 0..(R!ShownAtMost + 1) BY <1>4
    <3> QED BY <1>4, <2>1, <3>1
  <2>3. \A v \in Inviters : gone'[v] \in Nat /\ gone'[v] <= gone[v] BY <1>4, <2>1
  <2>4. \A v \in listed' : gone'[v] = 0
    BY <1>1, <1>4, <2>1 DEF R!BoardInv, R!TypeOK
  <2>5. R!TypeOK' BY <1>1, <1>2, <2>1, <2>2 DEF R!TypeOK
  <2>6. R!BoardInv'
    <3>1. fill # None => \A v \in fill.rows : gone'[v] <= fill.age
      BY <1>1, <1>4, <2>3 DEF R!BoardInv
    <3>2. cache.age < Ttl => \A v \in cache.rows : gone'[v] <= MaxFill + cache.age
      BY <1>1, <1>4, <2>3 DEF R!BoardInv
    <3>3. copy.age < Ttl => \A v \in copy.rows : gone'[v] <= MaxFill + (Ttl - 1) + copy.age
      BY <1>1, <1>4, <2>3 DEF R!BoardInv
    <3> QED BY <2>1, <2>4, <3>1, <3>2, <3>3 DEF R!BoardInv
  <2>7. R!OptOutIsHonoured'
    BY <1>1, <1>4, <2>1, <2>3 DEF R!OptOutIsHonoured, R!TypeOK
  <2> QED BY <1>3, <2>5, <2>6, <2>7 DEF R!ReferralInv
<1>7. ASSUME NEW limit \in Limits, R!ReadBoard(limit) PROVE R!ReferralInv'
  <2>1. R!Leaderboard(limit) \subseteq listed BY DEF R!Leaderboard
  <2>2. /\ UNCHANGED <<listed, joined, gone, cache, copy, board>>
        /\ fill' = [rows |-> R!Leaderboard(limit), age |-> 0]
    BY <1>7 DEF R!ReadBoard, R!table
  <2>3. 0 \in 0..MaxFill /\ R!Leaderboard(limit) \in SUBSET Inviters
    BY <1>1, <2>1 DEF R!TypeOK
  <2>4. fill' \in R!Answers(0..MaxFill) BY <2>2, <2>3 DEF R!Answers
  <2>5. R!TypeOK' BY <1>1, <1>2, <2>2, <2>4 DEF R!TypeOK
  <2>6. fill'.age = 0 /\ \A v \in fill'.rows : gone[v] = 0
    BY <1>1, <2>1, <2>2 DEF R!BoardInv
  <2>7. fill' # None => \A v \in fill'.rows : gone'[v] <= fill'.age BY <2>2, <2>6
  <2>8. R!BoardInv' /\ R!OptOutIsHonoured'
    BY <1>1, <2>2, <2>7 DEF R!BoardInv, R!OptOutIsHonoured
  <2> QED BY <1>3, <2>5, <2>8 DEF R!ReferralInv
<1>8. CASE R!KeptBoard
  <2>1. UNCHANGED <<listed, joined, gone, cache, fill>> /\ cache.age < Ttl /\ R!Answer(cache.rows)
    BY <1>8 DEF R!KeptBoard, R!table
  <2>2. \A u \in cache.rows : gone[u] <= MaxFill + (Ttl - 1)
    <3>1. cache.age <= Ttl - 1 BY <1>1, <1>4, <2>1
    <3>2. \A u \in cache.rows : gone[u] \in Nat /\ gone[u] <= MaxFill + cache.age
      BY <1>1, <1>4, <2>1 DEF R!BoardInv
    <3> QED BY <1>1, <1>4, <3>1, <3>2
  <2>3. /\ R!OptOutIsHonoured' /\ board' \in SUBSET Inviters /\ copy' \in R!Answers(0..Ttl)
        /\ copy'.age < Ttl => \A u \in copy'.rows : gone'[u] <= MaxFill + (Ttl - 1) + copy'.age
    BY <1>1, <1>4, <2>1, <2>2, AnswerIsRecent
  <2>4. R!TypeOK' BY <1>1, <1>2, <2>1, <2>3 DEF R!TypeOK
  <2>5. R!BoardInv' BY <1>1, <2>1, <2>3 DEF R!BoardInv
  <2> QED BY <1>3, <2>3, <2>4, <2>5 DEF R!ReferralInv
<1>9. CASE R!StampBoard
  <2>1. /\ UNCHANGED <<listed, joined, gone>> /\ fill # None /\ fill' = None
        /\ cache' = [rows |-> fill.rows, age |-> 0] /\ R!Answer(fill.rows)
    BY <1>9 DEF R!StampBoard, R!table
  <2>2. \A u \in fill.rows : gone[u] <= MaxFill + 0 /\ gone[u] <= MaxFill + (Ttl - 1)
    <3>1. fill.age <= MaxFill /\ \A u \in fill.rows : gone[u] \in Nat /\ gone[u] <= fill.age
      BY <1>1, <1>4, <2>1 DEF R!BoardInv
    <3> QED BY <1>1, <1>4, <2>1, <3>1
  <2>3. /\ R!OptOutIsHonoured' /\ board' \in SUBSET Inviters /\ copy' \in R!Answers(0..Ttl)
        /\ copy'.age < Ttl => \A u \in copy'.rows : gone'[u] <= MaxFill + (Ttl - 1) + copy'.age
    BY <1>1, <1>4, <2>1, <2>2, AnswerIsRecent
  <2>4. cache' \in R!Answers(0..Ttl) BY <1>1, <1>4, <2>1 DEF R!Answers
  <2>5. R!TypeOK' BY <1>1, <1>2, <2>1, <2>3, <2>4 DEF R!TypeOK
  <2>6. cache'.age = 0 /\ cache'.rows = fill.rows BY <2>1
  <2>7. R!BoardInv' BY <1>1, <2>1, <2>2, <2>3, <2>6 DEF R!BoardInv
  <2> QED BY <1>3, <2>3, <2>5, <2>7 DEF R!ReferralInv
<1>10. CASE R!ShowCopy
  <2>1. /\ UNCHANGED <<listed, joined, gone, cache, fill, copy>>
        /\ copy.age < Ttl /\ board' = copy.rows
    BY <1>10 DEF R!ShowCopy, R!table
  <2>2. \A u \in copy.rows : gone[u] <= R!ShownAtMost
    <3>1. copy.age <= Ttl - 1 BY <1>1, <1>4, <2>1
    <3>2. \A u \in copy.rows : gone[u] \in Nat /\ gone[u] <= MaxFill + (Ttl - 1) + copy.age
      BY <1>1, <1>4, <2>1 DEF R!BoardInv
    <3> QED BY <1>1, <1>4, <3>1, <3>2, ShownTicks
  <2>3. R!TypeOK' BY <1>1, <1>2, <1>4, <2>1 DEF R!TypeOK
  <2>4. R!BoardInv' /\ R!OptOutIsHonoured'
    BY <1>1, <2>1, <2>2 DEF R!BoardInv, R!OptOutIsHonoured
  <2> QED BY <1>3, <2>3, <2>4 DEF R!ReferralInv
<1>11. CASE R!Tick
  <2>1. /\ UNCHANGED <<listed, joined>> /\ board' = {}
        /\ gone' = [u \in Inviters |-> IF u \in listed THEN 0
                                       ELSE R!Older(gone[u], R!ShownAtMost + 1)]
        /\ cache' = [cache EXCEPT !.age = R!Older(cache.age, Ttl)]
        /\ copy' = [copy EXCEPT !.age = R!Older(copy.age, Ttl)]
        /\ fill # None => fill.age < MaxFill
        /\ fill' = IF fill = None THEN fill ELSE [fill EXCEPT !.age = @ + 1]
    BY <1>11 DEF R!Tick, R!table
  <2>2. \A u \in Inviters : gone'[u] \in 0..(R!ShownAtMost + 1) /\ gone'[u] <= gone[u] + 1
    <3> SUFFICES ASSUME NEW u \in Inviters
                 PROVE  gone'[u] \in 0..(R!ShownAtMost + 1) /\ gone'[u] <= gone[u] + 1
      OBVIOUS
    <3>1. gone[u] \in 0..(R!ShownAtMost + 1) /\ R!ShownAtMost + 1 \in Nat BY <1>4
    <3>2. CASE u \in listed BY <2>1, <3>1, <3>2
    <3>3. CASE u \notin listed
      <4>1. gone'[u] = R!Older(gone[u], R!ShownAtMost + 1) BY <2>1, <3>3
      <4> QED BY <3>1, <4>1, Aging
    <3> QED BY <3>2, <3>3
  <2>3. /\ cache' \in R!Answers(0..Ttl) /\ cache'.rows = cache.rows
        /\ cache'.age < Ttl => cache.age < Ttl /\ cache'.age = cache.age + 1
    <3>1. cache' = [cache EXCEPT !.age = R!Older(cache.age, Ttl)] BY <2>1
    <3>2. cache'.rows = cache.rows /\ cache'.age = R!Older(cache.age, Ttl)
      BY <1>4, <3>1 DEF R!Answers
    <3> QED BY <1>1, <1>4, <3>1, <3>2, Aging DEF R!Answers
  <2>4. /\ copy' \in R!Answers(0..Ttl) /\ copy'.rows = copy.rows
        /\ copy'.age < Ttl => copy.age < Ttl /\ copy'.age = copy.age + 1
    <3>1. copy' = [copy EXCEPT !.age = R!Older(copy.age, Ttl)] BY <2>1
    <3>2. copy'.rows = copy.rows /\ copy'.age = R!Older(copy.age, Ttl)
      BY <1>4, <3>1 DEF R!Answers
    <3> QED BY <1>1, <1>4, <3>1, <3>2, Aging DEF R!Answers
  <2>5. fill # None => /\ fill' \in R!Answers(0..MaxFill) /\ fill'.rows = fill.rows
                       /\ fill'.age = fill.age + 1
    <3> SUFFICES ASSUME fill # None PROVE <2>5!2 OBVIOUS
    <3>1. fill \in R!Answers(0..MaxFill) /\ fill' = [fill EXCEPT !.age = fill.age + 1]
      BY <1>1, <2>1 DEF R!TypeOK
    <3>2. fill.age + 1 \in 0..MaxFill BY <1>1, <1>4, <2>1
    <3> QED BY <3>1, <3>2 DEF R!Answers
  <2>6. R!TypeOK'
    <3>1. gone' \in [Inviters -> 0..(R!ShownAtMost + 1)] BY <2>1, <2>2
    <3>2. fill' \in R!Answers(0..MaxFill) \cup {None} BY <2>1, <2>5
    <3> QED BY <1>1, <1>2, <2>1, <2>3, <2>4, <3>1, <3>2 DEF R!TypeOK
  <2>7. \A u \in listed' : gone'[u] = 0 BY <1>1, <2>1 DEF R!TypeOK
  <2>8. fill' # None => \A u \in fill'.rows : gone'[u] <= fill'.age
    <3> SUFFICES ASSUME fill # None, NEW u \in fill.rows PROVE gone'[u] <= fill.age + 1
      BY <2>1, <2>5
    <3>1. u \in Inviters /\ gone[u] <= fill.age /\ fill.age \in Nat BY <1>1, <1>4 DEF R!BoardInv
    <3> QED BY <1>4, <2>2, <3>1
  <2>9. cache'.age < Ttl => \A u \in cache'.rows : gone'[u] <= MaxFill + cache'.age
    <3> SUFFICES ASSUME cache'.age < Ttl, NEW u \in cache.rows
                 PROVE  gone'[u] <= MaxFill + (cache.age + 1)
      BY <2>3
    <3>1. u \in Inviters /\ gone[u] <= MaxFill + cache.age /\ cache.age \in Nat
      BY <1>1, <1>4, <2>3 DEF R!BoardInv
    <3> QED BY <1>1, <1>4, <2>2, <3>1
  <2>10. copy'.age < Ttl => \A u \in copy'.rows : gone'[u] <= MaxFill + (Ttl - 1) + copy'.age
    <3> SUFFICES ASSUME copy'.age < Ttl, NEW u \in copy.rows
                 PROVE  gone'[u] <= MaxFill + (Ttl - 1) + (copy.age + 1)
      BY <2>4
    <3>1. u \in Inviters /\ gone[u] <= MaxFill + (Ttl - 1) + copy.age /\ copy.age \in Nat
      BY <1>1, <1>4, <2>4 DEF R!BoardInv
    <3> QED BY <1>1, <1>4, <2>2, <3>1
  <2>11. R!BoardInv' BY <2>7, <2>8, <2>9, <2>10 DEF R!BoardInv
  <2>12. R!OptOutIsHonoured' BY <2>1 DEF R!OptOutIsHonoured
  <2> QED BY <1>3, <2>6, <2>11, <2>12 DEF R!ReferralInv
<1> QED BY <1>5, <1>6, <1>7, <1>8, <1>9, <1>10, <1>11 DEF R!BoardStep

\* The invariant of the tables, caches and requests of Referrals.
LEMMA ReferralsHold ==
  ASSUME R!ReferralAssumption
  PROVE  R!Spec => []R!ReferralInv
<1>1. R!ReferralInv /\ [R!Next]_(R!vars) => R!ReferralInv'
  <2> SUFFICES ASSUME R!ReferralInv, [R!Next]_(R!vars) PROVE R!ReferralInv' OBVIOUS
  <2>1. CASE R!Next BY <2>1, CodeStep, ClaimStep, BoardStep DEF R!Next, R!InviteStep
  <2>2. CASE UNCHANGED R!vars
    BY <2>2 DEF R!vars, R!table, R!boards, R!ReferralInv, R!TypeOK, R!CodeAgrees, R!ClaimedOnce,
                R!OptOutIsHonoured, R!CodesDiffer, R!BoardInv
  <2> QED BY <2>1, <2>2
<1> QED BY <1>1, InitReferrals, PTL DEF R!Spec

LEMMA ReferralsFollowed == MembersSpec => R!Spec
<1>1. MembersInit => R!Init BY DEF MembersInit
<1>2. [AccountsMove \/ ReferralsMove]_<<part, vars, referrals>> => [R!Next]_(R!vars)
  BY DEF AccountsMove, ReferralsMove, R!Next, referrals, R!vars, R!table, R!boards
<1> QED BY <1>1, <1>2, PTL DEF MembersSpec, R!Spec

\* Every code an account was ever answered with is its own for good and nobody else's, and
\* of overlapping claims at most one is told that it applied, with the referrer that stays
\* the account's, also when UPDATEs took effect whose answers were lost (ReferralCode,
\* ClaimReferral).
THEOREM InvitationsHold == MembersSpec => []InvitationsAgree
<1>1. R!ReferralInv => InvitationsAgree BY DEF R!ReferralInv, InvitationsAgree
<1> QED BY <1>1, ReferralsFollowed, ReferralsHold, ReferralAssumed, PTL

\* Whoever is shown was listed when the rows were read: an opt-out between the reading of
\* the rows and the stamp of the answer shows for as long as that took, and then for two
\* caches of thirty seconds, for any number of accounts (handleLeaderboard).
THEOREM OptOutsHold == MembersSpec => []OptOutIsHonoured
<1>1. R!ReferralInv => OptOutIsHonoured BY DEF R!ReferralInv, OptOutIsHonoured
<1> QED BY <1>1, ReferralsFollowed, ReferralsHold, ReferralAssumed, PTL
================================================================================
