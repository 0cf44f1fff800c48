---------------------------------- MODULE Store ----------------------------------
(***************************************************************************)
(* The coordinator's persistence boundary, implemented twice: store.Mem,   *)
(* which keeps aggregates in maps, and store.PG, which keeps the rows and  *)
(* aggregates when it reads.  Every call of a handler is applied to both,  *)
(* and what the interface lets a handler read must be the same from each.  *)
(*                                                                         *)
(* mem and pg hold the tables; MemX and PgX are the two bodies of call X.  *)
(* The tables of one group (topic) are never read by the calls of another, *)
(* so a behaviour exercises one group, chosen in the initial state.        *)
(***************************************************************************)
EXTENDS Integers, Sequences, SequencesExt

CONSTANTS
  Topics,     \* the groups of tables a behaviour may exercise
  Raws,       \* consumer keys: the secrets
  EnvKeys,    \* those accepted from the environment
  Devices,    \* static keys of providers
  Conns,      \* provider ids: one for each connection of a device
  DeviceOf,   \* the device of a connection
  Jobs,
  Refs,       \* Checkout sessions
  Stripes,    \* connected accounts
  RunIds,
  Users,
  Mails,      \* addresses as they were typed ...
  Lower,      \* ... and in lower case
  None,
  Share,      \* what a job earns its provider
  Cent,       \* the unit a payout transfers
  ListDefault, ListMax, \* ListRuns: the limit used for one out of range, and the range
  MaxCalls    \* bound: calls of a behaviour

StoreAssumption ==
  /\ None \notin Refs \cup Jobs \cup Conns
  /\ EnvKeys \subseteq Raws
  /\ DeviceOf \in [Conns -> Devices]
  /\ Share \in Nat /\ Cent \in Nat \ {0}

VARIABLES
  topic,
  mem,        \* store.Mem
  pg,         \* the tables of store.PG
  held,       \* the rows of the runs under way, as the coordinator holds them
  calls

vars == <<topic, mem, pg, held, calls>>

\* keyID and sha: digests of a secret.
KeyID(raw) == <<"key", raw>>
Sha(raw) == <<"sha256", raw>>

NoRow == [jobs |-> 0, gross |-> 0, share |-> 0]
NoUsage == [requests |-> 0, tokens |-> 0]

\* Maps: the entry of x, or a default; an entry that is written.
At(f, x, default) == IF x \in DOMAIN f THEN f[x] ELSE default
Put(f, x, v) == [y \in DOMAIN f \cup {x} |-> IF y = x THEN v ELSE f[y]]
Empty == [x \in {} |-> None]

Sum(v) ==
  LET upTo[i \in 0 .. Len(v)] == IF i = 0 THEN 0 ELSE upTo[i - 1] + v[i] IN upTo[Len(v)]

\* SQL's COUNT( * ) and SUM(of) of the rows whose column `by' is k.
Count(rows, by, k) == Sum([i \in DOMAIN rows |-> IF rows[i][by] = k THEN 1 ELSE 0])
Total(rows, by, k, of) == Sum([i \in DOMAIN rows |-> IF rows[i][by] = k THEN rows[i][of] ELSE 0])

Init ==
  /\ topic \in Topics
  /\ mem = [keys |-> [r \in EnvKeys |-> KeyID(r)], keyInfo |-> Empty, usage |-> Empty,
            rows |-> Empty, settled |-> {}, accrued |-> Empty, credits |-> Empty,
            topupRefs |-> {}, debitJobs |-> {}, payoutAccts |-> Empty, nodeCaps |-> Empty,
            waitlist |-> <<>>, proposals |-> <<>>, feedback |-> <<>>, runs |-> Empty]
  /\ pg = [keys |-> Empty, usage |-> <<>>, earnings |-> <<>>, billing |-> Empty,
           ledger |-> <<>>, accounts |-> Empty, caps |-> Empty, waitlist |-> Empty,
           proposals |-> <<>>, feedback |-> <<>>, replies |-> <<>>, runs |-> Empty]
  /\ held = Empty
  /\ calls = 0

Call(t) == topic = t /\ calls < MaxCalls /\ calls' = calls + 1 /\ UNCHANGED topic

--------------------------------------------------------------------------------
(***************************************************************************)
(* Consumer keys.                                                          *)
(***************************************************************************)

MemValidate(raw) ==
  LET id == At(mem.keys, raw, None)
  IN  IF id = None \/ (id \in DOMAIN mem.keyInfo /\ mem.keyInfo[id].disabled) THEN None ELSE id

PgValidate(raw) ==
  LET ids == {id \in DOMAIN pg.keys : pg.keys[id].sha = Sha(raw) /\ ~pg.keys[id].disabled}
  IN  CASE raw \in EnvKeys -> KeyID(raw)
        [] raw \notin EnvKeys /\ ids # {} -> CHOOSE id \in ids : TRUE
        [] OTHER -> None

MemCreateKey(s, raw) ==
  [s EXCEPT !.keys = Put(@, raw, KeyID(raw)),
            !.keyInfo = Put(@, KeyID(raw), [disabled |-> FALSE])]
PgCreateKey(s, raw) ==
  [s EXCEPT !.keys = Put(@, KeyID(raw), [sha |-> Sha(raw), disabled |-> FALSE])]

\* SetConsumerKeyDisabled of an id that is not listed fails, and changes nothing.
MemSetDisabled(s, id, off) ==
  IF id \in DOMAIN s.keyInfo THEN [s EXCEPT !.keyInfo[id].disabled = off] ELSE s
PgSetDisabled(s, id, off) ==
  IF id \in DOMAIN s.keys THEN [s EXCEPT !.keys[id].disabled = off] ELSE s

\* Every key that was created, with its switch.
MemListKeys == [id \in DOMAIN mem.keyInfo |-> mem.keyInfo[id].disabled]
PgListKeys == [id \in DOMAIN pg.keys |-> pg.keys[id].disabled]

CreateConsumerKey(raw) ==
  /\ Call("keys")
  /\ raw \notin EnvKeys /\ KeyID(raw) \notin DOMAIN pg.keys
  /\ mem' = MemCreateKey(mem, raw) /\ pg' = PgCreateKey(pg, raw)
  /\ UNCHANGED held

SetConsumerKeyDisabled(id, off) ==
  /\ Call("keys")
  /\ mem' = MemSetDisabled(mem, id, off) /\ pg' = PgSetDisabled(pg, id, off)
  /\ UNCHANGED held

--------------------------------------------------------------------------------
(***************************************************************************)
(* Credits and usage.                                                      *)
(***************************************************************************)

MemCreditBalance(k) == At(mem.credits, k, 0)
PgCreditBalance(k) == At(pg.billing, k, 0)

MemAddCredit(s, e) ==
  LET topup == e.reason = "topup" /\ e.ref # None
      debit == e.reason = "debit" /\ e.job # None
  IN  IF (topup /\ e.ref \in s.topupRefs) \/ (debit /\ e.job \in s.debitJobs) THEN s
      ELSE [s EXCEPT !.topupRefs = IF topup THEN @ \cup {e.ref} ELSE @,
                     !.debitJobs = IF debit THEN @ \cup {e.job} ELSE @,
                     !.credits = Put(@, e.key, At(@, e.key, 0) + e.delta)]

\* Mutant: the row of a debit is looked up by its job alone, whatever its reason,
\* and that of a top-up not at all.
AddCreditTwice(s, e) ==
  IF e.reason = "debit" /\ \E r \in ToSet(s.ledger) : r.job = e.job THEN s
  ELSE [s EXCEPT !.billing = Put(@, e.key, At(@, e.key, 0) + e.delta),
                 !.ledger = Append(@, e)]

PgAddCredit(s, e) ==
  IF \E r \in ToSet(s.ledger) :
       /\ r.reason = e.reason
       /\ \/ e.reason = "topup" /\ e.ref # None /\ r.ref = e.ref
          \/ e.reason = "debit" /\ e.job # None /\ r.job = e.job
    THEN s
    ELSE [s EXCEPT !.billing = Put(@, e.key, At(@, e.key, 0) + e.delta),
                   !.ledger = Append(@, e)]

\* The entries the handlers make: a paid Checkout session, a metered job, a batch, and
\* the operator's adjustment.
Entries ==
       [key : EnvKeys, delta : {5}, reason : {"topup"}, ref : Refs, job : {None}]
  \cup [key : EnvKeys, delta : {-2}, reason : {"debit"}, ref : {None}, job : Jobs]
  \cup [key : EnvKeys, delta : {-1}, reason : {"workload", "adjust"}, ref : {None}, job : {None}]

AddCredit(e) ==
  /\ Call("credit")
  /\ mem' = MemAddCredit(mem, e) /\ pg' = PgAddCredit(pg, e)
  /\ UNCHANGED held

\* Usage: Mem adds to the row of the key and the model, PG keeps the events.
MemRecordUsage(s, k, tokens) ==
  LET row == At(s.usage, k, NoUsage)
  IN  [s EXCEPT !.usage = Put(@, k, [requests |-> row.requests + 1,
                                 tokens |-> row.tokens + tokens])]
PgRecordUsage(s, k, tokens) == [s EXCEPT !.usage = Append(@, [key |-> k, tokens |-> tokens])]

MemUsageSince(k) == At(mem.usage, k, NoUsage)
PgUsageSince(k) ==
  [requests |-> Count(pg.usage, "key", k), tokens |-> Total(pg.usage, "key", k, "tokens")]

RecordUsage(k, tokens) ==
  /\ Call("usage")
  /\ mem' = MemRecordUsage(mem, k, tokens) /\ pg' = PgRecordUsage(pg, k, tokens)
  /\ UNCHANGED held

--------------------------------------------------------------------------------
(***************************************************************************)
(* Earnings and payouts.                                                   *)
(***************************************************************************)

\* Mem adds to the row of the provider id and returns; only an event that opens a row
\* goes on to what its device is owed.
MemRecordEarning(s, j, c) ==
  LET d == DeviceOf[c]
      row == At(s.rows, c, NoRow)
  IN  IF <<j, d>> \in s.settled THEN s
      ELSE [s EXCEPT
              !.settled = @ \cup {<<j, d>>},
              !.rows = Put(@, c, [jobs |-> row.jobs + 1, gross |-> row.gross + Share + 1,
                              share |-> row.share + Share]),
              !.accrued = IF c \in DOMAIN s.rows THEN @
                          ELSE Put(@, d, At(@, d, 0) + Share)]

PgRecordEarning(s, j, c) ==
  IF \E r \in ToSet(s.earnings) : r.job = j /\ r.dev = DeviceOf[c] THEN s
  ELSE [s EXCEPT !.earnings = Append(@, [job |-> j, conn |-> c, dev |-> DeviceOf[c],
                                         gross |-> Share + 1, share |-> Share,
                                         state |-> "accrued"])]

MemEarningsSince(c) == At(mem.rows, c, NoRow)
PgEarningsSince(c) ==
  [jobs |-> Count(pg.earnings, "conn", c), gross |-> Total(pg.earnings, "conn", c, "gross"),
   share |-> Total(pg.earnings, "conn", c, "share")]

MemAccrued(d) == At(mem.accrued, d, 0)
PgAccrued(d) ==
  LET rows == pg.earnings
  IN  Sum([i \in DOMAIN rows |->
             IF rows[i].dev = d /\ rows[i].state = "accrued" THEN rows[i].share ELSE 0])

MemSettle(s, d, dust) ==
  IF d \in DOMAIN s.accrued THEN [s EXCEPT !.accrued[d] = dust] ELSE s

\* The rows are paid, and the dust is a row of its own, of no job and no provider id.
PgSettle(s, d, dust) ==
  LET settled == [i \in DOMAIN s.earnings |->
                    IF s.earnings[i].dev = d THEN [s.earnings[i] EXCEPT !.state = "paid"]
                    ELSE s.earnings[i]]
      carry == [job |-> None, conn |-> None, dev |-> d, gross |-> 0, share |-> dust,
                state |-> "accrued"]
  IN  [s EXCEPT !.earnings = IF dust > 0 THEN Append(settled, carry) ELSE settled]

\* A job's earning, which a retry may record again.
RecordEarning(j, c) ==
  /\ Call("earnings")
  /\ mem' = MemRecordEarning(mem, j, c) /\ pg' = PgRecordEarning(pg, j, c)
  /\ UNCHANGED held

\* RecordPayoutAndSettle after a transfer of the whole cents of what the store says is owed.
RecordPayoutAndSettle(d) ==
  /\ Call("earnings")
  /\ PgAccrued(d) >= Cent
  /\ mem' = MemSettle(mem, d, MemAccrued(d) % Cent) /\ pg' = PgSettle(pg, d, PgAccrued(d) % Cent)
  /\ UNCHANGED held

--------------------------------------------------------------------------------
(***************************************************************************)
(* Rows that are replaced: connected accounts, benchmarks, the waitlist.   *)
(***************************************************************************)

MemUpsertAccount(s, d, a) == [s EXCEPT !.payoutAccts = Put(@, d, a)]
PgUpsertAccount(s, d, a) ==
  IF d \in DOMAIN s.accounts
    THEN [s EXCEPT !.accounts[d] = [@ EXCEPT !.stripe = a.stripe, !.status = a.status]]
    ELSE [s EXCEPT !.accounts = Put(@, d, a)]

MemAccount(d) == At(mem.payoutAccts, d, None)
PgAccount(d) == At(pg.accounts, d, None)

\* The account of a Stripe id: the first one found, and any when there are several.
MemByStripe(x) == {d \in DOMAIN mem.payoutAccts : mem.payoutAccts[d].stripe = x}
PgByStripe(x) == {d \in DOMAIN pg.accounts : pg.accounts[d].stripe = x}

UpsertPayoutAccount(d, a) ==
  /\ Call("desk")
  /\ mem' = MemUpsertAccount(mem, d, a) /\ pg' = PgUpsertAccount(pg, d, a)
  /\ UNCHANGED held

MemUpsertCapability(s, d, tps) == [s EXCEPT !.nodeCaps = Put(@, d, tps)]
PgUpsertCapability(s, d, tps) == [s EXCEPT !.caps = Put(@, d, tps)]

\* NodeCapabilities: the last row of every device.
MemCapabilities == {<<d, mem.nodeCaps[d]>> : d \in DOMAIN mem.nodeCaps}
PgCapabilities == {<<d, pg.caps[d]>> : d \in DOMAIN pg.caps}

UpsertNodeCapability(d, tps) ==
  /\ Call("desk")
  /\ mem' = MemUpsertCapability(mem, d, tps) /\ pg' = PgUpsertCapability(pg, d, tps)
  /\ UNCHANGED held

\* Mem compares addresses in any case and keeps the spelling of the last; PG keeps that
\* of the first.
MemAddWaitlist(s, m, interest) ==
  LET same == {i \in DOMAIN s.waitlist : Lower[s.waitlist[i].email] = Lower[m]}
      row == [email |-> m, interest |-> interest]
  IN  IF same = {} THEN [s EXCEPT !.waitlist = Append(@, row)]
      ELSE [s EXCEPT !.waitlist[Min(same)] = row]
PgAddWaitlist(s, m, interest) ==
  [s EXCEPT !.waitlist =
     Put(@, Lower[m], [At(@, Lower[m], [email |-> m, interest |-> interest])
                     EXCEPT !.interest = interest])]

\* WaitlistSince, but for the spelling: a set, as Mem answers in the order of signups
\* and PG the latest first.
MemWaitlist == {<<Lower[w.email], w.interest>> : w \in ToSet(mem.waitlist)}
PgWaitlist == {<<m, pg.waitlist[m].interest>> : m \in DOMAIN pg.waitlist}

AddWaitlist(m, interest) ==
  /\ Call("desk")
  /\ mem' = MemAddWaitlist(mem, m, interest) /\ pg' = PgAddWaitlist(pg, m, interest)
  /\ UNCHANGED held

\* Proposals are only appended; PG answers the latest first.
MemAddProposal(s, m) == [s EXCEPT !.proposals = Append(@, m)]
PgAddProposal(s, m) == [s EXCEPT !.proposals = Append(@, m)]
MemProposals == mem.proposals
PgProposals == Reverse(pg.proposals)

AddProposal(m) ==
  /\ Call("desk")
  /\ mem' = MemAddProposal(mem, m) /\ pg' = PgAddProposal(pg, m)
  /\ UNCHANGED held

--------------------------------------------------------------------------------
(***************************************************************************)
(* Feedback threads.                                                       *)
(***************************************************************************)

MemAddFeedback(s, u, m) ==
  [s EXCEPT !.feedback = Append(@, [id |-> Len(@) + 1, user |-> u, email |-> m, replies |-> <<>>])]
PgAddFeedback(s, u, m) ==
  [s EXCEPT !.feedback = Append(@, [id |-> Len(@) + 1, user |-> u, email |-> m])]

\* An id without an entry: not found, and the foreign key of the table.
MemAddReply(s, id, author) ==
  IF id \in DOMAIN s.feedback THEN [s EXCEPT !.feedback[id].replies = Append(@, author)] ELSE s
PgAddReply(s, id, author) ==
  IF \E e \in ToSet(s.feedback) : e.id = id
    THEN [s EXCEPT !.replies = Append(@, [to |-> id, author |-> author])] ELSE s

\* FeedbackForUser: entries by user id or by address ...
Theirs(e, u, m) ==
  \/ u # None /\ e.user = u
  \/ m # None /\ e.email # None /\ Lower[e.email] = Lower[m]

\* ... with their replies in order.
RepliesTo(rows, id) ==
  LET upTo[i \in 0 .. Len(rows)] ==
        IF i = 0 THEN <<>>
        ELSE IF rows[i].to = id THEN Append(upTo[i - 1], rows[i].author) ELSE upTo[i - 1]
  IN  upTo[Len(rows)]
MemFeedbackForUser(u, m) == {e \in ToSet(mem.feedback) : Theirs(e, u, m)}
PgFeedbackForUser(u, m) ==
  {[id |-> e.id, user |-> e.user, email |-> e.email,
    replies |-> RepliesTo(pg.replies, e.id)] : e \in {f \in ToSet(pg.feedback) : Theirs(f, u, m)}}

\* handleFeedback: a visitor leaves an address or none; a session adds its user.
AddFeedback(u, m) ==
  /\ Call("feedback")
  /\ mem' = MemAddFeedback(mem, u, m) /\ pg' = PgAddFeedback(pg, u, m)
  /\ UNCHANGED held

\* adminFeedbackReply: any id.
AdminReply(id) ==
  /\ Call("feedback")
  /\ mem' = MemAddReply(mem, id, "ayni") /\ pg' = PgAddReply(pg, id, "ayni")
  /\ UNCHANGED held

\* handleMyFeedbackReply: an entry that the store says is the tester's.
TesterReply(u, m, id) ==
  /\ Call("feedback")
  /\ mem' = IF \E e \in MemFeedbackForUser(u, m) : e.id = id
              THEN MemAddReply(mem, id, "tester") ELSE mem
  /\ pg' = IF \E e \in PgFeedbackForUser(u, m) : e.id = id
             THEN PgAddReply(pg, id, "tester") ELSE pg
  /\ UNCHANGED held

--------------------------------------------------------------------------------
(***************************************************************************)
(* Runs.                                                                   *)
(***************************************************************************)

MemUpsertRun(s, r) == [s EXCEPT !.runs = Put(@, r.id, r)]

\* Mutant: the charge is missing from the columns an update writes.
UpsertRunWithoutCharge(s, r) ==
  IF r.id \notin DOMAIN s.runs THEN [s EXCEPT !.runs = Put(@, r.id, r)]
  ELSE [s EXCEPT !.runs[r.id] = [@ EXCEPT !.status = r.status, !.hook = r.hook]]

\* An update leaves the key, the quote, the webhook's address, the label and created_at.
PgUpsertRun(s, r) ==
  IF r.id \notin DOMAIN s.runs THEN [s EXCEPT !.runs = Put(@, r.id, r)]
  ELSE [s EXCEPT !.runs[r.id] =
          [@ EXCEPT !.status = r.status, !.charged = r.charged, !.hook = r.hook]]

Newest(rows, limit) == {r \in rows : Cardinality({o \in rows : o.created > r.created}) < limit}

MemListRuns(k, limit) ==
  Newest({r \in {mem.runs[x] : x \in DOMAIN mem.runs} : r.key = k},
         IF limit <= 0 \/ limit > ListMax THEN ListDefault ELSE limit)
PgListRuns(k, limit) ==
  Newest({pg.runs[x] : x \in {y \in DOMAIN pg.runs : pg.runs[y].key = k}},
         IF limit <= 0 \/ limit > ListMax THEN ListDefault ELSE limit)

Save(r) ==
  /\ held' = Put(held, r.id, r)
  /\ mem' = MemUpsertRun(mem, r) /\ pg' = PgUpsertRun(pg, r)

\* startAsyncRun: a new row, with or without a webhook ("none").
StartRun(x, k, hook) ==
  /\ Call("runs")
  /\ x \notin DOMAIN held
  /\ Save([id |-> x, key |-> k, created |-> calls, status |-> "queued", charged |-> 0,
           hook |-> hook])

\* executeAsyncRun saves its copy when it starts, makes progress and ends; finishRun
\* records what became of the webhook.
SaveRun(x, status, charged) ==
  /\ Call("runs")
  /\ x \in DOMAIN held
  /\ held[x].status \in (IF status = "running" THEN {"queued", "running"} ELSE {"running"})
  /\ charged = 0 \/ status = "succeeded"
  /\ \E hook \in IF held[x].hook = "none" \/ status = "running" THEN {held[x].hook}
                 ELSE {"delivered", "failed"} :
       Save([held[x] EXCEPT !.status = status, !.charged = charged, !.hook = hook])

--------------------------------------------------------------------------------

KeyCalls ==
  \/ \E r \in Raws : CreateConsumerKey(r)
  \/ \E r \in Raws, off \in BOOLEAN : SetConsumerKeyDisabled(KeyID(r), off)
BookCalls ==
  \/ \E e \in Entries : AddCredit(e)
  \/ \E k \in EnvKeys, n \in {0, 2} : RecordUsage(k, n)
  \/ \E j \in Jobs, c \in Conns : RecordEarning(j, c)
  \/ \E d \in Devices : RecordPayoutAndSettle(d)
DeskCalls ==
  \/ \E d \in Devices, x \in Stripes, st \in {"pending", "enabled"} :
       UpsertPayoutAccount(d, [stripe |-> x, status |-> st])
  \/ \E d \in Devices, tps \in {1, 2} : UpsertNodeCapability(d, tps)
  \/ \E m \in Mails, i \in {"share", "rent"} : AddWaitlist(m, i)
  \/ \E m \in Mails : AddProposal(m)
  \/ \E u \in Users \cup {None}, m \in Mails \cup {None} : AddFeedback(u, m)
  \/ \E id \in 1 .. 3 : AdminReply(id)
  \/ \E u \in Users, m \in Mails, id \in 1 .. 3 : TesterReply(u, m, id)
RunCalls ==
  \/ \E x \in RunIds, k \in EnvKeys, hook \in {"none", "pending"} : StartRun(x, k, hook)
  \/ \E x \in RunIds, st \in {"running", "succeeded", "failed"}, n \in {0, 1} : SaveRun(x, st, n)

Next == KeyCalls \/ BookCalls \/ DeskCalls \/ RunCalls

Spec == Init /\ [][Next]_vars

--------------------------------------------------------------------------------
(***************************************************************************)
(* Properties.                                                             *)
(***************************************************************************)

\* Money and metering read the same from either store, whatever was retried or paid out:
\* balances, usage by key, earnings by provider; and a balance is the sum of its entries.
\* (CreditBalance, UsageSince, EarningsSince)
BooksAgree ==
  /\ \A k \in EnvKeys :
       /\ MemCreditBalance(k) = PgCreditBalance(k)
       /\ PgCreditBalance(k) = Total(pg.ledger, "key", k, "delta")
       /\ MemUsageSince(k) = PgUsageSince(k)
  /\ \A c \in Conns : MemEarningsSince(c) = PgEarningsSince(c)

\* Records read the same from either store: who a key is, runs and their lists, threads
\* with their replies, accounts both ways, benchmarks, proposals in either order, and the
\* waitlist but for spelling.
RowsAgree ==
  /\ \A r \in Raws : MemValidate(r) = PgValidate(r)
  /\ MemListKeys = PgListKeys
  /\ mem.runs = pg.runs
  /\ \A k \in EnvKeys, n \in 0 .. ListMax + 1 : MemListRuns(k, n) = PgListRuns(k, n)
  /\ \A u \in Users \cup {None}, m \in Mails \cup {None} :
       MemFeedbackForUser(u, m) = PgFeedbackForUser(u, m)
  /\ \A d \in Devices : MemAccount(d) = PgAccount(d)
  /\ \A x \in Stripes : MemByStripe(x) = PgByStripe(x)
  /\ MemCapabilities = PgCapabilities
  /\ MemWaitlist = PgWaitlist /\ MemProposals = Reverse(PgProposals)

\* Their inductive invariant: each aggregate of Mem is that of the rows of PG, and the
\* two know the same jobs, sessions, keys, addresses, threads and runs.
MemTables == {"keys", "keyInfo", "usage", "rows", "settled", "accrued", "credits", "topupRefs",
              "debitJobs", "payoutAccts", "nodeCaps", "waitlist", "proposals", "feedback", "runs"}
PgTables == {"keys", "usage", "earnings", "billing", "ledger", "accounts", "caps", "waitlist",
             "proposals", "feedback", "replies", "runs"}

KeysMatch ==
  /\ DOMAIN mem.keyInfo = DOMAIN pg.keys
  /\ DOMAIN pg.keys \subseteq {KeyID(r) : r \in Raws \ EnvKeys}
  /\ \A r \in Raws :
       /\ At(mem.keys, r, None) = IF r \in EnvKeys \/ KeyID(r) \in DOMAIN pg.keys THEN KeyID(r)
                                 ELSE None
       /\ KeyID(r) \in DOMAIN pg.keys => \E off \in BOOLEAN :
            /\ mem.keyInfo[KeyID(r)] = [disabled |-> off]
            /\ pg.keys[KeyID(r)] = [sha |-> Sha(r), disabled |-> off]

CreditsMatch ==
  /\ pg.ledger \in Seq(Entries)
  /\ \A x \in Refs :
       x \in mem.topupRefs <=> \E i \in DOMAIN pg.ledger : /\ pg.ledger[i].reason = "topup"
                                                        /\ pg.ledger[i].ref = x
  /\ \A j \in Jobs :
       j \in mem.debitJobs <=> \E i \in DOMAIN pg.ledger : /\ pg.ledger[i].reason = "debit"
                                                        /\ pg.ledger[i].job = j
  /\ \A k \in EnvKeys :
       MemCreditBalance(k) = PgCreditBalance(k)
         /\ PgCreditBalance(k) = Total(pg.ledger, "key", k, "delta")

UsageMatches ==
  /\ pg.usage \in Seq([key : EnvKeys, tokens : Nat])
  /\ \A k \in EnvKeys : MemUsageSince(k) = PgUsageSince(k)

EarningRows == [job : Jobs \cup {None}, conn : Conns \cup {None}, dev : Devices,
                gross : Nat, share : Nat, state : {"accrued", "paid"}]
EarningsMatch ==
  /\ pg.earnings \in Seq(EarningRows)
  /\ \A j \in Jobs, d \in Devices :
       <<j, d>> \in mem.settled <=> \E i \in DOMAIN pg.earnings : /\ pg.earnings[i].job = j
                                                               /\ pg.earnings[i].dev = d
  /\ \A c \in Conns : MemEarningsSince(c) = PgEarningsSince(c)

DeskMatches ==
  /\ mem.payoutAccts = pg.accounts
  /\ \A d \in DOMAIN pg.accounts :
       pg.accounts[d] \in [stripe : Stripes, status : {"pending", "enabled"}]
  /\ mem.nodeCaps = pg.caps
  /\ mem.proposals = pg.proposals /\ pg.proposals \in Seq(Mails)

SignUps == [email : Mails, interest : {"share", "rent"}]
WaitlistMatches ==
  /\ mem.waitlist \in Seq(SignUps)
  /\ \A i, j \in DOMAIN mem.waitlist :
       Lower[mem.waitlist[i].email] = Lower[mem.waitlist[j].email] => i = j
  /\ DOMAIN pg.waitlist = {Lower[mem.waitlist[i].email] : i \in DOMAIN mem.waitlist}
  /\ \A i \in DOMAIN mem.waitlist :
       LET row == pg.waitlist[Lower[mem.waitlist[i].email]]
       IN  row \in SignUps /\ row.interest = mem.waitlist[i].interest

ThreadsMatch ==
  /\ pg.replies \in Seq([to : Nat, author : {"ayni", "tester"}])
  /\ \A i \in DOMAIN pg.replies : pg.replies[i].to \in DOMAIN pg.feedback
  /\ pg.feedback \in Seq([id : Nat, user : Users \cup {None}, email : Mails \cup {None}])
  /\ mem.feedback \in Seq([id : Nat, user : Users \cup {None}, email : Mails \cup {None},
                           replies : Seq({"ayni", "tester"})])
  /\ Len(mem.feedback) = Len(pg.feedback)
  /\ \A i \in DOMAIN pg.feedback :
       /\ pg.feedback[i].id = i
       /\ mem.feedback[i] = [id |-> i, user |-> pg.feedback[i].user,
                             email |-> pg.feedback[i].email, replies |-> RepliesTo(pg.replies, i)]

RunsMatch ==
  /\ held = mem.runs /\ mem.runs = pg.runs
  /\ \A x \in DOMAIN held :
       held[x] \in [id : {x}, key : EnvKeys, created : Nat, charged : {0, 1},
                    status : {"queued", "running", "succeeded", "failed"},
                    hook : {"none", "pending", "delivered", "failed"}]

StoreInv ==
  /\ DOMAIN mem = MemTables /\ DOMAIN pg = PgTables /\ calls \in Nat
  /\ KeysMatch /\ CreditsMatch /\ UsageMatches /\ EarningsMatch
  /\ DeskMatches /\ WaitlistMatches /\ ThreadsMatch /\ RunsMatch

\* What AccruedByProvider says a device is owed is the same from either store. It is not:
\* Mem adds only the first job of a connection.
OwedAgree == \A d \in Devices : MemAccrued(d) = PgAccrued(d)
================================================================================
