--------------------------------- MODULE Payouts ---------------------------------
(***************************************************************************)
(* What providers earn and what they are paid: the accrual of metered jobs *)
(* (RecordEarning), the operators' payout runs (adminPayoutsRun with       *)
(* commit=1), and the status of the connected Stripe accounts, which       *)
(* thin webhooks and the operator's re-check refresh.                      *)
(*                                                                         *)
(* A payout run reads the sums that are owed, then goes through the        *)
(* devices one by one: it reads the stored account status, asks Stripe for *)
(* a transfer of whole cents, and settles: it marks every accrued row paid *)
(* and accrues the remainder again.  Jobs keep accruing meanwhile, and     *)
(* nothing keeps a second run from starting.                               *)
(***************************************************************************)
EXTENDS Integers, FiniteSets

CONSTANTS
  Devices,    \* static keys of providers
  Operators,  \* each runs one payout run after another
  Handlers,   \* webhook deliveries and re-checks at work at a time
  None,
  Share,      \* what a job earns its provider
  Cent,       \* the unit Stripe transfers
  Minimums,   \* values of min_usd
  MaxJobs,    \* bound: jobs of a device
  MaxChanges, \* bound: changes of an account's readiness
  MaxFaults   \* bound: lost answers and failed store or API calls

ASSUME PayoutsAssumption ==
  /\ None \notin Devices
  /\ Share \in Nat \ {0} /\ Cent \in Nat \ {0}
  /\ Minimums \subseteq Nat
  /\ MaxJobs \in Nat /\ MaxChanges \in Nat /\ MaxFaults \in Nat

VARIABLES
  earned,     \* what the device's metered jobs were worth, all told
  owed,       \* the sum of its rows in state accrued
  paid,       \* what Stripe has transferred to it
  status,     \* the stored status of its account, "none" without one
  ready,      \* Stripe: the account can receive transfers
  events,     \* Stripe: notifications of a change that are not delivered yet
  visit,      \* what a handler has read from Stripe and not stored yet
  todo,       \* a payout run's snapshot: what it is still to pay each device
  paying,     \* the device whose transfer was made and is not settled
  changes,
  faults,
  late,       \* history: what was earned while a payout run had the device on its list
  overlapped, \* history: a payout run was started during another one
  raced       \* history: an account was read while another handler had read it

payVars  == <<earned, owed, paid, todo, paying, late, overlapped>>
acctVars == <<status, ready, events, visit, changes, raced>>
vars     == <<payVars, acctVars, faults>>

Floor(n) == (n \div Cent) * Cent
Dust(n)  == n % Cent

TypeOK ==
  /\ earned \in [Devices -> Nat] /\ owed \in [Devices -> Nat]
  /\ paid \in [Devices -> Nat] /\ late \in [Devices -> Nat]
  /\ status \in [Devices -> {"none", "pending", "enabled"}]
  /\ ready \in [Devices -> BOOLEAN]
  /\ events \in [Devices -> Nat]
  /\ visit \in [Handlers -> [dev : Devices \cup {None}, ready : BOOLEAN]]
  /\ todo \in [Operators -> [Devices -> Nat]]
  /\ paying \in [Operators -> Devices \cup {None}]
  /\ changes \in 0 .. MaxChanges
  /\ faults \in 0 .. MaxFaults
  /\ overlapped \in BOOLEAN /\ raced \in BOOLEAN

NoVisit == [dev |-> None, ready |-> FALSE]

Init ==
  /\ earned = [d \in Devices |-> 0] /\ owed = earned /\ paid = earned /\ late = earned
  /\ status = [d \in Devices |-> "none"]
  /\ ready = [d \in Devices |-> FALSE]
  /\ events = [d \in Devices |-> 0]
  /\ visit = [h \in Handlers |-> NoVisit]
  /\ todo = [p \in Operators |-> [d \in Devices |-> 0]]
  /\ paying = [p \in Operators |-> None]
  /\ changes = 0 /\ faults = 0 /\ overlapped = FALSE /\ raced = FALSE

Working(p) == \E d \in Devices : todo[p][d] > 0

Fault == faults < MaxFaults /\ faults' = faults + 1

--------------------------------------------------------------------------------
(***************************************************************************)
(* Accrual.                                                                *)
(***************************************************************************)

\* RecordEarning of one more job: a row in state accrued.
RecordEarning(d) ==
  /\ earned[d] < MaxJobs * Share
  /\ earned' = [earned EXCEPT ![d] = @ + Share]
  /\ owed' = [owed EXCEPT ![d] = @ + Share]
  /\ late' = IF \E p \in Operators : todo[p][d] > 0
               THEN [late EXCEPT ![d] = @ + Share] ELSE late
  /\ UNCHANGED <<paid, todo, paying, overlapped, acctVars, faults>>

--------------------------------------------------------------------------------
(***************************************************************************)
(* Connected accounts.                                                     *)
(***************************************************************************)

\* adminPayoutConnect of a device without an account.
Connect(d) ==
  /\ status[d] = "none"
  /\ status' = [status EXCEPT ![d] = "pending"]
  /\ UNCHANGED <<ready, events, visit, changes, raced, payVars, faults>>

\* Stripe enables or restricts the account, and sends a notification.
StripeChanges(d) ==
  /\ status[d] # "none"
  /\ changes < MaxChanges
  /\ changes' = changes + 1
  /\ ready' = [ready EXCEPT ![d] = ~@]
  /\ events' = [events EXCEPT ![d] = @ + 1]
  /\ UNCHANGED <<status, visit, raced, payVars, faults>>

\* v2AccountReady: what the handler will store is read from Stripe now.
ReadAccount(h, d) ==
  /\ visit' = [visit EXCEPT ![h] = [dev |-> d, ready |-> ready[d]]]
  /\ raced' = (raced \/ \E g \in Handlers : visit[g].dev = d)

\* handlePayoutWebhook: the account is read fresh; when that fails the notification
\* is acknowledged all the same.
Webhook(h, d) ==
  /\ visit[h] = NoVisit
  /\ events[d] > 0
  /\ events' = [events EXCEPT ![d] = @ - 1]
  /\ \/ ReadAccount(h, d) /\ UNCHANGED faults
     \/ Fault /\ UNCHANGED <<visit, raced>>
  /\ UNCHANGED <<status, ready, changes, payVars>>

\* adminPayoutRefresh: the operator's re-check.
Refresh(h, d) ==
  /\ visit[h] = NoVisit
  /\ status[d] # "none"
  /\ ReadAccount(h, d)
  /\ UNCHANGED <<status, ready, events, changes, payVars, faults>>

\* Mutant: an account is only ever upgraded.
UpsertEnabled(h) ==
  /\ visit[h].dev # None
  /\ visit' = [visit EXCEPT ![h] = NoVisit]
  /\ status' = IF visit[h].ready THEN [status EXCEPT ![visit[h].dev] = "enabled"] ELSE status
  /\ UNCHANGED <<ready, events, changes, raced, payVars, faults>>

\* UpsertPayoutAccount of what was read; its error is dropped.
Upsert(h) ==
  /\ visit[h].dev # None
  /\ visit' = [visit EXCEPT ![h] = NoVisit]
  /\ \/ /\ status' = [status EXCEPT ![visit[h].dev] =
                        IF visit[h].ready THEN "enabled" ELSE "pending"]
        /\ UNCHANGED faults
     \/ Fault /\ UNCHANGED status
  /\ UNCHANGED <<ready, events, changes, raced, payVars>>

--------------------------------------------------------------------------------
(***************************************************************************)
(* Payout runs.                                                            *)
(***************************************************************************)

\* AccruedByProvider; sums below the minimum and below a cent are skipped.
ReadAccrued(p, min) ==
  /\ ~Working(p)
  /\ todo' = [todo EXCEPT ![p] =
                [d \in Devices |-> IF owed[d] >= min /\ owed[d] >= Cent THEN owed[d] ELSE 0]]
  /\ overlapped' = (overlapped \/ \E q \in Operators \ {p} : Working(q))
  /\ UNCHANGED <<earned, owed, paid, paying, late, acctVars, faults>>

Done(p, d) == todo' = [todo EXCEPT ![p][d] = 0]

\* The account is not enabled at the time the loop comes to it.
Skip(p, d) ==
  /\ todo[p][d] > 0 /\ paying[p] = None
  /\ status[d] # "enabled"
  /\ Done(p, d)
  /\ UNCHANGED <<earned, owed, paid, paying, late, overlapped, acctVars, faults>>

\* V1Transfers.Create: made; refused, which is recorded as a failed payout that
\* settles nothing; or made with an error for an answer.
Transfer(p, d) ==
  /\ todo[p][d] > 0 /\ paying[p] = None
  /\ status[d] = "enabled"
  /\ \/ /\ ready[d]
        /\ paid' = [paid EXCEPT ![d] = @ + Floor(todo[p][d])]
        /\ paying' = [paying EXCEPT ![p] = d]
        /\ UNCHANGED <<todo, faults>>
     \/ Done(p, d) /\ UNCHANGED <<paid, paying, faults>>
     \/ /\ ready[d] /\ Fault
        /\ paid' = [paid EXCEPT ![d] = @ + Floor(todo[p][d])]
        /\ Done(p, d) /\ UNCHANGED paying
  /\ UNCHANGED <<earned, owed, late, overlapped, acctVars>>

\* Mutant: the remainder is not accrued again.
SettleDust(p) ==
  /\ paying[p] # None
  /\ paying' = [paying EXCEPT ![p] = None]
  /\ Done(p, paying[p])
  /\ owed' = [owed EXCEPT ![paying[p]] = 0]
  /\ UNCHANGED <<earned, paid, late, overlapped, acctVars, faults>>

\* Mutant: only the rows of the payout's own period are marked paid.
SettleNothing(p) ==
  /\ paying[p] # None
  /\ paying' = [paying EXCEPT ![p] = None]
  /\ Done(p, paying[p])
  /\ UNCHANGED <<owed, earned, paid, late, overlapped, acctVars, faults>>

\* RecordPayoutAndSettle, one transaction: every row that is accrued by now becomes
\* paid, the remainder of the snapshot is accrued again.  Its error is dropped; a
\* coordinator that crashes before it has the same effect.
Settle(p) ==
  /\ paying[p] # None
  /\ paying' = [paying EXCEPT ![p] = None]
  /\ Done(p, paying[p])
  /\ \/ /\ owed' = [owed EXCEPT ![paying[p]] = Dust(todo[p][paying[p]])]
        /\ UNCHANGED faults
     \/ Fault /\ UNCHANGED owed
  /\ UNCHANGED <<earned, paid, late, overlapped, acctVars>>

AccountStep(d) ==
  \/ RecordEarning(d) \/ Connect(d) \/ StripeChanges(d)
  \/ \E h \in Handlers : Webhook(h, d) \/ Refresh(h, d)

PayoutStep(p) ==
  \/ \E min \in Minimums : ReadAccrued(p, min)
  \/ \E d \in Devices : Skip(p, d) \/ Transfer(p, d)
  \/ Settle(p)

Next ==
  \/ \E d \in Devices : AccountStep(d)
  \/ \E h \in Handlers : Upsert(h)
  \/ \E p \in Operators : PayoutStep(p)

Spec == Init /\ [][Next]_vars

--------------------------------------------------------------------------------
(***************************************************************************)
(* Properties.                                                             *)
(***************************************************************************)

\* A provider that is not paid for something is still owed it, whatever fails and
\* however payout runs overlap; only what it earned while a run had it on its list
\* may be marked paid without having been paid.
NothingWithheld ==
  \A d \in Devices : paid[d] + owed[d] + late[d] >= earned[d]

\* Runs one after the other, whose transfers and settlements succeed or fail cleanly,
\* pay no provider more than its jobs have earned, although jobs go on accruing.
PaidFromEarnings ==
  (faults = 0 /\ ~overlapped) => \A d \in Devices : paid[d] <= earned[d]

Agrees(d) == ready[d] <=> status[d] = "enabled"

\* No notification is left and no handler is at work.
Settled(d) == events[d] = 0 /\ \A h \in Handlers : visit[h].dev # d

\* The stored status follows Stripe's, without the operator, as long as no call fails
\* and no two handlers are at work for one account at a time.
StatusIsCurrent ==
  (faults = 0 /\ ~raced) =>
    \A d \in Devices : (status[d] # "none" /\ Settled(d)) => Agrees(d)

\* The inductive invariant of NothingWithheld: each snapshot still covers what was
\* earned before it, and what was transferred from it covers all but its dust.
SnapshotInv ==
  \A p \in Operators :
    /\ paying[p] # None => todo[p][paying[p]] > 0
    /\ \A d \in Devices :
         /\ todo[p][d] > 0 => paid[d] + todo[p][d] + late[d] >= earned[d]
         /\ paying[p] = d => paid[d] + Dust(todo[p][d]) + late[d] >= earned[d]

\* The inductive invariant of PaidFromEarnings: one run works at a time, from sums
\* that are still owed, and only the transfer it is about to settle is in the books
\* twice, as paid and as owed.
BooksInv ==
  (faults = 0 /\ ~overlapped) =>
    /\ \A p, q \in Operators : Working(p) /\ Working(q) => p = q
    /\ \A p \in Operators : \A d \in Devices : todo[p][d] <= owed[d]
    /\ \A d \in Devices :
         \/ paid[d] + owed[d] <= earned[d]
         \/ \E p \in Operators :
              paying[p] = d /\ paid[d] + owed[d] - Floor(todo[p][d]) <= earned[d]

\* The inductive invariant of StatusIsCurrent: one handler at a time has read the
\* account, and it has read the readiness that no notification is left to announce.
StatusInv ==
  /\ \A d \in Devices : status[d] = "none" =>
       ~ready[d] /\ events[d] = 0 /\ \A h \in Handlers : visit[h].dev # d
  /\ (faults = 0 /\ ~raced) => \A d \in Devices :
       /\ \A g, h \in Handlers : visit[g].dev = d /\ visit[h].dev = d => g = h
       /\ events[d] = 0 =>
            /\ \A h \in Handlers : visit[h].dev = d => visit[h].ready = ready[d]
            /\ Settled(d) => Agrees(d)

PayoutsInv == TypeOK /\ NothingWithheld /\ SnapshotInv /\ BooksInv

--------------------------------------------------------------------------------
(***************************************************************************)
(* What a document says, and a run refutes.                                *)
(***************************************************************************)

\* "Payouts cannot exceed accrued provider balance"
\* (docs/AGENT-COORDINATION-SECURITY-COUNCIL.md).
PaidWithinAccrued == \A d \in Devices : paid[d] <= earned[d]
================================================================================
