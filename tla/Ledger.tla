--------------------------------- MODULE Ledger ---------------------------------
(***************************************************************************)
(* The prepaid ledger of one consumer key: Stripe's deliveries of paid     *)
(* checkout sessions (handleStripeWebhook) and the debits of metered jobs  *)
(* (meter), both through store.PG.AddCredit, a READ COMMITTED transaction  *)
(* of three statements.                                                    *)
(*                                                                         *)
(* A call is one call of AddCredit.  Its transaction first looks for its   *)
(* entry among the committed ones, then updates the account row, which     *)
(* locks it until the transaction ends, and then inserts the ledger row,   *)
(* where a unique index refuses a second one.  A call may be cut off       *)
(* between any two statements, and its answer may be lost after the        *)
(* commit.  Stripe delivers a session until one delivery is acknowledged,  *)
(* and sometimes once more.                                                *)
(***************************************************************************)
EXTENDS Integers, FiniteSets

CONSTANTS
  Topups,     \* checkout sessions paid: cs.ID is the stripe_ref
  Jobs,       \* job ids that are metered
  Calls,      \* AddCredit calls
  None,       \* no entry, nobody
  MaxCutOffs  \* bound: calls that are cut off or whose answer is lost

ASSUME LedgerAssumption ==
  /\ IsFiniteSet(Topups) /\ IsFiniteSet(Jobs)
  /\ Topups \cap Jobs = {}
  /\ None \notin Topups \cup Jobs \cup Calls
  /\ MaxCutOffs \in Nat

Entries   == Topups \cup Jobs
Amount(e) == IF e \in Topups THEN 2 ELSE -1

VARIABLES
  at,        \* the call: "idle", "begun", "checked", "updated", "inserted", or how it ended
  entry,     \* what it is to post
  balance,   \* billing_accounts.credit_micros, committed
  rows,      \* how often each entry is in credit_ledger, committed
  lock,      \* the call whose transaction holds the account row, or None
  draft,     \* the balance that transaction has written
  answered,  \* entries whose AddCredit returned without an error: 200 for Stripe
  cutOffs

vars == <<at, entry, balance, rows, lock, draft, answered, cutOffs>>

Ends == {"acked", "refused", "cut", "unheard"}

TypeOK ==
  /\ at \in [Calls -> {"idle", "begun", "checked", "updated", "inserted"} \cup Ends]
  /\ entry \in [Calls -> Entries \cup {None}]
  /\ balance \in Int
  /\ rows \in [Entries -> Nat]
  /\ lock \in Calls \cup {None}
  /\ draft \in Int
  /\ answered \subseteq Entries
  /\ cutOffs \in 0 .. MaxCutOffs

Init ==
  /\ at = [c \in Calls |-> "idle"]
  /\ entry = [c \in Calls |-> None]
  /\ balance = 0
  /\ rows = [e \in Entries |-> 0]
  /\ lock = None
  /\ draft = 0
  /\ answered = {}
  /\ cutOffs = 0

Goto(c, l) == at' = [at EXCEPT ![c] = l]

\* Some call is at work on the entry.
Busy(e) == \E c \in Calls : entry[c] = e /\ at[c] \in {"begun", "checked", "updated", "inserted"}

\* Stripe delivers a paid session (completed, async_payment_succeeded, a retry, or a
\* repetition); the handler calls AddCredit.
Webhook(c, e) ==
  /\ e \in Topups
  /\ at[c] = "idle"
  /\ Goto(c, "begun")
  /\ entry' = [entry EXCEPT ![c] = e]
  /\ UNCHANGED <<balance, rows, lock, draft, answered, cutOffs>>

\* meter debits the job once, whatever became of the two store calls before it;
\* nothing repeats the call.
Meter(c, e) ==
  /\ e \in Jobs
  /\ at[c] = "idle"
  /\ \A b \in Calls : entry[b] # e
  /\ Goto(c, "begun")
  /\ entry' = [entry EXCEPT ![c] = e]
  /\ UNCHANGED <<balance, rows, lock, draft, answered, cutOffs>>

\* Mutant: a delivery that finds another one at work leaves it to that one.
CheckTrusting(c) ==
  /\ at[c] = "begun"
  /\ \E b \in BOOLEAN :
       /\ b = (rows[entry[c]] > 0 \/ \E d \in Calls \ {c} : entry[d] = entry[c])
       /\ Goto(c, IF b THEN "acked" ELSE "checked")
       /\ answered' = IF b THEN answered \cup {entry[c]} ELSE answered
  /\ UNCHANGED <<entry, balance, rows, lock, draft, cutOffs>>

\* SELECT count(*): a duplicate commits nothing and is a success.
Check(c) ==
  /\ at[c] = "begun"
  /\ Goto(c, IF rows[entry[c]] > 0 THEN "acked" ELSE "checked")
  /\ answered' = IF rows[entry[c]] > 0 THEN answered \cup {entry[c]} ELSE answered
  /\ UNCHANGED <<entry, balance, rows, lock, draft, cutOffs>>

\* INSERT ... ON CONFLICT DO UPDATE: waits for the account row.
Update(c) ==
  /\ at[c] = "checked"
  /\ lock = None
  /\ Goto(c, "updated")
  /\ lock' = c
  /\ draft' = balance + Amount(entry[c])
  /\ UNCHANGED <<entry, balance, rows, answered, cutOffs>>

\* Mutant: the unique indexes are missing.
InsertFreely(c) ==
  /\ at[c] = "updated"
  /\ Goto(c, "inserted")
  /\ UNCHANGED <<entry, balance, rows, lock, draft, answered, cutOffs>>

\* INSERT INTO credit_ledger: the unique index rolls the transaction back.
Insert(c) ==
  /\ at[c] = "updated"
  /\ IF rows[entry[c]] > 0
       THEN Goto(c, "refused") /\ lock' = None
       ELSE Goto(c, "inserted") /\ UNCHANGED lock
  /\ UNCHANGED <<entry, balance, rows, draft, answered, cutOffs>>

\* The commit; an answer that is lost leaves the caller with an error.
Commit(c) ==
  /\ at[c] = "inserted"
  /\ balance' = draft
  /\ rows' = [rows EXCEPT ![entry[c]] = @ + 1]
  /\ lock' = None
  /\ \/ /\ Goto(c, "acked")
        /\ answered' = answered \cup {entry[c]}
        /\ UNCHANGED cutOffs
     \/ /\ cutOffs < MaxCutOffs
        /\ cutOffs' = cutOffs + 1
        /\ Goto(c, "unheard")
        /\ UNCHANGED answered
  /\ UNCHANGED <<entry, draft>>

\* Mutant: the handler only logs the error.
CutOffAcknowledged(c) ==
  /\ at[c] \in {"begun", "checked", "updated", "inserted"}
  /\ cutOffs < MaxCutOffs
  /\ cutOffs' = cutOffs + 1
  /\ Goto(c, "cut")
  /\ lock' = IF lock = c THEN None ELSE lock
  /\ answered' = answered \cup {entry[c]}
  /\ UNCHANGED <<entry, balance, rows, draft>>

\* The five-second timeout, a lost connection or a crash: the database rolls back.
CutOff(c) ==
  /\ at[c] \in {"begun", "checked", "updated", "inserted"}
  /\ cutOffs < MaxCutOffs
  /\ cutOffs' = cutOffs + 1
  /\ Goto(c, "cut")
  /\ lock' = IF lock = c THEN None ELSE lock
  /\ UNCHANGED <<entry, balance, rows, draft, answered>>

Posts(c) == Check(c) \/ Update(c) \/ Insert(c) \/ Commit(c)

Next ==
  \E c \in Calls :
    \/ \E e \in Entries : Webhook(c, e) \/ Meter(c, e)
    \/ Posts(c) \/ CutOff(c)

\* A transaction is carried on, and Stripe delivers an unacknowledged session again
\* while no delivery of it is under way.
Redelivers(e) == e \notin answered /\ ~Busy(e) /\ \E c \in Calls : Webhook(c, e)

Fairness ==
  /\ \A c \in Calls : WF_vars(Posts(c))
  /\ \A e \in Topups : WF_vars(Redelivers(e))

Spec == Init /\ [][Next]_vars /\ Fairness

--------------------------------------------------------------------------------
(***************************************************************************)
(* Properties.                                                             *)
(***************************************************************************)

\* No entry is posted twice, whatever retries, repetitions and lost answers there
\* are (threat model: "a replay, race, or webhook retry creates credits twice").
PostedOnce == \A e \in Entries : rows[e] <= 1

Posted == {e \in Entries : rows[e] > 0}

\* The balance is what the ledger says, after every commit and every rollback.
BalanceIsLedger ==
  balance = 2 * Cardinality(Posted \cap Topups) - Cardinality(Posted \cap Jobs)

\* What was acknowledged to Stripe, and will not be delivered again, is posted.
AnsweredIsPosted == answered \subseteq Posted

\* Who holds the account row has not committed, and its draft is the balance with
\* its own entry: no update of another call is lost.
RowHolderIsCurrent ==
  lock # None => /\ at[lock] \in {"updated", "inserted"}
                 /\ draft = balance + Amount(entry[lock])

\* A call that is about to commit has not been overtaken.
LockInv ==
  /\ \A c \in Calls : at[c] \in {"updated", "inserted"} <=> lock = c
  /\ \A c \in Calls : at[c] = "inserted" => rows[entry[c]] = 0
  /\ \A c \in Calls : at[c] # "idle" => entry[c] \in Entries

\* The inductive invariant: the row lock serialises the writers, and the unique index
\* refuses the second one.
LedgerInv ==
  /\ TypeOK /\ LockInv /\ RowHolderIsCurrent /\ PostedOnce /\ BalanceIsLedger
  /\ AnsweredIsPosted

\* A paid session is credited in the end.
PaymentsArrive == \A e \in Topups : (\E c \in Calls : entry[c] = e) ~> e \in Posted

--------------------------------------------------------------------------------
Abstract == INSTANCE Account WITH posted <- Posted, funds <- balance

\* The transactions implement the account the handlers rely on.
ImplementsAccount == Abstract!AccountSpec
================================================================================
