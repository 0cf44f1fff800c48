-------------------------------- MODULE Account --------------------------------
(***************************************************************************)
(* What the billing handlers rely on: a balance that always equals the     *)
(* entries posted to it, each top-up and each job's debit posted at most   *)
(* once however often it is asked for (store.Store, AddCredit).            *)
(***************************************************************************)
EXTENDS Integers, FiniteSets

CONSTANTS
  Topups,  \* payments: one Stripe checkout session each
  Jobs     \* metered jobs: one debit each

VARIABLES
  posted,  \* entries of the credit ledger
  funds    \* credit_micros, in units of one job; a top-up is worth two

accountVars == <<posted, funds>>

Entries   == Topups \cup Jobs
Amount(e) == IF e \in Topups THEN 2 ELSE -1

AccountInit == posted = {} /\ funds = 0

Post(e) ==
  /\ e \notin posted
  /\ posted' = posted \cup {e}
  /\ funds' = funds + Amount(e)

AccountNext == \E e \in Entries : Post(e)

AccountSpec == AccountInit /\ [][AccountNext]_accountVars
================================================================================
