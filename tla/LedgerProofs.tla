------------------------------ MODULE LedgerProofs ------------------------------
(***************************************************************************)
(* Theorems about Ledger, for any number of sessions, jobs, calls and cut  *)
(* offs.                                                                   *)
(***************************************************************************)
EXTENDS Ledger, FiniteSetTheorems, TLAPS

\* The balance the ledger rows ask for.
Sum(S) == 2 * Cardinality(S \cap Topups) - Cardinality(S \cap Jobs)

\* A further entry is worth its amount.
LEMMA SumAdd ==
  ASSUME NEW S \in SUBSET Entries, NEW e \in Entries, e \notin S
  PROVE  Sum(S \cup {e}) = Sum(S) + Amount(e)
<1> DEFINE T == S \cap Topups
           J == S \cap Jobs
<1>1. /\ IsFiniteSet(T) /\ IsFiniteSet(J)
      /\ Cardinality(T) \in Nat /\ Cardinality(J) \in Nat
  <2>1. IsFiniteSet(T) /\ IsFiniteSet(J)
    BY FS_Intersection, LedgerAssumption
  <2>2. QED
    BY <2>1, FS_CardinalityType
<1>2. CASE e \in Topups
  <2>1. (S \cup {e}) \cap Topups = T \cup {e} /\ (S \cup {e}) \cap Jobs = J
    BY <1>2, LedgerAssumption
  <2>2. Cardinality(T \cup {e}) = Cardinality(T) + 1
    BY <1>1, FS_AddElement
  <2>3. Sum(S \cup {e}) = 2 * Cardinality(T \cup {e}) - Cardinality(J)
    BY <2>1 DEF Sum
  <2> HIDE DEF T, J
  <2>4. QED
    BY <1>1, <1>2, <2>2, <2>3 DEF Sum, Amount, T, J
<1>3. CASE e \in Jobs
  <2>1. (S \cup {e}) \cap Topups = T /\ (S \cup {e}) \cap Jobs = J \cup {e}
    BY <1>3, LedgerAssumption
  <2>2. Cardinality(J \cup {e}) = Cardinality(J) + 1
    BY <1>1, FS_AddElement
  <2>3. Sum(S \cup {e}) = 2 * Cardinality(T) - Cardinality(J \cup {e})
    BY <2>1 DEF Sum
  <2>4. e \notin Topups
    BY <1>3, LedgerAssumption
  <2> HIDE DEF T, J
  <2>5. QED
    BY <1>1, <2>2, <2>3, <2>4 DEF Sum, Amount, T, J
<1>4. QED
  BY <1>2, <1>3 DEF Entries

LEMMA BalanceIsSum == BalanceIsLedger <=> balance = Sum(Posted)
BY DEF BalanceIsLedger, Sum

\* Nothing is posted before the first commit.
LEMMA InitInv == Init => LedgerInv
<1> SUFFICES ASSUME Init PROVE LedgerInv
  OBVIOUS
<1>1. TypeOK
  BY LedgerAssumption DEF Init, TypeOK, Ends
<1>2. LockInv /\ RowHolderIsCurrent /\ PostedOnce /\ AnsweredIsPosted
  BY LedgerAssumption DEF Init, LockInv, RowHolderIsCurrent, PostedOnce, AnsweredIsPosted
<1>3. BalanceIsLedger
  <2>1. Posted \cap Topups = {} /\ Posted \cap Jobs = {}
    BY DEF Init, Posted
  <2>2. QED
    BY <2>1, FS_EmptySet DEF Init, BalanceIsLedger
<1>4. QED
  BY <1>1, <1>2, <1>3 DEF LedgerInv

\* While no row and no balance changes, the ledger stays as it is.
LEMMA SamePosted ==
  ASSUME BalanceIsLedger, UNCHANGED <<balance, rows>>
  PROVE  BalanceIsLedger' /\ Posted' = Posted
BY DEF BalanceIsLedger, Posted

LEMMA StartInv ==
  ASSUME LedgerInv, NEW c \in Calls, NEW e \in Entries, Webhook(c, e) \/ Meter(c, e)
  PROVE  LedgerInv'
<1> USE DEF LedgerInv
<1>0. /\ at' = [at EXCEPT ![c] = "begun"] /\ at[c] = "idle"
      /\ entry' = [entry EXCEPT ![c] = e]
      /\ UNCHANGED <<balance, rows, lock, draft, answered, cutOffs>>
  BY DEF Webhook, Meter, Goto
<1>1. TypeOK'
  BY <1>0 DEF TypeOK
<1>2. LockInv'
  BY <1>0 DEF LockInv, TypeOK
<1>3. RowHolderIsCurrent'
  BY <1>0 DEF RowHolderIsCurrent, LockInv, TypeOK
<1>4. PostedOnce' /\ BalanceIsLedger' /\ AnsweredIsPosted'
  BY <1>0, SamePosted DEF PostedOnce, AnsweredIsPosted
<1>5. QED
  BY <1>1, <1>2, <1>3, <1>4

LEMMA CheckInv ==
  ASSUME LedgerInv, NEW c \in Calls, Check(c)
  PROVE  LedgerInv'
<1> USE DEF LedgerInv, Check, Goto
<1>0. entry[c] \in Entries
  BY DEF LockInv
<1>1. TypeOK'
  BY <1>0 DEF TypeOK, Ends
<1>2. LockInv'
  BY DEF LockInv, TypeOK
<1>3. RowHolderIsCurrent'
  BY DEF RowHolderIsCurrent, LockInv, TypeOK
<1>4. PostedOnce' /\ BalanceIsLedger'
  BY SamePosted DEF PostedOnce
<1>5. AnsweredIsPosted'
  BY <1>0, SamePosted DEF AnsweredIsPosted, Posted
<1>6. QED
  BY <1>1, <1>2, <1>3, <1>4, <1>5

\* The row lock goes to a call only when nobody has it.
LEMMA UpdateInv ==
  ASSUME LedgerInv, NEW c \in Calls, Update(c)
  PROVE  LedgerInv'
<1> USE DEF LedgerInv, Update, Goto
<1>0. entry[c] \in Entries
  BY DEF LockInv
<1>1. TypeOK'
  BY <1>0 DEF TypeOK, Amount
<1>2. LockInv'
  BY LedgerAssumption DEF LockInv, TypeOK
<1>3. RowHolderIsCurrent'
  BY DEF RowHolderIsCurrent, Amount, TypeOK
<1>4. PostedOnce' /\ BalanceIsLedger' /\ AnsweredIsPosted'
  BY SamePosted DEF PostedOnce, AnsweredIsPosted
<1>5. QED
  BY <1>1, <1>2, <1>3, <1>4

LEMMA InsertInv ==
  ASSUME LedgerInv, NEW c \in Calls, Insert(c)
  PROVE  LedgerInv'
<1> USE DEF LedgerInv, Insert, Goto
<1>0. entry[c] \in Entries /\ lock = c
  BY DEF LockInv
<1>1. TypeOK'
  BY DEF TypeOK, Ends
<1>2. LockInv'
  BY <1>0, LedgerAssumption DEF LockInv, TypeOK
<1>3. RowHolderIsCurrent'
  BY <1>0 DEF RowHolderIsCurrent, TypeOK, Amount
<1>4. PostedOnce' /\ BalanceIsLedger' /\ AnsweredIsPosted'
  BY SamePosted DEF PostedOnce, AnsweredIsPosted
<1>5. QED
  BY <1>1, <1>2, <1>3, <1>4

\* The commit posts one entry that was not there, and adds its amount.
LEMMA CommitPosts ==
  ASSUME LedgerInv, NEW c \in Calls, Commit(c)
  PROVE  /\ entry[c] \in Entries \ Posted
         /\ Posted' = Posted \cup {entry[c]}
         /\ balance' = balance + Amount(entry[c])
         /\ lock = c
<1> USE DEF LedgerInv
<1>1. /\ at[c] = "inserted" /\ balance' = draft
      /\ rows' = [rows EXCEPT ![entry[c]] = @ + 1]
  BY DEF Commit
<1>2. entry[c] \in Entries /\ rows[entry[c]] = 0 /\ lock = c
  BY <1>1 DEF LockInv
<1>3. rows \in [Entries -> Nat]
  BY DEF TypeOK
<1>4. Posted' = Posted \cup {entry[c]} /\ entry[c] \notin Posted
  BY <1>1, <1>2, <1>3 DEF Posted
<1>5. balance' = balance + Amount(entry[c])
  BY <1>1, <1>2, LedgerAssumption DEF RowHolderIsCurrent
<1>6. QED
  BY <1>2, <1>4, <1>5

LEMMA CommitInv ==
  ASSUME LedgerInv, NEW c \in Calls, Commit(c)
  PROVE  LedgerInv'
<1> USE DEF LedgerInv
<1>0. /\ entry[c] \in Entries \ Posted
      /\ Posted' = Posted \cup {entry[c]}
      /\ balance' = balance + Amount(entry[c])
      /\ lock = c
  BY CommitPosts
<1>1. /\ at[c] = "inserted" /\ lock' = None
      /\ rows' = [rows EXCEPT ![entry[c]] = @ + 1]
      /\ UNCHANGED <<entry, draft>>
      /\ \/ at' = [at EXCEPT ![c] = "acked"]
         \/ at' = [at EXCEPT ![c] = "unheard"]
      /\ answered' = answered \/ answered' = answered \cup {entry[c]}
      /\ cutOffs' \in 0 .. MaxCutOffs
  BY LedgerAssumption DEF Commit, Goto, TypeOK
<1>2. TypeOK'
  BY <1>0, <1>1 DEF TypeOK, Ends, Amount
<1>3. LockInv'
  BY <1>0, <1>1, LedgerAssumption DEF LockInv, TypeOK
<1>4. RowHolderIsCurrent'
  BY <1>1 DEF RowHolderIsCurrent
<1>5. PostedOnce'
  BY <1>0, <1>1 DEF PostedOnce, Posted, TypeOK
<1>6. BalanceIsLedger'
  <2>1. balance = Sum(Posted) /\ Posted \in SUBSET Entries
    BY BalanceIsSum DEF Posted
  <2>2. Sum(Posted') = Sum(Posted) + Amount(entry[c])
    BY <1>0, <2>1, SumAdd
  <2>3. QED
    BY <1>0, <2>1, <2>2 DEF BalanceIsLedger, Sum
<1>7. AnsweredIsPosted'
  BY <1>0, <1>1 DEF AnsweredIsPosted
<1>8. QED
  BY <1>2, <1>3, <1>4, <1>5, <1>6, <1>7

LEMMA CutOffInv ==
  ASSUME LedgerInv, NEW c \in Calls, CutOff(c)
  PROVE  LedgerInv'
<1> USE DEF LedgerInv, CutOff, Goto
<1>1. TypeOK'
  BY LedgerAssumption DEF TypeOK, Ends
<1>2. LockInv'
  BY LedgerAssumption DEF LockInv, TypeOK
<1>3. RowHolderIsCurrent'
  BY LedgerAssumption DEF RowHolderIsCurrent, TypeOK
<1>4. PostedOnce' /\ BalanceIsLedger' /\ AnsweredIsPosted'
  BY SamePosted DEF PostedOnce, AnsweredIsPosted
<1>5. QED
  BY <1>1, <1>2, <1>3, <1>4

LEMMA StutterInv == LedgerInv /\ UNCHANGED vars => LedgerInv'
BY DEF vars, LedgerInv, TypeOK, LockInv, RowHolderIsCurrent, PostedOnce, BalanceIsLedger,
       AnsweredIsPosted, Posted

\* The row lock and the unique index keep the ledger and the balance in step: the
\* invariant of AddCredit's transactions is inductive.
THEOREM LedgerIsInvariant == Spec => []LedgerInv
<1>1. LedgerInv /\ [Next]_vars => LedgerInv'
  <2> SUFFICES ASSUME LedgerInv, [Next]_vars PROVE LedgerInv'
    OBVIOUS
  <2>1. ASSUME NEW c \in Calls, NEW e \in Entries, Webhook(c, e) \/ Meter(c, e)
        PROVE  LedgerInv'
    BY <2>1, StartInv
  <2>2. ASSUME NEW c \in Calls, Posts(c)
        PROVE  LedgerInv'
    BY <2>2, CheckInv, UpdateInv, InsertInv, CommitInv DEF Posts
  <2>3. ASSUME NEW c \in Calls, CutOff(c)
        PROVE  LedgerInv'
    BY <2>3, CutOffInv
  <2>4. CASE UNCHANGED vars
    BY <2>4, StutterInv
  <2>5. QED
    BY <2>1, <2>2, <2>3, <2>4 DEF Next
<1>2. QED
  BY <1>1, InitInv, PTL DEF Spec

\* No session and no job is posted twice by any race, repetition or lost answer of
\* the deliveries.
THEOREM NothingPostedTwice == Spec => []PostedOnce
BY LedgerIsInvariant, PTL DEF LedgerInv

\* The balance of an account is what its ledger rows add up to.
THEOREM BalanceFollowsLedger == Spec => []BalanceIsLedger
BY LedgerIsInvariant, PTL DEF LedgerInv

\* A session that Stripe has an acknowledgement for is in the ledger.
THEOREM AcknowledgedIsPosted == Spec => []AnsweredIsPosted
BY LedgerIsInvariant, PTL DEF LedgerInv

\* Every step of a transaction is a step of the account or a stutter.
LEMMA StepRefines ==
  ASSUME LedgerInv, [Next]_vars
  PROVE  [Abstract!AccountNext]_(Abstract!accountVars)
<1> USE DEF Abstract!accountVars, Abstract!AccountNext, Abstract!Post
<1>1. ASSUME NEW c \in Calls, Commit(c)
      PROVE  Abstract!AccountNext
  <2>1. Abstract!Amount(entry[c]) = Amount(entry[c]) /\ Abstract!Entries = Entries
    BY DEF Abstract!Amount, Amount, Abstract!Entries, Entries
  <2>2. Abstract!Post(entry[c])
    BY <1>1, <2>1, CommitPosts
  <2>3. entry[c] \in Abstract!Entries
    BY <1>1, <2>1, CommitPosts
  <2>4. QED
    BY <2>2, <2>3
<1>2. ASSUME UNCHANGED <<balance, rows>>
      PROVE  UNCHANGED Abstract!accountVars
  BY <1>2 DEF Posted
<1>3. \/ UNCHANGED <<balance, rows>>
      \/ \E c \in Calls : Commit(c)
  BY DEF Next, Posts, Webhook, Meter, Check, Update, Insert, CutOff, vars
<1>4. QED
  BY <1>1, <1>2, <1>3

\* The transactions of AddCredit implement the account the billing handlers rely on.
THEOREM LedgerImplementsAccount == Spec => ImplementsAccount
<1>1. Init => Abstract!AccountInit
  BY DEF Init, Abstract!AccountInit, Posted
<1>2. QED
  BY <1>1, StepRefines, LedgerIsInvariant, PTL DEF Spec, ImplementsAccount, Abstract!AccountSpec
================================================================================
