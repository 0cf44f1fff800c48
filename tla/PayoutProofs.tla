------------------------------ MODULE PayoutProofs ------------------------------
(***************************************************************************)
(* Theorems about Payouts, for any devices, operators and handlers, any    *)
(* share and cent, and any number of jobs and faults; and about the stores *)
(* that keep its books (Store), for any keys, jobs, users and runs, and    *)
(* any number of calls.                                                    *)
(***************************************************************************)
EXTENDS Books, WellFoundedInduction, TLAPS

--------------------------------------------------------------------------------
(***************************************************************************)
(* Whole cents and dust.                                                   *)
(***************************************************************************)

\* A sum is its whole cents and its dust, and neither is negative.
LEMMA FloorDust ==
  ASSUME NEW n \in Nat
  PROVE  Floor(n) \in Nat /\ Dust(n) \in Nat /\ Floor(n) + Dust(n) = n
<1> DEFINE q == n \div Cent
<1>1. Cent \in Nat /\ Cent > 0
  BY PayoutsAssumption
<1>2. q \in Nat /\ Dust(n) \in Nat /\ n = Cent * q + Dust(n)
  BY <1>1 DEF Dust
<1>3. Cent * q \in Nat /\ q * Cent = Cent * q
  <2> HIDE DEF q
  <2>1. QED
    BY <1>1, <1>2
<1>4. Floor(n) = Cent * q
  BY <1>3 DEF Floor
<1> HIDE DEF q
<1>5. QED
  BY <1>2, <1>3, <1>4

--------------------------------------------------------------------------------
(***************************************************************************)
(* Type correctness.                                                       *)
(***************************************************************************)

\* Webhooks and re-checks store what they read, or nothing.
LEMMA HandlerType ==
  ASSUME TypeOK, NEW d \in Devices, NEW h \in Handlers,
         Webhook(h, d) \/ Refresh(h, d) \/ Upsert(h)
  PROVE  TypeOK'
<1> USE PayoutsAssumption DEF payVars, Fault, NoVisit
<1>1. CASE Webhook(h, d)
  <2>1. [dev |-> d, ready |-> ready[d]] \in [dev : Devices \cup {None}, ready : BOOLEAN]
    BY DEF TypeOK
  <2>2. /\ visit' = visit \/ visit' = [visit EXCEPT ![h] = [dev |-> d, ready |-> ready[d]]]
        /\ raced' \in BOOLEAN
    BY <1>1 DEF Webhook, ReadAccount, TypeOK
  <2>3. visit' \in [Handlers -> [dev : Devices \cup {None}, ready : BOOLEAN]]
    BY <2>1, <2>2 DEF TypeOK
  <2>4. events' \in [Devices -> Nat] /\ faults' \in 0 .. MaxFaults
    BY <1>1 DEF Webhook, TypeOK
  <2>5. QED
    BY <1>1, <2>2, <2>3, <2>4 DEF Webhook, TypeOK
<1>2. CASE Refresh(h, d)
  <2>1. [dev |-> d, ready |-> ready[d]] \in [dev : Devices \cup {None}, ready : BOOLEAN]
    BY DEF TypeOK
  <2>2. /\ visit' \in [Handlers -> [dev : Devices \cup {None}, ready : BOOLEAN]]
        /\ raced' \in BOOLEAN
    BY <1>2, <2>1 DEF Refresh, ReadAccount, TypeOK
  <2>3. QED
    BY <1>2, <2>2 DEF Refresh, TypeOK
<1>3. CASE Upsert(h)
  <2>1. visit[h].dev \in Devices
    BY <1>3 DEF Upsert, TypeOK
  <2>2. /\ visit' \in [Handlers -> [dev : Devices \cup {None}, ready : BOOLEAN]]
        /\ UNCHANGED <<ready, events, changes, raced, payVars>>
    BY <1>3 DEF Upsert, TypeOK
  <2>3. status' \in [Devices -> {"none", "pending", "enabled"}]
    BY <1>3, <2>1 DEF Upsert, TypeOK
  <2>4. faults' \in 0 .. MaxFaults
    BY <1>3 DEF Upsert, TypeOK
  <2>5. QED
    BY <2>2, <2>3, <2>4 DEF TypeOK
<1>4. QED
  BY <1>1, <1>2, <1>3

LEMMA EarningType ==
  ASSUME TypeOK, NEW d \in Devices, RecordEarning(d)
  PROVE  TypeOK'
BY PayoutsAssumption DEF RecordEarning, TypeOK, acctVars

\* An item taken off a payout run's list.
LEMMA DoneType ==
  ASSUME TypeOK, NEW p \in Operators, NEW d \in Devices
  PROVE  [todo EXCEPT ![p][d] = 0] \in [Operators -> [Devices -> Nat]]
<1>1. [todo[p] EXCEPT ![d] = 0] \in [Devices -> Nat]
  BY DEF TypeOK
<1>2. QED
  BY <1>1 DEF TypeOK

LEMMA DoneValue ==
  ASSUME TypeOK, NEW p \in Operators, NEW d \in Devices, Done(p, d)
  PROVE  \A q \in Operators : \A e \in Devices :
           todo'[q][e] = IF q = p /\ e = d THEN 0 ELSE todo[q][e]
BY DEF TypeOK, Done

LEMMA PayoutType ==
  ASSUME TypeOK, NEW p \in Operators, PayoutStep(p)
  PROVE  TypeOK'
<1> USE PayoutsAssumption DEF acctVars, Fault
<1>1. CASE \E min \in Minimums : ReadAccrued(p, min)
  BY <1>1 DEF ReadAccrued, TypeOK
<1>2. ASSUME NEW d \in Devices, Skip(p, d)
      PROVE  TypeOK'
  BY <1>2 DEF Skip, Done, TypeOK
<1>3. ASSUME NEW d \in Devices, Transfer(p, d)
      PROVE  TypeOK'
  <2>1. todo[p][d] \in Nat /\ Floor(todo[p][d]) \in Nat
    <3>1. todo[p][d] \in Nat BY DEF TypeOK
    <3>2. QED BY <3>1, FloorDust
  <2>2. paid' \in [Devices -> Nat]
    <3>1. paid' = paid \/ paid' = [paid EXCEPT ![d] = @ + Floor(todo[p][d])]
      BY <1>3 DEF Transfer
    <3>2. QED
      BY <2>1, <3>1 DEF TypeOK
  <2>3. todo' = todo \/ todo' = [todo EXCEPT ![p][d] = 0]
    BY <1>3 DEF Transfer, Done
  <2>4. todo' \in [Operators -> [Devices -> Nat]]
    <3>1. [todo EXCEPT ![p][d] = 0] \in [Operators -> [Devices -> Nat]]
      BY DoneType
    <3>2. QED
      BY <2>3, <3>1 DEF TypeOK
  <2>5. paying' = paying \/ paying' = [paying EXCEPT ![p] = d]
    BY <1>3 DEF Transfer
  <2>6. paying' \in [Operators -> Devices \cup {None}]
    BY <2>5 DEF TypeOK
  <2>7. faults' \in 0 .. MaxFaults
    BY <1>3 DEF Transfer, TypeOK
  <2>8. QED
    BY <1>3, <2>2, <2>4, <2>6, <2>7 DEF Transfer, TypeOK
<1>4. CASE Settle(p)
  <2>1. paying[p] \in Devices
    BY <1>4 DEF Settle, TypeOK
  <2>2. Dust(todo[p][paying[p]]) \in Nat
    <3>1. todo[p][paying[p]] \in Nat BY <2>1 DEF TypeOK
    <3>2. QED BY <3>1, FloorDust
  <2>3. /\ owed' = owed \/ owed' = [owed EXCEPT ![paying[p]] = Dust(todo[p][paying[p]])]
        /\ faults' = faults \/ (faults < MaxFaults /\ faults' = faults + 1)
    BY <1>4 DEF Settle
  <2>3a. owed' \in [Devices -> Nat]
    BY <2>1, <2>2, <2>3 DEF TypeOK
  <2>3b. faults' \in 0 .. MaxFaults
    BY <2>3 DEF TypeOK
  <2>4. /\ todo' \in [Operators -> [Devices -> Nat]]
        /\ paying' \in [Operators -> Devices \cup {None}]
    BY <1>4, <2>1 DEF Settle, Done, TypeOK
  <2>5. QED
    BY <1>4, <2>3a, <2>3b, <2>4 DEF Settle, TypeOK
<1>5. QED
  BY <1>1, <1>2, <1>3, <1>4 DEF PayoutStep

--------------------------------------------------------------------------------
(***************************************************************************)
(* The initial state, and steps that do not touch the money.               *)
(***************************************************************************)

LEMMA InitInv == Init => PayoutsInv
<1> SUFFICES ASSUME Init PROVE PayoutsInv
  OBVIOUS
<1>0. /\ earned = [d \in Devices |-> 0] /\ owed = [d \in Devices |-> 0]
      /\ paid = [d \in Devices |-> 0] /\ late = [d \in Devices |-> 0]
      /\ todo = [p \in Operators |-> [d \in Devices |-> 0]]
      /\ paying = [p \in Operators |-> None]
  BY DEF Init
<1>1. TypeOK
  <2>1. NoVisit \in [dev : Devices \cup {None}, ready : BOOLEAN]
    BY DEF NoVisit
  <2>2. visit \in [Handlers -> [dev : Devices \cup {None}, ready : BOOLEAN]]
    BY <2>1 DEF Init
  <2>3. /\ status \in [Devices -> {"none", "pending", "enabled"}]
        /\ ready \in [Devices -> BOOLEAN] /\ events \in [Devices -> Nat]
    BY DEF Init
  <2>4. changes = 0 /\ faults = 0 /\ overlapped = FALSE /\ raced = FALSE
    BY DEF Init
  <2>5. 0 \in 0 .. MaxChanges /\ 0 \in 0 .. MaxFaults
    BY PayoutsAssumption
  <2>6. QED
    BY <1>0, <2>2, <2>3, <2>4, <2>5 DEF TypeOK
<1>2a. NothingWithheld
  BY <1>0 DEF NothingWithheld
<1>2b. SnapshotInv
  BY <1>0, PayoutsAssumption DEF SnapshotInv
<1>2c. BooksInv
  BY <1>0 DEF BooksInv, Working
<1>2. NothingWithheld /\ SnapshotInv /\ BooksInv
  BY <1>2a, <1>2b, <1>2c
<1>3. QED
  BY <1>1, <1>2 DEF PayoutsInv

LEMMA MoneyUnchanged ==
  ASSUME PayoutsInv, UNCHANGED payVars, faults' \in {faults, faults + 1}
  PROVE  NothingWithheld' /\ SnapshotInv' /\ BooksInv'
<1>1. faults' = 0 => faults = 0
  BY DEF PayoutsInv, TypeOK
<1>2. QED
  BY <1>1 DEF PayoutsInv, payVars, NothingWithheld, SnapshotInv, BooksInv, Working

LEMMA HandlerInv ==
  ASSUME PayoutsInv, NEW d \in Devices, NEW h \in Handlers,
         Webhook(h, d) \/ Refresh(h, d) \/ Upsert(h)
  PROVE  PayoutsInv'
<1>1. UNCHANGED payVars /\ faults' \in {faults, faults + 1}
  BY DEF Webhook, Refresh, Upsert, Fault
<1>2. TypeOK'
  BY HandlerType DEF PayoutsInv
<1>3. QED
  BY <1>1, <1>2, MoneyUnchanged DEF PayoutsInv

--------------------------------------------------------------------------------
(***************************************************************************)
(* Steps that move money.                                                  *)
(***************************************************************************)

\* A job accrues: what it adds is owed, and late for the runs that list the device.
LEMMA EarningInv ==
  ASSUME PayoutsInv, NEW d \in Devices, RecordEarning(d)
  PROVE  PayoutsInv'
<1> USE PayoutsAssumption DEF PayoutsInv
<1>1. /\ earned' = [earned EXCEPT ![d] = @ + Share]
      /\ owed' = [owed EXCEPT ![d] = @ + Share]
      /\ late' = IF \E p \in Operators : todo[p][d] > 0
                   THEN [late EXCEPT ![d] = @ + Share] ELSE late
      /\ UNCHANGED <<paid, todo, paying, overlapped, faults>>
  BY DEF RecordEarning
<1>2. TypeOK'
  BY EarningType
<1>3. NothingWithheld'
  BY <1>1 DEF NothingWithheld, TypeOK
<1>4. SnapshotInv'
  <2> SUFFICES ASSUME NEW p \in Operators
               PROVE  /\ paying'[p] # None => todo'[p][paying'[p]] > 0
                      /\ \A e \in Devices :
                           /\ todo'[p][e] > 0 => paid'[e] + todo'[p][e] + late'[e] >= earned'[e]
                           /\ paying'[p] = e
                                => paid'[e] + Dust(todo'[p][e]) + late'[e] >= earned'[e]
    BY DEF SnapshotInv
  <2>1. paying[p] # None => todo[p][paying[p]] > 0
    BY DEF SnapshotInv
  <2>2. ASSUME NEW e \in Devices, todo[p][e] > 0
        PROVE  late'[e] - late[e] = earned'[e] - earned[e]
    BY <1>1, <2>2 DEF TypeOK
  <2>3. ASSUME NEW e \in Devices
        PROVE  /\ todo[p][e] > 0 => paid[e] + todo[p][e] + late'[e] >= earned'[e]
               /\ paying[p] = e => paid[e] + Dust(todo[p][e]) + late'[e] >= earned'[e]
    <3>0. todo[p][e] \in Nat
      BY DEF TypeOK
    <3>1. Dust(todo[p][e]) \in Nat /\ todo[p][e] \in Nat
      BY <3>0, FloorDust
    <3>2. paying[p] = e => todo[p][e] > 0
      BY <2>1
    <3>3. /\ todo[p][e] > 0 => paid[e] + todo[p][e] + late[e] >= earned[e]
          /\ paying[p] = e => paid[e] + Dust(todo[p][e]) + late[e] >= earned[e]
      BY DEF SnapshotInv
    <3>4. /\ paid[e] \in Nat /\ late[e] \in Nat /\ earned[e] \in Nat
          /\ late'[e] \in Nat /\ earned'[e] \in Nat
      BY <1>2 DEF TypeOK
    <3>5. QED
      BY <2>2, <3>1, <3>2, <3>3, <3>4
  <2>4. QED
    BY <1>1, <2>1, <2>3
<1>5. BooksInv'
  <2> SUFFICES ASSUME faults = 0, ~overlapped
               PROVE  BooksInv'
    BY <1>1 DEF BooksInv
  <2>1. \A e \in Devices :
          /\ owed'[e] \in Nat /\ owed[e] \in Nat
          /\ owed'[e] >= owed[e]
          /\ owed'[e] - owed[e] = earned'[e] - earned[e]
    BY <1>1 DEF TypeOK
  <2>2. \A q \in Operators : \A e \in Devices : todo[q][e] <= owed'[e]
    BY <2>1 DEF BooksInv, TypeOK
  <2>3. ASSUME NEW e \in Devices
        PROVE  \/ paid[e] + owed'[e] <= earned'[e]
               \/ \E q \in Operators :
                    paying[q] = e /\ paid[e] + owed'[e] - Floor(todo[q][e]) <= earned'[e]
    <3>1. /\ paid[e] \in Nat /\ earned[e] \in Nat /\ earned'[e] \in Nat
          /\ \A q \in Operators : Floor(todo[q][e]) \in Nat
      <4>1. paid[e] \in Nat /\ earned[e] \in Nat /\ earned'[e] \in Nat
        BY <1>2 DEF TypeOK
      <4>2. \A q \in Operators : todo[q][e] \in Nat
        BY DEF TypeOK
      <4>3. QED
        BY <4>1, <4>2, FloorDust
    <3>2. CASE paid[e] + owed[e] <= earned[e]
      BY <2>1, <3>1, <3>2
    <3>3. ASSUME NEW q \in Operators, paying[q] = e,
                 paid[e] + owed[e] - Floor(todo[q][e]) <= earned[e]
          PROVE  paid[e] + owed'[e] - Floor(todo[q][e]) <= earned'[e]
      BY <2>1, <3>1, <3>3
    <3>4. QED
      BY <3>2, <3>3 DEF BooksInv
  <2>4. \A q \in Operators : Working(q)' = Working(q)
    BY <1>1 DEF Working
  <2>5. QED
    BY <1>1, <2>2, <2>3, <2>4 DEF BooksInv
<1>6. QED
  BY <1>2, <1>3, <1>4, <1>5

\* A snapshot is taken of what is owed.
LEMMA ReadInv ==
  ASSUME PayoutsInv, NEW p \in Operators, NEW min \in Minimums, ReadAccrued(p, min)
  PROVE  PayoutsInv'
<1> USE DEF PayoutsInv
<1>1. /\ ~Working(p)
      /\ \A q \in Operators : \A d \in Devices :
           todo'[q][d] = IF q = p
                           THEN IF owed[d] >= min /\ owed[d] >= Cent THEN owed[d] ELSE 0
                           ELSE todo[q][d]
      /\ overlapped' = (overlapped \/ \E q \in Operators \ {p} : Working(q))
      /\ UNCHANGED <<earned, owed, paid, paying, late, faults>>
  BY DEF ReadAccrued, TypeOK
<1>2. paying[p] = None
  BY <1>1 DEF SnapshotInv, Working, TypeOK
<1>3. TypeOK'
  BY PayoutType DEF PayoutStep
<1>4. NothingWithheld'
  BY <1>1 DEF NothingWithheld
<1>5. SnapshotInv'
  BY <1>1, <1>2, PayoutsAssumption DEF SnapshotInv, NothingWithheld, TypeOK
<1>6. BooksInv'
  <2> SUFFICES ASSUME faults' = 0, ~overlapped'
               PROVE  /\ \A q, r \in Operators : Working(q)' /\ Working(r)' => q = r
                      /\ \A q \in Operators : \A d \in Devices : todo'[q][d] <= owed'[d]
                      /\ \A d \in Devices : paid'[d] + owed'[d] <= earned'[d]
    BY DEF BooksInv
  <2>1. \A q \in Operators \ {p} : ~Working(q)
    BY <1>1 DEF TypeOK
  <2>2. \A q \in Operators \ {p} : ~Working(q)'
    BY <1>1, <2>1 DEF Working
  <2>3. faults = 0 /\ ~overlapped
    BY <1>1 DEF TypeOK
  <2>4. \A q \in Operators : \A d \in Devices : todo'[q][d] <= owed'[d]
    <3> TAKE q \in Operators
    <3> TAKE d \in Devices
    <3>1. owed'[d] = owed[d] /\ owed[d] \in Nat
      BY <1>1 DEF TypeOK
    <3>2. todo[q][d] <= owed[d]
      BY <2>3 DEF BooksInv
    <3>3. todo'[q][d] \in {owed[d], 0, todo[q][d]}
      BY <1>1
    <3> QED
      BY <3>1, <3>2, <3>3
  <2>5. ASSUME NEW d \in Devices, NEW q \in Operators, paying[q] = d
        PROVE  FALSE
    <3>1. todo[q][d] > 0
      BY <2>5, PayoutsAssumption DEF SnapshotInv
    <3>2. QED
      BY <1>1, <2>1, <3>1 DEF Working
  <2>6. \A d \in Devices : paid'[d] + owed'[d] <= earned'[d]
    BY <1>1, <2>3, <2>5 DEF BooksInv
  <2>7. QED
    BY <2>2, <2>4, <2>6
<1>7. QED
  BY <1>3, <1>4, <1>5, <1>6

\* A device is taken off a list without a payment: it is not enabled, or Stripe refuses.
LEMMA DropInv ==
  ASSUME PayoutsInv, TypeOK', NEW p \in Operators, NEW d \in Devices,
         paying[p] = None, Done(p, d),
         UNCHANGED <<earned, owed, paid, paying, late, overlapped, faults>>
  PROVE  PayoutsInv'
<1> USE DEF PayoutsInv
<1>1. \A q \in Operators : \A e \in Devices :
        todo'[q][e] = IF q = p /\ e = d THEN 0 ELSE todo[q][e]
  BY DoneValue
<1>2. NothingWithheld'
  BY DEF NothingWithheld
<1>3. \A q \in Operators : \A e \in Devices : paying[q] = e => todo'[q][e] = todo[q][e]
  BY <1>1, PayoutsAssumption
<1>4. SnapshotInv'
  BY <1>1, <1>3, PayoutsAssumption DEF SnapshotInv, TypeOK
<1>5. BooksInv'
  <2> SUFFICES ASSUME faults = 0, ~overlapped
               PROVE  BooksInv'
    BY DEF BooksInv
  <2>1. \A q \in Operators : Working(q)' => Working(q)
    BY <1>1 DEF Working
  <2>2. \A q \in Operators : \A e \in Devices : todo'[q][e] <= owed[e]
    BY <1>1 DEF BooksInv, TypeOK
  <2>3. \A e \in Devices :
          \/ paid[e] + owed[e] <= earned[e]
          \/ \E q \in Operators :
               paying[q] = e /\ paid[e] + owed[e] - Floor(todo'[q][e]) <= earned[e]
    BY <1>3 DEF BooksInv
  <2>4. QED
    BY <2>1, <2>2, <2>3 DEF BooksInv
<1>6. QED
  BY <1>2, <1>4, <1>5

\* A transfer is made, whether or not its answer arrives.
LEMMA TransferInv ==
  ASSUME PayoutsInv, NEW p \in Operators, NEW d \in Devices, Transfer(p, d)
  PROVE  PayoutsInv'
<1> USE DEF PayoutsInv
<1>0. TypeOK'
  BY PayoutType DEF PayoutStep
<1>1. /\ todo[p][d] > 0 /\ paying[p] = None
      /\ UNCHANGED <<earned, owed, late, overlapped>>
  BY DEF Transfer
<1>2. /\ Floor(todo[p][d]) \in Nat /\ Dust(todo[p][d]) \in Nat
      /\ Floor(todo[p][d]) + Dust(todo[p][d]) = todo[p][d]
  BY FloorDust DEF TypeOK
<1>3. CASE Done(p, d) /\ UNCHANGED <<paid, paying, faults>>
  BY <1>0, <1>1, <1>3, DropInv
<1>4. CASE /\ paid' = [paid EXCEPT ![d] = @ + Floor(todo[p][d])]
           /\ Done(p, d) /\ UNCHANGED paying
           /\ faults' = faults + 1
  <2>1. \A q \in Operators : \A e \in Devices :
          todo'[q][e] = IF q = p /\ e = d THEN 0 ELSE todo[q][e]
    BY <1>4, DoneValue
  <2>2. \A e \in Devices : paid'[e] >= paid[e]
    BY <1>2, <1>4 DEF TypeOK
  <2>3. NothingWithheld'
    BY <1>0, <1>1, <2>2 DEF NothingWithheld, TypeOK
  <2>4. SnapshotInv'
    <3>1. ASSUME NEW q \in Operators, NEW e \in Devices
          PROVE  /\ todo'[q][e] > 0 => todo'[q][e] = todo[q][e]
                 /\ paying[q] = e => todo'[q][e] = todo[q][e]
      BY <1>1, <2>1, PayoutsAssumption
    <3>2. ASSUME NEW q \in Operators, NEW e \in Devices
          PROVE  /\ todo'[q][e] > 0 => paid'[e] + todo'[q][e] + late[e] >= earned[e]
                 /\ paying[q] = e => paid'[e] + Dust(todo'[q][e]) + late[e] >= earned[e]
      <4>1. /\ paid[e] \in Nat /\ paid'[e] \in Nat /\ late[e] \in Nat /\ earned[e] \in Nat
            /\ todo[q][e] \in Nat /\ Dust(todo[q][e]) \in Nat
        <5>1. /\ paid[e] \in Nat /\ paid'[e] \in Nat /\ late[e] \in Nat /\ earned[e] \in Nat
              /\ todo[q][e] \in Nat
          BY <1>0 DEF TypeOK
        <5>2. QED BY <5>1, FloorDust
      <4>2. /\ todo[q][e] > 0 => paid[e] + todo[q][e] + late[e] >= earned[e]
            /\ paying[q] = e => paid[e] + Dust(todo[q][e]) + late[e] >= earned[e]
        BY DEF SnapshotInv
      <4>3. QED
        BY <2>2, <3>1, <4>1, <4>2
    <3>3. \A q \in Operators : paying[q] # None => todo'[q][paying[q]] > 0
      BY <1>1, <2>1 DEF SnapshotInv, TypeOK
    <3>4. QED
      BY <1>1, <1>4, <3>2, <3>3 DEF SnapshotInv
  <2>5. BooksInv'
    BY <1>4 DEF BooksInv, TypeOK
  <2>6. QED
    BY <1>0, <2>3, <2>4, <2>5
<1>5. CASE /\ paid' = [paid EXCEPT ![d] = @ + Floor(todo[p][d])]
           /\ paying' = [paying EXCEPT ![p] = d]
           /\ UNCHANGED <<todo, faults>>
  <2>1. /\ \A e \in Devices : paid'[e] = IF e = d THEN paid[d] + Floor(todo[p][d]) ELSE paid[e]
        /\ \A q \in Operators : paying'[q] = IF q = p THEN d ELSE paying[q]
    BY <1>5 DEF TypeOK
  <2>2. \A e \in Devices : paid'[e] >= paid[e]
    BY <1>2, <2>1 DEF TypeOK
  <2>3. NothingWithheld'
    BY <1>0, <1>1, <2>2 DEF NothingWithheld, TypeOK
  <2>4. SnapshotInv'
    <3>1. ASSUME NEW q \in Operators, NEW e \in Devices
          PROVE  /\ todo[q][e] > 0 => paid'[e] + todo[q][e] + late[e] >= earned[e]
                 /\ paying'[q] = e => paid'[e] + Dust(todo[q][e]) + late[e] >= earned[e]
      <4>1. /\ paid[e] \in Nat /\ paid'[e] \in Nat /\ late[e] \in Nat /\ earned[e] \in Nat
            /\ todo[q][e] \in Nat /\ Dust(todo[q][e]) \in Nat
        <5>1. /\ paid[e] \in Nat /\ paid'[e] \in Nat /\ late[e] \in Nat /\ earned[e] \in Nat
              /\ todo[q][e] \in Nat
          BY <1>0 DEF TypeOK
        <5>2. QED BY <5>1, FloorDust
      <4>2. /\ todo[q][e] > 0 => paid[e] + todo[q][e] + late[e] >= earned[e]
            /\ paying[q] = e => paid[e] + Dust(todo[q][e]) + late[e] >= earned[e]
        BY DEF SnapshotInv
      <4>3. CASE q = p /\ e = d
        BY <1>1, <1>2, <2>1, <4>1, <4>2, <4>3
      <4>4. CASE ~(q = p /\ e = d)
        BY <2>1, <2>2, <4>1, <4>2, <4>4
      <4>5. QED
        BY <4>3, <4>4
    <3>2. \A q \in Operators : paying'[q] # None => todo[q][paying'[q]] > 0
      BY <1>1, <2>1 DEF SnapshotInv
    <3>3. QED
      BY <1>1, <1>5, <3>1, <3>2 DEF SnapshotInv
  <2>5. BooksInv'
    <3> SUFFICES ASSUME faults = 0, ~overlapped
                 PROVE  BooksInv'
      BY <1>1, <1>5 DEF BooksInv
    <3>1. \A q \in Operators : Working(q)' = Working(q)
      BY <1>5 DEF Working
    <3>2. Working(p)
      BY <1>1 DEF Working
    <3>3. ASSUME NEW q \in Operators, NEW e \in Devices, paying[q] = e
          PROVE  FALSE
      <4>1. Working(q)
        BY <3>3, PayoutsAssumption DEF SnapshotInv, Working
      <4>2. q = p
        BY <3>2, <4>1 DEF BooksInv
      <4>3. QED
        BY <1>1, <3>3, <4>2, PayoutsAssumption
    <3>4. \A e \in Devices : paid[e] + owed[e] <= earned[e]
      BY <3>3 DEF BooksInv
    <3>5. paid'[d] + owed[d] - Floor(todo[p][d]) <= earned[d] /\ paying'[p] = d
      BY <1>2, <2>1, <3>4 DEF TypeOK
    <3>6. ASSUME NEW e \in Devices
          PROVE  \/ paid'[e] + owed[e] <= earned[e]
                 \/ \E q \in Operators :
                      paying'[q] = e /\ paid'[e] + owed[e] - Floor(todo[q][e]) <= earned[e]
      BY <2>1, <3>4, <3>5
    <3>7. \A q \in Operators : \A e \in Devices : todo[q][e] <= owed[e]
      BY DEF BooksInv
    <3>8. QED
      BY <1>1, <1>5, <3>1, <3>6, <3>7 DEF BooksInv
  <2>6. QED
    BY <1>0, <2>3, <2>4, <2>5
<1>6. QED
  BY <1>3, <1>4, <1>5 DEF Transfer, Fault

\* A transfer is settled, or its settlement is lost.
LEMMA SettleInv ==
  ASSUME PayoutsInv, NEW p \in Operators, Settle(p)
  PROVE  PayoutsInv'
<1> USE DEF PayoutsInv
<1> DEFINE d == paying[p]
<1>0. TypeOK'
  BY PayoutType DEF PayoutStep
<1>1. /\ d \in Devices
      /\ Done(p, d)
      /\ paying' = [paying EXCEPT ![p] = None]
      /\ UNCHANGED <<earned, paid, late, overlapped>>
  BY DEF Settle, TypeOK
<1>2. /\ \A q \in Operators : \A e \in Devices :
           todo'[q][e] = IF q = p /\ e = d THEN 0 ELSE todo[q][e]
      /\ \A q \in Operators : paying'[q] = IF q = p THEN None ELSE paying[q]
  <2>1. \A q \in Operators : \A e \in Devices :
          todo'[q][e] = IF q = p /\ e = d THEN 0 ELSE todo[q][e]
    BY <1>1, DoneValue
  <2>2. \A q \in Operators : paying'[q] = IF q = p THEN None ELSE paying[q]
    BY <1>1 DEF TypeOK
  <2>3. QED
    BY <2>1, <2>2
<1>3. /\ todo[p][d] \in Nat
      /\ Floor(todo[p][d]) \in Nat /\ Dust(todo[p][d]) \in Nat
      /\ Floor(todo[p][d]) + Dust(todo[p][d]) = todo[p][d]
  <2>1. todo[p][d] \in Nat
    BY <1>1 DEF TypeOK
  <2> HIDE DEF d
  <2>2. QED
    BY <2>1, FloorDust
<1>4. SnapshotInv'
  BY <1>1, <1>2, PayoutsAssumption DEF SnapshotInv, TypeOK
<1>5. CASE UNCHANGED owed /\ faults' = faults + 1
  BY <1>0, <1>1, <1>4, <1>5 DEF NothingWithheld, BooksInv, TypeOK
<1>6. CASE /\ owed' = [owed EXCEPT ![d] = Dust(todo[p][d])]
           /\ UNCHANGED faults
  <2>1. \A e \in Devices : owed'[e] = IF e = d THEN Dust(todo[p][d]) ELSE owed[e]
    BY <1>6 DEF TypeOK
  <2>2. NothingWithheld'
    BY <1>1, <2>1 DEF NothingWithheld, SnapshotInv
  <2>3. BooksInv'
    <3> SUFFICES ASSUME faults = 0, ~overlapped
                 PROVE  BooksInv'
      BY <1>1, <1>6 DEF BooksInv
    <3>1. todo[p][d] > 0 /\ Working(p)
      BY <1>1, PayoutsAssumption DEF SnapshotInv, Working
    <3>2. \A q \in Operators : Working(q) => q = p
      BY <3>1 DEF BooksInv
    <3>3. \A q \in Operators : Working(q)' => Working(q)
      BY <1>2 DEF Working, TypeOK
    <3>4. \A q \in Operators : \A e \in Devices : paying[q] = e => q = p /\ e = d
      BY <3>2, PayoutsAssumption DEF SnapshotInv, Working
    <3>5. ASSUME NEW q \in Operators, NEW e \in Devices
          PROVE  todo'[q][e] <= owed'[e]
      <4>1. todo[q][e] \in Nat /\ todo[q][e] <= owed[e] /\ owed[e] \in Nat
        BY DEF BooksInv, TypeOK
      <4>2. CASE e # d
        BY <1>2, <2>1, <4>1, <4>2
      <4>3. CASE e = d /\ q = p
        BY <1>2, <1>3, <2>1, <4>3
      <4>4. CASE e = d /\ q # p
        <5>1. todo[q][e] = 0
          BY <3>2, <4>1, <4>4 DEF Working
        <5>2. QED
          BY <1>2, <1>3, <2>1, <4>4, <5>1
      <4>5. QED
        BY <4>2, <4>3, <4>4
    <3>6. paid[d] + Dust(todo[p][d]) <= earned[d]
      <4>1. /\ paid[d] \in Nat /\ owed[d] \in Nat /\ earned[d] \in Nat
            /\ todo[p][d] <= owed[d]
        BY <1>1 DEF BooksInv, TypeOK
      <4>2. \/ paid[d] + owed[d] <= earned[d]
            \/ paid[d] + owed[d] - Floor(todo[p][d]) <= earned[d]
        BY <1>1, <3>4 DEF BooksInv
      <4> HIDE DEF d
      <4>3. QED
        BY <1>3, <4>1, <4>2
    <3>7. \A e \in Devices : e # d => paid[e] + owed[e] <= earned[e]
      BY <3>4 DEF BooksInv
    <3>8. \A e \in Devices : paid'[e] + owed'[e] <= earned'[e]
      BY <1>1, <2>1, <3>6, <3>7
    <3>9. QED
      BY <3>2, <3>3, <3>5, <3>8 DEF BooksInv
  <2>4. QED
    BY <1>0, <1>4, <2>2, <2>3
<1>7. QED
  BY <1>5, <1>6 DEF Settle, Fault

--------------------------------------------------------------------------------
(***************************************************************************)
(* The stored status and Stripe's.                                         *)
(***************************************************************************)

\* A handler reads the account: alone with it, or the race is recorded.
LEMMA ReadStatus ==
  ASSUME TypeOK, StatusInv, NEW h \in Handlers, NEW d \in Devices,
         status[d] # "none", visit[h] = NoVisit, ReadAccount(h, d),
         \A e \in Devices : e # d => events'[e] = events[e],
         UNCHANGED <<status, ready, faults>>
  PROVE  StatusInv'
<1> USE PayoutsAssumption
<1>1. /\ \A g \in Handlers : visit'[g].dev = IF g = h THEN d ELSE visit[g].dev
      /\ \A g \in Handlers : visit'[g].ready = IF g = h THEN ready[d] ELSE visit[g].ready
      /\ visit[h].dev = None
      /\ raced' = (raced \/ \E g \in Handlers : visit[g].dev = d)
  BY DEF ReadAccount, TypeOK, NoVisit
<1>2. \A e \in Devices : status'[e] = "none" =>
        ~ready'[e] /\ events'[e] = 0 /\ \A g \in Handlers : visit'[g].dev # e
  BY <1>1 DEF StatusInv
<1>3. ASSUME faults' = 0, ~raced', NEW e \in Devices
      PROVE  /\ \A g, i \in Handlers : visit'[g].dev = e /\ visit'[i].dev = e => g = i
             /\ events'[e] = 0 =>
                  /\ \A g \in Handlers : visit'[g].dev = e => visit'[g].ready = ready'[e]
                  /\ Settled(e)' => Agrees(e)'
  <2>1. faults = 0 /\ ~raced /\ \A g \in Handlers : visit[g].dev # d
    BY <1>1, <1>3 DEF TypeOK
  <2>2. CASE e = d
    BY <1>1, <2>1, <2>2 DEF Settled
  <2>3. CASE e # d
    <3>1. Settled(e)' => Settled(e)
      BY <1>1, <2>3 DEF Settled
    <3>2. Agrees(e)' <=> Agrees(e)
      BY DEF Agrees
    <3>3. QED
      BY <1>1, <2>1, <2>3, <3>1, <3>2 DEF StatusInv
  <2>4. QED
    BY <2>2, <2>3
<1>4. QED
  BY <1>2, <1>3 DEF StatusInv

\* A handler stores what it has read.
LEMMA StoreStatus ==
  ASSUME TypeOK, StatusInv, NEW h \in Handlers, Upsert(h)
  PROVE  StatusInv'
<1> USE PayoutsAssumption
<1> DEFINE d == visit[h].dev
<1>1. /\ d \in Devices /\ UNCHANGED <<ready, events, raced>>
      /\ \A g \in Handlers : visit'[g] = IF g = h THEN NoVisit ELSE visit[g]
      /\ NoVisit.dev = None
  BY DEF Upsert, TypeOK, NoVisit
<1>2. \/ faults' = faults
         /\ status' = [status EXCEPT ![d] = IF visit[h].ready THEN "enabled" ELSE "pending"]
      \/ faults' = faults + 1 /\ status' = status
  BY DEF Upsert, Fault
<1> HIDE DEF d
<1>3. status[d] # "none"
  BY <1>1 DEF StatusInv, d
<1>4. \A e \in Devices :
        /\ status'[e] = "none" => status[e] = "none"
        /\ e # d => status'[e] = status[e]
        /\ faults' = 0 => (status'[d] = "enabled" <=> visit[h].ready)
  BY <1>1, <1>2 DEF TypeOK
<1>5. faults' = 0 => faults = 0
  BY <1>2 DEF TypeOK
<1>6. \A e \in Devices : status'[e] = "none" =>
        ~ready'[e] /\ events'[e] = 0 /\ \A g \in Handlers : visit'[g].dev # e
  BY <1>1, <1>4 DEF StatusInv
<1>7. ASSUME faults' = 0, ~raced', NEW e \in Devices
      PROVE  /\ \A g, i \in Handlers : visit'[g].dev = e /\ visit'[i].dev = e => g = i
             /\ events'[e] = 0 =>
                  /\ \A g \in Handlers : visit'[g].dev = e => visit'[g].ready = ready'[e]
                  /\ Settled(e)' => Agrees(e)'
  <2>1. faults = 0 /\ ~raced
    BY <1>1, <1>5, <1>7
  <2>2. \A g \in Handlers : visit'[g].dev = e => visit'[g] = visit[g] /\ visit[g].dev = e
    BY <1>1
  <2>3. events[e] = 0 => \A g \in Handlers : visit[g].dev = e => visit[g].ready = ready[e]
    BY <2>1 DEF StatusInv
  <2>4. CASE e = d
    BY <1>1, <1>4, <1>7, <2>1, <2>2, <2>3, <2>4 DEF StatusInv, Agrees, d
  <2>5. CASE e # d
    <3>1. Settled(e)' => Settled(e)
      BY <1>1, <2>5 DEF Settled, d
    <3>2. Agrees(e)' <=> Agrees(e)
      BY <1>1, <1>4, <2>5 DEF Agrees
    <3>3. QED
      BY <1>1, <2>1, <2>2, <2>3, <3>1, <3>2 DEF StatusInv
  <2>6. QED
    BY <2>4, <2>5
<1>8. QED
  BY <1>6, <1>7 DEF StatusInv

LEMMA StatusStays ==
  /\ Init => StatusInv
  /\ TypeOK /\ StatusInv /\ [Next]_vars => StatusInv'
<1> USE PayoutsAssumption
<1>1. Init => StatusInv
  <2> SUFFICES ASSUME Init PROVE StatusInv
    OBVIOUS
  <2>1. /\ \A h \in Handlers : visit[h].dev = None
        /\ \A d \in Devices : status[d] = "none" /\ ready[d] = FALSE /\ events[d] = 0
    BY DEF Init, NoVisit
  <2>2. \A d \in Devices : Agrees(d)
    BY <2>1 DEF Agrees
  <2>3. QED
    BY <2>1, <2>2 DEF StatusInv
<1> SUFFICES ASSUME TypeOK, StatusInv, [Next]_vars PROVE StatusInv'
  BY <1>1
\* Nothing that the invariant is about changes, but a fault may happen.
<1>2. ASSUME UNCHANGED <<status, ready, events, visit, raced>>, faults' \in {faults, faults + 1}
      PROVE  StatusInv'
  <2>1. faults' = 0 => faults = 0
    BY <1>2 DEF TypeOK
  <2>2. QED
    BY <1>2, <2>1 DEF StatusInv, Settled, Agrees
<1>3. ASSUME NEW d \in Devices, AccountStep(d)
      PROVE  StatusInv'
  <2>1. CASE RecordEarning(d)
    BY <1>2, <2>1 DEF RecordEarning, acctVars
  <2>2. CASE Connect(d)
    <3>1. /\ \A e \in Devices : status'[e] = IF e = d THEN "pending" ELSE status[e]
          /\ status[d] = "none" /\ UNCHANGED <<ready, events, visit, raced, faults>>
      BY <2>2 DEF Connect, TypeOK
    <3>2. \A e \in Devices : Agrees(e)' <=> Agrees(e)
      BY <3>1 DEF Agrees
    <3>3. \A e \in Devices : Settled(e)' <=> Settled(e)
      BY <3>1 DEF Settled
    <3>4. QED
      BY <3>1, <3>2, <3>3 DEF StatusInv
  <2>3. CASE StripeChanges(d)
    <3>1. /\ \A e \in Devices : e # d => ready'[e] = ready[e] /\ events'[e] = events[e]
          /\ events'[d] # 0 /\ status[d] # "none"
          /\ UNCHANGED <<status, visit, raced, faults>>
      BY <2>3 DEF StripeChanges, TypeOK
    <3>2. \A e \in Devices : e # d => (Agrees(e)' <=> Agrees(e)) /\ (Settled(e)' <=> Settled(e))
      BY <3>1 DEF Agrees, Settled
    <3>3. QED
      BY <3>1, <3>2 DEF StatusInv
  <2>4. ASSUME NEW h \in Handlers, Webhook(h, d)
        PROVE  StatusInv'
    <3>1. /\ events[d] > 0 /\ visit[h] = NoVisit /\ UNCHANGED <<status, ready>>
          /\ \A e \in Devices : e # d => events'[e] = events[e]
          /\ \/ ReadAccount(h, d) /\ faults' = faults
             \/ faults' = faults + 1 /\ UNCHANGED <<visit, raced>>
      BY <2>4 DEF Webhook, Fault, TypeOK
    <3>2. status[d] # "none"
      BY <3>1 DEF StatusInv
    <3>3. CASE ReadAccount(h, d) /\ faults' = faults
      BY <3>1, <3>2, <3>3, ReadStatus
    <3>4. CASE faults' = faults + 1 /\ UNCHANGED <<visit, raced>>
      <4>1. faults' # 0
        BY <3>4 DEF TypeOK
      <4>2. QED
        BY <3>1, <3>2, <3>4, <4>1 DEF StatusInv
    <3>5. QED
      BY <3>1, <3>3, <3>4
  <2>5. ASSUME NEW h \in Handlers, Refresh(h, d)
        PROVE  StatusInv'
    BY <2>5, ReadStatus DEF Refresh
  <2>6. QED
    BY <1>3, <2>1, <2>2, <2>3, <2>4, <2>5 DEF AccountStep
<1>4. ASSUME NEW h \in Handlers, Upsert(h)
      PROVE  StatusInv'
  BY <1>4, StoreStatus
<1>5. ASSUME NEW p \in Operators, PayoutStep(p)
      PROVE  StatusInv'
  <2>1. UNCHANGED <<status, ready, events, visit, raced>> /\ faults' \in {faults, faults + 1}
    BY <1>5 DEF PayoutStep, ReadAccrued, Skip, Transfer, Settle, Fault, acctVars
  <2>2. QED
    BY <1>2, <2>1
<1>6. CASE UNCHANGED vars
  BY <1>2, <1>6 DEF vars, acctVars
<1>7. QED
  BY <1>3, <1>4, <1>5, <1>6 DEF Next

--------------------------------------------------------------------------------
(***************************************************************************)
(* The theorems.                                                           *)
(***************************************************************************)

LEMMA StepInv == PayoutsInv /\ [Next]_vars => PayoutsInv'
<1> SUFFICES ASSUME PayoutsInv, [Next]_vars PROVE PayoutsInv'
  OBVIOUS
<1>1. ASSUME NEW d \in Devices, AccountStep(d)
      PROVE  PayoutsInv'
  <2>1. CASE RecordEarning(d)
    BY <2>1, EarningInv
  <2>2. CASE Connect(d) \/ StripeChanges(d)
    <3>1. UNCHANGED payVars /\ faults' \in {faults, faults + 1}
      BY <2>2 DEF Connect, StripeChanges
    <3>2. TypeOK
      BY DEF PayoutsInv
    <3>3. CASE Connect(d)
      <4>1. TypeOK'
        BY <3>2, <3>3 DEF Connect, TypeOK, payVars
      <4>2. QED
        BY <3>1, <4>1, MoneyUnchanged DEF PayoutsInv
    <3>4. CASE StripeChanges(d)
      <4>1. TypeOK'
        BY <3>2, <3>4, PayoutsAssumption DEF StripeChanges, TypeOK, payVars
      <4>2. QED
        BY <3>1, <4>1, MoneyUnchanged DEF PayoutsInv
    <3>5. QED
      BY <2>2, <3>3, <3>4
  <2>3. ASSUME NEW h \in Handlers, Webhook(h, d) \/ Refresh(h, d)
        PROVE  PayoutsInv'
    BY <2>3, HandlerInv
  <2>4. QED
    BY <1>1, <2>1, <2>2, <2>3 DEF AccountStep
<1>2. ASSUME NEW h \in Handlers, Upsert(h)
      PROVE  PayoutsInv'
  <2>1. visit[h].dev \in Devices
    BY <1>2 DEF Upsert, PayoutsInv, TypeOK
  <2>2. QED
    BY <1>2, <2>1, HandlerInv
<1>3. ASSUME NEW p \in Operators, PayoutStep(p)
      PROVE  PayoutsInv'
  <2>1. ASSUME NEW d \in Devices, Skip(p, d)
        PROVE  PayoutsInv'
    <3>1. TypeOK'
      BY <2>1, PayoutType DEF PayoutStep, PayoutsInv
    <3>2. QED
      BY <2>1, <3>1, DropInv DEF Skip
  <2>2. QED
    BY <1>3, <2>1, ReadInv, TransferInv, SettleInv DEF PayoutStep
<1>4. CASE UNCHANGED vars
  <2>1. TypeOK' /\ UNCHANGED payVars /\ faults' = faults
    BY <1>4 DEF vars, payVars, acctVars, PayoutsInv, TypeOK
  <2>2. QED
    BY <2>1, MoneyUnchanged DEF PayoutsInv
<1>5. QED
  BY <1>1, <1>2, <1>3, <1>4 DEF Next

\* The invariant of snapshots, transfers and books holds in every reachable state.
THEOREM PayoutsInvariant == Spec => []PayoutsInv
BY InitInv, StepInv, PTL DEF Spec

\* What a device has earned is paid or owed, or came in while a payout run had the
\* device on its list, whatever fails.
THEOREM NothingIsWithheld == Spec => []NothingWithheld
BY PayoutsInvariant, PTL DEF PayoutsInv

\* Clean payout runs, one after the other, pay no more than was earned.
THEOREM CleanRunsPayEarnings == Spec => []PaidFromEarnings
<1>1. PayoutsInv => PaidFromEarnings
  <2> SUFFICES ASSUME PayoutsInv, faults = 0, ~overlapped, NEW d \in Devices
               PROVE  paid[d] <= earned[d]
    BY DEF PaidFromEarnings
  <2>1. paid[d] \in Nat /\ owed[d] \in Nat /\ earned[d] \in Nat
    BY DEF PayoutsInv, TypeOK
  <2>2. CASE paid[d] + owed[d] <= earned[d]
    BY <2>1, <2>2
  <2>3. ASSUME NEW p \in Operators,
               paid[d] + owed[d] - Floor(todo[p][d]) <= earned[d]
        PROVE  paid[d] <= earned[d]
    <3>1. todo[p][d] \in Nat /\ todo[p][d] <= owed[d]
      BY DEF PayoutsInv, BooksInv, TypeOK
    <3>2. /\ Floor(todo[p][d]) \in Nat /\ Dust(todo[p][d]) \in Nat
          /\ Floor(todo[p][d]) + Dust(todo[p][d]) = todo[p][d]
      BY <3>1, FloorDust
    <3>3. QED
      BY <2>1, <2>3, <3>1, <3>2
  <2>4. QED
    BY <2>2, <2>3 DEF PayoutsInv, BooksInv
<1>2. QED
  BY <1>1, PayoutsInvariant, PTL

\* The stored status of an account is what Stripe says, once its notifications have
\* been handled, unless a call failed or two handlers were at work for it at a time.
THEOREM StatusFollowsStripe == Spec => []StatusIsCurrent
<1>1. PayoutsInv => TypeOK
  BY DEF PayoutsInv
<1>2. StatusInv => StatusIsCurrent
  BY DEF StatusInv, StatusIsCurrent, Settled
<1>3. QED
  BY <1>1, <1>2, StatusStays, PayoutsInvariant, PTL DEF Spec

--------------------------------------------------------------------------------
(***************************************************************************)
(* The stores: adding up rows.                                             *)
(***************************************************************************)

\* The step function g, applied along 1 .. n, has a value in A at every place.
Iterates(A, base, n, g) ==
  \E f \in [0 .. n -> A] : f[0] = base /\ \A i \in 1 .. n : f[i] = g[<<i, f[i - 1]>>]

LEMMA Prefixes ==
  ASSUME NEW A, NEW base \in A, NEW n \in Nat, NEW g,
         \A i \in 1 .. n, a \in A : g[<<i, a>>] \in A
  PROVE  Iterates(A, base, n, g)
<1> DEFINE Good(m) == \E f \in [0 .. m -> A] :
                        f[0] = base /\ \A i \in 1 .. m : f[i] = g[<<i, f[i - 1]>>]
           Bad == {m \in 0 .. n : ~Good(m)}
<1>1. Good(0)
  <2> DEFINE f == [i \in 0 .. 0 |-> base]
  <2>1. f \in [0 .. 0 -> A] /\ f[0] = base OBVIOUS
  <2> HIDE DEF f
  <2> QED BY <2>1
<1>2. ASSUME NEW m \in 0 .. n, m # 0, Good(m - 1) PROVE Good(m)
  <2>1. PICK f \in [0 .. m - 1 -> A] :
           f[0] = base /\ \A i \in 1 .. m - 1 : f[i] = g[<<i, f[i - 1]>>]
    BY <1>2
  <2> DEFINE h == [i \in 0 .. m |-> IF i = m THEN g[<<m, f[m - 1]>>] ELSE f[i]]
  <2>2. m \in 1 .. n /\ f[m - 1] \in A BY <1>2
  <2>3. h \in [0 .. m -> A]
    <3>1. g[<<m, f[m - 1]>>] \in A BY <2>2
    <3> QED BY <2>2, <3>1
  <2>4. h[0] = base BY <2>1, <2>2
  <2>5. ASSUME NEW i \in 1 .. m PROVE h[i] = g[<<i, h[i - 1]>>]
    <3>1. h[i - 1] = f[i - 1] BY <2>2
    <3>2. CASE i = m
      <4>1. h[m] = g[<<m, f[m - 1]>>] BY <2>2
      <4> QED BY <3>1, <3>2, <4>1
    <3>3. CASE i # m
      <4>1. i \in 1 .. m - 1 /\ h[i] = f[i] BY <2>2, <3>3
      <4> QED BY <2>1, <3>1, <4>1
    <3> QED BY <3>2, <3>3
  <2> HIDE DEF h
  <2> QED BY <2>3, <2>4, <2>5
<1> HIDE DEF Good
<1>3. Bad = {}
  <2> SUFFICES ASSUME Bad # {} PROVE FALSE OBVIOUS
  <2>1. PICK m \in Bad : \A k \in Bad : ~(<<k, m>> \in OpToRel(<, Nat))
    <3>1. Bad \subseteq Nat OBVIOUS
    <3> HIDE DEF Bad
    <3> QED BY <3>1, NatLessThanWellFounded, WFMin
  <2>2. m # 0 BY <1>1
  <2>3. m - 1 \in 0 .. n BY <2>2
  <2>4. <<m - 1, m>> \in OpToRel(<, Nat) BY <2>2, <2>3 DEF OpToRel
  <2>5. Good(m - 1) BY <2>1, <2>3, <2>4
  <2>6. m \in 0 .. n /\ ~Good(m) BY <2>1
  <2>7. Good(m) BY <1>2, <2>2, <2>5, <2>6
  <2> QED BY <2>6, <2>7
<1>4. Good(n)
  <2>1. n \in 0 .. n OBVIOUS
  <2> QED BY <1>3, <2>1
<1> HIDE DEF Bad
<1> QED BY <1>4, Zenon DEF Good, Iterates

\* What has the same beginning and the same step is the same.
StepAlike(f, h, n) ==
  f[0] = h[0] /\ \A i \in 1 .. n : f[i - 1] = h[i - 1] => f[i] = h[i]
Agree(f, h, n) == \A i \in 0 .. n : f[i] = h[i]

LEMMA SamePrefix ==
  ASSUME NEW n \in Nat, NEW f, NEW h, StepAlike(f, h, n)
  PROVE  Agree(f, h, n)
<1> USE DEF StepAlike, Agree
<1> DEFINE Bad == {i \in 0 .. n : f[i] # h[i]}
<1> SUFFICES ASSUME Bad # {} PROVE FALSE OBVIOUS
<1>1. PICK m \in Bad : \A k \in Bad : ~(<<k, m>> \in OpToRel(<, Nat))
  <2>1. Bad \subseteq Nat OBVIOUS
  <2> HIDE DEF Bad
  <2> QED BY <2>1, NatLessThanWellFounded, WFMin
<1>2. m # 0 OBVIOUS
<1>3. m - 1 \in 0 .. n /\ m \in 1 .. n BY <1>2
<1>4. <<m - 1, m>> \in OpToRel(<, Nat) BY <1>2, <1>3 DEF OpToRel
<1>5. f[m - 1] = h[m - 1] BY <1>1, <1>3, <1>4
<1> QED BY <1>3, <1>5

\* The sums of the first entries.
LEMMA SumUnfolds ==
  ASSUME NEW v \in Seq(Int)
  PROVE  \E f \in [0 .. Len(v) -> Int] :
           /\ f[0] = 0 /\ \A i \in 1 .. Len(v) : f[i] = f[i - 1] + v[i]
           /\ S!Sum(v) = f[Len(v)]
<1> DEFINE n == Len(v)
           g == [x \in (1 .. n) \X Int |-> x[2] + v[x[1]]]
           f == CHOOSE f : f = [i \in 0 .. n |-> IF i = 0 THEN 0 ELSE f[i - 1] + v[i]]
<1>1. n \in Nat /\ \A i \in 1 .. n : v[i] \in Int OBVIOUS
<1>2. g \in [(1 .. n) \X Int -> Int] BY <1>1
<1>3. \A i \in 1 .. n, a \in Int : g[<<i, a>>] = a + v[i] OBVIOUS
<1>4. S!Sum(v) = f[n] BY DEF S!Sum
<1> HIDE DEF n, g
<1>5. PICK h \in [0 .. n -> Int] :
         h[0] = 0 /\ \A i \in 1 .. n : h[i] = g[<<i, h[i - 1]>>]
  <2>1. \E h \in [0 .. n -> Int] : h[0] = 0 /\ \A i \in 1 .. n : h[i] = g[<<i, h[i - 1]>>]
    <3> DEFINE A == Int
    <3>1. 0 \in A /\ \A i \in 1 .. n, a \in A : g[<<i, a>>] \in A BY <1>2
    <3>2. Iterates(A, 0, n, g)
      <4> HIDE DEF A
      <4> QED BY <1>1, <3>1, Prefixes
    <3> QED BY <3>2 DEF Iterates
  <2> QED BY <2>1
<1>6. h = [i \in 0 .. n |-> IF i = 0 THEN 0 ELSE h[i - 1] + v[i]]
  <2>1. \A i \in 1 .. n : h[i - 1] \in Int BY <1>1
  <2>2. \A i \in 0 .. n : h[i] = IF i = 0 THEN 0 ELSE h[i - 1] + v[i]
    <3> HIDE DEF f
    <3>1. \A i \in 1 .. n : h[i] = h[i - 1] + v[i] BY <1>3, <1>5, <2>1
    <3> QED BY <1>1, <1>5, <3>1
  <2> QED BY <2>2
<1>7. f = [i \in 0 .. n |-> IF i = 0 THEN 0 ELSE f[i - 1] + v[i]] BY <1>6
<1> HIDE DEF f
<1>8. f = h
  <2>1. \A i \in 0 .. n : f[i] = h[i]
    <3>1. f[0] = h[0] BY <1>1, <1>6, <1>7
    <3>2. \A i \in 1 .. n : f[i - 1] = h[i - 1] => f[i] = h[i] BY <1>1, <1>6, <1>7
    <3>3. StepAlike(f, h, n) BY <3>1, <3>2 DEF StepAlike
    <3> QED BY <1>1, <3>3, SamePrefix DEF Agree
  <2>2. DOMAIN f = 0 .. n BY <1>7
  <2> QED BY <1>6, <1>7, <2>1
<1>9. h[0] = 0 /\ (\A i \in 1 .. n : h[i] = h[i - 1] + v[i]) /\ S!Sum(v) = h[n]
  BY <1>1, <1>4, <1>6, <1>8
<1> QED BY <1>9 DEF n

\* One more entry adds to the sum.
LEMMA SumAppend ==
  ASSUME NEW v \in Seq(Int), NEW e \in Int
  PROVE  S!Sum(v) \in Int /\ S!Sum(Append(v, e)) = S!Sum(v) + e
<1> DEFINE n == Len(v)
           w == Append(v, e)
<1>1. n \in Nat /\ w \in Seq(Int) /\ Len(w) = n + 1 /\ w[n + 1] = e
      /\ \A i \in 1 .. n : w[i] = v[i]
  OBVIOUS
<1>2. PICK f \in [0 .. n -> Int] : /\ f[0] = 0 /\ \A i \in 1 .. n : f[i] = f[i - 1] + v[i]
                                  /\ S!Sum(v) = f[n]
  BY SumUnfolds
<1> HIDE DEF w, n
<1>3. PICK h \in [0 .. Len(w) -> Int] :
         /\ h[0] = 0 /\ \A i \in 1 .. Len(w) : h[i] = h[i - 1] + w[i]
         /\ S!Sum(w) = h[Len(w)]
  BY <1>1, SumUnfolds
<1>4. f[n] = h[n]
  <2>1. \A i \in 1 .. n : f[i - 1] = h[i - 1] => f[i] = h[i] BY <1>1, <1>2, <1>3
  <2>2. f[0] = h[0] BY <1>2, <1>3
  <2>3. StepAlike(f, h, n) BY <2>1, <2>2 DEF StepAlike
  <2>4. Agree(f, h, n) BY <1>1, <2>3, SamePrefix
  <2> QED BY <1>1, <2>4 DEF Agree
<1>5. h[n + 1] = h[n] + e
  <2>1. n + 1 \in 1 .. Len(w) /\ (n + 1) - 1 = n BY <1>1
  <2> QED BY <1>1, <1>3, <2>1
<1>6. f[n] \in Int BY <1>1
<1> QED BY <1>1, <1>2, <1>3, <1>4, <1>5, <1>6 DEF w

LEMMA SumOfNone == S!Sum(<<>>) = 0
<1>1. <<>> \in Seq(Int) /\ Len(<<>>) = 0 OBVIOUS
<1>2. PICK f \in [0 .. Len(<<>>) -> Int] : f[0] = 0 /\ S!Sum(<<>>) = f[Len(<<>>)]
  BY <1>1, SumUnfolds
<1> QED BY <1>1, <1>2

\* One more row is counted, and adds its column, when it matches.
LEMMA RowsAppend ==
  ASSUME NEW T, NEW rows \in Seq(T), NEW e \in T, NEW by, NEW k, NEW of,
         \A r \in T : r[of] \in Int
  PROVE  /\ S!Count(rows, by, k) \in Int /\ S!Total(rows, by, k, of) \in Int
         /\ S!Count(Append(rows, e), by, k) = S!Count(rows, by, k) + (IF e[by] = k THEN 1 ELSE 0)
         /\ S!Total(Append(rows, e), by, k, of)
              = S!Total(rows, by, k, of) + (IF e[by] = k THEN e[of] ELSE 0)
<1> DEFINE one == [i \in DOMAIN rows |-> IF rows[i][by] = k THEN 1 ELSE 0]
           val == [i \in DOMAIN rows |-> IF rows[i][by] = k THEN rows[i][of] ELSE 0]
           more == Append(rows, e)
           n == Len(rows)
<1>1. /\ n \in Nat /\ DOMAIN rows = 1 .. n /\ DOMAIN more = 1 .. n + 1
      /\ more[n + 1] = e /\ \A i \in 1 .. n : more[i] = rows[i] /\ rows[i] \in T
  OBVIOUS
<1>2. one \in Seq(Int) /\ Len(one) = n /\ val \in Seq(Int) /\ Len(val) = n
  <2>1. one \in [1 .. n -> Int] /\ val \in [1 .. n -> Int] BY <1>1
  <2> QED BY <1>1, <2>1
<1>3. (IF e[by] = k THEN 1 ELSE 0) \in Int /\ (IF e[by] = k THEN e[of] ELSE 0) \in Int OBVIOUS
<1>4. [i \in DOMAIN more |-> IF more[i][by] = k THEN 1 ELSE 0]
        = Append(one, IF e[by] = k THEN 1 ELSE 0)
  BY <1>1, <1>2
<1>5. [i \in DOMAIN more |-> IF more[i][by] = k THEN more[i][of] ELSE 0]
        = Append(val, IF e[by] = k THEN e[of] ELSE 0)
  BY <1>1, <1>2
<1> HIDE DEF one, val, more
<1>6. S!Count(rows, by, k) = S!Sum(one) /\ S!Total(rows, by, k, of) = S!Sum(val)
  BY DEF S!Count, S!Total, one, val
<1>7. /\ S!Count(more, by, k) = S!Sum(Append(one, IF e[by] = k THEN 1 ELSE 0))
      /\ S!Total(more, by, k, of) = S!Sum(Append(val, IF e[by] = k THEN e[of] ELSE 0))
  BY <1>4, <1>5 DEF S!Count, S!Total
<1> QED BY <1>2, <1>3, <1>6, <1>7, SumAppend DEF more

\* Of no rows.
LEMMA NoRows ==
  ASSUME NEW by, NEW k, NEW of
  PROVE  S!Count(<<>>, by, k) = 0 /\ S!Total(<<>>, by, k, of) = 0
BY SumOfNone DEF S!Count, S!Total

\* Rows that agree on two columns are counted and added up alike.
LEMMA RowsAlike ==
  ASSUME NEW A, NEW B, DOMAIN A = DOMAIN B, NEW by, NEW k, NEW of,
         \A i \in DOMAIN A : A[i][by] = B[i][by] /\ A[i][of] = B[i][of]
  PROVE  S!Count(A, by, k) = S!Count(B, by, k) /\ S!Total(A, by, k, of) = S!Total(B, by, k, of)
<1>1. [i \in DOMAIN A |-> IF A[i][by] = k THEN 1 ELSE 0]
        = [i \in DOMAIN B |-> IF B[i][by] = k THEN 1 ELSE 0]
  OBVIOUS
<1>2. [i \in DOMAIN A |-> IF A[i][by] = k THEN A[i][of] ELSE 0]
        = [i \in DOMAIN B |-> IF B[i][by] = k THEN B[i][of] ELSE 0]
  OBVIOUS
<1> QED BY <1>1, <1>2 DEF S!Count, S!Total

--------------------------------------------------------------------------------
(***************************************************************************)
(* The stores: collecting the replies to an entry.                         *)
(***************************************************************************)

\* f[i]: the replies to an entry in the first i rows.
Threads(f, rows, id) ==
  /\ f[0] = <<>>
  /\ \A i \in 1 .. Len(rows) :
       /\ rows[i].to = id => f[i] = Append(f[i - 1], rows[i].author)
       /\ rows[i].to # id => f[i] = f[i - 1]

HasThreads(A, rows, id) ==
  \E f \in [0 .. Len(rows) -> Seq(A)] :
    Threads(f, rows, id) /\ S!RepliesTo(rows, id) = f[Len(rows)]

\* A row of T has its author in A; no row is a reply to the entry.
ByAuthors(T, A) == \A r \in T : r.author \in A
Unanswered(rows, id) == \A i \in DOMAIN rows : rows[i].to # id

LEMMA RepliesUnfold ==
  ASSUME NEW A, NEW T, NEW rows \in Seq(T), NEW id, ByAuthors(T, A)
  PROVE  HasThreads(A, rows, id)
<1> DEFINE n == Len(rows)
           g == [x \in (1 .. n) \X Seq(A) |->
                   IF rows[x[1]].to = id THEN Append(x[2], rows[x[1]].author) ELSE x[2]]
           f == CHOOSE f : f = [i \in 0 .. n |->
                  IF i = 0 THEN <<>>
                  ELSE IF rows[i].to = id THEN Append(f[i - 1], rows[i].author) ELSE f[i - 1]]
<1>1. n \in Nat /\ \A i \in 1 .. n : rows[i].author \in A BY DEF ByAuthors
<1>2. \A i \in 1 .. n, a \in Seq(A) :
         g[<<i, a>>] = IF rows[i].to = id THEN Append(a, rows[i].author) ELSE a
  OBVIOUS
<1>3. ASSUME NEW i \in 1 .. n, NEW a \in Seq(A) PROVE g[<<i, a>>] \in Seq(A)
  <2>1. rows[i].author \in A BY <1>1
  <2>2. Append(a, rows[i].author) \in Seq(A) BY <2>1
  <2>3. g[<<i, a>>] = IF rows[i].to = id THEN Append(a, rows[i].author) ELSE a BY <1>2
  <2> QED BY <2>2, <2>3
<1>4. S!RepliesTo(rows, id) = f[n] BY DEF S!RepliesTo
<1> HIDE DEF n, g
<1>5. PICK h \in [0 .. n -> Seq(A)] :
         h[0] = <<>> /\ \A i \in 1 .. n : h[i] = g[<<i, h[i - 1]>>]
  <2> DEFINE Z == Seq(A)
  <2>1. <<>> \in Z /\ \A i \in 1 .. n, a \in Z : g[<<i, a>>] \in Z BY <1>3
  <2>2. Iterates(Z, <<>>, n, g)
    <3> HIDE DEF Z
    <3> QED BY <1>1, <2>1, Prefixes
  <2> QED BY <2>2 DEF Iterates
<1>6. \A i \in 1 .. n :
         /\ h[i] = IF rows[i].to = id THEN Append(h[i - 1], rows[i].author) ELSE h[i - 1]
         /\ rows[i].to = id => h[i] = Append(h[i - 1], rows[i].author)
         /\ rows[i].to # id => h[i] = h[i - 1]
  <2> HIDE DEF f
  <2> TAKE i \in 1 .. n
  <2> DEFINE hi == IF rows[i].to = id THEN Append(h[i - 1], rows[i].author) ELSE h[i - 1]
  <2>1. h[i - 1] \in Seq(A) BY <1>1
  <2>2. h[i] = g[<<i, h[i - 1]>>] BY <1>5
  <2>3. g[<<i, h[i - 1]>>] = hi BY <1>2, <2>1
  <2>4. h[i] = hi BY <2>2, <2>3
  <2>5. rows[i].to = id => h[i] = Append(h[i - 1], rows[i].author) BY <2>4
  <2>6. rows[i].to # id => h[i] = h[i - 1] BY <2>4
  <2> HIDE DEF hi
  <2> QED BY <2>5, <2>6
<1>7. h = [i \in 0 .. n |->
             IF i = 0 THEN <<>>
             ELSE IF rows[i].to = id THEN Append(h[i - 1], rows[i].author) ELSE h[i - 1]]
  <2> HIDE DEF f
  <2>1. \A i \in 0 .. n : i = 0 \/ i \in 1 .. n BY <1>1
  <2>2. \A i \in 1 .. n : i # 0 OBVIOUS
  <2>3. \A i \in 0 .. n :
           h[i] = IF i = 0 THEN <<>>
                  ELSE IF rows[i].to = id THEN Append(h[i - 1], rows[i].author) ELSE h[i - 1]
    BY <1>5, <1>6, <2>1, <2>2
  <2>4. h = [i \in 0 .. n |-> h[i]] BY <1>5
  <2> QED BY <2>3, <2>4, Zenon
<1>8. f = [i \in 0 .. n |->
             IF i = 0 THEN <<>>
             ELSE IF rows[i].to = id THEN Append(f[i - 1], rows[i].author) ELSE f[i - 1]]
  BY <1>7
<1> HIDE DEF f
<1>9. f = h
  <2>1. \A i \in 0 .. n : f[i] = h[i]
    <3>1. f[0] = h[0] BY <1>1, <1>7, <1>8
    <3>2. ASSUME NEW i \in 1 .. n, f[i - 1] = h[i - 1] PROVE f[i] = h[i]
      <4>1. i \in 0 .. n /\ i # 0 BY <1>1
      <4>2. f[i] = IF rows[i].to = id THEN Append(f[i - 1], rows[i].author) ELSE f[i - 1]
        BY <1>8, <4>1, Zenon
      <4>3. h[i] = IF rows[i].to = id THEN Append(h[i - 1], rows[i].author) ELSE h[i - 1]
        BY <1>6
      <4> QED BY <3>2, <4>2, <4>3
    <3>3. StepAlike(f, h, n) BY <3>1, <3>2 DEF StepAlike
    <3> QED BY <1>1, <3>3, SamePrefix DEF Agree
  <2> QED BY <1>7, <1>8, <2>1
<1>10. h[0] = <<>> /\ S!RepliesTo(rows, id) = h[n] BY <1>4, <1>5, <1>9
<1>11. Threads(h, rows, id) BY <1>6, <1>10 DEF n, Threads
<1> QED BY <1>10, <1>11 DEF n, HasThreads

\* One more reply comes last in its own thread and leaves the others alone.
LEMMA RepliesAppend ==
  ASSUME NEW A, NEW T, NEW rows \in Seq(T), NEW e \in T, NEW id, ByAuthors(T, A)
  PROVE  /\ S!RepliesTo(rows, id) \in Seq(A)
         /\ S!RepliesTo(Append(rows, e), id)
              = IF e.to = id THEN Append(S!RepliesTo(rows, id), e.author)
                ELSE S!RepliesTo(rows, id)
<1> DEFINE n == Len(rows)
           w == Append(rows, e)
<1>1. /\ n \in Nat /\ w \in Seq(T) /\ Len(w) = n + 1 /\ w[n + 1] = e
      /\ \A i \in 1 .. n : w[i] = rows[i]
  OBVIOUS
<1>2. PICK f \in [0 .. n -> Seq(A)] : Threads(f, rows, id) /\ S!RepliesTo(rows, id) = f[n]
  <2>1. HasThreads(A, rows, id) BY RepliesUnfold
  <2> QED BY <2>1 DEF HasThreads
<1> HIDE DEF w, n
<1>3. PICK h \in [0 .. Len(w) -> Seq(A)] : Threads(h, w, id) /\ S!RepliesTo(w, id) = h[Len(w)]
  <2>1. HasThreads(A, w, id)
    <3>1. w \in Seq(T) BY <1>1
    <3> QED BY <3>1, RepliesUnfold
  <2> QED BY <2>1 DEF HasThreads
<1>4. f[n] = h[n]
  <2>1. ASSUME NEW i \in 1 .. n, f[i - 1] = h[i - 1] PROVE f[i] = h[i]
    <3>1. /\ rows[i].to = id => f[i] = Append(f[i - 1], rows[i].author)
          /\ rows[i].to # id => f[i] = f[i - 1]
      BY <1>2 DEF Threads, n
    <3>2. /\ w[i].to = id => h[i] = Append(h[i - 1], w[i].author)
          /\ w[i].to # id => h[i] = h[i - 1]
      <4>1. i \in 1 .. Len(w) BY <1>1
      <4> QED BY <1>3, <4>1 DEF Threads
    <3>3. w[i] = rows[i] BY <1>1
    <3> QED BY <2>1, <3>1, <3>2, <3>3
  <2>2. f[0] = h[0] BY <1>2, <1>3 DEF Threads
  <2>3. StepAlike(f, h, n) BY <2>1, <2>2 DEF StepAlike
  <2>4. Agree(f, h, n) BY <1>1, <2>3, SamePrefix
  <2> QED BY <1>1, <2>4 DEF Agree
<1>5. h[n + 1] = IF e.to = id THEN Append(h[n], e.author) ELSE h[n]
  <2>1. n + 1 \in 1 .. Len(w) /\ (n + 1) - 1 = n BY <1>1
  <2> QED BY <1>1, <1>3, <2>1 DEF Threads
<1>6. f[n] \in Seq(A) BY <1>1
<1> QED BY <1>1, <1>2, <1>3, <1>4, <1>5, <1>6 DEF w

\* Nothing was answered to an entry to which no row points.
LEMMA NoReplies ==
  ASSUME NEW A, NEW T, NEW rows \in Seq(T), NEW id, ByAuthors(T, A), Unanswered(rows, id)
  PROVE  S!RepliesTo(rows, id) = <<>>
<1> DEFINE n == Len(rows)
<1>1. n \in Nat OBVIOUS
<1>2. PICK f \in [0 .. n -> Seq(A)] : Threads(f, rows, id) /\ S!RepliesTo(rows, id) = f[n]
  <2>1. HasThreads(A, rows, id) BY RepliesUnfold
  <2> QED BY <2>1 DEF HasThreads
<1> DEFINE h == [i \in 0 .. n |-> <<>>]
<1>3. \A i \in 1 .. n : f[i - 1] = h[i - 1] => f[i] = h[i] BY <1>1, <1>2 DEF Threads, Unanswered
<1>4. f[0] = h[0] BY <1>1, <1>2 DEF Threads
<1> HIDE DEF h, n
<1>5. f[n] = h[n]
  <2>1. StepAlike(f, h, n) BY <1>3, <1>4 DEF StepAlike
  <2>2. Agree(f, h, n) BY <1>1, <2>1, SamePrefix
  <2> QED BY <1>1, <2>2 DEF Agree
<1> QED BY <1>1, <1>2, <1>5 DEF h

--------------------------------------------------------------------------------
(***************************************************************************)
(* The stores: the two hold the same, call by call.                        *)
(***************************************************************************)

LEMMA PutAt ==
  ASSUME NEW f, NEW x, NEW v, NEW y, NEW none
  PROVE  S!At(S!Put(f, x, v), y, none) = IF y = x THEN v ELSE S!At(f, y, none)
BY DEF S!At, S!Put

\* The two agree while neither moves.
KeysSame == mem'.keys = mem.keys /\ mem'.keyInfo = mem.keyInfo /\ pg'.keys = pg.keys
CreditsSame ==
  /\ mem'.credits = mem.credits /\ mem'.topupRefs = mem.topupRefs
  /\ mem'.debitJobs = mem.debitJobs
  /\ pg'.ledger = pg.ledger /\ pg'.billing = pg.billing
UsageSame == mem'.usage = mem.usage /\ pg'.usage = pg.usage
EarningsSame == mem'.settled = mem.settled /\ mem'.rows = mem.rows /\ pg'.earnings = pg.earnings
DeskSame ==
  /\ mem'.payoutAccts = mem.payoutAccts /\ pg'.accounts = pg.accounts
  /\ mem'.nodeCaps = mem.nodeCaps /\ pg'.caps = pg.caps
  /\ mem'.proposals = mem.proposals /\ pg'.proposals = pg.proposals
WaitlistSame == mem'.waitlist = mem.waitlist /\ pg'.waitlist = pg.waitlist
ThreadsSame ==
  mem'.feedback = mem.feedback /\ pg'.feedback = pg.feedback /\ pg'.replies = pg.replies
RunsSame == held' = held /\ mem'.runs = mem.runs /\ pg'.runs = pg.runs

LEMMA SameRead ==
  /\ S!KeysMatch /\ KeysSame => S!KeysMatch'
  /\ S!CreditsMatch /\ CreditsSame => S!CreditsMatch'
  /\ S!UsageMatches /\ UsageSame => S!UsageMatches'
  /\ S!EarningsMatch /\ EarningsSame => S!EarningsMatch'
  /\ S!DeskMatches /\ DeskSame => S!DeskMatches'
  /\ S!WaitlistMatches /\ WaitlistSame => S!WaitlistMatches'
  /\ S!ThreadsMatch /\ ThreadsSame => S!ThreadsMatch'
  /\ S!RunsMatch /\ RunsSame => S!RunsMatch'
<1>1. S!KeysMatch /\ KeysSame => S!KeysMatch'
  BY DEF S!KeysMatch, KeysSame
<1>2. S!CreditsMatch /\ CreditsSame => S!CreditsMatch'
  BY DEF S!CreditsMatch, CreditsSame, S!MemCreditBalance, S!PgCreditBalance
<1>3. S!UsageMatches /\ UsageSame => S!UsageMatches'
  BY DEF S!UsageMatches, UsageSame, S!MemUsageSince, S!PgUsageSince
<1>4. S!EarningsMatch /\ EarningsSame => S!EarningsMatch'
  BY DEF S!EarningsMatch, EarningsSame, S!MemEarningsSince, S!PgEarningsSince
<1>5. S!DeskMatches /\ DeskSame => S!DeskMatches'
  BY DEF S!DeskMatches, DeskSame
<1>6. S!WaitlistMatches /\ WaitlistSame => S!WaitlistMatches'
  BY DEF S!WaitlistMatches, WaitlistSame
<1>7. S!ThreadsMatch /\ ThreadsSame => S!ThreadsMatch'
  BY DEF S!ThreadsMatch, ThreadsSame
<1>8. S!RunsMatch /\ RunsSame => S!RunsMatch'
  BY DEF S!RunsMatch, RunsSame
<1> QED BY <1>1, <1>2, <1>3, <1>4, <1>5, <1>6, <1>7, <1>8

LEMMA InitStore == ASSUME S!StoreAssumption, S!Init PROVE S!StoreInv
<1> USE DEF S!Init, S!Empty, S!At
<1>1. DOMAIN mem = S!MemTables /\ DOMAIN pg = S!PgTables /\ calls \in Nat
  BY DEF S!MemTables, S!PgTables
<1>2. S!KeysMatch
  BY DEF S!KeysMatch, S!StoreAssumption
<1>3. S!CreditsMatch
  BY NoRows DEF S!CreditsMatch, S!MemCreditBalance, S!PgCreditBalance
<1>4. S!UsageMatches
  BY NoRows DEF S!UsageMatches, S!MemUsageSince, S!PgUsageSince, S!NoUsage
<1>5. S!EarningsMatch
  BY NoRows DEF S!EarningsMatch, S!MemEarningsSince, S!PgEarningsSince, S!NoRow
<1>6. S!DeskMatches BY DEF S!DeskMatches
<1>7. S!WaitlistMatches BY DEF S!WaitlistMatches
<1>8. S!ThreadsMatch BY DEF S!ThreadsMatch
<1>9. S!RunsMatch BY DEF S!RunsMatch
<1> QED BY <1>1, <1>2, <1>3, <1>4, <1>5, <1>6, <1>7, <1>8, <1>9 DEF S!StoreInv

\* A key is created, listed, and switched in both.
LEMMA KeyStep ==
  ASSUME S!StoreAssumption, S!StoreInv, NEW r \in Raws,
         S!CreateConsumerKey(r) \/ \E off \in BOOLEAN : S!SetConsumerKeyDisabled(S!KeyID(r), off)
  PROVE  S!StoreInv'
<1> DEFINE id == S!KeyID(r)
<1>1. S!KeysMatch /\ DOMAIN mem = S!MemTables /\ DOMAIN pg = S!PgTables /\ calls \in Nat
  BY DEF S!StoreInv
<1>2. calls' \in Nat /\ held' = held
  BY <1>1 DEF S!CreateConsumerKey, S!SetConsumerKeyDisabled, S!Call
<1>3. \A a, b \in Raws : (S!KeyID(a) = S!KeyID(b) => a = b) /\ (S!Sha(a) = S!Sha(b) => a = b)
  BY DEF S!KeyID, S!Sha
<1>4. ASSUME S!CreateConsumerKey(r)
      PROVE  /\ S!KeysMatch' /\ DOMAIN mem' = S!MemTables /\ DOMAIN pg' = S!PgTables
             /\ CreditsSame /\ UsageSame /\ EarningsSame /\ DeskSame /\ WaitlistSame
             /\ ThreadsSame /\ RunsSame
  <2>1. /\ r \notin EnvKeys /\ id \notin DOMAIN pg.keys
        /\ mem' = [mem EXCEPT !.keys = S!Put(@, r, id),
                              !.keyInfo = S!Put(@, id, [disabled |-> FALSE])]
        /\ pg' = [pg EXCEPT !.keys = S!Put(@, id, [sha |-> S!Sha(r), disabled |-> FALSE])]
    BY <1>4 DEF S!CreateConsumerKey, S!MemCreateKey, S!PgCreateKey
  <2>2. /\ mem'.keys = S!Put(mem.keys, r, id)
        /\ mem'.keyInfo = S!Put(mem.keyInfo, id, [disabled |-> FALSE])
        /\ pg'.keys = S!Put(pg.keys, id, [sha |-> S!Sha(r), disabled |-> FALSE])
        /\ DOMAIN mem' = DOMAIN mem /\ DOMAIN pg' = DOMAIN pg
    BY <1>1, <2>1 DEF S!MemTables, S!PgTables
  <2>3. CreditsSame /\ UsageSame /\ EarningsSame /\ DeskSame /\ WaitlistSame
        /\ ThreadsSame /\ RunsSame
    BY <1>1, <1>2, <2>1 DEF S!MemTables, S!PgTables, CreditsSame, UsageSame, EarningsSame,
         DeskSame, WaitlistSame, ThreadsSame, RunsSame
  <2>4. ASSUME NEW x \in Raws
        PROVE  /\ S!At(mem'.keys, x, None) = IF x \in EnvKeys \/ S!KeyID(x) \in DOMAIN pg'.keys
                                             THEN S!KeyID(x) ELSE None
               /\ S!KeyID(x) \in DOMAIN pg'.keys => \E off \in BOOLEAN :
                    /\ mem'.keyInfo[S!KeyID(x)] = [disabled |-> off]
                    /\ pg'.keys[S!KeyID(x)] = [sha |-> S!Sha(x), disabled |-> off]
    <3>1. S!KeyID(x) = id <=> x = r BY <1>3
    <3>2. CASE x = r
      <4>1. /\ S!KeyID(x) \in DOMAIN pg'.keys /\ S!At(mem'.keys, x, None) = S!KeyID(x)
            /\ mem'.keyInfo[S!KeyID(x)] = [disabled |-> FALSE]
            /\ pg'.keys[S!KeyID(x)] = [sha |-> S!Sha(x), disabled |-> FALSE]
        BY <2>2, <3>2 DEF S!Put, S!At
      <4> QED BY <4>1
    <3>3. CASE x # r
      <4>1. /\ S!At(mem'.keys, x, None) = S!At(mem.keys, x, None)
            /\ S!KeyID(x) \in DOMAIN pg'.keys <=> S!KeyID(x) \in DOMAIN pg.keys
        BY <2>2, <3>1, <3>3 DEF S!Put, S!At
      <4>2. S!KeyID(x) \in DOMAIN pg.keys =>
              /\ mem'.keyInfo[S!KeyID(x)] = mem.keyInfo[S!KeyID(x)]
              /\ pg'.keys[S!KeyID(x)] = pg.keys[S!KeyID(x)]
        <5>1. S!KeyID(x) \in DOMAIN pg.keys => S!KeyID(x) \in DOMAIN mem.keyInfo
          BY <1>1 DEF S!KeysMatch
        <5> QED BY <2>2, <3>1, <3>3, <5>1 DEF S!Put
      <4> QED BY <1>1, <4>1, <4>2 DEF S!KeysMatch
    <3> QED BY <3>2, <3>3
  <2>5. DOMAIN mem'.keyInfo = DOMAIN pg'.keys
        /\ DOMAIN pg'.keys \subseteq {S!KeyID(x) : x \in Raws \ EnvKeys}
    BY <1>1, <2>1, <2>2 DEF S!KeysMatch, S!Put
  <2>6. S!KeysMatch' BY <2>4, <2>5 DEF S!KeysMatch
  <2> QED BY <1>1, <2>2, <2>3, <2>6
<1>5. ASSUME NEW off \in BOOLEAN, S!SetConsumerKeyDisabled(id, off)
      PROVE  /\ S!KeysMatch' /\ DOMAIN mem' = S!MemTables /\ DOMAIN pg' = S!PgTables
             /\ CreditsSame /\ UsageSame /\ EarningsSame /\ DeskSame /\ WaitlistSame
             /\ ThreadsSame /\ RunsSame
  <2>1. /\ mem' = IF id \in DOMAIN mem.keyInfo THEN [mem EXCEPT !.keyInfo[id].disabled = off]
                  ELSE mem
        /\ pg' = IF id \in DOMAIN pg.keys THEN [pg EXCEPT !.keys[id].disabled = off] ELSE pg
        /\ id \in DOMAIN mem.keyInfo <=> id \in DOMAIN pg.keys
    BY <1>1, <1>5 DEF S!SetConsumerKeyDisabled, S!MemSetDisabled, S!PgSetDisabled, S!KeysMatch
  <2>2. CASE id \notin DOMAIN pg.keys
    <3>1. mem' = mem /\ pg' = pg BY <2>1, <2>2
    <3>2. KeysSame /\ CreditsSame /\ UsageSame /\ EarningsSame /\ DeskSame /\ WaitlistSame
          /\ ThreadsSame /\ RunsSame
      BY <1>2, <3>1 DEF KeysSame, CreditsSame, UsageSame, EarningsSame, DeskSame, WaitlistSame,
           ThreadsSame, RunsSame
    <3> QED BY <1>1, <3>1, <3>2, SameRead
  <2>3. CASE id \in DOMAIN pg.keys
    <3>1. PICK was \in BOOLEAN : /\ mem.keyInfo[id] = [disabled |-> was]
                                /\ pg.keys[id] = [sha |-> S!Sha(r), disabled |-> was]
      BY <1>1, <2>3 DEF S!KeysMatch
    <3>2. /\ mem'.keyInfo = [mem.keyInfo EXCEPT ![id] = [disabled |-> off]]
          /\ pg'.keys = [pg.keys EXCEPT ![id] = [sha |-> S!Sha(r), disabled |-> off]]
      BY <1>1, <2>1, <2>3, <3>1 DEF S!MemTables, S!PgTables
    <3>3. /\ DOMAIN mem' = S!MemTables /\ DOMAIN pg' = S!PgTables /\ mem'.keys = mem.keys
          /\ CreditsSame /\ UsageSame /\ EarningsSame /\ DeskSame /\ WaitlistSame
          /\ ThreadsSame /\ RunsSame
      BY <1>1, <1>2, <2>1, <2>3 DEF S!MemTables, S!PgTables, CreditsSame, UsageSame, EarningsSame,
           DeskSame, WaitlistSame, ThreadsSame, RunsSame
    <3>4. ASSUME NEW x \in Raws, S!KeyID(x) \in DOMAIN pg'.keys
          PROVE  \E o \in BOOLEAN :
                   /\ mem'.keyInfo[S!KeyID(x)] = [disabled |-> o]
                   /\ pg'.keys[S!KeyID(x)] = [sha |-> S!Sha(x), disabled |-> o]
      <4>1. CASE x = r
        <5>1. id \in DOMAIN mem.keyInfo BY <2>1, <2>3
        <5> QED BY <2>3, <3>2, <4>1, <5>1
      <4>2. CASE x # r
        <5>1. S!KeyID(x) # id BY <1>3, <4>2
        <5>2. S!KeyID(x) \in DOMAIN pg.keys BY <3>2, <3>4
        <5>3. /\ mem'.keyInfo[S!KeyID(x)] = mem.keyInfo[S!KeyID(x)]
              /\ pg'.keys[S!KeyID(x)] = pg.keys[S!KeyID(x)]
          BY <1>1, <3>2, <5>1, <5>2 DEF S!KeysMatch
        <5> QED BY <1>1, <5>2, <5>3 DEF S!KeysMatch
      <4> QED BY <4>1, <4>2
    <3>5. DOMAIN mem'.keyInfo = DOMAIN mem.keyInfo /\ DOMAIN pg'.keys = DOMAIN pg.keys
      BY <3>2
    <3>6. S!KeysMatch' BY <1>1, <3>3, <3>4, <3>5 DEF S!KeysMatch
    <3> QED BY <3>3, <3>6
  <2> QED BY <2>2, <2>3
<1> QED BY <1>2, <1>4, <1>5, SameRead DEF S!StoreInv

\* An entry is counted once in both, or left out of both.
LEMMA CreditStep ==
  ASSUME S!StoreAssumption, S!StoreInv, NEW e \in S!Entries, S!AddCredit(e)
  PROVE  S!StoreInv'
<1>1. S!CreditsMatch /\ DOMAIN mem = S!MemTables /\ DOMAIN pg = S!PgTables /\ calls \in Nat
  BY DEF S!StoreInv
<1>2. calls' \in Nat /\ held' = held
  BY <1>1 DEF S!AddCredit, S!Call
<1>3. /\ \A r \in S!Entries : r.delta \in Int /\ r.key \in EnvKeys
      /\ e.reason = "topup" => e.ref \in Refs /\ e.ref # None
      /\ e.reason = "debit" => e.job \in Jobs /\ e.job # None
      /\ e.reason # "topup" \/ e.reason # "debit"
  BY DEF S!Entries, S!StoreAssumption
<1>4. pg.ledger \in Seq(S!Entries) BY <1>1 DEF S!CreditsMatch
<1> DEFINE topup == e.reason = "topup"
           debit == e.reason = "debit"
           again == (topup /\ e.ref \in mem.topupRefs) \/ (debit /\ e.job \in mem.debitJobs)
           L == pg.ledger
<1>5. again <=> \E r \in {L[i] : i \in DOMAIN L} :
                  /\ r.reason = e.reason
                  /\ \/ e.reason = "topup" /\ e.ref # None /\ r.ref = e.ref
                     \/ e.reason = "debit" /\ e.job # None /\ r.job = e.job
  BY <1>1, <1>3 DEF S!CreditsMatch
<1>6. CASE again
  <2>1. mem' = mem /\ pg' = pg
    <3>1. mem' = mem BY <1>3, <1>6 DEF S!AddCredit, S!MemAddCredit
    <3>2. pg' = pg BY <1>5, <1>6 DEF S!AddCredit, S!PgAddCredit, S!ToSet
    <3> QED BY <3>1, <3>2
  <2>2. KeysSame /\ CreditsSame /\ UsageSame /\ EarningsSame /\ DeskSame /\ WaitlistSame
        /\ ThreadsSame /\ RunsSame
    BY <1>2, <2>1 DEF KeysSame, CreditsSame, UsageSame, EarningsSame, DeskSame, WaitlistSame,
         ThreadsSame, RunsSame
  <2> QED BY <1>1, <1>2, <2>1, <2>2, SameRead DEF S!StoreInv
<1>7. CASE ~again
  <2>1. /\ mem' = [mem EXCEPT !.topupRefs = IF topup THEN @ \cup {e.ref} ELSE @,
                              !.debitJobs = IF debit THEN @ \cup {e.job} ELSE @,
                              !.credits = S!Put(@, e.key, S!At(@, e.key, 0) + e.delta)]
        /\ pg' = [pg EXCEPT !.billing = S!Put(@, e.key, S!At(@, e.key, 0) + e.delta),
                            !.ledger = Append(@, e)]
    <3>1. topup => e.ref # None BY <1>3
    <3>2. debit => e.job # None BY <1>3
    <3>3. /\ (topup /\ e.ref # None) <=> topup
          /\ (debit /\ e.job # None) <=> debit
      BY <3>1, <3>2
    <3>4. mem' = [mem EXCEPT !.topupRefs = IF topup THEN @ \cup {e.ref} ELSE @,
                            !.debitJobs = IF debit THEN @ \cup {e.job} ELSE @,
                            !.credits = S!Put(@, e.key, S!At(@, e.key, 0) + e.delta)]
      BY <1>7, <3>3, Zenon DEF S!AddCredit, S!MemAddCredit
    <3>5. pg' = [pg EXCEPT !.billing = S!Put(@, e.key, S!At(@, e.key, 0) + e.delta),
                          !.ledger = Append(@, e)]
      BY <1>5, <1>7, Zenon DEF S!AddCredit, S!PgAddCredit, S!ToSet
    <3> QED BY <3>4, <3>5
  <2>2. /\ mem'.topupRefs = (IF topup THEN mem.topupRefs \cup {e.ref} ELSE mem.topupRefs)
        /\ mem'.debitJobs = (IF debit THEN mem.debitJobs \cup {e.job} ELSE mem.debitJobs)
        /\ mem'.credits = S!Put(mem.credits, e.key, S!At(mem.credits, e.key, 0) + e.delta)
        /\ pg'.billing = S!Put(pg.billing, e.key, S!At(pg.billing, e.key, 0) + e.delta)
        /\ pg'.ledger = Append(L, e)
        /\ DOMAIN mem' = S!MemTables /\ DOMAIN pg' = S!PgTables
    BY <1>1, <2>1 DEF S!MemTables, S!PgTables
  <2>3. KeysSame /\ UsageSame /\ EarningsSame /\ DeskSame /\ WaitlistSame
        /\ ThreadsSame /\ RunsSame
    BY <1>1, <1>2, <2>1 DEF S!MemTables, S!PgTables, KeysSame, UsageSame, EarningsSame,
         DeskSame, WaitlistSame, ThreadsSame, RunsSame
  <2> DEFINE M == pg'.ledger
  <2>4. /\ M \in Seq(S!Entries) /\ DOMAIN M = DOMAIN L \cup {Len(L) + 1}
        /\ M[Len(L) + 1] = e /\ Len(L) + 1 \notin DOMAIN L
        /\ \A i \in DOMAIN L : M[i] = L[i]
    BY <1>4, <2>2
  <2>5. ASSUME NEW x \in Refs
        PROVE  x \in mem'.topupRefs <=> \E i \in DOMAIN M : M[i].reason = "topup" /\ M[i].ref = x
    <3>1. x \in mem.topupRefs <=> \E i \in DOMAIN L : L[i].reason = "topup" /\ L[i].ref = x
      BY <1>1 DEF S!CreditsMatch
    <3> HIDE DEF M, L
    <3> QED BY <2>2, <2>4, <3>1
  <2>6. ASSUME NEW j \in Jobs
        PROVE  j \in mem'.debitJobs <=> \E i \in DOMAIN M : M[i].reason = "debit" /\ M[i].job = j
    <3>1. j \in mem.debitJobs <=> \E i \in DOMAIN L : L[i].reason = "debit" /\ L[i].job = j
      BY <1>1 DEF S!CreditsMatch
    <3> HIDE DEF M, L
    <3> QED BY <2>2, <2>4, <3>1
  <2>7. ASSUME NEW k \in EnvKeys
        PROVE  S!At(mem'.credits, k, 0) = S!At(pg'.billing, k, 0)
               /\ S!At(pg'.billing, k, 0) = S!Total(M, "key", k, "delta")
    <3>1. /\ S!At(mem.credits, k, 0) = S!At(pg.billing, k, 0)
          /\ S!At(pg.billing, k, 0) = S!Total(L, "key", k, "delta")
      BY <1>1 DEF S!CreditsMatch, S!MemCreditBalance, S!PgCreditBalance
    <3>2. /\ S!At(mem'.credits, k, 0) = (IF k = e.key THEN S!At(mem.credits, e.key, 0) + e.delta
                                        ELSE S!At(mem.credits, k, 0))
          /\ S!At(pg'.billing, k, 0) = (IF k = e.key THEN S!At(pg.billing, e.key, 0) + e.delta
                                       ELSE S!At(pg.billing, k, 0))
      BY <2>2, PutAt
    <3>3. /\ S!Total(L, "key", k, "delta") \in Int
          /\ S!Total(M, "key", k, "delta")
               = S!Total(L, "key", k, "delta") + (IF e["key"] = k THEN e["delta"] ELSE 0)
      <4>1. \A r \in S!Entries : r["delta"] \in Int BY <1>3
      <4> HIDE DEF L
      <4> QED BY <1>4, <2>2, <4>1, RowsAppend DEF L
    <3> HIDE DEF M, L
    <3> QED BY <1>3, <3>1, <3>2, <3>3
  <2>8. S!CreditsMatch'
    BY <2>4, <2>5, <2>6, <2>7 DEF S!CreditsMatch, S!MemCreditBalance, S!PgCreditBalance
  <2> QED BY <1>2, <2>2, <2>3, <2>8, SameRead DEF S!StoreInv
<1> QED BY <1>6, <1>7

\* A job's tokens are added to its key in both.
LEMMA UsageStep ==
  ASSUME S!StoreAssumption, S!StoreInv, NEW k \in EnvKeys, NEW tokens \in Nat,
         S!RecordUsage(k, tokens)
  PROVE  S!StoreInv'
<1> DEFINE T == [key : EnvKeys, tokens : Nat]
           e == [key |-> k, tokens |-> tokens]
           row == S!At(mem.usage, k, S!NoUsage)
           U == pg.usage
<1>1. S!UsageMatches /\ DOMAIN mem = S!MemTables /\ DOMAIN pg = S!PgTables /\ calls \in Nat
  BY DEF S!StoreInv
<1>2. calls' \in Nat /\ held' = held
  BY <1>1 DEF S!RecordUsage, S!Call
<1>3. /\ mem' = [mem EXCEPT !.usage = S!Put(@, k, [requests |-> row.requests + 1,
                                                  tokens |-> row.tokens + tokens])]
      /\ pg' = [pg EXCEPT !.usage = Append(@, e)]
  BY DEF S!RecordUsage, S!MemRecordUsage, S!PgRecordUsage
<1>4. /\ mem'.usage = S!Put(mem.usage, k, [requests |-> row.requests + 1,
                                           tokens |-> row.tokens + tokens])
      /\ pg'.usage = Append(U, e)
      /\ DOMAIN mem' = S!MemTables /\ DOMAIN pg' = S!PgTables
  BY <1>1, <1>3 DEF S!MemTables, S!PgTables
<1>5. KeysSame /\ CreditsSame /\ EarningsSame /\ DeskSame /\ WaitlistSame /\ ThreadsSame /\ RunsSame
  BY <1>1, <1>2, <1>3 DEF S!MemTables, S!PgTables, KeysSame, CreditsSame, EarningsSame, DeskSame,
       WaitlistSame, ThreadsSame, RunsSame
<1>6. U \in Seq(T) /\ e \in T /\ e["key"] = k /\ e["tokens"] = tokens
  BY <1>1 DEF S!UsageMatches
<1>7. pg'.usage \in Seq(T)
  <2> HIDE DEF T, e, U
  <2> QED BY <1>4, <1>6
<1>8. ASSUME NEW x \in EnvKeys
      PROVE  S!At(mem'.usage, x, S!NoUsage)
               = [requests |-> S!Count(pg'.usage, "key", x),
                  tokens |-> S!Total(pg'.usage, "key", x, "tokens")]
  <2>1. S!At(mem.usage, x, S!NoUsage) = [requests |-> S!Count(U, "key", x),
                                         tokens |-> S!Total(U, "key", x, "tokens")]
    BY <1>1 DEF S!UsageMatches, S!MemUsageSince, S!PgUsageSince
  <2>2. /\ S!Count(U, "key", x) \in Int /\ S!Total(U, "key", x, "tokens") \in Int
        /\ S!Count(pg'.usage, "key", x) = S!Count(U, "key", x) + (IF k = x THEN 1 ELSE 0)
        /\ S!Total(pg'.usage, "key", x, "tokens")
             = S!Total(U, "key", x, "tokens") + (IF k = x THEN tokens ELSE 0)
    <3>1. \A r \in T : r["tokens"] \in Int OBVIOUS
    <3> HIDE DEF T, e, U
    <3> QED BY <1>4, <1>6, <3>1, RowsAppend
  <2>3. S!At(mem'.usage, x, S!NoUsage)
          = IF x = k THEN [requests |-> row.requests + 1, tokens |-> row.tokens + tokens]
            ELSE S!At(mem.usage, x, S!NoUsage)
    BY <1>4, PutAt
  <2> HIDE DEF T, e, U
  <2>4. CASE x = k BY <2>1, <2>2, <2>3, <2>4
  <2>5. CASE x # k BY <2>1, <2>2, <2>3, <2>5
  <2> QED BY <2>4, <2>5
<1>9. S!UsageMatches'
  BY <1>7, <1>8 DEF S!UsageMatches, S!MemUsageSince, S!PgUsageSince
<1> QED BY <1>2, <1>4, <1>5, <1>9, SameRead DEF S!StoreInv

\* A job is earned once in both.
LEMMA EarningStep ==
  ASSUME S!StoreAssumption, S!StoreInv, NEW j \in Jobs, NEW c \in Conns, S!RecordEarning(j, c)
  PROVE  S!StoreInv'
<1> DEFINE d == DeviceOf[c]
           row == S!At(mem.rows, c, S!NoRow)
           E == pg.earnings
           e == [job |-> j, conn |-> c, dev |-> d, gross |-> Share + 1, share |-> Share,
                 state |-> "accrued"]
<1>1. S!EarningsMatch /\ DOMAIN mem = S!MemTables /\ DOMAIN pg = S!PgTables /\ calls \in Nat
  BY DEF S!StoreInv
<1>2. calls' \in Nat /\ held' = held
  BY <1>1 DEF S!RecordEarning, S!Call
<1>3. d \in Sellers /\ Share \in Nat /\ e \in S!EarningRows /\ E \in Seq(S!EarningRows)
  BY <1>1 DEF S!StoreAssumption, S!EarningRows, S!EarningsMatch
<1>4. <<j, d>> \in mem.settled <=> \E r \in {E[i] : i \in DOMAIN E} : r.job = j /\ r.dev = d
  BY <1>1, <1>3 DEF S!EarningsMatch
<1>5. CASE <<j, d>> \in mem.settled
  <2>1. mem' = mem /\ pg' = pg
    <3>1. mem' = mem BY <1>5 DEF S!RecordEarning, S!MemRecordEarning
    <3>2. pg' = pg BY <1>4, <1>5 DEF S!RecordEarning, S!PgRecordEarning, S!ToSet
    <3> QED BY <3>1, <3>2
  <2>2. KeysSame /\ CreditsSame /\ UsageSame /\ EarningsSame /\ DeskSame /\ WaitlistSame
        /\ ThreadsSame /\ RunsSame
    BY <1>2, <2>1 DEF KeysSame, CreditsSame, UsageSame, EarningsSame, DeskSame, WaitlistSame,
         ThreadsSame, RunsSame
  <2> QED BY <1>1, <1>2, <2>1, <2>2, SameRead DEF S!StoreInv
<1>6. CASE <<j, d>> \notin mem.settled
  <2>1. PICK owes : mem' = [mem EXCEPT
              !.settled = @ \cup {<<j, d>>},
              !.rows = S!Put(@, c, [jobs |-> row.jobs + 1, gross |-> row.gross + Share + 1,
                                    share |-> row.share + Share]),
              !.accrued = owes]
    <3>1. mem' = [mem EXCEPT
              !.settled = @ \cup {<<j, d>>},
              !.rows = S!Put(@, c, [jobs |-> row.jobs + 1, gross |-> row.gross + Share + 1,
                                    share |-> row.share + Share]),
              !.accrued = IF c \in DOMAIN mem.rows THEN @
                          ELSE S!Put(@, d, S!At(@, d, 0) + Share)]
      BY <1>6, Zenon DEF S!RecordEarning, S!MemRecordEarning
    <3> QED BY <3>1, Zenon
  <2>2. pg' = [pg EXCEPT !.earnings = Append(@, e)]
    BY <1>4, <1>6, Zenon DEF S!RecordEarning, S!PgRecordEarning, S!ToSet
  <2>3. /\ mem'.settled = mem.settled \cup {<<j, d>>}
        /\ mem'.rows = S!Put(mem.rows, c, [jobs |-> row.jobs + 1, gross |-> row.gross + Share + 1,
                                          share |-> row.share + Share])
        /\ pg'.earnings = Append(E, e)
        /\ DOMAIN mem' = S!MemTables /\ DOMAIN pg' = S!PgTables
    BY <1>1, <2>1, <2>2 DEF S!MemTables, S!PgTables
  <2>4. KeysSame /\ CreditsSame /\ UsageSame /\ DeskSame /\ WaitlistSame
        /\ ThreadsSame /\ RunsSame
    BY <1>1, <1>2, <2>1, <2>2 DEF S!MemTables, S!PgTables, KeysSame, CreditsSame, UsageSame,
         DeskSame, WaitlistSame, ThreadsSame, RunsSame
  <2> DEFINE F == pg'.earnings
  <2>5. e.job = j /\ e.dev = d /\ e["conn"] = c /\ e["gross"] = Share + 1 /\ e["share"] = Share
    OBVIOUS
  <2> HIDE DEF e
  <2>6. /\ F \in Seq(S!EarningRows) /\ DOMAIN F = DOMAIN E \cup {Len(E) + 1}
        /\ F[Len(E) + 1] = e /\ Len(E) + 1 \notin DOMAIN E
        /\ \A i \in DOMAIN E : F[i] = E[i]
    BY <1>3, <2>3
  <2>7. ASSUME NEW k \in Jobs, NEW x \in Sellers
        PROVE  <<k, x>> \in mem'.settled <=> \E i \in DOMAIN F : F[i].job = k /\ F[i].dev = x
    <3>1. <<k, x>> \in mem.settled <=> \E i \in DOMAIN E : E[i].job = k /\ E[i].dev = x
      BY <1>1 DEF S!EarningsMatch
    <3>2. <<k, x>> \in mem'.settled <=> <<k, x>> \in mem.settled \/ (k = j /\ x = d)
      BY <2>3
    <3>3. (\E i \in DOMAIN F : F[i].job = k /\ F[i].dev = x)
            <=> (\E i \in DOMAIN E : E[i].job = k /\ E[i].dev = x) \/ (e.job = k /\ e.dev = x)
      <4> HIDE DEF F, E
      <4> QED BY <2>6
    <3> QED BY <2>5, <3>1, <3>2, <3>3
  <2>8. ASSUME NEW x \in Conns
        PROVE  S!At(mem'.rows, x, S!NoRow)
                 = [jobs |-> S!Count(F, "conn", x), gross |-> S!Total(F, "conn", x, "gross"),
                    share |-> S!Total(F, "conn", x, "share")]
    <3>1. S!At(mem.rows, x, S!NoRow)
            = [jobs |-> S!Count(E, "conn", x), gross |-> S!Total(E, "conn", x, "gross"),
               share |-> S!Total(E, "conn", x, "share")]
      BY <1>1 DEF S!EarningsMatch, S!MemEarningsSince, S!PgEarningsSince
    <3>2. /\ S!Count(E, "conn", x) \in Int /\ S!Total(E, "conn", x, "gross") \in Int
          /\ S!Total(E, "conn", x, "share") \in Int
          /\ S!Count(F, "conn", x) = S!Count(E, "conn", x) + (IF c = x THEN 1 ELSE 0)
          /\ S!Total(F, "conn", x, "gross")
               = S!Total(E, "conn", x, "gross") + (IF c = x THEN Share + 1 ELSE 0)
          /\ S!Total(F, "conn", x, "share")
               = S!Total(E, "conn", x, "share") + (IF c = x THEN Share ELSE 0)
      <4>1. \A r \in S!EarningRows : r["gross"] \in Int /\ r["share"] \in Int
        BY DEF S!EarningRows
      <4> HIDE DEF E
      <4> QED BY <1>3, <2>3, <2>5, <4>1, RowsAppend
    <3>3. S!At(mem'.rows, x, S!NoRow)
            = IF x = c THEN [jobs |-> row.jobs + 1, gross |-> row.gross + Share + 1,
                             share |-> row.share + Share]
              ELSE S!At(mem.rows, x, S!NoRow)
      BY <2>3, PutAt
    <3> HIDE DEF E, F
    <3>4. CASE x = c BY <1>3, <3>1, <3>2, <3>3, <3>4
    <3>5. CASE x # c BY <3>1, <3>2, <3>3, <3>5
    <3> QED BY <3>4, <3>5
  <2>9. S!EarningsMatch'
    BY <2>6, <2>7, <2>8 DEF S!EarningsMatch, S!MemEarningsSince, S!PgEarningsSince
  <2> QED BY <1>2, <2>3, <2>4, <2>9, SameRead DEF S!StoreInv
<1> QED BY <1>5, <1>6

\* A payout moves no row from one job or connection to another: what is left over is
\* a row of neither.
LEMMA SettleStep ==
  ASSUME S!StoreAssumption, S!StoreInv, NEW d \in Sellers, S!RecordPayoutAndSettle(d)
  PROVE  S!StoreInv'
<1> DEFINE E == pg.earnings
           dust == S!PgAccrued(d) % Cent
           paidRows == [i \in DOMAIN E |-> IF E[i].dev = d THEN [E[i] EXCEPT !.state = "paid"]
                                         ELSE E[i]]
           e == [job |-> None, conn |-> None, dev |-> d, gross |-> 0, share |-> dust,
                 state |-> "accrued"]
<1>1. S!EarningsMatch /\ DOMAIN mem = S!MemTables /\ DOMAIN pg = S!PgTables /\ calls \in Nat
  BY DEF S!StoreInv
<1>2. calls' \in Nat /\ held' = held
  BY <1>1 DEF S!RecordPayoutAndSettle, S!Call
<1>3. E \in Seq(S!EarningRows) BY <1>1 DEF S!EarningsMatch
<1>4. \A r \in S!EarningRows :
         /\ r["gross"] \in Int /\ r["share"] \in Int
         /\ [r EXCEPT !.state = "paid"] \in S!EarningRows
         /\ \A f \in {"job", "conn", "dev", "gross", "share"} : [r EXCEPT !.state = "paid"][f] = r[f]
  BY DEF S!EarningRows
<1>5. dust \in Nat
  <2> DEFINE v == [i \in DOMAIN E |-> IF E[i].dev = d /\ E[i].state = "accrued" THEN E[i].share
                                    ELSE 0]
  <2>1. v \in Seq(Int)
    <3>1. \A i \in DOMAIN E : E[i].share \in Int
      <4>1. \A i \in DOMAIN E : E[i] \in S!EarningRows BY <1>3
      <4> QED BY <4>1 DEF S!EarningRows
    <3>2. v \in [1 .. Len(E) -> Int] BY <1>3, <3>1
    <3> QED BY <1>3, <3>2
  <2>2. S!PgAccrued(d) = S!Sum(v) BY DEF S!PgAccrued
  <2> HIDE DEF v
  <2>3. S!PgAccrued(d) \in Int BY <2>1, <2>2, SumAppend
  <2>4. Cent \in Nat /\ Cent > 0 BY DEF S!StoreAssumption
  <2> QED BY <2>3, <2>4
<1>6. /\ paidRows \in Seq(S!EarningRows) /\ DOMAIN paidRows = DOMAIN E
      /\ \A i \in DOMAIN E, f \in {"job", "conn", "dev", "gross", "share"} : paidRows[i][f] = E[i][f]
  <2>1. \A i \in DOMAIN E : E[i] \in S!EarningRows BY <1>3
  <2>2. paidRows \in [1 .. Len(E) -> S!EarningRows] BY <1>3, <1>4, <2>1
  <2>3. paidRows \in Seq(S!EarningRows)
    <3>1. Len(E) \in Nat BY <1>3
    <3> HIDE DEF paidRows, E
    <3> QED BY <2>2, <3>1
  <2>4. \A i \in DOMAIN E, f \in {"job", "conn", "dev", "gross", "share"} : paidRows[i][f] = E[i][f]
    BY <1>4, <2>1
  <2> QED BY <2>3, <2>4
<1>7. /\ mem' = IF d \in DOMAIN mem.accrued THEN [mem EXCEPT !.accrued[d] = S!MemAccrued(d) % Cent]
                ELSE mem
      /\ pg' = [pg EXCEPT !.earnings = IF dust > 0 THEN Append(paidRows, e) ELSE paidRows]
  BY Zenon DEF S!RecordPayoutAndSettle, S!MemSettle, S!PgSettle
<1> HIDE DEF dust, paidRows
<1>8. /\ DOMAIN mem' = S!MemTables /\ mem'.settled = mem.settled /\ mem'.rows = mem.rows
      /\ DOMAIN pg' = S!PgTables
      /\ pg'.earnings = IF dust > 0 THEN Append(paidRows, e) ELSE paidRows
  BY <1>1, <1>7 DEF S!MemTables, S!PgTables
<1>9. KeysSame /\ CreditsSame /\ UsageSame /\ DeskSame /\ WaitlistSame /\ ThreadsSame /\ RunsSame
  BY <1>1, <1>2, <1>7 DEF S!MemTables, S!PgTables, KeysSame, CreditsSame, UsageSame,
       DeskSame, WaitlistSame, ThreadsSame, RunsSame
<1>10. /\ e \in S!EarningRows /\ e.job = None /\ e["conn"] = None /\ None \notin Jobs \cup Conns
  BY <1>5 DEF S!EarningRows, S!StoreAssumption
<1> HIDE DEF e
<1> DEFINE F == pg'.earnings
<1>11. F \in Seq(S!EarningRows) BY <1>6, <1>8, <1>10
<1>12. ASSUME NEW k \in Jobs, NEW x \in Sellers
       PROVE  (\E i \in DOMAIN E : E[i].job = k /\ E[i].dev = x)
                <=> (\E i \in DOMAIN F : F[i].job = k /\ F[i].dev = x)
  <2>1. \A i \in DOMAIN E : paidRows[i].job = E[i].job /\ paidRows[i].dev = E[i].dev
    BY <1>6
  <2>2. CASE F = paidRows
    <3> HIDE DEF E, F
    <3> QED BY <1>6, <2>1, <2>2
  <2>3. CASE F = Append(paidRows, e)
    <3>1. /\ DOMAIN F = DOMAIN paidRows \cup {Len(paidRows) + 1}
          /\ F[Len(paidRows) + 1] = e
          /\ \A i \in DOMAIN paidRows : F[i] = paidRows[i]
      BY <1>6, <1>10, <2>3
    <3>2. e.job # k BY <1>10
    <3> HIDE DEF E, F
    <3> QED BY <1>6, <2>1, <3>1, <3>2
  <2> QED BY <1>8, <2>2, <2>3
<1>13. ASSUME NEW x \in Conns
       PROVE  /\ S!Count(F, "conn", x) = S!Count(E, "conn", x)
              /\ S!Total(F, "conn", x, "gross") = S!Total(E, "conn", x, "gross")
              /\ S!Total(F, "conn", x, "share") = S!Total(E, "conn", x, "share")
  <2>1. /\ S!Count(paidRows, "conn", x) = S!Count(E, "conn", x)
        /\ S!Total(paidRows, "conn", x, "gross") = S!Total(E, "conn", x, "gross")
        /\ S!Total(paidRows, "conn", x, "share") = S!Total(E, "conn", x, "share")
    <3> HIDE DEF E
    <3>1. \A i \in DOMAIN paidRows : /\ paidRows[i]["conn"] = E[i]["conn"]
                                     /\ paidRows[i]["gross"] = E[i]["gross"]
                                     /\ paidRows[i]["share"] = E[i]["share"]
      BY <1>6
    <3> QED BY <1>6, <3>1, RowsAlike
  <2>2. CASE F = paidRows BY <2>1, <2>2
  <2>3. CASE F = Append(paidRows, e)
    <3>1. e["conn"] # x BY <1>10
    <3>2. /\ S!Count(paidRows, "conn", x) \in Int
          /\ S!Total(paidRows, "conn", x, "gross") \in Int
          /\ S!Total(paidRows, "conn", x, "share") \in Int
          /\ S!Count(F, "conn", x) = S!Count(paidRows, "conn", x) + 0
          /\ S!Total(F, "conn", x, "gross") = S!Total(paidRows, "conn", x, "gross") + 0
          /\ S!Total(F, "conn", x, "share") = S!Total(paidRows, "conn", x, "share") + 0
      <4>1. \A r \in S!EarningRows : r["gross"] \in Int /\ r["share"] \in Int BY <1>4
      <4> HIDE DEF F
      <4> QED BY <1>6, <1>10, <2>3, <3>1, <4>1, RowsAppend
    <3> QED BY <2>1, <3>2
  <2> QED BY <1>8, <2>2, <2>3
<1>14. S!EarningsMatch'
  <2>1. ASSUME NEW k \in Jobs, NEW x \in Sellers
        PROVE  <<k, x>> \in mem'.settled <=> \E i \in DOMAIN F : F[i].job = k /\ F[i].dev = x
    <3>1. <<k, x>> \in mem'.settled <=> \E i \in DOMAIN E : E[i].job = k /\ E[i].dev = x
      BY <1>1, <1>8 DEF S!EarningsMatch
    <3> HIDE DEF E, F
    <3> QED BY <1>12, <3>1
  <2>2. \A x \in Conns :
           S!At(mem'.rows, x, S!NoRow)
             = [jobs |-> S!Count(F, "conn", x), gross |-> S!Total(F, "conn", x, "gross"),
                share |-> S!Total(F, "conn", x, "share")]
    BY <1>1, <1>8, <1>13 DEF S!EarningsMatch, S!MemEarningsSince, S!PgEarningsSince
  <2> QED BY <1>11, <2>1, <2>2 DEF S!EarningsMatch, S!MemEarningsSince, S!PgEarningsSince
<1> QED BY <1>2, <1>8, <1>9, <1>14, SameRead DEF S!StoreInv

\* Connected accounts, benchmarks and proposals are kept alike in both.
LEMMA DeskStep ==
  ASSUME S!StoreAssumption, S!StoreInv,
         \/ \E d \in Sellers : \E a \in [stripe : Stripes, status : {"pending", "enabled"}] :
              S!UpsertPayoutAccount(d, a)
         \/ \E d \in Sellers, tps \in {1, 2} : S!UpsertNodeCapability(d, tps)
         \/ \E m \in Mails : S!AddProposal(m)
  PROVE  S!StoreInv'
<1>1. S!DeskMatches /\ DOMAIN mem = S!MemTables /\ DOMAIN pg = S!PgTables /\ calls \in Nat
  BY DEF S!StoreInv
<1>2. calls' \in Nat /\ held' = held
  BY <1>1 DEF S!UpsertPayoutAccount, S!UpsertNodeCapability, S!AddProposal, S!Call
<1> DEFINE Others == KeysSame /\ CreditsSame /\ UsageSame /\ EarningsSame /\ WaitlistSame
                       /\ ThreadsSame /\ RunsSame
           Kept == DOMAIN mem' = S!MemTables /\ DOMAIN pg' = S!PgTables
<1>3. ASSUME NEW d \in Sellers, NEW a \in [stripe : Stripes, status : {"pending", "enabled"}],
             S!UpsertPayoutAccount(d, a)
      PROVE  S!DeskMatches' /\ Others /\ Kept
  <2>1. mem' = [mem EXCEPT !.payoutAccts = S!Put(@, d, a)]
    BY <1>3 DEF S!UpsertPayoutAccount, S!MemUpsertAccount
  <2>2. pg' = [pg EXCEPT !.accounts = S!Put(@, d, a)]
    <3>1. CASE d \notin DOMAIN pg.accounts
      BY <1>3, <3>1 DEF S!UpsertPayoutAccount, S!PgUpsertAccount
    <3>2. CASE d \in DOMAIN pg.accounts
      <4>1. pg' = [pg EXCEPT !.accounts[d] = [@ EXCEPT !.stripe = a.stripe, !.status = a.status]]
        BY <1>3, <3>2, Zenon DEF S!UpsertPayoutAccount, S!PgUpsertAccount
      <4>2. pg.accounts[d] \in [stripe : Stripes, status : {"pending", "enabled"}]
        BY <1>1, <3>2 DEF S!DeskMatches
      <4>3. [pg.accounts[d] EXCEPT !.stripe = a.stripe, !.status = a.status] = a
        BY <4>2
      <4>4. pg' = [pg EXCEPT !.accounts = [@ EXCEPT ![d] = a]]
        BY <4>1, <4>3
      <4>5. [pg.accounts EXCEPT ![d] = a] = S!Put(pg.accounts, d, a)
        BY <1>1, <3>2 DEF S!Put, S!DeskMatches
      <4> QED BY <4>4, <4>5
    <3> QED BY <3>1, <3>2
  <2>3. /\ mem'.payoutAccts = S!Put(mem.payoutAccts, d, a)
        /\ pg'.accounts = S!Put(pg.accounts, d, a)
        /\ mem'.nodeCaps = mem.nodeCaps /\ pg'.caps = pg.caps
        /\ mem'.proposals = mem.proposals /\ pg'.proposals = pg.proposals
    BY <1>1, <2>1, <2>2 DEF S!MemTables, S!PgTables
  <2>4. Others /\ Kept
    BY <1>1, <1>2, <2>1, <2>2 DEF S!MemTables, S!PgTables, KeysSame, CreditsSame, UsageSame,
         EarningsSame, WaitlistSame, ThreadsSame, RunsSame
  <2>5. S!DeskMatches' BY <1>1, <2>3 DEF S!DeskMatches, S!Put
  <2> QED BY <2>4, <2>5
<1>4. ASSUME NEW d \in Sellers, NEW tps \in {1, 2}, S!UpsertNodeCapability(d, tps)
      PROVE  S!DeskMatches' /\ Others /\ Kept
  <2>1. /\ mem' = [mem EXCEPT !.nodeCaps = S!Put(@, d, tps)]
        /\ pg' = [pg EXCEPT !.caps = S!Put(@, d, tps)]
    BY <1>4 DEF S!UpsertNodeCapability, S!MemUpsertCapability, S!PgUpsertCapability
  <2>2. /\ mem'.nodeCaps = S!Put(mem.nodeCaps, d, tps) /\ pg'.caps = S!Put(pg.caps, d, tps)
        /\ mem'.payoutAccts = mem.payoutAccts /\ pg'.accounts = pg.accounts
        /\ mem'.proposals = mem.proposals /\ pg'.proposals = pg.proposals
    BY <1>1, <2>1 DEF S!MemTables, S!PgTables
  <2>3. Others /\ Kept
    BY <1>1, <1>2, <2>1 DEF S!MemTables, S!PgTables, KeysSame, CreditsSame, UsageSame,
         EarningsSame, WaitlistSame, ThreadsSame, RunsSame
  <2>4. S!DeskMatches' BY <1>1, <2>2 DEF S!DeskMatches
  <2> QED BY <2>3, <2>4
<1>5. ASSUME NEW m \in Mails, S!AddProposal(m)
      PROVE  S!DeskMatches' /\ Others /\ Kept
  <2>1. /\ mem' = [mem EXCEPT !.proposals = Append(@, m)]
        /\ pg' = [pg EXCEPT !.proposals = Append(@, m)]
    BY <1>5 DEF S!AddProposal, S!MemAddProposal, S!PgAddProposal
  <2>2. /\ mem'.nodeCaps = mem.nodeCaps /\ pg'.caps = pg.caps
        /\ mem'.payoutAccts = mem.payoutAccts /\ pg'.accounts = pg.accounts
        /\ mem'.proposals = Append(mem.proposals, m) /\ pg'.proposals = Append(pg.proposals, m)
    BY <1>1, <2>1 DEF S!MemTables, S!PgTables
  <2>3. Others /\ Kept
    BY <1>1, <1>2, <2>1 DEF S!MemTables, S!PgTables, KeysSame, CreditsSame, UsageSame,
         EarningsSame, WaitlistSame, ThreadsSame, RunsSame
  <2>4. S!DeskMatches' BY <1>1, <2>2 DEF S!DeskMatches
  <2> QED BY <2>3, <2>4
<1> QED BY <1>2, <1>3, <1>4, <1>5, SameRead DEF S!StoreInv

\* A sign-up replaces that of the same address, or is a new one, in both.
LEMMA WaitlistStep ==
  ASSUME S!StoreAssumption, S!StoreInv, NEW m \in Mails, NEW interest \in {"share", "rent"},
         S!AddWaitlist(m, interest)
  PROVE  S!StoreInv'
<1> DEFINE W == mem.waitlist
           same == {i \in DOMAIN W : Lower[W[i].email] = Lower[m]}
           row == [email |-> m, interest |-> interest]
           old == S!At(pg.waitlist, Lower[m], row)
           new == [old EXCEPT !.interest = interest]
<1>1. S!WaitlistMatches /\ DOMAIN mem = S!MemTables /\ DOMAIN pg = S!PgTables /\ calls \in Nat
  BY DEF S!StoreInv
<1>2. calls' \in Nat /\ held' = held
  BY <1>1 DEF S!AddWaitlist, S!Call
<1>3. /\ mem' = IF same = {} THEN [mem EXCEPT !.waitlist = Append(@, row)]
                ELSE [mem EXCEPT !.waitlist[S!Min(same)] = row]
      /\ pg' = [pg EXCEPT !.waitlist = S!Put(@, Lower[m], new)]
  BY Zenon DEF S!AddWaitlist, S!MemAddWaitlist, S!PgAddWaitlist
<1>4. W \in Seq(S!SignUps) /\ row \in S!SignUps /\ row.email = m /\ row.interest = interest
  BY <1>1 DEF S!WaitlistMatches, S!SignUps
<1>5. /\ DOMAIN pg.waitlist = {Lower[W[i].email] : i \in DOMAIN W}
      /\ \A i, j \in DOMAIN W : Lower[W[i].email] = Lower[W[j].email] => i = j
      /\ \A i \in DOMAIN W : /\ pg.waitlist[Lower[W[i].email]] \in S!SignUps
                            /\ pg.waitlist[Lower[W[i].email]].interest = W[i].interest
  BY <1>1 DEF S!WaitlistMatches
<1>6. new \in S!SignUps /\ new.interest = interest
  <2>1. old \in S!SignUps
    <3>1. CASE Lower[m] \in DOMAIN pg.waitlist
      <4>1. PICK i \in DOMAIN W : Lower[m] = Lower[W[i].email] BY <1>5, <3>1
      <4> QED BY <1>5, <3>1, <4>1 DEF S!At
    <3>2. CASE Lower[m] \notin DOMAIN pg.waitlist BY <1>4, <3>2 DEF S!At
    <3> QED BY <3>1, <3>2
  <2> HIDE DEF old
  <2> QED BY <2>1 DEF S!SignUps
<1> HIDE DEF row, new
<1>7. /\ KeysSame /\ CreditsSame /\ UsageSame /\ EarningsSame /\ DeskSame /\ ThreadsSame
      /\ RunsSame /\ DOMAIN mem' = S!MemTables /\ DOMAIN pg' = S!PgTables
  <2> HIDE DEF same
  <2> QED BY <1>1, <1>2, <1>3 DEF S!MemTables, S!PgTables, KeysSame, CreditsSame, UsageSame,
         EarningsSame, DeskSame, ThreadsSame, RunsSame
<1>8. pg'.waitlist = S!Put(pg.waitlist, Lower[m], new)
  BY <1>1, <1>3 DEF S!PgTables
<1> DEFINE V == mem'.waitlist
           Reads == /\ V \in Seq(S!SignUps)
                    /\ \A i, j \in DOMAIN V : Lower[V[i].email] = Lower[V[j].email] => i = j
                    /\ DOMAIN pg'.waitlist = {Lower[V[i].email] : i \in DOMAIN V}
                    /\ \A i \in DOMAIN V : /\ pg'.waitlist[Lower[V[i].email]] \in S!SignUps
                                          /\ pg'.waitlist[Lower[V[i].email]].interest
                                               = V[i].interest
<1>9. ASSUME same = {} PROVE Reads
  <2>1. V = Append(W, row) BY <1>1, <1>3, <1>9 DEF S!MemTables
  <2>2. /\ V \in Seq(S!SignUps) /\ DOMAIN V = DOMAIN W \cup {Len(W) + 1}
        /\ V[Len(W) + 1] = row /\ Len(W) + 1 \notin DOMAIN W
        /\ \A i \in DOMAIN W : V[i] = W[i]
    BY <1>4, <2>1
  <2>3. \A i \in DOMAIN W : Lower[W[i].email] # Lower[m] BY <1>9
  <2> HIDE DEF V, W, same
  <2>4. \A i, j \in DOMAIN V : Lower[V[i].email] = Lower[V[j].email] => i = j
    BY <1>4, <1>5, <2>2, <2>3
  <2>5. DOMAIN pg'.waitlist = {Lower[V[i].email] : i \in DOMAIN V}
    <3>1. DOMAIN pg'.waitlist = DOMAIN pg.waitlist \cup {Lower[m]} BY <1>8 DEF S!Put
    <3> QED BY <1>4, <1>5, <2>2, <3>1
  <2>6. ASSUME NEW i \in DOMAIN V
        PROVE  /\ pg'.waitlist[Lower[V[i].email]] \in S!SignUps
               /\ pg'.waitlist[Lower[V[i].email]].interest = V[i].interest
    <3>1. CASE i = Len(W) + 1
      <4>1. V[i] = row /\ pg'.waitlist[Lower[m]] = new BY <1>8, <2>2, <3>1 DEF S!Put
      <4> QED BY <1>4, <1>6, <4>1
    <3>2. CASE i \in DOMAIN W
      <4>1. V[i] = W[i] /\ Lower[W[i].email] \in DOMAIN pg.waitlist /\ Lower[W[i].email] # Lower[m]
        BY <1>5, <2>2, <2>3, <3>2
      <4>2. pg'.waitlist[Lower[W[i].email]] = pg.waitlist[Lower[W[i].email]]
        BY <1>8, <4>1 DEF S!Put
      <4> QED BY <1>5, <3>2, <4>1, <4>2
    <3> QED BY <2>2, <3>1, <3>2
  <2> QED BY <2>2, <2>4, <2>5, <2>6
<1>10. ASSUME same # {} PROVE Reads
  <2>1. PICK n \in DOMAIN W : same = {n}
    <3>1. PICK n : n \in same BY <1>10
    <3>2. \A i \in same : i = n BY <1>5, <3>1
    <3> QED BY <3>1, <3>2
  <2>2. S!Min(same) = n
    <3>1. n \in Nat BY <1>4
    <3> HIDE DEF same
    <3> QED BY <2>1, <3>1 DEF S!Min
  <2>3. V = [W EXCEPT ![n] = row] BY <1>1, <1>3, <1>10, <2>2 DEF S!MemTables
  <2>4. Lower[W[n].email] = Lower[m] /\ \A i \in DOMAIN W : Lower[W[i].email] = Lower[m] => i = n
    BY <2>1
  <2>5. /\ V \in Seq(S!SignUps) /\ DOMAIN V = DOMAIN W /\ V[n] = row
        /\ \A i \in DOMAIN W : i # n => V[i] = W[i]
    BY <1>4, <2>3
  <2> HIDE DEF V, W, same
  <2>6. \A i \in DOMAIN V : Lower[V[i].email] = Lower[W[i].email]
    BY <1>4, <2>4, <2>5
  <2>7. \A i, j \in DOMAIN V : Lower[V[i].email] = Lower[V[j].email] => i = j
    BY <1>5, <2>5, <2>6
  <2>8. DOMAIN pg'.waitlist = {Lower[V[i].email] : i \in DOMAIN V}
    <3>1. DOMAIN pg'.waitlist = DOMAIN pg.waitlist \cup {Lower[m]} BY <1>8 DEF S!Put
    <3>2. Lower[m] \in DOMAIN pg.waitlist BY <1>5, <2>1, <2>4
    <3>3. {Lower[V[i].email] : i \in DOMAIN V} = {Lower[W[i].email] : i \in DOMAIN W}
      BY <2>5, <2>6
    <3>4. DOMAIN pg.waitlist = {Lower[W[i].email] : i \in DOMAIN W} BY <1>5
    <3> QED BY <3>1, <3>2, <3>3, <3>4
  <2>9. ASSUME NEW i \in DOMAIN V
        PROVE  /\ pg'.waitlist[Lower[V[i].email]] \in S!SignUps
               /\ pg'.waitlist[Lower[V[i].email]].interest = V[i].interest
    <3>1. CASE i = n
      <4>1. V[i] = row /\ pg'.waitlist[Lower[m]] = new BY <1>8, <2>5, <3>1 DEF S!Put
      <4> QED BY <1>4, <1>6, <4>1
    <3>2. CASE i # n
      <4>1. V[i] = W[i] /\ Lower[W[i].email] \in DOMAIN pg.waitlist /\ Lower[W[i].email] # Lower[m]
        BY <1>5, <2>4, <2>5, <3>2
      <4>2. pg'.waitlist[Lower[W[i].email]] = pg.waitlist[Lower[W[i].email]]
        BY <1>8, <4>1 DEF S!Put
      <4> QED BY <1>5, <2>5, <4>1, <4>2
    <3> QED BY <3>1, <3>2
  <2> QED BY <2>5, <2>7, <2>8, <2>9
<1>11. Reads BY <1>9, <1>10
<1>12. S!WaitlistMatches' BY <1>11 DEF S!WaitlistMatches
<1> QED BY <1>2, <1>7, <1>12, SameRead DEF S!StoreInv

Authors == {"ayni", "tester"}
ReplyRows == [to : Nat, author : Authors]
Notes == [id : Nat, user : Users \cup {None}, email : Mails \cup {None}]
Threaded == [id : Nat, user : Users \cup {None}, email : Mails \cup {None}, replies : Seq(Authors)]

\* What a note reads as, with the replies to it.
Thread(rows, i, n) ==
  [id |-> i, user |-> n.user, email |-> n.email, replies |-> S!RepliesTo(rows, i)]

\* A new note opens a thread without replies in both.
LEMMA NoteStep ==
  ASSUME S!StoreAssumption, S!StoreInv, NEW u \in Users \cup {None},
         NEW m \in Mails \cup {None},
         S!AddFeedback(u, m)
  PROVE  S!StoreInv'
<1> DEFINE F == mem.feedback
           G == pg.feedback
           n == Len(G)
           R == pg.replies
           note == [id |-> n + 1, user |-> u, email |-> m]
           opened == [id |-> n + 1, user |-> u, email |-> m, replies |-> <<>>]
<1>1. S!ThreadsMatch /\ DOMAIN mem = S!MemTables /\ DOMAIN pg = S!PgTables /\ calls \in Nat
  BY DEF S!StoreInv
<1>2. calls' \in Nat /\ held' = held
  BY <1>1 DEF S!AddFeedback, S!Call
<1>3. /\ R \in Seq(ReplyRows) /\ \A i \in DOMAIN R : R[i].to \in DOMAIN G
      /\ G \in Seq(Notes) /\ F \in Seq(Threaded) /\ Len(F) = n /\ n \in Nat
      /\ \A i \in DOMAIN G : G[i].id = i /\ F[i] = Thread(R, i, G[i])
  BY <1>1 DEF S!ThreadsMatch, Authors, ReplyRows, Notes, Threaded, Thread
<1>4. mem' = [mem EXCEPT !.feedback = Append(@, opened)]
      /\ pg' = [pg EXCEPT !.feedback = Append(@, note)]
  BY <1>3 DEF S!AddFeedback, S!MemAddFeedback, S!PgAddFeedback
<1>5. note \in Notes /\ opened \in Threaded
  <2>1. n + 1 \in Nat /\ <<>> \in Seq(Authors) BY <1>3
  <2> QED BY <2>1 DEF Notes, Threaded
<1>6. S!RepliesTo(R, n + 1) = <<>>
  <2>1. ByAuthors(ReplyRows, Authors) BY DEF ByAuthors, ReplyRows
  <2>2. Unanswered(R, n + 1) BY <1>3 DEF Unanswered
  <2> HIDE DEF R, n
  <2> QED BY <1>3, <2>1, <2>2, NoReplies
<1>7. opened = Thread(R, n + 1, note) BY <1>6 DEF Thread
<1> HIDE DEF note, opened
<1>8. /\ KeysSame /\ CreditsSame /\ UsageSame /\ EarningsSame /\ DeskSame /\ WaitlistSame
      /\ RunsSame /\ DOMAIN mem' = S!MemTables /\ DOMAIN pg' = S!PgTables
  BY <1>1, <1>2, <1>4 DEF S!MemTables, S!PgTables, KeysSame, CreditsSame, UsageSame,
     EarningsSame, DeskSame, WaitlistSame, RunsSame
<1>9. mem'.feedback = Append(F, opened) /\ pg'.feedback = Append(G, note) /\ pg'.replies = R
  BY <1>1, <1>4 DEF S!MemTables, S!PgTables
<1>10. /\ mem'.feedback \in Seq(Threaded) /\ pg'.feedback \in Seq(Notes)
       /\ Len(mem'.feedback) = n + 1 /\ Len(pg'.feedback) = n + 1
       /\ DOMAIN pg'.feedback = DOMAIN G \cup {n + 1}
       /\ mem'.feedback[n + 1] = opened /\ pg'.feedback[n + 1] = note
       /\ \A i \in DOMAIN G : mem'.feedback[i] = F[i] /\ pg'.feedback[i] = G[i]
  <2> HIDE DEF F, G, R
  <2>1. /\ F \in Seq(Threaded) /\ G \in Seq(Notes) /\ Len(F) = Len(G)
        /\ DOMAIN F = DOMAIN G /\ Len(G) = n
    BY <1>3
  <2>2. /\ Append(F, opened) \in Seq(Threaded) /\ Len(Append(F, opened)) = n + 1
        /\ Append(F, opened)[n + 1] = opened
        /\ \A i \in DOMAIN F : Append(F, opened)[i] = F[i]
    BY <1>5, <2>1
  <2>3. /\ Append(G, note) \in Seq(Notes) /\ Len(Append(G, note)) = n + 1
        /\ DOMAIN Append(G, note) = DOMAIN G \cup {n + 1}
        /\ Append(G, note)[n + 1] = note
        /\ \A i \in DOMAIN G : Append(G, note)[i] = G[i]
    BY <1>5, <2>1
  <2> QED BY <1>9, <2>1, <2>2, <2>3
<1>11. note.id = n + 1 BY DEF note
<1> HIDE DEF F, G, R, n
<1>12. \A i \in DOMAIN pg'.feedback :
         pg'.feedback[i].id = i /\ mem'.feedback[i] = Thread(pg'.replies, i, pg'.feedback[i])
  BY <1>3, <1>7, <1>9, <1>10, <1>11
<1>13. S!ThreadsMatch'
  BY <1>3, <1>9, <1>10, <1>12 DEF S!ThreadsMatch, Authors, ReplyRows, Notes, Threaded, Thread
<1> QED BY <1>2, <1>8, <1>13, SameRead DEF S!StoreInv

\* A reply to a listed entry ends its thread in both; one to another id is refused by both.
LEMMA ReplyAlike ==
  ASSUME S!StoreInv, NEW id \in 1 .. 3, NEW who \in Authors,
         mem' = S!MemAddReply(mem, id, who), pg' = S!PgAddReply(pg, id, who)
  PROVE  /\ S!ThreadsMatch' /\ DOMAIN mem' = S!MemTables /\ DOMAIN pg' = S!PgTables
         /\ KeysSame /\ CreditsSame /\ UsageSame /\ EarningsSame /\ DeskSame /\ WaitlistSame
         /\ mem'.runs = mem.runs /\ pg'.runs = pg.runs
<1> DEFINE F == mem.feedback
           G == pg.feedback
           R == pg.replies
           row == [to |-> id, author |-> who]
<1>1. S!ThreadsMatch /\ DOMAIN mem = S!MemTables /\ DOMAIN pg = S!PgTables
  BY DEF S!StoreInv
<1>2. /\ R \in Seq(ReplyRows) /\ \A i \in DOMAIN R : R[i].to \in DOMAIN G
      /\ G \in Seq(Notes) /\ F \in Seq(Threaded) /\ Len(F) = Len(G) /\ DOMAIN F = DOMAIN G
      /\ \A i \in DOMAIN G : G[i].id = i /\ F[i] = Thread(R, i, G[i])
  BY <1>1 DEF S!ThreadsMatch, Authors, ReplyRows, Notes, Threaded, Thread
<1>3. id \in DOMAIN F <=> \E e \in S!ToSet(G) : e.id = id
  BY <1>2 DEF S!ToSet
<1>4. CASE id \notin DOMAIN F
  <2>1. mem' = mem /\ pg' = pg
    BY <1>3, <1>4 DEF S!MemAddReply, S!PgAddReply
  <2>2. ThreadsSame BY <2>1 DEF ThreadsSame
  <2> QED BY <1>1, <2>1, <2>2, SameRead DEF KeysSame, CreditsSame, UsageSame, EarningsSame,
       DeskSame, WaitlistSame
<1>5. CASE id \in DOMAIN F
  <2>1. mem' = [mem EXCEPT !.feedback[id].replies = Append(@, who)]
        /\ pg' = [pg EXCEPT !.replies = Append(@, row)]
    BY <1>3, <1>5 DEF S!MemAddReply, S!PgAddReply
  <2>2. /\ KeysSame /\ CreditsSame /\ UsageSame /\ EarningsSame /\ DeskSame /\ WaitlistSame
        /\ mem'.runs = mem.runs /\ pg'.runs = pg.runs
        /\ DOMAIN mem' = S!MemTables /\ DOMAIN pg' = S!PgTables
    BY <1>1, <2>1 DEF S!MemTables, S!PgTables, KeysSame, CreditsSame, UsageSame,
       EarningsSame, DeskSame, WaitlistSame
  <2>3. /\ mem'.feedback = [F EXCEPT ![id].replies = Append(@, who)]
        /\ pg'.feedback = G /\ pg'.replies = Append(R, row)
    BY <1>1, <2>1 DEF S!MemTables, S!PgTables
  <2>4. F[id] = Thread(R, id, G[id]) /\ F[id] \in Threaded /\ G[id] \in Notes
    BY <1>2, <1>5
  <2>5. row \in ReplyRows /\ row.to = id /\ row.author = who
    BY DEF ReplyRows
  <2>6. ByAuthors(ReplyRows, Authors) BY DEF ByAuthors, ReplyRows
  <2> HIDE DEF row
  <2>7. ASSUME NEW i \in DOMAIN G
        PROVE  S!RepliesTo(Append(R, row), i)
                 = IF i = id THEN Append(S!RepliesTo(R, i), who) ELSE S!RepliesTo(R, i)
    <3> HIDE DEF R
    <3>1. S!RepliesTo(Append(R, row), i)
            = IF row.to = i THEN Append(S!RepliesTo(R, i), row.author) ELSE S!RepliesTo(R, i)
      BY <1>2, <2>5, <2>6, RepliesAppend
    <3> QED BY <2>5, <3>1
  <2>8. [F[id] EXCEPT !.replies = Append(@, who)] = Thread(Append(R, row), id, G[id])
    <3>1. F[id] = [id |-> id, user |-> G[id].user, email |-> G[id].email,
                   replies |-> S!RepliesTo(R, id)]
      BY <2>4 DEF Thread
    <3>2. S!RepliesTo(Append(R, row), id) = Append(S!RepliesTo(R, id), who)
      BY <1>2, <1>5, <2>7
    <3> HIDE DEF F, G, R
    <3>3. [F[id] EXCEPT !.replies = Append(@, who)]
            = [id |-> id, user |-> G[id].user, email |-> G[id].email,
               replies |-> Append(S!RepliesTo(R, id), who)]
      BY <3>1
    <3> QED BY <3>2, <3>3 DEF Thread
  <2>9. [F[id] EXCEPT !.replies = Append(@, who)] \in Threaded
    <3>1. F[id].replies \in Seq(Authors) BY <2>4 DEF Threaded
    <3>2. Append(F[id].replies, who) \in Seq(Authors) BY <3>1
    <3> QED BY <2>4, <3>2 DEF Threaded
  <2>10. /\ mem'.feedback \in Seq(Threaded) /\ Len(mem'.feedback) = Len(F)
         /\ mem'.feedback[id] = [F[id] EXCEPT !.replies = Append(@, who)]
         /\ \A i \in DOMAIN G : i # id => mem'.feedback[i] = F[i]
    <3> DEFINE e == [F[id] EXCEPT !.replies = Append(@, who)]
    <3>1. mem'.feedback = [F EXCEPT ![id] = e] BY <2>3
    <3>2. e \in Threaded BY <2>9
    <3> HIDE DEF e
    <3>3. /\ mem'.feedback \in Seq(Threaded) /\ Len(mem'.feedback) = Len(F)
          /\ mem'.feedback[id] = e
          /\ \A i \in DOMAIN G : i # id => mem'.feedback[i] = F[i]
      BY <1>2, <1>5, <3>1, <3>2
    <3> QED BY <3>3 DEF e
  <2>11. pg'.replies \in Seq(ReplyRows)
       /\ \A i \in DOMAIN pg'.replies : pg'.replies[i].to \in DOMAIN G
    BY <1>2, <1>5, <2>3, <2>5
  <2>12. \A i \in DOMAIN G : mem'.feedback[i] = Thread(pg'.replies, i, G[i])
    <3> SUFFICES ASSUME NEW i \in DOMAIN G PROVE mem'.feedback[i] = Thread(pg'.replies, i, G[i])
      OBVIOUS
    <3>1. CASE i = id BY <2>3, <2>8, <2>10, <3>1
    <3>2. CASE i # id
      <4>1. S!RepliesTo(pg'.replies, i) = S!RepliesTo(R, i) BY <2>3, <2>7, <3>2
      <4>2. mem'.feedback[i] = Thread(R, i, G[i]) BY <1>2, <2>10, <3>2
      <4> QED BY <4>1, <4>2 DEF Thread
    <3> QED BY <3>1, <3>2
  <2> HIDE DEF F, G, R
  <2>13. S!ThreadsMatch'
    BY <1>2, <2>3, <2>10, <2>11, <2>12 DEF S!ThreadsMatch, Authors, ReplyRows, Notes,
         Threaded, Thread
  <2> QED BY <2>2, <2>13
<1> QED BY <1>4, <1>5

\* Whose entry it is reads the same in both.
LEMMA TheirsAlike ==
  ASSUME S!ThreadsMatch, NEW u \in Users \cup {None}, NEW m \in Mails \cup {None}
  PROVE  S!MemFeedbackForUser(u, m) = S!PgFeedbackForUser(u, m)
<1> DEFINE F == mem.feedback
           G == pg.feedback
           R == pg.replies
<1>1. /\ G \in Seq(Notes) /\ F \in Seq(Threaded) /\ DOMAIN F = DOMAIN G
      /\ \A i \in DOMAIN G : G[i].id = i /\ F[i] = Thread(R, i, G[i])
  BY DEF S!ThreadsMatch, Authors, Notes, Threaded, Thread
<1>2. ASSUME NEW i \in DOMAIN G
      PROVE  /\ S!Theirs(F[i], u, m) <=> S!Theirs(G[i], u, m)
             /\ F[i] = [id |-> G[i].id, user |-> G[i].user, email |-> G[i].email,
                        replies |-> S!RepliesTo(R, G[i].id)]
  <2> HIDE DEF F, G, R
  <2>1. F[i] = [id |-> i, user |-> G[i].user, email |-> G[i].email,
                replies |-> S!RepliesTo(R, i)]
    BY <1>1 DEF Thread
  <2>2. F[i].user = G[i].user /\ F[i].email = G[i].email BY <2>1
  <2> QED BY <1>1, <2>1, <2>2 DEF S!Theirs
<1>3. S!ToSet(F) = {F[i] : i \in DOMAIN G} /\ S!ToSet(G) = {G[i] : i \in DOMAIN G}
  BY <1>1 DEF S!ToSet
<1>4. S!MemFeedbackForUser(u, m) = {F[i] : i \in {j \in DOMAIN G : S!Theirs(G[j], u, m)}}
  BY <1>2, <1>3 DEF S!MemFeedbackForUser
<1>5. S!PgFeedbackForUser(u, m)
        = {[id |-> G[i].id, user |-> G[i].user, email |-> G[i].email,
            replies |-> S!RepliesTo(R, G[i].id)] : i \in {j \in DOMAIN G : S!Theirs(G[j], u, m)}}
  BY <1>3 DEF S!PgFeedbackForUser
<1> HIDE DEF F, G, R
<1> QED BY <1>2, <1>4, <1>5

LEMMA ThreadsStep ==
  ASSUME S!StoreAssumption, S!StoreInv, NEW id \in 1 .. 3,
         \/ S!AdminReply(id)
         \/ \E u \in Users, m \in Mails : S!TesterReply(u, m, id)
  PROVE  S!StoreInv'
<1>1. S!ThreadsMatch /\ DOMAIN mem = S!MemTables /\ DOMAIN pg = S!PgTables /\ calls \in Nat
      /\ S!RunsMatch /\ S!KeysMatch /\ S!CreditsMatch /\ S!UsageMatches /\ S!EarningsMatch
      /\ S!DeskMatches /\ S!WaitlistMatches
  BY DEF S!StoreInv
<1>2. calls' \in Nat /\ held' = held
  BY <1>1 DEF S!AdminReply, S!TesterReply, S!Call
<1>3. \/ mem' = mem /\ pg' = pg
      \/ \E who \in Authors : mem' = S!MemAddReply(mem, id, who)
           /\ pg' = S!PgAddReply(pg, id, who)
  <2>1. CASE S!AdminReply(id) BY <2>1 DEF S!AdminReply, Authors
  <2>2. ASSUME NEW u \in Users, NEW m \in Mails, S!TesterReply(u, m, id)
        PROVE  \/ mem' = mem /\ pg' = pg
               \/ \E who \in Authors :
                    mem' = S!MemAddReply(mem, id, who) /\ pg' = S!PgAddReply(pg, id, who)
    <3>1. S!MemFeedbackForUser(u, m) = S!PgFeedbackForUser(u, m) BY <1>1, TheirsAlike
    <3> QED BY <2>2, <3>1 DEF S!TesterReply, Authors
  <2> QED BY <2>1, <2>2
<1>4. CASE mem' = mem /\ pg' = pg
  <2>1. KeysSame /\ CreditsSame /\ UsageSame /\ EarningsSame /\ DeskSame /\ WaitlistSame
        /\ ThreadsSame /\ RunsSame
    BY <1>2, <1>4 DEF KeysSame, CreditsSame, UsageSame, EarningsSame, DeskSame, WaitlistSame,
         ThreadsSame, RunsSame
  <2> QED BY <1>1, <1>2, <1>4, <2>1, SameRead DEF S!StoreInv
<1>5. ASSUME NEW who \in Authors, mem' = S!MemAddReply(mem, id, who),
             pg' = S!PgAddReply(pg, id, who)
      PROVE  S!StoreInv'
  <2>1. /\ S!ThreadsMatch' /\ DOMAIN mem' = S!MemTables /\ DOMAIN pg' = S!PgTables
        /\ KeysSame /\ CreditsSame /\ UsageSame /\ EarningsSame /\ DeskSame /\ WaitlistSame
        /\ mem'.runs = mem.runs /\ pg'.runs = pg.runs
    BY <1>5, ReplyAlike
  <2>2. RunsSame BY <1>2, <2>1 DEF RunsSame
  <2> QED BY <1>1, <1>2, <2>1, <2>2, SameRead DEF S!StoreInv
<1> QED BY <1>3, <1>4, <1>5

RunRow(x) == [id : {x}, key : EnvKeys, created : Nat, charged : {0, 1},
              status : {"queued", "running", "succeeded", "failed"},
              hook : {"none", "pending", "delivered", "failed"}]

\* A save of a run writes the same row in both: what an update leaves out does not change
\* in the coordinator's copy.
LEMMA SaveAlike ==
  ASSUME S!StoreInv, NEW x, NEW r \in RunRow(x), S!Save(r),
         x \in DOMAIN held => r.key = held[x].key /\ r.created = held[x].created
  PROVE  /\ S!RunsMatch' /\ DOMAIN mem' = S!MemTables /\ DOMAIN pg' = S!PgTables
         /\ KeysSame /\ CreditsSame /\ UsageSame /\ EarningsSame /\ DeskSame /\ WaitlistSame
         /\ ThreadsSame
<1>1. S!RunsMatch /\ DOMAIN mem = S!MemTables /\ DOMAIN pg = S!PgTables
  BY DEF S!StoreInv
<1>2. r.id = x BY DEF RunRow
<1>3. /\ held = mem.runs /\ mem.runs = pg.runs
      /\ \A y \in DOMAIN held : held[y] \in RunRow(y)
  BY <1>1 DEF S!RunsMatch, RunRow
<1>4. /\ held' = S!Put(held, x, r)
      /\ mem' = [mem EXCEPT !.runs = S!Put(@, x, r)]
  BY <1>2 DEF S!Save, S!MemUpsertRun
<1>5. pg' = [pg EXCEPT !.runs = S!Put(@, x, r)]
  <2>1. CASE x \notin DOMAIN pg.runs
    BY <1>2, <2>1 DEF S!Save, S!PgUpsertRun
  <2>2. CASE x \in DOMAIN pg.runs
    <3>1. pg' = [pg EXCEPT !.runs[x] =
                  [@ EXCEPT !.status = r.status, !.charged = r.charged, !.hook = r.hook]]
      BY <1>2, <2>2, Zenon DEF S!Save, S!PgUpsertRun
    <3>2. pg.runs[x] \in RunRow(x) /\ r.key = pg.runs[x].key /\ r.created = pg.runs[x].created
      BY <1>3, <2>2
    <3>3. [pg.runs[x] EXCEPT !.status = r.status, !.charged = r.charged, !.hook = r.hook] = r
      BY <3>2 DEF RunRow
    <3>4. pg' = [pg EXCEPT !.runs = [@ EXCEPT ![x] = r]] BY <3>1, <3>3
    <3>5. [pg.runs EXCEPT ![x] = r] = S!Put(pg.runs, x, r) BY <2>2 DEF S!Put
    <3> QED BY <3>4, <3>5
  <2> QED BY <2>1, <2>2
<1>6. /\ mem'.runs = S!Put(mem.runs, x, r) /\ pg'.runs = S!Put(pg.runs, x, r)
      /\ DOMAIN mem' = S!MemTables /\ DOMAIN pg' = S!PgTables
  BY <1>1, <1>4, <1>5 DEF S!MemTables, S!PgTables
<1>7. KeysSame /\ CreditsSame /\ UsageSame /\ EarningsSame /\ DeskSame /\ WaitlistSame
      /\ ThreadsSame
  BY <1>1, <1>4, <1>5 DEF S!MemTables, S!PgTables, KeysSame, CreditsSame, UsageSame,
     EarningsSame, DeskSame, WaitlistSame, ThreadsSame
<1>8. \A y \in DOMAIN held' : held'[y] \in RunRow(y)
  BY <1>3, <1>4 DEF S!Put
<1>9. S!RunsMatch' BY <1>3, <1>4, <1>6, <1>8 DEF S!RunsMatch, RunRow
<1> QED BY <1>6, <1>7, <1>9

LEMMA RunsStep ==
  ASSUME S!StoreAssumption, S!StoreInv, NEW x \in RunIds,
         \/ \E k \in EnvKeys, hook \in {"none", "pending"} : S!StartRun(x, k, hook)
         \/ \E st \in {"running", "succeeded", "failed"}, n \in {0, 1} : S!SaveRun(x, st, n)
  PROVE  S!StoreInv'
<1>1. S!RunsMatch /\ calls \in Nat BY DEF S!StoreInv
<1>2. calls' \in Nat
  <2>1. S!Call("runs")
    <3>1. ASSUME NEW k, NEW hook, S!StartRun(x, k, hook) PROVE S!Call("runs")
      BY <3>1 DEF S!StartRun
    <3>2. ASSUME NEW st, NEW n, S!SaveRun(x, st, n) PROVE S!Call("runs")
      BY <3>2 DEF S!SaveRun
    <3> QED BY <3>1, <3>2
  <2> QED BY <1>1, <2>1 DEF S!Call
<1>3. \E r \in RunRow(x) :
        S!Save(r) /\ (x \in DOMAIN held => r.key = held[x].key /\ r.created = held[x].created)
  <2>1. ASSUME NEW k \in EnvKeys, NEW hook \in {"none", "pending"}, S!StartRun(x, k, hook)
        PROVE  \E r \in RunRow(x) :
                 S!Save(r) /\ (x \in DOMAIN held => r.key = held[x].key
                                                   /\ r.created = held[x].created)
    <3> DEFINE r == [id |-> x, key |-> k, created |-> calls, status |-> "queued",
                     charged |-> 0, hook |-> hook]
    <3>1. r \in RunRow(x) BY <1>1 DEF RunRow
    <3>2. S!Save(r) /\ x \notin DOMAIN held BY <2>1 DEF S!StartRun
    <3> HIDE DEF r
    <3> QED BY <3>1, <3>2
  <2>2. ASSUME NEW st \in {"running", "succeeded", "failed"}, NEW n \in {0, 1},
               S!SaveRun(x, st, n)
        PROVE  \E r \in RunRow(x) :
                 S!Save(r) /\ (x \in DOMAIN held => r.key = held[x].key
                                                   /\ r.created = held[x].created)
    <3>1. x \in DOMAIN held /\ held[x] \in RunRow(x)
      BY <1>1, <2>2 DEF S!SaveRun, S!RunsMatch, RunRow
    <3>2. PICK hook \in IF held[x].hook = "none" \/ st = "running" THEN {held[x].hook}
                        ELSE {"delivered", "failed"} :
             S!Save([held[x] EXCEPT !.status = st, !.charged = n, !.hook = hook])
      BY <2>2, Zenon DEF S!SaveRun
    <3> DEFINE r == [held[x] EXCEPT !.status = st, !.charged = n, !.hook = hook]
    <3>3. hook \in {"none", "pending", "delivered", "failed"} BY <3>1, <3>2 DEF RunRow
    <3>4. r \in RunRow(x) /\ r.key = held[x].key /\ r.created = held[x].created
      BY <3>1, <3>3 DEF RunRow
    <3>5. S!Save(r) BY <3>2
    <3> HIDE DEF r
    <3> QED BY <3>1, <3>4, <3>5
  <2> QED BY <2>1, <2>2
<1>4. PICK r \in RunRow(x) :
        S!Save(r) /\ (x \in DOMAIN held => r.key = held[x].key /\ r.created = held[x].created)
  BY <1>3
<1>5. /\ S!RunsMatch' /\ DOMAIN mem' = S!MemTables /\ DOMAIN pg' = S!PgTables
      /\ KeysSame /\ CreditsSame /\ UsageSame /\ EarningsSame /\ DeskSame /\ WaitlistSame
      /\ ThreadsSame
  BY <1>4, SaveAlike
<1> QED BY <1>2, <1>5, SameRead DEF S!StoreInv

\* Every call, on either implementation.
LEMMA NextStore ==
  ASSUME S!StoreAssumption, S!StoreInv, [S!Next]_S!vars
  PROVE  S!StoreInv'
<1>1. CASE S!KeyCalls BY <1>1, KeyStep DEF S!KeyCalls
<1>2. CASE S!BookCalls
  BY <1>2, CreditStep, UsageStep, EarningStep, SettleStep DEF S!BookCalls
<1>3. CASE S!DeskCalls
  <2>1. ASSUME NEW d \in Sellers, NEW x \in Stripes, NEW st \in {"pending", "enabled"},
               S!UpsertPayoutAccount(d, [stripe |-> x, status |-> st])
        PROVE  S!StoreInv'
    <3>1. [stripe |-> x, status |-> st] \in [stripe : Stripes, status : {"pending", "enabled"}]
      OBVIOUS
    <3> QED BY <2>1, <3>1, DeskStep
  <2>2. ASSUME NEW d \in Sellers, NEW tps \in {1, 2}, S!UpsertNodeCapability(d, tps)
        PROVE  S!StoreInv'
    BY <2>2, DeskStep
  <2>3. ASSUME NEW m \in Mails, S!AddProposal(m) PROVE S!StoreInv'
    BY <2>3, DeskStep
  <2>4. ASSUME NEW m \in Mails, NEW i \in {"share", "rent"}, S!AddWaitlist(m, i)
        PROVE  S!StoreInv'
    BY <2>4, WaitlistStep
  <2>5. ASSUME NEW u \in Users \cup {None}, NEW m \in Mails \cup {None}, S!AddFeedback(u, m)
        PROVE  S!StoreInv'
    BY <2>5, NoteStep
  <2>6. ASSUME NEW id \in 1 .. 3, S!AdminReply(id) PROVE S!StoreInv'
    BY <2>6, ThreadsStep
  <2>7. ASSUME NEW u \in Users, NEW m \in Mails, NEW id \in 1 .. 3, S!TesterReply(u, m, id)
        PROVE  S!StoreInv'
    BY <2>7, ThreadsStep
  <2> QED BY <1>3, <2>1, <2>2, <2>3, <2>4, <2>5, <2>6, <2>7 DEF S!DeskCalls
<1>4. CASE S!RunCalls BY <1>4, RunsStep DEF S!RunCalls
<1>5. CASE UNCHANGED S!vars
  <2>1. /\ KeysSame /\ CreditsSame /\ UsageSame /\ EarningsSame /\ DeskSame /\ WaitlistSame
        /\ ThreadsSame /\ RunsSame /\ mem' = mem /\ pg' = pg /\ calls' = calls
    BY <1>5 DEF S!vars, KeysSame, CreditsSame, UsageSame, EarningsSame, DeskSame,
                WaitlistSame, ThreadsSame, RunsSame
  <2> QED BY <2>1, SameRead DEF S!StoreInv
<1> QED BY <1>1, <1>2, <1>3, <1>4, <1>5 DEF S!Next

\* What the two hold is related for every behaviour of the stores.
LEMMA StoreIsAlike == ASSUME S!StoreAssumption PROVE S!Spec => []S!StoreInv
<1>1. S!Init => S!StoreInv BY InitStore
<1>2. S!StoreInv /\ [S!Next]_S!vars => S!StoreInv' BY NextStore
<1> QED BY <1>1, <1>2, PTL DEF S!Spec

--------------------------------------------------------------------------------
(***************************************************************************)
(* The stores: what holds the same reads the same.                         *)
(***************************************************************************)

\* Of a behaviour of the books, the stores see their own calls.
LEMMA StoreFollowed == BooksSpec => S!Spec
<1>1. BooksInit => S!Init BY DEF BooksInit
<1>2. [PayoutsMove \/ StoreMoves]_<<part, vars, stored>> => [S!Next]_S!vars
  BY DEF PayoutsMove, StoreMoves, stored, S!vars
<1> QED BY <1>1, <1>2, PTL DEF BooksSpec, S!Spec

\* Whatever is retried, paid out or recorded twice, a balance, the usage of a key and the
\* earnings of a provider read the same from either store, and a balance is the sum of
\* its entries (CreditBalance, UsageSince, EarningsSince).
THEOREM BooksReadAlike == BooksSpec => []BooksAgree
<1>1. S!StoreInv => S!BooksAgree
  BY DEF S!StoreInv, S!BooksAgree, S!CreditsMatch, S!UsageMatches, S!EarningsMatch
<1> QED BY <1>1, StoreFollowed, StoreIsAlike, StoreAssumed, PTL DEF BooksAgree

\* Who a key is.
LEMMA KeysReadAlike ==
  ASSUME S!KeysMatch
  PROVE  S!MemListKeys = S!PgListKeys /\ \A r \in Raws : S!MemValidate(r) = S!PgValidate(r)
<1>1. \A a, b \in Raws : (S!KeyID(a) = S!KeyID(b) => a = b) /\ (S!Sha(a) = S!Sha(b) => a = b)
  BY DEF S!KeyID, S!Sha
<1>2. ASSUME NEW id \in DOMAIN pg.keys
      PROVE  \E r \in Raws \ EnvKeys, off \in BOOLEAN :
               /\ id = S!KeyID(r) /\ mem.keyInfo[id] = [disabled |-> off]
               /\ pg.keys[id] = [sha |-> S!Sha(r), disabled |-> off]
  BY DEF S!KeysMatch
<1>3. S!MemListKeys = S!PgListKeys
  <2>1. ASSUME NEW id \in DOMAIN pg.keys
        PROVE  mem.keyInfo[id].disabled = pg.keys[id].disabled
    <3>1. PICK r \in Raws \ EnvKeys, off \in BOOLEAN :
             /\ mem.keyInfo[id] = [disabled |-> off]
             /\ pg.keys[id] = [sha |-> S!Sha(r), disabled |-> off]
      BY <1>2
    <3>2. mem.keyInfo[id].disabled = off /\ pg.keys[id].disabled = off BY <3>1
    <3> QED BY <3>2
  <2>2. DOMAIN mem.keyInfo = DOMAIN pg.keys BY DEF S!KeysMatch
  <2> QED BY <2>1, <2>2 DEF S!MemListKeys, S!PgListKeys
<1>4. ASSUME NEW r \in Raws, NEW id \in DOMAIN pg.keys, pg.keys[id].sha = S!Sha(r)
       PROVE  id = S!KeyID(r)
  <2>1. PICK o \in Raws \ EnvKeys, off \in BOOLEAN :
           id = S!KeyID(o) /\ pg.keys[id] = [sha |-> S!Sha(o), disabled |-> off]
    BY <1>2
  <2>2. S!Sha(o) = S!Sha(r) BY <1>4, <2>1
  <2> QED BY <1>1, <2>1, <2>2
<1>5. ASSUME NEW r \in Raws PROVE S!MemValidate(r) = S!PgValidate(r)
  <2> DEFINE ids == {id \in DOMAIN pg.keys : pg.keys[id].sha = S!Sha(r) /\ ~pg.keys[id].disabled}
  <2>1. CASE r \in EnvKeys
    <3>1. S!At(mem.keys, r, None) = S!KeyID(r) BY <2>1 DEF S!KeysMatch
    <3>2. S!KeyID(r) \notin DOMAIN mem.keyInfo BY <1>1, <2>1 DEF S!KeysMatch
    <3> QED BY <2>1, <3>1, <3>2 DEF S!MemValidate, S!PgValidate
  <2>2. CASE r \notin EnvKeys /\ S!KeyID(r) \notin DOMAIN pg.keys
    <3>1. S!At(mem.keys, r, None) = None BY <2>2 DEF S!KeysMatch
    <3>2. ids = {} BY <1>4, <2>2
    <3> QED BY <2>2, <3>1, <3>2 DEF S!MemValidate, S!PgValidate
  <2>3. CASE r \notin EnvKeys /\ S!KeyID(r) \in DOMAIN pg.keys
    <3>1. S!At(mem.keys, r, None) = S!KeyID(r) /\ S!KeyID(r) \in DOMAIN mem.keyInfo
      BY <2>3 DEF S!KeysMatch
    <3>2. PICK off \in BOOLEAN : /\ mem.keyInfo[S!KeyID(r)] = [disabled |-> off]
                                /\ pg.keys[S!KeyID(r)] = [sha |-> S!Sha(r), disabled |-> off]
      BY <2>3 DEF S!KeysMatch
    <3>3. ids = IF off THEN {} ELSE {S!KeyID(r)}
      <4>1. /\ pg.keys[S!KeyID(r)].sha = S!Sha(r) /\ pg.keys[S!KeyID(r)].disabled = off
        BY <3>2
      <4>2. CASE off BY <1>4, <2>3, <4>1, <4>2
      <4>3. CASE ~off BY <1>4, <2>3, <4>1, <4>3
      <4> QED BY <4>2, <4>3
    <3>4. S!PgValidate(r) = IF off THEN None ELSE S!KeyID(r)
      <4> HIDE DEF ids
      <4>1. S!PgValidate(r) = IF ids # {} THEN CHOOSE id \in ids : TRUE ELSE None
        BY <2>3 DEF S!PgValidate, ids
      <4> QED BY <3>3, <4>1
    <3>5. S!MemValidate(r) = IF off THEN None ELSE S!KeyID(r)
      BY <3>1, <3>2 DEF S!MemValidate
    <3> QED BY <3>4, <3>5
  <2> QED BY <2>1, <2>2, <2>3
<1> QED BY <1>3, <1>5

\* The newest runs of a key, the desk's records and the waitlist.
LEMMA RunsReadAlike ==
  ASSUME S!RunsMatch, NEW k, NEW n
  PROVE  S!MemListRuns(k, n) = S!PgListRuns(k, n)
<1> DEFINE mine == {r \in {mem.runs[x] : x \in DOMAIN mem.runs} : r.key = k}
           theirs == {pg.runs[x] : x \in {y \in DOMAIN pg.runs : pg.runs[y].key = k}}
<1>1. mine = theirs BY DEF S!RunsMatch
<1> HIDE DEF mine, theirs
<1>2. /\ S!MemListRuns(k, n)
           = S!Newest(mine, IF n <= 0 \/ n > ListMax THEN ListDefault ELSE n)
      /\ S!PgListRuns(k, n)
           = S!Newest(theirs, IF n <= 0 \/ n > ListMax THEN ListDefault ELSE n)
  BY DEF S!MemListRuns, S!PgListRuns, mine, theirs
<1> QED BY <1>1, <1>2

LEMMA DeskReadAlike ==
  ASSUME S!DeskMatches
  PROVE  /\ \A d \in Sellers : S!MemAccount(d) = S!PgAccount(d)
         /\ \A x \in Stripes : S!MemByStripe(x) = S!PgByStripe(x)
         /\ S!MemCapabilities = S!PgCapabilities
         /\ S!MemProposals = S!Reverse(S!PgProposals)
<1>1. \A d \in Sellers : S!MemAccount(d) = S!PgAccount(d)
  BY DEF S!DeskMatches, S!MemAccount, S!PgAccount
<1>2. \A x \in Stripes : S!MemByStripe(x) = S!PgByStripe(x)
  BY DEF S!DeskMatches, S!MemByStripe, S!PgByStripe
<1>3. S!MemCapabilities = S!PgCapabilities
  BY DEF S!DeskMatches, S!MemCapabilities, S!PgCapabilities
<1>4. ASSUME NEW s \in Seq(Mails) PROVE s = S!Reverse(S!Reverse(s))
  <2> DEFINE t == S!Reverse(s)
             n == Len(s)
  <2>1. n \in Nat /\ DOMAIN s = 1 .. n OBVIOUS
  <2>2. t = [i \in 1 .. n |-> s[(n - i) + 1]] BY DEF S!Reverse
  <2>3. \A i \in 1 .. n : (n - i) + 1 \in 1 .. n /\ (n - ((n - i) + 1)) + 1 = i BY <2>1
  <2> HIDE DEF n, t
  <2>4. t \in Seq(Mails) /\ Len(t) = n
    <3>1. s \in [1 .. n -> Mails] BY <2>1
    <3>2. t \in [1 .. n -> Mails] BY <2>2, <2>3, <3>1
    <3> QED BY <2>1, <3>2
  <2>5. S!Reverse(t) = [i \in 1 .. n |-> t[(n - i) + 1]] BY <2>4 DEF S!Reverse
  <2>6. \A i \in 1 .. n : t[(n - i) + 1] = s[i] BY <2>2, <2>3
  <2>7. S!Reverse(t) = [i \in 1 .. n |-> s[i]] BY <2>5, <2>6
  <2>8. s = [i \in 1 .. n |-> s[i]] BY <2>1
  <2> QED BY <2>7, <2>8 DEF t
<1>5. S!MemProposals = S!Reverse(S!PgProposals)
  BY <1>4 DEF S!DeskMatches, S!MemProposals, S!PgProposals
<1> QED BY <1>1, <1>2, <1>3, <1>5

LEMMA WaitlistReadsAlike == ASSUME S!WaitlistMatches PROVE S!MemWaitlist = S!PgWaitlist
<1> DEFINE W == mem.waitlist
           P == pg.waitlist
<1>1. /\ W \in Seq(S!SignUps) /\ DOMAIN P = {Lower[W[i].email] : i \in DOMAIN W}
      /\ \A i \in DOMAIN W : P[Lower[W[i].email]].interest = W[i].interest
  BY DEF S!WaitlistMatches
<1>2. S!ToSet(W) = {W[i] : i \in DOMAIN W} BY <1>1 DEF S!ToSet
<1>3. S!MemWaitlist = {<<Lower[W[i].email], W[i].interest>> : i \in DOMAIN W}
  BY <1>2 DEF S!MemWaitlist
<1>4. S!PgWaitlist = {<<m, P[m].interest>> : m \in DOMAIN P} BY DEF S!PgWaitlist
<1> HIDE DEF W, P
<1>5. {<<m, P[m].interest>> : m \in DOMAIN P}
        = {<<Lower[W[i].email], P[Lower[W[i].email]].interest>> : i \in DOMAIN W}
  BY <1>1
<1>6. {<<Lower[W[i].email], P[Lower[W[i].email]].interest>> : i \in DOMAIN W}
        = {<<Lower[W[i].email], W[i].interest>> : i \in DOMAIN W}
  BY <1>1
<1> QED BY <1>3, <1>4, <1>5, <1>6

\* Whatever the calls, either store answers the same: who a key is and which keys are
\* listed, every run and the list of a key's newest, the threads of a tester, a device's
\* account and the devices of an account, benchmarks, proposals and the waitlist
\* (Validate, ListConsumerKeys, GetRun, ListRuns, FeedbackForUser, PayoutAccount,
\* NodeCapabilities, Proposals, WaitlistSince).
THEOREM RowsReadAlike == BooksSpec => []RowsAgree
<1>1. ASSUME S!StoreInv PROVE S!RowsAgree
  <2>1. S!KeysMatch /\ S!DeskMatches /\ S!WaitlistMatches /\ S!ThreadsMatch /\ S!RunsMatch
    BY <1>1 DEF S!StoreInv
  <2>2. /\ \A r \in Raws : S!MemValidate(r) = S!PgValidate(r)
        /\ S!MemListKeys = S!PgListKeys
    BY <2>1, KeysReadAlike
  <2>3. mem.runs = pg.runs BY <2>1 DEF S!RunsMatch
  <2>4. \A k \in EnvKeys, n \in 0 .. ListMax + 1 : S!MemListRuns(k, n) = S!PgListRuns(k, n)
    BY <2>1, RunsReadAlike
  <2>5. \A u \in Users \cup {None}, m \in Mails \cup {None} :
           S!MemFeedbackForUser(u, m) = S!PgFeedbackForUser(u, m)
    BY <2>1, TheirsAlike
  <2>6. /\ \A d \in Sellers : S!MemAccount(d) = S!PgAccount(d)
        /\ \A x \in Stripes : S!MemByStripe(x) = S!PgByStripe(x)
        /\ S!MemCapabilities = S!PgCapabilities
        /\ S!MemProposals = S!Reverse(S!PgProposals)
    BY <2>1, DeskReadAlike
  <2>7. S!MemWaitlist = S!PgWaitlist BY <2>1, WaitlistReadsAlike
  <2> QED BY <2>2, <2>3, <2>4, <2>5, <2>6, <2>7 DEF S!RowsAgree
<1> QED BY <1>1, StoreFollowed, StoreIsAlike, StoreAssumed, PTL DEF RowsAgree
================================================================================
