-------------------------------- MODULE CallProofs --------------------------------
(***************************************************************************)
(* Theorems about two of the calls of Promises: batch.Run (Batch), for     *)
(* every number of items and providers and every size of the pool, and     *)
(* Allow of the rate limiter (RateLimit), for every rate, every set of     *)
(* callers and every passage of time.                                      *)
(***************************************************************************)
EXTENDS Promises, FiniteSetTheorems, TLAPS

--------------------------------------------------------------------------------
(***************************************************************************)
(* A behaviour of the calls is one of each.                                *)
(***************************************************************************)

LEMMA BatchFollowed == PromisesSpec => B!Spec
<1>1. PromisesInit => B!Init BY DEF PromisesInit
<1>2. [PromisesNext]_<<part, vars, relayVars, batchVars, limiterVars>> => [B!Next]_(B!vars)
  BY DEF PromisesNext, LedgerMoves, RelayMoves, BatchMoves, LimiterMoves, batchVars,
         B!vars, B!runVars, B!workerVars, B!counterVars
<1> QED BY <1>1, <1>2, PTL DEF PromisesSpec, B!Spec

LEMMA LimiterFollowed == PromisesSpec => L!Spec
<1>1. PromisesInit => L!Init BY DEF PromisesInit
<1>2. [PromisesNext]_<<part, vars, relayVars, batchVars, limiterVars>> => [L!Next]_(L!vars)
  BY DEF PromisesNext, LedgerMoves, RelayMoves, BatchMoves, LimiterMoves, limiterVars, L!vars
<1> QED BY <1>1, <1>2, PTL DEF PromisesSpec, L!Spec

--------------------------------------------------------------------------------
(***************************************************************************)
(* Counting.                                                               *)
(***************************************************************************)

\* Batch counts with the FiniteSets it extends.
LEMMA SameCount == \A S : B!IsFiniteSet(S) = IsFiniteSet(S) /\ B!Cardinality(S) = Cardinality(S)
<1>1. ASSUME NEW S PROVE B!IsFiniteSet(S) <=> IsFiniteSet(S)
  BY DEF B!IsFiniteSet, IsFiniteSet
<1>2. ASSUME NEW S PROVE B!Cardinality(S) = Cardinality(S)
  BY DEF B!Cardinality, Cardinality
<1> QED BY <1>1, <1>2 DEF B!IsFiniteSet, IsFiniteSet

\* n disjoint groups of at least m members each need n * m members.
LEMMA DisjointGroups ==
  ASSUME NEW n \in Nat, NEW m \in Nat, NEW S, IsFiniteSet(S),
         NEW group \in [1..n -> SUBSET S],
         \A a, b \in 1..n : a # b => group[a] \cap group[b] = {},
         \A a \in 1..n : m <= Cardinality(group[a])
  PROVE  m * n <= Cardinality(S)
<1> DEFINE roll == [a \in 1..n |-> CHOOSE f : f \in Injection(1..m, group[a])]
<1> DEFINE member == [x \in (1..n) \X (1..m) |-> roll[x[1]][x[2]]]
<1>1. ASSUME NEW a \in 1..n
      PROVE  roll[a] \in Injection(1..m, group[a])
  <2>1. IsFiniteSet(group[a]) /\ Cardinality(group[a]) \in Nat
    BY FS_Subset, FS_CardinalityType
  <2>2. PICK f : f \in Bijection(1..Cardinality(group[a]), group[a])
    BY <2>1, FS_CardinalityType DEF ExistsBijection
  <2>3. 1..m \subseteq 1..Cardinality(group[a])
    BY <2>1
  <2>4. [i \in 1..m |-> f[i]] \in Injection(1..m, group[a])
    BY <2>2, <2>3 DEF Bijection, Injection, IsInjective
  <2> QED BY <2>4
<1>2. /\ IsFiniteSet(1..n) /\ Cardinality(1..n) = n
      /\ IsFiniteSet(1..m) /\ Cardinality(1..m) = m
  BY FS_Interval
<1>3. ASSUME NEW a \in 1..n, NEW i \in 1..m
      PROVE  /\ roll[a][i] \in group[a] /\ roll[a][i] \in S
             /\ \A k \in 1..m : roll[a][i] = roll[a][k] => i = k
  <2>1. roll[a] \in [1..m -> group[a]] /\ IsInjective(roll[a])
    BY <1>1 DEF Injection
  <2> QED BY <2>1 DEF IsInjective
<1> HIDE DEF roll
<1>4. member \in Injection((1..n) \X (1..m), S)
  <2>1. member \in [(1..n) \X (1..m) -> S]
    BY <1>3
  <2>2. ASSUME NEW x \in (1..n) \X (1..m), NEW y \in (1..n) \X (1..m), member[x] = member[y]
        PROVE  x = y
    <3>1. PICK a \in 1..n, i \in 1..m : x = <<a, i>> OBVIOUS
    <3>2. PICK b \in 1..n, k \in 1..m : y = <<b, k>> OBVIOUS
    <3>3. roll[a][i] = roll[b][k] BY <2>2, <3>1, <3>2
    <3>4. a = b BY <1>3, <3>3
    <3> QED BY <1>3, <3>1, <3>2, <3>3, <3>4
  <2> QED BY <2>1, <2>2 DEF Injection, IsInjective
<1> HIDE DEF member
<1>5. Cardinality((1..n) \X (1..m)) = n * m
  <2> DEFINE P == 1..n
             Q == 1..m
  <2>1. IsFiniteSet(P) /\ IsFiniteSet(Q) /\ Cardinality(P) = n /\ Cardinality(Q) = m
    BY <1>2
  <2> HIDE DEF P, Q
  <2>2. Cardinality(P \X Q) = Cardinality(P) * Cardinality(Q)
    BY <2>1, FS_Product
  <2> QED BY <2>1, <2>2 DEF P, Q
<1>6. Cardinality((1..n) \X (1..m)) <= Cardinality(S)
  <2> DEFINE P == (1..n) \X (1..m)
  <2>1. member \in Injection(P, S) BY <1>4
  <2> HIDE DEF P
  <2>2. Cardinality(P) <= Cardinality(S) BY <2>1, FS_Injection
  <2> QED BY <2>2 DEF P
<1>7. m * n = n * m BY SMT
<1> QED BY <1>5, <1>6, <1>7

\* Who is in the pool, who uses a provider and what it handled can be counted.
LEMMA Countable ==
  ASSUME B!BatchAssumption, NEW p
  PROVE  /\ IsFiniteSet(B!Users(p)) /\ Cardinality(B!Users(p)) \in Nat
         /\ IsFiniteSet(B!Carriers(p)) /\ Cardinality(B!Carriers(p)) \in Nat
         /\ IsFiniteSet(B!HandledBy(p)) /\ Cardinality(B!HandledBy(p)) \in Nat
<1>1. IsFiniteSet(B!Pool) /\ IsFiniteSet(B!Index)
  BY FS_Interval DEF B!BatchAssumption, B!Pool, B!Index
<1>2. B!Users(p) \subseteq B!Pool /\ B!Carriers(p) \subseteq B!Pool /\ B!HandledBy(p) \subseteq B!Index
  BY DEF B!Users, B!Carriers, B!HandledBy
<1> QED BY <1>1, <1>2, FS_Subset, FS_CardinalityType

--------------------------------------------------------------------------------
(***************************************************************************)
(* The even share.                                                         *)
(***************************************************************************)

\* When a worker chooses, the others use the candidates: the one nobody is lighter
\* than has at most its share of them.
LEMMA BestHasRoom ==
  ASSUME B!BatchAssumption, B!BatchInv, NEW w \in B!Pool, place[w] = "got", NEW a \in B!Best
  PROVE  inflight[cands[a]] * Len(cands) <= workers - 1
<1> DEFINE n == Len(cands)
           m == inflight[cands[a]]
           others == (1..workers) \ {w}
           group == [b \in 1..n |-> B!Users(cands[b])]
<1>1. /\ cands \in Seq(Provs) /\ n \in Nat /\ a \in 1..n
      /\ \A b \in 1..n : cands[b] \in Provs
  BY DEF B!BatchInv, B!TypeOK, B!Best
<1>2. workers \in Nat /\ w \in 1..workers /\ MaxConcurrency \in Nat
  BY DEF B!BatchInv, B!TypeOK, B!WorkerShape, B!Pool, B!BatchAssumption
<1>3. \A p \in Provs : inflight[p] = Cardinality(B!Users(p)) /\ inflight[p] \in Nat
  BY SameCount, Countable DEF B!BatchInv, B!InflightIsUse
<1>4. \A b \in 1..n : m <= Cardinality(group[b])
  <2> TAKE b \in 1..n
  <2>1. ~B!Lighter(cands[b], cands[a]) BY DEF B!Best
  <2> QED BY <1>1, <1>3, <2>1 DEF B!Lighter
<1>5. group \in [1..n -> SUBSET others]
  <2>1. ASSUME NEW b \in 1..n, NEW v \in B!Users(cands[b])
        PROVE  v \in others
    <3>1. v \in B!Pool /\ place[v] \in {"running", "ended"} BY DEF B!Users
    <3>2. v <= workers BY <3>1, <1>2 DEF B!BatchInv, B!WorkerShape, B!Pool
    <3> QED BY <3>1, <3>2 DEF B!Pool
  <2> QED BY <2>1
<1>6. \A b, c \in 1..n : b # c => group[b] \cap group[c] = {}
  BY <1>1 DEF B!BatchInv, B!CallShape, B!Users
<1>7. IsFiniteSet(others) /\ Cardinality(others) = workers - 1
  <2>1. IsFiniteSet(1..workers) /\ Cardinality(1..workers) = workers
    BY <1>2, FS_Interval
  <2> QED BY <1>2, <2>1, FS_RemoveElement
<1>8. m \in Nat BY <1>1, <1>3
<1> HIDE DEF n, m, others, group
<1>9. m * n <= Cardinality(others)
  BY <1>1, <1>4, <1>5, <1>6, <1>7, <1>8, DisjointGroups
<1> QED BY <1>7, <1>9 DEF n, m

--------------------------------------------------------------------------------
(***************************************************************************)
(* The inductive invariant of the pool.                                    *)
(***************************************************************************)

LEMMA InitBatch ==
  ASSUME B!BatchAssumption, B!Init
  PROVE  B!BatchInv
<1>1. /\ phase = "idle" /\ workers = 0 /\ fed = 0 /\ ctx = "live"
      /\ place = [w \in B!Pool |-> "none"] /\ idx = [w \in B!Pool |-> 0]
      /\ chosen = [w \in B!Pool |-> None] /\ err = [w \in B!Pool |-> "ok"]
      /\ inflight = [p \in Provs |-> 0] /\ assigned = [p \in Provs |-> 0]
      /\ results = [i \in B!Index |-> B!NoResult]
  BY DEF B!Init
<1>2. cands = <<>> /\ cands \in Seq(Provs) /\ 1 .. Len(cands) = {}
  BY DEF B!Init
<1>3. B!TypeOK
  <2>1. B!NoResult \in B!Results BY DEF B!NoResult, B!Results, B!Errs, B!BatchAssumption
  <2> QED BY <1>1, <1>2, <2>1 DEF B!TypeOK, B!BatchAssumption, B!Places, B!Errs
<1>4. B!CallShape
  BY <1>1, <1>2 DEF B!CallShape
<1>5. \A w \in B!Pool : B!WorkerShape(w)
  BY <1>1 DEF B!WorkerShape, B!BatchAssumption, B!Pool
<1>6. B!Held = {} /\ B!Answered = {} BY <1>1 DEF B!Held, B!Answered
<1>7. B!EachItemOnce
  <2>1. {idx[w] : w \in B!Held} = {} /\ 1 .. fed = {} BY <1>1, <1>6
  <2> QED BY <1>6, <2>1 DEF B!EachItemOnce
<1>8. \A p \in Provs : B!Users(p) = {} /\ B!Carriers(p) = {} /\ B!HandledBy(p) = {}
  BY <1>1 DEF B!Users, B!Carriers, B!HandledBy, B!NoResult, B!BatchAssumption
<1>9. B!InflightIsUse /\ B!AssignedIsKept
  <2>1. Cardinality({}) = 0 /\ B!Cardinality({}) = 0 BY SameCount, FS_EmptySet
  <2>2. \A p \in Provs : inflight[p] = 0 /\ assigned[p] = 0 BY <1>1
  <2>3. B!InflightIsUse BY <1>8, <2>1, <2>2 DEF B!InflightIsUse
  <2>4. B!AssignedIsKept BY <1>8, <2>1, <2>2 DEF B!AssignedIsKept
  <2> QED BY <2>3, <2>4
<1>10. B!EvenShare BY <1>2 DEF B!EvenShare
<1> QED BY <1>3, <1>4, <1>5, <1>7, <1>9, <1>10 DEF B!BatchInv

\* The size of the pool is between none and the maximum, whatever was requested.
LEMMA PoolSizeType ==
  ASSUME B!BatchAssumption, NEW c \in Requested
  PROVE  B!PoolSize(c) \in 0 .. MaxConcurrency /\ B!PoolSize(c) <= NItems
BY DEF B!BatchAssumption, B!PoolSize, B!Least

LEMMA BeginOK ==
  ASSUME B!BatchAssumption, B!BatchInv, B!Begin
  PROVE  B!BatchInv'
<1>1. PICK c \in Requested : workers' = B!PoolSize(c) BY DEF B!Begin
<1>2. workers' \in 0 .. MaxConcurrency BY <1>1, PoolSizeType
<1>3. /\ phase = "idle" /\ phase' = "feeding"
      /\ place' = [w \in B!Pool |-> IF w <= workers' THEN "ready" ELSE "none"]
      /\ UNCHANGED <<fed, idx, chosen, err, inflight, assigned, results, ctx>>
  BY DEF B!Begin, B!counterVars
<1>4. /\ cands' \in Seq(Provs) /\ Len(cands') \in Nat \ {0}
      /\ \A a, b \in 1 .. Len(cands') : cands'[a] = cands'[b] => a = b
  <2>1. PICK n \in 1 .. Cardinality(Provs) :
          \E s \in [1 .. n -> Provs] :
            cands' = s /\ \A a, b \in 1 .. n : s[a] = s[b] => a = b
    BY SameCount DEF B!Begin, B!Rankings
  <2>2. n \in Nat \ {0} BY FS_CardinalityType DEF B!BatchAssumption
  <2>3. cands' \in [1 .. n -> Provs] BY <2>1
  <2>4. cands' \in Seq(Provs) /\ Len(cands') = n BY <2>2, <2>3
  <2> QED BY <2>1, <2>2, <2>4
<1>5. B!TypeOK' BY <1>2, <1>3, <1>4 DEF B!BatchInv, B!TypeOK, B!Places
<1>6. B!CallShape' BY <1>3, <1>4 DEF B!BatchInv, B!CallShape
<1>7. \A w \in B!Pool : place[w] = "none" /\ idx[w] = 0 /\ chosen[w] \notin Provs
  BY <1>3 DEF B!BatchInv, B!CallShape, B!WorkerShape, B!Pool, B!TypeOK
<1>8. \A w \in B!Pool : B!WorkerShape(w)'
  BY <1>2, <1>3, <1>7 DEF B!WorkerShape, B!Pool, B!BatchInv, B!TypeOK
<1>9. B!EachItemOnce' BY <1>3 DEF B!BatchInv, B!EachItemOnce, B!Held, B!Answered
<1>10. B!AssignedIsKept' BY SameCount, <1>3 DEF B!BatchInv, B!AssignedIsKept, B!HandledBy,
                                                B!Carriers
<1>11. \A p \in Provs : B!Users(p) = {} /\ B!Users(p)' = {}
  BY <1>3, <1>7 DEF B!Users
<1>12. B!InflightIsUse' BY SameCount, <1>3, <1>11 DEF B!BatchInv, B!InflightIsUse
<1>13. B!EvenShare'
  <2>1. \A p \in Provs : inflight'[p] = 0
    BY SameCount, <1>3, <1>11, FS_EmptySet DEF B!BatchInv, B!InflightIsUse
  <2> QED BY <1>2, <1>4, <2>1 DEF B!EvenShare
<1> QED BY <1>5, <1>6, <1>8, <1>9, <1>10, <1>12, <1>13 DEF B!BatchInv

\* Steps of the call that move no worker.
LEMMA CallStepOK ==
  ASSUME B!BatchAssumption, B!BatchInv,
         B!NobodyEligible \/ B!CloseWork \/ B!Return \/ B!ContextDone \/ UNCHANGED B!vars
  PROVE  B!BatchInv'
<1>1. UNCHANGED <<cands, workers, fed, place, idx, chosen, err, inflight, assigned, results>>
  BY DEF B!NobodyEligible, B!CloseWork, B!Return, B!ContextDone, B!vars, B!runVars,
         B!workerVars, B!counterVars
<1>2. B!TypeOK'
  BY <1>1 DEF B!BatchInv, B!TypeOK, B!NobodyEligible, B!CloseWork, B!Return, B!ContextDone,
              B!vars, B!runVars
<1>3. B!CallShape'
  BY <1>1 DEF B!BatchInv, B!CallShape, B!NobodyEligible, B!CloseWork, B!Return,
              B!ContextDone, B!vars, B!runVars
<1>4. (\A w \in B!Pool : B!WorkerShape(w))' BY <1>1 DEF B!BatchInv, B!WorkerShape
<1>5. B!EachItemOnce' BY <1>1 DEF B!BatchInv, B!EachItemOnce, B!Held, B!Answered
<1>6. B!InflightIsUse' /\ B!EvenShare' BY SameCount, <1>1 DEF B!BatchInv, B!InflightIsUse,
                                          B!EvenShare, B!Users
<1>7. B!AssignedIsKept' BY SameCount, <1>1 DEF B!BatchInv, B!AssignedIsKept, B!HandledBy,
                                               B!Carriers
<1> QED BY <1>2, <1>3, <1>4, <1>5, <1>6, <1>7 DEF B!BatchInv

\* A worker's step leaves the other workers where they are.
LEMMA OneWorkerMoves ==
  ASSUME B!BatchInv, NEW w \in B!Pool, B!WorkerStep(w)
  PROVE  /\ UNCHANGED <<phase, cands, workers, ctx>>
         /\ \A v \in B!Pool \ {w} : /\ place'[v] = place[v] /\ idx'[v] = idx[v]
                                   /\ chosen'[v] = chosen[v] /\ err'[v] = err[v]
BY DEF B!BatchInv, B!TypeOK, B!WorkerStep, B!Feed, B!SkipItem, B!Choose, B!ExecReturns,
       B!Release, B!Write, B!Exit,
       B!runVars, B!counterVars

\* Only workers of a call that is under way take steps.
LEMMA WorkerOfThePool ==
  ASSUME B!BatchAssumption, B!BatchInv, NEW w \in B!Pool, B!WorkerStep(w)
  PROVE  phase \in {"feeding", "closed"} /\ w \in 1 .. workers
<1>1. place[w] \in {"ready", "got", "running", "ended", "released"}
  BY DEF B!WorkerStep, B!Feed, B!SkipItem, B!Choose, B!ExecReturns, B!Release, B!Write, B!Exit
<1>2. w \in 1 .. workers
  BY <1>1 DEF B!BatchInv, B!TypeOK, B!WorkerShape, B!Pool, B!BatchAssumption
<1>3. phase \notin {"idle", "refused", "returned"}
  BY <1>1, <1>2 DEF B!BatchInv, B!CallShape
<1> QED BY <1>2, <1>3 DEF B!BatchInv, B!TypeOK

LEMMA WorkerTypes ==
  ASSUME B!BatchAssumption, B!BatchInv, NEW w \in B!Pool, B!WorkerStep(w)
  PROVE  B!TypeOK'
<1> USE DEF B!runVars, B!counterVars
<1>1. B!TypeOK /\ B!WorkerShape(w) BY DEF B!BatchInv
<1>2. CASE B!Feed(w)
  <2>1. fed + 1 \in 0 .. NItems BY <1>1, <1>2 DEF B!Feed, B!TypeOK, B!BatchAssumption
  <2> QED BY <1>1, <1>2, <2>1 DEF B!Feed, B!TypeOK, B!Places
<1>3. CASE B!SkipItem(w) BY <1>1, <1>3 DEF B!SkipItem, B!TypeOK, B!Places, B!Errs
<1>4. CASE B!Choose(w)
  <2>1. PICK a \in B!Best :
          /\ chosen' = [chosen EXCEPT ![w] = cands[a]]
          /\ inflight' = [inflight EXCEPT ![cands[a]] = @ + 1]
          /\ assigned' = [assigned EXCEPT ![cands[a]] = @ + 1]
    BY <1>4 DEF B!Choose
  <2>2. cands[a] \in Provs BY <1>1 DEF B!TypeOK, B!Best
  <2>3. inflight[cands[a]] + 1 \in Int /\ assigned[cands[a]] + 1 \in Nat
    BY <1>1, <2>2 DEF B!TypeOK
  <2> QED BY <1>1, <1>4, <2>1, <2>2, <2>3 DEF B!Choose, B!TypeOK, B!Places
<1>5. CASE B!ExecReturns(w) BY <1>1, <1>5 DEF B!ExecReturns, B!TypeOK, B!Places
<1>6. CASE B!Release(w)
  <2>1. chosen[w] \in Provs /\ inflight[chosen[w]] - 1 \in Int
    BY <1>1, <1>6 DEF B!Release, B!WorkerShape, B!TypeOK
  <2> QED BY <1>1, <1>6, <2>1 DEF B!Release, B!TypeOK, B!Places
<1>7. CASE B!Write(w)
  <2>1. [index |-> idx[w], prov |-> chosen[w], err |-> err[w]] \in B!Results
    BY <1>1 DEF B!TypeOK, B!Results
  <2>2. results' \in [B!Index -> B!Results] BY <1>1, <1>7, <2>1 DEF B!Write, B!TypeOK
  <2>3. 0 \in 0 .. NItems BY DEF B!BatchAssumption
  <2> QED BY <1>1, <1>7, <2>2, <2>3 DEF B!Write, B!TypeOK, B!Places, B!Errs
<1>8. CASE B!Exit(w) BY <1>1, <1>8 DEF B!Exit, B!TypeOK, B!Places
<1> QED BY <1>2, <1>3, <1>4, <1>5, <1>6, <1>7, <1>8 DEF B!WorkerStep

LEMMA WorkerCallShape ==
  ASSUME B!BatchAssumption, B!BatchInv, NEW w \in B!Pool, B!WorkerStep(w)
  PROVE  B!CallShape'
<1>1. phase' = phase /\ cands' = cands /\ phase \in {"feeding", "closed"}
  BY OneWorkerMoves, WorkerOfThePool
<1>2. phase = "closed" => fed' = NItems
  BY DEF B!BatchInv, B!CallShape, B!WorkerStep, B!Feed, B!SkipItem, B!Choose, B!ExecReturns,
         B!Release, B!Write,
         B!Exit, B!runVars
<1> QED BY <1>1, <1>2 DEF B!BatchInv, B!CallShape

LEMMA WorkerShapes ==
  ASSUME B!BatchAssumption, B!BatchInv, NEW w \in B!Pool, B!WorkerStep(w)
  PROVE  \A v \in B!Pool : B!WorkerShape(v)'
<1>1. /\ workers' = workers
      /\ \A v \in B!Pool \ {w} : place'[v] = place[v] /\ idx'[v] = idx[v] /\ chosen'[v] = chosen[v]
  BY OneWorkerMoves
<1>2. \A v \in B!Pool \ {w} : B!WorkerShape(v)'
  BY <1>1 DEF B!BatchInv, B!WorkerShape
<1>3. B!WorkerShape(w)'
  <2>1. ~(w > workers) BY WorkerOfThePool DEF B!BatchInv, B!TypeOK, B!Pool, B!BatchAssumption
  <2>2. B!TypeOK /\ B!WorkerShape(w) /\ fed \in Nat
    BY DEF B!BatchInv, B!TypeOK, B!BatchAssumption
  <2>3. CASE B!Feed(w) BY <2>1, <2>2, <2>3 DEF B!Feed, B!TypeOK, B!WorkerShape
  <2>4. CASE B!SkipItem(w) BY <2>1, <2>2, <2>4 DEF B!SkipItem, B!TypeOK, B!WorkerShape,
                                                   B!runVars
  <2>5. CASE B!Choose(w)
    <3>1. PICK a \in B!Best : chosen' = [chosen EXCEPT ![w] = cands[a]] BY <2>5 DEF B!Choose
    <3>2. cands[a] \in Provs BY <2>2 DEF B!Best, B!TypeOK
    <3>3. /\ workers' = workers /\ idx' = idx /\ place[w] = "got" /\ place'[w] = "running"
          /\ chosen'[w] \in Provs
      BY <2>2, <2>5, <3>1, <3>2 DEF B!Choose, B!TypeOK, B!runVars
    <3> QED BY <2>1, <2>2, <3>3 DEF B!WorkerShape
  <2>6. CASE B!ExecReturns(w) BY <2>1, <2>2, <2>6 DEF B!ExecReturns, B!TypeOK, B!WorkerShape,
                                                      B!runVars
  <2>7. CASE B!Release(w) BY <2>1, <2>2, <2>7 DEF B!Release, B!TypeOK, B!WorkerShape, B!runVars
  <2>8. CASE B!Write(w)
    BY <2>1, <2>2, <2>8 DEF B!Write, B!TypeOK, B!WorkerShape, B!runVars, B!BatchAssumption
  <2>9. CASE B!Exit(w) BY <2>1, <2>2, <2>9 DEF B!Exit, B!TypeOK, B!WorkerShape, B!runVars
  <2> QED BY <2>3, <2>4, <2>5, <2>6, <2>7, <2>8, <2>9 DEF B!WorkerStep
<1> QED BY <1>2, <1>3

\* An item goes from the feeding loop to one worker, and from there to its place.
LEMMA WorkerItems ==
  ASSUME B!BatchAssumption, B!BatchInv, NEW w \in B!Pool, B!WorkerStep(w)
  PROVE  B!EachItemOnce'
<1>1. /\ B!TypeOK /\ B!WorkerShape(w) /\ B!EachItemOnce
      /\ \A v \in B!Pool \ {w} : idx'[v] = idx[v]
  BY OneWorkerMoves DEF B!BatchInv
<1>2. CASE B!Feed(w)
  <2>1. /\ idx[w] = 0 /\ idx'[w] = fed + 1 /\ fed' = fed + 1 /\ results' = results
        /\ fed \in Nat
    BY <1>1, <1>2 DEF B!Feed, B!WorkerShape, B!TypeOK, B!BatchAssumption
  <2>2. B!Held' = B!Held \cup {w} /\ w \notin B!Held
    BY <1>1, <2>1 DEF B!Held
  <2>3. B!Answered' = B!Answered BY <2>1 DEF B!Answered
  <2>4. {idx'[v] : v \in B!Held'} = {idx[v] : v \in B!Held} \cup {fed + 1}
    BY <1>1, <2>1, <2>2 DEF B!Held
  <2>5. fed + 1 \notin {idx[v] : v \in B!Held} \cup B!Answered
    BY <1>1, <2>1 DEF B!EachItemOnce
  <2>6. \A v, u \in B!Held' : idx'[v] = idx'[u] => v = u
    BY <1>1, <2>1, <2>2, <2>5 DEF B!EachItemOnce, B!Held
  <2>7. 1 .. fed' = (1 .. fed) \cup {fed + 1} BY <2>1
  <2> DEFINE carried == {idx[v] : v \in B!Held}
             after == {idx'[v] : v \in B!Held'}
  <2>8. carried \cap B!Answered = {} /\ carried \cup B!Answered = 1 .. fed
    BY <1>1 DEF B!EachItemOnce
  <2>9. after = carried \cup {fed + 1} /\ fed + 1 \notin carried \cup B!Answered
    BY <2>4, <2>5
  <2> HIDE DEF carried, after
  <2>10. after \cap B!Answered' = {} /\ after \cup B!Answered' = 1 .. fed'
    BY <2>3, <2>7, <2>8, <2>9
  <2>11. \A i \in B!Answered' : results'[i].index = i
    BY <1>1, <2>1, <2>3 DEF B!EachItemOnce
  <2> QED BY <2>6, <2>10, <2>11 DEF B!EachItemOnce, after
<1>3. CASE B!Write(w)
  <2> DEFINE i == idx[w]
  <2>1. /\ i # 0 /\ i \in B!Index /\ w \in B!Held /\ idx'[w] = 0 /\ fed' = fed
        /\ results' = [results EXCEPT ![i] = [index |-> i, prov |-> chosen[w], err |-> err[w]]]
    BY <1>1, <1>3 DEF B!Write, B!WorkerShape, B!TypeOK, B!Held, B!Index, B!BatchAssumption,
                      B!runVars
  <2>2. B!Held' = B!Held \ {w} BY <1>1, <2>1 DEF B!Held
  <2>3. results'[i] # B!NoResult /\ results'[i].index = i
    BY <1>1, <2>1 DEF B!TypeOK, B!NoResult
  <2>4. \A k \in B!Index \ {i} : results'[k] = results[k]
    BY <1>1, <2>1 DEF B!TypeOK
  <2>5. B!Answered' = B!Answered \cup {i} BY <2>1, <2>3, <2>4 DEF B!Answered
  <2>6. {idx'[v] : v \in B!Held'} = {idx[v] : v \in B!Held} \ {i}
    BY <1>1, <2>1, <2>2 DEF B!EachItemOnce, B!Held
  <2>7. \A v, u \in B!Held' : idx'[v] = idx'[u] => v = u
    BY <1>1, <2>2 DEF B!EachItemOnce, B!Held
  <2>8. \A k \in B!Answered' : results'[k].index = k
    BY <1>1, <2>3, <2>4, <2>5 DEF B!EachItemOnce, B!Answered
  <2>9. i \in {idx[v] : v \in B!Held} BY <2>1
  <2> DEFINE carried == {idx[v] : v \in B!Held}
             after == {idx'[v] : v \in B!Held'}
  <2>10. carried \cap B!Answered = {} /\ carried \cup B!Answered = 1 .. fed
    BY <1>1 DEF B!EachItemOnce
  <2>11. after = carried \ {i} /\ i \in carried BY <2>6, <2>9
  <2> HIDE DEF i, carried, after
  <2>12. after \cap B!Answered' = {} /\ after \cup B!Answered' = 1 .. fed'
    BY <2>1, <2>5, <2>10, <2>11
  <2> QED BY <2>7, <2>8, <2>12 DEF B!EachItemOnce, after
<1>4. CASE B!SkipItem(w) \/ B!Choose(w) \/ B!ExecReturns(w) \/ B!Release(w) \/ B!Exit(w)
  <2>1. UNCHANGED <<idx, results, fed>>
    BY <1>4 DEF B!SkipItem, B!Choose, B!ExecReturns, B!Release, B!Exit, B!runVars
  <2> QED BY <1>1, <2>1 DEF B!EachItemOnce, B!Held, B!Answered
<1> QED BY <1>2, <1>3, <1>4 DEF B!WorkerStep

\* A provider is counted in flight from the choice to the release, whatever exec said.
LEMMA WorkerInflight ==
  ASSUME B!BatchAssumption, B!BatchInv, NEW w \in B!Pool, B!WorkerStep(w)
  PROVE  B!InflightIsUse'
<1>1. /\ B!TypeOK /\ B!WorkerShape(w) /\ B!InflightIsUse
      /\ \A v \in B!Pool \ {w} : place'[v] = place[v] /\ chosen'[v] = chosen[v]
  BY OneWorkerMoves DEF B!BatchInv
<1>2. CASE B!Choose(w)
  <2>1. PICK a \in B!Best :
          /\ chosen' = [chosen EXCEPT ![w] = cands[a]]
          /\ inflight' = [inflight EXCEPT ![cands[a]] = @ + 1]
    BY <1>2 DEF B!Choose
  <2> DEFINE q == cands[a]
  <2>2. q \in Provs /\ place[w] = "got" /\ place'[w] = "running" /\ chosen'[w] = q
    BY <1>1, <1>2, <2>1 DEF B!Choose, B!Best, B!TypeOK
  <2>3. inflight' = [inflight EXCEPT ![q] = @ + 1] BY <2>1
  <2> HIDE DEF q
  <2>4. ASSUME NEW p \in Provs
        PROVE  B!Users(p)' = IF p = q THEN B!Users(p) \cup {w} ELSE B!Users(p)
    BY <1>1, <2>2 DEF B!Users
  <2>5. w \notin B!Users(q) BY <2>2 DEF B!Users
  <2>6. ASSUME NEW p \in Provs
        PROVE  inflight'[p] = Cardinality(B!Users(p)')
    <3>1. inflight[p] = Cardinality(B!Users(p)) BY SameCount, <1>1 DEF B!InflightIsUse
    <3>2. CASE p = q
      <4>1. Cardinality(B!Users(q) \cup {w}) = Cardinality(B!Users(q)) + 1
        BY <2>5, Countable, FS_AddElement
      <4> QED BY <1>1, <2>2, <2>3, <2>4, <3>1, <3>2, <4>1 DEF B!TypeOK
    <3>3. CASE p # q BY <1>1, <2>3, <2>4, <3>1, <3>3 DEF B!TypeOK
    <3> QED BY <3>2, <3>3
  <2> QED BY SameCount, <2>6 DEF B!InflightIsUse
<1>3. CASE B!Release(w)
  <2> DEFINE q == chosen[w]
  <2>1. /\ q \in Provs /\ place[w] = "ended" /\ place'[w] = "released" /\ chosen'[w] = q
        /\ inflight' = [inflight EXCEPT ![q] = @ - 1]
    BY <1>1, <1>3 DEF B!Release, B!WorkerShape, B!TypeOK
  <2>2. w \in B!Users(q) BY <2>1 DEF B!Users
  <2> HIDE DEF q
  <2>3. ASSUME NEW p \in Provs
        PROVE  B!Users(p)' = IF p = q THEN B!Users(p) \ {w} ELSE B!Users(p)
    BY <1>1, <2>1 DEF B!Users, q
  <2>4. ASSUME NEW p \in Provs
        PROVE  inflight'[p] = Cardinality(B!Users(p)')
    <3>1. inflight[p] = Cardinality(B!Users(p)) BY SameCount, <1>1 DEF B!InflightIsUse
    <3>2. CASE p = q
      <4>1. Cardinality(B!Users(q) \ {w}) = Cardinality(B!Users(q)) - 1
        BY <2>2, Countable, FS_RemoveElement
      <4> QED BY <1>1, <2>1, <2>3, <3>1, <3>2, <4>1 DEF B!TypeOK
    <3>3. CASE p # q BY <1>1, <2>1, <2>3, <3>1, <3>3 DEF B!TypeOK
    <3> QED BY <3>2, <3>3
  <2> QED BY SameCount, <2>4 DEF B!InflightIsUse
<1>4. CASE B!Feed(w) \/ B!SkipItem(w) \/ B!ExecReturns(w) \/ B!Write(w) \/ B!Exit(w)
  <2>1. inflight' = inflight
    BY <1>4 DEF B!Feed, B!SkipItem, B!ExecReturns, B!Write, B!Exit, B!counterVars
  <2>2. \/ place[w] \notin {"running", "ended"} /\ place'[w] \notin {"running", "ended"}
        \/ {place[w], place'[w]} \subseteq {"running", "ended"} /\ chosen'[w] = chosen[w]
    BY <1>1, <1>4 DEF B!Feed, B!SkipItem, B!ExecReturns, B!Write, B!Exit, B!TypeOK
  <2>3. \A p \in Provs : B!Users(p)' = B!Users(p) BY <1>1, <2>2 DEF B!Users
  <2> QED BY SameCount, <1>1, <2>1, <2>3 DEF B!InflightIsUse
<1> QED BY <1>2, <1>3, <1>4 DEF B!WorkerStep

\* The chosen provider had room for one more; a release only makes room.
LEMMA WorkerShares ==
  ASSUME B!BatchAssumption, B!BatchInv, NEW w \in B!Pool, B!WorkerStep(w)
  PROVE  B!EvenShare'
<1>1. /\ B!TypeOK /\ B!EvenShare /\ cands' = cands /\ workers' = workers
      /\ workers \in Nat /\ Len(cands) \in Nat
  BY OneWorkerMoves DEF B!BatchInv, B!TypeOK, B!BatchAssumption
<1>2. CASE B!Choose(w)
  <2>1. PICK a \in B!Best : inflight' = [inflight EXCEPT ![cands[a]] = @ + 1]
    BY <1>2 DEF B!Choose
  <2>2. cands[a] \in Provs /\ place[w] = "got" BY <1>1, <1>2 DEF B!Choose, B!Best, B!TypeOK
  <2>3. inflight[cands[a]] * Len(cands) <= workers - 1 BY <2>2, BestHasRoom
  <2>4. inflight[cands[a]] \in Int BY <1>1, <2>2 DEF B!TypeOK
  <2>5. (inflight[cands[a]] + 1) * Len(cands) = inflight[cands[a]] * Len(cands) + Len(cands)
    BY <1>1, <2>4, SMT
  <2>6. inflight[cands[a]] * Len(cands) \in Int BY <1>1, <2>4, SMT
  <2>7. inflight'[cands[a]] * Len(cands) <= workers + Len(cands) - 1
    BY <1>1, <2>1, <2>2, <2>3, <2>4, <2>5, <2>6 DEF B!TypeOK
  <2>8. \A p \in Provs \ {cands[a]} : inflight'[p] = inflight[p] BY <1>1, <2>1 DEF B!TypeOK
  <2> QED BY <1>1, <2>7, <2>8 DEF B!EvenShare
<1>3. CASE B!Release(w)
  <2>1. chosen[w] \in Provs BY <1>3 DEF B!Release, B!BatchInv, B!WorkerShape
  <2>2. ASSUME NEW p \in Provs, cands # <<>>
        PROVE  inflight'[p] * Len(cands) <= workers + Len(cands) - 1
    <3>1. inflight'[p] \in Int /\ inflight[p] \in Int /\ inflight'[p] <= inflight[p]
      BY <1>1, <1>3, <2>1 DEF B!Release, B!TypeOK
    <3> DEFINE d == inflight[p] - inflight'[p]
    <3>2. d \in Nat /\ inflight[p] = inflight'[p] + d BY <3>1
    <3> HIDE DEF d
    <3>3. inflight[p] * Len(cands) = inflight'[p] * Len(cands) + d * Len(cands)
      BY <1>1, <3>1, <3>2, SMT
    <3>4. d * Len(cands) \in Nat /\ inflight'[p] * Len(cands) \in Int BY <1>1, <3>1, <3>2, SMT
    <3>5. inflight[p] * Len(cands) <= workers + Len(cands) - 1
      BY <1>1, <2>2 DEF B!EvenShare
    <3> QED BY <1>1, <3>3, <3>4, <3>5
  <2> QED BY <1>1, <2>2 DEF B!EvenShare
<1>4. CASE B!Feed(w) \/ B!SkipItem(w) \/ B!ExecReturns(w) \/ B!Write(w) \/ B!Exit(w)
  <2>1. inflight' = inflight
    BY <1>4 DEF B!Feed, B!SkipItem, B!ExecReturns, B!Write, B!Exit, B!counterVars
  <2> QED BY <1>1, <2>1 DEF B!EvenShare
<1> QED BY <1>2, <1>3, <1>4 DEF B!WorkerStep

\* An assignment is carried by the worker until its answer is on the slice.
LEMMA WorkerAssignments ==
  ASSUME B!BatchAssumption, B!BatchInv, NEW w \in B!Pool, B!WorkerStep(w)
  PROVE  B!AssignedIsKept'
<1>1. /\ B!TypeOK /\ B!WorkerShape(w) /\ B!AssignedIsKept /\ B!EachItemOnce
      /\ \A v \in B!Pool \ {w} : chosen'[v] = chosen[v]
  BY OneWorkerMoves DEF B!BatchInv
<1>2. CASE B!Choose(w)
  <2>1. PICK a \in B!Best :
          /\ chosen' = [chosen EXCEPT ![w] = cands[a]]
          /\ assigned' = [assigned EXCEPT ![cands[a]] = @ + 1]
    BY <1>2 DEF B!Choose
  <2> DEFINE q == cands[a]
  <2>2. /\ q \in Provs /\ place[w] = "got" /\ chosen'[w] = q /\ results' = results
        /\ assigned' = [assigned EXCEPT ![q] = @ + 1]
    <3>1. q \in Provs BY <1>1 DEF B!Best, B!TypeOK
    <3>2. place[w] = "got" /\ results' = results BY <1>2 DEF B!Choose
    <3>3. chosen'[w] = q BY <1>1, <2>1 DEF B!TypeOK
    <3> QED BY <2>1, <3>1, <3>2, <3>3
  <2>3. chosen[w] \notin Provs BY <1>1, <2>2 DEF B!WorkerShape
  <2> HIDE DEF q
  <2>4. ASSUME NEW p \in Provs
        PROVE  /\ B!Carriers(p)' = IF p = q THEN B!Carriers(p) \cup {w} ELSE B!Carriers(p)
               /\ w \notin B!Carriers(p) /\ B!HandledBy(p)' = B!HandledBy(p)
    BY <1>1, <2>2, <2>3 DEF B!Carriers, B!HandledBy
  <2>5. ASSUME NEW p \in Provs
        PROVE  assigned'[p] = Cardinality(B!HandledBy(p)') + Cardinality(B!Carriers(p)')
    <3>1. /\ assigned[p] = Cardinality(B!HandledBy(p)) + Cardinality(B!Carriers(p))
          /\ Cardinality(B!HandledBy(p)) \in Nat /\ Cardinality(B!Carriers(p)) \in Nat
      BY SameCount, <1>1, Countable DEF B!AssignedIsKept
    <3>2. CASE p = q
      <4>1. Cardinality(B!Carriers(p) \cup {w}) = Cardinality(B!Carriers(p)) + 1
        BY <2>4, Countable, FS_AddElement
      <4>2. assigned'[p] = assigned[p] + 1 BY <1>1, <2>2, <3>2 DEF B!TypeOK
      <4>3. B!HandledBy(p)' = B!HandledBy(p) /\ B!Carriers(p)' = B!Carriers(p) \cup {w} BY <2>4, <3>2
      <4> QED BY <3>1, <4>1, <4>2, <4>3
    <3>3. CASE p # q BY <1>1, <2>2, <2>4, <3>1, <3>3 DEF B!TypeOK
    <3> QED BY <3>2, <3>3
  <2> QED BY SameCount, <2>5 DEF B!AssignedIsKept
<1>3. CASE B!Write(w)
  <2> DEFINE i == idx[w]
             q == chosen[w]
  <2>1. /\ i \in B!Index /\ assigned' = assigned /\ chosen'[w] = None
        /\ results' = [results EXCEPT ![i] = [index |-> i, prov |-> q, err |-> err[w]]]
        /\ w \in B!Held
    BY <1>1, <1>3 DEF B!Write, B!WorkerShape, B!TypeOK, B!Held, B!Index, B!BatchAssumption,
                      B!counterVars
  <2>2. results[i] = B!NoResult BY <1>1, <2>1 DEF B!EachItemOnce, B!Answered
  <2>3. results'[i].prov = q /\ \A k \in B!Index \ {i} : results'[k] = results[k]
    BY <1>1, <2>1 DEF B!TypeOK
  <2> HIDE DEF i
  <2>4. ASSUME NEW p \in Provs
        PROVE  /\ i \notin B!HandledBy(p)
               /\ B!HandledBy(p)' = IF p = q THEN B!HandledBy(p) \cup {i} ELSE B!HandledBy(p)
               /\ B!Carriers(p)' = IF p = q THEN B!Carriers(p) \ {w} ELSE B!Carriers(p)
               /\ w \in B!Carriers(p) <=> p = q
    <3>1. results[i].prov # p /\ chosen'[w] # p
      BY <2>1, <2>2 DEF B!NoResult, B!BatchAssumption
    <3> QED BY <1>1, <2>1, <2>3, <3>1 DEF B!Carriers, B!HandledBy
  <2> HIDE DEF q
  <2>5. ASSUME NEW p \in Provs
        PROVE  assigned'[p] = Cardinality(B!HandledBy(p)') + Cardinality(B!Carriers(p)')
    <3>1. /\ assigned[p] = Cardinality(B!HandledBy(p)) + Cardinality(B!Carriers(p))
          /\ Cardinality(B!HandledBy(p)) \in Nat /\ Cardinality(B!Carriers(p)) \in Nat
      BY SameCount, <1>1, Countable DEF B!AssignedIsKept
    <3>2. CASE p = q
      <4>1. Cardinality(B!HandledBy(p) \cup {i}) = Cardinality(B!HandledBy(p)) + 1
        BY <2>4, Countable, FS_AddElement
      <4>2. Cardinality(B!Carriers(p) \ {w}) = Cardinality(B!Carriers(p)) - 1
        BY <2>4, <3>2, Countable, FS_RemoveElement
      <4>3. /\ B!HandledBy(p)' = B!HandledBy(p) \cup {i}
            /\ B!Carriers(p)' = B!Carriers(p) \ {w}
        BY <2>4, <3>2
      <4>4. assigned'[p] = assigned[p] BY <2>1
      <4> QED BY <3>1, <4>1, <4>2, <4>3, <4>4
    <3>3. CASE p # q BY <2>1, <2>4, <3>1, <3>3
    <3> QED BY <3>2, <3>3
  <2> QED BY SameCount, <2>5 DEF B!AssignedIsKept
<1>4. CASE B!Feed(w) \/ B!SkipItem(w) \/ B!ExecReturns(w) \/ B!Release(w) \/ B!Exit(w)
  <2>1. UNCHANGED <<assigned, results>>
    BY <1>4 DEF B!Feed, B!SkipItem, B!ExecReturns, B!Release, B!Exit, B!counterVars
  <2>2. chosen'[w] = chosen[w] \/ {chosen[w], chosen'[w]} \cap Provs = {}
    BY <1>1, <1>4 DEF B!Feed, B!SkipItem, B!ExecReturns, B!Release, B!Exit, B!TypeOK,
                      B!WorkerShape,
                      B!BatchAssumption
  <2>3. \A p \in Provs : B!Carriers(p)' = B!Carriers(p) /\ B!HandledBy(p)' = B!HandledBy(p)
    BY <1>1, <2>1, <2>2 DEF B!Carriers, B!HandledBy
  <2> QED BY SameCount, <1>1, <2>1, <2>3 DEF B!AssignedIsKept
<1> QED BY <1>2, <1>3, <1>4 DEF B!WorkerStep

LEMMA NextBatch ==
  ASSUME B!BatchAssumption, B!BatchInv, [B!Next]_(B!vars)
  PROVE  B!BatchInv'
<1>1. ASSUME NEW w \in B!Pool, B!WorkerStep(w) PROVE B!BatchInv'
  BY <1>1, WorkerTypes, WorkerCallShape, WorkerShapes, WorkerItems, WorkerInflight,
     WorkerShares, WorkerAssignments DEF B!BatchInv
<1>2. CASE B!Begin BY <1>2, BeginOK
<1>3. CASE B!NobodyEligible \/ B!CloseWork \/ B!Return \/ B!ContextDone \/ UNCHANGED B!vars
  BY <1>3, CallStepOK
<1> QED BY <1>1, <1>2, <1>3 DEF B!Next, B!RunStep

\* Where a worker is determines its index and its provider, and every counter is the
\* number of workers and items it stands for, in every interleaving (batch.Run).
THEOREM BatchInvariant ==
  ASSUME B!BatchAssumption
  PROVE  B!Spec => []B!BatchInv
<1>1. B!Init => B!BatchInv BY InitBatch
<1>2. B!BatchInv /\ [B!Next]_(B!vars) => B!BatchInv' BY NextBatch
<1> QED BY <1>1, <1>2, PTL DEF B!Spec

\* When the call has returned nobody carries an item: the answers are all there is.
LEMMA SummaryIsRight ==
  ASSUME B!BatchAssumption, B!BatchInv
  PROVE  B!SummaryAccounts
<1> SUFFICES ASSUME phase = "returned", NEW p \in Provs
             PROVE  Cardinality(B!HandledBy(p)) = assigned[p]
  BY SameCount DEF B!SummaryAccounts
<1>1. \A w \in B!Pool : place[w] \in {"none", "exited"}
  BY DEF B!BatchInv, B!CallShape, B!WorkerShape, B!Pool, B!TypeOK, B!BatchAssumption
<1>2. B!Carriers(p) = {} BY <1>1 DEF B!Carriers, B!BatchInv, B!WorkerShape
<1>3. Cardinality(B!Carriers(p)) = 0 BY <1>2, FS_EmptySet
<1> QED BY SameCount, <1>3, Countable DEF B!BatchInv, B!AssignedIsKept

\* Whatever the items do and whenever the caller leaves, however many workers there
\* are: no item is lost or answered twice, each counter is the number of workers using
\* the provider, no provider exceeds its even share, and the summary is right
\* (batch.Run, choose, release).
THEOREM PoolIsRight == PromisesSpec => []PoolInv
<1>1. B!BatchInv => B!PoolInv BY BatchAssumed, SummaryIsRight DEF B!BatchInv, B!PoolInv
<1> QED BY <1>1, BatchFollowed, BatchInvariant, BatchAssumed, PTL DEF PoolInv

--------------------------------------------------------------------------------
(***************************************************************************)
(* Run implements its promise: an answer is given where a worker writes    *)
(* its result, and everything else happens out of the caller's sight.      *)
(***************************************************************************)

LEMMA BatchPromiseInit ==
  ASSUME B!Init
  PROVE  B!Promise!PromiseInit
BY DEF B!Init, B!Promise!PromiseInit, B!callStage, B!callAnswer, B!Promise!Index, B!Index

\* A result that is written answers an item that had no answer.
LEMMA WriteAnswers ==
  ASSUME B!BatchAssumption, B!BatchInv, NEW w \in B!Pool, B!Write(w)
  PROVE  \E i \in B!Promise!Index : B!Promise!Answer(i)
<1> DEFINE i == idx[w]
<1>1. B!TypeOK /\ B!EachItemOnce /\ B!WorkerShape(w) BY DEF B!BatchInv
<1>2. /\ i # 0 /\ i \in B!Index /\ w \in B!Held
      /\ results' = [results EXCEPT ![i] = [index |-> i, prov |-> chosen[w], err |-> err[w]]]
  BY <1>1 DEF B!Write, B!WorkerShape, B!TypeOK, B!Held, B!Index, B!BatchAssumption
<1>3. phase \in {"feeding", "closed"} /\ phase' = phase
  BY WorkerOfThePool, OneWorkerMoves DEF B!WorkerStep
<1>4. B!callStage = "working" /\ B!callStage' = B!callStage BY <1>3 DEF B!callStage
<1>5. results[i] = B!NoResult BY <1>1, <1>2 DEF B!EachItemOnce, B!Answered
<1>6. B!callAnswer[i] = "none" BY <1>2, <1>5 DEF B!callAnswer
<1>7. results'[i] # B!NoResult /\ \A k \in B!Index \ {i} : results'[k] = results[k]
  BY <1>1, <1>2 DEF B!TypeOK, B!NoResult
<1> DEFINE a == IF results'[i].err = "ok" THEN "ok" ELSE "failed"
<1>8. B!callAnswer' = [B!callAnswer EXCEPT ![i] = a]
  BY <1>2, <1>7 DEF B!callAnswer, B!Index
<1>9. a \in {"ok", "failed"} OBVIOUS
<1> HIDE DEF a, i
<1>10. B!Promise!Answer(i) BY <1>4, <1>6, <1>8, <1>9 DEF B!Promise!Answer
<1> QED BY <1>2, <1>10 DEF B!Promise!Index, B!Index

LEMMA BatchPromiseStep ==
  ASSUME B!BatchAssumption, B!BatchInv, [B!Next]_(B!vars)
  PROVE  [B!Promise!PromiseNext]_(B!Promise!promiseVars)
<1> USE DEF B!Promise!PromiseNext, B!Promise!promiseVars
<1>1. CASE B!Begin
  <2>1. results' = results /\ phase = "idle" /\ phase' = "feeding" BY <1>1 DEF B!Begin
  <2> QED BY <2>1 DEF B!Promise!Accept, B!callStage, B!callAnswer
<1>2. CASE B!NobodyEligible
  <2>1. results' = results /\ phase = "idle" /\ phase' = "refused"
    BY <1>2 DEF B!NobodyEligible
  <2> QED BY <2>1 DEF B!Promise!Refuse, B!callStage, B!callAnswer
<1>3. CASE B!Return
  <2>1. results' = results /\ phase = "closed" /\ phase' = "returned" BY <1>3 DEF B!Return
  <2>2. \A w \in B!Pool : place[w] \in {"none", "exited"}
    BY <1>3 DEF B!Return, B!BatchInv, B!WorkerShape, B!Pool, B!TypeOK, B!BatchAssumption
  <2>3. B!Held = {} BY <2>2 DEF B!Held, B!BatchInv, B!WorkerShape
  <2>4. fed = NItems BY <2>1 DEF B!BatchInv, B!CallShape
  <2>5. B!Answered = B!Index
    <3>1. {idx[w] : w \in B!Held} = {} BY <2>3
    <3>2. {idx[w] : w \in B!Held} \cup B!Answered = 1 .. fed BY DEF B!BatchInv, B!EachItemOnce
    <3> QED BY <2>4, <3>1, <3>2 DEF B!Index
  <2>6. \A i \in B!Index : B!callAnswer[i] # "none" BY <2>5 DEF B!Answered, B!callAnswer
  <2>7. B!callStage = "working" /\ B!callStage' = "returned" /\ B!callAnswer' = B!callAnswer
    BY <2>1 DEF B!callStage, B!callAnswer
  <2> QED BY <2>6, <2>7 DEF B!Promise!Deliver, B!Promise!Index, B!Index
<1>4. CASE B!CloseWork \/ B!ContextDone \/ UNCHANGED B!vars
  <2>1. results' = results
    BY <1>4 DEF B!CloseWork, B!ContextDone, B!vars
  <2>2. B!callStage' = B!callStage
    BY <1>4 DEF B!CloseWork, B!ContextDone, B!vars, B!runVars, B!callStage
  <2> QED BY <2>1, <2>2 DEF B!callAnswer
<1>5. ASSUME NEW w \in B!Pool, B!WorkerStep(w), ~B!Write(w)
      PROVE  UNCHANGED <<B!callStage, B!callAnswer>>
  <2>1. results' = results
    BY <1>5 DEF B!WorkerStep, B!Feed, B!SkipItem, B!Choose, B!ExecReturns, B!Release, B!Exit
  <2>2. phase' = phase BY <1>5, OneWorkerMoves
  <2> QED BY <2>1, <2>2 DEF B!callStage, B!callAnswer
<1> QED BY <1>1, <1>2, <1>3, <1>4, <1>5, WriteAnswers DEF B!Next, B!RunStep

\* Whatever the pool does underneath, what the caller sees of batch.Run is the map of
\* BatchPromise: every item is answered once, and the answers are returned when all
\* of them are there.
THEOREM RunIsAMap == PromisesSpec => B!Promise!PromiseSafety
<1>1. B!Init => B!Promise!PromiseInit BY BatchPromiseInit
<1>2. B!BatchInv /\ [B!Next]_(B!vars) => [B!Promise!PromiseNext]_(B!Promise!promiseVars)
  BY BatchAssumed, BatchPromiseStep
<1> QED BY <1>1, <1>2, BatchFollowed, BatchInvariant, BatchAssumed, PTL
        DEF B!Spec, B!Promise!PromiseSafety

--------------------------------------------------------------------------------
(***************************************************************************)
(* The rate limiter.                                                       *)
(***************************************************************************)

\* A product does not shrink when a factor grows.
LEMMA TimesGrows ==
  ASSUME NEW r \in Nat, NEW a \in Int, NEW b \in Int, a <= b
  PROVE  r * a <= r * b
<1>1. PICK d \in Nat : b = a + d BY SMT
<1>2. r * b = r * a + r * d BY <1>1, SMT
<1>3. r * d \in Nat /\ r * a \in Int BY SMT
<1> QED BY <1>2, <1>3, SMT

\* Time passes for the refill as for the clock.
LEMMA TimesAdds ==
  ASSUME NEW r \in Nat, NEW a \in Int, NEW b \in Int, NEW c \in Int
  PROVE  r * (a - c) = r * (a - b) + r * (b - c)
BY SMT

\* A bucket is never fuller than the burst, nor than what was refilled.
LEMMA RefilledBounds ==
  ASSUME L!RateAssumption, L!TypeOK, L!BucketInv, NEW c \in Callers
  PROVE  /\ L!Refilled(c) \in Nat
         /\ L!Refilled(c) <= L!Burst
         /\ c \in seen => L!Refilled(c) <= tokens[c] + Rate * (now - last[c])
<1>1. Rate \in Nat /\ tokens[c] \in Nat /\ last[c] \in Nat /\ now \in Nat /\ last[c] <= now
  BY DEF L!RateAssumption, L!TypeOK, L!BucketInv
<1>2. now - last[c] \in Nat BY <1>1, SMT
<1>3. Rate * (now - last[c]) \in Nat BY <1>1, <1>2, SMT
<1>4. L!Burst \in Nat BY <1>1, SMT DEF L!Burst, L!Token
<1> QED BY <1>1, <1>3, <1>4, SMT DEF L!Refilled

\* What holds of the type of one caller's history.
LEMMA TypesOf ==
  ASSUME L!RateAssumption, L!TypeOK, NEW c \in Callers
  PROVE  /\ Rate \in Nat \ {0} /\ L!Burst \in Nat /\ L!Token <= L!Burst /\ now \in Nat
         /\ tokens[c] \in Nat /\ last[c] \in Nat
         /\ promised[c] \in Nat \union {L!Never}
         /\ \A m \in Marks : m \in Nat /\ since[c][m] \in Nat
BY SMT DEF L!RateAssumption, L!TypeOK, L!Burst, L!Token

LEMMA InitBuckets ==
  ASSUME L!RateAssumption, L!Init
  PROVE  L!TypeOK /\ L!BucketInv
<1>1. L!TypeOK BY SMT DEF L!Init, L!TypeOK, L!RateAssumption, L!Never
<1>2. L!Burst \in Nat BY SMT DEF L!RateAssumption, L!Burst, L!Token
<1> QED BY <1>1, <1>2, SMT DEF L!Init, L!BucketInv, L!PromiseOf, L!CountOf

\* Allow changes the caller's own bucket only, and leaves the types as they are.
LEMMA AllowTypes ==
  ASSUME L!RateAssumption, L!TypeOK, L!BucketInv, NEW c \in Callers, L!Allow(c)
  PROVE  L!TypeOK'
<1>0. now' \in Nat /\ seen' \subseteq Callers /\ last' \in [Callers -> Nat]
  BY SMT DEF L!Allow, L!TypeOK
<1>1. L!Refilled(c) \in Nat BY RefilledBounds
<1>2. CASE L!Grant(c)
  <2>1. L!Refilled(c) - L!Token \in Nat BY <1>1, <1>2, SMT DEF L!Grant, L!Token
  <2>2. tokens' \in [Callers -> Nat] BY <1>2, <2>1, SMT DEF L!Grant, L!TypeOK
  <2>3. [m \in Marks |-> IF m <= now THEN since[c][m] + 1 ELSE since[c][m]] \in [Marks -> Nat]
    BY SMT DEF L!TypeOK
  <2>4. since' \in [Callers -> [Marks -> Nat]] BY <1>2, <2>3, SMT DEF L!Grant, L!TypeOK
  <2>5. promised' \in [Callers -> Nat \union {L!Never}] BY <1>2, SMT DEF L!Grant, L!TypeOK
  <2> QED BY <1>0, <2>2, <2>4, <2>5 DEF L!TypeOK
<1>3. CASE L!Refuse(c)
  <2>1. tokens' \in [Callers -> Nat] BY <1>1, <1>3, SMT DEF L!Refuse, L!TypeOK
  <2>2. PICK s \in 1..62 :
          /\ L!RetryAfter(L!Token - L!Refilled(c), s)
          /\ promised' = [promised EXCEPT ![c] = IF @ = L!Never THEN now + 1000 * s ELSE @]
    BY <1>3 DEF L!Refuse
  <2>3. now + 1000 * s \in Nat BY SMT DEF L!TypeOK
  <2>4. promised' \in [Callers -> Nat \union {L!Never}] BY <2>2, <2>3, SMT DEF L!TypeOK
  <2> QED BY <1>0, <1>3, <2>1, <2>4 DEF L!Refuse, L!TypeOK
<1> QED BY <1>2, <1>3 DEF L!Allow

\* Counting: what a grant takes is what it counts.
LEMMA AllowCounts ==
  ASSUME L!RateAssumption, L!TypeOK, L!BucketInv, NEW c \in Callers, L!Allow(c), NEW m \in Marks
  PROVE  L!CountOf(c, m)'
<1>1. /\ Rate \in Nat /\ L!Burst \in Nat /\ now \in Nat /\ m \in Nat
      /\ tokens[c] \in Nat /\ last[c] \in Nat /\ since[c][m] \in Nat
  BY TypesOf
<1>2. L!Refilled(c) \in Nat /\ L!Refilled(c) <= L!Burst BY RefilledBounds
<1>3. seen' = seen \union {c} /\ last'[c] = now BY SMT DEF L!Allow, L!TypeOK
<1>4. L!CountOf(c, m) /\ last[c] <= now BY DEF L!BucketInv
<1>5. CASE m > now
  <2>1. since[c][m] = 0 BY <1>1, <1>4, <1>5, SMT DEF L!CountOf
  <2>2. since'[c][m] = since[c][m] BY <1>1, <1>5, SMT DEF L!Allow, L!Grant, L!Refuse, L!TypeOK
  <2> QED BY <1>1, <1>3, <1>5, <2>1, <2>2, SMT DEF L!CountOf
<1>6. CASE m <= now
  <2>1. L!Token * since[c][m] + L!Refilled(c) <= L!Burst + Rate * (now - m)
    <3>1. CASE c \in seen /\ m <= last[c]
      <4>1. L!Refilled(c) <= tokens[c] + Rate * (now - last[c]) BY <3>1, RefilledBounds
      <4>2. Rate * (now - m) = Rate * (now - last[c]) + Rate * (last[c] - m)
        BY <1>1, TimesAdds
      <4>3. L!Token * since[c][m] + tokens[c] <= L!Burst + Rate * (last[c] - m)
        BY <1>4, <3>1 DEF L!CountOf
      <4>4. /\ Rate * (now - m) \in Int /\ Rate * (now - last[c]) \in Int
            /\ Rate * (last[c] - m) \in Int
        BY <1>1, SMT
      <4> QED BY <1>1, <1>2, <4>1, <4>2, <4>3, <4>4, SMT DEF L!Token
    <3>2. CASE ~(c \in seen /\ m <= last[c])
      <4>1. since[c][m] = 0 BY <1>4, <3>2 DEF L!CountOf
      <4>2. now - m \in Nat BY <1>1, <1>6, SMT
      <4>3. Rate * (now - m) \in Nat BY <1>1, <4>2, SMT
      <4> QED BY <1>1, <1>2, <4>1, <4>3, SMT DEF L!Token
    <3> QED BY <3>1, <3>2
  <2>2. L!Token * since'[c][m] + tokens'[c] = L!Token * since[c][m] + L!Refilled(c)
    <3>1. CASE L!Grant(c)
      <4>1. since'[c][m] = since[c][m] + 1 BY <1>6, <3>1, SMT DEF L!Grant, L!TypeOK
      <4>2. tokens'[c] = L!Refilled(c) - L!Token BY <3>1, SMT DEF L!Grant, L!TypeOK
      <4> QED BY <1>1, <1>2, <4>1, <4>2, SMT DEF L!Token
    <3>2. CASE L!Refuse(c)
      BY <3>2, SMT DEF L!Refuse, L!TypeOK
    <3> QED BY <3>1, <3>2 DEF L!Allow
  <2> QED BY <1>3, <1>6, <2>1, <2>2 DEF L!CountOf, L!Burst
<1> QED BY <1>1, <1>5, <1>6, SMT

\* A promise is renewed by the refill, and kept by the time it falls due.
LEMMA AllowPromises ==
  ASSUME L!RateAssumption, L!TypeOK, L!BucketInv, NEW c \in Callers, L!Allow(c)
  PROVE  L!PromiseOf(c)'
<1>1. /\ Rate \in Nat \ {0} /\ L!Burst \in Nat /\ L!Token <= L!Burst /\ now \in Nat
      /\ tokens[c] \in Nat /\ last[c] \in Nat /\ promised[c] \in Nat \union {L!Never}
  BY TypesOf
<1>2. L!Refilled(c) \in Nat BY RefilledBounds
<1>3. c \in seen' /\ last'[c] = now BY SMT DEF L!Allow, L!TypeOK
<1>4. CASE L!Grant(c)
  <2>1. promised'[c] = L!Never BY <1>4, SMT DEF L!Grant, L!TypeOK
  <2> QED BY <2>1 DEF L!PromiseOf, L!Never
<1>5. CASE L!Refuse(c)
  <2>1. tokens'[c] = L!Refilled(c) /\ L!Refilled(c) < L!Token
    BY <1>5, SMT DEF L!Refuse, L!TypeOK
  <2>2. PICK s \in 1..62 :
          /\ L!RetryAfter(L!Token - L!Refilled(c), s)
          /\ promised' = [promised EXCEPT ![c] = IF @ = L!Never THEN now + 1000 * s ELSE @]
    BY <1>5 DEF L!Refuse
  <2>3. CASE promised[c] = L!Never
    <3>1. promised'[c] = now + 1000 * s BY <2>2, <2>3, SMT DEF L!TypeOK
    <3>2. L!Token - L!Refilled(c) + Rate < s * (1000 * Rate) BY <2>2 DEF L!RetryAfter
    <3>3. s * (1000 * Rate) = Rate * (promised'[c] - now) BY <1>1, <3>1, SMT
    <3>4. now < promised'[c] BY <1>1, <3>1, SMT
    <3>5. Rate * (promised'[c] - now) \in Int BY <1>1, <3>1, SMT
    <3>6. L!Token <= L!Refilled(c) + Rate * (promised'[c] - now)
      BY <1>1, <1>2, <3>2, <3>3, <3>5, SMT DEF L!Token
    <3> QED BY <1>3, <2>1, <3>4, <3>6 DEF L!PromiseOf, L!Token
  <2>4. CASE promised[c] # L!Never
    <3>1. promised'[c] = promised[c] /\ promised[c] \in Nat
      BY <1>1, <2>2, <2>4, SMT DEF L!TypeOK
    <3>2. /\ c \in seen /\ last[c] < promised[c]
          /\ L!Token <= tokens[c] + Rate * (promised[c] - last[c])
          /\ last[c] <= now
      BY <2>4 DEF L!BucketInv, L!PromiseOf
    <3>3. L!Refilled(c) = tokens[c] + Rate * (now - last[c])
      <4>1. tokens[c] + Rate * (now - last[c]) \in Int BY <1>1, SMT
      <4>2. L!Refilled(c) # L!Burst BY <1>1, <2>1, SMT DEF L!Token
      <4> QED BY <4>1, <4>2 DEF L!Refilled
    <3>4. Rate * (promised[c] - last[c]) = Rate * (promised[c] - now) + Rate * (now - last[c])
      BY <1>1, <3>1, TimesAdds
    <3>5. /\ Rate * (promised[c] - now) \in Int /\ Rate * (now - last[c]) \in Int
          /\ Rate * (promised[c] - last[c]) \in Int
      BY <1>1, <3>1, SMT
    <3>6. L!Token <= L!Refilled(c) + Rate * (promised[c] - now)
      BY <1>1, <1>2, <3>2, <3>3, <3>4, <3>5, SMT DEF L!Token
    <3>7. now < promised[c]
      <4> SUFFICES ASSUME promised[c] <= now PROVE FALSE BY <1>1, <3>1, SMT
      <4>1. Rate * (promised[c] - now) <= Rate * 0
        BY <1>1, <3>1, TimesGrows, promised[c] - now \in Int, promised[c] - now <= 0, SMT
      <4> QED BY <1>1, <1>2, <2>1, <3>5, <3>6, <4>1, SMT DEF L!Token
    <3> QED BY <1>3, <2>1, <3>1, <3>6, <3>7 DEF L!PromiseOf, L!Token
  <2> QED BY <2>3, <2>4
<1> QED BY <1>4, <1>5 DEF L!Allow

LEMMA NextBuckets ==
  ASSUME L!RateAssumption, L!TypeOK, L!BucketInv, [L!Next]_(L!vars)
  PROVE  L!TypeOK' /\ L!BucketInv'
<1>1. ASSUME NEW c \in Callers, L!Allow(c) PROVE L!TypeOK' /\ L!BucketInv'
  <2>1. L!TypeOK' BY <1>1, AllowTypes
  <2>2. ASSUME NEW d \in Callers
        PROVE  /\ last'[d] <= now' /\ tokens'[d] <= L!Burst
               /\ L!PromiseOf(d)' /\ \A m \in Marks : L!CountOf(d, m)'
    <3>1. CASE d = c
      <4>1. last'[c] = now /\ now' = now BY <1>1, SMT DEF L!Allow, L!TypeOK
      <4>2. tokens'[c] <= L!Refilled(c)
        BY <1>1, RefilledBounds, SMT DEF L!Allow, L!Grant, L!Refuse, L!TypeOK, L!Token
      <4>3. tokens'[c] <= L!Burst
        BY <1>1, <2>1, <4>2, RefilledBounds, TypesOf, SMT DEF L!TypeOK
      <4>4. L!PromiseOf(c)' BY <1>1, AllowPromises
      <4>5. \A m \in Marks : L!CountOf(c, m)' BY <1>1, AllowCounts
      <4> QED BY <3>1, <4>1, <4>3, <4>4, <4>5, SMT DEF L!TypeOK
    <3>2. CASE d # c
      <4>1. /\ last'[d] = last[d] /\ tokens'[d] = tokens[d] /\ since'[d] = since[d]
            /\ promised'[d] = promised[d] /\ (d \in seen' <=> d \in seen) /\ now' = now
        BY <1>1, <3>2, SMT DEF L!Allow, L!Grant, L!Refuse, L!TypeOK
      <4> QED BY <4>1 DEF L!BucketInv, L!PromiseOf, L!CountOf, L!Token, L!Burst, L!Never
    <3> QED BY <3>1, <3>2
  <2> QED BY <2>1, <2>2 DEF L!BucketInv, L!Burst, L!Token
<1>2. ASSUME NEW d \in Pauses, L!Pass(d) PROVE L!TypeOK' /\ L!BucketInv'
  <2>1. now' \in Nat /\ now <= now' BY <1>2, SMT DEF L!Pass, L!RateAssumption, L!TypeOK
  <2>2. UNCHANGED <<seen, tokens, last, since, promised>> BY <1>2 DEF L!Pass
  <2>3. L!TypeOK' BY <2>1, <2>2 DEF L!TypeOK
  <2>4. ASSUME NEW c \in Callers PROVE last'[c] <= now' /\ tokens'[c] <= L!Burst
    BY <2>1, <2>2, SMT DEF L!TypeOK, L!BucketInv
  <2> QED BY <2>2, <2>3, <2>4 DEF L!BucketInv, L!PromiseOf, L!CountOf, L!Burst, L!Token,
                                  L!Never
<1>3. CASE UNCHANGED L!vars
  BY <1>3 DEF L!vars, L!TypeOK, L!BucketInv, L!PromiseOf, L!CountOf, L!Burst, L!Token, L!Never
<1> QED BY <1>1, <1>2, <1>3 DEF L!Next

LEMMA BucketsBound ==
  ASSUME L!RateAssumption, L!TypeOK, L!BucketInv
  PROVE  L!LimiterInv
<1>1. ASSUME NEW c \in Callers, NEW m \in Marks, m <= now
      PROVE  L!Token * since[c][m] <= L!Burst + Rate * (now - m)
  <2>1. /\ Rate \in Nat /\ L!Burst \in Nat /\ now \in Nat /\ m \in Nat
        /\ tokens[c] \in Nat /\ last[c] \in Nat /\ since[c][m] \in Nat
    BY TypesOf
  <2>2. L!CountOf(c, m) /\ last[c] <= now BY DEF L!BucketInv
  <2>3. Rate * (last[c] - m) <= Rate * (now - m)
    BY <2>1, <2>2, TimesGrows, last[c] - m \in Int, now - m \in Int, last[c] - m <= now - m,
       SMT
  <2>4. Rate * (last[c] - m) \in Int /\ Rate * (now - m) \in Nat
    <3>1. now - m \in Nat BY <1>1, <2>1, SMT
    <3> QED BY <2>1, <3>1, SMT
  <2>5. CASE c \in seen /\ m <= last[c]
    <3>1. L!Token * since[c][m] + tokens[c] <= L!Burst + Rate * (last[c] - m)
      BY <2>2, <2>5 DEF L!CountOf
    <3> QED BY <2>1, <2>3, <2>4, <3>1, SMT DEF L!Token
  <2>6. CASE ~(c \in seen /\ m <= last[c])
    <3>1. since[c][m] = 0 BY <2>2, <2>6 DEF L!CountOf
    <3> QED BY <2>1, <2>4, <3>1, SMT DEF L!Token
  <2> QED BY <2>5, <2>6
<1>2. L!WithinRate BY <1>1 DEF L!WithinRate
<1>3. L!WaitIsHonest BY DEF L!WaitIsHonest, L!BucketInv, L!PromiseOf
<1> QED BY <1>2, <1>3 DEF L!LimiterInv

\* Whatever the rate, the callers and the pauses between their requests: from any
\* moment on a caller is granted a full bucket and the refill, and one that waits as
\* long as Retry-After said is granted its request (Limiter.Allow, withAuth).
THEOREM LimiterIsFair == PromisesSpec => []LimiterInv
<1>1. L!Init => L!TypeOK /\ L!BucketInv BY RateAssumed, InitBuckets
<1>2. L!TypeOK /\ L!BucketInv /\ [L!Next]_(L!vars) => L!TypeOK' /\ L!BucketInv'
  BY RateAssumed, NextBuckets
<1>3. L!TypeOK /\ L!BucketInv => L!LimiterInv BY RateAssumed, BucketsBound
<1> QED BY <1>1, <1>2, <1>3, LimiterFollowed, PTL DEF L!Spec, LimiterInv
================================================================================
