--------------------------------- MODULE Batch ---------------------------------
(***************************************************************************)
(* batch.Run: many independent items of one model, fanned out over the     *)
(* providers eligible when the call starts, by a bounded pool of worker    *)
(* goroutines that share two counters under a mutex and an unbuffered      *)
(* channel of item indices.                                                *)
(*                                                                         *)
(* Each item is run by exec, a thin wrapper over relay.ExecuteOn: here it  *)
(* ends in a success or an error, which is what JobPromise says of it.     *)
(* The candidates and their order (scheduler.Eligible, then the ACU sort)  *)
(* are any non-empty sequence of distinct providers.  Items are numbered   *)
(* from 1; what an item and its answer contain is left out.                *)
(***************************************************************************)
EXTENDS Integers, Sequences, FiniteSets

CONSTANTS
  NItems,              \* len(items): may be zero
  Provs,               \* providers that may be eligible
  None,                \* no provider
  Requested,           \* values opt.Concurrency may have: any integers
  DefaultConcurrency,  \* 8 in the code
  MaxConcurrency       \* 16 in the code

BatchAssumption ==
  /\ NItems \in Nat
  /\ IsFiniteSet(Provs) /\ None \notin Provs
  /\ Requested \subseteq Int
  /\ DefaultConcurrency \in Nat /\ MaxConcurrency \in Nat

Index == 1 .. NItems
Pool  == 1 .. MaxConcurrency

VARIABLES
  phase,     \* Run: "idle", "feeding", "closed" (close(work)), "returned", "refused"
  cands,     \* the snapshot of eligible providers, best first
  workers,   \* size of the pool
  fed,       \* items handed to a worker
  at,        \* where each goroutine is: see Places
  idx,       \* the index a worker holds, or 0
  prov,      \* the provider choose() gave it
  err,       \* ErrCode of the result it is about to write; "ok" where the code has none
  inflight, assigned,  \* the counters under mu
  results,   \* the results slice; NoResult where nothing is written
  ctx        \* the caller's context: "live" or "done"

runVars     == <<phase, cands, workers, fed>>
workerVars  == <<at, idx, prov, err>>
counterVars == <<inflight, assigned>>
vars        == <<runVars, workerVars, counterVars, results, ctx>>

\* A worker that is not started, waits for an index, has one, runs exec, has
\* exec's result, has released its provider, or has seen the channel closed.
Places == {"none", "ready", "got", "running", "ended", "released", "exited"}

Errs     == {"ok", "failed", "cancelled"}
NoResult == [index |-> 0, prov |-> None, err |-> "ok"]
Results  == [index : 0 .. NItems, prov : Provs \cup {None}, err : Errs]

TypeOK ==
  /\ phase \in {"idle", "feeding", "closed", "returned", "refused"}
  /\ cands \in Seq(Provs)
  /\ workers \in 0 .. MaxConcurrency
  /\ fed \in 0 .. NItems
  /\ at \in [Pool -> Places]
  /\ idx \in [Pool -> 0 .. NItems]
  /\ prov \in [Pool -> Provs \cup {None}]
  /\ err \in [Pool -> Errs]
  /\ inflight \in [Provs -> Int]
  /\ assigned \in [Provs -> Nat]
  /\ results \in [Index -> Results]
  /\ ctx \in {"live", "done"}

Init ==
  /\ phase = "idle"
  /\ cands = <<>>
  /\ workers = 0
  /\ fed = 0
  /\ at = [w \in Pool |-> "none"]
  /\ idx = [w \in Pool |-> 0]
  /\ prov = [w \in Pool |-> None]
  /\ err = [w \in Pool |-> "ok"]
  /\ inflight = [p \in Provs |-> 0]
  /\ assigned = [p \in Provs |-> 0]
  /\ results = [i \in Index |-> NoResult]
  /\ ctx = "live"

--------------------------------------------------------------------------------
(***************************************************************************)
(* Run.                                                                    *)
(***************************************************************************)

Least(a, b) == IF a < b THEN a ELSE b

PoolSize(c) ==
  Least(Least(IF c <= 0 THEN DefaultConcurrency ELSE c, MaxConcurrency), NItems)

\* The eligible providers in the order choose() will prefer them.
Rankings ==
  UNION {{s \in [1 .. n -> Provs] : \A a, b \in 1 .. n : s[a] = s[b] => a = b} :
           n \in 1 .. Cardinality(Provs)}

Begin ==
  /\ phase = "idle"
  /\ phase' = "feeding"
  /\ cands' \in Rankings
  /\ \E c \in Requested : workers' = PoolSize(c)
  /\ at' = [w \in Pool |-> IF w <= workers' THEN "ready" ELSE "none"]
  /\ UNCHANGED <<fed, idx, prov, err, counterVars, results, ctx>>

NobodyEligible ==
  /\ phase = "idle"
  /\ phase' = "refused"
  /\ UNCHANGED <<cands, workers, fed, workerVars, counterVars, results, ctx>>

\* work <- i: the channel is unbuffered, so a worker takes the index at once.
Feed(w) ==
  /\ phase = "feeding"
  /\ fed < NItems
  /\ at[w] = "ready"
  /\ fed' = fed + 1
  /\ idx' = [idx EXCEPT ![w] = fed + 1]
  /\ at' = [at EXCEPT ![w] = "got"]
  /\ UNCHANGED <<phase, cands, workers, prov, err, counterVars, results, ctx>>

CloseWork ==
  /\ phase = "feeding"
  /\ fed = NItems
  /\ phase' = "closed"
  /\ UNCHANGED <<cands, workers, fed, workerVars, counterVars, results, ctx>>

\* wg.Wait, then the summary.
Return ==
  /\ phase = "closed"
  /\ \A w \in 1 .. workers : at[w] = "exited"
  /\ phase' = "returned"
  /\ UNCHANGED <<cands, workers, fed, workerVars, counterVars, results, ctx>>

--------------------------------------------------------------------------------
(***************************************************************************)
(* A worker: runOne, then the write of its result.                         *)
(***************************************************************************)

\* ctx.Err() before anything is tried.
SkipItem(w) ==
  /\ at[w] = "got"
  /\ ctx = "done"
  /\ at' = [at EXCEPT ![w] = "released"]
  /\ prov' = [prov EXCEPT ![w] = None]
  /\ err' = [err EXCEPT ![w] = "cancelled"]
  /\ UNCHANGED <<runVars, idx, counterVars, results, ctx>>

\* p is a better choice than q: fewer items in flight, then fewer assigned.
Lighter(p, q) ==
  \/ inflight[p] < inflight[q]
  \/ inflight[p] = inflight[q] /\ assigned[p] < assigned[q]

\* The scan of choose(): the earliest candidate that none is lighter than.
Best ==
  {a \in 1 .. Len(cands) :
     /\ \A b \in 1 .. Len(cands) : ~Lighter(cands[b], cands[a])
     /\ \A b \in 1 .. a - 1 : Lighter(cands[a], cands[b])}

Choose(w) ==
  /\ at[w] = "got"
  /\ ctx = "live"
  /\ \E a \in Best :
       /\ prov' = [prov EXCEPT ![w] = cands[a]]
       /\ inflight' = [inflight EXCEPT ![cands[a]] = @ + 1]
       /\ assigned' = [assigned EXCEPT ![cands[a]] = @ + 1]
  /\ at' = [at EXCEPT ![w] = "running"]
  /\ UNCHANGED <<runVars, idx, err, results, ctx>>

\* exec returns: the relay succeeded, or the job failed in any of its ways.
ExecReturns(w) ==
  /\ at[w] = "running"
  /\ at' = [at EXCEPT ![w] = "ended"]
  /\ \E e \in Errs :
       /\ e = "cancelled" => ctx = "done"
       /\ err' = [err EXCEPT ![w] = e]
  /\ UNCHANGED <<runVars, idx, prov, counterVars, results, ctx>>

\* Mutant: only a success releases its provider.
ReleaseOnSuccess(w) ==
  /\ at[w] = "ended"
  /\ at' = [at EXCEPT ![w] = "released"]
  /\ inflight' = [inflight EXCEPT ![prov[w]] = IF err[w] = "ok" THEN @ - 1 ELSE @]
  /\ UNCHANGED <<runVars, idx, prov, err, assigned, results, ctx>>

\* defer release(prov), on every return of runOne.
Release(w) ==
  /\ at[w] = "ended"
  /\ at' = [at EXCEPT ![w] = "released"]
  /\ inflight' = [inflight EXCEPT ![prov[w]] = @ - 1]
  /\ UNCHANGED <<runVars, idx, prov, err, assigned, results, ctx>>

\* Mutant: the index is read from the feeding loop's variable.
WriteAtLast(w) ==
  /\ at[w] = "released"
  /\ results' = [results EXCEPT ![fed] = [index |-> fed, prov |-> prov[w], err |-> err[w]]]
  /\ at' = [at EXCEPT ![w] = "ready"]
  /\ idx' = [idx EXCEPT ![w] = 0]
  /\ prov' = [prov EXCEPT ![w] = None]
  /\ err' = [err EXCEPT ![w] = "ok"]
  /\ UNCHANGED <<runVars, counterVars, ctx>>

\* results[idx] = the ItemResult runOne tagged with idx.
Write(w) ==
  /\ at[w] = "released"
  /\ results' =
       [results EXCEPT ![idx[w]] = [index |-> idx[w], prov |-> prov[w], err |-> err[w]]]
  /\ at' = [at EXCEPT ![w] = "ready"]
  /\ idx' = [idx EXCEPT ![w] = 0]
  /\ prov' = [prov EXCEPT ![w] = None]
  /\ err' = [err EXCEPT ![w] = "ok"]
  /\ UNCHANGED <<runVars, counterVars, ctx>>

\* The range loop ends on the closed channel.
Exit(w) ==
  /\ phase = "closed"
  /\ at[w] = "ready"
  /\ at' = [at EXCEPT ![w] = "exited"]
  /\ UNCHANGED <<runVars, idx, prov, err, counterVars, results, ctx>>

\* The consumer leaves, or an async run reaches runMaxWall.
ContextDone ==
  /\ ctx = "live"
  /\ phase \in {"feeding", "closed"}
  /\ ctx' = "done"
  /\ UNCHANGED <<runVars, workerVars, counterVars, results>>

--------------------------------------------------------------------------------
RunStep == Begin \/ NobodyEligible \/ CloseWork \/ Return

WorkerStep(w) ==
  \/ Feed(w) \/ SkipItem(w) \/ Choose(w) \/ ExecReturns(w)
  \/ Release(w) \/ Write(w) \/ Exit(w)

Next == RunStep \/ ContextDone \/ \E w \in Pool : WorkerStep(w)

\* Goroutines keep running, and exec returns: relay.ExecuteOn always does (the
\* property EveryJobEnds of Relay).
Fairness ==
  /\ WF_vars(CloseWork) /\ WF_vars(Return)
  /\ \A w \in Pool : WF_vars(WorkerStep(w))

Spec == Init /\ [][Next]_vars /\ Fairness

--------------------------------------------------------------------------------
(***************************************************************************)
(* Properties.                                                             *)
(***************************************************************************)

Answered == {i \in Index : results[i] # NoResult}
Held     == {w \in Pool : idx[w] # 0}
HandledBy(p) == {i \in Index : results[i].prov = p}

\* Every item that was handed out is either held by exactly one worker or
\* answered under its own index, and none is lost, run twice or answered twice:
\* "reassemble the results in submission order".
EachItemOnce ==
  /\ \A i \in Answered : results[i].index = i
  /\ \A v, w \in Held : idx[v] = idx[w] => v = w
  /\ {idx[w] : w \in Held} \cap Answered = {}
  /\ {idx[w] : w \in Held} \cup Answered = 1 .. fed

\* The in-flight counter of a provider is the number of workers using it, so it
\* returns to zero whatever exec returned.
Users(p) == {w \in Pool : at[w] \in {"running", "ended"} /\ prov[w] = p}

InflightIsUse == \A p \in Provs : inflight[p] = Cardinality(Users(p))

\* No provider ever runs more than its even share of the pool, rounded up, at the
\* same time, however long its items take: "choose() spreads work evenly".
EvenShare ==
  cands # <<>> =>
    \A p \in Provs : inflight[p] * Len(cands) <= workers + Len(cands) - 1

\* What the summary says each provider handled is what choose() gave it: the
\* answers on the slice account for every assignment.
SummaryAccounts ==
  phase = "returned" => \A p \in Provs : Cardinality(HandledBy(p)) = assigned[p]

\* Together: the pool hands every item to one worker and one provider, counts it there
\* while it is used and afterwards, and never loads a provider with more than its share.
PoolInv == TypeOK /\ EachItemOnce /\ InflightIsUse /\ EvenShare /\ SummaryAccounts

--------------------------------------------------------------------------------
(***************************************************************************)
(* The inductive invariant: what the phase says of the call, what a        *)
(* worker's place says of what it holds, and that an assignment is on its  *)
(* way to the slice or there.                                              *)
(***************************************************************************)

CallShape ==
  /\ phase \in {"idle", "refused"} =>
       /\ cands = <<>> /\ workers = 0 /\ fed = 0
       /\ assigned = [p \in Provs |-> 0]
       /\ results = [i \in Index |-> NoResult]
  /\ phase \in {"closed", "returned"} => fed = NItems
  /\ phase = "returned" => \A w \in 1 .. workers : at[w] = "exited"
  /\ \A a, b \in 1 .. Len(cands) : cands[a] = cands[b] => a = b

WorkerShape(w) ==
  /\ at[w] = "none" <=> w > workers
  /\ idx[w] # 0 <=> at[w] \in {"got", "running", "ended", "released"}
  /\ at[w] \in {"running", "ended"} => prov[w] \in Provs
  /\ prov[w] \in Provs => at[w] \in {"running", "ended", "released"}

Carriers(p) == {w \in Pool : prov[w] = p}

AssignedIsKept ==
  \A p \in Provs : assigned[p] = Cardinality(HandledBy(p)) + Cardinality(Carriers(p))

BatchInv ==
  /\ TypeOK /\ CallShape
  /\ \A w \in Pool : WorkerShape(w)
  /\ EachItemOnce /\ InflightIsUse /\ EvenShare /\ AssignedIsKept

--------------------------------------------------------------------------------
callStage == CASE phase = "feeding" -> "working" [] phase = "closed" -> "working"
               [] OTHER -> phase

callAnswer ==
  [i \in Index |-> IF results[i] = NoResult THEN "none"
                   ELSE IF results[i].err = "ok" THEN "ok" ELSE "failed"]

Promise == INSTANCE BatchPromise WITH stage <- callStage, answer <- callAnswer

\* batch.Run implements the map over the items its callers rely on.
KeepsPromise == Promise!PromiseSpec
================================================================================
