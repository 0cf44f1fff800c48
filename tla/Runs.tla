---------------------------------- MODULE Runs ----------------------------------
(***************************************************************************)
(* Quoted workloads: the quote store (marketplace.Store), the accept       *)
(* handler, the execution it shares between its synchronous and its        *)
(* asynchronous path (executeWorkload), and what an asynchronous run       *)
(* leaves behind: the workload_runs row, the results parked in memory, the *)
(* webhook and the per-key count of runs.                                  *)
(*                                                                         *)
(* One consumer key is followed; other keys have their own balance, count  *)
(* and quotes.  A request is one call of handleAcceptWorkload with the     *)
(* goroutine it spawns.  A chunk is one batch.Run, which BatchPromise says *)
(* answers all of its items; the model keeps how many chunks had a         *)
(* successful item.  A restart loses everything but the database.          *)
(***************************************************************************)
EXTENDS Integers, FiniteSets

CONSTANTS
  Quotes,        \* quote ids of the key
  Requests,      \* accept calls
  None,          \* no quote
  NChunks,       \* chunks of a workload
  Price,         \* q.Cost.TotalMicros, the same for every quote
  Deposit,       \* the balance to begin with
  MaxAsyncRuns,  \* s.maxAsyncRunsPerKey(), 4 by default
  MaxRestarts,   \* bound: restarts of the coordinator
  MaxFaults      \* bound: store calls that fail

ASSUME RunsAssumption ==
  /\ IsFiniteSet(Requests)
  /\ None \notin Quotes
  /\ NChunks \in Nat \ {0}
  /\ Price \in Nat \ {0}
  /\ Deposit \in Nat
  /\ MaxAsyncRuns \in Nat \ {0}
  /\ MaxRestarts \in Nat
  /\ MaxFaults \in Nat

VARIABLES
  quote,     \* Store.m: "none", "offered", "gone" (expired, evicted or lost)
  taken,     \* Quote.Accepted
  at,        \* where the request is: see Places
  asked,     \* the quote it asks for, or None
  mode,      \* "sync", "async", or "hooked" (async with a webhook_url)
  expired,   \* the context of the execution is done
  chunks, ok,      \* chunks run, and those with a successful item
  metered, earned, \* recordJob calls made, and those whose earning was stored
  charged,   \* AddCredit(-Price) calls that went through
  status,    \* run.Status in the goroutine's own copy
  row,       \* the status in the workload_runs row, or "none"
  results,   \* runRegistry.results: "none", "held" or "dropped"
  hook,      \* the webhook: "none", "pending", "delivered", "failed" or "unsent"
  inflight,  \* runRegistry.inflight of the key
  balance,   \* credit_micros of the key
  restarts, faults

quoteVars == <<quote, taken>>
execVars  == <<expired, chunks, ok, metered, earned, charged, balance>>
runVars   == <<status, row, results, hook, inflight>>
envVars   == <<restarts, faults>>
vars      == <<quoteVars, at, asked, mode, execVars, runVars, envVars>>

\* The handler: found, funded, admitted, locked, then recorded and queued for an
\* asynchronous run.  The execution: running, metering, settled.  finishRun: parked,
\* notified, then saved, or unsaved when the call that saves the end failed.  A request
\* is over when it was rejected, lost or has ended.
Places == {"idle", "found", "funded", "admitted", "locked", "recorded", "queued",
           "running", "metering", "settled", "parked", "notified", "saved",
           "unsaved", "ended", "rejected", "lost"}

Stages == {"none", "queued", "running", "succeeded", "failed"}

TypeOK ==
  /\ quote \in [Quotes -> {"none", "offered", "gone"}]
  /\ taken \in [Quotes -> BOOLEAN]
  /\ at \in [Requests -> Places]
  /\ asked \in [Requests -> Quotes \cup {None}]
  /\ mode \in [Requests -> {"sync", "async", "hooked"}]
  /\ expired \in [Requests -> BOOLEAN]
  /\ chunks \in [Requests -> 0 .. NChunks]
  /\ ok \in [Requests -> 0 .. NChunks]
  /\ metered \in [Requests -> 0 .. NChunks]
  /\ earned \in [Requests -> 0 .. NChunks]
  /\ charged \in [Requests -> 0 .. 1]
  /\ status \in [Requests -> Stages]
  /\ row \in [Requests -> Stages]
  /\ results \in [Requests -> {"none", "held", "dropped"}]
  /\ hook \in [Requests -> {"none", "pending", "delivered", "failed", "unsent"}]
  /\ inflight \in Nat
  /\ balance \in Int
  /\ restarts \in 0 .. MaxRestarts
  /\ faults \in 0 .. MaxFaults

Init ==
  /\ quote = [q \in Quotes |-> "none"]
  /\ taken = [q \in Quotes |-> FALSE]
  /\ at = [r \in Requests |-> "idle"]
  /\ asked = [r \in Requests |-> None]
  /\ mode = [r \in Requests |-> "sync"]
  /\ expired = [r \in Requests |-> FALSE]
  /\ chunks = [r \in Requests |-> 0]
  /\ ok = [r \in Requests |-> 0]
  /\ metered = [r \in Requests |-> 0]
  /\ earned = [r \in Requests |-> 0]
  /\ charged = [r \in Requests |-> 0]
  /\ status = [r \in Requests |-> "none"]
  /\ row = [r \in Requests |-> "none"]
  /\ results = [r \in Requests |-> "none"]
  /\ hook = [r \in Requests |-> "none"]
  /\ inflight = 0
  /\ balance = Deposit
  /\ restarts = 0
  /\ faults = 0

--------------------------------------------------------------------------------
(***************************************************************************)
(* Quotes.                                                                 *)
(***************************************************************************)

\* handleCreateWorkload, once the Council does not block the workload.
Create(q) ==
  /\ quote[q] = "none"
  /\ quote' = [quote EXCEPT ![q] = "offered"]
  /\ UNCHANGED <<taken, at, asked, mode, execVars, runVars, envVars>>

\* Its time is up, or newer quotes of any key have pushed it out of the store.
QuoteGoes(q) ==
  /\ quote[q] = "offered"
  /\ quote' = [quote EXCEPT ![q] = "gone"]
  /\ UNCHANGED <<taken, at, asked, mode, execVars, runVars, envVars>>

--------------------------------------------------------------------------------
(***************************************************************************)
(* handleAcceptWorkload.                                                   *)
(***************************************************************************)

Goto(r, l) == at' = [at EXCEPT ![r] = l]

\* quotes.Get and the checks on the quote it returns.
Find(r) ==
  /\ at[r] = "idle"
  /\ \E q \in Quotes :
       /\ quote[q] # "none"
       /\ asked' = [asked EXCEPT ![r] = q]
       /\ Goto(r, IF quote[q] = "offered" /\ ~taken[q] THEN "found" ELSE "rejected")
  /\ mode' \in [Requests -> {"sync", "async", "hooked"}]
  /\ \A s \in Requests \ {r} : mode'[s] = mode[s]
  /\ UNCHANGED <<quoteVars, execVars, runVars, envVars>>

\* The prepaid gate (BillingEnforce); a balance that cannot be read counts as zero.
CheckFunds(r) ==
  /\ at[r] = "found"
  /\ \/ /\ Goto(r, IF balance >= Price THEN "funded" ELSE "rejected")
        /\ UNCHANGED faults
     \/ faults < MaxFaults /\ faults' = faults + 1 /\ Goto(r, "rejected")
  /\ UNCHANGED <<quoteVars, asked, mode, execVars, runVars, restarts>>

CheckCeiling(r) ==
  /\ at[r] = "funded"
  /\ Goto(r, IF mode[r] = "sync" \/ inflight < MaxAsyncRuns THEN "admitted" ELSE "rejected")
  /\ UNCHANGED <<quoteVars, asked, mode, execVars, runVars, envVars>>

\* Mutant: MarkAccepted trusts the handler's own look at Accepted.
LockBlindly(r) ==
  /\ at[r] = "admitted"
  /\ LET won == quote[asked[r]] = "offered" IN
       /\ Goto(r, IF won THEN "locked" ELSE "rejected")
       /\ taken' = [taken EXCEPT ![asked[r]] = @ \/ won]
  /\ UNCHANGED <<quote, asked, mode, execVars, runVars, envVars>>

\* quotes.MarkAccepted, under the store's mutex.
Lock(r) ==
  /\ at[r] = "admitted"
  /\ LET won == quote[asked[r]] = "offered" /\ ~taken[asked[r]] IN
       /\ Goto(r, IF won THEN "locked" ELSE "rejected")
       /\ taken' = [taken EXCEPT ![asked[r]] = @ \/ won]
  /\ UNCHANGED <<quote, asked, mode, execVars, runVars, envVars>>

\* A store call whose error is only logged: it takes effect or fails.
Saves(r, s) ==
  \/ row' = [row EXCEPT ![r] = s] /\ UNCHANGED faults
  \/ faults < MaxFaults /\ faults' = faults + 1 /\ UNCHANGED row

\* runRegistry.addInflight: the count never goes below zero.
AddInflight(d) == inflight' = IF inflight + d <= 0 THEN 0 ELSE inflight + d

\* startAsyncRun: the queued row, then the count, then the goroutine.
Record(r) ==
  /\ at[r] = "locked"
  /\ mode[r] # "sync"
  /\ Goto(r, "recorded")
  /\ status' = [status EXCEPT ![r] = "queued"]
  /\ hook' = [hook EXCEPT ![r] = IF mode[r] = "hooked" THEN "pending" ELSE "none"]
  /\ Saves(r, "queued")
  /\ UNCHANGED <<quoteVars, asked, mode, execVars, results, inflight, restarts>>

CountRun(r) ==
  /\ at[r] = "recorded"
  /\ Goto(r, "queued")
  /\ AddInflight(1)
  /\ UNCHANGED <<quoteVars, asked, mode, execVars, status, row, results, hook, envVars>>

StartAsync(r) ==
  /\ at[r] = "queued"
  /\ Goto(r, "running")
  /\ status' = [status EXCEPT ![r] = "running"]
  /\ Saves(r, "running")
  /\ UNCHANGED <<quoteVars, asked, mode, execVars, results, hook, inflight, restarts>>

StartSync(r) ==
  /\ at[r] = "locked"
  /\ mode[r] = "sync"
  /\ Goto(r, "running")
  /\ UNCHANGED <<quoteVars, asked, mode, execVars, runVars, envVars>>

--------------------------------------------------------------------------------
(***************************************************************************)
(* executeWorkload.                                                        *)
(***************************************************************************)

\* runMaxWall passes, or the consumer of a synchronous call hangs up.
ContextEnds(r) ==
  /\ at[r] \in {"running", "metering", "settled", "parked"}
  /\ ~expired[r]
  /\ expired' = [expired EXCEPT ![r] = TRUE]
  /\ UNCHANGED <<quoteVars, at, asked, mode, chunks, ok, metered, earned,
                 charged, balance, runVars, envVars>>

\* Mutant: the progress callback holds the run as it was queued.
RunChunkStaleCopy(r) ==
  /\ at[r] = "running"
  /\ chunks[r] < NChunks
  /\ chunks' = [chunks EXCEPT ![r] = @ + 1]
  /\ \E n \in IF expired[r] THEN {0} ELSE {0, 1} : ok' = [ok EXCEPT ![r] = @ + n]
  /\ Goto(r, IF chunks[r] + 1 = NChunks THEN "metering" ELSE "running")
  /\ IF mode[r] = "sync" THEN UNCHANGED <<row, faults>>
     ELSE Saves(r, "queued") \/ UNCHANGED <<row, faults>>
  /\ UNCHANGED <<quoteVars, asked, mode, expired, metered, earned, charged, balance,
                 status, results, hook, inflight, restarts>>

\* batch.Run on the next chunk.  Items that start after the context is done are
\* cancelled.  The progress callback may save the row.
RunChunk(r) ==
  /\ at[r] = "running"
  /\ chunks[r] < NChunks
  /\ chunks' = [chunks EXCEPT ![r] = @ + 1]
  /\ \E n \in IF expired[r] THEN {0} ELSE {0, 1} : ok' = [ok EXCEPT ![r] = @ + n]
  /\ Goto(r, IF chunks[r] + 1 = NChunks THEN "metering" ELSE "running")
  /\ IF mode[r] = "sync" THEN UNCHANGED <<row, faults>>
     ELSE Saves(r, "running") \/ UNCHANGED <<row, faults>>
  /\ UNCHANGED <<quoteVars, asked, mode, expired, metered, earned, charged, balance,
                 status, results, hook, inflight, restarts>>

\* No provider is eligible any more: executeWorkload returns at once.
ChunkRefused(r) ==
  /\ at[r] = "running"
  /\ status' = [status EXCEPT ![r] = "failed"]
  /\ Goto(r, IF mode[r] = "sync" THEN "ended" ELSE "parked")
  /\ UNCHANGED <<quoteVars, asked, mode, execVars, row, results, hook, inflight, envVars>>

\* recordJob for one successful item after the other; an error is only logged.
RecordJob(r) ==
  /\ at[r] = "metering"
  /\ metered[r] < ok[r]
  /\ metered' = [metered EXCEPT ![r] = @ + 1]
  /\ \/ earned' = [earned EXCEPT ![r] = @ + 1] /\ UNCHANGED faults
     \/ faults < MaxFaults /\ faults' = faults + 1 /\ UNCHANGED earned
  /\ UNCHANGED <<quoteVars, at, asked, mode, expired, chunks, ok, charged, balance,
                 runVars, restarts>>

\* Mutant: the price is debited whatever came out of the run.
SettleAlways(r) ==
  /\ at[r] = "metering"
  /\ metered[r] = ok[r]
  /\ charged' = [charged EXCEPT ![r] = 1]
  /\ balance' = balance - Price
  /\ Goto(r, IF mode[r] = "sync" THEN "ended" ELSE "settled")
  /\ status' = [status EXCEPT ![r] = "succeeded"]
  /\ UNCHANGED <<quoteVars, asked, mode, expired, chunks, ok, metered, earned, row,
                 results, hook, inflight, envVars>>

\* Mutant: the workload is settled while items are still being metered.
SettleEarly(r) ==
  /\ at[r] = "metering"
  /\ \/ /\ ok[r] > 0
        /\ charged' = [charged EXCEPT ![r] = 1]
        /\ balance' = balance - Price
        /\ UNCHANGED faults
     \/ /\ ok[r] > 0
        /\ faults < MaxFaults
        /\ faults' = faults + 1
        /\ UNCHANGED <<charged, balance>>
     \/ ok[r] = 0 /\ UNCHANGED <<charged, balance, faults>>
  /\ Goto(r, IF mode[r] = "sync" THEN "ended" ELSE "settled")
  /\ status' = [status EXCEPT ![r] = "succeeded"]
  /\ UNCHANGED <<quoteVars, asked, mode, expired, chunks, ok, metered, earned, row,
                 results, hook, inflight, restarts>>

\* One settlement at the quoted price, unless nothing succeeded; the debit may fail
\* without a consequence.
Settle(r) ==
  /\ at[r] = "metering"
  /\ metered[r] = ok[r]
  /\ \/ /\ ok[r] > 0
        /\ charged' = [charged EXCEPT ![r] = 1]
        /\ balance' = balance - Price
        /\ UNCHANGED faults
     \/ /\ ok[r] > 0
        /\ faults < MaxFaults
        /\ faults' = faults + 1
        /\ UNCHANGED <<charged, balance>>
     \/ ok[r] = 0 /\ UNCHANGED <<charged, balance, faults>>
  /\ Goto(r, IF mode[r] = "sync" THEN "ended" ELSE "settled")
  /\ status' = [status EXCEPT ![r] = "succeeded"]
  /\ UNCHANGED <<quoteVars, asked, mode, expired, chunks, ok, metered, earned, row,
                 results, hook, inflight, restarts>>

--------------------------------------------------------------------------------
(***************************************************************************)
(* finishRun.                                                              *)
(***************************************************************************)

Park(r) ==
  /\ at[r] = "settled"
  /\ Goto(r, "parked")
  /\ results' = [results EXCEPT ![r] = "held"]
  /\ UNCHANGED <<quoteVars, asked, mode, execVars, status, row, hook, inflight, envVars>>

\* deliverRunWebhook: one signed POST under the run's own context, with a timeout of
\* its own.  When the run's context has expired it fails before it is sent, which the
\* code records as "failed" too.
Delivered(r) == IF expired[r] THEN {"unsent"} ELSE {"delivered", "failed"}

Notify(r) ==
  /\ at[r] = "parked"
  /\ Goto(r, "notified")
  /\ IF mode[r] = "hooked"
       THEN \E h \in Delivered(r) : hook' = [hook EXCEPT ![r] = h]
       ELSE UNCHANGED hook
  /\ UNCHANGED <<quoteVars, asked, mode, execVars, status, row, results, inflight, envVars>>

\* Mutant: the last row is the one of the caller's copy.
SaveEndStale(r) ==
  /\ at[r] = "notified"
  /\ \/ /\ row' = [row EXCEPT ![r] = "running"]
        /\ Goto(r, "saved")
        /\ UNCHANGED faults
     \/ /\ faults < MaxFaults
        /\ faults' = faults + 1
        /\ Goto(r, "unsaved")
        /\ UNCHANGED row
  /\ UNCHANGED <<quoteVars, asked, mode, execVars, status, results, hook, inflight, restarts>>

SaveEnd(r) ==
  /\ at[r] = "notified"
  /\ \/ /\ row' = [row EXCEPT ![r] = status[r]]
        /\ Goto(r, "saved")
        /\ UNCHANGED faults
     \/ /\ faults < MaxFaults
        /\ faults' = faults + 1
        /\ Goto(r, "unsaved")
        /\ UNCHANGED row
  /\ UNCHANGED <<quoteVars, asked, mode, execVars, status, results, hook, inflight, restarts>>

\* Mutant: a failed run keeps its place.
LeaveOnSuccess(r) ==
  /\ at[r] \in {"saved", "unsaved"}
  /\ Goto(r, "ended")
  /\ AddInflight(IF status[r] = "succeeded" THEN -1 ELSE 0)
  /\ UNCHANGED <<quoteVars, asked, mode, execVars, status, row, results, hook, envVars>>

\* The deferred addInflight(-1).
Leave(r) ==
  /\ at[r] \in {"saved", "unsaved"}
  /\ Goto(r, "ended")
  /\ AddInflight(-1)
  /\ UNCHANGED <<quoteVars, asked, mode, execVars, status, row, results, hook, envVars>>

\* gcLocked: the results' time is up.
ResultsExpire(r) ==
  /\ results[r] = "held"
  /\ results' = [results EXCEPT ![r] = "dropped"]
  /\ UNCHANGED <<quoteVars, at, asked, mode, execVars, status, row, hook, inflight, envVars>>

\* lookupRun, for the key that owns the run: the row, if there is one.
LookupRun(r) == row[r]

\* handleGetRunResults: what a consumer that asks for the results is answered.
ResultsAnswer(r) ==
  CASE LookupRun(r) = "none" -> "not_found"
    [] LookupRun(r) \in {"queued", "running"} -> "not_finished"
    [] LookupRun(r) = "failed" -> "run_failed"
    [] LookupRun(r) = "succeeded" /\ results[r] = "held" -> "results"
    [] OTHER -> "results_expired"

\* The coordinator goes down and comes up: what was in memory is gone.
Restart ==
  /\ restarts < MaxRestarts
  /\ restarts' = restarts + 1
  /\ quote' = [q \in Quotes |-> IF quote[q] = "offered" THEN "gone" ELSE quote[q]]
  /\ at' = [r \in Requests |->
              IF at[r] \in {"idle", "ended", "rejected"} THEN at[r] ELSE "lost"]
  /\ results' = [r \in Requests |-> IF results[r] = "held" THEN "dropped" ELSE results[r]]
  /\ inflight' = 0
  /\ UNCHANGED <<taken, asked, mode, execVars, status, row, hook, faults>>

--------------------------------------------------------------------------------
Accepts(r) ==
  \/ Find(r) \/ CheckFunds(r) \/ CheckCeiling(r) \/ Lock(r)
  \/ Record(r) \/ CountRun(r) \/ StartSync(r)

Executes(r) ==
  \/ StartAsync(r) \/ RunChunk(r) \/ ChunkRefused(r) \/ RecordJob(r) \/ Settle(r)
  \/ Park(r) \/ Notify(r) \/ SaveEnd(r) \/ Leave(r)

Next ==
  \/ \E q \in Quotes : Create(q) \/ QuoteGoes(q)
  \/ \E r \in Requests :
       Accepts(r) \/ Executes(r) \/ ContextEnds(r) \/ ResultsExpire(r)
  \/ Restart

\* The run's goroutine keeps running: batch.Run returns (BatchKeepsPromise of Promises;
\* its onDelta fills a builder), and store calls and the webhook have timeouts.
Fairness == \A r \in Requests : WF_vars(CountRun(r) \/ Executes(r))

Spec == Init /\ [][Next]_vars /\ Fairness

--------------------------------------------------------------------------------
(***************************************************************************)
(* Properties.                                                             *)
(***************************************************************************)

\* Requests that won the quote and executed something of it.
Ran(r) == chunks[r] > 0 \/ status[r] # "none"

\* "A quote runs once" (docs/WORKLOAD-RUNNERS.md), whatever the requests that race
\* for it have read, and across restarts.
QuoteRunsOnce ==
  \A r, s \in Requests : (Ran(r) /\ Ran(s) /\ asked[r] = asked[s]) => r = s

\* "You are charged the quoted price, once.  If every item fails, you are charged
\* nothing": a charge belongs to a run with a success, and the balance is what is
\* left of the deposit after one price for each such run.
ChargedOnceForWork ==
  /\ \A r \in Requests : charged[r] = 1 => ok[r] > 0
  /\ balance = Deposit - Price * Cardinality({r \in Requests : charged[r] = 1})

\* The count the ceiling is compared with is the number of live asynchronous runs:
\* no way out of a run leaks a place.
Counted(r) ==
  /\ mode[r] # "sync"
  /\ at[r] \in {"queued", "running", "metering", "settled", "parked", "notified", "saved",
               "unsaved"}

InflightIsLive == inflight = Cardinality({r \in Requests : Counted(r)})

\* The results are handed out, or said to have expired, only when they were parked;
\* and a run they are handed out for is settled on both sides, but for store calls
\* that failed: all of its successful items have been metered, and it was debited
\* exactly when there were any.
ResultsAreSettled ==
  \A r \in Requests :
    ResultsAnswer(r) \in {"results", "results_expired"} =>
      /\ results[r] # "none" /\ status[r] = "succeeded"
      /\ metered[r] = ok[r]
      /\ ok[r] = 0 => charged[r] = 0
      /\ (ok[r] - earned[r]) + (IF ok[r] > 0 THEN 1 - charged[r] ELSE 0) <= faults

\* "Run status: queued -> running -> succeeded | failed": what a poller is answered
\* never goes back, from the row or from the results, and the end is final.
Rank(answer) ==
  CASE answer = "not_found" -> 0
    [] answer = "not_finished" -> 1
    [] answer \in {"results", "run_failed"} -> 2
    [] answer = "results_expired" -> 3

StatusMovesForward ==
  [][\A r \in Requests :
       /\ ResultsAnswer(r)' # ResultsAnswer(r) =>
            /\ Rank(ResultsAnswer(r)) < Rank(ResultsAnswer(r)')
            /\ ResultsAnswer(r) # "run_failed"
       /\ row[r] = "running" => row'[r] # "queued"]_vars

\* A run that was accepted reaches its end and the poller learns of it, whatever else
\* failed on the way (its queued row, an earning, the debit, a progress row), unless the
\* process that ran it went down or the very call that saves the end failed.
RunFinishes ==
  \A r \in Requests :
    status[r] = "queued" ~>
      row[r] \in {"succeeded", "failed"} \/ at[r] \in {"lost", "unsaved"}
================================================================================
