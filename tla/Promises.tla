-------------------------------- MODULE Promises --------------------------------
(***************************************************************************)
(* The calls that handlers are written against.  Three are shown to        *)
(* implement their abstract specifications, with the liveness that goes    *)
(* with them: AddCredit (Ledger, Account), relay.ExecuteOn (Relay,         *)
(* JobPromise) and batch.Run (Batch, BatchPromise).  The fourth is Allow   *)
(* of the rate limiter.  They share no state; the initial state chooses    *)
(* the one that moves, and of relay.ExecuteOn which call: one whose        *)
(* onDelta writes to a socket or one whose onDelta fills a builder.        *)
(***************************************************************************)
EXTENDS Ledger, Sequences

CONSTANTS
  Tasks, Streamed, Conns, Faulty, BufCap, MaxTokens, FaultyUp,         \* relay.ExecuteOn
  NItems, Provs, Requested, DefaultConcurrency, MaxConcurrency,        \* batch.Run
  Callers, Rate, Marks, Pauses, Horizon                                \* Allow

VARIABLES
  part,
  link, hub, down, up, active, tabled, chan, closed, pc, prov, next, out, outcome, usage,
  caller, session, task, gen, stop,
  phase, cands, workers, fed, place, idx, chosen, err, inflight, assigned, results, ctx,
  now, seen, tokens, last, since, promised

relayVars == <<link, hub, down, up, active, tabled, chan, closed, pc, prov, next, out, outcome,
               usage, caller, session, task, gen, stop>>
batchVars == <<phase, cands, workers, fed, place, idx, chosen, err, inflight, assigned, results,
               ctx>>
limiterVars == <<now, seen, tokens, last, since, promised>>

R == INSTANCE Relay WITH Jobs <- Tasks, entry <- tabled
B == INSTANCE Batch WITH at <- place, prov <- chosen
L == INSTANCE RateLimit

ASSUME BatchAssumed == B!BatchAssumption
ASSUME RateAssumed == L!RateAssumption

PromisesInit ==
  part \in {"ledger", "batch", "limiter"} \cup Tasks /\ Init /\ R!Init /\ B!Init /\ L!Init

LedgerMoves == part = "ledger" /\ Next /\ UNCHANGED <<part, relayVars, batchVars, limiterVars>>
RelayMoves ==
  /\ part \in Tasks /\ R!Next /\ \A t \in Tasks \ {part} : pc'[t] = "idle"
  /\ UNCHANGED <<part, vars, batchVars, limiterVars>>
BatchMoves == part = "batch" /\ B!Next /\ UNCHANGED <<part, vars, relayVars, limiterVars>>
LimiterMoves == part = "limiter" /\ L!Next /\ UNCHANGED <<part, vars, relayVars, batchVars>>

PromisesNext == LedgerMoves \/ RelayMoves \/ BatchMoves \/ LimiterMoves

\* No fair action of a component that does not move is enabled, but Stripe's delivery.
PromisesSpec ==
  /\ PromisesInit /\ [][PromisesNext]_<<part, vars, relayVars, batchVars, limiterVars>>
  /\ R!Fairness /\ B!Fairness
  /\ \A c \in Calls : WF_vars(Posts(c))
  /\ \A e \in Topups : WF_vars(part = "ledger" /\ Redelivers(e))

\* A job that has been given a provider ends (Relay!EveryJobEnds).
EveryJobEnds == R!EveryJobEnds
\* A provider stops generating for a job that was given up (Relay!AbandonedTasksEnd).
AbandonedTasksEnd == R!AbandonedTasksEnd
\* Relay, table, hub and provider implement the call of JobPromise (Relay!KeepsPromise).
RelayKeepsPromise == R!KeepsPromise
\* batch.Run implements the map of BatchPromise, and returns (Batch!KeepsPromise).
BatchKeepsPromise == B!KeepsPromise
\* The pool's counters, shares, indices and summary (Batch!PoolInv).
PoolInv == B!PoolInv
\* No caller gets more than its rate, nor waits in vain (RateLimit!LimiterInv).
LimiterInv == L!LimiterInv
================================================================================
