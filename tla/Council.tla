---------------------------------- MODULE Council ----------------------------------
(***************************************************************************)
(* From a workload to a quote: the price, the supply that is online, the   *)
(* review of the Council and its public ledger of decisions.               *)
(*                                                                         *)
(* A request is priced, reviewed by some of the seats (one of them may be  *)
(* a model that answers anything, or nothing), its decision appended to    *)
(* the ledger under a lock and saved to the database after it, and only    *)
(* then answered.  Requests overlap.  The ledger is cut to the latest      *)
(* MaxRecent decisions and loaded again when the coordinator restarts.     *)
(* A decision's id, a hash, is any number that was not drawn before, and   *)
(* stands for the hash of its record.                                      *)
(***************************************************************************)
EXTENDS Scheduler, Pricing, Sequences

CONSTANTS
  Requests,        \* POST /v1/workloads and /demo/summarize in progress
  Shapes,          \* the workloads that are asked for
  DemoShape,       \* the one that the demo runs
  Fleets,          \* what the registry may hold when a request looks
  ModelSeats,      \* the seats whose reviewer is a model
  Replies,         \* what such a model may answer: a verdict and a severity, as written
  Ids,             \* decisions, in the order of their ids
  MaxRecent,       \* decisions the ledger keeps in memory
  MaxClock,        \* bound: seconds
  MaxRestarts,     \* bound: restarts
  MaxFaults,       \* bound: database calls that fail
  Percent,         \* PriceMultiplier
  SpotPercent,     \* ... times SpotPriceFactor
  MarginPct        \* MarketplaceMargin

DemoTail == 0                      \* lastDemoHash: the last of the seeded records

ASSUME CouncilAssumption ==
  /\ IsFiniteSet(Ids) /\ Ids \subseteq Nat \ {DemoTail}
  /\ IsFiniteSet(ModelSeats)
  /\ MaxRecent \in Nat \ {0}
  \* A multiplier or a margin of zero or less stands for its default.
  /\ {MaxTokens, Percent, SpotPercent, MarginPct} \subseteq Nat \ {0}
  /\ \A w \in Shapes \union {DemoShape} :      \* what handleCreateWorkload lets through
        /\ w.items \in 1..MaxItems /\ w.redundancy \in 1..MaxRedundancy
        /\ w.prompt \in Int /\ w.completion \in Int
  /\ \A reply \in Replies : {"decision", "severity"} \subseteq DOMAIN reply

VARIABLES
  req,        \* the handlers
  quotes,     \* the quote store
  recent,     \* the ledger in memory
  table,      \* council_decisions
  wired,      \* a persister is set in this boot
  lastDemo,   \* the last real demo run, with its decision
  clock, boot,
  used,       \* ids that were drawn
  count,      \* history: decisions published
  faults
vars == <<req, quotes, recent, table, wired, lastDemo, clock, boot, used, count, faults>>

Need(w) == [model |-> w.model, tier |-> w.tier, context |-> 0, class |-> w.hw]

\* supplyFor: the providers that could take the workload; their throughput and
\* scores, which only the estimated time shows, are left out.
Supply(fleet, w) == Eligible(fleet, Need(w))

PercentOf(w) == IF w.spot THEN SpotPercent ELSE Percent
PriceOf(w) == QuoteWorkload(w, PercentOf(w), MarginPct)

\* ForWorkload.
RiskClass(w) ==
  IF w.items > 2000 \/ w.redundancy >= 3 \/ w.class = "" THEN "high" ELSE "normal"

(*********************************** Seats ***********************************)
Verdicts == {"APPROVE", "CONDITIONAL", "BLOCK"}
Severities == {"LOW", "MEDIUM", "HIGH", "CRITICAL"}
Vote(decision, severity) == [decision |-> decision, severity |-> severity]
Missing == Vote("missing", "none")

SecurityCritic(w) ==
  LET e == Estimate(w)
  IN IF \/ e.items <= 0 \/ e.items > MaxItems \/ e.prompt < 0 \/ e.completion < 0
        \/ w.redundancy \notin 1..MaxRedundancy
     THEN Vote("BLOCK", "HIGH")
     ELSE Vote("APPROVE", IF RiskClass(w) = "high" THEN "MEDIUM" ELSE "LOW")

NodeSafety(w) ==
  IF w.tier = "community" /\ w.items > 1000 /\ w.redundancy < 2
  THEN Vote("CONDITIONAL", "MEDIUM")
  ELSE IF w.spot /\ w.redundancy >= 3
       THEN Vote("CONDITIONAL", "LOW")
       ELSE Vote("APPROVE", "LOW")

\* Less than a hundredth of a micro-dollar per token; the tokens are those of
\* the workload, times its items once more.
CostGovernance(w, price) ==
  LET tokens == Estimate(w).prompt + Estimate(w).completion
      items == IF w.items < 1 THEN 1 ELSE w.items
  IN IF price <= 0 THEN Vote("BLOCK", "HIGH")
     ELSE IF tokens > 0 /\ (100 * price) \div items < tokens
          THEN Vote("CONDITIONAL", "MEDIUM")
          ELSE Vote("APPROVE", "LOW")

\* parseReview: a verdict that is none makes the vote a missing one, a severity
\* that is none is MEDIUM.
ModelReview(reply) ==
  IF reply.decision \notin Verdicts THEN Missing
  ELSE Vote(reply.decision, IF reply.severity \in Severities THEN reply.severity ELSE "MEDIUM")

Seats == {"security_critic", "node_safety", "cost_governance"} \union ModelSeats

VoteOf(seat, w, price, reply) ==
  CASE seat = "security_critic" -> SecurityCritic(w)
    [] seat = "node_safety" -> NodeSafety(w)
    [] seat = "cost_governance" -> CostGovernance(w, price)
    [] OTHER -> ModelReview(reply)

\* The policy's count of seats; which ones is decided by a hash.
SeatsFor(w) ==
  LET policy == IF RiskClass(w) = "high" THEN 5 ELSE 3
      want == IF policy > Cardinality(Seats) THEN Cardinality(Seats) ELSE policy
  IN {chosen \in SUBSET Seats : Cardinality(chosen) = want}

MissingSeats(reviews) == {s \in DOMAIN reviews : reviews[s] = Missing}

Blocks(reviews, severities) ==
  {s \in DOMAIN reviews : reviews[s].decision = "BLOCK" /\ reviews[s].severity \in severities}

\* Mutant: the votes that came are the ones that count.
DecideOnWhatCame(reviews) ==
  IF Cardinality(Blocks(reviews, {"HIGH", "CRITICAL"})) >= 2 THEN "BLOCK"
  ELSE IF \A s \in DOMAIN reviews : reviews[s].decision = "APPROVE" THEN "APPROVE"
  ELSE "CONDITIONAL"
\* Evaluate: a missing seat, or two blocks that are critical, or high at least.
Decide(reviews) ==
  IF \/ MissingSeats(reviews) # {}
     \/ Cardinality(Blocks(reviews, {"CRITICAL"})) >= 2
     \/ Cardinality(Blocks(reviews, {"HIGH", "CRITICAL"})) >= 2
  THEN "BLOCK"
  ELSE IF \A s \in DOMAIN reviews : reviews[s].decision = "APPROVE" THEN "APPROVE"
  ELSE "CONDITIONAL"

(********************************** Ledger ***********************************)
\* Mutant: the oldest decisions are the ones that stay.
KeepOldest(records) ==
  IF Len(records) > MaxRecent THEN SubSeq(records, 1, MaxRecent) ELSE records
Latest(records) ==
  IF Len(records) > MaxRecent
  THEN SubSeq(records, Len(records) - MaxRecent + 1, Len(records)) ELSE records

\* LoadDecisions: by second, then by id.
Older(a, b) == a.at < b.at \/ (a.at = b.at /\ a.id < b.id)
OldestFirst(rows) ==
  {s \in [1..Cardinality(rows) -> rows] : \A i, j \in DOMAIN s : i < j => Older(s[i], s[j])}

\* Mutant: a decision links onto what the database holds.
LinkToSaved ==
  IF table = {} THEN DemoTail
  ELSE (CHOOSE row \in table : \A other \in table \ {row} : Older(other, row)).id
PreviousHash == IF recent = <<>> THEN DemoTail ELSE recent[Len(recent)].id

\* verifyChain, over the seeded records and the ledger.
ChainVerifies ==
  \A i \in 1..Len(recent) :
     recent[i].prev = IF i = 1 THEN DemoTail ELSE recent[i - 1].id

(********************************** Steps ************************************)
Idle == [step |-> "idle"]
NoDemo == [decision |-> "none"]

Init ==
  /\ req = [r \in Requests |-> Idle]
  /\ quotes = {} /\ recent = <<>> /\ table = {} /\ used = {}
  /\ wired \in BOOLEAN
  /\ lastDemo = NoDemo
  /\ clock = 0 /\ boot = 0 /\ count = 0 /\ faults = 0

\* A request that comes in finds providers for its workload, and a price within
\* its cap, or is turned down; the demo needs no provider to be quoted.
Ask(r, kind, w, fleet) ==
  /\ req[r].step = "idle"
  /\ kind = "workload" => /\ Supply(fleet, w) # {}
                          /\ w.cap > 0 => PriceOf(w) <= w.cap
  /\ \E id \in Ids \ used :
        /\ used' = used \union {id}
        /\ req' = [req EXCEPT ![r] = [step |-> "review", kind |-> kind, w |-> w,
                                      price |-> PriceOf(w), id |-> id]]
  /\ UNCHANGED <<quotes, recent, table, wired, lastDemo, clock, boot, count, faults>>

\* Evaluate: the selected seats vote.
Review(r) ==
  /\ req[r].step = "review"
  /\ \E chosen \in SeatsFor(req[r].w), reply \in Replies :
        LET reviews == [s \in chosen |-> VoteOf(s, req[r].w, req[r].price, reply)]
        IN req' = [req EXCEPT ![r] = [step |-> "publish", kind |-> @.kind, w |-> @.w,
                                      price |-> @.price, id |-> @.id, at |-> clock,
                                      reviews |-> reviews, decision |-> Decide(reviews)]]
  /\ UNCHANGED <<quotes, recent, table, wired, lastDemo, clock, boot, used, count, faults>>

\* RecordWorkloadDecision, under the lock.
Publish(r) ==
  /\ req[r].step = "publish"
  /\ LET record == [id |-> req[r].id, prev |-> PreviousHash, at |-> req[r].at,
                    decision |-> req[r].decision, num |-> count + 1, boot |-> boot]
     IN /\ recent' = Latest(Append(recent, record))
        /\ req' = [req EXCEPT ![r] = [step |-> "save", kind |-> @.kind, w |-> @.w,
                                      price |-> @.price, id |-> @.id, reviews |-> @.reviews,
                                      decision |-> @.decision, record |-> record]]
  /\ count' = count + 1
  /\ UNCHANGED <<quotes, table, wired, lastDemo, clock, boot, used, faults>>

\* ... and after it: what the database says is dropped.
Save(r) ==
  /\ req[r].step = "save"
  /\ req' = [req EXCEPT ![r].step = "answer"]
  /\ \/ wired /\ table' = table \union {req[r].record} /\ UNCHANGED faults
     \/ wired /\ faults < MaxFaults /\ faults' = faults + 1 /\ UNCHANGED table
     \/ ~wired /\ UNCHANGED <<table, faults>>
  /\ UNCHANGED <<quotes, recent, wired, lastDemo, clock, boot, used, count>>

\* A workload that is blocked is refused (409), any other one has a quote.
Answer(r) ==
  /\ req[r].step = "answer" /\ req[r].kind = "workload"
  /\ req' = [req EXCEPT ![r] = Idle]
  /\ quotes' = IF req[r].decision = "BLOCK" THEN quotes
               ELSE quotes \union {[id |-> req[r].id, price |-> req[r].price,
                                    num |-> req[r].record.num]}
  /\ UNCHANGED <<recent, table, wired, lastDemo, clock, boot, used, count, faults>>

\* The demo is the last demo when batch.Run, whatever device it finds, went well.
AnswerDemo(r) ==
  /\ req[r].step = "answer" /\ req[r].kind = "demo"
  /\ req' = [req EXCEPT ![r] = Idle]
  /\ \/ UNCHANGED lastDemo
     \/ /\ req[r].decision # "BLOCK"
        /\ lastDemo' = [decision |-> req[r].decision, id |-> req[r].id]
  /\ UNCHANGED <<quotes, recent, table, wired, clock, boot, used, count, faults>>

Tick ==
  /\ clock < MaxClock /\ clock' = clock + 1
  /\ UNCHANGED <<req, quotes, recent, table, wired, lastDemo, boot, used, count, faults>>

\* The coordinator restarts: the database may be out of reach then, or not let
\* the ledger be read.
Restart ==
  /\ boot < MaxRestarts /\ boot' = boot + 1
  /\ req' = [r \in Requests |-> Idle]
  /\ quotes' = {} /\ lastDemo' = NoDemo
  /\ \/ /\ wired' = TRUE /\ UNCHANGED faults
        /\ \E rows \in OldestFirst(table) : recent' = Latest(rows)
     \/ /\ faults < MaxFaults /\ faults' = faults + 1
        /\ wired' \in BOOLEAN /\ recent' = <<>>
  /\ UNCHANGED <<table, clock, used, count>>

Handle(r) ==
  \/ \E w \in Shapes, fleet \in Fleets : Ask(r, "workload", w, fleet)
  \/ Ask(r, "demo", DemoShape, {})
  \/ Review(r) \/ Publish(r) \/ Save(r) \/ Answer(r) \/ AnswerDemo(r)

Next == (\E r \in Requests : Handle(r)) \/ Tick \/ Restart
Spec == Init /\ [][Next]_vars

(******************************** Properties *********************************)
Decisions == {"APPROVE", "CONDITIONAL", "BLOCK"}
Record == [id : Ids, prev : Ids \union {DemoTail}, at : Nat, decision : Decisions,
           num : Nat, boot : Nat]

\* The ledger, the rows and the counters are what they should be.
TypeOK ==
  /\ recent \in Seq(Record) /\ Len(recent) <= MaxRecent
  /\ table \subseteq Record /\ IsFiniteSet(table) /\ used \subseteq Ids
  /\ wired \in BOOLEAN /\ {clock, boot, count, faults} \subseteq Nat

\* Whatever was quoted, or run as a demo, was judged by as many seats as its
\* risk asks for, all of which answered, and not two of which blocked it: a
\* model that fails stops the workload (handleCreateWorkload, Evaluate).
Judged(h) ==
  /\ DOMAIN h.reviews \in SeatsFor(h.w)
  /\ \A s \in DOMAIN h.reviews : h.reviews[s].decision \in Verdicts
  /\ Cardinality(Blocks(h.reviews, {"HIGH", "CRITICAL"})) < 2

QuotedWasReviewed ==
  [][/\ \A q \in quotes' \ quotes : \E r \in Requests : req[r] # Idle /\ req[r].id = q.id
                                                        /\ Judged(req[r])
     /\ lastDemo' \notin {lastDemo, NoDemo} =>
           \E r \in Requests : req[r] # Idle /\ req[r].id = lastDemo'.id /\ Judged(req[r])]_vars

\* The decision behind a quote is on the public ledger when the customer has
\* the quote, and stays until MaxRecent later ones have pushed it out
\* (RecordWorkloadDecision).
RecordIsShown ==
  \A q \in quotes :
     \/ \E i \in 1..Len(recent) : recent[i].id = q.id /\ recent[i].decision # "BLOCK"
     \/ Len(recent) = MaxRecent /\ \A i \in 1..MaxRecent : recent[i].num > q.num

\* However handlers overlap and saves fail, a decision of this boot links onto
\* the one that stands before it on the ledger (RecordWorkloadDecision).
ChainOfThisBoot ==
  \A i \in 2..Len(recent) : recent[i].boot = boot => recent[i].prev = recent[i - 1].id

\* The public ledger is one chain: every record holds the hash of the one
\* before it (verifyChain; docs/GO-TO-MARKET.md, "Council ledger now survives a
\* redeploy").
ChainValid == ChainVerifies
=============================================================================
