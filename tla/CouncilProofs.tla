------------------------------- MODULE CouncilProofs -------------------------------
(***************************************************************************)
(* Theorems about Council, for all sets of requests, workloads and seats,  *)
(* all answers of a model seat and every length of the ledger.             *)
(***************************************************************************)
EXTENDS Council, FiniteSetTheorems, SequenceTheorems, TLAPS

(***************************************************************************)
(* The inductive invariant.  The ledger: decisions of this boot stand      *)
(* after all others, numbered upwards, each linked onto the one before it. *)
(* A request: what its place says of its reviews and its record.           *)
(***************************************************************************)
Places == 1..Len(recent)

OfThisBoot ==
  /\ \A i \in Places : recent[i].boot <= boot /\ recent[i].num <= count
  /\ \A row \in table : row.boot <= boot /\ row.num <= count
  /\ \A i, j \in Places : i < j /\ recent[i].boot = boot =>
        recent[j].boot = boot /\ recent[i].num < recent[j].num

\* A decision of this boot is on the ledger, or later ones have pushed it out.
PushedOut(num) == Len(recent) = MaxRecent /\ \A i \in Places : recent[i].num > num

Shown(record) ==
  /\ record \in Record /\ record.boot = boot /\ record.num <= count
  /\ (\E i \in Places : recent[i] = record) \/ PushedOut(record.num)

Reviewed(h) ==
  /\ DOMAIN h.reviews \in SeatsFor(h.w)
  /\ \A s \in DOMAIN h.reviews : h.reviews[s].decision \in Verdicts \/ h.reviews[s] = Missing
  /\ h.decision = Decide(h.reviews)

RequestOK(r) ==
  LET h == req[r]
  IN /\ h.step \in {"idle", "review", "publish", "save", "answer"}
     /\ h.step # "idle" => h.id \in Ids
     /\ h.step = "publish" => h.at \in Nat
     /\ h.step = "save" =>
          {"step", "id", "w", "reviews", "decision", "record"} \subseteq DOMAIN h
     /\ h.step \in {"publish", "save", "answer"} => Reviewed(h)
     /\ h.step \in {"save", "answer"} =>
          /\ Shown(h.record)
          /\ h.record.id = h.id /\ h.record.decision = h.decision

QuotesShown ==
  \A q \in quotes :
     /\ q.num \in Nat /\ q.num <= count
     /\ \/ \E i \in Places : /\ recent[i].id = q.id /\ recent[i].boot = boot
                             /\ recent[i].num = q.num /\ recent[i].decision # "BLOCK"
        \/ PushedOut(q.num)

RequestsOK == \A r \in Requests : RequestOK(r)

CouncilInv ==
  /\ TypeOK /\ req = [r \in Requests |-> req[r]]
  /\ OfThisBoot /\ ChainOfThisBoot
  /\ RequestsOK /\ QuotesShown

(******************************** Sequences **********************************)
\* Appending to the ledger drops its first decision when it is full.
LEMMA LatestOfAppend ==
  ASSUME CouncilAssumption, NEW S, NEW s \in Seq(S), Len(s) <= MaxRecent, NEW x \in S
  PROVE  LET t == Latest(Append(s, x))
             k == IF Len(s) = MaxRecent THEN 1 ELSE 0
         IN /\ t \in Seq(S) /\ Len(t) = Len(s) + 1 - k /\ t[Len(t)] = x
            /\ \A i \in 1..Len(s) - k : t[i] = s[i + k]
<1> DEFINE a == Append(s, x)
<1>1. MaxRecent \in Nat \ {0} BY DEF CouncilAssumption
<1>2. /\ a \in Seq(S) /\ Len(a) = Len(s) + 1 /\ a[Len(s) + 1] = x
      /\ \A i \in 1..Len(s) : a[i] = s[i]
      /\ Len(s) \in Nat
  BY AppendProperties, LenProperties
<1>3. CASE Len(s) < MaxRecent
  <2>1. Latest(a) = a BY <1>1, <1>2, <1>3 DEF Latest
  <2>. QED BY <1>1, <1>2, <1>3, <2>1
<1>4. CASE Len(s) = MaxRecent
  <2> DEFINE m == 2
             n == MaxRecent + 1
             t == SubSeq(a, m, n)
  <2>1. Latest(a) = t BY <1>1, <1>2, <1>4 DEF Latest
  <2>2. m \in Int /\ n \in Int /\ m <= n /\ n - m + 1 = MaxRecent BY <1>1
  <2>3. \A i \in m..n : a[i] \in S BY <1>1, <1>2, <1>4, ElementOfSeq
  <2>4. \A i \in 1..MaxRecent : m + i - 1 = i + 1 BY <1>1
  <2> HIDE DEF m, n, a
  <2>5. /\ t \in Seq(S) /\ Len(t) = n - m + 1
        /\ \A i \in 1..(n - m + 1) : t[i] = a[m + i - 1]
    <3>1. t \in Seq(S) BY <2>2, <2>3, SubSeqProperties
    <3>2. Len(t) = IF m <= n THEN n - m + 1 ELSE 0 BY <2>2, <2>3, SubSeqProperties
    <3>3. \A i \in 1..(n - m + 1) : t[i] = a[m + i - 1] BY <2>2, <2>3, SubSeqProperties
    <3>. QED BY <2>2, <3>1, <3>2, <3>3
  <2>6. Len(t) = MaxRecent /\ \A i \in 1..MaxRecent : t[i] = a[i + 1]
    <3>1. Len(t) = MaxRecent BY <2>2, <2>5
    <3>2. \A i \in 1..MaxRecent : t[i] = a[m + i - 1] BY <2>2, <2>5
    <3>. QED BY <2>4, <3>1, <3>2
  <2> HIDE DEF t
  <2>7. Len(s) + 1 - 1 = Len(s) /\ Len(s) - 1 \in Int BY <1>2
  <2>8. \A i \in 1..Len(s) - 1 : t[i] = s[i + 1] BY <1>1, <1>2, <1>4, <2>6
  <2>9. t[Len(t)] = x BY <1>1, <1>2, <1>4, <2>6
  <2>10. Latest(Append(s, x)) = t BY <2>1 DEF a
  <2>. QED BY <1>4, <2>5, <2>6, <2>7, <2>8, <2>9, <2>10
<1>. QED BY <1>1, <1>2, <1>3, <1>4

\* What is kept of the rows are rows.
LEMMA LatestOfRows ==
  ASSUME CouncilAssumption, NEW S, NEW s \in Seq(S)
  PROVE  /\ Latest(s) \in Seq(S) /\ Len(Latest(s)) <= MaxRecent
         /\ \A i \in 1..Len(Latest(s)) : \E j \in 1..Len(s) : Latest(s)[i] = s[j]
<1> DEFINE m == Len(s) - MaxRecent + 1
           t == SubSeq(s, m, Len(s))
<1>1. MaxRecent \in Nat \ {0} BY DEF CouncilAssumption
<1>2. Len(s) \in Nat /\ \A i \in 1..Len(s) : s[i] \in S BY LenProperties, ElementOfSeq
<1>3. CASE Len(s) <= MaxRecent
  <2>1. Latest(s) = s BY <1>1, <1>2, <1>3 DEF Latest
  <2>. QED BY <1>2, <1>3, <2>1
<1>4. CASE Len(s) > MaxRecent
  <2>1. Latest(s) = t BY <1>1, <1>2, <1>4 DEF Latest
  <2>2. m \in Int /\ Len(s) \in Int /\ 1 <= m /\ m <= Len(s) /\ Len(s) - m + 1 = MaxRecent
    BY <1>1, <1>2, <1>4
  <2>3. \A i \in m..Len(s) : s[i] \in S BY <1>2, <2>2
  <2> HIDE DEF m
  <2>4. /\ t \in Seq(S) /\ Len(t) = Len(s) - m + 1
        /\ \A i \in 1..(Len(s) - m + 1) : t[i] = s[m + i - 1]
    BY <2>2, <2>3, SubSeqProperties
  <2>5. \A i \in 1..MaxRecent : m + i - 1 \in 1..Len(s) BY <1>1, <2>2
  <2>6. Len(t) = MaxRecent BY <2>2, <2>4
  <2>7. \A i \in 1..MaxRecent : t[i] = s[m + i - 1] BY <2>2, <2>4
  <2>. HIDE DEF t
  <2>8. \A i \in 1..Len(t) : \E j \in 1..Len(s) : t[i] = s[j] BY <2>5, <2>6, <2>7
  <2>. QED BY <1>1, <2>1, <2>4, <2>6, <2>8
<1>. QED BY <1>1, <1>2, <1>3, <1>4

(********************************** Votes ************************************)
\* A seat votes one of the three verdicts, or its vote is missing.
LEMMA VoteIsOne ==
  ASSUME NEW seat, NEW w, NEW price, NEW reply
  PROVE  LET v == VoteOf(seat, w, price, reply) IN v.decision \in Verdicts \/ v = Missing
<1>1. SecurityCritic(w).decision \in Verdicts BY DEF SecurityCritic, Vote, Verdicts
<1>2. NodeSafety(w).decision \in Verdicts BY DEF NodeSafety, Vote, Verdicts
<1>3. CostGovernance(w, price).decision \in Verdicts
  <2>1. \A s : /\ Vote("BLOCK", s).decision \in Verdicts
               /\ Vote("CONDITIONAL", s).decision \in Verdicts
               /\ Vote("APPROVE", s).decision \in Verdicts
    BY DEF Vote, Verdicts
  <2>. QED BY <2>1, Zenon DEF CostGovernance
<1>4. ModelReview(reply).decision \in Verdicts \/ ModelReview(reply) = Missing
  BY DEF ModelReview, Vote
<1>. QED BY <1>1, <1>2, <1>3, <1>4, Zenon DEF VoteOf

\* What Evaluate lets through was judged.
LEMMA NotBlockedIsJudged ==
  ASSUME CouncilAssumption, NEW h, Reviewed(h), h.decision # "BLOCK"
  PROVE  Judged(h)
<1> DEFINE B == Blocks(h.reviews, {"HIGH", "CRITICAL"})
<1>1. MissingSeats(h.reviews) = {} /\ ~(Cardinality(B) >= 2)
  BY Zenon DEF Reviewed, Decide
<1>2. \A s \in DOMAIN h.reviews : h.reviews[s].decision \in Verdicts
  BY <1>1, Zenon DEF Reviewed, MissingSeats
<1>3. Cardinality(B) \in Nat
  <2>1. DOMAIN h.reviews \subseteq Seats BY DEF Reviewed, SeatsFor
  <2>2. IsFiniteSet(Seats)
    <3>1. IsFiniteSet({"security_critic", "node_safety", "cost_governance"})
      <4>1. IsFiniteSet({}) BY FS_EmptySet
      <4>2. IsFiniteSet({} \cup {"security_critic"}) BY <4>1, FS_AddElement
      <4>3. IsFiniteSet(({} \cup {"security_critic"}) \cup {"node_safety"})
        BY <4>2, FS_AddElement
      <4>4. IsFiniteSet((({} \cup {"security_critic"}) \cup {"node_safety"})
                        \cup {"cost_governance"})
        BY <4>3, FS_AddElement
      <4>5. (({} \cup {"security_critic"}) \cup {"node_safety"}) \cup {"cost_governance"}
            = {"security_critic", "node_safety", "cost_governance"}
        OBVIOUS
      <4>. QED BY <4>4, <4>5
    <3>. QED BY <3>1, FS_Union DEF Seats, CouncilAssumption
  <2>3. B \subseteq Seats BY <2>1 DEF Blocks
  <2>. QED BY <2>2, <2>3, FS_Subset, FS_CardinalityType
<1>. QED BY <1>1, <1>2, <1>3 DEF Judged, Reviewed

(********************************* Requests **********************************)
LEMMA OneRequestMoves ==
  ASSUME req = [q \in Requests |-> req[q]], NEW r \in Requests, NEW h,
         req' = [req EXCEPT ![r] = h]
  PROVE  /\ req' = [q \in Requests |-> req'[q]] /\ req'[r] = h
         /\ \A q \in Requests \ {r} : req'[q] = req[q]
OBVIOUS

\* Whatever does not touch the ledger leaves alone what it says of other requests
\* and of quotes.
LEMMA OthersStay ==
  ASSUME NEW r \in Requests, RequestOK(r), UNCHANGED <<req[r], recent, boot, count>>
  PROVE  RequestOK(r)'
BY DEF RequestOK, Reviewed, Shown, PushedOut, Places

LEMMA QuotesStay ==
  ASSUME QuotesShown, quotes' \subseteq quotes, UNCHANGED <<recent, boot, count>>
  PROVE  QuotesShown'
BY DEF QuotesShown, PushedOut, Places

LEMMA LedgerStays ==
  ASSUME OfThisBoot, ChainOfThisBoot, UNCHANGED <<recent, table, boot, count>>
  PROVE  OfThisBoot' /\ ChainOfThisBoot'
BY DEF OfThisBoot, ChainOfThisBoot, Places

LEMMA InitOK == ASSUME CouncilAssumption, Init PROVE CouncilInv
<1>1. recent = <<>> /\ Len(recent) = 0 /\ recent \in Seq(Record) BY DEF Init
<1>2. TypeOK BY <1>1, FS_EmptySet DEF Init, TypeOK, CouncilAssumption
<1>3. req = [r \in Requests |-> req[r]] BY DEF Init
<1>4. OfThisBoot /\ ChainOfThisBoot
  BY <1>1 DEF Init, OfThisBoot, ChainOfThisBoot, Places
<1>5. RequestsOK BY DEF Init, RequestsOK, RequestOK, Idle
<1>6. QuotesShown BY DEF Init, QuotesShown
<1>. QED BY <1>2, <1>3, <1>4, <1>5, <1>6 DEF CouncilInv

LEMMA AskOK ==
  ASSUME CouncilAssumption, CouncilInv, NEW r \in Requests, NEW kind, NEW w, NEW fleet,
         Ask(r, kind, w, fleet)
  PROVE  CouncilInv'
<1> USE DEF CouncilInv
<1>1. PICK id \in Ids \ used :
        /\ used' = used \union {id}
        /\ req' = [req EXCEPT ![r] = [step |-> "review", kind |-> kind, w |-> w,
                                      price |-> PriceOf(w), id |-> id]]
  BY DEF Ask
<1>2. UNCHANGED <<quotes, recent, table, wired, lastDemo, clock, boot, count, faults>>
  BY DEF Ask
<1>3. TypeOK' BY <1>1, <1>2 DEF TypeOK
<1>4. RequestOK(r)' BY <1>1 DEF RequestOK
<1>5. \A q \in Requests \ {r} : RequestOK(q)'
  BY <1>1, <1>2, OneRequestMoves, OthersStay DEF RequestsOK
<1>6. req' = [q \in Requests |-> req'[q]] BY <1>1, OneRequestMoves
<1>7. OfThisBoot' /\ ChainOfThisBoot' /\ QuotesShown' BY <1>2, LedgerStays, QuotesStay
<1>. QED BY <1>3, <1>4, <1>5, <1>6, <1>7 DEF RequestsOK

LEMMA ReviewOK ==
  ASSUME CouncilAssumption, CouncilInv, NEW r \in Requests, Review(r)
  PROVE  CouncilInv'
<1> USE DEF CouncilInv
<1>1. PICK chosen \in SeatsFor(req[r].w), reply \in Replies :
        LET reviews == [s \in chosen |-> VoteOf(s, req[r].w, req[r].price, reply)]
        IN req' = [req EXCEPT ![r] = [step |-> "publish", kind |-> @.kind, w |-> @.w,
                                      price |-> @.price, id |-> @.id, at |-> clock,
                                      reviews |-> reviews, decision |-> Decide(reviews)]]
  BY DEF Review
<1>2. /\ req[r].step = "review"
      /\ UNCHANGED <<quotes, recent, table, wired, lastDemo, clock, boot, used, count, faults>>
  BY DEF Review
<1> DEFINE reviews == [s \in chosen |-> VoteOf(s, req[r].w, req[r].price, reply)]
           h == [step |-> "publish", kind |-> req[r].kind, w |-> req[r].w,
                 price |-> req[r].price, id |-> req[r].id, at |-> clock,
                 reviews |-> reviews, decision |-> Decide(reviews)]
<1>3. req' = [req EXCEPT ![r] = h] BY <1>1
<1>4. \A s \in DOMAIN reviews : reviews[s].decision \in Verdicts \/ reviews[s] = Missing
  BY VoteIsOne
<1>5. Reviewed(h) BY <1>4 DEF Reviewed
<1>6. h.id \in Ids /\ h.at \in Nat /\ h.step = "publish"
  BY <1>2 DEF RequestsOK, RequestOK, TypeOK
<1> HIDE DEF h
<1>7. req'[r] = h /\ req' = [q \in Requests |-> req'[q]] BY <1>3, OneRequestMoves
<1>8. RequestOK(r)' BY <1>5, <1>6, <1>7 DEF RequestOK, Reviewed
<1>9. \A q \in Requests \ {r} : RequestOK(q)'
  BY <1>2, <1>3, OneRequestMoves, OthersStay DEF RequestsOK
<1>10. TypeOK' BY <1>2 DEF TypeOK
<1>11. OfThisBoot' /\ ChainOfThisBoot' /\ QuotesShown' BY <1>2, LedgerStays, QuotesStay
<1>. QED BY <1>7, <1>8, <1>9, <1>10, <1>11 DEF RequestsOK

LEMMA SaveOK ==
  ASSUME CouncilAssumption, CouncilInv, NEW r \in Requests, Save(r)
  PROVE  CouncilInv'
<1> USE DEF CouncilInv
<1>1. /\ req[r].step = "save" /\ table' \in {table, table \union {req[r].record}}
      /\ faults' \in {faults, faults + 1}
      /\ UNCHANGED <<quotes, recent, wired, lastDemo, clock, boot, used, count>>
  BY DEF Save
<1> DEFINE h == [req[r] EXCEPT !.step = "answer"]
<1>2. req' = [req EXCEPT ![r] = h] BY DEF Save
<1>3. RequestOK(r) BY DEF RequestsOK
<1>4. /\ h.step = "answer" /\ h.id = req[r].id /\ h.w = req[r].w
      /\ h.reviews = req[r].reviews /\ h.decision = req[r].decision
      /\ h.record = req[r].record
  BY <1>1, <1>3 DEF RequestOK
<1> HIDE DEF h
<1>5. req'[r] = h /\ req' = [q \in Requests |-> req'[q]] BY <1>2, OneRequestMoves
<1>6. RequestOK(r)'
  BY <1>1, <1>3, <1>4, <1>5 DEF RequestOK, Reviewed, Shown, PushedOut, Places
<1>7. \A q \in Requests \ {r} : RequestOK(q)'
  BY <1>1, <1>2, OneRequestMoves, OthersStay DEF RequestsOK
<1>8. Shown(req[r].record) BY <1>1, <1>3 DEF RequestOK
<1>9. TypeOK'
  <2>1. IsFiniteSet(table) /\ IsFiniteSet(table \union {req[r].record})
    BY FS_AddElement DEF TypeOK
  <2>2. IsFiniteSet(table') BY <1>1, <2>1
  <2>. QED BY <1>1, <1>8, <2>2 DEF TypeOK, Shown
<1>10. OfThisBoot'
  <2>1. req[r].record.boot = boot /\ req[r].record.num <= count /\ boot \in Nat
    BY <1>8 DEF Shown, TypeOK
  <2>2. \A row \in table' : row \in table \/ row = req[r].record BY <1>1
  <2>3. \A row \in table' : row.boot <= boot /\ row.num <= count
    BY <2>1, <2>2 DEF OfThisBoot
  <2>. QED BY <1>1, <2>3 DEF OfThisBoot, Places
<1>11. ChainOfThisBoot' BY <1>1 DEF ChainOfThisBoot
<1>12. QuotesShown' BY <1>1, QuotesStay
<1>. QED BY <1>5, <1>6, <1>7, <1>9, <1>10, <1>11, <1>12 DEF RequestsOK

\* A request that is answered is over; its quote is shown because its record is.
LEMMA AnswerOK ==
  ASSUME CouncilAssumption, CouncilInv, NEW r \in Requests, Answer(r)
  PROVE  CouncilInv'
<1> USE DEF CouncilInv
<1>1. /\ req[r].step = "answer" /\ req' = [req EXCEPT ![r] = Idle]
      /\ UNCHANGED <<recent, table, wired, lastDemo, clock, boot, used, count, faults>>
  BY DEF Answer
<1>2. RequestOK(r)' BY <1>1, OneRequestMoves DEF RequestOK, Idle
<1>3. \A q \in Requests \ {r} : RequestOK(q)'
  BY <1>1, OneRequestMoves, OthersStay DEF RequestsOK
<1>4. req' = [q \in Requests |-> req'[q]] BY <1>1, OneRequestMoves
<1>5. TypeOK' BY <1>1 DEF TypeOK
<1>6. OfThisBoot' /\ ChainOfThisBoot' BY <1>1, LedgerStays
<1>7. QuotesShown'
  <2>1. CASE quotes' = quotes BY <1>1, <2>1, QuotesStay
  <2>2. CASE /\ req[r].decision # "BLOCK"
             /\ quotes' = quotes \union {[id |-> req[r].id, price |-> req[r].price,
                                          num |-> req[r].record.num]}
    <3>1. /\ Shown(req[r].record) /\ req[r].record.id = req[r].id
          /\ req[r].record.decision = req[r].decision
      BY <1>1 DEF RequestsOK, RequestOK
    <3> DEFINE num == req[r].record.num
               q == [id |-> req[r].id, price |-> req[r].price, num |-> num]
               Found(x) == \/ \E i \in Places :
                                /\ recent[i].id = x.id /\ recent[i].boot = boot
                                /\ recent[i].num = x.num /\ recent[i].decision # "BLOCK"
                           \/ PushedOut(x.num)
    <3>2. q.num \in Nat /\ q.num <= count BY <3>1 DEF Shown, Record
    <3>3. Found(q)
      <4>1. q.id = req[r].id /\ q.num = num OBVIOUS
      <4> HIDE DEF q
      <4>2. CASE PushedOut(num) BY <4>1, <4>2
      <4>3. CASE \E i \in Places : recent[i] = req[r].record BY <2>2, <3>1, <4>1, <4>3 DEF Shown
      <4> QED BY <3>1, <4>2, <4>3 DEF Shown
    <3>4. \A x \in quotes : x.num \in Nat /\ x.num <= count /\ Found(x) BY DEF QuotesShown
    <3>5. quotes' = quotes \union {q} BY <2>2
    <3>6. UNCHANGED <<count, recent, boot>> BY <1>1
    <3> HIDE DEF q
    <3>. QED BY <3>2, <3>3, <3>4, <3>5, <3>6 DEF QuotesShown, PushedOut, Places
  <2>. QED BY <2>1, <2>2 DEF Answer
<1>. QED BY <1>2, <1>3, <1>4, <1>5, <1>6, <1>7 DEF RequestsOK

LEMMA AnswerDemoOK ==
  ASSUME CouncilAssumption, CouncilInv, NEW r \in Requests, AnswerDemo(r)
  PROVE  CouncilInv'
<1> USE DEF CouncilInv
<1>1. /\ req' = [req EXCEPT ![r] = Idle]
      /\ UNCHANGED <<quotes, recent, table, wired, clock, boot, used, count, faults>>
  BY DEF AnswerDemo
<1>2. RequestOK(r)' BY <1>1, OneRequestMoves DEF RequestOK, Idle
<1>3. \A q \in Requests \ {r} : RequestOK(q)'
  BY <1>1, OneRequestMoves, OthersStay DEF RequestsOK
<1>4. req' = [q \in Requests |-> req'[q]] BY <1>1, OneRequestMoves
<1>5. TypeOK' BY <1>1 DEF TypeOK
<1>6. OfThisBoot' /\ ChainOfThisBoot' /\ QuotesShown' BY <1>1, LedgerStays, QuotesStay
<1>. QED BY <1>2, <1>3, <1>4, <1>5, <1>6 DEF RequestsOK

\* The clock ticks, or nothing happens.
LEMMA TickOK ==
  ASSUME CouncilAssumption, CouncilInv, Tick \/ UNCHANGED vars
  PROVE  CouncilInv'
<1> USE DEF CouncilInv
<1>1. /\ clock' \in {clock, clock + 1}
      /\ UNCHANGED <<req, quotes, recent, table, wired, lastDemo, boot, used, count, faults>>
  BY DEF Tick, vars
<1>2. TypeOK' BY <1>1 DEF TypeOK
<1>3. RequestsOK' BY <1>1, OthersStay DEF RequestsOK
<1>4. OfThisBoot' /\ ChainOfThisBoot' /\ QuotesShown' BY <1>1, LedgerStays, QuotesStay
<1>. QED BY <1>1, <1>2, <1>3, <1>4

\* After a restart every decision is of an earlier boot, and nobody waits for one.
LEMMA RestartOK ==
  ASSUME CouncilAssumption, CouncilInv, Restart
  PROVE  CouncilInv'
<1> USE DEF CouncilInv
<1>1. /\ boot' = boot + 1 /\ req' = [r \in Requests |-> Idle] /\ quotes' = {}
      /\ wired' \in BOOLEAN /\ faults' \in {faults, faults + 1}
      /\ UNCHANGED <<table, clock, used, count>>
  BY DEF Restart, TypeOK
<1>2. /\ recent' \in Seq(Record) /\ Len(recent') <= MaxRecent
      /\ \A i \in 1..Len(recent') : recent'[i].boot <= boot /\ recent'[i].num <= count
  <2>1. CASE recent' = <<>> BY <2>1 DEF CouncilAssumption
  <2>2. CASE \E rows \in OldestFirst(table) : recent' = Latest(rows)
    <3>1. PICK rows \in OldestFirst(table) : recent' = Latest(rows) BY <2>2
    <3>2. rows \in [1..Cardinality(table) -> table] BY DEF OldestFirst
    <3>3. Cardinality(table) \in Nat BY FS_CardinalityType DEF TypeOK
    <3>4. rows \in Seq(table) BY <3>2, <3>3
    <3>5. rows \in Seq(Record) /\ \A j \in 1..Len(rows) : rows[j] \in table
      BY <3>4, ElementOfSeq DEF TypeOK
    <3>6. /\ Latest(rows) \in Seq(Record) /\ Len(Latest(rows)) <= MaxRecent
          /\ \A i \in 1..Len(Latest(rows)) : \E j \in 1..Len(rows) : Latest(rows)[i] = rows[j]
      BY <3>5, LatestOfRows
    <3>. QED BY <3>1, <3>5, <3>6 DEF OfThisBoot
  <2>. QED BY <2>1, <2>2 DEF Restart
<1>3. boot \in Nat /\ \A i \in 1..Len(recent') : recent'[i] \in Record
  BY <1>2, ElementOfSeq DEF TypeOK
<1>4. \A i \in 1..Len(recent') : recent'[i].boot \in Nat /\ recent'[i].boot # boot'
  <2> TAKE i \in 1..Len(recent')
  <2>1. recent'[i].boot \in Nat BY <1>3 DEF Record
  <2>2. recent'[i].boot <= boot /\ boot' = boot + 1 /\ boot \in Nat BY <1>1, <1>2, <1>3
  <2> QED BY <2>1, <2>2
<1>5. TypeOK' BY <1>1, <1>2 DEF TypeOK
<1>6. OfThisBoot'
  <2>1. \A i \in 1..Len(recent') : recent'[i].boot <= boot' /\ recent'[i].num <= count'
    <3> TAKE i \in 1..Len(recent')
    <3>1. recent'[i].boot <= boot /\ recent'[i].num <= count BY <1>2
    <3>2. recent'[i].boot \in Nat /\ boot' = boot + 1 /\ boot \in Nat /\ count' = count
      BY <1>1, <1>3, <1>4
    <3>. QED BY <3>1, <3>2
  <2>2. \A row \in table' : row.boot <= boot' /\ row.num <= count'
    <3> TAKE row \in table'
    <3>1. row \in table /\ boot' = boot + 1 /\ count' = count BY <1>1
    <3>2. row.boot \in Nat BY <3>1 DEF TypeOK, Record
    <3>3. row.boot <= boot /\ row.num <= count BY <3>1 DEF OfThisBoot
    <3>. QED BY <1>3, <3>1, <3>2, <3>3
  <2>. QED BY <1>4, <2>1, <2>2 DEF OfThisBoot, Places
<1>7. ChainOfThisBoot'
  <2>1. \A i \in 2..Len(recent') : i \in 1..Len(recent') BY <1>2
  <2>. QED BY <1>4, <2>1 DEF ChainOfThisBoot
<1>8. RequestsOK' BY <1>1 DEF RequestsOK, RequestOK, Idle
<1>9. QuotesShown' BY <1>1 DEF QuotesShown
<1>10. req' = [r \in Requests |-> req'[r]] BY <1>1
<1>. QED BY <1>5, <1>6, <1>7, <1>8, <1>9, <1>10

\* What was shown is shown still, or pushed out by later decisions.
LEMMA PublishOK ==
  ASSUME CouncilAssumption, CouncilInv, NEW r \in Requests, Publish(r)
  PROVE  CouncilInv'
<1> USE DEF CouncilInv
<1> DEFINE rec == [id |-> req[r].id, prev |-> PreviousHash, at |-> req[r].at,
                   decision |-> req[r].decision, num |-> count + 1, boot |-> boot]
           h == [step |-> "save", kind |-> req[r].kind, w |-> req[r].w,
                 price |-> req[r].price, id |-> req[r].id, reviews |-> req[r].reviews,
                 decision |-> req[r].decision, record |-> rec]
           n == Len(recent)
           k == IF n = MaxRecent THEN 1 ELSE 0
           PushedNow(num) == /\ Len(recent') = MaxRecent
                             /\ \A i \in 1..Len(recent') : recent'[i].num > num
           ListedNow(record) == \E i \in 1..Len(recent') : recent'[i] = record
<1>1. /\ req[r].step = "publish" /\ count' = count + 1
      /\ recent' = Latest(Append(recent, rec)) /\ req' = [req EXCEPT ![r] = h]
      /\ UNCHANGED <<quotes, table, wired, lastDemo, clock, boot, used, faults>>
  BY DEF Publish
<1>2. /\ RequestOK(r) /\ req[r].id \in Ids /\ req[r].at \in Nat /\ Reviewed(req[r])
  BY <1>1 DEF RequestsOK, RequestOK
<1>3. /\ recent \in Seq(Record) /\ n \in Nat /\ n <= MaxRecent /\ MaxRecent \in Nat \ {0}
      /\ count \in Nat /\ boot \in Nat
      /\ \A i \in 1..n : recent[i] \in Record
  BY LenProperties, ElementOfSeq DEF TypeOK, CouncilAssumption
<1>4. PreviousHash \in Ids \union {DemoTail}
  <2>1. CASE recent = <<>> BY <2>1 DEF PreviousHash
  <2>2. CASE recent # <<>>
    <3>1. n # 0 BY <1>3, <2>2, EmptySeq
    <3>2. n \in 1..n BY <1>3, <3>1
    <3>3. recent[n] \in Record BY <1>3, <3>2
    <3> HIDE DEF n
    <3>4. recent[n].id \in Ids BY <3>3 DEF Record
    <3>5. PreviousHash = recent[n].id BY <2>2 DEF PreviousHash, n
    <3>. QED BY <3>4, <3>5
  <2>. QED BY <2>1, <2>2
<1>5. req[r].decision \in Decisions BY <1>2, Zenon DEF Reviewed, Decide, Decisions
<1>6. /\ rec \in Record /\ rec.boot = boot /\ rec.num = count + 1 /\ rec.prev = PreviousHash
      /\ rec.id = req[r].id /\ rec.decision = req[r].decision
  BY <1>2, <1>3, <1>4, <1>5 DEF Record
<1>7. /\ h.step = "save" /\ h.id = req[r].id /\ h.w = req[r].w /\ h.reviews = req[r].reviews
      /\ h.decision = req[r].decision /\ h.record = rec
      /\ {"step", "id", "w", "reviews", "decision", "record"} \subseteq DOMAIN h
  OBVIOUS
<1> HIDE DEF rec, h
<1>8. /\ recent' \in Seq(Record) /\ Len(recent') = n + 1 - k /\ recent'[n + 1 - k] = rec
      /\ \A i \in 1..n - k : recent'[i] = recent[i + k]
  <2> DEFINE t == Latest(Append(recent, rec))
  <2>1. /\ t \in Seq(Record) /\ Len(t) = n + 1 - k /\ t[Len(t)] = rec
        /\ \A i \in 1..n - k : t[i] = recent[i + k]
    BY <1>3, <1>6, LatestOfAppend
  <2> HIDE DEF t
  <2>2. recent' = t BY <1>1 DEF t
  <2>. QED BY <2>1, <2>2
<1>9. k \in {0, 1} /\ (k = 1 <=> n = MaxRecent) OBVIOUS
<1> HIDE DEF k, n
<1>10. /\ Len(recent') <= MaxRecent /\ Len(recent') \in Nat
       /\ \A i \in 1..Len(recent') : i = n + 1 - k \/ i \in 1..n - k
       /\ \A i \in 1..n - k : i + k \in 1..n
  <2>1. n \in Nat /\ n <= MaxRecent /\ MaxRecent \in Nat BY <1>3
  <2>2. Len(recent') = n + 1 - k BY <1>8
  <2>3. n + 1 - k <= MaxRecent /\ n + 1 - k \in Nat BY <1>9, <2>1
  <2>4. \A i \in 1..n + 1 - k : i = n + 1 - k \/ i \in 1..n - k BY <1>9, <2>1
  <2>5. \A i \in 1..n - k : i + k \in 1..n BY <1>9, <2>1
  <2>. QED BY <2>2, <2>3, <2>4, <2>5
<1>11. TypeOK' BY <1>1, <1>3, <1>8, <1>10 DEF TypeOK
<1>12. /\ \A i \in 1..n : recent[i].boot <= boot /\ recent[i].num <= count
       /\ \A i, j \in 1..n : i < j /\ recent[i].boot = boot =>
             recent[j].boot = boot /\ recent[i].num < recent[j].num
       /\ \A row \in table : row.boot <= boot /\ row.num <= count
       /\ \A i \in 1..n : recent[i].num \in Nat
       /\ \A row \in table : row.num \in Nat
  <2>1. \A i \in 1..n : recent[i].num \in Nat BY <1>3 DEF Record
  <2>2. \A row \in table : row.num \in Nat BY DEF TypeOK, Record
  <2>3. OfThisBoot BY DEF CouncilInv
  <2>4. \A i \in 1..n : recent[i].boot <= boot /\ recent[i].num <= count
    BY <2>3 DEF OfThisBoot, Places, n
  <2>5. \A i, j \in 1..n : i < j /\ recent[i].boot = boot =>
           recent[j].boot = boot /\ recent[i].num < recent[j].num
    BY <2>3 DEF OfThisBoot, Places, n
  <2>6. \A row \in table : row.boot <= boot /\ row.num <= count BY <2>3 DEF OfThisBoot
  <2>. QED BY <2>1, <2>2, <2>4, <2>5, <2>6
<1>13. OfThisBoot'
  <2>1. \A i \in 1..Len(recent') : recent'[i].boot <= boot /\ recent'[i].num <= count + 1
    BY <1>3, <1>6, <1>8, <1>10, <1>12, SMTT(40)
  <2>2. \A i, j \in 1..Len(recent') : i < j /\ recent'[i].boot = boot =>
           recent'[j].boot = boot /\ recent'[i].num < recent'[j].num
    <3> SUFFICES ASSUME NEW i \in 1..Len(recent'), NEW j \in 1..Len(recent'), i < j,
                        recent'[i].boot = boot
                 PROVE  recent'[j].boot = boot /\ recent'[i].num < recent'[j].num
      OBVIOUS
    <3>1. i \in 1..n - k /\ recent'[i] = recent[i + k] /\ i + k \in 1..n
      <4>1. Len(recent') = n + 1 - k BY <1>8
      <4>2. i \in 1..n - k BY <1>3, <1>9, <4>1
      <4>. QED BY <1>8, <1>10, <4>2
    <3>2. CASE j = n + 1 - k
      <4>0. recent'[n + 1 - k] = rec BY <1>8
      <4>1. recent'[j] = rec BY <3>2, <4>0
      <4>2. recent[i + k].num <= count /\ recent[i + k].num \in Nat BY <1>12, <3>1
      <4>3. rec.boot = boot /\ rec.num = count + 1 /\ count \in Nat BY <1>3, <1>6
      <4>. QED BY <3>1, <4>1, <4>2, <4>3
    <3>3. CASE j \in 1..n - k
      <4>1. recent'[j] = recent[j + k] /\ j + k \in 1..n
        BY <1>8, <1>10, <3>3
      <4>2. i + k < j + k BY <1>9
      <4>3. i + k \in 1..n /\ recent[i + k].boot = boot BY <3>1
      <4>4. recent[j + k].boot = boot /\ recent[i + k].num < recent[j + k].num
        BY <1>12, <4>1, <4>2, <4>3
      <4>. QED BY <3>1, <4>1, <4>4
    <3>. QED BY <1>10, <3>2, <3>3
  <2>3. \A row \in table : row.boot <= boot /\ row.num <= count + 1 BY <1>3, <1>12
  <2>. QED BY <1>1, <2>1, <2>2, <2>3 DEF OfThisBoot, Places
<1>14. ChainOfThisBoot'
  <2> SUFFICES ASSUME NEW i \in 2..Len(recent'), recent'[i].boot = boot
               PROVE  recent'[i].prev = recent'[i - 1].id
    BY <1>1 DEF ChainOfThisBoot
  <2>1. /\ i \in 1..Len(recent') /\ i - 1 \in 1..n - k /\ recent'[i - 1] = recent[i - 1 + k]
    <3>1. Len(recent') = n + 1 - k BY <1>8
    <3>2. n \in Nat BY <1>3
    <3>3. i \in 2..n + 1 - k BY <3>1
    <3>4. i \in 1..n + 1 - k /\ i - 1 \in 1..n - k BY <1>9, <3>2, <3>3
    <3>. QED BY <1>8, <3>1, <3>4
  <2>2. CASE i = n + 1 - k
    <3>1. i - 1 + k = n /\ n > 0 /\ recent # <<>>
      <4>1. n \in Nat /\ i - 1 >= 1 BY <1>3, <2>1
      <4>2. i - 1 + k = n /\ n > 0 BY <1>9, <2>2, <4>1
      <4>3. recent # <<>> BY <4>2 DEF n
      <4>. QED BY <4>2, <4>3
    <3>2. PreviousHash = recent[n].id BY <3>1 DEF PreviousHash, n
    <3>3. recent'[i] = rec BY <1>8, <2>2
    <3>. QED BY <1>6, <2>1, <3>1, <3>2, <3>3
  <2>3. CASE i \in 1..n - k
    <3>1. recent'[i] = recent[i + k] /\ i + k \in 2..n /\ (i + k) - 1 = i - 1 + k
      <4>1. recent'[i] = recent[i + k] BY <1>8, <2>3
      <4>2. i + k \in 2..n /\ (i + k) - 1 = i - 1 + k BY <1>3, <1>9, <2>3
      <4>. QED BY <4>1, <4>2
    <3>2. recent[i + k].boot = boot => recent[i + k].prev = recent[(i + k) - 1].id
      BY <3>1 DEF ChainOfThisBoot, n
    <3>. QED BY <2>1, <3>1, <3>2
  <2>. QED BY <1>10, <2>1, <2>2, <2>3
<1>15. \A num \in Nat : num <= count /\ PushedOut(num) => PushedNow(num)
  <2> SUFFICES ASSUME NEW num \in Nat, num <= count, PushedOut(num)
               PROVE  PushedNow(num)
    OBVIOUS
  <2>1. n = MaxRecent /\ k = 1 BY <1>9 DEF PushedOut, n
  <2>2. Len(recent') = MaxRecent BY <1>3, <1>8, <2>1
  <2>3. \A i \in 1..n : recent[i].num > num BY DEF PushedOut, Places, n
  <2>4. rec.num > num BY <1>3, <1>6
  <2>. QED BY <1>8, <1>10, <2>2, <2>3, <2>4
<1>16. \A i \in 1..n : recent[i].boot = boot =>
         ListedNow(recent[i]) \/ PushedNow(recent[i].num)
  <2> SUFFICES ASSUME NEW i \in 1..n, recent[i].boot = boot
               PROVE  ListedNow(recent[i]) \/ PushedNow(recent[i].num)
    OBVIOUS
  <2>1. CASE i > k
    <3>1. i - k \in 1..n - k /\ (i - k) + k = i /\ i - k \in 1..Len(recent')
      BY <1>3, <1>8, <1>9, <2>1
    <3>. QED BY <1>8, <3>1
  <2>2. CASE ~(i > k)
    <3>1. i = 1 /\ k = 1 /\ n = MaxRecent BY <1>3, <1>9, <2>2
    <3>2. Len(recent') = MaxRecent BY <1>3, <1>8, <3>1
    <3>3. \A j \in 1..n - k : recent'[j].num > recent[1].num
      <4> SUFFICES ASSUME NEW j \in 1..n - k PROVE recent'[j].num > recent[1].num OBVIOUS
      <4>1. recent'[j] = recent[j + 1] /\ j + 1 \in 1..n /\ 1 < j + 1 /\ 1 \in 1..n
        BY <1>3, <1>8, <1>10, <3>1
      <4>2. recent[1].num < recent[j + 1].num BY <1>12, <2>2, <3>1, <4>1
      <4>. QED BY <1>12, <4>1, <4>2
    <3>4. rec.num > recent[1].num BY <1>3, <1>6, <1>12, <3>1
    <3>5. \A j \in 1..Len(recent') : recent'[j].num > recent[1].num
      BY <1>8, <1>10, <3>3, <3>4
    <3>. QED BY <3>1, <3>2, <3>5
  <2>. QED BY <2>1, <2>2
<1>17. \A record : Shown(record)' <=>
         /\ record \in Record /\ record.boot = boot /\ record.num <= count + 1
         /\ ListedNow(record) \/ PushedNow(record.num)
  BY <1>1 DEF Shown, PushedOut, Places
<1> HIDE DEF PushedNow
<1>18. \A record : Shown(record) => Shown(record)'
  <2> SUFFICES ASSUME NEW record, Shown(record)
               PROVE  /\ record \in Record /\ record.boot = boot /\ record.num <= count + 1
                      /\ ListedNow(record) \/ PushedNow(record.num)
    BY <1>17
  <2>1. /\ record \in Record /\ record.boot = boot /\ record.num <= count
        /\ record.num \in Nat
        /\ (\E i \in 1..n : recent[i] = record) \/ PushedOut(record.num)
    BY DEF Shown, Places, Record, n
  <2>2. record.num <= count + 1 BY <1>3, <2>1
  <2>. QED BY <1>15, <1>16, <2>1, <2>2
<1>19. \A record : record = rec => Shown(record)'
  <2>1. n + 1 - k \in 1..Len(recent') /\ rec.num <= count + 1 BY <1>3, <1>6, <1>8, <1>9
  <2>. QED BY <1>6, <1>8, <1>17, <2>1
<1>20. req'[r] = h /\ req' = [q \in Requests |-> req'[q]] BY <1>1, OneRequestMoves
<1>21. RequestOK(r)'
  <2>1. Reviewed(h) BY <1>2, <1>7 DEF Reviewed
  <2>. QED BY <1>2, <1>6, <1>7, <1>19, <1>20, <2>1 DEF RequestOK
<1>22. \A q \in Requests \ {r} : RequestOK(q)'
  <2> SUFFICES ASSUME NEW q \in Requests \ {r} PROVE RequestOK(q)' OBVIOUS
  <2>1. req'[q] = req[q] /\ RequestOK(q) BY <1>1, OneRequestMoves DEF RequestsOK
  <2>. QED BY <1>18, <2>1 DEF RequestOK
<1>23. QuotesShown'
  <2> SUFFICES ASSUME NEW q \in quotes
               PROVE  /\ q.num \in Nat /\ q.num <= count'
                      /\ \/ \E i \in 1..Len(recent') :
                               /\ recent'[i].id = q.id /\ recent'[i].boot = boot'
                               /\ recent'[i].num = q.num /\ recent'[i].decision # "BLOCK"
                         \/ PushedNow(q.num)
    BY <1>1 DEF QuotesShown, Places, PushedOut, PushedNow
  <2>1. q.num \in Nat /\ q.num <= count BY DEF QuotesShown
  <2>2. CASE PushedOut(q.num) BY <1>1, <1>3, <1>15, <2>1, <2>2
  <2>3. CASE \E i \in 1..n : /\ recent[i].id = q.id /\ recent[i].boot = boot
                             /\ recent[i].num = q.num /\ recent[i].decision # "BLOCK"
    <3>1. PICK i \in 1..n : /\ recent[i].id = q.id /\ recent[i].boot = boot
                            /\ recent[i].num = q.num /\ recent[i].decision # "BLOCK"
      BY <2>3
    <3>2. ListedNow(recent[i]) \/ PushedNow(q.num) BY <1>16, <3>1
    <3>3. q.num <= count' BY <1>1, <1>3, <2>1
    <3>. QED BY <1>1, <2>1, <3>1, <3>2, <3>3
  <2>. QED BY <2>2, <2>3 DEF QuotesShown, Places, n
<1>. QED BY <1>11, <1>13, <1>14, <1>20, <1>21, <1>22, <1>23 DEF RequestsOK

(********************************* Theorems **********************************)
LEMMA NextOK == ASSUME CouncilAssumption, CouncilInv, [Next]_vars PROVE CouncilInv'
BY AskOK, ReviewOK, PublishOK, SaveOK, AnswerOK, AnswerDemoOK, TickOK, RestartOK
DEF Next, Handle

\* However handlers overlap, saves fail and the coordinator restarts, the ledger is of the
\* latest decisions, in order, and every request and quote is covered by it (Council).
THEOREM CouncilInvariant == Spec => []CouncilInv
<1>1. Init => CouncilInv BY CouncilAssumption, InitOK
<1>2. CouncilInv /\ [Next]_vars => CouncilInv' BY CouncilAssumption, NextOK
<1>. QED BY <1>1, <1>2, PTL DEF Spec

\* A decision of this boot links onto the one before it (RecordWorkloadDecision).
THEOREM LinkedAsPublished == Spec => []ChainOfThisBoot
<1>1. CouncilInv => ChainOfThisBoot BY DEF CouncilInv
<1>. QED BY <1>1, CouncilInvariant, PTL

\* Who has a quote finds its decision on the ledger, or that MaxRecent later ones have
\* come (RecordWorkloadDecision, handleCreateWorkload).
THEOREM QuotesAreOnTheLedger == Spec => []RecordIsShown
<1>1. CouncilInv => RecordIsShown
  BY DEF CouncilInv, QuotesShown, PushedOut, Places, RecordIsShown
<1>. QED BY <1>1, CouncilInvariant, PTL

\* Nothing is quoted, and no demo kept, that was not judged by all its seats (Evaluate).
THEOREM NothingGoesUnreviewed == Spec => QuotedWasReviewed
<1> DEFINE Step == /\ \A q \in quotes' \ quotes :
                        \E r \in Requests : req[r] # Idle /\ req[r].id = q.id /\ Judged(req[r])
                   /\ lastDemo' \notin {lastDemo, NoDemo} =>
                        \E r \in Requests : req[r] # Idle /\ req[r].id = lastDemo'.id /\ Judged(req[r])
<1>1. CouncilInv /\ [Next]_vars => [Step]_vars
  <2> SUFFICES ASSUME CouncilInv, Next PROVE Step OBVIOUS
  <2>1. ASSUME NEW r \in Requests, req[r].step = "answer", req[r].decision # "BLOCK"
        PROVE  req[r] # Idle /\ Judged(req[r])
    BY <2>1, CouncilAssumption, NotBlockedIsJudged DEF CouncilInv, RequestsOK, RequestOK, Idle
  <2>2. CASE \E r \in Requests : Answer(r)
    <3>1. PICK r \in Requests : Answer(r) BY <2>2
    <3>. QED BY <2>1, <3>1 DEF Answer
  <2>3. CASE \E r \in Requests : AnswerDemo(r)
    <3>1. PICK r \in Requests : AnswerDemo(r) BY <2>3
    <3>. QED BY <2>1, <3>1 DEF AnswerDemo
  <2>4. CASE Restart BY <2>4 DEF Restart
  <2>5. CASE Tick BY <2>5 DEF Tick
  <2>6. CASE UNCHANGED <<quotes, lastDemo>> BY <2>6
  <2>. QED BY <2>2, <2>3, <2>4, <2>5, <2>6
        DEF Next, Handle, Ask, Review, Publish, Save
<1>. QED BY <1>1, CouncilInvariant, PTL DEF Spec, QuotedWasReviewed
================================================================================
