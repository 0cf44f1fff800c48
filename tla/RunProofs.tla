-------------------------------- MODULE RunProofs --------------------------------
(***************************************************************************)
(* Runs: a quote runs once, is charged once and only for work, the count   *)
(* of runs is exact, results are those of a settled run and a poller never *)
(* sees one go back; for any number of quotes, requests, chunks, restarts  *)
(* and failing store calls.                                                *)
(***************************************************************************)
EXTENDS Runs, FiniteSetTheorems, TLAPS

Early  == {"idle", "found", "funded", "admitted", "rejected"}
Open   == {"recorded", "queued", "running", "metering"}
Ending == {"parked", "notified", "saved", "unsaved"}
Owners == {"locked", "settled", "ended"} \cup Open \cup Ending

\* A request that has won its quote.
Won(r) == at[r] \in Owners \/ (at[r] = "lost" /\ Ran(r))

\* What was asked for, and which path the request is on.
PathInv(r) ==
  /\ at[r] \in {"found", "funded", "admitted"} => asked[r] \in Quotes
  /\ Won(r) => asked[r] \in Quotes /\ taken[asked[r]]
  /\ Ran(r) => Won(r)
  /\ at[r] \in {"recorded", "queued", "settled"} \cup Ending => mode[r] # "sync"

\* What was executed, metered and charged.
WorkInv(r) ==
  /\ earned[r] <= metered[r] /\ metered[r] <= ok[r] /\ ok[r] <= chunks[r]
  /\ metered[r] - earned[r] <= faults
  /\ charged[r] = 1 => ok[r] > 0
  /\ at[r] \in {"locked"} \cup Early \cup Open => charged[r] = 0 /\ status[r] # "succeeded"
  /\ at[r] \in {"locked"} \cup Early => ~Ran(r)
  /\ status[r] = "succeeded" =>
       /\ metered[r] = ok[r]
       /\ (ok[r] - earned[r]) + (IF ok[r] > 0 THEN 1 - charged[r] ELSE 0) <= faults

\* What the row and the results tell.
RowInv(r) ==
  /\ at[r] \in {"locked"} \cup Early => row[r] = "none"
  /\ at[r] \in {"recorded", "queued"} => row[r] \in {"none", "queued"}
  /\ at[r] \in {"running", "metering", "settled", "parked", "notified"} =>
       row[r] \in {"none", "queued", "running"}
  /\ at[r] = "settled" => status[r] = "succeeded"
  /\ at[r] \in Ending => /\ status[r] \in {"succeeded", "failed"}
                         /\ status[r] = "succeeded" => results[r] # "none"
  /\ row[r] = "succeeded" => status[r] = "succeeded" /\ results[r] # "none"

OneWinner == \A r, s \in Requests : Won(r) /\ Won(s) /\ asked[r] = asked[s] => r = s

RequestInv(r) == PathInv(r) /\ WorkInv(r) /\ RowInv(r)

RunsInv ==
  /\ TypeOK
  /\ \A r \in Requests : RequestInv(r)
  /\ OneWinner
  /\ InflightIsLive
  /\ balance = Deposit - Price * Cardinality({r \in Requests : charged[r] = 1})

(***************************************************************************)
(* What a step of one request leaves alone.                                *)
(***************************************************************************)

Same(s) ==
  /\ at'[s] = at[s] /\ asked'[s] = asked[s] /\ mode'[s] = mode[s]
  /\ chunks'[s] = chunks[s] /\ ok'[s] = ok[s] /\ metered'[s] = metered[s]
  /\ earned'[s] = earned[s] /\ charged'[s] = charged[s] /\ status'[s] = status[s]
  /\ row'[s] = row[s] /\ results'[s] = results[s]

Grows == faults' \in Nat /\ faults <= faults' /\ \A q \in Quotes : taken[q] => taken'[q]

LEMMA Frame ==
  ASSUME TypeOK, NEW s \in Requests, RequestInv(s), Same(s), Grows
  PROVE  RequestInv(s)'
<1>1. faults \in Nat /\ faults' \in Nat /\ faults <= faults'
  BY DEF TypeOK, Grows
<1>2. ok[s] \in Nat /\ metered[s] \in Nat /\ earned[s] \in Nat /\ charged[s] \in Nat
  BY DEF TypeOK
<1>3. PathInv(s)'
  BY DEF RequestInv, PathInv, Same, Grows, Won, Ran, Owners, Open, Ending
<1>4. WorkInv(s)'
  BY <1>1, <1>2 DEF RequestInv, WorkInv, Same, Ran, Early, Open
<1>5. RowInv(s)'
  BY DEF RequestInv, RowInv, Same, Early, Ending
<1> QED BY <1>3, <1>4, <1>5 DEF RequestInv

LEMMA FindStep ==
  ASSUME RunsAssumption, TypeOK, NEW r \in Requests, RequestInv(r), Find(r)
  PROVE  TypeOK' /\ RequestInv(r)' /\ Grows /\ \A s \in Requests \ {r} : Same(s)
<1> USE DEF Find, Goto, AddInflight, Saves, Delivered, quoteVars, execVars, runVars, envVars
<1>1. TypeOK'
  <2>1. PICK q \in Quotes :
          /\ asked' = [asked EXCEPT ![r] = q]
          /\ at' = [at EXCEPT ![r] = IF quote[q] = "offered" /\ ~taken[q] THEN "found"
                                                                      ELSE "rejected"]
    OBVIOUS
  <2>2. asked' \in [Requests -> Quotes \cup {None}] BY <2>1 DEF TypeOK
  <2>3. at' \in [Requests -> Places] BY <2>1 DEF TypeOK, Places
  <2> QED BY <2>2, <2>3 DEF TypeOK, Stages
<1>2. PathInv(r)'
  BY DEF TypeOK, Places, RequestInv, PathInv, WorkInv, Won, Ran, Owners, Open, Ending, Early
<1>3. WorkInv(r)'
  BY DEF TypeOK, Places, Stages, RequestInv, WorkInv, RowInv, Ran, Early, Open, Ending
<1>4. RowInv(r)'
  BY DEF TypeOK, Places, Stages, RequestInv, WorkInv, RowInv, Ran, Early, Open, Ending
<1>5. Grows /\ \A s \in Requests \ {r} : Same(s)
  BY DEF RunsAssumption, TypeOK, Grows, Same
<1> QED BY <1>1, <1>2, <1>3, <1>4, <1>5 DEF RequestInv

LEMMA CheckFundsStep ==
  ASSUME RunsAssumption, TypeOK, NEW r \in Requests, RequestInv(r), CheckFunds(r)
  PROVE  TypeOK' /\ RequestInv(r)' /\ Grows /\ \A s \in Requests \ {r} : Same(s)
<1> USE DEF CheckFunds, Goto, AddInflight, Saves, Delivered, quoteVars, execVars, runVars, envVars
<1>1. TypeOK'
  BY DEF RunsAssumption, TypeOK, Places, Stages, RequestInv, WorkInv
<1>2. PathInv(r)'
  BY DEF TypeOK, Places, RequestInv, PathInv, WorkInv, Won, Ran, Owners, Open, Ending, Early
<1>3. WorkInv(r)'
  BY DEF TypeOK, Places, Stages, RequestInv, WorkInv, RowInv, Ran, Early, Open, Ending
<1>4. RowInv(r)'
  BY DEF TypeOK, Places, Stages, RequestInv, WorkInv, RowInv, Ran, Early, Open, Ending
<1>5. Grows /\ \A s \in Requests \ {r} : Same(s)
  BY DEF RunsAssumption, TypeOK, Grows, Same
<1> QED BY <1>1, <1>2, <1>3, <1>4, <1>5 DEF RequestInv

LEMMA CheckCeilingStep ==
  ASSUME RunsAssumption, TypeOK, NEW r \in Requests, RequestInv(r), CheckCeiling(r)
  PROVE  TypeOK' /\ RequestInv(r)' /\ Grows /\ \A s \in Requests \ {r} : Same(s)
<1> USE DEF CheckCeiling, Goto, AddInflight, Saves, Delivered, quoteVars, execVars, runVars, envVars
<1>1. TypeOK'
  BY DEF RunsAssumption, TypeOK, Places, Stages, RequestInv, WorkInv
<1>2. PathInv(r)'
  BY DEF TypeOK, Places, RequestInv, PathInv, WorkInv, Won, Ran, Owners, Open, Ending, Early
<1>3. WorkInv(r)'
  BY DEF TypeOK, Places, Stages, RequestInv, WorkInv, RowInv, Ran, Early, Open, Ending
<1>4. RowInv(r)'
  BY DEF TypeOK, Places, Stages, RequestInv, WorkInv, RowInv, Ran, Early, Open, Ending
<1>5. Grows /\ \A s \in Requests \ {r} : Same(s)
  BY DEF RunsAssumption, TypeOK, Grows, Same
<1> QED BY <1>1, <1>2, <1>3, <1>4, <1>5 DEF RequestInv

LEMMA LockStep ==
  ASSUME RunsAssumption, TypeOK, NEW r \in Requests, RequestInv(r), Lock(r)
  PROVE  TypeOK' /\ RequestInv(r)' /\ Grows /\ \A s \in Requests \ {r} : Same(s)
<1> USE DEF Lock, Goto, AddInflight, Saves, Delivered, quoteVars, execVars, runVars, envVars
<1>1. TypeOK'
  BY DEF RunsAssumption, TypeOK, Places, Stages, RequestInv, WorkInv
<1>2. PathInv(r)'
  BY DEF TypeOK, Places, RequestInv, PathInv, WorkInv, Won, Ran, Owners, Open, Ending, Early
<1>3. WorkInv(r)'
  BY DEF TypeOK, Places, Stages, RequestInv, WorkInv, RowInv, Ran, Early, Open, Ending
<1>4. RowInv(r)'
  BY DEF TypeOK, Places, Stages, RequestInv, WorkInv, RowInv, Ran, Early, Open, Ending
<1>5. Grows /\ \A s \in Requests \ {r} : Same(s)
  BY DEF RunsAssumption, TypeOK, Grows, Same
<1> QED BY <1>1, <1>2, <1>3, <1>4, <1>5 DEF RequestInv

LEMMA RecordStep ==
  ASSUME RunsAssumption, TypeOK, NEW r \in Requests, RequestInv(r), Record(r)
  PROVE  TypeOK' /\ RequestInv(r)' /\ Grows /\ \A s \in Requests \ {r} : Same(s)
<1> USE DEF Record, Goto, AddInflight, Saves, Delivered, quoteVars, execVars, runVars, envVars
<1>1. TypeOK'
  BY DEF RunsAssumption, TypeOK, Places, Stages, RequestInv, WorkInv
<1>2. PathInv(r)'
  BY DEF TypeOK, Places, RequestInv, PathInv, WorkInv, Won, Ran, Owners, Open, Ending, Early
<1>3. WorkInv(r)'
  BY DEF TypeOK, Places, Stages, RequestInv, WorkInv, RowInv, Ran, Early, Open, Ending
<1>4. RowInv(r)'
  BY DEF TypeOK, Places, Stages, RequestInv, WorkInv, RowInv, Ran, Early, Open, Ending
<1>5. Grows /\ \A s \in Requests \ {r} : Same(s)
  BY DEF RunsAssumption, TypeOK, Grows, Same
<1> QED BY <1>1, <1>2, <1>3, <1>4, <1>5 DEF RequestInv

LEMMA CountRunStep ==
  ASSUME RunsAssumption, TypeOK, NEW r \in Requests, RequestInv(r), CountRun(r)
  PROVE  TypeOK' /\ RequestInv(r)' /\ Grows /\ \A s \in Requests \ {r} : Same(s)
<1> USE DEF CountRun, Goto, AddInflight, Saves, Delivered, quoteVars, execVars, runVars, envVars
<1>1. TypeOK'
  BY DEF RunsAssumption, TypeOK, Places, Stages, RequestInv, WorkInv
<1>2. PathInv(r)'
  BY DEF TypeOK, Places, RequestInv, PathInv, WorkInv, Won, Ran, Owners, Open, Ending, Early
<1>3. WorkInv(r)'
  BY DEF TypeOK, Places, Stages, RequestInv, WorkInv, RowInv, Ran, Early, Open, Ending
<1>4. RowInv(r)'
  BY DEF TypeOK, Places, Stages, RequestInv, WorkInv, RowInv, Ran, Early, Open, Ending
<1>5. Grows /\ \A s \in Requests \ {r} : Same(s)
  BY DEF RunsAssumption, TypeOK, Grows, Same
<1> QED BY <1>1, <1>2, <1>3, <1>4, <1>5 DEF RequestInv

LEMMA StartAsyncStep ==
  ASSUME RunsAssumption, TypeOK, NEW r \in Requests, RequestInv(r), StartAsync(r)
  PROVE  TypeOK' /\ RequestInv(r)' /\ Grows /\ \A s \in Requests \ {r} : Same(s)
<1> USE DEF StartAsync, Goto, AddInflight, Saves, Delivered, quoteVars, execVars, runVars, envVars
<1>1. TypeOK'
  BY DEF RunsAssumption, TypeOK, Places, Stages, RequestInv, WorkInv
<1>2. PathInv(r)'
  BY DEF TypeOK, Places, RequestInv, PathInv, WorkInv, Won, Ran, Owners, Open, Ending, Early
<1>3. WorkInv(r)'
  BY DEF TypeOK, Places, Stages, RequestInv, WorkInv, RowInv, Ran, Early, Open, Ending
<1>4. RowInv(r)'
  BY DEF TypeOK, Places, Stages, RequestInv, WorkInv, RowInv, Ran, Early, Open, Ending
<1>5. Grows /\ \A s \in Requests \ {r} : Same(s)
  BY DEF RunsAssumption, TypeOK, Grows, Same
<1> QED BY <1>1, <1>2, <1>3, <1>4, <1>5 DEF RequestInv

LEMMA StartSyncStep ==
  ASSUME RunsAssumption, TypeOK, NEW r \in Requests, RequestInv(r), StartSync(r)
  PROVE  TypeOK' /\ RequestInv(r)' /\ Grows /\ \A s \in Requests \ {r} : Same(s)
<1> USE DEF StartSync, Goto, AddInflight, Saves, Delivered, quoteVars, execVars, runVars, envVars
<1>1. TypeOK'
  BY DEF RunsAssumption, TypeOK, Places, Stages, RequestInv, WorkInv
<1>2. PathInv(r)'
  BY DEF TypeOK, Places, RequestInv, PathInv, WorkInv, Won, Ran, Owners, Open, Ending, Early
<1>3. WorkInv(r)'
  BY DEF TypeOK, Places, Stages, RequestInv, WorkInv, RowInv, Ran, Early, Open, Ending
<1>4. RowInv(r)'
  BY DEF TypeOK, Places, Stages, RequestInv, WorkInv, RowInv, Ran, Early, Open, Ending
<1>5. Grows /\ \A s \in Requests \ {r} : Same(s)
  BY DEF RunsAssumption, TypeOK, Grows, Same
<1> QED BY <1>1, <1>2, <1>3, <1>4, <1>5 DEF RequestInv

LEMMA ContextEndsStep ==
  ASSUME RunsAssumption, TypeOK, NEW r \in Requests, RequestInv(r), ContextEnds(r)
  PROVE  TypeOK' /\ RequestInv(r)' /\ Grows /\ \A s \in Requests \ {r} : Same(s)
<1> USE DEF ContextEnds, Goto, AddInflight, Saves, Delivered, quoteVars, execVars, runVars, envVars
<1>1. TypeOK'
  BY DEF RunsAssumption, TypeOK, Places, Stages, RequestInv, WorkInv
<1>2. PathInv(r)'
  BY DEF TypeOK, Places, RequestInv, PathInv, WorkInv, Won, Ran, Owners, Open, Ending, Early
<1>3. WorkInv(r)'
  BY DEF TypeOK, Places, Stages, RequestInv, WorkInv, RowInv, Ran, Early, Open, Ending
<1>4. RowInv(r)'
  BY DEF TypeOK, Places, Stages, RequestInv, WorkInv, RowInv, Ran, Early, Open, Ending
<1>5. Grows /\ \A s \in Requests \ {r} : Same(s)
  BY DEF RunsAssumption, TypeOK, Grows, Same
<1> QED BY <1>1, <1>2, <1>3, <1>4, <1>5 DEF RequestInv

LEMMA RunChunkStep ==
  ASSUME RunsAssumption, TypeOK, NEW r \in Requests, RequestInv(r), RunChunk(r)
  PROVE  TypeOK' /\ RequestInv(r)' /\ Grows /\ \A s \in Requests \ {r} : Same(s)
<1> USE DEF RunChunk, Goto, AddInflight, Saves, Delivered, quoteVars, execVars, runVars, envVars
<1>1. TypeOK'
  BY DEF RunsAssumption, TypeOK, Places, Stages, RequestInv, WorkInv
<1>2. PathInv(r)'
  BY DEF TypeOK, Places, RequestInv, PathInv, WorkInv, Won, Ran, Owners, Open, Ending, Early
<1>3. WorkInv(r)'
  BY DEF TypeOK, Places, Stages, RequestInv, WorkInv, RowInv, Ran, Early, Open, Ending
<1>4. RowInv(r)'
  BY DEF TypeOK, Places, Stages, RequestInv, WorkInv, RowInv, Ran, Early, Open, Ending
<1>5. Grows /\ \A s \in Requests \ {r} : Same(s)
  BY DEF RunsAssumption, TypeOK, Grows, Same
<1> QED BY <1>1, <1>2, <1>3, <1>4, <1>5 DEF RequestInv

LEMMA ChunkRefusedStep ==
  ASSUME RunsAssumption, TypeOK, NEW r \in Requests, RequestInv(r), ChunkRefused(r)
  PROVE  TypeOK' /\ RequestInv(r)' /\ Grows /\ \A s \in Requests \ {r} : Same(s)
<1> USE DEF ChunkRefused, Goto, AddInflight, Saves, Delivered, quoteVars, execVars, runVars, envVars
<1>1. TypeOK'
  BY DEF RunsAssumption, TypeOK, Places, Stages, RequestInv, WorkInv
<1>2. PathInv(r)'
  BY DEF TypeOK, Places, RequestInv, PathInv, WorkInv, Won, Ran, Owners, Open, Ending, Early
<1>3. WorkInv(r)'
  BY DEF TypeOK, Places, Stages, RequestInv, WorkInv, RowInv, Ran, Early, Open, Ending
<1>4. RowInv(r)'
  BY DEF TypeOK, Places, Stages, RequestInv, WorkInv, RowInv, Ran, Early, Open, Ending
<1>5. Grows /\ \A s \in Requests \ {r} : Same(s)
  BY DEF RunsAssumption, TypeOK, Grows, Same
<1> QED BY <1>1, <1>2, <1>3, <1>4, <1>5 DEF RequestInv

LEMMA RecordJobStep ==
  ASSUME RunsAssumption, TypeOK, NEW r \in Requests, RequestInv(r), RecordJob(r)
  PROVE  TypeOK' /\ RequestInv(r)' /\ Grows /\ \A s \in Requests \ {r} : Same(s)
<1> USE DEF RecordJob, Goto, AddInflight, Saves, Delivered, quoteVars, execVars, runVars, envVars
<1>1. TypeOK'
  BY DEF RunsAssumption, TypeOK, Places, Stages, RequestInv, WorkInv
<1>2. PathInv(r)'
  BY DEF TypeOK, Places, RequestInv, PathInv, WorkInv, Won, Ran, Owners, Open, Ending, Early
<1>3. WorkInv(r)'
  BY DEF TypeOK, Places, Stages, RequestInv, WorkInv, RowInv, Ran, Early, Open, Ending
<1>4. RowInv(r)'
  BY DEF TypeOK, Places, Stages, RequestInv, WorkInv, RowInv, Ran, Early, Open, Ending
<1>5. Grows /\ \A s \in Requests \ {r} : Same(s)
  BY DEF RunsAssumption, TypeOK, Grows, Same
<1> QED BY <1>1, <1>2, <1>3, <1>4, <1>5 DEF RequestInv

LEMMA SettleStep ==
  ASSUME RunsAssumption, TypeOK, NEW r \in Requests, RequestInv(r), Settle(r)
  PROVE  TypeOK' /\ RequestInv(r)' /\ Grows /\ \A s \in Requests \ {r} : Same(s)
<1> USE DEF Settle, Goto, AddInflight, Saves, Delivered, quoteVars, execVars, runVars, envVars
<1>1. TypeOK'
  BY DEF RunsAssumption, TypeOK, Places, Stages, RequestInv, WorkInv
<1>2. PathInv(r)'
  BY DEF TypeOK, Places, RequestInv, PathInv, WorkInv, Won, Ran, Owners, Open, Ending, Early
<1>3. WorkInv(r)'
  BY DEF TypeOK, Places, Stages, RequestInv, WorkInv, RowInv, Ran, Early, Open, Ending
<1>4. RowInv(r)'
  BY DEF TypeOK, Places, Stages, RequestInv, WorkInv, RowInv, Ran, Early, Open, Ending
<1>5. Grows /\ \A s \in Requests \ {r} : Same(s)
  BY DEF RunsAssumption, TypeOK, Grows, Same
<1> QED BY <1>1, <1>2, <1>3, <1>4, <1>5 DEF RequestInv

LEMMA ParkStep ==
  ASSUME RunsAssumption, TypeOK, NEW r \in Requests, RequestInv(r), Park(r)
  PROVE  TypeOK' /\ RequestInv(r)' /\ Grows /\ \A s \in Requests \ {r} : Same(s)
<1> USE DEF Park, Goto, AddInflight, Saves, Delivered, quoteVars, execVars, runVars, envVars
<1>1. TypeOK'
  BY DEF RunsAssumption, TypeOK, Places, Stages, RequestInv, WorkInv
<1>2. PathInv(r)'
  BY DEF TypeOK, Places, RequestInv, PathInv, WorkInv, Won, Ran, Owners, Open, Ending, Early
<1>3. WorkInv(r)'
  BY DEF TypeOK, Places, Stages, RequestInv, WorkInv, RowInv, Ran, Early, Open, Ending
<1>4. RowInv(r)'
  BY DEF TypeOK, Places, Stages, RequestInv, WorkInv, RowInv, Ran, Early, Open, Ending
<1>5. Grows /\ \A s \in Requests \ {r} : Same(s)
  BY DEF RunsAssumption, TypeOK, Grows, Same
<1> QED BY <1>1, <1>2, <1>3, <1>4, <1>5 DEF RequestInv

LEMMA NotifyStep ==
  ASSUME RunsAssumption, TypeOK, NEW r \in Requests, RequestInv(r), Notify(r)
  PROVE  TypeOK' /\ RequestInv(r)' /\ Grows /\ \A s \in Requests \ {r} : Same(s)
<1> USE DEF Notify, Goto, AddInflight, Saves, Delivered, quoteVars, execVars, runVars, envVars
<1>1. TypeOK'
  BY DEF RunsAssumption, TypeOK, Places, Stages, RequestInv, WorkInv
<1>2. PathInv(r)'
  BY DEF TypeOK, Places, RequestInv, PathInv, WorkInv, Won, Ran, Owners, Open, Ending, Early
<1>3. WorkInv(r)'
  BY DEF TypeOK, Places, Stages, RequestInv, WorkInv, RowInv, Ran, Early, Open, Ending
<1>4. RowInv(r)'
  BY DEF TypeOK, Places, Stages, RequestInv, WorkInv, RowInv, Ran, Early, Open, Ending
<1>5. Grows /\ \A s \in Requests \ {r} : Same(s)
  BY DEF RunsAssumption, TypeOK, Grows, Same
<1> QED BY <1>1, <1>2, <1>3, <1>4, <1>5 DEF RequestInv

LEMMA SaveEndStep ==
  ASSUME RunsAssumption, TypeOK, NEW r \in Requests, RequestInv(r), SaveEnd(r)
  PROVE  TypeOK' /\ RequestInv(r)' /\ Grows /\ \A s \in Requests \ {r} : Same(s)
<1> USE DEF SaveEnd, Goto, AddInflight, Saves, Delivered, quoteVars, execVars, runVars, envVars
<1>1. TypeOK'
  BY DEF RunsAssumption, TypeOK, Places, Stages, RequestInv, WorkInv
<1>2. PathInv(r)'
  BY DEF TypeOK, Places, RequestInv, PathInv, WorkInv, Won, Ran, Owners, Open, Ending, Early
<1>3. WorkInv(r)'
  BY DEF TypeOK, Places, Stages, RequestInv, WorkInv, RowInv, Ran, Early, Open, Ending
<1>4. RowInv(r)'
  BY DEF TypeOK, Places, Stages, RequestInv, WorkInv, RowInv, Ran, Early, Open, Ending
<1>5. Grows /\ \A s \in Requests \ {r} : Same(s)
  BY DEF RunsAssumption, TypeOK, Grows, Same
<1> QED BY <1>1, <1>2, <1>3, <1>4, <1>5 DEF RequestInv

LEMMA LeaveStep ==
  ASSUME RunsAssumption, TypeOK, NEW r \in Requests, RequestInv(r), Leave(r)
  PROVE  TypeOK' /\ RequestInv(r)' /\ Grows /\ \A s \in Requests \ {r} : Same(s)
<1> USE DEF Leave, Goto, AddInflight, Saves, Delivered, quoteVars, execVars, runVars, envVars
<1>1. TypeOK'
  BY DEF RunsAssumption, TypeOK, Places, Stages, RequestInv, WorkInv
<1>2. PathInv(r)'
  BY DEF TypeOK, Places, RequestInv, PathInv, WorkInv, Won, Ran, Owners, Open, Ending, Early
<1>3. WorkInv(r)'
  BY DEF TypeOK, Places, Stages, RequestInv, WorkInv, RowInv, Ran, Early, Open, Ending
<1>4. RowInv(r)'
  BY DEF TypeOK, Places, Stages, RequestInv, WorkInv, RowInv, Ran, Early, Open, Ending
<1>5. Grows /\ \A s \in Requests \ {r} : Same(s)
  BY DEF RunsAssumption, TypeOK, Grows, Same
<1> QED BY <1>1, <1>2, <1>3, <1>4, <1>5 DEF RequestInv

LEMMA ResultsExpireStep ==
  ASSUME RunsAssumption, TypeOK, NEW r \in Requests, RequestInv(r), ResultsExpire(r)
  PROVE  TypeOK' /\ RequestInv(r)' /\ Grows /\ \A s \in Requests \ {r} : Same(s)
<1> USE DEF ResultsExpire, Goto, AddInflight, Saves, Delivered, quoteVars, execVars, runVars, envVars
<1>1. TypeOK'
  BY DEF RunsAssumption, TypeOK, Places, Stages, RequestInv, WorkInv
<1>2. PathInv(r)'
  BY DEF TypeOK, Places, RequestInv, PathInv, WorkInv, Won, Ran, Owners, Open, Ending, Early
<1>3. WorkInv(r)'
  BY DEF TypeOK, Places, Stages, RequestInv, WorkInv, RowInv, Ran, Early, Open, Ending
<1>4. RowInv(r)'
  BY DEF TypeOK, Places, Stages, RequestInv, WorkInv, RowInv, Ran, Early, Open, Ending
<1>5. Grows /\ \A s \in Requests \ {r} : Same(s)
  BY DEF RunsAssumption, TypeOK, Grows, Same
<1> QED BY <1>1, <1>2, <1>3, <1>4, <1>5 DEF RequestInv

(***************************************************************************)
(* The invariant that looks at all requests at once.                       *)
(***************************************************************************)

\* A set with one member more, or one less, counts one more, or one less.
LEMMA CountOneMore ==
  ASSUME NEW S, IsFiniteSet(S), NEW T \in SUBSET S, NEW x \in S, x \notin T
  PROVE  /\ Cardinality(T) \in Nat
         /\ Cardinality(T \cup {x}) = Cardinality(T) + 1
<1>1. IsFiniteSet(T) BY FS_Subset
<1> QED BY <1>1, FS_CardinalityType, FS_AddElement

\* One request moves: what the others have won, owe and occupy stays.
LEMMA OthersStay ==
  ASSUME NEW r \in Requests, \A s \in Requests \ {r} : Same(s)
  PROVE  \A s \in Requests \ {r} :
           (Won(s)' <=> Won(s)) /\ (Counted(s)' <=> Counted(s)) /\ charged'[s] = charged[s]
BY DEF Same, Won, Ran, Counted, Owners, Open, Ending

\* Neither the winners nor the money nor the count is about this step.
Quiet(r) ==
  /\ Won(r)' => Won(r) /\ asked'[r] = asked[r]
  /\ Counted(r)' <=> Counted(r)
  /\ charged'[r] = charged[r]
  /\ UNCHANGED <<inflight, balance>>

LEMMA QuietKeeps ==
  ASSUME RunsInv, NEW r \in Requests, \A s \in Requests \ {r} : Same(s), Quiet(r)
  PROVE  /\ OneWinner' /\ InflightIsLive'
         /\ balance' = Deposit - Price * Cardinality({s \in Requests : charged'[s] = 1})
<1>1. \A s \in Requests : (Counted(s)' <=> Counted(s)) /\ charged'[s] = charged[s]
  BY OthersStay DEF Quiet
<1>2. \A s \in Requests : Won(s)' => Won(s) /\ asked'[s] = asked[s]
  BY OthersStay DEF Quiet, Same
<1>3. OneWinner' BY <1>2 DEF RunsInv, OneWinner
<1>4. {s \in Requests : Counted(s)'} = {s \in Requests : Counted(s)} BY <1>1
<1>5. InflightIsLive' BY <1>4 DEF RunsInv, InflightIsLive, Quiet
<1>6. {s \in Requests : charged'[s] = 1} = {s \in Requests : charged[s] = 1} BY <1>1
<1> QED BY <1>3, <1>5, <1>6 DEF RunsInv, Quiet

LEMMA QuietSteps ==
  ASSUME RunsAssumption, TypeOK, NEW r \in Requests, RequestInv(r)
  PROVE  /\ Find(r) => Quiet(r)
         /\ CheckFunds(r) => Quiet(r)
         /\ CheckCeiling(r) => Quiet(r)
         /\ Record(r) => Quiet(r)
         /\ StartAsync(r) => Quiet(r)
         /\ StartSync(r) => Quiet(r)
         /\ ContextEnds(r) => Quiet(r)
         /\ RunChunk(r) => Quiet(r)
         /\ ChunkRefused(r) => Quiet(r)
         /\ RecordJob(r) => Quiet(r)
         /\ Park(r) => Quiet(r)
         /\ Notify(r) => Quiet(r)
         /\ SaveEnd(r) => Quiet(r)
         /\ ResultsExpire(r) => Quiet(r)
<1> USE DEF Quiet, Won, Ran, Counted, Owners, Open, Ending, TypeOK, RequestInv, PathInv, WorkInv,
            Early, Goto, AddInflight, Saves, Delivered, quoteVars, execVars, runVars, envVars
<1>1. Find(r) => Quiet(r) BY DEF Find
<1>2. CheckFunds(r) => Quiet(r) BY DEF CheckFunds
<1>3. CheckCeiling(r) => Quiet(r) BY DEF CheckCeiling
<1>4. Record(r) => Quiet(r) BY DEF Record
<1>5. StartAsync(r) => Quiet(r) BY DEF StartAsync
<1>6. StartSync(r) => Quiet(r) BY DEF StartSync
<1>7. ContextEnds(r) => Quiet(r) BY DEF ContextEnds
<1>8. RunChunk(r) => Quiet(r) BY DEF RunChunk
<1>9. ChunkRefused(r) => Quiet(r) BY DEF ChunkRefused
<1>10. RecordJob(r) => Quiet(r) BY DEF RecordJob
<1>11. Park(r) => Quiet(r) BY DEF Park
<1>12. Notify(r) => Quiet(r) BY DEF Notify
<1>13. SaveEnd(r) => Quiet(r) BY DEF SaveEnd
<1>14. ResultsExpire(r) => Quiet(r) BY DEF ResultsExpire
<1> QED BY <1>1, <1>2, <1>3, <1>4, <1>5, <1>6, <1>7, <1>8, <1>9, <1>10, <1>11, <1>12, <1>13, <1>14

\* The lock is taken by one request, whatever the others have seen of the quote.
LEMMA LockKeeps ==
  ASSUME RunsInv, NEW r \in Requests, \A s \in Requests \ {r} : Same(s), Lock(r)
  PROVE  /\ OneWinner' /\ InflightIsLive'
         /\ balance' = Deposit - Price * Cardinality({s \in Requests : charged'[s] = 1})
<1>0. TypeOK /\ (\A s \in Requests : RequestInv(s)) BY DEF RunsInv
<1>1. \A s \in Requests : (Counted(s)' <=> Counted(s)) /\ charged'[s] = charged[s]
  <2>1. (Counted(r)' <=> Counted(r)) /\ charged'[r] = charged[r]
    BY <1>0 DEF Lock, Goto, Counted, execVars, runVars, TypeOK
  <2> QED BY <2>1, OthersStay
<1>2. UNCHANGED <<inflight, balance, asked>> BY DEF Lock, execVars, runVars
<1>3. {s \in Requests : Counted(s)'} = {s \in Requests : Counted(s)} BY <1>1
<1>4. {s \in Requests : charged'[s] = 1} = {s \in Requests : charged[s] = 1} BY <1>1
<1>5. \A s \in Requests \ {r} : Won(s)' => Won(s) BY OthersStay
<1>6. Won(r)' => ~taken[asked[r]]
  BY <1>0 DEF Lock, Goto, Won, Ran, Owners, Open, Ending, RequestInv, WorkInv, Early, TypeOK
<1>7. \A s \in Requests : Won(s) => taken[asked[s]] BY <1>0 DEF RequestInv, PathInv
<1>8. OneWinner' BY <1>2, <1>5, <1>6, <1>7 DEF RunsInv, OneWinner
<1> QED BY <1>2, <1>3, <1>4, <1>8 DEF RunsInv, InflightIsLive

\* A run takes its place, and the count goes up by one.
LEMMA CountRunKeeps ==
  ASSUME RunsAssumption, RunsInv, NEW r \in Requests, \A s \in Requests \ {r} : Same(s), CountRun(r)
  PROVE  /\ OneWinner' /\ InflightIsLive'
         /\ balance' = Deposit - Price * Cardinality({s \in Requests : charged'[s] = 1})
<1>0. TypeOK /\ RequestInv(r) BY DEF RunsInv
<1>1. Won(r) /\ ~Counted(r) /\ Counted(r)'
  BY <1>0 DEF CountRun, Goto, Counted, Won, Owners, Open, TypeOK, RequestInv, PathInv
<1>2. asked' = asked /\ charged' = charged /\ balance' = balance
  BY DEF CountRun, execVars
<1>3. OneWinner' BY <1>1, <1>2, OthersStay DEF RunsInv, OneWinner
<1>4. {s \in Requests : Counted(s)'} = {s \in Requests : Counted(s)} \cup {r}
  BY <1>1, OthersStay
<1>5. /\ Cardinality({s \in Requests : Counted(s)}) \in Nat
      /\ Cardinality({s \in Requests : Counted(s)} \cup {r})
           = Cardinality({s \in Requests : Counted(s)}) + 1
  <2> DEFINE T == {s \in Requests : Counted(s)}
  <2>1. T \in SUBSET Requests /\ r \notin T BY <1>1
  <2> HIDE DEF T
  <2>2. Cardinality(T) \in Nat /\ Cardinality(T \cup {r}) = Cardinality(T) + 1
    BY <2>1, CountOneMore DEF RunsAssumption
  <2> QED BY <2>2 DEF T
<1>6. inflight' = inflight + 1
  BY <1>0 DEF CountRun, AddInflight, TypeOK
<1>7. InflightIsLive' BY <1>4, <1>5, <1>6 DEF RunsInv, InflightIsLive
<1> QED BY <1>2, <1>3, <1>7 DEF RunsInv

\* The deferred decrement gives the place back.
LEMMA LeaveKeeps ==
  ASSUME RunsAssumption, RunsInv, NEW r \in Requests, \A s \in Requests \ {r} : Same(s), Leave(r)
  PROVE  /\ OneWinner' /\ InflightIsLive'
         /\ balance' = Deposit - Price * Cardinality({s \in Requests : charged'[s] = 1})
<1>0. TypeOK /\ RequestInv(r) BY DEF RunsInv
<1>1. Won(r) /\ Counted(r) /\ ~Counted(r)'
  BY <1>0 DEF Leave, Goto, Counted, Won, Owners, Open, Ending, TypeOK, RequestInv, PathInv
<1>2. asked' = asked /\ charged' = charged /\ balance' = balance
  BY DEF Leave, execVars
<1>3. OneWinner' BY <1>1, <1>2, OthersStay DEF RunsInv, OneWinner
<1>4. {s \in Requests : Counted(s)} = {s \in Requests : Counted(s)'} \cup {r}
  BY <1>1, OthersStay
<1>5. /\ Cardinality({s \in Requests : Counted(s)'}) \in Nat
      /\ Cardinality({s \in Requests : Counted(s)'} \cup {r})
           = Cardinality({s \in Requests : Counted(s)'}) + 1
  <2> DEFINE T == {s \in Requests : Counted(s)'}
  <2>1. T \in SUBSET Requests /\ r \notin T BY <1>1
  <2> HIDE DEF T
  <2>2. Cardinality(T) \in Nat /\ Cardinality(T \cup {r}) = Cardinality(T) + 1
    BY <2>1, CountOneMore DEF RunsAssumption
  <2> QED BY <2>2 DEF T
<1>6. inflight = Cardinality({s \in Requests : Counted(s)'}) + 1
  BY <1>4, <1>5 DEF RunsInv, InflightIsLive
<1>7. inflight' = inflight - 1
  BY <1>0, <1>5, <1>6 DEF Leave, AddInflight, TypeOK
<1>8. InflightIsLive' BY <1>5, <1>6, <1>7 DEF InflightIsLive
<1> QED BY <1>2, <1>3, <1>8 DEF RunsInv

\* The debit and the mark that it was made go together.
LEMMA SettleKeeps ==
  ASSUME RunsAssumption, RunsInv, NEW r \in Requests, \A s \in Requests \ {r} : Same(s), Settle(r)
  PROVE  /\ OneWinner' /\ InflightIsLive'
         /\ balance' = Deposit - Price * Cardinality({s \in Requests : charged'[s] = 1})
<1>0. TypeOK /\ RequestInv(r) BY DEF RunsInv
<1>1. Won(r) /\ (Counted(r)' <=> Counted(r)) /\ charged[r] = 0
  BY <1>0 DEF Settle, Goto, Counted, Won, Owners, Open, TypeOK, RequestInv, WorkInv
<1>2. asked' = asked /\ inflight' = inflight
  BY DEF Settle
<1>3. OneWinner' BY <1>1, <1>2, OthersStay DEF RunsInv, OneWinner
<1>4. {s \in Requests : Counted(s)'} = {s \in Requests : Counted(s)} BY <1>1, OthersStay
<1>5. InflightIsLive' BY <1>2, <1>4 DEF RunsInv, InflightIsLive
<1>6. CASE charged' = [charged EXCEPT ![r] = 1] /\ balance' = balance - Price
  <2> DEFINE T == {s \in Requests : charged[s] = 1}
             U == {s \in Requests : charged'[s] = 1}
  <2>1. T \in SUBSET Requests /\ r \notin T BY <1>1
  <2>2. U = T \cup {r} BY <1>0, <1>6 DEF TypeOK
  <2>3. balance = Deposit - Price * Cardinality(T) BY DEF RunsInv
  <2> HIDE DEF T, U
  <2>4. Cardinality(T) \in Nat /\ Cardinality(U) = Cardinality(T) + 1
    BY <2>1, <2>2, CountOneMore DEF RunsAssumption
  <2>5. balance' = Deposit - Price * Cardinality(U)
    <3>1. \A p, n \in Nat : p * (n + 1) = p * n + p OBVIOUS
    <3>2. Price * Cardinality(U) = Price * Cardinality(T) + Price
      BY <2>4, <3>1 DEF RunsAssumption
    <3>3. Price * Cardinality(T) \in Int BY <2>4 DEF RunsAssumption
    <3> QED BY <1>6, <2>3, <3>2, <3>3 DEF RunsAssumption
  <2> QED BY <1>3, <1>5, <2>5 DEF U
<1>7. CASE UNCHANGED <<charged, balance>>
  BY <1>3, <1>5, <1>7 DEF RunsInv
<1> QED BY <1>6, <1>7 DEF Settle

(***************************************************************************)
(* The steps that are not one request's.                                   *)
(***************************************************************************)

\* Quotes come and go; no request is touched.
LEMMA QuoteSteps ==
  ASSUME RunsInv, NEW q \in Quotes, Create(q) \/ QuoteGoes(q)
  PROVE  RunsInv'
<1>1. UNCHANGED <<taken, at, asked, mode, execVars, runVars, envVars>>
  BY DEF Create, QuoteGoes
<1>2. TypeOK'
  BY <1>1 DEF RunsInv, TypeOK, Create, QuoteGoes, execVars, runVars, envVars
<1>3. \A r \in Requests : Same(r)
  BY <1>1 DEF Same, execVars, runVars
<1>4. Grows
  BY <1>1 DEF RunsInv, TypeOK, Grows, envVars
<1>5. \A r \in Requests : RequestInv(r)'
  BY <1>3, <1>4, Frame DEF RunsInv
<1>6. OneWinner' /\ InflightIsLive'
  BY <1>1 DEF RunsInv, OneWinner, Won, Ran, InflightIsLive, Counted, execVars, runVars
<1>7. (balance = Deposit - Price * Cardinality({r \in Requests : charged[r] = 1}))'
  BY <1>1 DEF RunsInv, execVars
<1> QED BY <1>2, <1>5, <1>6, <1>7 DEF RunsInv

\* What was in memory goes; the database, and who had won which quote, stays.
LEMMA RestartStep ==
  ASSUME RunsAssumption, RunsInv, Restart
  PROVE  RunsInv'
<1>1. TypeOK /\ (\A r \in Requests : RequestInv(r)) BY DEF RunsInv
<1>2. TypeOK'
  BY <1>1 DEF Restart, RunsAssumption, TypeOK, Places, execVars
<1>3. ASSUME NEW r \in Requests
      PROVE  RequestInv(r)' /\ (Won(r)' => Won(r)) /\ ~Counted(r)'
  <2>1. RequestInv(r) BY <1>1
  <2>2. (at'[r] = at[r] /\ at[r] \in {"idle", "ended", "rejected"}) \/ at'[r] = "lost"
    BY DEF Restart
  <2>3. /\ chunks' = chunks /\ ok' = ok /\ metered' = metered /\ earned' = earned
        /\ charged' = charged /\ status' = status /\ row' = row /\ asked' = asked
        /\ mode' = mode /\ taken' = taken /\ faults' = faults
        /\ (results[r] # "none" => results'[r] # "none")
    BY DEF Restart, execVars
  <2>4. (Ran(r)' <=> Ran(r)) /\ (Won(r)' => Won(r))
    BY <2>1, <2>2, <2>3 DEF Ran, Won, Owners, Open, Ending, RequestInv, PathInv
  <2>5. Ran(r) => Won(r)'
    BY <2>1, <2>2, <2>3 DEF Ran, Won, Owners, RequestInv, PathInv, WorkInv, Early
  <2>6. PathInv(r)'
    BY <2>1, <2>2, <2>3, <2>4, <2>5 DEF RequestInv, PathInv, Ending
  <2>7. WorkInv(r)'
    BY <2>1, <2>2, <2>3, <2>4 DEF RequestInv, WorkInv, Early, Open
  <2>8. RowInv(r)'
    BY <2>1, <2>2, <2>3 DEF RequestInv, RowInv, Early, Ending
  <2>9. ~Counted(r)' BY <2>2 DEF Counted
  <2> QED BY <2>4, <2>6, <2>7, <2>8, <2>9 DEF RequestInv
<1>4. OneWinner'
  BY <1>3 DEF RunsInv, OneWinner, Restart
<1>5. InflightIsLive'
  <2>1. {r \in Requests : Counted(r)'} = {} BY <1>3
  <2> QED BY <2>1, FS_EmptySet DEF InflightIsLive, Restart
<1>6. (balance = Deposit - Price * Cardinality({r \in Requests : charged[r] = 1}))'
  BY DEF RunsInv, Restart, execVars
<1> QED BY <1>2, <1>3, <1>4, <1>5, <1>6 DEF RunsInv

\* A step of one request keeps all of the invariant.
LEMMA RequestSteps ==
  ASSUME RunsAssumption, RunsInv, NEW r \in Requests,
         Accepts(r) \/ Executes(r) \/ ContextEnds(r) \/ ResultsExpire(r)
  PROVE  RunsInv'
<1>0. TypeOK /\ RequestInv(r) BY DEF RunsInv
<1> DEFINE Kept == OneWinner' /\ InflightIsLive'
                   /\ balance' = Deposit - Price * Cardinality({s \in Requests : charged'[s] = 1})
           Local == TypeOK' /\ RequestInv(r)' /\ Grows /\ \A s \in Requests \ {r} : Same(s)
<1>1. ASSUME Local, Kept PROVE RunsInv'
  <2>1. \A s \in Requests : RequestInv(s)'
    BY <1>1, Frame DEF RunsInv
  <2> QED BY <1>1, <2>1 DEF RunsInv
<1>2. ASSUME Local, Quiet(r) PROVE Kept
  BY <1>2, QuietKeeps
<1> HIDE DEF Kept
<1>3. CASE Find(r)
  <2>1. Local BY <1>0, <1>3, FindStep
  <2>2. Kept BY <1>0, <1>2, <1>3, <2>1, QuietSteps
  <2> QED BY <1>1, <2>1, <2>2
<1>4. CASE CheckFunds(r)
  <2>1. Local BY <1>0, <1>4, CheckFundsStep
  <2>2. Kept BY <1>0, <1>2, <1>4, <2>1, QuietSteps
  <2> QED BY <1>1, <2>1, <2>2
<1>5. CASE CheckCeiling(r)
  <2>1. Local BY <1>0, <1>5, CheckCeilingStep
  <2>2. Kept BY <1>0, <1>2, <1>5, <2>1, QuietSteps
  <2> QED BY <1>1, <2>1, <2>2
<1>6. CASE Lock(r)
  <2>1. Local BY <1>0, <1>6, LockStep
  <2>2. Kept BY <1>6, <2>1, LockKeeps DEF Kept
  <2> QED BY <1>1, <2>1, <2>2
<1>7. CASE Record(r)
  <2>1. Local BY <1>0, <1>7, RecordStep
  <2>2. Kept BY <1>0, <1>2, <1>7, <2>1, QuietSteps
  <2> QED BY <1>1, <2>1, <2>2
<1>8. CASE CountRun(r)
  <2>1. Local BY <1>0, <1>8, CountRunStep
  <2>2. Kept BY <1>8, <2>1, CountRunKeeps DEF Kept
  <2> QED BY <1>1, <2>1, <2>2
<1>9. CASE StartSync(r)
  <2>1. Local BY <1>0, <1>9, StartSyncStep
  <2>2. Kept BY <1>0, <1>2, <1>9, <2>1, QuietSteps
  <2> QED BY <1>1, <2>1, <2>2
<1>10. CASE StartAsync(r)
  <2>1. Local BY <1>0, <1>10, StartAsyncStep
  <2>2. Kept BY <1>0, <1>2, <1>10, <2>1, QuietSteps
  <2> QED BY <1>1, <2>1, <2>2
<1>11. CASE RunChunk(r)
  <2>1. Local BY <1>0, <1>11, RunChunkStep
  <2>2. Kept BY <1>0, <1>2, <1>11, <2>1, QuietSteps
  <2> QED BY <1>1, <2>1, <2>2
<1>12. CASE ChunkRefused(r)
  <2>1. Local BY <1>0, <1>12, ChunkRefusedStep
  <2>2. Kept BY <1>0, <1>2, <1>12, <2>1, QuietSteps
  <2> QED BY <1>1, <2>1, <2>2
<1>13. CASE RecordJob(r)
  <2>1. Local BY <1>0, <1>13, RecordJobStep
  <2>2. Kept BY <1>0, <1>2, <1>13, <2>1, QuietSteps
  <2> QED BY <1>1, <2>1, <2>2
<1>14. CASE Settle(r)
  <2>1. Local BY <1>0, <1>14, SettleStep
  <2>2. Kept BY <1>14, <2>1, SettleKeeps DEF Kept
  <2> QED BY <1>1, <2>1, <2>2
<1>15. CASE Park(r)
  <2>1. Local BY <1>0, <1>15, ParkStep
  <2>2. Kept BY <1>0, <1>2, <1>15, <2>1, QuietSteps
  <2> QED BY <1>1, <2>1, <2>2
<1>16. CASE Notify(r)
  <2>1. Local BY <1>0, <1>16, NotifyStep
  <2>2. Kept BY <1>0, <1>2, <1>16, <2>1, QuietSteps
  <2> QED BY <1>1, <2>1, <2>2
<1>17. CASE SaveEnd(r)
  <2>1. Local BY <1>0, <1>17, SaveEndStep
  <2>2. Kept BY <1>0, <1>2, <1>17, <2>1, QuietSteps
  <2> QED BY <1>1, <2>1, <2>2
<1>18. CASE Leave(r)
  <2>1. Local BY <1>0, <1>18, LeaveStep
  <2>2. Kept BY <1>18, <2>1, LeaveKeeps DEF Kept
  <2> QED BY <1>1, <2>1, <2>2
<1>19. CASE ContextEnds(r)
  <2>1. Local BY <1>0, <1>19, ContextEndsStep
  <2>2. Kept BY <1>0, <1>2, <1>19, <2>1, QuietSteps
  <2> QED BY <1>1, <2>1, <2>2
<1>20. CASE ResultsExpire(r)
  <2>1. Local BY <1>0, <1>20, ResultsExpireStep
  <2>2. Kept BY <1>0, <1>2, <1>20, <2>1, QuietSteps
  <2> QED BY <1>1, <2>1, <2>2
<1> QED BY <1>3, <1>4, <1>5, <1>6, <1>7, <1>8, <1>9, <1>10, <1>11, <1>12, <1>13, <1>14, <1>15, <1>16, <1>17, <1>18, <1>19, <1>20 DEF Accepts, Executes

LEMMA InitRuns == ASSUME RunsAssumption, Init PROVE RunsInv
<1>1. TypeOK BY DEF RunsAssumption, Init, TypeOK, Places, Stages
<1>2. \A r \in Requests : RequestInv(r)
  BY DEF Init, RequestInv, PathInv, WorkInv, RowInv, Won, Ran, Owners, Open, Ending, Early
<1>3. OneWinner
  BY DEF Init, OneWinner, Won, Ran, Owners, Open, Ending
<1>4. {r \in Requests : Counted(r)} = {} BY DEF Init, Counted
<1>5. {r \in Requests : charged[r] = 1} = {} BY DEF Init
<1>6. InflightIsLive BY <1>4, FS_EmptySet DEF Init, InflightIsLive
<1>7. balance = Deposit - Price * Cardinality({r \in Requests : charged[r] = 1})
  BY <1>5, FS_EmptySet DEF RunsAssumption, Init
<1> QED BY <1>1, <1>2, <1>3, <1>6, <1>7 DEF RunsInv

LEMMA NextRuns == ASSUME RunsAssumption, RunsInv, [Next]_vars PROVE RunsInv'
<1>1. CASE UNCHANGED vars
  <2>1. /\ TypeOK' /\ Grows /\ (\A r \in Requests : Same(r))
        /\ InflightIsLive' /\ OneWinner'
        /\ balance' = balance /\ charged' = charged
    BY <1>1 DEF RunsInv, TypeOK, Grows, Same, InflightIsLive, Counted, OneWinner, Won, Ran,
                vars, quoteVars, execVars, runVars, envVars
  <2> QED BY <2>1, Frame DEF RunsInv
<1>2. CASE \E q \in Quotes : Create(q) \/ QuoteGoes(q) BY <1>2, QuoteSteps
<1>3. CASE \E r \in Requests : Accepts(r) \/ Executes(r) \/ ContextEnds(r) \/ ResultsExpire(r)
  BY <1>3, RequestSteps
<1>4. CASE Restart BY <1>4, RestartStep
<1> QED BY <1>1, <1>2, <1>3, <1>4 DEF Next

(***************************************************************************)
(* The theorems.                                                           *)
(***************************************************************************)

\* The inductive invariant holds throughout.
THEOREM RunsInvariant == Spec => []RunsInv
<1>1. Init => RunsInv BY InitRuns, RunsAssumption
<1>2. RunsInv /\ [Next]_vars => RunsInv' BY NextRuns, RunsAssumption
<1> QED BY <1>1, <1>2, PTL DEF Spec

\* Only one of the requests that race for a quote executes it, whatever each of them
\* has read of it and across restarts (marketplace.Store.MarkAccepted).
THEOREM QuoteIsOneRun == Spec => []QuoteRunsOnce
<1>1. RunsInv => QuoteRunsOnce
  BY DEF RunsInv, RequestInv, PathInv, OneWinner, QuoteRunsOnce
<1> QED BY <1>1, RunsInvariant, PTL

\* The balance is the deposit less one price for each run that had a success
\* (settleWorkload), however many store calls fail.
THEOREM WorkIsChargedOnce == Spec => []ChargedOnceForWork
<1>1. RunsInv => ChargedOnceForWork
  BY DEF RunsInv, RequestInv, WorkInv, ChargedOnceForWork
<1> QED BY <1>1, RunsInvariant, PTL

\* The count of the per-key ceiling (runRegistry.inflight) never drifts from the runs
\* that are live.
THEOREM NoPlaceLeaks == Spec => []InflightIsLive
<1>1. RunsInv => InflightIsLive BY DEF RunsInv
<1> QED BY <1>1, RunsInvariant, PTL

\* A consumer that is handed results, or told that they have expired, had a run that
\* was metered and debited but for the store calls that failed (handleGetRunResults).
THEOREM HandedOutIsSettled == Spec => []ResultsAreSettled
<1>1. RunsInv => ResultsAreSettled
  <2> SUFFICES ASSUME RunsInv, NEW r \in Requests,
                      ResultsAnswer(r) \in {"results", "results_expired"}
               PROVE  /\ results[r] # "none" /\ status[r] = "succeeded"
                      /\ metered[r] = ok[r]
                      /\ ok[r] = 0 => charged[r] = 0
                      /\ (ok[r] - earned[r]) + (IF ok[r] > 0 THEN 1 - charged[r] ELSE 0) <= faults
    BY DEF ResultsAreSettled
  <2>1. row[r] = "succeeded"
    BY DEF RunsInv, TypeOK, Stages, ResultsAnswer, LookupRun
  <2>2. results[r] # "none" /\ status[r] = "succeeded"
    BY <2>1 DEF RunsInv, RequestInv, RowInv
  <2>3. charged[r] \in {0, 1} /\ ok[r] \in Nat BY DEF RunsInv, TypeOK
  <2> QED BY <2>2, <2>3 DEF RunsInv, RequestInv, WorkInv
<1> QED BY <1>1, RunsInvariant, PTL

(***************************************************************************)
(* What a poller is answered never goes back.                              *)
(***************************************************************************)

\* The row moves towards its end, and results only leave a run that has ended.
RowMoves(r) ==
  \/ /\ row'[r] = row[r]
     /\ row[r] = "succeeded" =>
          results'[r] = results[r] \/ (results[r] = "held" /\ results'[r] = "dropped")
  \/ row[r] = "none" /\ row'[r] \in Stages
  \/ row[r] = "queued" /\ row'[r] \in {"queued", "running", "succeeded", "failed"}
  \/ row[r] = "running" /\ row'[r] \in {"running", "succeeded", "failed"}

LEMMA AnswerRank ==
  ASSUME TypeOK, NEW r \in Requests
  PROVE  /\ row[r] = "none" => ResultsAnswer(r) = "not_found" /\ Rank(ResultsAnswer(r)) = 0
         /\ row[r] \in {"queued", "running"} =>
              ResultsAnswer(r) = "not_finished" /\ Rank(ResultsAnswer(r)) = 1
         /\ row[r] = "failed" => ResultsAnswer(r) = "run_failed" /\ Rank(ResultsAnswer(r)) = 2
         /\ row[r] = "succeeded" /\ results[r] = "held" =>
              ResultsAnswer(r) = "results" /\ Rank(ResultsAnswer(r)) = 2
         /\ row[r] = "succeeded" /\ results[r] # "held" =>
              ResultsAnswer(r) = "results_expired" /\ Rank(ResultsAnswer(r)) = 3
BY DEF ResultsAnswer, LookupRun, Rank

LEMMA AnswerMoves ==
  ASSUME TypeOK, TypeOK', NEW r \in Requests, RowMoves(r)
  PROVE  /\ ResultsAnswer(r)' # ResultsAnswer(r) =>
              /\ Rank(ResultsAnswer(r)) < Rank(ResultsAnswer(r)')
              /\ ResultsAnswer(r) # "run_failed"
         /\ row[r] = "running" => row'[r] # "queued"
<1>1. /\ row'[r] = "none" => ResultsAnswer(r)' = "not_found" /\ Rank(ResultsAnswer(r)') = 0
      /\ row'[r] \in {"queued", "running"} =>
           ResultsAnswer(r)' = "not_finished" /\ Rank(ResultsAnswer(r)') = 1
      /\ row'[r] = "failed" => ResultsAnswer(r)' = "run_failed" /\ Rank(ResultsAnswer(r)') = 2
      /\ row'[r] = "succeeded" /\ results'[r] = "held" =>
           ResultsAnswer(r)' = "results" /\ Rank(ResultsAnswer(r)') = 2
      /\ row'[r] = "succeeded" /\ results'[r] # "held" =>
           ResultsAnswer(r)' = "results_expired" /\ Rank(ResultsAnswer(r)') = 3
  BY DEF ResultsAnswer, LookupRun, Rank
<1>2. row[r] \in Stages /\ row'[r] \in Stages BY DEF TypeOK
<1> QED BY <1>1, <1>2, AnswerRank DEF RowMoves, Stages

LEMMA RowsMove ==
  ASSUME RunsAssumption, RunsInv, [Next]_vars, NEW s \in Requests
  PROVE  RowMoves(s)
<1>0. TypeOK /\ RequestInv(s) BY DEF RunsInv
<1>1. CASE UNCHANGED vars BY <1>1 DEF RowMoves, vars, runVars
<1>2. CASE \E q \in Quotes : Create(q) \/ QuoteGoes(q)
  BY <1>2 DEF RowMoves, Create, QuoteGoes, runVars
<1>3. CASE Restart BY <1>3 DEF RowMoves, Restart
<1>4. ASSUME NEW r \in Requests, Accepts(r) \/ Executes(r) \/ ContextEnds(r) \/ ResultsExpire(r)
      PROVE  RowMoves(s)
  <2>0. TypeOK /\ RequestInv(r) BY DEF RunsInv
  <2> USE DEF RowMoves, RequestInv, RowInv, TypeOK, Stages, Saves, Early, Ending, runVars
  <2>1. CASE Find(r) BY <1>0, <2>0, <2>1 DEF Find
  <2>2. CASE CheckFunds(r) BY <1>0, <2>0, <2>2 DEF CheckFunds
  <2>3. CASE CheckCeiling(r) BY <1>0, <2>0, <2>3 DEF CheckCeiling
  <2>4. CASE Lock(r) BY <1>0, <2>0, <2>4 DEF Lock
  <2>5. CASE Record(r) BY <1>0, <2>0, <2>5 DEF Record
  <2>6. CASE CountRun(r) BY <1>0, <2>0, <2>6 DEF CountRun
  <2>7. CASE StartSync(r) BY <1>0, <2>0, <2>7 DEF StartSync
  <2>8. CASE StartAsync(r) BY <1>0, <2>0, <2>8 DEF StartAsync
  <2>9. CASE RunChunk(r) BY <1>0, <2>0, <2>9 DEF RunChunk
  <2>10. CASE ChunkRefused(r) BY <1>0, <2>0, <2>10 DEF ChunkRefused
  <2>11. CASE RecordJob(r) BY <1>0, <2>0, <2>11 DEF RecordJob
  <2>12. CASE Settle(r) BY <1>0, <2>0, <2>12 DEF Settle
  <2>13. CASE Park(r) BY <1>0, <2>0, <2>13 DEF Park
  <2>14. CASE Notify(r) BY <1>0, <2>0, <2>14 DEF Notify
  <2>15. CASE SaveEnd(r) BY <1>0, <2>0, <2>15 DEF SaveEnd
  <2>16. CASE Leave(r) BY <1>0, <2>0, <2>16 DEF Leave
  <2>17. CASE ContextEnds(r) BY <1>0, <2>0, <2>17 DEF ContextEnds
  <2>18. CASE ResultsExpire(r) BY <1>0, <2>0, <2>18 DEF ResultsExpire
  <2> QED BY <1>4, <2>1, <2>2, <2>3, <2>4, <2>5, <2>6, <2>7, <2>8, <2>9, <2>10, <2>11, <2>12, <2>13, <2>14, <2>15, <2>16, <2>17, <2>18 DEF Accepts, Executes
<1> QED BY <1>1, <1>2, <1>3, <1>4 DEF Next

\* The states of a run that lookupRun and handleGetRunResults tell a poller only move
\* forward, and a run that has failed stays failed.
THEOREM PollersSeeProgress == Spec => StatusMovesForward
<1>1. RunsInv /\ RunsInv' /\ [Next]_vars =>
        [\A r \in Requests :
           /\ ResultsAnswer(r)' # ResultsAnswer(r) =>
                /\ Rank(ResultsAnswer(r)) < Rank(ResultsAnswer(r)')
                /\ ResultsAnswer(r) # "run_failed"
           /\ row[r] = "running" => row'[r] # "queued"]_vars
  <2> SUFFICES ASSUME RunsInv, RunsInv', [Next]_vars, NEW r \in Requests
               PROVE  /\ ResultsAnswer(r)' # ResultsAnswer(r) =>
                           /\ Rank(ResultsAnswer(r)) < Rank(ResultsAnswer(r)')
                           /\ ResultsAnswer(r) # "run_failed"
                      /\ row[r] = "running" => row'[r] # "queued"
    OBVIOUS
  <2>1. RowMoves(r) BY RowsMove, RunsAssumption
  <2> QED BY <2>1, AnswerMoves DEF RunsInv
<1> QED BY <1>1, RunsInvariant, PTL DEF Spec, StatusMovesForward
==================================================================================
