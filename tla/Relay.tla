--------------------------------- MODULE Relay ---------------------------------
(***************************************************************************)
(* One inference job, from the consumer's request to its result: the       *)
(* coordinator's relay goroutine (relay.ExecuteOn), the table that routes  *)
(* provider frames to it (jobs.Manager), the per-provider slot counter     *)
(* (registry.Provider), the hub goroutine that serves one WebSocket        *)
(* (wshub.HandleProvider), and at the other end of the socket the provider *)
(* daemon (provider-lib run and handle_job).                               *)
(*                                                                         *)
(* Every shared-memory step of ExecuteOn is an action of its own, because  *)
(* the hub goroutines, the other relays and the deadline timer run between *)
(* any two of them.  onDelta is called inside the select loop: where it    *)
(* writes to the consumer's socket, the loop waits for the consumer.       *)
(*                                                                         *)
(* Data is abstracted to what the properties tell apart.  A chunk carries  *)
(* its sequence number; body tells whether the sealed payload opens        *)
(* ("ok"), does not open or claims too large a prompt ("bad"), or does not *)
(* parse ("garbled").  The field from of a buffered event is the           *)
(* connection it arrived on: history, which the code does not keep.        *)
(***************************************************************************)
EXTENDS Integers, Sequences, FiniteSets

CONSTANTS
  Jobs,       \* job ids: one relay.ExecuteOn call each, uuid.NewString()
  Streamed,   \* jobs of a streaming chat: onDelta writes to the consumer's socket
  Conns,      \* connection ids: one accepted WebSocket each, also a fresh uuid
  Faulty,     \* connections whose program may send any frame at any time
  None,       \* no connection
  BufCap,     \* capacity of a job's event channel (64 in jobs.Register)
  MaxTokens,  \* req.Params.MaxTokens; 0 switches the relay's ceiling off
  FaultyUp    \* bound: unread frames a faulty connection may have in flight

ASSUME RelayAssumption ==
  /\ IsFiniteSet(Jobs)
  /\ Streamed \subseteq Jobs
  /\ Faulty \subseteq Conns
  /\ None \notin Conns
  /\ BufCap \in Nat \ {0}
  /\ MaxTokens \in Nat
  /\ FaultyUp \in Nat

VARIABLES
  link,     \* the socket: "new", "open" or "cut" (broken, or closed by either end)
  hub,      \* HandleProvider: "none", "added" (Reg.Add done), "serving", "gone"
  down, up, \* frames in flight to the provider and to the coordinator
  active,   \* registry.Provider.active: jobs assigned to the connection
  entry,    \* jobs.Manager.m: the connection a job is bound to, or None
  chan,     \* the job's event channel
  closed,   \* the channel has been closed
  pc,       \* where ExecuteOn is
  prov,     \* the provider ExecuteOn was given
  next,     \* expectedSeq
  out,      \* the chunks accepted, oldest first; onDelta gets the non-empty deltas
  outcome,  \* what ExecuteOn returns
  usage,    \* Result.Usage.CompletionTokens
  caller,   \* the consumer's context: "waiting" or "left"
  session,  \* provider-lib run: "none", "registering", "serving", "closed"
  task,     \* handle_job: "none", "running", "finished"
  gen,      \* chunks the task has emitted
  stop      \* the task's CancellationToken

hubVars  == <<link, hub, down, up>>
jobVars  == <<entry, chan, closed>>
relVars  == <<pc, prov, next, out, outcome, usage, caller>>
provVars == <<session, task, gen, stop>>
vars     == <<hubVars, active, jobVars, relVars, provVars>>

Min2(a, b) == IF a < b THEN a ELSE b
Max2(a, b) == IF a > b THEN a ELSE b

Honest == Conns \ Faulty
Bodies == {"ok", "bad", "garbled"}

Ack         == [type |-> "register_ack"]
Request(j)  == [type |-> "job_request", job |-> j]
Cancel(j)   == [type |-> "cancel", job |-> j]
Chunk(j, n) == [type |-> "job_chunk", job |-> j, seq |-> n, body |-> "ok"]
Done(j)     == [type |-> "job_done", job |-> j, seq |-> 0, body |-> "ok"]
Error(j)    == [type |-> "job_error", job |-> j, seq |-> 0, body |-> "ok"]

DownFrames == {Ack} \cup [type : {"job_request", "cancel"}, job : Jobs]
UpFrames   == [type : {"job_chunk", "job_done", "job_error"}, job : Jobs,
               seq : Nat, body : Bodies]
Events     == [type : {"job_chunk", "job_done", "job_error"}, seq : Nat,
               body : Bodies, from : Conns]

Outcomes == {"none", "ok", "no_provider", "gone", "client", "deadline",
             "invalid", "decrypt", "garbled", "provider_error"}
PCs == {"idle", "picked", "listed", "slotted", "streaming", "writing",
        "returning", "released", "unlisted", "ended"}

TypeOK ==
  /\ link \in [Conns -> {"new", "open", "cut"}]
  /\ hub \in [Conns -> {"none", "added", "serving", "gone"}]
  /\ down \in [Conns -> Seq(DownFrames)]
  /\ up \in [Conns -> Seq(UpFrames)]
  /\ active \in [Conns -> Nat]
  /\ entry \in [Jobs -> Conns \cup {None}]
  /\ chan \in [Jobs -> Seq(Events)]
  /\ closed \in [Jobs -> BOOLEAN]
  /\ pc \in [Jobs -> PCs]
  /\ prov \in [Jobs -> Conns \cup {None}]
  /\ next \in [Jobs -> Nat]
  /\ out \in [Jobs -> Seq([seq : Nat, from : Conns])]
  /\ outcome \in [Jobs -> Outcomes]
  /\ usage \in [Jobs -> Nat]
  /\ caller \in [Jobs -> {"waiting", "left"}]
  /\ session \in [Conns -> {"none", "registering", "serving", "closed"}]
  /\ task \in [Jobs -> {"none", "running", "finished"}]
  /\ gen \in [Jobs -> Nat]
  /\ stop \in [Jobs -> BOOLEAN]

Init ==
  /\ link = [c \in Conns |-> "new"]
  /\ hub = [c \in Conns |-> "none"]
  /\ down = [c \in Conns |-> <<>>]
  /\ up = [c \in Conns |-> <<>>]
  /\ active = [c \in Conns |-> 0]
  /\ entry = [j \in Jobs |-> None]
  /\ chan = [j \in Jobs |-> <<>>]
  /\ closed = [j \in Jobs |-> FALSE]
  /\ pc = [j \in Jobs |-> "idle"]
  /\ prov = [j \in Jobs |-> None]
  /\ next = [j \in Jobs |-> 0]
  /\ out = [j \in Jobs |-> <<>>]
  /\ outcome = [j \in Jobs |-> "none"]
  /\ usage = [j \in Jobs |-> 0]
  /\ caller = [j \in Jobs |-> "waiting"]
  /\ session = [c \in Conns |-> "none"]
  /\ task = [j \in Jobs |-> "none"]
  /\ gen = [j \in Jobs |-> 0]
  /\ stop = [j \in Jobs |-> FALSE]

--------------------------------------------------------------------------------
(***************************************************************************)
(* The WebSocket and the hub goroutine that serves it.                     *)
(***************************************************************************)

\* The connected-provider set: Reg.Add before the ack, Reg.Remove on return.
Registered == {c \in Conns : hub[c] \in {"added", "serving"}}

\* conn.send: a frame written to a broken socket is never read.
Sent(c, f) == IF link[c] = "open" THEN [down EXCEPT ![c] = Append(@, f)] ELSE down

\* A provider connects and its register frame is accepted: the connection gets
\* an id and enters the registry.
Connect(c) ==
  /\ link[c] = "new"
  /\ link' = [link EXCEPT ![c] = "open"]
  /\ hub' = [hub EXCEPT ![c] = "added"]
  /\ session' = [session EXCEPT ![c] = "registering"]
  /\ UNCHANGED <<down, up, active, jobVars, relVars, task, gen, stop>>

\* The register_ack, sent after the device link and the provider row are saved.
SendAck(c) ==
  /\ hub[c] = "added"
  /\ hub' = [hub EXCEPT ![c] = "serving"]
  /\ down' = Sent(c, Ack)
  /\ UNCHANGED <<link, up, active, jobVars, relVars, provVars>>

\* Mutant: the job id is not looked up in the table.
DeliverableUnlisted(c, f) == prov[f.job] = c /\ Len(chan[f.job]) < BufCap

\* Mutant: one place of the channel is never used.
DeliverableTight(c, f) == entry[f.job] = c /\ Len(chan[f.job]) < BufCap - 1

\* jobs.Manager.Deliver: the frame must name a listed job, come from the
\* connection the job is bound to, and find room in the channel.
Deliverable(c, f) == entry[f.job] = c /\ Len(chan[f.job]) < BufCap

Delivered(c, f) ==
  IF Deliverable(c, f)
    THEN [chan EXCEPT ![f.job] =
            Append(@, [type |-> f.type, seq |-> f.seq, body |-> f.body, from |-> c])]
    ELSE chan

\* One turn of the read loop; a frame Deliver refuses is dropped.
HubRead(c) ==
  /\ hub[c] = "serving"
  /\ up[c] # <<>>
  /\ up' = [up EXCEPT ![c] = Tail(@)]
  /\ chan' = Delivered(c, Head(up[c]))
  /\ UNCHANGED <<link, hub, down, active, entry, closed, relVars, provVars>>

\* The handler returns on a read or ack error; frames not yet read are lost.
HubDrop(c) ==
  /\ hub[c] \in {"added", "serving"}
  /\ link[c] = "cut"
  /\ hub' = [hub EXCEPT ![c] = "gone"]
  /\ up' = [up EXCEPT ![c] = <<>>]
  /\ UNCHANGED <<link, down, active, jobVars, relVars, provVars>>

\* The network fails, the provider exits, heartbeats stop, or the operator
\* closes the socket.  What either end has received stays readable; an end that
\* notices the break without reading it has lost it.
Cut(c) ==
  /\ link[c] = "open"
  /\ link' = [link EXCEPT ![c] = "cut"]
  /\ UNCHANGED <<hub, down, up, active, jobVars, relVars, provVars>>

--------------------------------------------------------------------------------
(***************************************************************************)
(* relay.Execute and relay.ExecuteOn.                                      *)
(***************************************************************************)

Goto(j, l)   == pc' = [pc EXCEPT ![j] = l]
Return(j, o) == Goto(j, "returning") /\ outcome' = [outcome EXCEPT ![j] = o]

\* scheduler.Pick: some registered provider.  The ranking and the filters are
\* the Scheduler module's; here any provider may be the best one.
Pick(j) ==
  /\ pc[j] = "idle"
  /\ \E c \in Registered : prov' = [prov EXCEPT ![j] = c]
  /\ Goto(j, "picked")
  /\ UNCHANGED <<hubVars, active, jobVars, next, out, outcome, usage, caller, provVars>>

\* scheduler.Pick: nobody serves the model, or nobody meets the requirements.
PickNone(j) ==
  /\ pc[j] = "idle"
  /\ Goto(j, "ended")
  /\ outcome' = [outcome EXCEPT ![j] = "no_provider"]
  /\ UNCHANGED <<hubVars, active, jobVars, prov, next, out, usage, caller, provVars>>

\* jobs.Register: a fresh channel bound to the chosen connection.
List(j) ==
  /\ pc[j] = "picked"
  /\ entry' = [entry EXCEPT ![j] = prov[j]]
  /\ Goto(j, "listed")
  /\ UNCHANGED <<hubVars, active, chan, closed, prov, next, out, outcome, usage,
                 caller, provVars>>

AcquireSlot(j) ==
  /\ pc[j] = "listed"
  /\ active' = [active EXCEPT ![prov[j]] = @ + 1]
  /\ Goto(j, "slotted")
  /\ UNCHANGED <<hubVars, jobVars, prov, next, out, outcome, usage, caller, provVars>>

\* prov.Send(job_request).  A write to a socket whose peer is gone but whose
\* end the hub has not noticed may still succeed.
Dispatch(j) ==
  /\ pc[j] = "slotted"
  /\ link[prov[j]] = "open" \/ hub[prov[j]] # "gone"
  /\ down' = Sent(prov[j], Request(j))
  /\ Goto(j, "streaming")
  /\ UNCHANGED <<link, hub, up, active, jobVars, prov, next, out, outcome, usage,
                 caller, provVars>>

\* Mutant: the error return comes before the release is deferred.
DispatchFailsHoldingSlot(j) ==
  /\ pc[j] = "slotted"
  /\ link[prov[j]] = "cut"
  /\ Goto(j, "released")
  /\ outcome' = [outcome EXCEPT ![j] = "gone"]
  /\ UNCHANGED <<hubVars, active, jobVars, prov, next, out, usage, caller, provVars>>

DispatchFails(j) ==
  /\ pc[j] = "slotted"
  /\ link[prov[j]] = "cut"
  /\ Return(j, "gone")
  /\ UNCHANGED <<hubVars, active, jobVars, prov, next, out, usage, caller, provVars>>

\* The select loop gives up: the provider is told, then ExecuteOn returns.
Abandon(j, o) ==
  /\ Return(j, o)
  /\ down' = Sent(prov[j], Cancel(j))
  /\ UNCHANGED <<link, hub, up, active, entry, closed, prov, usage, caller, provVars>>

ContextDone(j) ==
  /\ pc[j] = "streaming"
  /\ caller[j] = "left"
  /\ Abandon(j, "client")
  /\ UNCHANGED <<chan, next, out>>

\* Mutant: the provider is not told.
DeadlineSilent(j) ==
  /\ pc[j] = "streaming"
  /\ Return(j, "deadline")
  /\ UNCHANGED <<hubVars, active, jobVars, prov, next, out, usage, caller, provVars>>

\* Mutant: the timer is disarmed by the first chunk.
DeadlineToFirstChunk(j) ==
  /\ pc[j] = "streaming"
  /\ next[j] = 0
  /\ Abandon(j, "deadline")
  /\ UNCHANGED <<chan, next, out>>

\* jobDeadline.C: the timer runs from the dispatch on.
Deadline(j) ==
  /\ pc[j] = "streaming"
  /\ Abandon(j, "deadline")
  /\ UNCHANGED <<chan, next, out>>

\* ev := <-ch
Receives(j, type) ==
  /\ pc[j] = "streaming"
  /\ chan[j] # <<>>
  /\ Head(chan[j]).type = type
  /\ chan' = [chan EXCEPT ![j] = Tail(@)]

\* Mutant: a gap left by a dropped frame goes unnoticed.
InSequenceGaps(j, e) == e.seq >= next[j] /\ (MaxTokens > 0 => next[j] < MaxTokens)

\* cp.Seq is the expected one and the job's token ceiling is not reached.
InSequence(j, e) == e.seq = next[j] /\ (MaxTokens > 0 => next[j] < MaxTokens)

\* A chunk is accepted.  Its delta goes to onDelta unless it is empty: the handlers
\* that collect an answer append it to a builder, a streaming chat starts to write.
ForwardChunk(j) ==
  LET e == Head(chan[j]) IN
  /\ Receives(j, "job_chunk")
  /\ e.body = "ok"
  /\ InSequence(j, e)
  /\ next' = [next EXCEPT ![j] = @ + 1]
  /\ out' = [out EXCEPT ![j] = Append(@, [seq |-> e.seq, from |-> e.from])]
  /\ \/ Goto(j, "streaming")
     \/ j \in Streamed /\ Goto(j, "writing")
  /\ UNCHANGED <<hubVars, active, entry, closed, prov, outcome, usage, caller, provVars>>

\* The write and the flush return.  The server has no write timeout: a consumer that
\* keeps its connection and does not read holds the loop here.
Written(j) ==
  /\ pc[j] = "writing"
  /\ Goto(j, "streaming")
  /\ UNCHANGED <<hubVars, active, jobVars, prov, next, out, outcome, usage, caller, provVars>>

\* The write fails once the consumer has left.
WriteFails(j) ==
  /\ pc[j] = "writing"
  /\ caller[j] = "left"
  /\ Abandon(j, "client")
  /\ UNCHANGED <<chan, next, out>>

ChunkRefused(j) ==
  LET e == Head(chan[j]) IN
  /\ Receives(j, "job_chunk")
  /\ \/ e.body = "bad" /\ Abandon(j, "decrypt")
     \/ e.body = "ok" /\ ~InSequence(j, e) /\ Abandon(j, "invalid")
  /\ UNCHANGED <<next, out>>

\* A frame that does not parse ends the job without a cancel, and so does a
\* job_done whose prompt-token claim is over the coordinator's ceiling.
FrameUnusable(j) ==
  LET e == Head(chan[j]) IN
  /\ \/ Receives(j, "job_chunk") /\ e.body = "garbled" /\ Return(j, "garbled")
     \/ Receives(j, "job_done") /\ e.body = "garbled" /\ Return(j, "garbled")
     \/ Receives(j, "job_done") /\ e.body = "bad" /\ Return(j, "invalid")
  /\ UNCHANGED <<hubVars, active, entry, closed, prov, next, out, usage, caller,
                 provVars>>

\* Mutant: the provider's own count is metered.
JobDoneClaimed(j) ==
  /\ Receives(j, "job_done")
  /\ Head(chan[j]).body = "ok"
  /\ usage' = [usage EXCEPT ![j] = gen[j]]
  /\ Return(j, "ok")
  /\ UNCHANGED <<hubVars, active, entry, closed, prov, next, out, caller, provVars>>

\* job_done: the completion count is the coordinator's own tally.
JobDone(j) ==
  /\ Receives(j, "job_done")
  /\ Head(chan[j]).body = "ok"
  /\ usage' = [usage EXCEPT ![j] = next[j]]
  /\ Return(j, "ok")
  /\ UNCHANGED <<hubVars, active, entry, closed, prov, next, out, caller, provVars>>

JobError(j) ==
  /\ Receives(j, "job_error")
  /\ Return(j, "provider_error")
  /\ UNCHANGED <<hubVars, active, entry, closed, prov, next, out, usage, caller,
                 provVars>>

\* The deferred calls, last registered first.
ReleaseSlot(j) ==
  /\ pc[j] = "returning"
  /\ active' = [active EXCEPT ![prov[j]] = Max2(@ - 1, 0)]
  /\ Goto(j, "released")
  /\ UNCHANGED <<hubVars, jobVars, prov, next, out, outcome, usage, caller, provVars>>

\* Mutant: the channel is closed before the entry is deleted.
UnlistClosesFirst(j) ==
  /\ pc[j] = "released"
  /\ closed' = [closed EXCEPT ![j] = TRUE]
  /\ Goto(j, "unlisted")
  /\ UNCHANGED <<hubVars, active, chan, entry, prov, next, out, outcome, usage,
                 caller, provVars>>

\* jobs.Close deletes the entry under the lock and closes the channel after it.
Unlist(j) ==
  /\ pc[j] = "released"
  /\ entry' = [entry EXCEPT ![j] = None]
  /\ Goto(j, "unlisted")
  /\ UNCHANGED <<hubVars, active, chan, closed, prov, next, out, outcome, usage,
                 caller, provVars>>

CloseChan(j) ==
  /\ pc[j] = "unlisted"
  /\ closed' = [closed EXCEPT ![j] = TRUE]
  /\ Goto(j, "ended")
  /\ UNCHANGED <<hubVars, active, entry, chan, prov, next, out, outcome, usage,
                 caller, provVars>>

\* The consumer closes its connection or its context expires.
CallerLeaves(j) ==
  /\ caller[j] = "waiting"
  /\ pc[j] \notin {"idle", "ended"}
  /\ caller' = [caller EXCEPT ![j] = "left"]
  /\ UNCHANGED <<hubVars, active, jobVars, pc, prov, next, out, outcome, usage, provVars>>

--------------------------------------------------------------------------------
(***************************************************************************)
(* The provider: provider-lib's run loop and one handle_job task per job.  *)
(***************************************************************************)

\* While registering, run expects the register_ack and gives up on anything else.
ReadAck(c) ==
  /\ c \in Honest
  /\ session[c] = "registering"
  /\ down[c] # <<>>
  /\ IF Head(down[c]) = Ack
       THEN /\ session' = [session EXCEPT ![c] = "serving"]
            /\ down' = [down EXCEPT ![c] = Tail(@)]
            /\ UNCHANGED link
       ELSE /\ session' = [session EXCEPT ![c] = "closed"]
            /\ down' = [down EXCEPT ![c] = <<>>]
            /\ link' = [link EXCEPT ![c] = "cut"]
  /\ UNCHANGED <<hub, up, active, jobVars, relVars, task, gen, stop>>

\* A job_request is entered in the token map before its task is spawned.
ReadRequest(c) ==
  /\ c \in Honest
  /\ session[c] = "serving"
  /\ down[c] # <<>>
  /\ Head(down[c]).type = "job_request"
  /\ task' = [task EXCEPT ![Head(down[c]).job] = "running"]
  /\ down' = [down EXCEPT ![c] = Tail(@)]
  /\ UNCHANGED <<link, hub, up, active, jobVars, relVars, session, gen, stop>>

\* Mutant: the cancel does not find the task's token.
ReadCancelLost(c) ==
  /\ c \in Honest
  /\ session[c] = "serving"
  /\ down[c] # <<>>
  /\ Head(down[c]).type = "cancel"
  /\ down' = [down EXCEPT ![c] = Tail(@)]
  /\ UNCHANGED <<link, hub, up, active, jobVars, relVars, provVars>>

\* A cancel for a job still in the map cancels its token.
ReadCancel(c) ==
  /\ c \in Honest
  /\ session[c] = "serving"
  /\ down[c] # <<>>
  /\ Head(down[c]).type = "cancel"
  /\ LET j == Head(down[c]).job IN
       stop' = [stop EXCEPT ![j] = @ \/ task[j] = "running"]
  /\ down' = [down EXCEPT ![c] = Tail(@)]
  /\ UNCHANGED <<link, hub, up, active, jobVars, relVars, session, task, gen>>

\* The read loop ends and every running task is cancelled.
StopReading(c) ==
  /\ c \in Honest
  /\ session' = [session EXCEPT ![c] = "closed"]
  /\ stop' = [j \in Jobs |-> stop[j] \/ (prov[j] = c /\ task[j] = "running")]
  /\ down' = [down EXCEPT ![c] = <<>>]
  /\ UNCHANGED <<link, hub, up, active, jobVars, relVars, task, gen>>

ProviderExit(c) ==
  /\ session[c] \in {"registering", "serving"}
  /\ link[c] = "cut"
  /\ StopReading(c)

\* The owner stops the provider.  The socket stays up while the writer drains
\* what the cancelled tasks still send.
Shutdown(c) ==
  /\ session[c] = "serving"
  /\ StopReading(c)

\* tx.send: the writer task puts the frame on the socket, if it is still there.
Uplink(c, f) == up' = IF link[c] = "open" THEN [up EXCEPT ![c] = Append(@, f)] ELSE up

\* Both backends generate at most max(max_tokens, 1) tokens.
TokenBudget == Max2(MaxTokens, 1)

\* A piece generated before the cancel was noticed still goes out.
Emit(j) ==
  /\ task[j] = "running"
  /\ gen[j] < TokenBudget
  /\ Uplink(prov[j], Chunk(j, gen[j]))
  /\ gen' = [gen EXCEPT ![j] = @ + 1]
  /\ UNCHANGED <<link, hub, down, active, jobVars, relVars, session, task, stop>>

\* The completion ends (end of text, length, or llama.cpp noticing the cancel)
\* with job_done; a rejected manifest, a missing model, a backend failure or the
\* mock backend's cancel ends it with job_error.
Finish(j) ==
  /\ task[j] = "running"
  /\ \E f \in {Done(j), Error(j)} : Uplink(prov[j], f)
  /\ task' = [task EXCEPT ![j] = "finished"]
  /\ UNCHANGED <<link, hub, down, active, jobVars, relVars, session, gen, stop>>

\* A program that does not follow the protocol sends any frame for any job.  What
\* it reads makes no difference to what it may send, so its reading is left out.
FaultySend(c) ==
  /\ c \in Faulty
  /\ link[c] = "open"
  /\ Len(up[c]) < FaultyUp
  /\ \E t \in {"job_chunk", "job_done", "job_error"}, j \in Jobs,
        n \in 0 .. MaxTokens, b \in Bodies :
       /\ t # "job_chunk" => n = 0
       /\ t = "job_error" => b = "ok"
       /\ up' = [up EXCEPT ![c] =
                   Append(@, [type |-> t, job |-> j, seq |-> n, body |-> b])]
  /\ UNCHANGED <<link, hub, down, active, jobVars, relVars, provVars>>

--------------------------------------------------------------------------------
(***************************************************************************)
(* The system.                                                             *)
(***************************************************************************)

HubStep(c) == SendAck(c) \/ HubRead(c) \/ HubDrop(c)

ProviderStep(c) ==
  ReadAck(c) \/ ReadRequest(c) \/ ReadCancel(c) \/ ProviderExit(c)

TaskStep(j) == Emit(j) \/ Finish(j)

Begins(j) == Pick(j) \/ PickNone(j)

Prepares(j) == List(j) \/ AcquireSlot(j) \/ Dispatch(j) \/ DispatchFails(j)

Streams(j) ==
  \/ ForwardChunk(j) \/ ChunkRefused(j) \/ FrameUnusable(j)
  \/ JobDone(j) \/ JobError(j)

Unwinds(j) == ReleaseSlot(j) \/ Unlist(j) \/ CloseChan(j)

Next ==
  \/ \E c \in Conns :
       \/ Connect(c) \/ Cut(c) \/ Shutdown(c)
       \/ HubStep(c) \/ ProviderStep(c) \/ FaultySend(c)
  \/ \E j \in Jobs :
       \/ Begins(j) \/ Prepares(j) \/ Streams(j) \/ Unwinds(j)
       \/ ContextDone(j) \/ Deadline(j) \/ Written(j) \/ WriteFails(j)
       \/ CallerLeaves(j) \/ TaskStep(j)

\* Goroutines and the provider's tasks keep running, the deadline timer fires and is
\* taken by a select loop that stays ready, and a write to a consumer who has left
\* fails.  Nothing makes a consumer call, read or leave, a provider connect or stop, a
\* link break, or an inference that nobody cancelled reach its end.
Fairness ==
  /\ \A j \in Jobs : /\ WF_vars(Prepares(j))
                     /\ WF_vars(Deadline(j))
                     /\ WF_vars(WriteFails(j))
                     /\ WF_vars(Unwinds(j))
                     /\ WF_vars(stop[j] /\ Finish(j))
  /\ \A c \in Conns : WF_vars(HubStep(c)) /\ WF_vars(ProviderStep(c))

Spec == Init /\ [][Next]_vars /\ Fairness

--------------------------------------------------------------------------------
(***************************************************************************)
(* Safety.                                                                 *)
(***************************************************************************)

\* ExecuteOn has decided its result.
Over(j) == pc[j] \in {"returning", "released", "unlisted", "ended"}

\* The job is in the table of the jobs manager.
Listed(j) ==
  pc[j] \in {"listed", "slotted", "streaming", "writing", "returning", "released"}

\* The load the scheduler ranks by is exactly the number of jobs between
\* AcquireSlot and ReleaseSlot: no return path of ExecuteOn leaks a slot, none
\* is released twice, and the clamp in addActive never hides a mistake.
Holders(c) ==
  {j \in Jobs : prov[j] = c /\ pc[j] \in {"slotted", "streaming", "writing", "returning"}}

SlotsMatchJobs == \A c \in Conns : active[c] = Cardinality(Holders(c))

\* What is accepted for the consumer is the assigned provider's own stream, from its
\* first chunk on and without a gap, a repetition or a chunk of another
\* connection, although the channel may drop frames (threat model AYNI-003).
OwnOrderedStream ==
  \A j \in Jobs : \A i \in 1 .. Len(out[j]) :
    out[j][i] = [seq |-> i - 1, from |-> prov[j]]

\* The consumer never receives more chunks than it asked for, whatever the
\* provider sends (AYNI-004).
WithinCeiling ==
  MaxTokens > 0 => \A j \in Jobs : Len(out[j]) <= MaxTokens

\* A successful job is metered for exactly the chunks accepted, an empty delta
\* included, and never for what the provider claims (AYNI-004).
UsageIsForwarded ==
  \A j \in Jobs : outcome[j] = "ok" => usage[j] = Len(out[j])

\* Deliver drops a frame that finds the channel full, and a dropped end of a stream
\* leaves no gap to notice.  An answer of no more chunks than the channel holds is
\* out of its reach: a success is then all that the provider generated.
ShortSuccessIsWhole ==
  \A j \in Jobs :
    outcome[j] = "ok" /\ prov[j] \in Honest /\ gen[j] <= BufCap => Len(out[j]) = gen[j]

\* Deliver never sends on a closed channel, which would panic the coordinator:
\* a job that is still in the table has an open channel.
ListedIsOpen ==
  \A j \in Jobs : entry[j] # None => ~closed[j]

\* ExecuteOn never returns leaving an honest provider generating for nobody: the
\* task has ended or been cancelled, or a cancel is on its way behind the
\* request, or the connection is broken (and the provider cancels on that).
AbandonedIsTold ==
  \A j \in Jobs :
    (Over(j) /\ prov[j] \in Honest /\ task[j] = "running" /\ ~stop[j])
      => \/ link[prov[j]] = "cut"
         \/ \E i \in 1 .. Len(down[prov[j]]) : down[prov[j]][i] = Cancel(j)

\* The inductive invariant, job by job: where ExecuteOn is determines the table
\* entry and whether the counters still have to agree; whatever the channel
\* holds came from the assigned connection.
JobInv(j) ==
  /\ pc[j] \notin {"idle", "ended"} => prov[j] \in Conns
  /\ entry[j] = IF Listed(j) THEN prov[j] ELSE None
  /\ closed[j] => pc[j] = "ended"
  /\ pc[j] \in {"idle", "picked"} => chan[j] = <<>> /\ out[j] = <<>>
  /\ \A i \in 1 .. Len(chan[j]) : chan[j][i].from = prov[j]
  /\ \A i \in 1 .. Len(out[j]) : out[j][i] = [seq |-> i - 1, from |-> prov[j]]
  /\ ~Over(j) => outcome[j] = "none" /\ next[j] = Len(out[j])
  /\ Over(j) => outcome[j] # "none"
  /\ outcome[j] = "no_provider" => pc[j] = "ended"
  /\ MaxTokens > 0 => Len(out[j]) <= MaxTokens
  /\ usage[j] = IF outcome[j] = "ok" THEN Len(out[j]) ELSE 0

\* The job-by-job invariant and the slot count: what makes the coordinator's
\* side of a job safe against every order of its steps.
RelayInv == TypeOK /\ SlotsMatchJobs /\ \A j \in Jobs : JobInv(j)

\* The other end of the socket.  A job is asked of one provider, once; a provider
\* that follows the protocol is not done with a job before its task is; and while
\* the request of a job that is over still waits, the cancel waits behind it.
Unasked == {"idle", "picked", "listed", "slotted"}

Truthful(e, j) == e.body = "ok" /\ (e.type # "job_chunk" => task[j] = "finished")

CancelBehind(j, c, i) ==
  link[c] = "cut" \/ \E k \in i + 1 .. Len(down[c]) : down[c][k] = Cancel(j)

AskedOnce(j, c) ==
  \A i \in 1 .. Len(down[c]) : down[c][i] = Request(j) =>
    /\ prov[j] = c /\ pc[j] \notin Unasked /\ task[j] = "none"
    /\ \A k \in 1 .. Len(down[c]) : down[c][k] = Request(j) => k = i
    /\ Over(j) => CancelBehind(j, c, i)

LinksKnown ==
  /\ \A c \in Conns : hub[c] # "none" => link[c] # "new"
  /\ \A j \in Jobs : prov[j] \in Conns => link[prov[j]] # "new"

TasksAsked == \A j \in Jobs : task[j] # "none" => pc[j] \notin Unasked

SentTruly(c) == \A i \in 1 .. Len(up[c]) : Truthful(up[c][i], up[c][i].job)

HeldTruly(j) ==
  \A i \in 1 .. Len(chan[j]) : chan[j][i].from \in Honest => Truthful(chan[j][i], j)

ProviderInv ==
  /\ LinksKnown /\ TasksAsked
  /\ \A c \in Honest : SentTruly(c)
  /\ \A j \in Jobs : HeldTruly(j)
  /\ \A j \in Jobs, c \in Honest : AskedOnce(j, c)
  /\ AbandonedIsTold

\* The chunks of a job on their way.  Ordered: what a provider sends of job j is its
\* chunks in order and then the end.  Queued: from chunk n on, the first the hub has
\* not read, none is missing.  Held: nor is one in the channel, from chunk n on, where
\* the end comes last and after all g of them.
Ahead(f, g) == IF f.type = "job_chunk" THEN f.seq ELSE g

Ordered(q, j, g) ==
  \A i \in 1 .. Len(q) : q[i].job = j =>
    /\ q[i].type = "job_chunk" => q[i].seq < g
    /\ \A k \in 1 .. i - 1 :
         q[k].job = j => q[k].type = "job_chunk" /\ q[k].seq < Ahead(q[i], g)

Follow(q, j, n, m, i) == \A s \in n .. m - 1 : \E k \in 1 .. i - 1 : q[k] = Chunk(j, s)

Queued(q, j, n, g) ==
  \A i \in 1 .. Len(q) : q[i].job = j =>
    n <= Ahead(q[i], g) /\ Follow(q, j, n, Ahead(q[i], g), i)

Held(ch, n, g) ==
  \A i \in 1 .. Len(ch) :
    IF ch[i].type = "job_chunk" THEN ch[i].seq = n + i - 1 ELSE i = Len(ch) /\ n + i - 1 = g

Absent(q, j) == \A i \in 1 .. Len(q) : q[i].job # j

\* While there is room for every chunk, none is lost but with the link, and then the
\* end is lost as well.  q is what the provider has sent, ch what the channel holds, n
\* the chunk expected next, g the number generated; going, that the end is to come.
NoneLost(q, ch, j, n, g, going, linked) ==
  LET heard == n + Len(ch) IN
  /\ Held(ch, n, g)
  /\ Queued(q, j, heard, g)
  /\ (\E i \in 1 .. Len(ch) : ch[i].type # "job_chunk") => Absent(q, j)
  /\ going => heard <= g /\ (linked => Follow(q, j, heard, g, Len(q) + 1))

RoomOf(j) ==
  /\ task[j] = "none" => gen[j] = 0
  /\ task[j] # "none" => prov[j] \in Honest
  /\ \A c \in Honest : Ordered(up[c], j, gen[j])
  /\ \A c \in Honest : (prov[j] = c /\ task[j] # "none") \/ Absent(up[c], j)
  /\ prov[j] \in Honest /\ gen[j] <= BufCap /\ ~Over(j) =>
       NoneLost(up[prov[j]], chan[j], j, next[j], gen[j], task[j] # "finished",
                link[prov[j]] = "open")
  /\ prov[j] \in Honest /\ outcome[j] = "ok" =>
       task[j] = "finished" /\ (gen[j] <= BufCap => Len(out[j]) = gen[j])

RoomInv == \A j \in Jobs : RoomOf(j)

\* A frame that arrives after jobs.Close has deleted the job is not delivered.
LateFramesDropped ==
  [][\A j \in Jobs : pc[j] \in {"unlisted", "ended"} => chan'[j] = chan[j]]_vars

--------------------------------------------------------------------------------
(***************************************************************************)
(* Liveness.                                                               *)
(***************************************************************************)

\* A job that has been given a provider ends, whatever the provider and the network
\* do: the deadline timer is the last resort.  It cannot interrupt a write: the one
\* call that stays is a streaming chat whose consumer neither reads nor leaves.
Stalled(j) == pc[j] = "writing" /\ caller[j] = "waiting"

EveryJobEnds ==
  \A j \in Jobs :
    pc[j] = "picked" ~> (pc[j] = "ended" \/ (j \in Streamed /\ []Stalled(j)))

\* A provider stops generating for a job the coordinator has given up.
AbandonedTasksEnd ==
  \A j \in Jobs : (Over(j) /\ task[j] = "running") ~> task[j] # "running"

--------------------------------------------------------------------------------
(***************************************************************************)
(* Refinement: ExecuteOn keeps the promise its caller relies on.           *)
(***************************************************************************)

\* A call has returned once the deferred calls have run; its result is then seen.
CallState(j) ==
  CASE pc[j] = "idle" -> "idle" [] pc[j] = "ended" -> "ended"
    [] pc[j] = "writing" -> "sending" [] OTHER -> "running"

callState  == [j \in Jobs |-> CallState(j)]
callStream == [j \in Jobs |-> [i \in 1 .. Len(out[j]) |-> out[j][i].seq]]
callResult == [j \in Jobs |-> IF pc[j] = "ended" THEN outcome[j] ELSE "none"]
callTokens == [j \in Jobs |-> IF pc[j] = "ended" THEN usage[j] ELSE 0]

Promise == INSTANCE JobPromise WITH
  state <- callState, stream <- callStream, result <- callResult, tokens <- callTokens

\* The relay, the table, the hub and the provider together implement the call
\* that the chat, batch and workload handlers are written against.
KeepsPromise == Promise!PromiseSpec

--------------------------------------------------------------------------------
(***************************************************************************)
(* What a comment in the source says, and a run refutes.                   *)
(***************************************************************************)

\* The completion tokens are counted "from the authenticated, strictly-ordered
\* chunk stream" (relay.go): a job that succeeds has forwarded every chunk its
\* provider generated.
SuccessIsComplete ==
  \A j \in Jobs :
    (outcome[j] = "ok" /\ prov[j] \in Honest) => Len(out[j]) = gen[j]
================================================================================
