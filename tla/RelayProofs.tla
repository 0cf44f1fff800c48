------------------------------ MODULE RelayProofs ------------------------------
(***************************************************************************)
(* Theorems about Relay, for every number of jobs and connections, every   *)
(* channel capacity, every token ceiling and any set of faulty providers.  *)
(***************************************************************************)
EXTENDS Relay, FiniteSetTheorems, TLAPS

--------------------------------------------------------------------------------
(***************************************************************************)
(* Type correctness.                                                       *)
(***************************************************************************)

\* A frame put on a socket keeps the socket well typed.
LEMMA SentType ==
  ASSUME TypeOK, NEW c \in Conns \cup {None}, NEW f \in DownFrames
  PROVE  Sent(c, f) \in [Conns -> Seq(DownFrames)]
<1>1. CASE c \in Conns
  BY <1>1 DEF Sent, TypeOK
<1>2. CASE c \notin Conns
  BY <1>2 DEF Sent, TypeOK
<1>3. QED
  BY <1>1, <1>2

LEMMA DeliveredType ==
  ASSUME TypeOK, NEW c \in Conns, NEW f \in UpFrames
  PROVE  Delivered(c, f) \in [Jobs -> Seq(Events)]
<1> DEFINE e == [type |-> f.type, seq |-> f.seq, body |-> f.body, from |-> c]
<1>1. e \in Events /\ f.job \in Jobs
  BY DEF UpFrames, Events
<1>2. chan[f.job] \in Seq(Events)
  BY <1>1 DEF TypeOK
<1>3. Append(chan[f.job], e) \in Seq(Events)
  BY <1>1, <1>2
<1>4. chan \in [Jobs -> Seq(Events)]
  BY DEF TypeOK
<1>5. Delivered(c, f) = IF Deliverable(c, f)
                          THEN [chan EXCEPT ![f.job] = Append(chan[f.job], e)] ELSE chan
  BY DEF Delivered
<1> HIDE DEF e
<1>6. QED
  BY <1>1, <1>3, <1>4, <1>5

\* Queues in a function stay queues when one is read or written.
LEMMA QueueTail ==
  ASSUME NEW S, NEW F, NEW q \in [S -> Seq(F)], NEW x \in S, q[x] # <<>>
  PROVE  /\ Head(q[x]) \in F
         /\ [q EXCEPT ![x] = Tail(@)] \in [S -> Seq(F)]
OBVIOUS

LEMMA QueueAppend ==
  ASSUME NEW S, NEW F, NEW q \in [S -> Seq(F)], NEW x \in S, NEW f \in F
  PROVE  [q EXCEPT ![x] = Append(@, f)] \in [S -> Seq(F)]
OBVIOUS

LEMMA InitType == Init => TypeOK
BY DEF Init, TypeOK, PCs, Outcomes

LEMMA HubType ==
  ASSUME TypeOK, NEW c \in Conns, Connect(c) \/ Cut(c) \/ Shutdown(c) \/ HubStep(c)
  PROVE  TypeOK'
<1> USE DEF hubVars, jobVars, relVars, provVars
<1>1. CASE Connect(c)
  BY <1>1 DEF Connect, TypeOK
<1>2. CASE SendAck(c)
  <2>1. Ack \in DownFrames
    BY DEF DownFrames
  <2>2. down' \in [Conns -> Seq(DownFrames)]
    BY <1>2, <2>1, SentType DEF SendAck
  <2>3. QED
    BY <1>2, <2>2 DEF SendAck, TypeOK
<1>3. CASE HubRead(c)
  <2>1. Head(up[c]) \in UpFrames /\ up' \in [Conns -> Seq(UpFrames)]
    BY <1>3 DEF HubRead, TypeOK
  <2>2. chan' \in [Jobs -> Seq(Events)]
    BY <1>3, <2>1, DeliveredType DEF HubRead
  <2>3. QED
    BY <1>3, <2>1, <2>2 DEF HubRead, TypeOK
<1>4. CASE HubDrop(c)
  BY <1>4 DEF HubDrop, TypeOK
<1>5. CASE Cut(c)
  BY <1>5 DEF Cut, TypeOK
<1>6. CASE Shutdown(c)
  BY <1>6 DEF Shutdown, StopReading, TypeOK
<1>7. QED
  BY <1>1, <1>2, <1>3, <1>4, <1>5, <1>6 DEF HubStep

LEMMA ProviderType ==
  ASSUME TypeOK, NEW c \in Conns, ProviderStep(c) \/ FaultySend(c)
  PROVE  TypeOK'
<1> USE DEF hubVars, jobVars, relVars, provVars
<1>0. ASSUME down[c] # <<>>
      PROVE  [down EXCEPT ![c] = Tail(@)] \in [Conns -> Seq(DownFrames)]
  BY <1>0, QueueTail DEF TypeOK
<1>1. CASE ReadAck(c)
  <2>1. down' \in [Conns -> Seq(DownFrames)]
    <3>1. [down EXCEPT ![c] = <<>>] \in [Conns -> Seq(DownFrames)]
      BY DEF TypeOK
    <3>2. QED
      BY <1>0, <1>1, <3>1 DEF ReadAck
  <2>2. /\ link' \in [Conns -> {"new", "open", "cut"}]
        /\ session' \in [Conns -> {"none", "registering", "serving", "closed"}]
    BY <1>1, ZenonT(40) DEF ReadAck, TypeOK
  <2>3. UNCHANGED <<hub, up, active, jobVars, relVars, task, gen, stop>>
    BY <1>1 DEF ReadAck
  <2>4. QED
    BY <2>1, <2>2, <2>3 DEF TypeOK
<1>2. CASE ReadRequest(c)
  <2>1. down' \in [Conns -> Seq(DownFrames)]
    BY <1>0, <1>2 DEF ReadRequest
  <2>2. task' \in [Jobs -> {"none", "running", "finished"}]
    BY <1>2 DEF ReadRequest, TypeOK
  <2>3. UNCHANGED <<link, hub, up, active, jobVars, relVars, session, gen, stop>>
    BY <1>2 DEF ReadRequest
  <2>4. QED
    BY <2>1, <2>2, <2>3 DEF TypeOK
<1>3. CASE ReadCancel(c)
  <2>1. down' \in [Conns -> Seq(DownFrames)]
    BY <1>0, <1>3 DEF ReadCancel
  <2>2. stop' \in [Jobs -> BOOLEAN]
    BY <1>3 DEF ReadCancel, TypeOK
  <2>3. UNCHANGED <<link, hub, up, active, jobVars, relVars, session, task, gen>>
    BY <1>3 DEF ReadCancel
  <2>4. QED
    BY <2>1, <2>2, <2>3 DEF TypeOK
<1>4. CASE ProviderExit(c)
  BY <1>4 DEF ProviderExit, StopReading, TypeOK
<1>5. CASE FaultySend(c)
  <2>1. PICK t \in {"job_chunk", "job_done", "job_error"}, j \in Jobs,
             n \in 0 .. MaxTokens, b \in Bodies :
          up' = [up EXCEPT ![c] =
                   Append(@, [type |-> t, job |-> j, seq |-> n, body |-> b])]
    BY <1>5 DEF FaultySend
  <2>2. [type |-> t, job |-> j, seq |-> n, body |-> b] \in UpFrames
    BY RelayAssumption DEF UpFrames
  <2>3. up' \in [Conns -> Seq(UpFrames)]
    BY <2>1, <2>2, QueueAppend DEF TypeOK
  <2>4. UNCHANGED <<link, hub, down, active, jobVars, relVars, provVars>>
    BY <1>5 DEF FaultySend
  <2>5. QED
    BY <2>3, <2>4 DEF TypeOK
<1>6. QED
  BY <1>1, <1>2, <1>3, <1>4, <1>5 DEF ProviderStep

LEMMA UplinkType ==
  ASSUME TypeOK, NEW j \in Jobs, NEW f \in UpFrames, Uplink(prov[j], f)
  PROVE  up' \in [Conns -> Seq(UpFrames)]
<1>1. CASE prov[j] \in Conns
  BY <1>1, QueueAppend DEF Uplink, TypeOK
<1>2. CASE prov[j] \notin Conns
  BY <1>2 DEF Uplink, TypeOK
<1>3. QED
  BY <1>1, <1>2

LEMMA TaskType ==
  ASSUME TypeOK, NEW j \in Jobs, TaskStep(j)
  PROVE  TypeOK'
<1> USE DEF hubVars, jobVars, relVars, provVars
<1>1. CASE Emit(j)
  <2>1. Chunk(j, gen[j]) \in UpFrames
    BY DEF Chunk, UpFrames, TypeOK, Bodies
  <2>2. up' \in [Conns -> Seq(UpFrames)]
    BY <1>1, <2>1, UplinkType DEF Emit
  <2>3. /\ gen' \in [Jobs -> Nat]
        /\ UNCHANGED <<link, hub, down, active, jobVars, relVars, session, task, stop>>
    BY <1>1 DEF Emit, TypeOK
  <2>4. QED
    BY <2>2, <2>3 DEF TypeOK
<1>2. CASE Finish(j)
  <2>1. Done(j) \in UpFrames /\ Error(j) \in UpFrames
    BY DEF Done, Error, UpFrames, Bodies
  <2>2. up' \in [Conns -> Seq(UpFrames)]
    BY <1>2, <2>1, UplinkType DEF Finish
  <2>3. /\ task' \in [Jobs -> {"none", "running", "finished"}]
        /\ UNCHANGED <<link, hub, down, active, jobVars, relVars, session, gen, stop>>
    BY <1>2 DEF Finish, TypeOK
  <2>4. QED
    BY <2>2, <2>3 DEF TypeOK
<1>3. QED
  BY <1>1, <1>2 DEF TaskStep

\* Every way out of the select loop.
LEMMA AbandonType ==
  ASSUME TypeOK, NEW j \in Jobs, NEW o \in Outcomes, Abandon(j, o)
  PROVE  /\ down' \in [Conns -> Seq(DownFrames)]
         /\ pc' \in [Jobs -> PCs]
         /\ outcome' \in [Jobs -> Outcomes]
         /\ UNCHANGED <<link, hub, up, active, entry, closed, prov, usage, caller, provVars>>
<1>1. Cancel(j) \in DownFrames
  BY DEF Cancel, DownFrames
<1>2. down' \in [Conns -> Seq(DownFrames)]
  BY <1>1, SentType DEF Abandon, TypeOK
<1>3. QED
  BY <1>2 DEF Abandon, Return, Goto, PCs, TypeOK

LEMMA AbandonKeepsType ==
  ASSUME TypeOK, NEW j \in Jobs, NEW o \in Outcomes, Abandon(j, o),
         chan' \in [Jobs -> Seq(Events)], next' \in [Jobs -> Nat],
         out' \in [Jobs -> Seq([seq : Nat, from : Conns])],
         UNCHANGED provVars
  PROVE  TypeOK'
<1>1. /\ down' \in [Conns -> Seq(DownFrames)] /\ pc' \in [Jobs -> PCs]
      /\ outcome' \in [Jobs -> Outcomes]
      /\ UNCHANGED <<link, hub, up, active, entry, closed, prov, usage, caller>>
  BY AbandonType
<1>2. UNCHANGED <<session, task, gen, stop>>
  BY DEF provVars
<1>3. /\ link \in [Conns -> {"new", "open", "cut"}]
      /\ hub \in [Conns -> {"none", "added", "serving", "gone"}]
      /\ up \in [Conns -> Seq(UpFrames)] /\ active \in [Conns -> Nat]
      /\ entry \in [Jobs -> Conns \cup {None}] /\ closed \in [Jobs -> BOOLEAN]
      /\ prov \in [Jobs -> Conns \cup {None}] /\ usage \in [Jobs -> Nat]
      /\ caller \in [Jobs -> {"waiting", "left"}]
      /\ session \in [Conns -> {"none", "registering", "serving", "closed"}]
      /\ task \in [Jobs -> {"none", "running", "finished"}]
      /\ gen \in [Jobs -> Nat] /\ stop \in [Jobs -> BOOLEAN]
  BY DEF TypeOK
<1> QED BY <1>1, <1>2, <1>3 DEF TypeOK

LEMMA ReturnType ==
  ASSUME TypeOK, NEW j \in Jobs, NEW o \in Outcomes, Return(j, o)
  PROVE  pc' \in [Jobs -> PCs] /\ outcome' \in [Jobs -> Outcomes]
BY DEF Return, Goto, PCs, TypeOK

LEMMA ReceivesType ==
  ASSUME TypeOK, NEW j \in Jobs, NEW t, Receives(j, t)
  PROVE  /\ Head(chan[j]) \in Events
         /\ chan' \in [Jobs -> Seq(Events)]
BY QueueTail DEF Receives, TypeOK

LEMMA PrepareType ==
  ASSUME TypeOK, NEW j \in Jobs, Begins(j) \/ Prepares(j) \/ Unwinds(j) \/ CallerLeaves(j)
  PROVE  TypeOK'
<1> USE DEF hubVars, jobVars, relVars, provVars, Goto, PCs
<1>1. CASE Pick(j)
  BY <1>1 DEF Pick, TypeOK, Registered
<1>2. CASE PickNone(j)
  BY <1>2 DEF PickNone, TypeOK, Outcomes
<1>3. CASE List(j)
  BY <1>3 DEF List, TypeOK
<1>4. CASE AcquireSlot(j)
  <2>1. active' \in [Conns -> Nat]
    <3>1. CASE prov[j] \in Conns
      BY <1>4, <3>1 DEF AcquireSlot, TypeOK
    <3>2. CASE prov[j] \notin Conns
      <4>1. active' = active
        BY <1>4, <3>2 DEF AcquireSlot, TypeOK
      <4>2. QED
        BY <4>1 DEF TypeOK
    <3>3. QED
      BY <3>1, <3>2
  <2>2. pc' \in [Jobs -> PCs]
    BY <1>4 DEF AcquireSlot, TypeOK
  <2>3. UNCHANGED <<hubVars, jobVars, prov, next, out, outcome, usage, caller, provVars>>
    BY <1>4 DEF AcquireSlot
  <2>4. QED
    BY <2>1, <2>2, <2>3 DEF TypeOK
<1>5. CASE Dispatch(j)
  <2>1. Request(j) \in DownFrames
    BY DEF Request, DownFrames
  <2>2. down' \in [Conns -> Seq(DownFrames)]
    BY <1>5, <2>1, SentType DEF Dispatch, TypeOK
  <2>3. QED
    BY <1>5, <2>2 DEF Dispatch, TypeOK
<1>6. CASE DispatchFails(j)
  BY <1>6 DEF DispatchFails, Return, TypeOK, Outcomes
<1>7. CASE ReleaseSlot(j)
  <2>1. active' \in [Conns -> Nat]
    <3>1. CASE prov[j] \in Conns
      BY <1>7, <3>1 DEF ReleaseSlot, Max2, TypeOK
    <3>2. CASE prov[j] \notin Conns
      <4>1. active' = active
        BY <1>7, <3>2 DEF ReleaseSlot, TypeOK
      <4>2. QED
        BY <4>1 DEF TypeOK
    <3>3. QED
      BY <3>1, <3>2
  <2>2. pc' \in [Jobs -> PCs]
    BY <1>7 DEF ReleaseSlot, TypeOK
  <2>3. UNCHANGED <<hubVars, jobVars, prov, next, out, outcome, usage, caller, provVars>>
    BY <1>7 DEF ReleaseSlot
  <2>4. QED
    BY <2>1, <2>2, <2>3 DEF TypeOK
<1>8. CASE Unlist(j)
  BY <1>8 DEF Unlist, TypeOK
<1>9. CASE CloseChan(j)
  BY <1>9 DEF CloseChan, TypeOK
<1>10. CASE CallerLeaves(j)
  BY <1>10 DEF CallerLeaves, TypeOK
<1>11. QED
  BY <1>1, <1>2, <1>3, <1>4, <1>5, <1>6, <1>7, <1>8, <1>9, <1>10
  DEF Begins, Prepares, Unwinds

LEMMA StreamType ==
  ASSUME TypeOK, NEW j \in Jobs,
         Streams(j) \/ ContextDone(j) \/ Deadline(j) \/ Written(j) \/ WriteFails(j)
  PROVE  TypeOK'
<1> USE DEF hubVars, jobVars, relVars, provVars
<1>0. /\ "client" \in Outcomes /\ "deadline" \in Outcomes /\ "decrypt" \in Outcomes
      /\ "invalid" \in Outcomes /\ "garbled" \in Outcomes /\ "ok" \in Outcomes
      /\ "provider_error" \in Outcomes
  BY DEF Outcomes
<1>1. CASE ForwardChunk(j)
  <2>1. Head(chan[j]) \in Events /\ chan' \in [Jobs -> Seq(Events)]
    BY <1>1, ReceivesType DEF ForwardChunk
  <2>2. out' \in [Jobs -> Seq([seq : Nat, from : Conns])]
    <3> DEFINE r == [seq |-> Head(chan[j]).seq, from |-> Head(chan[j]).from]
    <3>1. r \in [seq : Nat, from : Conns]
      BY <2>1 DEF Events
    <3>2. out \in [Jobs -> Seq([seq : Nat, from : Conns])]
      BY DEF TypeOK
    <3>3. out' = [out EXCEPT ![j] = Append(@, r)]
      BY <1>1 DEF ForwardChunk
    <3> HIDE DEF r
    <3>4. QED
      BY <3>1, <3>2, <3>3, QueueAppend
  <2>3. /\ next' \in [Jobs -> Nat]
        /\ UNCHANGED <<hubVars, active, entry, closed, prov, outcome, usage, caller,
                       provVars>>
    BY <1>1 DEF ForwardChunk, TypeOK
  <2>5. pc' \in [Jobs -> PCs]
    <3>1. \E l \in PCs : pc' = [pc EXCEPT ![j] = l]
      BY <1>1 DEF ForwardChunk, Goto, PCs
    <3>2. QED
      BY <3>1 DEF TypeOK
  <2>4. QED
    BY <2>1, <2>2, <2>3, <2>5 DEF TypeOK
<1>2. CASE WriteFails(j)
  <2>1. Abandon(j, "client") /\ UNCHANGED <<chan, next, out, provVars>>
    BY <1>2 DEF WriteFails, Abandon
  <2>2. /\ chan \in [Jobs -> Seq(Events)] /\ next \in [Jobs -> Nat]
        /\ out \in [Jobs -> Seq([seq : Nat, from : Conns])]
    BY DEF TypeOK
  <2>3. QED
    BY <1>0, <2>1, <2>2, AbandonKeepsType
<1>3. CASE ChunkRefused(j)
  <2>1. chan' \in [Jobs -> Seq(Events)] /\ UNCHANGED <<next, out>>
    BY <1>3, ReceivesType DEF ChunkRefused
  <2>2. Abandon(j, "decrypt") \/ Abandon(j, "invalid")
    BY <1>3 DEF ChunkRefused
  <2>3. next \in [Jobs -> Nat] /\ out \in [Jobs -> Seq([seq : Nat, from : Conns])]
    BY DEF TypeOK
  <2>4. UNCHANGED provVars
    BY <1>3 DEF ChunkRefused, Abandon
  <2>5. QED
    BY <1>0, <2>1, <2>2, <2>3, <2>4, AbandonKeepsType
<1>4. CASE FrameUnusable(j)
  <2>1. chan' \in [Jobs -> Seq(Events)]
    BY <1>4, ReceivesType DEF FrameUnusable
  <2>2. Return(j, "garbled") \/ Return(j, "invalid")
    BY <1>4 DEF FrameUnusable
  <2>3. UNCHANGED <<hubVars, active, entry, closed, prov, next, out, usage, caller, provVars>>
    BY <1>4 DEF FrameUnusable
  <2>4. QED
    BY <1>0, <2>1, <2>2, <2>3, ReturnType DEF TypeOK
<1>5. CASE JobDone(j)
  <2>1. chan' \in [Jobs -> Seq(Events)]
    BY <1>5, ReceivesType DEF JobDone
  <2>2. pc' \in [Jobs -> PCs] /\ outcome' \in [Jobs -> Outcomes]
    BY <1>0, <1>5, ReturnType DEF JobDone
  <2>3. /\ usage' \in [Jobs -> Nat]
        /\ UNCHANGED <<hubVars, active, entry, closed, prov, next, out, caller, provVars>>
    BY <1>5 DEF JobDone, TypeOK
  <2>4. QED
    BY <2>1, <2>2, <2>3 DEF TypeOK
<1>6. CASE JobError(j)
  <2>1. chan' \in [Jobs -> Seq(Events)]
    BY <1>6, ReceivesType DEF JobError
  <2>2. pc' \in [Jobs -> PCs] /\ outcome' \in [Jobs -> Outcomes]
    BY <1>0, <1>6, ReturnType DEF JobError
  <2>3. UNCHANGED <<hubVars, active, entry, closed, prov, next, out, usage, caller, provVars>>
    BY <1>6 DEF JobError
  <2>4. QED
    BY <2>1, <2>2, <2>3 DEF TypeOK
<1>7. CASE ContextDone(j)
  <2>1. Abandon(j, "client") /\ UNCHANGED <<chan, next, out, provVars>>
    BY <1>7 DEF ContextDone, Abandon
  <2>2. /\ chan \in [Jobs -> Seq(Events)] /\ next \in [Jobs -> Nat]
        /\ out \in [Jobs -> Seq([seq : Nat, from : Conns])]
    BY DEF TypeOK
  <2>3. QED
    BY <1>0, <2>1, <2>2, AbandonKeepsType
<1>8. CASE Deadline(j)
  <2>1. Abandon(j, "deadline") /\ UNCHANGED <<chan, next, out, provVars>>
    BY <1>8 DEF Deadline, Abandon
  <2>2. /\ chan \in [Jobs -> Seq(Events)] /\ next \in [Jobs -> Nat]
        /\ out \in [Jobs -> Seq([seq : Nat, from : Conns])]
    BY DEF TypeOK
  <2>3. QED
    BY <1>0, <2>1, <2>2, AbandonKeepsType
<1>9. CASE Written(j)
  BY <1>9 DEF Written, Goto, PCs, TypeOK
<1>10. QED
  BY <1>1, <1>2, <1>3, <1>4, <1>5, <1>6, <1>7, <1>8, <1>9 DEF Streams

LEMMA StutterType == TypeOK /\ UNCHANGED vars => TypeOK'
BY ZenonT(40) DEF TypeOK, vars, hubVars, jobVars, relVars, provVars

\* Every variable keeps its type; in particular the slot counter never goes
\* below zero, and every event a relay reads is one of its kind.
THEOREM TypeCorrect == Spec => []TypeOK
<1>1. Init => TypeOK
  BY InitType
<1>2. TypeOK /\ [Next]_vars => TypeOK'
  BY HubType, ProviderType, TaskType, PrepareType, StreamType, StutterType DEF Next
<1>3. QED
  BY <1>1, <1>2, PTL DEF Spec

--------------------------------------------------------------------------------
(***************************************************************************)
(* The inductive invariant.                                                *)
(***************************************************************************)

\* A step that leaves what JobInv(k) mentions alone.
Same(k) ==
  /\ pc'[k] = pc[k] /\ prov'[k] = prov[k] /\ entry'[k] = entry[k]
  /\ closed'[k] = closed[k] /\ chan'[k] = chan[k] /\ next'[k] = next[k]
  /\ out'[k] = out[k] /\ outcome'[k] = outcome[k] /\ usage'[k] = usage[k]

LEMMA SameJobInv ==
  ASSUME NEW k \in Jobs, JobInv(k), Same(k)
  PROVE  JobInv(k)'
BY DEF JobInv, Same, Over, Listed

LEMMA HoldersFinite ==
  ASSUME NEW c \in Conns
  PROVE  IsFiniteSet(Holders(c))
BY RelayAssumption, FS_Subset DEF Holders

LEMMA InitInv == Init => RelayInv
<1> SUFFICES ASSUME Init PROVE RelayInv
  OBVIOUS
<1>1. TypeOK
  BY InitType
<1>2. SlotsMatchJobs
  <2> SUFFICES ASSUME NEW c \in Conns PROVE active[c] = Cardinality(Holders(c))
    BY DEF SlotsMatchJobs
  <2>1. Holders(c) = {}
    BY DEF Init, Holders
  <2>2. QED
    BY <2>1, FS_EmptySet DEF Init
<1>3. \A j \in Jobs : JobInv(j)
  BY RelayAssumption DEF Init, JobInv, Over, Listed
<1>4. QED
  BY <1>1, <1>2, <1>3 DEF RelayInv

\* The slot count when no job enters or leaves the slot-holding states.
LEMMA SlotsFrame ==
  ASSUME SlotsMatchJobs, UNCHANGED active,
         \A c \in Conns : Holders(c)' = Holders(c)
  PROVE  SlotsMatchJobs'
BY DEF SlotsMatchJobs

LEMMA AcquireCounts ==
  ASSUME RelayInv, NEW j \in Jobs, AcquireSlot(j)
  PROVE  SlotsMatchJobs'
<1>1. prov[j] \in Conns /\ pc[j] = "listed"
  BY DEF RelayInv, JobInv, AcquireSlot
<1>2. \A c \in Conns : Holders(c)' = IF c = prov[j] THEN Holders(c) \cup {j} ELSE Holders(c)
  BY <1>1, SMTT(40) DEF Holders, AcquireSlot, Goto, RelayInv, TypeOK
<1>3. j \notin Holders(prov[j])
  BY <1>1 DEF Holders
<1>4. Cardinality(Holders(prov[j]) \cup {j}) = Cardinality(Holders(prov[j])) + 1
  BY <1>1, <1>3, HoldersFinite, FS_AddElement
<1>5. QED
  BY <1>1, <1>2, <1>4 DEF SlotsMatchJobs, RelayInv, TypeOK, AcquireSlot

LEMMA ReleaseCounts ==
  ASSUME RelayInv, NEW j \in Jobs, ReleaseSlot(j)
  PROVE  SlotsMatchJobs'
<1>1. prov[j] \in Conns /\ pc[j] = "returning"
  BY DEF RelayInv, JobInv, ReleaseSlot
<1>2. \A c \in Conns : Holders(c)' = IF c = prov[j] THEN Holders(c) \ {j} ELSE Holders(c)
  BY <1>1 DEF Holders, ReleaseSlot, Goto, RelayInv, TypeOK
<1>3. j \in Holders(prov[j])
  BY <1>1 DEF Holders
<1>4. /\ Cardinality(Holders(prov[j]) \ {j}) = Cardinality(Holders(prov[j])) - 1
      /\ Cardinality(Holders(prov[j]) \ {j}) \in Nat
  BY <1>1, <1>3, HoldersFinite, FS_RemoveElement, FS_CardinalityType
<1>5. active' = [active EXCEPT ![prov[j]] = active[prov[j]] - 1]
  <2>1. active[prov[j]] \in Nat /\ active[prov[j]] - 1 \in Nat
    BY <1>1, <1>4 DEF SlotsMatchJobs, RelayInv, TypeOK
  <2>2. Max2(active[prov[j]] - 1, 0) = active[prov[j]] - 1
    BY <2>1 DEF Max2
  <2>3. QED
    BY <2>2 DEF ReleaseSlot
<1>6. QED
  BY <1>1, <1>2, <1>4, <1>5 DEF SlotsMatchJobs, RelayInv, TypeOK

\* The steps of the hub and of the provider touch a job only through Deliver.
LEMMA HubInv ==
  ASSUME RelayInv, TypeOK', NEW c \in Conns,
         \/ Connect(c) \/ Cut(c) \/ Shutdown(c) \/ HubStep(c)
         \/ ProviderStep(c) \/ FaultySend(c)
  PROVE  RelayInv'
<1> USE DEF hubVars, jobVars, relVars, provVars
<1>1. CASE HubRead(c)
  <2> DEFINE f == Head(up[c])
             e == [type |-> f.type, seq |-> f.seq, body |-> f.body, from |-> c]
  <2>1. \A j \in Jobs : JobInv(j)'
    <3> SUFFICES ASSUME NEW j \in Jobs PROVE JobInv(j)'
      OBVIOUS
    <3>1. CASE Deliverable(c, f) /\ j = f.job
      <4>1. entry[j] = c /\ Listed(j) /\ prov[j] = c
        BY <3>1, RelayAssumption DEF Deliverable, RelayInv, JobInv
      <4>2. chan'[j] = Append(chan[j], e)
        BY <1>1, <3>1 DEF HubRead, Delivered, RelayInv, TypeOK
      <4>3. chan[j] \in Seq(Events) /\ JobInv(j)
        BY DEF RelayInv, TypeOK
      <4>4. \A i \in 1 .. Len(chan'[j]) : chan'[j][i].from = prov[j]
        <5> SUFFICES ASSUME NEW i \in 1 .. Len(chan'[j]) PROVE chan'[j][i].from = prov[j]
          OBVIOUS
        <5>1. e.from = c
          OBVIOUS
        <5> HIDE DEF e
        <5>2. CASE i = Len(chan[j]) + 1
          BY <4>1, <4>2, <4>3, <5>1, <5>2
        <5>3. CASE i \in 1 .. Len(chan[j])
          BY <4>2, <4>3, <5>3 DEF JobInv
        <5>4. QED
          BY <4>2, <4>3, <5>2, <5>3
      <4>5. UNCHANGED <<pc, prov, entry, closed, next, out, outcome, usage>>
        BY <1>1 DEF HubRead
      <4>6. pc[j] \notin {"idle", "picked"}
        BY <4>1 DEF Listed
      <4>7. QED
        BY <4>3, <4>4, <4>5, <4>6 DEF JobInv, Over, Listed
    <3>2. CASE ~(Deliverable(c, f) /\ j = f.job)
      <4>1. chan'[j] = chan[j]
        BY <1>1, <3>2 DEF HubRead, Delivered, RelayInv, TypeOK
      <4>2. Same(j)
        BY <1>1, <4>1 DEF HubRead, Same
      <4>3. QED
        BY <4>2, SameJobInv DEF RelayInv
    <3>3. QED
      BY <3>1, <3>2
  <2>2. SlotsMatchJobs'
    BY <1>1, SlotsFrame DEF HubRead, Holders, RelayInv
  <2>3. QED
    BY <2>1, <2>2 DEF RelayInv
<1>2. CASE ~HubRead(c)
  <2>1. UNCHANGED <<active, jobVars, relVars>>
    BY <1>2 DEF Connect, Cut, HubStep, SendAck, HubDrop, ProviderStep, ReadAck, ReadRequest,
                ReadCancel, ProviderExit, Shutdown, StopReading, FaultySend
  <2>2. \A j \in Jobs : Same(j)
    BY <2>1 DEF Same
  <2>3. SlotsMatchJobs'
    BY <2>1, SlotsFrame DEF Holders, RelayInv
  <2>4. QED
    BY <2>2, <2>3, SameJobInv DEF RelayInv
<1>3. QED
  BY <1>1, <1>2

\* A step of one relay: the job's own invariant and the slot count remain to show.
LEMMA OneJob ==
  ASSUME RelayInv, TypeOK', NEW j \in Jobs, JobInv(j)', SlotsMatchJobs',
         \A k \in Jobs \ {j} : Same(k)
  PROVE  RelayInv'
BY SameJobInv DEF RelayInv

LEMMA PrepareInv ==
  ASSUME RelayInv, TypeOK', NEW j \in Jobs,
         Begins(j) \/ Prepares(j) \/ Unwinds(j) \/ CallerLeaves(j)
  PROVE  RelayInv'
<1> USE DEF hubVars, jobVars, relVars, provVars, Goto
<1>0. JobInv(j) /\ TypeOK /\ SlotsMatchJobs
  BY DEF RelayInv
<1>1. CASE Pick(j)
  <2>1. PICK c \in Conns : prov' = [prov EXCEPT ![j] = c]
    BY <1>1 DEF Pick, Registered
  <2>2. JobInv(j)'
    BY <1>0, <1>1, <2>1 DEF Pick, JobInv, Over, Listed, TypeOK
  <2>3. \A k \in Jobs \ {j} : Same(k)
    BY <1>0, <1>1, <2>1 DEF Pick, Same, TypeOK
  <2>4. \A d \in Conns : Holders(d)' = Holders(d)
    BY <1>0, <1>1, <2>1 DEF Pick, Holders, TypeOK
  <2>5. SlotsMatchJobs'
    BY <1>0, <1>1, <2>4, SlotsFrame DEF Pick
  <2>6. QED
    BY <2>2, <2>3, <2>5, OneJob
<1>2. CASE PickNone(j)
  <2>1. JobInv(j)'
    BY <1>0, <1>2 DEF PickNone, JobInv, Over, Listed, TypeOK
  <2>2. \A k \in Jobs \ {j} : Same(k)
    BY <1>0, <1>2 DEF PickNone, Same, TypeOK
  <2>3. \A d \in Conns : Holders(d)' = Holders(d)
    BY <1>0, <1>2 DEF PickNone, Holders, TypeOK
  <2>4. SlotsMatchJobs'
    BY <1>0, <1>2, <2>3, SlotsFrame DEF PickNone
  <2>5. QED
    BY <2>1, <2>2, <2>4, OneJob
<1>3. CASE DispatchFails(j)
  <2>1. JobInv(j)'
    BY <1>0, <1>3 DEF DispatchFails, Return, JobInv, Over, Listed, TypeOK
  <2>2. \A k \in Jobs \ {j} : Same(k)
    BY <1>0, <1>3 DEF DispatchFails, Return, Same, TypeOK
  <2>3. \A d \in Conns : Holders(d)' = Holders(d)
    BY <1>0, <1>3 DEF DispatchFails, Return, Holders, TypeOK
  <2>4. SlotsMatchJobs'
    BY <1>0, <1>3, <2>3, SlotsFrame DEF DispatchFails
  <2>5. QED
    BY <2>1, <2>2, <2>4, OneJob
<1>4. CASE AcquireSlot(j)
  <2>1. JobInv(j)'
    BY <1>0, <1>4 DEF AcquireSlot, JobInv, Over, Listed, TypeOK
  <2>2. \A k \in Jobs \ {j} : Same(k)
    BY <1>0, <1>4 DEF AcquireSlot, Same, TypeOK
  <2>3. QED
    BY <1>4, <2>1, <2>2, AcquireCounts, OneJob
<1>5. CASE ReleaseSlot(j)
  <2>1. JobInv(j)'
    BY <1>0, <1>5 DEF ReleaseSlot, JobInv, Over, Listed, TypeOK
  <2>2. \A k \in Jobs \ {j} : Same(k)
    BY <1>0, <1>5 DEF ReleaseSlot, Same, TypeOK
  <2>3. QED
    BY <1>5, <2>1, <2>2, ReleaseCounts, OneJob
<1>6. CASE List(j)
  <2>1. JobInv(j)'
    BY <1>0, <1>6 DEF List, JobInv, Over, Listed, TypeOK
  <2>2. \A k \in Jobs \ {j} : Same(k)
    BY <1>0, <1>6 DEF List, Same, TypeOK
  <2>3. \A d \in Conns : Holders(d)' = Holders(d)
    BY <1>0, <1>6 DEF List, Holders, TypeOK
  <2>4. SlotsMatchJobs'
    BY <1>0, <1>6, <2>3, SlotsFrame DEF List
  <2>5. QED
    BY <2>1, <2>2, <2>4, OneJob
<1>7. CASE Unlist(j)
  <2>1. JobInv(j)'
    BY <1>0, <1>7, ZenonT(40) DEF Unlist, JobInv, Over, Listed, TypeOK
  <2>2. \A k \in Jobs \ {j} : Same(k)
    BY <1>0, <1>7 DEF Unlist, Same, TypeOK
  <2>3. \A d \in Conns : Holders(d)' = Holders(d)
    BY <1>0, <1>7 DEF Unlist, Holders, TypeOK
  <2>4. SlotsMatchJobs'
    BY <1>0, <1>7, <2>3, SlotsFrame DEF Unlist
  <2>5. QED
    BY <2>1, <2>2, <2>4, OneJob
<1>8. CASE CloseChan(j)
  <2>1. JobInv(j)'
    BY <1>0, <1>8 DEF CloseChan, JobInv, Over, Listed, TypeOK
  <2>2. \A k \in Jobs \ {j} : Same(k)
    BY <1>0, <1>8 DEF CloseChan, Same, TypeOK
  <2>3. \A d \in Conns : Holders(d)' = Holders(d)
    BY <1>0, <1>8 DEF CloseChan, Holders, TypeOK
  <2>4. SlotsMatchJobs'
    BY <1>0, <1>8, <2>3, SlotsFrame DEF CloseChan
  <2>5. QED
    BY <2>1, <2>2, <2>4, OneJob
<1>9. CASE CallerLeaves(j)
  <2>1. JobInv(j)'
    BY <1>0, <1>9 DEF CallerLeaves, JobInv, Over, Listed, TypeOK
  <2>2. \A k \in Jobs \ {j} : Same(k)
    BY <1>0, <1>9 DEF CallerLeaves, Same, TypeOK
  <2>3. \A d \in Conns : Holders(d)' = Holders(d)
    BY <1>0, <1>9 DEF CallerLeaves, Holders, TypeOK
  <2>4. SlotsMatchJobs'
    BY <1>0, <1>9, <2>3, SlotsFrame DEF CallerLeaves
  <2>5. QED
    BY <2>1, <2>2, <2>4, OneJob
<1>10. CASE Dispatch(j)
  <2>1. JobInv(j)'
    BY <1>0, <1>10 DEF Dispatch, JobInv, Over, Listed, TypeOK
  <2>2. \A k \in Jobs \ {j} : Same(k)
    BY <1>0, <1>10 DEF Dispatch, Same, TypeOK
  <2>3. \A d \in Conns : Holders(d)' = Holders(d)
    BY <1>0, <1>10 DEF Dispatch, Holders, TypeOK
  <2>4. SlotsMatchJobs'
    BY <1>0, <1>10, <2>3, SlotsFrame DEF Dispatch
  <2>5. QED
    BY <2>1, <2>2, <2>4, OneJob
<1>11. QED
  BY <1>1, <1>2, <1>3, <1>4, <1>5, <1>6, <1>7, <1>8, <1>9, <1>10
  DEF Begins, Prepares, Unwinds

\* Leaving the select loop keeps what has been received and the slot held.
LEMMA ReturnInv ==
  ASSUME RelayInv, TypeOK', NEW j \in Jobs, NEW o \in Outcomes \ {"none", "no_provider"},
         pc[j] \in {"streaming", "writing"}, Return(j, o),
         UNCHANGED <<active, entry, closed, prov, out>>,
         chan' = chan \/ (chan[j] # <<>> /\ chan' = [chan EXCEPT ![j] = Tail(@)]),
         \E n \in Nat : next' = [next EXCEPT ![j] = n],
         usage' = IF o = "ok" THEN [usage EXCEPT ![j] = next[j]] ELSE usage
  PROVE  RelayInv'
<1>0. JobInv(j) /\ TypeOK /\ SlotsMatchJobs
  BY DEF RelayInv
<1>1. pc' = [pc EXCEPT ![j] = "returning"] /\ outcome' = [outcome EXCEPT ![j] = o]
  BY DEF Return, Goto
<1>2. \A i \in 1 .. Len(chan'[j]) : chan'[j][i].from = prov[j]
  <2>1. CASE chan' = chan
    BY <1>0, <2>1 DEF JobInv
  <2>2. CASE chan[j] # <<>> /\ chan' = [chan EXCEPT ![j] = Tail(@)]
    <3>1. chan[j] \in Seq(Events) /\ chan'[j] = Tail(chan[j])
      BY <1>0, <2>2 DEF TypeOK
    <3>2. \A i \in 1 .. Len(Tail(chan[j])) :
            i + 1 \in 1 .. Len(chan[j]) /\ Tail(chan[j])[i] = chan[j][i + 1]
      BY <2>2, <3>1
    <3>3. QED
      BY <1>0, <3>1, <3>2 DEF JobInv
  <2>3. QED
    BY <2>1, <2>2
<1>8. ~Over(j) /\ Listed(j) /\ pc[j] \notin {"idle", "picked", "ended"}
  BY DEF Over, Listed
<1>9. next[j] = Len(out[j]) /\ outcome[j] = "none" /\ usage[j] = 0
  BY <1>0, <1>8 DEF JobInv
<1>3. usage'[j] = IF o = "ok" THEN Len(out[j]) ELSE 0
  BY <1>0, <1>9 DEF TypeOK
<1>10. pc'[j] = "returning" /\ outcome'[j] = o
  BY <1>0, <1>1 DEF TypeOK
<1>4. JobInv(j)'
  BY <1>0, <1>2, <1>3, <1>8, <1>10 DEF JobInv, Over, Listed
<1>5. \A k \in Jobs \ {j} : Same(k)
  <2> TAKE k \in Jobs \ {j}
  <2>1. /\ DOMAIN pc = Jobs /\ DOMAIN outcome = Jobs /\ DOMAIN chan = Jobs
        /\ DOMAIN next = Jobs /\ DOMAIN usage = Jobs
    BY <1>0, ZenonT(30) DEF TypeOK
  <2>2. pc'[k] = pc[k] /\ outcome'[k] = outcome[k]
    BY <1>1, <2>1
  <2>3. chan'[k] = chan[k]
    BY <2>1
  <2>4. next'[k] = next[k] /\ usage'[k] = usage[k]
    BY <2>1
  <2>5. QED
    BY <2>2, <2>3, <2>4 DEF Same
<1>6. \A d \in Conns : Holders(d)' = Holders(d)
  BY <1>0, <1>1 DEF Holders, TypeOK
<1>7. QED
  BY <1>0, <1>4, <1>5, <1>6, SlotsFrame, OneJob

LEMMA ForwardInv ==
  ASSUME RelayInv, TypeOK', NEW j \in Jobs, ForwardChunk(j)
  PROVE  RelayInv'
<1> DEFINE e == Head(chan[j])
           r == [seq |-> e.seq, from |-> e.from]
<1>0. JobInv(j) /\ TypeOK /\ SlotsMatchJobs
  BY DEF RelayInv
<1>1. /\ pc[j] = "streaming" /\ chan[j] # <<>>
      /\ chan' = [chan EXCEPT ![j] = Tail(@)]
      /\ InSequence(j, e)
      /\ next' = [next EXCEPT ![j] = @ + 1]
      /\ out' = [out EXCEPT ![j] = Append(@, r)]
      /\ \E l \in {"streaming", "writing"} : pc' = [pc EXCEPT ![j] = l]
      /\ UNCHANGED <<active, entry, closed, prov, outcome, usage>>
  BY DEF ForwardChunk, Receives, Goto, hubVars, provVars
<1>2. chan[j] \in Seq(Events) /\ out[j] \in Seq([seq : Nat, from : Conns])
  BY <1>0, ZenonT(40) DEF TypeOK
<1>3. next[j] = Len(out[j]) /\ outcome[j] = "none"
  BY <1>0, <1>1 DEF JobInv, Over
<1>4. e.from = prov[j] /\ e.seq = Len(out[j])
  <2>1. e = chan[j][1] /\ 1 \in 1 .. Len(chan[j])
    BY <1>1, <1>2
  <2>2. chan[j][1].from = prov[j]
    BY <1>0, <2>1 DEF JobInv
  <2>3. e.seq = next[j]
    BY <1>1 DEF InSequence
  <2>4. QED
    BY <1>3, <2>1, <2>2, <2>3
<1>5. r = [seq |-> Len(out[j]), from |-> prov[j]]
  BY <1>4
<1>6. out'[j] = Append(out[j], r) /\ chan'[j] = Tail(chan[j]) /\ next'[j] = next[j] + 1
  BY <1>0, <1>1 DEF TypeOK
<1>7. \A i \in 1 .. Len(out'[j]) : out'[j][i] = [seq |-> i - 1, from |-> prov[j]]
  <2> HIDE DEF r
  <2> SUFFICES ASSUME NEW i \in 1 .. Len(out'[j])
               PROVE out'[j][i] = [seq |-> i - 1, from |-> prov[j]]
    OBVIOUS
  <2>1. CASE i = Len(out[j]) + 1
    BY <1>2, <1>5, <1>6, <2>1
  <2>2. CASE i \in 1 .. Len(out[j])
    <3>1. out[j][i] = [seq |-> i - 1, from |-> prov[j]]
      BY <1>0, <2>2 DEF JobInv
    <3>2. out'[j][i] = out[j][i]
      BY <1>2, <1>6, <2>2
    <3>3. QED
      BY <3>1, <3>2
  <2>3. QED
    BY <1>2, <1>6, <2>1, <2>2
<1>8. \A i \in 1 .. Len(chan'[j]) : chan'[j][i].from = prov[j]
  <2>1. \A i \in 1 .. Len(Tail(chan[j])) :
          i + 1 \in 1 .. Len(chan[j]) /\ Tail(chan[j])[i] = chan[j][i + 1]
    BY <1>1, <1>2
  <2>2. QED
    BY <1>0, <1>6, <2>1 DEF JobInv
<1>9. Len(out'[j]) = Len(out[j]) + 1 /\ (MaxTokens > 0 => Len(out[j]) < MaxTokens)
  BY <1>1, <1>2, <1>3, <1>6 DEF InSequence
<1> HIDE DEF r, e
<1>14. pc'[j] \in {"streaming", "writing"} /\ \A k \in Jobs \ {j} : pc'[k] = pc[k]
  BY <1>0, <1>1 DEF TypeOK
<1>10. JobInv(j)'
  BY <1>0, <1>1, <1>3, <1>6, <1>7, <1>8, <1>9, <1>14, RelayAssumption
  DEF JobInv, Over, Listed
<1>11. \A k \in Jobs \ {j} : Same(k)
  BY <1>0, <1>1, <1>14 DEF Same, TypeOK
<1>12. \A d \in Conns : Holders(d)' = Holders(d)
  BY <1>1, <1>14 DEF Holders
<1>13. QED
  BY <1>0, <1>1, <1>10, <1>11, <1>12, SlotsFrame, OneJob

\* onDelta returns.
LEMMA WrittenInv ==
  ASSUME RelayInv, TypeOK', NEW j \in Jobs, Written(j)
  PROVE  RelayInv'
<1>0. JobInv(j) /\ TypeOK /\ SlotsMatchJobs
  BY DEF RelayInv
<1>1. /\ pc[j] = "writing" /\ pc' = [pc EXCEPT ![j] = "streaming"]
      /\ UNCHANGED <<active, entry, closed, chan, prov, next, out, outcome, usage>>
  BY DEF Written, Goto, jobVars
<1>2. pc'[j] = "streaming" /\ \A k \in Jobs \ {j} : pc'[k] = pc[k]
  BY <1>0, <1>1 DEF TypeOK
<1>3. JobInv(j)'
  BY <1>0, <1>1, <1>2 DEF JobInv, Over, Listed
<1>4. \A k \in Jobs \ {j} : Same(k)
  BY <1>1, <1>2 DEF Same
<1>5. \A d \in Conns : Holders(d)' = Holders(d)
  BY <1>1, <1>2 DEF Holders
<1>6. QED
  BY <1>0, <1>1, <1>3, <1>4, <1>5, SlotsFrame, OneJob

LEMMA StreamInv ==
  ASSUME RelayInv, TypeOK', NEW j \in Jobs,
         Streams(j) \/ ContextDone(j) \/ Deadline(j) \/ Written(j) \/ WriteFails(j)
  PROVE  RelayInv'
<1> USE DEF hubVars, provVars
<1>0. /\ next[j] \in Nat
      /\ next \in [Jobs -> Nat]
      /\ next = [next EXCEPT ![j] = next[j]]
  BY DEF RelayInv, TypeOK
<1>1. CASE ForwardChunk(j)
  BY <1>1, ForwardInv
<1>2. CASE WriteFails(j)
  BY <1>0, <1>2, ReturnInv DEF WriteFails, Abandon, Outcomes
<1>3. CASE ChunkRefused(j)
  BY <1>0, <1>3, ReturnInv DEF ChunkRefused, Receives, Abandon, Outcomes
<1>4. CASE FrameUnusable(j)
  BY <1>0, <1>4, ReturnInv DEF FrameUnusable, Receives, Outcomes
<1>5. CASE JobDone(j)
  BY <1>0, <1>5, ReturnInv DEF JobDone, Receives, Outcomes
<1>6. CASE JobError(j)
  BY <1>0, <1>6, ReturnInv DEF JobError, Receives, Outcomes
<1>7. CASE ContextDone(j)
  BY <1>0, <1>7, ReturnInv DEF ContextDone, Abandon, Outcomes
<1>8. CASE Deadline(j)
  BY <1>0, <1>8, ReturnInv DEF Deadline, Abandon, Outcomes
<1>9. CASE Written(j)
  BY <1>9, WrittenInv
<1>10. QED
  BY <1>1, <1>2, <1>3, <1>4, <1>5, <1>6, <1>7, <1>8, <1>9 DEF Streams

LEMMA TaskInv ==
  ASSUME RelayInv, TypeOK', NEW j \in Jobs, TaskStep(j)
  PROVE  RelayInv'
<1>1. UNCHANGED <<active, entry, closed, chan, pc, prov, next, out, outcome, usage>>
  BY DEF TaskStep, Emit, Finish, jobVars, relVars
<1>2. \A k \in Jobs : Same(k)
  BY <1>1 DEF Same
<1>3. SlotsMatchJobs'
  BY <1>1, SlotsFrame DEF Holders, RelayInv
<1>4. QED
  BY <1>2, <1>3, SameJobInv DEF RelayInv

\* The table, the channel, the counters and the slot count stay in step with
\* where ExecuteOn is, in every interleaving of jobs, connections and providers.
THEOREM InvariantHolds == Spec => []RelayInv
<1>1. Init => RelayInv
  BY InitInv
<1>2. RelayInv /\ TypeOK' /\ [Next]_vars => RelayInv'
  <2> SUFFICES ASSUME RelayInv, TypeOK', [Next]_vars PROVE RelayInv'
    OBVIOUS
  <2>1. ASSUME NEW c \in Conns,
               Connect(c) \/ Cut(c) \/ Shutdown(c) \/ HubStep(c) \/ ProviderStep(c) \/ FaultySend(c)
        PROVE  RelayInv'
    BY <2>1, HubInv
  <2>2. ASSUME NEW j \in Jobs, Begins(j) \/ Prepares(j) \/ Unwinds(j) \/ CallerLeaves(j)
        PROVE  RelayInv'
    BY <2>2, PrepareInv
  <2>3. ASSUME NEW j \in Jobs,
               Streams(j) \/ ContextDone(j) \/ Deadline(j) \/ Written(j) \/ WriteFails(j)
        PROVE  RelayInv'
    BY <2>3, StreamInv
  <2>4. ASSUME NEW j \in Jobs, TaskStep(j)
        PROVE  RelayInv'
    BY <2>4, TaskInv
  <2>5. CASE UNCHANGED vars
    <3>1. UNCHANGED <<active, jobVars, relVars>>
      BY <2>5 DEF vars
    <3>2. \A k \in Jobs : Same(k)
      BY <3>1 DEF Same, jobVars, relVars
    <3>3. SlotsMatchJobs'
      BY <3>1, SlotsFrame DEF Holders, RelayInv, relVars
    <3>4. QED
      BY <3>2, <3>3, SameJobInv DEF RelayInv
  <2>6. QED
    BY <2>1, <2>2, <2>3, <2>4, <2>5 DEF Next
<1>3. QED
  BY <1>1, <1>2, TypeCorrect, PTL DEF Spec

\* No schedule leaks a slot or releases one twice.
THEOREM SlotsCounted == Spec => []SlotsMatchJobs
<1>1. RelayInv => SlotsMatchJobs
  BY DEF RelayInv
<1>2. QED
  BY <1>1, InvariantHolds, PTL

\* A consumer receives the assigned provider's own chunks, in order, from the
\* first, without a gap, whatever any provider sends.
THEOREM StreamIsOwn == Spec => []OwnOrderedStream
<1>1. RelayInv => OwnOrderedStream
  BY DEF RelayInv, JobInv, OwnOrderedStream
<1>2. QED
  BY <1>1, InvariantHolds, PTL

\* The token ceiling holds whatever any provider sends.
THEOREM CeilingHolds == Spec => []WithinCeiling
<1>1. RelayInv => WithinCeiling
  BY DEF RelayInv, JobInv, WithinCeiling
<1>2. QED
  BY <1>1, InvariantHolds, PTL

\* A success is metered for what was forwarded.
THEOREM UsageIsTrue == Spec => []UsageIsForwarded
<1>1. RelayInv => UsageIsForwarded
  BY DEF RelayInv, JobInv, UsageIsForwarded
<1>2. QED
  BY <1>1, InvariantHolds, PTL

\* Deliver cannot send on a closed channel.
THEOREM NoSendOnClosed == Spec => []ListedIsOpen
<1>1. RelayInv => ListedIsOpen
  BY DEF RelayInv, JobInv, ListedIsOpen, Listed
<1>2. QED
  BY <1>1, InvariantHolds, PTL

\* A frame that comes after jobs.Close is dropped.
THEOREM LateFramesAreDropped == Spec => LateFramesDropped
<1> DEFINE Step == \A j \in Jobs : pc[j] \in {"unlisted", "ended"} => chan'[j] = chan[j]
<1>1. RelayInv /\ [Next]_vars => Step
  <2> SUFFICES ASSUME RelayInv, [Next]_vars, NEW j \in Jobs, pc[j] \in {"unlisted", "ended"}
               PROVE  chan'[j] = chan[j]
    OBVIOUS
  <2>0. TypeOK /\ JobInv(j)
    BY DEF RelayInv
  <2>1. ASSUME NEW c \in Conns, HubRead(c)
        PROVE  chan'[j] = chan[j]
    <3>1. entry[j] = None
      BY <2>0 DEF JobInv, Listed
    <3>2. ~(Deliverable(c, Head(up[c])) /\ Head(up[c]).job = j)
      BY <3>1, RelayAssumption DEF Deliverable
    <3>3. QED
      BY <2>0, <2>1, <3>2 DEF HubRead, Delivered, TypeOK
  <2>2. ASSUME NEW k \in Jobs, Streams(k)
        PROVE  chan'[j] = chan[j]
    <3>1. pc[k] = "streaming" /\ chan' = [chan EXCEPT ![k] = Tail(@)]
      BY <2>2 DEF Streams, ForwardChunk, ChunkRefused, FrameUnusable, JobDone, JobError,
                  Receives
    <3>2. QED
      BY <2>0, <3>1 DEF TypeOK
  <2>3. CASE /\ \A c \in Conns : ~HubRead(c)
             /\ \A k \in Jobs : ~Streams(k)
    <3>1. ASSUME NEW c \in Conns,
                 Connect(c) \/ Cut(c) \/ Shutdown(c) \/ HubStep(c) \/ ProviderStep(c) \/ FaultySend(c)
          PROVE  UNCHANGED chan
      BY <2>3, <3>1 DEF Connect, Cut, HubStep, SendAck, HubDrop, ProviderStep, ReadAck,
        ReadRequest, ReadCancel, ProviderExit, Shutdown, StopReading, FaultySend, jobVars
    <3>2. ASSUME NEW k \in Jobs,
                 \/ Begins(k) \/ Prepares(k) \/ Unwinds(k) \/ ContextDone(k)
                 \/ Deadline(k) \/ Written(k) \/ WriteFails(k) \/ CallerLeaves(k) \/ TaskStep(k)
          PROVE  UNCHANGED chan
      BY <3>2 DEF Begins, Pick, PickNone, Prepares, List, AcquireSlot, Dispatch, DispatchFails,
        Unwinds, ReleaseSlot, Unlist, CloseChan, ContextDone, Deadline, Written, WriteFails,
        CallerLeaves, TaskStep, Emit, Finish, jobVars
    <3>3. QED
      BY <2>3, <3>1, <3>2 DEF Next, vars, jobVars
  <2>4. QED
    BY <2>1, <2>2, <2>3
<1>2. QED
  BY <1>1, InvariantHolds, PTL DEF Spec, LateFramesDropped

--------------------------------------------------------------------------------
(***************************************************************************)
(* The other end of the socket.  A request and the cancel behind it travel *)
(* the same queue: what ExecuteOn knows of a job, what waits on the socket *)
(* and what the provider's task does are related frame by frame.           *)
(***************************************************************************)

\* A frame read from a queue, or put on it, moves the others by one place, or not at all.
LEMMA PlacesInTail ==
  ASSUME NEW F, NEW q \in Seq(F), q # <<>>
  PROVE  /\ Tail(q) \in Seq(F) /\ Len(q) \in Nat /\ Len(Tail(q)) = Len(q) - 1
         /\ \A i \in 1 .. Len(Tail(q)) : i + 1 \in 1 .. Len(q) /\ Tail(q)[i] = q[i + 1]
         /\ q[1] = Head(q) /\ 1 \in 1 .. Len(q)
OBVIOUS

LEMMA PlacesInAppend ==
  ASSUME NEW F, NEW q \in Seq(F), NEW f \in F
  PROVE  /\ Append(q, f) \in Seq(F) /\ Len(q) \in Nat /\ Len(Append(q, f)) = Len(q) + 1
         /\ \A i \in 1 .. Len(q) : i \in 1 .. Len(Append(q, f)) /\ Append(q, f)[i] = q[i]
         /\ Append(q, f)[Len(q) + 1] = f
         /\ \A i \in 1 .. Len(Append(q, f)) : i \in 1 .. Len(q) \/ i = Len(q) + 1
OBVIOUS

\* A provider that was chosen once had its socket accepted.
LEMMA LinksStay ==
  ASSUME RelayInv, ProviderInv, [Next]_vars
  PROVE  LinksKnown'
<1>1. TypeOK /\ LinksKnown
  BY DEF RelayInv, ProviderInv
<1> USE DEF hubVars, jobVars, relVars, provVars
<1>2. ASSUME NEW j \in Jobs, Pick(j)
      PROVE  /\ UNCHANGED <<hub, link>>
             /\ \E c \in Conns : hub[c] # "none" /\ prov' = [prov EXCEPT ![j] = c]
  BY <1>2 DEF Pick, Registered
<1>3. ASSUME NEW c \in Conns,
             Connect(c) \/ Cut(c) \/ Shutdown(c) \/ HubStep(c) \/ ProviderStep(c)
               \/ FaultySend(c)
      PROVE  /\ prov' = prov
             /\ \A d \in Conns : link'[d] = "new" => link[d] = "new" /\ hub'[d] = hub[d]
  <2>1. CASE SendAck(c) BY <1>1, <2>1 DEF LinksKnown, TypeOK, SendAck
  <2>2. CASE Connect(c) \/ Cut(c) \/ HubDrop(c) \/ ReadAck(c)
    BY <1>1, <2>2 DEF TypeOK, Connect, Cut, HubDrop, ReadAck
  <2>3. CASE UNCHANGED <<link, hub, prov>> BY <2>3
  <2> QED BY <1>3, <2>1, <2>2, <2>3
          DEF Shutdown, StopReading, HubStep, HubRead, ProviderStep, ReadRequest, ReadCancel,
              ProviderExit, FaultySend
<1>4. ASSUME NEW j \in Jobs, PickNone(j) \/ Prepares(j) \/ Streams(j) \/ Unwinds(j)
              \/ ContextDone(j) \/ Deadline(j) \/ Written(j) \/ WriteFails(j)
              \/ CallerLeaves(j) \/ TaskStep(j)
      PROVE  UNCHANGED <<hub, link, prov>>
  BY <1>4 DEF PickNone, Prepares, List, AcquireSlot, Dispatch, DispatchFails, Streams,
              ForwardChunk, Written, WriteFails, ChunkRefused, FrameUnusable, JobDone, JobError,
              Abandon, Unwinds, ReleaseSlot, Unlist, CloseChan, ContextDone, Deadline,
              CallerLeaves, TaskStep, Emit, Finish
<1>5. CASE UNCHANGED vars BY <1>1, <1>5 DEF vars, LinksKnown
<1> QED
  <2>1. CASE \E j \in Jobs : Pick(j)
    <3>1. PICK j \in Jobs, c \in Conns :
            hub[c] # "none" /\ prov' = [prov EXCEPT ![j] = c] /\ UNCHANGED <<hub, link>>
      BY <1>2, <2>1
    <3> QED BY <1>1, <3>1 DEF TypeOK, LinksKnown
  <2>2. CASE \E c \in Conns : Connect(c) \/ Cut(c) \/ Shutdown(c) \/ HubStep(c)
               \/ ProviderStep(c) \/ FaultySend(c)
    BY <1>1, <1>3, <2>2 DEF LinksKnown
  <2>3. CASE UNCHANGED <<hub, link, prov>> BY <1>1, <2>3 DEF LinksKnown
  <2> QED BY <1>4, <1>5, <2>1, <2>2, <2>3 DEF Next, Begins

\* A task is spawned by a request, and a request is sent once ExecuteOn has its slot.
LEMMA TasksStay ==
  ASSUME RelayInv, ProviderInv, [Next]_vars
  PROVE  TasksAsked'
<1>1. TypeOK /\ \A j \in Jobs : task[j] # "none" => pc[j] \notin Unasked
  BY DEF RelayInv, ProviderInv, TasksAsked
<1> SUFFICES \A j \in Jobs : task'[j] # "none" => pc'[j] \notin Unasked
  BY DEF TasksAsked
<1> USE DEF hubVars, jobVars, relVars, provVars
<1>2. ASSUME NEW c \in Conns, ReadRequest(c)
      PROVE  \A j \in Jobs : task'[j] # "none" => pc'[j] \notin Unasked
  <2>1. /\ down[c] \in Seq(DownFrames) /\ down[c] # <<>> /\ Head(down[c]).type = "job_request"
        /\ task' = [task EXCEPT ![Head(down[c]).job] = "running"] /\ pc' = pc
        /\ c \in Honest
    BY <1>1, <1>2 DEF ReadRequest, TypeOK
  <2>2. PICK j \in Jobs : Head(down[c]) = Request(j)
    BY <2>1 DEF DownFrames, Request, Ack
  <2>3. pc[j] \notin Unasked
    <3>1. AskedOnce(j, c)
      <4>1. \A k \in Jobs, d \in Honest : AskedOnce(k, d) BY DEF ProviderInv
      <4> QED BY <2>1, <4>1
    <3> QED BY <2>1, <2>2, <3>1, PlacesInTail DEF AskedOnce
  <2>4. task' = [task EXCEPT ![j] = "running"]
    <3>1. Head(down[c]).job = j BY <2>2 DEF Request
    <3> QED BY <2>1, <3>1
  <2> QED BY <1>1, <2>1, <2>3, <2>4 DEF TypeOK
<1>3. ASSUME NEW c \in Conns, Connect(c) \/ Cut(c) \/ Shutdown(c) \/ HubStep(c) \/ ReadAck(c)
                              \/ ReadCancel(c) \/ ProviderExit(c) \/ FaultySend(c)
      PROVE  UNCHANGED <<task, pc>>
  BY <1>3 DEF Connect, Cut, Shutdown, StopReading, HubStep, SendAck, HubRead, HubDrop,
       ReadAck, ReadCancel, ProviderExit, FaultySend
<1>4. ASSUME NEW j \in Jobs, TaskStep(j)
      PROVE  /\ pc' = pc /\ task[j] = "running"
             /\ \A k \in Jobs : task'[k] # "none" => task[k] # "none"
  BY <1>1, <1>4 DEF TaskStep, Emit, Finish, TypeOK
<1>5. ASSUME NEW j \in Jobs, Begins(j) \/ Prepares(j) \/ Streams(j) \/ Unwinds(j)
              \/ ContextDone(j) \/ Deadline(j) \/ Written(j) \/ WriteFails(j)
              \/ CallerLeaves(j)
      PROVE  /\ task' = task
             /\ \A k \in Jobs : pc'[k] \in Unasked => pc[k] \in Unasked
  <2>1. task' = task
    BY <1>5 DEF Begins, Pick, PickNone, Prepares, List, AcquireSlot, Dispatch, DispatchFails,
                Streams, ForwardChunk, Written, WriteFails, ChunkRefused, FrameUnusable, JobDone,
                JobError, Abandon, Unwinds, ReleaseSlot, Unlist, CloseChan, ContextDone,
                Deadline, CallerLeaves
  <2>2. pc' = pc \/ \E l : pc' = [pc EXCEPT ![j] = l] /\ (l \in Unasked => pc[j] \in Unasked)
    BY <1>5 DEF Begins, Pick, PickNone, Prepares, List, AcquireSlot, Dispatch, DispatchFails,
                Streams, ForwardChunk, Written, WriteFails, ChunkRefused, FrameUnusable, JobDone,
                JobError, Abandon, Unwinds, ReleaseSlot, Unlist, CloseChan, ContextDone,
                Deadline, CallerLeaves, Goto, Return, Unasked
  <2> QED BY <1>1, <2>1, <2>2 DEF TypeOK
<1>6. CASE UNCHANGED vars BY <1>1, <1>6 DEF vars
<1>7. CASE Next BY <1>1, <1>2, <1>3, <1>4, <1>5, <1>7 DEF Next, ProviderStep
<1> QED BY <1>6, <1>7

\* A frame on its way up names a job.
LEMMA FramesNameJobs ==
  ASSUME NEW q \in Seq(UpFrames), NEW i \in 1 .. Len(q)
  PROVE  q[i].job \in Jobs
<1>1. q[i] \in UpFrames OBVIOUS
<1> QED BY <1>1 DEF UpFrames

\* What an honest provider sends, and what of it waits in a channel, is well formed;
\* an end is sent by a task that is over.
LEMMA TruthStays ==
  ASSUME RelayInv, ProviderInv, [Next]_vars
  PROVE  (\A c \in Honest : SentTruly(c)') /\ (\A j \in Jobs : HeldTruly(j)')
<1>1. /\ TypeOK /\ \A c \in Honest : SentTruly(c)
      /\ \A j \in Jobs : HeldTruly(j)
  BY DEF RelayInv, ProviderInv
<1> USE DEF hubVars, jobVars, relVars, provVars
\* A task that is over stays over, and the queues do not change.
<1>2. ASSUME UNCHANGED <<up, chan>>,
             \A j \in Jobs : task[j] = "finished" => task'[j] = "finished"
      PROVE  (\A c \in Honest : SentTruly(c)') /\ (\A j \in Jobs : HeldTruly(j)')
  <2>1. \A c \in Honest : \A i \in 1 .. Len(up[c]) : up[c][i].job \in Jobs
    <3> TAKE c \in Honest
    <3>1. up[c] \in Seq(UpFrames) BY <1>1 DEF TypeOK, Honest
    <3> QED BY <3>1, FramesNameJobs
  <2> QED BY <1>1, <1>2, <2>1 DEF SentTruly, HeldTruly, Truthful
<1>3. ASSUME NEW c \in Conns, ReadRequest(c)
      PROVE  (\A d \in Honest : SentTruly(d)') /\ (\A j \in Jobs : HeldTruly(j)')
  <2>1. /\ down[c] \in Seq(DownFrames) /\ down[c] # <<>> /\ Head(down[c]).type = "job_request"
        /\ task' = [task EXCEPT ![Head(down[c]).job] = "running"]
        /\ UNCHANGED <<up, chan>> /\ c \in Honest
    BY <1>1, <1>3 DEF ReadRequest, TypeOK
  <2>2. PICK j \in Jobs : Head(down[c]) = Request(j)
    BY <2>1 DEF DownFrames, Request, Ack
  <2>3. task[j] = "none"
    <3>1. \A k \in Jobs, d \in Honest : AskedOnce(k, d) BY DEF ProviderInv
    <3>2. AskedOnce(j, c) BY <2>1, <3>1
    <3> QED BY <2>1, <2>2, <3>2, PlacesInTail DEF AskedOnce
  <2>4. task' = [task EXCEPT ![j] = "running"]
    <3>1. Head(down[c]).job = j BY <2>2 DEF Request
    <3> QED BY <2>1, <3>1
  <2>5. \A k \in Jobs : task[k] = "finished" => task'[k] = "finished"
    BY <1>1, <2>3, <2>4 DEF TypeOK
  <2> QED BY <1>2, <2>1, <2>5
<1>4. ASSUME NEW c \in Conns, HubRead(c)
      PROVE  (\A d \in Honest : SentTruly(d)') /\ (\A j \in Jobs : HeldTruly(j)')
  <2> DEFINE f == Head(up[c])
             e == [type |-> f.type, seq |-> f.seq, body |-> f.body, from |-> c]
  <2>1. /\ up[c] \in Seq(UpFrames) /\ up[c] # <<>> /\ up' = [up EXCEPT ![c] = Tail(@)]
        /\ chan' = Delivered(c, f) /\ task' = task
    BY <1>1, <1>4 DEF HubRead, TypeOK
  <2>2. f \in UpFrames /\ f = up[c][1] /\ 1 \in 1 .. Len(up[c]) BY <2>1, PlacesInTail
  <2>3. ASSUME NEW d \in Honest
        PROVE  SentTruly(d)'
    <3>1. CASE d = c
      <4>1. up'[d] = Tail(up[c]) BY <1>1, <2>1, <3>1 DEF TypeOK
      <4>2. \A i \in 1 .. Len(Tail(up[c])) :
              i + 1 \in 1 .. Len(up[c]) /\ Tail(up[c])[i] = up[c][i + 1]
        BY <2>1, PlacesInTail
      <4>3. SentTruly(c) BY <1>1, <3>1
      <4> QED BY <2>1, <3>1, <4>1, <4>2, <4>3 DEF SentTruly, HeldTruly, Truthful
    <3>2. CASE d # c
      <4>1. up'[d] = up[d] BY <1>1, <2>1, <3>2 DEF TypeOK, Honest
      <4> QED BY <1>1, <2>1, <4>1 DEF SentTruly, HeldTruly, Truthful
    <3> QED BY <3>1, <3>2
  <2>4. ASSUME NEW j \in Jobs
        PROVE  HeldTruly(j)'
    <3>1. CASE chan'[j] = chan[j]
      BY <1>1, <2>1, <3>1 DEF SentTruly, HeldTruly, Truthful
    <3>2. CASE j = f.job /\ chan'[j] = Append(chan[j], e)
      <4>1. e \in Events /\ chan[j] \in Seq(Events)
        BY <1>1, <2>2 DEF UpFrames, Events, TypeOK
      <4>2. c \in Honest => Truthful(e, j)
        BY <1>1, <2>2, <3>2 DEF SentTruly, HeldTruly, Truthful
      <4> HIDE DEF e
      <4>3. \A i \in 1 .. Len(chan'[j]) :
              \/ i \in 1 .. Len(chan[j]) /\ chan'[j][i] = chan[j][i]
              \/ chan'[j][i] = e
        BY <3>2, <4>1, PlacesInAppend
      <4>4. e.from = c BY DEF e
      <4>5. HeldTruly(j) BY <1>1
      <4> QED BY <2>1, <4>2, <4>3, <4>4, <4>5 DEF SentTruly, HeldTruly, Truthful
    <3>3. chan' = chan \/ (f.job \in Jobs /\ chan' = [chan EXCEPT ![f.job] = Append(@, e)])
      BY <2>1, <2>2 DEF Delivered, UpFrames
    <3> HIDE DEF f, e
    <3>4. chan'[j] = chan[j] \/ (j = f.job /\ chan'[j] = Append(chan[j], e))
      BY <1>1, <3>3, SMTT(40) DEF TypeOK
    <3> QED BY <3>1, <3>2, <3>4
  <2> QED BY <2>3, <2>4
<1>5. ASSUME NEW j \in Jobs, TaskStep(j)
      PROVE  (\A d \in Honest : SentTruly(d)') /\ (\A k \in Jobs : HeldTruly(k)')
  <2>1. PICK f \in UpFrames :
          /\ f.job = j /\ f.body = "ok" /\ (f.type # "job_chunk" => task'[j] = "finished")
          /\ Uplink(prov[j], f)
    <3>1. CASE Emit(j)
      <4>1. Chunk(j, gen[j]) \in UpFrames BY <1>1 DEF Chunk, UpFrames, TypeOK, Bodies
      <4> QED BY <3>1, <4>1 DEF Emit, Chunk
    <3>2. CASE Finish(j)
      <4>1. {Done(j), Error(j)} \subseteq UpFrames BY DEF Done, Error, UpFrames, Bodies
      <4>2. task'[j] = "finished" BY <1>1, <3>2 DEF Finish, TypeOK
      <4> QED BY <3>2, <4>1, <4>2 DEF Finish, Done, Error
    <3> QED BY <1>5, <3>1, <3>2 DEF TaskStep
  <2>2. chan' = chan /\ \A k \in Jobs : task[k] = "finished" => task'[k] = "finished"
    BY <1>1, <1>5 DEF TaskStep, Emit, Finish, TypeOK
  <2>3. \A k \in Jobs : HeldTruly(k)' BY <1>1, <2>2 DEF SentTruly, HeldTruly, Truthful
  <2>4. ASSUME NEW d \in Honest
        PROVE  SentTruly(d)'
    <3>1. up[d] \in Seq(UpFrames) /\ SentTruly(d) BY <1>1 DEF TypeOK, Honest
    <3>2. \A i \in 1 .. Len(up[d]) : up[d][i].job \in Jobs BY <3>1, FramesNameJobs
    <3>3. CASE up'[d] = up[d] BY <2>2, <3>1, <3>2, <3>3 DEF SentTruly, HeldTruly, Truthful
    <3>4. CASE up'[d] = Append(up[d], f)
      <4>1. \A i \in 1 .. Len(up'[d]) :
              \/ i \in 1 .. Len(up[d]) /\ up'[d][i] = up[d][i]
              \/ up'[d][i] = f
        BY <3>1, <3>4, PlacesInAppend
      <4> QED BY <2>1, <2>2, <3>1, <3>2, <4>1 DEF SentTruly, HeldTruly, Truthful
    <3>5. up' = up \/ up' = [up EXCEPT ![prov[j]] = Append(@, f)] BY <2>1 DEF Uplink
    <3> QED BY <1>1, <3>3, <3>4, <3>5 DEF TypeOK, Honest
  <2> QED BY <2>3, <2>4
<1>6. ASSUME NEW c \in Conns, HubDrop(c) \/ FaultySend(c)
      PROVE  (\A d \in Honest : SentTruly(d)') /\ (\A j \in Jobs : HeldTruly(j)')
  <2>1. UNCHANGED <<chan, task>> BY <1>6 DEF HubDrop, FaultySend
  <2>2. ASSUME NEW d \in Honest
        PROVE  up'[d] = up[d] \/ up'[d] = <<>>
    BY <1>1, <1>6 DEF HubDrop, FaultySend, TypeOK, Honest
  <2>3. \A d \in Honest : SentTruly(d)' BY <1>1, <2>1, <2>2 DEF SentTruly, HeldTruly, Truthful
  <2> QED BY <1>1, <2>1, <2>3 DEF SentTruly, HeldTruly, Truthful
<1>7. ASSUME NEW j \in Jobs, Streams(j)
      PROVE  (\A d \in Honest : SentTruly(d)') /\ (\A k \in Jobs : HeldTruly(k)')
  <2>1. /\ UNCHANGED <<up, task>> /\ chan[j] # <<>> /\ chan' = [chan EXCEPT ![j] = Tail(@)]
    BY <1>7 DEF Streams, ForwardChunk, ChunkRefused, FrameUnusable, JobDone, JobError,
                Abandon, Receives
  <2>2. \A d \in Honest : SentTruly(d)' BY <1>1, <2>1 DEF SentTruly, HeldTruly, Truthful
  <2>3. ASSUME NEW k \in Jobs
        PROVE  HeldTruly(k)'
    <3>1. CASE k = j
      <4>1. chan[j] \in Seq(Events) /\ chan'[j] = Tail(chan[j]) /\ HeldTruly(j)
        BY <1>1, <2>1 DEF TypeOK
      <4>2. \A i \in 1 .. Len(Tail(chan[j])) :
              i + 1 \in 1 .. Len(chan[j]) /\ Tail(chan[j])[i] = chan[j][i + 1]
        BY <2>1, <4>1, PlacesInTail
      <4> QED BY <2>1, <3>1, <4>1, <4>2 DEF SentTruly, HeldTruly, Truthful
    <3>2. CASE k # j
      <4>1. chan'[k] = chan[k] BY <1>1, <2>1, <3>2 DEF TypeOK
      <4> QED BY <1>1, <2>1, <4>1 DEF SentTruly, HeldTruly, Truthful
    <3> QED BY <3>1, <3>2
  <2> QED BY <2>2, <2>3
<1>8. ASSUME NEW c \in Conns, Connect(c) \/ Cut(c) \/ Shutdown(c) \/ SendAck(c) \/ ReadAck(c)
                              \/ ReadCancel(c) \/ ProviderExit(c)
      PROVE  UNCHANGED <<up, chan, task>>
  BY <1>8 DEF Connect, Cut, Shutdown, StopReading, SendAck, ReadAck, ReadCancel, ProviderExit
<1>9. ASSUME NEW j \in Jobs, Begins(j) \/ Prepares(j) \/ Unwinds(j) \/ ContextDone(j)
                              \/ Deadline(j) \/ Written(j) \/ WriteFails(j) \/ CallerLeaves(j)
      PROVE  UNCHANGED <<up, chan, task>>
  BY <1>9 DEF Begins, Pick, PickNone, Prepares, List, AcquireSlot, Dispatch, DispatchFails,
       Abandon, Unwinds, ReleaseSlot, Unlist, CloseChan, ContextDone, Deadline, Written,
       WriteFails, CallerLeaves
<1>10. CASE UNCHANGED <<up, chan, task>> BY <1>2, <1>10
<1>11. CASE UNCHANGED vars BY <1>10, <1>11 DEF vars
<1>12. CASE Next
  <2> QED BY <1>3, <1>4, <1>5, <1>6, <1>7, <1>8, <1>9, <1>10, <1>12
          DEF Next, HubStep, ProviderStep
<1> QED BY <1>11, <1>12

(***************************************************************************)
(* The cancel: what AskedOnce and AbandonedIsTold say of one job.          *)
(***************************************************************************)

\* A request is asked once and, when the job is over, a cancel follows it.
TellsOf(j) ==
  /\ \A c \in Honest : AskedOnce(j, c)
  /\ (Over(j) /\ prov[j] \in Honest /\ task[j] = "running" /\ ~stop[j])
       => \/ link[prov[j]] = "cut"
          \/ \E i \in 1 .. Len(down[prov[j]]) : down[prov[j]][i] = Cancel(j)

\* Job by job is enough.
LEMMA AllTold ==
  /\ ProviderInv => \A j \in Jobs : TellsOf(j)
  /\ (\A j \in Jobs : TellsOf(j))
       => AbandonedIsTold /\ \A j \in Jobs, c \in Honest : AskedOnce(j, c)
BY DEF ProviderInv, TellsOf, AbandonedIsTold

\* A job that has not been dispatched has no request on its way, and no task.
LEMMA NothingAsked ==
  ASSUME RelayInv, ProviderInv, NEW j \in Jobs, pc[j] \in Unasked
  PROVE  /\ task[j] = "none"
         /\ \A c \in Honest : \A i \in 1 .. Len(down[c]) : down[c][i] # Request(j)
BY DEF ProviderInv, TasksAsked, AskedOnce

\* Steps that put nothing on a socket and read nothing from it.
LEMMA QuietStep ==
  ASSUME RelayInv, ProviderInv, NEW j \in Jobs, UNCHANGED <<down, stop>>,
         \A c \in Conns : link[c] = "cut" => link'[c] = "cut",
         task'[j] = task[j] \/ (task[j] = "running" /\ task'[j] = "finished"),
         pc'[j] \in Unasked => pc[j] \in Unasked,
         \/ pc[j] \in Unasked
         \/ /\ prov'[j] = prov[j]
            /\ Over(j)' => Over(j) \/ (prov[j] \in Honest => task[j] = "finished")
  PROVE  TellsOf(j)'
<1>1. TellsOf(j) BY AllTold
<1>2. CASE pc[j] \in Unasked
  <2>1. /\ task[j] = "none"
        /\ \A c \in Honest : \A i \in 1 .. Len(down[c]) : down[c][i] # Request(j)
    BY <1>2, NothingAsked
  <2>2. task'[j] # "running" BY <2>1
  <2>3. \A c \in Honest : AskedOnce(j, c)' BY <2>1 DEF AskedOnce, Request
  <2> QED BY <2>2, <2>3 DEF TellsOf
<1>3. CASE pc[j] \notin Unasked
  <2>1. /\ prov'[j] = prov[j] /\ pc'[j] \notin Unasked
        /\ Over(j)' => Over(j) \/ (prov[j] \in Honest => task[j] = "finished")
    BY <1>3
  <2>2. ASSUME NEW c \in Honest
        PROVE  AskedOnce(j, c)'
    <3>1. AskedOnce(j, c) BY <1>1 DEF TellsOf
    <3>2. c \in Conns BY DEF Honest
    <3>3. \A i : CancelBehind(j, c, i) => CancelBehind(j, c, i)'
      BY <3>2 DEF CancelBehind, Cancel
    <3> QED BY <2>1, <3>1, <3>3 DEF AskedOnce, Request
  <2>3. prov[j] \in Honest => prov[j] \in Conns BY DEF Honest
  <2> QED BY <1>1, <2>1, <2>2, <2>3 DEF TellsOf, Cancel
<1> QED BY <1>2, <1>3

\* A frame, which is no request, is put on a socket behind the others.
LEMMA BehindTheOthers ==
  ASSUME RelayInv, ProviderInv, NEW j \in Jobs, NEW d \in Conns, NEW f \in DownFrames,
         f # Request(j), down' = Sent(d, f), UNCHANGED <<link, prov, task, stop>>,
         pc'[j] \in Unasked => pc[j] \in Unasked,
         Over(j)' => Over(j) \/ (d = prov[j] /\ f = Cancel(j))
  PROVE  TellsOf(j)'
<1>1. TypeOK /\ TellsOf(j) /\ LinksKnown BY AllTold DEF RelayInv, ProviderInv
<1>2. ASSUME NEW c \in Conns
      PROVE  /\ down[c] \in Seq(DownFrames) /\ Len(down[c]) \in Nat /\ Len(down'[c]) \in Nat
             /\ Len(down[c]) <= Len(down'[c])
             /\ \A i \in 1 .. Len(down[c]) : i \in 1 .. Len(down'[c])
                  /\ down'[c][i] = down[c][i]
             /\ \A i \in 1 .. Len(down'[c]) : i \in 1 .. Len(down[c]) \/ down'[c][i] = f
             /\ c = d /\ link[c] = "open" =>
                  Len(down'[c]) = Len(down[c]) + 1 /\ down'[c][Len(down[c]) + 1] = f
  <2>1. down[c] \in Seq(DownFrames) BY <1>1 DEF TypeOK
  <2>2. down'[c] = IF c = d /\ link[c] = "open" THEN Append(down[c], f) ELSE down[c]
    BY <1>1 DEF Sent, TypeOK
  <2>3. CASE down'[c] = down[c] /\ ~(c = d /\ link[c] = "open") BY <2>1, <2>3
  <2>4. CASE down'[c] = Append(down[c], f)
    <3>1. /\ Len(down[c]) \in Nat /\ Len(Append(down[c], f)) = Len(down[c]) + 1
          /\ \A i \in 1 .. Len(down[c]) : i \in 1 .. Len(Append(down[c], f))
               /\ Append(down[c], f)[i] = down[c][i]
          /\ Append(down[c], f)[Len(down[c]) + 1] = f
          /\ \A i \in 1 .. Len(Append(down[c], f)) : i \in 1 .. Len(down[c])
               \/ i = Len(down[c]) + 1
      BY <2>1, PlacesInAppend
    <3> QED BY <2>1, <2>4, <3>1
  <2> QED BY <2>2, <2>3, <2>4
<1>3. CASE Over(j)' /\ ~Over(j)
  <2>1. d = prov[j] /\ f = Cancel(j) BY <1>3
  <2>2. link[d] = "cut" \/ link[d] = "open" BY <1>1, <2>1 DEF LinksKnown, TypeOK
  <2>3. ASSUME NEW c \in Honest
        PROVE  AskedOnce(j, c)'
    <3>1. c \in Conns /\ AskedOnce(j, c) BY <1>1 DEF Honest, TellsOf
    <3>2. \A i \in 1 .. Len(down'[c]) : down'[c][i] = Request(j) => i \in 1 .. Len(down[c])
      BY <1>2, <3>1
    <3>3. \A i \in 1 .. Len(down[c]) : c = d => CancelBehind(j, c, i)'
      <4> TAKE i \in 1 .. Len(down[c])
      <4> SUFFICES ASSUME c = d, link[c] # "cut" PROVE CancelBehind(j, c, i)'
        BY DEF CancelBehind
      <4>1. Len(down'[c]) = Len(down[c]) + 1 /\ down'[c][Len(down[c]) + 1] = Cancel(j)
        BY <1>2, <2>1, <2>2, <3>1
      <4>2. Len(down[c]) + 1 \in i + 1 .. Len(down'[c]) BY <1>2, <3>1, <4>1
      <4> QED BY <4>1, <4>2 DEF CancelBehind, Cancel
    <3>4. down[c] \in Seq(DownFrames)
          /\ \A i \in 1 .. Len(down[c]) : i \in 1 .. Len(down'[c]) /\ down'[c][i] = down[c][i]
      BY <1>2, <3>1
    <3>5. \A i \in 1 .. Len(down[c]) : down[c][i] = Request(j) =>
            /\ prov[j] = c /\ pc[j] \notin Unasked /\ task[j] = "none"
            /\ \A k \in 1 .. Len(down[c]) : down[c][k] = Request(j) => k = i
      BY <3>1 DEF AskedOnce
    <3> QED BY <2>1, <3>2, <3>3, <3>4, <3>5 DEF AskedOnce, Request
  <2>4. \/ link'[d] = "cut"
        \/ \E i \in 1 .. Len(down'[d]) : down'[d][i] = Cancel(j)
    <3>1. CASE link[d] = "open"
      <4>1. Len(down'[d]) = Len(down[d]) + 1 /\ down'[d][Len(down[d]) + 1] = Cancel(j)
            /\ Len(down[d]) \in Nat
        BY <1>2, <2>1, <3>1
      <4> QED BY <4>1
    <3> QED BY <2>2, <3>1
  <2> QED BY <2>1, <2>3, <2>4 DEF TellsOf, Cancel
<1>4. CASE Over(j)' => Over(j)
  <2>1. ASSUME NEW c \in Honest
        PROVE  AskedOnce(j, c)'
    <3>1. c \in Conns /\ AskedOnce(j, c) BY <1>1 DEF Honest, TellsOf
    <3>2. \A i \in 1 .. Len(down'[c]) : down'[c][i] = Request(j) => i \in 1 .. Len(down[c])
      BY <1>2, <3>1
    <3>3. /\ Len(down[c]) <= Len(down'[c]) /\ Len(down[c]) \in Nat /\ Len(down'[c]) \in Nat
          /\ \A i \in 1 .. Len(down[c]) : i \in 1 .. Len(down'[c]) /\ down'[c][i] = down[c][i]
      BY <1>2, <3>1
    <3>4. \A i \in 1 .. Len(down[c]) : CancelBehind(j, c, i) => CancelBehind(j, c, i)'
      BY <3>3 DEF CancelBehind, Cancel
    <3>5. \A i \in 1 .. Len(down[c]) : down[c][i] = Request(j) =>
            /\ prov[j] = c /\ pc[j] \notin Unasked /\ task[j] = "none"
            /\ \A k \in 1 .. Len(down[c]) : down[c][k] = Request(j) => k = i
            /\ Over(j) => CancelBehind(j, c, i)
      BY <3>1 DEF AskedOnce
    <3> QED BY <1>4, <3>2, <3>3, <3>4, <3>5 DEF AskedOnce, Request
  <2>2. prov[j] \in Honest => prov[j] \in Conns BY DEF Honest
  <2>3. prov[j] \in Conns /\ (\E i \in 1 .. Len(down[prov[j]]) : down[prov[j]][i] = Cancel(j))
          => \E i \in 1 .. Len(down'[prov[j]]) : down'[prov[j]][i] = Cancel(j)
    BY <1>2
  <2> QED BY <1>1, <1>4, <2>1, <2>2, <2>3 DEF TellsOf, Cancel
<1> QED BY <1>3, <1>4

\* The request of a job goes out, once.
LEMMA RequestGoesOut ==
  ASSUME RelayInv, ProviderInv, NEW j \in Jobs, Dispatch(j), NEW k \in Jobs
  PROVE  TellsOf(k)'
<1>1. /\ TypeOK /\ prov[j] \in Conns /\ pc[j] = "slotted"
      /\ pc' = [pc EXCEPT ![j] = "streaming"]
      /\ down' = Sent(prov[j], Request(j))
      /\ UNCHANGED <<link, prov, task, stop>>
  BY DEF RelayInv, JobInv, Dispatch, Goto, hubVars, jobVars, relVars, provVars
<1>2. Request(j) \in DownFrames BY DEF Request, DownFrames
<1>3. CASE k # j
  <2>1. pc'[k] = pc[k] BY <1>1, <1>3 DEF TypeOK
  <2>2. Request(j) # Request(k)
    <3>1. Request(j).job = j /\ Request(k).job = k BY DEF Request
    <3> QED BY <1>3, <3>1
  <2>3. Over(k)' => Over(k) BY <2>1 DEF Over
  <2> QED BY <1>1, <1>2, <2>1, <2>2, <2>3, BehindTheOthers
<1>4. CASE k = j
  <2>1. /\ task[j] = "none"
        /\ \A c \in Honest : \A i \in 1 .. Len(down[c]) : down[c][i] # Request(j)
    BY <1>1, NothingAsked DEF Unasked
  <2>2. pc'[j] = "streaming" BY <1>1 DEF TypeOK
  <2>3. ASSUME NEW c \in Honest
        PROVE  AskedOnce(j, c)'
    <3>1. c \in Conns /\ down[c] \in Seq(DownFrames) BY <1>1 DEF TypeOK, Honest
    <3>2. down'[c] = down[c] \/ (c = prov[j] /\ down'[c] = Append(down[c], Request(j)))
      BY <1>1, <3>1 DEF Sent, TypeOK
    <3>3. CASE down'[c] = down[c] BY <2>1, <3>3 DEF AskedOnce, Request
    <3>4. CASE c = prov[j] /\ down'[c] = Append(down[c], Request(j))
      <4>1. \A i \in 1 .. Len(down'[c]) : down'[c][i] = Request(j) => i = Len(down[c]) + 1
        <5>1. /\ \A i \in 1 .. Len(down[c]) : down'[c][i] = down[c][i]
              /\ \A i \in 1 .. Len(down'[c]) : i \in 1 .. Len(down[c]) \/ i = Len(down[c]) + 1
          BY <1>2, <3>1, <3>4, PlacesInAppend
        <5> QED BY <2>1, <5>1
      <4>2. prov'[j] = c /\ pc'[j] \notin Unasked /\ task'[j] = "none" /\ ~Over(j)'
        BY <1>1, <2>1, <2>2, <3>4 DEF Unasked, Over
      <4> QED BY <4>1, <4>2 DEF AskedOnce, Request
    <3> QED BY <3>2, <3>3, <3>4
  <2> QED BY <1>4, <2>2, <2>3 DEF TellsOf, Over
<1> QED BY <1>3, <1>4

\* An honest provider takes a frame: a request starts its task, a cancel stops it.
LEMMA FrameIsTaken ==
  ASSUME RelayInv, ProviderInv, NEW j \in Jobs, NEW c \in Honest, down[c] # <<>>,
         down' = [down EXCEPT ![c] = Tail(@)], UNCHANGED <<link, prov, pc>>,
         Head(down[c]) # Request(j) => task'[j] = task[j],
         Head(down[c]) = Cancel(j) => stop'[j] \/ task[j] # "running",
         stop[j] => stop'[j]
  PROVE  TellsOf(j)'
<1>1. TypeOK /\ TellsOf(j) /\ c \in Conns BY AllTold DEF RelayInv, Honest
<1> DEFINE q == down[c]
<1>2. /\ Tail(q) \in Seq(DownFrames) /\ Len(q) \in Nat /\ Len(Tail(q)) = Len(q) - 1
      /\ \A i \in 1 .. Len(Tail(q)) : i + 1 \in 1 .. Len(q) /\ Tail(q)[i] = q[i + 1]
      /\ q[1] = Head(q) /\ 1 \in 1 .. Len(q)
  <2>1. q \in Seq(DownFrames) /\ q # <<>> BY <1>1 DEF TypeOK
  <2> QED BY <2>1, PlacesInTail
<1>3. down'[c] = Tail(q) /\ \A d \in Conns : d # c => down'[d] = down[d]
  BY <1>1 DEF TypeOK
<1> HIDE DEF q
<1>4. q = down[c] BY DEF q
<1>5. /\ \A i \in 1 .. Len(q) : q[i] = Request(j) =>
            /\ prov[j] = c /\ pc[j] \notin Unasked /\ task[j] = "none"
            /\ \A k \in 1 .. Len(q) : q[k] = Request(j) => k = i
            /\ Over(j) => link[c] = "cut" \/ \E k \in i + 1 .. Len(q) : q[k] = Cancel(j)
  BY <1>1, <1>4 DEF TellsOf, AskedOnce, CancelBehind
<1>6. \A i \in 1 .. Len(q) : (\E k \in i + 1 .. Len(q) : q[k] = Cancel(j))
        => \E k \in i .. Len(Tail(q)) : Tail(q)[k] = Cancel(j)
  <2> TAKE i \in 1 .. Len(q)
  <2> SUFFICES ASSUME NEW k \in i + 1 .. Len(q), q[k] = Cancel(j)
               PROVE  \E l \in i .. Len(Tail(q)) : Tail(q)[l] = Cancel(j)
    OBVIOUS
  <2>1. k - 1 \in i .. Len(Tail(q)) /\ k - 1 \in 1 .. Len(Tail(q)) /\ (k - 1) + 1 = k
    BY <1>2
  <2> QED BY <1>2, <2>1
<1>7. ASSUME NEW d \in Honest
      PROVE  AskedOnce(j, d)'
  <2>1. CASE d = c
    <3>1. ASSUME NEW i \in 1 .. Len(Tail(q)), Tail(q)[i] = Request(j)
          PROVE  /\ prov'[j] = c /\ pc'[j] \notin Unasked /\ task'[j] = "none"
                 /\ \A k \in 1 .. Len(Tail(q)) : Tail(q)[k] = Request(j) => k = i
                 /\ Over(j)' => link'[c] = "cut"
                                  \/ \E k \in i + 1 .. Len(Tail(q)) : Tail(q)[k] = Cancel(j)
      <4>1. i + 1 \in 1 .. Len(q) /\ q[i + 1] = Request(j) /\ i \in Nat BY <1>2, <3>1
      <4>2. /\ prov[j] = c /\ pc[j] \notin Unasked /\ task[j] = "none"
            /\ \A k \in 1 .. Len(q) : q[k] = Request(j) => k = i + 1
            /\ Over(j) => link[c] = "cut" \/ \E k \in (i + 1) + 1 .. Len(q) : q[k] = Cancel(j)
        BY <1>5, <4>1
      <4>3. task'[j] = "none"
        <5>1. 1 # i + 1 BY <4>1, <3>1
        <5> QED BY <1>2, <1>4, <4>2, <5>1
      <4>4. \A k \in 1 .. Len(Tail(q)) : Tail(q)[k] = Request(j) => k = i
        <5> TAKE k \in 1 .. Len(Tail(q))
        <5> HAVE Tail(q)[k] = Request(j)
        <5>1. k + 1 = i + 1 BY <1>2, <4>2
        <5> QED BY <4>1, <5>1
      <4>5. Over(j) => link[c] = "cut"
                        \/ \E k \in i + 1 .. Len(Tail(q)) : Tail(q)[k] = Cancel(j)
        BY <1>6, <4>1, <4>2
      <4> QED BY <4>2, <4>3, <4>4, <4>5 DEF Over
    <3>2. down'[c] = Tail(q) BY <1>3
    <3>3. \A i \in 1 .. Len(down'[c]) : down'[c][i] = Request(j) =>
            /\ prov'[j] = c /\ pc'[j] \notin Unasked /\ task'[j] = "none"
            /\ \A k \in 1 .. Len(down'[c]) : down'[c][k] = Request(j) => k = i
            /\ Over(j)' => link'[c] = "cut"
                             \/ \E k \in i + 1 .. Len(down'[c]) : down'[c][k] = Cancel(j)
      <4> DEFINE t == Tail(q)
                 After(i, s) == \/ link'[c] = "cut"
                                \/ \E k \in i + 1 .. Len(s) : s[k] = Cancel(j)
                 Once(i, s) == \A k \in 1 .. Len(s) : s[k] = Request(j) => k = i
                 Fine(i, s) == /\ prov'[j] = c /\ pc'[j] \notin Unasked /\ task'[j] = "none"
                               /\ Once(i, s) /\ (Over(j)' => After(i, s))
      <4>1. \A i \in 1 .. Len(t) : t[i] = Request(j) => Fine(i, t) BY <3>1
      <4> HIDE DEF Fine, t
      <4>2. \A i \in 1 .. Len(down'[c]) : down'[c][i] = Request(j) => Fine(i, down'[c])
        BY <3>2, <4>1 DEF t
      <4> QED BY <4>2 DEF Fine
    <3>4. Request(j)' = Request(j) /\ Cancel(j)' = Cancel(j) BY DEF Request, Cancel
    <3>5. \A i : link'[c] = "cut" \/ (\E k \in i + 1 .. Len(down'[c]) : down'[c][k] = Cancel(j))
                    => CancelBehind(j, c, i)'
      BY <3>4 DEF CancelBehind
    <3>6. \A i \in 1 .. Len(down'[c]) : down'[c][i] = Request(j) =>
            /\ prov'[j] = c /\ pc'[j] \notin Unasked /\ task'[j] = "none"
            /\ \A k \in 1 .. Len(down'[c]) : down'[c][k] = Request(j) => k = i
            /\ Over(j)' => CancelBehind(j, c, i)'
      BY <3>3, <3>5
    <3>7. AskedOnce(j, c)' BY <3>4, <3>6 DEF AskedOnce
    <3> QED BY <2>1, <3>7
  <2>2. CASE d # c
    <3>1. down'[d] = down[d] /\ AskedOnce(j, d) BY <1>1, <1>3, <2>2 DEF Honest, TellsOf
    <3>2. \A i \in 1 .. Len(down[d]) : down[d][i] = Request(j) => task'[j] = task[j]
      <4> TAKE i \in 1 .. Len(down[d])
      <4> HAVE down[d][i] = Request(j)
      <4>1. prov[j] = d BY <3>1 DEF AskedOnce
      <4> QED BY <1>2, <1>4, <1>5, <2>2, <4>1
    <3>3. /\ \A i : CancelBehind(j, d, i) => CancelBehind(j, d, i)'
          /\ Over(j)' => Over(j)
      BY <3>1 DEF CancelBehind, Cancel, Over
    <3> QED BY <3>1, <3>2, <3>3 DEF AskedOnce, Request
  <2> QED BY <2>1, <2>2
<1>8. ASSUME Over(j), prov[j] \in Honest, task'[j] = "running", ~stop'[j],
             link[prov[j]] # "cut"
      PROVE  \E i \in 1 .. Len(down'[prov[j]]) : down'[prov[j]][i] = Cancel(j)
  <2>1. CASE Head(q) = Request(j)
    <3>1. prov[j] = c /\ \E k \in 1 + 1 .. Len(q) : q[k] = Cancel(j)
      BY <1>2, <1>5, <1>8, <2>1
    <3>2. \E k \in 1 .. Len(Tail(q)) : Tail(q)[k] = Cancel(j) BY <1>2, <1>6, <3>1
    <3> QED BY <1>3, <3>1, <3>2, ZenonT(40)
  <2>2. CASE Head(q) # Request(j)
    <3>1. task[j] = "running" /\ ~stop[j] BY <1>4, <1>8, <2>2
    <3>2. PICK i \in 1 .. Len(down[prov[j]]) : down[prov[j]][i] = Cancel(j)
      BY <1>1, <1>8, <3>1 DEF TellsOf
    <3>3. CASE prov[j] = c
      <4>1. i \in 1 .. Len(q) /\ q[i] = Cancel(j) BY <1>4, <3>2, <3>3
      <4>2. i # 1
        <5>1. Head(q) # Cancel(j) BY <1>4, <1>8, <3>1
        <5> QED BY <1>2, <4>1, <5>1
      <4>3. i \in 1 + 1 .. Len(q) BY <1>2, <4>1, <4>2
      <4>4. \E k \in 1 .. Len(Tail(q)) : Tail(q)[k] = Cancel(j) BY <1>2, <1>6, <4>1, <4>3
      <4> QED BY <1>3, <3>3, <4>4, ZenonT(40)
    <3>4. CASE prov[j] # c
      <4>1. down'[prov[j]] = down[prov[j]] BY <1>3, <1>8, <3>4 DEF Honest
      <4> QED BY <3>2, <4>1
    <3> QED BY <3>3, <3>4
  <2> QED BY <2>1, <2>2
<1> QED BY <1>7, <1>8 DEF TellsOf, Over, Cancel

\* An honest provider stops reading: it has cut the socket, or cancelled its tasks.
LEMMA ReadingEnds ==
  ASSUME RelayInv, ProviderInv, NEW j \in Jobs, NEW c \in Honest,
         down' = [down EXCEPT ![c] = <<>>], UNCHANGED <<prov, pc, task>>,
         \A d \in Conns : link[d] = "cut" => link'[d] = "cut",
         link'[c] = "cut" \/ (prov[j] = c /\ task[j] = "running" => stop'[j]),
         stop[j] => stop'[j]
  PROVE  TellsOf(j)'
<1>1. TypeOK /\ TellsOf(j) /\ c \in Conns BY AllTold DEF RelayInv, Honest
<1>2. down'[c] = <<>> /\ \A d \in Conns : d # c => down'[d] = down[d]
  BY <1>1 DEF TypeOK
<1>3. ASSUME NEW d \in Honest
      PROVE  AskedOnce(j, d)'
  <2>1. CASE d = c BY <1>2, <2>1 DEF AskedOnce
  <2>2. CASE d # c
    <3>1. d \in Conns /\ down'[d] = down[d] /\ AskedOnce(j, d)
      BY <1>1, <1>2, <2>2 DEF Honest, TellsOf
    <3> QED BY <3>1 DEF AskedOnce, CancelBehind, Request, Cancel, Over
  <2> QED BY <2>1, <2>2
<1>4. prov[j] \in Honest => prov[j] \in Conns BY DEF Honest
<1> QED BY <1>1, <1>2, <1>3, <1>4 DEF TellsOf, Over, Cancel

\* Every step keeps what is promised of one job.
LEMMA TellingStays ==
  ASSUME RelayInv, ProviderInv, [Next]_vars, NEW j \in Jobs
  PROVE  TellsOf(j)'
<1>1. TypeOK /\ LinksKnown /\ \A k \in Jobs : JobInv(k) /\ HeldTruly(k)
  BY DEF RelayInv, ProviderInv
<1> USE DEF hubVars, jobVars, relVars, provVars
<1>2. ASSUME NEW c \in Conns,
             Connect(c) \/ Cut(c) \/ HubRead(c) \/ HubDrop(c) \/ FaultySend(c)
      PROVE  TellsOf(j)'
  <2>1. /\ UNCHANGED <<down, stop, task, pc, prov>>
        /\ \A d \in Conns : link[d] = "cut" => link'[d] = "cut"
    BY <1>1, <1>2 DEF Connect, Cut, HubRead, HubDrop, FaultySend, TypeOK
  <2>2. Over(j)' => Over(j) BY <2>1 DEF Over
  <2> QED BY <2>1, <2>2, QuietStep
<1>3. ASSUME NEW c \in Conns, SendAck(c)
      PROVE  TellsOf(j)'
  <2>1. /\ down' = Sent(c, Ack) /\ UNCHANGED <<link, prov, task, stop, pc>>
    BY <1>3 DEF SendAck
  <2>2. Ack \in DownFrames /\ Ack # Request(j)
    <3>1. Ack.type = "register_ack" /\ Request(j).type = "job_request" BY DEF Ack, Request
    <3> QED BY <3>1 DEF DownFrames
  <2>3. Over(j)' => Over(j) BY <2>1 DEF Over
  <2> QED BY <2>1, <2>2, <2>3, BehindTheOthers
<1>4. ASSUME NEW c \in Conns, ReadAck(c)
      PROVE  TellsOf(j)'
  <2>1. /\ c \in Honest /\ down[c] # <<>> /\ UNCHANGED <<prov, pc, task, stop>>
        /\ \/ /\ Head(down[c]) = Ack /\ link' = link
              /\ down' = [down EXCEPT ![c] = Tail(@)]
           \/ /\ down' = [down EXCEPT ![c] = <<>>]
              /\ link' = [link EXCEPT ![c] = "cut"]
    BY <1>4 DEF ReadAck
  <2>2. Ack # Request(j) /\ Ack # Cancel(j)
    <3>1. Ack.type = "register_ack" /\ Request(j).type = "job_request"
         /\ Cancel(j).type = "cancel"
      BY DEF Ack, Request, Cancel
    <3> QED BY <3>1
  <2>3. CASE Head(down[c]) = Ack /\ link' = link /\ down' = [down EXCEPT ![c] = Tail(@)]
    BY <2>1, <2>2, <2>3, FrameIsTaken
  <2>4. CASE down' = [down EXCEPT ![c] = <<>>] /\ link' = [link EXCEPT ![c] = "cut"]
    <3>1. link'[c] = "cut" /\ \A d \in Conns : link[d] = "cut" => link'[d] = "cut"
      BY <1>1, <2>4 DEF TypeOK
    <3> QED BY <2>1, <2>4, <3>1, ReadingEnds
  <2> QED BY <2>1, <2>3, <2>4
<1>5. ASSUME NEW c \in Conns, ReadRequest(c)
      PROVE  TellsOf(j)'
  <2>1. /\ c \in Honest /\ down[c] # <<>> /\ Head(down[c]).type = "job_request"
        /\ task' = [task EXCEPT ![Head(down[c]).job] = "running"]
        /\ down' = [down EXCEPT ![c] = Tail(@)] /\ UNCHANGED <<link, prov, pc, stop>>
        /\ down[c] \in Seq(DownFrames)
    BY <1>1, <1>5 DEF ReadRequest, TypeOK
  <2>2. PICK k \in Jobs : Head(down[c]) = Request(k)
    BY <2>1 DEF DownFrames, Request, Ack
  <2>3. Head(down[c]).job = k /\ Request(k) # Cancel(j)
    <3>1. Request(k).job = k /\ Request(k).type = "job_request" /\ Cancel(j).type = "cancel"
      BY DEF Request, Cancel
    <3> QED BY <2>2, <3>1
  <2>4. Head(down[c]) # Request(j) => task'[j] = task[j]
    BY <1>1, <2>1, <2>2, <2>3 DEF TypeOK
  <2> QED BY <2>1, <2>2, <2>3, <2>4, FrameIsTaken
<1>6. ASSUME NEW c \in Conns, ReadCancel(c)
      PROVE  TellsOf(j)'
  <2>1. /\ c \in Honest /\ down[c] # <<>> /\ Head(down[c]).type = "cancel"
        /\ stop' = [stop EXCEPT ![Head(down[c]).job] = @ \/ task[Head(down[c]).job] = "running"]
        /\ down' = [down EXCEPT ![c] = Tail(@)] /\ UNCHANGED <<link, prov, pc, task>>
    BY <1>6 DEF ReadCancel
  <2>2. Head(down[c]) # Request(j)
    <3>1. Request(j).type = "job_request" BY DEF Request
    <3> QED BY <2>1, <3>1
  <2>3. Cancel(j).job = j BY DEF Cancel
  <2>4. stop \in [Jobs -> BOOLEAN] BY <1>1 DEF TypeOK
  <2>5. Head(down[c]) = Cancel(j) => stop'[j] = (stop[j] \/ task[j] = "running")
    BY <2>1, <2>3, <2>4
  <2>6. stop'[j] = stop[j] \/ stop'[j] = (stop[j] \/ task[j] = "running")
    BY <2>1, <2>4
  <2> QED BY <2>1, <2>2, <2>5, <2>6, FrameIsTaken
<1>7. ASSUME NEW c \in Conns, ProviderExit(c) \/ Shutdown(c)
      PROVE  TellsOf(j)'
  <2>1. /\ c \in Honest /\ down' = [down EXCEPT ![c] = <<>>]
        /\ stop' = [k \in Jobs |-> stop[k] \/ (prov[k] = c /\ task[k] = "running")]
        /\ UNCHANGED <<prov, pc, task, link>>
    BY <1>7 DEF ProviderExit, Shutdown, StopReading
  <2>2. stop'[j] = (stop[j] \/ (prov[j] = c /\ task[j] = "running")) BY <2>1
  <2> QED BY <2>1, <2>2, ReadingEnds
<1>8. ASSUME NEW k \in Jobs, Dispatch(k)
      PROVE  TellsOf(j)'
  BY <1>8, RequestGoesOut
<1>9. ASSUME NEW k \in Jobs,
             Begins(k) \/ List(k) \/ AcquireSlot(k) \/ DispatchFails(k) \/ CallerLeaves(k)
                  \/ TaskStep(k)
      PROVE  TellsOf(j)'
  <2>1. /\ UNCHANGED <<down, stop, link>>
        /\ task'[j] = task[j] \/ (task[j] = "running" /\ task'[j] = "finished")
    BY <1>1, <1>9 DEF Begins, Pick, PickNone, List, AcquireSlot, DispatchFails, CallerLeaves,
         TaskStep, Emit, Finish, TypeOK
  <2>2. \/ pc' = pc /\ prov' = prov
        \/ pc[k] \in Unasked /\ \A i \in Jobs : i # k => pc'[i] = pc[i] /\ prov'[i] = prov[i]
    BY <1>1, <1>9 DEF Begins, Pick, PickNone, List, AcquireSlot, DispatchFails, CallerLeaves,
         TaskStep, Emit, Finish, TypeOK, Goto, Return, Unasked
  <2>3. pc[j] \in Unasked \/ (pc'[j] = pc[j] /\ prov'[j] = prov[j]) BY <2>2
  <2>4. pc'[j] = pc[j] => (Over(j)' => Over(j)) BY DEF Over
  <2> QED BY <2>1, <2>3, <2>4, QuietStep
<1>10. ASSUME NEW k \in Jobs, FrameUnusable(k) \/ JobDone(k) \/ JobError(k)
       PROVE  TellsOf(j)'
  <2>1. /\ UNCHANGED <<down, stop, link, task, prov>>
        /\ pc[k] = "streaming" /\ pc' = [pc EXCEPT ![k] = "returning"]
        /\ chan[k] # <<>>
        /\ Head(chan[k]).body # "ok" \/ Head(chan[k]).type # "job_chunk"
    BY <1>10 DEF FrameUnusable, JobDone, JobError, Receives, Return, Goto
  <2>2. prov[k] \in Honest => task[k] = "finished"
    <3>1. chan[k] \in Seq(Events) /\ Head(chan[k]) = chan[k][1] /\ 1 \in 1 .. Len(chan[k])
      <4>1. chan[k] \in Seq(Events) BY <1>1 DEF TypeOK
      <4> QED BY <2>1, <4>1, PlacesInTail
    <3>2. chan[k][1].from = prov[k] BY <1>1, <3>1 DEF JobInv
    <3> QED BY <1>1, <2>1, <3>1, <3>2 DEF HeldTruly, Truthful
  <2>3. CASE j = k
    <3>1. pc'[j] = "returning" BY <1>1, <2>1, <2>3 DEF TypeOK
    <3> QED BY <2>1, <2>2, <2>3, <3>1, QuietStep DEF Unasked
  <2>4. CASE j # k
    <3>1. pc'[j] = pc[j] BY <1>1, <2>1, <2>4 DEF TypeOK
    <3>2. Over(j)' => Over(j) BY <3>1 DEF Over
    <3> QED BY <2>1, <3>1, <3>2, QuietStep
  <2> QED BY <2>3, <2>4
<1>11. ASSUME NEW k \in Jobs, ForwardChunk(k) \/ Written(k) \/ Unwinds(k)
       PROVE  TellsOf(j)'
  <2>1. /\ UNCHANGED <<down, stop, link, task, prov>>
        /\ \/ pc'[j] = pc[j]
           \/ pc'[j] \in {"streaming", "writing"}
           \/ /\ pc[j] \in {"returning", "released", "unlisted"}
              /\ pc'[j] \in {"released", "unlisted", "ended"}
    BY <1>1, <1>11 DEF ForwardChunk, Receives, Written, Unwinds, ReleaseSlot, Unlist, CloseChan,
                       Goto, TypeOK
  <2>2. (Over(j)' => Over(j)) /\ (pc'[j] \in Unasked => pc[j] \in Unasked)
    BY <2>1 DEF Over, Unasked
  <2> QED BY <2>1, <2>2, QuietStep
<1>12. ASSUME NEW k \in Jobs,
              ContextDone(k) \/ Deadline(k) \/ WriteFails(k) \/ ChunkRefused(k)
       PROVE  TellsOf(j)'
  <2>1. /\ down' = Sent(prov[k], Cancel(k)) /\ UNCHANGED <<stop, link, task, prov>>
        /\ pc[k] \in {"streaming", "writing"} /\ pc' = [pc EXCEPT ![k] = "returning"]
    BY <1>12 DEF ContextDone, Deadline, WriteFails, ChunkRefused, Receives, Abandon, Return,
                 Goto
  <2>2. prov[k] \in Conns BY <1>1, <2>1 DEF JobInv
  <2>3. Cancel(k) \in DownFrames /\ Cancel(k) # Request(j)
    <3>1. Cancel(k).type = "cancel" /\ Request(j).type = "job_request" BY DEF Cancel, Request
    <3>2. Cancel(k) \in DownFrames BY DEF Cancel, DownFrames
    <3> QED BY <3>1, <3>2
  <2>4. CASE j = k
    <3>1. pc'[j] = "returning" BY <1>1, <2>1, <2>4 DEF TypeOK
    <3> QED BY <2>1, <2>2, <2>3, <2>4, <3>1, BehindTheOthers DEF Unasked
  <2>5. CASE j # k
    <3>1. pc'[j] = pc[j] BY <1>1, <2>1, <2>5 DEF TypeOK
    <3>2. Over(j)' => Over(j) BY <3>1 DEF Over
    <3> QED BY <2>1, <2>2, <2>3, <3>1, <3>2, BehindTheOthers
  <2> QED BY <2>4, <2>5
<1>13. CASE UNCHANGED vars
  <2>1. UNCHANGED <<down, stop, link, task, pc, prov>> BY <1>13 DEF vars
  <2>2. Over(j)' => Over(j) BY <2>1 DEF Over
  <2> QED BY <2>1, <2>2, QuietStep
<1>14. CASE \E c \in Conns : \/ Connect(c) \/ Cut(c) \/ Shutdown(c)
                              \/ HubStep(c) \/ ProviderStep(c) \/ FaultySend(c)
  BY <1>2, <1>3, <1>4, <1>5, <1>6, <1>7, <1>14 DEF HubStep, ProviderStep
<1>15. CASE \E k \in Jobs : \/ Begins(k) \/ Prepares(k) \/ Streams(k) \/ Unwinds(k)
                             \/ ContextDone(k) \/ Deadline(k) \/ Written(k) \/ WriteFails(k)
                             \/ CallerLeaves(k) \/ TaskStep(k)
  BY <1>8, <1>9, <1>10, <1>11, <1>12, <1>15 DEF Prepares, Streams
<1> QED BY <1>13, <1>14, <1>15 DEF Next

\* Both ends of the socket: the invariant is kept, and there at the start.
LEMMA ProviderInvHolds ==
  /\ Init => ProviderInv
  /\ RelayInv /\ ProviderInv /\ [Next]_vars => ProviderInv'
<1>1. Init => ProviderInv
  <2> SUFFICES ASSUME Init PROVE ProviderInv OBVIOUS
  <2>1. /\ \A c \in Conns : hub[c] = "none" /\ down[c] = <<>> /\ up[c] = <<>>
        /\ \A j \in Jobs : task[j] = "none" /\ chan[j] = <<>> /\ prov[j] = None
    BY DEF Init
  <2>2. LinksKnown BY <2>1, RelayAssumption DEF LinksKnown
  <2>3. TasksAsked /\ AbandonedIsTold BY <2>1 DEF TasksAsked, AbandonedIsTold
  <2>4. (\A c \in Honest : SentTruly(c)) /\ \A j \in Jobs : HeldTruly(j)
    BY <2>1 DEF SentTruly, HeldTruly, Honest
  <2>5. \A j \in Jobs, c \in Honest : AskedOnce(j, c) BY <2>1 DEF AskedOnce, Honest
  <2> QED BY <2>2, <2>3, <2>4, <2>5 DEF ProviderInv
<1>2. ASSUME RelayInv, ProviderInv, [Next]_vars
      PROVE  ProviderInv'
  <2>1. \A j \in Jobs : TellsOf(j)' BY <1>2, TellingStays
  <2>2. \A j \in Jobs, c \in Honest : AskedOnce(j, c)' BY <2>1 DEF TellsOf
  <2>3. AbandonedIsTold' BY <2>1 DEF TellsOf, AbandonedIsTold
  <2>4. LinksKnown' /\ TasksAsked' BY <1>2, LinksStay, TasksStay
  <2>5. (\A c \in Honest : SentTruly(c)') /\ (\A j \in Jobs : HeldTruly(j)')
    BY <1>2, TruthStays
  <2> QED BY <2>2, <2>3, <2>4, <2>5 DEF ProviderInv
<1> QED BY <1>1, <1>2

\* Both ends of every socket agree on every job, in every interleaving.
THEOREM BothEndsAgree == Spec => []ProviderInv
<1>1. RelayInv /\ ProviderInv /\ [Next]_vars => ProviderInv'
  BY ProviderInvHolds
<1>2. QED
  BY <1>1, ProviderInvHolds, InvariantHolds, PTL DEF Spec

\* Whatever the network, the consumer and the deadline do, ExecuteOn never
\* returns leaving an honest provider generating with no cancel on its way.
THEOREM NobodyGeneratesUnheard == Spec => []AbandonedIsTold
<1>1. ProviderInv => AbandonedIsTold
  BY DEF ProviderInv
<1>2. QED
  BY <1>1, BothEndsAgree, PTL

--------------------------------------------------------------------------------
(***************************************************************************)
(* A short answer is whole: what is said of the queues between the two     *)
(* ends, and what reading, writing and taking do to it.                    *)
(***************************************************************************)

\* Chunks that stand before place i + 1, none of them first, stand before i in the tail.
LEMMA FollowTail ==
  ASSUME NEW q \in Seq(UpFrames), q # <<>>, NEW j \in Jobs, NEW n \in Nat, NEW m \in Nat,
         NEW i \in 1 .. Len(q), Follow(q, j, n, m, i + 1),
         \A s \in n .. m - 1 : q[1] # Chunk(j, s)
  PROVE  Follow(Tail(q), j, n, m, i)
<1> SUFFICES ASSUME NEW s \in n .. m - 1 PROVE \E k \in 1 .. i - 1 : Tail(q)[k] = Chunk(j, s)
  BY DEF Follow
<1>1. PICK k \in 1 .. (i + 1) - 1 : q[k] = Chunk(j, s) BY DEF Follow
<1>2. q[1] # Chunk(j, s) OBVIOUS
<1>3. k # 1 BY <1>1, <1>2
<1>4. Len(q) \in Nat OBVIOUS
<1>5. k - 1 \in 1 .. i - 1 /\ k - 1 \in 1 .. Len(q) - 1 /\ (k - 1) + 1 = k BY <1>3, <1>4
<1>6. Tail(q)[k - 1] = q[(k - 1) + 1] BY <1>5, PlacesInTail
<1> QED BY <1>1, <1>5, <1>6

LEMMA FollowAppend ==
  ASSUME NEW q \in Seq(UpFrames), NEW f \in UpFrames, NEW j \in Jobs, NEW n \in Nat,
         NEW m \in Nat, NEW i \in 1 .. Len(q) + 1, Follow(q, j, n, m, i)
  PROVE  Follow(Append(q, f), j, n, m, i)
<1>1. \A k \in 1 .. i - 1 : k \in 1 .. Len(q) OBVIOUS
<1>2. \A k \in 1 .. i - 1 : Append(q, f)[k] = q[k] BY <1>1, PlacesInAppend
<1> QED BY <1>2 DEF Follow

\* What a frame of type chunk says; those of one job differ by their number only.
LEMMA ChunksAre ==
  ASSUME NEW j \in Jobs, NEW s
  PROVE  /\ Chunk(j, s).job = j /\ Chunk(j, s).type = "job_chunk" /\ Chunk(j, s).seq = s
BY DEF Chunk

\* The hub reads a frame: of what is left, the order stays.
LEMMA OrderedTail ==
  ASSUME NEW q \in Seq(UpFrames), q # <<>>, NEW j \in Jobs, NEW g \in Nat
  PROVE  /\ Ordered(q, j, g) => Ordered(Tail(q), j, g)
         /\ Absent(q, j) => Absent(Tail(q), j)
<1>1. /\ Len(q) \in Nat /\ Len(Tail(q)) = Len(q) - 1
      /\ \A i \in 1 .. Len(Tail(q)) : i + 1 \in 1 .. Len(q) /\ Tail(q)[i] = q[i + 1]
  BY PlacesInTail
<1>2. ASSUME Ordered(q, j, g), NEW i \in 1 .. Len(Tail(q)), Tail(q)[i].job = j
      PROVE  /\ Tail(q)[i].type = "job_chunk" => Tail(q)[i].seq < g
             /\ \A k \in 1 .. i - 1 : Tail(q)[k].job = j =>
                  Tail(q)[k].type = "job_chunk" /\ Tail(q)[k].seq < Ahead(Tail(q)[i], g)
  <2>1. i + 1 \in 1 .. Len(q) /\ Tail(q)[i] = q[i + 1] BY <1>1
  <2>2. /\ q[i + 1].type = "job_chunk" => q[i + 1].seq < g
        /\ \A k \in 1 .. (i + 1) - 1 : q[k].job = j =>
             q[k].type = "job_chunk" /\ q[k].seq < Ahead(q[i + 1], g)
    BY <1>2, <2>1 DEF Ordered
  <2>3. \A k \in 1 .. i - 1 : k + 1 \in 1 .. (i + 1) - 1 /\ k \in 1 .. Len(Tail(q)) BY <1>1
  <2>4. \A k \in 1 .. i - 1 : Tail(q)[k] = q[k + 1] BY <1>1, <2>3
  <2> QED BY <2>1, <2>2, <2>3, <2>4
<1>3. Ordered(q, j, g) => Ordered(Tail(q), j, g) BY <1>2 DEF Ordered
<1>4. Absent(q, j) => Absent(Tail(q), j) BY <1>1 DEF Absent
<1> QED BY <1>3, <1>4

\* A frame is behind the others: of another job ...
LEMMA OthersAppend ==
  ASSUME NEW q \in Seq(UpFrames), NEW f \in UpFrames, NEW j \in Jobs, NEW g \in Nat,
         f.job # j
  PROVE  /\ Ordered(q, j, g) => Ordered(Append(q, f), j, g)
         /\ Absent(q, j) => Absent(Append(q, f), j)
<1>1. /\ Len(q) \in Nat /\ Len(Append(q, f)) = Len(q) + 1
      /\ \A i \in 1 .. Len(q) : i \in 1 .. Len(Append(q, f)) /\ Append(q, f)[i] = q[i]
      /\ Append(q, f)[Len(q) + 1] = f
      /\ \A i \in 1 .. Len(Append(q, f)) : i \in 1 .. Len(q) \/ i = Len(q) + 1
  BY PlacesInAppend
<1>2. ASSUME Ordered(q, j, g), NEW i \in 1 .. Len(Append(q, f)), Append(q, f)[i].job = j
      PROVE  /\ Append(q, f)[i].type = "job_chunk" => Append(q, f)[i].seq < g
             /\ \A k \in 1 .. i - 1 : Append(q, f)[k].job = j =>
                  /\ Append(q, f)[k].type = "job_chunk"
                  /\ Append(q, f)[k].seq < Ahead(Append(q, f)[i], g)
  <2>1. i \in 1 .. Len(q) /\ Append(q, f)[i] = q[i] BY <1>1, <1>2
  <2>2. \A k \in 1 .. i - 1 : Append(q, f)[k] = q[k]
    <3>1. \A k \in 1 .. i - 1 : k \in 1 .. Len(q) BY <1>1, <2>1
    <3> QED BY <1>1, <3>1
  <2> QED BY <1>2, <2>1, <2>2 DEF Ordered
<1>3. Ordered(q, j, g) => Ordered(Append(q, f), j, g) BY <1>2 DEF Ordered
<1>4. Absent(q, j) => Absent(Append(q, f), j) BY <1>1 DEF Absent
<1> QED BY <1>3, <1>4

\* ... or the next chunk, or the end, of this one.
LEMMA OwnAppend ==
  ASSUME NEW q \in Seq(UpFrames), NEW f \in UpFrames, NEW j \in Jobs, NEW g \in Nat,
         NEW h \in Nat, Ordered(q, j, g), f.job = j, g <= h,
         \A i \in 1 .. Len(q) : q[i].job = j => q[i].type = "job_chunk",
         IF f.type = "job_chunk" THEN f.seq = g /\ g < h ELSE g = h
  PROVE  Ordered(Append(q, f), j, h)
<1> DEFINE t == Append(q, f)
<1>1. /\ Len(q) \in Nat /\ Len(t) = Len(q) + 1
      /\ \A i \in 1 .. Len(q) : i \in 1 .. Len(t) /\ t[i] = q[i]
      /\ t[Len(q) + 1] = f
      /\ \A i \in 1 .. Len(t) : i \in 1 .. Len(q) \/ i = Len(q) + 1
  BY PlacesInAppend
<1>2. \A i \in 1 .. Len(q) : q[i].seq \in Nat
  <2>1. \A i \in 1 .. Len(q) : q[i] \in UpFrames OBVIOUS
  <2> QED BY <2>1 DEF UpFrames
<1>3. Ahead(f, h) = g BY DEF Ahead
<1> HIDE DEF t
<1> SUFFICES ASSUME NEW i \in 1 .. Len(t), t[i].job = j
             PROVE  /\ t[i].type = "job_chunk" => t[i].seq < h
                    /\ \A k \in 1 .. i - 1 : t[k].job = j =>
                         t[k].type = "job_chunk" /\ t[k].seq < Ahead(t[i], h)
  BY DEF Ordered, t
<1>4. \A k \in 1 .. i - 1 : k \in 1 .. Len(q) /\ t[k] = q[k]
  <2>1. \A k \in 1 .. i - 1 : k \in 1 .. Len(q) BY <1>1
  <2> QED BY <1>1, <2>1
<1>5. CASE i \in 1 .. Len(q)
  <2>1. t[i] = q[i] /\ q[i].type = "job_chunk" BY <1>1, <1>5
  <2>2. Ahead(t[i], h) = q[i].seq /\ Ahead(q[i], g) = q[i].seq BY <2>1 DEF Ahead
  <2>3. /\ q[i].seq < g
        /\ \A k \in 1 .. i - 1 : q[k].job = j =>
             q[k].type = "job_chunk" /\ q[k].seq < q[i].seq
    BY <1>5, <2>1, <2>2 DEF Ordered
  <2>4. q[i].seq < h BY <1>2, <1>5, <2>3
  <2> QED BY <1>4, <2>1, <2>2, <2>3, <2>4
<1>6. CASE i = Len(q) + 1
  <2>1. t[i] = f BY <1>1, <1>6
  <2>2. \A k \in 1 .. Len(q) : q[k].job = j => q[k].type = "job_chunk" /\ q[k].seq < g
    BY DEF Ordered
  <2>3. \A k \in 1 .. i - 1 : t[k].job = j => t[k].type = "job_chunk" /\ t[k].seq < g
    BY <1>4, <2>2
  <2> QED BY <1>3, <2>1, <2>3
<1> QED BY <1>1, <1>5, <1>6

\* The hub reads a frame of another job.
LEMMA OthersRead ==
  ASSUME NEW q \in Seq(UpFrames), q # <<>>, NEW ch \in Seq(Events), NEW j \in Jobs,
         NEW n \in Nat, NEW g \in Nat, NEW going \in BOOLEAN, NEW linked \in BOOLEAN,
         q[1].job # j, NoneLost(q, ch, j, n, g, going, linked)
  PROVE  NoneLost(Tail(q), ch, j, n, g, going, linked)
<1> DEFINE h == n + Len(ch)
<1>1. /\ Len(q) \in Nat /\ Len(Tail(q)) = Len(q) - 1
      /\ \A i \in 1 .. Len(Tail(q)) : i + 1 \in 1 .. Len(q) /\ Tail(q)[i] = q[i + 1]
      /\ \A i \in 1 .. Len(Tail(q)) : i \in 1 .. Len(q)
  BY PlacesInTail
<1>2. h \in Nat OBVIOUS
<1> HIDE DEF h
<1>3. /\ Held(ch, n, g) /\ Queued(q, j, h, g)
      /\ (\E i \in 1 .. Len(ch) : ch[i].type # "job_chunk") => Absent(q, j)
      /\ going => h <= g /\ (linked => Follow(q, j, h, g, Len(q) + 1))
  BY DEF NoneLost, h
<1>4. \A s : q[1] # Chunk(j, s) BY ChunksAre
<1>5. \A i \in 1 .. Len(q), m \in Nat : Follow(q, j, h, m, i + 1) => Follow(Tail(q), j, h, m, i)
  BY <1>2, <1>4, FollowTail
<1>6. Queued(Tail(q), j, h, g)
  <2> SUFFICES ASSUME NEW i \in 1 .. Len(Tail(q)), Tail(q)[i].job = j
               PROVE  /\ h <= Ahead(Tail(q)[i], g)
                      /\ Follow(Tail(q), j, h, Ahead(Tail(q)[i], g), i)
    BY DEF Queued
  <2>1. i + 1 \in 1 .. Len(q) /\ Tail(q)[i] = q[i + 1] /\ i \in 1 .. Len(q) BY <1>1
  <2>2. h <= Ahead(q[i + 1], g) /\ Follow(q, j, h, Ahead(q[i + 1], g), i + 1)
    BY <1>3, <2>1 DEF Queued
  <2>3. Ahead(q[i + 1], g) \in Nat
    <3>1. q[i + 1] \in UpFrames BY <2>1
    <3> QED BY <3>1 DEF UpFrames, Ahead
  <2> QED BY <1>5, <2>1, <2>2, <2>3
<1>7. Follow(q, j, h, g, Len(q) + 1) => Follow(Tail(q), j, h, g, Len(Tail(q)) + 1)
  <2>1. Len(q) \in 1 .. Len(q) /\ Len(Tail(q)) + 1 = Len(q)
    <3>1. Len(q) # 0 OBVIOUS
    <3> QED BY <1>1, <3>1
  <2> QED BY <1>5, <2>1
<1>8. Absent(q, j) => Absent(Tail(q), j) BY OrderedTail
<1> QED BY <1>3, <1>6, <1>7, <1>8 DEF NoneLost, h

\* The first frame of a job in the queue is the one that the channel waits for.
LEMMA FirstIsNext ==
  ASSUME NEW q \in Seq(UpFrames), q # <<>>, NEW j \in Jobs, NEW h \in Nat, NEW g \in Nat,
         q[1].job = j, Ordered(q, j, g), Queued(q, j, h, g)
  PROVE  Ahead(q[1], g) = h /\ (q[1].type = "job_chunk" => q[1].seq < g)
<1>1. 1 \in 1 .. Len(q) BY PlacesInTail
<1>2. h <= Ahead(q[1], g) /\ Follow(q, j, h, Ahead(q[1], g), 1) BY <1>1 DEF Queued
<1>3. Ahead(q[1], g) \in Nat
  <2>1. q[1] \in UpFrames BY <1>1
  <2> QED BY <2>1 DEF UpFrames, Ahead
<1>4. \A s \in h .. Ahead(q[1], g) - 1 : FALSE BY <1>2 DEF Follow
<1>5. ~(h < Ahead(q[1], g))
  <2> SUFFICES ASSUME h < Ahead(q[1], g) PROVE FALSE OBVIOUS
  <2>1. h \in h .. Ahead(q[1], g) - 1 BY <1>3
  <2> QED BY <1>4, <2>1
<1>6. q[1].type = "job_chunk" => q[1].seq < g BY <1>1 DEF Ordered
<1> QED BY <1>2, <1>3, <1>5, <1>6

\* The channel holds one more.
LEMMA HeldAppend ==
  ASSUME NEW ch \in Seq(Events), NEW e \in Events, NEW n \in Nat, NEW g \in Nat,
         Held(ch, n, g), \A i \in 1 .. Len(ch) : ch[i].type = "job_chunk",
         n + Len(ch) = IF e.type = "job_chunk" THEN e.seq ELSE g
  PROVE  Held(Append(ch, e), n, g)
<1> DEFINE t == Append(ch, e)
<1>1. /\ Len(ch) \in Nat /\ Len(t) = Len(ch) + 1
      /\ \A i \in 1 .. Len(ch) : i \in 1 .. Len(t) /\ t[i] = ch[i]
      /\ t[Len(ch) + 1] = e
      /\ \A i \in 1 .. Len(t) : i \in 1 .. Len(ch) \/ i = Len(ch) + 1
  BY PlacesInAppend
<1> HIDE DEF t
<1> SUFFICES ASSUME NEW i \in 1 .. Len(t)
             PROVE  IF t[i].type = "job_chunk" THEN t[i].seq = n + i - 1
                    ELSE i = Len(t) /\ n + i - 1 = g
  BY DEF Held, t
<1>2. CASE i \in 1 .. Len(ch)
  <2>1. t[i] = ch[i] /\ ch[i].type = "job_chunk" BY <1>1, <1>2
  <2>2. ch[i].seq = n + i - 1 BY <1>2, <2>1 DEF Held
  <2> QED BY <2>1, <2>2
<1>3. CASE i = Len(ch) + 1
  <2>1. t[i] = e /\ n + i - 1 = n + Len(ch) /\ i = Len(t) BY <1>1, <1>3
  <2> QED BY <2>1
<1> QED BY <1>1, <1>2, <1>3

\* The hub reads the chunk that the channel waits for, and puts it there.
LEMMA ChunkRead ==
  ASSUME NEW q \in Seq(UpFrames), q # <<>>, NEW ch \in Seq(Events), NEW j \in Jobs,
         NEW n \in Nat, NEW g \in Nat, NEW going \in BOOLEAN, NEW linked \in BOOLEAN,
         q[1].job = j, q[1].type = "job_chunk", Ordered(q, j, g),
         NoneLost(q, ch, j, n, g, going, linked),
         NEW e \in Events, e.type = "job_chunk", e.seq = q[1].seq
  PROVE  NoneLost(Tail(q), Append(ch, e), j, n, g, going, linked)
<1> DEFINE h == n + Len(ch)
           t == Tail(q)
<1>1. /\ Len(q) \in Nat /\ Len(t) = Len(q) - 1 /\ 1 \in 1 .. Len(q)
      /\ \A i \in 1 .. Len(t) : i + 1 \in 1 .. Len(q) /\ t[i] = q[i + 1]
      /\ \A i \in 1 .. Len(t) : i \in 1 .. Len(q)
  BY PlacesInTail
<1>2. h \in Nat /\ Len(Append(ch, e)) = Len(ch) + 1 /\ n + Len(Append(ch, e)) = h + 1
  BY PlacesInAppend
<1> HIDE DEF h, t
<1>3. /\ Held(ch, n, g) /\ Queued(q, j, h, g)
      /\ (\E i \in 1 .. Len(ch) : ch[i].type # "job_chunk") => Absent(q, j)
      /\ going => h <= g /\ (linked => Follow(q, j, h, g, Len(q) + 1))
  BY DEF NoneLost, h
<1>4. q[1].seq = h /\ h < g BY <1>2, <1>3, FirstIsNext DEF Ahead
<1>5. \A i \in 1 .. Len(ch) : ch[i].type = "job_chunk" BY <1>1, <1>3 DEF Absent
<1>6. Held(Append(ch, e), n, g) BY <1>3, <1>4, <1>5, HeldAppend DEF h
<1>7. \A i \in 1 .. Len(Append(ch, e)) : Append(ch, e)[i].type = "job_chunk"
  BY <1>5, PlacesInAppend
<1>8. ASSUME NEW i \in 1 .. Len(q), NEW m \in Nat, Follow(q, j, h, m, i + 1)
      PROVE  Follow(t, j, h + 1, m, i)
  <2>1. \A s \in h + 1 .. m - 1 : q[1] # Chunk(j, s)
    <3> TAKE s \in h + 1 .. m - 1
    <3>1. s # h BY <1>2
    <3> QED BY <1>4, <3>1, ChunksAre
  <2>2. \A s \in h + 1 .. m - 1 : s \in h .. m - 1 BY <1>2
  <2>3. Follow(q, j, h + 1, m, i + 1) BY <1>8, <2>2 DEF Follow
  <2>4. h + 1 \in Nat BY <1>2
  <2> QED BY <2>1, <2>3, <2>4, FollowTail DEF t
<1>9. Queued(t, j, h + 1, g)
  <2> SUFFICES ASSUME NEW i \in 1 .. Len(t), t[i].job = j
               PROVE  h + 1 <= Ahead(t[i], g) /\ Follow(t, j, h + 1, Ahead(t[i], g), i)
    BY DEF Queued
  <2>1. i + 1 \in 1 .. Len(q) /\ t[i] = q[i + 1] /\ i \in 1 .. Len(q) BY <1>1
  <2>2. Follow(q, j, h, Ahead(q[i + 1], g), i + 1) BY <1>3, <2>1 DEF Queued
  <2>3. Ahead(q[i + 1], g) \in Nat
    <3>1. q[i + 1] \in UpFrames BY <2>1
    <3> QED BY <3>1 DEF UpFrames, Ahead
  <2>4. q[1].seq < Ahead(q[i + 1], g)
    <3>1. 1 \in 1 .. (i + 1) - 1 BY <2>1
    <3> QED BY <2>1, <3>1 DEF Ordered
  <2>5. h + 1 <= Ahead(t[i], g) BY <1>2, <1>4, <2>1, <2>3, <2>4
  <2> QED BY <1>8, <2>1, <2>2, <2>3, <2>5
<1>10. Follow(q, j, h, g, Len(q) + 1) => Follow(t, j, h + 1, g, Len(t) + 1)
  <2>1. Len(q) \in 1 .. Len(q) /\ Len(t) + 1 = Len(q) BY <1>1
  <2> QED BY <1>8, <2>1
<1>11. h + 1 <= g BY <1>2, <1>4
<1> QED BY <1>2, <1>3, <1>6, <1>7, <1>9, <1>10, <1>11 DEF NoneLost, t

\* The hub reads the end of a job: nothing follows it, and it was all.
LEMMA EndRead ==
  ASSUME NEW q \in Seq(UpFrames), q # <<>>, NEW ch \in Seq(Events), NEW j \in Jobs,
         NEW n \in Nat, NEW g \in Nat, NEW going \in BOOLEAN, NEW linked \in BOOLEAN,
         q[1].job = j, q[1].type # "job_chunk", Ordered(q, j, g), ~going,
         NoneLost(q, ch, j, n, g, going, linked),
         NEW e \in Events, e.type = q[1].type
  PROVE  /\ NoneLost(Tail(q), ch, j, n, g, going, linked)
         /\ NoneLost(Tail(q), Append(ch, e), j, n, g, going, linked)
<1> DEFINE t == Tail(q)
<1>1. /\ Len(q) \in Nat /\ Len(t) = Len(q) - 1 /\ 1 \in 1 .. Len(q)
      /\ \A i \in 1 .. Len(t) : i + 1 \in 1 .. Len(q) /\ t[i] = q[i + 1]
  BY PlacesInTail
<1> HIDE DEF t
<1>2. Held(ch, n, g) /\ Queued(q, j, n + Len(ch), g) BY DEF NoneLost
<1>3. \A i \in 1 .. Len(ch) : ch[i].type = "job_chunk" BY <1>1 DEF NoneLost, Absent
<1>4. Absent(t, j)
  <2> SUFFICES ASSUME NEW i \in 1 .. Len(t), t[i].job = j PROVE FALSE BY DEF Absent
  <2>1. i + 1 \in 1 .. Len(q) /\ q[i + 1].job = j /\ 1 \in 1 .. (i + 1) - 1 BY <1>1
  <2> QED BY <2>1 DEF Ordered
<1>5. \A m : Queued(t, j, m, g) BY <1>4 DEF Absent, Queued
<1>6. n + Len(ch) = g
  <2>1. n + Len(ch) \in Nat OBVIOUS
  <2>2. Ahead(q[1], g) = n + Len(ch) BY <1>2, <2>1, FirstIsNext
  <2> QED BY <2>2 DEF Ahead
<1>7. Held(Append(ch, e), n, g) BY <1>2, <1>3, <1>6, HeldAppend
<1> QED BY <1>2, <1>4, <1>5, <1>7 DEF NoneLost, t

\* A frame of another job is sent.
LEMMA OthersSent ==
  ASSUME NEW q \in Seq(UpFrames), NEW f \in UpFrames, NEW ch \in Seq(Events), NEW j \in Jobs,
         NEW n \in Nat, NEW g \in Nat, NEW going \in BOOLEAN, NEW linked \in BOOLEAN,
         f.job # j, NoneLost(q, ch, j, n, g, going, linked)
  PROVE  NoneLost(Append(q, f), ch, j, n, g, going, linked)
<1> DEFINE h == n + Len(ch)
           t == Append(q, f)
<1>1. /\ Len(q) \in Nat /\ Len(t) = Len(q) + 1
      /\ \A i \in 1 .. Len(q) : i \in 1 .. Len(t) /\ t[i] = q[i]
      /\ t[Len(q) + 1] = f
      /\ \A i \in 1 .. Len(t) : i \in 1 .. Len(q) \/ i = Len(q) + 1
  BY PlacesInAppend
<1>2. h \in Nat OBVIOUS
<1> HIDE DEF h, t
<1>3. /\ Held(ch, n, g) /\ Queued(q, j, h, g)
      /\ (\E i \in 1 .. Len(ch) : ch[i].type # "job_chunk") => Absent(q, j)
      /\ going => h <= g /\ (linked => Follow(q, j, h, g, Len(q) + 1))
  BY DEF NoneLost, h
<1>4. \A i \in 1 .. Len(q) + 1, m \in Nat : Follow(q, j, h, m, i) => Follow(t, j, h, m, i)
  BY <1>2, FollowAppend DEF t
<1>5. Queued(t, j, h, g)
  <2> SUFFICES ASSUME NEW i \in 1 .. Len(t), t[i].job = j
               PROVE  h <= Ahead(t[i], g) /\ Follow(t, j, h, Ahead(t[i], g), i)
    BY DEF Queued
  <2>1. i \in 1 .. Len(q) /\ t[i] = q[i] BY <1>1
  <2>2. h <= Ahead(q[i], g) /\ Follow(q, j, h, Ahead(q[i], g), i) BY <1>3, <2>1 DEF Queued
  <2>3. Ahead(q[i], g) \in Nat
    <3>1. q[i] \in UpFrames BY <2>1
    <3> QED BY <3>1 DEF UpFrames, Ahead
  <2>4. i \in 1 .. Len(q) + 1 BY <1>1, <2>1
  <2> QED BY <1>4, <2>1, <2>2, <2>3, <2>4
<1>6. Follow(q, j, h, g, Len(q) + 1) => Follow(t, j, h, g, Len(t) + 1)
  <2>1. /\ Len(q) + 1 \in 1 .. Len(q) + 1
        /\ Follow(q, j, h, g, Len(q) + 1) => Follow(t, j, h, g, Len(q) + 1)
    BY <1>1, <1>4
  <2>2. \A k \in 1 .. (Len(q) + 1) - 1 : k \in 1 .. (Len(t) + 1) - 1 BY <1>1
  <2> QED BY <2>1, <2>2 DEF Follow
<1>7. Absent(q, j) => Absent(t, j) BY OthersAppend DEF t
<1> QED BY <1>3, <1>5, <1>6, <1>7 DEF NoneLost, h, t

\* t is what is on its way after f has been sent behind q.
SentBehind(t, q, f) == t = Append(q, f)

\* A task that is going sends its next chunk over a link that is up.
LEMMA OwnSent ==
  ASSUME NEW q \in Seq(UpFrames), NEW f \in UpFrames, NEW ch \in Seq(Events), NEW j \in Jobs,
         NEW n \in Nat, NEW g \in Nat, NEW h \in Nat, NEW going \in BOOLEAN,
         NEW linked \in BOOLEAN, going, linked, NEW t, SentBehind(t, q, f),
         NoneLost(q, ch, j, n, g, going, linked), f = Chunk(j, g), h = g + 1,
         \A i \in 1 .. Len(q) : q[i].job = j => q[i].type = "job_chunk",
         \A i \in 1 .. Len(ch) : ch[i].type = "job_chunk"
  PROVE  NoneLost(t, ch, j, n, h, going, linked)
<1> DEFINE l == n + Len(ch)
<1>1. /\ Len(q) \in Nat /\ Len(t) = Len(q) + 1
      /\ \A i \in 1 .. Len(q) : i \in 1 .. Len(t) /\ t[i] = q[i]
      /\ t[Len(q) + 1] = f
      /\ \A i \in 1 .. Len(t) : i \in 1 .. Len(q) \/ i = Len(q) + 1
  BY PlacesInAppend DEF SentBehind
<1>2. l \in Nat OBVIOUS
<1> HIDE DEF l
<1>3. Held(ch, n, g) /\ Queued(q, j, l, g) /\ l <= g /\ Follow(q, j, l, g, Len(q) + 1)
  BY DEF NoneLost, l
<1>4. Held(ch, n, h) BY <1>3 DEF Held
<1>5. \A i \in 1 .. Len(q) + 1, m \in Nat : Follow(q, j, l, m, i) => Follow(t, j, l, m, i)
  BY <1>2, FollowAppend DEF SentBehind
<1>6. Ahead(f, h) = g BY ChunksAre DEF Ahead
<1>7. Follow(t, j, l, g, Len(q) + 1)
  <2>1. Len(q) + 1 \in 1 .. Len(q) + 1 BY <1>1
  <2> QED BY <1>3, <1>5, <2>1
<1>8. Queued(t, j, l, h)
  <2> SUFFICES ASSUME NEW i \in 1 .. Len(t), t[i].job = j
               PROVE  l <= Ahead(t[i], h) /\ Follow(t, j, l, Ahead(t[i], h), i)
    BY DEF Queued
  <2>1. CASE i \in 1 .. Len(q)
    <3>1. t[i] = q[i] /\ q[i].type = "job_chunk" BY <1>1, <2>1
    <3>2. Ahead(t[i], h) = Ahead(q[i], g) BY <3>1 DEF Ahead
    <3>3. l <= Ahead(q[i], g) /\ Follow(q, j, l, Ahead(q[i], g), i)
      BY <1>3, <2>1, <3>1 DEF Queued
    <3>4. Ahead(q[i], g) \in Nat
      <4>1. q[i] \in UpFrames BY <2>1
      <4> QED BY <4>1 DEF UpFrames, Ahead
    <3>5. i \in 1 .. Len(q) + 1 BY <1>1, <2>1
    <3> QED BY <1>5, <3>2, <3>3, <3>4, <3>5
  <2>2. CASE i = Len(q) + 1
    <3>1. Ahead(t[i], h) = g BY <1>1, <1>6, <2>2
    <3> QED BY <1>3, <1>7, <2>2, <3>1
  <2> QED BY <1>1, <2>1, <2>2
<1>9. l <= h /\ Follow(t, j, l, h, Len(t) + 1)
  <2>1. h = g + 1 /\ f = Chunk(j, g) OBVIOUS
  <2>2. ASSUME NEW s \in l .. h - 1 PROVE \E k \in 1 .. (Len(t) + 1) - 1 : t[k] = Chunk(j, s)
    <3>1. CASE s = g
      <4>1. Len(q) + 1 \in 1 .. (Len(t) + 1) - 1 BY <1>1
      <4> QED BY <1>1, <2>1, <3>1, <4>1
    <3>2. CASE s # g
      <4>1. s \in l .. g - 1 BY <1>2, <2>1, <3>2
      <4>2. PICK k \in 1 .. (Len(q) + 1) - 1 : t[k] = Chunk(j, s) BY <1>7, <4>1 DEF Follow
      <4>3. k \in 1 .. (Len(t) + 1) - 1 BY <1>1
      <4> QED BY <4>2, <4>3
    <3> QED BY <3>1, <3>2
  <2>3. l <= h BY <1>2, <1>3, <2>1
  <2> QED BY <2>2, <2>3 DEF Follow
<1> QED BY <1>4, <1>8, <1>9 DEF NoneLost, l

LEMMA ChunkSent ==
  ASSUME NEW q \in Seq(UpFrames), NEW ch \in Seq(Events), NEW j \in Jobs, NEW n \in Nat,
         NEW g \in Nat, NEW going \in BOOLEAN, NEW linked \in BOOLEAN, going, linked,
         NoneLost(q, ch, j, n, g, going, linked),
         Chunk(j, g) \in UpFrames, NEW t, SentBehind(t, q, Chunk(j, g)),
         \A i \in 1 .. Len(q) : q[i].job = j => q[i].type = "job_chunk",
         \A i \in 1 .. Len(ch) : ch[i].type = "job_chunk"
  PROVE  NoneLost(t, ch, j, n, g + 1, going, linked)
<1> DEFINE h == g + 1
           f == Chunk(j, g)
<1>1. h \in Nat /\ f \in UpFrames /\ h = g + 1 /\ SentBehind(t, q, f) /\ f = Chunk(j, g)
  OBVIOUS
<1> HIDE DEF h, f
<1>2. NoneLost(t, ch, j, n, h, going, linked) BY <1>1, OwnSent
<1> QED BY <1>2 DEF h

\* What holds when f, the end of job j, is sent behind q.
EndsWith(q, f, ch, j, n, g, linked, t) ==
  /\ q \in Seq(UpFrames) /\ f \in UpFrames /\ ch \in Seq(Events) /\ n \in Nat /\ g \in Nat
  /\ f.job = j /\ f.type # "job_chunk" /\ t = Append(q, f)
  /\ Held(ch, n, g) /\ Queued(q, j, n + Len(ch), g) /\ n + Len(ch) <= g
  /\ Follow(q, j, n + Len(ch), g, Len(q) + 1)
  /\ \A i \in 1 .. Len(q) : q[i].job = j => q[i].type = "job_chunk"
  /\ \A i \in 1 .. Len(ch) : ch[i].type = "job_chunk"

LEMMA EndSent ==
  ASSUME NEW q, NEW f, NEW ch, NEW j \in Jobs, NEW n, NEW g, NEW linked, NEW t,
         EndsWith(q, f, ch, j, n, g, linked, t)
  PROVE  \A going : ~going => NoneLost(t, ch, j, n, g, going, linked)
<1> DEFINE l == n + Len(ch)
<1>1. /\ Len(q) \in Nat /\ Len(t) = Len(q) + 1
      /\ \A i \in 1 .. Len(q) : i \in 1 .. Len(t) /\ t[i] = q[i]
      /\ t[Len(q) + 1] = f
      /\ \A i \in 1 .. Len(t) : i \in 1 .. Len(q) \/ i = Len(q) + 1
  BY PlacesInAppend DEF EndsWith
<1>2. l \in Nat /\ g \in Nat /\ q \in Seq(UpFrames) /\ f \in UpFrames /\ t = Append(q, f)
  BY DEF EndsWith
<1>3. /\ Held(ch, n, g) /\ Queued(q, j, l, g) /\ l <= g /\ Follow(q, j, l, g, Len(q) + 1)
      /\ \A i \in 1 .. Len(ch) : ch[i].type = "job_chunk"
  BY DEF EndsWith
<1> HIDE DEF l
<1>4. \A i \in 1 .. Len(q) + 1, m \in Nat : Follow(q, j, l, m, i) => Follow(t, j, l, m, i)
  BY <1>2, FollowAppend
<1>5. Ahead(f, g) = g BY DEF Ahead, EndsWith
<1>6. Follow(t, j, l, g, Len(q) + 1)
  <2>1. Len(q) + 1 \in 1 .. Len(q) + 1 BY <1>1
  <2> QED BY <1>2, <1>3, <1>4, <2>1
<1>7. Queued(t, j, l, g)
  <2> SUFFICES ASSUME NEW i \in 1 .. Len(t), t[i].job = j
               PROVE  l <= Ahead(t[i], g) /\ Follow(t, j, l, Ahead(t[i], g), i)
    BY DEF Queued
  <2>1. CASE i \in 1 .. Len(q)
    <3>1. t[i] = q[i] BY <1>1, <2>1
    <3>2. l <= Ahead(q[i], g) /\ Follow(q, j, l, Ahead(q[i], g), i)
      BY <1>3, <2>1, <3>1 DEF Queued
    <3>3. Ahead(q[i], g) \in Nat
      <4>1. q[i] \in UpFrames BY <1>2, <2>1
      <4> QED BY <1>2, <4>1 DEF UpFrames, Ahead
    <3>4. i \in 1 .. Len(q) + 1 BY <1>1, <2>1
    <3> QED BY <1>4, <3>1, <3>2, <3>3, <3>4
  <2>2. CASE i = Len(q) + 1
    <3>1. t[i] = f BY <1>1, <2>2
    <3> QED BY <1>3, <1>5, <1>6, <2>2, <3>1
  <2> QED BY <1>1, <2>1, <2>2
<1> QED BY <1>3, <1>7 DEF NoneLost, l

\* A chunk is lost with the link.
LEMMA ChunkLost ==
  ASSUME NEW q \in Seq(UpFrames), NEW ch \in Seq(Events), NEW j \in Jobs, NEW n \in Nat,
         NEW g \in Nat, NEW going \in BOOLEAN, NEW linked \in BOOLEAN, going, ~linked,
         NoneLost(q, ch, j, n, g, going, linked),
         \A i \in 1 .. Len(q) : q[i].job = j => q[i].type = "job_chunk",
         \A i \in 1 .. Len(ch) : ch[i].type = "job_chunk"
  PROVE  NoneLost(q, ch, j, n, g + 1, going, linked)
<1>1. Held(ch, n, g + 1) BY DEF NoneLost, Held
<1>2. \A i \in 1 .. Len(q) : q[i].job = j => Ahead(q[i], g + 1) = Ahead(q[i], g) BY DEF Ahead
<1>3. Queued(q, j, n + Len(ch), g + 1) BY <1>2 DEF NoneLost, Queued
<1>4. n + Len(ch) <= g + 1
  <2>1. n + Len(ch) <= g BY DEF NoneLost
  <2> QED BY <2>1
<1> QED BY <1>1, <1>3, <1>4 DEF NoneLost

\* Nothing is sent: a link may go, and a task may end.
LEMMA LessIsClaimed ==
  ASSUME NEW q, NEW ch, NEW j, NEW n, NEW g, NEW going \in BOOLEAN, NEW linked \in BOOLEAN,
         NEW stays \in BOOLEAN, NEW holds \in BOOLEAN,
         NoneLost(q, ch, j, n, g, going, linked), stays => going, holds => linked
  PROVE  NoneLost(q, ch, j, n, g, stays, holds)
BY DEF NoneLost

\* What is not read when the hub goes is no chunk lost: the link is cut.
LEMMA HubGone ==
  ASSUME NEW q, NEW ch, NEW j, NEW n, NEW g, NEW going \in BOOLEAN, NEW linked \in BOOLEAN,
         NoneLost(q, ch, j, n, g, going, linked)
  PROVE  NoneLost(<<>>, ch, j, n, g, going, FALSE)
<1>1. Len(<<>>) = 0 OBVIOUS
<1>2. \A i \in 1 .. 0 : FALSE OBVIOUS
<1>3. Absent(<<>>, j) /\ \A m : Queued(<<>>, j, m, g) BY <1>1, <1>2 DEF Absent, Queued
<1> QED BY <1>3 DEF NoneLost

\* ExecuteOn takes the first chunk, which is the one it expects.
LEMMA ChunkTaken ==
  ASSUME NEW q, NEW ch \in Seq(Events), ch # <<>>, NEW j, NEW n \in Nat, NEW g \in Nat,
         NEW going \in BOOLEAN, NEW linked \in BOOLEAN, ch[1].type = "job_chunk",
         NoneLost(q, ch, j, n, g, going, linked)
  PROVE  NoneLost(q, Tail(ch), j, n + 1, g, going, linked)
<1> DEFINE t == Tail(ch)
<1>1. /\ Len(ch) \in Nat /\ Len(t) = Len(ch) - 1
      /\ \A i \in 1 .. Len(t) : i + 1 \in 1 .. Len(ch) /\ t[i] = ch[i + 1]
  BY PlacesInTail
<1> HIDE DEF t
<1>2. (n + 1) + Len(t) = n + Len(ch) BY <1>1
<1>3. Held(ch, n, g) BY DEF NoneLost
<1>4. Held(t, n + 1, g)
  <2> SUFFICES ASSUME NEW i \in 1 .. Len(t)
               PROVE  IF t[i].type = "job_chunk" THEN t[i].seq = (n + 1) + i - 1
                      ELSE i = Len(t) /\ (n + 1) + i - 1 = g
    BY DEF Held
  <2>1. i + 1 \in 1 .. Len(ch) /\ t[i] = ch[i + 1] BY <1>1
  <2>2. IF t[i].type = "job_chunk" THEN t[i].seq = n + (i + 1) - 1
        ELSE i + 1 = Len(ch) /\ n + (i + 1) - 1 = g
    BY <1>3, <2>1 DEF Held
  <2>3. n + (i + 1) - 1 = (n + 1) + i - 1 /\ (i + 1 = Len(ch) => i = Len(t)) BY <1>1
  <2> QED BY <2>2, <2>3
<1>5. (\E i \in 1 .. Len(t) : t[i].type # "job_chunk")
        => \E i \in 1 .. Len(ch) : ch[i].type # "job_chunk"
  BY <1>1
<1> QED BY <1>2, <1>4, <1>5 DEF NoneLost, t

\* When the end is taken, it was all.
LEMMA EndTaken ==
  ASSUME NEW q, NEW ch \in Seq(Events), ch # <<>>, NEW j, NEW n \in Nat, NEW g \in Nat,
         NEW going \in BOOLEAN, NEW linked \in BOOLEAN, ch[1].type # "job_chunk",
         NoneLost(q, ch, j, n, g, going, linked)
  PROVE  n = g
<1>1. 1 \in 1 .. Len(ch) BY PlacesInTail
<1>2. n + 1 - 1 = g BY <1>1 DEF NoneLost, Held
<1> QED BY <1>2

\* A step that leaves the queues of the honest as they are, and of this job what it has
\* generated; a task may start.
LEMMA RoomKept ==
  ASSUME NEW k \in Jobs, RoomOf(k), \A c \in Honest : up'[c] = up[c],
         prov'[k] = prov[k], gen'[k] = gen[k],
         \/ task'[k] = task[k]
         \/ task[k] = "none" /\ task'[k] = "running" /\ prov[k] \in Honest,
         prov[k] \in Honest =>
           /\ chan'[k] = chan[k] /\ next'[k] = next[k] /\ out'[k] = out[k]
           /\ Over(k) => Over(k)'
           /\ outcome'[k] = "ok" => outcome[k] = "ok"
           /\ link'[prov[k]] = "open" => link[prov[k]] = "open"
  PROVE  RoomOf(k)'
<1>1. /\ task'[k] = "none" => task[k] = "none"
      /\ task'[k] # "none" => prov[k] \in Honest
      /\ (task'[k] # "finished") = (task[k] # "finished")
      /\ task[k] # "none" => task'[k] # "none"
      /\ task[k] = "finished" => task'[k] = "finished"
  BY DEF RoomOf
<1>2. /\ task[k] = "none" => gen[k] = 0
      /\ \A c \in Honest : Ordered(up[c], k, gen[k])
      /\ \A c \in Honest : (prov[k] = c /\ task[k] # "none") \/ Absent(up[c], k)
  BY DEF RoomOf
<1>3. \A c \in Honest : Ordered(up'[c], k, gen'[k]) BY <1>2
<1>4. \A c \in Honest : (prov'[k] = c /\ task'[k] # "none") \/ Absent(up'[c], k) BY <1>1, <1>2
<1>5. ASSUME prov[k] \in Honest, gen[k] <= BufCap, ~Over(k)'
      PROVE  NoneLost(up'[prov[k]], chan'[k], k, next'[k], gen'[k], task'[k] # "finished",
                      link'[prov[k]] = "open")
  <2>1. NoneLost(up[prov[k]], chan[k], k, next[k], gen[k], task[k] # "finished",
                 link[prov[k]] = "open")
    BY <1>5 DEF RoomOf
  <2> DEFINE going == task[k] # "finished"
             linked == link[prov[k]] = "open"
             holds == link'[prov[k]] = "open"
  <2>2. going \in BOOLEAN /\ linked \in BOOLEAN /\ holds \in BOOLEAN /\ (holds => linked)
    BY <1>5
  <2>3. NoneLost(up[prov[k]], chan[k], k, next[k], gen[k], going, linked) BY <2>1
  <2> HIDE DEF going, linked, holds
  <2>4. NoneLost(up[prov[k]], chan[k], k, next[k], gen[k], going, holds)
    BY <2>2, <2>3, LessIsClaimed
  <2>5. going = (task'[k] # "finished") BY <1>1 DEF going
  <2>6. /\ up'[prov[k]] = up[prov[k]] /\ chan'[k] = chan[k] /\ next'[k] = next[k]
        /\ gen'[k] = gen[k]
    BY <1>5
  <2> QED BY <2>4, <2>5, <2>6 DEF holds
<1>6. prov[k] \in Honest /\ outcome'[k] = "ok" =>
        task'[k] = "finished" /\ (gen'[k] <= BufCap => Len(out'[k]) = gen'[k])
  BY <1>1 DEF RoomOf
<1> QED BY <1>1, <1>2, <1>3, <1>4, <1>5, <1>6 DEF RoomOf

\* What the hub makes of a frame.
Event(c) == [type |-> Head(up[c]).type, seq |-> Head(up[c]).seq, body |-> Head(up[c]).body,
             from |-> c]

\* While ExecuteOn reads, and there is room, a frame of its job goes into its channel.
LEMMA RoomOfRead ==
  ASSUME RelayInv, ProviderInv, RoomInv, NEW c \in Honest, HubRead(c), NEW k \in Jobs
  PROVE  RoomOf(k)'
<1> DEFINE q == up[c]
           f == Head(up[c])
           e == Event(c)
<1>1. /\ TypeOK /\ RoomOf(k) /\ JobInv(k) /\ c \in Conns /\ c # None
  BY RelayAssumption DEF RelayInv, RoomInv, Honest
<1>2. /\ q \in Seq(UpFrames) /\ q # <<>> /\ up' = [up EXCEPT ![c] = Tail(q)]
      /\ chan' = Delivered(c, f)
      /\ UNCHANGED <<link, pc, prov, next, out, outcome, task, gen>>
  BY <1>1 DEF HubRead, TypeOK, relVars, provVars
<1>3. f = q[1] /\ f \in UpFrames /\ 1 \in 1 .. Len(q) BY <1>2, PlacesInTail
<1>4. /\ e \in Events /\ e.type = f.type /\ e.seq = f.seq
  <2>1. f.type \in {"job_chunk", "job_done", "job_error"} /\ f.seq \in Nat /\ f.body \in Bodies
    BY <1>3 DEF UpFrames
  <2> QED BY <1>1, <2>1 DEF Event, Events
<1>5. /\ chan[k] \in Seq(Events) /\ next[k] \in Nat /\ gen[k] \in Nat /\ prov[k] \in Conns \cup {None}
  BY <1>1 DEF TypeOK
<1>6. up'[c] = Tail(q) /\ \A d \in Honest : d # c => up'[d] = up[d]
  BY <1>1, <1>2 DEF TypeOK, Honest
<1>7. /\ k # f.job => chan'[k] = chan[k]
      /\ k = f.job => chan'[k] = IF Deliverable(c, f) THEN Append(chan[k], e) ELSE chan[k]
  <2>1. chan \in [Jobs -> Seq(Events)] BY <1>1 DEF TypeOK
  <2>2. chan' = IF Deliverable(c, f) THEN [chan EXCEPT ![f.job] = Append(@, e)] ELSE chan
    BY <1>2 DEF Delivered, Event
  <2> HIDE DEF f, e
  <2> QED BY <2>1, <2>2
<1> HIDE DEF q, f, e
<1>8. \A d \in Honest : Ordered(up'[d], k, gen'[k])
  <2>1. \A d \in Honest : Ordered(up[d], k, gen[k]) BY <1>1 DEF RoomOf
  <2>2. Ordered(Tail(q), k, gen[k]) BY <1>2, <1>5, <2>1, OrderedTail DEF q
  <2> QED BY <1>2, <1>6, <2>1, <2>2
<1>9. \A d \in Honest : (prov'[k] = d /\ task'[k] # "none") \/ Absent(up'[d], k)
  <2>1. \A d \in Honest : (prov[k] = d /\ task[k] # "none") \/ Absent(up[d], k)
    BY <1>1 DEF RoomOf
  <2>2. Absent(q, k) => Absent(Tail(q), k) BY <1>2, <1>5, OrderedTail
  <2> QED BY <1>2, <1>6, <2>1, <2>2 DEF q
<1>10. ASSUME prov[k] \in Honest, gen[k] <= BufCap, ~Over(k)
       PROVE  NoneLost(up'[prov[k]], chan'[k], k, next[k], gen[k], task[k] # "finished",
                       link[prov[k]] = "open")
  <2> DEFINE going == task[k] # "finished"
             linked == link[prov[k]] = "open"
  <2>1. NoneLost(up[prov[k]], chan[k], k, next[k], gen[k], going, linked)
    BY <1>1, <1>10 DEF RoomOf
  <2>2. going \in BOOLEAN /\ linked \in BOOLEAN OBVIOUS
  <2> HIDE DEF going, linked
  <2>4. CASE prov[k] # c
    <3>1. k # f.job
      <4>1. Absent(q, k) BY <1>1, <2>4 DEF RoomOf, q
      <4> QED BY <1>3, <4>1 DEF Absent
    <3>2. chan'[k] = chan[k] /\ up'[prov[k]] = up[prov[k]] BY <1>6, <1>7, <1>10, <2>4, <3>1
    <3> QED BY <2>1, <3>2 DEF going, linked
  <2>5. CASE prov[k] = c /\ k # f.job
    <3>1. chan'[k] = chan[k] /\ up'[prov[k]] = Tail(q) BY <1>6, <1>7, <2>5
    <3>2. q[1].job # k BY <1>3, <2>5
    <3>3. NoneLost(q, chan[k], k, next[k], gen[k], going, linked) BY <2>1, <2>5 DEF q
    <3>4. NoneLost(Tail(q), chan[k], k, next[k], gen[k], going, linked)
      BY <1>2, <1>5, <2>2, <3>2, <3>3, OthersRead
    <3> QED BY <3>1, <3>4 DEF going, linked
  <2>6. CASE prov[k] = c /\ k = f.job
    <3>1. q[1].job = k BY <1>3, <2>6
    <3>2. NoneLost(q, chan[k], k, next[k], gen[k], going, linked) BY <2>1, <2>6 DEF q
    <3>3. Ordered(q, k, gen[k]) BY <1>1 DEF RoomOf, q
    <3>4. entry[k] = c
      <4>1. ~Absent(q, k) BY <1>3, <3>1 DEF Absent
      <4>2. task[k] # "none" BY <1>1, <4>1 DEF RoomOf, q
      <4>3. pc[k] \notin Unasked BY <4>2 DEF ProviderInv, TasksAsked
      <4>4. pc[k] \in {"streaming", "writing"}
        <5>1. pc[k] \in PCs BY <1>1 DEF TypeOK
        <5> QED BY <1>10, <4>3, <5>1 DEF PCs, Over, Unasked
      <4> QED BY <1>1, <2>6, <4>4 DEF JobInv, Listed
    <3>5. up'[prov[k]] = Tail(q) BY <1>6, <2>6
    <3>6. CASE q[1].type = "job_chunk"
      <4>1. Len(chan[k]) < BufCap
        <5> DEFINE l == next[k] + Len(chan[k])
        <5>1. l \in Nat BY <1>5
        <5>2. Queued(q, k, l, gen[k]) BY <3>2 DEF NoneLost
        <5> HIDE DEF l
        <5>3. Ahead(q[1], gen[k]) = l /\ q[1].seq < gen[k]
          BY <1>2, <1>5, <3>1, <3>3, <3>6, <5>1, <5>2, FirstIsNext
        <5>4. l < gen[k] BY <3>6, <5>3 DEF Ahead
        <5>5. BufCap \in Nat BY RelayAssumption
        <5> QED BY <1>5, <1>10, <5>4, <5>5 DEF l
      <4>2. chan'[k] = Append(chan[k], e) BY <1>7, <2>6, <3>4, <4>1 DEF Deliverable
      <4>3. e.type = "job_chunk" /\ e.seq = q[1].seq BY <1>3, <1>4, <3>6
      <4>4. NoneLost(Tail(q), Append(chan[k], e), k, next[k], gen[k], going, linked)
        BY <1>2, <1>4, <1>5, <2>2, <3>1, <3>2, <3>3, <3>6, <4>3, ChunkRead
      <4> QED BY <3>5, <4>2, <4>4 DEF going, linked
    <3>7. CASE q[1].type # "job_chunk"
      <4>1. task[k] = "finished"
        <5>1. SentTruly(c) BY DEF ProviderInv
        <5> QED BY <1>3, <3>1, <3>7, <5>1 DEF SentTruly, Truthful, q
      <4>2. ~going BY <4>1 DEF going
      <4>3. e.type = q[1].type BY <1>3, <1>4
      <4>4. /\ NoneLost(Tail(q), chan[k], k, next[k], gen[k], going, linked)
            /\ NoneLost(Tail(q), Append(chan[k], e), k, next[k], gen[k], going, linked)
        BY <1>2, <1>4, <1>5, <2>2, <3>1, <3>2, <3>3, <3>7, <4>2, <4>3, EndRead
      <4>5. NoneLost(Tail(q), chan'[k], k, next[k], gen[k], going, linked)
        BY <1>7, <2>6, <4>4
      <4> QED BY <3>5, <4>5 DEF going, linked
    <3> QED BY <3>6, <3>7
  <2> QED BY <2>4, <2>5, <2>6
<1>11. /\ task'[k] = "none" => gen'[k] = 0
       /\ task'[k] # "none" => prov'[k] \in Honest
       /\ prov'[k] \in Honest /\ outcome'[k] = "ok" =>
            task'[k] = "finished" /\ (gen'[k] <= BufCap => Len(out'[k]) = gen'[k])
  BY <1>1, <1>2 DEF RoomOf
<1>12. /\ Over(k)' <=> Over(k)
       /\ prov'[k] = prov[k] /\ next'[k] = next[k] /\ gen'[k] = gen[k] /\ task'[k] = task[k]
       /\ link' = link
  BY <1>2 DEF Over
<1> QED BY <1>8, <1>9, <1>10, <1>11, <1>12 DEF RoomOf

\* A hub that goes leaves what it has not read.
LEMMA RoomOfDrop ==
  ASSUME RelayInv, ProviderInv, RoomInv, NEW c \in Honest, HubDrop(c), NEW k \in Jobs
  PROVE  RoomOf(k)'
<1>1. TypeOK /\ RoomOf(k) BY DEF RelayInv, RoomInv
<1>2. /\ link[c] = "cut" /\ up' = [up EXCEPT ![c] = <<>>]
      /\ UNCHANGED <<link, chan, pc, prov, next, out, outcome, task, gen>>
  BY DEF HubDrop, jobVars, relVars, provVars
<1>3. \A d \in Honest : up'[d] = IF d = c THEN <<>> ELSE up[d] BY <1>1, <1>2 DEF TypeOK, Honest
<1>4. /\ \A d \in Honest : Ordered(up'[d], k, gen'[k])
      /\ \A d \in Honest : (prov'[k] = d /\ task'[k] # "none") \/ Absent(up'[d], k)
  <2>1. \A i \in 1 .. Len(<<>>) : FALSE OBVIOUS
  <2>2. Ordered(<<>>, k, gen[k]) /\ Absent(<<>>, k) BY <2>1 DEF Ordered, Absent
  <2> QED BY <1>1, <1>2, <1>3, <2>2 DEF RoomOf
<1>5. ASSUME prov[k] \in Honest, gen[k] <= BufCap, ~Over(k)
      PROVE  NoneLost(up'[prov[k]], chan[k], k, next[k], gen[k], task[k] # "finished",
                      link[prov[k]] = "open")
  <2> DEFINE going == task[k] # "finished"
             linked == link[prov[k]] = "open"
  <2>1. NoneLost(up[prov[k]], chan[k], k, next[k], gen[k], going, linked)
    BY <1>1, <1>5 DEF RoomOf
  <2>2. going \in BOOLEAN /\ linked \in BOOLEAN OBVIOUS
  <2>3. prov[k] = c => ~linked BY <1>2
  <2> HIDE DEF going, linked
  <2>4. NoneLost(<<>>, chan[k], k, next[k], gen[k], going, FALSE) BY <2>1, <2>2, HubGone
  <2>5. CASE prov[k] = c
    <3>1. up'[prov[k]] = <<>> BY <1>3, <2>5
    <3>2. linked = FALSE BY <2>2, <2>3, <2>5
    <3> QED BY <2>4, <3>1, <3>2 DEF going, linked
  <2>6. CASE prov[k] # c
    <3>1. up'[prov[k]] = up[prov[k]] BY <1>3, <1>5, <2>6
    <3> QED BY <2>1, <3>1 DEF going, linked
  <2> QED BY <2>5, <2>6
<1>6. /\ task'[k] = "none" => gen'[k] = 0
      /\ task'[k] # "none" => prov'[k] \in Honest
      /\ prov'[k] \in Honest /\ outcome'[k] = "ok" =>
           task'[k] = "finished" /\ (gen'[k] <= BufCap => Len(out'[k]) = gen'[k])
  BY <1>1, <1>2 DEF RoomOf
<1>7. /\ Over(k)' <=> Over(k)
      /\ prov'[k] = prov[k] /\ next'[k] = next[k] /\ gen'[k] = gen[k] /\ task'[k] = task[k]
      /\ link' = link /\ chan' = chan
  BY <1>2 DEF Over
<1> QED BY <1>4, <1>5, <1>6, <1>7 DEF RoomOf

\* A task that is going has not sent its end.
LEMMA GoingOn ==
  ASSUME RelayInv, ProviderInv, RoomInv, NEW j \in Jobs, task[j] = "running"
  PROVE  /\ prov[j] \in Honest
         /\ \A i \in 1 .. Len(up[prov[j]]) :
              up[prov[j]][i].job = j => up[prov[j]][i].type = "job_chunk"
         /\ \A i \in 1 .. Len(chan[j]) : chan[j][i].type = "job_chunk"
         /\ \A d \in Honest : d # prov[j] => Absent(up[d], j)
         /\ outcome[j] # "ok"
<1>1. RoomOf(j) /\ JobInv(j) BY DEF RelayInv, RoomInv
<1>2. prov[j] \in Honest BY <1>1 DEF RoomOf
<1>3. SentTruly(prov[j]) /\ HeldTruly(j) BY <1>2 DEF ProviderInv
<1>4. \A i \in 1 .. Len(up[prov[j]]) :
        up[prov[j]][i].job = j => up[prov[j]][i].type = "job_chunk"
  BY <1>3 DEF SentTruly, Truthful
<1>5. \A i \in 1 .. Len(chan[j]) : chan[j][i].type = "job_chunk"
  <2>1. \A i \in 1 .. Len(chan[j]) : chan[j][i].from = prov[j] BY <1>1 DEF JobInv
  <2> QED BY <1>2, <1>3, <2>1 DEF HeldTruly, Truthful
<1> QED BY <1>1, <1>2, <1>4, <1>5 DEF RoomOf

\* A task sends a frame, its next chunk or its end, over its link or into nothing.
LEMMA RoomOfTask ==
  ASSUME RelayInv, ProviderInv, RoomInv, NEW j \in Jobs, TaskStep(j), NEW k \in Jobs
  PROVE  RoomOf(k)'
<1> DEFINE p == prov[j]
<1>1. TypeOK /\ RoomOf(k) /\ task[j] = "running" BY DEF RelayInv, RoomInv, TaskStep, Emit, Finish
<1>2. /\ p \in Honest
      /\ \A i \in 1 .. Len(up[p]) : up[p][i].job = j => up[p][i].type = "job_chunk"
      /\ \A i \in 1 .. Len(chan[j]) : chan[j][i].type = "job_chunk"
      /\ \A d \in Honest : d # p => Absent(up[d], j)
      /\ outcome[j] # "ok"
  BY <1>1, GoingOn
<1>3. /\ UNCHANGED <<link, chan, pc, prov, next, out, outcome>>
  BY DEF TaskStep, Emit, Finish, jobVars, relVars, provVars
<1>4. /\ p \in Conns /\ \A d \in Honest : up[d] \in Seq(UpFrames)
      /\ chan[k] \in Seq(Events) /\ next[k] \in Nat /\ gen[k] \in Nat /\ gen[j] \in Nat
  BY <1>1, <1>2 DEF TypeOK, Honest
<1>5. PICK f \in UpFrames :
        /\ f.job = j /\ Uplink(p, f)
        /\ \/ /\ f = Chunk(j, gen[j]) /\ f.type = "job_chunk" /\ f.seq = gen[j]
              /\ gen' = [gen EXCEPT ![j] = @ + 1] /\ task' = task
           \/ /\ f.type # "job_chunk" /\ gen' = gen
              /\ task' = [task EXCEPT ![j] = "finished"]
  <2>1. CASE Emit(j)
    <3>1. Chunk(j, gen[j]) \in UpFrames BY <1>4 DEF Chunk, UpFrames, Bodies
    <3>2. Uplink(p, Chunk(j, gen[j])) /\ gen' = [gen EXCEPT ![j] = @ + 1] /\ task' = task
      BY <2>1 DEF Emit
    <3> QED BY <3>1, <3>2, ChunksAre
  <2>2. CASE Finish(j)
    <3>1. \A g \in {Done(j), Error(j)} : g \in UpFrames /\ g.job = j /\ g.type # "job_chunk"
      BY DEF Done, Error, UpFrames, Bodies
    <3>2. \E g \in {Done(j), Error(j)} : Uplink(p, g) BY <2>2 DEF Finish
    <3>3. gen' = gen /\ task' = [task EXCEPT ![j] = "finished"] BY <2>2 DEF Finish
    <3> QED BY <3>1, <3>2, <3>3
  <2> QED BY <2>1, <2>2 DEF TaskStep
<1>6. \A d \in Honest : up'[d] = IF d = p /\ link[p] = "open" THEN Append(up[d], f) ELSE up[d]
  <2>1. up' = IF link[p] = "open" THEN [up EXCEPT ![p] = Append(@, f)] ELSE up
    BY <1>5 DEF Uplink
  <2>2. up \in [Conns -> Seq(UpFrames)] /\ Honest \subseteq Conns BY <1>1 DEF TypeOK, Honest
  <2> QED BY <2>1, <2>2
<1> HIDE DEF p
<1>7. CASE k # j
  <2>1. gen'[k] = gen[k] /\ task'[k] = task[k] BY <1>1, <1>5, <1>7 DEF TypeOK
  <2>2. f.job # k BY <1>5, <1>7
  <2>3. \A d \in Honest : Ordered(up[d], k, gen[k])
        /\ ((prov[k] = d /\ task[k] # "none") \/ Absent(up[d], k))
    BY <1>1 DEF RoomOf
  <2>4. \A d \in Honest : /\ Ordered(up[d], k, gen[k]) => Ordered(Append(up[d], f), k, gen[k])
                          /\ Absent(up[d], k) => Absent(Append(up[d], f), k)
    BY <1>4, <2>2, OthersAppend
  <2>5. \A d \in Honest : Ordered(up'[d], k, gen[k])
        /\ ((prov[k] = d /\ task[k] # "none") \/ Absent(up'[d], k))
    BY <1>6, <2>3, <2>4
  <2>6. ASSUME prov[k] \in Honest, gen[k] <= BufCap, ~Over(k)
        PROVE  NoneLost(up'[prov[k]], chan[k], k, next[k], gen[k], task[k] # "finished",
                        link[prov[k]] = "open")
    <3> DEFINE going == task[k] # "finished"
               linked == link[prov[k]] = "open"
    <3>1. NoneLost(up[prov[k]], chan[k], k, next[k], gen[k], going, linked)
      BY <1>1, <2>6 DEF RoomOf
    <3>2. going \in BOOLEAN /\ linked \in BOOLEAN OBVIOUS
    <3> HIDE DEF going, linked
    <3>3. NoneLost(Append(up[prov[k]], f), chan[k], k, next[k], gen[k], going, linked)
      BY <1>4, <2>2, <2>6, <3>1, <3>2, OthersSent
    <3>4. up'[prov[k]] = up[prov[k]] \/ up'[prov[k]] = Append(up[prov[k]], f) BY <1>6, <2>6
    <3> QED BY <3>1, <3>3, <3>4 DEF going, linked
  <2>7. Over(k)' <=> Over(k) BY <1>3 DEF Over
  <2>8. /\ task'[k] = "none" => gen'[k] = 0
        /\ task'[k] # "none" => prov'[k] \in Honest
        /\ prov'[k] \in Honest /\ outcome'[k] = "ok" =>
             task'[k] = "finished" /\ (gen'[k] <= BufCap => Len(out'[k]) = gen'[k])
    BY <1>1, <1>3, <2>1 DEF RoomOf
  <2> QED BY <1>3, <2>1, <2>5, <2>6, <2>7, <2>8 DEF RoomOf
<1>8. CASE k = j
  <2> DEFINE g == gen[j]
             h == gen'[j]
             q == up[p]
             going == task'[j] # "finished"
             linked == link[p] = "open"
             was == task[j] # "finished"
  <2>1. /\ was /\ was \in BOOLEAN /\ going \in BOOLEAN /\ linked \in BOOLEAN /\ q \in Seq(UpFrames) /\ g \in Nat
    BY <1>1, <1>2, <1>4
  <2>2. /\ h \in Nat /\ g <= h /\ (h <= BufCap => g <= BufCap)
        /\ IF f.type = "job_chunk" THEN f = Chunk(j, g) /\ f.seq = g /\ h = g + 1 /\ g < h
           ELSE h = g /\ ~going
    <3>1. h = IF f.type = "job_chunk" THEN g + 1 ELSE g BY <1>1, <1>5 DEF TypeOK
    <3>2. BufCap \in Nat BY RelayAssumption
    <3>3. h \in Nat /\ g <= h /\ (h <= BufCap => g <= BufCap) BY <2>1, <3>1, <3>2
    <3>4. f.type # "job_chunk" => ~going BY <1>1, <1>5 DEF TypeOK
    <3>5. f.type = "job_chunk" => f = Chunk(j, g) /\ f.seq = g /\ g < h BY <1>5, <2>1, <3>1
    <3> QED BY <3>1, <3>3, <3>4, <3>5
  <2>3. task'[j] # "none" /\ (f.type = "job_chunk" => task'[j] = "running")
    BY <1>1, <1>5 DEF TypeOK
  <2>5. Ordered(q, j, g) BY <1>1, <1>2, <1>8 DEF RoomOf
  <2> HIDE DEF h, q, going, linked, g, was
  <2>6. Ordered(Append(q, f), j, h) /\ Ordered(q, j, h)
    <3>1. \A i \in 1 .. Len(q) : q[i].job = j => q[i].type = "job_chunk" BY <1>2 DEF q
    <3>2. Ordered(Append(q, f), j, h)
      BY <1>5, <2>1, <2>2, <2>5, <3>1, OwnAppend
    <3>3. \A i \in 1 .. Len(q) : q[i].seq \in Nat
      <4>1. \A i \in 1 .. Len(q) : q[i] \in UpFrames BY <2>1
      <4> QED BY <4>1 DEF UpFrames
    <3>4. Ordered(q, j, h) BY <2>1, <2>2, <2>5, <3>1, <3>3 DEF Ordered, Ahead
    <3> QED BY <3>2, <3>4
  <2>7. \A d \in Honest : Ordered(up'[d], j, h)
    <3>1. \A d \in Honest : d # p => Ordered(up[d], j, h) BY <1>2 DEF Ordered, Absent
    <3> QED BY <1>6, <2>6, <3>1 DEF q
  <2>8. \A d \in Honest : prov[j] = d \/ Absent(up'[d], j) BY <1>2, <1>6 DEF p
  <2>9. ASSUME h <= BufCap, ~Over(j)
        PROVE  NoneLost(up'[p], chan[j], j, next[j], h, going, linked)
    <3>1. NoneLost(q, chan[j], j, next[j], g, was, linked)
      BY <1>1, <1>2, <1>8, <2>2, <2>9 DEF RoomOf, p, g, q, was, linked
    <3>2. /\ chan[j] \in Seq(Events) /\ next[j] \in Nat BY <1>4, <1>8
    <3>3. /\ \A i \in 1 .. Len(q) : q[i].job = j => q[i].type = "job_chunk"
          /\ \A i \in 1 .. Len(chan[j]) : chan[j][i].type = "job_chunk"
      BY <1>2 DEF q
    <3>4. CASE linked
      <4>1. f.job = j BY <1>5
      <4>2. IF f.type = "job_chunk" THEN f = Chunk(j, g) /\ h = g + 1 ELSE h = g /\ ~going
        BY <2>2
      <4>3. SentBehind(up'[p], q, f) BY <1>2, <1>6, <3>4 DEF q, linked, SentBehind
      <4>4. h \in Nat BY <2>2
      <4> DEFINE t == up'[p]
      <4> HIDE DEF t
      <4>5. SentBehind(t, q, f) BY <4>3 DEF t
      <4>6. CASE f.type = "job_chunk"
        <5>1. f = Chunk(j, g) /\ h = g + 1 /\ Chunk(j, g) \in UpFrames BY <4>2, <4>6
        <5>2. SentBehind(t, q, Chunk(j, g)) BY <4>5, <5>1
        <5>3. NoneLost(t, chan[j], j, next[j], g + 1, was, linked)
          BY <2>1, <3>1, <3>2, <3>3, <3>4, <5>1, <5>2, ChunkSent
        <5>4. NoneLost(t, chan[j], j, next[j], h, was, linked) BY <5>1, <5>3
        <5> QED BY <2>1, <5>4, LessIsClaimed DEF t
      <4>7. CASE f.type # "job_chunk"
        <5>1. h = g /\ ~going BY <4>2, <4>7
        <5>2. EndsWith(q, f, chan[j], j, next[j], g, linked, t)
          <6>1. /\ Held(chan[j], next[j], g) /\ Queued(q, j, next[j] + Len(chan[j]), g)
                /\ next[j] + Len(chan[j]) <= g
                /\ Follow(q, j, next[j] + Len(chan[j]), g, Len(q) + 1)
            BY <2>1, <3>1, <3>4 DEF NoneLost
          <6> QED BY <1>5, <2>1, <3>2, <3>3, <4>1, <4>5, <4>7, <6>1 DEF EndsWith, SentBehind
        <5>3. \A e : ~e => NoneLost(t, chan[j], j, next[j], g, e, linked) BY <5>2, EndSent
        <5> QED BY <5>1, <5>3 DEF t
      <4> QED BY <4>6, <4>7
    <3>5. CASE ~linked
      <4>1. up'[p] = q BY <1>2, <1>6, <3>5 DEF q, linked
      <4>2. NoneLost(q, chan[j], j, next[j], g + 1, was, linked)
        BY <2>1, <3>1, <3>2, <3>3, <3>5, ChunkLost
      <4>3. h = g \/ h = g + 1 BY <2>2
      <4>4. NoneLost(q, chan[j], j, next[j], h, was, linked) BY <3>1, <4>2, <4>3
      <4>5. NoneLost(q, chan[j], j, next[j], h, going, linked)
        BY <2>1, <4>4, LessIsClaimed
      <4> QED BY <4>1, <4>5
    <3> QED BY <3>4, <3>5
  <2>10. Over(j)' <=> Over(j) BY <1>3 DEF Over
  <2> QED BY <1>2, <1>3, <1>8, <2>3, <2>7, <2>8, <2>9, <2>10 DEF RoomOf, h, going, linked, p
<1> QED BY <1>7, <1>8

\* ExecuteOn decides: what is still on its way makes no difference any more.
LEMMA RoomOfEnd ==
  ASSUME NEW k \in Jobs, RoomOf(k), Over(k)', UNCHANGED <<up, link, task, gen, prov>>,
         prov[k] \in Honest /\ outcome'[k] = "ok" =>
           task[k] = "finished" /\ (gen[k] <= BufCap => Len(out'[k]) = gen[k])
  PROVE  RoomOf(k)'
BY DEF RoomOf

\* What a turn of the select loop leaves alone.
LEMMA StreamsLeave ==
  ASSUME TypeOK, NEW j \in Jobs, Streams(j)
  PROVE  /\ UNCHANGED <<up, link, task, gen, prov>> /\ pc[j] = "streaming" /\ chan[j] # <<>>
         /\ \A k \in Jobs : k # j =>
              /\ chan'[k] = chan[k] /\ next'[k] = next[k] /\ out'[k] = out[k]
              /\ pc'[k] = pc[k] /\ outcome'[k] = outcome[k]
         /\ \/ ForwardChunk(j) \/ JobDone(j)
            \/ Over(j)' /\ outcome'[j] # "ok"
<1> USE DEF hubVars, provVars, Receives
<1>1. CASE ForwardChunk(j) BY <1>1 DEF TypeOK, ForwardChunk, Goto
<1>2. CASE JobDone(j) BY <1>2 DEF TypeOK, JobDone, Return, Goto
<1>4. CASE ChunkRefused(j) BY <1>4 DEF TypeOK, ChunkRefused, Abandon, Return, Goto, Over
<1>5. CASE FrameUnusable(j) BY <1>5 DEF TypeOK, FrameUnusable, Return, Goto, Over
<1>6. CASE JobError(j) BY <1>6 DEF TypeOK, JobError, Return, Goto, Over
<1> QED BY <1>1, <1>2, <1>4, <1>5, <1>6 DEF Streams

\* ExecuteOn takes what is first in the channel.
LEMMA RoomOfTake ==
  ASSUME RelayInv, ProviderInv, RoomInv, NEW j \in Jobs, Streams(j), NEW k \in Jobs
  PROVE  RoomOf(k)'
<1>1. TypeOK /\ RoomOf(k) /\ JobInv(k) BY DEF RelayInv, RoomInv
<1>2. /\ UNCHANGED <<up, link, task, gen, prov>> /\ pc[j] = "streaming" /\ chan[j] # <<>>
      /\ k # j =>
           /\ chan'[k] = chan[k] /\ next'[k] = next[k] /\ out'[k] = out[k]
           /\ pc'[k] = pc[k] /\ outcome'[k] = outcome[k]
      /\ ForwardChunk(j) \/ JobDone(j) \/ (Over(j)' /\ outcome'[j] # "ok")
  BY <1>1, StreamsLeave
<1>3. CASE k # j \/ prov[k] \notin Honest BY <1>1, <1>2, <1>3, RoomKept DEF Over
<1>4. CASE k = j /\ Over(j)' /\ outcome'[j] # "ok" BY <1>1, <1>2, <1>4, RoomOfEnd
<1>5. /\ chan[k] \in Seq(Events) /\ next[k] \in Nat /\ gen[k] \in Nat BY <1>1 DEF TypeOK
<1>6. CASE k = j /\ prov[k] \in Honest /\ ForwardChunk(j)
  <2>1. /\ chan'[k] = Tail(chan[k]) /\ next'[k] = next[k] + 1 /\ chan[k][1].type = "job_chunk"
        /\ pc'[k] \in {"streaming", "writing"} /\ outcome' = outcome
    BY <1>1, <1>6, PlacesInTail DEF TypeOK, ForwardChunk, Receives, Goto
  <2>2. outcome'[k] # "ok" BY <1>1, <1>2, <1>6, <2>1 DEF JobInv, Over
  <2>3. ASSUME gen[k] <= BufCap
        PROVE  NoneLost(up[prov[k]], chan'[k], k, next'[k], gen[k], task[k] # "finished",
                        link[prov[k]] = "open")
    <3> DEFINE going == task[k] # "finished"
               linked == link[prov[k]] = "open"
    <3>1. NoneLost(up[prov[k]], chan[k], k, next[k], gen[k], going, linked)
      BY <1>1, <1>2, <1>6, <2>3 DEF RoomOf, Over
    <3>2. going \in BOOLEAN /\ linked \in BOOLEAN OBVIOUS
    <3> HIDE DEF going, linked
    <3>3. NoneLost(up[prov[k]], Tail(chan[k]), k, next[k] + 1, gen[k], going, linked)
      BY <1>2, <1>5, <1>6, <2>1, <3>1, <3>2, ChunkTaken
    <3> QED BY <2>1, <3>3 DEF going, linked
  <2> QED BY <1>1, <1>2, <2>2, <2>3 DEF RoomOf
<1>7. CASE k = j /\ prov[k] \in Honest /\ JobDone(j)
  <2>1. /\ chan[k][1].type = "job_done" /\ out' = out /\ Over(j)' /\ 1 \in 1 .. Len(chan[k])
    BY <1>1, <1>5, <1>7, PlacesInTail DEF TypeOK, JobDone, Receives, Return, Goto, Over
  <2>2. task[k] = "finished"
    <3>1. HeldTruly(k) /\ chan[k][1].from = prov[k] BY <1>1, <2>1 DEF ProviderInv, JobInv
    <3> QED BY <1>7, <2>1, <3>1 DEF HeldTruly, Truthful
  <2>3. ASSUME gen[k] <= BufCap PROVE Len(out'[k]) = gen[k]
    <3> DEFINE going == task[k] # "finished"
               linked == link[prov[k]] = "open"
    <3>1. NoneLost(up[prov[k]], chan[k], k, next[k], gen[k], going, linked)
      BY <1>1, <1>2, <1>7, <2>3 DEF RoomOf, Over
    <3>2. going \in BOOLEAN /\ linked \in BOOLEAN OBVIOUS
    <3> HIDE DEF going, linked
    <3>3. next[k] = gen[k] BY <1>2, <1>5, <1>7, <2>1, <3>1, <3>2, EndTaken
    <3>4. next[k] = Len(out[k]) BY <1>1, <1>2, <1>7 DEF JobInv, Over
    <3> QED BY <2>1, <3>3, <3>4
  <2> QED BY <1>1, <1>2, <1>7, <2>1, <2>2, <2>3, RoomOfEnd
<1> QED BY <1>2, <1>3, <1>4, <1>6, <1>7

\* A job that has just been given its provider has nothing anywhere.
LEMMA RoomOfPick ==
  ASSUME RelayInv, ProviderInv, RoomInv, NEW j \in Jobs, Pick(j), NEW k \in Jobs
  PROVE  RoomOf(k)'
<1>1. TypeOK /\ RoomOf(k) /\ JobInv(k) BY DEF RelayInv, RoomInv
<1>2. /\ UNCHANGED <<up, link, task, gen, chan, next, out, outcome>> /\ pc[j] = "idle"
      /\ pc' = [pc EXCEPT ![j] = "picked"] /\ \E c : prov' = [prov EXCEPT ![j] = c]
  BY DEF Pick, Goto, hubVars, jobVars, provVars
<1>3. CASE k # j
  <2>1. pc'[k] = pc[k] /\ prov'[k] = prov[k] BY <1>1, <1>2, <1>3 DEF TypeOK
  <2> QED BY <1>1, <1>2, <2>1, RoomKept DEF Over
<1>4. CASE k = j
  <2>1. task[k] = "none" BY <1>2, <1>4 DEF ProviderInv, TasksAsked, Unasked
  <2>2. gen[k] = 0 /\ \A c \in Honest : Ordered(up[c], k, gen[k]) /\ Absent(up[c], k)
    BY <1>1, <2>1 DEF RoomOf
  <2>3. chan[k] = <<>> /\ next[k] = 0 /\ outcome[k] = "none"
    BY <1>1, <1>2, <1>4 DEF JobInv, Over
  <2>4. ASSUME NEW c \in Honest, NEW linked \in BOOLEAN
        PROVE  NoneLost(up[c], <<>>, k, 0, 0, TRUE, linked)
    <3>1. Len(<<>>) = 0 /\ 0 + Len(<<>>) = 0 OBVIOUS
    <3>2. \A i \in 1 .. 0 : FALSE OBVIOUS
    <3>3. Held(<<>>, 0, 0) BY <3>1, <3>2 DEF Held
    <3>4. Queued(up[c], k, 0, 0) BY <2>2 DEF Absent, Queued
    <3>5. Follow(up[c], k, 0, 0, Len(up[c]) + 1)
      <4>1. \A s \in 0 .. 0 - 1 : FALSE OBVIOUS
      <4> QED BY <4>1 DEF Follow
    <3> QED BY <2>2, <3>1, <3>2, <3>3, <3>4, <3>5 DEF NoneLost
  <2>5. ASSUME prov'[k] \in Honest
        PROVE  NoneLost(up[prov'[k]], chan[k], k, next[k], gen[k], task[k] # "finished",
                        link[prov'[k]] = "open")
    <3> DEFINE linked == link[prov'[k]] = "open"
    <3>1. linked \in BOOLEAN OBVIOUS
    <3> HIDE DEF linked
    <3>2. NoneLost(up[prov'[k]], <<>>, k, 0, 0, TRUE, linked) BY <2>4, <2>5, <3>1
    <3>3. (task[k] # "finished") = TRUE BY <2>1
    <3> QED BY <2>2, <2>3, <3>2, <3>3 DEF linked
  <2> QED BY <1>2, <2>1, <2>2, <2>3, <2>5 DEF RoomOf
<1> QED BY <1>3, <1>4

\* A request starts the task of a job that has none, at the provider it was given.
LEMMA RoomOfRequest ==
  ASSUME RelayInv, ProviderInv, RoomInv, NEW c \in Conns, ReadRequest(c), NEW k \in Jobs
  PROVE  RoomOf(k)'
<1>1. TypeOK /\ RoomOf(k) BY DEF RelayInv, RoomInv
<1>2. /\ down[c] \in Seq(DownFrames) /\ down[c] # <<>> /\ Head(down[c]).type = "job_request"
      /\ task' = [task EXCEPT ![Head(down[c]).job] = "running"] /\ c \in Honest
      /\ UNCHANGED <<up, link, prov, gen, chan, next, out, outcome, pc>>
  BY <1>1 DEF ReadRequest, TypeOK, jobVars, relVars
<1>3. PICK j \in Jobs : Head(down[c]) = Request(j) BY <1>2 DEF DownFrames, Request, Ack
<1>4. prov[j] = c /\ task[j] = "none"
  <2>1. AskedOnce(j, c) BY <1>2 DEF ProviderInv
  <2> QED BY <1>2, <1>3, <2>1, PlacesInTail DEF AskedOnce
<1>5. task'[k] = IF k = j THEN "running" ELSE task[k]
  <2>1. Head(down[c]).job = j BY <1>3 DEF Request
  <2> QED BY <1>1, <1>2, <2>1 DEF TypeOK
<1> QED BY <1>1, <1>2, <1>4, <1>5, RoomKept DEF Over

\* What a program that does not follow the protocol sends is not what an honest one sends.
LEMMA RoomOfFaulty ==
  ASSUME RelayInv, ProviderInv, RoomInv, NEW c \in Faulty,
         HubRead(c) \/ HubDrop(c) \/ FaultySend(c), NEW k \in Jobs
  PROVE  RoomOf(k)'
<1>1. TypeOK /\ RoomOf(k) /\ JobInv(k) /\ c \in Conns /\ c \notin Honest /\ None \notin Conns
  BY RelayAssumption DEF RelayInv, RoomInv, Honest
<1>2. UNCHANGED <<link, prov, gen, task, next, out, outcome, pc>>
  BY DEF HubRead, HubDrop, FaultySend, relVars, provVars
<1>3. \A d \in Honest : up'[d] = up[d]
  BY <1>1 DEF TypeOK, Honest, HubRead, HubDrop, FaultySend
<1>4. prov[k] \in Honest => chan'[k] = chan[k]
  <2>1. CASE HubRead(c)
    <3> DEFINE f == Head(up[c])
               e == [type |-> f.type, seq |-> f.seq, body |-> f.body, from |-> c]
    <3>1. chan' = IF entry[f.job] = c /\ Len(chan[f.job]) < BufCap
                    THEN [chan EXCEPT ![f.job] = Append(@, e)] ELSE chan
      BY <2>1 DEF HubRead, Delivered, Deliverable
    <3>2. prov[k] \in Honest => entry[k] # c BY <1>1 DEF JobInv, Honest
    <3>3. chan \in [Jobs -> Seq(Events)] BY <1>1 DEF TypeOK
    <3> HIDE DEF f, e
    <3> QED BY <3>1, <3>2, <3>3
  <2>2. CASE HubDrop(c) \/ FaultySend(c) BY <2>2 DEF HubDrop, FaultySend, jobVars
  <2> QED BY <2>1, <2>2
<1> QED BY <1>1, <1>2, <1>3, <1>4, RoomKept DEF Over

\* The other steps of a connection touch neither what is sent nor what is held.
LEMMA RoomOfConn ==
  ASSUME RelayInv, ProviderInv, RoomInv, NEW c \in Conns,
         Connect(c) \/ Cut(c) \/ Shutdown(c) \/ SendAck(c) \/ ReadAck(c) \/ ReadCancel(c)
           \/ ProviderExit(c),
         NEW k \in Jobs
  PROVE  RoomOf(k)'
<1>1. TypeOK /\ RoomOf(k) /\ LinksKnown BY DEF RelayInv, RoomInv, ProviderInv
<1>2. UNCHANGED <<up, prov, gen, task, chan, next, out, outcome, pc>>
  BY DEF Connect, Cut, Shutdown, StopReading, SendAck, ReadAck, ReadCancel, ProviderExit,
         jobVars, relVars, provVars
<1>3. /\ Connect(c) => link[c] = "new" /\ link' = [link EXCEPT ![c] = "open"]
      /\ ~Connect(c) => link' = link \/ link' = [link EXCEPT ![c] = "cut"]
  BY DEF Connect, Cut, Shutdown, StopReading, SendAck, ReadAck, ReadCancel, ProviderExit
<1>4. \A d \in Conns : link'[d] = "open" => link[d] \in {"open", "new"} BY <1>1, <1>3 DEF TypeOK
<1>5. prov[k] \in Honest => link[prov[k]] # "new" /\ prov[k] \in Conns
  BY <1>1 DEF LinksKnown, Honest
<1>6. prov[k] \in Honest /\ link'[prov[k]] = "open" => link[prov[k]] = "open"
  BY <1>4, <1>5
<1> QED BY <1>1, <1>2, <1>6, RoomKept DEF Over

\* Nor do the steps of ExecuteOn and its caller that read nothing.
LEMMA RoomOfCall ==
  ASSUME RelayInv, ProviderInv, RoomInv, NEW j \in Jobs,
         PickNone(j) \/ Prepares(j) \/ Unwinds(j) \/ ContextDone(j) \/ Deadline(j)
           \/ Written(j) \/ WriteFails(j) \/ CallerLeaves(j),
         NEW k \in Jobs
  PROVE  RoomOf(k)'
<1>1. TypeOK /\ RoomOf(k) BY DEF RelayInv, RoomInv
<1> USE DEF hubVars, jobVars, relVars, provVars
<1>2. UNCHANGED <<up, link, prov, gen, task, chan, next, out>>
  BY DEF PickNone, Prepares, List, AcquireSlot, Dispatch, DispatchFails, Unwinds, ReleaseSlot,
         Unlist, CloseChan, ContextDone, Deadline, Written, WriteFails, Abandon, CallerLeaves
<1>3. outcome' = outcome \/ \E o \in Outcomes \ {"ok"} : outcome' = [outcome EXCEPT ![j] = o]
  BY DEF PickNone, Prepares, List, AcquireSlot, Dispatch, DispatchFails, Unwinds, ReleaseSlot,
         Unlist, CloseChan, ContextDone, Deadline, Written, WriteFails, Abandon,
         CallerLeaves, Return, Outcomes
<1>4. \/ pc' = pc
      \/ \E l : pc' = [pc EXCEPT ![j] = l]
                /\ (Over(j) => l \in {"returning", "released", "unlisted", "ended"})
  BY DEF PickNone, Prepares, List, AcquireSlot, Dispatch, DispatchFails, Unwinds, ReleaseSlot,
         Unlist, CloseChan, ContextDone, Deadline, Written, WriteFails, Abandon,
         CallerLeaves, Return, Goto, Over
<1>5. outcome'[k] = "ok" => outcome[k] = "ok" BY <1>1, <1>3 DEF TypeOK
<1>6. Over(k) => Over(k)' BY <1>1, <1>4 DEF TypeOK, Over
<1> QED BY <1>1, <1>2, <1>5, <1>6, RoomKept

LEMMA RoomInitially == Init => RoomInv
<1> SUFFICES ASSUME Init, NEW k \in Jobs PROVE RoomOf(k) BY DEF RoomInv
<1>1. /\ task[k] = "none" /\ gen[k] = 0 /\ prov[k] \notin Honest
      /\ \A c \in Honest : up[c] = <<>>
  BY RelayAssumption DEF Init, Honest
<1>2. Ordered(<<>>, k, 0) /\ Absent(<<>>, k)
  <2>1. \A i \in 1 .. Len(<<>>) : FALSE OBVIOUS
  <2> QED BY <2>1 DEF Ordered, Absent
<1> QED BY <1>1, <1>2 DEF RoomOf

LEMMA RoomStays ==
  ASSUME RelayInv, ProviderInv, RoomInv, [Next]_vars
  PROVE  RoomInv'
<1> SUFFICES ASSUME NEW k \in Jobs PROVE RoomOf(k)' BY DEF RoomInv
<1>1. ASSUME NEW c \in Conns,
             Connect(c) \/ Cut(c) \/ Shutdown(c) \/ HubStep(c) \/ ProviderStep(c)
               \/ FaultySend(c)
      PROVE  RoomOf(k)'
  <2>1. c \in Honest \/ c \in Faulty BY DEF Honest
  <2>2. CASE HubRead(c) BY <2>1, <2>2, RoomOfRead, RoomOfFaulty
  <2>3. CASE HubDrop(c) BY <2>1, <2>3, RoomOfDrop, RoomOfFaulty
  <2>4. CASE FaultySend(c)
    <3>1. c \in Faulty BY <2>4 DEF FaultySend
    <3> QED BY <2>4, <3>1, RoomOfFaulty
  <2>5. CASE ReadRequest(c) BY <2>5, RoomOfRequest
  <2> QED BY <1>1, <2>2, <2>3, <2>4, <2>5, RoomOfConn DEF HubStep, ProviderStep
<1>2. ASSUME NEW j \in Jobs,
             \/ Begins(j) \/ Prepares(j) \/ Streams(j) \/ Unwinds(j)
             \/ ContextDone(j) \/ Deadline(j) \/ Written(j) \/ WriteFails(j)
             \/ CallerLeaves(j) \/ TaskStep(j)
      PROVE  RoomOf(k)'
  BY <1>2, RoomOfPick, RoomOfTake, RoomOfTask, RoomOfCall DEF Begins
<1>3. CASE UNCHANGED vars
  <2>1. RoomOf(k) BY DEF RoomInv
  <2>2. UNCHANGED <<up, link, prov, gen, task, chan, next, out, outcome, pc>>
    BY <1>3 DEF vars, hubVars, jobVars, relVars, provVars
  <2> QED BY <2>1, <2>2, RoomKept DEF Over
<1> QED BY <1>1, <1>2, <1>3 DEF Next

\* From the provider's writer over the socket and the read loop to the channel, the only
\* chunks of an answer with room for all that are missing are those that went with the link.
THEOREM NothingIsLost == Spec => []RoomInv
<1>1. Init => RoomInv BY RoomInitially
<1>2. RelayInv /\ ProviderInv /\ RoomInv /\ [Next]_vars => RoomInv' BY RoomStays
<1> QED BY <1>1, <1>2, InvariantHolds, BothEndsAgree, PTL DEF Spec

\* A success of no more chunks than the channel of jobs.Register holds is all that the
\* provider generated: what Deliver drops cuts only longer answers short.
THEOREM ShortAnswersAreWhole == Spec => []ShortSuccessIsWhole
<1>1. RoomInv => ShortSuccessIsWhole BY DEF RoomInv, RoomOf, ShortSuccessIsWhole
<1> QED BY <1>1, NothingIsLost, PTL

--------------------------------------------------------------------------------
(***************************************************************************)
(* Refinement: every step of the relay is a step of JobPromise or none.    *)
(***************************************************************************)

\* The stream of a call that has received n deltas.
LEMMA CountingStream ==
  ASSUME NEW n \in Nat
  PROVE  LET s == [i \in 1 .. n |-> i - 1] IN
         /\ s \in Seq(Nat) /\ Len(s) = n
         /\ Append(s, n) = [i \in 1 .. n + 1 |-> i - 1]
<1> DEFINE s == [i \in 1 .. n |-> i - 1]
           t == [i \in 1 .. n + 1 |-> i - 1]
<1>1. s \in Seq(Nat) /\ Len(s) = n
  OBVIOUS
<1>2. t \in Seq(Nat) /\ Len(t) = n + 1
  OBVIOUS
<1>3. Append(s, n) \in Seq(Nat) /\ Len(Append(s, n)) = n + 1
  BY <1>1
<1>4. \A i \in 1 .. n + 1 : Append(s, n)[i] = t[i]
  BY <1>1
<1> HIDE DEF s, t
<1>5. Append(s, n) = t
  BY <1>2, <1>3, <1>4
<1>6. QED
  BY <1>1, <1>5 DEF s, t

LEMMA StreamCounts ==
  ASSUME RelayInv, NEW j \in Jobs
  PROVE  /\ Len(out[j]) \in Nat
         /\ callStream[j] = [i \in 1 .. Len(out[j]) |-> i - 1]
<1>1. out[j] \in Seq([seq : Nat, from : Conns])
  BY DEF RelayInv, TypeOK
<1>2. \A i \in 1 .. Len(out[j]) : out[j][i] = [seq |-> i - 1, from |-> prov[j]]
  BY DEF RelayInv, JobInv
<1>3. ASSUME NEW i \in 1 .. Len(out[j]) PROVE out[j][i].seq = i - 1
  <2>1. out[j][i] = [seq |-> i - 1, from |-> prov[j]]
    BY <1>2
  <2>2. QED
    BY <2>1
<1>4. callStream[j] = [i \in 1 .. Len(out[j]) |-> out[j][i].seq]
  BY DEF callStream
<1>5. QED
  BY <1>1, <1>3, <1>4

\* A step that shows the caller nothing.
LEMMA Unseen ==
  ASSUME UNCHANGED out,
         \A k \in Jobs : /\ CallState(k)' = CallState(k)
                         /\ pc[k] = "ended" => UNCHANGED <<outcome[k], usage[k]>>
  PROVE  UNCHANGED <<callState, callStream, callResult, callTokens>>
<1>1. \A k \in Jobs : (pc'[k] = "ended") <=> (pc[k] = "ended")
  BY DEF CallState
<1>2. callState' = callState /\ callStream' = callStream
  BY DEF callState, callStream
<1>3. callResult' = callResult /\ callTokens' = callTokens
  BY <1>1 DEF callResult, callTokens
<1>4. QED
  BY <1>2, <1>3

LEMMA PromiseInitially == Init => Promise!PromiseInit
BY DEF Init, Promise!PromiseInit, callState, callStream, callResult, callTokens, CallState

LEMMA PickStarts ==
  ASSUME RelayInv, NEW j \in Jobs, Pick(j)
  PROVE  Promise!Start(j)
<1>1. /\ pc[j] = "idle" /\ pc \in [Jobs -> PCs] /\ pc' = [pc EXCEPT ![j] = "picked"]
      /\ UNCHANGED <<out, outcome, usage>>
  BY DEF Pick, Goto, RelayInv, TypeOK
<1>2. callState[j] = "idle" /\ callState' = [callState EXCEPT ![j] = "running"]
  BY <1>1 DEF callState, CallState
<1>3. UNCHANGED <<callStream, callResult, callTokens>>
  BY <1>1 DEF callStream, callResult, callTokens
<1>4. QED
  BY <1>2, <1>3 DEF Promise!Start

LEMMA PickNoneRefuses ==
  ASSUME RelayInv, NEW j \in Jobs, PickNone(j)
  PROVE  Promise!Refuse(j)
<1>1. /\ pc[j] = "idle" /\ pc \in [Jobs -> PCs] /\ outcome \in [Jobs -> Outcomes]
      /\ pc' = [pc EXCEPT ![j] = "ended"]
      /\ outcome' = [outcome EXCEPT ![j] = "no_provider"]
      /\ usage[j] = 0
      /\ UNCHANGED <<out, usage>>
  BY DEF PickNone, Goto, RelayInv, TypeOK, JobInv, Over
<1>2. callState[j] = "idle" /\ callState' = [callState EXCEPT ![j] = "ended"]
  BY <1>1 DEF callState, CallState
<1>3. callResult' = [callResult EXCEPT ![j] = "no_provider"]
  BY <1>1 DEF callResult
<1>4. UNCHANGED <<callStream, callTokens>>
  BY <1>1 DEF callStream, callTokens
<1>5. QED
  BY <1>2, <1>3, <1>4 DEF Promise!Refuse

LEMMA ForwardReceives ==
  ASSUME RelayInv, RelayInv', NEW j \in Jobs, ForwardChunk(j)
  PROVE  Promise!Receive(j)
<1> DEFINE r == [seq |-> Head(chan[j]).seq, from |-> Head(chan[j]).from]
<1>1. /\ pc[j] = "streaming"
      /\ out' = [out EXCEPT ![j] = Append(@, r)]
      /\ InSequence(j, Head(chan[j]))
      /\ \/ pc' = [pc EXCEPT ![j] = "streaming"]
         \/ j \in Streamed /\ pc' = [pc EXCEPT ![j] = "writing"]
      /\ UNCHANGED <<outcome, usage>>
  BY DEF ForwardChunk, Receives, Goto
<1>2. out \in [Jobs -> Seq([seq : Nat, from : Conns])] /\ next[j] = Len(out[j])
  BY <1>1 DEF RelayInv, TypeOK, JobInv, Over
<1>3. out'[j] = Append(out[j], r) /\ \A k \in Jobs \ {j} : out'[k] = out[k]
  BY <1>1, <1>2
<1>4. Len(out'[j]) = Len(out[j]) + 1
  BY <1>2, <1>3
<1> HIDE DEF r
<1>5. callStream'[j] = [i \in 1 .. Len(out[j]) + 1 |-> i - 1]
  <2>1. JobInv(j)'
    BY DEF RelayInv
  <2>2. \A i \in 1 .. Len(out'[j]) : out'[j][i] = [seq |-> i - 1, from |-> prov'[j]]
    BY <2>1 DEF JobInv
  <2>3. ASSUME NEW i \in 1 .. Len(out'[j]) PROVE out'[j][i].seq = i - 1
    <3>1. out'[j][i] = [seq |-> i - 1, from |-> prov'[j]]
      BY <2>2
    <3>2. QED
      BY <3>1
  <2>4. callStream'[j] = [i \in 1 .. Len(out'[j]) |-> out'[j][i].seq]
    BY DEF callStream
  <2>5. QED
    BY <1>4, <2>3, <2>4
<1>6. callStream[j] = [i \in 1 .. Len(out[j]) |-> i - 1] /\ Len(out[j]) \in Nat
  BY StreamCounts
<1>7. Len(callStream[j]) = Len(out[j]) /\ callStream'[j] = Append(callStream[j], Len(callStream[j]))
  BY <1>5, <1>6, CountingStream
<1>8. \A k \in Jobs \ {j} : callStream'[k] = callStream[k]
  BY <1>3 DEF callStream
<1>9. callStream' = [callStream EXCEPT ![j] = Append(@, Len(@))]
  BY <1>7, <1>8 DEF callStream
<1>10. MaxTokens > 0 => Len(callStream[j]) < MaxTokens
  BY <1>1, <1>2, <1>7 DEF InSequence
<1>11. /\ callState[j] = "running" /\ UNCHANGED <<callResult, callTokens>>
       /\ \/ UNCHANGED callState
          \/ j \in Streamed /\ callState' = [callState EXCEPT ![j] = "sending"]
  <2>1. pc \in [Jobs -> PCs]
    BY DEF RelayInv, TypeOK
  <2>2. \A k \in Jobs : (pc'[k] = "ended") <=> (pc[k] = "ended")
    BY <1>1, <2>1
  <2>3. UNCHANGED <<callResult, callTokens>>
    BY <1>1, <2>2 DEF callResult, callTokens
  <2>4. CASE pc' = [pc EXCEPT ![j] = "streaming"]
    <3>1. pc' = pc
      BY <1>1, <2>1, <2>4
    <3>2. QED
      BY <1>1, <2>3, <3>1 DEF callState, CallState
  <2>5. CASE j \in Streamed /\ pc' = [pc EXCEPT ![j] = "writing"]
    BY <1>1, <2>1, <2>3, <2>5 DEF callState, CallState
  <2>6. QED
    BY <1>1, <2>4, <2>5
<1>12. QED
  BY <1>9, <1>10, <1>11 DEF Promise!Receive

LEMMA WriteSent ==
  ASSUME RelayInv, NEW j \in Jobs, Written(j) \/ WriteFails(j)
  PROVE  Promise!Sent(j)
<1>1. /\ pc[j] = "writing" /\ pc \in [Jobs -> PCs] /\ UNCHANGED <<out, usage>>
      /\ \E l \in {"streaming", "returning"} : pc' = [pc EXCEPT ![j] = l]
      /\ \A k \in Jobs \ {j} : outcome'[k] = outcome[k]
  BY DEF Written, WriteFails, Abandon, Return, Goto, RelayInv, TypeOK
<1>2. callState[j] = "sending" /\ callState' = [callState EXCEPT ![j] = "running"]
  BY <1>1 DEF callState, CallState
<1>3. \A k \in Jobs : (pc'[k] = "ended") <=> (pc[k] = "ended")
  BY <1>1
<1>4. pc[j] # "ended"
  BY <1>1
<1>5. UNCHANGED <<callStream, callResult, callTokens>>
  BY <1>1, <1>3, <1>4 DEF callStream, callResult, callTokens
<1>6. QED
  BY <1>2, <1>5 DEF Promise!Sent

LEMMA CloseEnds ==
  ASSUME RelayInv, NEW j \in Jobs, CloseChan(j)
  PROVE  Promise!End(j)
<1>1. /\ pc[j] = "unlisted" /\ pc \in [Jobs -> PCs] /\ pc' = [pc EXCEPT ![j] = "ended"]
      /\ outcome[j] \in Outcomes \ {"none", "no_provider"}
      /\ UNCHANGED <<out, outcome, usage>>
  BY DEF CloseChan, Goto, RelayInv, TypeOK, JobInv, Over
<1>2. callState[j] = "running" /\ callState' = [callState EXCEPT ![j] = "ended"]
  BY <1>1 DEF callState, CallState
<1>3. callResult' = [callResult EXCEPT ![j] = outcome[j]]
  BY <1>1 DEF callResult
<1>4. usage[j] = IF outcome[j] = "ok" THEN Len(callStream[j]) ELSE 0
  <2>1. Len(callStream[j]) = Len(out[j])
    BY StreamCounts, CountingStream
  <2>2. QED
    BY <2>1 DEF RelayInv, JobInv
<1>5. callTokens' = [callTokens EXCEPT ![j] = usage[j]]
  BY <1>1 DEF callTokens
<1>6. callStream' = callStream
  BY <1>1 DEF callStream
<1>7. QED
  BY <1>1, <1>2, <1>3, <1>4, <1>5, <1>6 DEF Promise!End

\* Inside the call, moving on shows the caller nothing.
LEMMA StillRunning ==
  ASSUME RelayInv, NEW j \in Jobs, NEW l \in PCs \ {"idle", "writing", "ended"},
         pc[j] \notin {"idle", "writing", "ended"}, Goto(j, l), UNCHANGED out,
         \A k \in Jobs \ {j} : UNCHANGED <<outcome[k], usage[k]>>
  PROVE  UNCHANGED <<callState, callStream, callResult, callTokens>>
<1>1. pc \in [Jobs -> PCs] /\ pc' = [pc EXCEPT ![j] = l]
  BY DEF RelayInv, TypeOK, Goto
<1>2. \A k \in Jobs : CallState(k)' = CallState(k)
  BY <1>1 DEF CallState
<1>3. QED
  BY <1>2, Unseen

\* The steps of the hub, the providers, the tasks and the consumer.
LEMMA OthersUnseen ==
  ASSUME UNCHANGED <<pc, out, outcome, usage>>
  PROVE  UNCHANGED <<callState, callStream, callResult, callTokens>>
BY Unseen DEF CallState

LEMMA PreparesUnseen ==
  ASSUME RelayInv, NEW j \in Jobs, Prepares(j) \/ ReleaseSlot(j) \/ Unlist(j)
  PROVE  UNCHANGED <<callState, callStream, callResult, callTokens>>
<1>0. outcome \in [Jobs -> Outcomes]
  BY DEF RelayInv, TypeOK
<1>1. CASE List(j)
  BY <1>1, StillRunning DEF List, PCs
<1>2. CASE AcquireSlot(j)
  BY <1>2, StillRunning DEF AcquireSlot, PCs
<1>3. CASE Dispatch(j)
  BY <1>3, StillRunning DEF Dispatch, PCs
<1>4. CASE DispatchFails(j)
  BY <1>0, <1>4, StillRunning DEF DispatchFails, Return, PCs
<1>5. CASE ReleaseSlot(j)
  BY <1>5, StillRunning DEF ReleaseSlot, PCs
<1>6. CASE Unlist(j)
  BY <1>6, StillRunning DEF Unlist, PCs
<1>7. QED
  BY <1>1, <1>2, <1>3, <1>4, <1>5, <1>6 DEF Prepares

\* Every way out of the select loop; what it returns is not seen yet.
LEMMA ReturnUnseen ==
  ASSUME RelayInv, NEW j \in Jobs, NEW o \in Outcomes,
         pc[j] = "streaming", Return(j, o), UNCHANGED out,
         \A k \in Jobs \ {j} : UNCHANGED usage[k]
  PROVE  UNCHANGED <<callState, callStream, callResult, callTokens>>
<1>1. outcome \in [Jobs -> Outcomes] /\ outcome' = [outcome EXCEPT ![j] = o]
  BY DEF RelayInv, TypeOK, Return
<1>2. Goto(j, "returning")
  BY DEF Return
<1>3. QED
  BY <1>1, <1>2, StillRunning DEF PCs

LEMMA StreamsPromised ==
  ASSUME RelayInv, RelayInv', NEW j \in Jobs,
         Streams(j) \/ ContextDone(j) \/ Deadline(j)
  PROVE  Promise!Receive(j) \/ UNCHANGED <<callState, callStream, callResult, callTokens>>
<1>0. usage \in [Jobs -> Nat]
  BY DEF RelayInv, TypeOK
<1>1. CASE ForwardChunk(j)
  BY <1>1, ForwardReceives
<1>3. CASE ChunkRefused(j)
  BY <1>3, ReturnUnseen DEF ChunkRefused, Receives, Abandon, Outcomes
<1>4. CASE FrameUnusable(j)
  BY <1>4, ReturnUnseen DEF FrameUnusable, Receives, Outcomes
<1>5. CASE JobDone(j)
  BY <1>0, <1>5, ReturnUnseen DEF JobDone, Receives, Outcomes
<1>6. CASE JobError(j)
  BY <1>6, ReturnUnseen DEF JobError, Receives, Outcomes
<1>7. CASE ContextDone(j)
  BY <1>7, ReturnUnseen DEF ContextDone, Abandon, Outcomes
<1>8. CASE Deadline(j)
  BY <1>8, ReturnUnseen DEF Deadline, Abandon, Outcomes
<1>9. QED
  BY <1>1, <1>3, <1>4, <1>5, <1>6, <1>7, <1>8 DEF Streams

LEMMA StepPromised ==
  ASSUME RelayInv, RelayInv', [Next]_vars
  PROVE  [Promise!PromiseNext]_(Promise!promiseVars)
<1> DEFINE Unchanged == UNCHANGED <<callState, callStream, callResult, callTokens>>
<1> USE DEF hubVars, jobVars, relVars, provVars
<1>1. ASSUME NEW c \in Conns,
             Connect(c) \/ Cut(c) \/ Shutdown(c) \/ HubStep(c) \/ ProviderStep(c) \/ FaultySend(c)
      PROVE  Unchanged
  <2>1. UNCHANGED <<pc, out, outcome, usage>>
    BY <1>1 DEF Connect, Cut, HubStep, SendAck, HubRead, HubDrop, ProviderStep, ReadAck,
                ReadRequest, ReadCancel, ProviderExit, Shutdown, StopReading, FaultySend
  <2>2. QED
    BY <2>1, OthersUnseen
<1>2. ASSUME NEW j \in Jobs, Begins(j)
      PROVE  Promise!Start(j) \/ Promise!Refuse(j)
  BY <1>2, PickStarts, PickNoneRefuses DEF Begins
<1>3. ASSUME NEW j \in Jobs, Prepares(j) \/ Unwinds(j)
      PROVE  Promise!End(j) \/ Unchanged
  BY <1>3, PreparesUnseen, CloseEnds DEF Unwinds
<1>4. ASSUME NEW j \in Jobs, Streams(j) \/ ContextDone(j) \/ Deadline(j)
      PROVE  Promise!Receive(j) \/ Unchanged
  BY <1>4, StreamsPromised
<1>5. ASSUME NEW j \in Jobs, CallerLeaves(j) \/ TaskStep(j)
      PROVE  Unchanged
  <2>1. UNCHANGED <<pc, out, outcome, usage>>
    BY <1>5 DEF CallerLeaves, TaskStep, Emit, Finish
  <2>2. QED
    BY <2>1, OthersUnseen
<1>9. ASSUME NEW j \in Jobs, Written(j) \/ WriteFails(j)
      PROVE  Promise!Sent(j)
  BY <1>9, WriteSent
<1>6. CASE UNCHANGED vars
  <2>1. UNCHANGED <<pc, out, outcome, usage>>
    BY <1>6 DEF vars
  <2>2. Unchanged
    BY <2>1, OthersUnseen
  <2>3. QED
    BY <2>2 DEF Promise!promiseVars
<1>7. CASE Next
  BY <1>1, <1>2, <1>3, <1>4, <1>5, <1>7, <1>9
  DEF Next, Promise!PromiseNext, Promise!promiseVars
<1>8. QED
  BY <1>6, <1>7

\* The relay, the hub, the table and the provider implement JobPromise: what the
\* handler sees of a call is a step of the promise, whatever happens underneath.
THEOREM RelayKeepsPromise == Spec => Promise!PromiseSafety
<1>1. Init => Promise!PromiseInit
  BY PromiseInitially
<1>2. RelayInv /\ RelayInv' /\ [Next]_vars => [Promise!PromiseNext]_(Promise!promiseVars)
  BY StepPromised
<1>3. QED
  BY <1>1, <1>2, InvariantHolds, PTL DEF Spec, Promise!PromiseSafety
================================================================================
