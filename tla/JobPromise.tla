------------------------------- MODULE JobPromise ------------------------------
(***************************************************************************)
(* What relay.Execute promises the handler that calls it, with no hub, no  *)
(* channel and no provider in sight: chunks are taken one at a time and in *)
(* order, at most as many as the ceiling allows; onDelta gets the delta of *)
(* one unless it is empty; the call returns once, with one outcome; a      *)
(* success reports exactly the chunks taken; and a call that has been      *)
(* given a provider does return, unless its own onDelta does not.          *)
(***************************************************************************)
EXTENDS Integers, Sequences

CONSTANTS
  Jobs,
  Streamed,   \* calls whose onDelta writes to a socket, and may wait for its reader
  Outcomes,   \* what a call can return, "none" while it has not
  MaxTokens   \* the request's ceiling, 0 for none

VARIABLES
  state,   \* "idle", "running", "sending" (inside such an onDelta) or "ended"
  stream,  \* sequence numbers of the chunks taken
  result,  \* the outcome returned
  tokens   \* the completion tokens a successful result reports

promiseVars == <<state, stream, result, tokens>>

PromiseInit ==
  /\ state = [j \in Jobs |-> "idle"]
  /\ stream = [j \in Jobs |-> <<>>]
  /\ result = [j \in Jobs |-> "none"]
  /\ tokens = [j \in Jobs |-> 0]

\* The scheduler found a provider.
Start(j) ==
  /\ state[j] = "idle"
  /\ state' = [state EXCEPT ![j] = "running"]
  /\ UNCHANGED <<stream, result, tokens>>

\* The scheduler found none.
Refuse(j) ==
  /\ state[j] = "idle"
  /\ state' = [state EXCEPT ![j] = "ended"]
  /\ result' = [result EXCEPT ![j] = "no_provider"]
  /\ UNCHANGED <<stream, tokens>>

\* The next chunk is taken.
Receive(j) ==
  /\ state[j] = "running"
  /\ MaxTokens > 0 => Len(stream[j]) < MaxTokens
  /\ stream' = [stream EXCEPT ![j] = Append(@, Len(@))]
  /\ \/ UNCHANGED state
     \/ j \in Streamed /\ state' = [state EXCEPT ![j] = "sending"]
  /\ UNCHANGED <<result, tokens>>

\* onDelta returns, with or without an error.
Sent(j) ==
  /\ state[j] = "sending"
  /\ state' = [state EXCEPT ![j] = "running"]
  /\ UNCHANGED <<stream, result, tokens>>

End(j) ==
  /\ state[j] = "running"
  /\ state' = [state EXCEPT ![j] = "ended"]
  /\ \E o \in Outcomes \ {"none", "no_provider"} :
       /\ result' = [result EXCEPT ![j] = o]
       /\ tokens' = [tokens EXCEPT ![j] = IF o = "ok" THEN Len(stream[j]) ELSE 0]
  /\ UNCHANGED stream

PromiseNext == \E j \in Jobs :
  Start(j) \/ Refuse(j) \/ Receive(j) \/ Sent(j) \/ End(j)

PromiseSafety == PromiseInit /\ [][PromiseNext]_promiseVars

PromiseSpec == PromiseSafety /\ \A j \in Jobs : WF_promiseVars(End(j))
================================================================================
