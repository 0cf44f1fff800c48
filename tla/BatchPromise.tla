------------------------------ MODULE BatchPromise ------------------------------
(***************************************************************************)
(* What batch.Run promises the handlers that call it: every item gets      *)
(* exactly one answer, in any order, and the call returns the answers once *)
(* all of them are there.  If no provider is eligible nothing is answered. *)
(***************************************************************************)
EXTENDS Naturals

CONSTANT NItems  \* items of the batch, numbered 1 .. NItems

VARIABLES
  stage,   \* "idle", "working", "returned" or "refused"
  answer   \* each item's answer: "none", "ok" or "failed"

promiseVars == <<stage, answer>>

Index == 1 .. NItems

PromiseInit ==
  /\ stage = "idle"
  /\ answer = [i \in Index |-> "none"]

Accept == stage = "idle" /\ stage' = "working" /\ UNCHANGED answer

Refuse == stage = "idle" /\ stage' = "refused" /\ UNCHANGED answer

Answer(i) ==
  /\ stage = "working"
  /\ answer[i] = "none"
  /\ \E a \in {"ok", "failed"} : answer' = [answer EXCEPT ![i] = a]
  /\ UNCHANGED stage

Deliver ==
  /\ stage = "working"
  /\ \A i \in Index : answer[i] # "none"
  /\ stage' = "returned"
  /\ UNCHANGED answer

PromiseNext == Accept \/ Refuse \/ Deliver \/ \E i \in Index : Answer(i)

\* The promise without its liveness.
PromiseSafety == PromiseInit /\ [][PromiseNext]_promiseVars

PromiseSpec ==
  /\ PromiseSafety
  /\ WF_promiseVars(Deliver)
  /\ \A i \in Index : WF_promiseVars(Answer(i))
================================================================================
