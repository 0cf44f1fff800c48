-------------------------------- MODULE Scheduler --------------------------------
(***************************************************************************)
(* Which providers can take a job: the filters of scheduler.Eligible.  A   *)
(* fleet is a snapshot of the registry: a set of providers as they are     *)
(* when they are looked at.  The order of the list is left out: it reads   *)
(* the load of devices that go on working while it is sorted, and Relay    *)
(* and Batch take any order.                                               *)
(***************************************************************************)
EXTENDS Integers, FiniteSets

TierRank(t) == CASE t = "confidential" -> 2
                 [] t = "device_attested" -> 1
                 [] OTHER -> 0

ClassRank(c) == CASE c = "CONFIDENTIAL_GPU" -> 5
                  [] c = "XL" -> 4
                  [] c = "LARGE" -> 3
                  [] c = "MEDIUM" -> 2
                  [] c = "SMALL" -> 1
                  [] OTHER -> 0

\* A need is a model, the least tier, the context (0: any) and the class the
\* model asks for ("": any).  A provider of context 0 has not said.
MeetsTier(p, need) == TierRank(p.tier) >= TierRank(need.tier)

MeetsContext(p, need) ==
  need.context = 0 \/ p.context = 0 \/ p.context >= need.context

MeetsClass(p, need) ==
  ClassRank(need.class) = 0 \/ ClassRank(p.class) >= ClassRank(need.class)

Eligible(fleet, need) ==
  {p \in fleet : /\ need.model \in p.models /\ ~p.draining
                 /\ MeetsTier(p, need) /\ MeetsContext(p, need) /\ MeetsClass(p, need)}
=============================================================================
