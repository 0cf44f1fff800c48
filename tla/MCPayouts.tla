-------------------------------- MODULE MCPayouts --------------------------------
(***************************************************************************)
(* The instance of Books that TLC checks: devices, operators and handlers  *)
(* of Payouts are interchangeable; Store has one device with two           *)
(* connections, and a few of everything else.                              *)
(***************************************************************************)
EXTENDS Books, TLC

Topics7 == {"keys", "credit", "usage", "earnings", "desk", "feedback", "runs"}
Spellings == [m \in Mails |-> IF m = "Ada@x" THEN "ada@x" ELSE m]
OneDevice == [c \in Conns |-> "d1"]

\* Bound: no job is metered once handlers have overlapped.  Payout runs see the
\* accounts through status and ready alone, whichever handlers wrote them.
HandlersApart ==
  \/ \A d \in Devices : earned[d] = 0
  \/ /\ ~raced
     /\ \A g, h \in Handlers : g = h \/ visit[g] = NoVisit \/ visit[h] = NoVisit

NextOfPart == (PayoutsMove /\ HandlersApart') \/ StoreMoves
SpecOfPart == BooksInit /\ [][NextOfPart]_<<part, vars, stored>>

Symmetry == Permutations(Devices) \cup Permutations(Operators) \cup Permutations(Handlers)
================================================================================
