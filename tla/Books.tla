---------------------------------- MODULE Books ----------------------------------
(***************************************************************************)
(* The books: what is earned, owed and paid (Payouts), and the two         *)
(* implementations of the store that keep them (Store).  Payouts treats    *)
(* each of its calls to the store as one step on what is owed; Store is    *)
(* about the tables behind those calls.  Neither reads a variable of the   *)
(* other, so a behaviour moves one of them, chosen in the initial state.   *)
(***************************************************************************)
EXTENDS Payouts, Sequences

CONSTANTS
  Topics, Raws, EnvKeys, Conns, DeviceOf, Jobs, Refs, Stripes, RunIds, Users, Mails, Lower,
  ListDefault, ListMax, MaxCalls,
  Sellers     \* the devices whose tables Store follows

VARIABLES part, topic, mem, pg, held, calls

S == INSTANCE Store WITH Devices <- Sellers

ASSUME StoreAssumed == S!StoreAssumption

stored == <<topic, mem, pg, held, calls>>

BooksInit ==
  /\ Init /\ S!Init
  /\ \/ part = "payouts" /\ topic = CHOOSE t \in Topics : TRUE
     \/ part = "store"

PayoutsMove == part = "payouts" /\ Next /\ UNCHANGED <<part, stored>>
StoreMoves == part = "store" /\ S!Next /\ UNCHANGED <<part, vars>>

BooksSpec == BooksInit /\ [][PayoutsMove \/ StoreMoves]_<<part, vars, stored>>

\* Money and metering read the same from either store (Store!BooksAgree).
BooksAgree == S!BooksAgree
\* Keys, runs, threads, accounts and signups read the same from either (Store!RowsAgree).
RowsAgree == S!RowsAgree
\* What a device is owed reads the same from either, which it does not (Store!OwedAgree).
OwedAgree == S!OwedAgree
================================================================================
