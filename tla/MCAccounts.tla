-------------------------------- MODULE MCAccounts -------------------------------
(***************************************************************************)
(* The instance of Members that TLC checks.                                *)
(***************************************************************************)
EXTENDS Members, TLC

\* Two logins report one address in different spellings; one of them changes
\* to the address that the third, whose profile hides it, has as its primary.
Logins3 == {"github:1", "google:1", "github:2"}
Provider3 == [l \in Logins3 |-> IF l = "google:1" THEN "google" ELSE "github"]
Profile3 == [l \in Logins3 |-> CASE l = "github:1" -> {"Ada@x"}
                                 [] l = "google:1" -> {"ada@x", "bob@x"}
                                 [] l = "github:2" -> {None}]
Primary3 == [l \in Logins3 |-> IF l = "github:2" THEN "bob@x" ELSE None]
Lower3 == [m \in {"Ada@x", "ada@x", "bob@x"} |-> IF m = "Ada@x" THEN "ada@x" ELSE m]

\* Who was invited by whom depends on who came first.
Joined2 == [u \in Inviters |-> IF u = "ada" THEN 1 ELSE 2]

Symmetry ==
  Permutations(Users) \cup Permutations(Requests) \cup Permutations(Phones) \cup Permutations(Devices)
================================================================================
