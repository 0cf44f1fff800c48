-------------------------------- MODULE MCRelay --------------------------------
(***************************************************************************)
(* Instances of Relay for TLC.  Jobs are interchangeable, and so are the   *)
(* connections of equal honesty.                                           *)
(***************************************************************************)
EXTENDS Relay, TLC

\* The product of two jobs and a faulty connection is out of reach.  A behaviour has one
\* of them: with part = None, every job, honest connections, a single token each and at
\* most one consumer that leaves; with part a job, that job alone and every connection,
\* but no honest one beside the faulty one that has the job: it would have nothing to do
\* with it.  The channel holds BufCap events for a job of an honest connection by itself,
\* and one otherwise.
VARIABLE part

OneToken == INSTANCE Relay WITH MaxTokens <- 1, BufCap <- 1
OneRoom  == INSTANCE Relay WITH BufCap <- 1

NextOfPart ==
  \/ /\ part = None /\ OneToken!Next
     /\ \A c \in Faulty : hub'[c] = "none" /\ up'[c] = <<>>
     /\ \A i, j \in Jobs : caller'[i] = "left" /\ caller'[j] = "left" => i = j
  \/ /\ part \in Jobs
     /\ \/ Next /\ prov'[part] \notin Faulty
        \/ OneRoom!Next /\ prov'[part] \in Faulty /\ \A c \in Honest : hub'[c] = "none"
     /\ \A j \in Jobs \ {part} :
          /\ pc'[j] = "idle"
          /\ \A c \in Conns : \A i \in 1 .. Len(up'[c]) : up'[c][i].job # j

InitOfPart == Init /\ part \in Jobs \cup {None}
SpecOfPart == InitOfPart /\ [][NextOfPart /\ part' = part]_<<vars, part>>

Symmetric == Permutations(Jobs) \cup Permutations(Honest)
================================================================================
