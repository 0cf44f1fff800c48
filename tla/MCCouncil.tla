--------------------------------- MODULE MCCouncil ---------------------------------
(* The instance that TLC checks: two requests, two workloads and the demo, three fleets. *)
EXTENDS Council, TLC

Workload == [model |-> "m", class |-> "MICRO", hw |-> "MICRO", tier |-> "community", items |-> 2,
             prompt |-> 100, completion |-> 50, redundancy |-> 1, spot |-> FALSE, cap |-> 0]

\* Tiny items in spot, at the floor of the price, which is their cap, and so many that all
\* seats vote; and a replicated workload above its cap.
Tiny == [Workload EXCEPT !.items = 5000, !.prompt = 0, !.completion = 11, !.tier = "confidential",
                         !.spot = TRUE, !.cap = 10000]
Dear == [Workload EXCEPT !.items = 1000, !.redundancy = 2, !.cap = 10000]
MCShapes == {Tiny, Dear}
MCDemo == [Workload EXCEPT !.items = 1, !.prompt = 300, !.completion = 160]

Device == [models |-> {"m"}, tier |-> "community", class |-> "SMALL", context |-> 0,
           draining |-> FALSE]
Leaving == [Device EXCEPT !.draining = TRUE]
MCFleets == {{}, {Leaving}, {Device, Leaving, [Device EXCEPT !.tier = "confidential"]}}

\* A block of an odd severity, and no answer.
MCReplies == {Vote("BLOCK", "odd"), Vote("none", "none")}

MCSymmetry == Permutations(Requests)
===================================================================================
