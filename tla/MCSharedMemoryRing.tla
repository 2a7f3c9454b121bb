-------------------------- MODULE MCSharedMemoryRing ---------------------------
(* SharedMemoryRing for TLC, with the processes of one of Teams started.   *)
EXTENDS SharedMemoryRing

CONSTANTS p1, p2, c1, c2

MCProducers == {p1, p2}
MCConsumers == {c1, c2}
Teams == {{p1, p2, c1}, {p1, c1, c2}}

Team == {p \in Producers : pPc[p] = "idle"} \cup {c \in Consumers : cPc[c] = "tick"}

MCInit == Init /\ Team \in Teams

MCSpec == MCInit /\ [][Next]_vars /\ Fairness
================================================================================
