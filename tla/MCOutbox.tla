------------------------------- MODULE MCOutbox -------------------------------
(* Small instances of Outbox for TLC.                                      *)
EXTENDS Outbox

CONSTANTS a1, a2, p1, p2, d1, d2, d3

\* d1 and d2 are requests for one project, d3 for another one.
MCProjectOf == [d \in Deployment |-> IF d = d3 THEN p2 ELSE p1]

\* Processes are interchangeable: the first request arrives at the first one.
MCInit == Init /\ home[d1] = a1
MCSpec == MCInit /\ [][Next]_vars /\ Fairness
=============================================================================
