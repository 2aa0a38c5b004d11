----------------------------- MODULE AtLeastOnce -----------------------------
(***************************************************************************)
(* What the transactional outbox promises to create_deployment and         *)
(* rollback_deployment: a message that was accepted is delivered, once or  *)
(* more often, in no particular order, and nothing else is delivered.      *)
(***************************************************************************)
CONSTANT Message

VARIABLES accepted, delivered

vars == <<accepted, delivered>>

TypeOK == accepted \subseteq Message /\ delivered \subseteq accepted

Init == accepted = {} /\ delivered = {}

Accept(m) == /\ m \notin accepted
             /\ accepted' = accepted \cup {m}
             /\ UNCHANGED delivered

\* Messages travel in batches; to deliver one again changes nothing here.
DeliverBatch(S) == /\ S \subseteq accepted
                   /\ delivered' = delivered \cup S
                   /\ UNCHANGED accepted

Deliver(m) == \E S \in SUBSET Message : m \in S \ delivered /\ DeliverBatch(S)

Next == \E m \in Message : Accept(m) \/ Deliver(m)

Spec == Init /\ [][Next]_vars /\ \A m \in Message : WF_vars(Deliver(m))
=============================================================================
