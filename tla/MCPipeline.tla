------------------------------ MODULE MCPipeline ------------------------------
(* A small instance of Pipeline.                                           *)
EXTENDS Pipeline

CONSTANTS a1, w1, s1, d1, proj

OneProject == [d \in Deployment |-> proj]

\* The types of both sides.
TypeOK == API!TypeOK /\ Pods!TypeOK
=============================================================================
