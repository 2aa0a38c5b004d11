------------------------------ MODULE MCWorker ------------------------------
(* Instances of Worker: small sets of pods, threads and deployments.       *)
EXTENDS Worker, TLC

CONSTANTS p1, p2, s1, s2, d1, d2, proj

\* Both deployments belong to one project, so that they compete for the index.
OneProject == [d \in Deployment |-> proj]

\* Pods, executor threads, and the deployments of the one project are
\* interchangeable.
Symmetry == Permutations(Pod) \cup Permutations(Slot) \cup Permutations(Deployment)
=============================================================================
