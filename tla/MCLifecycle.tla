------------------------------ MODULE MCLifecycle ------------------------------
(* Small instances of Lifecycle for TLC; the replicas are model values.    *)
EXTENDS Lifecycle
================================================================================
