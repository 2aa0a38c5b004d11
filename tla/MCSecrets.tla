------------------------------- MODULE MCSecrets -------------------------------
(* A small instance of Secrets for TLC; requests and keys are model values. *)
EXTENDS Secrets
================================================================================
