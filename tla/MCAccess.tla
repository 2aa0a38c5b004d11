-------------------------------- MODULE MCAccess --------------------------------
(* A small instance of Access for TLC; processes, requests and users are     *)
(* model values.                                                             *)
EXTENDS Access
================================================================================
