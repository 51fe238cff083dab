----------------------------- MODULE MCProvider -----------------------------
(* Every client, with two retries instead of eight: see the .cfg file.     *)
EXTENDS Provider
=============================================================================
