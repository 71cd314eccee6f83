-------------------------- MODULE MCIntegrationSync --------------------------
(* A small instance of IntegrationSync for TLC. *)
EXTENDS IntegrationSync
=============================================================================
