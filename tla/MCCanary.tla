------------------------------ MODULE MCCanary ------------------------------
(* Canary and CanNoInt on small controllers; the constants are in the cfg. *)
EXTENDS CanaryProps
=============================================================================
