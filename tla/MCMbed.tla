------------------------------- MODULE MCMbed -------------------------------
(* Instances of MbedCryptoProvider for TLC. *)
EXTENDS MbedCryptoProvider
=============================================================================
