--------------------------- MODULE MCProvisioning ----------------------------
(***************************************************************************)
(* An instance of Provisioning for TLC: two seeds and a valid              *)
(* configuration that accepts both channels.                               *)
(***************************************************************************)
EXTENDS Provisioning, TLC

Configured ==
  [network |-> "mainnet", token |-> "token", secret |-> "", maxAttempts |-> 1,
   expiry |-> 60, accept |-> "both"]
==============================================================================
