-------------------------- MODULE MCCascadeBreaker --------------------------
(* Two callers, two chains and one cooldown key; a fleet of four devices of  *)
(* which half may be affected, and never more than three devices.            *)
EXTENDS CascadeBreaker
=============================================================================
