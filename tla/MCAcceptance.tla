---------------------------- MODULE MCAcceptance ----------------------------
(* One run of the suite next to two runs against the emulator.               *)
EXTENDS Acceptance

MCDeaf == {"ui"}
=============================================================================
