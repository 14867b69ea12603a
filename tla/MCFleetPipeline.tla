-------------------------- MODULE MCFleetPipeline --------------------------
(* Three events.  One batch repeats an event, and both batches hold one; the *)
(* memory has room for two ids, so that eviction and a repetition after it   *)
(* happen, and the channel for one event, so that events are shed.           *)
EXTENDS FleetPipeline
CONSTANTS e1, e2, e3

MCBatches == {<<e1, e2>>, <<e3, e3, e1>>}
=============================================================================
