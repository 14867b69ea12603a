---------------------------- MODULE MCFleetRules ----------------------------
(* Three devices in one cohort, one of them sending twice, and an event of   *)
(* another cohort with the same trigger type.  One second is two time units. *)
EXTENDS FleetRules
CONSTANTS d1, d2, d3

Sent == <<[device |-> d1, cohort |-> "a", at |-> 4],
          [device |-> d2, cohort |-> "a", at |-> 5],
          [device |-> d1, cohort |-> "a", at |-> 1],
          [device |-> d3, cohort |-> "b", at |-> 5]>>
MCEvents == DOMAIN Sent
MCDevice == [e \in MCEvents |-> Sent[e].device]
MCStamp == [e \in MCEvents |-> Sent[e].at]
MCKey == [e \in MCEvents |-> [cohort |-> Sent[e].cohort, trigger |-> "crash"]]
MCRules ==
  {[type |-> t, cohort |-> "a", trigger |-> "crash", limit |-> 2, enabled |-> TRUE]
     : t \in {"fleet_threshold", "fleet_rate"}}
    \cup {[type |-> "fleet_threshold", cohort |-> "b", trigger |-> "crash", limit |-> 1,
           enabled |-> FALSE]}
=============================================================================
