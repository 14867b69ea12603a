---------------------------- MODULE MCConfigStore ----------------------------
(* Two concurrent requests and two versions, so that a rollback may return to *)
(* an older version while another request publishes, rolls back or polls.     *)
EXTENDS ConfigStore
=============================================================================
