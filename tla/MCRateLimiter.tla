--------------------------- MODULE MCRateLimiter ---------------------------
(* Two clients, two requests in two units of time, three windows in a run.  *)
EXTENDS RateLimiter
=============================================================================
