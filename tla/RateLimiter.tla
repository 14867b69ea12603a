---------------------------- MODULE RateLimiter ----------------------------
(***************************************************************************)
(* The sliding-window limiter in front of every handler of the gateway.    *)
(* Allow and the sweep of the cleanup goroutine each hold the mutex from   *)
(* start to end, so each is one step.                                      *)
(***************************************************************************)
EXTENDS Integers, Sequences

CONSTANTS
  Clients,   \* client addresses
  Limit,     \* requests allowed ...
  Window,    \* ... in this time
  MaxNow,    \* the clock stops here (bound)
  MaxRefused \* a client gives up after this many refusals (bound)

ASSUME LimitAssumption == Limit \in Nat \ {0} /\ Window \in Nat /\ MaxNow \in Nat
ASSUME MaxRefusedAssumption == MaxRefused \in Nat

VARIABLES
  now,       \* time.Now()
  counts,    \* counts[k] : the timestamps kept for k; <<>> if the map has no k
  swept,     \* when the cleanup ticker last fired
  accepted,  \* history: accepted[k] : when requests of k were let through
  refused    \* history: refused[k] : how many were not

limiterVars == <<now, counts, swept, accepted, refused>>

LimiterInit ==
  /\ now = 0
  /\ counts = [k \in Clients |-> <<>>]
  /\ swept = 0
  /\ accepted = [k \in Clients |-> <<>>]
  /\ refused = [k \in Clients |-> 0]

\* The ticker is late by as much as one unit at most.
LimiterTick ==
  /\ now < MaxNow
  /\ now <= swept + 2 * Window
  /\ now' = now + 1
  /\ UNCHANGED <<counts, swept, accepted, refused>>

\* The loop that skips expired timestamps stops after n of s.
Expires(s, n) ==
  /\ \A i \in 1 .. n : s[i] < now - Window
  /\ n < Len(s) => s[n + 1] >= now - Window

Rest(s, n) == SubSeq(s, n + 1, Len(s))

\* Mutation: the expired entries are counted.
AllowStale(k) ==
  /\ refused[k] < MaxRefused
  /\ IF Len(counts[k]) >= Limit
     THEN /\ refused' = [refused EXCEPT ![k] = @ + 1]
          /\ UNCHANGED <<counts, accepted>>
     ELSE /\ counts' = [counts EXCEPT ![k] = Append(@, now)]
          /\ accepted' = [accepted EXCEPT ![k] = Append(@, now)]
          /\ UNCHANGED refused
  /\ UNCHANGED <<now, swept>>

\* Mutation: refused above the limit, not at it.
AllowOneMore(k) ==
  /\ refused[k] < MaxRefused
  /\ \E n \in 0 .. Len(counts[k]) :
       /\ Expires(counts[k], n)
       /\ IF Len(Rest(counts[k], n)) > Limit
          THEN /\ counts' = [counts EXCEPT ![k] = Rest(@, n)]
               /\ refused' = [refused EXCEPT ![k] = @ + 1]
               /\ UNCHANGED accepted
          ELSE /\ counts' = [counts EXCEPT ![k] = Append(Rest(@, n), now)]
               /\ accepted' = [accepted EXCEPT ![k] = Append(@, now)]
               /\ UNCHANGED refused
  /\ UNCHANGED <<now, swept>>

Allow(k) ==
  /\ refused[k] < MaxRefused
  /\ \E n \in 0 .. Len(counts[k]) :
       LET timestamps == Rest(counts[k], n)
       IN  /\ Expires(counts[k], n)
           /\ IF Len(timestamps) >= Limit
              THEN /\ counts' = [counts EXCEPT ![k] = timestamps]
                   /\ refused' = [refused EXCEPT ![k] = @ + 1]
                   /\ UNCHANGED accepted
              ELSE /\ counts' = [counts EXCEPT ![k] = Append(timestamps, now)]
                   /\ accepted' = [accepted EXCEPT ![k] = Append(@, now)]
                   /\ UNCHANGED refused
  /\ UNCHANGED <<now, swept>>

\* Mutation: stale keys are swept with what they still count.
SweepAll ==
  /\ now >= swept + 2 * Window
  /\ counts' = [k \in Clients |-> <<>>]
  /\ swept' = now
  /\ UNCHANGED <<now, accepted, refused>>

\* One round of cleanupLoop.
Sweep ==
  /\ now >= swept + 2 * Window
  /\ \E n \in [Clients -> 0 .. Limit] :
       /\ \A k \in Clients : n[k] <= Len(counts[k]) /\ Expires(counts[k], n[k])
       /\ counts' = [k \in Clients |-> Rest(counts[k], n[k])]
  /\ swept' = now
  /\ UNCHANGED <<now, accepted, refused>>

LimiterNext == LimiterTick \/ (\E k \in Clients : Allow(k)) \/ Sweep

LimiterSpec == LimiterInit /\ [][LimiterNext]_limiterVars
-----------------------------------------------------------------------------
\* The types; the map never holds more than Limit timestamps of one client.
LimiterTypeOK ==
  /\ now \in Nat /\ swept \in Nat
  /\ counts \in [Clients -> Seq(Nat)]
  /\ \A k \in Clients : Len(counts[k]) <= Limit
  /\ accepted \in [Clients -> Seq(Nat)]
  /\ refused \in [Clients -> Nat]

\* New: "allowing [limit] requests per [window] per key".  Of Limit + 1
\* consecutive requests that were let through, the last came more than a
\* window after the first, wherever the sweeps fell.
NeverOver ==
  \A k \in Clients : \A i \in DOMAIN accepted[k] :
    i + Limit \in DOMAIN accepted[k] => accepted[k][i + Limit] > accepted[k][i] + Window

\* A request is refused only if Limit requests of that client were let
\* through in the window that ends now.
RefusedWithReason ==
  [][\A k \in Clients :
       refused'[k] # refused[k] =>
         /\ Len(accepted[k]) >= Limit
         /\ \A i \in 1 .. Limit :
              accepted[k][Len(accepted[k]) - Limit + i] >= now - Window]_limiterVars
=============================================================================
