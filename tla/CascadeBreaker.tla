--------------------------- MODULE CascadeBreaker ---------------------------
(***************************************************************************)
(* The circuit breakers of the fleet cascade: kill switch, depth limit,    *)
(* cooldown and device budget.  CheckAll holds the read lock of the        *)
(* breaker state from its first test to the end, and takes the mutex of    *)
(* the budget only for its last one, so a call is two steps: "check" and   *)
(* "reserve".  The operators and handlers of the other operations run in   *)
(* between, as far as the locks let them.                                  *)
(***************************************************************************)
EXTENDS Integers, FiniteSets

CONSTANTS
  Callers,      \* goroutines that evaluate the breakers
  Chains,       \* cascade chains
  Keys,         \* trigger type and cohort, the key of a cooldown
  MaxRequest,   \* a call targets 1 .. MaxRequest devices (bound)
  MaxDepth,     \* cfg.MaxCascadeDepth
  MaxPercent,   \* maxPercent of NewBudgetManager
  MaxAbsolute,  \* maxAbsolute of NewBudgetManager
  FleetSizes,   \* the sizes the fleet may have; 0 is "not known"
  Cooldown,     \* the length of a cooldown
  MaxClock      \* the clock stops here (bound)

ASSUME SetsAssumption == Chains # {} /\ Keys # {} /\ FleetSizes \subseteq Nat
ASSUME LimitsAssumption ==
  MaxRequest \in Nat \ {0} /\ MaxDepth \in Nat /\ MaxPercent \in Nat /\ MaxAbsolute \in Nat
ASSUME TimesAssumption == Cooldown \in Nat /\ MaxClock \in Nat \ {0}

VARIABLES
  clock,
  killSwitch,
  cooldowns,       \* cooldowns[k] : when the cooldown of k expires, 0 if it has none
  devicesAffected, \* devicesAffected[c] : what chain c has reserved, 0 if nothing
  fleetSize,
  pc,              \* pc[g] : "idle", "check" or "reserve"
  call,            \* call[g] : the arguments of CheckAll
  granted          \* history: what the calls that passed have been granted, by chain

vars == <<clock, killSwitch, cooldowns, devicesAffected, fleetSize, pc, call, granted>>

budgetVars == <<devicesAffected, fleetSize, granted>>
breakerVars == <<killSwitch, cooldowns>>
callVars == <<pc, call>>

Calls == [chain : Chains, devices : 1 .. MaxRequest, depth : 0 .. MaxDepth, key : Keys]

\* NewBreakerState and NewBudgetManager(25.0, 10000, 0).
Init ==
  /\ clock = 1
  /\ killSwitch = FALSE
  /\ cooldowns = [k \in Keys |-> 0]
  /\ devicesAffected = [c \in Chains |-> 0]
  /\ fleetSize = 0
  /\ pc = [g \in Callers |-> "idle"]
  /\ call \in [Callers -> {CHOOSE r \in Calls : TRUE}]
  /\ granted = [c \in Chains |-> 0]

\* The sum of the reservations: how many devices are reserved, those of a chain
\* counted from 1.
Reserved(affected) == UNION {{c} \X (1 .. affected[c]) : c \in Chains}

Total(affected) == Cardinality(Reserved(affected))

\* Whether the budget has room for total devices.
Fits(total) ==
  /\ fleetSize > 0 => total * 100 <= MaxPercent * fleetSize
  /\ total <= MaxAbsolute

\* bs.mu : CheckAll holds the read lock between its two steps.
NoReader == \A g \in Callers : pc[g] # "reserve"

Tick ==
  /\ clock < MaxClock
  /\ clock' = clock + 1
  /\ UNCHANGED <<breakerVars, budgetVars, callVars>>

-----------------------------------------------------------------------------
Call(g, r) ==
  /\ pc[g] = "idle"
  /\ call' = [call EXCEPT ![g] = r]
  /\ pc' = [pc EXCEPT ![g] = "check"]
  /\ UNCHANGED <<clock, breakerVars, budgetVars>>

\* The three tests before the budget, in the order of the code.
Passes(r) ==
  /\ ~killSwitch
  /\ r.depth < MaxDepth
  /\ cooldowns[r.key] <= clock

\* Mutation: the budget is reserved before the other tests.
ReserveFirst(g) ==
  /\ pc[g] = "check"
  /\ IF Fits(Total(devicesAffected) + call[g].devices)
     THEN devicesAffected' = [devicesAffected EXCEPT ![call[g].chain] = @ + call[g].devices]
     ELSE UNCHANGED devicesAffected
  /\ pc' = [pc EXCEPT ![g] = IF Passes(call[g]) THEN "reserve" ELSE "idle"]
  /\ UNCHANGED <<clock, breakerVars, fleetSize, granted, call>>

\* CheckAll takes the read lock; a call that fails a test returns.
Check(g) ==
  /\ pc[g] = "check"
  /\ pc' = [pc EXCEPT ![g] = IF Passes(call[g]) THEN "reserve" ELSE "idle"]
  /\ UNCHANGED <<clock, breakerVars, budgetVars, call>>

\* Mutation: only the devices already affected are held against the limits.
ReserveLate(g) ==
  /\ pc[g] = "reserve"
  /\ IF Fits(Total(devicesAffected))
     THEN /\ devicesAffected' = [devicesAffected EXCEPT ![call[g].chain] = @ + call[g].devices]
          /\ granted' = [granted EXCEPT ![call[g].chain] = @ + call[g].devices]
     ELSE UNCHANGED <<devicesAffected, granted>>
  /\ pc' = [pc EXCEPT ![g] = "idle"]
  /\ UNCHANGED <<clock, breakerVars, fleetSize, call>>

\* budget.Reserve, and CheckAll returns its result.
Reserve(g) ==
  /\ pc[g] = "reserve"
  /\ IF Fits(Total(devicesAffected) + call[g].devices)
     THEN /\ devicesAffected' = [devicesAffected EXCEPT ![call[g].chain] = @ + call[g].devices]
          /\ granted' = [granted EXCEPT ![call[g].chain] = @ + call[g].devices]
     ELSE UNCHANGED <<devicesAffected, granted>>
  /\ pc' = [pc EXCEPT ![g] = "idle"]
  /\ UNCHANGED <<clock, breakerVars, fleetSize, call>>

\* Mutation: one call's worth is given back, not the chain's.
ReleaseOneCall(c) ==
  /\ devicesAffected[c] > 0
  /\ devicesAffected' = [devicesAffected EXCEPT ![c] = @ - MaxRequest]
  /\ granted' = [granted EXCEPT ![c] = 0]
  /\ UNCHANGED <<clock, breakerVars, callVars, fleetSize>>

\* budget.Release: the chain is over.
Release(c) ==
  /\ devicesAffected[c] > 0
  /\ devicesAffected' = [devicesAffected EXCEPT ![c] = 0]
  /\ granted' = [granted EXCEPT ![c] = 0]
  /\ UNCHANGED <<clock, breakerVars, callVars, fleetSize>>

UpdateFleetSize(n) ==
  /\ fleetSize' = n
  /\ UNCHANGED <<clock, breakerVars, callVars, devicesAffected, granted>>

-----------------------------------------------------------------------------
SetCooldown(k) ==
  /\ NoReader
  /\ cooldowns' = [cooldowns EXCEPT ![k] = clock + Cooldown]
  /\ UNCHANGED <<clock, killSwitch, budgetVars, callVars>>

\* Mutation: the switch is an unlocked flag.
EngageUnlocked ==
  /\ killSwitch' = TRUE
  /\ UNCHANGED <<clock, cooldowns, budgetVars, callVars>>

\* POST of the kill switch: it waits for the calls that are being evaluated.
EngageKillSwitch ==
  /\ NoReader
  /\ killSwitch' = TRUE
  /\ UNCHANGED <<clock, cooldowns, budgetVars, callVars>>

\* POST of the resume switch.
DisengageKillSwitch ==
  /\ NoReader
  /\ killSwitch' = FALSE
  /\ UNCHANGED <<clock, cooldowns, budgetVars, callVars>>

\* The gateway restarts.  Nothing of this state is persisted.
Restart ==
  /\ killSwitch' = FALSE
  /\ cooldowns' = [k \in Keys |-> 0]
  /\ devicesAffected' = [c \in Chains |-> 0]
  /\ fleetSize' = 0
  /\ pc' = [g \in Callers |-> "idle"]
  /\ granted' = [c \in Chains |-> 0]
  /\ UNCHANGED <<clock, call>>

CheckAll(g) == (\E r \in Calls : Call(g, r)) \/ Check(g) \/ Reserve(g)

Next ==
  \/ Tick
  \/ \E g \in Callers : CheckAll(g)
  \/ \E c \in Chains : Release(c)
  \/ \E n \in FleetSizes : UpdateFleetSize(n)
  \/ \E k \in Keys : SetCooldown(k)
  \/ EngageKillSwitch \/ DisengageKillSwitch
  \/ Restart

Spec == Init /\ [][Next]_vars
-----------------------------------------------------------------------------
\* The types of the breaker state and of the calls under way.
TypeOK ==
  /\ clock \in 1 .. MaxClock
  /\ killSwitch \in BOOLEAN
  /\ cooldowns \in [Keys -> 0 .. MaxClock + Cooldown]
  /\ devicesAffected \in [Chains -> Nat]
  /\ fleetSize \in FleetSizes \cup {0}
  /\ pc \in [Callers -> {"idle", "check", "reserve"}]
  /\ call \in [Callers -> Calls]
  /\ granted \in [Chains -> Nat]

\* However many chains reserve at once, no reservation is granted that leaves
\* the devices affected above the absolute limit or above the percentage of
\* the fleet known by then; a shrinking fleet can leave the budget overdrawn.
GrantsFitFleet ==
  [][Total(devicesAffected') > Total(devicesAffected) =>
       /\ Total(devicesAffected') <= MaxAbsolute
       /\ fleetSize > 0 => Total(devicesAffected') * 100 <= MaxPercent * fleetSize]_vars

\* Once the kill switch is engaged no budget is handed out, not even to a
\* call that found it disengaged a moment ago; the same holds of a cooldown.
NothingGrantedWhenHalted ==
  [][\A g \in Callers :
       granted'[call[g].chain] > granted[call[g].chain] /\ pc[g] = "reserve" /\ pc'[g] = "idle"
         => ~killSwitch /\ cooldowns[call[g].key] <= clock]_vars

\* A call that was refused has cost no budget: the reservations are exactly
\* what the calls that passed were granted since their chain was released.
RefusalsAreFree == devicesAffected = granted
=============================================================================
