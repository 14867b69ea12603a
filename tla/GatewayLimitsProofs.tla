------------------------ MODULE GatewayLimitsProofs ------------------------
(***************************************************************************)
(* The two limits of the gateway that are kept in memory: the breakers of  *)
(* the cascade, and the limiter in front of the handlers.  They share no   *)
(* state.                                                                  *)
(*                                                                         *)
(* The halts of the cascade and the limits of its budget hold for any      *)
(* number of callers, chains and cooldowns.  The point of the invariant is *)
(* the lock: a call between its tests and its reservation keeps the read   *)
(* lock, so what it tested is still so when it reserves.                   *)
(*                                                                         *)
(* The limiter keeps its promise for every limit, window and number of     *)
(* clients.  The inductive invariant says what the map holds: the last of  *)
(* the accepted timestamps, of which only expired ones are missing.        *)
(***************************************************************************)
EXTENDS CascadeBreaker, RateLimiter, FiniteSetTheorems, SequenceTheorems, TLAPS

\* A call that has passed its tests would pass them again.
StillPasses == \A g \in Callers : pc[g] = "reserve" => Passes(call[g])

IInv == TypeOK /\ StillPasses

\* What CheckAll is called with.
LEMMA CallFields ==
  ASSUME NEW r \in Calls
  PROVE  /\ r.chain \in Chains /\ r.devices \in Nat /\ r.depth \in Nat /\ r.key \in Keys
BY LimitsAssumption DEF Calls, LimitsAssumption

\* There is a call to start from.
LEMMA SomeCall == (CHOOSE r \in Calls : TRUE) \in Calls
<1>1. PICK c \in Chains, k \in Keys : TRUE
  BY SetsAssumption DEF SetsAssumption
<1>2. [chain |-> c, devices |-> 1, depth |-> 0, key |-> k] \in Calls
  BY LimitsAssumption DEF Calls, LimitsAssumption
<1> QED  BY <1>2

\* The breakers start with nothing halted, reserved or called.
LEMMA InitInv == Init => IInv
<1> SUFFICES ASSUME Init PROVE IInv
  OBVIOUS
<1>1. TypeOK
  <2>1. call \in [Callers -> Calls]
    BY SomeCall DEF Init
  <2>2. clock \in 1 .. MaxClock /\ cooldowns \in [Keys -> 0 .. MaxClock + Cooldown]
    BY TimesAssumption DEF Init, TimesAssumption
  <2>3. devicesAffected \in [Chains -> Nat] /\ granted \in [Chains -> Nat]
    BY DEF Init
  <2>4. pc \in [Callers -> {"idle", "check", "reserve"}]
    BY DEF Init
  <2> QED  BY <2>1, <2>2, <2>3, <2>4 DEF Init, TypeOK
<1>2. StillPasses
  BY DEF Init, StillPasses
<1> QED  BY <1>1, <1>2 DEF IInv

\* The types survive the steps of CheckAll.
LEMMA CallTypes == ASSUME TypeOK, NEW g \in Callers, CheckAll(g) PROVE TypeOK'
<1>1. CASE \E r \in Calls : Call(g, r)
  BY <1>1 DEF TypeOK, Call, breakerVars, budgetVars
<1>2. CASE Check(g)
  BY <1>2 DEF TypeOK, Check, breakerVars, budgetVars
<1>3. CASE Reserve(g)
  <2>1. call[g] \in Calls
    BY DEF TypeOK
  <2>2. call[g].chain \in Chains /\ call[g].devices \in Nat
    BY <2>1, CallFields
  <2>3. devicesAffected' \in [Chains -> Nat] /\ granted' \in [Chains -> Nat]
    BY <1>3, <2>2 DEF TypeOK, Reserve
  <2> QED  BY <1>3, <2>3 DEF TypeOK, Reserve, breakerVars
<1> QED  BY <1>1, <1>2, <1>3 DEF CheckAll

\* The types survive the other operations.
LEMMA TypeStep == TypeOK /\ [Next]_vars => TypeOK'
<1> SUFFICES ASSUME TypeOK, [Next]_vars PROVE TypeOK'
  OBVIOUS
<1> USE DEF TypeOK, breakerVars, budgetVars, callVars
<1>1. CASE Tick
  BY <1>1, TimesAssumption DEF Tick, TimesAssumption
<1>2. ASSUME NEW g \in Callers, CheckAll(g) PROVE TypeOK'
  BY <1>2, CallTypes
<1>3. ASSUME NEW c \in Chains, Release(c) PROVE TypeOK'
  BY <1>3 DEF Release
<1>4. ASSUME NEW n \in FleetSizes, UpdateFleetSize(n) PROVE TypeOK'
  BY <1>4 DEF UpdateFleetSize
<1>5. ASSUME NEW k \in Keys, SetCooldown(k) PROVE TypeOK'
  BY <1>5, TimesAssumption DEF SetCooldown, TimesAssumption
<1>6. CASE EngageKillSwitch \/ DisengageKillSwitch
  BY <1>6 DEF EngageKillSwitch, DisengageKillSwitch
<1>7. CASE Restart
  <2>1. cooldowns' \in [Keys -> 0 .. MaxClock + Cooldown]
    BY <1>7, TimesAssumption DEF Restart, TimesAssumption
  <2>2. devicesAffected' \in [Chains -> Nat] /\ granted' \in [Chains -> Nat]
    BY <1>7 DEF Restart
  <2>3. pc' \in [Callers -> {"idle", "check", "reserve"}]
    BY <1>7 DEF Restart
  <2> QED  BY <1>7, <2>1, <2>2, <2>3 DEF Restart
<1>8. CASE UNCHANGED vars
  BY <1>8 DEF vars
<1> QED  BY <1>1, <1>2, <1>3, <1>4, <1>5, <1>6, <1>7, <1>8 DEF Next

\* A caller's own step leaves what the calls under way tested untouched.
LEMMA CallKeeps == ASSUME IInv, NEW h \in Callers, CheckAll(h) PROVE StillPasses'
<1> USE DEF IInv, TypeOK
<1> SUFFICES ASSUME NEW g \in Callers, pc'[g] = "reserve" PROVE Passes(call[g])'
  BY DEF StillPasses
<1>1. killSwitch' = killSwitch /\ cooldowns' = cooldowns /\ clock' = clock
  BY DEF CheckAll, Call, Check, Reserve, breakerVars
<1>2. CASE \E r \in Calls : Call(h, r)
  <2>1. g # h /\ pc[g] = "reserve" /\ call'[g] = call[g]
    BY <1>2 DEF Call
  <2> QED  BY <1>1, <2>1 DEF StillPasses, Passes
<1>3. CASE Check(h)
  <2>1. call' = call
    BY <1>3 DEF Check
  <2>2. Passes(call[g])
    BY <1>3 DEF Check, StillPasses
  <2> QED  BY <1>1, <2>1, <2>2 DEF Passes
<1>4. CASE Reserve(h)
  <2>1. g # h /\ pc[g] = "reserve" /\ call' = call
    BY <1>4 DEF Reserve
  <2> QED  BY <1>1, <2>1 DEF StillPasses, Passes
<1> QED  BY <1>2, <1>3, <1>4 DEF CheckAll

\* No step leaves the invariant: the writers wait for the readers, and time
\* only ends cooldowns.
LEMMA NextInv == IInv /\ [Next]_vars => IInv'
<1> SUFFICES ASSUME IInv, [Next]_vars PROVE StillPasses'
  BY TypeStep DEF IInv
<1>1. CASE Tick
  <2>1. call' = call /\ pc' = pc /\ killSwitch' = killSwitch /\ cooldowns' = cooldowns
    BY <1>1 DEF Tick, breakerVars, callVars
  <2>2. clock \in Int /\ clock' = clock + 1
    BY <1>1 DEF Tick, IInv, TypeOK
  <2>3. \A g \in Callers : cooldowns[call[g].key] \in Int
    BY CallFields DEF IInv, TypeOK
  <2> QED  BY <2>1, <2>2, <2>3 DEF IInv, StillPasses, Passes
<1>2. ASSUME NEW g \in Callers, CheckAll(g) PROVE StillPasses'
  BY <1>2, CallKeeps
<1>3. ASSUME NEW c \in Chains, Release(c) PROVE StillPasses'
  BY <1>3 DEF Release, IInv, StillPasses, Passes, breakerVars, callVars
<1>4. ASSUME NEW n \in FleetSizes, UpdateFleetSize(n) PROVE StillPasses'
  BY <1>4 DEF UpdateFleetSize, IInv, StillPasses, Passes, breakerVars, callVars
<1>5. ASSUME NEW k \in Keys, SetCooldown(k) PROVE StillPasses'
  BY <1>5 DEF SetCooldown, NoReader, StillPasses, callVars
<1>6. CASE EngageKillSwitch \/ DisengageKillSwitch
  BY <1>6 DEF EngageKillSwitch, DisengageKillSwitch, NoReader, StillPasses, callVars
<1>7. CASE Restart
  BY <1>7 DEF Restart, StillPasses
<1>8. CASE UNCHANGED vars
  BY <1>8 DEF vars, IInv, StillPasses, Passes
<1> QED  BY <1>1, <1>2, <1>3, <1>4, <1>5, <1>6, <1>7, <1>8 DEF Next

\* The breaker state keeps its types.
THEOREM TypeCorrect == Spec => []TypeOK
BY InitInv, NextInv, PTL DEF Spec, IInv

\* No reservation is granted while the kill switch is engaged or the cooldown
\* of the trigger runs, not even to a call that passed its tests before.
THEOREM HaltsHold == Spec => NothingGrantedWhenHalted
<1> DEFINE Halted(g) ==
      granted'[call[g].chain] > granted[call[g].chain] /\ pc[g] = "reserve" /\ pc'[g] = "idle"
        => ~killSwitch /\ cooldowns[call[g].key] <= clock
<1>1. IInv /\ [Next]_vars => [\A g \in Callers : Halted(g)]_vars
  BY DEF IInv, StillPasses, Passes
<1> QED  BY <1>1, InitInv, NextInv, PTL DEF Spec, NothingGrantedWhenHalted

\* A refused call has no effect on the budget, whichever test refused it.
THEOREM RefusalsCostNothing == Spec => []RefusalsAreFree
<1>1. Init => RefusalsAreFree
  BY DEF Init, RefusalsAreFree
<1>2. RefusalsAreFree /\ [Next]_vars => RefusalsAreFree'
  BY DEF RefusalsAreFree, Next, vars, Tick, CheckAll, Call, Check, Reserve, Release,
         UpdateFleetSize, SetCooldown, EngageKillSwitch, DisengageKillSwitch, Restart, budgetVars
<1> QED  BY <1>1, <1>2, PTL DEF Spec

-----------------------------------------------------------------------------
\* Finitely many devices are reserved, as finitely many calls were made.
FinitelyReserved == IsFiniteSet(Reserved(devicesAffected))

\* A chain that reserves more adds as many devices as it asks for.
LEMMA ReserveMore ==
  ASSUME NEW f \in [Chains -> Nat], IsFiniteSet(Reserved(f)), NEW c \in Chains, NEW n \in Nat
  PROVE  LET g == [f EXCEPT ![c] = @ + n]
         IN  IsFiniteSet(Reserved(g)) /\ Total(g) = Total(f) + n
<1> DEFINE g == [f EXCEPT ![c] = @ + n]
           new == {c} \X (f[c] + 1 .. f[c] + n)
<1>1. f[c] \in Nat /\ g \in [Chains -> Nat] /\ g[c] = f[c] + n
  OBVIOUS
<1>2. \A d \in Chains : d # c => g[d] = f[d]
  OBVIOUS
<1>3. IsFiniteSet(new) /\ Cardinality(new) = n
  <2>1. /\ IsFiniteSet(f[c] + 1 .. f[c] + n)
        /\ Cardinality(f[c] + 1 .. f[c] + n) = n
    <3> DEFINE a == f[c] + 1
               b == f[c] + n
    <3>1. a \in Int /\ b \in Int /\ (IF a > b THEN 0 ELSE b - a + 1) = n
      BY <1>1
    <3> HIDE DEF a, b
    <3>2. IsFiniteSet(a .. b) /\ Cardinality(a .. b) = n
      BY <3>1, FS_Interval
    <3> QED  BY <3>2 DEF a, b
  <2>2. IsFiniteSet({c}) /\ Cardinality({c}) = 1
    BY FS_Singleton
  <2>3. IsFiniteSet(new) /\ Cardinality(new) = 1 * n
    BY <2>1, <2>2, FS_Product
  <2> QED  BY <2>3
<1>4. \A x : x \in Reserved(f) <=> \E d \in Chains : x \in {d} \X (1 .. f[d])
  BY DEF Reserved
<1>5. \A x : x \in Reserved(g) <=> \E d \in Chains : x \in {d} \X (1 .. g[d])
  BY DEF Reserved
<1> HIDE DEF g
<1>6. Reserved(g) = Reserved(f) \cup new
  <2>1. 1 .. g[c] = (1 .. f[c]) \cup (f[c] + 1 .. f[c] + n)
    BY <1>1
  <2>2. ASSUME NEW x
        PROVE  x \in Reserved(g) <=> x \in Reserved(f) \cup new
    <3>1. x \in {c} \X (1 .. g[c]) <=> x \in {c} \X (1 .. f[c]) \/ x \in new
      BY <2>1
    <3> QED  BY <1>2, <1>4, <1>5, <3>1, Zenon
  <2> QED  BY <2>2
<1>7. Reserved(f) \cap new = {}
  <2> SUFFICES ASSUME NEW x, x \in Reserved(f), x \in new PROVE FALSE
    OBVIOUS
  <2>1. PICK d \in Chains : x \in {d} \X (1 .. f[d])
    BY <1>4
  <2>2. d = c
    BY <2>1
  <2> QED  BY <1>1, <2>1, <2>2
<1>8. /\ IsFiniteSet(Reserved(g))
      /\ Cardinality(Reserved(g)) = Cardinality(Reserved(f)) + n - 0
  <2> HIDE DEF new
  <2>1. Cardinality({}) = 0
    BY FS_EmptySet
  <2> QED  BY <1>3, <1>6, <1>7, <2>1, FS_Union
<1>9. Cardinality(Reserved(f)) \in Nat
  BY FS_CardinalityType
<1> QED  BY <1>8, <1>9 DEF Total, g

\* A chain that is over, or all of them, leave no more than was reserved.
LEMMA ReserveLess ==
  ASSUME NEW f \in [Chains -> Nat], IsFiniteSet(Reserved(f)), NEW g \in [Chains -> Nat],
         \A c \in Chains : g[c] = f[c] \/ g[c] = 0
  PROVE  IsFiniteSet(Reserved(g)) /\ Total(g) <= Total(f)
<1>1. ASSUME NEW c \in Chains
      PROVE  {c} \X (1 .. g[c]) \subseteq {c} \X (1 .. f[c])
  <2>1. 1 .. g[c] \subseteq 1 .. f[c]
    BY <1>1
  <2> QED  BY <2>1
<1>2. Reserved(g) \subseteq Reserved(f)
  BY <1>1 DEF Reserved
<1> QED  BY <1>2, FS_Subset DEF Total

\* What a step does to the devices reserved; a caller's own step may add to them.
LEMMA ReservedStep ==
  ASSUME TypeOK, FinitelyReserved, [Next]_vars
  PROVE  /\ FinitelyReserved'
         /\ \/ Total(devicesAffected') <= Total(devicesAffected)
            \/ Fits(Total(devicesAffected'))
<1> USE DEF FinitelyReserved
<1>1. Total(devicesAffected) \in Nat /\ devicesAffected \in [Chains -> Nat]
  BY FS_CardinalityType DEF Total, TypeOK
<1>2. CASE devicesAffected' = devicesAffected
  BY <1>1, <1>2
<1>3. ASSUME NEW g \in Callers, Reserve(g), devicesAffected' # devicesAffected
      PROVE  FinitelyReserved' /\ Fits(Total(devicesAffected'))
  <2> DEFINE c == call[g].chain
             n == call[g].devices
  <2>1. c \in Chains /\ n \in Nat
    BY CallFields DEF TypeOK
  <2>2. Fits(Total(devicesAffected) + n) /\ devicesAffected' = [devicesAffected EXCEPT ![c] = @ + n]
    BY <1>3 DEF Reserve
  <2> HIDE DEF c, n
  <2>3. IsFiniteSet(Reserved(devicesAffected')) /\ Total(devicesAffected') = Total(devicesAffected) + n
    BY <1>1, <2>1, <2>2, ReserveMore
  <2> QED  BY <2>2, <2>3
<1>4. CASE (\E c \in Chains : Release(c)) \/ Restart
  <2>1. /\ devicesAffected' \in [Chains -> Nat]
        /\ \A c \in Chains : devicesAffected'[c] = devicesAffected[c] \/ devicesAffected'[c] = 0
    BY <1>1, <1>4 DEF Release, Restart
  <2> QED  BY <1>1, <2>1, ReserveLess
<1>5. \/ devicesAffected' = devicesAffected
      \/ \E g \in Callers : Reserve(g)
      \/ (\E c \in Chains : Release(c)) \/ Restart
  BY DEF Next, vars, Tick, CheckAll, Call, Check, UpdateFleetSize, SetCooldown,
         EngageKillSwitch, DisengageKillSwitch, budgetVars
<1> QED  BY <1>2, <1>3, <1>4, <1>5

\* However many chains reserve at once, no reservation is granted that leaves more
\* devices affected than the limits allow.
THEOREM GrantsWithinLimits == Spec => GrantsFitFleet
<1> DEFINE Within ==
      Total(devicesAffected') > Total(devicesAffected) =>
        /\ Total(devicesAffected') <= MaxAbsolute
        /\ fleetSize > 0 => Total(devicesAffected') * 100 <= MaxPercent * fleetSize
<1>1. Init => FinitelyReserved
  <2>1. ASSUME Init
        PROVE  Reserved(devicesAffected) = {}
    BY <2>1 DEF Init, Reserved
  <2> QED  BY <2>1, FS_EmptySet DEF FinitelyReserved
<1>2. TypeOK /\ FinitelyReserved /\ [Next]_vars => FinitelyReserved'
  BY ReservedStep
<1>3. TypeOK /\ FinitelyReserved /\ [Next]_vars => [Within]_vars
  <2> SUFFICES ASSUME TypeOK, FinitelyReserved, [Next]_vars PROVE Within
    OBVIOUS
  <2>1. Total(devicesAffected) \in Nat /\ Total(devicesAffected') \in Nat
    BY ReservedStep, FS_CardinalityType DEF Total, FinitelyReserved
  <2> QED  BY <2>1, ReservedStep DEF Fits
<1> QED  BY <1>1, <1>2, <1>3, TypeCorrect, PTL DEF Spec, GrantsFitFleet

-----------------------------------------------------------------------------
\* The rate limiter.

\* The kept timestamps c are the end of the accepted ones a.
IsEnd(c, a) ==
  /\ Len(c) <= Len(a)
  /\ \A i \in 1 .. Len(c) : c[i] = a[Len(a) - Len(c) + i]

\* At time t, only expired ones are missing.
OnlyExpiredGone(c, a, t) == \A i \in 1 .. Len(a) - Len(c) : a[i] < t - Window

\* Requests are accepted in the order of the clock, which now shows t.
Ordered(a, t) ==
  /\ \A i \in 1 .. Len(a) : a[i] <= t
  /\ \A i, j \in 1 .. Len(a) : i <= j => a[i] <= a[j]

\* The conclusion for one client.
Spaced(a) ==
  \A i \in 1 .. Len(a) : i + Limit \in 1 .. Len(a) => a[i + Limit] > a[i] + Window

Good(c, a, t) == IsEnd(c, a) /\ OnlyExpiredGone(c, a, t) /\ Ordered(a, t) /\ Spaced(a)

LimiterInv == LimiterTypeOK /\ \A k \in Clients : Good(counts[k], accepted[k], now)

\* What is left of a sequence of timestamps after n of them.
LEMMA RestFacts ==
  ASSUME NEW s \in Seq(Nat), NEW n \in 0 .. Len(s)
  PROVE  /\ Rest(s, n) \in Seq(Nat)
         /\ Len(Rest(s, n)) = Len(s) - n
         /\ \A i \in 1 .. Len(s) - n : Rest(s, n)[i] = s[n + i]
<1>1. Len(s) \in Nat
  OBVIOUS
<1>2. SubSeq(s, n + 1, Len(s)) \in Seq(Nat)
  BY <1>1, SubSeqProperties
<1> QED  BY <1>1, <1>2, SubSeqProperties DEF Rest

\* Dropping an expired prefix from the map keeps a client's invariant.
LEMMA DropGood ==
  ASSUME NEW c \in Seq(Nat), NEW a \in Seq(Nat), NEW n \in 0 .. Len(c), NEW t \in Nat,
         Good(c, a, t), \A i \in 1 .. n : c[i] < t - Window
  PROVE  Good(Rest(c, n), a, t)
<1> DEFINE r == Rest(c, n)
           lc == Len(c)
           la == Len(a)
<1>1. lc \in Nat /\ la \in Nat /\ Window \in Nat /\ n \in Nat /\ n <= lc /\ lc <= la
  BY LimitAssumption DEF LimitAssumption, Good, IsEnd
<1>2. Len(r) = lc - n /\ \A i \in 1 .. lc - n : r[i] = c[n + i]
  BY RestFacts
<1>3. /\ \A i \in 1 .. lc : c[i] = a[la - lc + i]
      /\ \A i \in 1 .. la - lc : a[i] < t - Window
  BY DEF Good, IsEnd, OnlyExpiredGone
<1> HIDE DEF r, lc, la
<1>4. ASSUME NEW i \in 1 .. lc - n PROVE r[i] = a[la - (lc - n) + i]
  <2>1. n + i \in 1 .. lc /\ la - lc + (n + i) = la - (lc - n) + i
    BY <1>1
  <2> QED  BY <1>2, <1>3, <2>1
<1>5. ASSUME NEW i \in 1 .. la - (lc - n) PROVE a[i] < t - Window
  <2>1. CASE i <= la - lc
    BY <1>1, <1>3, <2>1
  <2>2. CASE i > la - lc
    <3>1. PICK j \in 1 .. n : la - lc + j = i
      <4>1. i - (la - lc) \in 1 .. n /\ la - lc + (i - (la - lc)) = i
        BY <1>1, <2>2
      <4> QED  BY <4>1
    <3>2. j \in 1 .. lc
      BY <1>1
    <3>3. c[j] < t - Window /\ c[j] = a[i]
      BY <1>3, <3>1, <3>2
    <3> QED  BY <3>3
  <2> QED  BY <1>1, <2>1, <2>2
<1>6. IsEnd(r, a) /\ OnlyExpiredGone(r, a, t)
  <2>1. Len(r) <= la
    BY <1>1, <1>2
  <2> QED  BY <1>2, <1>4, <1>5, <2>1 DEF IsEnd, OnlyExpiredGone, la
<1> QED  BY <1>6 DEF Good, r

\* Time passing keeps a client's invariant.
LEMMA LaterGood ==
  ASSUME NEW c \in Seq(Nat), NEW a \in Seq(Nat), NEW t \in Nat, Good(c, a, t)
  PROVE  Good(c, a, t + 1)
<1>1. Window \in Nat /\ Len(a) \in Nat /\ Len(c) \in Nat /\ \A i \in 1 .. Len(a) : a[i] \in Nat
  BY LimitAssumption DEF LimitAssumption
<1>2. OnlyExpiredGone(c, a, t + 1)
  <2>1. ASSUME NEW i \in 1 .. Len(a) - Len(c) PROVE a[i] < (t + 1) - Window
    <3>1. a[i] < t - Window
      BY DEF Good, OnlyExpiredGone
    <3>2. i \in 1 .. Len(a)
      BY <1>1
    <3>3. a[i] \in Nat
      BY <1>1, <3>2
    <3> QED  BY <1>1, <3>1, <3>3
  <2> QED  BY <2>1 DEF OnlyExpiredGone
<1>3. Ordered(a, t + 1)
  BY <1>1 DEF Good, Ordered
<1> QED  BY <1>2, <1>3 DEF Good

\* A request accepted at time t, when fewer than Limit timestamps are left,
\* keeps it: the one Limit places before it is among the expired ones.
LEMMA AppendGood ==
  ASSUME NEW r \in Seq(Nat), NEW a \in Seq(Nat), NEW t \in Nat, Good(r, a, t), Len(r) < Limit
  PROVE  Good(Append(r, t), Append(a, t), t)
<1> DEFINE s == Append(r, t)
           b == Append(a, t)
           lr == Len(r)
           la == Len(a)
<1>1. /\ lr \in Nat /\ la \in Nat /\ lr <= la /\ Window \in Nat /\ Limit \in Nat /\ lr < Limit
      /\ \A i \in 1 .. la : a[i] \in Nat
  BY LimitAssumption DEF LimitAssumption, Good, IsEnd
<1>2. Len(s) = lr + 1 /\ (\A i \in 1 .. lr : s[i] = r[i]) /\ s[lr + 1] = t
  BY AppendProperties
<1>3. Len(b) = la + 1 /\ (\A i \in 1 .. la : b[i] = a[i]) /\ b[la + 1] = t
  BY AppendProperties
<1>4. /\ \A i \in 1 .. lr : r[i] = a[la - lr + i]
      /\ \A i \in 1 .. la - lr : a[i] < t - Window
      /\ \A i \in 1 .. la : a[i] <= t
      /\ \A i, j \in 1 .. la : i <= j => a[i] <= a[j]
      /\ \A i \in 1 .. la : i + Limit \in 1 .. la => a[i + Limit] > a[i] + Window
  BY DEF Good, IsEnd, OnlyExpiredGone, Ordered, Spaced
<1> HIDE DEF s, b, lr, la
<1>5. IsEnd(s, b)
  <2>1. ASSUME NEW i \in 1 .. lr + 1 PROVE s[i] = b[(la + 1) - (lr + 1) + i]
    <3>1. CASE i = lr + 1
      <4>1. (la + 1) - (lr + 1) + i = la + 1
        BY <1>1, <3>1
      <4> QED  BY <1>2, <1>3, <3>1, <4>1
    <3>2. CASE i # lr + 1
      <4>1. i \in 1 .. lr /\ la - lr + i \in 1 .. la /\ (la + 1) - (lr + 1) + i = la - lr + i
        BY <1>1, <3>2
      <4> QED  BY <1>2, <1>3, <1>4, <4>1
    <3> QED  BY <3>1, <3>2
  <2> QED  BY <1>1, <1>2, <1>3, <2>1 DEF IsEnd
<1>6. OnlyExpiredGone(s, b, t)
  <2>1. ASSUME NEW i \in 1 .. (la + 1) - (lr + 1) PROVE b[i] < t - Window
    <3>1. i \in 1 .. la - lr /\ i \in 1 .. la
      BY <1>1
    <3> QED  BY <1>3, <1>4, <3>1
  <2> QED  BY <1>2, <1>3, <2>1 DEF OnlyExpiredGone
<1>7. Ordered(b, t)
  <2>1. \A i \in 1 .. la + 1 : i \in 1 .. la \/ i = la + 1
    BY <1>1
  <2>2. \A i \in 1 .. la + 1 : b[i] <= t
    BY <1>1, <1>3, <1>4, <2>1
  <2>3. ASSUME NEW i \in 1 .. la + 1, NEW j \in 1 .. la + 1, i <= j PROVE b[i] <= b[j]
    <3>1. CASE j = la + 1
      BY <1>3, <2>2, <3>1
    <3>2. CASE j # la + 1
      <4>1. i \in 1 .. la /\ j \in 1 .. la
        BY <1>1, <2>3, <3>2
      <4> QED  BY <1>3, <1>4, <2>3, <4>1
    <3> QED  BY <3>1, <3>2
  <2> QED  BY <1>3, <2>2, <2>3 DEF Ordered
<1>8. Spaced(b)
  <2>1. ASSUME NEW i \in 1 .. la + 1, i + Limit \in 1 .. la + 1 PROVE b[i + Limit] > b[i] + Window
    <3>1. i \in 1 .. la
      BY <1>1, <2>1
    <3>2. CASE i + Limit \in 1 .. la
      BY <1>3, <1>4, <3>1, <3>2
    <3>3. CASE i + Limit = la + 1
      <4>1. i \in 1 .. la - lr
        BY <1>1, <3>3
      <4>2. a[i] < t - Window /\ b[i] = a[i] /\ a[i] \in Nat /\ b[i + Limit] = t
        BY <1>1, <1>3, <1>4, <3>1, <3>3, <4>1
      <4> QED  BY <1>1, <4>2
    <3> QED  BY <1>1, <2>1, <3>2, <3>3
  <2> QED  BY <1>3, <2>1 DEF Spaced
<1> QED  BY <1>5, <1>6, <1>7, <1>8 DEF Good, s, b

\* The types in the form the steps below need.
LEMMA LimiterTyped ==
  ASSUME LimiterTypeOK, NEW k \in Clients
  PROVE  /\ counts[k] \in Seq(Nat) /\ accepted[k] \in Seq(Nat) /\ refused[k] \in Nat
         /\ Len(counts[k]) \in Nat /\ Len(accepted[k]) \in Nat
         /\ now \in Nat /\ Window \in Nat /\ Limit \in Nat /\ Limit >= 1
         /\ DOMAIN accepted[k] = 1 .. Len(accepted[k])
         /\ Len(counts[k]) <= Limit
BY LimitAssumption DEF LimiterTypeOK, LimitAssumption

\* The limiter starts with an empty map.
LEMMA LimiterInitInv == LimiterInit => LimiterInv
<1> SUFFICES ASSUME LimiterInit PROVE LimiterInv
  OBVIOUS
<1>1. LimiterTypeOK
  BY LimitAssumption DEF LimiterInit, LimiterTypeOK, LimitAssumption
<1>2. ASSUME NEW k \in Clients PROVE Good(counts[k], accepted[k], now)
  <2>1. accepted[k] = <<>> /\ counts[k] = <<>>
    BY DEF LimiterInit
  <2> QED
    BY <2>1 DEF Good, IsEnd, OnlyExpiredGone, Ordered, Spaced
<1> QED  BY <1>1, <1>2 DEF LimiterInv

\* Time passes.
LEMMA LimiterTickInv == LimiterInv /\ LimiterTick => LimiterInv'
<1> SUFFICES ASSUME LimiterInv, LimiterTick PROVE LimiterInv'
  OBVIOUS
<1>1. LimiterTypeOK'
  BY DEF LimiterInv, LimiterTypeOK, LimiterTick
<1>2. ASSUME NEW k \in Clients PROVE Good(counts[k], accepted[k], now)'
  <2>1. Good(counts[k], accepted[k], now + 1)
    BY LimiterTyped, LaterGood DEF LimiterInv
  <2> QED  BY <2>1 DEF LimiterTick
<1> QED  BY <1>1, <1>2 DEF LimiterInv

\* The cleanup goroutine sweeps the map.
LEMMA SweepInv == LimiterInv /\ Sweep => LimiterInv'
<1> SUFFICES ASSUME LimiterInv, Sweep PROVE LimiterInv'
  OBVIOUS
<1>1. PICK n \in [Clients -> 0 .. Limit] :
        /\ \A k \in Clients : n[k] <= Len(counts[k]) /\ Expires(counts[k], n[k])
        /\ counts' = [k \in Clients |-> Rest(counts[k], n[k])]
  BY DEF Sweep
<1>2. ASSUME NEW k \in Clients
      PROVE  /\ Rest(counts[k], n[k]) \in Seq(Nat) /\ Len(Rest(counts[k], n[k])) <= Limit
             /\ Good(Rest(counts[k], n[k]), accepted[k], now)
  <2>1. /\ counts[k] \in Seq(Nat) /\ accepted[k] \in Seq(Nat) /\ Len(counts[k]) \in Nat
        /\ Len(counts[k]) <= Limit /\ Limit \in Nat /\ now \in Nat
    BY LimiterTyped DEF LimiterInv
  <2>2. n[k] \in 0 .. Len(counts[k]) /\ n[k] \in Nat
    BY <1>1, <2>1
  <2>3. /\ Rest(counts[k], n[k]) \in Seq(Nat)
        /\ Len(Rest(counts[k], n[k])) = Len(counts[k]) - n[k]
    BY <2>1, <2>2, RestFacts
  <2>4. Len(counts[k]) - n[k] <= Limit
    BY <2>1, <2>2
  <2>5. \A i \in 1 .. n[k] : counts[k][i] < now - Window
    BY <1>1 DEF Expires
  <2>6. Good(counts[k], accepted[k], now)
    BY DEF LimiterInv
  <2>7. Good(Rest(counts[k], n[k]), accepted[k], now)
    BY <2>1, <2>2, <2>5, <2>6, DropGood
  <2> QED  BY <2>3, <2>4, <2>7
<1>3. LimiterTypeOK'
  <2>1. counts' \in [Clients -> Seq(Nat)] /\ \A k \in Clients : Len(counts'[k]) <= Limit
    BY <1>1, <1>2
  <2> QED  BY <2>1 DEF LimiterInv, LimiterTypeOK, Sweep
<1>4. \A k \in Clients : Good(counts'[k], accepted[k], now)
  BY <1>1, <1>2
<1> QED  BY <1>3, <1>4 DEF LimiterInv, Sweep

\* A request is let through or refused.
LEMMA AllowInv == ASSUME LimiterInv, NEW h \in Clients, Allow(h) PROVE LimiterInv'
<1>1. PICK n \in 0 .. Len(counts[h]) :
        /\ Expires(counts[h], n)
        /\ \/ /\ Len(Rest(counts[h], n)) >= Limit
              /\ counts' = [counts EXCEPT ![h] = Rest(counts[h], n)]
              /\ refused' = [refused EXCEPT ![h] = @ + 1]
              /\ accepted' = accepted
           \/ /\ ~(Len(Rest(counts[h], n)) >= Limit)
              /\ counts' = [counts EXCEPT ![h] = Append(Rest(counts[h], n), now)]
              /\ accepted' = [accepted EXCEPT ![h] = Append(accepted[h], now)]
              /\ refused' = refused
  BY DEF Allow
<1> DEFINE a == accepted[h]
           r == Rest(counts[h], n)
<1>2. /\ counts[h] \in Seq(Nat) /\ a \in Seq(Nat) /\ Len(counts[h]) \in Nat
      /\ now \in Nat /\ Limit \in Nat /\ Len(counts[h]) <= Limit /\ n \in Nat
  BY LimiterTyped DEF LimiterInv
<1>3. Good(counts[h], a, now) /\ now' = now /\ swept' = swept
  BY DEF LimiterInv, Allow
<1>4. r \in Seq(Nat) /\ Len(r) = Len(counts[h]) - n
  BY <1>2, RestFacts
<1>5. Len(r) \in Nat /\ Len(r) <= Limit
  BY <1>2, <1>4
<1>6. Good(r, a, now)
  <2>1. \A i \in 1 .. n : counts[h][i] < now - Window
    BY <1>1 DEF Expires
  <2> QED  BY <1>2, <1>3, <2>1, DropGood
<1> HIDE DEF a, r
<1>7. CASE /\ counts' = [counts EXCEPT ![h] = r]
           /\ refused' = [refused EXCEPT ![h] = @ + 1]
           /\ accepted' = accepted
  <2>1. LimiterTypeOK'
    <3>1. counts' \in [Clients -> Seq(Nat)]
      BY <1>4, <1>7 DEF LimiterInv, LimiterTypeOK
    <3>2. ASSUME NEW k \in Clients PROVE Len(counts'[k]) <= Limit
      <4>1. CASE k = h
        BY <1>5, <1>7, <4>1 DEF LimiterInv, LimiterTypeOK
      <4>2. CASE k # h
        BY <1>7, <4>2 DEF LimiterInv, LimiterTypeOK
      <4> QED  BY <4>1, <4>2
    <3>3. refused' \in [Clients -> Nat]
      BY <1>7 DEF LimiterInv, LimiterTypeOK
    <3>4. now' \in Nat /\ swept' \in Nat /\ accepted' \in [Clients -> Seq(Nat)]
      BY <1>3, <1>7 DEF LimiterInv, LimiterTypeOK
    <3> QED  BY <3>1, <3>2, <3>3, <3>4 DEF LimiterTypeOK
  <2>2. ASSUME NEW k \in Clients PROVE Good(counts'[k], accepted'[k], now)
    <3>1. CASE k = h
      BY <1>6, <1>7, <3>1 DEF a, LimiterInv, LimiterTypeOK
    <3>2. CASE k # h
      BY <1>7, <3>2 DEF LimiterInv, LimiterTypeOK
    <3> QED  BY <3>1, <3>2
  <2> QED  BY <1>3, <2>1, <2>2 DEF LimiterInv
<1>8. CASE /\ ~(Len(r) >= Limit)
           /\ counts' = [counts EXCEPT ![h] = Append(r, now)]
           /\ accepted' = [accepted EXCEPT ![h] = Append(a, now)]
           /\ refused' = refused
  <2> DEFINE s == Append(r, now)
             b == Append(a, now)
  <2>1. s \in Seq(Nat) /\ Len(s) = Len(r) + 1 /\ b \in Seq(Nat)
    BY <1>2, <1>4, AppendProperties
  <2>2. Len(r) < Limit
    BY <1>2, <1>5, <1>8
  <2>3. Good(s, b, now)
    BY <1>2, <1>4, <1>6, <2>2, AppendGood
  <2>4. Len(s) <= Limit
    BY <1>2, <1>5, <2>1, <2>2
  <2>5. counts' = [counts EXCEPT ![h] = s] /\ accepted' = [accepted EXCEPT ![h] = b]
    BY <1>8
  <2> HIDE DEF s, b
  <2>6. LimiterTypeOK'
    BY <1>3, <1>8, <2>1, <2>4, <2>5 DEF LimiterInv, LimiterTypeOK
  <2>7. ASSUME NEW k \in Clients PROVE Good(counts'[k], accepted'[k], now)
    <3>1. CASE k = h
      BY <2>3, <2>5, <3>1 DEF LimiterInv, LimiterTypeOK
    <3>2. CASE k # h
      BY <2>5, <3>2 DEF LimiterInv, LimiterTypeOK
    <3> QED  BY <3>1, <3>2
  <2> QED  BY <1>3, <2>6, <2>7 DEF LimiterInv
<1> QED  BY <1>1, <1>7, <1>8 DEF a, r

\* No step leaves the invariant.
LEMMA LimiterNextInv == LimiterInv /\ [LimiterNext]_limiterVars => LimiterInv'
<1> SUFFICES ASSUME LimiterInv, [LimiterNext]_limiterVars PROVE LimiterInv'
  OBVIOUS
<1>1. CASE LimiterTick
  BY <1>1, LimiterTickInv
<1>2. ASSUME NEW k \in Clients, Allow(k) PROVE LimiterInv'
  BY <1>2, AllowInv
<1>3. CASE Sweep
  BY <1>3, SweepInv
<1>4. CASE UNCHANGED limiterVars
  BY <1>4 DEF limiterVars, LimiterInv, LimiterTypeOK
<1> QED  BY <1>1, <1>2, <1>3, <1>4 DEF LimiterNext

\* The map keeps its types, and at most Limit timestamps of a client.
THEOREM LimiterTypeCorrect == LimiterSpec => []LimiterTypeOK
BY LimiterInitInv, LimiterNextInv, PTL DEF LimiterSpec, LimiterInv

\* However requests, clients and sweeps interleave, no more than Limit
\* requests of a client are let through in any window.
THEOREM LimiterNeverOver == LimiterSpec => []NeverOver
<1>1. LimiterInv => NeverOver
  <2> SUFFICES ASSUME LimiterInv, NEW k \in Clients, NEW i \in DOMAIN accepted[k],
                      i + Limit \in DOMAIN accepted[k]
               PROVE  accepted[k][i + Limit] > accepted[k][i] + Window
    BY DEF NeverOver
  <2>1. Spaced(accepted[k]) /\ DOMAIN accepted[k] = 1 .. Len(accepted[k])
    BY LimiterTyped DEF LimiterInv, Good
  <2> QED  BY <2>1 DEF Spaced
<1> QED  BY <1>1, LimiterInitInv, LimiterNextInv, PTL DEF LimiterSpec

\* A refused client has used up its window: the map then holds Limit
\* timestamps, none of them expired, and they are the last accepted ones.
THEOREM RefusalsHaveReason == LimiterSpec => RefusedWithReason
<1> DEFINE Reason(k) ==
      refused'[k] # refused[k] =>
        /\ Len(accepted[k]) >= Limit
        /\ \A i \in 1 .. Limit : accepted[k][Len(accepted[k]) - Limit + i] >= now - Window
<1>1. ASSUME LimiterInv, LimiterNext, NEW k \in Clients, refused'[k] # refused[k]
      PROVE  Reason(k)
  <2>1. Allow(k)
    <3>1. ASSUME NEW h \in Clients, Allow(h), h # k PROVE FALSE
      <4>1. refused' = refused \/ refused' = [refused EXCEPT ![h] = @ + 1]
        BY <3>1 DEF Allow
      <4>2. refused'[k] = refused[k]
        BY <3>1, <4>1, <1>1 DEF LimiterInv, LimiterTypeOK
      <4> QED  BY <1>1, <4>2
    <3> QED  BY <1>1, <3>1 DEF LimiterNext, LimiterTick, Sweep
  <2>2. PICK n \in 0 .. Len(counts[k]) :
          Expires(counts[k], n) /\ Len(Rest(counts[k], n)) >= Limit
    BY <1>1, <2>1 DEF Allow
  <2> DEFINE c == counts[k]
             a == accepted[k]
             la == Len(a)
  <2>3. /\ c \in Seq(Nat) /\ a \in Seq(Nat) /\ now \in Nat
        /\ Len(c) \in Nat /\ la \in Nat /\ Window \in Nat
        /\ Limit \in Nat /\ Limit >= 1 /\ Len(c) <= Limit
        /\ \A i \in 1 .. la : a[i] \in Nat
    BY <1>1, LimiterTyped DEF LimiterInv
  <2>4. Len(Rest(c, n)) = Len(c) - n
    BY <2>3, RestFacts
  <2>5. n = 0 /\ Len(c) = Limit
    BY <2>2, <2>3, <2>4
  <2>6. c[1] >= now - Window
    BY <2>2, <2>3, <2>5 DEF Expires
  <2>7. Good(c, a, now)
    BY <1>1 DEF LimiterInv
  <2>8. Limit <= la /\ c[1] = a[la - Limit + 1]
    BY <2>3, <2>5, <2>7 DEF Good, IsEnd
  <2>9. \A i, j \in 1 .. la : i <= j => a[i] <= a[j]
    BY <2>7 DEF Good, Ordered
  <2> HIDE DEF c, a, la
  <2>10. ASSUME NEW i \in 1 .. Limit PROVE a[la - Limit + i] >= now - Window
    <3>1. /\ la - Limit + 1 \in 1 .. la /\ la - Limit + i \in 1 .. la
          /\ la - Limit + 1 <= la - Limit + i
      BY <2>3, <2>8
    <3>2. /\ a[la - Limit + 1] <= a[la - Limit + i]
          /\ a[la - Limit + 1] \in Nat /\ a[la - Limit + i] \in Nat
      BY <2>3, <2>9, <3>1
    <3>3. a[la - Limit + 1] >= now - Window
      BY <2>6, <2>8
    <3> QED  BY <2>3, <3>2, <3>3
  <2> QED  BY <2>3, <2>8, <2>10 DEF a, la
<1>2. LimiterInv /\ [LimiterNext]_limiterVars => [\A k \in Clients : Reason(k)]_limiterVars
  BY <1>1
<1> QED  BY <1>2, LimiterInitInv, LimiterNextInv, PTL DEF LimiterSpec, RefusedWithReason
=============================================================================
