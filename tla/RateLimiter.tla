----------------------------- MODULE RateLimiter -----------------------------
(***************************************************************************)
(* The per-tenant token bucket of internal/gateway/middleware.go.  allow   *)
(* runs under rateLimiter.mu from the lookup to the decision, and reads the*)
(* clock there, so one call is one step.                                   *)
(*                                                                         *)
(* Time is counted in ticks and tokens in parts of which TokenParts make   *)
(* one: a tick adds Rate parts to a bucket.                                *)
(***************************************************************************)
EXTENDS Integers, FiniteSets, FiniteSetsExt

CONSTANTS
    Tenants,
    TokenParts,     \* parts in a token
    Rate,           \* rateLimiter.rate, in parts per tick
    TicksPerSecond,
    MaxTime,        \* bound: the clock
    MaxCalls        \* bound: the requests a tenant is granted

ASSUME LimiterAssumption ==
    /\ TokenParts \in Nat \ {0}
    /\ {Rate, TicksPerSecond, MaxTime, MaxCalls} \subseteq Nat

\* rateLimiter.capacity: rps * 2, two seconds of requests
Capacity == 2 * TicksPerSecond * Rate

VARIABLES
    now,        \* the clock
    known,      \* the tenants that have a bucket
    tokens,     \* tokenBucket.tokens of each tenant
    lastFill,   \* tokenBucket.lastFill of each tenant
    grants      \* history: the times of the requests each tenant was granted, numbered

limiterVars == <<now, known, tokens, lastFill, grants>>

LimiterInit ==
    /\ now = 0
    /\ known = {}
    /\ tokens = [t \in Tenants |-> 0]
    /\ lastFill = [t \in Tenants |-> 0]
    /\ grants = [t \in Tenants |-> {}]

\* The bucket allow finds, or makes full.
Found(t) == IF t \in known THEN tokens[t] ELSE Capacity
Since(t) == IF t \in known THEN now - lastFill[t] ELSE 0

\* min(rl.capacity, b.tokens + elapsed*rl.rate)
Filled(t) == Min({Capacity, Found(t) + Rate * Since(t)})

\* Mutant of Touch: lastFill is set once, so time is credited again and again.
TouchOnce(t) ==
    /\ known' = known \cup {t}
    /\ lastFill' = [lastFill EXCEPT ![t] = IF t \in known THEN @ ELSE now]

Touch(t) ==
    /\ known' = known \cup {t}
    /\ lastFill' = [lastFill EXCEPT ![t] = now]

Grant(t) ==
    /\ Filled(t) >= TokenParts
    /\ Cardinality(grants[t]) < MaxCalls
    /\ Touch(t)
    /\ tokens' = [tokens EXCEPT ![t] = Filled(t) - TokenParts]
    /\ grants' = [grants EXCEPT ![t] = @ \cup {<<Cardinality(@), now>>}]
    /\ UNCHANGED now

\* Mutant of Refuse: a refused request takes the rest of a token.
RefuseTaking(t) ==
    /\ Filled(t) < TokenParts
    /\ Touch(t)
    /\ tokens' = [tokens EXCEPT ![t] = 0]
    /\ UNCHANGED <<now, grants>>

Refuse(t) ==
    /\ Filled(t) < TokenParts
    /\ Touch(t)
    /\ tokens' = [tokens EXCEPT ![t] = Filled(t)]
    /\ UNCHANGED <<now, grants>>

Tick ==
    /\ now < MaxTime
    /\ now' = now + 1
    /\ UNCHANGED <<known, tokens, lastFill, grants>>

\* The clock and the requests of the run are used up.
Over == now = MaxTime /\ UNCHANGED limiterVars

LimiterNext == (\E t \in Tenants : Grant(t) \/ Refuse(t)) \/ Tick \/ Over

LimiterSpec == LimiterInit /\ [][LimiterNext]_limiterVars

-----------------------------------------------------------------------------
(* Properties.                                                             *)

\* Every variable holds a value of its kind, and no bucket overflows or is
\* overdrawn.
LimiterTypeOK ==
    /\ now \in 0..MaxTime
    /\ known \subseteq Tenants
    /\ tokens \in [Tenants -> 0..Capacity]
    /\ lastFill \in [Tenants -> 0..now]
    /\ \A t \in Tenants : grants[t] \subseteq (0..(MaxCalls - 1)) \X (0..MaxTime)

\* The requests a tenant was granted since time s.
GrantedSince(t, s) == Cardinality({g \in grants[t] : g[2] >= s})

\* What may be granted from s on: a full bucket, and what the ticks add.
Allowance(s) == Capacity + Rate * (now - s)

\* In no period, wherever it starts, is a tenant granted more requests than a
\* burst of Capacity and Rate per tick (05-security-controls.md, section 2).
NeverAboveRate ==
    \A t \in Tenants : \A s \in 0..now :
        TokenParts * GrantedSince(t, s) <= Allowance(s)

\* The invariant of the buckets (allow): none overflows or is overdrawn, and no
\* period sees more requests than its allowance.
RateInv == LimiterTypeOK /\ NeverAboveRate

\* A tenant is refused only for what it was granted itself: some period ending
\* now has no room for one more request.  Requests of other tenants, refused
\* requests and idle time cost it nothing (allow).  Where Capacity is less than
\* one token that period is this very instant: such a tenant is always refused.
RefusedOnlyForOwnUse ==
    \A t \in Tenants :
        Filled(t) < TokenParts =>
            \E s \in 0..now :
                TokenParts * (GrantedSince(t, s) + 1) > Allowance(s)
=============================================================================
