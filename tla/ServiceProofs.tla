---------------------------- MODULE ServiceProofs ----------------------------
(***************************************************************************)
(* Theorems about two parts of the service that share nothing: RateLimiter,*)
(* for every set of tenants, every rate and every size of token, and       *)
(* Monitor, for every set of health requests, every number of test runs and*)
(* of changes to the executable.                                           *)
(***************************************************************************)
EXTENDS RateLimiter, Monitor, FiniteSetTheorems, TLAPS

-----------------------------------------------------------------------------
(* The rate limiter.                                                       *)

\* The grants are numbered from zero in the order they were made, none is later
\* than the last call, and a tenant without a bucket has none.
GrantsInv ==
    /\ grants \in [Tenants -> SUBSET (Nat \X Nat)]
    /\ \A t \in Tenants :
           /\ IsFiniteSet(grants[t])
           /\ \A g \in grants[t] : g[1] < Cardinality(grants[t]) /\ g[2] <= lastFill[t]
           /\ t \notin known => grants[t] = {}

\* What was granted since s and what is left in the bucket come out of a full
\* bucket and what was added until the last call ...
Spent(t, s) == TokenParts * GrantedSince(t, s) + tokens[t]
Added(t, s) == Capacity + Rate * (lastFill[t] - s)

\* ... never more, whatever the period ...
UpperInv == \A t \in known : \A s \in 0..lastFill[t] : Spent(t, s) <= Added(t, s)

\* ... and for some period, the one since the bucket was last full, never less.
LowerInv == \A t \in known : \E s \in 0..lastFill[t] : Spent(t, s) >= Added(t, s)

\* The inductive invariant.
BucketInv == LimiterTypeOK /\ GrantsInv /\ UpperInv /\ LowerInv

\* The constants are numbers, and so is what is made of them.
LEMMA ConstantsType ==
    /\ TokenParts \in Nat /\ TokenParts > 0
    /\ Rate \in Nat /\ TicksPerSecond \in Nat /\ MaxTime \in Nat /\ MaxCalls \in Nat
    /\ Capacity \in Nat
  <1>1. /\ TokenParts \in Nat /\ TokenParts > 0
        /\ Rate \in Nat /\ TicksPerSecond \in Nat /\ MaxTime \in Nat /\ MaxCalls \in Nat
    BY LimiterAssumption
  <1>2. 2 * TicksPerSecond \in Nat
    BY <1>1
  <1>3. \A a \in Nat, b \in Nat : a * b \in Nat
    OBVIOUS
  <1>4. 2 * TicksPerSecond * Rate \in Nat
    BY <1>1, <1>2, <1>3
  <1> QED
    BY <1>1, <1>4 DEF Capacity

\* Min is the smaller of two numbers.
LEMMA MinOfTwo ==
    ASSUME NEW a \in Int, NEW b \in Int
    PROVE  Min({a, b}) = IF a <= b THEN a ELSE b
  <1>1. \E x \in {a, b} : \A y \in {a, b} : x <= y
    OBVIOUS
  <1>2. Min({a, b}) \in {a, b} /\ \A y \in {a, b} : Min({a, b}) <= y
    BY <1>1 DEF Min
  <1> QED
    BY <1>2

\* Time passing in two parts adds the parts.
LEMMA Distributes ==
    ASSUME NEW r \in Nat, NEW a \in Int, NEW b \in Int, NEW c \in Int
    PROVE  /\ r * (a - c) = r * (a - b) + r * (b - c)
           /\ r * (a - b) \in Int
           /\ a >= b => r * (a - b) >= 0
  OBVIOUS

\* One more counts once more.
LEMMA OneMore ==
    ASSUME NEW r \in Nat, NEW a \in Nat
    PROVE  r * (a + 1) = r * a + r /\ r * a \in Nat
  OBVIOUS

\* allow finds or makes a bucket, and fills it up to Capacity.
LEMMA FilledValue ==
    ASSUME BucketInv, NEW t \in Tenants
    PROVE  /\ Filled(t) \in 0..Capacity
           /\ t \notin known => Filled(t) = Capacity
           /\ t \in known =>
                  Filled(t) = IF Capacity <= tokens[t] + Rate * (now - lastFill[t])
                              THEN Capacity
                              ELSE tokens[t] + Rate * (now - lastFill[t])
  <1>1. /\ now \in Nat /\ lastFill[t] \in 0..now /\ tokens[t] \in 0..Capacity
        /\ Capacity \in Nat /\ Rate \in Nat
    BY ConstantsType DEF BucketInv, LimiterTypeOK
  <1>2. Rate * (now - lastFill[t]) \in Nat
    BY <1>1, Distributes
  <1>3. CASE t \in known
    <2>1. Filled(t) = Min({Capacity, tokens[t] + Rate * (now - lastFill[t])})
      BY <1>3 DEF Filled, Found, Since
    <2> QED
      BY <1>1, <1>2, <1>3, <2>1, MinOfTwo
  <1>4. CASE t \notin known
    <2>1. Filled(t) = Min({Capacity, Capacity + Rate * 0})
      BY <1>4 DEF Filled, Found, Since
    <2>2. Rate * 0 = 0
      BY <1>1
    <2> QED
      BY <1>1, <1>4, <2>1, <2>2, MinOfTwo
  <1> QED
    BY <1>3, <1>4

\* Only finitely many requests are granted since s, and none after the last call.
LEMMA GrantsFinite ==
    ASSUME BucketInv, NEW t \in Tenants, NEW s \in Nat
    PROVE  /\ IsFiniteSet({g \in grants[t] : g[2] >= s})
           /\ s > lastFill[t] \/ t \notin known => {g \in grants[t] : g[2] >= s} = {}
  <1>1. /\ IsFiniteSet(grants[t]) /\ lastFill[t] \in Nat
        /\ \A g \in grants[t] : g[2] <= lastFill[t] /\ g[2] \in Nat
        /\ t \notin known => grants[t] = {}
    BY DEF BucketInv, GrantsInv, LimiterTypeOK
  <1>2. IsFiniteSet({g \in grants[t] : g[2] >= s})
    BY <1>1, FS_Subset
  <1>3. s > lastFill[t] \/ t \notin known => {g \in grants[t] : g[2] >= s} = {}
    BY <1>1
  <1> QED
    BY <1>2, <1>3

\* What was granted since s is a number.
LEMMA GrantedSinceType ==
    ASSUME BucketInv, NEW t \in Tenants
    PROVE  \A s \in Nat :
               /\ GrantedSince(t, s) \in Nat
               /\ s > lastFill[t] \/ t \notin known => GrantedSince(t, s) = 0
  BY GrantsFinite, FS_CardinalityType, FS_EmptySet DEF GrantedSince

\* Before the call of now, what a period had spent stays within what was added to
\* a full bucket, the tokens allow now counts included.
LEMMA FilledAccounts ==
    ASSUME BucketInv, NEW t \in Tenants
    PROVE  /\ \A s \in 0..now : TokenParts * GrantedSince(t, s) + Filled(t)
                                  <= Capacity + Rate * (now - s)
           /\ \E s \in 0..now : TokenParts * GrantedSince(t, s) + Filled(t)
                                  >= Capacity + Rate * (now - s)
  <1>1. /\ now \in Nat /\ lastFill[t] \in 0..now /\ tokens[t] \in 0..Capacity
        /\ Capacity \in Nat /\ Rate \in Nat /\ TokenParts \in Nat
    BY ConstantsType DEF BucketInv, LimiterTypeOK
  <1>2. Filled(t) \in 0..Capacity
    BY FilledValue
  <1>3. ASSUME NEW s \in 0..now
        PROVE  TokenParts * GrantedSince(t, s) + Filled(t) <= Capacity + Rate * (now - s)
    <2>1. GrantedSince(t, s) \in Nat /\ Rate * (now - s) \in Nat
      BY <1>1, GrantedSinceType, Distributes
    <2>2. CASE s > lastFill[t] \/ t \notin known
      <3>1. GrantedSince(t, s) = 0
        BY <1>1, <2>2, GrantedSinceType
      <3>2. TokenParts * 0 = 0
        BY <1>1
      <3> QED
        BY <1>1, <1>2, <2>1, <3>1, <3>2
    <2>3. CASE s <= lastFill[t] /\ t \in known
      <3>1. TokenParts * GrantedSince(t, s) + tokens[t]
              <= Capacity + Rate * (lastFill[t] - s)
        BY <1>1, <2>3 DEF BucketInv, UpperInv, Spent, Added
      <3>2. Filled(t) <= tokens[t] + Rate * (now - lastFill[t])
        BY <1>1, <2>3, FilledValue, Distributes
      <3>3. Rate * (now - s) = Rate * (now - lastFill[t]) + Rate * (lastFill[t] - s)
        BY <1>1, Distributes
      <3>4. /\ Rate * (now - lastFill[t]) \in Int /\ Rate * (lastFill[t] - s) \in Int
            /\ TokenParts * GrantedSince(t, s) \in Int
        BY <1>1, <2>1
      <3> QED
        BY <1>1, <1>2, <3>1, <3>2, <3>3, <3>4
    <2> QED
      BY <1>1, <2>2, <2>3
  <1>4. CASE Filled(t) = Capacity
    <2>1. GrantedSince(t, now) \in Nat /\ Rate * (now - now) = 0
      BY <1>1, GrantedSinceType
    <2>2. TokenParts * GrantedSince(t, now) >= 0 /\ TokenParts * GrantedSince(t, now) \in Int
      BY <1>1, <2>1, OneMore
    <2>3. now \in 0..now
      BY <1>1
    <2> QED
      BY <1>1, <1>3, <1>4, <2>1, <2>2, <2>3
  <1>5. CASE Filled(t) # Capacity
    <2>1. t \in known /\ Filled(t) = tokens[t] + Rate * (now - lastFill[t])
      BY <1>5, FilledValue
    <2>2. PICK s \in 0..lastFill[t] : Spent(t, s) >= Added(t, s)
      BY <2>1 DEF BucketInv, LowerInv
    <2>3. TokenParts * GrantedSince(t, s) + tokens[t]
            >= Capacity + Rate * (lastFill[t] - s)
      BY <2>2 DEF Spent, Added
    <2>4. /\ Rate * (now - s) = Rate * (now - lastFill[t]) + Rate * (lastFill[t] - s)
          /\ Rate * (now - lastFill[t]) \in Int /\ Rate * (lastFill[t] - s) \in Int
      BY <1>1, Distributes
    <2>5. GrantedSince(t, s) \in Nat
      BY <1>1, GrantedSinceType
    <2>6. TokenParts * GrantedSince(t, s) \in Int
      BY <1>1, <2>5
    <2>7. s \in 0..now
      BY <1>1
    <2>8. TokenParts * GrantedSince(t, s) + Filled(t) >= Capacity + Rate * (now - s)
      BY <1>1, <2>1, <2>3, <2>4, <2>6
    <2> QED
      BY <1>3, <2>7, <2>8
  <1> QED
    BY <1>3, <1>4, <1>5

-----------------------------------------------------------------------------
(* The inductive invariant.                                                *)

\* No tenant has a bucket or a grant at the start.
LEMMA BucketInit == LimiterInit => BucketInv
  <1> SUFFICES ASSUME LimiterInit PROVE BucketInv
    OBVIOUS
  <1>1. LimiterTypeOK
    BY ConstantsType DEF LimiterInit, LimiterTypeOK
  <1>2. GrantsInv
    BY FS_EmptySet DEF LimiterInit, GrantsInv
  <1> QED
    BY <1>1, <1>2 DEF LimiterInit, BucketInv, UpperInv, LowerInv

\* A grant adds one, numbered after the others, and counts in every period that
\* ends with it; the grants of other tenants stay as they are.
LEMMA GrantCounts ==
    ASSUME BucketInv, NEW t \in Tenants, Grant(t)
    PROVE  /\ GrantsInv'
           /\ \A s \in 0..now : GrantedSince(t, s)' = GrantedSince(t, s) + 1
           /\ grants'[t] \subseteq (0..(MaxCalls - 1)) \X (0..MaxTime)
  <1> DEFINE n == Cardinality(grants[t])
             g == <<n, now>>
  <1>1. /\ IsFiniteSet(grants[t]) /\ now \in Nat /\ now <= MaxTime
        /\ grants[t] \subseteq Nat \X Nat
        /\ \A x \in grants[t] : x[1] < n /\ x[2] <= lastFill[t] /\ x[2] \in Nat
        /\ lastFill[t] \in Nat /\ lastFill[t] <= now
    BY DEF BucketInv, GrantsInv, LimiterTypeOK
  <1>2. n \in Nat /\ n < MaxCalls
    BY <1>1, FS_CardinalityType DEF Grant
  <1>3. grants' = [grants EXCEPT ![t] = grants[t] \cup {g}] /\ lastFill'[t] = now
    BY DEF Grant, Touch, BucketInv, LimiterTypeOK
  <1>4. grants'[t] = grants[t] \cup {g}
    BY <1>3 DEF BucketInv, GrantsInv
  <1>5. g \notin grants[t] /\ g[1] = n /\ g[2] = now /\ g \in Nat \X Nat
    BY <1>1, <1>2
  <1> HIDE DEF g
  <1>6. IsFiniteSet(grants'[t]) /\ Cardinality(grants'[t]) = n + 1
    BY <1>1, <1>4, <1>5, FS_AddElement
  <1>7. \A x \in grants'[t] : x[1] < n + 1 /\ x[2] <= now
    <2> SUFFICES ASSUME NEW x \in grants'[t] PROVE x[1] < n + 1 /\ x[2] <= now
      OBVIOUS
    <2>1. CASE x \in grants[t]
      BY <1>1, <1>2, <2>1
    <2>2. CASE x = g
      BY <1>1, <1>2, <1>5, <2>2
    <2> QED
      BY <1>4, <2>1, <2>2
  <1>8. GrantsInv'
    <2>1. grants' \in [Tenants -> SUBSET (Nat \X Nat)]
      BY <1>1, <1>3, <1>5 DEF BucketInv, GrantsInv
    <2>2. known' = known \cup {t}
      BY DEF Grant, Touch
    <2>3. \A u \in Tenants \ {t} : grants'[u] = grants[u] /\ lastFill'[u] = lastFill[u]
      BY <1>3 DEF Grant, Touch, BucketInv, GrantsInv, LimiterTypeOK
    <2>4. \A u \in Tenants \ {t} :
              /\ IsFiniteSet(grants'[u])
              /\ \A x \in grants'[u] :
                     x[1] < Cardinality(grants'[u]) /\ x[2] <= lastFill'[u]
              /\ u \notin known' => grants'[u] = {}
      BY <2>2, <2>3 DEF BucketInv, GrantsInv
    <2> QED
      BY <1>3, <1>6, <1>7, <2>1, <2>2, <2>4 DEF GrantsInv
  <1>9. ASSUME NEW s \in 0..now
        PROVE  GrantedSince(t, s)' = GrantedSince(t, s) + 1
    <2>1. {x \in grants'[t] : x[2] >= s} = {x \in grants[t] : x[2] >= s} \cup {g}
      BY <1>1, <1>4, <1>5
    <2>2. g \notin {x \in grants[t] : x[2] >= s}
      BY <1>5
    <2>3. IsFiniteSet({x \in grants[t] : x[2] >= s})
      BY <1>1, GrantsFinite
    <2> QED
      BY <2>1, <2>2, <2>3, FS_AddElement DEF GrantedSince
  <1>10. grants'[t] \subseteq (0..(MaxCalls - 1)) \X (0..MaxTime)
    <2>1. g \in (0..(MaxCalls - 1)) \X (0..MaxTime)
      BY <1>1, <1>2, ConstantsType DEF g
    <2>2. grants[t] \subseteq (0..(MaxCalls - 1)) \X (0..MaxTime)
      BY DEF BucketInv, LimiterTypeOK
    <2> QED
      BY <1>4, <2>1, <2>2
  <1> QED
    BY <1>8, <1>9, <1>10

\* Every step keeps the inductive invariant.
LEMMA BucketStep == BucketInv /\ [LimiterNext]_limiterVars => BucketInv'
  <1> SUFFICES ASSUME BucketInv, [LimiterNext]_limiterVars PROVE BucketInv'
    OBVIOUS
  <1>0. now \in Nat /\ Capacity \in Nat /\ Rate \in Nat /\ TokenParts \in Nat
    BY ConstantsType DEF BucketInv, LimiterTypeOK
  \* A call of a tenant touches its own bucket only.
  <1>1. ASSUME NEW t \in Tenants, Grant(t) \/ Refuse(t)
        PROVE  /\ now' = now
               /\ known' = known \cup {t} /\ lastFill'[t] = now
               /\ lastFill' \in [Tenants -> 0..now]
               /\ \A u \in Tenants \ {t} :
                      UNCHANGED <<tokens[u], lastFill[u], grants[u]>>
    BY <1>0, <1>1 DEF Grant, Refuse, Touch, BucketInv, LimiterTypeOK, GrantsInv
  <1>2. ASSUME NEW t \in Tenants, Grant(t) \/ Refuse(t),
               \A s \in 0..now : Spent(t, s)' = TokenParts * GrantedSince(t, s) + Filled(t)
        PROVE  UpperInv' /\ LowerInv'
    <2>1. \A s : Added(t, s)' = Capacity + Rate * (now - s)
      BY <1>1, <1>2 DEF Added
    <2>2. /\ \A s \in 0..now : Spent(t, s)' <= Added(t, s)'
          /\ \E s \in 0..now : Spent(t, s)' >= Added(t, s)'
      BY <1>2, <2>1, FilledAccounts
    <2>3. \A u \in Tenants \ {t} : \A s :
              Spent(u, s)' = Spent(u, s) /\ Added(u, s)' = Added(u, s)
      BY <1>1, <1>2 DEF Spent, Added, GrantedSince
    <2>4. known' = known \cup {t} /\ known \subseteq Tenants
      BY <1>1, <1>2 DEF BucketInv, LimiterTypeOK
    <2>5. lastFill'[t] = now /\ \A u \in Tenants \ {t} : lastFill'[u] = lastFill[u]
      BY <1>1, <1>2
    <2>6. UpperInv'
      <3> SUFFICES ASSUME NEW u \in known', NEW s \in 0..lastFill'[u]
                   PROVE  Spent(u, s)' <= Added(u, s)'
        BY DEF UpperInv
      <3>1. CASE u = t
        BY <2>2, <2>5, <3>1
      <3>2. CASE u # t
        <4>1. u \in known /\ u \in Tenants \ {t} /\ lastFill'[u] = lastFill[u]
          BY <2>4, <2>5, <3>2
        <4> QED
          BY <2>3, <4>1 DEF BucketInv, UpperInv
      <3> QED
        BY <3>1, <3>2
    <2>7. LowerInv'
      <3> SUFFICES ASSUME NEW u \in known'
                   PROVE  \E s \in 0..lastFill'[u] : Spent(u, s)' >= Added(u, s)'
        BY DEF LowerInv
      <3>1. CASE u = t
        BY <2>2, <2>5, <3>1
      <3>2. CASE u # t
        <4>1. u \in known /\ u \in Tenants \ {t} /\ lastFill'[u] = lastFill[u]
          BY <2>4, <2>5, <3>2
        <4> QED
          BY <2>3, <4>1 DEF BucketInv, LowerInv
      <3> QED
        BY <3>1, <3>2
    <2> QED
      BY <2>6, <2>7
  <1>3. ASSUME NEW t \in Tenants, Grant(t) PROVE BucketInv'
    <2>1. Filled(t) \in 0..Capacity /\ Filled(t) >= TokenParts
      BY <1>3, FilledValue DEF Grant
    <2>2. tokens' \in [Tenants -> 0..Capacity] /\ tokens'[t] = Filled(t) - TokenParts
      BY <1>0, <1>3, <2>1 DEF Grant, BucketInv, LimiterTypeOK
    <2>3. GrantsInv' /\ grants'[t] \subseteq (0..(MaxCalls - 1)) \X (0..MaxTime)
      BY <1>3, GrantCounts
    <2>4. LimiterTypeOK'
      BY <1>1, <1>3, <2>2, <2>3 DEF LimiterTypeOK, BucketInv
    <2>5. \A s \in 0..now : Spent(t, s)' = TokenParts * GrantedSince(t, s) + Filled(t)
      <3> SUFFICES ASSUME NEW s \in 0..now
                   PROVE  Spent(t, s)' = TokenParts * GrantedSince(t, s) + Filled(t)
        OBVIOUS
      <3>1. GrantedSince(t, s)' = GrantedSince(t, s) + 1
        BY <1>3, GrantCounts
      <3>2. GrantedSince(t, s) \in Nat
        BY <1>0, GrantedSinceType
      <3>3. /\ TokenParts * (GrantedSince(t, s) + 1)
                   = TokenParts * GrantedSince(t, s) + TokenParts
            /\ TokenParts * GrantedSince(t, s) \in Int
        BY <1>0, <3>2, OneMore
      <3> QED
        BY <1>0, <2>1, <2>2, <3>1, <3>3 DEF Spent
    <2> QED
      BY <1>2, <1>3, <2>3, <2>4, <2>5 DEF BucketInv
  <1>4. ASSUME NEW t \in Tenants, Refuse(t) PROVE BucketInv'
    <2>1. Filled(t) \in 0..Capacity
      BY FilledValue
    <2>2. tokens' \in [Tenants -> 0..Capacity] /\ tokens'[t] = Filled(t) /\ grants' = grants
      BY <1>4, <2>1 DEF Refuse, BucketInv, LimiterTypeOK
    <2>3. LimiterTypeOK'
      BY <1>1, <1>4, <2>2 DEF LimiterTypeOK, BucketInv
    <2>4. GrantsInv'
      <3>1. \A u \in Tenants : lastFill[u] \in Nat /\ lastFill[u] <= lastFill'[u]
        BY <1>1, <1>4 DEF BucketInv, LimiterTypeOK
      <3>2. \A u \in Tenants : \A g \in grants[u] : g[2] \in Nat /\ g[2] <= lastFill[u]
        BY DEF BucketInv, GrantsInv
      <3>3. \A u \in Tenants : \A g \in grants[u] : g[2] <= lastFill'[u]
        BY <1>0, <1>1, <1>4, <3>1, <3>2 DEF BucketInv, LimiterTypeOK
      <3> QED
        BY <1>1, <1>4, <2>2, <3>3 DEF BucketInv, GrantsInv
    <2>5. \A s \in 0..now : Spent(t, s)' = TokenParts * GrantedSince(t, s) + Filled(t)
      BY <2>2 DEF Spent, GrantedSince
    <2> QED
      BY <1>2, <1>4, <2>3, <2>4, <2>5 DEF BucketInv
  <1>5. CASE Tick \/ UNCHANGED limiterVars
    <2>1. UNCHANGED <<known, tokens, lastFill, grants>> /\ now' \in 0..MaxTime /\ now <= now'
      BY <1>0, <1>5, ConstantsType DEF Tick, limiterVars, BucketInv, LimiterTypeOK
    <2>2. LimiterTypeOK'
      BY <1>0, <2>1 DEF BucketInv, LimiterTypeOK
    <2>3. \A t, s : Spent(t, s)' = Spent(t, s) /\ Added(t, s)' = Added(t, s)
      BY <2>1 DEF Spent, Added, GrantedSince
    <2>4. UpperInv' /\ LowerInv'
      BY <2>1, <2>3 DEF BucketInv, UpperInv, LowerInv
    <2> QED
      BY <2>1, <2>2, <2>4 DEF BucketInv, GrantsInv
  <1> QED
    BY <1>3, <1>4, <1>5 DEF LimiterNext, Over

-----------------------------------------------------------------------------
(* The theorems.                                                           *)

\* The accounts of the buckets bound what every period was granted.
LEMMA AccountsBoundRate == BucketInv => RateInv
  <1> SUFFICES ASSUME BucketInv, NEW t \in Tenants, NEW s \in 0..now
               PROVE  TokenParts * GrantedSince(t, s) <= Allowance(s)
    BY DEF BucketInv, RateInv, NeverAboveRate
  <1>1. /\ now \in Nat /\ Capacity \in Nat /\ Rate \in Nat /\ TokenParts \in Nat
        /\ Filled(t) \in 0..Capacity
    BY ConstantsType, FilledValue DEF BucketInv, LimiterTypeOK
  <1>2. GrantedSince(t, s) \in Nat
    BY <1>1, GrantedSinceType
  <1>3. TokenParts * GrantedSince(t, s) \in Int /\ Rate * (now - s) \in Int
    BY <1>1, <1>2
  <1> QED
    BY <1>1, <1>3, FilledAccounts DEF Allowance

\* In no period, wherever it starts, is a tenant granted more than a burst and
\* the rate, and no bucket overflows or is overdrawn (allow).
THEOREM RateNeverExceeded == LimiterSpec => []RateInv
  BY BucketInit, BucketStep, AccountsBoundRate, PTL DEF LimiterSpec

\* A tenant is refused only where one more request would exceed what some period
\* allows it: idle time, refusals and other tenants cost it nothing (allow).
THEOREM RefusalsJustified == LimiterSpec => []RefusedOnlyForOwnUse
  <1>1. BucketInv => RefusedOnlyForOwnUse
    <2> SUFFICES ASSUME BucketInv, NEW t \in Tenants, Filled(t) < TokenParts
                 PROVE  \E s \in 0..now :
                            TokenParts * (GrantedSince(t, s) + 1) > Allowance(s)
      BY DEF RefusedOnlyForOwnUse
    <2>1. /\ now \in Nat /\ Capacity \in Nat /\ Rate \in Nat /\ TokenParts \in Nat
          /\ Filled(t) \in 0..Capacity
      BY ConstantsType, FilledValue DEF BucketInv, LimiterTypeOK
    <2>2. PICK s \in 0..now : TokenParts * GrantedSince(t, s) + Filled(t)
                                >= Capacity + Rate * (now - s)
      BY FilledAccounts
    <2>3. GrantedSince(t, s) \in Nat
      BY <2>1, GrantedSinceType
    <2>4. /\ TokenParts * (GrantedSince(t, s) + 1)
                = TokenParts * GrantedSince(t, s) + TokenParts
          /\ TokenParts * GrantedSince(t, s) \in Int /\ Rate * (now - s) \in Int
      BY <2>1, <2>3, OneMore
    <2> QED
      BY <2>1, <2>2, <2>4 DEF Allowance
  <1> QED
    BY <1>1, BucketInit, BucketStep, PTL DEF LimiterSpec

-----------------------------------------------------------------------------
(* The integrity checks and the life of the process.                       *)

\* What MonitorTypeOK leaves open: the histories, and who is ahead of whom among the
\* self-tester, the published results and the copies of them.
HistoryInv ==
    /\ stood \in [Probes -> SUBSET {"tampered", "critical"}]
    /\ met \in [Probes -> SUBSET {"tampered", "critical"}]
    /\ tester = NoRun \/ tester.run = results.run + 1
    /\ updater.run <= results.run
    /\ phase = "starting" => \A p \in Probes : probe[p] = "idle"

\* While a request runs, the problems that stood are still there, and those that
\* are there were met; what Verify saw is in the report.
RunningInv ==
    \A p \in Probes :
        /\ probe[p] \in {"verify", "results"} =>
               /\ stood[p] \subseteq Problems(exe, results)
               /\ Problems(exe, results) \subseteq met[p]
        /\ probe[p] = "results" =>
               /\ "tampered" \in stood[p] => report[p] = "error"
               /\ report[p] = "error" => met[p] # {}

\* The inductive invariant.
HealthInv == MonitorInv /\ HistoryInv /\ RunningInv

\* There are two problems, and the file and the results decide which are there.
LEMMA ProblemsFacts ==
    ASSUME NEW file, NEW res \in Runs
    PROVE  /\ Problems(file, res) \subseteq {"tampered", "critical"}
           /\ "tampered" \in Problems(file, res) <=> file # startup
           /\ "critical" \in Problems(file, res) <=> res.critical
  BY DEF Problems, Runs

\* No run has number zero, and its results are not critical.
LEMMA NoRunType == NoRun \in Runs /\ NoRun.run = 0 /\ NoRun.critical = FALSE
  BY MonitorAssumption DEF NoRun, Runs

\* The process starts with nothing observed.
LEMMA MonitorStarts == MonitorInit => HealthInv
  <1> SUFFICES ASSUME MonitorInit PROVE HealthInv
    OBVIOUS
  <1>1. MonitorTypeOK
    BY NoRunType, MonitorAssumption DEF MonitorInit, MonitorTypeOK, Files
  <1>2. HealthTruthful
    BY DEF MonitorInit, HealthTruthful
  <1>3. HistoryInv /\ RunningInv
    BY NoRunType DEF MonitorInit, HistoryInv, RunningInv
  <1> QED
    BY <1>1, <1>2, <1>3 DEF HealthInv, MonitorInv

\* Observe keeps the histories of running requests true to the new file and
\* results, and leaves the reports alone.
LEMMA ObserveKeeps ==
    ASSUME HealthInv, NEW file, NEW res \in Runs,
           Observe(file, res), exe' = file, results' = res,
           UNCHANGED <<startup, phase, Health>>
    PROVE  /\ HealthTruthful'
           /\ RunningInv'
           /\ stood' \in [Probes -> SUBSET {"tampered", "critical"}]
           /\ met' \in [Probes -> SUBSET {"tampered", "critical"}]
           /\ phase' = "starting" => \A p \in Probes : probe'[p] = "idle"
  <1> USE DEF HealthInv, MonitorInv, MonitorTypeOK, HistoryInv, Health
  <1>1. Problems(file, res)' = Problems(file, res)
    BY DEF Problems
  <1>2. \A p \in Probes :
            IF probe[p] \in {"verify", "results"}
              THEN /\ stood'[p] = stood[p] \cap Problems(file, res)
                   /\ met'[p] = met[p] \cup Problems(file, res)
              ELSE stood'[p] = stood[p] /\ met'[p] = met[p]
    BY DEF Observe
  <1>3. /\ stood' \in [Probes -> SUBSET {"tampered", "critical"}]
        /\ met' \in [Probes -> SUBSET {"tampered", "critical"}]
    BY ProblemsFacts DEF Observe
  <1>4. HealthTruthful'
    BY <1>2 DEF HealthTruthful
  <1>5. Problems(exe, results)' = Problems(file, res)
    BY <1>1 DEF Problems
  <1>6. RunningInv'
    BY <1>2, <1>5 DEF RunningInv
  <1> QED
    BY <1>3, <1>4, <1>6

\* Every step keeps the inductive invariant.
LEMMA MonitorKeeps == HealthInv /\ [MonitorNext]_monitorVars => HealthInv'
  <1> SUFFICES ASSUME HealthInv, [MonitorNext]_monitorVars PROVE HealthInv'
    OBVIOUS
  <1> USE DEF HealthInv, MonitorInv, Background, Health
  \* Most steps leave alone what the health requests look at.
  <1>1. ASSUME UNCHANGED <<exe, startup, results, Health, stood, met>>
        PROVE  HealthTruthful' /\ RunningInv'
    <2>1. Problems(exe, results)' = Problems(exe, results)
      BY <1>1 DEF Problems
    <2> QED
      BY <1>1, <2>1 DEF HealthTruthful, RunningInv
  <1>2. CASE Start
    <2>1. HealthTruthful' /\ RunningInv'
      BY <1>2 DEF Start, HistoryInv, HealthTruthful, RunningInv
    <2>2. MonitorTypeOK'
      BY <1>2, MonitorAssumption DEF Start, MonitorTypeOK, Files
    <2> QED
      BY <1>2, <2>1, <2>2 DEF Start, HistoryInv
  <1>3. CASE RefuseToServe \/ Stop \/ Exit
    BY <1>1, <1>3 DEF RefuseToServe, Stop, Exit, MonitorTypeOK, HistoryInv
  <1>4. ASSUME NEW file \in {"built", "other", "unreadable"}, Change(file)
        PROVE  HealthInv'
    <2>1. results \in Runs
      BY DEF MonitorTypeOK
    <2>2. MonitorTypeOK'
      BY <1>4, MonitorAssumption DEF Change, MonitorTypeOK, Files
    <2> QED
      BY <1>4, <2>1, <2>2, ObserveKeeps DEF Change, HistoryInv
  <1>5. CASE RunTests
    <2>1. PICK c \in BOOLEAN : tester' = [run |-> results.run + 1, critical |-> c]
      BY <1>5 DEF RunTests
    <2>2. tester' \in Runs /\ tester'.run = results.run + 1
      BY <1>5, <2>1, MonitorAssumption DEF RunTests, MonitorTypeOK, Runs
    <2> QED
      BY <1>1, <1>5, <2>2 DEF RunTests, MonitorTypeOK, HistoryInv
  <1>6. CASE Publish
    <2>1. tester \in Runs /\ tester.run = results.run + 1 /\ results \in Runs
      BY <1>6 DEF Publish, MonitorTypeOK, HistoryInv
    <2>2. results'.run = results.run + 1 /\ results.run \in Int
      BY <1>6, <2>1 DEF Publish, Runs
    <2>3. gauge.run \in Int /\ updater.run \in Int
      BY DEF MonitorTypeOK, Runs
    <2>4. MonitorTypeOK'
      BY <1>6, <2>1, <2>2, <2>3, NoRunType DEF Publish, MonitorTypeOK
    <2>5. /\ HealthTruthful'
          /\ RunningInv'
          /\ stood' \in [Probes -> SUBSET {"tampered", "critical"}]
          /\ met' \in [Probes -> SUBSET {"tampered", "critical"}]
          /\ phase' = "starting" => \A p \in Probes : probe'[p] = "idle"
      BY <1>6, <2>1, ObserveKeeps DEF Publish
    <2> QED
      BY <1>6, <2>2, <2>3, <2>4, <2>5 DEF Publish, HistoryInv
  <1>7. CASE Watch \/ SetMatches
    <2>1. MonitorTypeOK'
      BY <1>7 DEF Watch, SetMatches, MonitorTypeOK
    <2> QED
      BY <1>1, <1>7, <2>1 DEF Watch, SetMatches, HistoryInv
  <1>8. CASE ReadResults \/ SetGauge
    <2>1. updater'.run <= results.run /\ gauge'.run <= results.run
      BY <1>8, NoRunType DEF ReadResults, SetGauge, MonitorTypeOK, HistoryInv, Runs
    <2>2. MonitorTypeOK'
      BY <1>8, <2>1, NoRunType DEF ReadResults, SetGauge, MonitorTypeOK
    <2> QED
      BY <1>1, <1>8, <2>1, <2>2 DEF ReadResults, SetGauge, HistoryInv
  <1>9. ASSUME NEW p \in Probes, ProbeStart(p) \/ ProbeVerify(p) \/ ProbeResults(p)
        PROVE  HealthInv'
    <2>1. /\ UNCHANGED <<phase, exe, changes, startup, results, matches, gauge>>
          /\ UNCHANGED Background
          /\ Alive
      BY <1>9 DEF ProbeStart, ProbeVerify, ProbeResults, Unobserved, Step
    <2>2. Problems(exe, results)' = Problems(exe, results) /\ results \in Runs
      BY <2>1 DEF Problems, MonitorTypeOK
    <2>3. /\ probe' \in [Probes -> {"idle", "verify", "results", "done"}]
          /\ report' \in [Probes -> {"none", "ok", "error"}]
      BY <1>9 DEF ProbeStart, ProbeVerify, ProbeResults, Step, MonitorTypeOK
    <2>4. /\ stood' \in [Probes -> SUBSET {"tampered", "critical"}]
          /\ met' \in [Probes -> SUBSET {"tampered", "critical"}]
      BY <1>9, <2>2, ProblemsFacts
         DEF ProbeStart, ProbeVerify, ProbeResults, HistoryInv
    <2>5. MonitorTypeOK' /\ HistoryInv'
      BY <2>1, <2>3, <2>4 DEF MonitorTypeOK, HistoryInv, Alive
    <2>6. \A q \in Probes \ {p} :
              UNCHANGED <<probe[q], report[q], stood[q], met[q]>>
      BY <1>9 DEF ProbeStart, ProbeVerify, ProbeResults, Step, MonitorTypeOK, HistoryInv
    <2>7. ASSUME ProbeStart(p) PROVE HealthTruthful' /\ RunningInv'
      <3>1. /\ probe'[p] = "verify" 
            /\ stood'[p] = Problems(exe, results)
            /\ met'[p] = Problems(exe, results)
        BY <2>7 DEF ProbeStart, Step, MonitorTypeOK, HistoryInv
      <3> QED
        BY <2>2, <2>6, <3>1 DEF HealthTruthful, RunningInv
    <2>8. ASSUME ProbeVerify(p) PROVE HealthTruthful' /\ RunningInv'
      <3>1. /\ probe[p] = "verify" /\ probe'[p] = "results"
            /\ report'[p] = IF exe = startup THEN "ok" ELSE "error"
            /\ UNCHANGED <<stood, met>>
        BY <2>8 DEF ProbeVerify, Step, MonitorTypeOK
      <3>2. /\ stood[p] \subseteq Problems(exe, results)
            /\ Problems(exe, results) \subseteq met[p]
        BY <3>1 DEF RunningInv
      <3>3. /\ "tampered" \in stood[p] => report'[p] = "error"
            /\ report'[p] = "error" => met[p] # {}
        BY <2>2, <3>1, <3>2, ProblemsFacts
      <3> QED
        BY <2>2, <2>6, <3>1, <3>2, <3>3 DEF HealthTruthful, RunningInv
    <2>9. ASSUME ProbeResults(p) PROVE HealthTruthful' /\ RunningInv'
      <3>1. /\ probe[p] = "results" /\ probe'[p] = "done"
            /\ report'[p] = IF results.critical THEN "error" ELSE report[p]
            /\ UNCHANGED <<stood, met>>
        BY <2>9 DEF ProbeResults, Step, MonitorTypeOK
      <3>2. /\ stood[p] \subseteq Problems(exe, results)
            /\ Problems(exe, results) \subseteq met[p]
            /\ "tampered" \in stood[p] => report[p] = "error"
            /\ report[p] = "error" => met[p] # {}
            /\ stood[p] \subseteq {"tampered", "critical"}
        BY <3>1 DEF RunningInv, HistoryInv
      <3>3. /\ stood[p] # {} => report'[p] = "error"
            /\ report'[p] = "error" => met[p] # {}
        BY <2>2, <3>1, <3>2, ProblemsFacts
      <3> QED
        BY <2>2, <2>6, <3>1, <3>3 DEF HealthTruthful, RunningInv
    <2> QED
      BY <1>9, <2>5, <2>7, <2>8, <2>9
  <1>10. CASE UNCHANGED monitorVars
    <2>1. HealthTruthful' /\ RunningInv'
      BY <1>1, <1>10 DEF monitorVars
    <2> QED
      BY <1>10, <2>1 DEF monitorVars, MonitorTypeOK, HistoryInv
  <1> QED
    BY <1>2, <1>3, <1>4, <1>5, <1>6, <1>7, <1>8, <1>9, <1>10 DEF MonitorNext, Down

\* However the tickers, the changes of the file and the requests interleave, a
\* health report misses no problem that stood and invents none, and a release
\* build serves from its own executable only (runServe, handleHealth).
THEOREM MonitorInvariant == MonitorSpec => []MonitorInv
  <1>1. HealthInv => MonitorInv
    BY DEF HealthInv
  <1> QED
    BY <1>1, MonitorStarts, MonitorKeeps, PTL DEF MonitorSpec
=============================================================================
