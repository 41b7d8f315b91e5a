----------------------------- MODULE ReseedProofs -----------------------------
(***************************************************************************)
(* Theorems about Reseed, for every set of requests, every interval and    *)
(* every number of clients.                                                *)
(***************************************************************************)
EXTENDS Reseed, FiniteSetTheorems, TLAPS

\* The most draws an item can take.
PerItem == Max(DrawCounts) + MaxRejects

\* What the items past the check of the counter may still draw: one pair for each
\* draw, so that their number is a cardinality.
Drawing == {"time", "stamp", "draw"}
Budget == {x \in InFlight \X (1..PerItem) :
              /\ pc[x[1]] \in Drawing
              /\ x[2] <= left[x[1]] + MaxRejects - rejects[x[1]]}

\* The holder of reseedMu, and what it found.
MutexInv ==
    \A r \in Requests :
        /\ pc[r] \in {"recheck", "collect", "stamp"} => reseedMu = r
        /\ pc[r] = "collect" => CountDue \/ TimeDue

\* No more items than clients.
ClientsInv == IsFiniteSet(InFlight) /\ Cardinality(InFlight) <= Clients

\* What was drawn from the seed, with what may still be drawn without another
\* check of the counter.
BudgetInv == drawn + Cardinality(Budget) < IntervalOutputs + Clients * PerItem

\* Up to the moment the count is due, the reseeds there were fit the time up to
\* lastReseed; while a reseed is yet to be stamped they fit the time up to now.
ApartInv ==
    ~CountDue =>
        /\ seeds * IntervalSeconds <= now
        /\ \/ seeds * IntervalSeconds <= lastReseed
           \/ \E r \in Requests : pc[r] = "stamp"

\* The inductive invariant.
FullInv == TypeOK /\ MutexInv /\ ClientsInv /\ BudgetInv /\ ApartInv

-----------------------------------------------------------------------------
(* Numbers.                                                                *)

\* A finite set of numbers has a largest element: a smallest counterexample loses
\* an element, and the largest of the rest or that element is its largest.
LEMMA LargestExists ==
    ASSUME NEW S, IsFiniteSet(S), S \subseteq Nat, S # {}
    PROVE  \E m \in S : \A x \in S : m >= x
  <1> DEFINE Bad == {T \in FiniteSubsetsOf(S) :
                        T # {} /\ ~ \E m \in T : \A x \in T : m >= x}
  <1> SUFFICES ASSUME Bad # {} PROVE FALSE
    BY DEF FiniteSubsetsOf
  <1>1. PICK T \in Bad : \A U \in Bad : ~ (<<U, T>> \in StrictSubsetOrdering(S))
    <2>1. IsWellFoundedOn(StrictSubsetOrdering(S), FiniteSubsetsOf(S))
      BY FS_StrictSubsetOrderingWellFounded
    <2>2. Bad \subseteq FiniteSubsetsOf(S)
      OBVIOUS
    <2> HIDE DEF Bad
    <2> QED
      BY <2>1, <2>2, WFMin
  <1>2. T \subseteq S /\ IsFiniteSet(T) /\ T # {}
    BY DEF FiniteSubsetsOf
  <1>3. PICK t \in T : TRUE
    BY <1>2
  <1>4. T \ {t} \subseteq S /\ IsFiniteSet(T \ {t})
    BY <1>2, FS_RemoveElement
  <1>5. <<T \ {t}, T>> \in StrictSubsetOrdering(S)
    BY <1>2, <1>3 DEF StrictSubsetOrdering
  <1>6. T \ {t} \notin Bad
    BY <1>1, <1>5
  <1>7. \/ T \ {t} = {}
        \/ \E m \in T \ {t} : \A x \in T \ {t} : m >= x
    BY <1>4, <1>6 DEF FiniteSubsetsOf
  <1>8. \A x \in T : x \in Int
    BY <1>2
  <1>9. \E m \in T : \A x \in T : m >= x
    <2>1. CASE T \ {t} = {}
      BY <1>3, <1>8, <2>1
    <2>2. ASSUME NEW m \in T \ {t}, \A x \in T \ {t} : m >= x
          PROVE  \E n \in T : \A x \in T : n >= x
      <3>1. CASE m >= t
        BY <1>3, <2>2, <3>1
      <3>2. CASE t >= m
        <4>1. \A x \in T : t >= x
          BY <1>3, <1>8, <2>2, <3>2
        <4> QED
          BY <4>1
      <3> QED
        BY <1>8, <2>2, <3>1, <3>2
    <2> QED
      BY <1>7, <2>1, <2>2
  <1> QED
    BY <1>9

\* The constants are numbers, and no item draws more than the largest count.
LEMMA ConstantsType ==
    /\ Max(DrawCounts) \in Nat /\ \A n \in DrawCounts : n \in 0..Max(DrawCounts)
    /\ Clients \in Nat /\ IntervalOutputs \in Nat /\ IntervalOutputs > 0
    /\ IntervalSeconds \in Nat /\ SampleSize \in Nat /\ MaxRejects \in Nat
    /\ MaxTime \in Nat /\ MaxSelfTests \in Nat
    /\ PerItem \in Nat
  <1>1. \E m \in DrawCounts : \A x \in DrawCounts : m >= x
    BY PolicyAssumption, LargestExists
  <1>2. Max(DrawCounts) \in DrawCounts /\ \A x \in DrawCounts : Max(DrawCounts) >= x
    BY <1>1 DEF Max
  <1>3. Max(DrawCounts) \in Nat /\ \A n \in DrawCounts : n \in 0..Max(DrawCounts)
    <2>1. \A n \in DrawCounts : n \in Nat
      BY PolicyAssumption
    <2> HIDE DEF Max
    <2> QED
      BY <1>2, <2>1
  <1>4. /\ Clients \in Nat /\ IntervalOutputs \in Nat /\ IntervalOutputs > 0
        /\ IntervalSeconds \in Nat /\ SampleSize \in Nat /\ MaxRejects \in Nat
        /\ MaxTime \in Nat /\ MaxSelfTests \in Nat
    BY PolicyAssumption
  <1> QED
    BY <1>3, <1>4 DEF PerItem

\* What so many items may draw together.
LEMMA ProductBound ==
    ASSUME NEW S, IsFiniteSet(S), Cardinality(S) <= Clients,
           NEW T, T \subseteq S \X (1..PerItem)
    PROVE  /\ IsFiniteSet(T) /\ Cardinality(T) \in Nat
           /\ Cardinality(T) <= Clients * PerItem
           /\ Clients * PerItem \in Nat
  <1>1. PerItem \in Nat /\ Clients \in Nat
    BY ConstantsType
  <1>2. IsFiniteSet(1..PerItem) /\ Cardinality(1..PerItem) = PerItem
    BY <1>1, FS_Interval
  <1>3. Cardinality(S) \in Nat
    BY FS_CardinalityType
  <1>4. /\ IsFiniteSet(S \X (1..PerItem))
        /\ Cardinality(S \X (1..PerItem)) = Cardinality(S) * PerItem
    BY <1>2, FS_Product
  <1>5. IsFiniteSet(T) /\ Cardinality(T) <= Cardinality(S) * PerItem
    BY <1>4, FS_Subset
  <1>6. Cardinality(S) * PerItem <= Clients * PerItem
    BY <1>1, <1>3
  <1>7. Cardinality(T) \in Nat
    BY <1>5, FS_CardinalityType
  <1>8. Clients * PerItem \in Nat /\ Cardinality(S) * PerItem \in Nat
    BY <1>1, <1>3
  <1> QED
    BY <1>5, <1>6, <1>7, <1>8

\* What all items in flight may draw together.
LEMMA BudgetBound ==
    ASSUME ClientsInv
    PROVE  /\ IsFiniteSet(Budget) /\ Cardinality(Budget) \in Nat
           /\ Cardinality(Budget) <= Clients * PerItem
           /\ Clients * PerItem \in Nat
  <1>1. Budget \subseteq InFlight \X (1..PerItem)
    BY DEF Budget
  <1> QED
    BY <1>1, ProductBound DEF ClientsInv

-----------------------------------------------------------------------------
(* The parts of the invariant.                                             *)

\* Nothing is in flight or drawn at the start.
LEMMA ReseedInit == Init => FullInv
  <1> SUFFICES ASSUME Init PROVE FullInv
    OBVIOUS
  <1>1. TypeOK
    BY ConstantsType DEF Init, TypeOK, Finished
  <1>2. InFlight = {}
    BY DEF Init, InFlight
  <1>3. ClientsInv
    BY <1>2, FS_EmptySet, ConstantsType DEF ClientsInv
  <1>4. Cardinality(Budget) <= Clients * PerItem /\ Cardinality(Budget) \in Nat
    BY <1>3, BudgetBound
  <1>5. Clients * PerItem \in Nat /\ IntervalOutputs \in Nat /\ IntervalOutputs > 0
    BY <1>3, BudgetBound, ConstantsType
  <1>6. BudgetInv
    BY <1>4, <1>5 DEF Init, BudgetInv
  <1>7. MutexInv
    BY DEF Init, MutexInv
  <1>8. ApartInv
    BY ConstantsType DEF Init, ApartInv
  <1> QED
    BY <1>1, <1>3, <1>6, <1>7, <1>8 DEF FullInv

\* The steps that only move an item on.
Moves(r) ==
    CheckCount(r) \/ CheckTime(r) \/ LockReseed(r) \/ Recheck(r) \/ CollectFails(r)
        \/ ReseedDrbg(r) \/ Stamp(r) \/ Finish(r)

\* Every step keeps every variable in its type.
LEMMA TypeStep == FullInv /\ [Next]_vars => TypeOK'
  <1> SUFFICES ASSUME FullInv, [Next]_vars PROVE TypeOK'
    OBVIOUS
  <1> USE ConstantsType DEF FullInv, TypeOK, Finished
  <1>1. ASSUME NEW r \in Requests, Arrive(r) PROVE TypeOK'
    <2>1. PICK n \in DrawCounts : left' = [left EXCEPT ![r] = n]
      BY <1>1 DEF Arrive
    <2>2. left' \in [Requests -> 0..Max(DrawCounts)]
      BY <2>1
    <2> QED
      BY <1>1, <2>2 DEF Arrive, Goto
  <1>2. ASSUME NEW r \in Requests, Moves(r) PROVE TypeOK'
    <2>1. /\ pc' \in [Requests -> {"idle", "count", "time", "lock", "recheck", "collect",
                                   "stamp", "draw"} \cup Finished]
          /\ reseedMu' \in Requests \cup {NoRequest}
      BY <1>2 DEF Moves, CheckCount, CheckTime, LockReseed, Recheck, CollectFails,
                  ReseedDrbg, Stamp, Finish, Goto
    <2>2. UNCHANGED <<left, rejects, outputs, now, selfTests>>
      BY <1>2 DEF Moves, CheckCount, CheckTime, LockReseed, Recheck, CollectFails,
                  ReseedDrbg, Stamp, Finish
    <2>3. lastReseed' \in 0..now
      BY <1>2 DEF Moves, CheckCount, CheckTime, LockReseed, Recheck, CollectFails,
                  ReseedDrbg, Stamp, Finish
    <2>4. \/ UNCHANGED <<seeds, drawn, sampled>>
          \/ seeds' = seeds + 1 /\ drawn' = 0 /\ sampled' = 0
      BY <1>2 DEF Moves, CheckCount, CheckTime, LockReseed, Recheck, CollectFails,
                  ReseedDrbg, Stamp, Finish
    <2> QED
      BY <2>1, <2>2, <2>3, <2>4
  <1>3. ASSUME NEW r \in Requests, Draw(r) PROVE TypeOK'
    <2>1. left' \in [Requests -> 0..Max(DrawCounts)] /\ rejects' \in [Requests -> 0..MaxRejects]
      BY <1>3 DEF Draw
    <2>2. outputs' = outputs + 1 /\ drawn' = drawn + 1
      BY <1>3 DEF Draw
    <2>3. UNCHANGED <<pc, now, lastReseed, reseedMu, seeds, sampled, selfTests>>
      BY <1>3 DEF Draw
    <2> QED
      BY <2>1, <2>2, <2>3
  <1>4. CASE SelfTest
    BY <1>4 DEF SelfTest
  <1>5. CASE Tick
    BY <1>5 DEF Tick
  <1>6. CASE UNCHANGED vars
    BY <1>6 DEF vars
  <1> QED
    BY <1>1, <1>2, <1>3, <1>4, <1>5, <1>6 DEF Next, Handler, Served, Moves

\* reseedMu keeps what its holder found true: the counter never goes back, and
\* only the holder sets lastReseed.
LEMMA MutexStep == FullInv /\ [Next]_vars => MutexInv'
  <1> SUFFICES ASSUME FullInv, [Next]_vars PROVE MutexInv'
    OBVIOUS
  <1> USE DEF FullInv, TypeOK
  <1>0. outputs' \in Nat /\ outputs <= outputs' /\ now' \in Nat /\ now <= now'
    <2>1. TypeOK'
      BY TypeStep
    <2>2. /\ outputs' = outputs \/ outputs' = outputs + 1 \/ outputs' = outputs + SampleSize
          /\ now' = now \/ now' = now + 1
      BY DEF Next, Arrive, Handler, CheckCount, CheckTime, LockReseed, Recheck,
             CollectFails, ReseedDrbg, Stamp, Draw, Finish, SelfTest, Tick, Served, vars
    <2> QED
      BY <2>1, <2>2, ConstantsType
  <1>1. CountDue => CountDue'
    BY <1>0, ConstantsType DEF CountDue
  <1>2. TimeDue /\ lastReseed' = lastReseed => TimeDue'
    <2>1. now \in Int /\ lastReseed \in Int /\ IntervalSeconds \in Int
      BY ConstantsType
    <2>2. now' \in Int /\ now <= now'
      BY <1>0
    <2>3. \A a \in Int, b \in Int, c \in Int, d \in Int :
              a - b >= c /\ a <= d => d - b >= c
      OBVIOUS
    <2> QED
      BY <2>1, <2>2, <2>3, Zenon DEF TimeDue
  <1>3. ASSUME UNCHANGED <<pc, reseedMu, lastReseed>> PROVE MutexInv'
    BY <1>1, <1>2, <1>3 DEF MutexInv
  <1>4. ASSUME NEW r \in Requests, NEW to, pc' = [pc EXCEPT ![r] = to],
               to \notin {"recheck", "collect", "stamp"}, pc[r] \notin {"recheck", "collect", "stamp"},
               UNCHANGED <<reseedMu, lastReseed>>
        PROVE  MutexInv'
    BY <1>1, <1>2, <1>4 DEF MutexInv
  <1>5. ASSUME NEW r \in Requests, Arrive(r) \/ CheckCount(r) \/ CheckTime(r) \/ Finish(r)
        PROVE  MutexInv'
    BY <1>4, <1>5 DEF Arrive, CheckCount, CheckTime, Finish, Goto
  <1>6. ASSUME NEW r \in Requests, LockReseed(r) PROVE MutexInv'
    BY <1>6, PolicyAssumption, <1>1, <1>2 DEF LockReseed, Goto, MutexInv
  <1>7. ASSUME NEW r \in Requests,
               Recheck(r) \/ CollectFails(r) \/ ReseedDrbg(r) \/ Stamp(r)
        PROVE  MutexInv'
    <2>1. \A q \in Requests \ {r} :
              pc'[q] = pc[q] /\ pc[q] \notin {"recheck", "collect", "stamp"}
      BY <1>7 DEF Recheck, CollectFails, ReseedDrbg, Stamp, Goto, MutexInv
    <2>2. pc'[r] \in {"recheck", "collect", "stamp"} => reseedMu' = r
      BY <1>7 DEF Recheck, CollectFails, ReseedDrbg, Stamp, Goto, MutexInv
    <2>3. pc'[r] = "collect" => (CountDue \/ TimeDue) /\ lastReseed' = lastReseed
      BY <1>7 DEF Recheck, CollectFails, ReseedDrbg, Stamp, Goto
    <2> QED
      BY <1>1, <1>2, <2>1, <2>2, <2>3 DEF MutexInv
  <1>8. ASSUME NEW r \in Requests, Draw(r) PROVE MutexInv'
    BY <1>3, <1>8 DEF Draw
  <1>9. CASE SelfTest \/ Tick \/ UNCHANGED vars
    BY <1>3, <1>9 DEF SelfTest, Tick, vars
  <1> QED
    BY <1>5, <1>6, <1>7, <1>8, <1>9 DEF Next, Handler, Served

\* Only Arrive puts an item in flight, and only while a client is free.
LEMMA ClientsStep == FullInv /\ [Next]_vars => ClientsInv'
  <1> SUFFICES ASSUME FullInv, [Next]_vars PROVE ClientsInv'
    OBVIOUS
  <1> USE DEF FullInv, TypeOK
  <1>1. ASSUME NEW r \in Requests, Arrive(r) PROVE ClientsInv'
    <2>1. InFlight' = InFlight \cup {r}
      BY <1>1 DEF Arrive, Goto, InFlight, Finished
    <2>2. Cardinality(InFlight) \in Nat /\ Cardinality(InFlight) < Clients
      BY <1>1, FS_CardinalityType DEF Arrive, ClientsInv
    <2>3. /\ IsFiniteSet(InFlight')
          /\ Cardinality(InFlight') \in {Cardinality(InFlight), Cardinality(InFlight) + 1}
      BY <2>1, FS_AddElement DEF ClientsInv
    <2> QED
      BY <2>2, <2>3, ConstantsType DEF ClientsInv
  <1>2. ASSUME InFlight' \subseteq InFlight PROVE ClientsInv'
    <2>1. IsFiniteSet(InFlight') /\ Cardinality(InFlight') <= Cardinality(InFlight)
      BY <1>2, FS_Subset DEF ClientsInv
    <2>2. Cardinality(InFlight) \in Nat /\ Cardinality(InFlight') \in Nat
      BY <2>1, FS_CardinalityType DEF ClientsInv
    <2> QED
      BY <2>1, <2>2, ConstantsType DEF ClientsInv
  <1>3. ASSUME NEW r \in Requests, Handler(r) PROVE InFlight' \subseteq InFlight
    <2>1. pc[r] \notin {"idle"} \cup Finished /\ \A q \in Requests \ {r} : pc'[q] = pc[q]
      BY <1>3 DEF Handler, CheckCount, CheckTime, LockReseed, Recheck, CollectFails,
                  ReseedDrbg, Stamp, Draw, Finish, Goto, Finished
    <2> QED
      BY <2>1 DEF InFlight
  <1>4. CASE SelfTest \/ Tick \/ UNCHANGED vars
    BY <1>2, <1>4 DEF SelfTest, Tick, vars, InFlight
  <1> QED
    BY <1>1, <1>2, <1>3, <1>4 DEF Next, Served

\* A step that gives no item anything more to draw, and draws nothing.
LEMMA BudgetShrinks ==
    ASSUME FullInv, Budget' \subseteq Budget, drawn' = drawn
    PROVE  BudgetInv'
  <1>1. IsFiniteSet(Budget) /\ Cardinality(Budget) \in Nat /\ Clients * PerItem \in Nat
    BY BudgetBound DEF FullInv
  <1>2. IsFiniteSet(Budget') /\ Cardinality(Budget') <= Cardinality(Budget)
    BY <1>1, FS_Subset
  <1>3. Cardinality(Budget') \in Nat /\ drawn \in Nat /\ IntervalOutputs \in Nat
    BY <1>2, FS_CardinalityType, ConstantsType DEF FullInv, TypeOK
  <1>4. drawn + Cardinality(Budget) < IntervalOutputs + Clients * PerItem
    BY DEF FullInv, BudgetInv
  <1>5. drawn + Cardinality(Budget') < IntervalOutputs + Clients * PerItem
    BY <1>1, <1>2, <1>3, <1>4
  <1> QED
    BY <1>5 DEF BudgetInv

\* A seed from which less than an interval was drawn has room for every client.
LEMMA BudgetFresh ==
    ASSUME ClientsInv', drawn' \in Nat, drawn' < IntervalOutputs
    PROVE  BudgetInv'
  <1>0. Budget' \subseteq InFlight' \X (1..PerItem)
    BY DEF Budget
  <1>1. /\ Cardinality(Budget') \in Nat /\ Cardinality(Budget') <= Clients * PerItem
        /\ Clients * PerItem \in Nat
    BY <1>0, ProductBound DEF ClientsInv
  <1>2. IntervalOutputs \in Nat
    BY ConstantsType
  <1> QED
    BY <1>1, <1>2 DEF BudgetInv

\* An item goes on to draw only where the counter was not due, or from a fresh
\* seed; a draw takes from the budget what it adds to the seed's account.
LEMMA BudgetStep == FullInv /\ [Next]_vars => BudgetInv'
  <1> SUFFICES ASSUME FullInv, [Next]_vars PROVE BudgetInv'
    OBVIOUS
  <1>1. TypeOK' /\ ClientsInv'
    BY TypeStep, ClientsStep
  <1>2. ASSUME NEW r \in Requests, NEW to, pc' = [pc EXCEPT ![r] = to],
               to \in Drawing => pc[r] \in Drawing,
               UNCHANGED rejects,
               left' = left \/ (to = "count" /\ \E n : left' = [left EXCEPT ![r] = n])
        PROVE  Budget' \subseteq Budget
    <2> SUFFICES ASSUME NEW x \in Budget' PROVE x \in Budget
      OBVIOUS
    <2>1. /\ x[1] \in Requests /\ pc'[x[1]] \in Drawing /\ x[2] \in 1..PerItem
          /\ x = <<x[1], x[2]>>
          /\ x[2] <= left'[x[1]] + MaxRejects - rejects[x[1]]
      BY <1>2 DEF Budget, InFlight
    <2>2. left'[x[1]] = left[x[1]]
      BY <1>2, <2>1 DEF FullInv, TypeOK, Drawing
    <2>3. pc[x[1]] \in Drawing
      BY <1>2, <2>1 DEF FullInv, TypeOK
    <2>4. x[1] \in InFlight
      BY <2>1, <2>3 DEF InFlight, Drawing, Finished
    <2> QED
      BY <2>1, <2>2, <2>3, <2>4 DEF Budget
  <1>3. ASSUME UNCHANGED <<pc, left, rejects, drawn>> PROVE BudgetInv'
    <2>1. Budget' = Budget
      BY <1>3 DEF Budget, InFlight
    <2> QED
      BY <1>3, <2>1, BudgetShrinks
  <1>4. ASSUME ~CountDue, drawn' = drawn PROVE BudgetInv'
    <2>1. drawn' \in Nat /\ drawn' < IntervalOutputs
      BY <1>4, ConstantsType DEF CountDue, FullInv, TypeOK
    <2> QED
      BY <1>1, <2>1, BudgetFresh
  <1>5. ASSUME NEW r \in Requests, Arrive(r) PROVE BudgetInv'
    <2>1. Budget' \subseteq Budget /\ drawn' = drawn
      BY <1>2, <1>5 DEF Arrive, Goto, Drawing
    <2> QED
      BY <2>1, BudgetShrinks
  <1>6. ASSUME NEW r \in Requests, CheckCount(r) PROVE BudgetInv'
    <2>1. CASE CountDue
      <3>1. Budget' \subseteq Budget /\ drawn' = drawn
        BY <1>2, <1>6, <2>1 DEF CheckCount, Goto, Drawing
      <3> QED
        BY <3>1, BudgetShrinks
    <2> QED
      BY <1>4, <1>6, <2>1 DEF CheckCount
  <1>7. ASSUME NEW r \in Requests,
               CheckTime(r) \/ LockReseed(r) \/ CollectFails(r) \/ Stamp(r) \/ Finish(r)
        PROVE  BudgetInv'
    <2>1. Budget' \subseteq Budget /\ drawn' = drawn
      BY <1>2, <1>7 DEF CheckTime, LockReseed, CollectFails, Stamp, Finish, Goto, Drawing
    <2> QED
      BY <2>1, BudgetShrinks
  <1>8. ASSUME NEW r \in Requests, Recheck(r) PROVE BudgetInv'
    <2>1. CASE CountDue
      <3>1. Budget' \subseteq Budget /\ drawn' = drawn
        BY <1>2, <1>8, <2>1 DEF Recheck, Goto, Drawing
      <3> QED
        BY <3>1, BudgetShrinks
    <2> QED
      BY <1>4, <1>8, <2>1 DEF Recheck
  <1>9. ASSUME NEW r \in Requests, ReseedDrbg(r) PROVE BudgetInv'
    BY <1>1, <1>9, BudgetFresh, ConstantsType DEF ReseedDrbg
  <1>10. ASSUME NEW r \in Requests, Draw(r) PROVE BudgetInv'
    <2> DEFINE last == left[r] + MaxRejects - rejects[r]
    <2>1. /\ pc[r] = "draw" /\ pc' = pc /\ drawn' = drawn + 1 /\ drawn \in Nat
          /\ left[r] \in 1..Max(DrawCounts) /\ rejects[r] \in 0..MaxRejects
          /\ left'[r] + MaxRejects - rejects'[r] = last - 1
          /\ \A q \in Requests \ {r} : left'[q] = left[q] /\ rejects'[q] = rejects[q]
      BY <1>10, ConstantsType DEF Draw, FullInv, TypeOK
    <2>2. last \in 1..PerItem
      BY <2>1, ConstantsType DEF PerItem
    <2>3. <<r, last>> \in Budget
      BY <2>1, <2>2 DEF Budget, InFlight, Drawing, Finished
    <2>4. Budget' \subseteq Budget \ {<<r, last>>}
      <3> SUFFICES ASSUME NEW x \in Budget' PROVE x \in Budget /\ x # <<r, last>>
        OBVIOUS
      <3>1. /\ x[1] \in InFlight /\ pc[x[1]] \in Drawing /\ x[2] \in 1..PerItem
            /\ x = <<x[1], x[2]>> /\ x[1] \in Requests
            /\ x[2] <= left'[x[1]] + MaxRejects - rejects'[x[1]]
        BY <2>1 DEF Budget, InFlight
      <3>2. CASE x[1] = r
        <4>1. x[2] <= last - 1
          BY <2>1, <3>1, <3>2
        <4>2. x[2] <= last /\ x[2] # last
          BY <2>2, <3>1, <4>1
        <4> QED
          BY <3>1, <3>2, <4>2 DEF Budget
      <3>3. CASE x[1] # r
        BY <2>1, <3>1, <3>3 DEF Budget
      <3> QED
        BY <3>2, <3>3
    <2>5. IsFiniteSet(Budget) /\ Cardinality(Budget) \in Nat /\ Clients * PerItem \in Nat
      BY BudgetBound DEF FullInv
    <2> HIDE DEF last
    <2>6. /\ IsFiniteSet(Budget \ {<<r, last>>})
          /\ Cardinality(Budget \ {<<r, last>>}) = Cardinality(Budget) - 1
      BY <2>3, <2>5, FS_RemoveElement
    <2>7. IsFiniteSet(Budget') /\ Cardinality(Budget') <= Cardinality(Budget) - 1
      BY <2>4, <2>6, FS_Subset
    <2>8. Cardinality(Budget') \in Nat /\ IntervalOutputs \in Nat
      BY <2>7, FS_CardinalityType, ConstantsType
    <2>9. drawn + Cardinality(Budget) < IntervalOutputs + Clients * PerItem
      BY DEF FullInv, BudgetInv
    <2>10. drawn' + Cardinality(Budget') < IntervalOutputs + Clients * PerItem
      BY <2>1, <2>5, <2>7, <2>8, <2>9
    <2> QED
      BY <2>10 DEF BudgetInv
  <1>11. CASE SelfTest \/ Tick \/ UNCHANGED vars
    BY <1>3, <1>11 DEF SelfTest, Tick, vars
  <1> QED
    BY <1>5, <1>6, <1>7, <1>8, <1>9, <1>10, <1>11 DEF Next, Handler, Served

\* A reseed by time comes an interval after the last one was stamped, which its
\* holder of reseedMu found and nobody else can have changed since.
LEMMA ApartStep == FullInv /\ [Next]_vars => ApartInv'
  <1> SUFFICES ASSUME FullInv, [Next]_vars, ~CountDue' PROVE ApartInv'
    BY DEF ApartInv
  <1> DEFINE I == IntervalSeconds
  <1>1. /\ seeds \in Nat /\ now \in Nat /\ lastReseed \in 0..now /\ I \in Nat
        /\ seeds * I \in Nat /\ outputs \in Nat /\ SampleSize \in Nat
        /\ IntervalOutputs \in Nat
        /\ pc = [q \in Requests |-> pc[q]]
    BY ConstantsType DEF FullInv, TypeOK, Finished
  <1>2. ~CountDue
    <2>1. outputs' = outputs \/ outputs' = outputs + 1 \/ outputs' = outputs + SampleSize
      BY DEF Next, Arrive, Handler, CheckCount, CheckTime, LockReseed, Recheck,
             CollectFails, ReseedDrbg, Stamp, Draw, Finish, SelfTest, Tick, Served, vars
    <2> QED
      BY <1>1, <2>1 DEF CountDue
  <1>3. /\ seeds * I <= now
        /\ seeds * I <= lastReseed \/ \E r \in Requests : pc[r] = "stamp"
    BY <1>2 DEF FullInv, ApartInv
  <1> HIDE DEF I
  <1>4. ASSUME UNCHANGED <<seeds, lastReseed>>, now' \in {now, now + 1},
               \A r \in Requests : pc[r] = "stamp" => pc'[r] = "stamp"
        PROVE  ApartInv'
    <2>1. seeds' * I <= now' /\ (seeds * I <= lastReseed => seeds' * I <= lastReseed')
      BY <1>1, <1>3, <1>4
    <2>2. seeds' * I <= lastReseed' \/ \E r \in Requests : pc'[r] = "stamp"
      BY <1>3, <1>4, <2>1
    <2> QED
      BY <2>1, <2>2 DEF ApartInv, I
  <1>5. ASSUME NEW r \in Requests,
               \/ Arrive(r) \/ CheckCount(r) \/ CheckTime(r) \/ LockReseed(r)
               \/ Recheck(r) \/ CollectFails(r) \/ Draw(r) \/ Finish(r)
        PROVE  ApartInv'
    <2>1. UNCHANGED <<seeds, lastReseed, now>>
      BY <1>5 DEF Arrive, CheckCount, CheckTime, LockReseed, Recheck, CollectFails,
                  Draw, Finish
    <2>2. pc[r] # "stamp" /\ \A q \in Requests \ {r} : pc'[q] = pc[q]
      BY <1>1, <1>5 DEF Arrive, CheckCount, CheckTime, LockReseed, Recheck,
                        CollectFails, Draw, Finish, Goto
    <2> QED
      BY <1>4, <2>1, <2>2
  <1>6. ASSUME NEW r \in Requests, ReseedDrbg(r) PROVE ApartInv'
    <2>1. /\ pc[r] = "collect" /\ pc' = [pc EXCEPT ![r] = "stamp"]
          /\ seeds' = seeds + 1 /\ UNCHANGED <<now, lastReseed>>
      BY <1>6 DEF ReseedDrbg, Goto
    <2>2. ~ \E q \in Requests : pc[q] = "stamp"
      BY <2>1 DEF FullInv, MutexInv
    <2>3. now - lastReseed >= I
      BY <1>2, <2>1 DEF FullInv, MutexInv, TimeDue, I
    <2>4. (seeds + 1) * I = seeds * I + I
      BY <1>1
    <2>5. seeds' * I <= now'
      BY <1>1, <1>3, <2>1, <2>2, <2>3, <2>4
    <2>6. pc'[r] = "stamp"
      BY <1>1, <2>1
    <2> QED
      BY <2>5, <2>6 DEF ApartInv, I
  <1>7. ASSUME NEW r \in Requests, Stamp(r) PROVE ApartInv'
    <2>1. seeds' = seeds /\ now' = now /\ lastReseed' = now
      BY <1>7 DEF Stamp
    <2>2. seeds' * I <= now' /\ seeds' * I <= lastReseed'
      BY <1>3, <2>1
    <2> QED
      BY <2>2 DEF ApartInv, I
  <1>8. CASE SelfTest \/ Tick \/ UNCHANGED vars
    BY <1>1, <1>4, <1>8 DEF SelfTest, Tick, vars
  <1> QED
    BY <1>5, <1>6, <1>7, <1>8 DEF Next, Handler, Served

-----------------------------------------------------------------------------
(* The theorems.                                                           *)

\* The inductive invariant holds throughout.
LEMMA ReseedFull == Spec => []FullInv
  <1>1. FullInv /\ [Next]_vars => FullInv'
    BY TypeStep, MutexStep, ClientsStep, BudgetStep, ApartStep DEF FullInv
  <1> QED
    BY <1>1, ReseedInit, PTL DEF Spec

\* Whatever the handlers and the self-tester do meanwhile, handlers draw less than
\* an interval and the allowance of the items in flight from one seed
\* (reseedIfNeeded).
THEOREM OvershootIsBounded == Spec => []ReseedInv
  <1>1. FullInv => ReseedInv
    <2> SUFFICES ASSUME FullInv PROVE OvershootBounded
      BY DEF FullInv, ReseedInv
    <2>1. Cardinality(Budget) \in Nat /\ Clients * PerItem \in Nat
      BY BudgetBound DEF FullInv
    <2>2. drawn < IntervalOutputs + Clients * PerItem
      BY <2>1, ConstantsType DEF FullInv, BudgetInv, TypeOK
    <2> QED
      BY <2>2 DEF OvershootBounded, PerItem
  <1> QED
    BY <1>1, ReseedFull, PTL

\* For any number of requests that find a reseed due at once, and any interval: up to
\* the moment the count is due no interval sees a second reseed by time, for whoever
\* waited for reseedMu checks again under it (reseedIfNeeded).
THEOREM ReseedsAreApart == Spec => []ReseedsApart
  <1>1. FullInv => ReseedsApart
    BY DEF FullInv, ApartInv, ReseedsApart
  <1> QED
    BY <1>1, ReseedFull, PTL
=============================================================================
