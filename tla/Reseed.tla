-------------------------------- MODULE Reseed --------------------------------
(***************************************************************************)
(* The re-seed policy of internal/gateway/rest.go: every item a handler    *)
(* generates first runs reseedIfNeeded, which reads the counters without a *)
(* lock, and again under reseedMu.  Other handlers keep drawing meanwhile, *)
(* and the self-tester draws without asking.  A batch is its items in turn.*)
(*                                                                         *)
(* DRBG.Generate and DRBG.Reseed are single steps here: Drbg implements    *)
(* RandomSource.  Output is counted in draws (Generate(8)), time in ticks. *)
(***************************************************************************)
EXTENDS Integers, FiniteSets, FiniteSetsExt

CONSTANTS
    Requests,           \* the items generated in a run
    NoRequest,          \* reseedMu is free
    Clients,            \* how many are being generated at once
    DrawCounts,         \* how many values an item may draw
    IntervalOutputs,    \* Reseed.IntervalOutputs
    IntervalSeconds,    \* Reseed.IntervalSeconds
    SampleSize,         \* the draws of a self-test
    EntropyCanFail,     \* getrandom may return an error
    MaxRejects,         \* bound: the draws rejected for one item
    MaxTime,            \* bound: the clock
    MaxSelfTests        \* bound: the self-tests run

ASSUME PolicyAssumption ==
    /\ NoRequest \notin Requests
    /\ IsFiniteSet(DrawCounts) /\ DrawCounts \subseteq Nat /\ DrawCounts # {}
    /\ {Clients, IntervalOutputs, IntervalSeconds} \subseteq Nat \ {0}
    /\ {SampleSize, MaxRejects, MaxTime, MaxSelfTests} \subseteq Nat
    /\ EntropyCanFail \in BOOLEAN

VARIABLES
    pc,             \* where each item is in its handler
    left,           \* the values it has still to draw
    rejects,        \* the draws RandRange rejected for it
    outputs,        \* DRBG.outputBytes
    now,            \* the clock
    lastReseed,     \* Server.lastReseed
    reseedMu,       \* the holder of Server.reseedMu, or NoRequest
    seeds,          \* history: how often the DRBG was reseeded
    drawn,          \* history: draws since then, by handlers
    sampled,        \* history: draws since then, by self-tests
    selfTests       \* the self-tests run

vars == <<pc, left, rejects, outputs, now, lastReseed, reseedMu, seeds, drawn,
          sampled, selfTests>>

Finished == {"done", "failed"}
InFlight == {r \in Requests : pc[r] \notin {"idle"} \cup Finished}

Goto(r, from, to) == pc[r] = from /\ pc' = [pc EXCEPT ![r] = to]

Init ==
    /\ pc = [r \in Requests |-> "idle"]
    /\ left = [r \in Requests |-> 0]
    /\ rejects = [r \in Requests |-> 0]
    /\ outputs = 0
    /\ now = 0
    /\ lastReseed = 0
    /\ reseedMu = NoRequest
    /\ seeds = 0
    /\ drawn = 0
    /\ sampled = 0
    /\ selfTests = 0

\* A valid item of some count and range; a range of one value needs no draw.
Arrive(r) ==
    /\ Cardinality(InFlight) < Clients
    /\ Goto(r, "idle", "count")
    /\ \E n \in DrawCounts : left' = [left EXCEPT ![r] = n]
    /\ UNCHANGED <<rejects, outputs, now, lastReseed, reseedMu, seeds, drawn, sampled, selfTests>>

CountDue == outputs >= IntervalOutputs
TimeDue == now - lastReseed >= IntervalSeconds

\* Mutant of CheckCount: only the time is asked for.
CheckCountSkipped(r) ==
    /\ Goto(r, "count", "time")
    /\ UNCHANGED <<left, rejects, outputs, now, lastReseed, reseedMu, seeds, drawn, sampled, selfTests>>

\* The first condition of the check without the lock.
CheckCount(r) ==
    /\ Goto(r, "count", IF CountDue THEN "lock" ELSE "time")
    /\ UNCHANGED <<left, rejects, outputs, now, lastReseed, reseedMu, seeds, drawn, sampled, selfTests>>

\* The second.  lastReseed is read while its writer may be at work; only the
\* monotonic word of the time is used, so the old or the new value is seen.
CheckTime(r) ==
    /\ Goto(r, "time", IF TimeDue THEN "lock" ELSE "draw")
    /\ UNCHANGED <<left, rejects, outputs, now, lastReseed, reseedMu, seeds, drawn, sampled, selfTests>>

LockReseed(r) ==
    /\ Goto(r, "lock", "recheck")
    /\ reseedMu = NoRequest
    /\ reseedMu' = r
    /\ UNCHANGED <<left, rejects, outputs, now, lastReseed, seeds, drawn, sampled, selfTests>>

\* Mutant of Recheck: no double-check.
RecheckMissing(r) ==
    /\ Goto(r, "recheck", "collect")
    /\ UNCHANGED <<left, rejects, outputs, now, lastReseed, reseedMu, seeds, drawn, sampled, selfTests>>

\* Double-check: another request may have reseeded while this one waited.
Recheck(r) ==
    /\ \/ (CountDue \/ TimeDue) /\ Goto(r, "recheck", "collect") /\ UNCHANGED reseedMu
       \/ ~(CountDue \/ TimeDue) /\ Goto(r, "recheck", "draw") /\ reseedMu' = NoRequest
    /\ UNCHANGED <<left, rejects, outputs, now, lastReseed, seeds, drawn, sampled, selfTests>>

\* Mutant of CollectFails: the request waits for reseedMu and tries again.
CollectFailsRetried(r) ==
    /\ EntropyCanFail
    /\ Goto(r, "collect", "lock")
    /\ reseedMu' = NoRequest
    /\ UNCHANGED <<left, rejects, outputs, now, lastReseed, seeds, drawn, sampled, selfTests>>

\* CollectForReseed fails: the request is answered with an error.
CollectFails(r) ==
    /\ EntropyCanFail
    /\ Goto(r, "collect", "failed")
    /\ reseedMu' = NoRequest
    /\ UNCHANGED <<left, rejects, outputs, now, lastReseed, seeds, drawn, sampled, selfTests>>

\* CollectForReseed and DRBG.Reseed; DRBG.outputBytes keeps counting.
ReseedDrbg(r) ==
    /\ Goto(r, "collect", "stamp")
    /\ seeds' = seeds + 1
    /\ drawn' = 0
    /\ sampled' = 0
    /\ UNCHANGED <<left, rejects, outputs, now, lastReseed, reseedMu, selfTests>>

Stamp(r) ==
    /\ Goto(r, "stamp", "draw")
    /\ lastReseed' = now
    /\ reseedMu' = NoRequest
    /\ UNCHANGED <<left, rejects, outputs, now, seeds, drawn, sampled, selfTests>>

\* RandRange draws, and takes the value or rejects it and draws again.
Draw(r) ==
    /\ pc[r] = "draw" /\ left[r] > 0
    /\ outputs' = outputs + 1
    /\ drawn' = drawn + 1
    /\ \/ left' = [left EXCEPT ![r] = @ - 1] /\ UNCHANGED rejects
       \/ /\ rejects[r] < MaxRejects
          /\ rejects' = [rejects EXCEPT ![r] = @ + 1]
          /\ UNCHANGED left
    /\ UNCHANGED <<pc, now, lastReseed, reseedMu, seeds, sampled, selfTests>>

\* The values are complete: the entry is audited and the item answered.
Finish(r) ==
    /\ left[r] = 0
    /\ Goto(r, "draw", "done")
    /\ UNCHANGED <<left, rejects, outputs, now, lastReseed, reseedMu, seeds, drawn, sampled, selfTests>>

\* SelfTester.RunAll draws its sample; nothing checks for a reseed.
SelfTest ==
    /\ selfTests < MaxSelfTests
    /\ selfTests' = selfTests + 1
    /\ outputs' = outputs + SampleSize
    /\ sampled' = sampled + SampleSize
    /\ UNCHANGED <<pc, left, rejects, now, lastReseed, reseedMu, seeds, drawn>>

Tick ==
    /\ now < MaxTime
    /\ now' = now + 1
    /\ UNCHANGED <<pc, left, rejects, outputs, lastReseed, reseedMu, seeds, drawn, sampled, selfTests>>

Handler(r) ==
    \/ CheckCount(r) \/ CheckTime(r) \/ LockReseed(r) \/ Recheck(r)
    \/ CollectFails(r) \/ ReseedDrbg(r) \/ Stamp(r) \/ Draw(r) \/ Finish(r)

Served == (\A r \in Requests : pc[r] \in Finished) /\ UNCHANGED vars

Next == (\E r \in Requests : Arrive(r) \/ Handler(r)) \/ SelfTest \/ Tick \/ Served

Spec == Init /\ [][Next]_vars

\* Goroutines that can run do, and sync.Mutex lets no waiter starve.
FairSpec == Spec /\ \A r \in Requests : WF_vars(Handler(r)) /\ SF_vars(LockReseed(r))

-----------------------------------------------------------------------------
(* Properties.                                                             *)

\* Every variable holds a value of its kind, the clock never runs behind the
\* last reseed, and nothing is drawn beyond what was asked for and rejected.
TypeOK ==
    /\ pc \in [Requests -> {"idle", "count", "time", "lock", "recheck", "collect",
                            "stamp", "draw"} \cup Finished]
    /\ left \in [Requests -> 0..Max(DrawCounts)]
    /\ rejects \in [Requests -> 0..MaxRejects]
    /\ outputs \in Nat
    /\ now \in 0..MaxTime
    /\ lastReseed \in 0..now
    /\ reseedMu \in Requests \cup {NoRequest}
    /\ {seeds, drawn, sampled, selfTests} \subseteq Nat
    /\ drawn + sampled <= outputs

\* Reseeds by time are an interval apart however many requests find one due at
\* once: up to the moment the count is due there was at most one reseed for each
\* interval that has passed, so none was repeated by a request that had waited for
\* reseedMu or had read lastReseed before it was set (reseedIfNeeded,
\* "Double-check after acquiring the lock").  Once the count is due it stays so,
\* and every item reseeds: see NewSeedNewCount.
ReseedsApart == ~CountDue => seeds * IntervalSeconds <= now

\* A reseed starts the count of outputs anew, so that none is made but when an
\* interval of outputs was drawn from the seed or the time is due
\* (02-algorithm-specification.md: Reseed sets "outputBytes = 0").
NewSeedNewCount ==
    [][seeds' # seeds => drawn + sampled >= IntervalOutputs \/ TimeDue]_vars

\* Handlers draw less than one interval from a seed, plus what the items in
\* flight were already allowed to draw when it ran out
\* (reseedIfNeeded checks before an item, not before a value).
OvershootBounded ==
    drawn < IntervalOutputs + Clients * (Max(DrawCounts) + MaxRejects)

\* The invariant of the policy (reseedIfNeeded): types, and the bound on what is
\* drawn from one seed.
ReseedInv == TypeOK /\ OvershootBounded

\* An item finishes: reseedMu is released on every path, and an item that fails
\* to collect entropy does not keep the others from trying.
EveryItemFinishes ==
    \A r \in Requests : pc[r] = "count" ~> pc[r] \in Finished
=============================================================================
