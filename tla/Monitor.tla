------------------------------- MODULE Monitor -------------------------------
(***************************************************************************)
(* The integrity checks around the generator (internal/health) and the life*)
(* of the process (cmd/rng-service/main.go): the startup check, and three  *)
(* goroutines beside the handlers.  The self-tester runs its tests and     *)
(* publishes the results; the watcher hashes the executable and sets a     *)
(* gauge; the updater copies the results to gauges.  GET /v1/health looks  *)
(* at all of them, one after the other.                                    *)
(*                                                                         *)
(* A run of the tests is its number and whether a p-value was critical.    *)
(* The tickers may fire at any time.                                       *)
(***************************************************************************)
EXTENDS Integers, FiniteSets

CONSTANTS
    Probes,         \* the GET /v1/health requests of a run
    DevBuild,       \* no hash was embedded at build time
    MaxRuns,        \* bound: runs of the tests
    MaxChanges      \* bound: changes to the executable file

ASSUME MonitorAssumption ==
    DevBuild \in BOOLEAN /\ {MaxRuns, MaxChanges} \subseteq Nat

VARIABLES
    phase,      \* of the process
    exe,        \* the executable on disk: as built, another, or unreadable
    changes,    \* how often it was changed
    startup,    \* Checker.startupHash
    tester,     \* the self-tester: NoRun, or the new results in hand
    results,    \* SelfTester.results
    watcher,    \* the tamper goroutine: waiting, or the outcome of Verify
    matches,    \* the gauge BinaryHashMatches
    updater,    \* the updater: NoRun, or the results it read
    gauge,      \* the gauges NISTTestPValue
    probe,      \* where each health request is
    report,     \* the status it reports
    stood,      \* history: problems present ever since the probe began
    met         \* history: problems present at some moment since then

monitorVars == <<phase, exe, changes, startup, tester, results, watcher, matches, updater,
          gauge, probe, report, stood, met>>

Background == <<tester, watcher, updater>>
Health == <<probe, report>>

NoRun == [run |-> 0, critical |-> FALSE]
Runs == [run : 0..MaxRuns, critical : BOOLEAN]
\* What the checks are there to find.
Problems(file, res) ==
    (IF file # startup THEN {"tampered"} ELSE {})
        \cup (IF res.critical THEN {"critical"} ELSE {})

\* Keep the histories of the running probes as the file or the results change.
Observe(file, res) ==
    LET running == {p \in Probes : probe[p] \in {"verify", "results"}}
    IN  /\ stood' = [p \in Probes |-> IF p \in running
                                      THEN stood[p] \cap Problems(file, res)
                                      ELSE stood[p]]
        /\ met' = [p \in Probes |-> IF p \in running
                                    THEN met[p] \cup Problems(file, res)
                                    ELSE met[p]]

Alive == phase \in {"serving", "stopping"}

MonitorInit ==
    /\ phase = "starting"
    /\ exe \in {"built", "other"}
    /\ changes = 0
    /\ startup = "none"
    /\ tester = NoRun
    /\ results = NoRun
    /\ watcher = "waiting"
    /\ matches = TRUE
    /\ updater = NoRun
    /\ gauge = NoRun
    /\ probe = [p \in Probes |-> "idle"]
    /\ report = [p \in Probes |-> "none"]
    /\ stood = [p \in Probes |-> {}]
    /\ met = [p \in Probes |-> {}]

\* health.New hashes the executable and compares it with the embedded hash, if
\* there is one; the entropy pool then seeds the DRBG.
Start ==
    /\ phase = "starting"
    /\ exe = "built" \/ (DevBuild /\ exe # "unreadable")
    /\ startup' = exe
    /\ phase' = "serving"
    /\ UNCHANGED <<exe, changes, results, matches, gauge, stood, met>>
    /\ UNCHANGED <<Background, Health>>

\* Tampered, unreadable, or no entropy: log.Fatalf.
RefuseToServe ==
    /\ phase = "starting"
    /\ phase' = "down"
    /\ UNCHANGED <<exe, changes, startup, results, matches, gauge, stood, met>>
    /\ UNCHANGED <<Background, Health>>

\* Someone replaces, removes or restores the file.
Change(file) ==
    /\ changes < MaxChanges
    /\ changes' = changes + 1
    /\ exe' = file
    /\ Observe(file, results)
    /\ UNCHANGED <<phase, startup, results, matches, gauge>>
    /\ UNCHANGED <<Background, Health>>

\* RunAll draws a sample and tests it.
RunTests ==
    /\ Alive
    /\ tester = NoRun
    /\ results.run < MaxRuns
    /\ \E c \in BOOLEAN : tester' = [run |-> results.run + 1, critical |-> c]
    /\ UNCHANGED <<phase, exe, changes, startup, results, watcher, matches, updater,
                   gauge, stood, met, Health>>

\* runAndLog publishes the results, and logs a critical one.
Publish ==
    /\ Alive
    /\ tester # NoRun
    /\ results' = tester
    /\ tester' = NoRun
    /\ Observe(exe, tester)
    /\ UNCHANGED <<phase, exe, changes, startup, watcher, matches, updater, gauge,
                   Health>>

\* Checker.Verify: an executable that cannot be read is an error as well.
Watch ==
    /\ Alive
    /\ watcher = "waiting"
    /\ watcher' = IF exe = startup THEN "ok" ELSE "tampered"
    /\ UNCHANGED <<phase, exe, changes, startup, tester, results, matches, updater,
                   gauge, stood, met, Health>>

\* Mutant of SetMatches: only a good outcome is reported.
SetMatchesOk ==
    /\ Alive
    /\ watcher # "waiting"
    /\ matches' = (matches \/ watcher = "ok")
    /\ watcher' = "waiting"
    /\ UNCHANGED <<phase, exe, changes, startup, tester, results, updater, gauge,
                   stood, met, Health>>

SetMatches ==
    /\ Alive
    /\ watcher # "waiting"
    /\ matches' = (watcher = "ok")
    /\ watcher' = "waiting"
    /\ UNCHANGED <<phase, exe, changes, startup, tester, results, updater, gauge,
                   stood, met, Health>>

ReadResults ==
    /\ Alive
    /\ updater = NoRun
    /\ results # NoRun
    /\ updater' = results
    /\ UNCHANGED <<phase, exe, changes, startup, tester, results, watcher, matches,
                   gauge, stood, met, Health>>

SetGauge ==
    /\ Alive
    /\ updater # NoRun
    /\ gauge' = updater
    /\ updater' = NoRun
    /\ UNCHANGED <<phase, exe, changes, startup, tester, results, watcher, matches,
                   stood, met, Health>>

Step(p, from, to) == Alive /\ probe[p] = from /\ probe' = [probe EXCEPT ![p] = to]

Unobserved == UNCHANGED <<phase, exe, changes, startup, results, matches, gauge,
                          Background>>

ProbeStart(p) ==
    /\ phase = "serving"
    /\ Step(p, "idle", "verify")
    /\ stood' = [stood EXCEPT ![p] = Problems(exe, results)]
    /\ met' = [met EXCEPT ![p] = Problems(exe, results)]
    /\ UNCHANGED report
    /\ Unobserved

\* handleHealth: Checker.Verify decides the status first ...
ProbeVerify(p) ==
    /\ Step(p, "verify", "results")
    /\ report' = [report EXCEPT ![p] = IF exe = startup THEN "ok" ELSE "error"]
    /\ UNCHANGED <<stood, met>>
    /\ Unobserved

\* Mutant of ProbeResults: the tests decide, whatever Verify said.
ProbeResultsOnly(p) ==
    /\ Step(p, "results", "done")
    /\ report' = [report EXCEPT ![p] = IF results.critical THEN "error" ELSE "ok"]
    /\ UNCHANGED <<stood, met>>
    /\ Unobserved

\* ... and HasCriticalFailure may turn it into an error.
ProbeResults(p) ==
    /\ Step(p, "results", "done")
    /\ report' = [report EXCEPT ![p] = IF results.critical THEN "error" ELSE @]
    /\ UNCHANGED <<stood, met>>
    /\ Unobserved

\* SIGTERM: the listeners close, and running handlers have 15 seconds.
Stop ==
    /\ phase = "serving"
    /\ phase' = "stopping"
    /\ UNCHANGED <<exe, changes, startup, results, matches, gauge, stood, met>>
    /\ UNCHANGED <<Background, Health>>

\* The handlers are done, or the 15 seconds are over.
Exit ==
    /\ phase = "stopping"
    /\ phase' = "down"
    /\ UNCHANGED <<exe, changes, startup, results, matches, gauge, stood, met>>
    /\ UNCHANGED <<Background, Health>>

Down == phase = "down" /\ UNCHANGED monitorVars

MonitorNext ==
    \/ Start \/ RefuseToServe \/ Stop \/ Exit \/ Down
    \/ \E file \in {"built", "other", "unreadable"} : Change(file)
    \/ RunTests \/ Publish
    \/ Watch \/ SetMatches
    \/ ReadResults \/ SetGauge
    \/ \E p \in Probes : ProbeStart(p) \/ ProbeVerify(p) \/ ProbeResults(p)

\* The tickers go on firing and the goroutines run.
Fairness ==
    /\ WF_monitorVars(Watch \/ SetMatches)
    /\ WF_monitorVars(ReadResults \/ SetGauge)
    /\ WF_monitorVars(Publish)

MonitorSpec == MonitorInit /\ [][MonitorNext]_monitorVars

FairSpec == MonitorSpec /\ Fairness

-----------------------------------------------------------------------------
(* Properties.                                                             *)

Files == {"built", "other", "unreadable"}

\* Every variable holds a value of its kind, no gauge is ahead of the results,
\* and a release build serves from the executable it was built as only.
MonitorTypeOK ==
    /\ phase \in {"starting", "serving", "stopping", "down"}
    /\ exe \in Files
    /\ changes \in 0..MaxChanges
    /\ startup \in {"none", "built"} \cup (IF DevBuild THEN {"other"} ELSE {})
    /\ tester \in Runs
    /\ results \in Runs
    /\ watcher \in {"waiting", "ok", "tampered"}
    /\ matches \in BOOLEAN
    /\ updater \in Runs
    /\ gauge \in Runs
    /\ gauge.run <= results.run
    /\ probe \in [Probes -> {"idle", "verify", "results", "done"}]
    /\ report \in [Probes -> {"none", "ok", "error"}]

\* Though it looks at one check after the other, a health request misses no
\* problem that was there all along, and invents none: it says error only if
\* there was one at some moment (handleHealth).
HealthTruthful ==
    \A p \in Probes : probe[p] = "done" =>
        /\ stood[p] # {} => report[p] = "error"
        /\ report[p] = "error" => met[p] # {}

\* The invariant of the process (runServe, handleHealth): types, a release build
\* that serves from its own executable only, and truthful health reports.
MonitorInv == MonitorTypeOK /\ HealthTruthful

\* An executable that is altered and stays so turns the gauge off, whatever the
\* watcher had already seen (runServe, tamper goroutine).
TamperNoticed ==
    (phase = "serving" /\ exe # startup)
        ~> (~matches \/ exe = startup \/ phase # "serving")

\* What the self-tester published reaches the gauges, though the two tickers
\* are not synchronised (runServe, NIST metrics goroutine).
ResultsReachGauge ==
    \A k \in 1..MaxRuns :
        results.run = k ~> (gauge.run >= k \/ phase # "serving")

\* Whatever the background goroutines of runServe observe is seen in the gauges.
ChangesSeen == TamperNoticed /\ ResultsReachGauge
=============================================================================
