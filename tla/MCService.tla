------------------------------ MODULE MCService ------------------------------
(***************************************************************************)
(* Three parts of the service that share no state, for TLC: a behaviour is *)
(* about one of them, its subject, and the other two stay as they began.   *)
(***************************************************************************)
EXTENDS Monitor, RateLimiter, Scaling

VARIABLE subject

ServiceInit ==
    /\ subject \in {"monitor", "limiter", "scaling"}
    /\ MonitorInit /\ LimiterInit /\ Init

ServiceNext ==
    /\ \/ subject = "monitor" /\ MonitorNext /\ UNCHANGED <<limiterVars, vars>>
       \/ subject = "limiter" /\ LimiterNext /\ UNCHANGED <<monitorVars, vars>>
       \/ subject = "scaling" /\ Next /\ UNCHANGED <<monitorVars, limiterVars>>
    /\ UNCHANGED subject

\* While another part is the subject the process is "starting" and no goroutine of the
\* monitor can run, so that its fairness asks for nothing.
ServiceSpec ==
    /\ ServiceInit /\ [][ServiceNext]_<<subject, monitorVars, limiterVars, vars>>
    /\ Fairness
=============================================================================
