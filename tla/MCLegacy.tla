------------------------------- MODULE MCLegacy -------------------------------
(***************************************************************************)
(* The legacy service's requests and its web server's rate limit, which    *)
(* share no state, for TLC: a behaviour is about one of them, its subject, *)
(* and the other stays as it began.                                        *)
(***************************************************************************)
EXTENDS Vertex, Throttle

VARIABLE subject

\* "*=3,b=1,b=-1,c=0": the entry that is no rate is skipped.
Entry(rate, uris) == [rate |-> rate, uris |-> uris]
MCRules == <<Entry(3, ThrottleUris), Entry(1, {"b"}), Entry(-1, {"b"}), Entry(0, {"c"})>>

LegacyInit == subject \in {"requests", "throttle"} /\ Init /\ ThrottleInit

LegacyNext ==
    /\ \/ subject = "requests" /\ Next /\ UNCHANGED throttleVars
       \/ subject = "throttle" /\ ThrottleNext /\ UNCHANGED vars
    /\ UNCHANGED subject

\* While the throttle is the subject the worker is idle, so that its fairness asks for nothing.
LegacySpec == LegacyInit /\ [][LegacyNext]_<<subject, vars, throttleVars>> /\ Fairness
=============================================================================
