------------------------------ MODULE Throttle ------------------------------
(***************************************************************************)
(* How the legacy service's web server limits the rate of an answer:       *)
(* set_throttle gives each request the rate its URI is meant to have, and  *)
(* mg_write keeps to it by sending an answer in parts, one a second        *)
(* (civetweb.c).  A worker's connection structure is looked at, which      *)
(* serves one client after the other: last_throttle_time and               *)
(* last_throttle_bytes outlive the request and the client they were set    *)
(* for.                                                                    *)
(*                                                                         *)
(* Bytes are counted, not named.  Seconds are those of time(NULL); send    *)
(* may wait for the client, so that a second may end before each byte.     *)
(***************************************************************************)
EXTENDS Integers, Sequences

CONSTANTS
    ThrottleUris,  \* the URIs asked for
    ThrottleRules, \* the throttle option: the rate of each entry, and the URIs it is meant for
    TopRate,       \* no entry has a higher rate
    WriteSizes,    \* what mg_write is given at once
    MaxWrites,     \* bound on the calls of mg_write
    MaxSeconds     \* bound on the time

ASSUME ThrottleAssumption ==
    /\ ThrottleRules \in Seq([rate: Int, uris: SUBSET ThrottleUris])
    /\ TopRate \in Nat /\ \A i \in DOMAIN ThrottleRules : ThrottleRules[i].rate <= TopRate
    /\ WriteSizes \subseteq Nat /\ MaxWrites \in Nat /\ MaxSeconds \in Nat

VARIABLES
    second,    \* time(NULL)
    quota,     \* throttle, last_throttle_time, last_throttle_bytes, num_bytes_sent of the connection
    writer,    \* where mg_write and push_all are, and their variables
    socket,    \* what it took: of this answer, and at a limited rate in this second; and its end
    stop_flag, \* the server's
    writes     \* how often mg_write was called

throttleVars == <<second, quota, writer, socket, stop_flag, writes>>

\* The steps of mg_write ("first", "parts" and "whole" are its three calls of push_all) and of push_all.
Stages == {"first", "parts", "whole"}
Steps == {"idle", "push_all", "send", "pushed", "next", "sleep"}

\* The last entry that has a rate and is meant for this URI; no limit without one.
set_throttle(uri) ==
    LET meant == {i \in 1..Len(ThrottleRules) : ThrottleRules[i].rate >= 0 /\ uri \in ThrottleRules[i].uris}
    IN  IF meant = {} THEN 0
        ELSE ThrottleRules[CHOOSE i \in meant : \A j \in meant : j <= i].rate

Fewer(a, b) == IF a <= b THEN a ELSE b

ThrottleInit ==
    /\ second = 0
    /\ quota = [throttle |-> 0, last_throttle_time |-> 0, last_throttle_bytes |-> 0, num_bytes_sent |-> 0]
    /\ writer = [at |-> "idle", stage |-> "whole", len |-> 0, total |-> 0, allowed |-> 0,
                 nwritten |-> 0, start |-> 0, ret |-> 0]
    /\ socket = [taken |-> 0, limited |-> 0, gone |-> FALSE, cut |-> FALSE]
    /\ stop_flag = FALSE /\ writes = 0

\* The connection's structure is used for the next client, and no field of quota is reset.
NextClient ==
    /\ writer.at = "idle" /\ ~stop_flag
    /\ socket' = [taken |-> 0, limited |-> 0, gone |-> FALSE, cut |-> FALSE]
    /\ quota' = [quota EXCEPT !.throttle = 0, !.num_bytes_sent = 0]
    /\ UNCHANGED <<second, writer, stop_flag, writes>>

\* reset_per_request_attributes and, unless the request is refused before its URI is known,
\* handle_request's set_throttle.
NextRequest ==
    /\ writer.at = "idle" /\ ~stop_flag
    /\ \E rate \in {0} \cup {set_throttle(uri) : uri \in ThrottleUris} :
          quota' = [quota EXCEPT !.throttle = rate, !.num_bytes_sent = 0]
    /\ socket' = [socket EXCEPT !.taken = 0, !.cut = FALSE]
    /\ UNCHANGED <<second, writer, stop_flag, writes>>

\* push_all is called for so many bytes, none if they are fewer than that.
Push(w, stage, allowed) == [w EXCEPT !.at = "push_all", !.stage = stage, !.allowed = allowed, !.nwritten = 0]

\* mg_write up to its first call of push_all: a new second has a new quota.
mg_write ==
    /\ writer.at = "idle" /\ writes < MaxWrites
    /\ \E len \in WriteSizes :
          LET now == IF second # quota.last_throttle_time
                     THEN [quota EXCEPT !.last_throttle_time = second, !.last_throttle_bytes = 0]
                     ELSE quota
              w == [writer EXCEPT !.len = len, !.total = 0]
          IN  IF quota.throttle > 0
              THEN /\ quota' = now
                   /\ writer' = Push(w, "first", Fewer(quota.throttle - now.last_throttle_bytes, len))
              ELSE writer' = Push(w, "whole", len) /\ UNCHANGED quota
    /\ writes' = writes + 1
    /\ UNCHANGED <<second, socket, stop_flag>>

\* push_all's loop: push_inner is called until all is sent or the server stops.
push_all ==
    /\ writer.at = "push_all"
    /\ writer' = IF writer.nwritten < writer.allowed /\ ~stop_flag
                 THEN [writer EXCEPT !.at = "send", !.start = second]
                 ELSE [writer EXCEPT !.at = "pushed"]
    /\ UNCHANGED <<second, quota, socket, stop_flag, writes>>

\* It breaks off: what was written so far, -1 if nothing was.
BreaksOff == writer' = [writer EXCEPT !.at = "pushed", !.nwritten = IF @ = 0 THEN -1 ELSE @]

\* push_inner: the socket takes some of the bytes.  If the server has been told to stop, they are gone
\* and not counted.
Send ==
    /\ writer.at = "send" /\ ~socket.gone
    /\ \E k \in 1..writer.allowed - writer.nwritten :
          /\ socket' = [socket EXCEPT !.taken = @ + k, !.limited = IF quota.throttle > 0 THEN @ + k ELSE @]
          /\ IF stop_flag THEN BreaksOff
             ELSE writer' = [writer EXCEPT !.at = "push_all", !.nwritten = @ + k]
    /\ UNCHANGED <<second, quota, stop_flag, writes>>

\* push_inner gives up: the client is gone, it has not taken a byte for request_timeout_ms, at least a
\* second, or the server has been told to stop.
SendFails ==
    /\ writer.at = "send"
    /\ \/ socket' = [socket EXCEPT !.gone = TRUE, !.cut = @ \/ writer.stage = "parts"]
       \/ /\ second > writer.start \/ stop_flag
          /\ socket' = [socket EXCEPT !.cut = @ \/ writer.stage = "parts"]
    /\ BreaksOff
    /\ UNCHANGED <<second, quota, stop_flag, writes>>

\* mg_write returns.
Return(total) ==
    /\ writer' = [writer EXCEPT !.at = "idle", !.ret = total]
    /\ quota' = [quota EXCEPT !.num_bytes_sent = IF total > 0 THEN @ + total ELSE @]

Pushed(stage) == writer.at = "pushed" /\ writer.stage = stage

\* Without a limit this is all of it.
WholePushed ==
    /\ Pushed("whole") /\ Return(writer.nwritten)
    /\ UNCHANGED <<second, socket, stop_flag, writes>>

\* What is left of this second's quota is sent, or was not to be: where last_throttle_bytes is above
\* the rate, nothing is sent, and the answer ends here.
FirstPushed ==
    /\ Pushed("first")
    /\ IF writer.nwritten = writer.allowed
       THEN /\ writer' = [writer EXCEPT !.at = "next", !.total = writer.nwritten]
            /\ quota' = [quota EXCEPT !.last_throttle_bytes = @ + writer.nwritten]
       ELSE Return(writer.nwritten)
    /\ UNCHANGED <<second, socket, stop_flag, writes>>

\* A further part, at once, or the end.
NextPart ==
    /\ writer.at = "next"
    /\ IF writer.total < writer.len /\ ~stop_flag
       THEN /\ writer' = Push(writer, "parts", Fewer(quota.throttle, writer.len - writer.total))
            /\ UNCHANGED quota
       ELSE Return(writer.total)
    /\ UNCHANGED <<second, socket, stop_flag, writes>>

\* Mutant of PartPushed: it does not sleep behind the part.
PartPushedAwake ==
    /\ Pushed("parts")
    /\ IF writer.nwritten = writer.allowed
       THEN /\ writer' = [writer EXCEPT !.at = "next", !.total = @ + writer.nwritten]
            /\ UNCHANGED quota
       ELSE Return(writer.total)
    /\ UNCHANGED <<second, socket, stop_flag, writes>>

\* It is sent: sleep(1).  A part that broke off is not counted.
PartPushed ==
    /\ Pushed("parts")
    /\ IF writer.nwritten = writer.allowed
       THEN writer' = [writer EXCEPT !.at = "sleep", !.start = second] /\ UNCHANGED quota
       ELSE Return(writer.total)
    /\ UNCHANGED <<second, socket, stop_flag, writes>>

\* The new second is charged with the part sent in the one before.
Wake ==
    /\ writer.at = "sleep" /\ second > writer.start
    /\ quota' = [quota EXCEPT !.last_throttle_bytes = writer.allowed, !.last_throttle_time = second]
    /\ writer' = [writer EXCEPT !.at = "next", !.total = @ + writer.nwritten]
    /\ UNCHANGED <<second, socket, stop_flag, writes>>

\* A second passes, whatever mg_write is doing.
Tick ==
    /\ second < MaxSeconds
    /\ second' = second + 1
    /\ socket' = [socket EXCEPT !.limited = 0]
    /\ UNCHANGED <<quota, writer, stop_flag, writes>>

\* mg_stop.
Stop ==
    /\ ~stop_flag /\ stop_flag' = TRUE
    /\ UNCHANGED <<second, quota, writer, socket, writes>>

Writing == mg_write \/ push_all \/ Send \/ SendFails \/ WholePushed \/ FirstPushed \/ NextPart
           \/ PartPushed \/ Wake

\* The time of the run is used up.
TimeOver == second = MaxSeconds /\ UNCHANGED throttleVars

ThrottleNext == Writing \/ NextClient \/ NextRequest \/ Tick \/ Stop \/ TimeOver

ThrottleSpec == ThrottleInit /\ [][ThrottleNext]_throttleVars

-----------------------------------------------------------------------------

ThrottleTypeOK ==
    /\ second \in 0..MaxSeconds /\ writes \in 0..MaxWrites /\ stop_flag \in BOOLEAN
    /\ quota \in [throttle: 0..TopRate, last_throttle_time: 0..second, last_throttle_bytes: 0..TopRate,
                  num_bytes_sent: Nat]
    /\ writer \in [at: Steps, stage: Stages, len: Nat, total: Int, allowed: Int, nwritten: Int,
                   start: Nat, ret: Int]
    /\ socket \in [taken: Nat, limited: Nat, gone: BOOLEAN, cut: BOOLEAN]

\* No more than three times the highest rate goes out in one second, however often the rate changes
\* from one request to the next and however slowly the client takes the bytes: what mg_write began to
\* send in an earlier second, what this second's quota allows, and one part more behind that.
RateBounded == socket.limited <= 3 * TopRate

\* num_bytes_sent, which the access log reports, never counts what was not sent, and all that was once
\* mg_write has returned - except a part that broke off and what goes out while the server stops.
SentCounted ==
    /\ quota.num_bytes_sent <= socket.taken
    /\ writer.at = "idle" /\ ~socket.cut /\ ~stop_flag => quota.num_bytes_sent = socket.taken

\* The invariant of a limited connection (mg_write): types, the rate, and what is counted.
ThrottleInv == ThrottleTypeOK /\ RateBounded /\ SentCounted

\* What the declarations say of throttle and last_throttle_bytes, "bytes/sec" and "Bytes sent this
\* second" (civetweb.c:2179-2183): no more goes out in a second than the highest rate.  mg_write sends
\* a further part at once behind the one that uses up the quota.
RateKept == socket.limited <= TopRate
=============================================================================
