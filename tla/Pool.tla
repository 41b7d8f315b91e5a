--------------------------------- MODULE Pool ---------------------------------
(***************************************************************************)
(* What the web server promises of its connections, without threads,       *)
(* slots, signals and handlers: a connection that was accepted is offered  *)
(* by the master or held by one worker, goes from the master to a worker   *)
(* with nothing else to do, never back and never to another one, and is    *)
(* closed once, by the one who has it (the comments on produce_socket,     *)
(* consume_socket and close_connection in civetweb.c).                     *)
(***************************************************************************)
EXTENDS Naturals

CONSTANTS
    Sockets,    \* the connections clients open
    NoSocket,   \* INVALID_SOCKET
    Workers     \* the worker threads

VARIABLES
    offer,      \* the connection the master has for a worker
    holds,      \* the connection of each worker
    closed      \* how often each accepted connection was closed

vars == <<offer, holds, closed>>

Accepted == DOMAIN closed

Init ==
    /\ offer = NoSocket
    /\ holds = [w \in Workers |-> NoSocket]
    /\ closed = << >>

Closes(s) ==
    /\ s \in Accepted /\ closed[s] = 0
    /\ closed' = [closed EXCEPT ![s] = 1]

Accept(s) ==
    /\ offer = NoSocket /\ s \notin Accepted
    /\ closed' = [t \in Accepted \union {s} |-> IF t = s THEN 0 ELSE closed[t]]
    /\ offer' = s
    /\ UNCHANGED holds

\* The ACL excludes the client.
Refuse(s) ==
    /\ offer = NoSocket /\ s \notin Accepted
    /\ closed' = [t \in Accepted \union {s} |-> IF t = s THEN 1 ELSE closed[t]]
    /\ UNCHANGED <<offer, holds>>

Give(w) ==
    /\ offer # NoSocket /\ holds[w] = NoSocket
    /\ holds' = [holds EXCEPT ![w] = offer]
    /\ offer' = NoSocket
    /\ UNCHANGED closed

\* The server stops while the master looks for a worker.
Withdraw ==
    /\ Closes(offer)
    /\ offer' = NoSocket
    /\ UNCHANGED holds

\* Served, or given too late.
Finish(w) ==
    /\ Closes(holds[w])
    /\ holds' = [holds EXCEPT ![w] = NoSocket]
    /\ UNCHANGED offer

Next ==
    \/ \E s \in Sockets : Accept(s) \/ Refuse(s)
    \/ \E w \in Workers : Give(w) \/ Finish(w)
    \/ Withdraw

Spec == Init /\ [][Next]_vars
=============================================================================
